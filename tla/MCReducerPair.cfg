SPECIFICATION Spec
CONSTANTS
    INIT_TXID = 1
    CARRIER_VALUE = 20
    REFUND_DELAY = 2
    FOUNDING_WINDOW = 1
    INIT_LEAD = 1
    CHANGE_FLOOR = 1
    U32_MAX = 7
    Transaction <- PairTxs
    Funding <- MCFunding
    MaxHeight = 5
    MaxBlockTxs = 2
INVARIANTS
    CarrierUnspent
    EventKeysUnique

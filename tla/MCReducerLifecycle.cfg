SPECIFICATION Spec
CONSTANTS
    INIT_TXID = 1
    CARRIER_VALUE = 20
    REFUND_DELAY = 2
    FOUNDING_WINDOW = 1
    INIT_LEAD = 1
    CHANGE_FLOOR = 1
    U32_MAX = 3
    Transaction <- LifecycleTxs
    Funding <- MCFunding
    MaxHeight = 7
    MaxBlockTxs = 2
INVARIANTS
    ReducerInv
    TypeOK
    ChapterCountBounded
    ActiveIndexCoherent
    OneOperationPerBlock
    EventsExplainObjects
    RefundAfterDelay
    ObjectsOnlyAfterOpen
    JournalLinked
PROPERTIES
    ObjectsOnlyAdvance
    BranchIsCanonical

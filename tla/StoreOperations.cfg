SPECIFICATION FairSpec
CONSTANTS
    Writer = {w1, w2}
    Deployment = {d1}
    Release = {r1}
    Content = {a}
    MempoolTx = {t1, t2}
    Operation = {"apply", "rollback", "mempool"}
    MaxHeight = 1
    MaxPasses = 2
    MaxFaults = 1
    w1 = w1
    w2 = w2
    d1 = d1
    r1 = r1
    a = a
    t1 = t1
    t2 = t2
INVARIANTS
    OverlayWhole
PROPERTIES
    OperationsEnd

SPECIFICATION Spec
CONSTANTS
    Writer = {w1, w2}
    Deployment = {d1, d2}
    Release = {r1, r2}
    Content = {a, b}
    MempoolTx = {}
    Operation = {"apply", "rollback"}
    MaxHeight = 3
    MaxPasses = 0
    MaxFaults = 2
    w1 = w1
    w2 = w2
    d1 = d1
    d2 = d2
    r1 = r1
    r2 = r2
    a = a
    b = b
INVARIANTS
    ProjectionsCoherent
    OneDeployment
PROPERTIES
    RowsNeverRelabelled
    WritersShareOneChain
SYMMETRY StoreSymmetry

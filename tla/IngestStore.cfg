SPECIFICATION Spec
CONSTANTS
    Content = {a, b}
    a = a
    b = b
    MaxHeight = 3
    MaxReorgs = 1
    MaxInvalidations = 1
    Faults = {"call", "apply_ack", "rollback_ack", "reload", "crash"}
    MaxFaults = 3
SYMMETRY ContentSymmetry
INVARIANTS
    StoreCoherent
    OneBranch
PROPERTIES
    StoredIsCanonical

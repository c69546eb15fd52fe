SPECIFICATION FairSpec
CONSTANTS
    Content = {a, b}
    a = a
    b = b
    MaxHeight = 3
    MaxReorgs = 1
    MaxInvalidations = 1
    Faults = {"call", "apply_ack", "crash"}
    MaxFaults = 2
INVARIANTS
    HealthyMeansSynced
PROPERTIES
    DisconnectsOnlyStale
    CatchesUp
    ReadyAgain

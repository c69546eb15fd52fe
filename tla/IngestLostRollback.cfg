SPECIFICATION FairSpec
CONSTANTS
    Content = {a, b}
    a = a
    b = b
    MaxHeight = 2
    MaxReorgs = 1
    MaxInvalidations = 0
    Faults = {"rollback_ack"}
    MaxFaults = 1
PROPERTIES
    CatchesUp

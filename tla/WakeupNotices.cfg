SPECIFICATION ZmqFairSpec
CONSTANTS
    Content = {a, b}
    a = a
    b = b
    MaxHeight = 3
    MaxReorgs = 1
    MaxInvalidations = 0
    Faults = {"call", "apply_ack", "crash"}
    MaxFaults = 2
INVARIANTS
    AsleepMeansSynced
PROPERTIES
    NoticesSuffice
CHECK_DEADLOCK FALSE

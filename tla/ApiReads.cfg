SPECIFICATION ApiSpec
CONSTANTS
    Content = {a, b}
    a = a
    b = b
    MaxHeight = 3
    MaxReorgs = 1
    MaxInvalidations = 0
    Faults = {"rollback_ack", "crash"}
    MaxFaults = 1
SYMMETRY ContentSymmetry
INVARIANTS
    ReadyMeansHeld
PROPERTY
    SignsCoresChain

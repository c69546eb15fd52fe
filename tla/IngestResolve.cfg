SPECIFICATION Spec
CONSTANTS
    Content = {a, b}
    a = a
    b = b
    MaxHeight = 4
    MaxReorgs = 2
    MaxInvalidations = 0
    Faults = {}
    MaxFaults = 0
SYMMETRY ContentSymmetry
INVARIANTS
    DerivedFromItsBranch

SPECIFICATION ProgramsSpec
CONSTANTS
    Lengths = {0, 3, 4, 6, 7, 8, 39, 40, 44, 59, 75, 76, 77, 78, 80, 81, 255, 256}
    OpcodeBytes = {0, 1, 2, 3, 4, 5, 255}
    Leaves = {x, y}
    x = x
    y = y
    MaxLeaves = 5
    MaxLevels = 4
    MaxFiles = 3
    Positions = {1, 2, 3, 4, 5}
    MaxObjects = 4
    Names = {"ann", "bob"}
    MaxSpecBytes = 4
    MaxApprovers = 2
CHECK_DEADLOCK FALSE
INVARIANTS
    ParsesExactlyCanonical
    FieldsWithinPayload
    NamespacesAgree
    AcceptedRootIsMerkle
    ReplayMatchesExpected
    EventRootCommits
    ObjectRootCommits
    MainnetNeedsTwoPeople
    SpecContractExact

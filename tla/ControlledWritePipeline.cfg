SPECIFICATION FairSpec
CONSTANTS
    Index <- MCIndex
    Remnants <- MCRemnants
    MaxEdits = 2
    MaxFaults = 3
INVARIANTS
    TypeOK
    ProjectionExact
    OwnedWhileLeft
    CleanupHonest
    CleanupAttempted
    ResultHonest
PROPERTIES
    Termination
    AuthorizedWrite

CHECK_DEADLOCK FALSE

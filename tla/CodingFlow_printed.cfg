SPECIFICATION Spec
CONSTANTS
    Index <- MCIndex
    Remnants <- MCRemnants
    MaxEdits = 0
INVARIANTS
    RollbackFailurePrinted

CHECK_DEADLOCK FALSE

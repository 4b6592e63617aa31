SPECIFICATION FairSpec
CONSTANTS
    Index <- MCIndex
    Remnants <- MCRemnants
    MaxEdits = 2
INVARIANTS
    TypeOK
    OutcomeTrue
    TelemetryHonest
PROPERTIES
    Termination
    EngineStartsAuthorized

CHECK_DEADLOCK FALSE

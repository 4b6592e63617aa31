SPECIFICATION FairSpec
CONSTANTS
    target = target
    other = other
    cache = cache
    old = old
    new = new
    Absent = Absent
    Partial = Partial
    Path <- MCPath
    Excluded <- MCExcluded
    Scope <- MCScope
    Content <- MCContent
    Trees <- MCTrees
    N = 2
    V = 1
    MaxWrites = 2
    MaxEdits = 1
    MaxFaults = 1
INVARIANTS TypeOK RolledBackIsSnapshot SucceededInScope
PROPERTIES Termination ImplementsChange
CHECK_DEADLOCK FALSE

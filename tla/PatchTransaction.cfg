SPECIFICATION FairSpec
CONSTANTS
    modified = modified
    created = created
    bystander = bystander
    old = old
    edited = edited
    new = new
    newEdited = newEdited
    other = other
    Absent = Absent
    Unset = Unset
    Partial = Partial
    N = 2
    Path <- MCPath
    Content <- MCContent
    Target <- MCTarget
    Creates <- MCCreates
    Patch <- MCPatch
    Trees <- MCTrees
    MaxEdits = 2
    MaxFaults = 2
INVARIANTS TypeOK RolledBackIsRestored OnlyRecordedFilesTouched
PROPERTIES Termination ImplementsChange
CHECK_DEADLOCK FALSE

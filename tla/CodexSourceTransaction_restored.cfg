SPECIFICATION Spec
CONSTANTS
    modified = modified
    created = created
    bystander = bystander
    ignored = ignored
    old = old
    new = new
    user = user
    Absent = Absent
    Unset = Unset
    Partial = Partial
    N = 2
    Path <- MCPath
    Ignored = {ignored}
    Content <- MCContent
    Target <- MCTarget
    After <- MCAfter
    Repositories <- MCRepositories
    MaxEdits = 0
    MaxFaults = 1
INVARIANT RestoredIsClean
CHECK_DEADLOCK FALSE

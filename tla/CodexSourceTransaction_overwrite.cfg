SPECIFICATION Spec
CONSTANTS
    modified = modified
    created = created
    bystander = bystander
    ignored = ignored
    old = old
    new = new
    user = user
    Absent = Absent
    Unset = Unset
    Partial = Partial
    N = 2
    Path <- MCPath
    Ignored = {ignored}
    Content <- MCContent
    Target <- MCTarget
    After <- MCAfter
    Repositories <- MCRepositories
    MaxEdits = 1
    MaxFaults = 0
PROPERTY WritesReplaceBaseline
CHECK_DEADLOCK FALSE

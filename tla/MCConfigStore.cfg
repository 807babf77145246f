\* Two processes that change any setting, fail, are killed or lose power.
CONSTANTS
    p = p
    q = q
    Sandbox = Sandbox
    Tenant = Tenant
    url = url
    tok = tok
    Unset = Unset
    NoKey = NoKey
    Procs = {p, q}
    ls = ls
    inv = inv
    words = words
    Orders <- ConfigOrAliases
    FileOf <- FileOfKey
    Values <- SomeValues
    Default <- Defaults
    Changes <- AllChanges
    MaxSaves = 1
SPECIFICATION HSpec
SYMMETRY Symmetry
INVARIANTS
    TypeOK

    SavedIsSeen
PROPERTIES
    BrokenKept
    OwnChangeOnly
    KeepsHistory
CHECK_DEADLOCK FALSE

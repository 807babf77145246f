\* One process selects an environment while another refreshes its token.
CONSTANTS
    p = p
    q = q
    Sandbox = Sandbox
    Tenant = Tenant
    url = url
    tok = tok
    Unset = Unset
    NoKey = NoKey
    Procs = {p, q}
    ls = ls
    inv = inv
    words = words
    Orders <- ConfigOnly
    FileOf <- ConfigFileOfKey
    Values <- SomeValues
    Default <- DefaultsWithTenant
    Changes <- SwitchAndRefresh
    MaxSaves = 1
SPECIFICATION HSpec
INVARIANT SelectionPersists
CHECK_DEADLOCK FALSE

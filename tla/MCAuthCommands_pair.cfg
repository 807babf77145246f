\* One process, two clients.
CONSTANTS
    a = a
    b = b
    c = c
    l1 = l1
    l2 = l2
    Procs = {a}
    Logins = {l1, l2}
    NoLogin = NoLogin
    Earlier = Earlier
SPECIFICATION Spec
INVARIANTS
    StoredPairIsValid
\* The commands end.
CHECK_DEADLOCK FALSE

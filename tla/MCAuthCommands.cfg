\* Three processes and two clients.
CONSTANTS
    a = a
    b = b
    c = c
    l1 = l1
    l2 = l2
    Procs = {a, b, c}
    Logins = {l1, l2}
    NoLogin = NoLogin
    Earlier = Earlier
SPECIFICATION OneOfEach
SYMMETRY Symmetry
INVARIANTS
    TypeOK
    InvalidNeverStored
    LaterCommandsFollow
\* The commands end.
CHECK_DEADLOCK FALSE

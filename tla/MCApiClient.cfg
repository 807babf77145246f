\* One call of Do with the program's own retry limit, and two concurrent calls
\* whose callers give the same key.
CONSTANTS
    r1 = r1
    r2 = r2
    Runs = {r1, r2}
    MaxRetries = 3
    NoKey = NoKey
    NoHeader = NoHeader
    k1 = k1
    HeaderKeys <- CallerKeys
    Requests <- AllRequests
SPECIFICATION AloneOrShared
INVARIANTS
    TypeOK
    SendBound
    AtMostOnce
    SafeHintSound
    NoNilResponse
    ReadOnlyHarmless
    NoHotResend
    HintHolds
PROPERTIES
    Termination
    CancelWins
    KeepsContract
\* All calls have returned: the program has exited.
CHECK_DEADLOCK FALSE

\* A command is run again on the strength of the hint.
CONSTANTS
    r1 = r1
    r2 = r2
    Runs = {r1, r2}
    MaxRetries = 1
    NoKey = NoKey
    NoHeader = NoHeader
    k1 = k1
    HeaderKeys <- CallerKeys
    Requests <- PlainWrite
SPECIFICATION RerunSpec
INVARIANT HintHolds
CHECK_DEADLOCK FALSE

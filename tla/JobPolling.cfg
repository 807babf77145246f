\* Both commands, every set of deadlines, every destination.
SPECIFICATION FairSpec
CONSTANTS
    Waiting = {"accepted", "in_progress"}
    Unforeseen = {"expired"}
INVARIANTS
    TypeOK
    SaysWhatHappened
    TargetKept
    EndIsExplained
PROPERTIES
    Returns
\* The command has ended.
CHECK_DEADLOCK FALSE

\* A call of a sender who may have made another one just before, on a chain that appeals,
\* cancels and revives transactions, can lose the writes of a call and can be late to show them.
CONSTANTS
    Reasons = {"key retired"}
    MaxAppeals = 1
    MaxBehind = 1
    WritesNothing = TRUE
    WAIT_ATTEMPTS = 2
    DecisionPolls = 1
    FinalPolls = 1
    Attempts = 2
    Earlier = 1
    MaxTxs = 3
SPECIFICATION Spec
INVARIANTS NeverOverlaps RecordedIsFinal
PROPERTIES RefusedWhenSettled RunEnds
CHECK_DEADLOCK FALSE

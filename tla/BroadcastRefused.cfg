\* The documented reading of a send that reports nothing was sent, on one call.
CONSTANTS
    BROADCAST_ATTEMPTS = 2
    REFUSED_RETRIES = 1
    Fees = {1}
    Foreign = 0
    Sends = 1
SPECIFICATION Spec
INVARIANT NothingSentIsTrue
CHECK_DEADLOCK FALSE

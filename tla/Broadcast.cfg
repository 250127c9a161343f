\* One call, signed up to three times and sent up to three times a signature, by a client
\* that shares its account with another program.
CONSTANTS
    BROADCAST_ATTEMPTS = 3
    REFUSED_RETRIES = 2
    Fees = {1, 2}
    Foreign = 2
    Sends = 1
SPECIFICATION Spec
INVARIANTS OneNonce
PROPERTIES SendsOne SendEnds
CHECK_DEADLOCK FALSE

\* A plan of two calls, four signatures, of an account another program shares.
CONSTANTS
    Calls = 2
    REFUSED_RETRIES = 1
    MaxSigned = 4
    MaxEntries = 3
    MaxForeign = 1
    MaxAppeals = 1
SPECIFICATION Spec
INVARIANTS OnePerEntry RowsArePaired
PROPERTY DoubleIsTheLast
CHECK_DEADLOCK FALSE

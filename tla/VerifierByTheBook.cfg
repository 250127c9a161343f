SPECIFICATION ByTheBookSpec
CONSTANTS
    Accounts = {alice}
    Deployer = alice
    ZERO_ADDRESS = zero
    Requests <- MCEveryOutcome
    Values = {0, 1, 3}
    Fees = {0, 2}
    Amounts = {1, 3}
    MaxCalls = 4
    MaxInFlight = 4
INVARIANTS
    NoRefundIsStranded
CHECK_DEADLOCK FALSE

SPECIFICATION Spec
CONSTANTS
    Accounts = {alice, bob}
    Deployer = alice
    ZERO_ADDRESS = zero
    Requests <- MCKeptOrRefused
    Values = {0, 1, 3}
    Fees = {0, 2}
    Amounts = {1}
    MaxCalls = 2
    MaxInFlight = 2
INVARIANTS
    TypeOK
    NoThirdOutcome
    IdsAgree
PROPERTIES
    RefundsArrive
CHECK_DEADLOCK FALSE

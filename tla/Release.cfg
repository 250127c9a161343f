\* One contract, its sources and its artifact in two versions, one deploy while a commit is made.
CONSTANTS
    Accounts = {"alice"}
    Deployer = "alice"
    ZERO_ADDRESS = "zero"
    Labels = {"verifier"}
    Contracts = {1}
    KeyNames = {"amazon"}
    Ders = {"k1", "k2"}
    MaxHistory = 1
    Versions = {0, 1}
    EDITED = 9
    MaxCommits = 2
    MaxDeploys = 1
SPECIFICATION Spec
INVARIANT EntryStaysTrue
PROPERTY KeysAreForGood
CHECK_DEADLOCK FALSE

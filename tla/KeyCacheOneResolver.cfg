SPECIFICATION Spec
CONSTANTS
    Accounts = {alice}
    Deployer = alice
    ZERO_ADDRESS = zero
    Keys = {k1}
    Ders = {d1, d2}
    BadDer = bad
    Absent = absent
    NoAnswer = none
    Unreadable = unreadable
    NotSet = notset
    QUARANTINE = 2
    MaxTime = 4
PROPERTIES
    DropNeedsBothAnswers

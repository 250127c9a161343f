SPECIFICATION FairWatchSpec
CONSTANTS
    Accounts = {alice, bob}
    Deployer = alice
    ZERO_ADDRESS = zero
    Addresses = {a1, a2}
    NameTexts <- MCNameTexts
    LabelTexts <- MCLabelTexts
    Names <- MCNames
    NoName <- MCNoName
    normalize <- MCnormalize
    DELAY = 2
    MaxTime = 5
    PollGap = 1
INVARIANTS
    TypeOK
    NeverSurprised
PROPERTIES
    PinsNeverMove
    ChangeSettles
    GivesNotice

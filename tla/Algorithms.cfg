\* Inputs just long enough for every rule of every algorithm to meet another one.
CONSTANTS
    Letters <- MCLetters
    Upper <- MCUpper
    Limit = 5
    Domains <- MCDomains
    Under <- MCUnder
    MAX_BODY = 6
    MAX_TEXT = 3
    MAX_SOURCE = 17
    NameAlphabet <- MCNameAlphabet
    Bytes <- MCBytes
    Amiss <- MCAmiss
    MaxName = 5
    MaxLabel = 1
    MaxLines = 4
    MaxBody = 6
    MaxMarkup = 6
    MaxChanges = 2
    MaxRows = 2
    EXPECTED <- MCExpected
    ORDINARY <- MCOrdinary
    Bodies <- MCBodies
    Calls <- MCCalls
    FirstYear = 1970
    LastYear = 2104
SPECIFICATION Spec
INVARIANTS
    KeysFindTheirOwn
    KeyReadersAgree
    DatesAreCivil
    BodyIsHashedByTheBook
    SanitizedIsInert
    VerdictIsOfWhatWasSigned
    SamplesTellAhead
    BuildIsComplete
    RefusalsAgree
    ReportIsOfTheChain
CHECK_DEADLOCK FALSE

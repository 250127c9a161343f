\* One requester each for attesting and extracting, a message of the domain of the consumer
\* and one of another, on two Verifiers that are in use one after the other.
CONSTANTS
    Verifiers = {v1, v2}
    Elsewhere = elsewhere
    Messages = {"m1", "m3"}
    Domain <- MCDomain
    DOMAIN_OF_APP = "amazon"
    Requesters = {alice, bob}
    Kinds = {"good", "odd"}
    Lanes = {"patterns", "llm"}
    MAX_SCAN = 1
    MaxRecords = 1
    MaxExtractions = 2
    MaxMoves = 3
    MaxAppeals = 1
SYMMETRY Alike
VIEW Told
SPECIFICATION Spec
INVARIANTS ExtractionsAreOfRecords ActsOnce ActsOnEvidence
PROPERTY ShippedFadesByOwnCalls
CHECK_DEADLOCK FALSE

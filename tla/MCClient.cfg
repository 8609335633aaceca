SPECIFICATION Spec
CONSTANTS
    Ids = {1, 2}
    Questions = {1, 2}
    Fudge = 0
    Timeouts = {0, 1}
    MaxClock = 2
    MaxExchanges = 2
    MaxInFlight = 2
INVARIANTS
    TypeOK
    SignedExchangeGetsItsAnswer
    FirstSignatureStartsChain
PROPERTIES
    AcceptedReplyIsFresh
    ExchangeEndsInTime

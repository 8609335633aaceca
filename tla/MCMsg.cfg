SPECIFICATION DnssecSpec
CONSTANTS
    maxCompressionOffset = 40
    maxDomainNameWireOctets = 9
    MinMsgSize = 50
    Corpus <- MCCorpus
    Message <- MCMessage
    Reused <- MCReused
    Sizes <- MCSizes
    Keys <- MCKeys
    Stubs <- MCStubs
    MsgStubs <- MCMsgStubs
    year68 = 4
    MaxSigned = 45
    MaxRelays = 2
INVARIANTS
    LengthCoversPack
    CompressionMapIsTrue
    RoundTrip
    CutGivesPrefix
    TruncateFits
    GeneratedCodeAgrees
    SignatureFollowsContent
    SignedMessageIsWhole
CHECK_DEADLOCK FALSE

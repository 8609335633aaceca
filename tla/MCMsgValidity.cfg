SPECIFICATION DnssecSpec
CONSTANTS
    maxCompressionOffset = 40
    maxDomainNameWireOctets = 9
    MinMsgSize = 50
    Corpus <- MCCorpus
    Message <- MCMessage
    Reused <- MCReused
    Sizes <- MCSizes
    Keys <- MCKeys
    Stubs <- MCStubs
    MsgStubs <- MCMsgStubs
    year68 = 4
    MaxSigned = 45
    MaxRelays = 2
INVARIANTS
    ValidityIsSerial
CHECK_DEADLOCK FALSE

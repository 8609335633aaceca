SPECIFICATION Spec
CONSTANTS
    Types = {"A", "NS", "TXT", "NSEC"}
    Classes = {"IN", "CH"}
    BadTorc = {"TYPEx"}
    maxIncludeDepth = 2
    defaultTtl = 3600
    MaxLines = 2
    Corpus <- MCCorpus
    ZoneText <- MCZoneText
    FileText <- MCFileText
    TtlWords <- MCTtlWords
    Addresses = {"192.0.2.1"}
    Absolute <- MCAbsolute
    Relative <- MCRelative
    Ranges <- MCRanges
    Numbers <- MCNumbers
    GoodModifier = "{0}"
    BadModifier = "{x}"
    GivenTtl = FALSE
    MaxCalls = 1
    Lines <- LostLines
    FileLines <- NoFiles
INVARIANTS
    ErrorsSurface

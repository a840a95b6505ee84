\* The sequential parts of the SDK.
CONSTANTS
    RandMax = 7
    UserKeys = {"", "u"}
    Fields <- MCFields
    Texts = {"x"}
    Names = {"ip", "a", "key"}
    MaxPrivate = 2
    Customs <- MCCustoms
    Flags <- MCFlags
    Fallbacks = {7}
    MaxCalls = 3
    Keys = {"f", "g"}
    Versions = {0, 2}
    RawFlags <- MCRawFlags
    MaxUpdates = 3
    Symbols <- MCSymbols
    Chunks <- MCChunks
    LF <- MCLF
    MaxChunks = 5
    Clocks <- MCClocks
    Timeouts = {0, 1, 500, 999, 1000, 1500, 1999}
    MaxRetries = 8

SPECIFICATION Spec

INVARIANTS
    DocumentsAreSound
    CompareIsEquality
    RoundTrip
    ParsedIsStable
    MemorySuffices
    ChunksDoNotMatter
    EventsOfText
    PrivateStaysPrivate
    OnlyPrivateIsMissing
    DetailsExplainValue
    SummaryIsTrue
    SavedIsRestored
    


    

\* The parts are libraries: nothing has to go on.
CHECK_DEADLOCK FALSE

CONSTANTS
    Users = {u1}
    Nobody = Nobody
    Streaming = TRUE
    DisableBackgroundUpdating = FALSE
    Failures = {"bundle"}
    Calls = {"identify"}
    MaxCalls = 1
SPECIFICATION FairSpec
PROPERTIES ShutdownCompletes UnresolvedBacksOff

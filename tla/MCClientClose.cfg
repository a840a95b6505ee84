CONSTANTS
    Users = {u1, u2}
    Nobody = Nobody
    Streaming = TRUE
    DisableBackgroundUpdating = TRUE
    Failures = {}
    Calls = {}
    MaxCalls = 0
SPECIFICATION FairSpec
PROPERTIES CloseCompletes

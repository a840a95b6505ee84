CONSTANTS
    Users = {u1, u2}
    Nobody = Nobody
    Streaming = FALSE
    DisableBackgroundUpdating = TRUE
    Failures = {}
    Calls = {"offline", "identify"}
    MaxCalls = 2
SPECIFICATION PollSpec
PROPERTIES FlagsFollowUser OfflineStopsRequests

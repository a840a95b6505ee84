CONSTANTS
    Users = {u1, u2}
    Nobody = Nobody
    Streaming = TRUE
    DisableBackgroundUpdating = TRUE
    Failures = {}
    Calls = {"identify"}
    MaxCalls = 1
SPECIFICATION StreamSpec
PROPERTIES FlagsFollowUser

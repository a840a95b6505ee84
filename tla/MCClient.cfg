CONSTANTS
    Users = {u1, u2}
    Nobody = Nobody
    Streaming = TRUE
    DisableBackgroundUpdating = FALSE
    Failures = {"prepare", "store"}
    Calls = {"offline", "online", "background", "identify", "track", "flush", "restore", "await"}
    MaxCalls = 2
SPECIFICATION Spec
INVARIANTS NoLostShutdown FinalFlush InitializedHasFlags StreamCanBeCut

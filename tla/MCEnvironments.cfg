CONSTANTS
    Primary = "default"
    Secondaries = {"staging"}
    Keys = {"k1", "k2"}
    Users = {"u1", "u2"}
    MaxAdded = 2
    MaxCalls = 2
SPECIFICATION Spec
INVARIANTS
    UserLive
    ReleasesExactly
    ThreadsHaveTheirClient
    

    

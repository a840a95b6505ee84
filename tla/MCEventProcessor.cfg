CONSTANTS
    Users = {u1, u2}
    Anonymous = {u1}
    Counters = {c1}
    Threads = {t1}
    EventsCapacity = 2
    AutoAlias = TRUE
    Failures = {"summarize"}
    MaxMade = 3
    MaxEvaluations = 2
SPECIFICATION FairSpec
PROPERTIES PendingIsBundled
INVARIANTS QueueOrder OnlyCapacityDrops CountsConserved CountersAreStarted RetriesRecognisable EventsFollowIdentify

SPECIFICATION MCSpec
CONSTANTS
    Workers = {w1, w2}
    Clients = {c1}
    Requests = {r1, r2}
    MaxJobs = 2
    MaxAttempts = 2
    MaxClaimAttempts = 2
    MaxFaults = 1
    Null = Null
    Scans = {x1}
    Savers = {w1, w2}
    Pages = {{"words"}, {"words", "description", "organization", "palette"}}
    Answers = {{}, {"summary", "tone"}, {"names"}}
    NavAttempts = 1
    MaxRedirects = 0
    ModelAttempts = 1
    Slugs = {1, 2}
    Channels = {c1}
    FinalStep = 2
    Groups = {f1}
    Documents = {d1}
    Messages = {m1}
    Ingests = {w1, w2}
    Promoters = {p1}
    Rows = {k1, k2, k3}
    MaxText = 2
    MaxBuilds = 2
    NoRow = NoRow
    Accounts = {k1, k2}
    Stores = {s1}
    Logins = {1, 2, 3, 4}
    Calls = {x1}
    Times = 2
    Window = 2
    BucketTTL = 2
    SweepEvery = 1
    MaxKeys = 1
    Lifetime = 1
    MaxClock = 2
    NoOne = NoOne
SYMMETRY Symmetry
INVARIANTS
    QueueTypeOK
    OneRunningRowPerClient
    DeadOnlyAfterMaxAttempts
    RunningIsReclaimable
    LostOnlyWhenOvertaken
    LimitHolds
    ChangesAreAccounted
PROPERTIES
    OnboardingKeepsWork
    KnowledgeIsWhole

SPECIFICATION RecordsSpec
CONSTANTS
    Builders = {s1, s2}
    Admins = {a1}
    Rules = {ban}
    MustNot = {ban}
    Must = {}
    MaxVersion = 3
    MaxResolves = 2
    Items = {i1}
    Managers = {s1, s2}
    Nobody = Nobody
    MaxDay = 2
    MaxDrafts = 2
    Callers = {s1, s2}
    Accounts = {c1}
    MaxGrants = 2
    MaxTurns = 2
    Operators = {s1, s2}
    Providers = {"meta", "google", "linkedin"}
    Listed = {a1}
    Unbound = Unbound
    MaxConsents = 2
SYMMETRY Symmetry
INVARIANTS
    RecordsTypeOK
    LiveIsLatestReady
    HardRulesAreReviewed
    ReviewIsAnswered
    SpansAreInOrder
    RefreshTokenIsLast
    ConnectionsAreCoherent
PROPERTIES
    Publishes
    DisconnectedStays
CHECK_DEADLOCK FALSE

SPECIFICATION Spec
CONSTANTS
    Senders = {s1, s2}
    MaxDate = 1
    MaxAttempts = 2
    Details = {d1, d2}
    MaxLost = 1
    Calls = {c1, c2}
    Processes = {p1}
    TTL = 1
    MaxRoute = 2
    MaxTime = 2
    NoRoute = NoRoute
    Pulls = {1, 2, 3}
    Cells = {d1, d2}
    Slices = {d1, d2}
    Unwritten = 0
    Campaigns = {g1}
    Checks = {"cpl"}
    Watchers = {s1, s2}
    MaxAlerts = 4
    Sweepers = {s1, s2}
    MaxMonth = 3
    MaxBatches = 3
    Users = {d1, d2}
    Clients = {k1}
    Notifiers = {s1, s2}
    Digesters = {s1, s2}
    MaxNotes = 3
    BatchLimit = 1
SYMMETRY Symmetry
INVARIANTS
    ServicesTypeOK
    MailedOnceUnlessBlurred
    AttemptsAreAccounted
    TotalsFollowFacts
    SyncsAreWhole
    AlertsFollowBreaches
    SweepsActOnce
PROPERTIES
    OldRoutesExpire
    SentIsFinal
CHECK_DEADLOCK FALSE

SPECIFICATION GhlSpec
CONSTANTS
    Callers = {s1, s2}
    Accounts = {c1}
    MaxGrants = 1
    MaxTurns = 2
PROPERTIES
    NoRefreshCollides
CHECK_DEADLOCK FALSE

SPECIFICATION LiveSpec
CONSTANTS
    w1 = w1
    w2 = w2
    w3 = w3
    c1 = c1
    c2 = c2
    r1 = r1
    Workers = {w1, w2, w3}
    Clients = {c1, c2}
    Requests = {r1, r2}
    MaxJobs = 4
    MaxAttempts = 2
    MaxClaimAttempts = 2
    MaxFaults = 1
    Null = Null
PROPERTIES
    BuildsEnd

SPECIFICATION Spec
CONSTANTS
    Workers = {w1, w2}
    Clients = {c1}
    Requests = {r1, r2}
    MaxJobs = 2
    MaxAttempts = 2
    MaxClaimAttempts = 2
    MaxFaults = 0
    Null = Null
INVARIANT NoLostWork

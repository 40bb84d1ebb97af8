SPECIFICATION MCSpec
CONSTANTS
    Proposals = {p1}
    Approvers = {a1}
    Rejecters = {k1}
    Tasks = {t1}
    Seats = {}
    Kinds = {"update"}
    MaxOps = 1
    MaxEdits = 0
    MaxCrashes = 0
    Null = Null
INVARIANTS
    RejectedIsNotApplied
CHECK_DEADLOCK FALSE

SPECIFICATION MCSpec
CONSTANTS
    Proposals = {p1, p2}
    Approvers = {a1, a2}
    Rejecters = {k1}
    Tasks = {t1, t2}
    Seats = {s1}
    Kinds = {"create", "duplicate", "update", "delete", "assign", "unassign"}
    MaxOps = 2
    MaxEdits = 2
    MaxCrashes = 1
    Null = Null
INVARIANTS
    TypeOK
    AppliedOnceAsAWhole
PROPERTIES
    ApprovalEnds
    AppliesAsOneChange
CHECK_DEADLOCK FALSE

-------------------------- MODULE ReviewedChanges --------------------------
(***************************************************************************)
(* What services/proposal_service.py promises of the AI's change proposals, *)
(* abstractly: nothing reaches the rows until a person approves a proposal *)
(* whose every snapshot still holds; then, in one step and once, every row *)
(* becomes what the last operation on it makes of it, and no other row     *)
(* changes.  People edit the rows meanwhile; a task that is gone stays so. *)
(***************************************************************************)
EXTENDS Naturals, Sequences

CONSTANTS Proposals, Tasks, Seats

VARIABLES present, updated_at,  \* the rows
          staged,               \* the operations of each proposal
          recorded,             \* proposals that can be reviewed
          approved,             \* those approved while their snapshots held
          applied               \* those whose operations have been carried out

vars == <<present, updated_at, staged, recorded, approved, applied>>
rows == <<present, updated_at>>

Rows   == Tasks \cup Seats
Puts   == {"update", "assign"}
Clears == {"delete", "unassign"}

Touches(op, r) == op.row = r /\ op.kind \in Puts \cup Clears

\* The operation of p that has the last word on row r, if there is one.
Last(p, r) == {i \in 1 .. Len(staged[p]) :
                  /\ Touches(staged[p][i], r)
                  /\ \A j \in 1 .. Len(staged[p]) : j > i => ~Touches(staged[p][j], r)}

Put(p, r) == \E i \in Last(p, r) : staged[p][i].kind \in Puts

Init ==
    /\ present \in [Rows -> BOOLEAN]
    /\ updated_at = [r \in Rows |-> 0]
    /\ staged = [p \in Proposals |-> <<>>]
    /\ recorded = {} /\ approved = {} /\ applied = {}

Stage(p) ==
    /\ p \notin recorded
    /\ \A q \in Proposals \ {p} : staged'[q] = staged[q]
    /\ UNCHANGED <<rows, recorded, approved, applied>>

Create(p) ==
    /\ staged[p] # <<>>
    /\ recorded' = recorded \cup {p}
    /\ UNCHANGED <<rows, staged, approved, applied>>

Approve(p) ==
    /\ p \in recorded
    /\ \A i \in 1 .. Len(staged[p]) :
          LET op == staged[p][i] IN
          op.kind \in {"update", "delete"} => present[op.row] /\ updated_at[op.row] = op.base
    /\ approved' = approved \cup {p}
    /\ UNCHANGED <<rows, staged, recorded, applied>>

Apply(p) ==
    /\ p \in approved \ applied
    /\ applied' = applied \cup {p}
    /\ present' = [r \in Rows |-> IF Last(p, r) = {} THEN present[r] ELSE Put(p, r)]
    /\ \A t \in Tasks : present'[t] => present[t]
    /\ updated_at' = [r \in Rows |-> IF Put(p, r) THEN updated_at[r] + 1 ELSE updated_at[r]]
    /\ UNCHANGED <<staged, recorded, approved>>

Edit(r) ==
    /\ \/ /\ r \in Tasks /\ present[r]
          /\ updated_at' = [updated_at EXCEPT ![r] = @ + 1] /\ UNCHANGED present
       \/ /\ r \in Seats \/ present[r]
          /\ present' = [present EXCEPT ![r] = ~@] /\ UNCHANGED updated_at
    /\ UNCHANGED <<staged, recorded, approved, applied>>

Next == \/ \E p \in Proposals : Stage(p) \/ Create(p) \/ Approve(p) \/ Apply(p)
        \/ \E r \in Rows : Edit(r)

Spec == Init /\ [][Next]_vars
=============================================================================

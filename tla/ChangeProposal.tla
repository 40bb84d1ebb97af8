--------------------------- MODULE ChangeProposal ---------------------------
(***************************************************************************)
(* The AI change-proposal engine, services/proposal_service.py: a chat     *)
(* turn stages operations by dry run and records them as a proposal; any   *)
(* number of requests approve or reject it while people edit the same      *)
(* rows through the ordinary endpoints.                                    *)
(*                                                                         *)
(* approve is three transactions: the claim, which compares and swaps the  *)
(* status; the preflight checks and the operations, which commit together; *)
(* and, after a rollback, the record of a failure.  PostgreSQL runs at     *)
(* READ COMMITTED: a row written by an uncommitted transaction is locked,  *)
(* and readers see its last committed state.                               *)
(*                                                                         *)
(* A definition placed just before another one and named for a mistake     *)
(* (a dropped guard, a wrong column) is a deliberate fault: it is listed   *)
(* under "mutants" in PROJECT.json, and TLC must reject the model with it. *)
(***************************************************************************)
EXTENDS Naturals, Sequences

CONSTANTS Proposals,   \* proposals a chat can produce
          Approvers,   \* approve requests
          Rejecters,   \* reject requests
          Tasks,       \* plan_tasks rows, which carry updated_at
          Seats,       \* client_assignments rows, which do not
          Kinds,       \* the kinds of operation staged
          MaxOps,      \* bound on the operations of a proposal
          MaxEdits,    \* bound on edits made outside proposals
          MaxCrashes,  \* bound on crashes of the API process
          Null         \* SQL NULL; also a lock that nobody holds

ASSUME KindsAssumption == Kinds \subseteq {"create", "duplicate", "update", "delete", "assign", "unassign"}
ASSUME RowsAssumption  == Tasks \cap Seats = {}
ASSUME NullAssumption  == Null \notin Approvers \cup Proposals \cup Nat
ASSUME MarksAssumption == Proposals \cap {"new", "done"} = {}
ASSUME BoundsAssumption == MaxOps \in Nat /\ MaxEdits \in Nat /\ MaxCrashes \in Nat

Rows      == Tasks \cup Seats
Operation == [kind : Kinds, row : Rows, base : Nat \cup {Null}]

VARIABLES
    \* the rows operations act on: committed state, and the transaction that locks them
    present, updated_at, lock,
    \* change_proposals and proposed_operations; audit_log rows naming the proposal
    status, expired, ops, op_status, audits,
    \* each approve request: control point, proposal, operation at hand, the rows its
    \* session loaded, and its uncommitted writes
    pc, target, at, loaded, work,
    \* each reject request
    rejecting,
    \* history: proposals claimed while unexpired and with every snapshot current;
    \* proposals whose approve request died in an error it does not record
    reviewed, abandoned,
    edits, crashes

rowVars      == <<present, updated_at, lock>>
proposalVars == <<status, expired, ops, op_status, audits>>
approveVars  == <<pc, target, at, loaded, work>>
historyVars  == <<reviewed, abandoned>>
vars == <<rowVars, proposalVars, approveVars, rejecting, historyVars, edits, crashes>>

Statuses   == {"none", "pending_approval", "executing", "completed", "failed", "cancelled"}
OpStatuses == {"pending", "executed", "failed", "skipped"}
PCs        == {"new", "preflight", "select", "flush", "finish", "record", "done"}

\* The columns and local states have their types; operations and their statuses match.
TypeOK ==
    /\ present    \in [Rows -> BOOLEAN]
    /\ updated_at \in [Rows -> Nat]
    /\ lock       \in [Rows -> Approvers \cup {Null}]
    /\ status     \in [Proposals -> Statuses]
    /\ expired    \in [Proposals -> BOOLEAN]
    /\ ops        \in [Proposals -> Seq(Operation)]
    /\ op_status  \in [Proposals -> Seq(OpStatuses)]
    /\ \A p \in Proposals : Len(op_status[p]) = Len(ops[p]) /\ Len(ops[p]) <= MaxOps
    /\ audits     \in [Proposals -> Nat]
    /\ pc         \in [Approvers -> PCs]
    /\ target     \in [Approvers -> Proposals \cup {Null}]
    /\ at         \in [Approvers -> Nat]
    /\ loaded     \in [Approvers -> [Rows -> Nat \cup {Null}]]
    /\ work       \in [Approvers -> [Rows -> {"same", "written", "gone"}]]
    /\ rejecting  \in [Rejecters -> Proposals \cup {"new", "done"}]
    /\ reviewed   \in SUBSET Proposals
    /\ abandoned  \in SUBSET Proposals
    /\ edits      \in 0 .. MaxEdits
    /\ crashes    \in 0 .. MaxCrashes

Untouched == [r \in Rows |-> "same"]
Unloaded  == [r \in Rows |-> Null]

Init ==
    /\ present    \in [Rows -> BOOLEAN] /\ \A t \in Tasks : present[t]
    /\ updated_at = [r \in Rows |-> 0]
    /\ lock       = [r \in Rows |-> Null]
    /\ status     = [p \in Proposals |-> "none"]
    /\ expired    = [p \in Proposals |-> FALSE]
    /\ ops        = [p \in Proposals |-> <<>>]
    /\ op_status  = [p \in Proposals |-> <<>>]
    /\ audits     = [p \in Proposals |-> 0]
    /\ pc         = [a \in Approvers |-> "new"]
    /\ target     = [a \in Approvers |-> Null]
    /\ at         = [a \in Approvers |-> 0]
    /\ loaded     = [a \in Approvers |-> Unloaded]
    /\ work       = [a \in Approvers |-> Untouched]
    /\ rejecting  = [k \in Rejecters |-> "new"]
    /\ reviewed   = {}
    /\ abandoned  = {}
    /\ edits      = 0
    /\ crashes    = 0

-----------------------------------------------------------------------------
(* Operations: the _apply_* halves of PlanService and AssignmentService *)

OnTask  == {"create", "duplicate", "update", "delete"}
Locking == {"update", "delete", "assign", "unassign"}

\* Whether the lookup an operation starts with finds what it needs; if not it raises
\* NotFoundError or ConflictError, which are AppErrors.
Applies(kind, found) ==
    CASE kind = "create" -> TRUE
      [] kind = "assign" -> ~found
      [] OTHER           -> found

\* Only the mutable rows with updated_at are staged with a base_snapshot.
Snapshotted == {"update", "delete"}

-----------------------------------------------------------------------------
(* The chat turn *)

\* stage_*: the operation is tried inside a SAVEPOINT that is rolled back; the
\* snapshot is the row's stamp at that time.
Stage(p, kind, row) ==
    /\ status[p] = "none"
    /\ Len(ops[p]) < MaxOps
    /\ row \in IF kind \in OnTask THEN Tasks ELSE Seats
    /\ Applies(kind, present[row])
    /\ ops' = [ops EXCEPT ![p] = Append(@, [kind |-> kind, row |-> row,
                  base |-> IF kind \in Snapshotted THEN updated_at[row] ELSE Null])]
    /\ op_status' = [op_status EXCEPT ![p] = Append(@, "pending")]
    /\ UNCHANGED <<rowVars, status, expired, audits, approveVars, rejecting, historyVars,
                   edits, crashes>>

\* create_proposal, at the end of the turn.
Create(p) ==
    /\ status[p] = "none"
    /\ ops[p] # <<>>
    /\ status' = [status EXCEPT ![p] = "pending_approval"]
    /\ UNCHANGED <<rowVars, expired, ops, op_status, audits, approveVars, rejecting,
                   historyVars, edits, crashes>>

\* expires_at passes.
Expire(p) ==
    /\ status[p] # "none" /\ ~expired[p]
    /\ expired' = [expired EXCEPT ![p] = TRUE]
    /\ UNCHANGED <<rowVars, status, ops, op_status, audits, approveVars, rejecting,
                   historyVars, edits, crashes>>

-----------------------------------------------------------------------------
(* approve *)

\* Commit or rollback of the transaction of a: its row locks go.
Unlock(a) == lock' = [r \in Rows |-> IF lock[r] = a THEN Null ELSE lock[r]]

Current(p) == \A i \in 1 .. Len(ops[p]) :
                 LET op == ops[p][i] IN
                 op.base # Null => present[op.row] /\ updated_at[op.row] = op.base

\* claim_for_execution: UPDATE ... WHERE status = 'pending_approval', committed at once.
ClaimableUnsettled(p) == status[p] \in {"pending_approval", "executing"}
Claimable(p)          == status[p] = "pending_approval"
Claim(a, p) ==
    /\ pc[a] = "new"
    /\ Claimable(p)
    /\ status'   = [status EXCEPT ![p] = "executing"]
    /\ pc'       = [pc EXCEPT ![a] = "preflight"]
    /\ target'   = [target EXCEPT ![a] = p]
    /\ at'       = [at EXCEPT ![a] = 1]
    /\ reviewed' = IF Current(p) /\ ~expired[p] THEN reviewed \cup {p} ELSE reviewed
    /\ UNCHANGED <<rowVars, expired, ops, op_status, audits, loaded, work, rejecting,
                   abandoned, edits, crashes>>

\* The claim matches no row: the proposal is read back as it is.
LoseClaim(a, p) ==
    /\ pc[a] = "new"
    /\ status[p] # "none" /\ ~Claimable(p)
    /\ pc' = [pc EXCEPT ![a] = "done"]
    /\ UNCHANGED <<rowVars, proposalVars, target, at, loaded, work, rejecting, historyVars,
                   edits, crashes>>

Op(a) == ops[target[a]][at[a]]

\* _matches_live_snapshot: a row the session has loaded already is not read again, but
\* the query must still find it.
Live(a, r) == IF loaded[a][r] = Null THEN updated_at[r] ELSE loaded[a][r]
MatchesUpdate(a) ==
    LET op == Op(a) IN
    op.kind = "update" => present[op.row] /\ Live(a, op.row) = op.base
Matches(a) ==
    LET op == Op(a) IN
    op.base # Null => present[op.row] /\ Live(a, op.row) = op.base

\* The next operation, or the next phase after the last one.
Advance(a, here, next) ==
    IF at[a] < Len(ops[target[a]])
    THEN at' = [at EXCEPT ![a] = @ + 1] /\ pc' = [pc EXCEPT ![a] = here]
    ELSE at' = [at EXCEPT ![a] = 1]     /\ pc' = [pc EXCEPT ![a] = next]

\* The proposal has not expired, the caller is still entitled, the row is as proposed.
PreflightPass(a) ==
    /\ pc[a] = "preflight"
    /\ at[a] = 1 => ~expired[target[a]]
    /\ Matches(a)
    /\ loaded' = IF Op(a).base = Null THEN loaded
                 ELSE [loaded EXCEPT ![a][Op(a).row] = Live(a, Op(a).row)]
    /\ Advance(a, "preflight", "select")
    /\ UNCHANGED <<rowVars, proposalVars, target, work, rejecting, historyVars, edits, crashes>>

\* _fail_preflight: expired, capability or role lost, or the row has changed.
PreflightFail(a) ==
    /\ pc[a] = "preflight"
    /\ status' = [status EXCEPT ![target[a]] = "failed"]
    /\ pc'     = [pc EXCEPT ![a] = "done"]
    /\ \/ at[a] = 1      \* expiry, capability, role: all before the first row is read
       \/ ~Matches(a)
    /\ UNCHANGED <<rowVars, expired, ops, op_status, audits, target, at, loaded, work,
                   rejecting, historyVars, edits, crashes>>

\* What the transaction of a sees of a row.
Sees(a, r) == \/ work[a][r] = "written"
              \/ work[a][r] = "same" /\ present[r]

\* _execute_operation looks its row up and changes the ORM object.
Select(a) ==
    /\ pc[a] = "select"
    /\ Applies(Op(a).kind, Sees(a, Op(a).row))
    /\ pc' = [pc EXCEPT ![a] = "flush"]
    /\ UNCHANGED <<rowVars, proposalVars, target, at, loaded, work, rejecting, historyVars,
                   edits, crashes>>

\* It raises an AppError, the row missing or in the way, or the updated one out of order (its start
\* after its due date): everything done so far is rolled back.
SelectFail(a) ==
    /\ pc[a] = "select"
    /\ ~Applies(Op(a).kind, Sees(a, Op(a).row)) \/ Op(a).kind = "update"
    /\ work' = [work EXCEPT ![a] = Untouched]
    /\ pc'   = [pc EXCEPT ![a] = "record"]
    /\ Unlock(a)
    /\ UNCHANGED <<present, updated_at, proposalVars, target, at, loaded, rejecting,
                   historyVars, edits, crashes>>

LockFree(a) == Op(a).kind \in Locking => lock[Op(a).row] \in {Null, a}

\* An UPDATE that matches no row raises StaleDataError and an INSERT that breaks the
\* unique constraint IntegrityError; a DELETE that matches no row only warns.
FlushRaises(a) ==
    LET op == Op(a) IN
    \/ op.kind = "update" /\ ~Sees(a, op.row)
    \/ op.kind = "assign" /\ Sees(a, op.row)

\* flush: the write reaches the database, after waiting for the row's lock.
Flush(a) ==
    LET op == Op(a) IN
    /\ pc[a] = "flush"
    /\ LockFree(a) /\ ~FlushRaises(a)
    /\ IF op.kind \in Locking
       THEN /\ lock' = [lock EXCEPT ![op.row] = a]
            /\ work' = [work EXCEPT ![a][op.row] = IF op.kind \in {"update", "assign"}
                                                   THEN "written" ELSE "gone"]
       ELSE UNCHANGED <<lock, work>>
    /\ Advance(a, "select", "finish")
    /\ UNCHANGED <<present, updated_at, proposalVars, target, loaded, rejecting, historyVars,
                   edits, crashes>>

\* The final commit: every row, one audit row per operation, and the status.
Finish(a) ==
    LET p == target[a] IN
    /\ pc[a] = "finish"
    /\ present'    = [r \in Rows |-> Sees(a, r)]
    /\ updated_at' = [r \in Rows |-> IF work[a][r] = "written" THEN updated_at[r] + 1
                                     ELSE updated_at[r]]
    /\ status'     = [status EXCEPT ![p] = "completed"]
    /\ op_status'  = [op_status EXCEPT ![p] = [i \in 1 .. Len(ops[p]) |-> "executed"]]
    /\ audits'     = [audits EXCEPT ![p] = @ + Len(ops[p])]
    /\ work'       = [work EXCEPT ![a] = Untouched]
    /\ pc'         = [pc EXCEPT ![a] = "done"]
    /\ Unlock(a)
    /\ UNCHANGED <<expired, ops, target, at, loaded, rejecting, historyVars, edits, crashes>>

\* What the third transaction makes of the proposal and of its operations.
FailedStatusLeft(p) == status[p]
FailedStatus(p)     == "failed"
FailedOpsUpTo(p, i) == [j \in 1 .. i |-> IF j = i THEN "failed" ELSE "skipped"]
FailedOps(p, i) == [j \in 1 .. Len(ops[p]) |->
                       IF j = i THEN "failed"
                       ELSE IF op_status[p][j] = "pending" THEN "skipped" ELSE op_status[p][j]]

\* The failure is recorded after the rollback that undid the operations.
Record(a) ==
    LET p == target[a] IN
    /\ pc[a] = "record"
    /\ status'    = [status EXCEPT ![p] = FailedStatus(p)]
    /\ op_status' = [op_status EXCEPT ![p] = FailedOps(p, at[a])]
    /\ pc'        = [pc EXCEPT ![a] = "done"]
    /\ UNCHANGED <<rowVars, expired, ops, audits, target, at, loaded, work, rejecting,
                   historyVars, edits, crashes>>

-----------------------------------------------------------------------------
(* Errors approve does not record *)

\* Approver a waits for a row that b has written.
WaitsFor(a, b) == pc[a] = "flush" /\ Op(a).kind \in Locking /\ lock[Op(a).row] = b /\ a # b

\* a is on a cycle of waits, of which PostgreSQL aborts a member.
Deadlocked(a) ==
    \E D \in SUBSET Approvers :
       /\ a \in D
       /\ \A b \in D : (\E c \in D : WaitsFor(b, c)) /\ (\E c \in D : WaitsFor(c, b))

\* The request ends in an exception that is no AppError, or with its process: the
\* session is closed, which rolls back, and the claim stays.
Die(a) ==
    /\ abandoned' = abandoned \cup {target[a]}
    /\ work'      = [work EXCEPT ![a] = Untouched]
    /\ pc'        = [pc EXCEPT ![a] = "done"]
    /\ Unlock(a)
    /\ UNCHANGED <<present, updated_at, proposalVars, target, at, loaded, rejecting, reviewed,
                   edits>>

\* flush raises.
FlushError(a) ==
    /\ pc[a] = "flush"
    /\ (LockFree(a) /\ FlushRaises(a)) \/ Deadlocked(a)
    /\ Die(a)
    /\ UNCHANGED crashes

Crash(a) ==
    /\ pc[a] \notin {"new", "done"}
    /\ crashes < MaxCrashes
    /\ crashes' = crashes + 1
    /\ Die(a)

-----------------------------------------------------------------------------
(* reject, and edits made through the ordinary endpoints *)

\* The status is read.
RejectRead(k, p) ==
    /\ rejecting[k] = "new"
    /\ status[p] = "pending_approval"
    /\ rejecting' = [rejecting EXCEPT ![k] = p]
    /\ UNCHANGED <<rowVars, proposalVars, approveVars, historyVars, edits, crashes>>

\* And written, by primary key.
RejectWrite(k) ==
    /\ rejecting[k] \in Proposals
    /\ status'    = [status EXCEPT ![rejecting[k]] = "cancelled"]
    /\ rejecting' = [rejecting EXCEPT ![k] = "done"]
    /\ UNCHANGED <<rowVars, expired, ops, op_status, audits, approveVars, historyVars,
                   edits, crashes>>

\* A person edits or deletes a task, or changes an assignment.
Edit(r) ==
    /\ edits < MaxEdits
    /\ lock[r] = Null
    /\ edits' = edits + 1
    /\ \/ /\ r \in Tasks /\ present[r]
          /\ updated_at' = [updated_at EXCEPT ![r] = @ + 1]
          /\ UNCHANGED present
       \/ /\ r \in Seats \/ present[r]
          /\ present' = [present EXCEPT ![r] = ~@]
          /\ UNCHANGED updated_at
    /\ UNCHANGED <<lock, proposalVars, approveVars, rejecting, historyVars, crashes>>

ApproveStep(a) ==
    \/ PreflightPass(a) \/ PreflightFail(a)
    \/ Select(a) \/ SelectFail(a) \/ Flush(a) \/ FlushError(a)
    \/ Finish(a) \/ Record(a)

Next ==
    \/ \E p \in Proposals, kind \in Kinds, row \in Rows : Stage(p, kind, row)
    \/ \E p \in Proposals : Create(p) \/ Expire(p)
    \/ \E a \in Approvers, p \in Proposals : Claim(a, p) \/ LoseClaim(a, p)
    \/ \E a \in Approvers : ApproveStep(a) \/ Crash(a)
    \/ \E k \in Rejecters, p \in Proposals : RejectRead(k, p)
    \/ \E k \in Rejecters : RejectWrite(k)
    \/ \E r \in Rows : Edit(r)

Spec == Init /\ [][Next]_vars

\* A request that has been started keeps running.
ApproveFairness == \A a \in Approvers : WF_vars(ApproveStep(a))

-----------------------------------------------------------------------------
(* Properties *)

\* However approve, reject and retries of them overlap, a proposal is applied at most once
\* and as a whole; completed means that it was, and every other status but cancelled that
\* nothing of it was.
AppliedOnceAsAWhole ==
    \A p \in Proposals :
        /\ audits[p] \in {0, Len(ops[p])}
        /\ audits[p] = 0 => \A i \in 1 .. Len(ops[p]) : op_status[p][i] # "executed"
        /\ status[p] = "completed" => audits[p] = Len(ops[p]) /\ ops[p] # <<>>
        /\ audits[p] > 0 => status[p] \in {"completed", "cancelled"}

\* Nothing is applied that, when it was approved, had expired or was proposed for a row
\* that had changed or gone since.
OnlyReviewedIsApplied ==
    \A p \in Proposals : audits[p] > 0 => p \in reviewed

\* What the engine promises of the rows, to those who see what is committed: a proposal
\* is one indivisible change, made once, approved while every row was as proposed, and it
\* leaves every row as its last operation on it does, whoever else edits or approves.
Changes == INSTANCE ReviewedChanges WITH
               staged   <- ops,
               recorded <- {p \in Proposals : status[p] # "none"},
               approved <- reviewed,
               applied  <- {p \in Proposals : audits[p] > 0}

AppliesAsOneChange == Changes!Spec

\* Every approval reaches a verdict, unless the request dies in an error it does not record.
ApprovalEnds ==
    \A p \in Proposals : status[p] = "executing" ~> status[p] # "executing" \/ p \in abandoned

\* What reject promises: nothing of a rejected proposal is applied.
RejectedIsNotApplied ==
    \A p \in Proposals : status[p] = "cancelled" => audits[p] = 0
=============================================================================

------------------------ MODULE ChangeProposalProofs ------------------------
(***************************************************************************)
(* Proofs about the proposal engine, for any number of proposals, requests,*)
(* rows and edits.                                                         *)
(***************************************************************************)
EXTENDS ChangeProposal, SequenceTheorems, TLAPS

USE KindsAssumption, RowsAssumption, NullAssumption, MarksAssumption, BoundsAssumption

Working == {"preflight", "select", "flush", "finish", "record"}

\* A claimed proposal belongs to one request, which is the only one that can still
\* apply it; before the claim nothing has touched it.
ClaimInv ==
    /\ \A a \in Approvers : pc[a] \in Working =>
          /\ target[a] \in Proposals
          /\ status[target[a]] \in {"executing", "cancelled"}
          /\ audits[target[a]] = 0
          /\ at[a] \in 1 .. Len(ops[target[a]])
    /\ \A a, b \in Approvers :
          pc[a] \in Working /\ pc[b] \in Working /\ target[a] = target[b] => a = b

\* A recorded proposal has operations, and only recorded ones are rejected.
RecordedInv ==
    /\ \A p \in Proposals : status[p] # "none" => ops[p] # <<>>
    /\ \A k \in Rejecters : rejecting[k] \in Proposals => status[rejecting[k]] # "none"

LEMMA AdvanceType ==
    ASSUME NEW a \in Approvers, NEW here \in PCs, NEW next \in PCs,
           at \in [Approvers -> Nat], pc \in [Approvers -> PCs], Advance(a, here, next)
    PROVE  at' \in [Approvers -> Nat] /\ pc' \in [Approvers -> PCs]
<1>1. CASE at[a] < Len(ops[target[a]])
  <2>1. at[a] + 1 \in Nat
    OBVIOUS
  <2> QED
    BY <1>1, <2>1 DEF Advance
<1>2. CASE ~(at[a] < Len(ops[target[a]]))
  BY <1>2 DEF Advance
<1> QED
  BY <1>1, <1>2

LEMMA InitType == Init => TypeOK
<1> SUFFICES ASSUME Init PROVE TypeOK
  OBVIOUS
<1>1. ops \in [Proposals -> Seq(Operation)] /\ op_status \in [Proposals -> Seq(OpStatuses)]
  BY DEF Init
<1>2. \A p \in Proposals : Len(op_status[p]) = Len(ops[p]) /\ Len(ops[p]) <= MaxOps
  <2>1. \A p \in Proposals : ops[p] = <<>> /\ op_status[p] = <<>>
    BY DEF Init
  <2>2. \A p \in Proposals : Len(ops[p]) = 0 /\ Len(op_status[p]) = 0
    <3>1. Len(<<>>) = 0
      OBVIOUS
    <3> QED
      BY <2>1, <3>1, Zenon
  <2>3. 0 <= MaxOps
    OBVIOUS
  <2> QED
    BY <2>2, <2>3, Zenon
<1>3. /\ edits \in 0 .. MaxEdits /\ crashes \in 0 .. MaxCrashes
      /\ updated_at \in [Rows -> Nat] /\ audits \in [Proposals -> Nat] /\ at \in [Approvers -> Nat]
      /\ reviewed \in SUBSET Proposals /\ abandoned \in SUBSET Proposals
  BY DEF Init
<1>4. /\ present \in [Rows -> BOOLEAN] /\ lock \in [Rows -> Approvers \cup {Null}]
      /\ status \in [Proposals -> Statuses] /\ expired \in [Proposals -> BOOLEAN]
      /\ pc \in [Approvers -> PCs] /\ target \in [Approvers -> Proposals \cup {Null}]
      /\ loaded \in [Approvers -> [Rows -> Nat \cup {Null}]]
      /\ work \in [Approvers -> [Rows -> {"same", "written", "gone"}]]
      /\ rejecting \in [Rejecters -> Proposals \cup {"new", "done"}]
  BY DEF Init, Statuses, PCs, Untouched, Unloaded
<1> QED
  BY <1>1, <1>2, <1>3, <1>4 DEF TypeOK

LEMMA NextType == TypeOK /\ ClaimInv /\ [Next]_vars => TypeOK'
<1> SUFFICES ASSUME TypeOK, ClaimInv, [Next]_vars PROVE TypeOK'
  OBVIOUS
<1> USE DEF TypeOK, rowVars, proposalVars, approveVars, historyVars
<1>w. ASSUME NEW a \in Approvers, pc[a] \in Working
      PROVE  target[a] \in Proposals /\ at[a] \in 1 .. Len(ops[target[a]])
             /\ Op(a) \in Operation
  <2>1. target[a] \in Proposals /\ at[a] \in 1 .. Len(ops[target[a]])
    BY <1>w DEF ClaimInv
  <2> QED
    BY <2>1, ElementOfSeq DEF Op
<1>1. ASSUME NEW p \in Proposals, NEW kind \in Kinds, NEW row \in Rows, Stage(p, kind, row)
      PROVE  TypeOK'
  <2> DEFINE op == [kind |-> kind, row |-> row,
                    base |-> IF kind \in Snapshotted THEN updated_at[row] ELSE Null]
  <2>1. op \in Operation
    BY DEF Operation
  <2>2. /\ ops' = [ops EXCEPT ![p] = Append(ops[p], op)]
        /\ op_status' = [op_status EXCEPT ![p] = Append(op_status[p], "pending")]
        /\ Len(ops[p]) < MaxOps
    BY <1>1 DEF Stage
  <2> HIDE DEF op
  <2>3. /\ Append(ops[p], op) \in Seq(Operation)
        /\ Len(Append(ops[p], op)) = Len(ops[p]) + 1
    BY <2>1, AppendProperties
  <2>4. /\ Append(op_status[p], "pending") \in Seq(OpStatuses)
        /\ Len(Append(op_status[p], "pending")) = Len(op_status[p]) + 1
    BY AppendProperties DEF OpStatuses
  <2>5. /\ ops' \in [Proposals -> Seq(Operation)]
        /\ op_status' \in [Proposals -> Seq(OpStatuses)]
    BY <2>2, <2>3, <2>4
  <2>6. \A q \in Proposals : Len(op_status'[q]) = Len(ops'[q]) /\ Len(ops'[q]) <= MaxOps
    BY <2>2, <2>3, <2>4, LenProperties
  <2> QED
    BY <1>1, <2>5, <2>6 DEF Stage
<1>2. ASSUME NEW p \in Proposals, Create(p) \/ Expire(p) PROVE TypeOK'
  BY <1>2 DEF Create, Expire, Statuses
<1>3. ASSUME NEW a \in Approvers, NEW p \in Proposals, Claim(a, p) PROVE TypeOK'
  BY <1>3 DEF Claim, Statuses, PCs
<1>4. ASSUME NEW a \in Approvers, NEW p \in Proposals, LoseClaim(a, p) PROVE TypeOK'
  BY <1>4 DEF LoseClaim, PCs
<1>5. ASSUME NEW a \in Approvers, PreflightPass(a) PROVE TypeOK'
  <2>1. Op(a) \in Operation
    BY <1>5, <1>w DEF PreflightPass, Working
  <2>2. Live(a, Op(a).row) \in Nat
    BY <2>1 DEF Live, Operation
  <2>3. loaded' \in [Approvers -> [Rows -> Nat \cup {Null}]]
    BY <1>5, <2>1, <2>2 DEF PreflightPass, Operation
  <2>4. at' \in [Approvers -> Nat] /\ pc' \in [Approvers -> PCs]
    BY <1>5, AdvanceType DEF PreflightPass, PCs
  <2> QED
    BY <1>5, <2>3, <2>4 DEF PreflightPass
<1>6. ASSUME NEW a \in Approvers, PreflightFail(a) PROVE TypeOK'
  BY <1>6 DEF PreflightFail, Statuses, PCs
<1>7. ASSUME NEW a \in Approvers, Select(a) PROVE TypeOK'
  BY <1>7 DEF Select, PCs
<1>8. ASSUME NEW a \in Approvers, SelectFail(a) PROVE TypeOK'
  BY <1>8 DEF SelectFail, Untouched, Unlock, PCs
<1>9. ASSUME NEW a \in Approvers, Flush(a) PROVE TypeOK'
  <2>1. Op(a) \in Operation
    BY <1>9, <1>w DEF Flush, Working
  <2>2. /\ lock' \in [Rows -> Approvers \cup {Null}]
        /\ work' \in [Approvers -> [Rows -> {"same", "written", "gone"}]]
    <3>1. Op(a).row \in Rows
      BY <2>1 DEF Operation
    <3>2. CASE Op(a).kind \in Locking
      <4>1. /\ lock' = [lock EXCEPT ![Op(a).row] = a]
            /\ work' = [work EXCEPT ![a][Op(a).row] = IF Op(a).kind \in {"update", "assign"}
                                                      THEN "written" ELSE "gone"]
        BY <1>9, <3>2 DEF Flush
      <4>2. lock' \in [Rows -> Approvers \cup {Null}]
        BY <3>1, <4>1
      <4>3. work' \in [Approvers -> [Rows -> {"same", "written", "gone"}]]
        BY <3>1, <4>1
      <4> QED
        BY <4>2, <4>3
    <3>3. CASE Op(a).kind \notin Locking
      BY <1>9, <3>3 DEF Flush
    <3> QED
      BY <3>2, <3>3
  <2>3. at' \in [Approvers -> Nat] /\ pc' \in [Approvers -> PCs]
    BY <1>9, AdvanceType DEF Flush, PCs
  <2> QED
    BY <1>9, <2>2, <2>3 DEF Flush
<1>10. ASSUME NEW a \in Approvers, Finish(a) PROVE TypeOK'
  <2> DEFINE p == target[a]
  <2> DEFINE done == [i \in 1 .. Len(ops[p]) |-> "executed"]
  <2>1. p \in Proposals
    BY <1>10, <1>w DEF Finish, Working
  <2>2. done \in Seq(OpStatuses) /\ Len(done) = Len(ops[p])
    BY <2>1, LenProperties DEF OpStatuses
  <2>3. op_status' = [op_status EXCEPT ![p] = done]
    BY <1>10 DEF Finish
  <2> HIDE DEF done
  <2>4. /\ op_status' \in [Proposals -> Seq(OpStatuses)]
        /\ \A q \in Proposals : Len(op_status'[q]) = Len(ops[q])
    BY <2>1, <2>2, <2>3
  <2>5. /\ present' \in [Rows -> BOOLEAN] /\ updated_at' \in [Rows -> Nat]
        /\ lock' \in [Rows -> Approvers \cup {Null}]
    BY <1>10 DEF Finish, Sees, Unlock
  <2>6. /\ status' \in [Proposals -> Statuses] /\ audits' \in [Proposals -> Nat]
        /\ work' \in [Approvers -> [Rows -> {"same", "written", "gone"}]]
        /\ pc' \in [Approvers -> PCs]
    BY <1>10, <2>1, LenProperties DEF Finish, Statuses, Untouched, PCs
  <2> QED
    BY <1>10, <2>4, <2>5, <2>6 DEF Finish
<1>11. ASSUME NEW a \in Approvers, Record(a) PROVE TypeOK'
  <2> DEFINE p == target[a]
  <2> DEFINE marked == FailedOps(p, at[a])
  <2>1. p \in Proposals
    BY <1>11, <1>w DEF Record, Working
  <2>2. marked \in Seq(OpStatuses) /\ Len(marked) = Len(ops[p])
    <3>1. \A j \in 1 .. Len(ops[p]) : op_status[p][j] \in OpStatuses
      BY <2>1, ElementOfSeq
    <3>2. Len(ops[p]) \in Nat
      BY <2>1, LenProperties
    <3> QED
      BY <3>1, <3>2 DEF FailedOps, OpStatuses
  <2>3. op_status' = [op_status EXCEPT ![p] = marked]
    BY <1>11 DEF Record
  <2> HIDE DEF marked
  <2>4. /\ op_status' \in [Proposals -> Seq(OpStatuses)]
        /\ \A q \in Proposals : Len(op_status'[q]) = Len(ops[q])
    BY <2>1, <2>2, <2>3
  <2>5. status' \in [Proposals -> Statuses] /\ pc' \in [Approvers -> PCs]
    BY <1>11, <2>1 DEF Record, FailedStatus, Statuses, PCs
  <2> QED
    BY <1>11, <2>4, <2>5 DEF Record
<1>12. ASSUME NEW a \in Approvers, FlushError(a) \/ Crash(a) PROVE TypeOK'
  <2>1. target[a] \in Proposals
    BY <1>12, <1>w DEF FlushError, Crash, Working, PCs
  <2>2. Die(a)
    BY <1>12 DEF FlushError, Crash
  <2>3. crashes' \in 0 .. MaxCrashes
    BY <1>12 DEF FlushError, Crash
  <2> QED
    BY <2>1, <2>2, <2>3 DEF Die, Unlock, Untouched, PCs
<1>13. ASSUME NEW k \in Rejecters, NEW p \in Proposals, RejectRead(k, p) PROVE TypeOK'
  BY <1>13 DEF RejectRead
<1>14. ASSUME NEW k \in Rejecters, RejectWrite(k) PROVE TypeOK'
  BY <1>14 DEF RejectWrite, Statuses
<1>15. ASSUME NEW r \in Rows, Edit(r) PROVE TypeOK'
  <2>1. edits' \in 0 .. MaxEdits
    BY <1>15 DEF Edit
  <2>2. CASE /\ updated_at' = [updated_at EXCEPT ![r] = @ + 1]
             /\ UNCHANGED present
    <3>1. updated_at[r] + 1 \in Nat
      OBVIOUS
    <3> QED
      BY <1>15, <2>1, <2>2, <3>1 DEF Edit
  <2>3. CASE /\ present' = [present EXCEPT ![r] = ~@]
             /\ UNCHANGED updated_at
    <3>1. present' \in [Rows -> BOOLEAN]
      BY <2>3, Zenon
    <3> QED
      BY <1>15, <2>1, <2>3, <3>1 DEF Edit
  <2> QED
    BY <1>15, <2>2, <2>3 DEF Edit
<1>16. CASE UNCHANGED vars
  BY <1>16 DEF vars
<1> HIDE DEF TypeOK, rowVars, proposalVars, approveVars, historyVars
<1> QED
  BY <1>1, <1>2, <1>3, <1>4, <1>5, <1>6, <1>7, <1>8, <1>9, <1>10, <1>11, <1>12, <1>13,
     <1>14, <1>15, <1>16 DEF Next, ApproveStep

-----------------------------------------------------------------------------
(* One request per claimed proposal *)

LEMMA InitClaim == Init => ClaimInv
BY DEF Init, ClaimInv, Working

LEMMA InitRecorded == Init => RecordedInv
BY DEF Init, RecordedInv

LEMMA NextRecorded == TypeOK /\ ClaimInv /\ RecordedInv /\ [Next]_vars => RecordedInv'
<1> SUFFICES ASSUME TypeOK, ClaimInv, RecordedInv, [Next]_vars PROVE RecordedInv'
  OBVIOUS
<1> USE DEF rowVars, proposalVars, approveVars, historyVars
<1>t. /\ pc \in [Approvers -> PCs] /\ status \in [Proposals -> Statuses]
      /\ ops \in [Proposals -> Seq(Operation)]
      /\ rejecting \in [Rejecters -> Proposals \cup {"new", "done"}]
  BY DEF TypeOK
\* A step that records a verdict on a recorded proposal, or none.
<1>v. ASSUME UNCHANGED <<ops, rejecting>>, NEW p \in Proposals, status[p] # "none",
             NEW s \in Statuses \ {"none"}, status' = [status EXCEPT ![p] = s]
      PROVE  RecordedInv'
  <2>1. \A q \in Proposals : status'[q] = "none" <=> status[q] = "none"
    BY <1>v, <1>t
  <2> QED
    BY <2>1, <1>v DEF RecordedInv
<1>u. ASSUME UNCHANGED <<ops, rejecting, status>> PROVE RecordedInv'
  BY <1>u DEF RecordedInv
<1>w. ASSUME NEW a \in Approvers, pc[a] \in Working
      PROVE  target[a] \in Proposals /\ status[target[a]] # "none"
  BY <1>w DEF ClaimInv
<1>1. ASSUME NEW p \in Proposals, NEW kind \in Kinds, NEW row \in Rows, Stage(p, kind, row)
      PROVE  RecordedInv'
  <2>1. /\ status[p] = "none" /\ UNCHANGED <<status, rejecting>>
        /\ \A q \in Proposals : q # p => ops'[q] = ops[q]
    BY <1>1, <1>t DEF Stage
  <2> QED
    BY <2>1 DEF RecordedInv
<1>2. ASSUME NEW p \in Proposals, Create(p) PROVE RecordedInv'
  <2>1. /\ ops[p] # <<>> /\ UNCHANGED <<ops, rejecting>>
        /\ status' = [status EXCEPT ![p] = "pending_approval"]
    BY <1>2 DEF Create
  <2>2. \A q \in Proposals : q # p => status'[q] = status[q]
    BY <2>1, <1>t
  <2>3. status'[p] # "none"
    BY <2>1, <1>t
  <2> QED
    BY <2>1, <2>2, <2>3 DEF RecordedInv
<1>3. ASSUME NEW p \in Proposals, Expire(p) PROVE RecordedInv'
  BY <1>3, <1>u DEF Expire
<1>4. ASSUME NEW a \in Approvers, NEW p \in Proposals, Claim(a, p) PROVE RecordedInv'
  BY <1>4, <1>v DEF Claim, Claimable, Statuses
<1>5. ASSUME NEW a \in Approvers, NEW p \in Proposals, LoseClaim(a, p) PROVE RecordedInv'
  BY <1>5, <1>u DEF LoseClaim
<1>6. ASSUME NEW a \in Approvers, PreflightPass(a) \/ Select(a) \/ SelectFail(a) \/ Flush(a)
      PROVE  RecordedInv'
  BY <1>6, <1>u DEF PreflightPass, Select, SelectFail, Flush
<1>7. ASSUME NEW a \in Approvers, PreflightFail(a) PROVE RecordedInv'
  BY <1>7, <1>v, <1>w DEF PreflightFail, Statuses, Working
<1>8. ASSUME NEW a \in Approvers, Finish(a) PROVE RecordedInv'
  BY <1>8, <1>v, <1>w DEF Finish, Statuses, Working
<1>9. ASSUME NEW a \in Approvers, Record(a) PROVE RecordedInv'
  BY <1>9, <1>v, <1>w DEF Record, FailedStatus, Statuses, Working
<1>10. ASSUME NEW a \in Approvers, FlushError(a) \/ Crash(a) PROVE RecordedInv'
  BY <1>10, <1>u DEF FlushError, Crash, Die
<1>11. ASSUME NEW k \in Rejecters, NEW p \in Proposals, RejectRead(k, p) PROVE RecordedInv'
  BY <1>11, <1>t DEF RejectRead, RecordedInv
<1>12. ASSUME NEW k \in Rejecters, RejectWrite(k) PROVE RecordedInv'
  <2> DEFINE p == rejecting[k]
  <2>1. p \in Proposals /\ status[p] # "none"
    BY <1>12 DEF RejectWrite, RecordedInv
  <2>2. UNCHANGED ops /\ status' = [status EXCEPT ![p] = "cancelled"]
    BY <1>12 DEF RejectWrite
  <2>3. \A q \in Proposals : status'[q] = "none" <=> status[q] = "none"
    BY <2>1, <2>2, <1>t
  <2>4. rejecting' = [rejecting EXCEPT ![k] = "done"]
    BY <1>12 DEF RejectWrite
  <2> HIDE DEF p
  <2>5. \A j \in Rejecters : rejecting'[j] \in Proposals => rejecting'[j] = rejecting[j]
    BY <2>4, <1>t
  <2> QED
    BY <2>2, <2>3, <2>5 DEF RecordedInv
<1>13. ASSUME NEW r \in Rows, Edit(r) PROVE RecordedInv'
  BY <1>13, <1>u DEF Edit
<1>14. CASE UNCHANGED vars
  BY <1>14, <1>u DEF vars
<1> HIDE DEF rowVars, proposalVars, approveVars, historyVars
<1> QED
  BY <1>1, <1>2, <1>3, <1>4, <1>5, <1>6, <1>7, <1>8, <1>9, <1>10, <1>11, <1>12, <1>13,
     <1>14 DEF Next, ApproveStep

LEMMA NextClaim ==
    TypeOK /\ RecordedInv /\ ClaimInv /\ AppliedOnceAsAWhole /\ [Next]_vars => ClaimInv'
<1> SUFFICES ASSUME TypeOK, RecordedInv, ClaimInv, AppliedOnceAsAWhole, [Next]_vars PROVE ClaimInv'
  OBVIOUS
<1> USE DEF Working, rowVars, proposalVars, approveVars, historyVars
<1>t. /\ pc \in [Approvers -> PCs] /\ target \in [Approvers -> Proposals \cup {Null}]
      /\ at \in [Approvers -> Nat] /\ status \in [Proposals -> Statuses]
      /\ ops \in [Proposals -> Seq(Operation)] /\ audits \in [Proposals -> Nat]
      /\ rejecting \in [Rejecters -> Proposals \cup {"new", "done"}]
  BY DEF TypeOK
<1>l. \A p \in Proposals : Len(ops[p]) \in Nat
  BY <1>t, LenProperties
<1>1. ASSUME NEW p \in Proposals, NEW kind \in Kinds, NEW row \in Rows, Stage(p, kind, row)
      PROVE  ClaimInv'
  <2>1. status[p] = "none" /\ UNCHANGED <<status, audits, pc, target, at>>
    BY <1>1 DEF Stage
  <2>2. \A q \in Proposals : q # p => ops'[q] = ops[q]
    BY <1>1, <1>t DEF Stage
  <2> QED
    BY <2>1, <2>2 DEF ClaimInv
<1>2. ASSUME NEW p \in Proposals, Create(p) PROVE ClaimInv'
  BY <1>2, <1>t DEF Create, ClaimInv
<1>3. ASSUME NEW p \in Proposals, Expire(p) PROVE ClaimInv'
  BY <1>3 DEF Expire, ClaimInv
<1>4. ASSUME NEW a \in Approvers, NEW p \in Proposals, Claim(a, p) PROVE ClaimInv'
  <2>1. /\ status[p] = "pending_approval" /\ UNCHANGED <<ops, audits>>
        /\ status' = [status EXCEPT ![p] = "executing"]
        /\ pc' = [pc EXCEPT ![a] = "preflight"]
        /\ target' = [target EXCEPT ![a] = p]
        /\ at' = [at EXCEPT ![a] = 1]
    BY <1>4 DEF Claim, Claimable
  <2>2. audits[p] = 0 /\ 1 \in 1 .. Len(ops[p])
    <3>1. ops[p] # <<>>
      BY <2>1 DEF RecordedInv
    <3>2. audits[p] = 0
      <4>1. audits[p] \in Nat /\ ~(audits[p] > 0)
        BY <2>1, <1>t DEF AppliedOnceAsAWhole
      <4> QED
        BY <4>1
    <3>3. Len(ops[p]) # 0
      BY <3>1, <1>t, EmptySeq
    <3> QED
      BY <3>2, <3>3, <1>l
  <2>3. \A b \in Approvers : pc[b] \in Working => target[b] # p
    BY <2>1 DEF ClaimInv
  <2> QED
    BY <2>1, <2>2, <2>3, <1>t DEF ClaimInv
<1>5. ASSUME NEW a \in Approvers, NEW p \in Proposals, LoseClaim(a, p) PROVE ClaimInv'
  BY <1>5, <1>t DEF LoseClaim, ClaimInv
\* A step of a working request that goes on working on the same proposal.
<1>s. ASSUME NEW a \in Approvers, pc[a] \in Working, UNCHANGED <<status, audits, ops, target>>,
             NEW next \in PCs, pc' = [pc EXCEPT ![a] = next],
             NEW i, at' = [at EXCEPT ![a] = i], i \in 1 .. Len(ops[target[a]])
      PROVE  ClaimInv'
  BY <1>s, <1>t DEF ClaimInv
\* A step by which a request ends, with the verdict s or without.
<1>e. ASSUME NEW a \in Approvers, pc[a] \in Working, UNCHANGED <<ops, target, at>>,
             pc' = [pc EXCEPT ![a] = "done"],
             \A p \in Proposals : p # target[a] => status'[p] = status[p] /\ audits'[p] = audits[p]
      PROVE  ClaimInv'
  <2>1. target[a] \in Proposals
    BY <1>e DEF ClaimInv
  <2>2. \A b \in Approvers : b # a /\ pc[b] \in Working => target[b] # target[a]
    BY <1>e DEF ClaimInv
  <2> QED
    BY <1>e, <1>t, <2>1, <2>2 DEF ClaimInv
<1>a. ASSUME NEW a \in Approvers, NEW here \in Working, NEW next \in Working,
             pc[a] \in Working, UNCHANGED <<status, audits, ops, target>>, Advance(a, here, next)
      PROVE  ClaimInv'
  <2>1. at[a] \in 1 .. Len(ops[target[a]]) /\ Len(ops[target[a]]) \in Nat
    BY <1>a, <1>l DEF ClaimInv
  <2>2. CASE at[a] < Len(ops[target[a]])
    <3>1. at[a] + 1 \in 1 .. Len(ops[target[a]])
      BY <2>1, <2>2
    <3> QED
      BY <1>a, <2>2, <3>1, <1>s DEF Advance, PCs
  <2>3. CASE ~(at[a] < Len(ops[target[a]]))
    <3>1. 1 \in 1 .. Len(ops[target[a]])
      BY <2>1
    <3> QED
      BY <1>a, <2>3, <3>1, <1>s DEF Advance, PCs
  <2> QED
    BY <2>2, <2>3
<1>6. ASSUME NEW a \in Approvers, PreflightPass(a) PROVE ClaimInv'
  BY <1>6, <1>a DEF PreflightPass
<1>7. ASSUME NEW a \in Approvers, PreflightFail(a) PROVE ClaimInv'
  BY <1>7, <1>e, <1>t DEF PreflightFail
<1>8. ASSUME NEW a \in Approvers, Select(a) \/ SelectFail(a) PROVE ClaimInv'
  <2>1. PICK next \in {"flush", "record"} : pc' = [pc EXCEPT ![a] = next]
    BY <1>8 DEF Select, SelectFail
  <2>2. pc[a] \in Working /\ next \in PCs /\ UNCHANGED <<status, audits, ops, target, at>>
    BY <1>8 DEF Select, SelectFail, Working, PCs, proposalVars
  <2> QED
    BY <2>1, <2>2, <1>t DEF ClaimInv
<1>9. ASSUME NEW a \in Approvers, Flush(a) PROVE ClaimInv'
  BY <1>9, <1>a DEF Flush
<1>10. ASSUME NEW a \in Approvers, Finish(a) PROVE ClaimInv'
  BY <1>10, <1>e, <1>t DEF Finish
<1>11. ASSUME NEW a \in Approvers, Record(a) PROVE ClaimInv'
  BY <1>11, <1>e, <1>t DEF Record
<1>12. ASSUME NEW a \in Approvers, FlushError(a) \/ Crash(a) PROVE ClaimInv'
  <2>1. pc[a] \in Working /\ Die(a)
    BY <1>12, <1>t DEF FlushError, Crash, PCs
  <2> QED
    BY <2>1, <1>e DEF Die
<1>13. ASSUME NEW k \in Rejecters, NEW p \in Proposals, RejectRead(k, p) PROVE ClaimInv'
  BY <1>13 DEF RejectRead, ClaimInv
<1>14. ASSUME NEW k \in Rejecters, RejectWrite(k) PROVE ClaimInv'
  BY <1>14, <1>t DEF RejectWrite, ClaimInv
<1>15. ASSUME NEW r \in Rows, Edit(r) PROVE ClaimInv'
  BY <1>15 DEF Edit, ClaimInv
<1>16. CASE UNCHANGED vars
  BY <1>16 DEF vars, ClaimInv
<1> HIDE DEF Working, rowVars, proposalVars, approveVars, historyVars
<1> QED
  BY <1>1, <1>2, <1>3, <1>4, <1>5, <1>6, <1>7, <1>8, <1>9, <1>10, <1>11, <1>12, <1>13,
     <1>14, <1>15, <1>16 DEF Next, ApproveStep

-----------------------------------------------------------------------------
(* Applied at most once, and as a whole *)

\* The four facts of AppliedOnceAsAWhole about one proposal.
Whole(p) ==
    /\ audits[p] \in {0, Len(ops[p])}
    /\ audits[p] = 0 => \A i \in 1 .. Len(ops[p]) : op_status[p][i] # "executed"
    /\ status[p] = "completed" => audits[p] = Len(ops[p]) /\ ops[p] # <<>>
    /\ audits[p] > 0 => status[p] \in {"completed", "cancelled"}

LEMMA InitApplied == Init => AppliedOnceAsAWhole
<1> SUFFICES ASSUME Init, NEW p \in Proposals PROVE Whole(p)
  BY DEF AppliedOnceAsAWhole, Whole
<1>1. ops[p] = <<>> /\ audits[p] = 0 /\ status[p] = "none"
  BY DEF Init
<1>2. Len(ops[p]) = 0
  BY <1>1
<1> QED
  BY <1>1, <1>2 DEF Whole

LEMMA NextApplied ==
    TypeOK /\ RecordedInv /\ ClaimInv /\ AppliedOnceAsAWhole /\ [Next]_vars
       => AppliedOnceAsAWhole'
<1> SUFFICES ASSUME TypeOK, RecordedInv, ClaimInv, AppliedOnceAsAWhole, [Next]_vars,
                    NEW p \in Proposals
             PROVE  Whole(p)'
  BY DEF AppliedOnceAsAWhole, Whole
<1> USE DEF rowVars, proposalVars, approveVars, historyVars
<1>t. /\ status \in [Proposals -> Statuses] /\ audits \in [Proposals -> Nat]
      /\ ops \in [Proposals -> Seq(Operation)] /\ op_status \in [Proposals -> Seq(OpStatuses)]
      /\ Len(op_status[p]) = Len(ops[p])
  BY DEF TypeOK
<1>l. Len(ops[p]) \in Nat
  BY <1>t, LenProperties
<1>p. Whole(p)
  BY DEF AppliedOnceAsAWhole, Whole
<1>w. ASSUME NEW a \in Approvers, pc[a] \in Working
      PROVE  target[a] \in Proposals /\ audits[target[a]] = 0
  BY <1>w DEF ClaimInv
\* Nothing of p changes.
<1>u. ASSUME ops'[p] = ops[p], op_status'[p] = op_status[p], audits'[p] = audits[p],
             status'[p] = status[p]
      PROVE  Whole(p)'
  BY <1>u, <1>p DEF Whole
\* Only the status of p changes, and not to completed; if it was applied it is cancelled.
<1>v. ASSUME ops'[p] = ops[p], op_status'[p] = op_status[p], audits'[p] = audits[p],
             status'[p] # "completed", audits[p] = 0 \/ status'[p] = "cancelled"
      PROVE  Whole(p)'
  BY <1>v, <1>p, <1>t DEF Whole
<1>1. ASSUME NEW q \in Proposals, NEW kind \in Kinds, NEW row \in Rows, Stage(q, kind, row)
      PROVE  Whole(p)'
  <2>1. CASE q # p
    BY <1>1, <2>1, <1>u, <1>t DEF Stage
  <2>2. CASE q = p
    <3>1. /\ status[p] = "none" /\ status'[p] = status[p] /\ audits'[p] = audits[p]
          /\ op_status'[p] = Append(op_status[p], "pending")
          /\ \E op : ops'[p] = Append(ops[p], op)
      BY <1>1, <2>2, <1>t DEF Stage
    <3>2. audits[p] = 0
      BY <3>1, <1>p, <1>t DEF Whole
    <3>3. Len(ops'[p]) = Len(ops[p]) + 1
      BY <3>1, <1>t
    <3>4. \A i \in 1 .. Len(ops[p]) + 1 : op_status'[p][i] # "executed"
      <4> SUFFICES ASSUME NEW i \in 1 .. Len(ops[p]) + 1 PROVE op_status'[p][i] # "executed"
        OBVIOUS
      <4>1. CASE i = Len(ops[p]) + 1
        <5>1. Append(op_status[p], "pending")[Len(op_status[p]) + 1] = "pending"
          BY <1>t, AppendProperties DEF OpStatuses
        <5> QED
          BY <4>1, <5>1, <3>1, <1>t
      <4>2. CASE i # Len(ops[p]) + 1
        <5>1. i \in 1 .. Len(ops[p])
          BY <4>2, <1>l
        <5>2. op_status'[p][i] = op_status[p][i]
          BY <5>1, <3>1, <1>t DEF OpStatuses
        <5> QED
          BY <5>1, <5>2, <3>2, <1>p DEF Whole
      <4> QED
        BY <4>1, <4>2
    <3>5. \A i \in 1 .. Len(ops'[p]) : op_status'[p][i] # "executed"
      BY <3>3, <3>4, Zenon
    <3>6. audits'[p] = 0 /\ status'[p] = "none"
      BY <3>1, <3>2
    <3> QED
      BY <3>5, <3>6 DEF Whole
  <2> QED
    BY <2>1, <2>2
<1>2. ASSUME NEW q \in Proposals, Create(q) PROVE Whole(p)'
  <2>1. CASE q # p
    BY <1>2, <2>1, <1>u, <1>t DEF Create
  <2>2. CASE q = p
    <3>1. audits[p] = 0
      BY <1>2, <2>2, <1>p, <1>t DEF Create, Whole
    <3> QED
      BY <1>2, <2>2, <3>1, <1>v, <1>t DEF Create
  <2> QED
    BY <2>1, <2>2
<1>3. ASSUME NEW q \in Proposals, Expire(q) PROVE Whole(p)'
  BY <1>3, <1>u DEF Expire
<1>4. ASSUME NEW a \in Approvers, NEW q \in Proposals, Claim(a, q) PROVE Whole(p)'
  <2>1. CASE q # p
    BY <1>4, <2>1, <1>u, <1>t DEF Claim
  <2>2. CASE q = p
    <3>1. audits[p] = 0
      BY <1>4, <2>2, <1>p, <1>t DEF Claim, Claimable, Whole
    <3> QED
      BY <1>4, <2>2, <3>1, <1>v, <1>t DEF Claim
  <2> QED
    BY <2>1, <2>2
<1>5. ASSUME NEW a \in Approvers, NEW q \in Proposals, LoseClaim(a, q) PROVE Whole(p)'
  BY <1>5, <1>u DEF LoseClaim
<1>6. ASSUME NEW a \in Approvers, PreflightPass(a) \/ Select(a) \/ SelectFail(a) \/ Flush(a)
      PROVE  Whole(p)'
  BY <1>6, <1>u DEF PreflightPass, Select, SelectFail, Flush
<1>7. ASSUME NEW a \in Approvers, PreflightFail(a) PROVE Whole(p)'
  <2>1. CASE target[a] # p
    BY <1>7, <2>1, <1>u, <1>t DEF PreflightFail
  <2>2. CASE target[a] = p
    BY <1>7, <2>2, <1>v, <1>w, <1>t DEF PreflightFail, Working
  <2> QED
    BY <2>1, <2>2
<1>8. ASSUME NEW a \in Approvers, Finish(a) PROVE Whole(p)'
  <2>1. CASE target[a] # p
    BY <1>8, <2>1, <1>u, <1>t DEF Finish
  <2>2. CASE target[a] = p
    <3>0. audits[p] = 0 /\ status[p] # "none"
      BY <1>8, <2>2 DEF Finish, Working, ClaimInv
    <3>1. audits[p] = 0 /\ ops[p] # <<>>
      BY <3>0 DEF RecordedInv
    <3>2. Len(ops[p]) # 0
      BY <3>1, <1>t, EmptySeq
    <3>3. /\ status'[p] = "completed" /\ ops'[p] = ops[p]
          /\ audits'[p] = audits[p] + Len(ops[p])
      BY <1>8, <2>2, <1>t DEF Finish
    <3>4. audits'[p] = Len(ops[p])
      BY <3>1, <3>3, <1>l
    <3> QED
      BY <3>1, <3>2, <3>3, <3>4, <1>l DEF Whole
  <2> QED
    BY <2>1, <2>2
<1>9. ASSUME NEW a \in Approvers, Record(a) PROVE Whole(p)'
  <2>1. CASE target[a] # p
    BY <1>9, <2>1, <1>u, <1>t DEF Record
  <2>2. CASE target[a] = p
    <3>1. /\ audits[p] = 0 /\ audits'[p] = 0 /\ ops'[p] = ops[p] /\ status'[p] = "failed"
          /\ op_status'[p] = FailedOps(p, at[a])
      BY <1>9, <2>2, <1>w, <1>t DEF Record, FailedStatus, Working
    <3>2. \A i \in 1 .. Len(ops[p]) : op_status'[p][i] # "executed"
      <4>1. \A i \in 1 .. Len(ops[p]) : op_status[p][i] # "executed"
        BY <3>1, <1>p DEF Whole
      <4> QED
        BY <3>1, <4>1 DEF FailedOps
    <3> QED
      BY <3>1, <3>2 DEF Whole
  <2> QED
    BY <2>1, <2>2
<1>10. ASSUME NEW a \in Approvers, FlushError(a) \/ Crash(a) PROVE Whole(p)'
  BY <1>10, <1>u DEF FlushError, Crash, Die
<1>11. ASSUME NEW k \in Rejecters, NEW q \in Proposals, RejectRead(k, q) PROVE Whole(p)'
  BY <1>11, <1>u DEF RejectRead
<1>12. ASSUME NEW k \in Rejecters, RejectWrite(k) PROVE Whole(p)'
  <2>1. CASE rejecting[k] # p
    BY <1>12, <2>1, <1>u, <1>t DEF RejectWrite
  <2>2. CASE rejecting[k] = p
    BY <1>12, <2>2, <1>v, <1>t DEF RejectWrite
  <2> QED
    BY <2>1, <2>2
<1>13. ASSUME NEW r \in Rows, Edit(r) PROVE Whole(p)'
  BY <1>13, <1>u DEF Edit
<1>14. CASE UNCHANGED vars
  BY <1>14, <1>u DEF vars
<1> HIDE DEF rowVars, proposalVars, approveVars, historyVars
<1> QED
  BY <1>1, <1>2, <1>3, <1>4, <1>5, <1>6, <1>7, <1>8, <1>9, <1>10, <1>11, <1>12, <1>13,
     <1>14 DEF Next, ApproveStep

-----------------------------------------------------------------------------
(* Only what was reviewed is applied *)

\* Operations on tasks are on rows of plan_tasks, and only they carry a snapshot, which is a
\* stamp that the row has had.
OpsInv ==
    \A p \in Proposals : \A i \in 1 .. Len(ops[p]) :
       LET op == ops[p][i] IN
       /\ op.row \in IF op.kind \in OnTask THEN Tasks ELSE Seats
       /\ op.base # Null => op.row \in Tasks /\ op.base <= updated_at[op.row]
       /\ op.kind \in Snapshotted => op.base # Null

\* A row that a request has written is locked by it, and a task among them is there.
WrittenInv ==
    \A a \in Approvers, r \in Rows :
       /\ work[a][r] # "same" => lock[r] = a
       /\ work[a][r] = "written" /\ r \in Tasks => present[r]

\* What the preflight of a will find of proposal p, at or after the operation at hand: the
\* row is gone, or has moved on and was not loaded before it did.
Changed(a, p) ==
    \E i \in at[a] .. Len(ops[p]) :
       LET op == ops[p][i] IN
       /\ op.base # Null
       /\ \/ ~present[op.row]
          \/ /\ updated_at[op.row] > op.base
             /\ loaded[a][op.row] = Null \/ loaded[a][op.row] > op.base

\* A claimed proposal that was not fit to be applied does not pass the preflight.
VerdictInv ==
    \A a \in Approvers :
       /\ pc[a] = "new" => loaded[a] = Unloaded
       /\ pc[a] \in {"select", "flush", "finish"} => target[a] \in reviewed
       /\ pc[a] = "preflight" /\ target[a] \notin reviewed =>
             (at[a] = 1 /\ expired[target[a]]) \/ Changed(a, target[a])

ReviewInv == OpsInv /\ WrittenInv /\ VerdictInv /\ OnlyReviewedIsApplied

LEMMA OpType ==
  ASSUME TypeOK, NEW p \in Proposals, NEW i \in 1 .. Len(ops[p])
  PROVE  ops[p][i].row \in Rows /\ ops[p][i].base \in Nat \cup {Null}
<1>1. ops[p] \in Seq(Operation)
  BY DEF TypeOK
<1>2. ops[p][i] \in Operation
  BY <1>1, ElementOfSeq
<1> QED
  BY <1>2 DEF Operation

\* Which operations a proposal has is settled when it is recorded, an expired proposal stays
\* so, and an approval that was in order stays in order.
LEMMA Settled ==
  TypeOK /\ [Next]_vars =>
    /\ \A p \in Proposals : /\ status[p] # "none" => ops'[p] = ops[p]
                            /\ expired[p] => expired'[p]
    /\ reviewed \subseteq reviewed'
<1> SUFFICES ASSUME TypeOK, [Next]_vars
             PROVE  /\ \A p \in Proposals : /\ status[p] # "none" => ops'[p] = ops[p]
                                            /\ expired[p] => expired'[p]
                    /\ reviewed \subseteq reviewed'
  OBVIOUS
<1> USE DEF rowVars, proposalVars, approveVars, historyVars
<1>t. expired \in [Proposals -> BOOLEAN] /\ ops \in [Proposals -> Seq(Operation)]
  BY DEF TypeOK
<1>1. ASSUME NEW p \in Proposals, NEW kind \in Kinds, NEW row \in Rows, Stage(p, kind, row)
      PROVE  /\ status[p] = "none" /\ UNCHANGED <<expired, reviewed>>
             /\ \A q \in Proposals : q # p => ops'[q] = ops[q]
  BY <1>1, <1>t DEF Stage
<1>2. ASSUME NEW p \in Proposals, Expire(p)
      PROVE  UNCHANGED <<ops, reviewed>> /\ \A q \in Proposals : expired[q] => expired'[q]
  BY <1>2, <1>t DEF Expire
<1>3. ASSUME NEW a \in Approvers, NEW p \in Proposals, Claim(a, p)
      PROVE  UNCHANGED <<ops, expired>> /\ reviewed \subseteq reviewed'
  BY <1>3 DEF Claim
<1>4. ASSUME NEW a \in Approvers, ApproveStep(a) \/ Crash(a) PROVE UNCHANGED <<ops, expired, reviewed>>
  BY <1>4 DEF ApproveStep, Crash, PreflightPass, PreflightFail, Select, SelectFail, Flush,
              FlushError, Die, Finish, Record
<1>5. ASSUME \/ \E p \in Proposals : Create(p)
             \/ \E a \in Approvers, p \in Proposals : LoseClaim(a, p)
             \/ \E k \in Rejecters, p \in Proposals : RejectRead(k, p)
             \/ \E k \in Rejecters : RejectWrite(k)
             \/ \E r \in Rows : Edit(r)
             \/ UNCHANGED vars
      PROVE  UNCHANGED <<ops, expired, reviewed>>
  BY <1>5 DEF Create, LoseClaim, RejectRead, RejectWrite, Edit, vars
<1> HIDE DEF rowVars, proposalVars, approveVars, historyVars
<1> QED
  BY <1>1, <1>2, <1>3, <1>4, <1>5 DEF Next

\* A stamp never goes back.
LEMMA StampsGrow == TypeOK /\ [Next]_vars => \A r \in Rows : updated_at[r] <= updated_at'[r]
<1> SUFFICES ASSUME TypeOK, [Next]_vars, NEW r \in Rows PROVE updated_at[r] <= updated_at'[r]
  OBVIOUS
<1> USE DEF rowVars, proposalVars, approveVars, historyVars
<1>t. updated_at \in [Rows -> Nat]
  BY DEF TypeOK
<1>1. ASSUME NEW a \in Approvers, Finish(a) PROVE updated_at[r] <= updated_at'[r]
  BY <1>1, <1>t DEF Finish
<1>2. ASSUME NEW s \in Rows, Edit(s) PROVE updated_at[r] <= updated_at'[r]
  BY <1>2, <1>t DEF Edit
<1>3. ASSUME UNCHANGED updated_at PROVE updated_at[r] <= updated_at'[r]
  BY <1>3, <1>t
<1>4. ASSUME NEW a \in Approvers,
             \/ PreflightPass(a) \/ PreflightFail(a) \/ Select(a) \/ SelectFail(a) \/ Flush(a)
             \/ FlushError(a) \/ Record(a) \/ Crash(a)
      PROVE  UNCHANGED <<present, updated_at>>
  BY <1>4 DEF PreflightPass, PreflightFail, Select, SelectFail, Flush, FlushError, Record, Crash, Die
<1>5. ASSUME \/ \E p \in Proposals, kind \in Kinds, row \in Rows : Stage(p, kind, row)
             \/ \E p \in Proposals : Create(p) \/ Expire(p)
             \/ \E a \in Approvers, p \in Proposals : Claim(a, p) \/ LoseClaim(a, p)
             \/ \E k \in Rejecters, p \in Proposals : RejectRead(k, p)
             \/ \E k \in Rejecters : RejectWrite(k)
             \/ UNCHANGED vars
      PROVE  UNCHANGED rowVars
  BY <1>5 DEF Stage, Create, Expire, Claim, LoseClaim, RejectRead, RejectWrite, vars
<1> QED
  BY <1>1, <1>2, <1>3, <1>4, <1>5 DEF Next, ApproveStep

\* A task that has gone does not come back: only a request that saw it there writes it.
LEMMA TasksGo ==
  TypeOK /\ WrittenInv /\ [Next]_vars => \A t \in Tasks : present'[t] => present[t]
<1> SUFFICES ASSUME TypeOK, WrittenInv, [Next]_vars, NEW t \in Tasks, present'[t] PROVE present[t]
  OBVIOUS
<1> USE DEF rowVars, proposalVars, approveVars, historyVars
<1>t. present \in [Rows -> BOOLEAN] /\ t \in Rows
  BY DEF TypeOK, Rows
<1>1. ASSUME NEW a \in Approvers, Finish(a) PROVE present[t]
  BY <1>1, <1>t DEF Finish, Sees, WrittenInv
<1>2. ASSUME NEW s \in Rows, Edit(s) PROVE present[t]
  <2>1. CASE s = t
    BY <1>2, <1>t, <2>1 DEF Edit
  <2>2. CASE s # t
    <3>1. present'[t] = present[t]
      BY <1>2, <1>t, <2>2 DEF Edit
    <3> QED
      BY <3>1
  <2> QED
    BY <2>1, <2>2
<1>4. ASSUME NEW a \in Approvers,
             \/ PreflightPass(a) \/ PreflightFail(a) \/ Select(a) \/ SelectFail(a) \/ Flush(a)
             \/ FlushError(a) \/ Record(a) \/ Crash(a)
      PROVE  UNCHANGED <<present, updated_at>>
  BY <1>4 DEF PreflightPass, PreflightFail, Select, SelectFail, Flush, FlushError, Record, Crash, Die
<1>5. ASSUME \/ \E p \in Proposals, kind \in Kinds, row \in Rows : Stage(p, kind, row)
             \/ \E p \in Proposals : Create(p) \/ Expire(p)
             \/ \E a \in Approvers, p \in Proposals : Claim(a, p) \/ LoseClaim(a, p)
             \/ \E k \in Rejecters, p \in Proposals : RejectRead(k, p)
             \/ \E k \in Rejecters : RejectWrite(k)
             \/ UNCHANGED vars
      PROVE  UNCHANGED rowVars
  BY <1>5 DEF Stage, Create, Expire, Claim, LoseClaim, RejectRead, RejectWrite, vars
<1> QED
  BY <1>1, <1>2, <1>4, <1>5 DEF Next, ApproveStep

LEMMA NextOps == TypeOK /\ OpsInv /\ TypeOK' /\ [Next]_vars => OpsInv'
<1> SUFFICES ASSUME TypeOK, OpsInv, TypeOK', [Next]_vars,
                    NEW p \in Proposals, NEW i \in 1 .. Len(ops'[p])
             PROVE  /\ ops'[p][i].row \in IF ops'[p][i].kind \in OnTask THEN Tasks ELSE Seats
                    /\ ops'[p][i].base # Null => /\ ops'[p][i].row \in Tasks
                                                 /\ ops'[p][i].base <= updated_at'[ops'[p][i].row]
                    /\ ops'[p][i].kind \in Snapshotted => ops'[p][i].base # Null
  BY DEF OpsInv
<1>t. ops \in [Proposals -> Seq(Operation)] /\ Len(ops[p]) \in Nat
  BY LenProperties DEF TypeOK
<1>r. \A row \in Rows : updated_at[row] \in Nat
  BY DEF TypeOK
<1>1. CASE ops'[p] = ops[p]
  <2> DEFINE op == ops[p][i]
  <2>1. /\ op.row \in IF op.kind \in OnTask THEN Tasks ELSE Seats
        /\ op.base # Null => op.row \in Tasks /\ op.base <= updated_at[op.row]
        /\ op.kind \in Snapshotted => op.base # Null
    BY <1>1 DEF OpsInv
  <2>2. op.row \in Rows /\ op.base \in Nat \cup {Null}
    BY <1>1, OpType
  <2>3. updated_at[op.row] <= updated_at'[op.row]
    BY <2>2, StampsGrow
  <2>4. updated_at[op.row] \in Nat /\ updated_at'[op.row] \in Nat
    BY <2>2 DEF TypeOK
  <2> HIDE DEF op
  <2>5. op.base # Null => op.base <= updated_at'[op.row]
    BY <2>1, <2>2, <2>3, <2>4
  <2> QED
    BY <1>1, <2>1, <2>5 DEF op
<1>2. ASSUME NEW kind \in Kinds, NEW row \in Rows, Stage(p, kind, row)
      PROVE  /\ ops'[p][i].row \in IF ops'[p][i].kind \in OnTask THEN Tasks ELSE Seats
             /\ ops'[p][i].base # Null => /\ ops'[p][i].row \in Tasks
                                          /\ ops'[p][i].base <= updated_at'[ops'[p][i].row]
             /\ ops'[p][i].kind \in Snapshotted => ops'[p][i].base # Null
  <2> DEFINE new == [kind |-> kind, row |-> row,
                     base |-> IF kind \in Snapshotted THEN updated_at[row] ELSE Null]
  <2>1. ops'[p] = Append(ops[p], new) /\ updated_at' = updated_at
    BY <1>2, <1>t DEF Stage, rowVars
  <2>2. /\ new.row \in IF new.kind \in OnTask THEN Tasks ELSE Seats
        /\ new.base # Null => new.row \in Tasks /\ new.base <= updated_at[new.row]
        /\ new.kind \in Snapshotted => new.base # Null
    BY <1>2, <1>r DEF Stage, OnTask, Snapshotted
  <2> HIDE DEF new
  <2>3. Len(ops'[p]) = Len(ops[p]) + 1
    BY <1>t, <2>1
  <2>4. CASE i = Len(ops[p]) + 1
    BY <1>t, <2>1, <2>2, <2>4
  <2>5. CASE i # Len(ops[p]) + 1
    <3>1. i \in 1 .. Len(ops[p])
      BY <1>t, <2>3, <2>5
    <3>2. ops'[p][i] = ops[p][i]
      BY <1>t, <2>1, <3>1
    <3> QED
      BY <2>1, <3>1, <3>2 DEF OpsInv
  <2> QED
    BY <2>4, <2>5
<1>3. (\E kind \in Kinds, row \in Rows : Stage(p, kind, row)) \/ ops'[p] = ops[p]
  <2>1. ASSUME NEW q \in Proposals, NEW kind \in Kinds, NEW row \in Rows, Stage(q, kind, row), q # p
        PROVE  ops'[p] = ops[p]
    BY <1>t, <2>1 DEF Stage
  <2>2. ASSUME ~ \E q \in Proposals, kind \in Kinds, row \in Rows : Stage(q, kind, row)
        PROVE  ops' = ops
    BY <2>2, Zenon DEF Next, vars, proposalVars, Create, Expire, Claim, LoseClaim, ApproveStep, Crash,
       PreflightPass, PreflightFail, Select, SelectFail, Flush, FlushError, Die, Finish, Record,
       RejectRead, RejectWrite, Edit
  <2> QED
    BY <2>1, <2>2
<1> QED
  BY <1>1, <1>2, <1>3

\* A row that a request has written is locked until its transaction ends, so nobody
\* else writes or removes it.
LEMMA NextWritten == TypeOK /\ OpsInv /\ ClaimInv /\ WrittenInv /\ [Next]_vars => WrittenInv'
<1> SUFFICES ASSUME TypeOK, OpsInv, ClaimInv, WrittenInv, [Next]_vars PROVE WrittenInv'
  OBVIOUS
<1> USE DEF rowVars, proposalVars, approveVars, historyVars
<1>t. /\ present \in [Rows -> BOOLEAN] /\ lock \in [Rows -> Approvers \cup {Null}]
      /\ work \in [Approvers -> [Rows -> {"same", "written", "gone"}]]
      /\ pc \in [Approvers -> PCs] /\ Tasks \subseteq Rows
  BY DEF TypeOK, Rows
<1>1. ASSUME NEW a \in Approvers, Flush(a) PROVE WrittenInv'
  <2> DEFINE op == Op(a)
  <2>1. op.row \in Rows /\ (op.kind \in Locking /\ op.row \in Tasks => op.kind \in {"update", "delete"})
    <3>1. target[a] \in Proposals /\ at[a] \in 1 .. Len(ops[target[a]])
      BY <1>1 DEF Flush, ClaimInv, Working
    <3>2. op.row \in Rows /\ op.row \in IF op.kind \in OnTask THEN Tasks ELSE Seats
      BY <3>1, OpType DEF Op, OpsInv
    <3> QED
      BY <3>2, RowsAssumption DEF OnTask, Locking
  <2>2. /\ lock[op.row] \in {Null, a} \/ op.kind \notin Locking
        /\ ~FlushRaises(a) /\ UNCHANGED present
        /\ IF op.kind \in Locking
           THEN /\ lock' = [lock EXCEPT ![op.row] = a]
                /\ work' = [work EXCEPT ![a][op.row] = IF op.kind \in {"update", "assign"}
                                                       THEN "written" ELSE "gone"]
           ELSE UNCHANGED <<lock, work>>
    BY <1>1 DEF Flush, LockFree
  <2>3. op.kind = "update" /\ op.row \in Tasks => present[op.row]
    BY <2>1, <2>2, <1>t DEF FlushRaises, Sees, WrittenInv
  <2> HIDE DEF op
  <2>4. CASE op.kind \in Locking
    <3> SUFFICES ASSUME NEW b \in Approvers, NEW r \in Rows
                 PROVE  /\ work'[b][r] # "same" => lock'[r] = b
                        /\ work'[b][r] = "written" /\ r \in Tasks => present[r]
      BY <2>2 DEF WrittenInv
    <3>1. CASE b = a /\ r = op.row
      BY <1>t, <2>1, <2>2, <2>3, <2>4, <3>1 DEF Locking
    <3>2. CASE ~(b = a /\ r = op.row)
      <4>1. work'[b][r] = work[b][r]
        BY <1>t, <2>1, <2>2, <2>4, <3>2
      <4>2. work[b][r] # "same" => r # op.row \/ b = a
        BY <2>2, <2>4 DEF WrittenInv
      <4> QED
        BY <1>t, <2>1, <2>2, <2>4, <3>2, <4>1, <4>2 DEF WrittenInv
    <3> QED
      BY <3>1, <3>2
  <2>5. CASE op.kind \notin Locking
    BY <2>2, <2>5 DEF WrittenInv
  <2> QED
    BY <2>4, <2>5
\* The transaction of a ends: its locks and its writes go together.
<1>2. ASSUME NEW a \in Approvers, work' = [work EXCEPT ![a] = Untouched], Unlock(a),
             \A r \in Tasks, b \in Approvers : b # a /\ work[b][r] = "written" => present'[r]
      PROVE  WrittenInv'
  <2> SUFFICES ASSUME NEW b \in Approvers, NEW r \in Rows
               PROVE  /\ work'[b][r] # "same" => lock'[r] = b
                      /\ work'[b][r] = "written" /\ r \in Tasks => present'[r]
    BY DEF WrittenInv
  <2>1. CASE b = a
    BY <1>t, <1>2, <2>1 DEF Untouched
  <2>2. CASE b # a
    <3>1. work'[b] = work[b]
      BY <1>t, <1>2, <2>2
    <3> QED
      BY <1>2, <2>2, <3>1 DEF WrittenInv, Unlock
  <2> QED
    BY <2>1, <2>2
<1>3. ASSUME NEW a \in Approvers, SelectFail(a) \/ FlushError(a) \/ Crash(a) PROVE WrittenInv'
  <2>1. work' = [work EXCEPT ![a] = Untouched] /\ Unlock(a) /\ UNCHANGED present
    BY <1>3 DEF SelectFail, FlushError, Crash, Die
  <2> QED
    BY <2>1, <1>2, <1>t DEF WrittenInv
<1>4. ASSUME NEW a \in Approvers, Finish(a) PROVE WrittenInv'
  <2>1. /\ work' = [work EXCEPT ![a] = Untouched] /\ Unlock(a)
        /\ present' = [r \in Rows |-> Sees(a, r)]
    BY <1>4 DEF Finish
  <2>2. ASSUME NEW r \in Tasks, NEW b \in Approvers, b # a, work[b][r] = "written"
        PROVE  present'[r]
    <3>1. work[a][r] = "same" /\ present[r]
      BY <2>2, <1>t DEF WrittenInv
    <3> QED
      BY <3>1, <2>1, <1>t DEF Sees
  <2> QED
    BY <2>1, <2>2, <1>2
<1>5. ASSUME NEW r \in Rows, Edit(r) PROVE WrittenInv'
  <2>1. UNCHANGED <<work, lock>> /\ lock[r] = Null /\ \A s \in Rows : s # r => present'[s] = present[s]
    BY <1>5, <1>t DEF Edit
  <2>2. \A a \in Approvers : work[a][r] = "same"
    BY <2>1, <1>t, NullAssumption DEF WrittenInv
  <2> QED
    BY <2>1, <2>2, <1>t DEF WrittenInv
<1>6. ASSUME UNCHANGED <<work, lock, present>> PROVE WrittenInv'
  BY <1>6 DEF WrittenInv
<1>7. ASSUME NEW a \in Approvers,
             PreflightPass(a) \/ PreflightFail(a) \/ Select(a) \/ Record(a)
      PROVE  WrittenInv'
  BY <1>6, <1>7 DEF PreflightPass, PreflightFail, Select, Record
<1>8. ASSUME \/ \E p \in Proposals, kind \in Kinds, row \in Rows : Stage(p, kind, row)
             \/ \E p \in Proposals : Create(p) \/ Expire(p)
             \/ \E a \in Approvers, p \in Proposals : Claim(a, p) \/ LoseClaim(a, p)
             \/ \E k \in Rejecters, p \in Proposals : RejectRead(k, p)
             \/ \E k \in Rejecters : RejectWrite(k)
             \/ UNCHANGED vars
      PROVE  WrittenInv'
  BY <1>6, <1>8 DEF Stage, Create, Expire, Claim, LoseClaim, RejectRead, RejectWrite, vars
<1> HIDE DEF rowVars, proposalVars, approveVars, historyVars
<1> QED
  BY <1>1, <1>3, <1>4, <1>5, <1>7, <1>8 DEF Next, ApproveStep

LEMMA InitReviewed == Init => ReviewInv
<1> SUFFICES ASSUME Init PROVE ReviewInv
  OBVIOUS
<1>1. \A p \in Proposals : Len(ops[p]) = 0
  BY DEF Init
<1>2. OpsInv
  BY <1>1 DEF OpsInv
<1> QED
  BY <1>2 DEF Init, ReviewInv, WrittenInv, VerdictInv, OnlyReviewedIsApplied, Untouched

\* What a request will find changed, it will still find changed after a step of another.
LEMMA ChangedStays ==
  ASSUME TypeOK, TypeOK', ClaimInv, OpsInv, WrittenInv, [Next]_vars, NEW a \in Approvers, NEW p,
         pc[a] \in Working, p = target[a], at'[a] = at[a], loaded'[a] = loaded[a], Changed(a, p)
  PROVE  Changed(a, p)'
<1>1. p \in Proposals /\ status[p] # "none" /\ ops'[p] = ops[p] /\ at[a] \in 1 .. Len(ops[p])
  BY Settled DEF ClaimInv
<1>2. PICK i \in at[a] .. Len(ops[p]) :
        /\ ops[p][i].base # Null
        /\ \/ ~present[ops[p][i].row]
           \/ /\ updated_at[ops[p][i].row] > ops[p][i].base
              /\ loaded[a][ops[p][i].row] = Null \/ loaded[a][ops[p][i].row] > ops[p][i].base
  BY DEF Changed
<1> DEFINE op == ops[p][i]
<1>3. i \in 1 .. Len(ops[p])
  BY <1>1, LenProperties DEF TypeOK
<1>4. QED
  <2>1. op.row \in Tasks /\ op.row \in Rows /\ op.base \in Nat
    BY <1>1, <1>2, <1>3, OpType DEF OpsInv
  <2>2. ~present[op.row] => ~present'[op.row]
    BY <2>1, TasksGo
  <2>3. updated_at[op.row] <= updated_at'[op.row]
        /\ updated_at[op.row] \in Nat /\ updated_at'[op.row] \in Nat
    BY <2>1, StampsGrow DEF TypeOK
  <2> HIDE DEF op
  <2>4. updated_at[op.row] > op.base => updated_at'[op.row] > op.base
    BY <2>1, <2>3
  <2> QED
    BY <1>1, <1>2, <2>2, <2>4 DEF Changed, op

\* The requests other than b, and b itself while it neither claims nor checks.
LEMMA VerdictStays ==
  ASSUME TypeOK, TypeOK', ClaimInv, OpsInv, WrittenInv, VerdictInv, [Next]_vars, NEW a \in Approvers,
         target'[a] = target[a], at'[a] = at[a] \/ pc'[a] # "preflight", loaded'[a] = loaded[a],
         pc'[a] \in {"select", "flush", "finish"} => pc[a] \in {"select", "flush", "finish"},
         pc'[a] \in {"new", "preflight"} => pc[a] = pc'[a]
  PROVE  /\ pc'[a] = "new" => loaded'[a] = Unloaded
         /\ pc'[a] \in {"select", "flush", "finish"} => target'[a] \in reviewed'
         /\ pc'[a] = "preflight" /\ target'[a] \notin reviewed' =>
               (at'[a] = 1 /\ expired'[target'[a]]) \/ Changed(a, target[a])'
<1>1. reviewed \subseteq reviewed'
  BY Settled
<1>2. ASSUME pc'[a] = "preflight", target[a] \notin reviewed'
      PROVE  (at'[a] = 1 /\ expired'[target[a]]) \/ Changed(a, target[a])'
  <2>1. target[a] \in Proposals /\ pc[a] \in Working /\ target[a] \notin reviewed /\ at'[a] = at[a]
    BY <1>1, <1>2 DEF ClaimInv, Working
  <2>2. (at[a] = 1 /\ expired[target[a]]) \/ Changed(a, target[a])
    BY <1>2, <2>1 DEF VerdictInv
  <2>3. expired[target[a]] => expired'[target[a]]
    BY <2>1, Settled
  <2> QED
    BY <2>1, <2>2, <2>3, ChangedStays
<1> QED
  BY <1>1, <1>2 DEF VerdictInv

LEMMA NextVerdict ==
  TypeOK /\ TypeOK' /\ RecordedInv /\ ClaimInv /\ OpsInv /\ WrittenInv /\ VerdictInv /\ [Next]_vars => VerdictInv'
<1> SUFFICES ASSUME TypeOK, TypeOK', RecordedInv, ClaimInv, OpsInv, WrittenInv, VerdictInv, [Next]_vars,
                    NEW a \in Approvers
             PROVE  /\ pc'[a] = "new" => loaded'[a] = Unloaded
                    /\ pc'[a] \in {"select", "flush", "finish"} => target'[a] \in reviewed'
                    /\ pc'[a] = "preflight" /\ target'[a] \notin reviewed' =>
                          (at'[a] = 1 /\ expired'[target'[a]]) \/ Changed(a, target[a])'
  BY DEF VerdictInv
<1> USE DEF rowVars, proposalVars, approveVars, historyVars
<1>t. /\ pc \in [Approvers -> PCs] /\ target \in [Approvers -> Proposals \cup {Null}]
      /\ at \in [Approvers -> Nat] /\ loaded \in [Approvers -> [Rows -> Nat \cup {Null}]]
      /\ updated_at \in [Rows -> Nat]
  BY DEF TypeOK
<1>1. ASSUME NEW p \in Proposals, Claim(a, p)
      PROVE  /\ pc'[a] = "preflight" /\ target'[a] = p
             /\ p \notin reviewed' => (at'[a] = 1 /\ expired'[p]) \/ Changed(a, target[a])'
  <2>1. /\ pc'[a] = "preflight" /\ target'[a] = p /\ at'[a] = 1 /\ loaded'[a] = Unloaded
        /\ reviewed' = IF Current(p) /\ ~expired[p] THEN reviewed \cup {p} ELSE reviewed
        /\ UNCHANGED <<present, updated_at, ops, expired>>
    BY <1>1, <1>t DEF Claim, VerdictInv
  <2>2. CASE ~Current(p)
    <3>1. PICK i \in 1 .. Len(ops[p]) :
             /\ ops[p][i].base # Null
             /\ ~(present[ops[p][i].row] /\ updated_at[ops[p][i].row] = ops[p][i].base)
      BY <2>2 DEF Current
    <3> DEFINE op == ops[p][i]
    <3>2. op.row \in Rows /\ op.base \in Nat /\ op.base <= updated_at[op.row]
      BY <3>1, OpType DEF OpsInv
    <3> HIDE DEF op
    <3>3. ~present[op.row] \/ updated_at[op.row] > op.base
      BY <1>t, <3>1, <3>2 DEF op
    <3>4. loaded'[a][op.row] = Null
      BY <2>1, <3>2 DEF Unloaded
    <3> QED
      BY <2>1, <3>1, <3>3, <3>4 DEF Changed, op
  <2> QED
    BY <2>1, <2>2
<1>2. ASSUME PreflightPass(a)
      PROVE  /\ pc'[a] \in {"preflight", "select"} /\ target'[a] = target[a]
             /\ target[a] \in reviewed' \/ (pc'[a] = "preflight" /\ Changed(a, target[a])')
  <2> DEFINE p == target[a]
  <2>1. /\ pc[a] = "preflight" /\ p \in Proposals /\ at[a] \in 1 .. Len(ops[p]) /\ Len(ops[p]) \in Nat
    BY <1>2, LenProperties DEF PreflightPass, ClaimInv, Working, TypeOK
  <2>2. /\ UNCHANGED <<target, present, updated_at, ops, reviewed>>
        /\ at[a] = 1 => ~expired[p]
        /\ Op(a).base # Null => present[Op(a).row] /\ Live(a, Op(a).row) = Op(a).base
        /\ loaded' = IF Op(a).base = Null THEN loaded
                     ELSE [loaded EXCEPT ![a][Op(a).row] = Live(a, Op(a).row)]
    BY <1>2 DEF PreflightPass, Matches
  <2>3. IF at[a] < Len(ops[p]) THEN at'[a] = at[a] + 1 /\ pc'[a] = "preflight" ELSE pc'[a] = "select"
    BY <1>2, <1>t DEF PreflightPass, Advance
  <2>4. ASSUME p \notin reviewed
        PROVE  pc'[a] = "preflight" /\ Changed(a, target[a])'
    <3>1. PICK i \in at[a] .. Len(ops[p]) :
            /\ ops[p][i].base # Null
            /\ \/ ~present[ops[p][i].row]
               \/ /\ updated_at[ops[p][i].row] > ops[p][i].base
                  /\ loaded[a][ops[p][i].row] = Null \/ loaded[a][ops[p][i].row] > ops[p][i].base
      BY <2>1, <2>2, <2>4 DEF VerdictInv, Changed
    <3> DEFINE op == ops[p][i]
    <3>2. i \in 1 .. Len(ops[p]) /\ op.row \in Rows /\ op.base \in Nat
      BY <2>1, <3>1, OpType
    <3>3. i # at[a]
      <4> SUFFICES ASSUME i = at[a] PROVE FALSE
        OBVIOUS
      <4>1. op = Op(a)
        BY DEF Op
      <4> HIDE DEF op
      <4> QED
        BY <1>t, <2>2, <3>1, <3>2, <4>1 DEF Live, op
    <3>4. i \in at'[a] .. Len(ops'[p]) /\ pc'[a] = "preflight"
      BY <2>1, <2>2, <2>3, <3>1, <3>3
    <3>5. updated_at[op.row] > op.base /\ (loaded[a][op.row] = Null \/ loaded[a][op.row] > op.base)
             => loaded'[a][op.row] = Null \/ loaded'[a][op.row] > op.base
      <4>1. loaded'[a][op.row] = loaded[a][op.row] \/ loaded'[a][op.row] = Live(a, op.row)
        BY <1>t, <2>2, <3>2
      <4> HIDE DEF op
      <4> QED
        BY <4>1 DEF Live
    <3> QED
      BY <2>2, <3>1, <3>4, <3>5 DEF Changed
  <2> QED
    BY <2>2, <2>3, <2>4
<1>3. ASSUME NEW b \in Approvers, PreflightFail(b) \/ Select(b) \/ SelectFail(b) \/ Flush(b) \/ FlushError(b)
                                  \/ Finish(b) \/ Record(b) \/ Crash(b)
      PROVE  /\ UNCHANGED <<target, loaded>>
             /\ at'[a] = at[a] \/ pc'[a] # "preflight"
             /\ pc'[a] \in {"select", "flush", "finish"} => pc[a] \in {"select", "flush", "finish"}
             /\ pc'[a] \in {"new", "preflight"} => pc[a] = pc'[a]
  BY <1>3, <1>t DEF PreflightFail, Select, SelectFail, Flush, FlushError, Die, Finish, Record, Crash, Advance
<1>4. ASSUME NEW b \in Approvers, b # a,
             PreflightPass(b) \/ \E p \in Proposals : Claim(b, p)
      PROVE  target'[a] = target[a] /\ at'[a] = at[a] /\ loaded'[a] = loaded[a] /\ pc'[a] = pc[a]
  BY <1>4, <1>t DEF PreflightPass, Claim, Advance
<1>5. ASSUME \/ \E p \in Proposals, kind \in Kinds, row \in Rows : Stage(p, kind, row)
             \/ \E p \in Proposals : Create(p) \/ Expire(p)
             \/ \E k \in Rejecters, p \in Proposals : RejectRead(k, p)
             \/ \E k \in Rejecters : RejectWrite(k)
             \/ \E r \in Rows : Edit(r)
             \/ UNCHANGED vars
      PROVE  UNCHANGED <<target, at, loaded, pc>>
  BY <1>5 DEF Stage, Create, Expire, RejectRead, RejectWrite, Edit, vars
<1>6. ASSUME NEW b \in Approvers, NEW p \in Proposals, LoseClaim(b, p)
      PROVE  UNCHANGED <<target, at, loaded>> /\ pc'[a] \in {pc[a], "done"}
  BY <1>6, <1>t DEF LoseClaim
<1> HIDE DEF rowVars, proposalVars, approveVars, historyVars
<1>7. CASE (\E p \in Proposals : Claim(a, p)) \/ PreflightPass(a)
  BY <1>1, <1>2, <1>7
<1>8. CASE ~((\E p \in Proposals : Claim(a, p)) \/ PreflightPass(a))
  <2> DEFINE Keeps == /\ target'[a] = target[a] /\ loaded'[a] = loaded[a]
                      /\ at'[a] = at[a] \/ pc'[a] # "preflight"
                      /\ pc'[a] \in {"select", "flush", "finish"} => pc[a] \in {"select", "flush", "finish"}
                      /\ pc'[a] \in {"new", "preflight"} => pc[a] = pc'[a]
  <2>1. ASSUME target'[a] = target[a], at'[a] = at[a], loaded'[a] = loaded[a], pc'[a] \in {pc[a], "done"}
        PROVE  Keeps
    BY <2>1
  <2>2. ASSUME NEW b \in Approvers, ApproveStep(b) \/ Crash(b) \/ \E p \in Proposals : Claim(b, p) \/ LoseClaim(b, p)
        PROVE  Keeps
    <3>1. CASE PreflightPass(b) \/ \E p \in Proposals : Claim(b, p)
      BY <1>4, <1>8, <2>1, <3>1
    <3>2. CASE \E p \in Proposals : LoseClaim(b, p)
      BY <1>6, <2>1, <3>2
    <3>3. CASE \/ PreflightFail(b) \/ Select(b) \/ SelectFail(b) \/ Flush(b) \/ FlushError(b)
               \/ Finish(b) \/ Record(b) \/ Crash(b)
      BY <1>3, <3>3
    <3> QED
      BY <2>2, <3>1, <3>2, <3>3 DEF ApproveStep
  <2> HIDE DEF Keeps
  <2>3. Keeps
    BY <1>5, <2>1, <2>2 DEF Next
  <2> QED
    BY <2>3, VerdictStays DEF Keeps
<1> QED
  BY <1>7, <1>8

\* Only Finish applies a proposal, and it is one that the preflight let pass.
LEMMA NextReviewed ==
  TypeOK /\ ClaimInv /\ VerdictInv /\ OnlyReviewedIsApplied /\ [Next]_vars => OnlyReviewedIsApplied'
<1> SUFFICES ASSUME TypeOK, ClaimInv, VerdictInv, OnlyReviewedIsApplied, [Next]_vars,
                    NEW p \in Proposals, audits'[p] > 0
             PROVE  p \in reviewed'
  BY DEF OnlyReviewedIsApplied
<1>1. reviewed \subseteq reviewed'
  BY Settled
<1>2. ASSUME NEW a \in Approvers, Finish(a) PROVE p \in reviewed'
  <2>1. target[a] \in reviewed
    BY <1>2 DEF Finish, VerdictInv
  <2>2. target[a] = p \/ audits'[p] = audits[p]
    BY <1>2 DEF Finish, TypeOK
  <2> QED
    BY <1>1, <2>1, <2>2 DEF OnlyReviewedIsApplied
<1>3. ASSUME UNCHANGED audits PROVE p \in reviewed'
  BY <1>1, <1>3 DEF OnlyReviewedIsApplied
<1>4. ASSUME NEW a \in Approvers,
             \/ PreflightPass(a) \/ PreflightFail(a) \/ Select(a) \/ SelectFail(a) \/ Flush(a)
             \/ FlushError(a) \/ Record(a) \/ Crash(a)
      PROVE  UNCHANGED audits
  BY <1>4 DEF proposalVars, PreflightPass, PreflightFail, Select, SelectFail, Flush, FlushError, Record, Crash, Die
<1>5. ASSUME \/ \E q \in Proposals, kind \in Kinds, row \in Rows : Stage(q, kind, row)
             \/ \E q \in Proposals : Create(q) \/ Expire(q)
             \/ \E a \in Approvers, q \in Proposals : Claim(a, q) \/ LoseClaim(a, q)
             \/ \E k \in Rejecters, q \in Proposals : RejectRead(k, q)
             \/ \E k \in Rejecters : RejectWrite(k)
             \/ \E r \in Rows : Edit(r)
             \/ UNCHANGED vars
      PROVE  UNCHANGED audits
  BY <1>5 DEF proposalVars, Stage, Create, Expire, Claim, LoseClaim, RejectRead, RejectWrite, Edit, vars
<1> QED
  BY <1>2, <1>3, <1>4, <1>5 DEF Next, ApproveStep

-----------------------------------------------------------------------------
(* An approved proposal is one indivisible change of the rows *)

\* How many operations of its proposal the transaction of a has written.
Done(a) == CASE pc[a] = "finish"             -> Len(ops[target[a]])
             [] pc[a] \in {"select", "flush"} -> at[a] - 1
             [] OTHER                         -> 0

\* e is what the first n operations of s, carried out in their order, do to row r.
Effect(s, n, r, e) ==
    /\ e \in {"same", "written", "gone"}
    /\ e = "same" => \A i \in 1 .. n : ~Changes!Touches(s[i], r)
    /\ e # "same" => \E i \in 1 .. n :
                        /\ Changes!Touches(s[i], r)
                        /\ \A j \in 1 .. n : j > i => ~Changes!Touches(s[j], r)
                        /\ e = "written" <=> s[i].kind \in Changes!Puts

\* The uncommitted writes of a request are those of the operations it has carried out.
EffectInv == \A a \in Approvers, r \in Rows : Effect(ops[target[a]], Done(a), r, work[a][r])

LEMMA EffectStep ==
  ASSUME NEW s, NEW n \in Nat, NEW r, NEW e, Effect(s, n, r, e)
  PROVE  /\ Changes!Touches(s[n + 1], r) =>
               Effect(s, n + 1, r, IF s[n + 1].kind \in Changes!Puts THEN "written" ELSE "gone")
         /\ ~Changes!Touches(s[n + 1], r) => Effect(s, n + 1, r, e)
<1>1. \A i \in 1 .. n + 1 : i \in 1 .. n \/ i = n + 1
  OBVIOUS
<1>2. n + 1 \in 1 .. n + 1 /\ 1 .. n \subseteq 1 .. n + 1 /\ \A j \in 1 .. n + 1 : ~(j > n + 1)
  OBVIOUS
<1>3. CASE Changes!Touches(s[n + 1], r)
  BY <1>2, <1>3 DEF Effect
<1>4. CASE ~Changes!Touches(s[n + 1], r)
  BY <1>1, <1>2, <1>4 DEF Effect
<1> QED
  BY <1>3, <1>4

LEMMA InitEffect == Init => EffectInv
BY DEF Init, EffectInv, Effect, Done, Untouched

LEMMA NextEffect == TypeOK /\ ClaimInv /\ EffectInv /\ [Next]_vars => EffectInv'
<1> SUFFICES ASSUME TypeOK, ClaimInv, EffectInv, [Next]_vars, NEW b \in Approvers, NEW r \in Rows
             PROVE  Effect(ops[target[b]], Done(b), r, work[b][r])'
  BY DEF EffectInv
<1> USE DEF rowVars, proposalVars, approveVars, historyVars
<1>t. /\ pc \in [Approvers -> PCs] /\ at \in [Approvers -> Nat]
      /\ target \in [Approvers -> Proposals \cup {Null}] /\ ops \in [Proposals -> Seq(Operation)]
      /\ work \in [Approvers -> [Rows -> {"same", "written", "gone"}]]
  BY DEF TypeOK
<1>e. Effect(ops[target[b]], Done(b), r, work[b][r])
  BY DEF EffectInv
\* Outside the transaction nothing is written.
<1>n. pc[b] \notin {"select", "flush", "finish"} => work[b][r] = "same"
  BY <1>e DEF Effect, Done
<1>z. ASSUME work'[b][r] = "same", Done(b)' = 0
      PROVE  Effect(ops[target[b]], Done(b), r, work[b][r])'
  BY <1>z DEF Effect
<1>k. ASSUME work'[b] = work[b], Done(b)' = Done(b), ops'[target'[b]] = ops[target[b]]
      PROVE  Effect(ops[target[b]], Done(b), r, work[b][r])'
  BY <1>e, <1>k DEF Effect
<1>u. ASSUME UNCHANGED <<pc, target, at, work, ops>>
      PROVE  Effect(ops[target[b]], Done(b), r, work[b][r])'
  BY <1>k, <1>u DEF Done
<1>1. ASSUME NEW p \in Proposals, NEW kind \in Kinds, NEW row \in Rows, Stage(p, kind, row)
      PROVE  Effect(ops[target[b]], Done(b), r, work[b][r])'
  <2>1. status[p] = "none" /\ UNCHANGED approveVars /\ \A q : q # p => ops'[q] = ops[q]
    BY <1>1, <1>t DEF Stage
  <2>2. CASE target[b] = p
    <3>1. pc[b] \notin Working
      BY <2>1, <2>2 DEF ClaimInv
    <3>2. Done(b)' = 0
      BY <2>1, <3>1, <1>t DEF Done, Working
    <3> QED
      BY <2>1, <3>1, <3>2, <1>n, <1>z DEF Working
  <2>3. CASE target[b] # p
    BY <2>1, <2>3, <1>k DEF Done
  <2> QED
    BY <2>2, <2>3
<1>2. ASSUME NEW a \in Approvers, a # b,
             \/ ApproveStep(a) \/ Crash(a)
             \/ \E p \in Proposals : Claim(a, p) \/ LoseClaim(a, p)
      PROVE  Effect(ops[target[b]], Done(b), r, work[b][r])'
  <2>1. /\ pc'[b] = pc[b] /\ target'[b] = target[b] /\ at'[b] = at[b] /\ work'[b] = work[b]
        /\ UNCHANGED ops
    BY <1>2, <1>t DEF ApproveStep, Crash, Claim, LoseClaim, PreflightPass, PreflightFail, Select,
                      SelectFail, Flush, FlushError, Die, Finish, Record, Advance
  <2> QED
    BY <2>1, <1>k DEF Done
\* Before the transaction writes, after it, and where it is rolled back.
<1>3. ASSUME \/ \E p \in Proposals : Claim(b, p) \/ LoseClaim(b, p)
             \/ PreflightFail(b) \/ Record(b)
      PROVE  Effect(ops[target[b]], Done(b), r, work[b][r])'
  <2>1. /\ pc[b] \in {"new", "preflight", "record"} /\ UNCHANGED work
        /\ pc'[b] \in {"preflight", "done"}
    BY <1>3, <1>t DEF Claim, LoseClaim, PreflightFail, Record
  <2> QED
    BY <2>1, <1>n, <1>z DEF Done
<1>4. ASSUME PreflightPass(b) PROVE Effect(ops[target[b]], Done(b), r, work[b][r])'
  <2>1. pc[b] = "preflight" /\ UNCHANGED work /\ Advance(b, "preflight", "select")
    BY <1>4 DEF PreflightPass
  <2>2. pc'[b] = "preflight" \/ (pc'[b] = "select" /\ at'[b] = 1)
    BY <2>1, <1>t DEF Advance
  <2>3. Done(b)' = 0
    BY <2>2 DEF Done
  <2> QED
    BY <2>1, <2>3, <1>n, <1>z
<1>5. ASSUME Select(b) PROVE Effect(ops[target[b]], Done(b), r, work[b][r])'
  <2>1. pc[b] = "select" /\ pc'[b] = "flush" /\ UNCHANGED <<work, target, at, ops>>
    BY <1>5, <1>t DEF Select
  <2> QED
    BY <2>1, <1>k DEF Done
<1>6. ASSUME SelectFail(b) \/ FlushError(b) \/ Crash(b) \/ Finish(b)
      PROVE  Effect(ops[target[b]], Done(b), r, work[b][r])'
  <2>1. pc'[b] \in {"record", "done"} /\ work'[b][r] = "same"
    BY <1>6, <1>t DEF SelectFail, FlushError, Crash, Die, Finish, Untouched
  <2> QED
    BY <2>1, <1>z DEF Done
<1>7. ASSUME Flush(b) PROVE Effect(ops[target[b]], Done(b), r, work[b][r])'
  <2> DEFINE s == ops[target[b]]
             op == Op(b)
  <2>1. /\ pc[b] = "flush" /\ Advance(b, "select", "finish") /\ UNCHANGED <<target, ops>>
        /\ IF op.kind \in Locking
           THEN work' = [work EXCEPT ![b][op.row] = IF op.kind \in {"update", "assign"}
                                                    THEN "written" ELSE "gone"]
           ELSE UNCHANGED work
    BY <1>7 DEF Flush
  <2>2. at[b] \in 1 .. Len(s) /\ Len(s) \in Nat
    BY <2>1, <1>t, LenProperties DEF ClaimInv, Working
  <2>3. Done(b) = at[b] - 1 /\ Done(b)' = at[b]
    <3>1. Done(b) = at[b] - 1
      BY <2>1 DEF Done
    <3>2. CASE at[b] < Len(s)
      <4>1. pc'[b] = "select" /\ at'[b] = at[b] + 1
        BY <2>1, <3>2, <1>t DEF Advance
      <4> QED
        BY <3>1, <4>1, <2>2 DEF Done
    <3>3. CASE ~(at[b] < Len(s))
      <4>1. pc'[b] = "finish" /\ at[b] = Len(s)
        BY <2>1, <2>2, <3>3, <1>t DEF Advance
      <4> QED
        BY <2>1, <3>1, <4>1 DEF Done
    <3> QED
      BY <3>2, <3>3
  <2> DEFINE n == at[b] - 1
             e == IF op.kind \in Changes!Puts THEN "written" ELSE "gone"
  <2>4. n \in Nat /\ n + 1 = at[b] /\ s[n + 1] = op
    BY <2>2 DEF Op
  <2>5. /\ Changes!Touches(op, r) => Effect(s, n + 1, r, e)
        /\ ~Changes!Touches(op, r) => Effect(s, n + 1, r, work[b][r])
    <3>1. n \in Nat /\ Effect(s, n, r, work[b][r])
      BY <2>3, <2>4, <1>e
    <3> HIDE DEF n, s
    <3> QED
      BY <3>1, <2>4, EffectStep
  <2>6. work'[b][r] = IF Changes!Touches(op, r) THEN e ELSE work[b][r]
    BY <2>1, <1>t DEF Changes!Touches, Changes!Puts, Changes!Clears, Locking
  <2>7. Effect(s, at[b], r, work'[b][r])
    <3> HIDE DEF n, s, e, op
    <3> QED
      BY <2>4, <2>5, <2>6
  <2>8. ops'[target'[b]] = s
    BY <2>1
  <2> HIDE DEF s
  <2> QED
    BY <2>3, <2>7, <2>8 DEF Effect
<1>8. ASSUME \/ \E p \in Proposals : Create(p) \/ Expire(p)
             \/ \E k \in Rejecters, p \in Proposals : RejectRead(k, p)
             \/ \E k \in Rejecters : RejectWrite(k)
             \/ \E q \in Rows : Edit(q)
             \/ UNCHANGED vars
      PROVE  Effect(ops[target[b]], Done(b), r, work[b][r])'
  BY <1>8, <1>u DEF Create, Expire, RejectRead, RejectWrite, Edit, vars
<1> HIDE DEF rowVars, proposalVars, approveVars, historyVars
<1>9. ASSUME NEW a \in Approvers, \/ ApproveStep(a) \/ Crash(a)
                                  \/ \E p \in Proposals : Claim(a, p) \/ LoseClaim(a, p)
      PROVE  Effect(ops[target[b]], Done(b), r, work[b][r])'
  BY <1>2, <1>3, <1>4, <1>5, <1>6, <1>7, <1>9 DEF ApproveStep
<1> QED
  BY <1>1, <1>8, <1>9 DEF Next

\* The commit of an approval is the abstract change.
LEMMA FinishApplies ==
  ASSUME TypeOK, ClaimInv, WrittenInv, VerdictInv, EffectInv, [Next]_vars,
         NEW a \in Approvers, Finish(a), NEW p, p = target[a]
  PROVE  Changes!Apply(p)
<1>1. /\ pc[a] = "finish" /\ UNCHANGED <<ops, reviewed>>
      /\ present'    = [r \in Rows |-> Sees(a, r)]
      /\ updated_at' = [r \in Rows |-> IF work[a][r] = "written" THEN updated_at[r] + 1
                                       ELSE updated_at[r]]
      /\ status'     = [status EXCEPT ![p] = "completed"]
      /\ audits'     = [audits EXCEPT ![p] = @ + Len(ops[p])]
  BY DEF Finish, historyVars
<1>2. /\ p \in Proposals /\ status[p] \in {"executing", "cancelled"} /\ audits[p] = 0
      /\ at[a] \in 1 .. Len(ops[p])
  BY <1>1 DEF ClaimInv, Working
<1>3. p \in reviewed
  BY <1>1 DEF VerdictInv
<1>4. Len(ops[p]) \in Nat \ {0}
  <2>1. Len(ops[p]) \in Nat
    BY <1>2, LenProperties DEF TypeOK
  <2> QED
    BY <1>2, <2>1
<1>5. {q \in Proposals : audits[q] > 0}' = {q \in Proposals : audits[q] > 0} \cup {p}
  BY <1>1, <1>2, <1>4 DEF TypeOK
<1>6. {q \in Proposals : status[q] # "none"}' = {q \in Proposals : status[q] # "none"}
  BY <1>1, <1>2 DEF TypeOK
<1>7. ASSUME NEW r \in Rows
      PROVE  /\ work[a][r] = "same" <=> Changes!Last(p, r) = {}
             /\ work[a][r] = "written" <=> Changes!Put(p, r)
             /\ work[a][r] = "same" => Sees(a, r) = present[r]
             /\ work[a][r] # "same" => Sees(a, r) = (work[a][r] = "written")
  <2>1. Effect(ops[p], Len(ops[p]), r, work[a][r])
    BY <1>1 DEF EffectInv, Done
  <2>2. CASE work[a][r] = "same"
    <3>1. Changes!Last(p, r) = {}
      BY <2>1, <2>2 DEF Effect, Changes!Last
    <3> QED
      BY <2>2, <3>1 DEF Changes!Put, Sees, TypeOK
  <2>3. CASE work[a][r] # "same"
    <3>1. PICK i \in 1 .. Len(ops[p]) :
             /\ Changes!Touches(ops[p][i], r)
             /\ \A j \in 1 .. Len(ops[p]) : j > i => ~Changes!Touches(ops[p][j], r)
             /\ work[a][r] = "written" <=> ops[p][i].kind \in Changes!Puts
      BY <2>1, <2>3 DEF Effect
    <3>2. i \in Changes!Last(p, r)
      BY <3>1 DEF Changes!Last
    <3>3. \A j \in Changes!Last(p, r) : j = i
      BY <3>1, <1>4 DEF Changes!Last
    <3> QED
      BY <2>3, <3>1, <3>2, <3>3 DEF Changes!Put, Sees
  <2> QED
    BY <2>2, <2>3
<1>8. present' = [r \in Rows |-> IF Changes!Last(p, r) = {} THEN present[r] ELSE Changes!Put(p, r)]
  <2>1. ASSUME NEW r \in Rows
        PROVE  Sees(a, r) = IF Changes!Last(p, r) = {} THEN present[r] ELSE Changes!Put(p, r)
    <3>1. CASE work[a][r] = "same"
      BY <1>7, <3>1, Zenon
    <3>2. CASE work[a][r] # "same"
      <4>1. Sees(a, r) <=> Changes!Put(p, r)
        BY <1>7, <3>2, Zenon
      <4>2. Sees(a, r) \in BOOLEAN /\ Changes!Put(p, r) \in BOOLEAN
        BY DEF Sees, Changes!Put
      <4> QED
        BY <1>7, <3>2, <4>1, <4>2
    <3> QED
      BY <3>1, <3>2
  <2> QED
    BY <1>1, <2>1, Zenon
<1>9. updated_at' = [r \in Rows |-> IF Changes!Put(p, r) THEN updated_at[r] + 1 ELSE updated_at[r]]
  BY <1>1, <1>7
<1>10. \A t \in Tasks : present'[t] => present[t]
  BY TasksGo
<1>11. Changes!Rows = Rows
  BY DEF Changes!Rows, Rows
<1> QED
  BY <1>1, <1>2, <1>3, <1>5, <1>6, <1>8, <1>9, <1>10, <1>11 DEF Changes!Apply

\* Every step is an abstract one or cannot be seen.
LEMMA ChangesStep ==
  TypeOK /\ RecordedInv /\ ClaimInv /\ ReviewInv /\ EffectInv /\ [Next]_vars
     => [Changes!Next]_(Changes!vars)
<1> SUFFICES ASSUME TypeOK, RecordedInv, ClaimInv, ReviewInv, EffectInv, [Next]_vars
             PROVE  Changes!Next \/ UNCHANGED Changes!vars
  OBVIOUS
<1> DEFINE recorded == {p \in Proposals : status[p] # "none"}
<1> DEFINE applied  == {p \in Proposals : audits[p] > 0}
<1> USE DEF rowVars, proposalVars, approveVars, historyVars
<1>t. status \in [Proposals -> Statuses] /\ ops \in [Proposals -> Seq(Operation)]
  BY DEF TypeOK
\* A verdict on a recorded proposal is not seen.
<1>v. ASSUME NEW p \in Proposals, status[p] # "none", NEW s, s # "none",
             status' = [status EXCEPT ![p] = s]
      PROVE  recorded' = recorded
  BY <1>v, <1>t
<1>s. ASSUME UNCHANGED <<present, updated_at, ops, reviewed, audits>>, recorded' = recorded
      PROVE  UNCHANGED Changes!vars
  BY <1>s DEF Changes!vars
<1>w. ASSUME NEW a \in Approvers, pc[a] \in Working
      PROVE  target[a] \in Proposals /\ status[target[a]] # "none"
  BY <1>w DEF ClaimInv
<1>1. ASSUME NEW p \in Proposals, NEW kind \in Kinds, NEW row \in Rows, Stage(p, kind, row)
      PROVE  Changes!Stage(p)
  <2>1. /\ p \notin recorded
        /\ \A q \in Proposals \ {p} : ops'[q] = ops[q]
        /\ UNCHANGED <<present, updated_at, status, reviewed, audits>>
    BY <1>1, <1>t DEF Stage
  <2> QED
    BY <2>1 DEF Changes!Stage, Changes!rows
<1>2. ASSUME NEW p \in Proposals, Create(p) PROVE Changes!Create(p)
  <2>1. /\ ops[p] # <<>> /\ status' = [status EXCEPT ![p] = "pending_approval"]
        /\ UNCHANGED <<present, updated_at, ops, reviewed, audits>>
    BY <1>2 DEF Create
  <2>2. recorded' = recorded \cup {p}
    BY <2>1, <1>t
  <2> QED
    BY <2>1, <2>2 DEF Changes!Create, Changes!rows
<1>3. ASSUME NEW a \in Approvers, NEW p \in Proposals, Claim(a, p)
      PROVE  Changes!Approve(p) \/ UNCHANGED Changes!vars
  <2>1. /\ status[p] = "pending_approval" /\ status' = [status EXCEPT ![p] = "executing"]
        /\ reviewed' = IF Current(p) /\ ~expired[p] THEN reviewed \cup {p} ELSE reviewed
        /\ UNCHANGED <<present, updated_at, ops, audits>>
    BY <1>3 DEF Claim, Claimable
  <2>2. recorded' = recorded /\ p \in recorded
    BY <2>1, <1>v
  <2>3. CASE Current(p) /\ ~expired[p]
    <3>1. \A i \in 1 .. Len(ops[p]) : ops[p][i].kind \in {"update", "delete"} =>
             present[ops[p][i].row] /\ updated_at[ops[p][i].row] = ops[p][i].base
      BY <2>3 DEF Current, ReviewInv, OpsInv, Snapshotted
    <3> QED
      BY <2>1, <2>2, <2>3, <3>1 DEF Changes!Approve, Changes!rows
  <2>4. CASE ~(Current(p) /\ ~expired[p])
    BY <2>1, <2>2, <2>4, <1>s
  <2> QED
    BY <2>3, <2>4
<1>4. ASSUME NEW a \in Approvers, Finish(a) PROVE \E p \in Proposals : Changes!Apply(p)
  <2>1. target[a] \in Proposals
    BY <1>4, <1>w DEF Finish, Working
  <2>2. PICK p \in Proposals : p = target[a]
    BY <2>1
  <2>3. Changes!Apply(p)
    BY <1>4, <2>2, FinishApplies DEF ReviewInv
  <2> QED
    BY <2>3
<1>5. ASSUME NEW a \in Approvers, PreflightFail(a) \/ Record(a) PROVE UNCHANGED Changes!vars
  <2>1. pc[a] \in Working /\ UNCHANGED <<present, updated_at, ops, reviewed, audits>>
    BY <1>5 DEF PreflightFail, Record, Working
  <2>2. status' = [status EXCEPT ![target[a]] = "failed"]
    BY <1>5 DEF PreflightFail, Record, FailedStatus
  <2> QED
    BY <2>1, <2>2, <1>s, <1>v, <1>w
<1>6. ASSUME NEW k \in Rejecters, RejectWrite(k) PROVE UNCHANGED Changes!vars
  <2>1. /\ rejecting[k] \in Proposals /\ status' = [status EXCEPT ![rejecting[k]] = "cancelled"]
        /\ UNCHANGED <<present, updated_at, ops, reviewed, audits>>
    BY <1>6 DEF RejectWrite
  <2>2. status[rejecting[k]] # "none"
    BY <2>1 DEF RecordedInv
  <2> QED
    BY <2>1, <2>2, <1>s, <1>v
<1>7. ASSUME NEW r \in Rows, Edit(r) PROVE Changes!Edit(r) /\ r \in Changes!Rows
  BY <1>7 DEF Edit, Changes!Edit, Changes!Rows, Rows
<1>8. ASSUME \/ \E p \in Proposals : Expire(p)
             \/ \E a \in Approvers, p \in Proposals : LoseClaim(a, p)
             \/ \E a \in Approvers : \/ PreflightPass(a) \/ Select(a) \/ SelectFail(a) \/ Flush(a)
                                     \/ FlushError(a) \/ Crash(a)
             \/ \E k \in Rejecters, p \in Proposals : RejectRead(k, p)
             \/ UNCHANGED vars
      PROVE  UNCHANGED Changes!vars
  <2>1. UNCHANGED <<present, updated_at, ops, reviewed, audits, status>>
    BY <1>8 DEF Expire, LoseClaim, PreflightPass, Select, SelectFail, Flush, FlushError, Crash, Die,
                RejectRead, vars
  <2> QED
    BY <2>1, <1>s
<1> HIDE DEF rowVars, proposalVars, approveVars, historyVars, recorded, applied
<1> QED
  BY <1>1, <1>2, <1>3, <1>4, <1>5, <1>6, <1>7, <1>8 DEF Next, ApproveStep, Changes!Next

-----------------------------------------------------------------------------
(* Where a reject is in time, nothing of a rejected proposal is applied *)

\* No claim comes between the two steps of a reject.
RejectsInTime ==
    \A k \in Rejecters : rejecting[k] \in Proposals =>
                            status[rejecting[k]] \in {"pending_approval", "cancelled"}

\* A rejected proposal is in nobody's hands and was not applied.
RejectedInv ==
    \A p \in Proposals : status[p] = "cancelled" =>
       /\ audits[p] = 0
       /\ \A a \in Approvers : pc[a] \in Working => target[a] # p

LEMMA InitRejected == Init => RejectedInv
BY DEF Init, RejectedInv

LEMMA NextRejected ==
  TypeOK /\ ClaimInv /\ AppliedOnceAsAWhole /\ RejectsInTime /\ RejectedInv /\ [Next]_vars
     => RejectedInv'
<1> SUFFICES ASSUME TypeOK, ClaimInv, AppliedOnceAsAWhole, RejectsInTime, RejectedInv, [Next]_vars
             PROVE  RejectedInv'
  OBVIOUS
<1> USE DEF Working, rowVars, proposalVars, approveVars, historyVars
<1>t. /\ pc \in [Approvers -> PCs] /\ target \in [Approvers -> Proposals \cup {Null}]
      /\ status \in [Proposals -> Statuses] /\ audits \in [Proposals -> Nat]
  BY DEF TypeOK
\* A step of a request on its own proposal, which it leaves in a status other than cancelled.
<1>a. ASSUME NEW a \in Approvers, pc[a] \in Working, UNCHANGED target,
             NEW next, pc' = [pc EXCEPT ![a] = next],
             NEW s, s # "cancelled",
             UNCHANGED <<status, audits>> \/ status' = [status EXCEPT ![target[a]] = s],
             \A p \in Proposals : p # target[a] => audits'[p] = audits[p]
      PROVE  RejectedInv'
  <2>1. target[a] \in Proposals /\ status[target[a]] # "cancelled"
    BY <1>a DEF ClaimInv, RejectedInv
  <2> SUFFICES ASSUME NEW p \in Proposals, status'[p] = "cancelled"
               PROVE  audits'[p] = 0 /\ \A b \in Approvers : pc'[b] \in Working => target[b] # p
    BY <1>a DEF RejectedInv
  <2>2. p # target[a] /\ status[p] = "cancelled"
    BY <1>a, <2>1, <1>t
  <2>3. \A b \in Approvers : pc'[b] \in Working /\ b # a => pc[b] \in Working
    BY <1>a, <1>t
  <2> QED
    BY <1>a, <2>2, <2>3 DEF RejectedInv
<1>1. ASSUME NEW a \in Approvers, NEW p \in Proposals, Claim(a, p) PROVE RejectedInv'
  <2>1. /\ status' = [status EXCEPT ![p] = "executing"] /\ UNCHANGED audits
        /\ status[p] = "pending_approval"
        /\ target' = [target EXCEPT ![a] = p] /\ pc' = [pc EXCEPT ![a] = "preflight"]
    BY <1>1 DEF Claim, Claimable
  <2> QED
    BY <2>1, <1>t DEF RejectedInv
<1>2. ASSUME NEW a \in Approvers, NEW p \in Proposals, LoseClaim(a, p) PROVE RejectedInv'
  <2>1. pc' = [pc EXCEPT ![a] = "done"] /\ UNCHANGED <<status, audits, target>>
    BY <1>2 DEF LoseClaim
  <2> QED
    BY <2>1, <1>t DEF RejectedInv
<1>3. ASSUME NEW a \in Approvers, PreflightPass(a) \/ Select(a) \/ SelectFail(a) \/ Flush(a)
      PROVE  RejectedInv'
  <2>1. /\ pc[a] \in Working /\ UNCHANGED <<target, status, audits>>
        /\ \E next \in PCs : pc' = [pc EXCEPT ![a] = next]
    BY <1>3 DEF PreflightPass, Select, SelectFail, Flush, Advance, PCs
  <2> QED
    BY <2>1, <1>a
<1>4. ASSUME NEW a \in Approvers, PreflightFail(a) \/ Record(a) PROVE RejectedInv'
  <2>1. /\ pc[a] \in Working /\ UNCHANGED <<target, audits>>
        /\ pc' = [pc EXCEPT ![a] = "done"]
        /\ status' = [status EXCEPT ![target[a]] = "failed"]
    BY <1>4 DEF PreflightFail, Record, FailedStatus
  <2> QED
    BY <2>1, <1>a
<1>5. ASSUME NEW a \in Approvers, Finish(a) PROVE RejectedInv'
  <2>1. /\ pc[a] \in Working /\ UNCHANGED target /\ pc' = [pc EXCEPT ![a] = "done"]
        /\ status' = [status EXCEPT ![target[a]] = "completed"]
        /\ \A p \in Proposals : p # target[a] => audits'[p] = audits[p]
    BY <1>5, <1>t DEF Finish
  <2> QED
    BY <2>1, <1>a
<1>6. ASSUME NEW a \in Approvers, FlushError(a) \/ Crash(a) PROVE RejectedInv'
  <2>1. /\ pc[a] \in Working /\ UNCHANGED <<target, status, audits>>
        /\ pc' = [pc EXCEPT ![a] = "done"]
    BY <1>6, <1>t DEF FlushError, Crash, Die, PCs
  <2> QED
    BY <2>1, <1>a
<1>7. ASSUME NEW k \in Rejecters, RejectWrite(k) PROVE RejectedInv'
  <2> DEFINE p == rejecting[k]
  <2>1. /\ p \in Proposals /\ status[p] \in {"pending_approval", "cancelled"}
        /\ status' = [status EXCEPT ![p] = "cancelled"]
        /\ UNCHANGED <<audits, pc, target>>
    BY <1>7 DEF RejectWrite, RejectsInTime
  <2>2. audits[p] = 0
    BY <2>1, <1>t DEF AppliedOnceAsAWhole, RejectedInv
  <2>3. \A a \in Approvers : pc[a] \in Working => target[a] # p
    BY <2>1 DEF ClaimInv, RejectedInv
  <2> HIDE DEF p
  <2> QED
    BY <2>1, <2>2, <2>3, <1>t DEF RejectedInv
<1>8. ASSUME NEW p \in Proposals, Create(p) PROVE RejectedInv'
  BY <1>8, <1>t DEF Create, RejectedInv
<1>9. ASSUME \/ \E p \in Proposals, kind \in Kinds, row \in Rows : Stage(p, kind, row)
             \/ \E p \in Proposals : Expire(p)
             \/ \E k \in Rejecters, p \in Proposals : RejectRead(k, p)
             \/ \E r \in Rows : Edit(r)
             \/ UNCHANGED vars
      PROVE  RejectedInv'
  <2>1. UNCHANGED <<status, audits, pc, target>>
    BY <1>9 DEF Stage, Expire, RejectRead, Edit, vars
  <2> QED
    BY <2>1 DEF RejectedInv
<1> HIDE DEF Working, rowVars, proposalVars, approveVars, historyVars
<1> QED
  BY <1>1, <1>2, <1>3, <1>4, <1>5, <1>6, <1>7, <1>8, <1>9 DEF Next, ApproveStep

-----------------------------------------------------------------------------
(* Every approval ends *)

\* A row is locked only by a request that is still at work on its operations.
LocksAreHeldAtWork ==
    \A r \in Rows : lock[r] # Null => pc[lock[r]] \in {"select", "flush", "finish"}

LEMMA InitLocks == Init => LocksAreHeldAtWork
BY DEF Init, LocksAreHeldAtWork

LEMMA NextLocks == TypeOK /\ LocksAreHeldAtWork /\ [Next]_vars => LocksAreHeldAtWork'
<1> SUFFICES ASSUME TypeOK, LocksAreHeldAtWork, [Next]_vars, NEW r \in Rows, lock'[r] # Null
             PROVE  pc'[lock'[r]] \in {"select", "flush", "finish"}
  BY DEF LocksAreHeldAtWork
<1> USE DEF rowVars, proposalVars, approveVars, historyVars
<1>t. pc \in [Approvers -> PCs] /\ lock \in [Rows -> Approvers \cup {Null}]
  BY DEF TypeOK
<1>h. lock[r] # Null => lock[r] \in Approvers /\ pc[lock[r]] \in {"select", "flush", "finish"}
  BY <1>t DEF LocksAreHeldAtWork
<1>1. ASSUME NEW a \in Approvers, Flush(a) PROVE pc'[lock'[r]] \in {"select", "flush", "finish"}
  <2>1. pc'[a] \in {"select", "finish"} /\ \A b \in Approvers : b # a => pc'[b] = pc[b]
    BY <1>1, <1>t DEF Flush, Advance
  <2>2. lock'[r] \in {lock[r], a}
    BY <1>1, <1>t DEF Flush
  <2> QED
    BY <2>1, <2>2, <1>h
\* The locks of a go when it stops working.
<1>2. ASSUME NEW a \in Approvers, SelectFail(a) \/ Finish(a) \/ FlushError(a) \/ Crash(a)
      PROVE  pc'[lock'[r]] \in {"select", "flush", "finish"}
  <2>1. Unlock(a) /\ \A b \in Approvers : b # a => pc'[b] = pc[b]
    BY <1>2, <1>t DEF SelectFail, Finish, FlushError, Crash, Die
  <2>2. lock'[r] = lock[r] /\ lock[r] # a
    BY <2>1 DEF Unlock
  <2> QED
    BY <2>1, <2>2, <1>h
<1>3. ASSUME NEW a \in Approvers,
             \/ PreflightPass(a) \/ PreflightFail(a) \/ Select(a) \/ Record(a)
             \/ \E p \in Proposals : Claim(a, p) \/ LoseClaim(a, p)
      PROVE  pc'[lock'[r]] \in {"select", "flush", "finish"}
  <2>1. /\ UNCHANGED lock /\ \A b \in Approvers : b # a => pc'[b] = pc[b]
        /\ pc[a] \in {"select", "flush", "finish"} => pc'[a] = "flush"
    BY <1>3, <1>t DEF PreflightPass, PreflightFail, Select, Record, Claim, LoseClaim, Advance
  <2> QED
    BY <2>1, <1>h
<1>4. ASSUME \/ \E p \in Proposals, kind \in Kinds, row \in Rows : Stage(p, kind, row)
             \/ \E p \in Proposals : Create(p) \/ Expire(p)
             \/ \E k \in Rejecters, p \in Proposals : RejectRead(k, p)
             \/ \E k \in Rejecters : RejectWrite(k)
             \/ \E s \in Rows : Edit(s)
             \/ UNCHANGED vars
      PROVE  UNCHANGED <<lock, pc>>
  BY <1>4 DEF Stage, Create, Expire, RejectRead, RejectWrite, Edit, vars
<1> HIDE DEF rowVars, proposalVars, approveVars, historyVars
<1> QED
  BY <1>1, <1>2, <1>3, <1>4, <1>h DEF Next, ApproveStep

\* The number of steps that an approval has at most before it: one for each operation in the
\* preflight, two for each in the transaction, and the commit or the record of the failure.
Remaining(a) ==
    LET n == Len(ops[target[a]]) IN
    CASE pc[a] = "preflight" -> 3 * n + 3 - at[a]
      [] pc[a] = "select"    -> 2 * (n - at[a]) + 3
      [] pc[a] = "flush"     -> 2 * (n - at[a]) + 2
      [] pc[a] \in {"finish", "record"} -> 1
      [] OTHER               -> 0

\* Each step of an approval brings it nearer to its end, and no step of another sets it back.
ApprovalsShrink ==
    [][\A a \in Approvers : pc[a] \in Working =>
          /\ Remaining(a) \in Nat /\ Remaining(a)' \in Nat
          /\ IF ApproveStep(a) \/ Crash(a) THEN Remaining(a)' < Remaining(a)
                                           ELSE UNCHANGED Remaining(a)]_vars

LEMMA NextShrinks ==
  ASSUME TypeOK, ClaimInv, [Next]_vars, NEW a \in Approvers, pc[a] \in Working
  PROVE  /\ Remaining(a) \in Nat /\ Remaining(a)' \in Nat
         /\ IF ApproveStep(a) \/ Crash(a) THEN Remaining(a)' < Remaining(a)
                                          ELSE UNCHANGED Remaining(a)
<1> USE DEF rowVars, proposalVars, approveVars, historyVars
<1>t. /\ pc \in [Approvers -> PCs] /\ at \in [Approvers -> Nat]
      /\ target \in [Approvers -> Proposals \cup {Null}] /\ ops \in [Proposals -> Seq(Operation)]
  BY DEF TypeOK
<1> DEFINE n == Len(ops[target[a]])
<1>n. n \in Nat /\ at[a] \in 1 .. n /\ target[a] \in Proposals /\ status[target[a]] # "none"
  BY <1>t, LenProperties DEF ClaimInv
<1> HIDE DEF n
<1>r. /\ pc[a] = "preflight" => Remaining(a) = 3 * n + 3 - at[a]
      /\ pc[a] = "select" => Remaining(a) = 2 * (n - at[a]) + 3
      /\ pc[a] = "flush" => Remaining(a) = 2 * (n - at[a]) + 2
      /\ pc[a] \in {"finish", "record"} => Remaining(a) = 1
  BY DEF Remaining, n
<1>v. Remaining(a) \in Nat /\ Remaining(a) > 0
  BY <1>n, <1>r DEF Working
<1>e. ASSUME pc'[a] = "done" PROVE Remaining(a)' = 0
  BY <1>e DEF Remaining
<1>k. ASSUME pc'[a] = pc[a], target'[a] = target[a], at'[a] = at[a], ops'[target[a]] = ops[target[a]]
      PROVE  UNCHANGED Remaining(a)
  BY <1>k DEF Remaining
<1>1. ASSUME PreflightPass(a) PROVE Remaining(a)' \in Nat /\ Remaining(a)' < Remaining(a)
  <2>1. pc[a] = "preflight" /\ Advance(a, "preflight", "select") /\ UNCHANGED <<ops, target>>
    BY <1>1 DEF PreflightPass
  <2>2. CASE at[a] < n
    <3>1. pc'[a] = "preflight" /\ at'[a] = at[a] + 1
      BY <2>1, <2>2, <1>t DEF Advance, n
    <3>2. Remaining(a)' = 3 * n + 3 - (at[a] + 1)
      BY <2>1, <3>1 DEF Remaining, n
    <3> QED
      BY <2>1, <3>2, <1>n, <1>r
  <2>3. CASE ~(at[a] < n)
    <3>1. pc'[a] = "select" /\ at'[a] = 1
      BY <2>1, <2>3, <1>t DEF Advance, n
    <3>2. Remaining(a)' = 2 * (n - 1) + 3
      BY <2>1, <3>1 DEF Remaining, n
    <3> QED
      BY <2>1, <2>3, <3>2, <1>n, <1>r
  <2> QED
    BY <2>2, <2>3
<1>2. ASSUME Select(a) PROVE Remaining(a)' \in Nat /\ Remaining(a)' < Remaining(a)
  <2>1. pc[a] = "select" /\ pc'[a] = "flush" /\ UNCHANGED <<ops, target, at>>
    BY <1>2, <1>t DEF Select
  <2>2. Remaining(a)' = 2 * (n - at[a]) + 2
    BY <2>1 DEF Remaining, n
  <2> QED
    BY <2>1, <2>2, <1>n, <1>r
<1>3. ASSUME Flush(a) PROVE Remaining(a)' \in Nat /\ Remaining(a)' < Remaining(a)
  <2>1. pc[a] = "flush" /\ Advance(a, "select", "finish") /\ UNCHANGED <<ops, target>>
    BY <1>3 DEF Flush
  <2>2. CASE at[a] < n
    <3>1. pc'[a] = "select" /\ at'[a] = at[a] + 1
      BY <2>1, <2>2, <1>t DEF Advance, n
    <3>2. Remaining(a)' = 2 * (n - (at[a] + 1)) + 3
      BY <2>1, <3>1 DEF Remaining, n
    <3> QED
      BY <2>1, <2>2, <3>2, <1>n, <1>r
  <2>3. CASE ~(at[a] < n)
    <3>1. pc'[a] = "finish"
      BY <2>1, <2>3, <1>t DEF Advance, n
    <3>2. Remaining(a)' = 1
      BY <3>1 DEF Remaining
    <3> QED
      BY <2>1, <3>2, <1>n, <1>r
  <2> QED
    BY <2>2, <2>3
<1>4. ASSUME SelectFail(a) PROVE Remaining(a)' \in Nat /\ Remaining(a)' < Remaining(a)
  <2>1. pc[a] = "select" /\ pc'[a] = "record"
    BY <1>4, <1>t DEF SelectFail
  <2>2. Remaining(a)' = 1
    BY <2>1 DEF Remaining
  <2> QED
    BY <2>1, <2>2, <1>n, <1>r
<1>5. ASSUME PreflightFail(a) \/ FlushError(a) \/ Finish(a) \/ Record(a) \/ Crash(a)
      PROVE  Remaining(a)' \in Nat /\ Remaining(a)' < Remaining(a)
  <2>1. pc'[a] = "done"
    BY <1>5, <1>t DEF PreflightFail, FlushError, Finish, Record, Crash, Die
  <2> QED
    BY <2>1, <1>e, <1>v
<1>6. ASSUME NEW b \in Approvers, b # a,
             \/ ApproveStep(b) \/ Crash(b)
             \/ \E p \in Proposals : Claim(b, p) \/ LoseClaim(b, p)
      PROVE  UNCHANGED Remaining(a)
  <2>1. pc'[a] = pc[a] /\ target'[a] = target[a] /\ at'[a] = at[a] /\ UNCHANGED ops
    BY <1>6, <1>t DEF ApproveStep, Crash, Claim, LoseClaim, PreflightPass, PreflightFail, Select,
                      SelectFail, Flush, FlushError, Die, Finish, Record, Advance
  <2> QED
    BY <2>1, <1>k
<1>7. ASSUME NEW p \in Proposals, NEW kind \in Kinds, NEW row \in Rows, Stage(p, kind, row)
      PROVE  UNCHANGED Remaining(a)
  <2>1. status[p] = "none" /\ UNCHANGED approveVars /\ \A q : q # p => ops'[q] = ops[q]
    BY <1>7, <1>t DEF Stage
  <2> QED
    BY <2>1, <1>k, <1>n
<1>8. ASSUME \/ \E p \in Proposals : Create(p) \/ Expire(p)
             \/ \E k \in Rejecters, p \in Proposals : RejectRead(k, p)
             \/ \E k \in Rejecters : RejectWrite(k)
             \/ \E r \in Rows : Edit(r)
             \/ UNCHANGED vars
      PROVE  UNCHANGED Remaining(a)
  <2>1. UNCHANGED <<pc, target, at, ops>>
    BY <1>8 DEF Create, Expire, RejectRead, RejectWrite, Edit, vars
  <2> QED
    BY <2>1, <1>k
<1>9. ~(\E p \in Proposals : Claim(a, p) \/ LoseClaim(a, p))
  BY DEF Claim, LoseClaim, Working
<1> HIDE DEF rowVars, proposalVars, approveVars, historyVars
<1>10. ApproveStep(a) \/ Crash(a) => Remaining(a)' \in Nat /\ Remaining(a)' < Remaining(a)
  BY <1>1, <1>2, <1>3, <1>4, <1>5 DEF ApproveStep
<1>11. ~(ApproveStep(a) \/ Crash(a)) => UNCHANGED Remaining(a)
  BY <1>6, <1>7, <1>8, <1>9 DEF Next
<1> QED
  BY <1>v, <1>10, <1>11

LEMMA Invariant ==
  Spec => [](TypeOK /\ RecordedInv /\ ClaimInv /\ AppliedOnceAsAWhole /\ ReviewInv /\ EffectInv)
<1> DEFINE IInv == TypeOK /\ RecordedInv /\ ClaimInv /\ AppliedOnceAsAWhole /\ ReviewInv /\ EffectInv
<1>1. Init => IInv
  BY InitType, InitRecorded, InitClaim, InitApplied, InitReviewed, InitEffect
<1>2. IInv /\ [Next]_vars => IInv'
  BY NextType, NextRecorded, NextClaim, NextApplied, NextOps, NextWritten, NextVerdict, NextReviewed,
     NextEffect DEF ReviewInv
<1> QED
  BY <1>1, <1>2, PTL DEF Spec

-----------------------------------------------------------------------------
(* Theorems *)

\* The columns of change_proposals and proposed_operations and the state of every
\* request keep their types, and a proposal has one status per operation.
THEOREM TypeCorrect == Spec => []TypeOK
BY Invariant, PTL

\* However approve, reject, edits and crashes of the API process overlap, the
\* operations of a proposal are applied at most once and all together
\* (claim_for_execution, and the single commit at the end of _validate_and_execute).
THEOREM AppliedOnce == Spec => []AppliedOnceAsAWhole
BY Invariant, PTL

\* Whatever is edited between the claim and the preflight, the preflight lets no proposal pass
\* that had expired, or proposed to change a row that had changed or gone, when it was claimed
\* (_matches_live_snapshot on rows read without a lock).
THEOREM OnlyReviewed == Spec => []OnlyReviewedIsApplied
<1>1. ReviewInv => OnlyReviewedIsApplied
  BY DEF ReviewInv
<1> QED
  BY <1>1, Invariant, PTL

\* To whoever sees only what is committed, approve is one step: it carries out a proposal that
\* was approved as its snapshots show it, once, leaves every row as the last operation on it
\* does, touches no other row and brings back no task that has gone
\* (_validate_and_execute's single commit, the row locks it holds until then, and
\* _matches_live_snapshot).
THEOREM OneChange == Spec => AppliesAsOneChange
<1>1. Init => Changes!Init
  <2> SUFFICES ASSUME Init PROVE Changes!Init
    OBVIOUS
  <2>1. {p \in Proposals : status[p] # "none"} = {} /\ {p \in Proposals : audits[p] > 0} = {}
    BY DEF Init
  <2> QED
    BY <2>1 DEF Init, Changes!Init, Changes!Rows, Rows
<1> QED
  BY <1>1, ChangesStep, Invariant, PTL DEF Spec, AppliesAsOneChange, Changes!Spec

\* What reject promises is kept if no claim comes between its read of the status and its write
\* (proposal_service.reject); the run proposal_rejected shows that one such claim breaks it.
THEOREM RejectedInTime == Spec /\ []RejectsInTime => []RejectedIsNotApplied
<1>1. RejectedInv => RejectedIsNotApplied
  BY DEF RejectedInv, RejectedIsNotApplied
<1> QED
  BY <1>1, Invariant, InitRejected, NextRejected, PTL DEF Spec

\* Row locks never outlive the transaction that took them, so whoever waits at a flush waits
\* for a request that is still carrying out its operations (get_db closes every session).
THEOREM LocksHeldAtWork == Spec => []LocksAreHeldAtWork
BY TypeCorrect, InitLocks, NextLocks, PTL DEF Spec

\* An approval that has claimed its proposal ends within three steps for each operation and
\* two more, whatever the others do: with the fairness of its process, ApprovalEnds.
THEOREM ApprovalsAreBounded == Spec => ApprovalsShrink
<1>1. TypeOK /\ ClaimInv /\ [Next]_vars
        => [\A a \in Approvers : pc[a] \in Working =>
               /\ Remaining(a) \in Nat /\ Remaining(a)' \in Nat
               /\ IF ApproveStep(a) \/ Crash(a) THEN Remaining(a)' < Remaining(a)
                                                ELSE UNCHANGED Remaining(a)]_vars
  BY NextShrinks
<1> QED
  BY <1>1, Invariant, PTL DEF Spec, ApprovalsShrink
=============================================================================

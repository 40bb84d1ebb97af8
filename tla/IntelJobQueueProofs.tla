------------------------ MODULE IntelJobQueueProofs ------------------------
(***************************************************************************)
(* Proofs about the build queue, for any number of workers, clients,       *)
(* requests and rows.  The inductive invariant is built in layers, each    *)
(* proved with the ones before it:                                         *)
(*   RefInv    what a worker or request holds on to is a stored row        *)
(*   ClaimInv  what a claiming worker knows at each point of claim_next    *)
(*   LockInv   which rows have locked_by set                               *)
(*   WorkInv   where what is wanted of a client is still to be built       *)
(* And about what surrounds it, each with an invariant of its own: the     *)
(* limiter and the sign-ins (AccessInv), onboarding (OnboardingInv) and    *)
(* the knowledge base (KnowledgeInv).                                      *)
(***************************************************************************)
EXTENDS MCIntelJobQueue, ScanProofs, FiniteSetTheorems

\* A row in hand is stored (rows are never deleted), and attempts only grow.
RefInv ==
    /\ \A w \in Workers : job[w] # NoJob => status[job[w]] # "absent"
    /\ \A r \in Requests : req[r].phase = "read" /\ req[r].seen # NoJob
                             => status[req[r].seen] # "absent"
    /\ \A w \in Workers, j \in Jobs :
          loaded[w][j].status # "absent" =>
             status[j] # "absent" /\ loaded[w][j].attempts <= attempts[j]

WithCandidate == {"lock", "check", "claim"}
WithJob       == WithCandidate \cup {"start", "build", "finish", "fail"}

\* A candidate is row-locked, so it stays queued; after the advisory lock its client
\* is ours, so what the recheck saw stays true until the commit.
ClaimInv ==
    \A w \in Workers :
       /\ pc[w] \in WithJob => job[w] # NoJob
       /\ pc[w] \in WithCandidate => row_lock[job[w]] = w /\ status[job[w]] = "queued"
       /\ pc[w] \in {"check", "claim"} => adv_lock[client_id[job[w]]] = w
       /\ pc[w] = "claim" => client_id[job[w]] \notin RunningClients

\* The lock columns follow the status until an outdated write.
LockInv ==
    \A j \in Jobs :
       \/ Outdated(j)
       \/ /\ status[j] = "running" => locked_by[j] # Null
          /\ status[j] \in {"absent", "queued", "dead"} => locked_by[j] = Null

TypeInv == TypeOK /\ RefInv

-----------------------------------------------------------------------------
(* Types and references *)

USE ParticipantsAssumption, BoundsAssumption DEF Jobs, NoJob, Kinds

LEMMA InitTypeInv == Init => TypeInv
BY DEF Init, TypeInv, TypeOK, RefInv, Statuses, PCs, Claiming, Overtakers, Row, Unloaded,
       NotLoaded, Request, NewRequest

LEMMA PublishTypes ==
  ASSUME TypeInv, NEW r \in Requests, req[r].phase = "read", Publish(r)
  PROVE  /\ wanted' \in [Clients -> SUBSET Kinds]
         /\ covers' \in [Workers -> SUBSET Kinds]
         /\ req'    \in [Requests -> Request]
         /\ \A q \in Requests : req'[q].phase = "read" => req'[q] = req[q]
<1> USE DEF TypeInv, TypeOK, RefInv, Publish
<1>1. req[r].client \in Clients /\ req[r].kind \in Kinds
  BY DEF Request
<1>2. wanted' \in [Clients -> SUBSET Kinds]
  BY <1>1
<1>3. covers' \in [Workers -> SUBSET Kinds]
  <2>1. \A w \in Workers : covers[w] \in SUBSET Kinds /\ covers[w] \ {req[r].kind} \in SUBSET Kinds
    OBVIOUS
  <2> QED  BY <2>1
<1>4. [req[r] EXCEPT !.phase = "done"] \in Request
  <2> DEFINE q == req[r]
  <2>1. q \in Request
    OBVIOUS
  <2> HIDE DEF q
  <2>2. [q EXCEPT !.phase = "done"] \in Request
    BY <2>1 DEF Request
  <2> QED
    BY <2>2 DEF q
<1>5. req' = [req EXCEPT ![r] = [req[r] EXCEPT !.phase = "done"]]
  OBVIOUS
<1> QED
  BY <1>2, <1>3, <1>4, <1>5 DEF Request

\* What a session loads is the rows as they are.
LEMMA LoadTypes ==
  ASSUME TypeInv, NEW S \in SUBSET Jobs
  PROVE  /\ Load(S) \in [Jobs -> Row]
         /\ \A j \in Jobs : Load(S)[j].status # "absent"
                => status[j] # "absent" /\ Load(S)[j].attempts <= attempts[j]
<1>1. ASSUME NEW j \in Jobs PROVE Current(j) \in Row
  BY DEF Current, Row, TypeInv, TypeOK
<1>2. NotLoaded \in Row
  BY DEF NotLoaded, Row, Statuses
<1>3. Load(S) \in [Jobs -> Row]
  BY <1>1, <1>2 DEF Load
<1>4. ASSUME NEW j \in Jobs, Load(S)[j].status # "absent"
      PROVE  status[j] # "absent" /\ Load(S)[j].attempts <= attempts[j]
  <2>1. j \in S /\ Load(S)[j] = Current(j)
    BY <1>4 DEF Load, NotLoaded
  <2>2. attempts[j] \in Nat
    BY DEF TypeInv, TypeOK
  <2> QED
    BY <1>4, <2>1, <2>2 DEF Current
<1> QED
  BY <1>3, <1>4

LEMMA GiveBackTypes ==
  ASSUME TypeInv, NEW w \in Workers, NEW is_due \in BOOLEAN, GiveBack(w, is_due)
  PROVE  /\ status'    \in [Jobs -> Statuses]
         /\ due'       \in [Jobs -> BOOLEAN]
         /\ locked_by' \in [Jobs -> Workers \cup {Null}]
         /\ stale'     \in [Jobs -> BOOLEAN]
         /\ overtaken' \in [Clients -> SUBSET Overtakers]
         /\ \A i \in Jobs : status'[i] # "absent" <=> status[i] # "absent"
<1> USE DEF TypeInv, TypeOK, Statuses
<1>1. status' \in [Jobs -> Statuses]
  BY DEF GiveBack, Outcome
<1>2. due' \in [Jobs -> BOOLEAN]
  BY DEF GiveBack
<1>3. locked_by' \in [Jobs -> Workers \cup {Null}]
  BY DEF GiveBack
<1>4. stale' \in [Jobs -> BOOLEAN]
  BY DEF GiveBack
<1>5. overtaken' \in [Clients -> SUBSET Overtakers]
  BY DEF GiveBack, Overtakers
<1>6. \A i \in Jobs : status'[i] # "absent" <=> status[i] # "absent"
  BY DEF GiveBack, Outcome, RefInv
<1> QED
  BY <1>1, <1>2, <1>3, <1>4, <1>5, <1>6

LEMMA NextTypeInv == TypeInv /\ [Next]_vars => TypeInv'
<1> SUFFICES ASSUME TypeInv, [Next]_vars PROVE TypeInv'
  OBVIOUS
<1> USE DEF TypeInv, TypeOK, RefInv, Statuses, PCs, Claiming, Overtakers, Row, Unloaded, NotLoaded,
            Request, jobVars, lockVars, workerVars, reqVars
<1>1. ASSUME NEW r \in Requests, NEW c \in Clients, NEW kind \in Kinds, NEW debounce \in BOOLEAN,
             EnqueueRead(r, c, kind, debounce)
      PROVE  TypeInv'
  <2>1. PICK seen \in Jobs \cup {NoJob} :
          /\ IF Queued(c) = {} THEN seen = NoJob ELSE First(Queued(c), seen)
          /\ req' = [req EXCEPT ![r] = [phase |-> "read", client |-> c, kind |-> kind,
                                       debounce |-> debounce, seen |-> seen]]
    BY <1>1 DEF EnqueueRead
  <2>2. seen # NoJob => status[seen] # "absent"
    BY <2>1 DEF Queued, JobsOf, First
  <2>4. [phase |-> "read", client |-> c, kind |-> kind, debounce |-> debounce, seen |-> seen]
          \in Request
    OBVIOUS
  <2>5. req' \in [Requests -> Request]
    BY <2>1, <2>4
  <2>6. \A q \in Requests : req'[q].phase = "read" =>
          req'[q].client \in Clients /\ (req'[q].seen # NoJob => status[req'[q].seen] # "absent")
    BY <2>1, <2>2
  <2>7. UNCHANGED <<jobVars, lockVars, workerVars, wanted, overtaken, faults>>
    BY <1>1 DEF EnqueueRead
  <2> QED
    BY <2>5, <2>6, <2>7
<1>2. ASSUME NEW r \in Requests, NEW j \in Jobs, EnqueueInsert(r, j)
      PROVE  TypeInv'
  <2>1. /\ req[r].client \in Clients /\ req[r].kind \in Kinds /\ req[r].debounce \in BOOLEAN
        /\ status[j] = "absent" /\ req[r].phase = "read"
    BY <1>2 DEF EnqueueInsert, First
  <2>2. /\ status'    \in [Jobs -> Statuses]
        /\ client_id' \in [Jobs -> Clients \cup {Null}]
        /\ job_type'  \in [Jobs -> Kinds]
        /\ due'       \in [Jobs -> BOOLEAN]
        /\ \A i \in Jobs : status'[i] # "absent" => client_id'[i] \in Clients
        /\ \A i \in Jobs : status[i] # "absent" => status'[i] # "absent"
    <3>1. /\ status'    = [status EXCEPT ![j] = "queued"]
          /\ client_id' = [client_id EXCEPT ![j] = req[r].client]
          /\ job_type'  = [job_type EXCEPT ![j] = req[r].kind]
          /\ due'       = [due EXCEPT ![j] = ~req[r].debounce]
      BY <1>2 DEF EnqueueInsert
    <3>2. /\ status' \in [Jobs -> Statuses] /\ client_id' \in [Jobs -> Clients \cup {Null}]
          /\ job_type' \in [Jobs -> Kinds] /\ due' \in [Jobs -> BOOLEAN]
      BY <2>1, <3>1
    <3> QED
      BY <2>1, <3>1, <3>2
  <2>3. Publish(r) /\ UNCHANGED <<attempts, locked_by, stale, lockVars, pc, job, excluded, loaded,
                                 overtaken, faults>>
    BY <1>2 DEF EnqueueInsert
  <2> QED
    BY <2>1, <2>2, <2>3, PublishTypes, SMTT(20)
<1>3. ASSUME NEW r \in Requests, EnqueueCoalesce(r)
      PROVE  TypeInv'
  <2>1. /\ req[r].client \in Clients /\ req[r].kind \in Kinds /\ req[r].debounce \in BOOLEAN
        /\ req[r].seen \in Jobs /\ req[r].phase = "read"
    BY <1>3 DEF EnqueueCoalesce
  <2>2. /\ job_type'  \in [Jobs -> Kinds]
        /\ due'       \in [Jobs -> BOOLEAN]
    BY <1>3, <2>1 DEF EnqueueCoalesce, Merged
  <2>3. overtaken' \in [Clients -> SUBSET Overtakers]
    BY <1>3, <2>1 DEF EnqueueCoalesce
  <2>4. Publish(r) /\ UNCHANGED <<status, client_id, attempts, locked_by, stale, lockVars,
                                 pc, job, excluded, loaded, faults>>
    BY <1>3 DEF EnqueueCoalesce
  <2> QED
    BY <2>1, <2>2, <2>3, <2>4, PublishTypes, SMTT(20)
<1>4. ASSUME NEW w \in Workers, Poll(w) PROVE TypeInv'
  BY <1>4 DEF Poll
<1>5. ASSUME NEW w \in Workers, ReclaimLoad(w) PROVE TypeInv'
  <2>1. /\ loaded' = [loaded EXCEPT ![w] = Load(StaleRows)]
        /\ pc' = [pc EXCEPT ![w] = "reclaim"]
        /\ UNCHANGED <<jobVars, lockVars, job, excluded, covers, reqVars, faults>>
    BY <1>5 DEF ReclaimLoad
  <2>2. StaleRows \in SUBSET Jobs
    BY DEF StaleRows
  <2> QED
    BY <2>1, <2>2, LoadTypes, ZenonT(30)
<1>6. ASSUME NEW w \in Workers, ReclaimWrite(w) PROVE TypeInv'
  <2>1. GiveBack(w, TRUE) /\ UNCHANGED <<client_id, job_type, attempts, req, wanted>>
    BY <1>6 DEF ReclaimWrite, GiveBack
  <2>2. /\ loaded' = [loaded EXCEPT ![w] = Unloaded]
        /\ pc' = [pc EXCEPT ![w] = "select"]
        /\ UNCHANGED <<lockVars, job, excluded, covers, faults>>
    BY <1>6 DEF ReclaimWrite
  <2>3. /\ status'    \in [Jobs -> Statuses]
        /\ due'       \in [Jobs -> BOOLEAN]
        /\ locked_by' \in [Jobs -> Workers \cup {Null}]
        /\ stale'     \in [Jobs -> BOOLEAN]
        /\ overtaken' \in [Clients -> SUBSET Overtakers]
        /\ \A i \in Jobs : status'[i] # "absent" <=> status[i] # "absent"
    BY <2>1, GiveBackTypes
  <2> QED
    BY <2>1, <2>2, <2>3
<1>7. ASSUME NEW w \in Workers, SelectCandidate(w) PROVE TypeInv'
  <2>1. PICK j \in Jobs : /\ status[j] = "queued"
                          /\ row_lock' = [row_lock EXCEPT ![j] = w]
                          /\ job' = [job EXCEPT ![w] = j]
    BY <1>7 DEF SelectCandidate, Candidates, First
  <2>2. /\ pc' = [pc EXCEPT ![w] = "lock"]
        /\ UNCHANGED <<jobVars, adv_lock, excluded, loaded, covers, reqVars, faults>>
    BY <1>7 DEF SelectCandidate
  <2>3. /\ row_lock' \in [Jobs -> Workers \cup {Null}] /\ job' \in [Workers -> Jobs \cup {NoJob}]
        /\ pc' \in [Workers -> PCs]
    BY <2>1, <2>2
  <2>4. \A v \in Workers : job'[v] # NoJob => status'[job'[v]] # "absent"
    BY <2>1, <2>2
  <2> QED
    BY <2>2, <2>3, <2>4
<1>8. ASSUME NEW w \in Workers, NoCandidate(w) PROVE TypeInv'
  BY <1>8 DEF NoCandidate, ReleaseLocks, ToIdle
<1>9. ASSUME NEW w \in Workers, AdvisoryLock(w) PROVE TypeInv'
  BY <1>9 DEF AdvisoryLock
<1>10. ASSUME NEW w \in Workers, RecheckFree(w) PROVE TypeInv'
  BY <1>10 DEF RecheckFree
<1>11. ASSUME NEW w \in Workers, RecheckBusy(w) PROVE TypeInv'
  <2>2. CASE ReleaseLocks(w) /\ ToIdle(w) /\ UNCHANGED <<jobVars, reqVars, faults>>
    BY <2>2 DEF ReleaseLocks, ToIdle
  <2>3. CASE /\ excluded' = [excluded EXCEPT ![w] = excluded[w] \cup {client_id[job[w]]}]
             /\ job' = [job EXCEPT ![w] = NoJob]
             /\ pc'  = [pc EXCEPT ![w] = "select"]
             /\ UNCHANGED <<lockVars, loaded, covers>>
             /\ UNCHANGED <<jobVars, reqVars, faults>>
    <3>1. client_id[job[w]] \in Clients
      BY <1>11 DEF RecheckBusy, RunningClients
    <3> QED
      BY <2>3, <3>1, SMTT(20)
  <2> QED
    BY <1>11, <2>2, <2>3 DEF RecheckBusy
<1>12. ASSUME NEW w \in Workers, ClaimCommit(w) PROVE TypeInv'
  <2>1. /\ status'    \in [Jobs -> Statuses]
        /\ locked_by' \in [Jobs -> Workers \cup {Null}]
        /\ stale'     \in [Jobs -> BOOLEAN]
        /\ excluded'  \in [Workers -> SUBSET Clients]
        /\ pc'        \in [Workers -> PCs]
    BY <1>12 DEF ClaimCommit
  <2>2. attempts' = [j \in Jobs |-> IF j = job[w] THEN attempts[j] + 1 ELSE attempts[j]]
    BY <1>12 DEF ClaimCommit
  <2>3. attempts' \in [Jobs -> Nat] /\ \A i \in Jobs : attempts[i] <= attempts'[i]
    BY <2>2
  <2>4. \A i \in Jobs : status[i] # "absent" <=> status'[i] # "absent"
    BY <1>12 DEF ClaimCommit
  <2>5. /\ row_lock' \in [Jobs -> Workers \cup {Null}]
        /\ adv_lock' \in [Clients -> Workers \cup {Null}]
    BY <1>12 DEF ClaimCommit, ReleaseLocks
  <2>6. UNCHANGED <<client_id, job_type, due, job, loaded, covers, reqVars, faults>>
    BY <1>12 DEF ClaimCommit
  <2>7. ASSUME NEW v \in Workers, NEW i \in Jobs, loaded[v][i].status # "absent"
        PROVE  status'[i] # "absent" /\ loaded[v][i].attempts <= attempts'[i]
    BY <2>7, <2>3, <2>4
  <2> QED
    BY <2>1, <2>3, <2>4, <2>5, <2>6, <2>7
<1>13. ASSUME NEW w \in Workers, StartBuild(w) PROVE TypeInv'
  BY <1>13 DEF StartBuild
<1>14. ASSUME NEW w \in Workers, BuildCommit(w) PROVE TypeInv'
  BY <1>14 DEF BuildCommit
<1>15. ASSUME NEW w \in Workers, BuildFail(w) PROVE TypeInv'
  <2>1. /\ loaded' = [loaded EXCEPT ![w] = Load({job[w]} \cap Jobs)]
        /\ pc' = [pc EXCEPT ![w] = "fail"]
        /\ UNCHANGED <<jobVars, lockVars, job, excluded, covers, reqVars, faults>>
    BY <1>15 DEF BuildFail, Load
  <2> DEFINE rows == Load({job[w]} \cap Jobs)
  <2>2. /\ rows \in [Jobs -> Row]
        /\ \A j \in Jobs : rows[j].status # "absent"
               => status[j] # "absent" /\ rows[j].attempts <= attempts[j]
    BY LoadTypes
  <2> HIDE DEF rows
  <2>3. loaded' \in [Workers -> [Jobs -> Row]] /\ pc' \in [Workers -> PCs]
    BY <2>1, <2>2 DEF rows
  <2>4. ASSUME NEW v \in Workers, NEW j \in Jobs, loaded'[v][j].status # "absent"
        PROVE  status[j] # "absent" /\ loaded'[v][j].attempts <= attempts[j]
    <3>1. CASE v = w
      BY <2>1, <2>2, <2>4, <3>1 DEF rows
    <3>2. CASE v # w
      BY <2>1, <2>4, <3>2
    <3> QED
      BY <3>1, <3>2
  <2> QED
    BY <2>1, <2>3, <2>4
<1>16. ASSUME NEW w \in Workers, Fail(w) PROVE TypeInv'
  <2>1. GiveBack(w, FALSE) /\ UNCHANGED <<client_id, job_type, attempts, req, wanted>>
    BY <1>16 DEF Fail, GiveBack
  <2>2. ToIdle(w) /\ UNCHANGED <<lockVars, faults>>
    BY <1>16 DEF Fail
  <2>3. /\ status'    \in [Jobs -> Statuses]
        /\ due'       \in [Jobs -> BOOLEAN]
        /\ locked_by' \in [Jobs -> Workers \cup {Null}]
        /\ stale'     \in [Jobs -> BOOLEAN]
        /\ overtaken' \in [Clients -> SUBSET Overtakers]
        /\ \A i \in Jobs : status'[i] # "absent" <=> status[i] # "absent"
    BY <2>1, GiveBackTypes
  <2> QED
    BY <2>1, <2>2, <2>3 DEF ToIdle
<1>17. ASSUME NEW w \in Workers, Succeed(w) PROVE TypeInv'
  <2>1. status' \in [Jobs -> Statuses]
    BY <1>17 DEF Succeed
  <2>2. \A i \in Jobs : status[i] # "absent" <=> status'[i] # "absent"
    BY <1>17 DEF Succeed
  <2>3. overtaken' \in [Clients -> SUBSET Overtakers]
    BY <1>17 DEF Succeed
  <2>4. ToIdle(w) /\ UNCHANGED <<client_id, job_type, due, attempts, locked_by, stale, lockVars,
                                req, wanted, faults>>
    BY <1>17 DEF Succeed
  <2> QED
    BY <2>1, <2>2, <2>3, <2>4, SMTT(20) DEF ToIdle
<1>18. ASSUME NEW w \in Workers, Crash(w) PROVE TypeInv'
  BY <1>18 DEF Crash, ReleaseLocks, ToIdle
<1>19. ASSUME NEW w \in Workers, ClaimError(w) PROVE TypeInv'
  BY <1>19 DEF ClaimError, ReleaseLocks, ToIdle
<1>20. ASSUME NEW j \in Jobs, BecomeDue(j) PROVE TypeInv'
  BY <1>20 DEF BecomeDue
<1>21. ASSUME NEW j \in Jobs, BecomeStale(j) PROVE TypeInv'
  BY <1>21 DEF BecomeStale
<1>22. CASE UNCHANGED vars
  BY <1>22 DEF vars
<1> HIDE DEF TypeInv, TypeOK, RefInv, Statuses, PCs, Claiming, Overtakers, Row, Unloaded, NotLoaded,
             Request, jobVars, lockVars, workerVars, reqVars
<1> QED
  BY <1>1, <1>2, <1>3, <1>4, <1>5, <1>6, <1>7, <1>8, <1>9, <1>10, <1>11, <1>12, <1>13, <1>14, <1>15,
     <1>16, <1>17, <1>18, <1>19, <1>20, <1>21, <1>22 DEF Next, WorkerStep

-----------------------------------------------------------------------------
(* The claim protocol *)

ClaimSafe == ClaimInv /\ OneRunningRowPerClient

LEMMA InitClaimSafe == Init => ClaimSafe
BY DEF Init, ClaimSafe, ClaimInv, WithJob, WithCandidate, OneRunningRowPerClient

\* The step that matters: at the commit nothing of the client is running, and nobody
\* else is at its commit for the same client, because both would hold its lock.
LEMMA ClaimCommitSafe ==
  ASSUME TypeInv, ClaimSafe, NEW w \in Workers, ClaimCommit(w)
  PROVE  ClaimSafe'
<1> USE DEF TypeInv, TypeOK
<1> DEFINE k == job[w]
<1>1. /\ k \in Jobs /\ status[k] = "queued" /\ row_lock[k] = w
      /\ client_id[k] \in Clients /\ adv_lock[client_id[k]] = w
      /\ client_id[k] \notin RunningClients
  BY DEF ClaimSafe, ClaimInv, WithJob, WithCandidate, ClaimCommit
<1>2. /\ status' = [status EXCEPT ![k] = "running"]
      /\ pc' = [pc EXCEPT ![w] = "start"]
      /\ ReleaseLocks(w)
      /\ UNCHANGED <<client_id, job>>
  BY DEF ClaimCommit
<1>3. RunningClients' = RunningClients \cup {client_id[k]}
  BY <1>1, <1>2 DEF RunningClients
<1>4. ClaimInv'
  <2> SUFFICES ASSUME NEW v \in Workers
               PROVE  /\ pc'[v] \in WithJob => job[v] # NoJob
                      /\ pc'[v] \in WithCandidate => row_lock'[job[v]] = v /\ status'[job[v]] = "queued"
                      /\ pc'[v] \in {"check", "claim"} => adv_lock'[client_id[job[v]]] = v
                      /\ pc'[v] = "claim" => client_id[job[v]] \notin RunningClients'
    BY <1>2 DEF ClaimInv
  <2>1. CASE v = w
    BY <2>1, <1>1, <1>2 DEF WithJob, WithCandidate
  <2>2. CASE v # w
    <3>1. pc'[v] = pc[v]
      BY <2>2, <1>2
    <3>2. pc[v] \in WithJob => job[v] \in Jobs
      BY DEF ClaimSafe, ClaimInv
    <3>3. pc[v] \in WithCandidate => job[v] # k /\ row_lock[job[v]] = v /\ status[job[v]] = "queued"
      BY <2>2, <1>1 DEF ClaimSafe, ClaimInv
    <3>4. pc[v] \in {"check", "claim"} => /\ client_id[job[v]] \in Clients
                                          /\ client_id[job[v]] # client_id[k]
                                          /\ adv_lock[client_id[job[v]]] = v
      BY <2>2, <1>1, <3>2, <3>3 DEF ClaimSafe, ClaimInv, WithCandidate, WithJob
    <3>5. pc[v] \in WithCandidate => row_lock'[job[v]] = v /\ status'[job[v]] = "queued"
      BY <2>2, <1>2, <3>2, <3>3 DEF ReleaseLocks, WithCandidate, WithJob
    <3>6. pc[v] \in {"check", "claim"} => adv_lock'[client_id[job[v]]] = v
      BY <2>2, <1>2, <3>4 DEF ReleaseLocks
    <3>7. pc[v] = "claim" => client_id[job[v]] \notin RunningClients'
      BY <1>3, <3>4 DEF ClaimSafe, ClaimInv
    <3> QED
      BY <3>1, <3>2, <3>5, <3>6, <3>7 DEF ClaimSafe, ClaimInv
  <2> QED
    BY <2>1, <2>2
<1>5. OneRunningRowPerClient'
  <2> SUFFICES ASSUME NEW i \in Jobs, NEW j \in Jobs, status'[i] = "running", status'[j] = "running",
                      client_id[i] = client_id[j]
               PROVE  i = j
    BY <1>2 DEF OneRunningRowPerClient
  <2>1. \A x \in Jobs : status'[x] = "running" => x = k \/ status[x] = "running"
    BY <1>2
  <2>2. \A x \in Jobs : status[x] = "running" => client_id[x] # client_id[k]
    BY <1>1 DEF RunningClients
  <2> QED
    BY <2>1, <2>2 DEF ClaimSafe, OneRunningRowPerClient
<1> QED
  BY <1>4, <1>5 DEF ClaimSafe

\* Giving rows back never makes one run, and never touches a locked one.
LEMMA GiveBackSafe ==
  ASSUME TypeInv, NEW w \in Workers, NEW is_due, GiveBack(w, is_due)
  PROVE  /\ DOMAIN status' = Jobs
         /\ \A j \in Jobs : /\ status'[j] = "running" => status[j] = "running"
                            /\ row_lock[j] # Null => status'[j] = status[j]
         /\ UNCHANGED client_id
BY DEF GiveBack, Outcome, TypeInv, TypeOK

LEMMA NextClaimSafe == TypeInv /\ ClaimSafe /\ [Next]_vars => ClaimSafe'
<1> SUFFICES ASSUME TypeInv, ClaimSafe, [Next]_vars PROVE ClaimSafe'
  OBVIOUS
<1> USE DEF TypeInv, TypeOK, ClaimSafe, ClaimInv, OneRunningRowPerClient, WithJob, WithCandidate,
            RunningClients, jobVars, lockVars, workerVars, reqVars
<1>1. ASSUME NEW r \in Requests, NEW c \in Clients, NEW kind \in Kinds, NEW debounce \in BOOLEAN,
             EnqueueRead(r, c, kind, debounce)
      PROVE  ClaimSafe'
  BY <1>1 DEF EnqueueRead
<1>2. ASSUME NEW r \in Requests, NEW j \in Jobs, EnqueueInsert(r, j)
      PROVE  ClaimSafe'
  <2>1. status[j] = "absent"
    BY <1>2 DEF EnqueueInsert, First
  <2>2. /\ status'    = [status EXCEPT ![j] = "queued"]
        /\ client_id' = [client_id EXCEPT ![j] = req[r].client]
        /\ UNCHANGED <<pc, job, lockVars>>
    BY <1>2 DEF EnqueueInsert
  <2> QED
    BY <2>1, <2>2
<1>3. ASSUME NEW r \in Requests, EnqueueCoalesce(r)
      PROVE  ClaimSafe'
  BY <1>3 DEF EnqueueCoalesce
<1>4. ASSUME NEW w \in Workers, Poll(w) PROVE ClaimSafe'
  BY <1>4 DEF Poll
<1>5. ASSUME NEW w \in Workers, ReclaimLoad(w) PROVE ClaimSafe'
  BY <1>5 DEF ReclaimLoad
<1>6. ASSUME NEW w \in Workers, ReclaimWrite(w) PROVE ClaimSafe'
  <2>1. /\ \A j \in Jobs : /\ status'[j] = "running" => status[j] = "running"
                           /\ row_lock[j] # Null => status'[j] = status[j]
        /\ UNCHANGED <<client_id, lockVars>>
    BY <1>6, GiveBackSafe DEF ReclaimWrite
  <2>2. \A v \in Workers : /\ pc'[v] \in WithJob => pc'[v] = pc[v] /\ job'[v] = job[v]
    BY <1>6 DEF ReclaimWrite
  <2>3. \A v \in Workers : pc[v] \in WithCandidate => job[v] \in Jobs /\ row_lock[job[v]] # Null
    OBVIOUS
  <2>4. RunningClients' \subseteq RunningClients
    BY <2>1
  <2>5. ClaimInv'
    <3> SUFFICES ASSUME NEW v \in Workers, pc'[v] \in WithJob
                 PROVE  /\ job'[v] # NoJob
                        /\ pc'[v] \in WithCandidate =>
                              row_lock'[job'[v]] = v /\ status'[job'[v]] = "queued"
                        /\ pc'[v] \in {"check", "claim"} => adv_lock'[client_id'[job'[v]]] = v
                        /\ pc'[v] = "claim" => client_id'[job'[v]] \notin RunningClients'
      OBVIOUS
    <3> HIDE DEF RunningClients
    <3> QED
      BY <2>1, <2>2, <2>3, <2>4
  <2>6. OneRunningRowPerClient'
    BY <2>1
  <2> QED
    BY <2>5, <2>6
<1>7. ASSUME NEW w \in Workers, SelectCandidate(w) PROVE ClaimSafe'
  BY <1>7 DEF SelectCandidate, Candidates, First
<1>8. ASSUME NEW w \in Workers, NoCandidate(w) PROVE ClaimSafe'
  BY <1>8 DEF NoCandidate, ReleaseLocks, ToIdle
<1>9. ASSUME NEW w \in Workers, AdvisoryLock(w) PROVE ClaimSafe'
  BY <1>9 DEF AdvisoryLock
<1>10. ASSUME NEW w \in Workers, RecheckFree(w) PROVE ClaimSafe'
  BY <1>10 DEF RecheckFree
<1>11. ASSUME NEW w \in Workers, RecheckBusy(w) PROVE ClaimSafe'
  <2>1. CASE ReleaseLocks(w) /\ ToIdle(w) /\ UNCHANGED <<jobVars, reqVars, faults>>
    BY <2>1 DEF ReleaseLocks, ToIdle
  <2>2. CASE /\ job' = [job EXCEPT ![w] = NoJob]
             /\ pc'  = [pc EXCEPT ![w] = "select"]
             /\ UNCHANGED <<lockVars, jobVars, reqVars, faults>>
    BY <2>2
  <2> QED
    BY <1>11, <2>1, <2>2 DEF RecheckBusy
<1>12. ASSUME NEW w \in Workers, ClaimCommit(w) PROVE ClaimSafe'
  BY <1>12, ClaimCommitSafe
<1>13. ASSUME NEW w \in Workers, StartBuild(w) PROVE ClaimSafe'
  BY <1>13 DEF StartBuild
<1>14. ASSUME NEW w \in Workers, BuildCommit(w) PROVE ClaimSafe'
  BY <1>14 DEF BuildCommit
<1>15. ASSUME NEW w \in Workers, BuildFail(w) PROVE ClaimSafe'
  BY <1>15 DEF BuildFail
<1>16. ASSUME NEW w \in Workers, Fail(w) PROVE ClaimSafe'
  <2>1. /\ \A j \in Jobs : /\ status'[j] = "running" => status[j] = "running"
                           /\ row_lock[j] # Null => status'[j] = status[j]
        /\ UNCHANGED <<client_id, lockVars>>
    BY <1>16, GiveBackSafe DEF Fail
  <2>2. \A v \in Workers : /\ pc'[v] \in WithJob => pc'[v] = pc[v] /\ job'[v] = job[v]
    BY <1>16 DEF Fail, ToIdle
  <2>3. \A v \in Workers : pc[v] \in WithCandidate => job[v] \in Jobs /\ row_lock[job[v]] # Null
    OBVIOUS
  <2>4. RunningClients' \subseteq RunningClients
    BY <2>1
  <2>5. ClaimInv'
    <3> SUFFICES ASSUME NEW v \in Workers, pc'[v] \in WithJob
                 PROVE  /\ job'[v] # NoJob
                        /\ pc'[v] \in WithCandidate =>
                              row_lock'[job'[v]] = v /\ status'[job'[v]] = "queued"
                        /\ pc'[v] \in {"check", "claim"} => adv_lock'[client_id'[job'[v]]] = v
                        /\ pc'[v] = "claim" => client_id'[job'[v]] \notin RunningClients'
      OBVIOUS
    <3> HIDE DEF RunningClients
    <3> QED
      BY <2>1, <2>2, <2>3, <2>4
  <2>6. OneRunningRowPerClient'
    BY <2>1
  <2> QED
    BY <2>5, <2>6
<1>17. ASSUME NEW w \in Workers, Succeed(w) PROVE ClaimSafe'
  BY <1>17 DEF Succeed, ToIdle
<1>18. ASSUME NEW w \in Workers, Crash(w) PROVE ClaimSafe'
  BY <1>18 DEF Crash, ReleaseLocks, ToIdle
<1>19. ASSUME NEW w \in Workers, ClaimError(w) PROVE ClaimSafe'
  BY <1>19 DEF ClaimError, ReleaseLocks, ToIdle
<1>20. ASSUME NEW j \in Jobs, BecomeDue(j) PROVE ClaimSafe'
  BY <1>20 DEF BecomeDue
<1>21. ASSUME NEW j \in Jobs, BecomeStale(j) PROVE ClaimSafe'
  BY <1>21 DEF BecomeStale
<1>22. CASE UNCHANGED vars
  BY <1>22 DEF vars
<1> HIDE DEF TypeInv, TypeOK, ClaimSafe, ClaimInv, OneRunningRowPerClient, WithJob, WithCandidate,
             RunningClients, jobVars, lockVars, workerVars, reqVars
<1> QED
  BY <1>1, <1>2, <1>3, <1>4, <1>5, <1>6, <1>7, <1>8, <1>9, <1>10, <1>11, <1>12, <1>13, <1>14, <1>15,
     <1>16, <1>17, <1>18, <1>19, <1>20, <1>21, <1>22 DEF Next, WorkerStep

-----------------------------------------------------------------------------
(* Giving up and reclaiming *)

RowSafe == DeadOnlyAfterMaxAttempts /\ LockInv

LEMMA InitRowSafe == Init => RowSafe
BY DEF Init, RowSafe, DeadOnlyAfterMaxAttempts, LockInv

\* Outcome is decided on attempts that can only have grown since, and a row written
\* from an up-to-date copy gets a NULL locked_by with its new status.
LEMMA GiveBackRowSafe ==
  ASSUME TypeInv, RowSafe, NEW w \in Workers, NEW is_due, GiveBack(w, is_due)
  PROVE  RowSafe'
<1> USE DEF TypeInv, TypeOK, RowSafe
<1> DEFINE row == loaded[w]
           touched == {j \in Jobs : row[j].status # "absent"}
<1>1. row \in [Jobs -> Row]
  OBVIOUS
<1>2. /\ status' = [j \in Jobs |-> IF j \in touched /\ Outcome(row[j]) # row[j].status
                                  THEN Outcome(row[j]) ELSE status[j]]
      /\ locked_by' = [j \in Jobs |-> IF j \in touched /\ row[j].locked THEN Null ELSE locked_by[j]]
      /\ overtaken' = [c \in Clients |->
                        IF \E j \in touched : row[j] # Current(j) /\ client_id[j] = c
                        THEN overtaken[c] \cup {"giveback"} ELSE overtaken[c]]
      /\ UNCHANGED <<client_id, attempts>>
  BY DEF GiveBack
<1>3. DeadOnlyAfterMaxAttempts'
  <2> SUFFICES ASSUME NEW j \in Jobs, status'[j] = "dead" PROVE attempts[j] >= MaxAttempts
    BY <1>2 DEF DeadOnlyAfterMaxAttempts
  <2>1. CASE status[j] = "dead"
    BY <2>1 DEF DeadOnlyAfterMaxAttempts
  <2>2. CASE status[j] # "dead"
    <3>1. j \in touched /\ Outcome(row[j]) = "dead"
      BY <2>2, <1>2
    <3>2. row[j].attempts >= MaxAttempts /\ row[j].attempts <= attempts[j]
      BY <3>1 DEF Outcome, RefInv
    <3>3. row[j].attempts \in Nat /\ attempts[j] \in Nat
      BY <1>1 DEF Row
    <3> QED
      BY <3>2, <3>3
  <2> QED
    BY <2>1, <2>2
<1>4. LockInv'
  <2> SUFFICES ASSUME NEW j \in Jobs, ~Outdated(j)'
               PROVE  /\ status'[j] = "running" => locked_by'[j] # Null
                      /\ status'[j] \in {"absent", "queued", "dead"} => locked_by'[j] = Null
    BY DEF LockInv
  <2>1. status'[j] # "absent" => status[j] # "absent"
    BY <1>2 DEF RefInv
  <2>2. CASE status'[j] = "absent"
    <3>1. status[j] = "absent" /\ j \notin touched
      BY <1>2, <2>2 DEF Outcome, RefInv
    <3> QED
      BY <1>2, <2>2, <3>1 DEF LockInv, Outdated
  <2>3. CASE status'[j] # "absent"
    <3>1. ~Outdated(j) /\ (j \in touched => row[j] = Current(j))
      BY <1>2, <2>1, <2>3 DEF Outdated
    <3>2. CASE j \in touched
      <4>1. row[j].status = status[j] /\ row[j].locked = (locked_by[j] # Null)
        BY <3>1, <3>2 DEF Current
      <4>2. status'[j] = Outcome(row[j]) /\ Outcome(row[j]) \in {"queued", "dead"}
        BY <1>2, <3>2, <4>1 DEF Outcome
      <4>3. locked_by'[j] = Null
        BY <1>2, <3>2, <4>1
      <4> QED
        BY <4>2, <4>3
    <3>3. CASE j \notin touched
      BY <1>2, <3>1, <3>3 DEF LockInv
    <3> QED
      BY <3>2, <3>3
  <2> QED
    BY <2>2, <2>3
<1> QED
  BY <1>3, <1>4

\* Any other step: what it does to the columns, in one place.
Harmless ==
    \A j \in Jobs :
       \/ /\ status'[j] = status[j] \/ status'[j] = "succeeded"
          /\ UNCHANGED <<attempts[j], locked_by[j]>>
          /\ Outdated(j) => Outdated(j)'
       \/ status'[j] = "queued" /\ locked_by'[j] = Null
       \/ status'[j] = "running" /\ locked_by'[j] # Null

LEMMA HarmlessRowSafe == TypeInv /\ RowSafe /\ Harmless => RowSafe'
<1> SUFFICES ASSUME TypeInv, RowSafe, Harmless PROVE RowSafe'
  OBVIOUS
<1>1. DeadOnlyAfterMaxAttempts'
  BY DEF Harmless, RowSafe, DeadOnlyAfterMaxAttempts
<1>2. LockInv'
  <2> SUFFICES ASSUME NEW j \in Jobs
               PROVE  \/ Outdated(j)'
                      \/ /\ status'[j] = "running" => locked_by'[j] # Null
                         /\ status'[j] \in {"absent", "queued", "dead"} => locked_by'[j] = Null
    BY DEF LockInv
  <2> QED
    BY DEF Harmless, RowSafe, LockInv
<1> QED
  BY <1>1, <1>2 DEF RowSafe

LEMMA NextRowSafe == TypeInv /\ ClaimInv /\ RowSafe /\ [Next]_vars => RowSafe'
<1> SUFFICES ASSUME TypeInv, ClaimInv, RowSafe, [Next]_vars PROVE RowSafe'
  OBVIOUS
<1> USE DEF TypeInv, TypeOK, jobVars, lockVars, workerVars, reqVars
<1>1. ASSUME NEW w \in Workers, ReclaimWrite(w) \/ Fail(w) PROVE RowSafe'
  BY <1>1, GiveBackRowSafe DEF ReclaimWrite, Fail
<1>2. ASSUME NEW r \in Requests, NEW j \in Jobs, EnqueueInsert(r, j) PROVE Harmless
  <2>1. status[j] = "absent" /\ locked_by[j] = Null
    BY <1>2 DEF EnqueueInsert, First, RowSafe, LockInv, Outdated
  <2>2. /\ status' = [status EXCEPT ![j] = "queued"]
        /\ client_id' = [client_id EXCEPT ![j] = req[r].client]
        /\ UNCHANGED <<attempts, locked_by, overtaken>>
    BY <1>2 DEF EnqueueInsert
  <2> QED
    BY <2>1, <2>2 DEF Harmless, Outdated
<1>3. ASSUME NEW r \in Requests, EnqueueCoalesce(r) PROVE Harmless
  BY <1>3 DEF EnqueueCoalesce, Harmless, Outdated
<1>4. ASSUME NEW w \in Workers, ClaimCommit(w) PROVE Harmless
  BY <1>4 DEF ClaimCommit, ClaimInv, WithJob, Harmless, Outdated
<1>5. ASSUME NEW w \in Workers, Succeed(w) PROVE Harmless
  BY <1>5 DEF Succeed, ClaimInv, WithJob, Harmless, Outdated
<1>6. ASSUME UNCHANGED <<status, client_id, attempts, locked_by, overtaken>> PROVE Harmless
  BY <1>6 DEF Harmless, Outdated
<1>7. ASSUME NEW r \in Requests, NEW c \in Clients, NEW kind \in Kinds, NEW debounce \in BOOLEAN,
             EnqueueRead(r, c, kind, debounce)
      PROVE  Harmless
  BY <1>7, <1>6 DEF EnqueueRead
<1>8. ASSUME NEW w \in Workers,
             \/ Poll(w) \/ ReclaimLoad(w) \/ SelectCandidate(w) \/ NoCandidate(w) \/ AdvisoryLock(w)
             \/ RecheckFree(w) \/ RecheckBusy(w) \/ StartBuild(w) \/ BuildCommit(w) \/ BuildFail(w)
             \/ Crash(w) \/ ClaimError(w)
      PROVE  Harmless
  BY <1>8, <1>6 DEF Poll, ReclaimLoad, SelectCandidate, NoCandidate, AdvisoryLock, RecheckFree,
                    RecheckBusy, StartBuild, BuildCommit, BuildFail, Crash, ClaimError
<1>9. ASSUME NEW j \in Jobs, BecomeDue(j) \/ BecomeStale(j) PROVE Harmless
  BY <1>9, <1>6 DEF BecomeDue, BecomeStale
<1>10. ASSUME UNCHANGED vars PROVE Harmless
  BY <1>10, <1>6 DEF vars
<1> HIDE DEF TypeInv, TypeOK, jobVars, lockVars, workerVars, reqVars
<1> QED
  BY <1>1, <1>2, <1>3, <1>4, <1>5, <1>7, <1>8, <1>9, <1>10, HarmlessRowSafe DEF Next, WorkerStep

-----------------------------------------------------------------------------
(* Work: what is wanted is pending, or was overtaken *)

\* A job other than j will build what kind k asks for of client c.
PendingBut(c, k, j) ==
    \E i \in JobsOf(c) \ {j} :
        /\ status[i] # "succeeded"
        /\ k = "full_build" => job_type[i] = "full_build"

LostFor(c) == overtaken[c] \cap {"coalesce", "succeed"} # {}

\* What a request saw is a row of its client.
SeenInv ==
    \A r \in Requests : req[r].phase = "read" /\ req[r].seen # NoJob
                          => client_id[req[r].seen] = req[r].client

\* What is wanted of a client whose row is claimed by w will be covered by the build of w,
\* until it commits, or is pending in another row.
Covered(w, c, k) ==
    \/ pc[w] = "build" /\ k \in covers[w]
    \/ PendingBut(c, k, job[w])
    \/ LostFor(c)

Building(w) == pc[w] \in {"build", "finish"} /\ OwnClaim(w)

CoverInv ==
    \A w \in Workers : Building(w) =>
       \A k \in wanted[client_id[job[w]]] : Covered(w, client_id[job[w]], k)

WorkInv == SeenInv /\ CoverInv /\ LostOnlyWhenOvertaken

LEMMA InitWork == Init => WorkInv
BY DEF Init, WorkInv, SeenInv, CoverInv, Building, LostOnlyWhenOvertaken, NewRequest

\* Rows are neither deleted, nor finished, nor made less than a full build.
RowsStay ==
    \A j \in Jobs : status[j] # "absent" =>
        /\ status'[j] # "absent" /\ client_id'[j] = client_id[j]
        /\ status[j] # "succeeded" => status'[j] # "succeeded"
        /\ job_type[j] = "full_build" => job_type'[j] = "full_build"

LEMMA PendingStays ==
  ASSUME RowsStay, NEW c, NEW k
  PROVE  /\ Pending(c, k) => Pending(c, k)'
         /\ \A j : PendingBut(c, k, j) => PendingBut(c, k, j)'
BY DEF RowsStay, Pending, PendingBut, JobsOf

\* What no step undoes: the histories, and what a build that goes on covers.
Onwards ==
    /\ \A c \in Clients : overtaken[c] \subseteq overtaken'[c]
    /\ \A w \in Workers : Building(w)' =>
          /\ Building(w) /\ UNCHANGED job[w]
          /\ pc'[w] = pc[w] /\ covers'[w] = covers[w]

LEMMA BuildingHasJob ==
  ASSUME TypeInv, ClaimInv, NEW w \in Workers, Building(w)
  PROVE  /\ job[w] \in Jobs /\ job[w] # NoJob /\ status[job[w]] = "running"
         /\ client_id[job[w]] \in Clients
BY DEF TypeInv, TypeOK, RefInv, ClaimInv, WithJob, Building, OwnClaim

\* A step that leaves the rows, and asks for nothing new.
LEMMA WorkKept ==
  ASSUME TypeInv, ClaimInv, TypeInv', ClaimInv', WorkInv, RowsStay, Onwards, SeenInv',
         \A c \in Clients : wanted'[c] \subseteq wanted[c]
  PROVE  WorkInv'
<1>1. CoverInv'
  <2> SUFFICES ASSUME NEW w \in Workers, Building(w)',
                      NEW k \in wanted'[client_id'[job'[w]]]
               PROVE  Covered(w, client_id[job[w]], k)' 
    BY DEF CoverInv
  <2> DEFINE c == client_id[job[w]]
  <2>1. Building(w) /\ job'[w] = job[w] /\ pc'[w] = pc[w] /\ covers'[w] = covers[w]
    BY DEF Onwards
  <2>2. job[w] \in Jobs /\ status[job[w]] = "running" /\ c \in Clients
    BY <2>1, BuildingHasJob
  <2>3. client_id'[job'[w]] = c
    BY <2>1, <2>2 DEF RowsStay
  <2>4. Covered(w, c, k)
    BY <2>1, <2>2, <2>3 DEF WorkInv, CoverInv
  <2>5. PendingBut(c, k, job[w]) => 
           \E i \in Jobs : /\ status'[i] # "absent" /\ client_id'[i] = c /\ i # job'[w]
                           /\ status'[i] # "succeeded"
                           /\ k = "full_build" => job_type'[i] = "full_build"
    BY <2>1 DEF RowsStay, PendingBut, JobsOf
  <2>6. LostFor(c) => overtaken'[c] \cap {"coalesce", "succeed"} # {}
    BY <2>2 DEF Onwards, LostFor
  <2> QED
    BY <2>1, <2>3, <2>4, <2>5, <2>6 DEF Covered, PendingBut, JobsOf, LostFor
<1>2. LostOnlyWhenOvertaken'
  <2> SUFFICES ASSUME NEW c \in Clients, NEW k \in wanted'[c]
               PROVE  Pending(c, k)' \/ overtaken'[c] \cap {"coalesce", "succeed"} # {}
    BY DEF LostOnlyWhenOvertaken
  <2>1. Pending(c, k) \/ overtaken[c] \cap {"coalesce", "succeed"} # {}
    BY DEF WorkInv, LostOnlyWhenOvertaken
  <2> QED
    BY <2>1, PendingStays DEF Onwards
<1> QED
  BY <1>1, <1>2 DEF WorkInv

\* A step that touches neither rows, requests nor claims, nor what a build covers.
Aside == UNCHANGED <<status, client_id, job_type, locked_by, req, wanted, overtaken>>

LEMMA AsideWork ==
  ASSUME TypeInv, ClaimInv, TypeInv', ClaimInv', WorkInv, Aside,
         \A w \in Workers : pc'[w] \in {"build", "finish"} =>
            pc'[w] = pc[w] /\ job'[w] = job[w] /\ covers'[w] = covers[w]
  PROVE  WorkInv'
<1>1. RowsStay /\ Onwards
  BY DEF Aside, RowsStay, Onwards, Building, OwnClaim
<1>2. SeenInv'
  BY DEF WorkInv, SeenInv, Aside
<1> QED
  BY <1>1, <1>2, WorkKept DEF Aside

\* A requeued or dead-lettered row is still pending, and no longer claimed.
LEMMA GiveBackWork ==
  ASSUME TypeInv, ClaimInv, TypeInv', ClaimInv', WorkInv, NEW w \in Workers,
         ReclaimWrite(w) \/ Fail(w)
  PROVE  WorkInv'
<1>1. PICK is_due \in BOOLEAN : GiveBack(w, is_due)
  BY DEF ReclaimWrite, Fail
<1>2. /\ status' = [j \in Jobs |-> IF /\ loaded[w][j].status # "absent"
                                      /\ Outcome(loaded[w][j]) # loaded[w][j].status
                                   THEN Outcome(loaded[w][j]) ELSE status[j]]
      /\ locked_by' = [j \in Jobs |-> IF loaded[w][j].status # "absent" /\ loaded[w][j].locked
                                      THEN Null ELSE locked_by[j]]
      /\ UNCHANGED <<client_id, job_type, req, wanted>>
  BY <1>1 DEF GiveBack
<1>3. RowsStay
  BY <1>2 DEF RowsStay, Outcome
<1>4. Onwards
  <2>1. \A c \in Clients : overtaken[c] \subseteq overtaken'[c]
    BY <1>1 DEF GiveBack
  <2>2. ASSUME NEW v \in Workers, Building(v)'
        PROVE  Building(v) /\ UNCHANGED job[v] /\ pc'[v] = pc[v] /\ covers'[v] = covers[v]
    <3>0. /\ pc' = [pc EXCEPT ![w] = pc'[w]] /\ pc'[w] \in {"select", "idle"}
          /\ job' = [job EXCEPT ![w] = job'[w]] /\ covers' = [covers EXCEPT ![w] = covers'[w]]
      BY DEF ReclaimWrite, Fail, ToIdle, TypeInv, TypeOK
    <3>1. v # w /\ pc'[v] = pc[v] /\ job'[v] = job[v] /\ covers'[v] = covers[v]
      BY <2>2, <3>0 DEF Building, TypeInv, TypeOK
    <3>2. job[v] \in Jobs
      BY <2>2, <3>1 DEF TypeInv, TypeOK, ClaimInv, WithJob, Building
    <3>3. status[job[v]] = "running" /\ locked_by[job[v]] = v
      BY <1>2, <2>2, <3>1, <3>2 DEF Building, OwnClaim, Outcome
    <3> QED
      BY <2>2, <3>1, <3>3 DEF Building, OwnClaim
  <2> QED
    BY <2>1, <2>2 DEF Onwards
<1>5. SeenInv'
  BY <1>2 DEF WorkInv, SeenInv
<1> QED
  BY <1>2, <1>3, <1>4, <1>5, WorkKept

\* The row claimed was queued: nobody was building it.
LEMMA ClaimCommitWork ==
  ASSUME TypeInv, ClaimInv, TypeInv', ClaimInv', WorkInv, NEW w \in Workers, ClaimCommit(w)
  PROVE  WorkInv'
<1>1. job[w] \in Jobs /\ status[job[w]] = "queued"
  BY DEF ClaimCommit, ClaimInv, WithCandidate, WithJob, TypeInv, TypeOK
<1>2. /\ status'    = [status EXCEPT ![job[w]] = "running"]
      /\ locked_by' = [locked_by EXCEPT ![job[w]] = w]
      /\ pc'        = [pc EXCEPT ![w] = "start"]
      /\ UNCHANGED <<client_id, job_type, job, covers, req, wanted, overtaken>>
  BY DEF ClaimCommit, reqVars
<1>3. RowsStay
  BY <1>1, <1>2 DEF RowsStay, TypeInv, TypeOK
<1>4. Onwards
  BY <1>1, <1>2 DEF Onwards, Building, OwnClaim, TypeInv, TypeOK
<1>5. SeenInv'
  BY <1>2 DEF WorkInv, SeenInv
<1> QED
  BY <1>2, <1>3, <1>4, <1>5, WorkKept

\* A change that becomes visible is taken out of what the running builds cover, and is
\* pending in the row it was put into, unless that row had been claimed meanwhile.
LEMMA PublishWork ==
  ASSUME TypeInv, ClaimInv, TypeInv', ClaimInv', WorkInv, RowsStay,
         NEW r \in Requests, req[r].phase = "read", Publish(r), NEW j \in Jobs,
         UNCHANGED <<pc, job>>,
         \A c \in Clients : overtaken[c] \subseteq overtaken'[c],
         \A w \in Workers : job[w] \in Jobs /\ status'[job[w]] = "running" =>
            status[job[w]] = "running" /\ locked_by'[job[w]] = locked_by[job[w]],
         \/ overtaken'[req[r].client] \cap {"coalesce", "succeed"} # {}
         \/ /\ status'[j] = "queued" /\ client_id'[j] = req[r].client
            /\ req[r].kind = "full_build" => job_type'[j] = "full_build"
  PROVE  WorkInv'
<1> DEFINE d == req[r].client
           e == req[r].kind
<1>1. d \in Clients /\ e \in Kinds
  BY DEF TypeInv, TypeOK, Request
<1>2. /\ wanted' = [wanted EXCEPT ![d] = @ \cup {e}]
      /\ covers' = [w \in Workers |-> IF job[w] # NoJob /\ client_id[job[w]] = d
                                      THEN covers[w] \ {e} ELSE covers[w]]
      /\ req' = [req EXCEPT ![r].phase = "done"]
  BY DEF Publish
<1>3. SeenInv'
  <2> SUFFICES ASSUME NEW q \in Requests, req'[q].phase = "read", req'[q].seen # NoJob
               PROVE  client_id'[req'[q].seen] = req'[q].client
    BY DEF SeenInv
  <2>1. req'[q] = req[q]
    BY PublishTypes
  <2>2. client_id[req[q].seen] = req[q].client /\ req[q].seen \in Jobs
        /\ status[req[q].seen] # "absent"
    BY <2>1 DEF WorkInv, SeenInv, TypeInv, TypeOK, RefInv, Request
  <2> QED
    BY <2>1, <2>2 DEF RowsStay
<1>4. CoverInv'
  <2> SUFFICES ASSUME NEW w \in Workers, Building(w)',
                      NEW k \in wanted'[client_id'[job'[w]]]
               PROVE  Covered(w, client_id[job[w]], k)'
    BY DEF CoverInv
  <2> DEFINE c == client_id[job[w]]
  <2>1. job'[w] = job[w] /\ pc'[w] = pc[w] /\ job[w] \in Jobs /\ job[w] # NoJob
    BY BuildingHasJob DEF Building, ClaimInv, WithJob, TypeInv, TypeOK
  <2>2. Building(w) /\ status'[job[w]] = "running"
    BY <2>1 DEF Building, OwnClaim
  <2>3. c \in Clients /\ client_id'[job'[w]] = c
    BY <2>1, <2>2, BuildingHasJob DEF RowsStay
  <2>4. CASE k \in wanted[c] /\ ~(c = d /\ k = e)
    <3>1. Covered(w, c, k)
      BY <2>2, <2>4 DEF WorkInv, CoverInv
    <3>2. k \in covers[w] => k \in covers'[w]
      BY <1>2, <2>1, <2>4
    <3>3. PendingBut(c, k, job[w]) => 
             \E i \in Jobs : /\ status'[i] # "absent" /\ client_id'[i] = c /\ i # job'[w]
                             /\ status'[i] # "succeeded"
                             /\ k = "full_build" => job_type'[i] = "full_build"
      BY <2>1 DEF RowsStay, PendingBut, JobsOf
    <3>4. LostFor(c) => overtaken'[c] \cap {"coalesce", "succeed"} # {}
      BY <2>3 DEF LostFor
    <3> QED
      BY <2>1, <2>3, <3>1, <3>2, <3>3, <3>4 DEF Covered, PendingBut, JobsOf, LostFor
  <2>5. CASE c = d /\ k = e
    <3>1. CASE overtaken'[d] \cap {"coalesce", "succeed"} # {}
      BY <3>1, <2>3, <2>5 DEF Covered, LostFor
    <3>2. CASE status'[j] = "queued" /\ client_id'[j] = d
               /\ (e = "full_build" => job_type'[j] = "full_build")
      <4>1. j # job'[w]
        BY <2>1, <2>2, <3>2
      <4> QED
        BY <4>1, <2>3, <2>5, <3>2 DEF Covered, PendingBut, JobsOf
    <3> QED
      BY <3>1, <3>2
  <2>6. k \in wanted[c] \/ (c = d /\ k = e)
    BY <1>2, <2>3 DEF TypeInv, TypeOK
  <2> QED
    BY <2>4, <2>5, <2>6
<1>5. LostOnlyWhenOvertaken'
  <2> SUFFICES ASSUME NEW c \in Clients, NEW k \in wanted'[c]
               PROVE  Pending(c, k)' \/ overtaken'[c] \cap {"coalesce", "succeed"} # {}
    BY DEF LostOnlyWhenOvertaken
  <2>1. CASE k \in wanted[c]
    BY <2>1, PendingStays DEF WorkInv, LostOnlyWhenOvertaken
  <2>2. CASE c = d /\ k = e
    BY <2>2 DEF Pending, JobsOf
  <2> QED
    BY <1>2, <2>1, <2>2 DEF TypeInv, TypeOK
<1> QED
  BY <1>3, <1>4, <1>5 DEF WorkInv

LEMMA EnqueueWork ==
  ASSUME TypeInv, ClaimInv, TypeInv', ClaimInv', WorkInv, NEW r \in Requests,
         EnqueueCoalesce(r) \/ \E j \in Jobs : EnqueueInsert(r, j)
  PROVE  WorkInv'
<1> USE DEF TypeInv, TypeOK
<1>1. CASE EnqueueCoalesce(r)
  <2> DEFINE j == req[r].seen
  <2>1. /\ req[r].phase = "read" /\ j \in Jobs /\ status[j] # "absent"
        /\ client_id[j] = req[r].client /\ req[r].client \in Clients
    BY <1>1 DEF EnqueueCoalesce, Request, RefInv, WorkInv, SeenInv
  <2>2. /\ job_type' = [job_type EXCEPT ![j] = Merged(@, req[r].kind)]
        /\ overtaken' = IF status[j] = "queued" THEN overtaken
                        ELSE [overtaken EXCEPT ![client_id[j]] = @ \cup {"coalesce"}]
        /\ Publish(r) /\ UNCHANGED <<status, client_id, locked_by, pc, job>>
    BY <1>1 DEF EnqueueCoalesce
  <2>3. RowsStay
    BY <2>2 DEF RowsStay, Merged
  <2>4. \A c \in Clients : overtaken[c] \subseteq overtaken'[c]
    BY <2>2
  <2>5. CASE status[j] = "queued"
    <3>1. req[r].kind = "full_build" => job_type'[j] = "full_build"
      BY <2>1, <2>2 DEF Merged
    <3> HIDE DEF j
    <3> QED
      BY <2>1, <2>2, <2>3, <2>4, <2>5, <3>1, PublishWork
  <2>6. CASE status[j] # "queued"
    <3>1. overtaken'[req[r].client] \cap {"coalesce", "succeed"} # {}
      BY <2>1, <2>2, <2>6
    <3> HIDE DEF j
    <3> QED
      BY <2>1, <2>2, <2>3, <2>4, <3>1, PublishWork
  <2> QED
    BY <2>5, <2>6
<1>2. ASSUME NEW j \in Jobs, EnqueueInsert(r, j) PROVE WorkInv'
  <2>1. /\ req[r].phase = "read" /\ status[j] = "absent"
        /\ status'    = [status EXCEPT ![j] = "queued"]
        /\ client_id' = [client_id EXCEPT ![j] = req[r].client]
        /\ job_type'  = [job_type EXCEPT ![j] = req[r].kind]
        /\ Publish(r) /\ UNCHANGED <<locked_by, pc, job, overtaken>>
    BY <1>2 DEF EnqueueInsert, First
  <2>2. RowsStay
    BY <2>1 DEF RowsStay
  <2>3. status'[j] = "queued" /\ client_id'[j] = req[r].client /\ job_type'[j] = req[r].kind
    BY <2>1 
  <2>4. \A w \in Workers : job[w] \in Jobs /\ status'[job[w]] = "running" =>
            status[job[w]] = "running" /\ locked_by'[job[w]] = locked_by[job[w]]
    BY <2>1
  <2> QED
    BY <2>1, <2>2, <2>3, <2>4, PublishWork
<1> QED
  BY <1>1, <1>2

\* What the build takes in when it starts covers all that no other row is to build.
LEMMA StartBuildWork ==
  ASSUME TypeInv, ClaimInv, TypeInv', ClaimInv', WorkInv, NEW w \in Workers, StartBuild(w)
  PROVE  WorkInv'
<1>1. /\ pc[w] = "start" /\ pc' = [pc EXCEPT ![w] = "build"]
      /\ covers' = [covers EXCEPT ![w] = IF job_type[job[w]] = "full_build" THEN Kinds
                                         ELSE {"incremental"}]
      /\ UNCHANGED <<status, client_id, job_type, locked_by, job, req, wanted, overtaken>>
  BY DEF StartBuild, jobVars, reqVars
<1>2. SeenInv' /\ LostOnlyWhenOvertaken'
  BY <1>1 DEF WorkInv, SeenInv, LostOnlyWhenOvertaken, Pending, JobsOf
<1>3. CoverInv'
  <2> SUFFICES ASSUME NEW v \in Workers, Building(v)', NEW k \in wanted[client_id[job[v]]]
               PROVE  Covered(v, client_id[job[v]], k)'
    BY <1>1 DEF CoverInv
  <2> DEFINE c == client_id[job[v]]
  <2>1. CASE v # w
    <3>1. Building(v) /\ pc'[v] = pc[v] /\ covers'[v] = covers[v]
      BY <1>1, <2>1 DEF Building, OwnClaim, TypeInv, TypeOK
    <3>2. Covered(v, c, k)
      BY <3>1 DEF WorkInv, CoverInv
    <3> QED
      BY <1>1, <3>1, <3>2 DEF Covered, PendingBut, JobsOf, LostFor
  <2>2. CASE v = w
    <3>1. pc'[w] = "build" /\ job[w] \in Jobs /\ status[job[w]] = "running" /\ c \in Clients
      BY <1>1, <2>2 DEF Building, OwnClaim, ClaimInv, WithJob, TypeInv, TypeOK
    <3>2. Pending(c, k) \/ LostFor(c)
      BY <3>1 DEF WorkInv, LostOnlyWhenOvertaken, LostFor
    <3>3. Pending(c, k) => PendingBut(c, k, job[w]) \/ k \in covers'[w]
      <4>1. k \in Kinds
        BY <3>1 DEF TypeInv, TypeOK
      <4>2. (k = "full_build" => job_type[job[w]] = "full_build") => k \in covers'[w]
        BY <1>1, <4>1 DEF TypeInv, TypeOK
      <4> QED
        BY <4>2 DEF Pending, PendingBut
    <3> QED
      BY <1>1, <2>2, <3>1, <3>2, <3>3 DEF Covered, PendingBut, JobsOf, LostFor
  <2> QED
    BY <2>1, <2>2
<1> QED
  BY <1>2, <1>3 DEF WorkInv

\* A profile is committed: what it did not cover is pending elsewhere.
LEMMA BuildCommitWork ==
  ASSUME TypeInv, ClaimInv, TypeInv', ClaimInv', WorkInv, NEW w \in Workers, BuildCommit(w)
  PROVE  WorkInv'
<1>1. /\ pc[w] = "build" /\ pc' = [pc EXCEPT ![w] = "finish"]
      /\ wanted' = [wanted EXCEPT ![client_id[job[w]]] = @ \ covers[w]]
      /\ UNCHANGED <<status, client_id, job_type, locked_by, job, covers, req, overtaken>>
  BY DEF BuildCommit, jobVars
<1>2. \A c : wanted'[c] \subseteq wanted[c]
  BY <1>1 DEF TypeInv, TypeOK
<1>3. SeenInv' /\ LostOnlyWhenOvertaken'
  BY <1>1, <1>2 DEF WorkInv, SeenInv, LostOnlyWhenOvertaken, Pending, JobsOf
<1>4. CoverInv'
  <2> SUFFICES ASSUME NEW v \in Workers, Building(v)', NEW k \in wanted'[client_id[job[v]]]
               PROVE  Covered(v, client_id[job[v]], k)'
    BY <1>1 DEF CoverInv
  <2> DEFINE c == client_id[job[v]]
  <2>1. Building(v)
    BY <1>1 DEF Building, OwnClaim, TypeInv, TypeOK
  <2>2. c \in Clients /\ k \in wanted[c]
    BY <1>2, <2>1, BuildingHasJob
  <2>3. Covered(v, c, k)
    BY <2>1, <2>2 DEF WorkInv, CoverInv
  <2>4. v = w => k \notin covers[w]
    BY <1>1, <2>2 DEF TypeInv, TypeOK
  <2> QED
    BY <1>1, <2>3, <2>4 DEF Covered, PendingBut, JobsOf, LostFor, TypeInv, TypeOK
<1> QED
  BY <1>3, <1>4 DEF WorkInv

\* A row that succeeds was claimed by the worker, which then covers it, or the write
\* overtakes a newer claim.
LEMMA SucceedWork ==
  ASSUME TypeInv, ClaimSafe, TypeInv', WorkInv, NEW w \in Workers, Succeed(w)
  PROVE  WorkInv'
<1> DEFINE j == job[w]
           d == client_id[job[w]]
<1>0. ClaimInv
  BY DEF ClaimSafe
<1>1. /\ pc[w] = "finish"
      /\ status' = [status EXCEPT ![j] = "succeeded"]
      /\ overtaken' = IF OwnClaim(w) THEN overtaken
                      ELSE [overtaken EXCEPT ![d] = @ \cup {"succeed"}]
      /\ pc' = [pc EXCEPT ![w] = "idle"] /\ job' = [job EXCEPT ![w] = NoJob]
      /\ covers' = [covers EXCEPT ![w] = {}]
      /\ UNCHANGED <<client_id, job_type, locked_by, req, wanted>>
  BY DEF Succeed, ToIdle
<1>2. j \in Jobs /\ status[j] # "absent" /\ d \in Clients
  BY <1>0, <1>1 DEF ClaimInv, WithJob, TypeInv, TypeOK, RefInv
<1>3. SeenInv'
  BY <1>1 DEF WorkInv, SeenInv
<1>4. ASSUME NEW c \in Clients PROVE LostFor(c) => overtaken'[c] \cap {"coalesce", "succeed"} # {}
  BY <1>1 DEF LostFor, TypeInv, TypeOK
<1>5. ASSUME ~OwnClaim(w) PROVE overtaken'[d] \cap {"coalesce", "succeed"} # {}
  BY <1>1, <1>2, <1>5 DEF TypeInv, TypeOK
<1>6. ASSUME NEW c, NEW k, NEW i \in JobsOf(c), i # j,
             status[i] # "succeeded", k = "full_build" => job_type[i] = "full_build"
      PROVE  /\ i \in Jobs /\ status'[i] # "absent" /\ client_id'[i] = c
             /\ status'[i] # "succeeded" /\ (k = "full_build" => job_type'[i] = "full_build")
  BY <1>1, <1>6 DEF JobsOf, TypeInv, TypeOK
<1>7. CoverInv'
  <2> SUFFICES ASSUME NEW v \in Workers, Building(v)', NEW k \in wanted[client_id[job'[v]]]
               PROVE  \/ pc'[v] = "build" /\ k \in covers'[v]
                      \/ \E i \in Jobs : /\ status'[i] # "absent"
                                         /\ client_id'[i] = client_id[job'[v]] /\ i # job'[v]
                                         /\ status'[i] # "succeeded"
                                         /\ k = "full_build" => job_type'[i] = "full_build"
                      \/ overtaken'[client_id[job'[v]]] \cap {"coalesce", "succeed"} # {}
    BY <1>1 DEF CoverInv, Covered, PendingBut, JobsOf, LostFor
  <2> DEFINE c == client_id[job[v]]
  <2>1. v # w /\ pc'[v] = pc[v] /\ job'[v] = job[v] /\ covers'[v] = covers[v]
    BY <1>1 DEF Building, TypeInv, TypeOK
  <2>2. job[v] \in Jobs
    BY <1>0, <2>1 DEF Building, ClaimInv, WithJob, TypeInv, TypeOK
  <2>3. Building(v) /\ job[v] # j
    BY <1>1, <1>2, <2>1, <2>2 DEF Building, OwnClaim, TypeInv, TypeOK
  <2>4. c \in Clients /\ status[job[v]] = "running"
    BY <1>0, <2>3, BuildingHasJob
  <2>5. Covered(v, c, k)
    BY <2>1, <2>3 DEF WorkInv, CoverInv
  <2>6. ASSUME PendingBut(c, k, job[v]), OwnClaim(w)
        PROVE  \E i \in JobsOf(c) \ {job[v], j} :
                  status[i] # "succeeded" /\ (k = "full_build" => job_type[i] = "full_build")
    <3>1. c # d
      BY <1>2, <2>2, <2>3, <2>4, <2>6 DEF OwnClaim, ClaimSafe, OneRunningRowPerClient
    <3> QED
      BY <2>6, <3>1 DEF PendingBut, JobsOf
  <2>7. ASSUME PendingBut(c, k, job[v]), ~OwnClaim(w), c # d
        PROVE  \E i \in JobsOf(c) \ {job[v], j} :
                  status[i] # "succeeded" /\ (k = "full_build" => job_type[i] = "full_build")
    BY <2>7 DEF PendingBut, JobsOf
  <2> QED
    BY <2>1, <2>4, <2>5, <2>6, <2>7, <1>4, <1>5, <1>6 DEF Covered
<1>8. LostOnlyWhenOvertaken'
  <2> SUFFICES ASSUME NEW c \in Clients, NEW k \in wanted[c]
               PROVE  \/ \E i \in Jobs : /\ status'[i] # "absent" /\ client_id'[i] = c
                                         /\ status'[i] # "succeeded"
                                         /\ k = "full_build" => job_type'[i] = "full_build"
                      \/ overtaken'[c] \cap {"coalesce", "succeed"} # {}
    BY <1>1 DEF LostOnlyWhenOvertaken, Pending, JobsOf
  <2>1. Pending(c, k) \/ LostFor(c)
    BY DEF WorkInv, LostOnlyWhenOvertaken, LostFor
  <2>2. CASE c # d
    <3>1. Pending(c, k) => \E i \in JobsOf(c) \ {j} :
             status[i] # "succeeded" /\ (k = "full_build" => job_type[i] = "full_build")
      BY <2>2 DEF Pending, JobsOf
    <3> QED
      BY <2>1, <3>1, <1>4, <1>6
  <2>3. CASE c = d /\ OwnClaim(w)
    <3>1. PendingBut(c, k, j) \/ LostFor(c)
      BY <1>1, <2>3 DEF WorkInv, CoverInv, Covered, Building
    <3> QED
      BY <3>1, <1>4, <1>6 DEF PendingBut
  <2>4. CASE c = d /\ ~OwnClaim(w)
    BY <2>4, <1>5
  <2> QED
    BY <2>2, <2>3, <2>4
<1> QED
  BY <1>3, <1>7, <1>8 DEF WorkInv

LEMMA NextWork ==
  TypeInv /\ ClaimSafe /\ WorkInv /\ TypeInv' /\ ClaimSafe' /\ [Next]_vars => WorkInv'
<1> SUFFICES ASSUME TypeInv, ClaimSafe, WorkInv, TypeInv', ClaimSafe', [Next]_vars PROVE WorkInv'
  OBVIOUS
<1>1. ClaimInv /\ ClaimInv'
  BY DEF ClaimSafe
<1>2. ASSUME NEW r \in Requests, NEW c \in Clients, NEW kind \in Kinds, NEW debounce \in BOOLEAN,
             EnqueueRead(r, c, kind, debounce)
      PROVE  WorkInv'
  <2>1. PICK seen \in Jobs \cup {NoJob} :
          /\ IF Queued(c) = {} THEN seen = NoJob ELSE First(Queued(c), seen)
          /\ req' = [req EXCEPT ![r] = [phase |-> "read", client |-> c, kind |-> kind,
                                       debounce |-> debounce, seen |-> seen]]
    BY <1>2 DEF EnqueueRead
  <2>2. seen # NoJob => client_id[seen] = c
    BY <2>1 DEF Queued, JobsOf, First
  <2>3. UNCHANGED <<jobVars, workerVars, wanted, overtaken>>
    BY <1>2 DEF EnqueueRead
  <2>4. SeenInv'
    BY <2>1, <2>2, <2>3 DEF WorkInv, SeenInv, jobVars, TypeInv, TypeOK
  <2> QED
    BY <1>1, <2>3, <2>4, WorkKept
       DEF jobVars, workerVars, RowsStay, Onwards, Building, OwnClaim
<1>3. ASSUME NEW w \in Workers,
             \/ Poll(w) \/ ReclaimLoad(w) \/ SelectCandidate(w) \/ NoCandidate(w) \/ AdvisoryLock(w)
             \/ RecheckFree(w) \/ RecheckBusy(w) \/ BuildFail(w) \/ Crash(w) \/ ClaimError(w)
      PROVE  WorkInv'
  <2> USE DEF jobVars, reqVars, Aside, TypeInv, TypeOK
  <2>1. Aside
    BY <1>3 DEF Poll, ReclaimLoad, SelectCandidate, NoCandidate, AdvisoryLock, RecheckFree,
                RecheckBusy, BuildFail, Crash, ClaimError
  <2>2. ASSUME NEW v \in Workers, pc'[v] \in {"build", "finish"}
        PROVE  pc'[v] = pc[v] /\ job'[v] = job[v] /\ covers'[v] = covers[v]
    BY <1>3, <2>2 DEF Poll, ReclaimLoad, SelectCandidate, NoCandidate, AdvisoryLock, RecheckFree,
                RecheckBusy, BuildFail, Crash, ClaimError, ToIdle
  <2> HIDE DEF Aside, TypeInv, TypeOK
  <2> QED
    BY <1>1, <2>1, <2>2, AsideWork
<1>4. ASSUME (\E j \in Jobs : BecomeDue(j) \/ BecomeStale(j)) \/ UNCHANGED vars PROVE WorkInv'
  BY <1>1, <1>4, AsideWork DEF BecomeDue, BecomeStale, vars, jobVars, workerVars, reqVars, Aside
<1> QED
  BY <1>1, <1>2, <1>3, <1>4, EnqueueWork, GiveBackWork, ClaimCommitWork, StartBuildWork,
     BuildCommitWork, SucceedWork DEF Next, WorkerStep

-----------------------------------------------------------------------------
(* Theorems *)

LEMMA Invariance == Spec => [](TypeInv /\ ClaimSafe /\ RowSafe /\ WorkInv)
<1>1. Init => TypeInv /\ ClaimSafe /\ RowSafe /\ WorkInv
  BY InitTypeInv, InitClaimSafe, InitRowSafe, InitWork
<1>2. TypeInv /\ ClaimSafe /\ RowSafe /\ WorkInv /\ [Next]_vars
         => (TypeInv /\ ClaimSafe /\ RowSafe /\ WorkInv)'
  BY NextTypeInv, NextClaimSafe, NextRowSafe, NextWork DEF ClaimSafe
<1> QED
  BY <1>1, <1>2, PTL DEF Spec

\* Columns, locks and local states keep their types, and every stored row has a client.
THEOREM TypeCorrect == Spec => []TypeOK
<1>1. TypeInv => TypeOK
  BY DEF TypeInv
<1> QED
  BY <1>1, Invariance, PTL

\* claim_next never lets two rows of one client run, for any number of workers.
THEOREM OneRunningRow == Spec => []OneRunningRowPerClient
<1>1. ClaimSafe => OneRunningRowPerClient
  BY DEF ClaimSafe
<1> QED
  BY <1>1, Invariance, PTL

\* fail and reclaim_stale dead-letter a row only after max_attempts claims of it.
THEOREM DeadLetter == Spec => []DeadOnlyAfterMaxAttempts
<1>1. RowSafe => DeadOnlyAfterMaxAttempts
  BY DEF RowSafe
<1> QED
  BY <1>1, Invariance, PTL

\* A running row is visible to reclaim_stale unless a fail or reclaim wrote from an
\* outdated copy of a row of its client.
THEOREM Reclaimable == Spec => []RunningIsReclaimable
<1>1. RowSafe => RunningIsReclaimable
  BY DEF RowSafe, LockInv, RunningIsReclaimable
<1> QED
  BY <1>1, Invariance, PTL

\* A committed change that no row is left to build was overtaken: by an enqueue that merged
\* into a row already claimed, or by the succeed of a worker that had lost its claim.
THEOREM LostOvertaken == Spec => []LostOnlyWhenOvertaken
<1>1. WorkInv => LostOnlyWhenOvertaken
  BY DEF WorkInv
<1> QED
  BY <1>1, Invariance, PTL

\* Rows start to run only from queued, and only when nothing of their client runs.
THEOREM ClaimsFromQueued == Spec => ClaimsOnlyQueued
<1> DEFINE Claims == \A j \in Jobs : status[j] # "running" /\ status'[j] = "running" =>
                        status[j] = "queued" /\ client_id[j] \notin RunningClients
<1>1. TypeInv /\ ClaimSafe /\ [Next]_vars => [Claims]_vars
  <2> SUFFICES ASSUME TypeInv, ClaimSafe, [Next]_vars PROVE [Claims]_vars
    OBVIOUS
  <2> USE DEF TypeInv, TypeOK, jobVars, lockVars, workerVars, reqVars
  <2>1. ASSUME NEW w \in Workers, ClaimCommit(w) PROVE Claims
    BY <2>1 DEF ClaimCommit, ClaimSafe, ClaimInv, WithCandidate
  <2>2. ASSUME \A j \in Jobs : status'[j] = "running" => status[j] = "running" PROVE Claims
    BY <2>2
  <2>3. ASSUME NEW w \in Workers, ReclaimWrite(w) \/ Fail(w) PROVE Claims
    BY <2>3, <2>2, GiveBackSafe DEF ReclaimWrite, Fail
  <2>4. ASSUME NEW r \in Requests, NEW j \in Jobs, EnqueueInsert(r, j) PROVE Claims
    BY <2>4 DEF EnqueueInsert
  <2>5. ASSUME NEW w \in Workers, Succeed(w) PROVE Claims
    BY <2>5 DEF Succeed
  <2>6. ASSUME UNCHANGED status PROVE Claims
    BY <2>6
  <2>7. ASSUME NEW r \in Requests, NEW c \in Clients, NEW kind \in Kinds, NEW debounce \in BOOLEAN,
               EnqueueRead(r, c, kind, debounce)
        PROVE  Claims
    BY <2>7, <2>6 DEF EnqueueRead
  <2>8. ASSUME NEW w \in Workers,
               \/ Poll(w) \/ ReclaimLoad(w) \/ SelectCandidate(w) \/ NoCandidate(w) \/ AdvisoryLock(w)
               \/ RecheckFree(w) \/ RecheckBusy(w) \/ StartBuild(w) \/ BuildCommit(w) \/ BuildFail(w)
               \/ Crash(w) \/ ClaimError(w)
        PROVE  Claims
    BY <2>8, <2>6 DEF Poll, ReclaimLoad, SelectCandidate, NoCandidate, AdvisoryLock, RecheckFree,
                      RecheckBusy, StartBuild, BuildCommit, BuildFail, Crash, ClaimError
  <2>9. ASSUME NEW j \in Jobs, BecomeDue(j) \/ BecomeStale(j) PROVE Claims
    BY <2>9, <2>6 DEF BecomeDue, BecomeStale
  <2>10. ASSUME NEW r \in Requests, EnqueueCoalesce(r) PROVE Claims
    BY <2>10, <2>6 DEF EnqueueCoalesce
  <2> HIDE DEF TypeInv, TypeOK, jobVars, lockVars, workerVars, reqVars, Claims
  <2> QED
    BY <2>1, <2>3, <2>4, <2>5, <2>7, <2>8, <2>9, <2>10 DEF Next, WorkerStep
<1> QED
  BY <1>1, Invariance, PTL DEF Spec, ClaimsOnlyQueued

HIDE DEF Jobs, NoJob, Kinds

-----------------------------------------------------------------------------
(* The first of some natural numbers *)

\* Min (FiniteSetsExt) of any set of natural numbers that is not empty.
LEMMA FirstOfNaturals ==
    ASSUME NEW S \in SUBSET Nat, S # {}
    PROVE  Min(S) \in S /\ \A x \in S : Min(S) <= x
<1>1. PICK top \in S : TRUE
  OBVIOUS
<1> DEFINE Below == {i \in 0 .. top : \A x \in S : i < x}
           n     == Cardinality(Below)
<1>2. \A i \in 0 .. top : IsFiniteSet(0 .. i) /\ Cardinality(0 .. i) = i + 1
  BY FS_Interval
<1>3. IsFiniteSet(0 .. top) /\ Below \in SUBSET (0 .. top)
  BY <1>2
<1>4. IsFiniteSet(Below) /\ n \in Nat
  BY <1>3, FS_Subset, FS_CardinalityType
<1>5. ASSUME NEW i \in Below PROVE i < n
  <2>1. (0 .. i) \in SUBSET Below /\ i \in 0 .. top
    OBVIOUS
  <2>2. Cardinality(0 .. i) <= n
    BY <1>4, <2>1, FS_Subset
  <2> QED
    BY <1>2, <1>4, <2>1, <2>2
<1>6. Below = 0 .. (n - 1)
  <2> HIDE DEF n
  <2>1. Below \in SUBSET (0 .. (n - 1))
    BY <1>3, <1>4, <1>5
  <2>2. IsFiniteSet(0 .. (n - 1)) /\ Cardinality(0 .. (n - 1)) = n
    BY <1>4, FS_Interval
  <2> QED
    BY <2>1, <2>2, FS_Subset DEF n
<1> HIDE DEF n
<1>7. n <= top
  <2>1. top \notin Below
    BY <1>1
  <2>2. top \in Nat
    OBVIOUS
  <2>3. top \notin 0 .. (n - 1)
    BY <1>6, <2>1
  <2> QED
    BY <1>4, <2>2, <2>3
<1>8. n \notin Below
  BY <1>4, <1>6
<1>9. PICK x \in S : x <= n
  BY <1>1, <1>4, <1>7, <1>8
<1>10. \A y \in S : n <= y
  <2>1. CASE n = 0
    BY <2>1
  <2>2. CASE n # 0
    BY <1>4, <1>6, <2>2
  <2> QED
    BY <2>1, <2>2
<1>11. n \in S
  BY <1>4, <1>9, <1>10
<1> QED
  BY <1>10, <1>11 DEF Min

-----------------------------------------------------------------------------
(* The limiter: what a bucket holds of the attempts that were let in *)

\* A bucket holds the last of them, in order; those it dropped are out of the window.
Counts(bucket, times, now) ==
    /\ bucket \in Seq(Nat) /\ times \in Seq(Nat)
    /\ Len(bucket) <= Len(times) /\ Len(bucket) <= Times
    /\ \A i \in 1 .. Len(bucket) : bucket[i] = times[Len(times) - Len(bucket) + i]
    /\ \A i \in 1 .. Len(times) : /\ times[i] <= now
                                  /\ i <= Len(times) - Len(bucket) => times[i] + Window <= now
                                  /\ \A j \in i .. Len(times) : times[i] <= times[j]

Spaced(times) ==
    \A i \in 1 .. Len(times) : i + Times <= Len(times) => times[i + Times] >= times[i] + Window

BucketsInv == \A s \in Stores, k \in Accounts : /\ Counts(hits[s][k], tried[s][k], clock)
                                                /\ Spaced(tried[s][k])

LEMMA Limits == Times \in Nat \ {0} /\ Window \in Nat \ {0} /\ MaxKeys \in Nat \ {0}
                /\ Lifetime \in Nat \ {0} /\ BucketTTL \in Nat /\ Window <= BucketTTL
                /\ SweepEvery \in Nat /\ MaxClock \in Nat /\ Clock \subseteq Nat
BY LimitsAssumption DEF Clock

LEMMA NothingCounted == ASSUME NEW now \in Nat PROVE Counts(<<>>, <<>>, now) /\ Spaced(<<>>)
BY Limits DEF Counts, Spaced

LEMMA TimePasses ==
    ASSUME NEW bucket, NEW times, NEW now \in Nat, Counts(bucket, times, now)
    PROVE  Counts(bucket, times, now + 1)
<1>1. \A i \in 1 .. Len(times) : times[i] \in Nat
  BY DEF Counts
<1> QED
  BY <1>1, Limits DEF Counts

LEMMA NoneCounts ==
    ASSUME NEW bucket, NEW times, clock \in Nat, Counts(bucket, times, clock),
           \A i \in 1 .. Len(times) : times[i] + Window <= clock
    PROVE  Counts(<<>>, times, clock)
<1>1. <<>> \in Seq(Nat) /\ Len(<<>>) = 0 /\ Times \in Nat
  BY Limits
<1>2. times \in Seq(Nat) /\ Len(times) \in Nat
  BY DEF Counts
<1>3. \A i \in 1 .. Len(times) : times[i] <= clock /\ \A j \in i .. Len(times) : times[i] <= times[j]
  BY DEF Counts
<1> DEFINE none == <<>>
<1>4. none \in Seq(Nat) /\ Len(none) = 0
  BY <1>1
<1> HIDE DEF none
<1>5. Counts(none, times, clock)
  BY <1>1, <1>2, <1>3, <1>4 DEF Counts
<1> QED
  BY <1>5 DEF none

\* The sweep drops no bucket that counts: its newest hit is out of the window, and so are all.
LEMMA StaleIsSpent ==
    ASSUME NEW bucket, NEW times, clock \in Nat, Counts(bucket, times, clock), Stale(bucket)
    PROVE  Counts(<<>>, times, clock)
<1> DEFINE n == Len(bucket)
           m == Len(times)
<1>1. n \in Nat \ {0} /\ m \in Nat /\ n <= m /\ times \in Seq(Nat) /\ bucket \in Seq(Nat)
  BY DEF Counts, Stale
<1>2. bucket[n] = times[m] /\ times[m] \in Nat
  BY <1>1 DEF Counts
<1>3. times[m] + Window <= clock
  BY <1>2, Limits DEF Stale, Last
<1>4. \A i \in 1 .. m : times[i] \in Nat /\ times[i] <= times[m]
  BY <1>1 DEF Counts
<1>5. \A i \in 1 .. m : times[i] + Window <= clock
  BY <1>3, <1>4, <1>2, Limits
<1> QED
  BY <1>5, NoneCounts

\* Popping what is out of the window leaves what counts.
LEMMA PoppedIsSpent ==
    ASSUME NEW bucket, NEW times, clock \in Nat, Counts(bucket, times, clock)
    PROVE  Counts(InWindow(bucket), times, clock)
<1> DEFINE live == {i \in DOMAIN bucket : bucket[i] + Window > clock}
           n == Len(bucket)
           m == Len(times)
<1>1. /\ n \in Nat /\ m \in Nat /\ n <= m /\ times \in Seq(Nat) /\ bucket \in Seq(Nat)
      /\ DOMAIN bucket = 1 .. n /\ n <= Times
      /\ \A i \in 1 .. n : bucket[i] \in Nat
      /\ \A i \in 1 .. m : times[i] \in Nat
  BY DEF Counts
<1>2. \A i \in 1 .. n : bucket[i] = times[m - n + i]
  BY <1>1 DEF Counts
<1>3. \A i \in 1 .. m : /\ times[i] <= clock
                        /\ i <= m - n => times[i] + Window <= clock
                        /\ \A j \in i .. m : times[i] <= times[j]
  BY <1>1 DEF Counts
<1>0. \A i : i \in live <=> i \in 1 .. n /\ ~(bucket[i] + Window <= clock)
  BY <1>1, Limits
<1>00. InWindow(bucket) = IF live = {} THEN <<>> ELSE SubSeq(bucket, Min(live), n)
  BY DEF InWindow
<1> HIDE DEF live
<1>4. CASE live = {}
  <2>1. \A i \in 1 .. n : bucket[i] + Window <= clock
    BY <1>0, <1>4
  <2>2. ASSUME NEW i \in 1 .. m PROVE times[i] + Window <= clock
    <3>1. CASE i <= m - n
      BY <1>3, <3>1
    <3>2. CASE i > m - n
      <4>1. i - (m - n) \in 1 .. n /\ m - n + (i - (m - n)) = i
        BY <1>1, <3>2
      <4> QED
        BY <1>2, <2>1, <4>1
    <3> QED
      BY <1>1, <3>1, <3>2
  <2>3. InWindow(bucket) = <<>>
    BY <1>00, <1>4
  <2> QED
    BY <2>2, <2>3, NoneCounts
<1>5. CASE live # {}
  <2> DEFINE first == Min(live)
             rest  == SubSeq(bucket, first, n)
  <2>0. live \in SUBSET Nat
    BY <1>0, <1>1
  <2>1. first \in live /\ \A i \in live : first <= i
    BY <1>5, <2>0, FirstOfNaturals
  <2>3. InWindow(bucket) = rest
    BY <1>00, <1>5
  <2> HIDE DEF first
  <2>2. first \in 1 .. n /\ \A i \in 1 .. first - 1 : bucket[i] + Window <= clock
    <3>1. first \in 1 .. n
      BY <1>0, <2>1
    <3>2. \A i \in 1 .. first - 1 : i \in 1 .. n /\ ~(first <= i)
      BY <1>1, <3>1
    <3> QED
      BY <1>0, <2>1, <3>1, <3>2
  <2>4. /\ rest \in Seq(Nat) /\ Len(rest) = n - first + 1
        /\ \A i \in 1 .. n - first + 1 : rest[i] = bucket[first + i - 1]
    BY <1>1, <2>2
  <2>5. \A i \in 1 .. n - first + 1 : rest[i] = times[m - (n - first + 1) + i]
    <3> TAKE i \in 1 .. n - first + 1
    <3>1. first + i - 1 \in 1 .. n /\ m - n + (first + i - 1) = m - (n - first + 1) + i
      BY <1>1, <2>2
    <3> QED
      BY <1>2, <2>4, <3>1
  <2>6. ASSUME NEW i \in 1 .. m, i <= m - (n - first + 1) PROVE times[i] + Window <= clock
    <3>1. CASE i <= m - n
      BY <1>3, <3>1
    <3>2. CASE i > m - n
      <4>1. i - (m - n) \in 1 .. first - 1 /\ i - (m - n) \in 1 .. n
            /\ m - n + (i - (m - n)) = i
        BY <1>1, <2>2, <2>6, <3>2
      <4> QED
        BY <1>2, <2>2, <4>1
    <3> QED
      BY <1>1, <3>1, <3>2
  <2> HIDE DEF rest
  <2>7. Len(rest) <= m /\ Len(rest) <= Times
    <3>1. Len(rest) <= n
      BY <1>1, <2>2, <2>4
    <3> QED
      BY <1>1, <2>4, <3>1, Limits
  <2>8. Counts(rest, times, clock)
    BY <1>1, <1>3, <2>4, <2>5, <2>6, <2>7 DEF Counts
  <2> QED
    BY <2>3, <2>8
<1> QED
  BY <1>4, <1>5

\* One more fits where fewer than Times count: the one Times before it is out of the window.
LEMMA OneMore ==
    ASSUME NEW bucket, NEW times, clock \in Nat, Counts(bucket, times, clock), Spaced(times),
           Len(bucket) < Times
    PROVE  Counts(Append(bucket, clock), Append(times, clock), clock)
           /\ Spaced(Append(times, clock))
<1> DEFINE n == Len(bucket)
           m == Len(times)
           more == Append(times, clock)
           kept == Append(bucket, clock)
<1>1. /\ n \in Nat /\ m \in Nat /\ n <= m /\ times \in Seq(Nat) /\ bucket \in Seq(Nat)
      /\ n < Times /\ Times \in Nat /\ Window \in Nat
      /\ \A i \in 1 .. m : times[i] \in Nat
  BY Limits DEF Counts
<1>11. m \in Nat /\ Times \in Nat
  BY <1>1
<1>2. \A i \in 1 .. n : bucket[i] = times[m - n + i]
  BY <1>1 DEF Counts
<1>3. \A i \in 1 .. m : /\ times[i] <= clock
                        /\ i <= m - n => times[i] + Window <= clock
                        /\ \A j \in i .. m : times[i] <= times[j]
  BY <1>1 DEF Counts
<1>4. /\ more \in Seq(Nat) /\ Len(more) = m + 1 /\ more[m + 1] = clock
      /\ \A i \in 1 .. m : more[i] = times[i]
  BY <1>1
<1>5. /\ kept \in Seq(Nat) /\ Len(kept) = n + 1 /\ kept[n + 1] = clock
      /\ \A i \in 1 .. n : kept[i] = bucket[i]
  BY <1>1
<1> HIDE DEF more, kept
<1>6. \A i \in 1 .. n + 1 : kept[i] = more[(m + 1) - (n + 1) + i]
  <2> TAKE i \in 1 .. n + 1
  <2>1. CASE i = n + 1
    BY <1>1, <1>4, <1>5, <2>1
  <2>2. CASE i # n + 1
    <3>1. i \in 1 .. n /\ m - n + i \in 1 .. m /\ (m + 1) - (n + 1) + i = m - n + i
      BY <1>1, <2>2
    <3> QED
      BY <1>2, <1>4, <1>5, <3>1
  <2> QED
    BY <2>1, <2>2
<1>7. ASSUME NEW i \in 1 .. m + 1
      PROVE  /\ more[i] <= clock
             /\ i <= (m + 1) - (n + 1) => more[i] + Window <= clock
             /\ \A j \in i .. m + 1 : more[i] <= more[j]
  <2>1. CASE i = m + 1
    BY <1>1, <1>4, <2>1
  <2>2. CASE i # m + 1
    <3>1. i \in 1 .. m /\ more[i] = times[i]
      BY <1>1, <1>4, <2>2
    <3>2. ASSUME NEW j \in i .. m + 1 PROVE more[i] <= more[j]
      <4>1. CASE j = m + 1
        BY <1>3, <1>4, <3>1, <4>1
      <4>2. CASE j # m + 1
        <5> HIDE DEF m
        <5>1. j \in i .. m /\ j \in 1 .. m
          BY <1>11, <3>1, <4>2
        <5> QED
          BY <1>3, <1>4, <3>1, <5>1
      <4> QED
        BY <4>1, <4>2
    <3> QED
      BY <1>1, <1>3, <3>1, <3>2
  <2> QED
    BY <2>1, <2>2
<1>8. Counts(kept, more, clock)
  BY <1>1, <1>4, <1>5, <1>6, <1>7 DEF Counts
<1>9. ASSUME NEW i \in 1 .. m + 1, i + Times <= m + 1 PROVE more[i + Times] >= more[i] + Window
  <2>1. i \in 1 .. m /\ more[i] = times[i]
    <3>1. i \in 1 .. m
      <4> HIDE DEF m
      <4> QED
        BY <1>9, <1>11, Limits
    <3> QED
      BY <1>4, <3>1
  <2>2. CASE i + Times = m + 1
    <3>1. i <= m - n
      BY <1>1, <2>2
    <3> QED
      BY <1>1, <1>3, <1>4, <2>1, <2>2, <3>1
  <2>3. CASE i + Times # m + 1
    <3> HIDE DEF m
    <3>1. i + Times \in 1 .. m /\ i + Times <= m
      BY <1>11, <1>9, <2>1, <2>3
    <3>2. times[i + Times] >= times[i] + Window
      BY <2>1, <3>1 DEF Spaced, m
    <3> QED
      BY <1>4, <2>1, <3>1, <3>2
  <2> QED
    BY <2>2, <2>3
<1> QED
  BY <1>4, <1>8, <1>9 DEF Spaced, more, kept

-----------------------------------------------------------------------------
(* The limiter: its steps *)

BucketOf(s, k) == Counts(hits[s][k], tried[s][k], clock) /\ Spaced(tried[s][k])

LEMMA AccessTypes ==
    AccessTypeOK =>
        /\ clock \in Nat
        /\ hits \in [Stores -> [Accounts -> Seq(Clock)]]
        /\ tried \in [Stores -> [Accounts -> Seq(Clock)]]
BY Limits DEF AccessTypeOK

\* What is left of the buckets of a store when a sweep is due.
LEMMA PrunedCounts ==
    ASSUME AccessTypeOK, BucketsInv, NEW s \in Stores
    PROVE  /\ Pruned(s) \in [Accounts -> Seq(Clock)]
           /\ \A k \in Accounts : Counts(Pruned(s)[k], tried[s][k], clock)
<1>1. hits[s] \in [Accounts -> Seq(Clock)] /\ clock \in Nat
  BY AccessTypes
<1>2. CASE ~SweepDue(s)
  BY <1>1, <1>2 DEF Pruned, BucketsInv
<1>3. CASE SweepDue(s)
  <2>1. Pruned(s) = [k \in Accounts |-> IF Stale(hits[s][k]) THEN <<>> ELSE hits[s][k]]
    BY <1>3 DEF Pruned
  <2>2. \A k \in Accounts : <<>> \in Seq(Clock) /\ hits[s][k] \in Seq(Clock)
    BY <1>1
  <2>3. \A k \in Accounts : Counts(hits[s][k], tried[s][k], clock)
    BY DEF BucketsInv
  <2>4. \A k \in Accounts : Stale(hits[s][k]) => Counts(<<>>, tried[s][k], clock)
    BY <1>1, <2>3, StaleIsSpent
  <2> QED
    BY <2>1, <2>2, <2>3, <2>4
<1> QED
  BY <1>2, <1>3

LEMMA InWindowTypes ==
    ASSUME NEW bucket \in Seq(Clock) PROVE InWindow(bucket) \in Seq(Clock)
<1> DEFINE live == {i \in DOMAIN bucket : bucket[i] + Window > clock}
<1>1. DOMAIN bucket = 1 .. Len(bucket) /\ Len(bucket) \in Nat
  OBVIOUS
<1>2. CASE live = {}
  <2>1. InWindow(bucket) = <<>>
    BY <1>2 DEF InWindow
  <2> QED
    BY <2>1
<1>3. CASE live # {}
  <2>1. InWindow(bucket) = SubSeq(bucket, Min(live), Len(bucket))
    BY <1>3 DEF InWindow
  <2>2. live \in SUBSET Nat /\ live \subseteq 1 .. Len(bucket)
    BY <1>1
  <2> HIDE DEF live
  <2>3. Min(live) \in 1 .. Len(bucket)
    BY <1>3, <2>2, FirstOfNaturals
  <2> QED
    BY <1>1, <2>1, <2>3
<1> QED
  BY <1>2, <1>3

\* What one step leaves of one bucket.
StillCounts(s, k) == Counts(hits'[s][k], tried'[s][k], clock) /\ Spaced(tried'[s][k])

LEMMA AdmitCounts ==
    ASSUME AccessTypeOK, BucketsInv, NEW s \in Stores, NEW account \in Accounts, Admit(s, account)
    PROVE  /\ hits' \in [Stores -> [Accounts -> Seq(Clock)]]
           /\ tried' \in [Stores -> [Accounts -> Seq(Clock)]]
           /\ \A r \in Stores, k \in Accounts : StillCounts(r, k)
<1> DEFINE bucket == InWindow(Pruned(s)[account])
           full   == [Pruned(s) EXCEPT ![account] = Append(bucket, clock)]
           more   == [tried[s] EXCEPT ![account] = Append(tried[s][account], clock)]
<1>1. PICK out : /\ hits'  = [hits EXCEPT ![s] = Without(full, out)]
                 /\ tried' = [tried EXCEPT ![s] = Without(more, out)]
  BY DEF Admit
<1>2. Len(bucket) < Times
  BY DEF Admit
<1>3. /\ clock \in Nat /\ clock \in Clock
      /\ hits \in [Stores -> [Accounts -> Seq(Clock)]] /\ tried \in [Stores -> [Accounts -> Seq(Clock)]]
  BY AccessTypes DEF AccessTypeOK
<1>4. /\ Pruned(s) \in [Accounts -> Seq(Clock)]
      /\ \A k \in Accounts : Counts(Pruned(s)[k], tried[s][k], clock)
  BY PrunedCounts
<1>5. bucket \in Seq(Clock) /\ Counts(bucket, tried[s][account], clock)
  BY <1>3, <1>4, InWindowTypes, PoppedIsSpent
<1>6. Spaced(tried[s][account])
  BY DEF BucketsInv
<1> HIDE DEF bucket
<1>70. /\ Append(bucket, clock) \in Seq(Clock) /\ Append(tried[s][account], clock) \in Seq(Clock)
  BY <1>3, <1>5
<1>7. /\ Counts(Append(bucket, clock), Append(tried[s][account], clock), clock)
      /\ Spaced(Append(tried[s][account], clock))
  BY <1>2, <1>3, <1>5, <1>6, OneMore
<1>8. ASSUME NEW k \in Accounts
      PROVE  /\ full[k] \in Seq(Clock) /\ more[k] \in Seq(Clock)
             /\ Counts(full[k], more[k], clock) /\ Spaced(more[k])
  <2>1. CASE k = account
    BY <1>3, <1>4, <1>7, <1>70, <2>1
  <2>2. CASE k # account
    <3>1. full[k] = Pruned(s)[k] /\ more[k] = tried[s][k]
      BY <1>3, <1>4, <2>2
    <3>2. Pruned(s)[k] \in Seq(Clock) /\ tried[s][k] \in Seq(Clock) /\ Spaced(tried[s][k])
      BY <1>3, <1>4 DEF BucketsInv
    <3> QED
      BY <1>4, <3>1, <3>2
  <2> QED
    BY <2>1, <2>2
<1> HIDE DEF full, more
<1>9. <<>> \in Seq(Clock) /\ Counts(<<>>, <<>>, clock) /\ Spaced(<<>>)
  BY <1>3, NothingCounted
<1>10. ASSUME NEW k \in Accounts
       PROVE  /\ Without(full, out)[k] \in Seq(Clock) /\ Without(more, out)[k] \in Seq(Clock)
              /\ Counts(Without(full, out)[k], Without(more, out)[k], clock)
              /\ Spaced(Without(more, out)[k])
  BY <1>8, <1>9 DEF Without
<1>11. /\ Without(full, out) \in [Accounts -> Seq(Clock)]
       /\ Without(more, out) \in [Accounts -> Seq(Clock)]
  BY <1>10 DEF Without
<1>12. hits'[s] = Without(full, out) /\ tried'[s] = Without(more, out)
  BY <1>1, <1>3
<1>13. \A r \in Stores \ {s} : hits'[r] = hits[r] /\ tried'[r] = tried[r]
  BY <1>1, <1>3
<1>14. \A r \in Stores, k \in Accounts : StillCounts(r, k)
  BY <1>10, <1>12, <1>13 DEF StillCounts, BucketsInv
<1> QED
  BY <1>1, <1>3, <1>11, <1>14

LEMMA RefuseCounts ==
    ASSUME AccessTypeOK, BucketsInv, NEW s \in Stores, NEW account \in Accounts, Refuse(s, account)
    PROVE  /\ hits' \in [Stores -> [Accounts -> Seq(Clock)]] /\ tried' = tried
           /\ \A r \in Stores, k \in Accounts : StillCounts(r, k)
<1> DEFINE bucket == InWindow(Pruned(s)[account])
<1>1. hits' = [hits EXCEPT ![s] = [Pruned(s) EXCEPT ![account] = bucket]] /\ tried' = tried
  BY DEF Refuse
<1>2. clock \in Nat /\ hits \in [Stores -> [Accounts -> Seq(Clock)]]
  BY AccessTypes
<1>3. /\ Pruned(s) \in [Accounts -> Seq(Clock)]
      /\ \A k \in Accounts : Counts(Pruned(s)[k], tried[s][k], clock)
  BY PrunedCounts
<1>4. bucket \in Seq(Clock) /\ Counts(bucket, tried[s][account], clock)
  BY <1>2, <1>3, InWindowTypes, PoppedIsSpent
<1> HIDE DEF bucket
<1>5. /\ hits' \in [Stores -> [Accounts -> Seq(Clock)]]
      /\ hits'[s] = [Pruned(s) EXCEPT ![account] = bucket]
      /\ \A r \in Stores \ {s} : hits'[r] = hits[r]
  BY <1>1, <1>2, <1>3, <1>4
<1>6. \A k \in Accounts : hits'[s][k] = IF k = account THEN bucket ELSE Pruned(s)[k]
  BY <1>3, <1>5
<1> QED
  BY <1>1, <1>3, <1>4, <1>5, <1>6 DEF StillCounts, BucketsInv

LEMMA ForgetCounts ==
    ASSUME AccessTypeOK, BucketsInv, NEW s \in Stores, NEW account \in Accounts, Forget(s, account)
    PROVE  /\ hits' \in [Stores -> [Accounts -> Seq(Clock)]]
           /\ tried' \in [Stores -> [Accounts -> Seq(Clock)]]
           /\ \A r \in Stores, k \in Accounts : StillCounts(r, k)
<1>1. /\ hits'  = [hits EXCEPT ![s][account] = <<>>]
      /\ tried' = [tried EXCEPT ![s][account] = <<>>]
  BY DEF Forget
<1>2. /\ clock \in Nat /\ hits \in [Stores -> [Accounts -> Seq(Clock)]]
      /\ tried \in [Stores -> [Accounts -> Seq(Clock)]]
  BY AccessTypes
<1>3. <<>> \in Seq(Clock) /\ Counts(<<>>, <<>>, clock) /\ Spaced(<<>>)
  BY <1>2, NothingCounted
<1>4. /\ hits' \in [Stores -> [Accounts -> Seq(Clock)]]
      /\ tried' \in [Stores -> [Accounts -> Seq(Clock)]]
  BY <1>1, <1>2, <1>3
<1>5. \A r \in Stores, k \in Accounts :
         \/ hits'[r][k] = hits[r][k] /\ tried'[r][k] = tried[r][k]
         \/ hits'[r][k] = <<>> /\ tried'[r][k] = <<>>
  BY <1>1, <1>2
<1> QED
  BY <1>3, <1>4, <1>5 DEF StillCounts, BucketsInv

-----------------------------------------------------------------------------
(* Sign-ins and the requests they let in *)

\* A login under way has an account, and a store that counted it or was out of reach.
ReadyInv == \A l \in Logins : login[l].pc \in {"verify", "mint", "done"}
                                => login[l].account \in Accounts /\ login[l].store \in Stores

\* A request let in holds the token of a login that is over, and changes nothing before it is.
HeldInv == \A c \in Calls :
    /\ call[c].pc \in {"handle", "record"} \/ call[c].changed
         => call[c].token \in Logins /\ login[call[c].token].pc = "done"
    /\ call[c].pc \in {"idle", "handle"} => ~call[c].changed

AccessInv == AccessTypeOK /\ BucketsInv /\ ReadyInv /\ HeldInv /\ ChangesAreAccounted

LoginPCs  == {"idle", "verify", "mint", "done", "refused"}
CallPCs   == {"idle", "handle", "record", "over", "lost"}
LoginRows == [pc : LoginPCs, at : Clock, account : Accounts \cup {NoOne}, store : Stores \cup {NoOne}]
CallRows  == [pc : CallPCs, token : Logins \cup {NoOne}, changed : BOOLEAN]

LEMMA AccessRows ==
    AccessTypeOK <=>
        /\ clock \in Clock /\ backend \in {"memory", "redis"}
        /\ hits \in [Stores -> [Accounts -> Seq(Clock)]] /\ swept \in [Stores -> Clock]
        /\ tried \in [Stores -> [Accounts -> Seq(Clock)]]
        /\ active \in [Accounts -> BOOLEAN]
        /\ login \in [Logins -> LoginRows]
        /\ signed \subseteq Logins
        /\ call \in [Calls -> CallRows]
        /\ entry \in [Calls -> Accounts \cup {NoOne, "none"}]
BY DEF AccessTypeOK, LoginRows, CallRows, LoginPCs, CallPCs

LEMMA AccessInitInv == AccessInit => AccessInv
<1> SUFFICES ASSUME AccessInit PROVE AccessInv
  OBVIOUS
<1>0. 0 \in Clock /\ 0 \in Nat /\ <<>> \in Seq(Clock)
  BY Limits DEF Clock
<1>1. NoLogin \in LoginRows /\ NoCall \in CallRows
  BY <1>0 DEF NoLogin, NoCall, LoginRows, CallRows, LoginPCs, CallPCs
<1>2. AccessTypeOK
  BY <1>0, <1>1, AccessRows DEF AccessInit
<1>3. BucketsInv
  BY <1>0, NothingCounted DEF AccessInit, BucketsInv
<1>4. ReadyInv /\ HeldInv /\ ChangesAreAccounted
  BY DEF AccessInit, ReadyInv, HeldInv, ChangesAreAccounted, NoLogin, NoCall
<1> QED
  BY <1>2, <1>3, <1>4 DEF AccessInv

\* A step of the limiter at one time.
LEMMA BucketsStep ==
    ASSUME \A r \in Stores, k \in Accounts : StillCounts(r, k), clock' = clock
    PROVE  BucketsInv'
<1> SUFFICES ASSUME NEW s \in Stores, NEW k \in Accounts
             PROVE  /\ Counts(hits'[s][k], tried'[s][k], clock')
                    /\ Spaced(tried'[s][k])
  BY DEF BucketsInv, Counts, Spaced
<1> QED
  BY DEF StillCounts

\* A step that leaves the buckets and the clock alone leaves them as they were.
LEMMA BucketsStay ==
    ASSUME BucketsInv, UNCHANGED <<clock, hits, tried>> PROVE BucketsInv'
<1>1. \A s \in Stores, k \in Accounts : StillCounts(s, k)
  BY DEF BucketsInv, StillCounts
<1> QED
  BY <1>1, BucketsStep

\* What was audited stands: the logins that are over stay as they are, no row comes back, and a
\* token that expired stays so.
LEMMA AccountsStay ==
    ASSUME AccessTypeOK, HeldInv, ChangesAreAccounted, UNCHANGED callVars,
           \A l \in Logins : login[l].pc = "done" => login'[l] = login[l],
           \A l \in Logins : login[l].pc = "done" /\ l \in signed' => l \in signed,
           clock' \in Nat, clock' >= clock
    PROVE  HeldInv' /\ ChangesAreAccounted'
<1>1. call' = call /\ entry' = entry
  BY DEF callVars
<1>2. HeldInv'
  BY <1>1 DEF HeldInv
<1>3. ASSUME NEW c \in Calls, call[c].changed, call[c].pc = "over"
      PROVE  LET l == call[c].token
             IN  \/ entry[c] = login'[l].account
                 \/ entry[c] = NoOne /\ (l \notin signed' \/ Expired(l)')
  <2>0. PICK l : l = call[c].token
    OBVIOUS
  <2>1. l \in Logins /\ login[l].pc = "done"
    BY <1>3, <2>0 DEF HeldInv
  <2>2. login'[l] = login[l] /\ (l \in signed' => l \in signed)
    BY <2>1
  <2>3. \/ entry[c] = login[l].account
        \/ entry[c] = NoOne /\ (l \notin signed \/ Expired(l))
    BY <1>3, <2>0 DEF ChangesAreAccounted
  <2>4. login[l].at \in Nat /\ clock \in Nat /\ Lifetime \in Nat
    BY <2>1, AccessRows, Limits DEF LoginRows
  <2>5. login[l].at + Lifetime <= clock => login[l].at + Lifetime <= clock'
    BY <2>4
  <2>6. Expired(l) => Expired(l)'
    BY <2>2, <2>5 DEF Expired
  <2> QED
    BY <1>1, <2>0, <2>2, <2>3, <2>6 DEF Expired
<1>4. ChangesAreAccounted'
  BY <1>1, <1>3 DEF ChangesAreAccounted
<1> QED
  BY <1>2, <1>4

\* A request that moves: its columns, and the others as they were.
LEMMA Moving ==
    ASSUME AccessTypeOK, NEW c \in Calls, NEW changes, Goes(c, changes),
           "pc" \in DOMAIN changes, changes["pc"] \in CallPCs,
           "token" \in DOMAIN changes => changes["token"] \in Logins,
           "changed" \in DOMAIN changes => changes["changed"] \in BOOLEAN
    PROVE  /\ call' \in [Calls -> CallRows]
           /\ \A o \in Calls \ {c} : call'[o] = call[o]
           /\ call'[c].pc = changes["pc"]
           /\ call'[c].token = IF "token" \in DOMAIN changes THEN changes["token"] ELSE call[c].token
           /\ call'[c].changed = IF "changed" \in DOMAIN changes THEN changes["changed"]
                                 ELSE call[c].changed
<1>1. call \in [Calls -> CallRows]
  BY AccessRows
<1>2. DOMAIN call[c] = {"pc", "token", "changed"}
  BY <1>1 DEF CallRows
<1> DEFINE row == [f \in {"pc", "token", "changed"} |->
                      IF f \in DOMAIN changes THEN changes[f] ELSE call[c][f]]
<1>3. call' = [call EXCEPT ![c] = row]
  BY <1>2 DEF Goes
<1>4. /\ call[c]["pc"] \in CallPCs /\ call[c]["token"] \in Logins \cup {NoOne}
      /\ call[c]["changed"] \in BOOLEAN
  BY <1>1 DEF CallRows
<1>5. row["pc"] \in CallPCs /\ row["token"] \in Logins \cup {NoOne} /\ row["changed"] \in BOOLEAN
  BY <1>4
<1>6. row \in CallRows
  <2>1. row = [f \in {"pc", "token", "changed"} |-> row[f]]
    OBVIOUS
  <2> HIDE DEF row
  <2> QED
    BY <1>5, <2>1 DEF CallRows
<1>7. /\ row.pc = changes["pc"]
      /\ row.token = IF "token" \in DOMAIN changes THEN changes["token"] ELSE call[c].token
      /\ row.changed = IF "changed" \in DOMAIN changes THEN changes["changed"] ELSE call[c].changed
  OBVIOUS
<1> HIDE DEF row
<1> QED
  BY <1>1, <1>3, <1>6, <1>7

\* A step of one request: the others are accounted for as before.
LEMMA OneCall ==
    ASSUME AccessInv, NEW c \in Calls, call' \in [Calls -> CallRows],
           entry' \in [Calls -> Accounts \cup {NoOne, "none"}],
           \A o \in Calls \ {c} : call'[o] = call[o] /\ entry'[o] = entry[o],
           call'[c].pc \in {"handle", "record"} \/ call'[c].changed
             => call'[c].token \in Logins /\ login[call'[c].token].pc = "done",
           call'[c].pc \in {"idle", "handle"} => ~call'[c].changed,
           call'[c].changed /\ call'[c].pc = "over"
             => \/ entry'[c] = login[call'[c].token].account
                \/ entry'[c] = NoOne /\ (call'[c].token \notin signed' \/ Expired(call'[c].token)),
           signed' \subseteq signed,
           UNCHANGED <<clock, backend, limitVars, active, login>>
    PROVE  AccessInv'
<1>1. /\ AccessTypeOK /\ BucketsInv /\ ReadyInv /\ HeldInv /\ ChangesAreAccounted
  BY DEF AccessInv
<1>2. clock' = clock /\ backend' = backend /\ active' = active /\ login' = login
      /\ hits' = hits /\ swept' = swept /\ tried' = tried
  BY DEF limitVars
<1>3. AccessTypeOK'
  BY <1>1, <1>2, AccessRows DEF AccessTypeOK, CallRows, CallPCs
<1>4. BucketsInv'
  BY <1>1, <1>2, BucketsStay
<1>5. ReadyInv'
  BY <1>1, <1>2 DEF ReadyInv
<1>6. HeldInv'
  BY <1>1, <1>2 DEF HeldInv
<1>7. \A l : Expired(l)' <=> Expired(l)
  BY <1>2 DEF Expired
<1>8. ChangesAreAccounted'
  <2>1. ASSUME NEW o \in Calls, call'[o].changed, call'[o].pc = "over"
        PROVE  \/ entry'[o] = login'[call'[o].token].account
               \/ entry'[o] = NoOne /\ (call'[o].token \notin signed' \/ Expired(call'[o].token))
    <3>1. CASE o = c
      BY <1>2, <2>1, <3>1
    <3>2. CASE o # c
      <4>1. call'[o] = call[o] /\ entry'[o] = entry[o]
        BY <3>2
      <4>2. \/ entry[o] = login[call[o].token].account
            \/ entry[o] = NoOne /\ (call[o].token \notin signed \/ Expired(call[o].token))
        BY <1>1, <2>1, <4>1 DEF ChangesAreAccounted
      <4> QED
        BY <1>2, <4>1, <4>2
    <3> QED
      BY <3>1, <3>2
  <2>2. \A o \in Calls : Expired(call'[o].token) => Expired(call[o].token)'
    BY <1>7, <1>2 DEF Expired
  <2> QED
    BY <2>1, <2>2, <1>7 DEF ChangesAreAccounted
<1> QED
  BY <1>3, <1>4, <1>5, <1>6, <1>8 DEF AccessInv

\* A step of a login, the clock or an account: the requests stay, and so do the logins that are over.
LEMMA NoCallMoves ==
    ASSUME AccessInv, UNCHANGED <<backend, callVars>>,
           clock' \in Clock, clock' >= clock,
           hits' \in [Stores -> [Accounts -> Seq(Clock)]], swept' \in [Stores -> Clock],
           tried' \in [Stores -> [Accounts -> Seq(Clock)]], BucketsInv',
           active' \in [Accounts -> BOOLEAN], login' \in [Logins -> LoginRows],
           signed' \subseteq Logins, ReadyInv',
           \A l \in Logins : login[l].pc = "done" => login'[l] = login[l],
           \A l \in Logins : login[l].pc = "done" /\ l \in signed' => l \in signed
    PROVE  AccessInv'
<1>1. AccessTypeOK /\ HeldInv /\ ChangesAreAccounted
  BY DEF AccessInv
<1>2. call' = call /\ entry' = entry /\ backend' = backend
  BY DEF callVars
<1>3. AccessTypeOK'
  BY <1>1, <1>2, AccessRows DEF AccessTypeOK, LoginRows, LoginPCs
<1>4. clock' \in Nat
  BY Limits
<1>5. HeldInv' /\ ChangesAreAccounted'
  BY <1>1, <1>4, AccountsStay
<1> QED
  BY <1>3, <1>5 DEF AccessInv

\* A login that moves.
LEMMA LoginMoves ==
    ASSUME AccessTypeOK, ReadyInv, NEW l \in Logins, NEW row \in LoginRows,
           login' = [login EXCEPT ![l] = row], login[l].pc # "done",
           row.pc \in {"verify", "mint", "done"} => row.account \in Accounts /\ row.store \in Stores
    PROVE  /\ login' \in [Logins -> LoginRows] /\ ReadyInv'
           /\ \A k \in Logins : login[k].pc = "done" => login'[k] = login[k]
<1>1. login \in [Logins -> LoginRows]
  BY AccessRows
<1> QED
  BY <1>1 DEF ReadyInv

LEMMA SweepTypes ==
    ASSUME AccessTypeOK, NEW s \in Stores, Sweeps(s) PROVE swept' \in [Stores -> Clock]
BY AccessRows DEF Sweeps

LEMMA AttemptInv ==
    ASSUME AccessInv, NEW l \in Logins, Attempt(l) PROVE AccessInv'
<1>0. AccessTypeOK /\ BucketsInv /\ ReadyInv
  BY DEF AccessInv
<1>1. PICK s \in Stores, account \in Accounts :
        /\ login[l].pc = "idle"
        /\ \/ Admit(s, account) /\ login' = [login EXCEPT ![l] =
                 [login[l] EXCEPT !.pc = "verify", !.account = account, !.store = s]]
           \/ Refuse(s, account) /\ login' = [login EXCEPT ![l].pc = "refused"]
        /\ Sweeps(s)
        /\ UNCHANGED <<clock, backend, active, signed, callVars>>
  BY DEF Attempt
<1>2. login[l] \in LoginRows /\ clock \in Clock /\ clock \in Nat /\ swept' \in [Stores -> Clock]
  BY <1>0, <1>1, AccessRows, AccessTypes, SweepTypes
<1>3. /\ hits' \in [Stores -> [Accounts -> Seq(Clock)]]
      /\ tried' \in [Stores -> [Accounts -> Seq(Clock)]]
      /\ \A r \in Stores, k \in Accounts : StillCounts(r, k)
  BY <1>0, <1>1, AdmitCounts, RefuseCounts, AccessTypes
<1>4. BucketsInv'
  BY <1>1, <1>3, BucketsStep
<1>5. PICK row \in LoginRows : /\ login' = [login EXCEPT ![l] = row]
                               /\ row.pc \in {"verify", "mint", "done"}
                                    => row.account \in Accounts /\ row.store \in Stores
  <2>1. CASE login' = [login EXCEPT ![l] =
                 [login[l] EXCEPT !.pc = "verify", !.account = account, !.store = s]]
    <3> DEFINE row == [login[l] EXCEPT !.pc = "verify", !.account = account, !.store = s]
    <3>1. row \in LoginRows /\ row.account = account /\ row.store = s
      BY <1>2 DEF LoginRows, LoginPCs
    <3> QED
      BY <2>1, <3>1
  <2>2. CASE login' = [login EXCEPT ![l].pc = "refused"]
    <3> DEFINE row == [login[l] EXCEPT !.pc = "refused"]
    <3>1. row \in LoginRows /\ row.pc = "refused" /\ login' = [login EXCEPT ![l] = row]
      BY <1>2, <2>2 DEF LoginRows, LoginPCs
    <3> QED
      BY <3>1
  <2> QED
    BY <1>1, <2>1, <2>2
<1>6. /\ login' \in [Logins -> LoginRows] /\ ReadyInv'
      /\ \A k \in Logins : login[k].pc = "done" => login'[k] = login[k]
  BY <1>0, <1>1, <1>5, LoginMoves
<1>7. /\ UNCHANGED <<backend, callVars>> /\ clock' = clock /\ active' = active /\ signed' = signed
  BY <1>1
<1> QED
  BY <1>0, <1>2, <1>3, <1>4, <1>6, <1>7, NoCallMoves, AccessRows

LEMMA AttemptUncountedInv ==
    ASSUME AccessInv, NEW l \in Logins, AttemptUncounted(l) PROVE AccessInv'
<1>0. AccessTypeOK /\ BucketsInv /\ ReadyInv
  BY DEF AccessInv
<1>1. PICK s \in Stores, account \in Accounts :
        /\ login[l].pc = "idle"
        /\ login' = [login EXCEPT ![l] =
              [login[l] EXCEPT !.pc = "verify", !.account = account, !.store = s]]
        /\ UNCHANGED <<clock, backend, limitVars, active, signed, callVars>>
  BY DEF AttemptUncounted
<1> DEFINE row == [login[l] EXCEPT !.pc = "verify", !.account = account, !.store = s]
<1>2. row \in LoginRows /\ row.account = account /\ row.store = s
  <2>1. login[l] \in LoginRows
    BY <1>0, AccessRows
  <2> QED
    BY <2>1 DEF LoginRows, LoginPCs
<1>3. /\ login' \in [Logins -> LoginRows] /\ ReadyInv'
      /\ \A k \in Logins : login[k].pc = "done" => login'[k] = login[k]
  <2> HIDE DEF row
  <2>1. login' = [login EXCEPT ![l] = row]
    BY <1>1 DEF row
  <2> QED
    BY <1>0, <1>1, <1>2, <2>1, LoginMoves
<1>4. /\ UNCHANGED <<backend, callVars>> /\ clock' = clock /\ active' = active /\ signed' = signed
      /\ hits' = hits /\ swept' = swept /\ tried' = tried /\ clock \in Nat
  BY <1>0, <1>1, AccessTypes DEF limitVars
<1>5. BucketsInv'
  BY <1>0, <1>4, BucketsStay
<1> QED
  BY <1>0, <1>3, <1>4, <1>5, NoCallMoves, AccessRows

LEMMA VerifyInv ==
    ASSUME AccessInv, NEW l \in Logins, Verify(l) PROVE AccessInv'
<1>0. AccessTypeOK /\ BucketsInv /\ ReadyInv
  BY DEF AccessInv
<1>1. PICK account \in Accounts, s \in Stores : account = login[l].account /\ s = login[l].store
  BY <1>0 DEF ReadyInv, Verify
<1>2. /\ login[l].pc = "verify"
      /\ \/ /\ login' = [login EXCEPT ![l] = [NoLogin EXCEPT !.pc = "refused"]]
            /\ UNCHANGED limitVars
         \/ /\ login' = [login EXCEPT ![l].pc = "mint"]
            /\ Forget(s, account) \/ UNCHANGED limitVars
      /\ UNCHANGED <<clock, backend, active, signed, callVars>>
  BY <1>1 DEF Verify
<1>3. login[l] \in LoginRows /\ clock \in Clock /\ clock \in Nat /\ NoLogin \in LoginRows
  BY <1>0, AccessRows, AccessTypes, Limits DEF LoginRows, LoginPCs, NoLogin, Clock
<1>4. /\ hits' \in [Stores -> [Accounts -> Seq(Clock)]] /\ swept' = swept
      /\ tried' \in [Stores -> [Accounts -> Seq(Clock)]] /\ BucketsInv'
  <2>1. CASE Forget(s, account)
    <3>1. /\ hits' \in [Stores -> [Accounts -> Seq(Clock)]]
          /\ tried' \in [Stores -> [Accounts -> Seq(Clock)]]
          /\ \A r \in Stores, k \in Accounts : StillCounts(r, k)
      BY <1>0, <2>1, ForgetCounts
    <3> QED
      BY <1>2, <2>1, <3>1, BucketsStep DEF Forget
  <2>2. CASE UNCHANGED limitVars
    <3>1. hits' = hits /\ tried' = tried /\ swept' = swept /\ clock' = clock
      BY <1>2, <2>2 DEF limitVars
    <3> QED
      BY <1>0, <3>1, AccessTypes, BucketsStay
  <2> QED
    BY <1>2, <2>1, <2>2
<1>5. PICK row \in LoginRows : /\ login' = [login EXCEPT ![l] = row]
                               /\ row.pc \in {"verify", "mint", "done"}
                                    => row.account \in Accounts /\ row.store \in Stores
  <2>1. CASE login' = [login EXCEPT ![l] = [NoLogin EXCEPT !.pc = "refused"]]
    <3> DEFINE row == [NoLogin EXCEPT !.pc = "refused"]
    <3>1. row \in LoginRows /\ row.pc = "refused"
      BY <1>3 DEF LoginRows, LoginPCs
    <3> QED
      BY <2>1, <3>1
  <2>2. CASE login' = [login EXCEPT ![l].pc = "mint"]
    <3> DEFINE row == [login[l] EXCEPT !.pc = "mint"]
    <3>1. row \in LoginRows /\ row.account = account /\ row.store = s
          /\ login' = [login EXCEPT ![l] = row]
      BY <1>1, <1>3, <2>2 DEF LoginRows, LoginPCs
    <3> QED
      BY <3>1
  <2> QED
    BY <1>2, <2>1, <2>2
<1>6. /\ login' \in [Logins -> LoginRows] /\ ReadyInv'
      /\ \A k \in Logins : login[k].pc = "done" => login'[k] = login[k]
  BY <1>0, <1>2, <1>5, LoginMoves
<1>7. /\ UNCHANGED <<backend, callVars>> /\ clock' = clock /\ active' = active /\ signed' = signed
  BY <1>2
<1> QED
  BY <1>0, <1>3, <1>4, <1>6, <1>7, NoCallMoves, AccessRows

LEMMA MintInv ==
    ASSUME AccessInv, NEW l \in Logins, Mint(l) PROVE AccessInv'
<1>0. AccessTypeOK /\ BucketsInv /\ ReadyInv
  BY DEF AccessInv
<1>1. /\ login[l].pc = "mint"
      /\ login'  = [login EXCEPT ![l].pc = "done", ![l].at = clock]
      /\ signed' = signed \cup {l}
      /\ UNCHANGED <<clock, backend, limitVars, active, callVars>>
  BY DEF Mint
<1> DEFINE row == [login[l] EXCEPT !.pc = "done", !.at = clock]
<1>2. row \in LoginRows /\ row.account = login[l].account /\ row.store = login[l].store
      /\ login' = [login EXCEPT ![l] = row]
  BY <1>0, <1>1, AccessRows DEF LoginRows, LoginPCs
<1>3. row.account \in Accounts /\ row.store \in Stores
  BY <1>0, <1>1, <1>2 DEF ReadyInv
<1> HIDE DEF row
<1>4. /\ login' \in [Logins -> LoginRows] /\ ReadyInv'
      /\ \A k \in Logins : login[k].pc = "done" => login'[k] = login[k]
  BY <1>0, <1>1, <1>2, <1>3, LoginMoves
<1>5. /\ UNCHANGED <<backend, callVars>> /\ clock' = clock /\ active' = active
      /\ hits' = hits /\ swept' = swept /\ tried' = tried /\ clock \in Nat
  BY <1>0, <1>1, AccessTypes DEF limitVars
<1>6. BucketsInv'
  BY <1>0, <1>5, BucketsStay
<1>7. signed' \subseteq Logins /\ \A k \in Logins : login[k].pc = "done" /\ k \in signed' => k \in signed
  BY <1>0, <1>1, AccessRows
<1> QED
  BY <1>0, <1>4, <1>5, <1>6, <1>7, NoCallMoves, AccessRows

\* An account is switched, the expired sessions are purged, or time passes.
LEMMA AroundInv ==
    ASSUME AccessInv, (\E k \in Accounts : SetActive(k)) \/ PurgeExpiredSessions \/ Tick
    PROVE  AccessInv'
<1>0. AccessTypeOK /\ BucketsInv /\ ReadyInv
  BY DEF AccessInv
<1>1. /\ UNCHANGED <<backend, callVars>> /\ login' = login
      /\ hits' = hits /\ swept' = swept /\ tried' = tried /\ clock \in Nat
      /\ login \in [Logins -> LoginRows]
      /\ hits \in [Stores -> [Accounts -> Seq(Clock)]] /\ swept \in [Stores -> Clock]
      /\ tried \in [Stores -> [Accounts -> Seq(Clock)]]
  BY <1>0, AccessRows, AccessTypes DEF SetActive, PurgeExpiredSessions, Tick, limitVars, signVars
<1>2. ReadyInv'
  BY <1>0, <1>1 DEF ReadyInv
<1>3. signed' \subseteq signed /\ signed' \subseteq Logins /\ active' \in [Accounts -> BOOLEAN]
  BY <1>0, AccessRows DEF SetActive, PurgeExpiredSessions, Tick, signVars
<1>4. clock' \in Clock /\ clock' >= clock /\ (clock' = clock \/ clock' = clock + 1)
  BY <1>0, <1>1, AccessRows, Limits DEF SetActive, PurgeExpiredSessions, Tick, Clock
<1>5. BucketsInv'
  <2>1. CASE clock' = clock
    BY <1>0, <1>1, <2>1, BucketsStay
  <2>2. CASE clock' = clock + 1
    <3>1. \A s \in Stores, k \in Accounts : /\ Counts(hits[s][k], tried[s][k], clock + 1)
                                            /\ Spaced(tried[s][k])
      BY <1>0, <1>1, TimePasses DEF BucketsInv
    <3> QED
      BY <1>1, <2>2, <3>1 DEF BucketsInv
  <2> QED
    BY <1>4, <2>1, <2>2
<1> QED
  BY <1>1, <1>2, <1>3, <1>4, <1>5, NoCallMoves

\* A mutating request takes a step.
LEMMA CallInv ==
    ASSUME AccessInv, NEW c \in Calls,
           \/ RejectBody(c) \/ Handle(c) \/ Logout(c) \/ Audit(c) \/ AuditLost(c)
           \/ \E l \in Logins : GetCurrentUser(c, l)
    PROVE  AccessInv'
<1>0. AccessTypeOK /\ HeldInv
  BY DEF AccessInv
<1>1. /\ entry \in [Calls -> Accounts \cup {NoOne, "none"}] /\ login \in [Logins -> LoginRows]
  BY <1>0, AccessRows
<1>3. CASE RejectBody(c)
  <2>1. /\ call[c].pc = "idle" /\ ~call[c].changed /\ Goes(c, [pc |-> "over"])
        /\ UNCHANGED <<clock, backend, limitVars, active, login>> /\ signed' = signed /\ entry' = entry
    BY <1>0, <1>3 DEF RejectBody, HeldInv, signVars
  <2>2. /\ call' \in [Calls -> CallRows] /\ \A o \in Calls \ {c} : call'[o] = call[o]
        /\ call'[c].pc = "over" /\ call'[c].changed = call[c].changed
    BY <1>0, <2>1, Moving DEF CallPCs
  <2> QED
    BY <1>1, <2>1, <2>2, OneCall
<1>4. CASE Handle(c)
  <2>1. PICK changed \in BOOLEAN : Goes(c, [pc |-> "record", changed |-> changed])
    BY <1>4 DEF Handle
  <2>2. /\ call[c].pc = "handle" /\ entry' = entry /\ signed' = signed
        /\ UNCHANGED <<clock, backend, limitVars, active, login>>
    BY <1>4 DEF Handle, signVars
  <2>3. /\ call' \in [Calls -> CallRows] /\ \A o \in Calls \ {c} : call'[o] = call[o]
        /\ call'[c].pc = "record" /\ call'[c].token = call[c].token
    BY <1>0, <2>1, Moving DEF CallPCs
  <2>4. call[c].token \in Logins /\ login[call[c].token].pc = "done"
    BY <1>0, <2>2 DEF HeldInv
  <2> QED
    BY <1>1, <2>2, <2>3, <2>4, OneCall
<1>5. CASE Logout(c)
  <2>1. /\ call[c].pc = "handle" /\ entry' = entry /\ signed' \subseteq signed
        /\ Goes(c, [pc |-> "record"])
        /\ UNCHANGED <<clock, backend, limitVars, active, login>>
    BY <1>5 DEF Logout
  <2>2. /\ call' \in [Calls -> CallRows] /\ \A o \in Calls \ {c} : call'[o] = call[o]
        /\ call'[c].pc = "record" /\ call'[c].token = call[c].token
    BY <1>0, <2>1, Moving DEF CallPCs
  <2>3. call[c].token \in Logins /\ login[call[c].token].pc = "done"
    BY <1>0, <2>1 DEF HeldInv
  <2> QED
    BY <1>1, <2>1, <2>2, <2>3, OneCall
<1>6. CASE Audit(c)
  <2>1. /\ call[c].pc = "record" /\ entry' = [entry EXCEPT ![c] = Actor(call[c].token)]
        /\ Goes(c, [pc |-> "over"]) /\ signed' = signed
        /\ UNCHANGED <<clock, backend, limitVars, active, login>>
    BY <1>6 DEF Audit, Recorded, signVars
  <2>2. /\ call' \in [Calls -> CallRows] /\ \A o \in Calls \ {c} : call'[o] = call[o]
        /\ call'[c].pc = "over" /\ call'[c].token = call[c].token
    BY <1>0, <2>1, Moving DEF CallPCs
  <2>3. call[c].token \in Logins /\ login[call[c].token].pc = "done"
    BY <1>0, <2>1 DEF HeldInv
  <2>4. PICK l \in Logins : l = call[c].token
    BY <2>3
  <2>5. /\ Actor(l) \in Accounts \cup {NoOne}
        /\ Actor(l) = login[l].account \/ (Actor(l) = NoOne /\ (l \notin signed \/ Expired(l)))
    BY <1>1, <2>4 DEF Actor, LoginRows
  <2>6. /\ entry' \in [Calls -> Accounts \cup {NoOne, "none"}] /\ entry'[c] = Actor(l)
        /\ \A o \in Calls \ {c} : entry'[o] = entry[o]
    BY <1>1, <2>1, <2>4, <2>5
  <2>7. \/ entry'[c] = login[call'[c].token].account
        \/ entry'[c] = NoOne /\ (call'[c].token \notin signed' \/ Expired(call'[c].token))
    BY <2>1, <2>2, <2>4, <2>5, <2>6
  <2> QED
    BY <2>1, <2>2, <2>3, <2>6, <2>7, OneCall
<1>7. CASE AuditLost(c)
  <2>1. /\ Goes(c, [pc |-> "lost"]) /\ signed' = signed /\ entry' = entry
        /\ UNCHANGED <<clock, backend, limitVars, active, login>>
        /\ call[c].pc \in {"handle", "record"}
    BY <1>7 DEF AuditLost, signVars
  <2>2. /\ call' \in [Calls -> CallRows] /\ \A o \in Calls \ {c} : call'[o] = call[o]
        /\ call'[c].pc = "lost" /\ call'[c].token = call[c].token
    BY <1>0, <2>1, Moving DEF CallPCs
  <2>3. call[c].token \in Logins /\ login[call[c].token].pc = "done"
    BY <1>0, <2>1 DEF HeldInv
  <2> QED
    BY <1>1, <2>1, <2>2, <2>3, OneCall
<1>8. ASSUME NEW l \in Logins, GetCurrentUser(c, l) PROVE AccessInv'
  <2>1. PICK point \in {"handle", "record"} : Goes(c, [token |-> l, pc |-> point])
    BY <1>8 DEF GetCurrentUser
  <2>2. /\ call[c].pc = "idle" /\ ~call[c].changed /\ login[l].pc = "done"
        /\ signed' = signed /\ entry' = entry
        /\ UNCHANGED <<clock, backend, limitVars, active, login>>
    BY <1>0, <1>8 DEF GetCurrentUser, HeldInv, signVars
  <2>3. /\ call' \in [Calls -> CallRows] /\ \A o \in Calls \ {c} : call'[o] = call[o]
        /\ call'[c].pc = point /\ call'[c].token = l /\ call'[c].changed = call[c].changed
    BY <1>0, <2>1, Moving DEF CallPCs
  <2> QED
    BY <1>1, <2>2, <2>3, OneCall
<1> QED
  BY <1>3, <1>4, <1>5, <1>6, <1>7, <1>8

LEMMA AccessStepInv == AccessInv /\ [AccessNext]_accessVars => AccessInv'
<1> SUFFICES ASSUME AccessInv, [AccessNext]_accessVars PROVE AccessInv'
  OBVIOUS
<1>1. CASE AccessNext
  BY <1>1, AttemptInv, AttemptUncountedInv, VerifyInv, MintInv, AroundInv, CallInv DEF AccessNext
<1>2. CASE UNCHANGED accessVars
  <2>1. /\ UNCHANGED <<backend, callVars>> /\ login' = login /\ clock' = clock
        /\ hits' = hits /\ swept' = swept /\ tried' = tried /\ active' = active /\ signed' = signed
    BY <1>2 DEF accessVars, limitVars, signVars
  <2>2. AccessTypeOK /\ BucketsInv /\ ReadyInv /\ clock \in Nat
    BY AccessTypes DEF AccessInv
  <2>3. BucketsInv' /\ ReadyInv'
    BY <2>1, <2>2, BucketsStay DEF ReadyInv
  <2> QED
    BY <2>1, <2>2, <2>3, NoCallMoves, AccessRows
<1> QED
  BY <1>1, <1>2

AccessSpec == AccessInit /\ [][AccessNext]_accessVars

\* No window of an account sees more attempts than _ACCOUNT_LOCKOUT_TIMES of those that one store let
\* in since the account last succeeded and while its bucket was not evicted (rate_limit.py, allow and
\* _prune), however many logins, accounts and stores there are.
THEOREM WindowsHold == AccessSpec => []LimitHolds
<1>1. AccessInv => LimitHolds
  BY DEF AccessInv, BucketsInv, Spaced, LimitHolds
<1> QED
  BY <1>1, AccessInitInv, AccessStepInv, PTL DEF AccessSpec

\* Whatever a request changed is in the audit log under the name of its user, or of nobody if its
\* session ended while it was served (middleware.py, _record and _actor), unless the row was lost.
THEOREM ChangesAudited == AccessSpec => []ChangesAreAccounted
<1>1. AccessInv => ChangesAreAccounted
  BY DEF AccessInv
<1> QED
  BY <1>1, AccessInitInv, AccessStepInv, PTL DEF AccessSpec

-----------------------------------------------------------------------------
(* Onboarding: a client's row, and what a session will write of it *)

AtMostOne(rows) == rows = {} \/ \E one \in rows : rows = {one}

Clean(row) == AtMostOne(row.notes) /\ AtMostOne(row.colors)

\* What one session holds: the row it loaded as it still is, unless another one committed to it
\* meanwhile; a step that does not go back, and a fill that spares what was typed.
HoldsInv(r) ==
    /\ ~session[r].loaded.there => session[r].loaded = NoClient
    /\ session[r].pc = "creating" => session[r].loaded = NoClient /\ session[r].row = NoClient
    /\ session[r].pc = "saving" =>
         /\ session[r].row.step >= session[r].loaded.step
         /\ session[r].loaded.there /\ r \notin overlapped
              => client[session[r].slug] = session[r].loaded
         /\ r \in Scans => \A f \in {"location", "about"} :
               session[r].loaded[f] = "typed" => session[r].row[f] = "typed"
         /\ overlapped = {} => Clean(session[r].row)

ClientInv(g) == /\ ~client[g].there => client[g] = NoClient
                /\ overlapped = {} => Clean(client[g])

OnboardingInv ==
    /\ OnboardingTypeOK /\ ScanInv
    /\ \A r \in Sessions : HoldsInv(r)
    /\ \A g \in Slugs : ClientInv(g)

SessionPCs  == {"idle", "scanning", "creating", "loading", "saving", "saved", "conflict", "error"}
SessionRows == [pc : SessionPCs, slug : Slugs, loaded : Client, row : Client]
ClientFields == Columns \cup Collections \cup {"there", "build"}

LEMMA OnboardingRows ==
    OnboardingTypeOK <=>
        /\ ScanTypeOK /\ client \in [Slugs -> Client] /\ overlapped \subseteq Sessions
        /\ session \in [Sessions -> SessionRows]
BY DEF OnboardingTypeOK, SessionRows, SessionPCs

LEMMA FieldsOfClient ==
    \A x \in Client :
        /\ DOMAIN x = ClientFields /\ x = [f \in ClientFields |-> x[f]]
        /\ x["there"] \in BOOLEAN /\ x["step"] \in 1 .. FinalStep /\ x["step"] \in Nat
        /\ x["status"] \in {"draft", "active", "paused"}
        /\ x["location"] \in Texts /\ x["about"] \in Texts
        /\ x["colors"] \in SUBSET Sessions /\ x["notes"] \in SUBSET Sessions
        /\ x["documents"] \in SUBSET Sessions /\ x["platforms"] \in SUBSET Platform
        /\ x["build"] \in Builds
BY DEF Client, ClientFields, Columns, Collections

LEMMA ClientOfFields ==
    ASSUME NEW x, x = [f \in ClientFields |-> x[f]],
           x["there"] \in BOOLEAN, x["step"] \in 1 .. FinalStep,
           x["status"] \in {"draft", "active", "paused"},
           x["location"] \in Texts, x["about"] \in Texts,
           x["colors"] \in SUBSET Sessions, x["notes"] \in SUBSET Sessions,
           x["documents"] \in SUBSET Sessions, x["platforms"] \in SUBSET Platform,
           x["build"] \in Builds
    PROVE  x \in Client
BY DEF Client, ClientFields, Columns, Collections

LEMMA NoClientRow == NoClient \in Client /\ Clean(NoClient) /\ ~NoClient.there /\ NoClient.step = 1
                     /\ NoClient.location = "" /\ NoClient.about = ""
BY WizardAssumption DEF NoClient, Client, Texts, Builds, Clean, AtMostOne

LEMMA StepStays == \A x \in Client : x.step >= x.step
BY FieldsOfClient

LEMMA OnboardingInitInv == OnboardingInit => OnboardingInv
<1> SUFFICES ASSUME OnboardingInit PROVE OnboardingInv
  OBVIOUS
<1>1. client = [g \in Slugs |-> NoClient] /\ session = [r \in Sessions |-> NoRequest]
      /\ overlapped = {} /\ ScanInv /\ ScanTypeOK
  BY ScanInitInv DEF OnboardingInit, ScanInv
<1>2. NoRequest \in SessionRows
  BY NoClientRow, WizardAssumption DEF NoRequest, SessionRows, SessionPCs
<1>3. OnboardingTypeOK
  BY <1>1, <1>2, NoClientRow, OnboardingRows
<1>4. \A r \in Sessions : HoldsInv(r)
  BY <1>1 DEF HoldsInv, NoRequest
<1>5. \A g \in Slugs : ClientInv(g)
  BY <1>1, NoClientRow DEF ClientInv
<1> QED
  BY <1>1, <1>3, <1>4, <1>5 DEF OnboardingInv

\* A session that loads a row, or goes on to a point where it has none to write.
LEMMA SessionMoves ==
    ASSUME OnboardingInv, NEW r \in Sessions, NEW new \in SessionRows,
           session' = [session EXCEPT ![r] = new], HoldsInv(r)', ScanInv',
           UNCHANGED <<client, overlapped>>
    PROVE  OnboardingInv'
<1>1. /\ client \in [Slugs -> Client] /\ overlapped \subseteq Sessions
      /\ session \in [Sessions -> SessionRows]
  BY OnboardingRows DEF OnboardingInv
<1>2. session' \in [Sessions -> SessionRows] /\ \A o \in Sessions : o # r => session'[o] = session[o]
  BY <1>1
<1>3. OnboardingTypeOK'
  <2>1. ScanTypeOK'
    BY DEF ScanInv
  <2> QED
    BY <1>1, <1>2, <2>1 DEF OnboardingTypeOK, SessionRows, SessionPCs
<1>4. ASSUME NEW o \in Sessions PROVE HoldsInv(o)'
  <2>1. CASE o = r
    BY <2>1
  <2>2. CASE o # r
    <3>1. session'[o] = session[o] /\ HoldsInv(o) /\ client' = client /\ overlapped' = overlapped
      BY <1>2, <2>2 DEF OnboardingInv
    <3> QED
      BY <3>1 DEF HoldsInv
  <2> QED
    BY <2>1, <2>2
<1>5. \A g \in Slugs : ClientInv(g)'
  BY DEF OnboardingInv, ClientInv
<1> QED
  BY <1>3, <1>4, <1>5 DEF OnboardingInv

\* A session that ends, or waits for its scan, holds what it held.
LEMMA SessionEnds ==
    ASSUME OnboardingInv, NEW r \in Sessions,
           NEW point \in {"scanning", "loading", "saved", "conflict", "error"}, Ended(r, point), ScanInv',
           UNCHANGED <<client, overlapped>>
    PROVE  OnboardingInv'
<1> DEFINE new == [session[r] EXCEPT !.pc = point]
<1>1. session[r] \in SessionRows /\ HoldsInv(r) /\ session \in [Sessions -> SessionRows]
  BY OnboardingRows DEF OnboardingInv
<1>2. new \in SessionRows /\ new.pc = point /\ new.loaded = session[r].loaded
  BY <1>1 DEF SessionRows, SessionPCs
<1>3. session' = [session EXCEPT ![r] = new]
  BY DEF Ended
<1> HIDE DEF new
<1>4. session'[r] = new
  BY <1>1, <1>3
<1>5. HoldsInv(r)'
  BY <1>1, <1>2, <1>4 DEF HoldsInv
<1> QED
  BY <1>2, <1>3, <1>5, SessionMoves

\* A session that enters with a row loads the client as it is; the row it will write keeps the
\* step, what was typed, and one note.
LEMMA SessionEnters ==
    ASSUME OnboardingInv, NEW r \in Sessions, NEW slug \in Slugs, NEW row \in Client,
           session' = [session EXCEPT ![r] = [pc |-> "saving", slug |-> slug,
                                              loaded |-> client[slug], row |-> row]],
           row.step >= client[slug].step,
           r \in Scans => \A f \in {"location", "about"} :
                             client[slug][f] = "typed" => row[f] = "typed",
           overlapped = {} => Clean(row), ScanInv',
           UNCHANGED <<client, overlapped>>
    PROVE  OnboardingInv'
<1> DEFINE new == [pc |-> "saving", slug |-> slug, loaded |-> client[slug], row |-> row]
<1>1. /\ client \in [Slugs -> Client] /\ session \in [Sessions -> SessionRows] /\ ClientInv(slug)
  BY OnboardingRows DEF OnboardingInv
<1>2. new \in SessionRows
  BY <1>1 DEF SessionRows, SessionPCs
<1>3. new.pc = "saving" /\ new.slug = slug /\ new.loaded = client[slug] /\ new.row = row
  OBVIOUS
<1>4. session' = [session EXCEPT ![r] = new]
  OBVIOUS
<1> HIDE DEF new
<1>5. session'[r] = new
  BY <1>1, <1>4
<1>6. HoldsInv(r)'
  BY <1>1, <1>3, <1>5 DEF HoldsInv, ClientInv
<1> QED
  BY <1>2, <1>4, <1>6, SessionMoves

\* A request of the wizard: the row it will write is a client's, with a step and rows as required.
Fit(row, old) == /\ row \in Client /\ row.step >= old.step
                 /\ Clean(old) => Clean(row)

LEMMA FitsIfKept ==
    ASSUME NEW old \in Client, NEW row \in Client, row.step >= old.step,
           row.notes = old.notes, row.colors = old.colors
    PROVE  Fit(row, old)
BY DEF Fit, Clean

LEMMA AddedPlatforms ==
    ASSUME NEW r \in Sessions
    PROVE  /\ \A channels \in SUBSET Channels : [by : {r}, channel : channels] \in SUBSET Platform
           /\ AtMostOne({}) /\ AtMostOne({r}) /\ {} \in SUBSET Sessions /\ {r} \in SUBSET Sessions
BY DEF Platform, AtMostOne

LEMMA OnboardFits ==
    ASSUME NEW r \in Sessions, NEW channels \in SUBSET Channels, NEW feed \in BOOLEAN
    PROVE  Fit([NoClient EXCEPT
               !.step = FinalStep, !.status = "active", !.location = "typed", !.about = "typed",
               !.colors = {r}, !.notes = IF feed THEN {r} ELSE {}, !.documents = {r},
               !.platforms = [by : {r}, channel : channels], !.build = "full_build"], NoClient)
<1> DEFINE places == [by : {r}, channel : channels]
           notes  == IF feed THEN {r} ELSE {}
           row == [NoClient EXCEPT
               !.step = FinalStep, !.status = "active", !.location = "typed", !.about = "typed",
               !.colors = {r}, !.notes = notes, !.documents = {r},
               !.platforms = places, !.build = "full_build"]
<1>1. places \in SUBSET Platform /\ notes \in SUBSET Sessions /\ AtMostOne(notes) /\ AtMostOne({r})
      /\ {r} \in SUBSET Sessions
  BY AddedPlatforms
<1> HIDE DEF places, notes
<1>2. FinalStep \in 1 .. FinalStep /\ FinalStep >= 1
  BY WizardAssumption
<1>3. row \in Client /\ row.step = FinalStep /\ row.notes = notes /\ row.colors = {r}
  BY <1>1, <1>2, NoClientRow DEF Client, Texts, Builds
<1> HIDE DEF row
<1>4. Fit(row, NoClient)
  BY <1>1, <1>2, <1>3, NoClientRow DEF Fit, Clean
<1> QED
  BY <1>4 DEF row, places, notes

LEMMA SectionFits ==
    ASSUME NEW r \in Sessions, NEW old \in Client, NEW row \in Sections(r, old)
    PROVE  Fit(row, old) /\ row.step = old.step
<1>0. old.step \in Nat /\ old.step >= old.step
  BY FieldsOfClient
<1>1. CASE row \in Basics(old)
  <2>1. PICK value \in Texts : row = [old EXCEPT !.location = value]
    BY <1>1 DEF Basics, Texts
  <2>2. row \in Client /\ row.step = old.step /\ row.notes = old.notes /\ row.colors = old.colors
    BY <2>1 DEF Client
  <2> QED
    BY <1>0, <2>2, FitsIfKept
<1>2. CASE row \in Brand(old)
  <2>1. PICK value \in Texts : row = [old EXCEPT !.about = value]
    BY <1>2 DEF Brand, Texts
  <2>2. row \in Client /\ row.step = old.step /\ row.notes = old.notes /\ row.colors = old.colors
    BY <2>1 DEF Client
  <2> QED
    BY <1>0, <2>2, FitsIfKept
<1>3. CASE row \in Colors(r, old)
  <2>1. PICK rows \in {{}, {r}} : row = [old EXCEPT !.colors = rows]
    BY <1>3 DEF Colors
  <2>2. rows \in SUBSET Sessions /\ AtMostOne(rows)
    BY AddedPlatforms
  <2> QED
    BY <1>0, <2>1, <2>2 DEF Client, Fit, Clean
<1>4. CASE row \in Platforms(r, old)
  <2>1. PICK rows \in SUBSET Platform : row = [old EXCEPT !.platforms = rows]
    BY <1>4, AddedPlatforms DEF Platforms
  <2> QED
    BY <1>0, <2>1 DEF Client, Fit, Clean
<1>5. CASE row \in Compliance(r, old)
  <2>1. PICK rows \in {{}, {r}} : row = [old EXCEPT !.notes = rows]
    BY <1>5 DEF Compliance
  <2>2. rows \in SUBSET Sessions /\ AtMostOne(rows)
    BY AddedPlatforms
  <2> QED
    BY <1>0, <2>1, <2>2 DEF Client, Fit, Clean
<1>6. CASE row = old
  BY <1>0, <1>6 DEF Fit
<1> QED
  BY <1>1, <1>2, <1>3, <1>4, <1>5, <1>6 DEF Sections

\* What a request of the wizard or of the settings page will write.
LEMMA SaveFits ==
    ASSUME OnboardingInv, NEW r \in Savers, Save(r)
    PROVE  \E slug \in Slugs, row \in Client : Fit(row, client[slug]) /\ Entered(r, slug, row)
<1>0. r \in Sessions /\ client \in [Slugs -> Client] /\ \A g \in Slugs : ClientInv(g)
  BY OnboardingRows DEF OnboardingInv, Sessions
<1>1. CASE Onboard(r)
  <2>1. PICK slug \in Slugs, channels \in SUBSET Channels, feed \in BOOLEAN :
           /\ FreeSlug(slug)
           /\ Entered(r, slug, [NoClient EXCEPT
               !.step = FinalStep, !.status = "active", !.location = "typed", !.about = "typed",
               !.colors = {r}, !.notes = IF feed THEN {r} ELSE {}, !.documents = {r},
               !.platforms = [by : {r}, channel : channels], !.build = "full_build"])
    BY <1>1 DEF Onboard
  <2>2. client[slug] = NoClient
    BY <1>0, <2>1 DEF FreeSlug, ClientInv
  <2> QED
    BY <1>0, <2>1, <2>2, OnboardFits DEF Fit
<1>2. CASE CreateDraft(r)
  <2>1. PICK slug \in Slugs, location \in {"", "typed"} :
           FreeSlug(slug) /\ Entered(r, slug, [NoClient EXCEPT !.location = location])
    BY <1>2 DEF CreateDraft
  <2>2. client[slug] = NoClient
    BY <1>0, <2>1 DEF FreeSlug, ClientInv
  <2> DEFINE row == [NoClient EXCEPT !.location = location]
  <2>3. Fit(row, NoClient)
    <3>1. row \in Client /\ row.step = 1
          /\ row.notes = NoClient.notes /\ row.colors = NoClient.colors
      BY NoClientRow DEF Client, Texts
    <3> HIDE DEF row
    <3>2. row.step = NoClient.step
      BY <3>1, NoClientRow
    <3>3. row.step >= NoClient.step
      BY <3>2, NoClientRow, StepStays
    <3> QED
      BY <3>1, <3>3, NoClientRow, FitsIfKept
  <2> QED
    BY <2>1, <2>2, <2>3 DEF Fit
<1>3. ASSUME NEW slug \in Slugs, UpdateStep(r, slug)
      PROVE  \E row \in Client : Fit(row, client[slug]) /\ Entered(r, slug, row)
  <2>1. PICK row \in Sections(r, client[slug]), step \in 0 .. FinalStep :
           Entered(r, slug, [row EXCEPT !.step = IF step = 0 THEN row.step ELSE Larger(row.step, step),
                                        !.build = "incremental"])
    BY <1>3 DEF UpdateStep
  <2>2. client[slug] \in Client
    BY <1>0
  <2>3. Fit(row, client[slug]) /\ row \in Client
    BY <1>0, <2>2, SectionFits DEF Fit
  <2>4. PICK next \in Nat : next = IF step = 0 THEN row.step ELSE Larger(row.step, step)
    BY <2>3, FieldsOfClient DEF Larger
  <2>5. next \in 1 .. FinalStep /\ next >= row.step /\ row.step \in Nat /\ client[slug].step \in Nat
    BY <2>2, <2>3, <2>4, FieldsOfClient, WizardAssumption DEF Larger
  <2>6. Entered(r, slug, [row EXCEPT !.step = next, !.build = "incremental"])
    BY <2>1, <2>4
  <2> DEFINE new == [row EXCEPT !.step = next, !.build = "incremental"]
  <2>7. Fit(new, client[slug])
    <3>1. new \in Client /\ new.step = next /\ new.notes = row.notes /\ new.colors = row.colors
      BY <2>3, <2>5 DEF Client, Builds
    <3> HIDE DEF new
    <3> QED
      BY <2>3, <2>5, <3>1 DEF Fit, Clean
  <2> QED
    BY <2>6, <2>7 DEF Fit
<1>4. ASSUME NEW slug \in Slugs, AddDocuments(r, slug) \/ RemoveDocument(r, slug)
      PROVE  \E row \in Client : Fit(row, client[slug]) /\ Entered(r, slug, row)
  <2>1. PICK old \in Client : old = client[slug]
    BY <1>0
  <2>2. PICK rows \in SUBSET Sessions :
           Entered(r, slug, [old EXCEPT !.documents = rows, !.build = "incremental"])
    <3>1. old.documents \in SUBSET Sessions
      BY FieldsOfClient
    <3>2. old.documents \cup {r} \in SUBSET Sessions /\ \A d : old.documents \ {d} \in SUBSET Sessions
      BY <1>0, <3>1
    <3>3. CASE AddDocuments(r, slug)
      BY <2>1, <3>2, <3>3 DEF AddDocuments
    <3>4. CASE RemoveDocument(r, slug)
      BY <2>1, <3>2, <3>4 DEF RemoveDocument
    <3> QED
      BY <1>4, <3>3, <3>4
  <2> DEFINE row == [old EXCEPT !.documents = rows, !.build = "incremental"]
  <2>3. Fit(row, old)
    <3>1. row \in Client /\ row.step = old.step /\ row.notes = old.notes /\ row.colors = old.colors
      BY DEF Client, Builds
    <3>2. old.step \in Nat /\ old.step >= old.step
      BY FieldsOfClient
    <3> HIDE DEF row
    <3> QED
      BY <3>1, <3>2, FitsIfKept
  <2> QED
    BY <2>1, <2>2, <2>3 DEF Fit
<1>5. ASSUME NEW slug \in Slugs, Complete(r, slug)
      PROVE  \E row \in Client : Fit(row, client[slug]) /\ Entered(r, slug, row)
  <2>1. PICK old \in Client : old = client[slug]
    BY <1>0
  <2>2. PICK stage \in {"draft", "active", "paused"} : Entered(r, slug,
           [old EXCEPT !.step = FinalStep, !.build = "full_build", !.status = stage])
    <3>1. old.status \in {"draft", "active", "paused"}
      BY FieldsOfClient
    <3> QED
      BY <1>5, <2>1, <3>1 DEF Complete
  <2>3. old.step \in 1 .. FinalStep /\ FinalStep \in 1 .. FinalStep
    BY FieldsOfClient, WizardAssumption
  <2> DEFINE row == [old EXCEPT !.step = FinalStep, !.build = "full_build", !.status = stage]
  <2>4. Fit(row, old)
    <3>1. row \in Client /\ row.step = FinalStep /\ row.notes = old.notes /\ row.colors = old.colors
      BY <2>3 DEF Client, Builds
    <3>2. old.step \in Nat /\ FinalStep >= old.step
      BY FieldsOfClient, <2>3
    <3> HIDE DEF row
    <3> QED
      BY <3>1, <3>2, FitsIfKept
  <2> QED
    BY <2>1, <2>2, <2>4 DEF Fit
<1>6. ASSUME NEW slug \in Slugs, UpdateClient(r, slug)
      PROVE  \E row \in Client : Fit(row, client[slug]) /\ Entered(r, slug, row)
  <2>1. PICK old \in Client : old = client[slug]
    BY <1>0
  <2>2. PICK stage \in {"draft", "active", "paused"}, location \in Texts, build_ \in Builds :
           Entered(r, slug, [old EXCEPT !.status = stage, !.location = location, !.build = build_])
    <3>1. old.location \in Texts /\ "typed" \in Texts /\ "none" \in Builds /\ "incremental" \in Builds
      BY FieldsOfClient DEF Texts, Builds
    <3> QED
      BY <1>6, <2>1, <3>1 DEF UpdateClient
  <2> DEFINE row == [old EXCEPT !.status = stage, !.location = location, !.build = build_]
  <2>3. Fit(row, old)
    <3>1. row \in Client /\ row.step = old.step /\ row.notes = old.notes /\ row.colors = old.colors
      BY DEF Client, Builds
    <3>2. old.step \in Nat /\ old.step >= old.step
      BY FieldsOfClient
    <3> HIDE DEF row
    <3> QED
      BY <3>1, <3>2, FitsIfKept
  <2> QED
    BY <2>1, <2>2, <2>3 DEF Fit
<1>7. CASE \E slug \in Slugs : \/ UpdateStep(r, slug) \/ AddDocuments(r, slug) \/ RemoveDocument(r, slug)
                               \/ Complete(r, slug) \/ UpdateClient(r, slug)
  BY <1>3, <1>4, <1>5, <1>6, <1>7
<1> QED
  BY <1>1, <1>2, <1>7 DEF Save

LEMMA SaveInv == ASSUME OnboardingInv, NEW r \in Savers, Save(r) PROVE OnboardingInv'
<1>1. PICK slug \in Slugs, row \in Client : Fit(row, client[slug]) /\ Entered(r, slug, row)
  BY SaveFits
<1>2. r \in Sessions /\ r \notin Scans
  BY SaversAssumption DEF Sessions
<1>3. overlapped = {} => Clean(client[slug])
  BY DEF OnboardingInv, ClientInv
<1>4. UNCHANGED <<client, overlapped, scanVars>>
  BY DEF Save
<1>5. ScanInv'
  BY <1>4, ScanNextInv DEF OnboardingInv
<1> QED
  BY <1>1, <1>2, <1>3, <1>4, <1>5, SessionEnters DEF Fit, Entered

\* The auto-fill: what it puts in is a client's row that spares what is there.
LEMMA FillFits ==
    ASSUME NEW s \in Scans, NEW old \in Client
    PROVE  LET row == Filled(s, old, Wanted(s, old))
           IN  /\ Fit(row, old)
               /\ \A f \in {"location", "about"} : old[f] = "typed" => row[f] = "typed"
<1> DEFINE fields == Wanted(s, old)
           location == IF "location" \in fields THEN "scanned" ELSE old.location
           about  == IF "about" \in fields THEN AboutOf(s) ELSE old.about
           colors == IF "colors" \in fields THEN {s} ELSE old.colors
           row == [old EXCEPT !.location = location, !.about = about, !.colors = colors,
                              !.build = "incremental"]
<1>1. AboutOf(s) \in Texts
  <2>1. CASE scan[s].generated
    BY <2>1 DEF AboutOf, Texts
  <2>2. CASE ~scan[s].generated
    BY <2>2 DEF AboutOf, Texts
  <2> QED
    BY <2>1, <2>2
<1>2. s \in Sessions /\ {s} \in SUBSET Sessions /\ AtMostOne({s})
  BY AddedPlatforms DEF Sessions
<1>3. "location" \in fields => old.location = ""
  BY DEF Wanted
<1>4. "about" \in fields => old.about = ""
  BY DEF Wanted
<1>5. Filled(s, old, Wanted(s, old)) = row
  BY DEF Filled
<1> HIDE DEF fields
<1>6. location \in Texts /\ about \in Texts /\ colors \in SUBSET Sessions
  BY <1>1, <1>2, FieldsOfClient DEF Texts
<1>7. AtMostOne(old.colors) => AtMostOne(colors)
  BY <1>2
<1>8. (old.location = "typed" => location = "typed") /\ (old.about = "typed" => about = "typed")
  BY <1>3, <1>4
<1> HIDE DEF location, about, colors
<1>9. /\ row \in Client /\ row.step = old.step /\ row.notes = old.notes /\ row.colors = colors
      /\ row["location"] = location /\ row["about"] = about
  BY <1>6 DEF Client, Builds
<1>10. old.step \in Nat /\ old.step >= old.step
  BY FieldsOfClient
<1> HIDE DEF row
<1>11. Fit(row, old)
  BY <1>7, <1>9, <1>10 DEF Fit, Clean
<1>12. \A f \in {"location", "about"} : old[f] = "typed" => row[f] = "typed"
  BY <1>8, <1>9
<1> QED
  BY <1>5, <1>11, <1>12

LEMMA FillInv == ASSUME OnboardingInv, NEW s \in Scans, FillClient(s) PROVE OnboardingInv'
<1>1. PICK slug \in Slugs : Fill(s, slug)
  BY DEF FillClient
<1>2. s \in Sessions /\ client[slug] \in Client /\ UNCHANGED <<client, overlapped, scanVars>>
  BY <1>1, OnboardingRows DEF Sessions, OnboardingInv, Fill
<1>3. ScanInv'
  BY <1>2, ScanNextInv DEF OnboardingInv
<1> DEFINE row == Filled(s, client[slug], Wanted(s, client[slug]))
<1>4. \/ Ended(s, "error") \/ Ended(s, "saved")
      \/ session' = [session EXCEPT ![s] = [pc |-> "saving", slug |-> slug, loaded |-> client[slug],
                                            row |-> row]]
  <2>1. CASE Malformed(s, Wanted(s, client[slug]))
    <3>1. Wanted(s, client[slug]) # {}
      BY <2>1 DEF Malformed
    <3> QED
      BY <1>1, <2>1, <3>1 DEF Fill
  <2>2. CASE Wanted(s, client[slug]) = {}
    <3>1. ~Malformed(s, Wanted(s, client[slug]))
      BY <2>2 DEF Malformed
    <3> QED
      BY <1>1, <2>2, <3>1 DEF Fill
  <2>3. CASE ~Malformed(s, Wanted(s, client[slug])) /\ Wanted(s, client[slug]) # {}
    BY <1>1, <2>3 DEF Fill
  <2> QED
    BY <2>1, <2>2, <2>3
<1>5. /\ Fit(row, client[slug])
      /\ \A f \in {"location", "about"} : client[slug][f] = "typed" => row[f] = "typed"
  BY <1>2, FillFits
<1>6. overlapped = {} => Clean(client[slug])
  BY DEF OnboardingInv, ClientInv
<1> HIDE DEF row
<1>7. row \in Client /\ row.step >= client[slug].step /\ (overlapped = {} => Clean(row))
  BY <1>5, <1>6 DEF Fit
<1> QED
  BY <1>2, <1>3, <1>4, <1>5, <1>7, SessionEnds, SessionEnters

LEMMA AutoFillInv ==
    ASSUME OnboardingInv, NEW s \in Scans,
           \/ \E w \in Websites : AutoFill(s, w)
           \/ AutoFillFails(s) \/ CreateDraftMinimal(s)
           \/ Progress(s) /\ UNCHANGED <<client, session, overlapped>>
    PROVE  OnboardingInv'
<1>0. s \in Sessions /\ ScanInv /\ session \in [Sessions -> SessionRows]
  BY OnboardingRows DEF Sessions, OnboardingInv
<1>1. ASSUME NEW w \in Websites, AutoFill(s, w) PROVE OnboardingInv'
  <2>1. BeginScan(s, "autofill", w) /\ Ended(s, "scanning") /\ UNCHANGED <<client, overlapped>>
    BY <1>1 DEF AutoFill
  <2>2. ScanInv'
    BY <1>0, <2>1, ScanBegins
  <2> QED
    BY <1>0, <2>1, <2>2, SessionEnds
<1>2. CASE AutoFillFails(s)
  <2>1. Ended(s, "error") /\ UNCHANGED <<client, overlapped, scanVars>>
    BY <1>2 DEF AutoFillFails
  <2>2. ScanInv'
    BY <1>0, <2>1, ScanNextInv
  <2> QED
    BY <1>0, <2>1, <2>2, SessionEnds
<1>3. CASE CreateDraftMinimal(s)
  <2>1. PICK slug \in Slugs :
           session' = [session EXCEPT ![s] = [NoRequest EXCEPT !.pc = "creating", !.slug = slug]]
    BY <1>3 DEF CreateDraftMinimal
  <2>2. UNCHANGED <<client, overlapped, scanVars>>
    BY <1>3 DEF CreateDraftMinimal
  <2> DEFINE new == [NoRequest EXCEPT !.pc = "creating", !.slug = slug]
  <2>3. /\ new \in SessionRows /\ new.pc = "creating" /\ new.loaded = NoClient /\ new.row = NoClient
    BY NoClientRow DEF NoRequest, SessionRows, SessionPCs
  <2>4. session' = [session EXCEPT ![s] = new]
    BY <2>1
  <2> HIDE DEF new
  <2>5. session'[s] = new
    BY <1>0, <2>4
  <2>6. HoldsInv(s)'
    BY <2>3, <2>5 DEF HoldsInv
  <2>7. ScanInv'
    BY <1>0, <2>2, ScanNextInv
  <2> QED
    BY <1>0, <2>2, <2>3, <2>4, <2>6, <2>7, SessionMoves
<1>4. CASE Progress(s) /\ UNCHANGED <<client, session, overlapped>>
  <2>1. ScanInv'
    BY <1>0, <1>4, ScanProgress
  <2>2. session' = [session EXCEPT ![s] = session[s]] /\ session[s] \in SessionRows /\ HoldsInv(s)'
    BY <1>0, <1>4 DEF OnboardingInv, HoldsInv
  <2> QED
    BY <1>0, <1>4, <2>1, <2>2, SessionMoves
<1> QED
  BY <1>1, <1>2, <1>3, <1>4

\* What a commit leaves in a field.
LEMMA CommittedFields ==
    ASSUME OnboardingTypeOK, NEW r \in Sessions
    PROVE  LET db == client[session[r].slug]
               old == session[r].loaded
               row == session[r].row
               new == Committed(r)
           IN  /\ \A f \in Columns : new[f] = IF row[f] = old[f] THEN db[f] ELSE row[f]
               /\ \A f \in Collections : new[f] = Replaced(db[f], old[f], row[f])
               /\ new["build"] = BuildQueued(db["build"], row["build"])
               /\ new["there"] = TRUE
               /\ new = [f \in ClientFields |-> new[f]]
<1> DEFINE db == client[session[r].slug]
           old == session[r].loaded
           row == session[r].row
           new == Committed(r)
<1>1. /\ session[r] \in SessionRows /\ client \in [Slugs -> Client]
  BY OnboardingRows
<1>2. db \in Client /\ old \in Client /\ row \in Client
  BY <1>1 DEF SessionRows
<1>3. DOMAIN db = ClientFields
  BY <1>2, FieldsOfClient
<1> DEFINE field(f) ==
           CASE f \in Columns     -> IF row[f] = old[f] THEN db[f] ELSE row[f]
             [] f \in Collections -> Replaced(db[f], old[f], row[f])
             [] f = "build"       -> BuildQueued(db[f], row[f])
             [] f = "there"       -> TRUE
<1>4. new = [f \in DOMAIN db |-> field(f)]
  BY DEF Committed
<1> HIDE DEF db, old, row, new, field
<1>5. \A f \in ClientFields : new[f] = field(f)
  BY <1>3, <1>4
<1>6. new = [f \in ClientFields |-> new[f]]
  BY <1>3, <1>4
<1> USE DEF field
<1>7. /\ \A f \in Columns : f \in ClientFields /\ f \notin Collections /\ f # "build" /\ f # "there"
      /\ \A f \in Collections : f \in ClientFields /\ f \notin Columns /\ f # "build" /\ f # "there"
      /\ {"build", "there"} \subseteq ClientFields /\ {"build", "there"} \cap (Columns \cup Collections) = {}
  BY DEF ClientFields, Columns, Collections
<1>8. \A f \in Columns : new[f] = IF row[f] = old[f] THEN db[f] ELSE row[f]
  BY <1>5, <1>7
<1>9. \A f \in Collections : new[f] = Replaced(db[f], old[f], row[f])
  BY <1>5, <1>7
<1>10. new["build"] = BuildQueued(db["build"], row["build"])
  <2>1. "build" \in ClientFields /\ "build" \notin Columns /\ "build" \notin Collections
    BY <1>7
  <2> QED
    BY <1>5, <2>1
<1>11. new["there"] = TRUE
  <2>1. "there" \in ClientFields /\ "there" \notin Columns /\ "there" \notin Collections
    BY <1>7
  <2> QED
    BY <1>5, <2>1
<1> QED
  BY <1>6, <1>8, <1>9, <1>10, <1>11 DEF db, old, row, new

LEMMA CommittedRow ==
    ASSUME OnboardingTypeOK, NEW r \in Sessions
    PROVE  Committed(r) \in Client /\ Committed(r).there = TRUE
<1>1. PICK new : new = Committed(r)
  OBVIOUS
<1>2. PICK row \in SessionRows : row = session[r]
  BY OnboardingRows
<1>3. PICK db \in Client : db = client[row.slug]
  BY <1>2, OnboardingRows DEF SessionRows
<1>4. PICK a \in Client : a = row.row
  BY <1>2 DEF SessionRows
<1>5. PICK b \in Client : b = row.loaded
  BY <1>2 DEF SessionRows
<1>6. /\ \A f \in Columns : new[f] = IF a[f] = b[f] THEN db[f] ELSE a[f]
      /\ \A f \in Collections : new[f] = Replaced(db[f], b[f], a[f])
      /\ new["build"] = BuildQueued(db["build"], a["build"])
      /\ new["there"] = TRUE
      /\ new = [f \in ClientFields |-> new[f]]
  BY <1>1, <1>2, <1>3, <1>4, <1>5, CommittedFields
<1>7. /\ new["step"] \in 1 .. FinalStep /\ new["status"] \in {"draft", "active", "paused"}
      /\ new["location"] \in Texts /\ new["about"] \in Texts
  BY <1>6, FieldsOfClient DEF Columns
<1>8. /\ new["colors"] \in SUBSET Sessions /\ new["notes"] \in SUBSET Sessions
      /\ new["documents"] \in SUBSET Sessions /\ new["platforms"] \in SUBSET Platform
  BY <1>6, FieldsOfClient DEF Collections, Replaced
<1>9. new["build"] \in Builds
  BY <1>6, FieldsOfClient DEF BuildQueued
<1>10. new \in Client
  BY <1>6, <1>7, <1>8, <1>9, ClientOfFields
<1> QED
  BY <1>1, <1>6, <1>10

\* A session nobody wrote behind commits its row as it is.
LEMMA CommittedAlone ==
    ASSUME OnboardingTypeOK, NEW r \in Sessions, client[session[r].slug] = session[r].loaded
    PROVE  \A f \in Columns \cup Collections : Committed(r)[f] = session[r].row[f]
<1>1. PICK row \in SessionRows : row = session[r]
  BY OnboardingRows
<1>2. PICK a \in Client : a = row.row
  BY <1>1 DEF SessionRows
<1>3. PICK b \in Client : b = row.loaded /\ b = client[row.slug]
  BY <1>1 DEF SessionRows
<1>4. /\ \A f \in Columns : Committed(r)[f] = IF a[f] = b[f] THEN b[f] ELSE a[f]
      /\ \A f \in Collections : Committed(r)[f] = Replaced(b[f], b[f], a[f])
  <2>1. client[session[r].slug] = b /\ session[r].loaded = b /\ session[r].row = a
    BY <1>1, <1>2, <1>3
  <2>2. \A f \in Columns : Committed(r)[f] = IF session[r].row[f] = session[r].loaded[f]
                                             THEN client[session[r].slug][f] ELSE session[r].row[f]
    BY CommittedFields
  <2>3. \A f \in Collections : Committed(r)[f] =
           Replaced(client[session[r].slug][f], session[r].loaded[f], session[r].row[f])
    BY CommittedFields
  <2> QED
    BY <2>1, <2>2, <2>3
<1>5. \A f \in Columns : Committed(r)[f] = a[f]
  BY <1>4
<1>6. \A p, q \in SUBSET Sessions : Replaced(p, p, q) = q
  BY DEF Replaced
<1>7. \A p, q \in SUBSET Platform : Replaced(p, p, q) = q
  BY DEF Replaced
<1>8. \A f \in Collections : Committed(r)[f] = a[f]
  BY <1>4, <1>6, <1>7, FieldsOfClient DEF Collections
<1> QED
  BY <1>1, <1>2, <1>5, <1>8

\* What a session may count on when it commits: nobody wrote to its row, or it is told so.
LEMMA RowIsLoaded ==
    ASSUME OnboardingInv, NEW r \in Sessions, session[r].pc \in {"creating", "saving"},
           ~Refused(r), r \notin overlapped
    PROVE  client[session[r].slug] = session[r].loaded
<1>1. session[r] \in SessionRows /\ HoldsInv(r) /\ client \in [Slugs -> Client]
  BY OnboardingRows DEF OnboardingInv
<1>2. session[r].slug \in Slugs
  BY <1>1 DEF SessionRows
<1>3. ClientInv(session[r].slug)
  BY <1>2 DEF OnboardingInv
<1>4. CASE session[r].loaded.there
  <2>1. session[r].pc # "creating"
    BY <1>1, <1>4, NoClientRow DEF HoldsInv
  <2> QED
    BY <1>1, <1>4, <2>1 DEF HoldsInv
<1>5. CASE ~session[r].loaded.there
  BY <1>1, <1>3, <1>5 DEF HoldsInv, ClientInv, Refused
<1> QED
  BY <1>4, <1>5

LEMMA CommitInv == ASSUME OnboardingInv, NEW r \in Sessions, Commit(r) PROVE OnboardingInv'
<1>1. /\ client \in [Slugs -> Client] /\ overlapped \subseteq Sessions
      /\ session \in [Sessions -> SessionRows] /\ OnboardingTypeOK
      /\ \A o \in Sessions : HoldsInv(o)
      /\ \A g \in Slugs : ClientInv(g)
  BY OnboardingRows DEF OnboardingInv
<1>2. session[r].pc \in {"creating", "saving"} /\ UNCHANGED scanVars
  BY DEF Commit
<1>3. ScanInv'
  BY <1>2, ScanNextInv DEF OnboardingInv
<1>4. CASE Refused(r)
  <2>1. Ended(r, "conflict") /\ UNCHANGED <<client, overlapped>>
    BY <1>4 DEF Commit
  <2> QED
    BY <1>3, <2>1, SessionEnds
<1>5. CASE ~Refused(r)
  <2>1. PICK slug \in Slugs : slug = session[r].slug
    BY <1>1 DEF SessionRows
  <2>2. PICK new \in Client : new = Committed(r) /\ new.there = TRUE
    BY <1>1, CommittedRow
  <2>3. PICK point \in {"loading", "saved"} :
           point = IF session[r].pc = "creating" THEN "loading" ELSE "saved"
    OBVIOUS
  <2>4. client' = [client EXCEPT ![slug] = new] /\ Ended(r, point) /\ Overlap(r)
    BY <1>5, <2>1, <2>2, <2>3 DEF Commit
  <2>5. /\ client' \in [Slugs -> Client] /\ client'[slug] = new
        /\ \A g \in Slugs : g # slug => client'[g] = client[g]
    BY <1>1, <2>4
  <2>6. PICK row \in SessionRows : row = [session[r] EXCEPT !.pc = point]
    BY <1>1 DEF SessionRows, SessionPCs
  <2>7. row.pc = point /\ row.loaded = session[r].loaded
    BY <1>1, <2>6 DEF SessionRows
  <2>8. /\ session' \in [Sessions -> SessionRows] /\ session'[r] = row
        /\ \A o \in Sessions : o # r => session'[o] = session[o]
    BY <1>1, <2>4, <2>6 DEF Ended
  <2>9. /\ overlapped \subseteq overlapped' /\ overlapped' \subseteq Sessions
        /\ \A o \in Sessions \ {r} : session[o].pc = "saving" /\ session[o].slug = slug
              => o \in overlapped'
    BY <1>1, <2>1, <2>4 DEF Overlap
  <2>10. OnboardingTypeOK'
    <3>1. ScanTypeOK'
      BY <1>3 DEF ScanInv
    <3> QED
      BY <2>5, <2>8, <2>9, <3>1 DEF OnboardingTypeOK, SessionRows, SessionPCs
  <2>11. ASSUME NEW o \in Sessions PROVE HoldsInv(o)'
    <3>1. CASE o = r
      <4>1. session'[o] = row /\ HoldsInv(r)
        BY <1>1, <2>8, <3>1
      <4>2. row.pc # "creating" /\ row.pc # "saving"
        BY <2>3, <2>7
      <4> QED
        BY <2>7, <4>1, <4>2 DEF HoldsInv
    <3>2. CASE o # r
      <4>1. session'[o] = session[o] /\ HoldsInv(o) /\ session[o] \in SessionRows
        BY <1>1, <2>8, <3>2
      <4>2. session[o].slug \in Slugs
        BY <4>1 DEF SessionRows
      <4>3. overlapped' = {} => overlapped = {}
        BY <2>9
      <4>4. ASSUME session[o].pc = "saving", session[o].loaded.there, o \notin overlapped'
            PROVE  client'[session[o].slug] = session[o].loaded
        <5>1. o \notin overlapped /\ session[o].slug # slug
          BY <2>9, <3>2, <4>4
        <5> QED
          BY <2>5, <4>1, <4>2, <4>4, <5>1 DEF HoldsInv
      <4> QED
        BY <4>1, <4>3, <4>4 DEF HoldsInv
    <3> QED
      BY <3>1, <3>2
  <2>12. overlapped' = {} => Clean(new)
    <3> SUFFICES ASSUME overlapped' = {} PROVE Clean(new)
      OBVIOUS
    <3>1. overlapped = {} /\ r \notin overlapped
      BY <2>9
    <3>2. client[session[r].slug] = session[r].loaded
      BY <1>2, <1>5, <3>1, RowIsLoaded
    <3>3. new["notes"] = session[r].row["notes"] /\ new["colors"] = session[r].row["colors"]
      BY <1>1, <2>2, <3>2, CommittedAlone DEF Collections
    <3>4. Clean(session[r].row)
      <4>1. CASE session[r].pc = "creating"
        BY <1>1, <4>1, NoClientRow DEF HoldsInv
      <4>2. CASE session[r].pc = "saving"
        BY <1>1, <3>1, <4>2 DEF HoldsInv
      <4> QED
        BY <1>2, <4>1, <4>2
    <3> QED
      BY <3>3, <3>4 DEF Clean
  <2>13. ASSUME NEW g \in Slugs PROVE ClientInv(g)'
    <3>1. CASE g = slug
      BY <2>2, <2>5, <2>12, <3>1 DEF ClientInv
    <3>2. CASE g # slug
      <4>1. client'[g] = client[g] /\ ClientInv(g) /\ (overlapped' = {} => overlapped = {})
        BY <1>1, <2>5, <2>9, <3>2
      <4> QED
        BY <4>1 DEF ClientInv
    <3> QED
      BY <3>1, <3>2
  <2> QED
    BY <1>3, <2>10, <2>11, <2>13 DEF OnboardingInv
<1> QED
  BY <1>4, <1>5

LEMMA OnboardingStepInv == OnboardingInv /\ [OnboardingNext]_onboardingVars => OnboardingInv'
<1> SUFFICES ASSUME OnboardingInv, [OnboardingNext]_onboardingVars PROVE OnboardingInv'
  OBVIOUS
<1>1. CASE \E r \in Savers : Save(r)
  BY <1>1, SaveInv
<1>2. CASE \E r \in Sessions : Commit(r)
  BY <1>2, CommitInv
<1>3. CASE \E s \in Scans : FillClient(s)
  BY <1>3, FillInv
<1>4. CASE \E s \in Scans : \/ \E w \in Websites : AutoFill(s, w)
                            \/ AutoFillFails(s) \/ CreateDraftMinimal(s)
                            \/ Progress(s) /\ UNCHANGED <<client, session, overlapped>>
  BY <1>4, AutoFillInv
<1>5. CASE UNCHANGED onboardingVars
  <2>1. UNCHANGED <<client, session, overlapped, scanVars>>
    BY <1>5 DEF onboardingVars
  <2>2. ScanInv'
    BY <2>1, ScanNextInv DEF OnboardingInv
  <2>3. OnboardingTypeOK'
    <3>1. ScanTypeOK'
      BY <2>2 DEF ScanInv
    <3> QED
      BY <2>1, <3>1 DEF OnboardingInv, OnboardingTypeOK
  <2>4. \A r \in Sessions : HoldsInv(r)'
    BY <2>1 DEF OnboardingInv, HoldsInv
  <2>5. \A g \in Slugs : ClientInv(g)'
    BY <2>1 DEF OnboardingInv, ClientInv
  <2> QED
    BY <2>2, <2>3, <2>4, <2>5 DEF OnboardingInv
<1> QED
  BY <1>1, <1>2, <1>3, <1>4, <1>5 DEF OnboardingNext

\* A session's row is written by its own commit, in one step.
LEMMA OthersKeep ==
    ASSUME OnboardingTypeOK, NEW r \in Sessions, NEW o \in Sessions, o # r,
           \/ \E new : session' = [session EXCEPT ![o] = new]
           \/ session' = session
    PROVE  ~Writes(r)
BY OnboardingRows DEF Writes

LEMMA CommitWrites ==
    ASSUME OnboardingInv, [OnboardingNext]_onboardingVars, NEW r \in Sessions, Writes(r)
    PROVE  Commit(r) /\ ~Refused(r)
<1>1. session[r].pc = "saving" /\ session'[r].pc = "saved" /\ session \in [Sessions -> SessionRows]
      /\ OnboardingTypeOK
  BY OnboardingRows DEF Writes, OnboardingInv
<1>2. ASSUME NEW o \in Savers, Save(o) PROVE FALSE
  <2>1. o \in Sessions /\ session[o].pc = "idle"
    BY <1>2 DEF Sessions, Save
  <2>2. \E new : session' = [session EXCEPT ![o] = new]
    BY <1>2, SaveFits DEF Entered
  <2> QED
    BY <1>1, <2>1, <2>2, OthersKeep
<1>3. ASSUME NEW o \in Sessions, Commit(o) PROVE o = r /\ ~Refused(r)
  <2>1. PICK point : Ended(o, point) /\ (Refused(o) => point = "conflict")
    BY <1>3 DEF Commit
  <2>2. session' = [session EXCEPT ![o] = [session[o] EXCEPT !.pc = point]]
    BY <2>1 DEF Ended
  <2>3. o = r
    BY <1>1, <2>2, OthersKeep
  <2>4. session'[r].pc = point
    BY <1>1, <2>2, <2>3 DEF SessionRows
  <2> QED
    BY <1>1, <2>1, <2>3, <2>4
<1>4. ASSUME NEW s \in Scans,
             \/ \E w \in Websites : AutoFill(s, w)
             \/ AutoFillFails(s) \/ CreateDraftMinimal(s) \/ FillClient(s)
      PROVE  FALSE
  <2>1. s \in Sessions /\ session[s].pc \in {"idle", "scanning", "loading"}
    BY <1>4 DEF Sessions, AutoFill, AutoFillFails, CreateDraftMinimal, FillClient
  <2>2. \E new : session' = [session EXCEPT ![s] = new]
    <3>1. CASE \E w \in Websites : AutoFill(s, w)
      BY <3>1 DEF AutoFill, Ended
    <3>2. CASE AutoFillFails(s)
      BY <3>2 DEF AutoFillFails, Ended
    <3>3. CASE CreateDraftMinimal(s)
      BY <3>3 DEF CreateDraftMinimal
    <3>4. CASE FillClient(s)
      <4>1. PICK slug \in Slugs : Fill(s, slug)
        BY <3>4 DEF FillClient
      <4> DEFINE fields == Wanted(s, client[slug])
      <4>2. CASE Malformed(s, fields)
        <5>1. fields # {}
          BY <4>2 DEF Malformed
        <5> QED
          BY <4>1, <4>2, <5>1 DEF Fill, Ended
      <4>3. CASE fields = {}
        <5>1. ~Malformed(s, fields)
          BY <4>3 DEF Malformed
        <5> QED
          BY <4>1, <4>3, <5>1 DEF Fill, Ended
      <4>4. CASE ~Malformed(s, fields) /\ fields # {}
        BY <4>1, <4>4 DEF Fill
      <4> QED
        BY <4>2, <4>3, <4>4
    <3> QED
      BY <1>4, <3>1, <3>2, <3>3, <3>4
  <2> QED
    BY <1>1, <2>1, <2>2, OthersKeep
<1>5. CASE UNCHANGED session
  BY <1>1, <1>5
<1> QED
  BY <1>2, <1>3, <1>4, <1>5 DEF OnboardingNext, onboardingVars

\* A session nobody wrote behind takes the step no further back, and a fill spares what was typed.
LEMMA WriteKeepsWork ==
    ASSUME OnboardingInv, [OnboardingNext]_onboardingVars, NEW r \in Sessions, Writes(r),
           r \notin overlapped, NEW g \in Slugs, session[r].slug = g
    PROVE  /\ client'[g].step >= client[g].step
           /\ r \in Scans => \A f \in {"location", "about"} :
                                client[g][f] = "typed" => client'[g][f] = "typed"
<1>1. Commit(r) /\ ~Refused(r)
  BY CommitWrites
<1>2. /\ OnboardingTypeOK /\ HoldsInv(r) /\ session[r].pc = "saving" /\ client \in [Slugs -> Client]
  BY OnboardingRows DEF OnboardingInv, Writes
<1>3. client[g] = session[r].loaded
  BY <1>1, <1>2, RowIsLoaded
<1>4. client' = [client EXCEPT ![g] = Committed(r)]
  BY <1>1 DEF Commit
<1>5. client'[g] = Committed(r)
  BY <1>2, <1>4
<1>6. /\ Committed(r)["step"] = session[r].row["step"]
      /\ \A f \in {"location", "about"} : Committed(r)[f] = session[r].row[f]
  BY <1>2, <1>3, CommittedAlone DEF Columns
<1>7. session[r].row.step >= session[r].loaded.step
      /\ (r \in Scans => \A f \in {"location", "about"} :
             session[r].loaded[f] = "typed" => session[r].row[f] = "typed")
  BY <1>2 DEF HoldsInv
<1> QED
  BY <1>3, <1>5, <1>6, <1>7

LEMMA AtMostOneCounts == ASSUME NEW rows, AtMostOne(rows) PROVE Cardinality(rows) <= 1
<1>1. CASE rows = {}
  BY <1>1, FS_EmptySet
<1>2. CASE \E one \in rows : rows = {one}
  <2>1. PICK one : rows = {one}
    BY <1>2
  <2>2. Cardinality({one}) = 1
    BY FS_Singleton
  <2> QED
    BY <2>1, <2>2
<1> QED
  BY <1>1, <1>2 DEF AtMostOne

LEMMA CleanRows == OnboardingInv => OneFeedPerClient
<1> SUFFICES ASSUME OnboardingInv, NEW g \in Slugs, overlapped = {}
             PROVE  Cardinality(client[g].notes) <= 1 /\ Cardinality(client[g].colors) <= 1
  BY DEF OneFeedPerClient
<1>1. AtMostOne(client[g].notes) /\ AtMostOne(client[g].colors)
  BY DEF OnboardingInv, ClientInv, Clean
<1> QED
  BY <1>1, AtMostOneCounts

OnboardingSpec == OnboardingInit /\ [][OnboardingNext]_onboardingVars

\* An onboarding keeps what it was given, once: a commit no other commit overlapped takes the
\* step no further back (update_step's max, complete, onboard), an auto-fill that ran its scan in
\* between spares what the operator typed (fill of client_discovery_service.py, which reads the
\* row after the scan), and replaced notes and colours are one request's.
THEOREM OnboardingKept == OnboardingSpec => OnboardingKeepsWork
<1>1. OnboardingInit => OnboardingInv
  BY OnboardingInitInv
<1>2. OnboardingInv /\ [OnboardingNext]_onboardingVars => OnboardingInv'
  BY OnboardingStepInv
<1>3. OnboardingInv => OneFeedPerClient
  BY CleanRows
<1>4. OnboardingInv /\ [OnboardingNext]_onboardingVars =>
        [\A r \in Sessions, g \in Slugs : (Writes(r) /\ session[r].slug = g /\ r \notin overlapped) =>
           /\ client'[g].step >= client[g].step
           /\ r \in Scans => \A f \in {"location", "about"} :
                               client[g][f] = "typed" => client'[g][f] = "typed"]_onboardingVars
  BY WriteKeepsWork
<1> QED
  BY <1>1, <1>2, <1>3, <1>4, PTL DEF OnboardingSpec, OnboardingKeepsWork, WizardKeepsWork

-----------------------------------------------------------------------------
(* The knowledge base: what a stored row may say, and what a build holds of it *)

\* A row of a field tells one text, loaded whole; a document's may have failed to load; a
\* message's waits for its first build.
SoundRow(s) ==
    /\ s.of = NoRow => s = NoSource
    /\ s.of \in Groups => s.hash # 0 /\ s.text = s.hash /\ s.status = "embedded"
    /\ s.of \in Documents => s.hash = 1 /\ s.text \in {0, 1} /\ s.status \in {"failed", "embedded"}
    /\ s.of \in Messages => /\ s.hash \in {0, 1} /\ s.text = 1 /\ s.status \in {"pending", "embedded"}
                            /\ s.status = "pending" => s.hash = 0

\* Changed and Vanished, of the build record alone.
ChangedOf(d) == {o \in Origins : /\ d.wants[o] # 0
                                 /\ d.full \/ d.pick[o] = NoRow \/ d.had[d.pick[o]].hash # d.wants[o]}
VanishedOf(d) == {d.pick[o] : o \in {i \in Origins : d.wants[i] = 0}} \ {NoRow}

\* The rows a build read are sound, and the row it took for an origin is one of that origin, if any.
Reads(d) ==
    /\ \A r \in Rows : SoundRow(d.had[r])
    /\ \A o \in Documents \cup Messages : d.wants[o] \in {0, 1}
    /\ d.pc \in {"load", "embed"} => \A o \in Origins :
          IF d.pick[o] = NoRow THEN \A r \in Rows : d.had[r].of # o ELSE d.had[d.pick[o]].of = o

\* What a build flushed: for each changed origin its row, loaded; the others as they were read.
FlushedAs(d, row, failing) ==
    /\ row \in [ChangedOf(d) -> Rows] /\ failing \subseteq Documents
    /\ \A o \in ChangedOf(d) :
          /\ IF d.pick[o] = NoRow THEN d.had[row[o]].of = NoRow ELSE row[o] = d.pick[o]
          /\ d.source[row[o]].of = o /\ d.source[row[o]].hash = d.wants[o]
          /\ d.source[row[o]].text = IF o \in failing THEN 0 ELSE d.wants[o]
          /\ d.source[row[o]].status = IF o \in failing THEN "failed" ELSE "extracted"
    /\ \A r \in Rows : (\A o \in ChangedOf(d) : row[o] # r)
          => d.source[r] = d.had[r] /\ d.doomed[r] = {}
    /\ d.written = {r \in Rows : d.source[r] # d.had[r]}
    /\ d.removed = VanishedOf(d)

\* The chunks of the rows it loaded, as far as nobody committed meanwhile.
Dooms(d, row, table) == d.alone => \A o \in ChangedOf(d) : d.doomed[row[o]] = table[row[o]]

Flushes(d, table) == d.pc = "embed" => \E row, failing : FlushedAs(d, row, failing) /\ Dooms(d, row, table)

\* A build nobody overlapped read the rows as they are; a row to update is there, a row to insert
\* is not.
Sees(d, table) ==
    /\ d.alone /\ d.pc \in {"load", "embed"} => d.had = table
    /\ d.pc = "embed" => \A r \in d.written : d.had[r].of = NoRow <=> table[r].of = NoRow

\* Rows are locked from the flush to the commit.
Touches(d) == d.written \cup d.removed
Apart(d, e) == d.pc = "embed" /\ e.pc = "embed" => Touches(d) \cap Touches(e) = {}

\* A key is of one origin.
Mentioned(r, o) ==
    /\ o # NoRow
    /\ \/ knowledge[r].of = o
       \/ \E b \in Ingests : build[b].had[r].of = o \/ build[b].source[r].of = o
OneKey == \A r \in Rows : \A o, i : Mentioned(r, o) /\ Mentioned(r, i) => o = i

OriginsInv == \A o \in Documents \cup Messages : text[o] \in {0, 1}
TableInv   == \A r \in Rows : SoundRow(knowledge[r]) /\ (knowledge[r].of = NoRow => chunks[r] = {})
BuildInv(b) == Reads(build[b]) /\ Flushes(build[b], chunks) /\ Sees(build[b], knowledge)

KnowledgeInv ==
    /\ KnowledgeTypeOK /\ OriginsInv /\ TableInv /\ OneKey
    /\ \A b \in Ingests : BuildInv(b)
    /\ \A b, c \in Ingests : b # c => Apart(build[b], build[c])

LEMMA Keys == /\ MaxText \in Nat \ {0} /\ 0 \in Bodies /\ 1 \in Bodies
              /\ IsFiniteSet(Origins) /\ IsFiniteSet(Rows)
              /\ NoRow \notin Origins /\ NoRow \notin Rows
              /\ Groups \cap Documents = {} /\ Groups \cap Messages = {}
              /\ Documents \cap Messages = {}
BY KnowledgeAssumption DEF Bodies

LEMMA OriginKinds ==
    /\ \A o \in Origins : o \in Groups \/ o \in Documents \/ o \in Messages
    /\ \A o \in Groups \cup Documents \cup Messages : o \in Origins
    /\ \A o \in Groups : o \notin Documents /\ o \notin Messages
    /\ \A o \in Documents : o \notin Messages
    /\ \A o \in Origins : o # NoRow
BY Keys DEF Origins

LEMMA NoBuildTypes ==
    /\ NoSource \in Source /\ SoundRow(NoSource) /\ NoSource.of = NoRow
    /\ NoBuild \in Build /\ NoBuild.pc = "idle" /\ Reads(NoBuild)
    /\ \A r \in Rows : NoBuild.had[r] = NoSource /\ NoBuild.source[r] = NoSource
    /\ NoBuild.had \in [Rows -> Source] /\ NoBuild.source \in [Rows -> Source]
    /\ NoBuild.alone = FALSE
<1>1. NoSource \in Source /\ NoSource.of = NoRow
  BY Keys DEF NoSource, Source, SourceStatuses
<1>2. SoundRow(NoSource)
  BY <1>1, OriginKinds DEF SoundRow, Origins
<1>3. /\ [o \in Origins |-> 0] \in [Origins -> Bodies]
      /\ [r \in Rows |-> NoSource] \in [Rows -> Source]
      /\ [o \in Origins |-> NoRow] \in [Origins -> Rows \cup {NoRow}]
      /\ [r \in Rows |-> {}] \in [Rows -> SUBSET Bodies]
  BY <1>1, Keys
<1>4. NoBuild \in Build
  BY <1>3 DEF NoBuild, Build
<1>5. /\ NoBuild.pc = "idle" /\ NoBuild.alone = FALSE
      /\ NoBuild.had = [r \in Rows |-> NoSource] /\ NoBuild.source = [r \in Rows |-> NoSource]
      /\ NoBuild.wants = [o \in Origins |-> 0]
  BY DEF NoBuild
<1>6. Reads(NoBuild)
  BY <1>2, <1>5, OriginKinds DEF Reads, Origins
<1> QED
  BY <1>1, <1>2, <1>3, <1>4, <1>5, <1>6

LEMMA SourceFields ==
    \A s \in Source :
        /\ s.of \in Origins \cup {NoRow} /\ s.hash \in Bodies /\ s.text \in Bodies
        /\ s.status \in SourceStatuses
        /\ s = [of |-> s.of, hash |-> s.hash, text |-> s.text, status |-> s.status]
BY DEF Source

LEMMA BuildFields ==
    \A d \in Build :
        /\ d.pc \in {"idle", "origins", "sources", "load", "embed"} /\ d.full \in BOOLEAN /\ d.alone \in BOOLEAN
        /\ d.left \subseteq Origins /\ d.wants \in [Origins -> Bodies] /\ d.had \in [Rows -> Source]
        /\ d.pick \in [Origins -> Rows \cup {NoRow}] /\ d.source \in [Rows -> Source]
        /\ d.written \subseteq Rows /\ d.removed \subseteq Rows /\ d.doomed \in [Rows -> SUBSET Bodies]
BY DEF Build

LEMMA KnowledgeInitInv == KnowledgeInit => KnowledgeInv
<1> SUFFICES ASSUME KnowledgeInit PROVE KnowledgeInv
  OBVIOUS
<1>1. /\ text = [o \in Origins |-> 0] /\ stamped = {} /\ promoting = [p \in Promoters |-> NoRow]
      /\ knowledge = [r \in Rows |-> NoSource] /\ chunks = [r \in Rows |-> {}]
      /\ build = [b \in Ingests |-> NoBuild]
  BY DEF KnowledgeInit
<1>2. KnowledgeTypeOK
  BY <1>1, Keys, NoBuildTypes DEF KnowledgeTypeOK
<1>3. OriginsInv /\ TableInv
  BY <1>1, OriginKinds, NoBuildTypes DEF OriginsInv, TableInv
<1>4. OneKey
  BY <1>1, NoBuildTypes DEF OneKey, Mentioned
<1>5. \A b \in Ingests : BuildInv(b) /\ build[b].pc = "idle"
  BY <1>1, NoBuildTypes DEF BuildInv, Flushes, Sees
<1> QED
  BY <1>2, <1>3, <1>4, <1>5 DEF KnowledgeInv, Apart

LEMMA KnowledgeTypes ==
    ASSUME KnowledgeTypeOK
    PROVE  /\ knowledge \in [Rows -> Source] /\ chunks \in [Rows -> SUBSET (Bodies \ {0})]
           /\ build \in [Ingests -> Build] /\ text \in [Origins -> Bodies]
           /\ stamped \subseteq Messages /\ promoting \in [Promoters -> Messages \cup {NoRow}]
BY DEF KnowledgeTypeOK

\* A row no one knows is mentioned nowhere.
LEMMA FreshUnmentioned ==
    ASSUME NEW r \in Fresh, NEW o, Mentioned(r, o) PROVE FALSE
BY DEF Fresh, Mentioned

\* A step that changes what one build holds, and nothing that is stored.
LEMMA BuildMoves ==
    ASSUME KnowledgeInv, NEW b \in Ingests, NEW new \in Build, Step(b, new),
           UNCHANGED <<text, stamped, promoting, knowledge, chunks>>,
           Reads(new), Flushes(new, chunks), Sees(new, knowledge),
           \A c \in Ingests \ {b} : Apart(new, build[c]),
           \A r \in Rows : \A o : (o # NoRow /\ (new.had[r].of = o \/ new.source[r].of = o))
              => Mentioned(r, o) \/ (r \in Fresh /\ new.had[r].of = NoRow)
    PROVE  KnowledgeInv'
<1>1. build \in [Ingests -> Build] /\ KnowledgeTypeOK
  BY KnowledgeTypes DEF KnowledgeInv
<1>2. build' \in [Ingests -> Build] /\ build'[b] = new /\ \A c \in Ingests : c # b => build'[c] = build[c]
  BY <1>1 DEF Step
<1>3. KnowledgeTypeOK'
  BY <1>1, <1>2 DEF KnowledgeTypeOK
<1>4. OriginsInv' /\ TableInv'
  BY DEF KnowledgeInv, OriginsInv, TableInv
<1>5. ASSUME NEW c \in Ingests PROVE BuildInv(c)'
  <2>1. CASE c = b
    BY <1>2, <2>1 DEF BuildInv
  <2>2. CASE c # b
    <3>1. build'[c] = build[c] /\ BuildInv(c)
      BY <1>2, <2>2 DEF KnowledgeInv
    <3> QED
      BY <3>1 DEF BuildInv
  <2> QED
    BY <2>1, <2>2
<1>6. ASSUME NEW c \in Ingests, NEW e \in Ingests, c # e PROVE Apart(build[c], build[e])'
  <2>1. Apart(build[c], build[e])
    BY <1>6 DEF KnowledgeInv
  <2>2. CASE c # b /\ e # b
    BY <1>2, <2>1, <2>2
  <2>3. CASE c = b
    BY <1>2, <1>6, <2>3
  <2>4. CASE e = b
    <3>1. build'[c] = build[c] /\ build'[e] = new /\ Apart(new, build[c])
      BY <1>2, <1>6, <2>4
    <3> QED
      BY <3>1 DEF Apart
  <2> QED
    BY <2>2, <2>3, <2>4
<1>7. OneKey'
  <2> SUFFICES ASSUME NEW r \in Rows, NEW o, NEW i, Mentioned(r, o)', Mentioned(r, i)'
               PROVE  o = i
    BY DEF OneKey
  <2>1. ASSUME NEW x, Mentioned(r, x)'
        PROVE  Mentioned(r, x) \/ (r \in Fresh /\ new.had[r].of = NoRow /\ new.source[r].of = x)
    <3>1. x # NoRow /\ \/ knowledge[r].of = x
                       \/ \E c \in Ingests : build'[c].had[r].of = x \/ build'[c].source[r].of = x
      BY <2>1 DEF Mentioned
    <3>2. CASE knowledge[r].of = x
      BY <3>1, <3>2 DEF Mentioned
    <3>3. ASSUME NEW c \in Ingests, build'[c].had[r].of = x \/ build'[c].source[r].of = x
          PROVE  Mentioned(r, x) \/ (r \in Fresh /\ new.had[r].of = NoRow /\ new.source[r].of = x)
      <4>1. CASE c = b
        BY <1>2, <3>1, <3>3, <4>1
      <4>2. CASE c # b
        BY <1>2, <3>1, <3>3, <4>2 DEF Mentioned
      <4> QED
        BY <4>1, <4>2
    <3> QED
      BY <3>1, <3>2, <3>3
  <2>2. CASE r \in Fresh
    BY <2>1, <2>2, FreshUnmentioned
  <2>3. CASE r \notin Fresh
    BY <2>1, <2>3 DEF KnowledgeInv, OneKey
  <2> QED
    BY <2>2, <2>3
<1> QED
  BY <1>3, <1>4, <1>5, <1>6, <1>7 DEF KnowledgeInv

\* A build that is told it was overlapped still holds what it held.
LEMMA OverlappedReads ==
    ASSUME NEW d \in Build
    PROVE  LET e == [d EXCEPT !.alone = FALSE] IN
           /\ e \in Build /\ e.alone = FALSE /\ e.pc = d.pc /\ e.had = d.had /\ e.source = d.source
           /\ e.written = d.written /\ e.removed = d.removed
           /\ Reads(d) => Reads(e)
           /\ \A row, failing : FlushedAs(d, row, failing) => FlushedAs(e, row, failing)
<1> DEFINE e == [d EXCEPT !.alone = FALSE]
<1>1. e \in Build /\ e.alone = FALSE /\ e.pc = d.pc /\ e.had = d.had /\ e.source = d.source
      /\ e.written = d.written /\ e.removed = d.removed
      /\ e.wants = d.wants /\ e.pick = d.pick /\ e.full = d.full /\ e.doomed = d.doomed
  BY DEF Build
<1> HIDE DEF e
<1>2. ChangedOf(e) = ChangedOf(d) /\ VanishedOf(e) = VanishedOf(d)
  BY <1>1 DEF ChangedOf, VanishedOf
<1>3. Reads(d) => Reads(e)
  BY <1>1 DEF Reads
<1>4. ASSUME NEW row, NEW failing, FlushedAs(d, row, failing) PROVE FlushedAs(e, row, failing)
  BY <1>1, <1>2, <1>4 DEF FlushedAs
<1> QED
  BY <1>1, <1>3, <1>4 DEF e

\* A commit: the table changes, and every build is told, or has ended.
LEMMA TableMoves ==
    ASSUME KnowledgeInv, UNCHANGED text,
           stamped' \subseteq Messages, promoting' \in [Promoters -> Messages \cup {NoRow}],
           knowledge' \in [Rows -> Source], chunks' \in [Rows -> SUBSET (Bodies \ {0})],
           build' \in [Ingests -> Build],
           \A c \in Ingests : build'[c] = NoBuild \/ build'[c] = [build[c] EXCEPT !.alone = FALSE],
           \A r \in Rows : SoundRow(knowledge'[r]) /\ (knowledge'[r].of = NoRow => chunks'[r] = {}),
           \A r \in Rows : knowledge'[r].of # NoRow => Mentioned(r, knowledge'[r].of) \/ r \in Fresh,
           \A c \in Ingests : build'[c] # NoBuild /\ build[c].pc = "embed" =>
              \A r \in build[c].written : knowledge[r].of = NoRow <=> knowledge'[r].of = NoRow
    PROVE  KnowledgeInv'
<1>1. KnowledgeTypeOK /\ build \in [Ingests -> Build]
  BY KnowledgeTypes DEF KnowledgeInv
<1>2. KnowledgeTypeOK'
  BY <1>1 DEF KnowledgeTypeOK
<1>3. OriginsInv' /\ TableInv'
  BY DEF KnowledgeInv, OriginsInv, TableInv
<1>4. ASSUME NEW c \in Ingests
      PROVE  /\ BuildInv(c)'
             /\ \A r \in Rows : (build'[c].had[r].of = NoRow \/ build'[c].had[r].of = build[c].had[r].of)
                     /\ (build'[c].source[r].of = NoRow \/ build'[c].source[r].of = build[c].source[r].of)
             /\ build'[c].pc = "embed" => build[c].pc = "embed" /\ Touches(build'[c]) = Touches(build[c])
  <2>1. CASE build'[c] = NoBuild
    <3>1. BuildInv(c)'
      BY <2>1, NoBuildTypes DEF BuildInv, Flushes, Sees
    <3> QED
      BY <2>1, <3>1, NoBuildTypes
  <2>2. CASE build'[c] # NoBuild
    <3>1. PICK d \in Build : d = build[c]
      BY <1>1
    <3>2. PICK e \in Build : e = [d EXCEPT !.alone = FALSE] /\ e = build'[c]
      BY <2>2, <3>1, OverlappedReads
    <3>3. /\ e.alone = FALSE /\ e.pc = d.pc /\ e.had = d.had /\ e.source = d.source
          /\ e.written = d.written /\ e.removed = d.removed
          /\ Reads(d) => Reads(e)
          /\ \A row, failing : FlushedAs(d, row, failing) => FlushedAs(e, row, failing)
      BY <3>2, OverlappedReads
    <3>4. Reads(d) /\ Flushes(d, chunks) /\ Sees(d, knowledge)
      BY <3>1 DEF KnowledgeInv, BuildInv
    <3>5. Flushes(e, chunks')
      BY <3>3, <3>4 DEF Flushes, Dooms
    <3>6. Sees(e, knowledge')
      <4>1. d.pc = "embed" => \A r \in d.written : knowledge[r].of = NoRow <=> knowledge'[r].of = NoRow
        BY <2>2, <3>1
      <4> QED
        BY <3>3, <3>4, <4>1 DEF Sees
    <3>7. BuildInv(c)'
      BY <3>2, <3>3, <3>4, <3>5, <3>6 DEF BuildInv
    <3> QED
      BY <3>1, <3>2, <3>3, <3>7 DEF Touches
  <2> QED
    BY <2>1, <2>2
<1>5. ASSUME NEW c \in Ingests, NEW e \in Ingests, c # e PROVE Apart(build[c], build[e])'
  <2>1. Apart(build[c], build[e])
    BY <1>5 DEF KnowledgeInv
  <2> QED
    BY <1>4, <2>1 DEF Apart
<1>6. OneKey'
  <2> SUFFICES ASSUME NEW r \in Rows, NEW o, NEW i, Mentioned(r, o)', Mentioned(r, i)'
               PROVE  o = i
    BY DEF OneKey
  <2>1. ASSUME NEW x, Mentioned(r, x)'
        PROVE  Mentioned(r, x) \/ (r \in Fresh /\ knowledge'[r].of = x)
    <3>1. x # NoRow /\ \/ knowledge'[r].of = x
                       \/ \E c \in Ingests : build'[c].had[r].of = x \/ build'[c].source[r].of = x
      BY <2>1 DEF Mentioned
    <3>2. CASE knowledge'[r].of = x
      BY <3>1, <3>2
    <3>3. ASSUME NEW c \in Ingests, build'[c].had[r].of = x \/ build'[c].source[r].of = x
          PROVE  Mentioned(r, x)
      BY <1>4, <3>1, <3>3 DEF Mentioned
    <3> QED
      BY <3>1, <3>2, <3>3
  <2>2. CASE r \in Fresh
    BY <2>1, <2>2, FreshUnmentioned
  <2>3. CASE r \notin Fresh
    BY <2>1, <2>3 DEF KnowledgeInv, OneKey
  <2> QED
    BY <2>2, <2>3
<1> QED
  BY <1>2, <1>3, <1>4, <1>5, <1>6 DEF KnowledgeInv

\* Steps of the origins: no row and no build is touched.
LEMMA QuietInv ==
    ASSUME KnowledgeInv, UNCHANGED <<knowledge, chunks, build>>,
           text' \in [Origins -> Bodies], \A o \in Documents \cup Messages : text'[o] \in {0, 1},
           stamped' \subseteq Messages, promoting' \in [Promoters -> Messages \cup {NoRow}]
    PROVE  KnowledgeInv'
<1>1. KnowledgeTypeOK' /\ OriginsInv' /\ TableInv'
  BY DEF KnowledgeInv, KnowledgeTypeOK, OriginsInv, TableInv
<1>2. OneKey'
  <2>1. \A r, o : Mentioned(r, o)' <=> Mentioned(r, o)
    BY DEF Mentioned
  <2> QED
    BY <2>1 DEF KnowledgeInv, OneKey
<1>3. \A b \in Ingests : BuildInv(b)'
  BY DEF KnowledgeInv, BuildInv
<1>4. \A b, c \in Ingests : b # c => Apart(build[b], build[c])'
  BY DEF KnowledgeInv, Apart
<1> QED
  BY <1>1, <1>2, <1>3, <1>4 DEF KnowledgeInv

LEMMA OriginSteps ==
    ASSUME KnowledgeInv,
           \/ \E f \in Groups, t \in Bodies : EditField(f, t)
           \/ \E o \in Documents \cup Messages : AddOrigin(o) \/ RemoveOrigin(o)
           \/ \E p \in Promoters, m \in Messages : StartPromotion(p, m)
    PROVE  KnowledgeInv'
<1>0. /\ text \in [Origins -> Bodies] /\ stamped \subseteq Messages
      /\ promoting \in [Promoters -> Messages \cup {NoRow}]
      /\ \A o \in Documents \cup Messages : text[o] \in {0, 1}
  BY KnowledgeTypes DEF KnowledgeInv, OriginsInv
<1>1. ASSUME NEW f \in Groups, NEW t \in Bodies, EditField(f, t) PROVE KnowledgeInv'
  <2>1. text' = [text EXCEPT ![f] = t] /\ UNCHANGED <<stamped, promoting, knowledge, chunks, build>>
    BY <1>1 DEF EditField
  <2>2. text' \in [Origins -> Bodies]
    BY <1>0, <2>1
  <2>3. \A o \in Documents \cup Messages : text'[o] \in {0, 1}
    BY <1>0, <2>1, OriginKinds
  <2> QED
    BY <1>0, <2>1, <2>2, <2>3, QuietInv
<1>2. ASSUME NEW o \in Documents \cup Messages, AddOrigin(o) \/ RemoveOrigin(o) PROVE KnowledgeInv'
  <2>1. PICK t \in {0, 1} : text' = [text EXCEPT ![o] = t]
    BY <1>2 DEF AddOrigin, RemoveOrigin
  <2>2. UNCHANGED <<stamped, promoting, knowledge, chunks, build>>
    BY <1>2 DEF AddOrigin, RemoveOrigin
  <2>3. text' \in [Origins -> Bodies]
    BY <1>0, <2>1, Keys
  <2>4. \A i \in Documents \cup Messages : text'[i] \in {0, 1}
    BY <1>0, <2>1, OriginKinds
  <2> QED
    BY <1>0, <2>2, <2>3, <2>4, QuietInv
<1>3. ASSUME NEW p \in Promoters, NEW m \in Messages, StartPromotion(p, m) PROVE KnowledgeInv'
  <2>1. promoting' = [promoting EXCEPT ![p] = m]
        /\ UNCHANGED <<text, stamped, knowledge, chunks, build>>
    BY <1>3 DEF StartPromotion, originVars
  <2>2. promoting' \in [Promoters -> Messages \cup {NoRow}]
    BY <1>0, <2>1
  <2> QED
    BY <1>0, <2>1, <2>2, QuietInv
<1> QED
  BY <1>1, <1>2, <1>3

\* A build's written rows are those of what changed.
LEMMA WrittenIsLoaded ==
    ASSUME NEW d \in Build, NEW row, NEW failing, FlushedAs(d, row, failing), NEW r \in d.written
    PROVE  r \in Rows /\ \E o \in ChangedOf(d) : row[o] = r /\ d.source[r].of = o
BY DEF FlushedAs

LEMMA WrittenIsKnown ==
    ASSUME KnowledgeInv, NEW c \in Ingests, build[c].pc = "embed", NEW r \in build[c].written
    PROVE  r \in Rows /\ r \notin Fresh
<1>1. PICK d \in Build : d = build[c]
  BY KnowledgeTypes DEF KnowledgeInv
<1>2. PICK row, failing : FlushedAs(d, row, failing)
  BY <1>1 DEF KnowledgeInv, BuildInv, Flushes
<1>3. PICK o \in ChangedOf(d) : d.source[r].of = o /\ r \in Rows
  BY <1>1, <1>2, WrittenIsLoaded
<1>4. o # NoRow
  BY <1>3, OriginKinds DEF ChangedOf
<1> QED
  BY <1>1, <1>3, <1>4 DEF Fresh

\* A new row for a promoted message.
LEMMA PromoteInv == ASSUME KnowledgeInv, NEW p \in Promoters, Promote(p) PROVE KnowledgeInv'
<1>0. /\ text \in [Origins -> Bodies] /\ stamped \subseteq Messages
      /\ promoting \in [Promoters -> Messages \cup {NoRow}]
      /\ \A o \in Documents \cup Messages : text[o] \in {0, 1}
      /\ knowledge \in [Rows -> Source] /\ chunks \in [Rows -> SUBSET (Bodies \ {0})]
      /\ build \in [Ingests -> Build]
  BY KnowledgeTypes DEF KnowledgeInv, OriginsInv
<1>1. PICK m \in Messages : m = promoting[p]
  BY <1>0 DEF Promote
<1>2. promoting' \in [Promoters -> Messages \cup {NoRow}] /\ UNCHANGED <<text, chunks>>
  BY <1>0 DEF Promote, originVars
<1>3. CASE UNCHANGED <<stamped, knowledge, build>>
  BY <1>0, <1>2, <1>3, QuietInv
<1>4. CASE ~UNCHANGED <<stamped, knowledge, build>>
  <2>1. Fresh # {} /\ stamped' = stamped \cup {m} /\ build' = Overlapped
    BY <1>1, <1>4 DEF Promote
  <2>2. PICK key \in Fresh : key = CHOOSE r \in Fresh : TRUE
    BY <2>1
  <2> DEFINE new == [NoSource EXCEPT !.of = m, !.text = 1]
  <2>3. knowledge' = [knowledge EXCEPT ![key] = new]
    BY <1>1, <1>4, <2>2 DEF Promote
  <2>4. new.of = m /\ new.hash = 0 /\ new.text = 1 /\ new.status = "pending"
    BY DEF NoSource
  <2>5. new \in Source /\ new.of = m
    BY <2>4, Keys, OriginKinds, NoBuildTypes DEF Source
  <2>6. SoundRow(new)
    BY <2>4, OriginKinds DEF SoundRow
  <2> HIDE DEF new
  <2>7. key \in Rows /\ knowledge[key].of = NoRow
    BY DEF Fresh
  <2>8. /\ knowledge' \in [Rows -> Source] /\ knowledge'[key] = new
        /\ \A r \in Rows : r # key => knowledge'[r] = knowledge[r]
    BY <1>0, <2>3, <2>5, <2>7
  <2>9. \A r \in Rows : SoundRow(knowledge'[r]) /\ (knowledge'[r].of = NoRow => chunks'[r] = {})
    <3>1. m # NoRow
      BY OriginKinds
    <3> QED
      BY <1>2, <2>5, <2>6, <2>8, <3>1 DEF KnowledgeInv, TableInv
  <2>10. \A r \in Rows : knowledge'[r].of # NoRow => Mentioned(r, knowledge'[r].of) \/ r \in Fresh
    BY <2>8 DEF Mentioned
  <2>11. \A c \in Ingests : build'[c] = [build[c] EXCEPT !.alone = FALSE]
    BY <2>1 DEF Overlapped
  <2>12. build' \in [Ingests -> Build]
    BY <1>0, <2>1, OverlappedReads DEF Overlapped
  <2>13. \A c \in Ingests : build'[c] # NoBuild /\ build[c].pc = "embed" =>
           \A r \in build[c].written : knowledge[r].of = NoRow <=> knowledge'[r].of = NoRow
    BY <2>8, WrittenIsKnown
  <2>14. stamped' \subseteq Messages
    BY <1>0, <2>1
  <2>15. chunks' \in [Rows -> SUBSET (Bodies \ {0})]
    BY <1>0, <1>2
  <2> QED
    BY <1>2, <2>8, <2>9, <2>10, <2>11, <2>12, <2>13, <2>14, <2>15, TableMoves
<1> QED
  BY <1>3, <1>4

LEMMA SameKnowledge ==
    ASSUME KnowledgeInv, UNCHANGED knowledgeVars PROVE KnowledgeInv'
<1>1. UNCHANGED <<text, stamped, promoting, knowledge, chunks, build>>
  BY DEF knowledgeVars
<1>2. /\ text' \in [Origins -> Bodies] /\ \A o \in Documents \cup Messages : text'[o] \in {0, 1}
      /\ stamped' \subseteq Messages /\ promoting' \in [Promoters -> Messages \cup {NoRow}]
  BY <1>1, KnowledgeTypes DEF KnowledgeInv, OriginsInv
<1> QED
  BY <1>1, <1>2, QuietInv

LEMMA Injects ==
    ASSUME NEW S, NEW T, IsFiniteSet(S), IsFiniteSet(T), Cardinality(S) <= Cardinality(T)
    PROVE  \E n \in [S -> T] : \A x, y \in S : n[x] = n[y] => x = y
<1>1. Cardinality(S) \in Nat /\ ExistsBijection(1 .. Cardinality(S), S) /\ Cardinality(T) \in Nat
      /\ ExistsBijection(1 .. Cardinality(T), T)
  BY FS_CardinalityType
<1>2. PICK h \in [1 .. Cardinality(S) -> S] : \A x \in S : \E k \in 1 .. Cardinality(S) : h[k] = x
  BY <1>1 DEF ExistsBijection, Bijection, Injection, Surjection
<1>3. PICK f \in [S -> 1 .. Cardinality(S)] : \A x, y \in S : f[x] = f[y] => x = y
  <2> DEFINE place == [x \in S |-> CHOOSE k \in 1 .. Cardinality(S) : h[k] = x]
  <2>1. \A x \in S : place[x] \in 1 .. Cardinality(S) /\ h[place[x]] = x
    BY <1>2
  <2>2. place \in [S -> 1 .. Cardinality(S)]
    BY <2>1
  <2>3. \A x, y \in S : place[x] = place[y] => x = y
    BY <2>1
  <2> QED
    BY <2>2, <2>3
<1>4. PICK g \in [1 .. Cardinality(T) -> T] : \A x, y \in 1 .. Cardinality(T) : g[x] = g[y] => x = y
  BY <1>1 DEF ExistsBijection, Bijection, Injection, IsInjective
<1>5. \A x \in S : f[x] \in 1 .. Cardinality(T)
  BY <1>1, <1>3
<1> DEFINE n == [x \in S |-> g[f[x]]]
<1>6. n \in [S -> T]
  BY <1>4, <1>5
<1>7. \A x, y \in S : n[x] = n[y] => x = y
  BY <1>3, <1>4, <1>5
<1> QED
  BY <1>6, <1>7

\* A build ends, or its process does: it holds nothing.
LEMMA BuildEnds ==
    ASSUME KnowledgeInv, NEW b \in Ingests, Step(b, NoBuild),
           UNCHANGED <<originVars, stamped, promoting, knowledge, chunks>>
    PROVE  KnowledgeInv'
<1>1. Flushes(NoBuild, chunks) /\ Sees(NoBuild, knowledge) /\ \A c \in Ingests : Apart(NoBuild, build[c])
  BY NoBuildTypes DEF Flushes, Sees, Apart
<1>2. \A r \in Rows : NoBuild.had[r].of = NoRow /\ NoBuild.source[r].of = NoRow
  BY NoBuildTypes
<1> QED
  BY <1>1, <1>2, NoBuildTypes, BuildMoves DEF originVars

\* A build begins: it has read nothing.
LEMMA StartIngestInv == ASSUME KnowledgeInv, NEW b \in Ingests, StartIngest(b) PROVE KnowledgeInv'
<1>1. PICK full \in BOOLEAN : Step(b, [NoBuild EXCEPT !.pc = "origins", !.full = full,
                                       !.alone = TRUE, !.left = Origins])
  BY DEF StartIngest
<1>2. UNCHANGED <<text, stamped, promoting, knowledge, chunks>>
  BY DEF StartIngest, originVars
<1> DEFINE new == [NoBuild EXCEPT !.pc = "origins", !.full = full, !.alone = TRUE, !.left = Origins]
<1>3. /\ new \in Build /\ new.pc = "origins" /\ new.wants = NoBuild.wants
      /\ new.had = NoBuild.had /\ new.source = NoBuild.source
  BY NoBuildTypes DEF Build
<1>4. Step(b, new)
  BY <1>1
<1> HIDE DEF new
<1>5. Reads(new)
  BY <1>3, NoBuildTypes DEF Reads
<1>6. Flushes(new, chunks) /\ Sees(new, knowledge) /\ \A c \in Ingests : Apart(new, build[c])
  BY <1>3 DEF Flushes, Sees, Apart
<1>7. \A r \in Rows : new.had[r].of = NoRow /\ new.source[r].of = NoRow
  BY <1>3, NoBuildTypes
<1> QED
  BY <1>2, <1>3, <1>4, <1>5, <1>6, <1>7, BuildMoves

\* Texts are read: of an origin that can only be there or not, 0 or 1.
LEMMA ReadOriginsInv == ASSUME KnowledgeInv, NEW b \in Ingests, ReadOrigins(b) PROVE KnowledgeInv'
<1>1. /\ text \in [Origins -> Bodies] /\ \A o \in Documents \cup Messages : text[o] \in {0, 1}
  BY KnowledgeTypes DEF KnowledgeInv, OriginsInv
<1>2. PICK d \in Build : d = build[b]
  BY KnowledgeTypes DEF KnowledgeInv
<1>3. d.pc = "origins" /\ d.left \subseteq Origins /\ d.wants \in [Origins -> Bodies]
  BY <1>2, BuildFields DEF ReadOrigins
<1>4. UNCHANGED <<text, stamped, promoting, knowledge, chunks>>
  BY DEF ReadOrigins, originVars
<1>5. PICK S \in Selects(d.left) :
         Step(b, [d EXCEPT !.pc = IF d.left = S THEN "sources" ELSE "origins", !.left = d.left \ S,
                  !.wants = [o \in Origins |-> IF o \notin S THEN d.wants[o]
                                               ELSE IF o \in Messages \ stamped THEN 0 ELSE text[o]]])
  BY <1>2 DEF ReadOrigins
<1>6. PICK wants \in [Origins -> Bodies] :
         wants = [o \in Origins |-> IF o \notin S THEN d.wants[o]
                                    ELSE IF o \in Messages \ stamped THEN 0 ELSE text[o]]
  BY <1>1, <1>3, Keys
<1>7. PICK pc1 \in {"sources", "origins"} : pc1 = IF d.left = S THEN "sources" ELSE "origins"
  OBVIOUS
<1> DEFINE new == [d EXCEPT !.pc = pc1, !.left = d.left \ S, !.wants = wants]
<1>8. Step(b, new)
  BY <1>5, <1>6, <1>7
<1>9. /\ new \in Build /\ new.pc \in {"sources", "origins"} /\ new.wants = wants
      /\ new.had = d.had /\ new.source = d.source
  BY <1>3, <1>6, <1>7 DEF Build
<1> HIDE DEF new
<1>10. /\ \A o \in Documents \cup Messages : d.wants[o] \in {0, 1}
       /\ \A r \in Rows : SoundRow(d.had[r])
  BY <1>2 DEF KnowledgeInv, BuildInv, Reads
<1>11. \A o \in Documents \cup Messages : wants[o] \in {0, 1}
  BY <1>1, <1>6, <1>10, OriginKinds
<1>12. Reads(new)
  BY <1>9, <1>10, <1>11 DEF Reads
<1>13. Flushes(new, chunks) /\ Sees(new, knowledge) /\ \A c \in Ingests : Apart(new, build[c])
  BY <1>9 DEF Flushes, Sees, Apart
<1>14. \A r \in Rows : \A o : (o # NoRow /\ (new.had[r].of = o \/ new.source[r].of = o)) => Mentioned(r, o)
  BY <1>2, <1>9 DEF Mentioned
<1> QED
  BY <1>4, <1>8, <1>9, <1>12, <1>13, <1>14, BuildMoves

\* The rows are read as they are.
LEMMA ReadSourcesInv == ASSUME KnowledgeInv, NEW b \in Ingests, ReadSources(b) PROVE KnowledgeInv'
<1>1. PICK pick \in [Origins -> Rows \cup {NoRow}] :
         /\ \A o \in Origins : IF RowsOf(knowledge, o) = {} THEN pick[o] = NoRow
                               ELSE pick[o] \in RowsOf(knowledge, o)
         /\ Step(b, [build[b] EXCEPT !.pc = "load", !.had = knowledge, !.pick = pick])
  BY DEF ReadSources
<1>2. UNCHANGED <<text, stamped, promoting, knowledge, chunks>>
  BY DEF ReadSources, originVars
<1>3. PICK d \in Build : d = build[b]
  BY KnowledgeTypes DEF KnowledgeInv
<1>4. knowledge \in [Rows -> Source]
  BY KnowledgeTypes DEF KnowledgeInv
<1> DEFINE new == [d EXCEPT !.pc = "load", !.had = knowledge, !.pick = pick]
<1>5. /\ new \in Build /\ new.pc = "load" /\ new.wants = d.wants /\ new.source = d.source
      /\ new.had = knowledge /\ new.pick = pick
  BY <1>4 DEF Build
<1>6. Step(b, new)
  BY <1>1, <1>3
<1> HIDE DEF new
<1>7. Reads(new)
  <2>1. \A r \in Rows : SoundRow(knowledge[r])
    BY DEF KnowledgeInv, TableInv
  <2>2. \A o \in Documents \cup Messages : d.wants[o] \in {0, 1}
    BY <1>3 DEF KnowledgeInv, BuildInv, Reads
  <2>3. \A o \in Origins : IF pick[o] = NoRow THEN \A r \in Rows : knowledge[r].of # o
                           ELSE knowledge[pick[o]].of = o
    <3>1. \A o \in Origins, r \in Rows : r \in RowsOf(knowledge, o) <=> knowledge[r].of = o
      BY DEF RowsOf
    <3>2. \A o \in Origins : RowsOf(knowledge, o) \subseteq Rows
      BY DEF RowsOf
    <3> QED
      BY <1>1, <3>1, <3>2, Keys
  <2> QED
    BY <1>5, <2>1, <2>2, <2>3 DEF Reads
<1>8. Flushes(new, chunks) /\ Sees(new, knowledge) /\ \A c \in Ingests : Apart(new, build[c])
  BY <1>5 DEF Flushes, Sees, Apart
<1>9. \A r \in Rows : \A o : (o # NoRow /\ (new.had[r].of = o \/ new.source[r].of = o)) => Mentioned(r, o)
  BY <1>3, <1>5 DEF Mentioned
<1> QED
  BY <1>2, <1>5, <1>6, <1>7, <1>8, <1>9, BuildMoves

\* The rows of what changed: the one read, or a new one; no two origins share one.
LEMMA SyncRows ==
    ASSUME KnowledgeInv, NEW b \in Ingests, build[b].pc = "load",
           Cardinality(Missing(b)) <= Cardinality(Fresh)
    PROVE  LET d == build[b]
               row == [o \in Changed(b) |-> IF o \in Missing(b) THEN NewRows(b)[o] ELSE d.pick[o]]
           IN  /\ Changed(b) = ChangedOf(d) /\ row \in [ChangedOf(d) -> Rows]
               /\ \A o, i \in ChangedOf(d) : row[o] = row[i] => o = i
               /\ \A o \in ChangedOf(d) : IF d.pick[o] = NoRow THEN row[o] \in Fresh /\ d.had[row[o]].of = NoRow
                                          ELSE row[o] = d.pick[o] /\ d.had[row[o]].of = o
<1>1. PICK d \in Build : d = build[b]
  BY KnowledgeTypes DEF KnowledgeInv
<1>2. Changed(b) = ChangedOf(d) /\ Missing(b) = {o \in ChangedOf(d) : d.pick[o] = NoRow}
  BY <1>1 DEF Changed, ChangedOf, Missing
<1>3. /\ ChangedOf(d) \subseteq Origins /\ Missing(b) \subseteq Origins /\ Fresh \subseteq Rows
      /\ d.pick \in [Origins -> Rows \cup {NoRow}]
  BY <1>2, BuildFields DEF ChangedOf, Fresh
<1>4. IsFiniteSet(Missing(b)) /\ IsFiniteSet(Fresh)
  BY <1>3, Keys, FS_Subset
<1>5. \E n \in [Missing(b) -> Fresh] : \A o, i \in Missing(b) : n[o] = n[i] => o = i
  BY <1>4, Injects
<1>6. PICK n \in [Missing(b) -> Fresh] : n = NewRows(b) /\ \A o, i \in Missing(b) : n[o] = n[i] => o = i
  BY <1>5 DEF NewRows
<1> DEFINE row == [o \in Changed(b) |-> IF o \in Missing(b) THEN NewRows(b)[o] ELSE build[b].pick[o]]
<1>7. \A o \in ChangedOf(d) : row[o] = IF d.pick[o] = NoRow THEN n[o] ELSE d.pick[o]
  BY <1>1, <1>2, <1>6
<1>8. \A o \in ChangedOf(d) : d.pick[o] = NoRow => n[o] \in Fresh
  BY <1>2, <1>6
<1>9. \A r \in Fresh : d.had[r].of = NoRow
  BY <1>1 DEF Fresh
<1>10. \A o \in ChangedOf(d) : d.pick[o] # NoRow => d.pick[o] \in Rows /\ d.had[d.pick[o]].of = o
  BY <1>1, <1>3 DEF KnowledgeInv, BuildInv, Reads
<1>11. row = [o \in ChangedOf(d) |-> row[o]]
  BY <1>2
<1> HIDE DEF row
<1>12. \A o \in ChangedOf(d) : IF d.pick[o] = NoRow THEN row[o] \in Fresh /\ d.had[row[o]].of = NoRow
                               ELSE row[o] = d.pick[o] /\ d.had[row[o]].of = o
  BY <1>7, <1>8, <1>9, <1>10
<1>13. row \in [ChangedOf(d) -> Rows]
  <2>1. \A o \in ChangedOf(d) : row[o] \in Rows
    BY <1>3, <1>7, <1>8, <1>10
  <2> QED
    BY <1>11, <2>1
<1>14. \A o, i \in ChangedOf(d) : row[o] = row[i] => o = i
  <2> SUFFICES ASSUME NEW o \in ChangedOf(d), NEW i \in ChangedOf(d), row[o] = row[i] PROVE o = i
    OBVIOUS
  <2>1. o # NoRow /\ i # NoRow
    BY <1>3, Keys
  <2>2. CASE d.pick[o] = NoRow /\ d.pick[i] = NoRow
    BY <1>2, <1>6, <1>7, <2>2
  <2>3. CASE d.pick[o] # NoRow
    BY <1>12, <2>1, <2>3
  <2>4. CASE d.pick[i] # NoRow
    BY <1>12, <2>1, <2>4
  <2> QED
    BY <2>2, <2>3, <2>4
<1> QED
  BY <1>1, <1>2, <1>12, <1>13, <1>14 DEF row

\* The flush: each origin that changed has a row, loaded; what vanished is to go.
LEMMA SyncInv == ASSUME KnowledgeInv, NEW b \in Ingests, Sync(b) PROVE KnowledgeInv'
<1> DEFINE rows == [o \in Changed(b) |-> IF o \in Missing(b) THEN NewRows(b)[o] ELSE build[b].pick[o]]
<1>1. PICK d \in Build : d = build[b] /\ d.pc = "load"
  BY KnowledgeTypes DEF KnowledgeInv, Sync
<1>2. UNCHANGED <<text, stamped, promoting, knowledge, chunks, originVars>>
  BY DEF Sync, originVars
<1>3. Cardinality(Missing(b)) <= Cardinality(Fresh)
  BY DEF Sync
<1>4. PICK row \in [ChangedOf(d) -> Rows] :
         /\ row = rows /\ Changed(b) = ChangedOf(d)
         /\ \A o, i \in ChangedOf(d) : row[o] = row[i] => o = i
         /\ \A o \in ChangedOf(d) : IF d.pick[o] = NoRow THEN row[o] \in Fresh /\ d.had[row[o]].of = NoRow
                                    ELSE row[o] = d.pick[o] /\ d.had[row[o]].of = o
  <2>1. build[b].pc = "load"
    BY <1>1
  <2>2. /\ Changed(b) = ChangedOf(build[b]) /\ rows \in [ChangedOf(build[b]) -> Rows]
        /\ \A o, i \in ChangedOf(build[b]) : rows[o] = rows[i] => o = i
        /\ \A o \in ChangedOf(build[b]) :
              IF build[b].pick[o] = NoRow THEN rows[o] \in Fresh /\ build[b].had[rows[o]].of = NoRow
              ELSE rows[o] = build[b].pick[o] /\ build[b].had[rows[o]].of = o
    BY <1>3, <2>1, SyncRows
  <2> HIDE DEF rows
  <2> QED
    BY <1>1, <2>2
<1> DEFINE touched == {rows[o] : o \in Changed(b)}
           at(r) == CHOOSE o \in Changed(b) : rows[o] = r
           src(failing) == [r \in Rows |-> IF r \in touched THEN Loaded(b, at(r), failing)
                                           ELSE build[b].had[r]]
           wr(failing) == {r \in touched : src(failing)[r] # build[b].had[r]}
           dm == [r \in Rows |-> IF r \in touched THEN chunks[r] ELSE {}]
<1>5. PICK failing \in SUBSET (Changed(b) \cap Documents) :
         /\ (wr(failing) \cup Vanished(b)) \cap Locked(b) = {}
         /\ IF \E r \in wr(failing) : build[b].had[r].of # NoRow /\ knowledge[r].of = NoRow
            THEN Step(b, NoBuild)
            ELSE Step(b, [build[b] EXCEPT !.pc = "embed", !.source = src(failing),
                          !.written = wr(failing), !.removed = Vanished(b), !.doomed = dm])
  BY DEF Sync
<1> HIDE DEF rows
<1> DEFINE source == src(failing)
           written == wr(failing)
<1>6. CASE Step(b, NoBuild)
  BY <1>2, <1>6, BuildEnds
<1>7. CASE ~Step(b, NoBuild)
  <2>1. /\ \A r \in written : d.had[r].of # NoRow => knowledge[r].of # NoRow
        /\ Step(b, [d EXCEPT !.pc = "embed", !.source = source, !.written = written,
                             !.removed = Vanished(b), !.doomed = dm])
        /\ (written \cup Vanished(b)) \cap Locked(b) = {}
    BY <1>1, <1>5, <1>7
  <2>2. \A o \in ChangedOf(d) : at(row[o]) = o /\ row[o] \in Rows
    BY <1>4
  <2>3. \A o \in ChangedOf(d) : source[row[o]] = Loaded(b, o, failing)
    BY <1>1, <1>4, <2>2
  <2>4. \A r \in Rows : (\A o \in ChangedOf(d) : row[o] # r) => source[r] = d.had[r] /\ dm[r] = {}
    BY <1>1, <1>4
  <2>5. \A o \in ChangedOf(d) : dm[row[o]] = chunks[row[o]]
    BY <1>4, <2>2
  <2>6. dm \in [Rows -> SUBSET Bodies]
    <3>1. chunks \in [Rows -> SUBSET (Bodies \ {0})]
      BY KnowledgeTypes DEF KnowledgeInv
    <3>2. \A r \in Rows : chunks[r] \in SUBSET Bodies
      BY <3>1
    <3> QED
      BY <3>2
  <2>7. written = {r \in Rows : source[r] # d.had[r]}
    BY <1>1, <1>4, <2>4
  <2>8. ChangedOf(d) \subseteq Origins /\ d.wants \in [Origins -> Bodies] /\ d.had \in [Rows -> Source]
        /\ d.pick \in [Origins -> Rows \cup {NoRow}]
    BY BuildFields DEF ChangedOf
  <2>9. \A o \in ChangedOf(d) :
          /\ Loaded(b, o, failing) \in Source /\ Loaded(b, o, failing).of = o
          /\ Loaded(b, o, failing).hash = d.wants[o]
          /\ Loaded(b, o, failing).text = IF o \in failing THEN 0 ELSE d.wants[o]
          /\ Loaded(b, o, failing).status = IF o \in failing THEN "failed" ELSE "extracted"
    BY <1>1, <2>8, Keys DEF Loaded, Source, SourceStatuses
  <2>10. source \in [Rows -> Source]
    <3>1. source = [r \in Rows |-> source[r]]
      OBVIOUS
    <3> HIDE DEF source
    <3>2. ASSUME NEW r \in Rows PROVE source[r] \in Source
      <4>1. CASE \E o \in ChangedOf(d) : row[o] = r
        BY <2>3, <2>9, <4>1
      <4>2. CASE \A o \in ChangedOf(d) : row[o] # r
        BY <2>4, <2>8, <4>2
      <4> QED
        BY <4>1, <4>2
    <3> QED
      BY <3>1, <3>2
  <2>11. Vanished(b) = VanishedOf(d) /\ VanishedOf(d) \subseteq Rows
    BY <1>1, <2>8 DEF Vanished, VanishedOf
  <2> HIDE DEF source, written, dm, touched, at
  <2> DEFINE new == [d EXCEPT !.pc = "embed", !.source = source, !.written = written,
                              !.removed = Vanished(b), !.doomed = dm]
  <2>12. written \subseteq Rows
    BY <2>7
  <2>13. /\ new \in Build /\ new.pc = "embed" /\ new.source = source /\ new.written = written
         /\ new.removed = VanishedOf(d) /\ new.doomed = dm /\ new.had = d.had /\ new.pick = d.pick
         /\ new.wants = d.wants /\ new.full = d.full /\ new.alone = d.alone
    BY <2>6, <2>10, <2>11, <2>12 DEF Build
  <2>14. Step(b, new)
    BY <2>1
  <2> HIDE DEF new
  <2>15. ChangedOf(new) = ChangedOf(d) /\ VanishedOf(new) = VanishedOf(d)
    BY <2>13 DEF ChangedOf, VanishedOf
  <2>16. Reads(d) /\ Sees(d, knowledge)
    BY <1>1 DEF KnowledgeInv, BuildInv
  <2>17. Reads(new)
    BY <1>1, <2>13, <2>16 DEF Reads
  <2>18. FlushedAs(new, row, failing)
    <3>1. \A o \in ChangedOf(d) :
            /\ IF d.pick[o] = NoRow THEN d.had[row[o]].of = NoRow ELSE row[o] = d.pick[o]
            /\ source[row[o]].of = o /\ source[row[o]].hash = d.wants[o]
            /\ source[row[o]].text = IF o \in failing THEN 0 ELSE d.wants[o]
            /\ source[row[o]].status = IF o \in failing THEN "failed" ELSE "extracted"
      BY <1>4, <2>3, <2>9
    <3> QED
      BY <2>4, <2>7, <2>13, <2>15, <3>1 DEF FlushedAs
  <2>19. Flushes(new, chunks)
    BY <2>5, <2>13, <2>15, <2>18 DEF Flushes, Dooms
  <2>20. \A r \in written : \E o \in ChangedOf(d) : row[o] = r
    BY <2>4, <2>7
  <2>21. Sees(new, knowledge)
    <3>1. ASSUME NEW r \in written, d.had[r].of = NoRow PROVE knowledge[r].of = NoRow
      <4>1. PICK o \in ChangedOf(d) : row[o] = r
        BY <2>20
      <4>2. o # NoRow
        BY <2>8, Keys
      <4>3. r \in Fresh
        BY <1>4, <3>1, <4>1, <4>2
      <4> QED
        BY <4>3 DEF Fresh
    <3> QED
      BY <1>1, <2>1, <2>13, <2>16, <3>1 DEF Sees
  <2>22. \A c \in Ingests \ {b} : Apart(new, build[c])
    <3>1. \A c \in Ingests \ {b} : build[c].pc = "embed" => Touches(build[c]) \subseteq Locked(b)
      BY DEF Locked, Flushed, Touches
    <3>2. Touches(new) = written \cup Vanished(b)
      BY <2>11, <2>13 DEF Touches
    <3> QED
      BY <2>1, <3>1, <3>2 DEF Apart
  <2>23. ASSUME NEW r \in Rows, NEW o, o # NoRow, new.had[r].of = o \/ new.source[r].of = o
         PROVE  Mentioned(r, o) \/ (r \in Fresh /\ new.had[r].of = NoRow)
    <3>1. CASE d.had[r].of = o
      BY <1>1, <2>23, <3>1 DEF Mentioned
    <3>2. CASE d.had[r].of # o
      <4>1. source[r].of = o
        BY <2>13, <2>23, <3>2
      <4>2. PICK i \in ChangedOf(d) : row[i] = r
        BY <2>4, <3>2, <4>1
      <4>3. i = o
        BY <2>3, <2>9, <4>1, <4>2
      <4>4. d.pick[o] = NoRow
        BY <1>4, <3>2, <4>2, <4>3
      <4> QED
        BY <1>4, <2>13, <4>2, <4>3, <4>4
    <3> QED
      BY <3>1, <3>2
  <2> QED
    BY <1>2, <2>13, <2>14, <2>17, <2>19, <2>21, <2>22, <2>23, BuildMoves
<1> QED
  BY <1>6, <1>7

\* What the commit of a build leaves of a row: nothing of what vanished; of what it loaded, the
\* columns it changed; the rest as it is.
LEMMA CommitRows ==
    ASSUME KnowledgeInv, NEW b \in Ingests, CommitBuild(b), NEW r \in Rows
    PROVE  LET d == build[b] IN
           /\ r \in d.removed => knowledge'[r] = NoSource /\ chunks'[r] = {}
           /\ r \notin d.removed /\ r \notin d.written =>
                 knowledge'[r] = knowledge[r] /\ chunks'[r] = chunks[r] \ d.doomed[r]
           /\ r \notin d.removed /\ r \in d.written =>
                 /\ knowledge'[r] =
                      [of |-> d.source[r].of,
                       hash |-> IF d.source[r].hash # d.had[r].hash THEN d.source[r].hash
                                ELSE knowledge[r].hash,
                       text |-> IF d.source[r].text # d.had[r].text THEN d.source[r].text
                                ELSE knowledge[r].text,
                       status |-> IF d.source[r].status = "extracted" THEN "embedded"
                                  ELSE IF d.source[r].status # d.had[r].status THEN d.source[r].status
                                  ELSE knowledge[r].status]
                 /\ chunks'[r] = (chunks[r] \ d.doomed[r]) \cup
                                 (IF d.source[r].status = "extracted" THEN PiecesOf(d.source[r].text) ELSE {})
<1>1. PICK d : d = build[b]
  OBVIOUS
<1> DEFINE embeds(k) == k \in build[b].written /\ build[b].source[k].status = "extracted"
           column(k, f) == IF build[b].source[k][f] # build[b].had[k][f] THEN build[b].source[k][f]
                           ELSE knowledge[k][f]
<1>2. knowledge'[r] = IF r \in build[b].removed THEN NoSource
                      ELSE IF r \notin build[b].written THEN knowledge[r]
                      ELSE [of |-> build[b].source[r].of, hash |-> column(r, "hash"),
                            text |-> column(r, "text"),
                            status |-> IF embeds(r) THEN "embedded" ELSE column(r, "status")]
  BY DEF CommitBuild
<1>3. chunks'[r] = IF r \in build[b].removed THEN {}
                   ELSE (chunks[r] \ build[b].doomed[r])
                        \cup (IF embeds(r) THEN PiecesOf(build[b].source[r].text) ELSE {})
  BY DEF CommitBuild
<1>4. CASE r \in build[b].removed
  BY <1>2, <1>3, <1>4
<1>5. CASE r \notin build[b].removed /\ r \notin build[b].written
  BY <1>2, <1>3, <1>5
<1>6. CASE r \notin build[b].removed /\ r \in build[b].written
  BY <1>2, <1>3, <1>6
<1> QED
  BY <1>4, <1>5, <1>6

LEMMA UnwrittenRows ==
    ASSUME KnowledgeInv, NEW b \in Ingests, CommitBuild(b), NEW d, d = build[b], NEW r \in Rows
    PROVE  /\ r \in d.removed => knowledge'[r] = NoSource /\ chunks'[r] = {}
           /\ r \notin d.removed /\ r \notin d.written =>
                 knowledge'[r] = knowledge[r] /\ chunks'[r] = chunks[r] \ d.doomed[r]
<1>1. /\ r \in build[b].removed => knowledge'[r] = NoSource
      /\ r \notin build[b].removed /\ r \notin build[b].written => knowledge'[r] = knowledge[r]
  BY DEF CommitBuild
<1>2. /\ r \in build[b].removed => chunks'[r] = {}
      /\ r \notin build[b].removed /\ r \notin build[b].written =>
            chunks'[r] = chunks[r] \ build[b].doomed[r]
  BY DEF CommitBuild
<1> QED
  BY <1>1, <1>2

\* A row to go is not one to write.
LEMMA RemovedIsUnwritten ==
    ASSUME NEW d \in Build, Reads(d), d.pc = "embed", NEW row, NEW failing, FlushedAs(d, row, failing),
           NEW r \in d.removed
    PROVE  /\ r \in Rows /\ r \notin d.written /\ d.had[r].of # NoRow /\ d.wants[d.had[r].of] = 0
           /\ \A o \in ChangedOf(d) : row[o] # r
<1>1. PICK i \in Origins : d.wants[i] = 0 /\ r = d.pick[i] /\ r # NoRow
  BY DEF FlushedAs, VanishedOf
<1>2. d.had[r].of = i /\ i # NoRow /\ r \in Rows
  BY <1>1, BuildFields, Keys DEF Reads
<1>3. ASSUME NEW o \in ChangedOf(d), row[o] = r PROVE FALSE
  <2>1. o \in Origins /\ d.wants[o] # 0
    BY DEF ChangedOf
  <2>2. d.pick[o] = NoRow => d.had[r].of = NoRow
    BY <1>3 DEF FlushedAs
  <2>3. d.pick[o] # NoRow => r = d.pick[o] /\ d.had[r].of = o
    BY <1>3, <2>1 DEF FlushedAs, Reads
  <2> QED
    BY <1>1, <1>2, <2>1, <2>2, <2>3
<1> QED
  BY <1>1, <1>2, <1>3, WrittenIsLoaded

\* A row that is written was of its origin, or is new.
WasOf(d, r, o, table) ==
    \/ d.pick[o] = NoRow /\ d.had[r] = NoSource /\ table[r] = NoSource
    \/ d.pick[o] = r /\ d.had[r].of = o /\ table[r].of = o

LEMMA WrittenWas ==
    ASSUME KnowledgeInv, NEW b \in Ingests, NEW d \in Build, d = build[b], d.pc = "embed",
           NEW row, NEW failing, FlushedAs(d, row, failing),
           NEW o \in ChangedOf(d), row[o] \in d.written
    PROVE  WasOf(d, row[o], o, knowledge)
<1> SUFFICES \/ d.pick[o] = NoRow /\ d.had[row[o]] = NoSource /\ knowledge[row[o]] = NoSource
             \/ d.pick[o] = row[o] /\ d.had[row[o]].of = o /\ knowledge[row[o]].of = o
  BY DEF WasOf
<1>1. o \in Origins /\ o # NoRow /\ row[o] \in Rows
  <2>1. o \in Origins
    BY DEF ChangedOf
  <2>2. row \in [ChangedOf(d) -> Rows]
    BY DEF FlushedAs
  <2> QED
    BY <2>1, <2>2, Keys
<1>2. SoundRow(d.had[row[o]]) /\ SoundRow(knowledge[row[o]]) /\ Reads(d) /\ Sees(d, knowledge)
  BY <1>1 DEF KnowledgeInv, BuildInv, Reads, TableInv
<1>3. d.had[row[o]].of = NoRow <=> knowledge[row[o]].of = NoRow
  BY <1>2 DEF Sees
<1>4. CASE d.pick[o] = NoRow
  <2>1. d.had[row[o]].of = NoRow
    BY <1>4 DEF FlushedAs
  <2> QED
    BY <1>2, <1>3, <1>4, <2>1 DEF SoundRow
<1>5. CASE d.pick[o] # NoRow
  <2>1. d.pick[o] = row[o] /\ d.had[row[o]].of = o
    BY <1>1, <1>2, <1>5 DEF FlushedAs, Reads
  <2>2. knowledge[row[o]].of # NoRow
    BY <1>1, <1>3, <2>1
  <2>3. Mentioned(row[o], o) /\ Mentioned(row[o], knowledge[row[o]].of)
    BY <1>1, <2>1, <2>2 DEF Mentioned
  <2> QED
    BY <1>1, <2>1, <2>3 DEF KnowledgeInv, OneKey
<1> QED
  BY <1>4, <1>5

\* A written row is sound, whatever was committed to it since it was read.
LEMMA WrittenSound ==
    ASSUME NEW o \in Origins, NEW src \in Source, NEW had \in Source, NEW row \in Source,
           NEW new, NEW want \in Bodies, NEW failed \in BOOLEAN,
           SoundRow(had), SoundRow(row),
           (had = NoSource /\ row = NoSource) \/ (had.of = o /\ row.of = o),
           want # 0, o \in Documents \cup Messages => want = 1, failed => o \in Documents,
           src.of = o, src.hash = want, src.text = IF failed THEN 0 ELSE want,
           src.status = IF failed THEN "failed" ELSE "extracted",
           new = [of |-> src.of,
                  hash |-> IF src.hash # had.hash THEN src.hash ELSE row.hash,
                  text |-> IF src.text # had.text THEN src.text ELSE row.text,
                  status |-> IF src.status = "extracted" THEN "embedded"
                             ELSE IF src.status # had.status THEN src.status ELSE row.status]
    PROVE  new \in Source /\ SoundRow(new) /\ new.of = o
<1>1. /\ new.of = o
      /\ new.hash = IF src.hash # had.hash THEN src.hash ELSE row.hash
      /\ new.text = IF src.text # had.text THEN src.text ELSE row.text
      /\ new.status = IF src.status = "extracted" THEN "embedded"
                      ELSE IF src.status # had.status THEN src.status ELSE row.status
  OBVIOUS
<1>2. new \in Source
  <2>1. "embedded" \in SourceStatuses
    BY DEF SourceStatuses
  <2> QED
    BY <2>1, SourceFields DEF Source
<1>3. NoSource.hash = 0 /\ NoSource.text = 0 /\ NoSource.status = "pending"
  BY DEF NoSource
<1>4. o # NoRow
  BY Keys
<1>5. CASE o \in Groups
  <2>1. o \notin Documents /\ o \notin Messages /\ ~failed
    BY <1>5, OriginKinds
  <2>2. new.status = "embedded" /\ new.hash # 0 /\ new.text = new.hash
    BY <1>1, <1>3, <1>5, <2>1 DEF SoundRow
  <2> QED
    BY <1>1, <1>2, <1>4, <1>5, <2>1, <2>2 DEF SoundRow
<1>6. CASE o \in Documents
  <2>1. o \notin Groups /\ o \notin Messages /\ want = 1
    BY <1>6, OriginKinds
  <2>2. new.hash = 1 /\ new.text \in {0, 1}
    BY <1>1, <1>3, <1>6, <2>1 DEF SoundRow
  <2>3. new.status \in {"failed", "embedded"}
    BY <1>1, <1>3, <1>6 DEF SoundRow
  <2> QED
    BY <1>1, <1>2, <1>4, <1>6, <2>1, <2>2, <2>3 DEF SoundRow
<1>7. CASE o \in Messages
  <2>1. o \notin Groups /\ o \notin Documents /\ want = 1 /\ ~failed
    BY <1>7, OriginKinds
  <2>2. new.status = "embedded" /\ new.text = 1 /\ new.hash \in {0, 1}
    BY <1>1, <1>3, <1>7, <2>1 DEF SoundRow
  <2> QED
    BY <1>1, <1>2, <1>4, <1>7, <2>1, <2>2 DEF SoundRow
<1> QED
  BY <1>5, <1>6, <1>7, OriginKinds

LEMMA CommitBuildInv == ASSUME KnowledgeInv, NEW b \in Ingests, CommitBuild(b) PROVE KnowledgeInv'
<1>1. PICK d \in Build : d = build[b] /\ d.pc = "embed"
  BY KnowledgeTypes DEF KnowledgeInv, CommitBuild
<1>2. Reads(d) /\ Flushes(d, chunks) /\ Sees(d, knowledge)
  BY <1>1 DEF KnowledgeInv, BuildInv
<1>3. PICK row, failing : FlushedAs(d, row, failing)
  BY <1>1, <1>2 DEF Flushes
<1>4. /\ knowledge \in [Rows -> Source] /\ chunks \in [Rows -> SUBSET (Bodies \ {0})]
      /\ build \in [Ingests -> Build] /\ stamped \subseteq Messages
      /\ promoting \in [Promoters -> Messages \cup {NoRow}]
  BY KnowledgeTypes DEF KnowledgeInv
<1>5. UNCHANGED <<text, stamped, promoting>> /\ build' = [Overlapped EXCEPT ![b] = NoBuild]
  BY DEF CommitBuild, originVars
<1>6. \A r \in Rows : /\ r \in d.removed => knowledge'[r] = NoSource /\ chunks'[r] = {}
                      /\ r \notin d.removed /\ r \notin d.written =>
                           knowledge'[r] = knowledge[r] /\ chunks'[r] = chunks[r] \ d.doomed[r]
  BY <1>1, UnwrittenRows
<1>7. ASSUME NEW r \in d.written
      PROVE  /\ r \in Rows /\ knowledge'[r] \in Source /\ SoundRow(knowledge'[r])
             /\ knowledge'[r].of = d.source[r].of /\ d.source[r].of # NoRow
  <2>1. PICK o \in ChangedOf(d) : row[o] = r /\ r \in Rows
    BY <1>3, WrittenIsLoaded
  <2>2. r \notin d.removed
    BY <1>1, <1>2, <1>3, RemovedIsUnwritten
  <2>3. o \in Origins /\ d.wants[o] # 0 /\ d.wants[o] \in Bodies /\ o # NoRow
    BY BuildFields, Keys DEF ChangedOf
  <2>4. PICK src \in Source : src = d.source[r]
    BY <2>1, BuildFields
  <2>5. PICK had \in Source : had = d.had[r]
    BY <2>1, BuildFields
  <2>6. PICK old \in Source : old = knowledge[r]
    BY <1>4, <2>1
  <2>7. SoundRow(had) /\ SoundRow(old)
    BY <1>2, <2>1, <2>5, <2>6 DEF KnowledgeInv, TableInv, Reads
  <2>8. \/ had = NoSource /\ old = NoSource
        \/ had.of = o /\ old.of = o
    <3>1. row[o] \in d.written
      BY <2>1
    <3>2. \/ d.had[row[o]] = NoSource /\ knowledge[row[o]] = NoSource
          \/ d.had[row[o]].of = o /\ knowledge[row[o]].of = o
      <4>1. /\ d \in Build /\ d = build[b] /\ d.pc = "embed" /\ FlushedAs(d, row, failing)
            /\ o \in ChangedOf(d)
        BY <1>1, <1>3, <2>1
      <4>2. WasOf(d, row[o], o, knowledge)
        BY <3>1, <4>1, WrittenWas
      <4> QED
        BY <4>2 DEF WasOf
    <3>3. d.had[row[o]] = had /\ knowledge[row[o]] = old
      BY <2>1, <2>5, <2>6
    <3>4. CASE d.had[row[o]] = NoSource /\ knowledge[row[o]] = NoSource
      BY <3>3, <3>4
    <3>5. CASE d.had[row[o]].of = o /\ knowledge[row[o]].of = o
      <4>1. had.of = o
        BY <3>3, <3>5
      <4>2. old.of = o
        BY <3>3, <3>5
      <4> QED
        BY <4>1, <4>2
    <3> QED
      BY <3>2, <3>4, <3>5
  <2>9. o \in Documents \cup Messages => d.wants[o] = 1
    BY <1>2, <2>3 DEF Reads
  <2>10. /\ o \in failing => o \in Documents
         /\ src.of = o /\ src.hash = d.wants[o] /\ src.text = IF o \in failing THEN 0 ELSE d.wants[o]
         /\ src.status = IF o \in failing THEN "failed" ELSE "extracted"
    BY <1>3, <2>1, <2>4 DEF FlushedAs
  <2>11. PICK new : /\ new = knowledge'[r]
                    /\ new = [of |-> src.of,
                              hash |-> IF src.hash # had.hash THEN src.hash ELSE old.hash,
                              text |-> IF src.text # had.text THEN src.text ELSE old.text,
                              status |-> IF src.status = "extracted" THEN "embedded"
                                         ELSE IF src.status # had.status THEN src.status ELSE old.status]
    <3>1. knowledge'[r] =
            [of |-> build[b].source[r].of,
             hash |-> IF build[b].source[r].hash # build[b].had[r].hash THEN build[b].source[r].hash
                      ELSE knowledge[r].hash,
             text |-> IF build[b].source[r].text # build[b].had[r].text THEN build[b].source[r].text
                      ELSE knowledge[r].text,
             status |-> IF build[b].source[r].status = "extracted" THEN "embedded"
                        ELSE IF build[b].source[r].status # build[b].had[r].status
                        THEN build[b].source[r].status ELSE knowledge[r].status]
      BY <1>1, <2>1, <2>2, CommitRows
    <3> QED
      BY <1>1, <2>4, <2>5, <2>6, <3>1
  <2>12. PICK failed \in BOOLEAN : failed <=> o \in failing
    <3>1. CASE o \in failing
      <4>1. TRUE <=> o \in failing
        BY <3>1
      <4> QED
        BY <4>1
    <3>2. CASE o \notin failing
      <4>1. FALSE <=> o \in failing
        BY <3>2
      <4> QED
        BY <4>1
    <3> QED
      BY <3>1, <3>2
  <2>13. new \in Source /\ SoundRow(new) /\ new.of = o
    <3>1. /\ src.text = IF failed THEN 0 ELSE d.wants[o]
          /\ src.status = IF failed THEN "failed" ELSE "extracted"
          /\ failed => o \in Documents
      BY <2>10, <2>12
    <3> QED
      BY <2>3, <2>7, <2>8, <2>9, <2>10, <2>11, <3>1, WrittenSound
  <2> QED
    BY <2>1, <2>3, <2>4, <2>10, <2>11, <2>13
<1>8. d.written \subseteq Rows
  BY <1>7
<1>9. \A r \in Rows : knowledge'[r] \in Source /\ SoundRow(knowledge'[r])
  <2> TAKE r \in Rows
  <2>1. CASE r \in d.removed
    BY <1>6, <2>1, NoBuildTypes
  <2>2. CASE r \in d.written
    BY <1>7, <2>2
  <2>3. CASE r \notin d.removed /\ r \notin d.written
    BY <1>4, <1>6, <2>3 DEF KnowledgeInv, TableInv
  <2> QED
    BY <2>1, <2>2, <2>3
<1>10. knowledge' \in [Rows -> Source] /\ chunks' \in [Rows -> SUBSET (Bodies \ {0})]
  <2>1. knowledge' = [r \in Rows |-> knowledge'[r]] /\ chunks' = [r \in Rows |-> chunks'[r]]
    BY DEF CommitBuild
  <2>2. \A r \in Rows : chunks'[r] \in SUBSET (Bodies \ {0})
    <3> TAKE r \in Rows
    <3>1. CASE r \in d.removed
      BY <1>6, <3>1
    <3>2. CASE r \notin d.removed /\ r \notin d.written
      BY <1>4, <1>6, <3>2
    <3>3. CASE r \notin d.removed /\ r \in d.written
      <4>1. d.source[r] \in Source
        BY BuildFields
      <4>2. PiecesOf(d.source[r].text) \in SUBSET (Bodies \ {0})
        BY <4>1, SourceFields DEF PiecesOf
      <4>3. chunks'[r] = (chunks[r] \ d.doomed[r]) \cup
                         (IF d.source[r].status = "extracted" THEN PiecesOf(d.source[r].text) ELSE {})
        BY <1>1, <3>3, CommitRows
      <4>4. chunks[r] \ d.doomed[r] \in SUBSET (Bodies \ {0})
        BY <1>4
      <4> QED
        BY <4>2, <4>3, <4>4
    <3> QED
      BY <3>1, <3>2, <3>3
  <2> QED
    BY <1>9, <2>1, <2>2
<1>11. \A r \in Rows : knowledge'[r].of = NoRow => chunks'[r] = {}
  <2> TAKE r \in Rows
  <2>1. CASE r \in d.removed
    BY <1>6, <2>1
  <2>2. CASE r \in d.written
    BY <1>7, <2>2
  <2>3. CASE r \notin d.removed /\ r \notin d.written
    BY <1>6, <2>3 DEF KnowledgeInv, TableInv
  <2> QED
    BY <2>1, <2>2, <2>3
<1>12. \A r \in Rows : knowledge'[r].of # NoRow => Mentioned(r, knowledge'[r].of)
  <2> TAKE r \in Rows
  <2>1. CASE r \in d.removed
    BY <1>6, <2>1, NoBuildTypes
  <2>2. CASE r \in d.written
    BY <1>1, <1>7, <2>2 DEF Mentioned
  <2>3. CASE r \notin d.removed /\ r \notin d.written
    BY <1>6, <2>3 DEF Mentioned
  <2> QED
    BY <2>1, <2>2, <2>3
<1>13. /\ build' \in [Ingests -> Build] /\ build'[b] = NoBuild
       /\ \A c \in Ingests : c # b => build'[c] = [build[c] EXCEPT !.alone = FALSE]
  <2>1. Overlapped \in [Ingests -> Build]
        /\ \A c \in Ingests : Overlapped[c] = [build[c] EXCEPT !.alone = FALSE]
    BY <1>4, OverlappedReads DEF Overlapped
  <2> QED
    BY <1>5, <2>1, NoBuildTypes
<1>14. ASSUME NEW c \in Ingests, build'[c] # NoBuild, build[c].pc = "embed", NEW r \in build[c].written
       PROVE  knowledge[r].of = NoRow <=> knowledge'[r].of = NoRow
  <2>1. c # b
    BY <1>13, <1>14
  <2>2. Apart(build[c], build[b])
    BY <2>1 DEF KnowledgeInv
  <2>3. r \in Rows /\ r \notin d.written /\ r \notin d.removed
    BY <1>1, <1>14, <2>2, WrittenIsKnown DEF Apart, Touches
  <2> QED
    BY <1>6, <2>3
<1> QED
  BY <1>4, <1>5, <1>9, <1>10, <1>11, <1>12, <1>13, <1>14, TableMoves

LEMMA KnowledgeStepInv == KnowledgeInv /\ [KnowledgeNext]_knowledgeVars => KnowledgeInv'
<1> SUFFICES ASSUME KnowledgeInv, [KnowledgeNext]_knowledgeVars PROVE KnowledgeInv'
  OBVIOUS
<1>1. CASE \/ \E f \in Groups, t \in Bodies : EditField(f, t)
           \/ \E o \in Documents \cup Messages : AddOrigin(o) \/ RemoveOrigin(o)
           \/ \E p \in Promoters, m \in Messages : StartPromotion(p, m)
  BY <1>1, OriginSteps
<1>2. CASE \E p \in Promoters : Promote(p)
  BY <1>2, PromoteInv
<1>3. CASE \E b \in Ingests : StartIngest(b) \/ ReadOrigins(b) \/ ReadSources(b)
  BY <1>3, StartIngestInv, ReadOriginsInv, ReadSourcesInv
<1>4. CASE \E b \in Ingests : Sync(b) \/ CommitBuild(b)
  BY <1>4, SyncInv, CommitBuildInv
<1>5. CASE \E b \in Ingests : Abort(b)
  BY <1>5, BuildEnds DEF Abort
<1>6. CASE UNCHANGED knowledgeVars
  BY <1>6, SameKnowledge
<1> QED
  BY <1>1, <1>2, <1>3, <1>4, <1>5, <1>6 DEF KnowledgeNext

\* What a build tells of a source it did not load again is what it read of its origin.
LEMMA CorpusTells == KnowledgeInv => CorpusTellsOrigins
<1> SUFFICES ASSUME KnowledgeInv, NEW b \in Ingests, build[b].pc = "embed",
                    NEW o \in Origins \ Changed(b), build[b].wants[o] # 0
             PROVE  \/ CorpusOf(b, o).text = build[b].wants[o]
                    \/ o \in Documents /\ CorpusOf(b, o).text = 0
  BY DEF CorpusTellsOrigins
<1>1. PICK d \in Build : d = build[b]
  BY KnowledgeTypes DEF KnowledgeInv
<1>2. Reads(d) /\ d.pc = "embed" /\ d.wants[o] # 0
  BY <1>1 DEF KnowledgeInv, BuildInv
<1>3. d.pick[o] # NoRow /\ d.had[d.pick[o]].hash = d.wants[o]
  BY <1>1, <1>2 DEF Changed
<1>4. d.had[d.pick[o]].of = o /\ SoundRow(d.had[d.pick[o]])
  BY <1>2, <1>3, BuildFields DEF Reads
<1>5. \/ d.had[d.pick[o]].text = d.wants[o]
      \/ o \in Documents /\ d.had[d.pick[o]].text = 0
  <2>1. CASE o \in Groups
    BY <1>3, <1>4, <2>1 DEF SoundRow
  <2>2. CASE o \in Documents
    BY <1>3, <1>4, <2>2 DEF SoundRow
  <2>3. CASE o \in Messages
    BY <1>2, <1>3, <1>4, <2>3 DEF SoundRow, Reads
  <2> QED
    BY <2>1, <2>2, <2>3, OriginKinds
<1> QED
  BY <1>1, <1>5 DEF CorpusOf

\* Rows by origin, at most one each.
LEMMA OneRow ==
    ASSUME KnowledgeTypeOK, Distinct, NEW o \in Origins, NEW r \in Rows, NEW k \in Rows,
           knowledge[r].of = o, knowledge[k].of = o
    PROVE  r = k
<1>1. r \in RowsOf(knowledge, o) /\ k \in RowsOf(knowledge, o) /\ RowsOf(knowledge, o) \subseteq Rows
  BY DEF RowsOf
<1>2. IsFiniteSet(RowsOf(knowledge, o)) /\ Cardinality(RowsOf(knowledge, o)) <= 1
  BY <1>1, Keys, FS_Subset DEF Distinct
<1>3. Cardinality(RowsOf(knowledge, o)) = 1
  BY <1>1, <1>2, FS_CardinalityType, FS_EmptySet
<1>4. PICK x : RowsOf(knowledge, o) = {x}
  BY <1>2, <1>3, FS_Singleton
<1> QED
  BY <1>1, <1>4

\* What a commit leaves of an origin, of a build that nothing overlapped.
LEMMA CommitLeaves ==
    ASSUME KnowledgeInv, NEW b \in Ingests, CommitBuild(b), build[b].alone, Distinct,
           build[b].full \/ Coherent, NEW o \in Origins
    PROVE  /\ \A r, k \in Rows : knowledge'[r].of = o /\ knowledge'[k].of = o => r = k
           /\ build[b].wants[o] = 0 => \A r \in Rows : knowledge'[r].of # o
           /\ build[b].wants[o] # 0 => \E r \in Rows :
                /\ knowledge'[r].of = o
                /\ knowledge'[r].hash # 0 => IF knowledge'[r].status = "failed" THEN knowledge'[r].text = 0
                                             ELSE knowledge'[r].text = knowledge'[r].hash
                /\ chunks'[r] = IF knowledge'[r].status = "embedded" THEN PiecesOf(knowledge'[r].text)
                                ELSE {}
                /\ \/ chunks'[r] = PiecesOf(build[b].wants[o])
                   \/ o \in Documents /\ chunks'[r] = {} /\ knowledge'[r].status = "failed"
<1>1. PICK d \in Build : d = build[b] /\ d.pc = "embed" /\ d.alone
  BY KnowledgeTypes DEF KnowledgeInv, CommitBuild
<1>2. Reads(d) /\ Flushes(d, chunks) /\ d.had = knowledge
  BY <1>1 DEF KnowledgeInv, BuildInv, Sees
<1>3. PICK row, failing : FlushedAs(d, row, failing) /\ Dooms(d, row, chunks)
  BY <1>1, <1>2 DEF Flushes
<1>4. /\ knowledge \in [Rows -> Source] /\ KnowledgeTypeOK
      /\ chunks \in [Rows -> SUBSET (Bodies \ {0})] /\ o # NoRow
  BY KnowledgeTypes, Keys DEF KnowledgeInv
<1>5. \A r \in Rows : /\ r \in d.removed => knowledge'[r] = NoSource /\ chunks'[r] = {}
                      /\ r \notin d.removed /\ r \notin d.written =>
                           knowledge'[r] = knowledge[r] /\ chunks'[r] = chunks[r] \ d.doomed[r]
  BY <1>1, UnwrittenRows
<1>6. ASSUME NEW r \in Rows, r \in d.written PROVE knowledge'[r].of = d.source[r].of
  <2>1. r \notin d.removed
    BY <1>1, <1>2, <1>3, <1>6, RemovedIsUnwritten
  <2>2. knowledge'[r].of = build[b].source[r].of
    <3>1. r \notin build[b].removed /\ r \in build[b].written
      BY <1>1, <1>6, <2>1
    <3>2. knowledge'[r] =
             [of |-> build[b].source[r].of,
              hash |-> IF build[b].source[r].hash # build[b].had[r].hash
                       THEN build[b].source[r].hash ELSE knowledge[r].hash,
              text |-> IF build[b].source[r].text # build[b].had[r].text
                       THEN build[b].source[r].text ELSE knowledge[r].text,
              status |-> IF build[b].source[r].status = "extracted" THEN "embedded"
                         ELSE IF build[b].source[r].status # build[b].had[r].status
                              THEN build[b].source[r].status ELSE knowledge[r].status]
      BY <3>1, CommitRows
    <3> QED
      BY <3>2
  <2> QED
    BY <1>1, <2>2
\* A row of the origin, after: the one loaded for it, or else the one read.
<1>7. ASSUME NEW r \in Rows, knowledge'[r].of = o
      PROVE  /\ d.wants[o] # 0 /\ r \notin d.removed
             /\ IF o \in ChangedOf(d) THEN r = row[o] ELSE r = d.pick[o] /\ r \notin d.written
  <2>1. r \notin d.removed
    BY <1>4, <1>5, <1>7, NoBuildTypes
  <2>2. CASE r \in d.written
    <3>1. PICK i \in ChangedOf(d) : row[i] = r /\ d.source[r].of = i
      BY <1>3, <2>2, WrittenIsLoaded
    <3>2. i = o
      BY <1>6, <1>7, <2>2, <3>1
    <3> QED
      BY <2>1, <3>1, <3>2 DEF ChangedOf
  <2>3. CASE r \notin d.written
    <3>1. knowledge[r].of = o /\ d.had[r].of = o
      BY <1>2, <1>5, <1>7, <2>1, <2>3
    <3>2. d.pick[o] # NoRow /\ d.had[d.pick[o]].of = o /\ d.pick[o] \in Rows
      BY <1>1, <1>2, <3>1, BuildFields DEF Reads
    <3>3. r = d.pick[o]
      BY <1>2, <1>4, <3>1, <3>2, OneRow
    <3>4. d.wants[o] # 0
      BY <1>3, <2>1, <3>2, <3>3 DEF FlushedAs, VanishedOf
    <3>5. o \in ChangedOf(d) => r = row[o]
      BY <1>3, <3>2, <3>3 DEF FlushedAs
    <3> QED
      BY <2>1, <2>3, <3>3, <3>4, <3>5
  <2> QED
    BY <2>2, <2>3
\* What was loaded for it.
<1>8. ASSUME o \in ChangedOf(d)
      PROVE  /\ row[o] \in Rows /\ knowledge'[row[o]].of = o
             /\ knowledge'[row[o]].hash = d.wants[o]
             /\ knowledge'[row[o]].text = IF o \in failing THEN 0 ELSE d.wants[o]
             /\ knowledge'[row[o]].status = IF o \in failing THEN "failed" ELSE "embedded"
             /\ chunks'[row[o]] = IF o \in failing THEN {} ELSE PiecesOf(d.wants[o])
  <2>1. PICK r \in Rows : r = row[o]
    BY <1>3, <1>8 DEF FlushedAs
  <2>2. r \notin d.removed
    BY <1>1, <1>2, <1>3, <1>8, <2>1, RemovedIsUnwritten
  <2>3. /\ d.source[r].of = o /\ d.source[r].hash = d.wants[o]
        /\ d.source[r].text = IF o \in failing THEN 0 ELSE d.wants[o]
        /\ d.source[r].status = IF o \in failing THEN "failed" ELSE "extracted"
    BY <1>3, <1>8, <2>1 DEF FlushedAs
  <2>4. d.doomed[r] = chunks[r]
    BY <1>1, <1>3, <1>8, <2>1 DEF Dooms
  <2>5. CASE r \in d.written
    <3>1. d.had[r] = knowledge[r]
      BY <1>2
    <3>2. /\ knowledge'[r].of = d.source[r].of
          /\ knowledge'[r].hash = d.source[r].hash /\ knowledge'[r].text = d.source[r].text
          /\ knowledge'[r].status = IF d.source[r].status = "extracted" THEN "embedded"
                                    ELSE d.source[r].status
          /\ chunks'[r] = (chunks[r] \ d.doomed[r]) \cup
                          (IF d.source[r].status = "extracted" THEN PiecesOf(d.source[r].text) ELSE {})
      <4>1. r \notin build[b].removed /\ r \in build[b].written
        BY <1>1, <2>2, <2>5
      <4>2. /\ knowledge'[r] =
                 [of |-> build[b].source[r].of,
                  hash |-> IF build[b].source[r].hash # build[b].had[r].hash
                           THEN build[b].source[r].hash ELSE knowledge[r].hash,
                  text |-> IF build[b].source[r].text # build[b].had[r].text
                           THEN build[b].source[r].text ELSE knowledge[r].text,
                  status |-> IF build[b].source[r].status = "extracted" THEN "embedded"
                             ELSE IF build[b].source[r].status # build[b].had[r].status
                                  THEN build[b].source[r].status ELSE knowledge[r].status]
            /\ chunks'[r] = (chunks[r] \ build[b].doomed[r]) \cup
                            (IF build[b].source[r].status = "extracted"
                             THEN PiecesOf(build[b].source[r].text) ELSE {})
        BY <4>1, CommitRows
      <4>3. /\ knowledge'[r] =
                 [of |-> d.source[r].of,
                  hash |-> IF d.source[r].hash # knowledge[r].hash
                           THEN d.source[r].hash ELSE knowledge[r].hash,
                  text |-> IF d.source[r].text # knowledge[r].text
                           THEN d.source[r].text ELSE knowledge[r].text,
                  status |-> IF d.source[r].status = "extracted" THEN "embedded"
                             ELSE IF d.source[r].status # knowledge[r].status
                                  THEN d.source[r].status ELSE knowledge[r].status]
            /\ chunks'[r] = (chunks[r] \ d.doomed[r]) \cup
                            (IF d.source[r].status = "extracted" THEN PiecesOf(d.source[r].text) ELSE {})
        BY <1>1, <3>1, <4>2
      <4> QED
        BY <4>3
    <3> QED
      BY <2>1, <2>3, <2>4, <3>2
  <2>6. CASE r \notin d.written
    <3>1. d.source[r] = d.had[r] /\ knowledge'[r] = d.had[r] /\ chunks'[r] = {}
      BY <1>2, <1>3, <1>5, <2>2, <2>4, <2>6 DEF FlushedAs
    <3>2. d.had[r].status # "extracted"
      <4>1. SoundRow(d.had[r]) /\ d.had[r].of = o
        BY <1>2, <2>3, <3>1 DEF Reads
      <4> QED
        BY <4>1, OriginKinds DEF SoundRow
    <3>3. o \in failing
      BY <2>3, <3>1, <3>2
    <3> QED
      BY <2>1, <2>3, <3>1, <3>3
  <2> QED
    BY <2>5, <2>6
\* What was not loaded again.
<1>9. ASSUME o \notin ChangedOf(d), d.wants[o] # 0
      PROVE  /\ d.pick[o] \in Rows /\ d.pick[o] \notin d.removed /\ d.pick[o] \notin d.written
             /\ knowledge[d.pick[o]].of = o /\ knowledge[d.pick[o]].hash = d.wants[o]
             /\ d.doomed[d.pick[o]] = {} /\ Coherent
  <2>1. ~d.full /\ d.pick[o] # NoRow /\ d.had[d.pick[o]].hash = d.wants[o]
    BY <1>9 DEF ChangedOf
  <2>2. d.pick[o] \in Rows /\ d.had[d.pick[o]].of = o
    BY <1>1, <1>2, <2>1, BuildFields DEF Reads
  <2>3. d.pick[o] \notin d.removed
    BY <1>1, <1>2, <1>3, <1>9, <2>2, RemovedIsUnwritten
  <2>4. \A i \in ChangedOf(d) : row[i] # d.pick[o]
    <3> SUFFICES ASSUME NEW i \in ChangedOf(d), row[i] = d.pick[o] PROVE FALSE
      OBVIOUS
    <3>1. i \in Origins /\ i # o
      BY <1>9 DEF ChangedOf
    <3>2. d.pick[i] # NoRow
      BY <1>3, <1>4, <2>2 DEF FlushedAs
    <3>3. row[i] = d.pick[i] /\ d.had[d.pick[i]].of = i
      BY <1>1, <1>2, <1>3, <3>1, <3>2 DEF FlushedAs, Reads
    <3> QED
      BY <2>2, <3>1, <3>3
  <2>5. d.pick[o] \notin d.written /\ d.doomed[d.pick[o]] = {}
    BY <1>3, <2>2, <2>4 DEF FlushedAs
  <2> QED
    BY <1>1, <1>2, <2>1, <2>2, <2>3, <2>5
<1>10. \A r, k \in Rows : knowledge'[r].of = o /\ knowledge'[k].of = o => r = k
  BY <1>7
<1>11. d.wants[o] = 0 => \A r \in Rows : knowledge'[r].of # o
  BY <1>7
<1>12. ASSUME d.wants[o] # 0
       PROVE  \E r \in Rows :
                /\ knowledge'[r].of = o
                /\ knowledge'[r].hash # 0 => IF knowledge'[r].status = "failed" THEN knowledge'[r].text = 0
                                             ELSE knowledge'[r].text = knowledge'[r].hash
                /\ chunks'[r] = IF knowledge'[r].status = "embedded" THEN PiecesOf(knowledge'[r].text)
                                ELSE {}
                /\ \/ chunks'[r] = PiecesOf(d.wants[o])
                   \/ o \in Documents /\ chunks'[r] = {} /\ knowledge'[r].status = "failed"
  <2>1. CASE o \in ChangedOf(d)
    <3>1. o \in failing => o \in Documents
      BY <1>3 DEF FlushedAs
    <3> QED
      BY <1>8, <2>1, <3>1
  <2>2. CASE o \notin ChangedOf(d)
    <3>1. PICK r \in Rows : r = d.pick[o]
      BY <1>9, <1>12, <2>2
    <3>2. /\ knowledge'[r] = knowledge[r] /\ chunks'[r] = chunks[r]
          /\ knowledge[r].of = o /\ knowledge[r].hash = d.wants[o] /\ Coherent
      <4>1. /\ r \notin d.removed /\ r \notin d.written /\ d.doomed[r] = {}
            /\ knowledge[r].of = o /\ knowledge[r].hash = d.wants[o] /\ Coherent
        BY <1>9, <1>12, <2>2, <3>1
      <4>2. knowledge'[r] = knowledge[r] /\ chunks'[r] = chunks[r] \ d.doomed[r]
        BY <1>5, <4>1
      <4>3. chunks'[r] = chunks[r]
        BY <4>1, <4>2
      <4> QED
        BY <4>1, <4>2, <4>3
    <3>3. /\ chunks[r] = IF knowledge[r].status = "embedded" THEN PiecesOf(knowledge[r].text) ELSE {}
          /\ IF knowledge[r].status = "failed" THEN knowledge[r].text = 0
             ELSE knowledge[r].text = knowledge[r].hash
      BY <1>12, <3>2 DEF Coherent
    <3>4. SoundRow(knowledge[r])
      BY DEF KnowledgeInv, TableInv
    <3>5. knowledge[r].status = "embedded" \/ (knowledge[r].status = "failed" /\ o \in Documents)
      BY <1>12, <3>2, <3>4, OriginKinds DEF SoundRow
    <3>6. \/ chunks[r] = PiecesOf(d.wants[o])
          \/ o \in Documents /\ chunks[r] = {} /\ knowledge[r].status = "failed"
      BY <3>2, <3>3, <3>5
    <3> QED
      BY <3>2, <3>3, <3>6
  <2> QED
    BY <2>1, <2>2
<1> QED
  BY <1>1, <1>10, <1>11, <1>12

\* The commit of a build that nothing overlapped leaves the knowledge base whole.
LEMMA WholeCommit ==
    ASSUME KnowledgeInv, NEW b \in Ingests, CommitBuild(b), build[b].alone, Distinct,
           build[b].full \/ Coherent
    PROVE  Whole(b) /\ Distinct' /\ Coherent'
<1>1. KnowledgeInv'
  BY CommitBuildInv
<1>2. \A r \in Rows : knowledge'[r] \in Source
  <2>1. knowledge' \in [Rows -> Source]
    BY <1>1 DEF KnowledgeInv, KnowledgeTypeOK
  <2> QED
    BY <2>1
<1>3. PiecesOf(0) = {}
  BY DEF PiecesOf
\* The rows of an origin that the build read as absent.
<1>4. ASSUME NEW o \in Origins, build[b].wants[o] = 0
      PROVE  RowsOf(knowledge, o)' = {} /\ Search(o)' = PiecesOf(build[b].wants[o])
  <2>1. \A r \in Rows : knowledge'[r].of # o
    BY <1>4, CommitLeaves
  <2>2. RowsOf(knowledge, o)' = {}
    BY <2>1 DEF RowsOf
  <2>3. Search(o)' = {}
    BY <2>2 DEF Search
  <2> QED
    BY <1>3, <1>4, <2>2, <2>3
\* And of one that it read.
<1>5. ASSUME NEW o \in Origins, build[b].wants[o] # 0
      PROVE  \E r \in Rows :
                /\ RowsOf(knowledge, o)' = {r} /\ Search(o)' = chunks'[r] /\ knowledge'[r].of = o
                /\ knowledge'[r].hash # 0 => IF knowledge'[r].status = "failed" THEN knowledge'[r].text = 0
                                             ELSE knowledge'[r].text = knowledge'[r].hash
                /\ chunks'[r] = IF knowledge'[r].status = "embedded" THEN PiecesOf(knowledge'[r].text)
                                ELSE {}
                /\ \/ chunks'[r] = PiecesOf(build[b].wants[o])
                   \/ o \in Documents /\ chunks'[r] = {} /\ knowledge'[r].status = "failed"
  <2>1. PICK r \in Rows :
                /\ knowledge'[r].of = o
                /\ knowledge'[r].hash # 0 => IF knowledge'[r].status = "failed" THEN knowledge'[r].text = 0
                                             ELSE knowledge'[r].text = knowledge'[r].hash
                /\ chunks'[r] = IF knowledge'[r].status = "embedded" THEN PiecesOf(knowledge'[r].text)
                                ELSE {}
                /\ \/ chunks'[r] = PiecesOf(build[b].wants[o])
                   \/ o \in Documents /\ chunks'[r] = {} /\ knowledge'[r].status = "failed"
    BY <1>5, CommitLeaves
  <2>2. \A k \in Rows : knowledge'[k].of = o => k = r
    BY <2>1, CommitLeaves
  <2>3. RowsOf(knowledge, o)' = {r}
    BY <2>1, <2>2 DEF RowsOf
  <2>4. Search(o)' = chunks'[r]
    BY <2>3 DEF Search
  <2> QED
    BY <2>1, <2>3, <2>4
<1>6. Whole(b)
  <2> SUFFICES ASSUME NEW o \in Origins
               PROVE  \/ Search(o)' = PiecesOf(build[b].wants[o])
                      \/ /\ o \in Documents /\ Search(o)' = {}
                         /\ \E r \in Rows : knowledge'[r].of = o /\ knowledge'[r].status = "failed"
    BY DEF Whole
  <2> HIDE DEF Search, RowsOf, PiecesOf
  <2>1. CASE build[b].wants[o] = 0
    BY <1>4, <2>1
  <2>2. CASE build[b].wants[o] # 0
    BY <1>5, <2>2
  <2> QED
    BY <2>1, <2>2
<1>7. Distinct'
  <2> SUFFICES ASSUME NEW o \in Origins PROVE Cardinality(RowsOf(knowledge, o)') <= 1
    BY DEF Distinct
  <2>1. CASE build[b].wants[o] = 0
    <3>1. RowsOf(knowledge, o)' = {}
      BY <1>4, <2>1
    <3> QED
      BY <3>1, FS_EmptySet
  <2>2. CASE build[b].wants[o] # 0
    <3>1. PICK r \in Rows : RowsOf(knowledge, o)' = {r}
      BY <1>5, <2>2
    <3> QED
      BY <3>1, FS_Singleton
  <2> QED
    BY <2>1, <2>2
<1>8. Coherent'
  <2> SUFFICES ASSUME NEW r \in Rows
               PROVE  /\ chunks'[r] = IF knowledge'[r].status = "embedded"
                                      THEN PiecesOf(knowledge'[r].text) ELSE {}
                      /\ knowledge'[r].hash # 0 =>
                            IF knowledge'[r].status = "failed" THEN knowledge'[r].text = 0
                            ELSE knowledge'[r].text = knowledge'[r].hash
    BY DEF Coherent
  <2>1. CASE knowledge'[r].of = NoRow
    <3>1. knowledge'[r] = NoSource /\ chunks'[r] = {}
      BY <1>1, <2>1 DEF KnowledgeInv, TableInv, SoundRow
    <3> QED
      BY <3>1 DEF NoSource
  <2>2. CASE knowledge'[r].of # NoRow
    <3>1. PICK o \in Origins : knowledge'[r].of = o
      BY <1>2, <2>2 DEF Source
    <3>2. build[b].wants[o] # 0
      BY <3>1, CommitLeaves
    <3>3. PICK k \in Rows :
             /\ knowledge'[k].of = o
             /\ knowledge'[k].hash # 0 => IF knowledge'[k].status = "failed" THEN knowledge'[k].text = 0
                                          ELSE knowledge'[k].text = knowledge'[k].hash
             /\ chunks'[k] = IF knowledge'[k].status = "embedded" THEN PiecesOf(knowledge'[k].text)
                             ELSE {}
      BY <1>5, <3>2
    <3>4. k = r
      BY <3>1, <3>3, CommitLeaves
    <3> QED
      BY <3>3, <3>4
  <2> QED
    BY <2>1, <2>2
<1> QED
  BY <1>6, <1>7, <1>8

KnowledgeSpec == KnowledgeInit /\ [][KnowledgeNext]_knowledgeVars

\* The corpus the agents of a build read is of one moment, and what search returns after the commit
\* of a build that nothing overlapped is what that build read of each origin: sync compares hashes
\* with the rows it read, flushes under their locks and commits rows and chunks at once, whatever
\* other builds and promotions of messages commit meanwhile.
THEOREM KnowledgeWhole == KnowledgeSpec => KnowledgeIsWhole
<1>1. ASSUME KnowledgeInv, [KnowledgeNext]_knowledgeVars
      PROVE  [\A b \in Ingests :
                (CommitBuild(b) /\ build[b].alone /\ Distinct /\ (build[b].full \/ Coherent))
                    => Whole(b) /\ Distinct' /\ Coherent']_knowledgeVars
  BY <1>1, WholeCommit
<1> QED
  BY <1>1, KnowledgeInitInv, KnowledgeStepInv, CorpusTells, PTL
     DEF KnowledgeSpec, KnowledgeIsWhole, BuildsAreWhole

------------------------------------------------------------------------------
(* The instances of MCIntelJobQueue: one component moves at a time *)

QueueInv == TypeInv /\ OnboardingInv /\ KnowledgeInv /\ AccessInv

\* Every state variable of the queue, of onboarding, of the knowledge base, of the limiter and of
\* the sign-ins keeps to its declared values: what a worker, a save, a build or a login writes from
\* an outdated read (job_queue.py, onboarding_service.py, ingestion_service.py, auth_service.py) is
\* still a row of its table.
THEOREM QueueType == MCSpec => []QueueTypeOK
<1>1. MCInit => QueueInv
  BY InitTypeInv, OnboardingInitInv, KnowledgeInitInv, AccessInitInv DEF MCInit, QueueInv
<1>2. QueueInv /\ [MCNext]_allVars => QueueInv'
  <2> SUFFICES ASSUME QueueInv, [MCNext]_allVars PROVE QueueInv'
    OBVIOUS
  <2>1. /\ [Next]_vars /\ [OnboardingNext]_onboardingVars
        /\ [KnowledgeNext]_knowledgeVars /\ [AccessNext]_accessVars
    BY DEF MCNext, allVars
  <2> QED
    BY <2>1, NextTypeInv, OnboardingStepInv, KnowledgeStepInv, AccessStepInv DEF QueueInv
<1>3. QueueInv => QueueTypeOK
  BY DEF QueueInv, QueueTypeOK, TypeInv, OnboardingInv, KnowledgeInv, AccessInv
<1> QED
  BY <1>1, <1>2, <1>3, PTL DEF MCSpec
=============================================================================

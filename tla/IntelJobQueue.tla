--------------------------- MODULE IntelJobQueue ---------------------------
(***************************************************************************)
(* The durable queue of intelligence builds: services/intelligence/        *)
(* job_queue.py, driven by the worker loop of worker.py and by the API     *)
(* requests that enqueue inside their own transaction.                     *)
(*                                                                         *)
(* The database is PostgreSQL at READ COMMITTED: a SELECT reads what is    *)
(* committed when it runs, an UPDATE by primary key waits for the row lock *)
(* of a claiming transaction and then applies to whatever the row has      *)
(* become.  The ORM flushes only the columns whose value differs from the  *)
(* one it loaded, which is why the loaded row is part of a worker's state. *)
(*                                                                         *)
(* A definition placed just before another one and named for a mistake     *)
(* (a dropped guard, a wrong column) is a deliberate fault: it is listed   *)
(* under "mutants" in PROJECT.json, and TLC must reject the model with it. *)
(***************************************************************************)
EXTENDS Naturals, FiniteSets

CONSTANTS Workers,          \* worker processes (python -m app.worker)
          Clients,          \* clients whose profile is built
          Requests,         \* API requests; each enqueues at most once
          MaxJobs,          \* rows intel_jobs can hold: one per request is enough
          MaxAttempts,      \* IntelJob.max_attempts (3 in the code)
          MaxClaimAttempts, \* _MAX_CLAIM_ATTEMPTS (5 in the code)
          MaxFaults,        \* bound on crashes and database errors
          Null              \* SQL NULL; also a lock that nobody holds

ASSUME ParticipantsAssumption == /\ Null \notin Workers \cup Clients
                                 /\ IsFiniteSet(Workers)
                                 /\ IsFiniteSet(Clients)
ASSUME BoundsAssumption == /\ MaxJobs \in Nat \ {0}
                           /\ MaxAttempts \in Nat \ {0}
                           /\ MaxClaimAttempts \in Nat \ {0}
                           /\ MaxFaults \in Nat

Jobs  == 1 .. MaxJobs       \* primary keys, numbered in created_at order
NoJob == 0
Kinds == {"incremental", "full_build"}

VARIABLES
    \* the table intel_jobs, one function per column: due stands for
    \* run_after <= now, stale for locked_at < now - 30 min
    status, client_id, job_type, due, attempts, locked_by, stale,
    \* row locks of claiming transactions; pg_advisory_xact_lock per client
    row_lock, adv_lock,
    \* each worker: control point, row in hand, clients it lost in this claim,
    \* rows as its ORM session loaded them, request kinds its build took in
    pc, job, excluded, loaded, covers,
    \* each request in flight, and what was asked for and is not yet built
    req, wanted,
    \* history, per client: the operations that wrote to a row of it which had
    \* changed since they read it
    overtaken,
    \* crashes and database errors so far
    faults

jobVars    == <<status, client_id, job_type, due, attempts, locked_by, stale>>
lockVars   == <<row_lock, adv_lock>>
workerVars == <<pc, job, excluded, loaded, covers>>
reqVars    == <<req, wanted, overtaken>>
vars       == <<jobVars, lockVars, workerVars, reqVars, faults>>

Statuses == {"absent", "queued", "running", "succeeded", "dead"}
Claiming == {"reclaim", "select", "lock", "check", "claim"}
PCs      == Claiming \cup {"idle", "start", "build", "finish", "fail"}

\* The writes that can find the row changed: an enqueue coalescing into a row no
\* longer queued, a succeed whose claim was taken away, a fail or reclaim whose
\* loaded row is out of date.
Overtakers == {"coalesce", "succeed", "giveback"}

Row       == [status : Statuses, attempts : Nat, locked : BOOLEAN]
NotLoaded == [status |-> "absent", attempts |-> 0, locked |-> FALSE]
Unloaded  == [j \in Jobs |-> NotLoaded]

Request    == [phase : {"new", "read", "done"}, client : Clients \cup {Null},
               kind : Kinds, debounce : BOOLEAN, seen : Jobs \cup {NoJob}]
NewRequest == [phase |-> "new", client |-> Null, kind |-> "incremental",
               debounce |-> FALSE, seen |-> NoJob]

\* The columns, locks and local states have their types; a stored row has its client.
TypeOK ==
    /\ status    \in [Jobs -> Statuses]
    /\ client_id \in [Jobs -> Clients \cup {Null}]
    /\ \A j \in Jobs : status[j] # "absent" => client_id[j] \in Clients
    /\ job_type  \in [Jobs -> Kinds]
    /\ due       \in [Jobs -> BOOLEAN]
    /\ attempts  \in [Jobs -> Nat]
    /\ locked_by \in [Jobs -> Workers \cup {Null}]
    /\ stale     \in [Jobs -> BOOLEAN]
    /\ row_lock  \in [Jobs -> Workers \cup {Null}]
    /\ adv_lock  \in [Clients -> Workers \cup {Null}]
    /\ pc        \in [Workers -> PCs]
    /\ job       \in [Workers -> Jobs \cup {NoJob}]
    /\ excluded  \in [Workers -> SUBSET Clients]
    /\ loaded    \in [Workers -> [Jobs -> Row]]
    /\ covers    \in [Workers -> SUBSET Kinds]
    /\ req       \in [Requests -> Request]
    /\ \A r \in Requests : req[r].phase = "read" => req[r].client \in Clients
    /\ wanted    \in [Clients -> SUBSET Kinds]
    /\ overtaken \in [Clients -> SUBSET Overtakers]
    /\ faults    \in Nat

Init ==
    /\ status    = [j \in Jobs |-> "absent"]
    /\ client_id = [j \in Jobs |-> Null]
    /\ job_type  = [j \in Jobs |-> "incremental"]
    /\ due       = [j \in Jobs |-> TRUE]
    /\ attempts  = [j \in Jobs |-> 0]
    /\ locked_by = [j \in Jobs |-> Null]
    /\ stale     = [j \in Jobs |-> FALSE]
    /\ row_lock  = [j \in Jobs |-> Null]
    /\ adv_lock  = [c \in Clients |-> Null]
    /\ pc        = [w \in Workers |-> "idle"]
    /\ job       = [w \in Workers |-> NoJob]
    /\ excluded  = [w \in Workers |-> {}]
    /\ loaded    = [w \in Workers |-> Unloaded]
    /\ covers    = [w \in Workers |-> {}]
    /\ req       = [r \in Requests |-> NewRequest]
    /\ wanted    = [c \in Clients |-> {}]
    /\ overtaken = [c \in Clients |-> {}]
    /\ faults    = 0

-----------------------------------------------------------------------------
(* Queries *)

JobsOf(c)      == {j \in Jobs : status[j] # "absent" /\ client_id[j] = c}
Queued(c)      == {j \in JobsOf(c) : status[j] = "queued"}
RunningClients == {client_id[j] : j \in {k \in Jobs : status[k] = "running"}}

\* Rows whose worker is presumed dead.
StaleRows        == {j \in Jobs : status[j] = "running" /\ locked_by[j] # Null /\ stale[j]}

\* First(S, j): j is the row that ORDER BY created_at LIMIT 1 picks from S
\* (priority has the same default in every row).
First(S, j) == j \in S /\ \A k \in S : j <= k

\* claim_next's WHERE clause for worker w, with the rows SKIP LOCKED leaves out.
Candidates(w) ==
    {j \in Jobs : /\ status[j] = "queued"
                 /\ due[j]
                 /\ client_id[j] \notin RunningClients \cup excluded[w]
                 /\ row_lock[j] = Null}

\* Commit or rollback: the transaction of w gives up its locks.
ReleaseLocks(w) ==
    /\ row_lock' = [j \in Jobs |-> IF row_lock[j] = w THEN Null ELSE row_lock[j]]
    /\ adv_lock' = [c \in Clients |-> IF adv_lock[c] = w THEN Null ELSE adv_lock[c]]

\* Worker w is back at the top of its loop, with fresh sessions.
ToIdle(w) ==
    /\ pc'       = [pc EXCEPT ![w] = "idle"]
    /\ job'      = [job EXCEPT ![w] = NoJob]
    /\ excluded' = [excluded EXCEPT ![w] = {}]
    /\ loaded'   = [loaded EXCEPT ![w] = Unloaded]
    /\ covers'   = [covers EXCEPT ![w] = {}]

-----------------------------------------------------------------------------
(* Requests: JobQueue.enqueue inside the caller's transaction *)

\* The caller has applied its change and reads pending_for_client, unlocked.
\* Autosaves debounce, "sync to AI" does not, full builds never do.
EnqueueRead(r, c, kind, debounce) ==
    /\ req[r].phase = "new"
    /\ kind = "full_build" => ~debounce
    /\ \E seen \in Jobs \cup {NoJob} :
          /\ IF Queued(c) = {} THEN seen = NoJob ELSE First(Queued(c), seen)
          /\ req' = [req EXCEPT ![r] = [phase |-> "read", client |-> c, kind |-> kind,
                                       debounce |-> debounce, seen |-> seen]]
    /\ UNCHANGED <<jobVars, lockVars, workerVars, wanted, overtaken, faults>>

\* The change becomes visible: it is wanted, and no build that has already
\* read the sources of the client contains it.
Publish(r) ==
    /\ wanted' = [wanted EXCEPT ![req[r].client] = @ \cup {req[r].kind}]
    /\ covers' = [w \in Workers |-> IF job[w] # NoJob /\ client_id[job[w]] = req[r].client
                                    THEN covers[w] \ {req[r].kind} ELSE covers[w]]
    /\ req'    = [req EXCEPT ![r].phase = "done"]

\* No queued job was seen: insert one.
EnqueueInsert(r, j) ==
    /\ req[r].phase = "read" /\ req[r].seen = NoJob
    /\ First({k \in Jobs : status[k] = "absent"}, j)
    /\ status'    = [status EXCEPT ![j] = "queued"]
    /\ client_id' = [client_id EXCEPT ![j] = req[r].client]
    /\ job_type'  = [job_type EXCEPT ![j] = req[r].kind]
    /\ due'       = [due EXCEPT ![j] = ~req[r].debounce]
    /\ Publish(r)
    /\ UNCHANGED <<attempts, locked_by, stale, lockVars, pc, job, excluded, loaded,
                   overtaken, faults>>

\* full_build dominates.
FirstTypeWins(old, new) == old
Merged(old, new)        == IF new = "full_build" THEN "full_build" ELSE old

\* A queued job was seen: merge into that row, whatever it has become since.
EnqueueCoalesce(r) ==
    LET j == req[r].seen IN
    /\ req[r].phase = "read" /\ j # NoJob
    /\ row_lock[j] = Null
    /\ job_type'  = [job_type EXCEPT ![j] = Merged(@, req[r].kind)]
    /\ due'       = [due EXCEPT ![j] = @ /\ ~req[r].debounce]
    /\ overtaken' = IF status[j] = "queued" THEN overtaken
                    ELSE [overtaken EXCEPT ![client_id[j]] = @ \cup {"coalesce"}]
    /\ Publish(r)
    /\ UNCHANGED <<status, client_id, attempts, locked_by, stale, lockVars,
                   pc, job, excluded, loaded, faults>>

-----------------------------------------------------------------------------
(* Workers: claim_next *)

\* The stale scan is throttled away, or finds nothing.
Poll(w) ==
    /\ pc[w] = "idle"
    /\ pc' = [pc EXCEPT ![w] = "select"]
    /\ UNCHANGED <<jobVars, lockVars, job, excluded, loaded, covers, reqVars, faults>>

\* The rows S as an ORM session loads them.
Current(j) == [status |-> status[j], attempts |-> attempts[j], locked |-> locked_by[j] # Null]
Load(S)    == [j \in Jobs |-> IF j \in S THEN Current(j) ELSE NotLoaded]

\* reclaim_stale's SELECT: no lock is taken on the rows it returns.
ReclaimLoad(w) ==
    /\ pc[w] = "idle"
    /\ StaleRows # {}
    /\ loaded' = [loaded EXCEPT ![w] = Load(StaleRows)]
    /\ pc'     = [pc EXCEPT ![w] = "reclaim"]
    /\ UNCHANGED <<jobVars, lockVars, job, excluded, covers, reqVars, faults>>

\* Whether the attempts, as loaded, are used up.
OutcomeUnlocksOnly(row) == IF row.attempts >= MaxAttempts THEN "dead" ELSE row.status
OutcomeCountsTwice(row) == IF row.attempts + 1 >= MaxAttempts THEN "dead" ELSE "queued"
OutcomeUnknown(row)     == IF row.attempts >= MaxAttempts THEN "dead" ELSE "failed"
Outcome(row)            == IF row.attempts >= MaxAttempts THEN "dead" ELSE "queued"

\* What both reclaim_stale and fail write to the rows they loaded: requeued,
\* or dead once the attempts are used up, in the columns that differ from the
\* loaded ones, with run_after in the past (reclaim) or in the future (fail).
GiveBack(w, is_due) ==
    LET row     == loaded[w]
        touched == {j \in Jobs : row[j].status # "absent"}
        changed == {j \in touched : row[j] # Current(j)}
    IN
    /\ \A j \in touched : row_lock[j] = Null
    /\ status'    = [j \in Jobs |-> IF j \in touched /\ Outcome(row[j]) # row[j].status
                                    THEN Outcome(row[j]) ELSE status[j]]
    /\ due'       = [j \in Jobs |-> IF j \in touched /\ Outcome(row[j]) = "queued"
                                    THEN is_due ELSE due[j]]
    /\ locked_by' = [j \in Jobs |-> IF j \in touched /\ row[j].locked
                                    THEN Null ELSE locked_by[j]]
    /\ stale'     = [j \in Jobs |-> IF j \in touched /\ row[j].locked
                                    THEN FALSE ELSE stale[j]]
    /\ overtaken' = [c \in Clients |-> IF \E j \in changed : client_id[j] = c
                                      THEN overtaken[c] \cup {"giveback"} ELSE overtaken[c]]
    /\ UNCHANGED <<client_id, job_type, attempts, req, wanted>>

\* reclaim_stale's UPDATEs and commit.
ReclaimWrite(w) ==
    /\ pc[w] = "reclaim"
    /\ GiveBack(w, TRUE)
    /\ loaded' = [loaded EXCEPT ![w] = Unloaded]
    /\ pc'     = [pc EXCEPT ![w] = "select"]
    /\ UNCHANGED <<lockVars, job, excluded, covers, faults>>

\* SELECT ... ORDER BY created_at LIMIT 1 FOR UPDATE SKIP LOCKED.
SelectCandidate(w) ==
    /\ pc[w] = "select"
    /\ \E j \in Jobs :
          /\ First(Candidates(w), j)
          /\ row_lock' = [row_lock EXCEPT ![j] = w]
          /\ job'      = [job EXCEPT ![w] = j]
    /\ pc' = [pc EXCEPT ![w] = "lock"]
    /\ UNCHANGED <<jobVars, adv_lock, excluded, loaded, covers, reqVars, faults>>

\* Nothing runnable: claim_next returns None and the session is closed.
NoCandidate(w) ==
    /\ pc[w] = "select"
    /\ Candidates(w) = {}
    /\ ReleaseLocks(w)
    /\ ToIdle(w)
    /\ UNCHANGED <<jobVars, reqVars, faults>>

\* pg_advisory_xact_lock(client), waiting while another transaction holds it.
AdvisoryLock(w) ==
    LET c == client_id[job[w]] IN
    /\ pc[w] = "lock"
    /\ adv_lock[c] = Null
    /\ adv_lock' = [adv_lock EXCEPT ![c] = w]
    /\ pc' = [pc EXCEPT ![w] = "check"]
    /\ UNCHANGED <<jobVars, row_lock, job, excluded, loaded, covers, reqVars, faults>>

\* The authoritative recheck finds no running job of the client.
RecheckSkipped(w) ==
    /\ pc[w] = "check"
    /\ pc' = [pc EXCEPT ![w] = "claim"]
    /\ UNCHANGED <<jobVars, lockVars, job, excluded, loaded, covers, reqVars, faults>>
RecheckFree(w) ==
    /\ pc[w] = "check"
    /\ client_id[job[w]] \notin RunningClients
    /\ pc' = [pc EXCEPT ![w] = "claim"]
    /\ UNCHANGED <<jobVars, lockVars, job, excluded, loaded, covers, reqVars, faults>>

\* The recheck finds the client busy: try the next candidate, keeping every lock
\* taken so far, or give up after MaxClaimAttempts rounds.
RecheckBusy(w) ==
    LET lost == excluded[w] \cup {client_id[job[w]]} IN
    /\ pc[w] = "check"
    /\ client_id[job[w]] \in RunningClients
    /\ IF Cardinality(lost) >= MaxClaimAttempts
       THEN ReleaseLocks(w) /\ ToIdle(w)
       ELSE /\ excluded' = [excluded EXCEPT ![w] = lost]
            /\ job' = [job EXCEPT ![w] = NoJob]
            /\ pc'  = [pc EXCEPT ![w] = "select"]
            /\ UNCHANGED <<lockVars, loaded, covers>>
    /\ UNCHANGED <<jobVars, reqVars, faults>>

\* The claim is written and committed.
ClaimCommit(w) ==
    /\ pc[w] = "claim"
    /\ status'    = [status EXCEPT ![job[w]] = "running"]
    /\ locked_by' = [locked_by EXCEPT ![job[w]] = w]
    /\ stale'     = [stale EXCEPT ![job[w]] = FALSE]
    /\ attempts'  = [attempts EXCEPT ![job[w]] = @ + 1]
    /\ ReleaseLocks(w)
    /\ excluded'  = [excluded EXCEPT ![w] = {}]
    /\ pc'        = [pc EXCEPT ![w] = "start"]
    /\ UNCHANGED <<client_id, job_type, due, job, loaded, covers, reqVars, faults>>

-----------------------------------------------------------------------------
(* Workers: process_job *)

\* The job is loaded in a new session and the build reads the client's sources:
\* an incremental build takes in the changes, a full one also re-extracts.
StartBuild(w) ==
    /\ pc[w] = "start"
    /\ covers' = [covers EXCEPT ![w] = IF job_type[job[w]] = "full_build" THEN Kinds
                                      ELSE {"incremental"}]
    /\ pc' = [pc EXCEPT ![w] = "build"]
    /\ UNCHANGED <<jobVars, lockVars, job, excluded, loaded, reqVars, faults>>

\* orchestrator.build commits the new profile version.
BuildCommit(w) ==
    LET c == client_id[job[w]] IN
    /\ pc[w] = "build"
    /\ wanted' = [wanted EXCEPT ![c] = @ \ covers[w]]
    /\ pc' = [pc EXCEPT ![w] = "finish"]
    /\ UNCHANGED <<jobVars, lockVars, job, excluded, loaded, covers, req, overtaken, faults>>

\* The build, or the commit of its success, raises: rollback, and fail() re-reads the expired row.
BuildFail(w) ==
    /\ pc[w] \in {"build", "finish"}
    /\ loaded' = [loaded EXCEPT ![w] = Load({job[w]})]
    /\ pc' = [pc EXCEPT ![w] = "fail"]
    /\ UNCHANGED <<jobVars, lockVars, job, excluded, covers, reqVars, faults>>

\* JobQueue.fail: the UPDATE and commit.
Fail(w) ==
    /\ pc[w] = "fail"
    /\ GiveBack(w, FALSE)
    /\ ToIdle(w)
    /\ UNCHANGED <<lockVars, faults>>

\* The row is still the claim that w made.
OwnClaim(w) == status[job[w]] = "running" /\ locked_by[job[w]] = w

\* JobQueue.succeed: the status is overwritten whatever it is; the lock columns stay.
Succeed(w) ==
    /\ pc[w] = "finish"
    /\ row_lock[job[w]] = Null
    /\ status' = [status EXCEPT ![job[w]] = "succeeded"]
    /\ overtaken' = IF OwnClaim(w) THEN overtaken
                    ELSE [overtaken EXCEPT ![client_id[job[w]]] = @ \cup {"succeed"}]
    /\ ToIdle(w)
    /\ UNCHANGED <<client_id, job_type, due, attempts, locked_by, stale, lockVars,
                   req, wanted, faults>>

-----------------------------------------------------------------------------
(* Failures and time *)

\* The process dies: its transaction is rolled back, the row it claimed stays.
Crash(w) ==
    /\ pc[w] # "idle"
    /\ faults < MaxFaults
    /\ faults' = faults + 1
    /\ ReleaseLocks(w)
    /\ ToIdle(w)
    /\ UNCHANGED <<jobVars, reqVars>>

\* Worker w waits for the advisory lock of its candidate's client.
WaitsFor(w, v) == pc[w] = "lock" /\ adv_lock[client_id[job[w]]] = v

\* w is on a cycle of waits: PostgreSQL's deadlock detector will abort a member.
Deadlocked(w) ==
    \E D \in SUBSET Workers :
       /\ w \in D
       /\ \A v \in D : /\ \E u \in D : WaitsFor(v, u)
                       /\ \E u \in D : WaitsFor(u, v)

\* A statement of the claim raises (deadlock victim, connection lost): the session
\* is closed, run_worker logs the error and polls again.
ClaimError(w) ==
    /\ pc[w] \in Claiming
    /\ Deadlocked(w) \/ faults < MaxFaults
    /\ faults' = IF Deadlocked(w) THEN faults ELSE faults + 1
    /\ ReleaseLocks(w)
    /\ ToIdle(w)
    /\ UNCHANGED <<jobVars, reqVars>>

\* run_after passes.
BecomeDue(j) ==
    /\ ~due[j]
    /\ due' = [due EXCEPT ![j] = TRUE]
    /\ UNCHANGED <<status, client_id, job_type, attempts, locked_by, stale,
                   lockVars, workerVars, reqVars, faults>>

\* locked_at falls behind the stale-running cutoff.
BecomeStale(j) ==
    /\ status[j] = "running" /\ ~stale[j]
    /\ stale' = [stale EXCEPT ![j] = TRUE]
    /\ UNCHANGED <<status, client_id, job_type, due, attempts, locked_by,
                   lockVars, workerVars, reqVars, faults>>

WorkerStep(w) ==
    \/ Poll(w) \/ ReclaimWrite(w)
    \/ SelectCandidate(w) \/ NoCandidate(w) \/ AdvisoryLock(w)
    \/ RecheckFree(w) \/ RecheckBusy(w) \/ ClaimCommit(w)
    \/ StartBuild(w) \/ BuildCommit(w) \/ BuildFail(w) \/ Fail(w) \/ Succeed(w)

Next ==
    \/ \E r \in Requests, c \in Clients, kind \in Kinds, debounce \in BOOLEAN :
          EnqueueRead(r, c, kind, debounce)
    \/ \E r \in Requests, j \in Jobs : EnqueueInsert(r, j)
    \/ \E r \in Requests : EnqueueCoalesce(r)
    \/ \E w \in Workers : WorkerStep(w) \/ ReclaimLoad(w) \/ Crash(w) \/ ClaimError(w)
    \/ \E j \in Jobs : BecomeDue(j) \/ BecomeStale(j)

Spec == Init /\ [][Next]_vars

-----------------------------------------------------------------------------
(* Properties *)

\* No two rows of one client are running: the advisory lock with the recheck
\* closes the gap between claim_next's WHERE clause and its commit.
OneRunningRowPerClient ==
    \A i, j \in Jobs :
        status[i] = "running" /\ status[j] = "running" /\ client_id[i] = client_id[j] => i = j

\* A row becomes running only from queued, in a client with nothing running: no
\* interleaving of late succeed, fail and reclaim writes lets a claim revive a
\* finished row or start beside another one.
ClaimsOnlyQueued ==
    [][\A j \in Jobs : status[j] # "running" /\ status'[j] = "running" =>
          status[j] = "queued" /\ client_id[j] \notin RunningClients]_vars

\* A row is given up only after max_attempts claims, though fail and reclaim decide
\* from attempts they read earlier.
DeadOnlyAfterMaxAttempts ==
    \A j \in Jobs : status[j] = "dead" => attempts[j] >= MaxAttempts

\* A fail or reclaim has written to a row of this client from an outdated copy.
Outdated(j) == status[j] # "absent" /\ "giveback" \in overtaken[client_id[j]]

\* A running row carries locked_by/locked_at, so reclaim_stale can see it, unless a
\* fail or reclaim wrote from a row it had loaded before others changed it.
RunningIsReclaimable ==
    \A j \in Jobs : status[j] = "running" =>
        locked_by[j] # Null \/ Outdated(j)

\* A job of the client that will still build what kind k asks for, or was given up.
Pending(c, k) ==
    \E j \in JobsOf(c) :
        /\ status[j] # "succeeded"
        /\ k = "full_build" => job_type[j] = "full_build"

\* Work is lost only through the two races that overwrite a row read earlier: an
\* enqueue coalesced into a row already claimed, or a late succeed.
LostOnlyWhenOvertaken ==
    \A c \in Clients : \A k \in wanted[c] : Pending(c, k) \/ overtaken[c] \cap {"coalesce", "succeed"} # {}

\* What job_queue.py promises: a committed change always has its build job.
NoLostWork ==
    \A c \in Clients : \A k \in wanted[c] : Pending(c, k)

\* Every running row leaves running, crashed workers or not, as long as no fail or
\* reclaim wrote from an outdated row.
RunningEnds ==
    \A j \in Jobs : status[j] = "running" ~>
        status[j] # "running" \/ Outdated(j)

\* Under the same condition every queued job is eventually finished or given up.
QueuedSettles ==
    \A j \in Jobs : status[j] = "queued" ~>
        status[j] \in {"succeeded", "dead"} \/ Outdated(j)

\* Both: a build that was asked for, or begun, comes to an end.
BuildsEnd == RunningEnds /\ QueuedSettles
=============================================================================

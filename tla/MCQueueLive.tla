---------------------------- MODULE MCQueueLive ----------------------------
(* Small instances of the build queue for what must eventually happen; every  *)
(* row can be claimed twice, its builds may fail and be tried again.          *)
(*   "slow":  two workers and one row, which a reclaim may give back while    *)
(*            its worker still builds, or after that worker died;             *)
(*   "crash": two workers and two rows of one client; a worker may die or     *)
(*            lose its connection, and only what it left turns stale;         *)
(*   "deadlock": three workers and two rows of each of two clients; a worker  *)
(*            that lost a client to another keeps its advisory lock while it  *)
(*            asks for the other client's, and two may ask crosswise.         *)
EXTENDS IntelJobQueue

CONSTANTS w1, w2, w3, c1, c2, r1

VARIABLE part

allVars == <<vars, part>>

Staff == IF part = "deadlock" THEN {w1, w2, w3} ELSE {w1, w2}

\* Where "deadlock" begins: two requests of each client, each of which saw no queued row, have
\* inserted theirs (r1 and r2 are not among them).  w1 builds one, w3 has lost that client to it,
\* and w2 is about to claim a row of the other.
Contended ==
    /\ status    = [j \in Jobs |-> IF j = 1 THEN "running" ELSE "queued"]
    /\ client_id = [j \in Jobs |-> IF j \in {1, 3} THEN c1 ELSE c2]
    /\ job_type  = [j \in Jobs |-> "incremental"]
    /\ due       = [j \in Jobs |-> TRUE]
    /\ attempts  = [j \in Jobs |-> IF j = 1 THEN 1 ELSE 0]
    /\ locked_by = [j \in Jobs |-> IF j = 1 THEN w1 ELSE Null]
    /\ stale     = [j \in Jobs |-> FALSE]
    /\ row_lock  = [j \in Jobs |-> CASE j = 2 -> w2 [] j = 3 -> w3 [] OTHER -> Null]
    /\ adv_lock  = [c \in Clients |-> IF c = c1 THEN w3 ELSE w2]
    /\ pc        = [w \in Workers |-> CASE w = w1 -> "build" [] w = w2 -> "claim" [] w = w3 -> "select"]
    /\ job       = [w \in Workers |-> CASE w = w1 -> 1 [] w = w2 -> 2 [] w = w3 -> NoJob]
    /\ excluded  = [w \in Workers |-> IF w = w3 THEN {c1} ELSE {}]
    /\ loaded    = [w \in Workers |-> Unloaded]
    /\ covers    = [w \in Workers |-> IF w = w1 THEN {"incremental"} ELSE {}]
    /\ req       = [r \in Requests |-> NewRequest]
    /\ wanted    = [c \in Clients |-> {"incremental"}]
    /\ overtaken = [c \in Clients |-> {}]
    /\ faults    = 0

LiveInit == \/ part \in {"slow", "crash"} /\ Init
            \/ part = "deadlock" /\ Contended

\* In "deadlock" the first builds of two rows, one of each client, fail, and no others do; w2 is
\* stopped once its row is given back.
FirstFails(w) == job[w] \in {1, 2} /\ attempts[job[w]] = 1
Moves(w) ==
    /\ w \in Staff
    /\ WorkerStep(w)
    /\ part = "deadlock" => /\ BuildFail(w) => pc[w] = "build" /\ FirstFails(w)
                            /\ BuildCommit(w) => ~FirstFails(w)
                            /\ Poll(w) => w # w2
Reclaims(w) == w \in Staff /\ ReclaimLoad(w)
Breaks(w)   == w \in Staff /\ Deadlocked(w) /\ ClaimError(w)
Stales(j)   == /\ part # "deadlock" /\ BecomeStale(j)
               /\ part = "crash" => \A w \in Staff : job[w] # j

\* The requests ask for incremental builds of one client.
Asks     == IF part = "slow" THEN {r1} ELSE Requests
Enqueues == \E r \in Asks : \/ EnqueueRead(r, c1, "incremental", FALSE)
                            \/ EnqueueCoalesce(r) \/ \E j \in Jobs : EnqueueInsert(r, j)
Faults   == \E w \in Staff : Crash(w) \/ ClaimError(w)

LiveNext ==
    /\ \/ \E w \in Workers : Moves(w) \/ Reclaims(w) \/ Breaks(w)
       \/ \E j \in Jobs : BecomeDue(j) \/ Stales(j)
       \/ part # "deadlock" /\ (Enqueues \/ Faults)
    /\ UNCHANGED part

\* A live worker keeps executing, time passes, PostgreSQL breaks deadlocks, and a worker that polls
\* again and again is not throttled forever: of those who take part.
LiveSpec ==
    /\ LiveInit /\ [][LiveNext]_allVars
    /\ \A w \in Workers : WF_vars(Moves(w)) /\ SF_vars(Reclaims(w)) /\ WF_vars(Breaks(w))
    /\ \A j \in Jobs : WF_vars(BecomeDue(j)) /\ WF_vars(Stales(j))
=============================================================================

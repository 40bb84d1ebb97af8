--------------------------- MODULE DashboardCache ---------------------------
(***************************************************************************)
(* The dashboard of one client (services/dashboard_service.py,             *)
(* repositories/dashboard_snapshot_repository.py, the engines under ai/).  *)
(* A view answers from the cached snapshot if that was computed from the   *)
(* inputs the view has read and is not too old; otherwise it runs the      *)
(* engines and replaces the snapshot.  The lock that lets one build serve  *)
(* many views is a process's own.  The inputs, which the code compares by  *)
(* a hash, are one value; what the engines write is left out.              *)
(***************************************************************************)
EXTENDS Naturals, FiniteSets

CONSTANTS Views,      \* requests for the dashboard, and the sweep that prewarms it
          Homes,      \* processes
          Inputs,     \* what the engines can read
          Lasts,      \* _SNAPSHOT_MAX_AGE_HOURS, in ticks
          MaxTicks,   \* bound on ticks
          MaxDecided, \* bound on recorded decisions
          NoView      \* no view, no inputs

ASSUME DashboardAssumption ==
    /\ Lasts \in Nat /\ MaxTicks \in Nat /\ MaxDecided \in Nat
    /\ NoView \notin Views \cup Inputs

VARIABLES
    \* what the client's rows say now; the time; decisions on recommendations so far
    inputs, ticks, decided_so_far,
    \* dashboard_snapshots
    snapshot,
    \* each view: forced or not, process, control point, inputs read, decisions there were
    \* when it came, decisions merged, answer
    forced, place, where, read, came, merged, answer,
    \* _build_locks of each process
    building

snapshotVars  == <<inputs, ticks, decided_so_far, snapshot>>
viewVars      == <<forced, place, read, came, merged, answer>>
dashboardVars == <<snapshotVars, viewVars, where, building>>

Ticks     == 0 .. MaxTicks
Decisions == 0 .. MaxDecided
NoAnswer  == [of |-> NoView, age |-> 0, shows |-> 0, cached |-> FALSE]

DashboardTypeOK ==
    /\ inputs \in Inputs /\ ticks \in Ticks /\ decided_so_far \in Decisions
    /\ snapshot \in [of : Inputs \cup {NoView}, at : Ticks]
    /\ forced \in [Views -> BOOLEAN] /\ place \in [Views -> Homes]
    /\ where \in [Views -> {"idle", "check", "queue", "engines", "review", "end", "failed"}]
    /\ read \in [Views -> Inputs \cup {NoView}]
    /\ came \in [Views -> Decisions] /\ merged \in [Views -> Decisions]
    /\ answer \in [Views -> [of : Inputs \cup {NoView}, age : Ticks, shows : Decisions, cached : BOOLEAN]]
    /\ building \in [Homes -> Views \cup {NoView}]

DashboardInit ==
    /\ inputs \in Inputs /\ ticks = 0 /\ decided_so_far = 0
    /\ snapshot = [of |-> NoView, at |-> 0]
    /\ forced \in [Views -> BOOLEAN] /\ place \in [Views -> Homes]
    /\ where = [v \in Views |-> "idle"]
    /\ read = [v \in Views |-> NoView]
    /\ came = [v \in Views |-> 0] /\ merged = [v \in Views |-> 0]
    /\ answer = [v \in Views |-> NoAnswer]
    /\ building = [h \in Homes |-> NoView]

-----------------------------------------------------------------------------

ToStage(v, w) == where' = [where EXCEPT ![v] = w]

\* _signals and the context are read, and hashed, before anything else.
View(v) ==
    /\ where[v] = "idle"
    /\ read' = [read EXCEPT ![v] = inputs]
    /\ came' = [came EXCEPT ![v] = decided_so_far]
    /\ ToStage(v, IF forced[v] THEN "engines" ELSE "check")
    /\ UNCHANGED <<snapshotVars, forced, place, merged, answer, building>>

FreshAtAnyAge(v) == snapshot.of = read[v]
Fresh(v)         == snapshot.of = read[v] /\ ticks - snapshot.at <= Lasts

\* Decisions are merged into the stored answer each time it is served.
Merge(v)     == decided_so_far

ServeCached(v) ==
    /\ answer' = [answer EXCEPT ![v] = [of |-> snapshot.of, age |-> ticks - snapshot.at,
                                        shows |-> Merge(v), cached |-> TRUE]]
    /\ ToStage(v, "end")
    /\ UNCHANGED <<snapshotVars, forced, place, read, came, merged, building>>

Hit(v) == where[v] = "check" /\ Fresh(v) /\ ServeCached(v)

Miss(v) ==
    /\ where[v] = "check" /\ ~Fresh(v)
    /\ ToStage(v, "queue")
    /\ UNCHANGED <<snapshotVars, viewVars, building>>

Free(v) == building[place[v]] = NoView

\* Behind the lock the cache is read again: another view may have filled it.
HitLate(v) == where[v] = "queue" /\ Free(v) /\ Fresh(v) /\ ServeCached(v)

StartAgain(v) ==
    /\ where[v] = "queue" /\ Free(v)
    /\ building' = [building EXCEPT ![place[v]] = v]
    /\ ToStage(v, "engines")
    /\ UNCHANGED <<snapshotVars, viewVars>>

StartEngines(v) ==
    /\ where[v] = "queue" /\ Free(v) /\ ~Fresh(v)
    /\ building' = [building EXCEPT ![place[v]] = v]
    /\ ToStage(v, "engines")
    /\ UNCHANGED <<snapshotVars, viewVars>>

\* Each engine ends, with the model's text or with a fallback computed from the signals.
\* The decisions are merged when the recommendations are there; the review, and an engine
\* that is slower, come after.
Engines(v) ==
    /\ where[v] = "engines"
    /\ merged' = [merged EXCEPT ![v] = decided_so_far]
    /\ ToStage(v, "review")
    /\ UNCHANGED <<snapshotVars, forced, place, read, came, answer, building>>

Unlock(v) == building' = [h \in Homes |-> IF building[h] = v THEN NoView ELSE building[h]]

\* One upsert: the later write wins, whichever inputs are the newer.
Cache(v) == snapshot' = [of |-> read[v], at |-> ticks]

Finish(v) ==
    /\ where[v] = "review"
    /\ Cache(v)
    /\ answer' = [answer EXCEPT ![v] = [of |-> read[v], age |-> 0, shows |-> merged[v],
                                        cached |-> FALSE]]
    /\ Unlock(v)
    /\ ToStage(v, "end")
    /\ UNCHANGED <<inputs, ticks, decided_so_far, forced, place, read, came, merged>>

\* The request is cancelled, or the database fails.
GiveUpLocked(v) ==
    /\ where[v] \in {"engines", "review"}
    /\ ToStage(v, "failed")
    /\ UNCHANGED <<snapshotVars, viewVars, building>>
GiveUp(v) ==
    /\ where[v] \in {"check", "queue", "engines", "review"}
    /\ Unlock(v)
    /\ ToStage(v, "failed")
    /\ UNCHANGED <<snapshotVars, viewVars>>

\* Totals, integrations, approvals, rules, campaigns, the profile version.
InputsChange ==
    /\ \E i \in Inputs \ {inputs} : inputs' = i
    /\ UNCHANGED <<ticks, decided_so_far, snapshot, viewVars, where, building>>

RecordDecision ==
    /\ decided_so_far < MaxDecided
    /\ decided_so_far' = decided_so_far + 1
    /\ UNCHANGED <<inputs, ticks, snapshot, viewVars, where, building>>

Age ==
    /\ ticks < MaxTicks
    /\ ticks' = ticks + 1
    /\ UNCHANGED <<inputs, decided_so_far, snapshot, viewVars, where, building>>

Proceed(v) == Hit(v) \/ Miss(v) \/ HitLate(v) \/ StartEngines(v) \/ Engines(v) \/ Finish(v)

DashboardNext ==
    \/ \E v \in Views : View(v) \/ Proceed(v) \/ GiveUp(v)
    \/ InputsChange \/ RecordDecision \/ Age

\* A request that is let run goes on; engines end, with an answer or a fallback.
DashboardFairness == \A v \in Views : WF_dashboardVars(Proceed(v))

-----------------------------------------------------------------------------
(* Properties *)

\* A view answers for the inputs it has read, no older than the age allowed, and shows every
\* decision recorded before it came, from the cache as from the engines: what the stored
\* answer says of decisions is as old as the answer (dashboard_service.py:121).
AnswersAreCurrent ==
    \A v \in Views : where[v] = "end" =>
        /\ answer[v].of = read[v] /\ answer[v].age <= Lasts
        /\ answer[v].shows >= came[v]

\* In one process the engines run for one view at a time, but those that are forced, and not
\* while the snapshot would do: a view that has waited for another takes its answer
\* (dashboard_service.py:63).
OneBuildServesAll ==
    [][\A v \in Views : where[v] # "engines" /\ where'[v] = "engines" /\ ~forced[v] =>
         /\ ~Fresh(v)
         /\ \A w \in Views \ {v} : place[w] = place[v] /\ where[w] \in {"engines", "review"}
                                   => forced[w]]_dashboardVars

\* A view ends, however many wait for the lock and whoever gives up with it.
ViewsEnd == \A v \in Views : where[v] # "idle" ~> where[v] \in {"end", "failed"}
=============================================================================

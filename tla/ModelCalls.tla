----------------------------- MODULE ModelCalls -----------------------------
(***************************************************************************)
(* Calls to the language model: which model a feature uses                 *)
(* (ai/model_router.py, services/ai_model_route_service.py), the request   *)
(* (integrations/llm/openrouter.py) and the usage event that accounts for  *)
(* it (ai/usage.py, ai/pricing.py, repositories/ai_usage_repository.py).   *)
(*                                                                         *)
(* One task category: its route is the number of the administrator's last  *)
(* choice, 0 while there is none.  Every process caches the routes for     *)
(* _CACHE_TTL_SECONDS.                                                     *)
(***************************************************************************)
EXTENDS Naturals, FiniteSets

CONSTANTS Calls,       \* calls a feature makes
          Processes,   \* API and worker processes
          TTL,         \* _CACHE_TTL_SECONDS, in ticks
          MaxRoute,    \* bound on changes of the route
          MaxTime,     \* bound on ticks
          NoRoute      \* an empty cache

ASSUME CallAssumption ==
    /\ TTL \in Nat /\ MaxRoute \in Nat /\ MaxTime \in Nat /\ NoRoute \notin Nat
    /\ IsFiniteSet(Calls)

Routes == 0 .. MaxRoute
Times  == 0 .. MaxTime

VARIABLES
    \* ai_model_routes, and when each route was replaced; the time; whether model_for
    \* took a tick somewhere
    route, replaced, now, slow,
    \* each process: _cache, _cache_loaded_at, and whether an administrator's request in it
    \* has committed a route and not yet dropped the cache
    cached, loadedAt, committed,
    \* each call: its process, stream or not, control point, routes it read, when
    home, streams, callAt, got, began,
    \* ai_usage_events; what the caller was given; history: requests sent, events lost
    event, heard, sent, unrecorded

routeVars == <<route, replaced, now, slow>>
cacheVars == <<cached, loadedAt, committed>>
pickVars  == <<home, streams, got, began>>
usageVars == <<event, heard, sent, unrecorded>>
modelVars  == <<routeVars, cacheVars, pickVars, callAt, usageVars>>

NoEvent == [status |-> "none", priced |-> FALSE]
Events  == [status : {"none", "success", "error"}, priced : BOOLEAN]

CallTypeOK ==
    /\ route \in Routes /\ now \in Times /\ slow \in BOOLEAN
    /\ replaced \in [Routes -> Times]
    /\ cached \in [Processes -> Routes \cup {NoRoute}]
    /\ loadedAt \in [Processes -> Times]
    /\ committed \in [Processes -> BOOLEAN]
    /\ home \in [Calls -> Processes]
    /\ streams \in [Calls -> BOOLEAN]
    /\ callAt \in [Calls -> {"idle", "take", "load", "keep", "stamp", "send", "wait", "end"}]
    /\ got \in [Calls -> Routes]
    /\ began \in [Calls -> Times]
    /\ event \in [Calls -> Events]
    /\ heard \in [Calls -> {"nothing", "part", "text", "failure"}]
    /\ sent \subseteq Calls /\ unrecorded \subseteq Calls

CallInit ==
    /\ route = 0 /\ now = 0 /\ slow = FALSE
    /\ replaced = [r \in Routes |-> 0]
    /\ cached = [p \in Processes |-> NoRoute]
    /\ loadedAt = [p \in Processes |-> 0]
    /\ committed = [p \in Processes |-> FALSE]
    /\ home \in [Calls -> Processes]
    /\ streams \in [Calls -> BOOLEAN]
    /\ callAt = [c \in Calls |-> "idle"]
    /\ got = [c \in Calls |-> 0]
    /\ began = [c \in Calls |-> 0]
    /\ event = [c \in Calls |-> NoEvent]
    /\ heard = [c \in Calls |-> "nothing"]
    /\ sent = {} /\ unrecorded = {}

-----------------------------------------------------------------------------
(* The administrator's routes *)

Replace ==
    /\ route < MaxRoute
    /\ route' = route + 1
    /\ replaced' = [replaced EXCEPT ![route] = now]
    /\ UNCHANGED <<now, slow>>

\* update_route: the model is in the catalog; the row is committed before the cache of
\* this process is dropped, and no other process hears of it.
Choose(p) ==
    /\ ~committed[p]
    /\ Replace
    /\ committed' = [committed EXCEPT ![p] = TRUE]
    /\ UNCHANGED <<cached, loadedAt, pickVars, callAt, usageVars>>

Invalidate(p) ==
    /\ committed[p]
    /\ committed' = [committed EXCEPT ![p] = FALSE]
    /\ cached' = [cached EXCEPT ![p] = NoRoute]
    /\ UNCHANGED <<routeVars, loadedAt, pickVars, callAt, usageVars>>

\* list_routes gives a category without a row the cheapest model, and drops no cache.
Bootstrap ==
    /\ route = 0 /\ Replace
    /\ UNCHANGED <<cacheVars, pickVars, callAt, usageVars>>

Loading(c) == callAt[c] \in {"load", "keep", "stamp", "take"}

Tick ==
    /\ now < MaxTime
    /\ now' = now + 1
    /\ slow' = (slow \/ \E c \in Calls : Loading(c))
    /\ UNCHANGED <<route, replaced, cacheVars, pickVars, callAt, usageVars>>

-----------------------------------------------------------------------------
(* model_for *)

Point(c, p) == callAt' = [callAt EXCEPT ![c] = p]

ExpiredNever(p) == cached[p] = NoRoute
Expired(p)      == cached[p] = NoRoute \/ now - loadedAt[p] > TTL

Look(c) ==
    /\ callAt[c] = "idle"
    /\ Point(c, IF Expired(home[c]) THEN "load" ELSE "take")
    /\ began' = [began EXCEPT ![c] = now]
    /\ UNCHANGED <<routeVars, cacheVars, home, streams, got, usageVars>>

\* A failed query reads as no route at all.
Load(c) ==
    /\ callAt[c] = "load"
    /\ \E r \in {route, 0} : got' = [got EXCEPT ![c] = r]
    /\ Point(c, "keep")
    /\ UNCHANGED <<routeVars, cacheVars, home, streams, began, usageVars>>

Keep(c) ==
    /\ callAt[c] = "keep"
    /\ cached' = [cached EXCEPT ![home[c]] = got[c]]
    /\ Point(c, "stamp")
    /\ UNCHANGED <<routeVars, loadedAt, committed, pickVars, usageVars>>

Stamp(c) ==
    /\ callAt[c] = "stamp"
    /\ loadedAt' = [loadedAt EXCEPT ![home[c]] = began[c]]
    /\ Point(c, "take")
    /\ UNCHANGED <<routeVars, cached, committed, pickVars, usageVars>>

Answered(c, what) ==
    /\ heard' = [heard EXCEPT ![c] = what]
    /\ Point(c, "end")

\* The cache is read again: another thread of the process may have dropped it since, and
\* the call raises.  Without a route the call is refused as unconfigured.
Refused(c) == cached[home[c]] \in {NoRoute, 0}

Take(c) ==
    /\ callAt[c] = "take" /\ ~Refused(c)
    /\ got' = [got EXCEPT ![c] = cached[home[c]]]
    /\ Point(c, "send")
    /\ UNCHANGED <<routeVars, cacheVars, home, streams, began, usageVars>>

Refuse(c) ==
    /\ callAt[c] = "take" /\ Refused(c)
    /\ Answered(c, "failure")
    /\ UNCHANGED <<routeVars, cacheVars, pickVars, event, sent, unrecorded>>

-----------------------------------------------------------------------------
(* The request *)

Send(c) ==
    /\ callAt[c] = "send"
    /\ sent' = sent \cup {c}
    /\ Point(c, "wait")
    /\ UNCHANGED <<routeVars, cacheVars, pickVars, event, heard, unrecorded>>

NoRecord(c, status) == UNCHANGED <<event, unrecorded>>

\* record_usage prices the tokens, if the override or the catalog has a rate for the model,
\* and swallows every error of its own.
Record(c, status) ==
    \/ /\ \E priced \in BOOLEAN : event' = [event EXCEPT ![c] = [status |-> status, priced |-> priced]]
       /\ UNCHANGED unrecorded
    \/ /\ unrecorded' = unrecorded \cup {c}
       /\ UNCHANGED event

\* The provider answers; a body without the expected fields fails after the event is stored.
Succeed(c) ==
    /\ callAt[c] = "wait"
    /\ Record(c, "success")
    /\ \E what \in {"text", "failure"} : Answered(c, what)
    /\ UNCHANGED <<routeVars, cacheVars, pickVars, sent>>

\* A usage block that is no object of numbers: raised before the event is stored.
SucceedOddly(c) ==
    /\ callAt[c] = "wait" /\ ~streams[c]
    /\ unrecorded' = unrecorded \cup {c}
    /\ Answered(c, "failure")
    /\ UNCHANGED <<routeVars, cacheVars, pickVars, event, sent>>

\* An error, with the first chunks of a stream already given away.
FailCall(c) ==
    /\ callAt[c] = "wait"
    /\ Record(c, "error")
    /\ \E what \in {"failure"} \cup (IF streams[c] THEN {"part"} ELSE {}) : Answered(c, what)
    /\ UNCHANGED <<routeVars, cacheVars, pickVars, sent>>

\* The reader of a stream leaves, or the process dies: a cancellation is no Exception, and
\* no event is stored.
Cancel(c) ==
    /\ callAt[c] = "wait"
    /\ unrecorded' = unrecorded \cup {c}
    /\ Answered(c, IF streams[c] THEN "part" ELSE "nothing")
    /\ UNCHANGED <<routeVars, cacheVars, pickVars, event, sent>>

PickNext ==
    \/ \E p \in Processes : Choose(p) \/ Invalidate(p)
    \/ Bootstrap \/ Tick
    \/ \E c \in Calls : Look(c) \/ Load(c) \/ Keep(c) \/ Stamp(c) \/ Take(c) \/ Refuse(c)

RequestNext ==
    \E c \in Calls : Send(c) \/ Succeed(c) \/ SucceedOddly(c) \/ FailCall(c) \/ Cancel(c)

CallNext == PickNext \/ RequestNext

-----------------------------------------------------------------------------
(* What the usage pages show, and properties *)

\* AiUsageRepository.totals.
Requests == Cardinality({c \in Calls : event[c].status # "none"})

\* A call goes out with a replaced route only within the life of a cache since it was
\* replaced (model_router.py:107), whatever process it runs in and however its load crosses
\* the change, as long as model_for itself takes less than a tick.
OldRoutesExpire ==
    [][\A c \in Calls : callAt[c] = "take" /\ callAt'[c] = "send" /\ ~slow /\ got'[c] # route
          => now - replaced[got'[c]] <= TTL]_modelVars

\* Every attempt is accounted for (openrouter.py:101): the usage pages count each request
\* sent and ended once, except those that were cancelled, raised before the event or failed
\* to store it; and no caller has an answer that the event calls an error.
AttemptsAreAccounted ==
    /\ Requests + Cardinality(unrecorded) = Cardinality({c \in sent : callAt[c] = "end"})
    /\ \A c \in Calls : heard[c] = "text" => event[c].status # "error"
=============================================================================

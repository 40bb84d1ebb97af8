------------------------------- MODULE Access -------------------------------
(***************************************************************************)
(* Signing in and being held to account: the limiter of core/rate_limit.py,*)
(* services/auth_service.py, the dependencies of api/deps.py and the audit *)
(* of core/middleware.py.  A login spends the budget of its account in the *)
(* store of its process, or of Redis, and leaves a session row; a mutating *)
(* request is let in by its token and that row, changes something, and is  *)
(* recorded after its response by a session of the database of its own.    *)
(***************************************************************************)
EXTENDS Naturals, Sequences, FiniteSets, SequencesExt

CONSTANTS Accounts,     \* e-mail addresses submitted, each of one user
          Stores,       \* the memory of each API process, or the database of Redis
          Logins,       \* logins; one that succeeds names its token
          Calls,        \* mutating requests
          Times,        \* _ACCOUNT_LOCKOUT_TIMES
          Window,       \* _ACCOUNT_LOCKOUT_SECONDS
          BucketTTL,    \* _BUCKET_TTL_SECONDS
          SweepEvery,   \* _SWEEP_INTERVAL_SECONDS
          MaxKeys,      \* _MAX_KEYS_PER_SCOPE
          Lifetime,     \* access_token_expire_minutes
          MaxClock,     \* bound on time
          NoOne         \* SQL NULL: the actor of a row that names nobody

ASSUME LimitsAssumption ==
    /\ {Times, Window, MaxKeys, Lifetime} \subseteq Nat \ {0}
    /\ BucketTTL \in Nat /\ Window <= BucketTTL
    /\ SweepEvery \in Nat /\ MaxClock \in Nat

Clock   == 0 .. MaxClock
NoLogin == [pc |-> "idle", account |-> NoOne, store |-> NoOne, at |-> 0]
NoCall  == [pc |-> "idle", token |-> NoOne, changed |-> FALSE]

VARIABLES
    clock, backend,
    \* each store: the times of the hits of each key, and of the last sweep
    hits, swept,
    \* history: the attempts let in since an account last succeeded or its bucket was given up
    tried,
    \* users.is_active; each login; user_sessions, by the login that added the row
    active, login, signed,
    \* each mutating request, and the audit row it leaves
    call, entry
limitVars  == <<hits, swept, tried>>
signVars   == <<active, login, signed>>
callVars   == <<call, entry>>
accessVars == <<clock, backend, limitVars, signVars, callVars>>

AccessTypeOK ==
    /\ clock \in Clock /\ backend \in {"memory", "redis"}
    /\ hits \in [Stores -> [Accounts -> Seq(Clock)]] /\ swept \in [Stores -> Clock]
    /\ tried \in [Stores -> [Accounts -> Seq(Clock)]]
    /\ active \in [Accounts -> BOOLEAN]
    /\ login \in [Logins -> [pc : {"idle", "verify", "mint", "done", "refused"}, at : Clock,
                             account : Accounts \cup {NoOne}, store : Stores \cup {NoOne}]]
    /\ signed \subseteq Logins
    /\ call \in [Calls -> [pc : {"idle", "handle", "record", "over", "lost"},
                           token : Logins \cup {NoOne}, changed : BOOLEAN]]
    /\ entry \in [Calls -> Accounts \cup {NoOne, "none"}]

AccessInit ==
    /\ clock = 0
    /\ backend \in {"memory", "redis"} /\ (backend = "redis" => Cardinality(Stores) = 1)
    /\ hits   = [s \in Stores |-> [k \in Accounts |-> <<>>]]
    /\ tried  = [s \in Stores |-> [k \in Accounts |-> <<>>]]
    /\ swept  = [s \in Stores |-> 0]
    /\ active = [k \in Accounts |-> TRUE]
    /\ login  = [l \in Logins |-> NoLogin]
    /\ signed = {}
    /\ call   = [c \in Calls |-> NoCall]
    /\ entry  = [c \in Calls |-> "none"]

------------------------------------------------------------------------------
(* The limiter: one step under its lock, or one script of Redis *)

\* A bucket is dropped by the age of its newest hit.
StaleByOldest(bucket) == bucket # <<>> /\ Head(bucket) + BucketTTL <= clock
Stale(bucket)         == bucket # <<>> /\ Last(bucket) + BucketTTL <= clock

\* Redis expires each key by itself, once its window is over: nothing to sweep and no cap.
SweepDue(s) == backend = "memory" /\ clock >= swept[s] + SweepEvery

Pruned(s) == IF ~SweepDue(s) THEN hits[s]
             ELSE [k \in Accounts |-> IF Stale(hits[s][k]) THEN <<>> ELSE hits[s][k]]

\* The hits from the first one that still counts: those before it are popped.
InWindow(bucket) ==
    LET live == {i \in DOMAIN bucket : bucket[i] + Window > clock}
    IN  IF live = {} THEN <<>> ELSE SubSeq(bucket, Min(live), Len(bucket))

\* More keys than the scope may hold: those touched longest ago go.
Evictions(buckets) ==
    LET keys == {k \in Accounts : buckets[k] # <<>>}
    IN  IF backend = "redis" \/ Cardinality(keys) <= MaxKeys THEN {{}}
        ELSE {out \in SUBSET keys : /\ Cardinality(out) = Cardinality(keys) - MaxKeys
                                    /\ \A k \in out, j \in keys \ out :
                                         Last(buckets[k]) <= Last(buckets[j])}

Without(buckets, out) == [k \in Accounts |-> IF k \in out THEN <<>> ELSE buckets[k]]

\* The attempt is counted if it fits; tried forgets what was evicted.
Admit(s, account) ==
    LET bucket == InWindow(Pruned(s)[account])
        full   == [Pruned(s) EXCEPT ![account] = Append(bucket, clock)]
    IN  /\ Len(bucket) < Times
        /\ \E out \in Evictions(full) :
             /\ hits'  = [hits EXCEPT ![s] = Without(full, out)]
             /\ tried' = [tried EXCEPT ![s] = Without([tried[s] EXCEPT ![account] = Append(@, clock)], out)]

Refuse(s, account) ==
    LET bucket == InWindow(Pruned(s)[account])
    IN  /\ Len(bucket) >= Times
        /\ hits' = [hits EXCEPT ![s] = [Pruned(s) EXCEPT ![account] = bucket]]
        /\ UNCHANGED tried

Sweeps(s) == swept' = [swept EXCEPT ![s] = IF SweepDue(s) THEN clock ELSE @]

Forget(s, account) == /\ hits'  = [hits EXCEPT ![s][account] = <<>>]
                      /\ tried' = [tried EXCEPT ![s][account] = <<>>]
                      /\ UNCHANGED swept

------------------------------------------------------------------------------
(* Login and logout *)

Attempt(l) == \E s \in Stores, account \in Accounts :
    /\ login[l].pc = "idle"
    /\ \/ Admit(s, account) /\ login' = [login EXCEPT ![l] =
                                 [login[l] EXCEPT !.pc = "verify", !.account = account, !.store = s]]
       \/ Refuse(s, account) /\ login' = [login EXCEPT ![l].pc = "refused"]
    /\ Sweeps(s)
    /\ UNCHANGED <<clock, backend, active, signed, callVars>>

\* Redis cannot be reached: the attempt is let in, and nothing counts it.
AttemptUncounted(l) == \E s \in Stores, account \in Accounts :
    /\ backend = "redis"
    /\ login[l].pc = "idle"
    /\ login' = [login EXCEPT ![l] = [login[l] EXCEPT !.pc = "verify", !.account = account, !.store = s]]
    /\ UNCHANGED <<clock, backend, limitVars, active, signed, callVars>>

\* No such user, the wrong password, or the account is disabled; otherwise the budget is refunded,
\* if Redis answers.
Verify(l) ==
    LET account == login[l].account
    IN  /\ login[l].pc = "verify"
        /\ \/ /\ login' = [login EXCEPT ![l] = [NoLogin EXCEPT !.pc = "refused"]]
              /\ UNCHANGED limitVars
           \/ /\ active[account]
              /\ login' = [login EXCEPT ![l].pc = "mint"]
              /\ \/ Forget(login[l].store, account)
                 \/ backend = "redis" /\ UNCHANGED limitVars
        /\ UNCHANGED <<clock, backend, active, signed, callVars>>

\* The session row and the token, which expire together; the commit ends the login.
Mint(l) ==
    /\ login[l].pc = "mint"
    /\ login'  = [login EXCEPT ![l].pc = "done", ![l].at = clock]
    /\ signed' = signed \cup {l}
    /\ UNCHANGED <<clock, backend, limitVars, active, callVars>>

Expired(l) == login[l].at + Lifetime <= clock

\* UserService.update: disabling an account leaves its sessions.
SetActive(account) ==
    /\ active' = [active EXCEPT ![account] = ~@]
    /\ UNCHANGED <<clock, backend, limitVars, login, signed, callVars>>

\* The sweep of the scheduler: the rows that expired before now.
PurgeExpiredSessions ==
    /\ signed' = {l \in signed : login[l].at + Lifetime >= clock}
    /\ UNCHANGED <<clock, backend, limitVars, active, login, callVars>>

------------------------------------------------------------------------------
(* A mutating request *)

Goes(c, changes) == call' = [call EXCEPT ![c] = [f \in DOMAIN @ |->
                                 IF f \in DOMAIN changes THEN changes[f] ELSE @[f]]]

\* A body declared too large never reaches the audit.
RejectBody(c) ==
    /\ call[c].pc = "idle"
    /\ Goes(c, [pc |-> "over"])
    /\ UNCHANGED <<clock, backend, limitVars, signVars, entry>>

\* get_current_user; a refusal is answered, and audited, like any other outcome.
GetCurrentUser(c, l) ==
    /\ call[c].pc = "idle"
    /\ login[l].pc = "done"
    /\ Goes(c, [token |-> l, pc |-> IF ~Expired(l) /\ l \in signed /\ active[login[l].account]
                                    THEN "handle" ELSE "record"])
    /\ UNCHANGED <<clock, backend, limitVars, signVars, entry>>

\* The endpoint: forbidden or failing, it changes nothing; what it commits stays, even if the
\* answer can then not be made.
HandleUnlessRaised(c) ==
    /\ call[c].pc = "handle"
    /\ \/ Goes(c, [pc |-> "record"])
       \/ \E pc \in {"record", "over"} : Goes(c, [pc |-> pc, changed |-> TRUE])
    /\ UNCHANGED <<clock, backend, limitVars, signVars, entry>>
Handle(c) ==
    /\ call[c].pc = "handle"
    /\ \E changed \in BOOLEAN : Goes(c, [pc |-> "record", changed |-> changed])
    /\ UNCHANGED <<clock, backend, limitVars, signVars, entry>>

\* The request may be a logout, which revokes the row behind its own token.
Logout(c) ==
    /\ call[c].pc = "handle"
    /\ signed' = signed \ {call[c].token}
    /\ Goes(c, [pc |-> "record"])
    /\ UNCHANGED <<clock, backend, limitVars, active, login, entry>>

\* AuditMiddleware._actor: the token and its row again, and not whether the user is active.
Actor(l) == IF ~Expired(l) /\ l \in signed THEN login[l].account ELSE NoOne

\* AuditService.record, in a session of its own.
Recorded(c, actor) == entry' = [entry EXCEPT ![c] = actor]

Audit(c) ==
    /\ call[c].pc = "record"
    /\ Recorded(c, Actor(call[c].token))
    /\ Goes(c, [pc |-> "over"])
    /\ UNCHANGED <<clock, backend, limitVars, signVars>>

\* The row cannot be written, which is logged and forgotten; or the process dies.
AuditLost(c) ==
    /\ call[c].pc \in {"handle", "record"}
    /\ Goes(c, [pc |-> "lost"])
    /\ UNCHANGED <<clock, backend, limitVars, signVars, entry>>

Tick ==
    /\ clock < MaxClock
    /\ clock' = clock + 1
    /\ UNCHANGED <<backend, limitVars, signVars, callVars>>

AccessNext ==
    \/ \E l \in Logins : Attempt(l) \/ AttemptUncounted(l) \/ Verify(l) \/ Mint(l)
    \/ \E k \in Accounts : SetActive(k)
    \/ PurgeExpiredSessions
    \/ \E c \in Calls : \/ RejectBody(c) \/ Handle(c) \/ Logout(c) \/ Audit(c) \/ AuditLost(c)
                        \/ \E l \in Logins : GetCurrentUser(c, l)
    \/ Tick

------------------------------------------------------------------------------
(* Properties *)

\* No window ever sees more attempts than the limit, per account and store, of those let in since
\* the account last succeeded and while its bucket was not evicted: the sweep drops no bucket that
\* still counts, and a request that expires the hits of its window expires no other.
LimitHolds ==
    \A s \in Stores, k \in Accounts : LET times == tried[s][k] IN
        \A i \in 1 .. Len(times) : i + Times <= Len(times) => times[i + Times] >= times[i] + Window

\* Whatever a request changed is in the audit log under the name of its user, or of nobody if its
\* session ended while it was served, unless the row itself was lost.
ChangesAreAccounted ==
    \A c \in Calls : (call[c].changed /\ call[c].pc = "over") =>
        LET l == call[c].token
        IN  \/ entry[c] = login[l].account
            \/ entry[c] = NoOne /\ (l \notin signed \/ Expired(l))
=============================================================================

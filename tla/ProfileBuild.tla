---------------------------- MODULE ProfileBuild ----------------------------
(***************************************************************************)
(* The versioned intelligence profile of one client: orchestrator.build    *)
(* (services/intelligence/orchestrator.py), run by any number of workers   *)
(* at once because the queue cannot rule that out, and resolve_directive   *)
(* (intelligence_service.py), by which admins approve or dismiss a         *)
(* directive while builds are running.                                     *)
(*                                                                         *)
(* A directive is identified by its (type, normalised text), here a member *)
(* of Rules.  Of capability_flags the model keeps one capability: a        *)
(* directive either switches it off or says nothing about it.              *)
(*                                                                         *)
(* A definition placed just before another one and named for a mistake     *)
(* (a dropped guard, a wrong column) is a deliberate fault: it is listed   *)
(* under "mutants" in PROJECT.json, and TLC must reject the model with it. *)
(***************************************************************************)
EXTENDS Naturals, FiniteSets

CONSTANTS Builders,     \* workers building this client's profile
          Admins,       \* admins resolving directives
          Rules,        \* identities of extracted directives
          MustNot,      \* the rules of type must_not
          Must,         \* the rules of type must
          MaxVersion,   \* bound on profile versions
          MaxResolves   \* bound on resolve requests

ASSUME RulesAssumption == MustNot \subseteq Rules /\ Must \subseteq Rules
ASSUME BoundAssumption == MaxVersion \in Nat /\ MaxResolves \in Nat

Versions == 1 .. MaxVersion
Hard     == MustNot \cup Must    \* _REVIEW_GATED_TYPES

VARIABLES
    \* client_profiles: status of each version and its capability_flags snapshot
    profile, off_flag,
    \* client_directives: status of each rule in each version, and whether it
    \* carries the capability flag
    directive, carries,
    \* clients.current_profile_version (0 is NULL)
    current,
    \* each build: control point, the pointer it loaded, its directives, its version
    pc, seen, draft, version,
    \* each admin request between its reads and its commit
    request, resolves,
    \* history: rules an admin has activated; versions published by a build that had
    \* not seen the version before
    signed, unseen

profileVars == <<profile, off_flag, directive, carries, current>>
buildVars   == <<pc, seen, draft, version>>
adminVars   == <<request, resolves, signed>>
vars        == <<profileVars, buildVars, adminVars, unseen>>

ProfileStatus   == {"none", "ready", "superseded"}
DirectiveStatus == {"absent", "active", "superseded", "conflicted", "pending_review"}

\* What the extraction yields for each rule after reconcile.
Found   == [status : {"absent", "active", "conflicted", "pending_review"}, off : BOOLEAN]
Nothing == [status |-> "absent", off |-> FALSE]


\* A resolve_directive call and what it does next: the directive it loaded, what it
\* makes of it, and the flags of the profile as loaded and as recomputed.
Request   == [step : {"profile", "directives", "commit"}, version : Versions, rule : Rules,
              from : DirectiveStatus, to : {"active", "superseded"},
              loaded : BOOLEAN, flag : BOOLEAN]
NoRequest == [version |-> 0]

\* Each column and each local state has its type.
TypeOK ==
    /\ profile   \in [Versions -> ProfileStatus]
    /\ off_flag  \in [Versions -> BOOLEAN]
    /\ directive \in [Versions -> [Rules -> DirectiveStatus]]
    /\ carries   \in [Versions -> [Rules -> BOOLEAN]]
    /\ current   \in Versions \cup {0}
    /\ pc        \in [Builders -> {"idle", "extract", "number", "commit"}]
    /\ seen      \in [Builders -> Versions \cup {0}]
    /\ draft     \in [Builders -> [Rules -> Found]]
    /\ version   \in [Builders -> Nat]
    /\ request   \in [Admins -> Request \cup {NoRequest}]
    /\ resolves  \in 0 .. MaxResolves
    /\ signed    \in SUBSET Rules
    /\ unseen    \in SUBSET Versions

Init ==
    /\ profile   = [v \in Versions |-> "none"]
    /\ off_flag  = [v \in Versions |-> FALSE]
    /\ directive = [v \in Versions |-> [r \in Rules |-> "absent"]]
    /\ carries   = [v \in Versions |-> [r \in Rules |-> FALSE]]
    /\ current   = 0
    /\ pc        = [b \in Builders |-> "idle"]
    /\ seen      = [b \in Builders |-> 0]
    /\ draft     = [b \in Builders |-> [r \in Rules |-> Nothing]]
    /\ version   = [b \in Builders |-> 0]
    /\ request   = [a \in Admins |-> NoRequest]
    /\ resolves  = 0
    /\ signed    = {}
    /\ unseen    = {}

-----------------------------------------------------------------------------
(* What a build computes *)

\* reconcile leaves a rule conflicted only if it is a must or prefer that a must_not
\* of the same extraction opposes; a must_not always stays active.
Reconciled(found) ==
    \A r \in Rules :
        /\ found[r].status \in {"absent", "active", "conflicted"}
        /\ found[r].status = "absent" => ~found[r].off
        /\ found[r].status = "conflicted" =>
              r \notin MustNot /\ \E m \in MustNot : found[m].status = "active"

\* _needs_review: hard rules by type, and anything that flips a capability.
NeedsReviewByFlag(r, found) == found[r].off
NeedsReview(r, found)       == r \in Hard \/ found[r].off

\* Rules active on the version the build believes to be live.
Approved(v) == {r \in Rules : v # 0 /\ directive[v][r] = "active"}

\* _gate_new_restrictions: an active rule that needs review waits for one, unless it
\* is approved already.
Gated(found, approved) ==
    [r \in Rules |-> IF found[r].status = "active" /\ NeedsReview(r, found) /\ r \notin approved
                     THEN [found[r] EXCEPT !.status = "pending_review"] ELSE found[r]]

\* merge_capability_flags, and _recompute_capability_flags: one active directive is
\* enough to switch the capability off.
SwitchedOff(status, off) == \E r \in Rules : status[r] = "active" /\ off[r]

-----------------------------------------------------------------------------
(* Builds *)

ToIdle(b) ==
    /\ pc'      = [pc EXCEPT ![b] = "idle"]
    /\ seen'    = [seen EXCEPT ![b] = 0]
    /\ draft'   = [draft EXCEPT ![b] = [r \in Rules |-> Nothing]]
    /\ version' = [version EXCEPT ![b] = 0]

\* process_job loads the client, and with it the pointer; the sources are ingested and
\* the model calls awaited in the same open transaction.
Start(b) ==
    /\ pc[b] = "idle"
    /\ pc'   = [pc EXCEPT ![b] = "extract"]
    /\ seen' = [seen EXCEPT ![b] = current]
    /\ UNCHANGED <<profileVars, draft, version, adminVars, unseen>>

\* The extraction comes back; it is reconciled and gated against the directives that
\* the version loaded at the start has now.
Extract(b) ==
    /\ pc[b] = "extract"
    /\ \E found \in [Rules -> Found] :
          /\ Reconciled(found)
          /\ draft' = [draft EXCEPT ![b] = Gated(found, Approved(seen[b]))]
    /\ pc' = [pc EXCEPT ![b] = "number"]
    /\ UNCHANGED <<profileVars, seen, version, adminVars, unseen>>

\* next_version: one more than the highest committed version.
NextVersion(b) ==
    /\ pc[b] = "number"
    /\ \E n \in 0 .. MaxVersion :
          /\ \A v \in Versions : v <= n <=> profile[v] # "none"
          /\ version' = [version EXCEPT ![b] = n + 1]
    /\ pc' = [pc EXCEPT ![b] = "commit"]
    /\ UNCHANGED <<profileVars, seen, draft, adminVars, unseen>>

\* uq_client_profile_version: the insert waits for a concurrent one of the same number
\* and then fails.
NumberFree(v) == v \in Versions /\ profile[v] = "none"

\* The version read from the pointer at the start is superseded, the new one is ready.
SupersedeAsOld(b)   == [v \in Versions |-> IF v = version[b] THEN "ready"
                                           ELSE IF v = seen[b] THEN "old" ELSE profile[v]]
SupersedeFlipped(b) == [profile EXCEPT ![version[b]] = IF seen[b] = 0 THEN "ready" ELSE "superseded"]
Superseding(b)      == [v \in Versions |-> IF v = version[b] THEN "ready"
                                           ELSE IF v = seen[b] THEN "superseded" ELSE profile[v]]

\* The pointer moves to the new version.
PointerIncremented(b) == seen[b] + 1
PointerFlipped(b)     == version[b]

\* Insert the profile and its directives, supersede the previous version, move the
\* pointer: one commit.
Commit(b) ==
    LET v == version[b] IN
    /\ pc[b] = "commit"
    /\ NumberFree(v)
    /\ profile'   = Superseding(b)
    /\ directive' = [directive EXCEPT ![v] = [r \in Rules |-> draft[b][r].status]]
    /\ carries'   = [carries EXCEPT ![v] = [r \in Rules |-> draft[b][r].off]]
    /\ off_flag'  = [off_flag EXCEPT ![v] = SwitchedOff([r \in Rules |-> draft[b][r].status],
                                                        [r \in Rules |-> draft[b][r].off])]
    /\ current'   = PointerFlipped(b)
    /\ unseen'    = IF seen[b] = current THEN unseen ELSE unseen \cup {v}
    /\ ToIdle(b)
    /\ UNCHANGED adminVars

\* An exception (a source, the model, IntegrityError) or a crash rolls everything back.
Abort(b) ==
    /\ pc[b] # "idle"
    /\ ToIdle(b)
    /\ UNCHANGED <<profileVars, adminVars, unseen>>

-----------------------------------------------------------------------------
(* Admins: resolve_directive *)

\* _recompute_capability_flags sees the unflushed new status of the directive, because
\* the query returns the object already in the session.
Recomputed(v, r, to)         == SwitchedOff([directive[v] EXCEPT ![r] = to], carries[v])

\* get_owned: the directive, whose new status stays in the session.
ResolveRead(a, v, r, to) ==
    /\ request[a] = NoRequest
    /\ resolves < MaxResolves
    /\ directive[v][r] # "absent"
    /\ resolves' = resolves + 1
    /\ request'  = [request EXCEPT ![a] =
          [step |-> "profile", version |-> v, rule |-> r, from |-> directive[v][r], to |-> to,
           loaded |-> FALSE, flag |-> FALSE]]
    /\ UNCHANGED <<profileVars, buildVars, signed, unseen>>

\* The request reads on in a later statement, and each sees what is committed by then.
ReadsOn(a, step, q) ==
    /\ request[a] # NoRequest
    /\ request[a].step = step
    /\ request' = [request EXCEPT ![a] = q]
    /\ UNCHANGED <<profileVars, buildVars, resolves, signed, unseen>>

\* profiles.get: the flags it will compare with.
ResolveProfile(a) ==
    LET q == request[a] IN
    ReadsOn(a, "profile", [q EXCEPT !.step = "directives", !.loaded = off_flag[q.version]])

\* active_for_profile: all directives of the profile, the one at hand with its new
\* status; the flags are recomputed from them.
ResolveDirectives(a) ==
    LET q == request[a] IN
    ReadsOn(a, "directives", [q EXCEPT !.step = "commit",
                                       !.flag = Recomputed(q.version, q.rule, q.to)])

\* The commit writes the columns that differ from what was loaded.
ResolveCommit(a) ==
    LET q == request[a] IN
    /\ q # NoRequest
    /\ q.step = "commit"
    /\ directive' = IF q.to = q.from THEN directive
                    ELSE [directive EXCEPT ![q.version][q.rule] = q.to]
    /\ off_flag'  = IF q.flag = q.loaded THEN off_flag
                    ELSE [off_flag EXCEPT ![q.version] = q.flag]
    /\ signed'    = IF q.to = "active" THEN signed \cup {q.rule} ELSE signed
    /\ request'   = [request EXCEPT ![a] = NoRequest]
    /\ UNCHANGED <<profile, carries, current, buildVars, resolves, unseen>>

Next ==
    \/ \E b \in Builders : Start(b) \/ Extract(b) \/ NextVersion(b) \/ Commit(b) \/ Abort(b)
    \/ \E a \in Admins, v \in Versions, r \in Rules, to \in {"active", "superseded"} :
          ResolveRead(a, v, r, to)
    \/ \E a \in Admins : ResolveProfile(a) \/ ResolveDirectives(a) \/ ResolveCommit(a)

Spec == Init /\ [][Next]_vars

-----------------------------------------------------------------------------
(* Properties *)

\* The live version is the highest one and is ready, however builds overlap: version
\* numbers are claimed by the unique constraint, not by the pointer a build loaded.
LiveIsLatestReady ==
    /\ \A v \in Versions : v <= current <=> profile[v] # "none"
    /\ current # 0 => profile[current] = "ready"

\* A must or must_not is never active on a version unless an admin activated that rule
\* at some time, through any chain of rebuilds carrying it forward.
HardRulesAreReviewed ==
    \A v \in Versions, r \in Hard :
        directive[v][r] = "active" => r \in signed

\* What _recompute_capability_flags promises: the flags of a profile are those of its
\* active directives.
FlagsInSync ==
    \A v \in Versions : profile[v] # "none" => off_flag[v] = SwitchedOff(directive[v], carries[v])

\* The live version is the only ready one, except for a version that the build of the
\* next one had not seen published: with builds one at a time there is none.
OnlyLiveIsReady ==
    \A v \in Versions : profile[v] = "ready" => v = current \/ v + 1 \in unseen

\* The profile implements the append-only, atomically published list of versions.
Versioned == INSTANCE ProfileVersions
    WITH latest <- Cardinality({v \in Versions : profile[v] # "none"}), live <- current
Publishes == Versioned!Spec
=============================================================================

--------------------------- MODULE RecordsProofs ---------------------------
(***************************************************************************)
(* Proofs about the profile build, for any number of overlapping builds    *)
(* and admins; about the review of a drafted plan, for any number of       *)
(* managers, items, days and drafts; and about the composition of the      *)
(* records that builds, people and syncs write at once, from those of its  *)
(* components.                                                             *)
(***************************************************************************)
EXTENDS MCRecords, ConnectionProofs, FiniteSetTheorems

-----------------------------------------------------------------------------
(* The profile build *)

USE BoundAssumption, RulesAssumption DEF Versions

\* A build never holds a number beyond the next free one, nor a pointer beyond the
\* live version: both only grow, and only by committing the next number.
NumberInv ==
    /\ \A b \in Builders :
          /\ seen[b] <= current
          /\ pc[b] = "commit" => version[b] >= 1 /\ version[b] <= current + 1
    /\ LiveIsLatestReady

LEMMA InitType == Init => TypeOK
BY DEF Init, TypeOK, ProfileStatus, DirectiveStatus, Found, Nothing, Request, NoRequest

LEMMA NextType == TypeOK /\ [Next]_vars => TypeOK'
<1> SUFFICES ASSUME TypeOK, [Next]_vars PROVE TypeOK'
  OBVIOUS
<1> USE DEF TypeOK, profileVars, buildVars, adminVars
<1>1. ASSUME NEW b \in Builders, Start(b) PROVE TypeOK'
  BY <1>1 DEF Start
<1>2. ASSUME NEW b \in Builders, Extract(b) PROVE TypeOK'
  <2>1. PICK found \in [Rules -> Found] :
          draft' = [draft EXCEPT ![b] = Gated(found, Approved(seen[b]))]
    BY <1>2 DEF Extract
  <2>2. Gated(found, Approved(seen[b])) \in [Rules -> Found]
    <3>1. \A r \in Rules : [found[r] EXCEPT !.status = "pending_review"] \in Found
      <4> TAKE r \in Rules
      <4> DEFINE f == found[r]
      <4>1. f \in Found
        OBVIOUS
      <4> HIDE DEF f
      <4>2. [f EXCEPT !.status = "pending_review"] \in Found
        BY <4>1 DEF Found
      <4> QED
        BY <4>2 DEF f
    <3> QED
      BY <3>1 DEF Gated
  <2>3. pc' = [pc EXCEPT ![b] = "number"] /\ UNCHANGED <<profileVars, seen, version, adminVars, unseen>>
    BY <1>2 DEF Extract
  <2> QED
    BY <2>1, <2>2, <2>3
<1>3. ASSUME NEW b \in Builders, NextVersion(b) PROVE TypeOK'
  <2>1. version' \in [Builders -> Nat]
    BY <1>3 DEF NextVersion
  <2> QED
    BY <1>3, <2>1 DEF NextVersion
<1>4. ASSUME NEW b \in Builders, Commit(b) PROVE TypeOK'
  <2> DEFINE v == version[b]
  <2>1. v \in Versions /\ ToIdle(b) /\ UNCHANGED adminVars /\ current' = v
    BY <1>4 DEF Commit, NumberFree, PointerFlipped
  <2>2. \A r \in Rules : /\ draft[b][r].status \in DirectiveStatus
                         /\ draft[b][r].off \in BOOLEAN
    BY DEF Found, DirectiveStatus
  <2>3. profile' \in [Versions -> ProfileStatus]
    BY <1>4 DEF Commit, Superseding, ProfileStatus
  <2>4. directive' \in [Versions -> [Rules -> DirectiveStatus]]
    BY <1>4, <2>2 DEF Commit
  <2>5. carries' \in [Versions -> [Rules -> BOOLEAN]]
    BY <1>4, <2>2 DEF Commit
  <2>6. off_flag' \in [Versions -> BOOLEAN]
    BY <1>4 DEF Commit, SwitchedOff
  <2>7. /\ pc' \in [Builders -> {"idle", "extract", "number", "commit"}]
        /\ seen' \in [Builders -> Versions \cup {0}]
        /\ draft' \in [Builders -> [Rules -> Found]]
        /\ version' \in [Builders -> Nat]
    BY <2>1 DEF ToIdle, Found, Nothing
  <2>8. unseen' \in SUBSET Versions
    BY <1>4, <2>1 DEF Commit
  <2> QED
    BY <2>1, <2>3, <2>4, <2>5, <2>6, <2>7, <2>8
<1>5. ASSUME NEW b \in Builders, Abort(b) PROVE TypeOK'
  BY <1>5 DEF Abort, ToIdle, Found, Nothing
<1>6. ASSUME NEW a \in Admins, NEW v \in Versions, NEW r \in Rules,
             NEW to \in {"active", "superseded"}, ResolveRead(a, v, r, to)
      PROVE  TypeOK'
  <2>1. [step |-> "profile", version |-> v, rule |-> r, from |-> directive[v][r], to |-> to,
         loaded |-> FALSE, flag |-> FALSE] \in Request
    BY DEF Request
  <2>2. request' \in [Admins -> Request \cup {NoRequest}]
    BY <1>6, <2>1 DEF ResolveRead
  <2>3. resolves' \in 0 .. MaxResolves
    BY <1>6 DEF ResolveRead
  <2> QED
    BY <1>6, <2>2, <2>3 DEF ResolveRead
<1>7. ASSUME NEW a \in Admins, ResolveCommit(a) PROVE TypeOK'
  <2> DEFINE q == request[a]
  <2>1. q \in Request
    BY <1>7 DEF ResolveCommit
  <2>2. /\ q.version \in Versions /\ q.rule \in Rules /\ q.flag \in BOOLEAN
        /\ q.to \in DirectiveStatus
    BY <2>1 DEF Request, DirectiveStatus
  <2>3. directive' \in [Versions -> [Rules -> DirectiveStatus]]
    BY <1>7, <2>2 DEF ResolveCommit
  <2>4. off_flag' \in [Versions -> BOOLEAN]
    BY <1>7, <2>2 DEF ResolveCommit
  <2>5. signed' \in SUBSET Rules
    BY <1>7, <2>2 DEF ResolveCommit
  <2>6. request' \in [Admins -> Request \cup {NoRequest}]
    BY <1>7 DEF ResolveCommit
  <2> QED
    BY <1>7, <2>3, <2>4, <2>5, <2>6 DEF ResolveCommit
<1>9. ASSUME NEW a \in Admins, ResolveProfile(a) \/ ResolveDirectives(a) PROVE TypeOK'
  <2> DEFINE q == request[a]
  <2>1. q \in Request
    BY <1>9 DEF ResolveProfile, ResolveDirectives, ReadsOn
  <2>2. /\ q.version \in Versions
        /\ Recomputed(q.version, q.rule, q.to) \in BOOLEAN
    BY <2>1 DEF Request, Recomputed, SwitchedOff
  <2> HIDE DEF q
  <2>3. /\ [q EXCEPT !.step = "directives", !.loaded = off_flag[q.version]] \in Request
        /\ [q EXCEPT !.step = "commit", !.flag = Recomputed(q.version, q.rule, q.to)] \in Request
    BY <2>1, <2>2 DEF Request
  <2>4. /\ request' \in [Admins -> Request \cup {NoRequest}]
        /\ UNCHANGED <<profileVars, buildVars, resolves, signed, unseen>>
    BY <1>9, <2>3 DEF ResolveProfile, ResolveDirectives, ReadsOn, q
  <2> QED
    BY <2>4
<1>8. CASE UNCHANGED vars
  BY <1>8 DEF vars
<1> HIDE DEF TypeOK, profileVars, buildVars, adminVars
<1> QED
  BY <1>1, <1>2, <1>3, <1>4, <1>5, <1>6, <1>7, <1>8, <1>9 DEF Next

LEMMA InitNumber == Init => NumberInv
BY DEF Init, NumberInv, LiveIsLatestReady

LEMMA NextNumber == TypeOK /\ NumberInv /\ [Next]_vars => NumberInv'
<1> SUFFICES ASSUME TypeOK, NumberInv, [Next]_vars PROVE NumberInv'
  OBVIOUS
<1>t. /\ current \in Nat /\ current <= MaxVersion
      /\ seen \in [Builders -> Nat] /\ version \in [Builders -> Nat]
      /\ pc \in [Builders -> {"idle", "extract", "number", "commit"}]
      /\ profile \in [Versions -> ProfileStatus]
  BY DEF TypeOK
<1> USE DEF NumberInv, LiveIsLatestReady, profileVars, buildVars, adminVars
<1>1. ASSUME NEW b \in Builders, Start(b) PROVE NumberInv'
  BY <1>1, <1>t DEF Start
<1>2. ASSUME NEW b \in Builders, Extract(b) PROVE NumberInv'
  BY <1>2, <1>t DEF Extract
<1>3. ASSUME NEW b \in Builders, NextVersion(b) PROVE NumberInv'
  <2>1. PICK n \in 0 .. MaxVersion :
          /\ \A v \in Versions : v <= n <=> profile[v] # "none"
          /\ version' = [version EXCEPT ![b] = n + 1]
    BY <1>3 DEF NextVersion
  <2>2. n <= current
    <3>1. CASE n = 0
      BY <3>1, <1>t
    <3>2. CASE n # 0
      <4>1. n \in Versions
        BY <3>2
      <4>2. profile[n] # "none"
        BY <2>1, <4>1
      <4> QED
        BY <4>1, <4>2
    <3> QED
      BY <3>1, <3>2
  <2>3. UNCHANGED <<profile, current, seen>> /\ pc' = [pc EXCEPT ![b] = "commit"]
    BY <1>3 DEF NextVersion
  <2> QED
    BY <2>1, <2>2, <2>3, <1>t
<1>4. ASSUME NEW b \in Builders, Commit(b) PROVE NumberInv'
  <2>1. /\ version[b] = current + 1 /\ version[b] \in Versions
        /\ seen[b] <= current
    BY <1>4, <1>t DEF Commit, NumberFree
  <2>2. current' = version[b] /\ profile' = Superseding(b) /\ ToIdle(b)
    BY <1>4 DEF Commit, PointerFlipped
  <2>3. \A v \in Versions : v <= current' <=> profile'[v] # "none"
    BY <2>1, <2>2, <1>t DEF Superseding
  <2>4. profile'[current'] = "ready"
    BY <2>1, <2>2 DEF Superseding
  <2>5. \A c \in Builders :
          /\ seen'[c] <= current'
          /\ pc'[c] = "commit" => version'[c] >= 1 /\ version'[c] <= current' + 1
    BY <2>1, <2>2, <1>t DEF ToIdle
  <2> QED
    BY <2>3, <2>4, <2>5
<1>5. ASSUME NEW b \in Builders, Abort(b) PROVE NumberInv'
  BY <1>5, <1>t DEF Abort, ToIdle
<1>6. ASSUME NEW a \in Admins, NEW v \in Versions, NEW r \in Rules,
             NEW to \in {"active", "superseded"}, ResolveRead(a, v, r, to)
      PROVE  NumberInv'
  BY <1>6 DEF ResolveRead
<1>7. ASSUME NEW a \in Admins, ResolveCommit(a) PROVE NumberInv'
  BY <1>7 DEF ResolveCommit
<1>9. ASSUME NEW a \in Admins, ResolveProfile(a) \/ ResolveDirectives(a) PROVE NumberInv'
  BY <1>9 DEF ResolveProfile, ResolveDirectives, ReadsOn
<1>8. CASE UNCHANGED vars
  BY <1>8 DEF vars
<1> HIDE DEF NumberInv, LiveIsLatestReady, profileVars, buildVars, adminVars
<1> QED
  BY <1>1, <1>2, <1>3, <1>4, <1>5, <1>6, <1>7, <1>8, <1>9 DEF Next

\* The profile tables, the pointer and the local state of every build keep their types
\* through all overlaps of builds and of resolve_directive calls.
THEOREM TypeCorrect == Spec => []TypeOK
BY InitType, NextType, PTL DEF Spec

\* services/intelligence/orchestrator.py and uq_client_profile_version: whatever builds
\* overlap, the pointer names the highest version and that version is ready.
THEOREM LiveLatest == Spec => []LiveIsLatestReady
<1>1. Spec => []NumberInv
  BY TypeCorrect, InitNumber, NextNumber, PTL DEF Spec
<1>2. NumberInv => LiveIsLatestReady
  BY DEF NumberInv
<1> QED
  BY <1>1, <1>2, PTL

LEMMA NextOnlyLive ==
    TypeOK /\ NumberInv /\ OnlyLiveIsReady /\ [Next]_vars => OnlyLiveIsReady'
<1> SUFFICES ASSUME TypeOK, NumberInv, OnlyLiveIsReady, [Next]_vars PROVE OnlyLiveIsReady'
  OBVIOUS
<1>t. /\ current \in Nat /\ seen \in [Builders -> Nat] /\ version \in [Builders -> Nat]
      /\ profile \in [Versions -> ProfileStatus] /\ unseen \subseteq Versions
  BY DEF TypeOK
<1>1. ASSUME NEW b \in Builders, Commit(b) PROVE OnlyLiveIsReady'
  <2>1. /\ version[b] = current + 1 /\ version[b] \in Versions /\ current' = version[b]
        /\ profile' = Superseding(b)
        /\ unseen' = IF seen[b] = current THEN unseen ELSE unseen \cup {version[b]}
    BY <1>1, <1>t DEF Commit, NumberFree, PointerFlipped, NumberInv, LiveIsLatestReady
  <2> SUFFICES ASSUME NEW v \in Versions, profile'[v] = "ready", v # version[b]
               PROVE  v + 1 \in unseen'
    BY <2>1 DEF OnlyLiveIsReady
  <2>2. profile[v] = "ready" /\ v # seen[b]
    BY <2>1 DEF Superseding
  <2>3. CASE v = current
    BY <2>1, <2>2, <2>3
  <2>4. CASE v # current
    BY <2>1, <2>2, <2>4 DEF OnlyLiveIsReady
  <2> QED
    BY <2>3, <2>4
<1>2. ASSUME UNCHANGED <<profile, current, unseen>> PROVE OnlyLiveIsReady'
  BY <1>2 DEF OnlyLiveIsReady
<1>3. ASSUME NEW b \in Builders, Start(b) \/ Extract(b) \/ NextVersion(b) \/ Abort(b)
      PROVE  UNCHANGED <<profile, current, unseen>>
  BY <1>3 DEF Start, Extract, NextVersion, Abort, profileVars
<1>4. ASSUME NEW a \in Admins, ResolveProfile(a) \/ ResolveDirectives(a) \/ ResolveCommit(a)
      PROVE  UNCHANGED <<profile, current, unseen>>
  BY <1>4 DEF ResolveProfile, ResolveDirectives, ReadsOn, ResolveCommit, profileVars
<1>5. ASSUME NEW a \in Admins, NEW v \in Versions, NEW r \in Rules,
             NEW to \in {"active", "superseded"}, ResolveRead(a, v, r, to)
      PROVE  UNCHANGED <<profile, current, unseen>>
  BY <1>5 DEF ResolveRead, profileVars
<1>6. CASE UNCHANGED vars
  BY <1>2, <1>6 DEF vars, profileVars
<1> QED
  BY <1>1, <1>2, <1>3, <1>4, <1>5, <1>6 DEF Next

\* orchestrator.build supersedes the version it loaded at its start: a version stays
\* ready beside the live one only if the build that followed it had not seen it.
THEOREM OnlyLive == Spec => []OnlyLiveIsReady
<1>1. Init => OnlyLiveIsReady
  BY DEF Init, OnlyLiveIsReady
<1>2. Spec => []NumberInv
  BY TypeCorrect, InitNumber, NextNumber, PTL DEF Spec
<1> QED
  BY <1>1, <1>2, TypeCorrect, NextOnlyLive, PTL DEF Spec

-----------------------------------------------------------------------------
(* The review gate *)

\* A draft activates a hard rule only because some version had it active, and there an
\* admin had signed it: the gate is what makes the property inductive across rebuilds.
ReviewInv ==
    /\ HardRulesAreReviewed
    /\ \A b \in Builders, r \in Hard : draft[b][r].status = "active" => r \in signed

LEMMA GatePassesOnlyApproved ==
    ASSUME NEW found \in [Rules -> Found], NEW approved, NEW r \in Hard \cap Rules,
           Gated(found, approved)[r].status = "active"
    PROVE  r \in approved
<1>1. NeedsReview(r, found)
  BY DEF NeedsReview
<1>2. CASE found[r].status = "active" /\ r \notin approved
  <2> DEFINE f == found[r]
  <2>1. f \in Found
    OBVIOUS
  <2>2. Gated(found, approved)[r] = [f EXCEPT !.status = "pending_review"]
    BY <1>1, <1>2 DEF Gated
  <2> HIDE DEF f
  <2>3. [f EXCEPT !.status = "pending_review"].status = "pending_review"
    BY <2>1 DEF Found
  <2> QED
    BY <2>2, <2>3
<1>3. CASE found[r].status # "active"
  BY <1>3 DEF Gated
<1> QED
  BY <1>2, <1>3

LEMMA InitReview == Init => ReviewInv
BY DEF Init, ReviewInv, HardRulesAreReviewed, Hard, Nothing

LEMMA NextReview == TypeOK /\ ReviewInv /\ [Next]_vars => ReviewInv'
<1> SUFFICES ASSUME TypeOK, ReviewInv, [Next]_vars PROVE ReviewInv'
  OBVIOUS
<1>h. Hard \subseteq Rules
  BY DEF Hard
<1>t. /\ draft \in [Builders -> [Rules -> Found]]
      /\ directive \in [Versions -> [Rules -> DirectiveStatus]]
      /\ seen \in [Builders -> Versions \cup {0}]
      /\ request \in [Admins -> Request \cup {NoRequest}]
  BY DEF TypeOK
<1>u. ASSUME UNCHANGED <<directive, signed, draft>> PROVE ReviewInv'
  BY <1>u DEF ReviewInv, HardRulesAreReviewed
<1>1. ASSUME NEW b \in Builders, Start(b) PROVE ReviewInv'
  BY <1>1, <1>u DEF Start, profileVars, adminVars
<1>2. ASSUME NEW b \in Builders, Extract(b) PROVE ReviewInv'
  <2>1. PICK found \in [Rules -> Found] :
          draft' = [draft EXCEPT ![b] = Gated(found, Approved(seen[b]))]
    BY <1>2 DEF Extract
  <2>2. UNCHANGED <<directive, signed>>
    BY <1>2 DEF Extract, profileVars, adminVars
  <2>3. ASSUME NEW r \in Hard, draft'[b][r].status = "active" PROVE r \in signed
    <3>1. r \in Approved(seen[b])
      BY <2>1, <2>3, <1>t, <1>h, GatePassesOnlyApproved
    <3>2. seen[b] \in Versions /\ directive[seen[b]][r] = "active"
      BY <3>1, <1>t DEF Approved
    <3> QED
      BY <3>2 DEF ReviewInv, HardRulesAreReviewed
  <2>4. \A c \in Builders, r \in Hard : draft'[c][r].status = "active" => r \in signed
    BY <2>1, <2>3, <1>t DEF ReviewInv
  <2> QED
    BY <2>2, <2>4 DEF ReviewInv, HardRulesAreReviewed
<1>3. ASSUME NEW b \in Builders, NextVersion(b) PROVE ReviewInv'
  BY <1>3, <1>u DEF NextVersion, profileVars, adminVars
<1>4. ASSUME NEW b \in Builders, Commit(b) PROVE ReviewInv'
  <2>1. /\ version[b] \in Versions /\ ToIdle(b) /\ signed' = signed
        /\ directive' = [directive EXCEPT ![version[b]] = [r \in Rules |-> draft[b][r].status]]
    BY <1>4 DEF Commit, NumberFree, adminVars
  <2>2. HardRulesAreReviewed'
    BY <2>1, <1>t, <1>h DEF ReviewInv, HardRulesAreReviewed
  <2>3. \A c \in Builders, r \in Hard : draft'[c][r].status = "active" => r \in signed'
    BY <2>1, <1>t, <1>h DEF ToIdle, Nothing, ReviewInv
  <2> QED
    BY <2>2, <2>3 DEF ReviewInv
<1>5. ASSUME NEW b \in Builders, Abort(b) PROVE ReviewInv'
  <2>1. ToIdle(b) /\ UNCHANGED <<directive, signed>>
    BY <1>5 DEF Abort, profileVars, adminVars
  <2> QED
    BY <2>1, <1>t, <1>h DEF ToIdle, Nothing, ReviewInv, HardRulesAreReviewed
<1>6. ASSUME NEW a \in Admins, NEW v \in Versions, NEW r \in Rules,
             NEW to \in {"active", "superseded"}, ResolveRead(a, v, r, to)
      PROVE  ReviewInv'
  BY <1>6, <1>u DEF ResolveRead, profileVars, buildVars
<1>9. ASSUME NEW a \in Admins, ResolveProfile(a) \/ ResolveDirectives(a) PROVE ReviewInv'
  BY <1>9, <1>u DEF ResolveProfile, ResolveDirectives, ReadsOn, profileVars, buildVars
<1>7. ASSUME NEW a \in Admins, ResolveCommit(a) PROVE ReviewInv'
  <2> DEFINE q == request[a]
  <2>1. /\ q.version \in Versions /\ q.rule \in Rules
    BY <1>7, <1>t DEF ResolveCommit, Request
  <2>2. signed \subseteq signed' /\ draft' = draft
    BY <1>7 DEF ResolveCommit, buildVars
  <2>3. CASE q.to = "active" /\ q.to # q.from
    <3>1. /\ directive' = [directive EXCEPT ![q.version][q.rule] = q.to]
          /\ q.rule \in signed'
      BY <1>7, <2>3 DEF ResolveCommit
    <3> QED
      BY <3>1, <2>1, <2>2, <1>t, <1>h DEF ReviewInv, HardRulesAreReviewed
  <2>4. CASE ~(q.to = "active" /\ q.to # q.from)
    <3>1. \A v \in Versions, r \in Rules : directive'[v][r] = "active" => directive[v][r] = "active"
      BY <1>7, <2>1, <2>4, <1>t DEF ResolveCommit
    <3> QED
      BY <3>1, <2>2, <1>h DEF ReviewInv, HardRulesAreReviewed
  <2> QED
    BY <2>3, <2>4
<1>8. CASE UNCHANGED vars
  BY <1>8, <1>u DEF vars, profileVars, buildVars, adminVars
<1> QED
  BY <1>1, <1>2, <1>3, <1>4, <1>5, <1>6, <1>7, <1>8, <1>9 DEF Next

\* _gate_new_restrictions with resolve_directive: a must or must_not is active on a
\* version only if an admin activated it at some time, through any chain of rebuilds.
THEOREM HardRules == Spec => []HardRulesAreReviewed
<1>1. Spec => []ReviewInv
  BY TypeCorrect, InitReview, NextReview, PTL DEF Spec
<1>2. ReviewInv => HardRulesAreReviewed
  BY DEF ReviewInv
<1> QED
  BY <1>1, <1>2, PTL

-----------------------------------------------------------------------------
(* Where admins do not overlap, the flags are in sync *)

\* No two admins have directives of the same profile in hand.
ResolvesApart ==
    \A a, b \in Admins :
       a # b /\ request[a] # NoRequest /\ request[b] # NoRequest
         => request[a].version # request[b].version

\* What a request has read so far still holds.
StillHolds(q) ==
    /\ profile[q.version] # "none"
    /\ q.from = directive[q.version][q.rule]
    /\ q.step \in {"directives", "commit"} => q.loaded = off_flag[q.version]
    /\ q.step = "commit" => q.flag = Recomputed(q.version, q.rule, q.to)

FlagsInv ==
    /\ \A v \in Versions : profile[v] = "none" => \A r \in Rules : directive[v][r] = "absent"
    /\ \A v \in Versions : off_flag[v] = SwitchedOff(directive[v], carries[v])
    /\ \A a \in Admins : request[a] # NoRequest => StillHolds(request[a])

LEMMA InitFlags == Init => FlagsInv
<1> SUFFICES ASSUME Init PROVE FlagsInv
  OBVIOUS
<1>1. ASSUME NEW v \in Versions PROVE off_flag[v] = SwitchedOff(directive[v], carries[v])
  <2>1. off_flag[v] = FALSE /\ directive[v] = [r \in Rules |-> "absent"]
    BY DEF Init
  <2>2. SwitchedOff(directive[v], carries[v]) = FALSE
    BY <2>1 DEF SwitchedOff
  <2> QED
    BY <2>1, <2>2
<1> QED
  BY <1>1 DEF Init, FlagsInv

LEMMA NextFlags == TypeOK /\ ResolvesApart /\ FlagsInv /\ [Next]_vars => FlagsInv'
<1> SUFFICES ASSUME TypeOK, ResolvesApart, FlagsInv, [Next]_vars PROVE FlagsInv'
  OBVIOUS
<1>t. /\ profile \in [Versions -> ProfileStatus] /\ off_flag \in [Versions -> BOOLEAN]
      /\ directive \in [Versions -> [Rules -> DirectiveStatus]]
      /\ carries \in [Versions -> [Rules -> BOOLEAN]]
      /\ request \in [Admins -> Request \cup {NoRequest}]
  BY DEF TypeOK
<1>r. ASSUME NEW a \in Admins, request[a] # NoRequest
      PROVE  request[a].version \in Versions /\ request[a].rule \in Rules
  BY <1>r, <1>t DEF Request
<1>u. ASSUME UNCHANGED <<profileVars, request>> PROVE FlagsInv'
  BY <1>u DEF FlagsInv, StillHolds, Recomputed, profileVars
<1>1. ASSUME NEW b \in Builders, Start(b) \/ Extract(b) \/ NextVersion(b) \/ Abort(b)
      PROVE  FlagsInv'
  BY <1>1, <1>u DEF Start, Extract, NextVersion, Abort, adminVars
<1>2. ASSUME NEW b \in Builders, Commit(b) PROVE FlagsInv'
  <2> DEFINE v == version[b]
             status == [r \in Rules |-> draft[b][r].status]
             off == [r \in Rules |-> draft[b][r].off]
  <2>1. /\ v \in Versions /\ profile[v] = "none" /\ UNCHANGED request
        /\ profile' = Superseding(b)
        /\ directive' = [directive EXCEPT ![v] = status]
        /\ carries' = [carries EXCEPT ![v] = off]
        /\ off_flag' = [off_flag EXCEPT ![v] = SwitchedOff(status, off)]
    BY <1>2 DEF Commit, NumberFree, adminVars
  <2>2. \A w \in Versions : profile'[w] = "none" => w # v /\ profile[w] = "none"
    BY <2>1 DEF Superseding
  <2> HIDE DEF v, status, off
  <2>3. /\ directive'[v] = status /\ carries'[v] = off /\ off_flag'[v] = SwitchedOff(status, off)
        /\ \A w \in Versions : w # v => /\ directive'[w] = directive[w] /\ carries'[w] = carries[w]
                                        /\ off_flag'[w] = off_flag[w]
    BY <2>1, <1>t
  <2>4. \A w \in Versions : off_flag'[w] = SwitchedOff(directive'[w], carries'[w])
    BY <2>3 DEF FlagsInv
  <2>5. \A w \in Versions : profile'[w] = "none" => \A r \in Rules : directive'[w][r] = "absent"
    BY <2>2, <2>3 DEF FlagsInv
  <2>6. ASSUME NEW a \in Admins, request[a] # NoRequest PROVE StillHolds(request[a])'
    <3>1. request[a].version \in Versions /\ request[a].version # v /\ StillHolds(request[a])
      BY <2>1, <2>6, <1>r DEF FlagsInv, StillHolds
    <3>2. profile'[request[a].version] # "none"
      BY <2>2, <3>1 DEF StillHolds
    <3> QED
      BY <2>1, <2>3, <3>1, <3>2 DEF StillHolds, Recomputed
  <2> QED
    BY <2>1, <2>4, <2>5, <2>6 DEF FlagsInv
<1>3. ASSUME NEW a \in Admins, NEW v \in Versions, NEW r \in Rules,
             NEW to \in {"active", "superseded"}, ResolveRead(a, v, r, to)
      PROVE  FlagsInv'
  <2> DEFINE q == [step |-> "profile", version |-> v, rule |-> r, from |-> directive[v][r],
                   to |-> to, loaded |-> FALSE, flag |-> FALSE]
  <2>1. /\ directive[v][r] # "absent" /\ UNCHANGED profileVars
        /\ request' = [request EXCEPT ![a] = q]
    BY <1>3 DEF ResolveRead
  <2>2. StillHolds(q)
    BY <2>1 DEF StillHolds, FlagsInv
  <2> HIDE DEF q
  <2>3. \A c \in Admins : request'[c] = IF c = a THEN q ELSE request[c]
    BY <2>1, <1>t
  <2>4. \A c \in Admins : request'[c] # NoRequest => StillHolds(request'[c])
    BY <2>2, <2>3 DEF FlagsInv
  <2> QED
    BY <2>1, <2>4 DEF FlagsInv, StillHolds, Recomputed, profileVars
<1>6. ASSUME NEW a \in Admins, ResolveProfile(a) \/ ResolveDirectives(a) PROVE FlagsInv'
  <2> DEFINE q == request[a]
  <2>1. q \in Request /\ StillHolds(q)
    BY <1>6, <1>t DEF ResolveProfile, ResolveDirectives, ReadsOn, FlagsInv
  <2> DEFINE read == [q EXCEPT !.step = "directives", !.loaded = off_flag[q.version]]
             flagged == [q EXCEPT !.step = "commit", !.flag = Recomputed(q.version, q.rule, q.to)]
  <2>2. \/ q.step = "profile" /\ request' = [request EXCEPT ![a] = read]
        \/ q.step = "directives" /\ request' = [request EXCEPT ![a] = flagged]
    BY <1>6 DEF ResolveProfile, ResolveDirectives, ReadsOn
  <2>3. UNCHANGED profileVars
    BY <1>6 DEF ResolveProfile, ResolveDirectives, ReadsOn
  <2> HIDE DEF q
  <2>4. StillHolds(read)
    <3>1. /\ read.version = q.version /\ read.rule = q.rule /\ read.from = q.from
          /\ read.step = "directives" /\ read.loaded = off_flag[q.version]
      BY <2>1 DEF Request
    <3> QED
      BY <2>1, <3>1 DEF StillHolds
  <2>5. q.step = "directives" => StillHolds(flagged)
    <3>1. /\ flagged.version = q.version /\ flagged.rule = q.rule /\ flagged.from = q.from
          /\ flagged.step = "commit" /\ flagged.loaded = q.loaded /\ flagged.to = q.to
          /\ flagged.flag = Recomputed(q.version, q.rule, q.to)
      BY <2>1 DEF Request
    <3> QED
      BY <2>1, <3>1 DEF StillHolds
  <2> HIDE DEF read, flagged
  <2>6. \A c \in Admins : request'[c] # NoRequest => StillHolds(request'[c])
    BY <2>2, <2>4, <2>5, <1>t DEF FlagsInv
  <2> QED
    BY <2>3, <2>6 DEF FlagsInv, StillHolds, Recomputed, profileVars
<1>4. ASSUME NEW a \in Admins, ResolveCommit(a) PROVE FlagsInv'
  <2> DEFINE q == request[a]
             v == q.version
             new == [directive[v] EXCEPT ![q.rule] = q.to]
  <2>1. q # NoRequest /\ v \in Versions /\ q.rule \in Rules /\ StillHolds(q) /\ q.step = "commit"
    BY <1>4, <1>r DEF ResolveCommit, FlagsInv
  <2>2. /\ directive' = IF q.to = q.from THEN directive ELSE [directive EXCEPT ![v][q.rule] = q.to]
        /\ off_flag' = IF q.flag = q.loaded THEN off_flag ELSE [off_flag EXCEPT ![v] = q.flag]
        /\ request' = [request EXCEPT ![a] = NoRequest]
        /\ UNCHANGED <<profile, carries>>
    BY <1>4 DEF ResolveCommit
  <2>3. directive'[v] = new
    <3>1. CASE q.to = q.from
      <4>1. q.to = directive[v][q.rule] /\ directive' = directive
        BY <2>1, <2>2, <3>1 DEF StillHolds
      <4> QED
        BY <2>1, <4>1, <1>t
    <3>2. CASE q.to # q.from
      BY <2>1, <2>2, <3>2, <1>t
    <3> QED
      BY <3>1, <3>2
  <2>4. off_flag'[v] = q.flag
    BY <2>1, <2>2, <1>t DEF StillHolds
  <2>5. q.flag = SwitchedOff(new, carries[v])
    BY <2>1 DEF StillHolds, Recomputed
  <2>6. \A w \in Versions : w # v => directive'[w] = directive[w] /\ off_flag'[w] = off_flag[w]
    BY <2>1, <2>2, <1>t
  <2>7. ASSUME NEW c \in Admins, c # a, request[c] # NoRequest
        PROVE  StillHolds(request[c])'
    <3>1. request[c].version \in Versions /\ request[c].version # v /\ StillHolds(request[c])
      BY <2>1, <2>7, <1>r DEF ResolvesApart, FlagsInv
    <3>2. request'[c] = request[c]
      BY <2>2, <2>7, <1>t
    <3> QED
      BY <2>2, <2>6, <3>1, <3>2 DEF StillHolds, Recomputed
  <2>8. profile[v] # "none"
    BY <2>1 DEF StillHolds
  <2>9. request'[a] = NoRequest /\ \A c \in Admins : c # a => request'[c] = request[c]
    BY <2>2, <1>t
  <2> HIDE DEF q, v, new
  <2>10. \A w \in Versions : off_flag'[w] = SwitchedOff(directive'[w], carries'[w])
    BY <2>2, <2>3, <2>4, <2>5, <2>6 DEF FlagsInv
  <2>11. \A w \in Versions : profile'[w] = "none" => \A r \in Rules : directive'[w][r] = "absent"
    BY <2>2, <2>6, <2>8 DEF FlagsInv
  <2> QED
    BY <2>7, <2>9, <2>10, <2>11 DEF FlagsInv
<1>5. CASE UNCHANGED vars
  BY <1>5, <1>u DEF vars, adminVars
<1> QED
  BY <1>1, <1>2, <1>3, <1>4, <1>5, <1>6 DEF Next

\* _recompute_capability_flags keeps its promise, with any number of builds and admins, as long
\* as no two admins resolve directives of one profile at the same time: with one admin, always.
\* The run profile_flags_sync shows that two are enough to break it.
THEOREM FlagsWhenApart == Spec /\ []ResolvesApart => []FlagsInSync
<1>1. FlagsInv => FlagsInSync
  BY DEF FlagsInv, FlagsInSync
<1> QED
  BY <1>1, TypeCorrect, InitFlags, NextFlags, PTL DEF Spec

-----------------------------------------------------------------------------
(* Refinement of ProfileVersions *)

Published == {v \in Versions : profile[v] # "none"}

LEMMA PublishedCount == TypeOK /\ NumberInv => Cardinality(Published) = current
<1> SUFFICES ASSUME TypeOK, NumberInv PROVE Cardinality(Published) = current
  OBVIOUS
<1>1. current \in Nat /\ current <= MaxVersion
  BY DEF TypeOK
<1>2. Published = 1 .. current
  BY <1>1 DEF Published, NumberInv, LiveIsLatestReady
<1>3. Cardinality(1 .. current) = current
  BY <1>1, FS_Interval
<1> QED
  BY <1>2, <1>3

LEMMA PublishStep ==
    ASSUME TypeOK, NumberInv, [Next]_vars
    PROVE  current' = current + 1 \/ current' = current
<1>t. /\ current \in Nat /\ seen \in [Builders -> Nat] /\ version \in [Builders -> Nat]
      /\ pc \in [Builders -> {"idle", "extract", "number", "commit"}]
  BY DEF TypeOK
<1>1. ASSUME NEW b \in Builders, Commit(b) PROVE current' = current + 1
  BY <1>1, <1>t DEF Commit, NumberFree, PointerFlipped, NumberInv, LiveIsLatestReady
<1>2. ASSUME NEW b \in Builders, Start(b) \/ Extract(b) \/ NextVersion(b) \/ Abort(b)
      PROVE  current' = current
  BY <1>2 DEF Start, Extract, NextVersion, Abort, profileVars
<1>3. ASSUME NEW a \in Admins, ResolveProfile(a) \/ ResolveDirectives(a) \/ ResolveCommit(a)
      PROVE  current' = current
  BY <1>3 DEF ResolveProfile, ResolveDirectives, ReadsOn, ResolveCommit, profileVars
<1>4. ASSUME NEW a \in Admins, NEW v \in Versions, NEW r \in Rules,
             NEW to \in {"active", "superseded"}, ResolveRead(a, v, r, to)
      PROVE  current' = current
  BY <1>4 DEF ResolveRead, profileVars
<1>5. CASE UNCHANGED vars
  BY <1>5 DEF vars, profileVars
<1> QED
  BY <1>1, <1>2, <1>3, <1>4, <1>5 DEF Next

\* models/client_profile.py's append-only versions and orchestrator.build's single
\* commit: every step publishes exactly the next version and makes it live, or does
\* not touch either.
THEOREM Refinement == Spec => Publishes
<1>1. Init => Versioned!Init
  <2> SUFFICES ASSUME Init PROVE Versioned!Init
    OBVIOUS
  <2>1. TypeOK /\ NumberInv /\ current = 0
    BY InitType, InitNumber DEF Init
  <2> QED
    BY <2>1, PublishedCount DEF Versioned!Init, Published
<1>2. TypeOK /\ NumberInv /\ TypeOK' /\ NumberInv' /\ [Next]_vars
        => [Versioned!Publish]_<<Cardinality(Published), current>>
  <2> SUFFICES ASSUME TypeOK, NumberInv, TypeOK', NumberInv', [Next]_vars
               PROVE  [Versioned!Publish]_<<Cardinality(Published), current>>
    OBVIOUS
  <2>1. (Cardinality(Published) = current) /\ (Cardinality(Published) = current)'
    BY PublishedCount, PTL
  <2> QED
    BY <2>1, PublishStep DEF Versioned!Publish, Published
<1>3. Spec => []NumberInv
  BY TypeCorrect, InitNumber, NextNumber, PTL DEF Spec
<1> QED
  BY <1>1, <1>2, <1>3, TypeCorrect, PTL DEF Spec, Publishes, Versioned!Spec, Published

-----------------------------------------------------------------------------
(* The review: what an open request will write *)

Writes(w, c) == c \in DOMAIN w

Col(row, w, c) == IF Writes(w, c) THEN w[c] ELSE row[c]

\* The kinds of request that write each column, and what they write there.
Shape(w, kind, drafted) ==
    /\ DOMAIN w \subseteq {"start", "due", "approval", "by", "content"}
    /\ Writes(w, "start") => kind \in {"assign", "patch"} /\ w["start"] \in Days
    /\ Writes(w, "due")   => kind \in {"assign", "patch"} /\ w["due"] \in Days
    /\ Writes(w, "approval") =>
          kind \notin {"edit", "patch"} /\ w["approval"] \in {"pending", "approved", "rejected"}
    /\ Writes(w, "by") =>
          kind \notin {"edit", "patch"} /\ w["by"] \in Managers \cup {Nobody}
    /\ Writes(w, "content") =>
          /\ w["content"] \in 0 .. drafted
          /\ kind = "regenerate" \/ (kind = "edit" /\ w["content"] = 0)

\* A request that decides, or writes a new draft, leaves the item approved only with the draft
\* it has read and an approver.
DecidedBy(row, w, kind, read) ==
    kind \notin {"edit", "patch"} /\ Col(row, w, "approval") = "approved"
    => /\ Col(row, w, "content") # 0 => Col(row, w, "content") \in read
       /\ Col(row, w, "by") # Nobody

\* A patch leaves the range in order; an assignment that sets a start sets it to the due date.
DatedBy(row, w, kind) ==
    /\ kind = "patch" => InOrder(Col(row, w, "start"), Col(row, w, "due"))
    /\ kind = "assign" /\ Writes(w, "start") => w["start"] = Col(row, w, "due")

\* The drafts of an item a manager approves.
Read(m, i) == {d \in 0 .. drafts : <<i, d>> \in approving[m]}

\* What a request makes of an item is still what it will be, unless another request has
\* committed a column it counts on and does not write itself.
Decided(m, i) ==
    \/ ~item[i].event \/ Passed(m, i, DecisionColumns)
    \/ DecidedBy(item[i], writes[m][i], doing[m], Read(m, i))

EndPassed(m, i) == \E c \in DateColumns : Passed(m, i, {c}) /\ ~Writes(writes[m][i], c)

Dated(m, i) ==
    \/ ~item[i].task \/ EndPassed(m, i)
    \/ DatedBy(item[i], writes[m][i], doing[m])

RequestsInv ==
    /\ writes = [m \in Managers |-> writes[m]]
    /\ approving = [m \in Managers |-> approving[m]]
    /\ \A i \in Items : item[i].content \in 0 .. drafts
    /\ \A m \in Managers : \A i \in DOMAIN writes[m] :
          /\ Shape(writes[m][i], doing[m], drafts)
          /\ Decided(m, i) /\ Dated(m, i)

PlanInv == PlanTypeOK /\ RequestsInv /\ ReviewIsAnswered /\ SpansAreInOrder

LEMMA PlanInitInv == PlanInit => PlanInv
<1> SUFFICES ASSUME PlanInit PROVE PlanInv
  OBVIOUS
<1>1. /\ item \in [Items -> {Drafted(day) : day \in Days \ {NoDay}}]
      /\ doing = [m \in Managers |-> "nothing"] /\ writes = [m \in Managers |-> <<>>]
      /\ approving = [m \in Managers |-> {}] /\ drafts = 1 /\ reviewed = {}
      /\ exempt = [i \in Items |-> {}] /\ passed = [m \in Managers |-> {}]
  BY DEF PlanInit
<1>2. ASSUME NEW i \in Items
      PROVE  /\ item[i] \in Row /\ item[i].approval = "pending" /\ item[i].content = 1
             /\ item[i].start = item[i].due /\ item[i].start \in Nat
  <2>1. PICK day \in Days : item[i] = Drafted(day)
    BY <1>1
  <2> QED
    BY <2>1, PlanAssumption DEF Drafted, Row, Days
<1>3. \A m \in Managers : DOMAIN writes[m] = {} /\ approving[m] = {}
  BY <1>1
<1>4. PlanTypeOK
  BY <1>1, <1>2, <1>3, PlanAssumption DEF PlanTypeOK, Kinds
<1>5. RequestsInv
  BY <1>1, <1>2, <1>3 DEF RequestsInv
<1> QED
  BY <1>2, <1>4, <1>5 DEF PlanInv, ReviewIsAnswered, DraftsAreReviewed, ApprovedBySomebody, SpansAreInOrder

-----------------------------------------------------------------------------
(* The columns a request writes *)

\* A row with some columns written has the columns of both.
LEMMA OverColumns ==
    ASSUME NEW row \in Row, NEW w, DOMAIN w \subseteq {"start", "due", "approval", "by", "content"}
    PROVE  Over(row, w) =
             [task |-> row.task, start |-> Col(row, w, "start"), due |-> Col(row, w, "due"),
              event |-> row.event, approval |-> Col(row, w, "approval"), by |-> Col(row, w, "by"),
              content |-> Col(row, w, "content")]
<1>1. DOMAIN row = {"task", "start", "due", "event", "approval", "by", "content"}
  BY DEF Row
<1> QED
  BY <1>1 DEF Over, Col, Writes

\* A request of the right shape leaves a row.
LEMMA OverIsRow ==
    ASSUME NEW row \in Row, NEW w, NEW kind, NEW drafted \in 0 .. MaxDrafts,
           row.content \in 0 .. drafted, Shape(w, kind, drafted)
    PROVE  Over(row, w) \in Row /\ Over(row, w).content \in 0 .. drafted
<1> DEFINE start == Col(row, w, "start")
           due == Col(row, w, "due")
           approval == Col(row, w, "approval")
           by == Col(row, w, "by")
           content == Col(row, w, "content")
<1>1. /\ start \in Days /\ due \in Days /\ approval \in {"pending", "approved", "rejected"}
      /\ by \in Managers \cup {Nobody} /\ content \in 0 .. drafted
      /\ row.task \in BOOLEAN /\ row.event \in BOOLEAN
  BY DEF Shape, Col, Row
<1>2. Over(row, w) = [task |-> row.task, start |-> start, due |-> due, event |-> row.event,
                      approval |-> approval, by |-> by, content |-> content]
  BY OverColumns DEF Shape
<1> HIDE DEF start, due, approval, by, content
<1>3. content \in 0 .. MaxDrafts
  BY <1>1, PlanAssumption
<1> QED
  BY <1>1, <1>2, <1>3 DEF Row

\* What differs from the row is written, and nothing else.
LEMMA DirtyColumns ==
    ASSUME NEW row \in Row, NEW new \in Row, new.task = row.task, new.event = row.event
    PROVE  /\ DOMAIN Dirty(row, new) \subseteq {"start", "due", "approval", "by", "content"}
           /\ \A c \in {"start", "due", "approval", "by", "content"} :
                 /\ Writes(Dirty(row, new), c) <=> new[c] # row[c]
                 /\ Writes(Dirty(row, new), c) => Dirty(row, new)[c] = new[c]
                 /\ Col(row, Dirty(row, new), c) = new[c]
<1>1. DOMAIN row = {"task", "start", "due", "event", "approval", "by", "content"}
  BY DEF Row
<1>2. new["task"] = row["task"] /\ new["event"] = row["event"]
  OBVIOUS
<1> QED
  BY <1>1, <1>2 DEF Dirty, Col, Writes

\* What a request needs of the drafts stays true as more are read and written.
LEMMA MoreRead ==
    ASSUME NEW row, NEW w, NEW kind, NEW read, NEW more, read \subseteq more,
           DecidedBy(row, w, kind, read)
    PROVE  DecidedBy(row, w, kind, more)
BY DEF DecidedBy

LEMMA MoreDrafted ==
    ASSUME NEW w, NEW kind, NEW drafted \in Nat, NEW more \in Nat, drafted <= more,
           Shape(w, kind, drafted)
    PROVE  Shape(w, kind, more)
BY DEF Shape

-----------------------------------------------------------------------------
(* Loading *)

\* A request that loads an item keeps the invariant, if what it will write is of its kind.
LEMMA OpenKeeps ==
    ASSUME PlanInv, NEW m \in Managers, NEW i \in Items, NEW kind \in Kinds, NEW new \in Row,
           new.task = item[i].task, new.event = item[i].event,
           drafts' = drafts \/ (drafts' = drafts + 1 /\ drafts < MaxDrafts),
           Open(m, kind, i, new),
           Shape(Dirty(item[i], new), kind, drafts'),
           item[i].event => DecidedBy(item[i], Dirty(item[i], new), kind, Read(m, i)'),
           item[i].task => DatedBy(item[i], Dirty(item[i], new), kind)
    PROVE  PlanInv'
<1> DEFINE w == Dirty(item[i], new)
<1>0. /\ item \in [Items -> Row] /\ doing \in [Managers -> Kinds \cup {"nothing"}]
      /\ drafts \in 1 .. MaxDrafts /\ MaxDrafts \in Nat
      /\ writes = [n \in Managers |-> writes[n]] /\ approving = [n \in Managers |-> approving[n]]
      /\ \A j \in Items : item[j].content \in 0 .. drafts
      /\ \A n \in Managers : DOMAIN writes[n] \subseteq Items
      /\ doing[m] = "nothing" => writes[m] = <<>>
  BY PlanAssumption DEF PlanInv, PlanTypeOK, RequestsInv
<1>1. /\ doing[m] = "nothing" \/ (doing[m] = kind /\ ~HasRead(m, i))
      /\ doing' = [doing EXCEPT ![m] = kind]
      /\ writes' = [writes EXCEPT ![m] =
                       [j \in DOMAIN writes[m] \cup {i} |-> IF j = i THEN w ELSE writes[m][j]]]
      /\ UNCHANGED <<item, passed, reviewed, exempt>>
  BY DEF Open, reviewVars
<1>2. /\ approving' = [approving EXCEPT ![m] = approving'[m]]
      /\ approving'[m] \in {approving[m], approving[m] \cup ({<<i, item[i].content>>} \ {<<i, 0>>})}
  BY <1>0 DEF Open
<1>3. /\ drafts' \in 1 .. MaxDrafts /\ drafts <= drafts' /\ drafts \in Nat /\ drafts' \in Nat
      /\ \A d \in 0 .. drafts : d \in 0 .. drafts'
  BY <1>0
<1>4. /\ \A n \in Managers \ {m} : /\ writes'[n] = writes[n] /\ approving'[n] = approving[n]
                                   /\ doing'[n] = doing[n]
      /\ doing'[m] = kind
      /\ DOMAIN writes'[m] = DOMAIN writes[m] \cup {i} /\ writes'[m][i] = w
      /\ \A j \in DOMAIN writes[m] \ {i} : writes'[m][j] = writes[m][j]
      /\ \A j \in DOMAIN writes[m] : doing[m] = kind
  <2>1. \A n \in Managers \ {m} : /\ writes'[n] = writes[n] /\ approving'[n] = approving[n]
                                  /\ doing'[n] = doing[n]
    BY <1>0, <1>1, <1>2
  <2>2. doing'[m] = kind
    BY <1>0, <1>1
  <2>3. writes'[m] = [j \in DOMAIN writes[m] \cup {i} |-> IF j = i THEN w ELSE writes[m][j]]
    BY <1>0, <1>1
  <2>4. doing[m] = "nothing" => DOMAIN writes[m] = {}
    BY <1>0
  <2> HIDE DEF w
  <2> QED
    BY <1>1, <2>1, <2>2, <2>3, <2>4
<1>5. writes' = [n \in Managers |-> writes'[n]] /\ approving' = [n \in Managers |-> approving'[n]]
  BY <1>0, <1>1, <1>2
<1> HIDE DEF w
<1>6. \A n \in Managers, j \in Items : Read(n, j) \subseteq Read(n, j)'
  BY <1>2, <1>3, <1>4 DEF Read
<1>7. ASSUME NEW n \in Managers, NEW j \in DOMAIN writes'[n]
      PROVE  Shape(writes'[n][j], doing'[n], drafts') /\ Decided(n, j)' /\ Dated(n, j)'
  <2>1. CASE n = m /\ j = i
    BY <1>1, <1>4, <2>1 DEF Decided, Dated, w
  <2>2. CASE ~(n = m /\ j = i)
    <3>1. /\ j \in DOMAIN writes[n] /\ writes'[n][j] = writes[n][j] /\ doing'[n] = doing[n] /\ j \in Items
      BY <1>0, <1>4, <2>2
    <3>2. Shape(writes[n][j], doing[n], drafts) /\ Decided(n, j) /\ Dated(n, j)
      BY <3>1 DEF PlanInv, RequestsInv
    <3>3. Shape(writes'[n][j], doing'[n], drafts')
      BY <1>3, <3>1, <3>2, MoreDrafted
    <3>4. Decided(n, j)'
      BY <1>1, <1>6, <3>1, <3>2, MoreRead DEF Decided, Passed
    <3>5. Dated(n, j)'
      BY <1>1, <3>1, <3>2 DEF Dated, EndPassed, Passed
    <3> QED
      BY <3>3, <3>4, <3>5
  <2> QED
    BY <2>1, <2>2
<1>8. RequestsInv'
  BY <1>0, <1>1, <1>3, <1>5, <1>7 DEF RequestsInv
<1>9. PlanTypeOK'
  <2>1. ASSUME NEW n \in Managers
        PROVE  /\ DOMAIN writes'[n] \subseteq Items
               /\ doing'[n] = "nothing" => /\ writes'[n] = <<>> /\ approving'[n] = {}
                                           /\ passed'[n] = {}
    BY <1>0, <1>1, <1>4 DEF PlanInv, PlanTypeOK, Kinds
  <2>2. ASSUME NEW n \in Managers, NEW j \in DOMAIN writes'[n]
        PROVE  Over(item'[j], writes'[n][j]) \in Row
    <3>1. j \in Items /\ item[j] \in Row /\ item[j].content \in 0 .. drafts'
      BY <1>0, <1>3, <2>1
    <3>2. drafts' \in 0 .. MaxDrafts
      BY <1>0, <1>3
    <3> QED
      BY <1>1, <1>7, <3>1, <3>2, OverIsRow
  <2>3. ASSUME NEW p \in reviewed' \cup UNION {approving'[n] : n \in Managers}
        PROVE  p[1] \in Items /\ p[2] \in 0 .. drafts'
    <3>1. p \in reviewed \cup UNION {approving[n] : n \in Managers} \/ p = <<i, item[i].content>>
      BY <1>1, <1>2, <1>4
    <3>2. CASE p \in reviewed \cup UNION {approving[n] : n \in Managers}
      BY <1>3, <3>2 DEF PlanInv, PlanTypeOK
    <3>3. CASE p = <<i, item[i].content>>
      BY <1>0, <1>3, <3>3
    <3> QED
      BY <3>1, <3>2, <3>3
  <2>4. doing' \in [Managers -> Kinds \cup {"nothing"}]
    BY <1>0, <1>1
  <2>5. /\ exempt' \in [Items -> SUBSET {"decisions", "dates"}]
        /\ passed' \in [Managers -> SUBSET (Items \X (DateColumns \cup DecisionColumns))]
    BY <1>1 DEF PlanInv, PlanTypeOK
  <2> QED
    BY <1>0, <1>1, <1>3, <2>1, <2>2, <2>3, <2>4, <2>5 DEF PlanTypeOK
<1>10. (ReviewIsAnswered /\ SpansAreInOrder)'
  BY <1>1 DEF PlanInv, ReviewIsAnswered, DraftsAreReviewed, ApprovedBySomebody, SpansAreInOrder
<1> QED
  BY <1>8, <1>9, <1>10 DEF PlanInv

\* Every request that loads an item writes what its kind may.
LEMMA LoadsKeep ==
    ASSUME PlanInv, NEW m \in Managers, NEW i \in Items,
           \/ Assign(m, i) \/ Reject(m, i) \/ Approve(m, i) \/ Regenerate(m, i)
           \/ Edit(m, i) \/ Decide(m, i) \/ Patch(m, i)
    PROVE  PlanInv'
<1> DEFINE row == item[i]
<1>0. /\ row \in Row /\ row.content \in 0 .. drafts /\ drafts \in 1 .. MaxDrafts /\ MaxDrafts \in Nat
      /\ Nobody \notin Managers /\ NoDay \in Days /\ Days \subseteq Nat /\ NoDay = 0
  BY PlanAssumption DEF PlanInv, PlanTypeOK, RequestsInv, NoDay, Days
<1>1. DOMAIN row = {"task", "start", "due", "event", "approval", "by", "content"}
  BY <1>0 DEF Row
\* The drafts that are read by a request that approves.
<1>2. ASSUME NEW kind \in {"assign", "approve", "decide"}, NEW new,
             Open(m, kind, i, new), new.event, new.approval = "approved", drafts' = drafts
      PROVE  row.content # 0 => row.content \in Read(m, i)'
  <2>1. approving = [n \in Managers |-> approving[n]]
    BY DEF PlanInv, RequestsInv
  <2>2. approving'[m] = approving[m] \cup ({<<i, row.content>>} \ {<<i, 0>>})
    BY <1>2, <2>1 DEF Open
  <2> QED
    BY <1>0, <1>2, <2>2 DEF Read
<1>3. ASSUME Assign(m, i) PROVE PlanInv'
  <2>1. PICK day \in Days :
          /\ row.task /\ drafts' = drafts
          /\ Open(m, "assign", i, IfEvent(row,
                [row EXCEPT !.due      = IF day = NoDay THEN @ ELSE day,
                            !.start    = IF @ = NoDay THEN day ELSE @,
                            !.approval = "approved",
                            !.by       = m]))
    BY <1>3 DEF Assign
  <2> DEFINE set == [row EXCEPT !.due      = IF day = NoDay THEN @ ELSE day,
                                !.start    = IF @ = NoDay THEN day ELSE @,
                                !.approval = "approved",
                                !.by       = m]
             new == IfEvent(row, set)
  <2>2. set \in Row /\ set.task = row.task /\ set.event = row.event
        /\ set.approval = "approved" /\ set.by = m /\ set.content = row.content
        /\ set.due = (IF day = NoDay THEN row.due ELSE day)
        /\ set.start = (IF row.start = NoDay THEN day ELSE row.start)
    BY <1>0 DEF Row
  <2> HIDE DEF set
  <2>3. /\ new \in Row /\ new.task = row.task /\ new.event = row.event
        /\ new.due = set.due /\ new.start = set.start /\ new.content = row.content
        /\ new.approval = (IF row.event THEN "approved" ELSE row.approval)
        /\ new.by = (IF row.event THEN m ELSE row.by)
    BY <1>0, <1>1, <2>2 DEF IfEvent, EventColumns, Row
  <2> HIDE DEF new
  <2> DEFINE w == Dirty(row, new)
  <2>4. /\ DOMAIN w \subseteq {"start", "due", "approval", "by", "content"}
        /\ \A c \in {"start", "due", "approval", "by", "content"} :
              /\ Writes(w, c) <=> new[c] # row[c]
              /\ Writes(w, c) => w[c] = new[c]
              /\ Col(row, w, c) = new[c]
    BY <1>0, <2>3, DirtyColumns
  <2> HIDE DEF w
  <2>5. Shape(w, "assign", drafts)
    BY <1>0, <2>2, <2>3, <2>4 DEF Shape, Row
  <2>6. Open(m, "assign", i, new) /\ "assign" \in Kinds
    BY <2>1 DEF new, set, Kinds
  <2>7. ASSUME row.event PROVE DecidedBy(row, w, "assign", Read(m, i)')
    <3>1. new.event /\ new.approval = "approved" /\ new.by = m
      BY <2>3, <2>7
    <3>2. row.content # 0 => row.content \in Read(m, i)'
      BY <1>2, <2>1, <2>6, <3>1
    <3> QED
      BY <1>0, <2>3, <2>4, <3>1, <3>2 DEF DecidedBy
  <2>8. DatedBy(row, w, "assign")
    BY <1>0, <2>2, <2>3, <2>4 DEF DatedBy
  <2> QED
    BY <2>1, <2>3, <2>5, <2>6, <2>7, <2>8, OpenKeeps DEF w
<1>4. ASSUME Approve(m, i) PROVE PlanInv'
  <2> DEFINE set == [row EXCEPT !.approval = "approved", !.by = m]
             new == IfEvent(row, set)
  <2>1. drafts' = drafts /\ Open(m, "approve", i, new) /\ "approve" \in Kinds
    BY <1>4 DEF Approve, Kinds
  <2>2. /\ set \in Row /\ set.task = row.task /\ set.event = row.event
        /\ set.approval = "approved" /\ set.by = m /\ set.content = row.content
        /\ set.due = row.due /\ set.start = row.start
    BY <1>0 DEF Row
  <2> HIDE DEF set
  <2>3. /\ new \in Row /\ new.task = row.task /\ new.event = row.event
        /\ new.due = row.due /\ new.start = row.start /\ new.content = row.content
        /\ new.approval = (IF row.event THEN "approved" ELSE row.approval)
        /\ new.by = (IF row.event THEN m ELSE row.by)
    BY <1>0, <1>1, <2>2 DEF IfEvent, EventColumns, Row
  <2> HIDE DEF new
  <2> DEFINE w == Dirty(row, new)
  <2>4. /\ DOMAIN w \subseteq {"start", "due", "approval", "by", "content"}
        /\ \A c \in {"start", "due", "approval", "by", "content"} :
              /\ Writes(w, c) <=> new[c] # row[c]
              /\ Writes(w, c) => w[c] = new[c]
              /\ Col(row, w, c) = new[c]
    BY <1>0, <2>3, DirtyColumns
  <2> HIDE DEF w
  <2>5. Shape(w, "approve", drafts)
    BY <1>0, <2>3, <2>4 DEF Shape, Row
  <2>6. ASSUME row.event PROVE DecidedBy(row, w, "approve", Read(m, i)')
    <3>1. new.event /\ new.approval = "approved" /\ new.by = m
      BY <2>3, <2>6
    <3>2. row.content # 0 => row.content \in Read(m, i)'
      BY <1>2, <2>1, <3>1
    <3> QED
      BY <1>0, <2>3, <2>4, <3>1, <3>2 DEF DecidedBy
  <2>7. DatedBy(row, w, "approve")
    BY DEF DatedBy
  <2> QED
    BY <2>1, <2>3, <2>5, <2>6, <2>7, OpenKeeps DEF w
<1>5. ASSUME Reject(m, i) PROVE PlanInv'
  <2> DEFINE set == [row EXCEPT !.approval = "rejected"]
             new == IfEvent(row, set)
  <2>1. drafts' = drafts /\ Open(m, "reject", i, new) /\ "reject" \in Kinds
    BY <1>5 DEF Reject, Kinds
  <2>2. /\ set \in Row /\ set.task = row.task /\ set.event = row.event
        /\ set.approval = "rejected" /\ set.by = row.by /\ set.content = row.content
        /\ set.due = row.due /\ set.start = row.start
    BY <1>0 DEF Row
  <2> HIDE DEF set
  <2>3. /\ new \in Row /\ new.task = row.task /\ new.event = row.event
        /\ new.due = row.due /\ new.start = row.start /\ new.content = row.content
        /\ new.approval = (IF row.event THEN "rejected" ELSE row.approval) /\ new.by = row.by
    BY <1>0, <1>1, <2>2 DEF IfEvent, EventColumns, Row
  <2> HIDE DEF new
  <2> DEFINE w == Dirty(row, new)
  <2>4. /\ DOMAIN w \subseteq {"start", "due", "approval", "by", "content"}
        /\ \A c \in {"start", "due", "approval", "by", "content"} :
              /\ Writes(w, c) <=> new[c] # row[c]
              /\ Writes(w, c) => w[c] = new[c]
              /\ Col(row, w, c) = new[c]
    BY <1>0, <2>3, DirtyColumns
  <2> HIDE DEF w
  <2>5. Shape(w, "reject", drafts)
    BY <1>0, <2>3, <2>4 DEF Shape, Row
  <2>6. ASSUME row.event PROVE DecidedBy(row, w, "reject", Read(m, i)')
    BY <2>3, <2>4, <2>6 DEF DecidedBy
  <2>7. DatedBy(row, w, "reject")
    BY DEF DatedBy
  <2> QED
    BY <2>1, <2>3, <2>5, <2>6, <2>7, OpenKeeps DEF w
<1>6. ASSUME Regenerate(m, i) PROVE PlanInv'
  <2> DEFINE new == [row EXCEPT !.content = drafts + 1, !.approval = "pending", !.by = Nobody]
  <2>1. /\ drafts < MaxDrafts /\ drafts' = drafts + 1
        /\ Open(m, "regenerate", i, new) /\ "regenerate" \in Kinds
    BY <1>6 DEF Regenerate, Kinds
  <2>2. drafts + 1 \in 0 .. MaxDrafts /\ row.content # drafts + 1 /\ drafts + 1 # 0
    BY <1>0, <2>1
  <2>3. /\ new \in Row /\ new.task = row.task /\ new.event = row.event
        /\ new.due = row.due /\ new.start = row.start /\ new.content = drafts + 1
        /\ new.approval = "pending" /\ new.by = Nobody
    BY <1>0, <2>2 DEF Row
  <2> HIDE DEF new
  <2> DEFINE w == Dirty(row, new)
  <2>4. /\ DOMAIN w \subseteq {"start", "due", "approval", "by", "content"}
        /\ \A c \in {"start", "due", "approval", "by", "content"} :
              /\ Writes(w, c) <=> new[c] # row[c]
              /\ Writes(w, c) => w[c] = new[c]
              /\ Col(row, w, c) = new[c]
    BY <1>0, <2>3, DirtyColumns
  <2> HIDE DEF w
  <2>5. Shape(w, "regenerate", drafts')
    BY <1>0, <2>1, <2>3, <2>4 DEF Shape, Row
  <2>6. DecidedBy(row, w, "regenerate", Read(m, i)')
    BY <2>3, <2>4 DEF DecidedBy
  <2>7. DatedBy(row, w, "regenerate")
    BY DEF DatedBy
  <2> QED
    BY <2>1, <2>3, <2>5, <2>6, <2>7, OpenKeeps DEF w
<1>7. ASSUME Edit(m, i) PROVE PlanInv'
  <2> DEFINE new == [row EXCEPT !.content = 0]
  <2>1. drafts' = drafts /\ Open(m, "edit", i, new) /\ "edit" \in Kinds
    BY <1>7 DEF Edit, Kinds
  <2>3. /\ new \in Row /\ new.task = row.task /\ new.event = row.event
        /\ new.due = row.due /\ new.start = row.start /\ new.content = 0
        /\ new.approval = row.approval /\ new.by = row.by
    BY <1>0 DEF Row
  <2> HIDE DEF new
  <2> DEFINE w == Dirty(row, new)
  <2>4. /\ DOMAIN w \subseteq {"start", "due", "approval", "by", "content"}
        /\ \A c \in {"start", "due", "approval", "by", "content"} :
              /\ Writes(w, c) <=> new[c] # row[c]
              /\ Writes(w, c) => w[c] = new[c]
              /\ Col(row, w, c) = new[c]
    BY <1>0, <2>3, DirtyColumns
  <2> HIDE DEF w
  <2>5. Shape(w, "edit", drafts)
    BY <1>0, <2>3, <2>4 DEF Shape, Row
  <2>6. DecidedBy(row, w, "edit", Read(m, i)')
    BY <2>3, <2>4 DEF DecidedBy
  <2>7. DatedBy(row, w, "edit")
    BY DEF DatedBy
  <2> QED
    BY <2>1, <2>3, <2>5, <2>6, <2>7, OpenKeeps DEF w
<1>8. ASSUME Decide(m, i) PROVE PlanInv'
  <2>0. PICK to \in {"pending", "approved", "rejected"} :
           /\ row.event /\ drafts' = drafts
           /\ Open(m, "decide", i,
                 [row EXCEPT !.approval = to, !.by = IF to = "approved" THEN m ELSE Nobody])
    BY <1>8 DEF Decide
  <2> DEFINE new == [row EXCEPT !.approval = to, !.by = IF to = "approved" THEN m ELSE Nobody]
  <2>1. drafts' = drafts /\ Open(m, "decide", i, new) /\ "decide" \in Kinds
    BY <2>0 DEF Kinds
  <2>3. /\ new \in Row /\ new.task = row.task /\ new.event = row.event
        /\ new.due = row.due /\ new.start = row.start /\ new.content = row.content
        /\ new.approval = to /\ new.by = (IF to = "approved" THEN m ELSE Nobody)
    BY <1>0, <2>0 DEF Row
  <2> HIDE DEF new
  <2> DEFINE w == Dirty(row, new)
  <2>4. /\ DOMAIN w \subseteq {"start", "due", "approval", "by", "content"}
        /\ \A c \in {"start", "due", "approval", "by", "content"} :
              /\ Writes(w, c) <=> new[c] # row[c]
              /\ Writes(w, c) => w[c] = new[c]
              /\ Col(row, w, c) = new[c]
    BY <1>0, <2>3, DirtyColumns
  <2> HIDE DEF w
  <2>5. Shape(w, "decide", drafts)
    BY <1>0, <2>0, <2>3, <2>4 DEF Shape, Row
  <2>6. ASSUME row.event PROVE DecidedBy(row, w, "decide", Read(m, i)')
    <3>1. new.approval = "approved" /\ row.content # 0 => row.content \in Read(m, i)'
      BY <1>2, <2>1, <2>3, <2>6
    <3> QED
      BY <1>0, <2>3, <2>4, <3>1 DEF DecidedBy
  <2>7. DatedBy(row, w, "decide")
    BY DEF DatedBy
  <2> QED
    BY <2>1, <2>3, <2>5, <2>6, <2>7, OpenKeeps DEF w
<1>9. ASSUME Patch(m, i) PROVE PlanInv'
  <2>0. PICK start \in Days, due \in Days :
           /\ drafts' = drafts
           /\ RangeInOrder(row, [row EXCEPT !.start = start, !.due = due])
           /\ Open(m, "patch", i, [row EXCEPT !.start = start, !.due = due])
    BY <1>9 DEF Patch
  <2> DEFINE new == [row EXCEPT !.start = start, !.due = due]
  <2>1. drafts' = drafts /\ Open(m, "patch", i, new) /\ "patch" \in Kinds
    BY <2>0 DEF Kinds
  <2>3. /\ new \in Row /\ new.task = row.task /\ new.event = row.event
        /\ new.due = due /\ new.start = start /\ new.content = row.content
        /\ new.approval = row.approval /\ new.by = row.by
    BY <1>0, <2>0 DEF Row
  <2> HIDE DEF new
  <2> DEFINE w == Dirty(row, new)
  <2>4. /\ DOMAIN w \subseteq {"start", "due", "approval", "by", "content"}
        /\ \A c \in {"start", "due", "approval", "by", "content"} :
              /\ Writes(w, c) <=> new[c] # row[c]
              /\ Writes(w, c) => w[c] = new[c]
              /\ Col(row, w, c) = new[c]
    BY <1>0, <2>3, DirtyColumns
  <2> HIDE DEF w
  <2>5. Shape(w, "patch", drafts)
    BY <1>0, <2>0, <2>3, <2>4 DEF Shape, Row
  <2>6. DecidedBy(row, w, "patch", Read(m, i)')
    BY <2>3, <2>4 DEF DecidedBy
  <2>7. DatedBy(row, w, "patch")
    BY <2>0, <2>3, <2>4 DEF DatedBy, RangeInOrder
  <2> QED
    BY <2>1, <2>3, <2>5, <2>6, <2>7, OpenKeeps DEF w
<1> QED
  BY <1>3, <1>4, <1>5, <1>6, <1>7, <1>8, <1>9

-----------------------------------------------------------------------------
(* Rows that are gone, and commits *)

\* The requests that have loaded a task or an event keep what they need of it if it is left
\* alone, and need nothing of it if it is gone.
LEMMA GoneKeeps ==
    ASSUME PlanInv, NEW i \in Items, NEW gone \in Row, gone.content \in 0 .. drafts,
           item' = [item EXCEPT ![i] = gone],
           UNCHANGED <<requestVars, drafts, reviewVars>>,
           ~gone.event \/ (/\ gone.event = item[i].event /\ gone.approval = item[i].approval
                           /\ gone.by = item[i].by /\ gone.content = item[i].content),
           ~gone.task \/ (/\ gone.task = item[i].task /\ gone.start = item[i].start
                          /\ gone.due = item[i].due)
    PROVE  PlanInv'
<1>0. /\ item \in [Items -> Row] /\ doing \in [Managers -> Kinds \cup {"nothing"}]
      /\ drafts \in 1 .. MaxDrafts /\ MaxDrafts \in Nat /\ drafts \in 0 .. MaxDrafts
      /\ \A j \in Items : item[j].content \in 0 .. drafts
      /\ \A n \in Managers : DOMAIN writes[n] \subseteq Items
      /\ \A n \in Managers : \A j \in DOMAIN writes[n] :
            Shape(writes[n][j], doing[n], drafts) /\ Decided(n, j) /\ Dated(n, j)
  BY PlanAssumption DEF PlanInv, PlanTypeOK, RequestsInv
<1>1. /\ UNCHANGED <<doing, writes, approving, passed, drafts, reviewed, exempt>>
      /\ item'[i] = gone /\ \A j \in Items \ {i} : item'[j] = item[j]
      /\ item' \in [Items -> Row]
      /\ \A j \in Items : item'[j].content \in 0 .. drafts
  BY <1>0 DEF requestVars, reviewVars
<1>2. \A n \in Managers, j \in Items : Read(n, j)' = Read(n, j)
  BY <1>1 DEF Read
<1>3. ASSUME NEW n \in Managers, NEW j \in DOMAIN writes[n]
      PROVE  Decided(n, j)' /\ Dated(n, j)'
  <2>1. j \in Items /\ Decided(n, j) /\ Dated(n, j)
    BY <1>0
  <2>2. CASE j # i
    BY <1>1, <1>2, <2>1, <2>2 DEF Decided, Dated, EndPassed, Passed
  <2>3. CASE j = i
    <3>1. Decided(n, i)'
      BY <1>1, <1>2, <2>1, <2>3 DEF Decided, DecidedBy, Passed, Col
    <3>2. Dated(n, i)'
      BY <1>1, <2>1, <2>3 DEF Dated, DatedBy, EndPassed, Passed, Col
    <3> QED
      BY <2>3, <3>1, <3>2
  <2> QED
    BY <2>2, <2>3
<1>4. RequestsInv'
  BY <1>0, <1>1, <1>3 DEF PlanInv, RequestsInv
<1>5. PlanTypeOK'
  <2>1. ASSUME NEW n \in Managers, NEW j \in DOMAIN writes[n]
        PROVE  Over(item'[j], writes[n][j]) \in Row
    BY <1>0, <1>1, OverIsRow
  <2> QED
    BY <1>1, <2>1 DEF PlanInv, PlanTypeOK
<1>6. (ReviewIsAnswered /\ SpansAreInOrder)'
  BY <1>1 DEF PlanInv, ReviewIsAnswered, DraftsAreReviewed, ApprovedBySomebody, SpansAreInOrder
<1> QED
  BY <1>4, <1>5, <1>6 DEF PlanInv

LEMMA DeletesKeep ==
    ASSUME PlanInv, NEW i \in Items, DeleteTask(i) \/ DeleteEvent(i)
    PROVE  PlanInv'
<1>0. /\ item \in [Items -> Row] /\ item[i] \in Row /\ item[i].content \in 0 .. drafts
      /\ 0 \in 0 .. MaxDrafts /\ 0 \in 0 .. drafts /\ NoDay \in Days
  BY PlanAssumption DEF PlanInv, PlanTypeOK, RequestsInv, NoDay, Days
<1>1. CASE DeleteTask(i)
  <2> DEFINE gone == [item[i] EXCEPT !.task = FALSE, !.start = NoDay, !.due = NoDay]
  <2>1. item' = [item EXCEPT ![i] = gone] /\ UNCHANGED <<requestVars, drafts, reviewVars>>
    BY <1>0, <1>1 DEF DeleteTask, Row
  <2>2. /\ gone \in Row /\ gone.task = FALSE /\ gone.event = item[i].event
        /\ gone.approval = item[i].approval /\ gone.by = item[i].by /\ gone.content = item[i].content
    BY <1>0 DEF Row
  <2> HIDE DEF gone
  <2> QED
    BY <1>0, <2>1, <2>2, GoneKeeps
<1>2. CASE DeleteEvent(i)
  <2> DEFINE gone == [item[i] EXCEPT !.event = FALSE, !.approval = "pending",
                                     !.by = Nobody, !.content = 0]
  <2>1. item' = [item EXCEPT ![i] = gone] /\ UNCHANGED <<requestVars, drafts, reviewVars>>
    BY <1>0, <1>2 DEF DeleteEvent, Row
  <2>2. /\ gone \in Row /\ gone.event = FALSE /\ gone.task = item[i].task
        /\ gone.start = item[i].start /\ gone.due = item[i].due /\ gone.content = 0
    BY <1>0 DEF Row
  <2> HIDE DEF gone
  <2> QED
    BY <1>0, <2>1, <2>2, GoneKeeps
<1> QED
  BY <1>1, <1>2

\* What a commit writes of a row leaves to another open request what it makes of it, unless
\* it writes a column of the decision.
LEMMA DecisionsMeet ==
    ASSUME NEW row, NEW w, NEW v, NEW l, NEW theirs, DecidedBy(row, v, l, theirs),
           \A c \in DecisionColumns : ~Writes(w, c),
           NEW after, after.approval = Col(row, w, "approval"), after.by = Col(row, w, "by"),
           after.content = Col(row, w, "content")
    PROVE  DecidedBy(after, v, l, theirs)
BY DEF DecidedBy, Col, DecisionColumns

\* The same of the dates, unless it writes an end that the other does not write.
LEMMA DatesMeet ==
    ASSUME NEW row, NEW w, NEW v, NEW l, DatedBy(row, v, l),
           \A c \in DateColumns : Writes(w, c) => Writes(v, c),
           NEW after, after.start = Col(row, w, "start"), after.due = Col(row, w, "due")
    PROVE  DatedBy(after, v, l)
BY DEF DatedBy, Col, DateColumns

\* A closed request holds nothing; the others are as they were.
LEMMA Closed ==
    ASSUME PlanInv, NEW m \in Managers, Close(m)
    PROVE  /\ doing' \in [Managers -> Kinds \cup {"nothing"}]
           /\ writes' = [n \in Managers |-> writes'[n]] /\ approving' = [n \in Managers |-> approving'[n]]
           /\ writes'[m] = <<>> /\ approving'[m] = {} /\ doing'[m] = "nothing"
           /\ \A n \in Managers \ {m} : /\ writes'[n] = writes[n] /\ approving'[n] = approving[n]
                                        /\ doing'[n] = doing[n]
<1>0. /\ doing \in [Managers -> Kinds \cup {"nothing"}]
      /\ writes = [n \in Managers |-> writes[n]] /\ approving = [n \in Managers |-> approving[n]]
  BY DEF PlanInv, PlanTypeOK, RequestsInv
<1>1. /\ doing' = [doing EXCEPT ![m] = "nothing"] /\ writes' = [writes EXCEPT ![m] = <<>>]
      /\ approving' = [approving EXCEPT ![m] = {}]
  BY DEF Close
<1>2. doing' \in [Managers -> Kinds \cup {"nothing"}]
  BY <1>0, <1>1
<1>3. writes' = [n \in Managers |-> writes'[n]] /\ approving' = [n \in Managers |-> approving'[n]]
  BY <1>0, <1>1
<1>4. /\ writes'[m] = <<>> /\ approving'[m] = {} /\ doing'[m] = "nothing"
      /\ \A n \in Managers \ {m} : /\ writes'[n] = writes[n] /\ approving'[n] = approving[n]
                                   /\ doing'[n] = doing[n]
  BY <1>0, <1>1
<1> QED
  BY <1>2, <1>3, <1>4

LEMMA AbandonKeeps ==
    ASSUME PlanInv, NEW m \in Managers, Abandon(m)
    PROVE  PlanInv'
<1>0. UNCHANGED <<item, drafts, reviewed, exempt>> /\ Close(m)
  BY DEF Abandon, reviewVars
<1>p. /\ passed' \in [Managers -> SUBSET (Items \X (DateColumns \cup DecisionColumns))]
      /\ passed'[m] = {} /\ \A n \in Managers \ {m} : passed'[n] = passed[n]
  BY DEF Abandon, PlanInv, PlanTypeOK
<1>1. /\ doing' \in [Managers -> Kinds \cup {"nothing"}]
      /\ writes' = [n \in Managers |-> writes'[n]] /\ approving' = [n \in Managers |-> approving'[n]]
      /\ writes'[m] = <<>> /\ approving'[m] = {} /\ doing'[m] = "nothing"
      /\ \A n \in Managers \ {m} : /\ writes'[n] = writes[n] /\ approving'[n] = approving[n]
                                   /\ doing'[n] = doing[n]
  BY <1>0, Closed
<1>2. DOMAIN writes'[m] = {}
  BY <1>1
<1>3. ASSUME NEW n \in Managers, NEW j \in DOMAIN writes'[n]
      PROVE  /\ n # m /\ j \in DOMAIN writes[n] /\ j \in Items
             /\ Shape(writes'[n][j], doing'[n], drafts') /\ Decided(n, j)' /\ Dated(n, j)'
  <2>1. n # m /\ writes'[n] = writes[n] /\ approving'[n] = approving[n] /\ doing'[n] = doing[n]
    BY <1>1, <1>2
  <2>2. j \in Items /\ Shape(writes[n][j], doing[n], drafts) /\ Decided(n, j) /\ Dated(n, j)
    BY <2>1 DEF PlanInv, PlanTypeOK, RequestsInv
  <2>3. Read(n, j)' = Read(n, j)
    BY <1>0, <2>1 DEF Read
  <2> QED
    BY <1>0, <1>p, <2>1, <2>2, <2>3 DEF Decided, Dated, EndPassed, Passed
<1>4. RequestsInv'
  BY <1>0, <1>1, <1>3 DEF PlanInv, RequestsInv
<1>5. PlanTypeOK'
  <2>1. \A n \in Managers : DOMAIN writes'[n] \subseteq Items
    BY <1>3
  <2>2. \A n \in Managers : doing'[n] = "nothing" =>
           writes'[n] = <<>> /\ approving'[n] = {} /\ passed'[n] = {}
    BY <1>1, <1>p DEF PlanInv, PlanTypeOK
  <2>3. \A n \in Managers : \A j \in DOMAIN writes'[n] : Over(item'[j], writes'[n][j]) \in Row
    BY <1>0, <1>1, <1>3 DEF PlanInv, PlanTypeOK
  <2>4. \A n \in Managers : approving'[n] \subseteq approving[n]
    BY <1>1
  <2>5. \A p \in reviewed' \cup UNION {approving'[n] : n \in Managers} :
           p[1] \in Items /\ p[2] \in 0 .. drafts'
    BY <1>0, <2>4 DEF PlanInv, PlanTypeOK
  <2> QED
    BY <1>0, <1>1, <1>p, <2>1, <2>2, <2>3, <2>5 DEF PlanInv, PlanTypeOK
<1>6. (ReviewIsAnswered /\ SpansAreInOrder)'
  BY <1>0 DEF PlanInv, ReviewIsAnswered, DraftsAreReviewed, ApprovedBySomebody, SpansAreInOrder
<1> QED
  BY <1>4, <1>5, <1>6 DEF PlanInv

\* What another request counts on and does not write is passed by the commit that writes it.
LEMMA CommitPasses ==
    ASSUME PlanInv, NEW m \in Managers, CommitItem(m), NEW n \in Managers \ {m}, NEW i \in Items,
           HasRead(m, i), HasRead(n, i)
    PROVE  /\ passed[n] \subseteq passed'[n]
           /\ \A c \in DateColumns \cup DecisionColumns :
                 Writes(writes[m][i], c) => <<i, c>> \in passed'[n]
<1>1. passed'[n] = passed[n] \cup Passes(m, n)
  BY DEF CommitItem
<1> QED
  BY <1>1 DEF Passes, Writes

LEMMA CommitKeeps ==
    ASSUME PlanInv, NEW m \in Managers, CommitItem(m)
    PROVE  PlanInv'
<1>0. /\ item \in [Items -> Row] /\ drafts \in 1 .. MaxDrafts /\ MaxDrafts \in Nat
      /\ drafts \in 0 .. MaxDrafts /\ drafts \in Nat
      /\ exempt \in [Items -> SUBSET {"decisions", "dates"}]
      /\ \A j \in Items : item[j].content \in 0 .. drafts
      /\ \A n \in Managers : DOMAIN writes[n] \subseteq Items
      /\ \A n \in Managers : \A j \in DOMAIN writes[n] :
            Shape(writes[n][j], doing[n], drafts) /\ Decided(n, j) /\ Dated(n, j)
  BY PlanAssumption DEF PlanInv, PlanTypeOK, RequestsInv
<1>1. /\ item' = [i \in Items |-> IF HasRead(m, i) THEN Over(item[i], writes[m][i]) ELSE item[i]]
      /\ reviewed' = reviewed \cup approving[m]
      /\ exempt' = [i \in Items |-> IF HasRead(m, i) THEN Exempted(m, i) ELSE exempt[i]]
      /\ passed' = [n \in Managers |-> IF n = m THEN {} ELSE passed[n] \cup Passes(m, n)]
      /\ Close(m) /\ drafts' = drafts
  BY DEF CommitItem
<1>p. /\ passed' \in [Managers -> SUBSET (Items \X (DateColumns \cup DecisionColumns))]
      /\ passed'[m] = {} /\ \A n \in Managers \ {m} : passed[n] \subseteq passed'[n]
  <2>1. \A n \in Managers : Passes(m, n) \subseteq Items \X (DateColumns \cup DecisionColumns)
    BY DEF Passes
  <2> QED
    BY <1>1, <2>1 DEF PlanInv, PlanTypeOK
<1>2. /\ doing' \in [Managers -> Kinds \cup {"nothing"}]
      /\ writes' = [n \in Managers |-> writes'[n]] /\ approving' = [n \in Managers |-> approving'[n]]
      /\ writes'[m] = <<>> /\ approving'[m] = {} /\ doing'[m] = "nothing"
      /\ \A n \in Managers \ {m} : /\ writes'[n] = writes[n] /\ approving'[n] = approving[n]
                                   /\ doing'[n] = doing[n]
  BY <1>1, Closed
<1>3. DOMAIN writes'[m] = {}
  BY <1>2
\* The items the commit writes.
<1>4. ASSUME NEW i \in Items, HasRead(m, i)
      PROVE  /\ item'[i] = Over(item[i], writes[m][i])
             /\ item'[i] \in Row /\ item'[i].content \in 0 .. drafts
             /\ item'[i].task = item[i].task /\ item'[i].event = item[i].event
             /\ item'[i].start = Col(item[i], writes[m][i], "start")
             /\ item'[i].due = Col(item[i], writes[m][i], "due")
             /\ item'[i].approval = Col(item[i], writes[m][i], "approval")
             /\ item'[i].by = Col(item[i], writes[m][i], "by")
             /\ item'[i].content = Col(item[i], writes[m][i], "content")
             /\ exempt'[i] = Exempted(m, i)
             /\ Shape(writes[m][i], doing[m], drafts) /\ Decided(m, i) /\ Dated(m, i)
  <2>1. item'[i] = Over(item[i], writes[m][i]) /\ exempt'[i] = Exempted(m, i)
    BY <1>1, <1>4
  <2>2. Shape(writes[m][i], doing[m], drafts) /\ Decided(m, i) /\ Dated(m, i)
    BY <1>0, <1>4 DEF HasRead
  <2>3. Over(item[i], writes[m][i]) =
           [task |-> item[i].task, start |-> Col(item[i], writes[m][i], "start"),
            due |-> Col(item[i], writes[m][i], "due"), event |-> item[i].event,
            approval |-> Col(item[i], writes[m][i], "approval"),
            by |-> Col(item[i], writes[m][i], "by"), content |-> Col(item[i], writes[m][i], "content")]
    BY <1>0, <2>2, OverColumns DEF Shape
  <2>4. Over(item[i], writes[m][i]) \in Row /\ Over(item[i], writes[m][i]).content \in 0 .. drafts
    BY <1>0, <2>2, OverIsRow
  <2> QED
    BY <2>1, <2>2, <2>3, <2>4
<1>5. ASSUME NEW i \in Items, ~HasRead(m, i)
      PROVE  item'[i] = item[i] /\ exempt'[i] = exempt[i]
  BY <1>1, <1>5
\* The requests that stay open.
<1>6. ASSUME NEW n \in Managers, NEW i \in DOMAIN writes'[n]
      PROVE  /\ n # m /\ i \in DOMAIN writes[n] /\ i \in Items /\ HasRead(n, i)
             /\ writes'[n] = writes[n] /\ doing'[n] = doing[n]
             /\ Shape(writes[n][i], doing[n], drafts) /\ Decided(n, i) /\ Dated(n, i)
             /\ Read(n, i)' = Read(n, i)
  <2>1. n # m /\ writes'[n] = writes[n] /\ approving'[n] = approving[n] /\ doing'[n] = doing[n]
    BY <1>2, <1>3
  <2> QED
    BY <1>0, <1>1, <1>6, <2>1 DEF HasRead, Read
<1>7. ASSUME NEW n \in Managers, NEW i \in DOMAIN writes'[n]
      PROVE  Decided(n, i)' /\ Dated(n, i)'
  <2>0. /\ n # m /\ i \in Items /\ HasRead(n, i)
        /\ writes'[n] = writes[n] /\ doing'[n] = doing[n]
        /\ Shape(writes[n][i], doing[n], drafts) /\ Decided(n, i) /\ Dated(n, i)
        /\ Read(n, i)' = Read(n, i)
    BY <1>6
  <2>p. passed[n] \subseteq passed'[n]
    BY <1>p, <2>0
  <2>1. CASE ~HasRead(m, i)
    BY <1>5, <2>0, <2>1, <2>p DEF Decided, Dated, EndPassed, Passed
  <2>2. CASE HasRead(m, i)
    <3>0. \A c \in DateColumns \cup DecisionColumns :
             Writes(writes[m][i], c) => <<i, c>> \in passed'[n]
      BY <2>0, <2>2, CommitPasses
    <3>1. ASSUME ~Passed(n, i, DecisionColumns)', item'[i].event
          PROVE  DecidedBy(item'[i], writes[n][i], doing[n], Read(n, i))
      <4>1. DecidedBy(item[i], writes[n][i], doing[n], Read(n, i))
        BY <1>4, <2>0, <2>2, <2>p, <3>1 DEF Decided, Passed
      <4>2. \A c \in DecisionColumns : ~Writes(writes[m][i], c)
        BY <3>0, <3>1 DEF Passed
      <4> QED
        BY <1>4, <2>0, <2>2, <4>1, <4>2, DecisionsMeet
    <3>2. ASSUME ~EndPassed(n, i)', item'[i].task
          PROVE  DatedBy(item'[i], writes[n][i], doing[n])
      <4>1. DatedBy(item[i], writes[n][i], doing[n])
        BY <1>4, <2>0, <2>2, <2>p, <3>2 DEF Dated, EndPassed, Passed
      <4>2. \A c \in DateColumns : Writes(writes[m][i], c) => Writes(writes[n][i], c)
        BY <2>0, <3>0, <3>2 DEF EndPassed, Passed
      <4> QED
        BY <1>4, <2>0, <2>2, <4>1, <4>2, DatesMeet
    <3> QED
      BY <2>0, <3>1, <3>2 DEF Decided, Dated
  <2> QED
    BY <2>1, <2>2
<1>8. item' \in [Items -> Row] /\ \A i \in Items : item'[i].content \in 0 .. drafts'
  <2>1. ASSUME NEW i \in Items PROVE item'[i] \in Row /\ item'[i].content \in 0 .. drafts'
    BY <1>0, <1>1, <1>4, <1>5
  <2> QED
    BY <1>1, <2>1
<1>9. RequestsInv'
  BY <1>1, <1>2, <1>6, <1>7, <1>8 DEF RequestsInv
<1>10. PlanTypeOK'
  <2>1. \A n \in Managers : DOMAIN writes'[n] \subseteq Items
    BY <1>6
  <2>2. \A n \in Managers : doing'[n] = "nothing" =>
           writes'[n] = <<>> /\ approving'[n] = {} /\ passed'[n] = {}
    <3> SUFFICES ASSUME NEW n \in Managers \ {m}, doing[n] = "nothing" PROVE passed'[n] = {}
      BY <1>2, <1>p DEF PlanInv, PlanTypeOK
    <3>1. passed[n] = {} /\ writes[n] = <<>>
      BY DEF PlanInv, PlanTypeOK
    <3>2. \A i \in Items : ~HasRead(n, i)
      BY <3>1 DEF HasRead
    <3> QED
      BY <1>1, <3>1, <3>2 DEF Passes
  <2>3. ASSUME NEW n \in Managers, NEW i \in DOMAIN writes'[n]
        PROVE  Over(item'[i], writes'[n][i]) \in Row
    BY <1>0, <1>1, <1>6, <1>8, OverIsRow
  <2>4. \A n \in Managers : approving'[n] \subseteq approving[n]
    BY <1>2
  <2>5. ASSUME NEW p \in reviewed' \cup UNION {approving'[n] : n \in Managers}
        PROVE  p[1] \in Items /\ p[2] \in 0 .. drafts'
    <3>1. p \in reviewed \cup UNION {approving[n] : n \in Managers}
      BY <1>1, <2>4
    <3> QED
      BY <1>1, <3>1 DEF PlanInv, PlanTypeOK
  <2>6. exempt' \in [Items -> SUBSET {"decisions", "dates"}]
    <3>1. \A i \in Items : Exempted(m, i) \in SUBSET {"decisions", "dates"}
      BY DEF Exempted
    <3> QED
      BY <1>0, <1>1, <3>1
  <2> QED
    BY <1>0, <1>1, <1>2, <1>p, <1>8, <2>1, <2>2, <2>3, <2>5, <2>6 DEF PlanTypeOK
<1>11. ASSUME NEW i \in Items, item'[i].event, item'[i].approval = "approved",
              "decisions" \notin exempt'[i]
       PROVE  /\ item'[i].content # 0 => <<i, item'[i].content>> \in reviewed'
              /\ item'[i].by # Nobody
  <2>0. item[i].event /\ item[i].approval = "approved" /\ "decisions" \notin exempt[i] =>
           /\ item[i].content # 0 => <<i, item[i].content>> \in reviewed
           /\ item[i].by # Nobody
    BY DEF PlanInv, ReviewIsAnswered, DraftsAreReviewed, ApprovedBySomebody
  <2>1. CASE ~HasRead(m, i)
    BY <1>1, <1>5, <1>11, <2>0, <2>1
  <2>2. CASE HasRead(m, i)
    <3> DEFINE w == writes[m][i]
    <3>1. /\ item'[i].approval = Col(item[i], w, "approval") /\ item'[i].by = Col(item[i], w, "by")
          /\ item'[i].content = Col(item[i], w, "content") /\ item[i].event
          /\ Shape(w, doing[m], drafts) /\ Decided(m, i) /\ ~MixesDecisions(m, i)
      BY <1>4, <1>11, <2>2 DEF Exempted
    <3>2. CASE doing[m] \notin {"edit", "patch"}
      <4>1. DecidedBy(item[i], w, doing[m], Read(m, i))
        BY <3>1, <3>2 DEF Decided, MixesDecisions
      <4> HIDE DEF w
      <4> QED
        BY <1>1, <1>11, <3>1, <3>2, <4>1 DEF DecidedBy, Read
    <3>3. CASE doing[m] \in {"edit", "patch"}
      <4>1. "decisions" \notin exempt[i]
        BY <3>1, <3>3 DEF MixesDecisions
      <4> HIDE DEF w
      <4>2. /\ item'[i].approval = item[i].approval /\ item'[i].by = item[i].by
            /\ item'[i].content \in {0, item[i].content}
        BY <3>1, <3>3 DEF Shape, Col
      <4> QED
        BY <1>1, <1>11, <2>0, <3>1, <4>1, <4>2
    <3> QED
      BY <3>2, <3>3
  <2> QED
    BY <2>1, <2>2
<1>12. ASSUME NEW i \in Items, item'[i].task, item'[i].start # NoDay, item'[i].due # NoDay,
              "dates" \notin exempt'[i]
       PROVE  item'[i].start <= item'[i].due
  <2>0. item[i].task /\ item[i].start # NoDay /\ item[i].due # NoDay /\ "dates" \notin exempt[i]
        => item[i].start <= item[i].due
    BY DEF PlanInv, SpansAreInOrder
  <2>1. CASE ~HasRead(m, i)
    BY <1>5, <1>12, <2>0, <2>1
  <2>2. CASE HasRead(m, i)
    <3> DEFINE w == writes[m][i]
               ends == DateColumns \cap DOMAIN w
    <3>1. /\ item'[i].start = Col(item[i], w, "start") /\ item'[i].due = Col(item[i], w, "due")
          /\ item[i].task /\ item'[i] \in Row
          /\ Shape(w, doing[m], drafts) /\ Dated(m, i) /\ ~MixesDates(m, i)
      BY <1>4, <1>12, <2>2 DEF Exempted
    <3>2. CASE ends = {}
      <4>1. "dates" \notin exempt[i]
        BY <3>1, <3>2 DEF MixesDates, DateColumns
      <4>2. ~Writes(w, "start") /\ ~Writes(w, "due")
        BY <3>2 DEF DateColumns, Writes
      <4> HIDE DEF w
      <4> QED
        BY <1>12, <2>0, <3>1, <4>1, <4>2 DEF Col
    <3>3. CASE ends # {}
      <4>1. \A c \in DateColumns \ ends : ~Passed(m, i, {c})
        BY <3>1, <3>3 DEF MixesDates, Passed
      <4>2. doing[m] = "assign" => Writes(w, "start")
        BY <3>1, <3>3 DEF MixesDates, DateColumns, Writes
      <4>3. DatedBy(item[i], w, doing[m])
        BY <3>1, <4>1 DEF Dated, EndPassed, Writes
      <4>4. doing[m] \in {"patch", "assign"}
        BY <3>1, <3>3 DEF Shape, DateColumns, Writes
      <4> HIDE DEF w, ends
      <4>5. CASE doing[m] = "patch"
        BY <1>12, <3>1, <4>3, <4>5 DEF DatedBy, InOrder
      <4>6. CASE doing[m] = "assign"
        BY <3>1, <4>2, <4>3, <4>6 DEF DatedBy, Col, Row, Days
      <4> QED
        BY <4>4, <4>5, <4>6
    <3> QED
      BY <3>2, <3>3
  <2> QED
    BY <2>1, <2>2
<1>13. (ReviewIsAnswered /\ SpansAreInOrder)'
  BY <1>11, <1>12 DEF ReviewIsAnswered, DraftsAreReviewed, ApprovedBySomebody, SpansAreInOrder
<1> QED
  BY <1>9, <1>10, <1>13 DEF PlanInv

-----------------------------------------------------------------------------

LEMMA PlanNextInv == PlanInv /\ [PlanNext]_planVars => PlanInv'
<1> SUFFICES ASSUME PlanInv, [PlanNext]_planVars PROVE PlanInv'
  OBVIOUS
<1>1. ASSUME NEW m \in Managers, NEW i \in Items,
             \/ Assign(m, i) \/ Reject(m, i) \/ Approve(m, i) \/ Regenerate(m, i)
             \/ Edit(m, i) \/ Decide(m, i) \/ Patch(m, i)
      PROVE  PlanInv'
  BY <1>1, LoadsKeep
<1>2. ASSUME NEW i \in Items, DeleteTask(i) \/ DeleteEvent(i) PROVE PlanInv'
  BY <1>2, DeletesKeep
<1>3. ASSUME NEW m \in Managers, CommitItem(m) \/ Abandon(m) PROVE PlanInv'
  BY <1>3, CommitKeeps, AbandonKeeps
<1>4. ASSUME UNCHANGED planVars PROVE PlanInv'
  <2>1. UNCHANGED <<item, doing, writes, approving, passed, drafts, reviewed, exempt>>
    BY <1>4 DEF planVars, requestVars, reviewVars
  <2>2. \A m \in Managers, i \in Items : Read(m, i)' = Read(m, i)
    BY <2>1 DEF Read
  <2>3. PlanTypeOK'
    BY <2>1 DEF PlanInv, PlanTypeOK
  <2>4. ASSUME NEW m \in Managers, NEW i \in DOMAIN writes[m]
        PROVE  Shape(writes[m][i], doing[m], drafts) /\ Decided(m, i)' /\ Dated(m, i)'
    <3>1. /\ i \in Items /\ Shape(writes[m][i], doing[m], drafts)
          /\ Decided(m, i) /\ Dated(m, i)
      BY DEF PlanInv, PlanTypeOK, RequestsInv
    <3> QED
      BY <2>1, <2>2, <3>1 DEF Decided, Dated, EndPassed, Passed
  <2>5. RequestsInv'
    BY <2>1, <2>4 DEF PlanInv, RequestsInv
  <2>6. (ReviewIsAnswered /\ SpansAreInOrder)'
    BY <2>1 DEF PlanInv, ReviewIsAnswered, DraftsAreReviewed, ApprovedBySomebody, SpansAreInOrder
  <2> QED
    BY <2>3, <2>5, <2>6 DEF PlanInv
<1> QED
  BY <1>1, <1>2, <1>3, <1>4 DEF PlanNext

\* What the requests on a plan have loaded and will write keeps its shape.
LEMMA PlanInvariance == PlanSpec => []PlanInv
BY PlanInitInv, PlanNextInv, PTL DEF PlanSpec

\* plan_generation_service.py:99-155, 250-322 and calendar_service.py:120-160: a draft is on the
\* calendar as approved only with somebody's name, who has read it, for any number of managers,
\* items and drafts.
THEOREM PlanReviewed == PlanSpec => []ReviewIsAnswered
BY PlanInvariance, PTL DEF PlanInv

\* plan_service.py, _apply_update_task: the range is checked as the patch leaves it, and it is in
\* order after every commit of any number of requests that have loaded the task, but for one that
\* writes one end while another moved the other, or an assignment of a due date alone; the next
\* request that writes both, or one that nobody passed, puts it in order again.
THEOREM PlanInOrder == PlanSpec => []SpansAreInOrder
BY PlanInvariance, PTL DEF PlanInv

-----------------------------------------------------------------------------
(* The composition *)

\* Each component runs under its own specification while the others stand still.
LEMMA PartsRun ==
    RecordsSpec => Spec /\ PlanSpec /\ GhlSpec /\ IntegrationsSpec
<1>1. RecordsInit => Init /\ PlanInit /\ GhlInit /\ IntegrationsInit
  BY DEF RecordsInit
<1>2. [RecordsNext]_records =>
         [Next]_vars /\ [PlanNext]_planVars /\ [GhlNext]_ghlVars /\ [IntegrationsNext]_integrationVars
  BY DEF RecordsNext, records, connections
<1> QED
  BY <1>1, <1>2, PTL DEF RecordsSpec, Spec, PlanSpec, GhlSpec, IntegrationsSpec

\* The columns, requests, tokens and connectors of the four components have their types.
THEOREM RecordsType == RecordsSpec => []RecordsTypeOK
<1>1. PlanInv => PlanTypeOK
  BY DEF PlanInv
<1>2. GhlInv => GhlTypeOK
  BY DEF GhlInv, GhlTyped
<1>3. LinkInv => LinkTypeOK
  BY DEF LinkInv, LinkTyped
<1>4. TypeOK /\ PlanTypeOK /\ GhlTypeOK /\ LinkTypeOK => RecordsTypeOK
  BY DEF RecordsTypeOK
<1> QED
  BY <1>1, <1>2, <1>3, <1>4, PartsRun, TypeCorrect, PlanInvariance, GhlInvariance, LinkInvariance, PTL

\* integration_service.py, ghl_oauth_complete, oauth_complete, and the syncs: in every
\* interleaving of any number of callers and operators, the row of the agency and the
\* connectors of its clients hold tokens that fit their location, account and status.
THEOREM RecordsConnections == RecordsSpec => []ConnectionsAreCoherent
<1>1. ConnectionIsCoherent /\ LinkIsCoherent => ConnectionsAreCoherent
  BY DEF ConnectionsAreCoherent
<1> QED
  BY <1>1, PartsRun, GhlCoherent, LinkCoherent, PTL

\* integration_service.py, ghl_disconnect and disconnect: a sync that had not loaded the tokens
\* before does not bring a disconnected row back.
THEOREM RecordsStayDisconnected == RecordsSpec => DisconnectedStays
BY PartsRun, GhlStaysDisconnected, LinkStaysDown, PTL DEF DisconnectedStays
=============================================================================

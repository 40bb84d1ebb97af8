----------------------------- MODULE OfficeProofs -----------------------------
(***************************************************************************)
(* Proofs about what a user asks of the office - the dashboard of a client,*)
(* a turn of the assistant, a stored file - for any number of requests,    *)
(* processes and files; and about their composition, with the mail of the  *)
(* day and the brand themes.                                               *)
(***************************************************************************)
EXTENDS MCOffice, ReportEmailProofs, ScanProofs

-----------------------------------------------------------------------------
(* The dashboard *)

DashboardSpec == DashboardInit /\ [][DashboardNext]_dashboardVars

\* What a view has merged is as new as the view, and engines that nobody forced run under the
\* lock of their process.
ViewInv(v) ==
    /\ came[v] <= decided_so_far
    /\ where[v] = "review" => merged[v] >= came[v]
    /\ (where[v] \in {"engines", "review"} /\ ~forced[v]) => building[place[v]] = v
    /\ where[v] = "end" => /\ answer[v].of = read[v] /\ answer[v].age <= Lasts
                           /\ answer[v].shows >= came[v]

DashInv == /\ DashboardTypeOK /\ snapshot.at <= ticks
           /\ \A v \in Views : ViewInv(v)

LEMMA DashInitInv == DashboardInit => DashInv
<1> SUFFICES ASSUME DashboardInit PROVE DashInv
  OBVIOUS
<1> USE DEF DashboardInit
<1>1. /\ 0 \in Ticks /\ 0 \in Decisions
  BY DashboardAssumption DEF Ticks, Decisions
<1>2. NoAnswer \in [of : Inputs \cup {NoView}, age : Ticks, shows : Decisions, cached : BOOLEAN]
  BY <1>1 DEF NoAnswer
<1>3. snapshot \in [of : Inputs \cup {NoView}, at : Ticks] /\ snapshot.at <= ticks
  BY <1>1
<1>4. DashboardTypeOK
  BY <1>1, <1>2, <1>3 DEF DashboardTypeOK
<1>5. \A v \in Views : ViewInv(v)
  BY DEF ViewInv
<1> QED
  BY <1>3, <1>4, <1>5 DEF DashInv

\* A view moves on without the snapshot and the lock.
LEMMA DashView ==
    ASSUME DashInv, NEW v \in Views, View(v)
    PROVE  DashInv'
<1>1. /\ where[v] = "idle" /\ read' = [read EXCEPT ![v] = inputs]
      /\ came' = [came EXCEPT ![v] = decided_so_far]
      /\ where' = [where EXCEPT ![v] = IF forced[v] THEN "engines" ELSE "check"]
      /\ UNCHANGED <<snapshotVars, forced, place, merged, answer, building>>
  BY DEF View, ToStage
<1>2. DashboardTypeOK /\ snapshot.at <= ticks /\ \A w \in Views : ViewInv(w)
  BY DEF DashInv
<1>3. DashboardTypeOK'
  BY <1>1, <1>2 DEF DashboardTypeOK, snapshotVars
<1>4. ASSUME NEW w \in Views PROVE ViewInv(w)'
  <2>1. CASE w = v
    <3>1. came'[v] = decided_so_far /\ where'[v] = IF forced[v] THEN "engines" ELSE "check"
      BY <1>1, <1>2 DEF DashboardTypeOK
    <3>2. decided_so_far' \in Nat /\ decided_so_far' = decided_so_far
      BY <1>1, <1>2, DashboardAssumption DEF DashboardTypeOK, Decisions, snapshotVars
    <3> QED
      BY <2>1, <3>1, <3>2, <1>1 DEF ViewInv
  <2>2. CASE w # v
    <3>1. came'[w] = came[w] /\ where'[w] = where[w] /\ read'[w] = read[w]
      BY <1>1, <1>2, <2>2 DEF DashboardTypeOK
    <3> QED
      BY <3>1, <1>1, <1>2 DEF ViewInv, snapshotVars
  <2> QED
    BY <2>1, <2>2
<1> QED
  BY <1>1, <1>2, <1>3, <1>4 DEF DashInv, snapshotVars

LEMMA DashServed ==
    ASSUME DashInv, NEW v \in Views, Fresh(v), ServeCached(v)
    PROVE  DashInv'
<1> DEFINE a == [of |-> snapshot.of, age |-> ticks - snapshot.at, shows |-> decided_so_far,
                 cached |-> TRUE]
<1>1. /\ answer' = [answer EXCEPT ![v] = a]
      /\ where' = [where EXCEPT ![v] = "end"]
      /\ UNCHANGED <<snapshotVars, forced, place, read, came, merged, building>>
  BY DEF ServeCached, ToStage, Merge
<1>2. DashboardTypeOK /\ snapshot.at <= ticks /\ \A w \in Views : ViewInv(w)
  BY DEF DashInv
<1>3. /\ ticks \in 0 .. MaxTicks /\ snapshot.at \in 0 .. MaxTicks /\ decided_so_far \in Decisions
      /\ snapshot.of \in Inputs \cup {NoView}
  BY <1>2 DEF DashboardTypeOK, Ticks
<1>4. ticks - snapshot.at \in Ticks
  BY <1>2, <1>3, DashboardAssumption DEF Ticks
<1>5. a \in [of : Inputs \cup {NoView}, age : Ticks, shows : Decisions, cached : BOOLEAN]
  BY <1>3, <1>4
<1>6. a.of = read[v] /\ a.age <= Lasts /\ a.shows >= came[v]
  BY <1>2, <1>3 DEF Fresh, ViewInv, DashboardTypeOK, Decisions
<1> HIDE DEF a
<1>7. DashboardTypeOK'
  BY <1>1, <1>2, <1>5 DEF DashboardTypeOK, snapshotVars
<1>8. ASSUME NEW w \in Views PROVE ViewInv(w)'
  <2>1. CASE w = v
    <3>1. answer'[v] = a /\ where'[v] = "end"
      BY <1>1, <1>2 DEF DashboardTypeOK
    <3> QED
      BY <2>1, <3>1, <1>1, <1>2, <1>6 DEF ViewInv, snapshotVars
  <2>2. CASE w # v
    <3>1. answer'[w] = answer[w] /\ where'[w] = where[w]
      BY <1>1, <1>2, <2>2 DEF DashboardTypeOK
    <3> QED
      BY <3>1, <1>1, <1>2 DEF ViewInv, snapshotVars
  <2> QED
    BY <2>1, <2>2
<1> QED
  BY <1>1, <1>2, <1>7, <1>8 DEF DashInv, snapshotVars

LEMMA DashMiss ==
    ASSUME DashInv, NEW v \in Views, Miss(v)
    PROVE  DashInv'
<1>1. /\ where[v] = "check" /\ where' = [where EXCEPT ![v] = "queue"]
      /\ UNCHANGED <<snapshotVars, viewVars, building>>
  BY DEF Miss, ToStage
<1>2. DashboardTypeOK /\ snapshot.at <= ticks /\ \A w \in Views : ViewInv(w)
  BY DEF DashInv
<1>3. DashboardTypeOK'
  BY <1>1, <1>2 DEF DashboardTypeOK, snapshotVars, viewVars
<1>4. ASSUME NEW w \in Views PROVE ViewInv(w)'
  <2>1. where'[w] = where[w] \/ where'[w] = "queue"
    BY <1>1, <1>2 DEF DashboardTypeOK
  <2> QED
    BY <2>1, <1>1, <1>2 DEF ViewInv, snapshotVars, viewVars
<1> QED
  BY <1>1, <1>2, <1>3, <1>4 DEF DashInv, snapshotVars

\* Engines are started for one view of a process at a time, but those that are forced.
LEMMA StartsAlone ==
    ASSUME DashInv, NEW v \in Views, Free(v)
    PROVE  \A w \in Views : place[w] = place[v] /\ where[w] \in {"engines", "review"} => forced[w]
<1> SUFFICES ASSUME NEW w \in Views, place[w] = place[v], where[w] \in {"engines", "review"},
                    ~forced[w]
             PROVE  FALSE
  BY DEF DashInv, DashboardTypeOK
<1>1. building[place[w]] = w
  BY DEF DashInv, ViewInv
<1> QED
  BY <1>1, DashboardAssumption DEF Free

LEMMA DashStart ==
    ASSUME DashInv, NEW v \in Views, StartEngines(v)
    PROVE  DashInv'
<1>1. /\ Free(v) /\ building' = [building EXCEPT ![place[v]] = v]
      /\ where' = [where EXCEPT ![v] = "engines"]
      /\ UNCHANGED <<snapshotVars, viewVars>>
  BY DEF StartEngines, ToStage
<1>2. DashboardTypeOK /\ snapshot.at <= ticks /\ \A w \in Views : ViewInv(w)
  BY DEF DashInv
<1>3. DashboardTypeOK'
  BY <1>1, <1>2 DEF DashboardTypeOK, snapshotVars, viewVars
<1>4. ASSUME NEW w \in Views PROVE ViewInv(w)'
  <2>0. place[v] \in Homes /\ place[w] \in Homes
    BY <1>2 DEF DashboardTypeOK
  <2>1. CASE w = v
    <3>1. building'[place[v]] = v /\ where'[v] = "engines"
      BY <1>1, <1>2, <2>0 DEF DashboardTypeOK
    <3> QED
      BY <2>1, <3>1, <1>1, <1>2 DEF ViewInv, snapshotVars, viewVars
  <2>2. CASE w # v
    <3>1. where'[w] = where[w]
      BY <1>1, <1>2, <2>2 DEF DashboardTypeOK
    <3>2. (where[w] \in {"engines", "review"} /\ ~forced[w]) => place[w] # place[v]
      BY <1>1, StartsAlone
    <3>3. place[w] # place[v] => building'[place[w]] = building[place[w]]
      BY <1>1, <1>2, <2>0 DEF DashboardTypeOK
    <3> QED
      BY <3>1, <3>2, <3>3, <1>1, <1>2 DEF ViewInv, snapshotVars, viewVars
  <2> QED
    BY <2>1, <2>2
<1> QED
  BY <1>1, <1>2, <1>3, <1>4 DEF DashInv, snapshotVars

LEMMA DashEngines ==
    ASSUME DashInv, NEW v \in Views, Engines(v)
    PROVE  DashInv'
<1>1. /\ where[v] = "engines" /\ merged' = [merged EXCEPT ![v] = decided_so_far]
      /\ where' = [where EXCEPT ![v] = "review"]
      /\ UNCHANGED <<snapshotVars, forced, place, read, came, answer, building>>
  BY DEF Engines, ToStage
<1>2. DashboardTypeOK /\ snapshot.at <= ticks /\ \A w \in Views : ViewInv(w)
  BY DEF DashInv
<1>3. DashboardTypeOK'
  BY <1>1, <1>2 DEF DashboardTypeOK, snapshotVars
<1>4. ASSUME NEW w \in Views PROVE ViewInv(w)'
  <2>1. CASE w = v
    <3>1. merged'[v] = decided_so_far /\ where'[v] = "review"
      BY <1>1, <1>2 DEF DashboardTypeOK
    <3>2. came[v] <= decided_so_far /\ came[v] \in Nat /\ decided_so_far \in Nat
      BY <1>2 DEF ViewInv, DashboardTypeOK, Decisions
    <3> QED
      BY <2>1, <3>1, <3>2, <1>1, <1>2 DEF ViewInv, snapshotVars
  <2>2. CASE w # v
    <3>1. merged'[w] = merged[w] /\ where'[w] = where[w]
      BY <1>1, <1>2, <2>2 DEF DashboardTypeOK
    <3> QED
      BY <3>1, <1>1, <1>2 DEF ViewInv, snapshotVars
  <2> QED
    BY <2>1, <2>2
<1> QED
  BY <1>1, <1>2, <1>3, <1>4 DEF DashInv, snapshotVars

\* A view that gives its lock back takes it from nobody.
LEMMA Unlocked ==
    ASSUME DashboardTypeOK, NEW v \in Views, Unlock(v)
    PROVE  /\ building' \in [Homes -> Views \cup {NoView}]
           /\ \A w \in Views, h \in Homes : w # v /\ building[h] = w => building'[h] = w
  BY DEF DashboardTypeOK, Unlock

LEMMA DashFinish ==
    ASSUME DashInv, NEW v \in Views, Finish(v)
    PROVE  DashInv'
<1> DEFINE a == [of |-> read[v], age |-> 0, shows |-> merged[v], cached |-> FALSE]
<1>1. /\ where[v] = "review" /\ snapshot' = [of |-> read[v], at |-> ticks]
      /\ answer' = [answer EXCEPT ![v] = a]
      /\ Unlock(v)
      /\ where' = [where EXCEPT ![v] = "end"]
      /\ UNCHANGED <<inputs, ticks, decided_so_far, forced, place, read, came, merged>>
  BY DEF Finish, ToStage, Cache
<1>2. DashboardTypeOK /\ snapshot.at <= ticks /\ \A w \in Views : ViewInv(w)
  BY DEF DashInv
<1>3. 0 \in Ticks /\ ticks \in Nat
  BY <1>2, DashboardAssumption DEF Ticks, DashboardTypeOK
<1>4. a \in [of : Inputs \cup {NoView}, age : Ticks, shows : Decisions, cached : BOOLEAN]
  BY <1>2, <1>3 DEF DashboardTypeOK
<1>5. a.of = read[v] /\ a.age <= Lasts /\ a.shows >= came[v]
  BY <1>1, <1>2, DashboardAssumption DEF ViewInv
<1>6. snapshot' \in [of : Inputs \cup {NoView}, at : Ticks] /\ snapshot'.at <= ticks'
  BY <1>1, <1>2, <1>3 DEF DashboardTypeOK
<1> HIDE DEF a
<1>7. DashboardTypeOK'
  BY <1>1, <1>2, <1>4, <1>6, Unlocked DEF DashboardTypeOK
<1>8. ASSUME NEW w \in Views PROVE ViewInv(w)'
  <2>1. CASE w = v
    <3>1. answer'[v] = a /\ where'[v] = "end"
      BY <1>1, <1>2 DEF DashboardTypeOK
    <3> QED
      BY <2>1, <3>1, <1>1, <1>2, <1>5 DEF ViewInv
  <2>2. CASE w # v
    <3>1. answer'[w] = answer[w] /\ where'[w] = where[w] /\ place[w] \in Homes
      BY <1>1, <1>2, <2>2 DEF DashboardTypeOK
    <3>2. building[place[w]] = w => building'[place[w]] = w
      BY <1>1, <1>2, <2>2, <3>1, Unlocked
    <3> QED
      BY <3>1, <3>2, <1>1, <1>2 DEF ViewInv
  <2> QED
    BY <2>1, <2>2
<1> QED
  BY <1>2, <1>6, <1>7, <1>8 DEF DashInv

LEMMA DashGiveUp ==
    ASSUME DashInv, NEW v \in Views, GiveUp(v)
    PROVE  DashInv'
<1>1. /\ Unlock(v) /\ where' = [where EXCEPT ![v] = "failed"]
      /\ UNCHANGED <<snapshotVars, viewVars>>
  BY DEF GiveUp, ToStage
<1>2. DashboardTypeOK /\ snapshot.at <= ticks /\ \A w \in Views : ViewInv(w)
  BY DEF DashInv
<1>3. DashboardTypeOK'
  BY <1>1, <1>2, Unlocked DEF DashboardTypeOK, snapshotVars, viewVars
<1>4. ASSUME NEW w \in Views PROVE ViewInv(w)'
  <2>1. CASE w = v
    <3>1. where'[v] = "failed"
      BY <1>1, <1>2 DEF DashboardTypeOK
    <3> QED
      BY <2>1, <3>1, <1>1, <1>2 DEF ViewInv, snapshotVars, viewVars
  <2>2. CASE w # v
    <3>1. where'[w] = where[w] /\ place[w] \in Homes
      BY <1>1, <1>2, <2>2 DEF DashboardTypeOK
    <3>2. building[place[w]] = w => building'[place[w]] = w
      BY <1>1, <1>2, <2>2, <3>1, Unlocked
    <3> QED
      BY <3>1, <3>2, <1>1, <1>2 DEF ViewInv, snapshotVars, viewVars
  <2> QED
    BY <2>1, <2>2
<1> QED
  BY <1>1, <1>2, <1>3, <1>4 DEF DashInv, snapshotVars

\* Inputs change, decisions are recorded, time goes by.
LEMMA DashElse ==
    ASSUME DashInv, InputsChange \/ RecordDecision \/ Age
    PROVE  DashInv'
<1>1. DashboardTypeOK /\ snapshot.at <= ticks /\ \A w \in Views : ViewInv(w)
  BY DEF DashInv
<1>2. ticks \in 0 .. MaxTicks /\ decided_so_far \in 0 .. MaxDecided /\ snapshot.at \in 0 .. MaxTicks
  BY <1>1 DEF DashboardTypeOK, Ticks, Decisions
<1>3. /\ inputs' \in Inputs
      /\ ticks' \in 0 .. MaxTicks /\ ticks' >= ticks
      /\ decided_so_far' \in 0 .. MaxDecided /\ decided_so_far' >= decided_so_far
      /\ UNCHANGED <<snapshot, viewVars, where, building>>
  BY <1>1, <1>2, DashboardAssumption
     DEF InputsChange, RecordDecision, Age, DashboardTypeOK
<1>4. DashboardTypeOK'
  BY <1>1, <1>3 DEF DashboardTypeOK, Ticks, Decisions, viewVars
<1>5. snapshot'.at <= ticks'
  BY <1>1, <1>2, <1>3
<1>6. ASSUME NEW w \in Views PROVE ViewInv(w)'
  <2>1. came[w] \in 0 .. MaxDecided
    BY <1>1 DEF DashboardTypeOK, Decisions
  <2>2. came[w] <= decided_so_far'
    BY <2>1, <1>1, <1>2, <1>3 DEF ViewInv
  <2> QED
    BY <2>2, <1>1, <1>3 DEF ViewInv, viewVars
<1> QED
  BY <1>4, <1>5, <1>6 DEF DashInv

LEMMA DashNextInv == DashInv /\ [DashboardNext]_dashboardVars => DashInv'
<1> SUFFICES ASSUME DashInv, [DashboardNext]_dashboardVars PROVE DashInv'
  OBVIOUS
<1>1. ASSUME NEW v \in Views, View(v) \/ Proceed(v) \/ GiveUp(v) PROVE DashInv'
  <2>1. Hit(v) \/ HitLate(v) => Fresh(v) /\ ServeCached(v)
    BY DEF Hit, HitLate
  <2> QED
    BY <1>1, <2>1, DashView, DashServed, DashMiss, DashStart, DashEngines, DashFinish, DashGiveUp
       DEF Proceed
<1>2. CASE UNCHANGED dashboardVars
  BY <1>2 DEF dashboardVars, snapshotVars, viewVars, DashInv, DashboardTypeOK, ViewInv
<1> QED
  BY <1>1, <1>2, DashElse DEF DashboardNext

LEMMA DashInvariance == DashboardSpec => []DashInv
  BY DashInitInv, DashNextInv, PTL DEF DashboardSpec

\* dashboard_service.py:121: a view answers for the inputs it read, in time, and with every
\* decision recorded before it came.
THEOREM AnswersCurrent == DashboardSpec => []AnswersAreCurrent
<1>1. DashInv => AnswersAreCurrent
  BY DEF DashInv, ViewInv, AnswersAreCurrent
<1> QED
  BY <1>1, DashInvariance, PTL

\* dashboard_service.py:63: one view of a process at a time runs engines that nobody forced.
THEOREM OneBuild == DashboardSpec => OneBuildServesAll
<1> DEFINE Built == \A v \in Views : where[v] # "engines" /\ where'[v] = "engines" /\ ~forced[v] =>
         /\ ~Fresh(v)
         /\ \A w \in Views \ {v} : place[w] = place[v] /\ where[w] \in {"engines", "review"}
                                   => forced[w]
<1>1. ASSUME DashInv, [DashboardNext]_dashboardVars PROVE [Built]_dashboardVars
  <2>1. DashboardTypeOK
    BY <1>1 DEF DashInv
  <2> SUFFICES ASSUME NEW v \in Views, where[v] # "engines", where'[v] = "engines", ~forced[v]
               PROVE  StartEngines(v)
    BY <1>1, StartsAlone DEF StartEngines
  <2>2. where' # where
    OBVIOUS
  <2>3. ASSUME NEW w \in Views, View(w) \/ Proceed(w) \/ GiveUp(w) PROVE w = v /\ StartEngines(v)
    <3>1. PICK p \in {"check", "queue", "engines", "review", "end", "failed"} :
                /\ where' = [where EXCEPT ![w] = p]
                /\ p = "engines" => (forced[w] \/ StartEngines(w))
      BY <2>3 DEF View, Proceed, Hit, HitLate, ServeCached, Miss, StartEngines, Engines, Finish,
                  GiveUp, ToStage
    <3>2. w = v /\ p = "engines"
      BY <3>1, <2>1 DEF DashboardTypeOK
    <3> QED
      BY <3>1, <3>2
  <2> QED
    BY <1>1, <2>2, <2>3 DEF DashboardNext, dashboardVars, InputsChange, RecordDecision, Age
<1> QED
  BY <1>1, DashInvariance, PTL DEF DashboardSpec, OneBuildServesAll

\* The lock of a process is held by a view of that process whose engines or review are under way.
LocksAreHeldByBuilders ==
    \A h \in Homes : building[h] # NoView =>
        /\ place[building[h]] = h
        /\ where[building[h]] \in {"engines", "review"}

\* dashboard_service.py:63: whatever view fails or is cancelled, with the lock or waiting for it,
\* the lock is never left behind: a view that waits for it waits for one that works (ViewsEnd).
THEOREM LockGoesWithTheBuild == DashboardSpec => []LocksAreHeldByBuilders
<1>1. DashboardInit => LocksAreHeldByBuilders
  BY DEF DashboardInit, LocksAreHeldByBuilders
<1>2. DashInv /\ LocksAreHeldByBuilders /\ [DashboardNext]_dashboardVars => LocksAreHeldByBuilders'
  <2> SUFFICES ASSUME DashInv, LocksAreHeldByBuilders, [DashboardNext]_dashboardVars
               PROVE  LocksAreHeldByBuilders'
    OBVIOUS
  <2>1. /\ where \in [Views -> {"idle", "check", "queue", "engines", "review", "end", "failed"}]
        /\ building \in [Homes -> Views \cup {NoView}] /\ place \in [Views -> Homes]
        /\ NoView \notin Views
    BY DashboardAssumption DEF DashInv, DashboardTypeOK
  <2>2. ASSUME NEW v \in Views, View(v) \/ Hit(v) \/ HitLate(v) \/ Miss(v) PROVE LocksAreHeldByBuilders'
    <3>1. /\ where[v] \notin {"engines", "review"} /\ UNCHANGED <<building, place>>
          /\ \E w : where' = [where EXCEPT ![v] = w]
      BY <2>2 DEF View, Hit, HitLate, Miss, ServeCached, ToStage, viewVars
    <3> QED
      BY <2>1, <3>1 DEF LocksAreHeldByBuilders
  <2>3. ASSUME NEW v \in Views, StartEngines(v) PROVE LocksAreHeldByBuilders'
    <3>1. /\ where' = [where EXCEPT ![v] = "engines"] /\ building' = [building EXCEPT ![place[v]] = v]
          /\ where[v] = "queue" /\ place' = place
      BY <2>3 DEF StartEngines, ToStage, viewVars
    <3> QED
      BY <2>1, <3>1 DEF LocksAreHeldByBuilders
  <2>4. ASSUME NEW v \in Views, Engines(v) PROVE LocksAreHeldByBuilders'
    <3>1. /\ where' = [where EXCEPT ![v] = "review"] /\ UNCHANGED <<building, place>>
      BY <2>4 DEF Engines, ToStage
    <3> QED
      BY <2>1, <3>1 DEF LocksAreHeldByBuilders
  <2>5. ASSUME NEW v \in Views, Finish(v) \/ GiveUp(v) PROVE LocksAreHeldByBuilders'
    <3>1. /\ building' = [h \in Homes |-> IF building[h] = v THEN NoView ELSE building[h]]
          /\ place' = place /\ \E w : where' = [where EXCEPT ![v] = w]
      BY <2>5 DEF Finish, GiveUp, ToStage, Unlock, viewVars
    <3> QED
      BY <2>1, <3>1 DEF LocksAreHeldByBuilders
  <2>6. ASSUME InputsChange \/ RecordDecision \/ Age \/ UNCHANGED dashboardVars PROVE LocksAreHeldByBuilders'
    <3>1. UNCHANGED <<where, building, place>>
      BY <2>6 DEF InputsChange, RecordDecision, Age, dashboardVars, viewVars
    <3> QED
      BY <3>1 DEF LocksAreHeldByBuilders
  <2> QED
    BY <2>2, <2>3, <2>4, <2>5, <2>6 DEF DashboardNext, Proceed
<1> QED
  BY <1>1, <1>2, DashInvariance, PTL DEF DashboardSpec

-----------------------------------------------------------------------------
(* A turn of the assistant, and the cards *)

ChatSpec == ChatInit /\ [][ChatNext]_chatVars

\* Operations are staged only on the way to a reply in text, a proposal is stored with the
\* message that will name it, and drafts are committed only on the way to a card.
TurnInv(t) ==
    /\ (chat /\ kind[t] # "ask" /\ step[t] # "idle") => t \in asked
    /\ step[t] = "name" => t \in proposals
    /\ (step[t] = "store" /\ staged[t]) => reply[t] = "text"
    /\ step[t] \in {"idle", "intent", "draft", "answer"} => ~staged[t]
    /\ t \in proposals => step[t] \in {"name", "end"} /\ reply[t] = "text"
    /\ drafts[t] # "none" => /\ step[t] \in {"store", "end"}
                             /\ step[t] = "store" => reply[t] = "card"
    /\ t \in answered => t \in asked
    /\ t \in named => t \in proposals
    /\ (chat /\ Ended(t) /\ t \in proposals) => t \in named
    /\ (chat /\ Ended(t) /\ drafts[t] # "none") => card[t] # "none"

\* A decision that met no other is alone with its card, which says nothing yet.
CardInv(d) ==
    /\ over[d] = Nothing <=> stage[d] = "idle"
    /\ (stage[d] # "idle" /\ over[d] \notin contested) =>
          /\ card[over[d]] \notin Verdicts
          /\ \A e \in Deciders : over[e] = over[d] => e = d
          /\ stage[d] = "card" => decided[over[d]] = verdict[d]

Told(t) == (card[t] \in Verdicts /\ t \notin contested) => decided[t] = card[t]

ChatInv == /\ ChatTypeOK
           /\ \A t \in Turns : TurnInv(t) /\ Told(t)
           /\ \A d \in Deciders : CardInv(d)

LEMMA ChatInitInv == ChatInit => ChatInv
<1> SUFFICES ASSUME ChatInit PROVE ChatInv
  OBVIOUS
<1> USE DEF ChatInit
<1>1. 0 \in 0 .. MaxRounds
  BY ChatAssumption
<1>2. ChatTypeOK
  BY <1>1 DEF ChatTypeOK, Verdicts
<1>3. \A t \in Turns : TurnInv(t) /\ Told(t)
  BY DEF TurnInv, Told, Ended, Verdicts
<1>4. \A d \in Deciders : CardInv(d)
  BY DEF CardInv
<1> QED
  BY <1>2, <1>3, <1>4 DEF ChatInv

\* Every other turn is as it was.
Others(t) ==
    /\ UNCHANGED <<chat, kind>>
    /\ \A r \in Turns : r # t =>
          /\ r \in asked' <=> r \in asked
          /\ r \in answered' <=> r \in answered
          /\ r \in named' <=> r \in named
          /\ r \in proposals' <=> r \in proposals
          /\ r \in cut' <=> r \in cut
          /\ card'[r] = card[r] /\ drafts'[r] = drafts[r] /\ step'[r] = step[r]
          /\ staged'[r] = staged[r] /\ reply'[r] = reply[r]

\* A step of a turn disturbs no other, and no decision.
LEMMA OneTurn ==
    ASSUME ChatInv, NEW t \in Turns, ChatTypeOK', Others(t), UNCHANGED decideVars,
           card'[t] = card[t] \/ card'[t] \notin Verdicts,
           TurnInv(t)'
    PROVE  ChatInv'
<1>1. ASSUME NEW r \in Turns PROVE TurnInv(r)'
  <2>1. CASE r = t
    BY <2>1
  <2>2. CASE r # t
    <3>1. TurnInv(r)
      BY DEF ChatInv
    <3> QED
      BY <2>2, <3>1 DEF Others, TurnInv, Ended
  <2> QED
    BY <2>1, <2>2
<1>2. \A r \in Turns : card'[r] = card[r] \/ card'[r] \notin Verdicts
  BY DEF Others
<1>3. ASSUME NEW r \in Turns PROVE Told(r)'
  <2>1. Told(r)
    BY DEF ChatInv
  <2> QED
    BY <1>2, <2>1 DEF Told, decideVars
<1>4. ASSUME NEW d \in Deciders PROVE CardInv(d)'
  <2>1. CardInv(d) /\ over[d] \in Turns \cup {Nothing}
    BY DEF ChatInv, ChatTypeOK
  <2>2. UNCHANGED <<stage, over, verdict, decided, contested>>
    BY DEF decideVars
  <2>3. over[d] # Nothing => card'[over[d]] = card[over[d]] \/ card'[over[d]] \notin Verdicts
    BY <1>2, <2>1
  <2> QED
    BY <2>1, <2>2, <2>3 DEF CardInv
<1> QED
  BY <1>1, <1>3, <1>4 DEF ChatInv

LEMMA ChatBegin == ASSUME ChatInv, NEW t \in Turns, Begin(t) PROVE ChatInv'
<1>1. /\ step[t] = "idle" /\ asked' = IF kind[t] = "ask" THEN asked ELSE asked \cup {t}
      /\ step' = [step EXCEPT ![t] = "intent"]
      /\ UNCHANGED <<chat, answered, card, named, proposals, drafts, kind, rounds, staged,
                     reply, decideVars, cut>>
  BY DEF Begin, Goto
<1>2. ChatTypeOK /\ TurnInv(t)
  BY DEF ChatInv
<1>3. ChatTypeOK'
  BY <1>1, <1>2 DEF ChatTypeOK, decideVars
<1>4. step'[t] = "intent" /\ \A r \in Turns : r # t => step'[r] = step[r]
  BY <1>1, <1>2 DEF ChatTypeOK
<1>5. Others(t)
  BY <1>1, <1>4 DEF Others
<1>6. TurnInv(t)'
  BY <1>1, <1>2, <1>4 DEF TurnInv, Ended
<1> QED
  BY <1>1, <1>3, <1>5, <1>6, OneTurn

\* What replying does to a turn.
LEMMA Replied ==
    ASSUME ChatTypeOK, NEW t \in Turns, NEW what, Reply(t, what)
    PROVE  /\ reply'[t] = what /\ step'[t] = "store"
           /\ \A r \in Turns : r # t => reply'[r] = reply[r] /\ step'[r] = step[r]
           /\ what \in {"text", "question", "card"} =>
                reply' \in [Turns -> {"none", "text", "question", "card"}]
           /\ step' \in [Turns -> {"idle", "intent", "draft", "answer", "model", "store", "name", "end"}]
           /\ UNCHANGED <<kind, rounds>>
  BY DEF ChatTypeOK, Reply, Goto

LEMMA ChatAskBack == ASSUME ChatInv, NEW t \in Turns, AskBack(t) PROVE ChatInv'
<1>1. /\ step[t] = "intent" /\ Reply(t, "question")
      /\ UNCHANGED <<threadVars, proposals, drafts, staged, decideVars, cut>>
  BY DEF AskBack
<1>2. ChatTypeOK /\ TurnInv(t)
  BY DEF ChatInv
<1>3. /\ reply'[t] = "question" /\ step'[t] = "store"
      /\ \A r \in Turns : r # t => reply'[r] = reply[r] /\ step'[r] = step[r]
      /\ reply' \in [Turns -> {"none", "text", "question", "card"}]
      /\ step' \in [Turns -> {"idle", "intent", "draft", "answer", "model", "store", "name", "end"}]
      /\ UNCHANGED <<kind, rounds>>
  BY <1>1, <1>2, Replied
<1>4. ChatTypeOK'
  BY <1>1, <1>2, <1>3 DEF ChatTypeOK, threadVars, decideVars
<1>5. Others(t)
  BY <1>1, <1>3 DEF Others, threadVars
<1>6. TurnInv(t)'
  BY <1>1, <1>2, <1>3 DEF TurnInv, Ended, threadVars
<1> QED
  BY <1>1, <1>4, <1>5, <1>6, OneTurn DEF threadVars

LEMMA ChatClassify ==
    ASSUME ChatInv, NEW t \in Turns, NEW point \in {"draft", "answer", "model"}, Classify(t, point)
    PROVE  ChatInv'
<1>1. /\ step[t] = "intent" /\ step' = [step EXCEPT ![t] = point]
      /\ UNCHANGED <<threadVars, proposals, drafts, kind, rounds, staged, reply, decideVars, cut>>
  BY DEF Classify, Goto
<1>2. ChatTypeOK /\ TurnInv(t)
  BY DEF ChatInv
<1>3. ChatTypeOK'
  BY <1>1, <1>2 DEF ChatTypeOK, threadVars, decideVars
<1>4. step'[t] = point /\ \A r \in Turns : r # t => step'[r] = step[r]
  BY <1>1, <1>2 DEF ChatTypeOK
<1>5. Others(t)
  BY <1>1, <1>4 DEF Others, threadVars
<1>6. TurnInv(t)'
  BY <1>1, <1>2, <1>4 DEF TurnInv, Ended, threadVars
<1> QED
  BY <1>1, <1>3, <1>5, <1>6, OneTurn DEF threadVars

\* What storing a question that was left uncommitted does.
LEMMA Committed ==
    ASSUME ChatTypeOK, NEW t \in Turns, Asked(t)
    PROVE  /\ asked' \subseteq Turns
           /\ \A r \in Turns : r # t => (r \in asked' <=> r \in asked)
           /\ t \in asked => t \in asked'
           /\ kind[t] = "ask" => t \in asked'
  BY DEF ChatTypeOK, Asked

LEMMA ChatDraft == ASSUME ChatInv, NEW t \in Turns, Draft(t) PROVE ChatInv'
<1>1. /\ step[t] = "draft" /\ drafts' = [drafts EXCEPT ![t] = "whole"]
      /\ Asked(t) /\ Reply(t, "card")
      /\ UNCHANGED <<chat, answered, card, named, proposals, staged, decideVars, cut>>
  BY DEF Draft
<1>2. ChatTypeOK /\ TurnInv(t)
  BY DEF ChatInv
<1>3. /\ reply'[t] = "card" /\ step'[t] = "store"
      /\ \A r \in Turns : r # t => reply'[r] = reply[r] /\ step'[r] = step[r]
      /\ reply' \in [Turns -> {"none", "text", "question", "card"}]
      /\ step' \in [Turns -> {"idle", "intent", "draft", "answer", "model", "store", "name", "end"}]
      /\ UNCHANGED <<kind, rounds>>
  BY <1>1, <1>2, Replied
<1>4. /\ asked' \subseteq Turns
      /\ t \in asked => t \in asked'
      /\ \A r \in Turns : r # t => (r \in asked' <=> r \in asked)
  BY <1>1, <1>2, Committed
<1>5. drafts'[t] = "whole" /\ \A r \in Turns : r # t => drafts'[r] = drafts[r]
  BY <1>1, <1>2 DEF ChatTypeOK
<1>6. ChatTypeOK'
  BY <1>1, <1>2, <1>3, <1>4 DEF ChatTypeOK, decideVars
<1>7. Others(t)
  BY <1>1, <1>3, <1>4, <1>5 DEF Others
<1>8. TurnInv(t)'
  BY <1>1, <1>2, <1>3, <1>4 DEF TurnInv, Ended
<1> QED
  BY <1>1, <1>6, <1>7, <1>8, OneTurn

LEMMA ChatDraftNothing == ASSUME ChatInv, NEW t \in Turns, DraftNothing(t) PROVE ChatInv'
<1>1. /\ step[t] = "draft" /\ Asked(t) /\ Reply(t, "text")
      /\ UNCHANGED <<chat, answered, card, named, proposals, drafts, staged, decideVars, cut>>
  BY DEF DraftNothing
<1>2. ChatTypeOK /\ TurnInv(t)
  BY DEF ChatInv
<1>3. /\ reply'[t] = "text" /\ step'[t] = "store"
      /\ \A r \in Turns : r # t => reply'[r] = reply[r] /\ step'[r] = step[r]
      /\ reply' \in [Turns -> {"none", "text", "question", "card"}]
      /\ step' \in [Turns -> {"idle", "intent", "draft", "answer", "model", "store", "name", "end"}]
      /\ UNCHANGED <<kind, rounds>>
  BY <1>1, <1>2, Replied
<1>4. /\ asked' \subseteq Turns
      /\ t \in asked => t \in asked'
      /\ \A r \in Turns : r # t => (r \in asked' <=> r \in asked)
  BY <1>1, <1>2, Committed
<1>5. ChatTypeOK'
  BY <1>1, <1>2, <1>3, <1>4 DEF ChatTypeOK, decideVars
<1>6. Others(t)
  BY <1>1, <1>3, <1>4 DEF Others
<1>7. TurnInv(t)'
  BY <1>1, <1>2, <1>3, <1>4 DEF TurnInv, Ended
<1> QED
  BY <1>1, <1>5, <1>6, <1>7, OneTurn

LEMMA ChatReplies ==
    ASSUME ChatInv, NEW t \in Turns, Answer(t) \/ Conclude(t)
    PROVE  ChatInv'
<1>1. /\ step[t] \in {"answer", "model"} /\ Reply(t, "text")
      /\ UNCHANGED <<threadVars, proposals, drafts, staged, decideVars, cut>>
  BY DEF Answer, Conclude
<1>2. ChatTypeOK /\ TurnInv(t)
  BY DEF ChatInv
<1>3. /\ reply'[t] = "text" /\ step'[t] = "store"
      /\ \A r \in Turns : r # t => reply'[r] = reply[r] /\ step'[r] = step[r]
      /\ reply' \in [Turns -> {"none", "text", "question", "card"}]
      /\ step' \in [Turns -> {"idle", "intent", "draft", "answer", "model", "store", "name", "end"}]
      /\ UNCHANGED <<kind, rounds>>
  BY <1>1, <1>2, Replied
<1>4. ChatTypeOK'
  BY <1>1, <1>2, <1>3 DEF ChatTypeOK, threadVars, decideVars
<1>5. Others(t)
  BY <1>1, <1>3 DEF Others, threadVars
<1>6. TurnInv(t)'
  BY <1>1, <1>2, <1>3 DEF TurnInv, Ended, threadVars
<1> QED
  BY <1>1, <1>4, <1>5, <1>6, OneTurn DEF threadVars

LEMMA ChatCallTools == ASSUME ChatInv, NEW t \in Turns, CallTools(t) PROVE ChatInv'
<1>0. \A tool \in SearchTools \cup FactTools \cup WriteTools : Stages(tool) \subseteq BOOLEAN
  BY DEF Stages, SearchTools, FactTools, WriteTools, TaskTools, BulkTools, ClientTools,
         SearchStages, FactStages, TaskStages, BulkStages, ClientStages
<1>1. /\ step[t] = "model" /\ rounds[t] < MaxRounds
      /\ rounds' = [rounds EXCEPT ![t] = rounds[t] + 1]
      /\ UNCHANGED <<threadVars, proposals, drafts, kind, step, reply, decideVars, cut>>
  BY DEF CallTools
<1>2. PICK new \in BOOLEAN : staged' = [staged EXCEPT ![t] = staged[t] \/ new]
  BY <1>0 DEF CallTools
<1>3. ChatTypeOK /\ TurnInv(t)
  BY DEF ChatInv
<1>4. rounds' \in [Turns -> 0 .. MaxRounds]
  <2>1. rounds[t] + 1 \in 0 .. MaxRounds
    BY <1>1, <1>3, ChatAssumption DEF ChatTypeOK
  <2> QED
    BY <2>1, <1>1, <1>3 DEF ChatTypeOK
<1>5. /\ staged' \in [Turns -> BOOLEAN]
      /\ \A r \in Turns : r # t => staged'[r] = staged[r]
  BY <1>2, <1>3 DEF ChatTypeOK
<1>6. ChatTypeOK'
  BY <1>1, <1>3, <1>4, <1>5 DEF ChatTypeOK, threadVars, decideVars
<1>7. Others(t)
  BY <1>1, <1>5 DEF Others, threadVars
<1>8. TurnInv(t)'
  BY <1>1, <1>3 DEF TurnInv, Ended, threadVars
<1> QED
  BY <1>1, <1>6, <1>7, <1>8, OneTurn DEF threadVars

LEMMA ChatClarify == ASSUME ChatInv, NEW t \in Turns, Clarify(t) PROVE ChatInv'
<1>1. /\ step[t] = "model" /\ staged' = [staged EXCEPT ![t] = FALSE] /\ Reply(t, "question")
      /\ UNCHANGED <<threadVars, proposals, drafts, decideVars, cut>>
  BY DEF Clarify
<1>2. ChatTypeOK /\ TurnInv(t)
  BY DEF ChatInv
<1>3. /\ reply'[t] = "question" /\ step'[t] = "store"
      /\ \A r \in Turns : r # t => reply'[r] = reply[r] /\ step'[r] = step[r]
      /\ reply' \in [Turns -> {"none", "text", "question", "card"}]
      /\ step' \in [Turns -> {"idle", "intent", "draft", "answer", "model", "store", "name", "end"}]
      /\ UNCHANGED <<kind, rounds>>
  BY <1>1, <1>2, Replied
<1>4. /\ staged' \in [Turns -> BOOLEAN] /\ ~staged'[t]
      /\ \A r \in Turns : r # t => staged'[r] = staged[r]
  BY <1>1, <1>2 DEF ChatTypeOK
<1>5. ChatTypeOK'
  BY <1>1, <1>2, <1>3, <1>4 DEF ChatTypeOK, threadVars, decideVars
<1>6. Others(t)
  BY <1>1, <1>3, <1>4 DEF Others, threadVars
<1>7. TurnInv(t)'
  BY <1>1, <1>2, <1>3, <1>4 DEF TurnInv, Ended, threadVars
<1> QED
  BY <1>1, <1>5, <1>6, <1>7, OneTurn DEF threadVars

LEMMA ChatStore == ASSUME ChatInv, NEW t \in Turns, Store(t) PROVE ChatInv'
<1>1. /\ step[t] = "store" /\ chat /\ Asked(t) /\ answered' = answered \cup {t}
      /\ card' = [card EXCEPT ![t] = IF reply[t] = "card" THEN "pending" ELSE "none"]
      /\ proposals' = IF staged[t] THEN proposals \cup {t} ELSE proposals
      /\ step' = [step EXCEPT ![t] = IF staged[t] THEN "name" ELSE "end"]
      /\ UNCHANGED <<chat, named, drafts, kind, rounds, staged, reply, decideVars, cut>>
  BY DEF Store, Goto
<1>2. ChatTypeOK /\ TurnInv(t)
  BY DEF ChatInv
<1>3. /\ asked' \subseteq Turns
      /\ t \in asked => t \in asked'
      /\ kind[t] = "ask" => t \in asked'
      /\ \A r \in Turns : r # t => (r \in asked' <=> r \in asked)
  BY <1>1, <1>2, Committed
<1>4. /\ step'[t] = IF staged[t] THEN "name" ELSE "end"
      /\ card'[t] = IF reply[t] = "card" THEN "pending" ELSE "none"
      /\ \A r \in Turns : r # t => step'[r] = step[r] /\ card'[r] = card[r]
  BY <1>1, <1>2 DEF ChatTypeOK
<1>5. /\ step' \in [Turns -> {"idle", "intent", "draft", "answer", "model", "store", "name", "end"}]
      /\ card' \in [Turns -> {"none", "pending"} \cup Verdicts]
  BY <1>1, <1>2 DEF ChatTypeOK
<1>6. ChatTypeOK'
  BY <1>1, <1>2, <1>3, <1>5 DEF ChatTypeOK, decideVars
<1>7. Others(t)
  BY <1>1, <1>3, <1>4 DEF Others
<1>8. TurnInv(t)'
  BY <1>1, <1>2, <1>3, <1>4 DEF TurnInv, Ended
<1>9. card'[t] \notin Verdicts
  BY <1>4 DEF Verdicts
<1> QED
  BY <1>1, <1>6, <1>7, <1>8, <1>9, OneTurn

LEMMA ChatName == ASSUME ChatInv, NEW t \in Turns, Name(t) PROVE ChatInv'
<1>1. /\ step[t] = "name" /\ named' = named \cup {t}
      /\ step' = [step EXCEPT ![t] = "end"]
      /\ UNCHANGED <<chat, asked, answered, card, proposals, drafts, kind, rounds, staged, reply,
                     decideVars, cut>>
  BY DEF Name, Goto
<1>2. ChatTypeOK /\ TurnInv(t)
  BY DEF ChatInv
<1>3. ChatTypeOK'
  BY <1>1, <1>2 DEF ChatTypeOK, decideVars
<1>4. step'[t] = "end" /\ \A r \in Turns : r # t => step'[r] = step[r]
  BY <1>1, <1>2 DEF ChatTypeOK
<1>5. Others(t)
  BY <1>1, <1>4 DEF Others
<1>6. TurnInv(t)'
  BY <1>1, <1>2, <1>4 DEF TurnInv, Ended
<1> QED
  BY <1>1, <1>3, <1>5, <1>6, OneTurn

LEMMA ChatBreak ==
    ASSUME ChatInv, NEW t \in Turns, step[t] # "idle", Break(t)
    PROVE  ChatInv'
<1>1. /\ step' = [step EXCEPT ![t] = "end"] /\ cut' = cut \cup {t}
      /\ UNCHANGED <<threadVars, proposals, drafts, kind, rounds, staged, reply, decideVars>>
  BY DEF Break, Goto
<1>2. ChatTypeOK /\ TurnInv(t)
  BY DEF ChatInv
<1>3. ChatTypeOK'
  BY <1>1, <1>2 DEF ChatTypeOK, threadVars, decideVars
<1>4. step'[t] = "end" /\ \A r \in Turns : r # t => step'[r] = step[r]
  BY <1>1, <1>2 DEF ChatTypeOK
<1>5. Others(t)
  BY <1>1, <1>4 DEF Others, threadVars
<1>6. TurnInv(t)'
  BY <1>1, <1>2, <1>4 DEF TurnInv, Ended, threadVars
<1> QED
  BY <1>1, <1>3, <1>5, <1>6, OneTurn DEF threadVars

LEMMA ChatDropTask == ASSUME ChatInv, NEW t \in Turns, DropTask(t) PROVE ChatInv'
<1>1. /\ drafts[t] = "whole" /\ drafts' = [drafts EXCEPT ![t] = "broken"]
      /\ UNCHANGED <<threadVars, proposals, turnVars, decideVars, cut>>
  BY DEF DropTask
<1>2. ChatTypeOK /\ TurnInv(t)
  BY DEF ChatInv
<1>3. ChatTypeOK'
  BY <1>1, <1>2 DEF ChatTypeOK, threadVars, turnVars, decideVars
<1>4. \A r \in Turns : r # t => drafts'[r] = drafts[r]
  BY <1>1, <1>2 DEF ChatTypeOK
<1>5. Others(t)
  BY <1>1, <1>4 DEF Others, threadVars, turnVars
<1>6. TurnInv(t)'
  BY <1>1, <1>2 DEF TurnInv, Ended, threadVars, turnVars
<1> QED
  BY <1>1, <1>3, <1>5, <1>6, OneTurn DEF threadVars

LEMMA ChatDeleted == ASSUME ChatInv, DeleteChat PROVE ChatInv'
<1>1. /\ chat' = FALSE /\ asked' = {} /\ answered' = {} /\ named' = {}
      /\ card' = [t \in Turns |-> "none"]
      /\ UNCHANGED <<proposals, drafts, turnVars, decideVars, cut>>
  BY DEF DeleteChat
<1>2. ChatTypeOK
  BY DEF ChatInv
<1>3. ChatTypeOK'
  BY <1>1, <1>2 DEF ChatTypeOK, turnVars, decideVars
<1>4. ASSUME NEW t \in Turns PROVE TurnInv(t)' /\ Told(t)'
  <2>1. TurnInv(t)
    BY DEF ChatInv
  <2>2. TurnInv(t)'
    BY <2>1, <1>1 DEF TurnInv, Ended, turnVars
  <2> QED
    BY <2>2, <1>1 DEF Told, Verdicts
<1>5. ASSUME NEW d \in Deciders PROVE CardInv(d)'
  <2>1. CardInv(d) /\ over[d] \in Turns \cup {Nothing}
    BY <1>2 DEF ChatInv, ChatTypeOK
  <2>2. UNCHANGED <<stage, over, verdict, decided, contested>>
    BY <1>1 DEF decideVars
  <2>3. over[d] # Nothing => card'[over[d]] \notin Verdicts
    BY <1>1, <2>1 DEF Verdicts
  <2> QED
    BY <2>1, <2>2, <2>3 DEF CardInv
<1> QED
  BY <1>3, <1>4, <1>5 DEF ChatInv

\* A decision disturbs no turn.
LEMMA TurnsStay ==
    ASSUME ChatInv, UNCHANGED <<chat, asked, answered, named, proposals, drafts, turnVars, cut>>,
           \A t \in Turns : card[t] # "none" => card'[t] # "none"
    PROVE  \A t \in Turns : TurnInv(t)'
<1> SUFFICES ASSUME NEW t \in Turns PROVE TurnInv(t)'
  OBVIOUS
<1>1. TurnInv(t)
  BY DEF ChatInv
<1> QED
  BY <1>1 DEF TurnInv, Ended, turnVars

LEMMA ChatOpen ==
    ASSUME ChatInv, NEW d \in Deciders, NEW t \in Turns, NEW v \in Verdicts, Open(d, t, v)
    PROVE  ChatInv'
<1>1. /\ stage[d] = "idle" /\ card[t] = "pending"
      /\ stage' = [stage EXCEPT ![d] = "batch"]
      /\ over' = [over EXCEPT ![d] = t]
      /\ verdict' = [verdict EXCEPT ![d] = v]
      /\ contested' = IF \E e \in Deciders : over[e] = t THEN contested \cup {t} ELSE contested
      /\ UNCHANGED <<threadVars, proposals, drafts, turnVars, decided, cut>>
  BY DEF Open
<1>2. ChatTypeOK /\ \A r \in Turns : Told(r)
  BY DEF ChatInv
<1>3. ChatTypeOK'
  BY <1>1, <1>2 DEF ChatTypeOK, threadVars, turnVars
<1>4. \A r \in Turns : TurnInv(r)'
  BY <1>1, TurnsStay DEF threadVars
<1>5. contested \subseteq contested' /\ ((\E e \in Deciders : over[e] = t) => t \in contested')
  BY <1>1
<1>6. \A r \in Turns : Told(r)'
  BY <1>1, <1>2, <1>5 DEF Told, threadVars
<1>7. /\ stage'[d] = "batch" /\ over'[d] = t /\ t # Nothing
      /\ \A e \in Deciders : e # d => stage'[e] = stage[e] /\ over'[e] = over[e] /\ verdict'[e] = verdict[e]
  BY <1>1, <1>2, ChatAssumption DEF ChatTypeOK
<1>8. ASSUME NEW e \in Deciders PROVE CardInv(e)'
  <2>1. CardInv(e)
    BY DEF ChatInv
  <2>2. CASE e = d
    <3>1. t \notin contested' => \A g \in Deciders : over'[g] = t => g = d
      BY <1>5, <1>7
    <3>2. card'[t] \notin Verdicts
      BY <1>1 DEF threadVars, Verdicts
    <3> QED
      BY <2>2, <3>1, <3>2, <1>7 DEF CardInv
  <2>3. CASE e # d
    <3>1. stage'[e] = stage[e] /\ over'[e] = over[e] /\ verdict'[e] = verdict[e]
          /\ UNCHANGED <<card, decided>>
      BY <1>1, <1>7, <2>3 DEF threadVars
    <3>2. over[e] \notin contested' => over[e] # t
      BY <1>5
    <3>3. over[e] \notin contested' =>
             ((\A g \in Deciders : over[g] = over[e] => g = e)
               => \A g \in Deciders : over'[g] = over[e] => g = e)
      BY <3>2, <1>7
    <3> QED
      BY <2>1, <3>1, <3>3, <1>5 DEF CardInv
  <2> QED
    BY <2>2, <2>3
<1> QED
  BY <1>3, <1>4, <1>6, <1>8 DEF ChatInv

LEMMA ChatBatch == ASSUME ChatInv, NEW d \in Deciders, Batch(d) PROVE ChatInv'
<1>1. /\ stage[d] = "batch"
      /\ decided' = [decided EXCEPT ![over[d]] = verdict[d]]
      /\ stage' = [stage EXCEPT ![d] = "card"]
      /\ UNCHANGED <<threadVars, proposals, drafts, turnVars, over, verdict, contested, cut>>
  BY DEF Batch
<1>2. ChatTypeOK /\ (\A r \in Turns : Told(r)) /\ CardInv(d)
  BY DEF ChatInv
<1>3. PICK t \in Turns : over[d] = t
  BY <1>1, <1>2 DEF CardInv, ChatTypeOK
<1>4. /\ decided'[t] = verdict[d] /\ \A r \in Turns : r # t => decided'[r] = decided[r]
      /\ stage'[d] = "card" /\ \A e \in Deciders : e # d => stage'[e] = stage[e]
  BY <1>1, <1>2, <1>3 DEF ChatTypeOK
<1>5. ChatTypeOK'
  BY <1>1, <1>2, <1>3 DEF ChatTypeOK, threadVars, turnVars
<1>6. \A r \in Turns : TurnInv(r)'
  BY <1>1, TurnsStay DEF threadVars
<1>7. t \notin contested => /\ card[t] \notin Verdicts
                            /\ \A e \in Deciders : over[e] = t => e = d
  BY <1>1, <1>2, <1>3 DEF CardInv
<1>8. ASSUME NEW r \in Turns PROVE Told(r)'
  BY <1>1, <1>2, <1>4, <1>7 DEF Told, threadVars
<1>9. ASSUME NEW e \in Deciders PROVE CardInv(e)'
  <2>1. CardInv(e) /\ over[e] \in Turns \cup {Nothing}
    BY <1>2 DEF ChatInv, ChatTypeOK
  <2>2. UNCHANGED <<card, over, verdict, contested>>
    BY <1>1 DEF threadVars
  <2>3. CASE e = d
    BY <2>1, <2>2, <2>3, <1>1, <1>3, <1>4, <1>7 DEF CardInv
  <2>4. CASE e # d
    <3>1. stage'[e] = stage[e]
      BY <1>4, <2>4
    <3>2. (stage[e] # "idle" /\ over[e] \notin contested) => decided'[over[e]] = decided[over[e]]
      BY <2>1, <2>4, <1>4, <1>7 DEF CardInv
    <3> QED
      BY <2>1, <2>2, <3>1, <3>2 DEF CardInv
  <2> QED
    BY <2>3, <2>4
<1> QED
  BY <1>5, <1>6, <1>8, <1>9 DEF ChatInv

\* A decision that leaves is idle, over nothing, and in the way of none.
LEMMA ChatLeave ==
    ASSUME ChatTypeOK, NEW d \in Deciders, Leave(d), UNCHANGED <<decided, contested>>,
           NEW e \in Deciders, CardInv(e),
           (e # d /\ over[e] \in Turns) =>
              (card'[over[e]] = card[over[e]] \/ card'[over[e]] \notin Verdicts
                \/ over[e] \in contested)
    PROVE  CardInv(e)'
<1>1. /\ stage' = [stage EXCEPT ![d] = "idle"]
      /\ over' = [over EXCEPT ![d] = Nothing]
      /\ verdict' = [verdict EXCEPT ![d] = "approved"]
  BY DEF Leave
<1>2. /\ stage'[d] = "idle" /\ over'[d] = Nothing
      /\ \A g \in Deciders : g # d => stage'[g] = stage[g] /\ over'[g] = over[g] /\ verdict'[g] = verdict[g]
  BY <1>1 DEF ChatTypeOK
<1>3. CASE e = d
  BY <1>2, <1>3 DEF CardInv
<1>4. CASE e # d
  <2>1. stage'[e] = stage[e] /\ over'[e] = over[e] /\ verdict'[e] = verdict[e]
    BY <1>2, <1>4
  <2>2. over[e] \in Turns \/ stage[e] = "idle"
    BY DEF CardInv, ChatTypeOK
  <2>3. over[e] # Nothing => \A g \in Deciders : over'[g] = over[e] => over[g] = over[e]
    BY <1>2
  <2> QED
    BY <2>1, <2>2, <2>3, <1>4 DEF CardInv
<1> QED
  BY <1>3, <1>4

LEMMA LeaveTypes ==
    ASSUME ChatTypeOK, NEW d \in Deciders, Leave(d)
    PROVE  /\ stage' \in [Deciders -> {"idle", "batch", "card"}]
           /\ over' \in [Deciders -> Turns \cup {Nothing}]
           /\ verdict' \in [Deciders -> Verdicts]
<1>1. "approved" \in Verdicts
  BY DEF Verdicts
<1> QED
  BY <1>1 DEF ChatTypeOK, Leave

\* A decision ends without a word on the card.
LEMMA ChatLeaves ==
    ASSUME ChatInv, NEW d \in Deciders, BatchMissing(d) \/ Abandon(d)
    PROVE  ChatInv'
<1>1. /\ Leave(d)
      /\ UNCHANGED <<threadVars, proposals, drafts, turnVars, decided, contested, cut>>
  BY DEF BatchMissing, Abandon
<1>2. ChatTypeOK /\ (\A r \in Turns : Told(r)) /\ \A e \in Deciders : CardInv(e)
  BY DEF ChatInv
<1>3. ChatTypeOK'
  BY <1>1, <1>2, LeaveTypes DEF ChatTypeOK, threadVars, turnVars
<1>4. \A r \in Turns : TurnInv(r)'
  BY <1>1, TurnsStay DEF threadVars
<1>5. \A r \in Turns : Told(r)'
  BY <1>1, <1>2 DEF Told, threadVars
<1>6. ASSUME NEW e \in Deciders PROVE CardInv(e)'
  <2>1. card' = card
    BY <1>1 DEF threadVars
  <2> QED
    BY <2>1, <1>1, <1>2, ChatLeave
<1> QED
  BY <1>3, <1>4, <1>5, <1>6 DEF ChatInv

LEMMA ChatResolve == ASSUME ChatInv, NEW d \in Deciders, Resolve(d) PROVE ChatInv'
<1>1. /\ stage[d] = "card" /\ card' = [card EXCEPT ![over[d]] = verdict[d]]
      /\ Leave(d)
      /\ UNCHANGED <<chat, asked, answered, named, proposals, drafts, turnVars, decided,
                     contested, cut>>
  BY DEF Resolve
<1>2. ChatTypeOK /\ (\A r \in Turns : Told(r)) /\ \A e \in Deciders : CardInv(e)
  BY DEF ChatInv
<1>3. PICK t \in Turns : over[d] = t
  BY <1>1, <1>2 DEF CardInv, ChatTypeOK
<1>4. /\ card'[t] = verdict[d] /\ verdict[d] \in Verdicts
      /\ \A r \in Turns : r # t => card'[r] = card[r]
  BY <1>1, <1>2, <1>3 DEF ChatTypeOK
<1>5. ChatTypeOK'
  <2>1. card' \in [Turns -> {"none", "pending"} \cup Verdicts]
    BY <1>1, <1>2, <1>4 DEF ChatTypeOK
  <2> QED
    BY <2>1, <1>1, <1>2, LeaveTypes DEF ChatTypeOK, turnVars
<1>6. \A r \in Turns : TurnInv(r)'
  <2>1. \A r \in Turns : card[r] # "none" => card'[r] # "none"
    BY <1>4 DEF Verdicts
  <2> QED
    BY <2>1, <1>1, TurnsStay
<1>7. t \notin contested => /\ \A e \in Deciders : over[e] = t => e = d
                            /\ decided[t] = verdict[d]
  BY <1>1, <1>2, <1>3 DEF CardInv
<1>8. ASSUME NEW r \in Turns PROVE Told(r)'
  BY <1>1, <1>2, <1>4, <1>7 DEF Told
<1>9. ASSUME NEW e \in Deciders PROVE CardInv(e)'
  <2>1. (e # d /\ over[e] \in Turns) =>
              (card'[over[e]] = card[over[e]] \/ over[e] \in contested)
    BY <1>4, <1>7
  <2> QED
    BY <2>1, <1>1, <1>2, ChatLeave
<1> QED
  BY <1>5, <1>6, <1>8, <1>9 DEF ChatInv

LEMMA ChatNextInv == ChatInv /\ [ChatNext]_chatVars => ChatInv'
<1> SUFFICES ASSUME ChatInv, [ChatNext]_chatVars PROVE ChatInv'
  OBVIOUS
<1>1. ASSUME NEW t \in Turns, Advance(t) PROVE ChatInv'
  <2>1. ChatGone(t) => step[t] # "idle" /\ Break(t)
    BY DEF ChatGone
  <2> QED
    BY <1>1, <2>1, ChatBegin, ChatAskBack, ChatClassify, ChatDraft, ChatDraftNothing, ChatReplies,
       ChatCallTools, ChatClarify, ChatStore, ChatName, ChatBreak DEF Advance
<1>2. ASSUME NEW t \in Turns, Disconnect(t) \/ Fail(t) PROVE ChatInv'
  <2>1. step[t] # "idle" /\ Break(t)
    BY <1>2 DEF Disconnect, Fail
  <2> QED
    BY <2>1, ChatBreak
<1>3. CASE UNCHANGED chatVars
  BY <1>3 DEF chatVars, threadVars, turnVars, decideVars, ChatInv, ChatTypeOK, TurnInv, Ended, Told,
              CardInv
<1> QED
  BY <1>1, <1>2, <1>3, ChatDropTask, ChatDeleted, ChatOpen, ChatBatch, ChatLeaves, ChatResolve
     DEF ChatNext

LEMMA ChatInvariance == ChatSpec => []ChatInv
  BY ChatInitInv, ChatNextInv, PTL DEF ChatSpec

\* assistant_service.py:471, :558 and :816: an answer stands with its question, what a turn has
\* proposed or drafted is shown unless it was cut short, and a card tells the decision made.
THEOREM ThreadsTrue == ChatSpec => []ThreadsAreTrue
<1>1. ChatInv => ThreadsAreTrue
  <2> SUFFICES ASSUME ChatInv PROVE ThreadIsWhole /\ CardTellsDecision
    BY DEF ThreadsAreTrue
  <2>1. /\ answered \subseteq Turns /\ named \subseteq Turns
        /\ \A t \in Turns : TurnInv(t) /\ Told(t)
    BY DEF ChatInv, ChatTypeOK
  <2>2. ThreadIsWhole
    BY <2>1 DEF ThreadIsWhole, TurnInv
  <2> QED
    BY <2>1, <2>2 DEF CardTellsDecision, Told
<1> QED
  BY <1>1, ChatInvariance, PTL

\* What a turn has left to do: the model may call tools MaxRounds times, and the rest is a way
\* of few steps.
TurnLeft(t) ==
    IF step[t] = "model" THEN MaxRounds - rounds[t] + 4
    ELSE [idle |-> MaxRounds + 6, intent |-> MaxRounds + 5, draft |-> 3, answer |-> 3,
          store |-> 2, name |-> 1, end |-> 0][step[t]]

\* No step gives a turn more to do, and each of its own leaves it less.
TurnsShrink ==
    [][\A t \in Turns : /\ TurnLeft(t)' <= TurnLeft(t)
                        /\ Advance(t) \/ Disconnect(t) \/ Fail(t) => TurnLeft(t)' < TurnLeft(t)]_chatVars

LEMMA OwnStepsShrink ==
    ASSUME ChatInv, NEW t \in Turns, Advance(t) \/ Disconnect(t) \/ Fail(t)
    PROVE  TurnLeft(t)' < TurnLeft(t)
<1>0. /\ step \in [Turns -> {"idle", "intent", "draft", "answer", "model", "store", "name", "end"}]
      /\ rounds \in [Turns -> 0 .. MaxRounds] /\ MaxRounds \in Nat \ {0}
  BY ChatAssumption DEF ChatInv, ChatTypeOK
<1>1. ASSUME NEW p \in {"intent", "draft", "answer", "model", "store", "name", "end"},
             Goto(t, p), rounds' = rounds,
             \/ step[t] = "idle" /\ p = "intent"
             \/ step[t] = "intent" /\ p \in {"draft", "answer", "model", "store"}
             \/ step[t] \in {"draft", "answer", "model"} /\ p = "store"
             \/ step[t] = "store" /\ p = "name"
             \/ step[t] \notin {"idle", "end"} /\ p = "end"
      PROVE  TurnLeft(t)' < TurnLeft(t)
  <2>1. step'[t] = p
    BY <1>0, <1>1 DEF Goto
  <2> QED
    BY <1>0, <1>1, <2>1 DEF TurnLeft
<1>2. ASSUME CallTools(t) PROVE TurnLeft(t)' < TurnLeft(t)
  BY <1>0, <1>2 DEF CallTools, TurnLeft
<1>3. ASSUME Begin(t) PROVE TurnLeft(t)' < TurnLeft(t)
  BY <1>1, <1>3 DEF Begin
<1>4. ASSUME AskBack(t) \/ Draft(t) \/ DraftNothing(t) \/ Answer(t) \/ Clarify(t) \/ Conclude(t)
      PROVE  TurnLeft(t)' < TurnLeft(t)
  <2>1. /\ step[t] \in {"intent", "draft", "answer", "model"}
        /\ Goto(t, "store") /\ rounds' = rounds
    BY <1>4 DEF AskBack, Draft, DraftNothing, Answer, Clarify, Conclude, Reply
  <2> QED
    BY <1>1, <2>1
<1>5. ASSUME NEW p \in {"draft", "answer", "model"}, Classify(t, p) PROVE TurnLeft(t)' < TurnLeft(t)
  BY <1>1, <1>5 DEF Classify
<1>6. ASSUME Store(t) \/ Name(t) PROVE TurnLeft(t)' < TurnLeft(t)
  <2>1. /\ rounds' = rounds
        /\ \/ step[t] = "store" /\ (Goto(t, "name") \/ Goto(t, "end"))
           \/ step[t] = "name" /\ Goto(t, "end")
    BY <1>6 DEF Store, Name
  <2> QED
    BY <1>1, <2>1
<1>7. ASSUME ChatGone(t) \/ Disconnect(t) \/ Fail(t) PROVE TurnLeft(t)' < TurnLeft(t)
  <2>1. step[t] \notin {"idle", "end"} /\ Goto(t, "end") /\ rounds' = rounds
    BY <1>7 DEF ChatGone, Disconnect, Fail, Break
  <2> QED
    BY <1>1, <2>1
<1> QED
  BY <1>2, <1>3, <1>4, <1>5, <1>6, <1>7 DEF Advance

\* ai/command_agent.py gives the model _MAX_ROUNDS rounds, and no loop of the assistant is
\* without such a bound: a turn that goes on ends (TurnsEnd).
THEOREM TurnsAreBounded == ChatSpec => TurnsShrink
<1>1. ASSUME ChatInv, ChatNext, NEW t \in Turns
      PROVE  /\ TurnLeft(t)' <= TurnLeft(t)
             /\ Advance(t) \/ Disconnect(t) \/ Fail(t) => TurnLeft(t)' < TurnLeft(t)
  <2>0. /\ step \in [Turns -> {"idle", "intent", "draft", "answer", "model", "store", "name", "end"}]
        /\ rounds \in [Turns -> 0 .. MaxRounds] /\ MaxRounds \in Nat \ {0}
    BY <1>1, ChatAssumption DEF ChatInv, ChatTypeOK
  <2>1. TurnLeft(t) \in Int
    BY <2>0 DEF TurnLeft
  <2>2. ASSUME Advance(t) \/ Disconnect(t) \/ Fail(t) PROVE TurnLeft(t)' < TurnLeft(t)
    BY <1>1, <2>2, OwnStepsShrink
  <2>3. ASSUME step'[t] = step[t], rounds'[t] = rounds[t] PROVE TurnLeft(t)' = TurnLeft(t)
    BY <2>3 DEF TurnLeft
  <2>4. ASSUME NEW r \in Turns, r # t, Advance(r) \/ Disconnect(r) \/ Fail(r)
        PROVE  step'[t] = step[t] /\ rounds'[t] = rounds[t]
    BY <2>0, <2>4 DEF Advance, Begin, AskBack, Classify, Draft, DraftNothing, Answer, CallTools, Clarify,
                      Conclude, Store, Name, ChatGone, Disconnect, Fail, Break, Goto, Reply
  <2>5. ASSUME \/ DeleteChat \/ \E r \in Turns : DropTask(r)
               \/ \E d \in Deciders : \/ \E r \in Turns, v \in Verdicts : Open(d, r, v)
                                      \/ Batch(d) \/ BatchMissing(d) \/ Resolve(d) \/ Abandon(d)
        PROVE  step' = step /\ rounds' = rounds
    BY <2>5 DEF DeleteChat, DropTask, Open, Batch, BatchMissing, Resolve, Abandon, turnVars
  <2>6. CASE \E r \in Turns : Advance(r) \/ Disconnect(r) \/ Fail(r)
    <3>1. CASE Advance(t) \/ Disconnect(t) \/ Fail(t)
      <4>1. TurnLeft(t)' < TurnLeft(t)
        BY <2>2, <3>1
      <4>2. TurnLeft(t)' \in Int
        <5>1. (ChatTypeOK)'
          BY <1>1, ChatNextInv DEF ChatInv
        <5> QED
          BY <5>1, <2>0 DEF ChatTypeOK, TurnLeft
      <4> QED
        BY <2>1, <2>2, <4>1, <4>2
    <3>2. CASE ~(Advance(t) \/ Disconnect(t) \/ Fail(t))
      BY <2>1, <2>3, <2>4, <2>6, <3>2
    <3> QED
      BY <3>1, <3>2
  <2>7. CASE step' = step /\ rounds' = rounds
    BY <2>1, <2>2, <2>3, <2>7
  <2> QED
    BY <1>1, <2>5, <2>6, <2>7 DEF ChatNext
<1>2. ChatInv /\ [ChatNext]_chatVars =>
         [\A t \in Turns : /\ TurnLeft(t)' <= TurnLeft(t)
                           /\ Advance(t) \/ Disconnect(t) \/ Fail(t)
                                 => TurnLeft(t)' < TurnLeft(t)]_chatVars
  BY <1>1
<1> QED
  BY <1>2, ChatInvariance, PTL DEF ChatSpec, TurnsShrink

-----------------------------------------------------------------------------
(* Stored files *)

UploadsSpec == UploadsInit /\ [][UploadsNext]_fileVars

Asking(d) == request[d].pc \notin {"idle", "saving"}

\* A file that is being recorded is nobody else's yet; one that is being dropped has left the
\* bucket or is torn.
AskInv(d) ==
    /\ Asking(d) => request[d].file \in drawn
    /\ At(d, "recording") =>
          /\ request[d].file \in objects /\ request[d].file \notin Recorded
          /\ request[d].file \notin raced
          /\ \A e \in Desks : (e # d /\ Asking(e)) => request[e].file # request[d].file
          /\ \A l \in issued : l.file = request[d].file => l.epoch = 0 /\ l \notin revoked
    /\ At(d, "dropping") => request[d].file \notin objects \/ request[d].file \in torn
    /\ At(d, "renewing") => request[d].epoch < MaxEpoch
    /\ At(d, "reporting") => First(request[d].file) \in issued

Fits(f) ==
    (f \notin torn /\ (f \in objects) # (f \in Recorded))
        => \E d \in Desks : request[d].pc \in {"recording", "dropping"} /\ request[d].file = f

\* No link of a file is newer than its row, and a revoked one is older.
Signed(f) ==
    \A l \in issued : l.file = f =>
        /\ f \in drawn
        /\ (f \in Recorded /\ f \notin raced) => /\ l.epoch <= upload[f]
                                                 /\ l \in revoked => l.epoch < upload[f]

\* The first link of a file was handed out with its row, and each of its links opens or is
\* revoked.
Known(f) ==
    f \in Recorded => /\ First(f) \in issued
                     /\ \A l \in issued : l.file = f => Opens(l) \/ l \in revoked

FileInv(f) == Fits(f) /\ Signed(f) /\ Known(f)
ListedInv  == \A a \in ticket.files : a.file \in Recorded

UploadsInv == /\ UploadsTypeOK /\ ListedInv
              /\ \A d \in Desks : AskInv(d)
              /\ \A f \in Files : FileInv(f)

\* What a request is about.
Asks == {Idle} \cup [pc : {"recording"}, file : Files, export : BOOLEAN]
               \cup [pc : {"dropping", "answering", "reporting"}, file : Files]
               \cup [pc : {"renewing"}, file : Files, epoch : 0 .. MaxEpoch]
               \cup [pc : {"saving"}, loaded : Ticket, ticket : Ticket]

LEMMA AskTypes ==
    ASSUME UploadsTypeOK, NEW d \in Desks
    PROVE  /\ Asking(d) => request[d].file \in Files
           /\ At(d, "recording") => request[d].export \in BOOLEAN
           /\ At(d, "renewing") => request[d].epoch \in 0 .. MaxEpoch
           /\ At(d, "saving") => request[d].loaded \in Ticket /\ request[d].ticket \in Ticket
           /\ request[d].pc \in {"idle", "recording", "dropping", "answering", "reporting", "renewing",
                                 "saving"}
<1>1. request[d] \in Asks
  BY DEF UploadsTypeOK, Asks
<1> QED
  BY <1>1 DEF Asks, Idle, Asking, At

LEMMA AskGiven ==
    ASSUME UploadsTypeOK, NEW d \in Desks, NEW ask, Goes(d, ask)
    PROVE  /\ request'[d] = ask /\ \A e \in Desks : e # d => request'[e] = request[e]
           /\ ask \in Asks => request' \in [Desks -> Asks]
  BY DEF UploadsTypeOK, Asks, Goes

LEMMA UploadsInitInv == UploadsInit => UploadsInv
<1> SUFFICES ASSUME UploadsInit PROVE UploadsInv
  OBVIOUS
<1>1. UploadsTypeOK
  <2>1. NoTicket \in Ticket
    BY DEF NoTicket, Ticket
  <2> QED
    BY <2>1 DEF UploadsInit, UploadsTypeOK, Recorded
<1>2. ListedInv
  BY DEF UploadsInit, NoTicket, ListedInv
<1>3. \A d \in Desks : AskInv(d)
  BY DEF UploadsInit, Idle, AskInv, Asking, At
<1>4. \A f \in Files : FileInv(f)
  BY DEF UploadsInit, Idle, FileInv, Fits, Signed, Known, At, Recorded
<1> QED
  BY <1>1, <1>2, <1>3, <1>4 DEF UploadsInv

\* A step leaves a file alone, but for the requests about it.
Same(f) ==
    /\ (f \in Recorded)' <=> f \in Recorded
    /\ f \in Recorded => upload'[f] = upload[f]
    /\ f \in objects' <=> f \in objects
    /\ f \in drawn => f \in drawn'
    /\ f \in torn' <=> f \in torn
    /\ f \in raced' <=> f \in raced
    /\ \A l \in Link : l.file = f => /\ l \in issued' <=> l \in issued
                                     /\ l \in revoked' <=> l \in revoked

LEMMA FileStays ==
    ASSUME UploadsTypeOK, UploadsTypeOK', NEW d \in Desks, NEW ask, Goes(d, ask),
           NEW f \in Files, FileInv(f), Same(f),
           request[d].pc \in {"recording", "dropping"} => request[d].file # f
    PROVE  FileInv(f)'
<1>1. request'[d] = ask /\ \A e \in Desks : e # d => request'[e] = request[e]
  BY AskGiven
<1>2. Fits(f)'
  BY <1>1 DEF FileInv, Fits, Same
<1>3. issued \subseteq Link /\ issued' \subseteq Link
  BY DEF UploadsTypeOK
<1>4. Signed(f)'
  BY <1>3 DEF FileInv, Signed, Same
<1>5. Known(f)'
  <2>1. First(f) \in Link /\ First(f).file = f
    BY EpochAssumption DEF First, Link
  <2>2. ASSUME NEW l \in issued', l.file = f, f \in Recorded' PROVE Opens(l)' \/ l \in revoked'
    <3>1. l \in Link /\ l \in issued /\ f \in Recorded
      BY <1>3, <2>2 DEF Same
    <3>2. Opens(l) \/ l \in revoked
      BY <2>2, <3>1 DEF FileInv, Known
    <3> QED
      BY <2>2, <3>1, <3>2 DEF Same, Opens
  <2>3. f \in Recorded' => First(f) \in issued'
    BY <2>1 DEF FileInv, Known, Same
  <2> QED
    BY <2>2, <2>3 DEF Known
<1> QED
  BY <1>2, <1>4, <1>5 DEF FileInv

LEMMA AskStays ==
    ASSUME UploadsTypeOK, UploadsTypeOK', NEW d \in Desks, NEW ask, Goes(d, ask),
           NEW e \in Desks, e # d, AskInv(e),
           \A f \in Files : At(e, "recording") /\ request[e].file = f
              => Same(f) /\ (ask.pc \notin {"idle", "saving"} => ask.file # f),
           drawn \subseteq drawn', torn \subseteq torn', issued \subseteq issued', \A f \in drawn : f \in objects' => f \in objects
    PROVE  AskInv(e)'
<1>1. request'[d] = ask /\ \A g \in Desks : g # d => request'[g] = request[g]
  BY AskGiven
<1>2. request'[e] = request[e]
  BY <1>1
<1>3. Asking(e)' => request'[e].file \in drawn'
  BY <1>2 DEF AskInv, Asking
<1>4. At(e, "dropping")' => request'[e].file \notin objects' \/ request'[e].file \in torn'
  BY <1>2 DEF AskInv, At, Asking
<1>5. At(e, "renewing")' => request'[e].epoch < MaxEpoch
  BY <1>2 DEF AskInv, At
<1>6. ASSUME At(e, "recording")'
      PROVE  /\ request'[e].file \in objects' /\ request'[e].file \notin Recorded'
             /\ request'[e].file \notin raced'
             /\ \A g \in Desks : (g # e /\ Asking(g)') => request'[g].file # request'[e].file
             /\ \A l \in issued' : l.file = request'[e].file => l.epoch = 0 /\ l \notin revoked'
  <2>1. At(e, "recording")
    BY <1>2, <1>6 DEF At
  <2>2. PICK f \in Files : f = request[e].file
    BY <2>1, AskTypes DEF At, Asking
  <2>3. /\ f \in objects /\ f \notin Recorded /\ f \notin raced
        /\ \A g \in Desks : (g # e /\ Asking(g)) => request[g].file # f
        /\ \A l \in issued : l.file = f => l.epoch = 0 /\ l \notin revoked
    BY <2>1, <2>2 DEF AskInv
  <2>4. Same(f) /\ (ask.pc \notin {"idle", "saving"} => ask.file # f)
    BY <2>1, <2>2
  <2>5. f \in objects' /\ f \notin Recorded' /\ f \notin raced'
    BY <2>3, <2>4 DEF Same
  <2>6. \A g \in Desks : (g # e /\ Asking(g)') => request'[g].file # f
    BY <1>1, <2>3, <2>4 DEF Asking
  <2>7. \A l \in issued' : l.file = f => l.epoch = 0 /\ l \notin revoked'
    BY <2>3, <2>4 DEF Same, UploadsTypeOK
  <2> QED
    BY <1>2, <2>2, <2>5, <2>6, <2>7
<1>7. At(e, "reporting")' => First(request'[e].file) \in issued'
  BY <1>2 DEF AskInv, At
<1> QED
  BY <1>3, <1>4, <1>5, <1>6, <1>7 DEF AskInv

LEMMA SoFar ==
    ASSUME UploadsInv
    PROVE  /\ UploadsTypeOK /\ ListedInv
           /\ \A d \in Desks : AskInv(d)
           /\ \A f \in Files : FileInv(f)
  BY DEF UploadsInv

LEMMA UpPush == ASSUME UploadsInv, NEW d \in Desks, Push(d) PROVE UploadsInv'
<1>1. PICK f \in Files \ drawn, export \in BOOLEAN :
         /\ objects' = objects \cup {f} /\ drawn' = drawn \cup {f}
         /\ Goes(d, [pc |-> "recording", file |-> f, export |-> export])
  BY DEF Push
<1>2. /\ request[d].pc = "idle"
      /\ UNCHANGED <<upload, exports, ticket, issued, revoked, raced, torn>>
  BY DEF Push, At, books, links
<1> DEFINE ask == [pc |-> "recording", file |-> f, export |-> export]
<1>3. /\ UploadsTypeOK /\ ListedInv
      /\ \A e \in Desks : AskInv(e)
      /\ \A g \in Files : FileInv(g)
  BY SoFar
<1>4. ask \in Asks /\ ask.pc = "recording" /\ ask.file = f
  BY DEF Asks
<1>5. Goes(d, ask)
  BY <1>1
<1> HIDE DEF ask
<1>6. UploadsTypeOK'
  BY <1>1, <1>2, <1>3, <1>4, <1>5, AskGiven DEF UploadsTypeOK, Asks, Recorded
<1>7. request'[d] = ask /\ \A e \in Desks : e # d => request'[e] = request[e]
  BY <1>3, <1>5, AskGiven
<1>8. /\ f \notin Recorded /\ f \notin raced
      /\ \A e \in Desks : Asking(e) => request[e].file # f
      /\ \A l \in issued : l.file # f
  BY <1>1, <1>3 DEF UploadsTypeOK, AskInv, FileInv, Signed
<1>9. \A g \in Files : g # f => Same(g)
  BY <1>1, <1>2 DEF Same, Recorded
<1>10. AskInv(d)'
  <2>1. \A e \in Desks : (e # d /\ Asking(e)') => request'[e].file # f
    BY <1>7, <1>8 DEF Asking
  <2> QED
    BY <2>1, <1>1, <1>2, <1>4, <1>7, <1>8 DEF AskInv, Asking, At, Recorded
<1>11. ASSUME NEW e \in Desks, e # d PROVE AskInv(e)'
  <2>1. \A g \in Files : At(e, "recording") /\ request[e].file = g
              => Same(g) /\ (ask.pc \notin {"idle", "saving"} => ask.file # g)
    BY <1>4, <1>8, <1>9 DEF At, Asking
  <2>2. drawn \subseteq drawn' /\ torn \subseteq torn' /\ issued \subseteq issued' /\ \A g \in drawn : g \in objects' => g \in objects
    BY <1>1, <1>2
  <2> QED
    BY <2>1, <2>2, <1>3, <1>5, <1>6, <1>11, AskStays
<1>12. ASSUME NEW g \in Files, g # f PROVE FileInv(g)'
  BY <1>2, <1>3, <1>4, <1>5, <1>6, <1>9, <1>12, FileStays
<1>13. FileInv(f)'
  <2>1. Fits(f)'
    BY <1>4, <1>7 DEF Fits
  <2>2. Signed(f)'
    BY <1>2, <1>8 DEF Signed
  <2>3. Known(f)'
    BY <1>2, <1>8 DEF Known, Recorded
  <2> QED
    BY <2>1, <2>2, <2>3 DEF FileInv
<1>14. ListedInv'
  BY <1>2, <1>3 DEF ListedInv, Recorded
<1> QED
  BY <1>6, <1>10, <1>11, <1>12, <1>13, <1>14 DEF UploadsInv

LEMMA UpRecord == ASSUME UploadsInv, NEW d \in Desks, Record(d) PROVE UploadsInv'
<1>3. /\ UploadsTypeOK /\ ListedInv
      /\ \A e \in Desks : AskInv(e)
      /\ \A g \in Files : FileInv(g)
  BY SoFar
<1>0. At(d, "recording")
  BY DEF Record
<1>1. PICK f \in Files : f = request[d].file
  BY <1>0, <1>3, AskTypes DEF At, Asking
<1>2. /\ upload' = [g \in Recorded \cup {f} |-> IF g = f THEN 0 ELSE upload[g]]
      /\ issued' = issued \cup {First(f)}
      /\ UNCHANGED <<objects, drawn, exports, ticket, revoked, raced, torn>>
  BY <1>1 DEF Record, books, First
<1>4. PICK ask \in {Idle, [pc |-> "reporting", file |-> f]} : Goes(d, ask)
  BY <1>1 DEF Record
<1>5. ask \in Asks /\ (ask.pc # "idle" => ask.file = f) /\ ask.pc \in {"idle", "reporting"}
  BY <1>4 DEF Asks, Idle
<1>6. First(f) \in Link /\ First(f).file = f /\ First(f).epoch = 0
  BY EpochAssumption DEF First, Link
<1>7. request'[d] = ask /\ \A e \in Desks : e # d => request'[e] = request[e]
  BY <1>3, <1>4, AskGiven
<1>8. /\ f \in objects /\ f \notin Recorded /\ f \in drawn
      /\ \A e \in Desks : (e # d /\ Asking(e)) => request[e].file # f
      /\ \A l \in issued : l.file = f => l.epoch = 0 /\ l \notin revoked
  BY <1>0, <1>1, <1>3 DEF AskInv, Asking, At
<1>9. Recorded' = Recorded \cup {f} /\ upload' \in [Recorded \cup {f} -> 0 .. MaxEpoch]
  BY <1>2, <1>3, EpochAssumption DEF Recorded, UploadsTypeOK
<1>10. UploadsTypeOK'
  <2>1. request' \in [Desks -> Asks]
    BY <1>3, <1>4, <1>5, AskGiven
  <2> QED
    BY <2>1, <1>2, <1>3, <1>6, <1>8, <1>9 DEF UploadsTypeOK, Asks
<1>11. \A g \in Files : g # f => Same(g)
  BY <1>2, <1>6, <1>9 DEF Same, Recorded
<1>12. AskInv(d)'
  BY <1>2, <1>5, <1>7, <1>8 DEF AskInv, Asking, At
<1>13. ASSUME NEW e \in Desks, e # d PROVE AskInv(e)'
  <2>1. \A g \in Files : At(e, "recording") /\ request[e].file = g
              => Same(g) /\ (ask.pc \notin {"idle", "saving"} => ask.file # g)
    BY <1>5, <1>8, <1>11, <1>13 DEF At, Asking
  <2>2. drawn \subseteq drawn' /\ torn \subseteq torn' /\ issued \subseteq issued' /\ \A g \in drawn : g \in objects' => g \in objects
    BY <1>2
  <2> QED
    BY <2>1, <2>2, <1>3, <1>4, <1>10, <1>13, AskStays
<1>14. ASSUME NEW g \in Files, g # f PROVE FileInv(g)'
  <2>1. ask.pc = "reporting" => ask.file # g
    BY <1>5, <1>14
  <2>2. request[d].file # g
    BY <1>1, <1>14
  <2> QED
    BY <2>1, <2>2, <1>3, <1>4, <1>10, <1>11, <1>14, FileStays
<1>15. FileInv(f)'
  <2>1. Fits(f)'
    BY <1>2, <1>8, <1>9 DEF Fits
  <2>2. upload'[f] = 0
    BY <1>2
  <2>3. Signed(f)'
    <3>1. \A l \in issued' : l.file = f => l.epoch = 0 /\ l \notin revoked'
      BY <1>2, <1>3, <1>6, <1>8 DEF UploadsTypeOK
    <3> QED
      BY <3>1, <2>2, <1>2, <1>8 DEF Signed
  <2>4. Known(f)'
    <3>1. ASSUME NEW l \in issued', l.file = f PROVE Opens(l)'
      BY <3>1, <2>2, <1>2, <1>6, <1>8, <1>9 DEF Opens
    <3> QED
      BY <3>1, <1>2 DEF Known
  <2> QED
    BY <2>1, <2>3, <2>4 DEF FileInv
<1>16. ListedInv'
  BY <1>2, <1>3, <1>9 DEF ListedInv
<1> QED
  BY <1>10, <1>12, <1>13, <1>14, <1>15, <1>16 DEF UploadsInv

LEMMA UpRecordFails == ASSUME UploadsInv, NEW d \in Desks, RecordFails(d) PROVE UploadsInv'
<1>3. /\ UploadsTypeOK /\ ListedInv
      /\ \A e \in Desks : AskInv(e)
      /\ \A g \in Files : FileInv(g)
  BY SoFar
<1>0. At(d, "recording")
  BY DEF RecordFails
<1>1. PICK f \in Files : f = request[d].file
  BY <1>0, <1>3, AskTypes DEF At, Asking
<1>2. /\ \E taken \in {{f}, {}} : objects' = objects \ taken /\ torn' = torn \cup ({f} \ taken)
      /\ Goes(d, Idle)
      /\ UNCHANGED <<upload, drawn, exports, ticket, issued, revoked, raced>>
  BY <1>1 DEF RecordFails, TakenBack, books, links
<1>4. Idle \in Asks /\ Idle.pc = "idle"
  BY DEF Asks, Idle
<1>5. request'[d] = Idle /\ \A e \in Desks : e # d => request'[e] = request[e]
  BY <1>2, <1>3, AskGiven
<1>6. /\ f \notin Recorded /\ f \in drawn
      /\ \A e \in Desks : (e # d /\ Asking(e)) => request[e].file # f
  BY <1>0, <1>1, <1>3 DEF AskInv, Asking, At
<1>7. UploadsTypeOK'
  <2>1. request' \in [Desks -> Asks]
    BY <1>2, <1>3, <1>4, AskGiven
  <2> QED
    BY <2>1, <1>2, <1>3, <1>6 DEF UploadsTypeOK, Asks, Recorded
<1>8. \A g \in Files : g # f => Same(g)
  BY <1>2 DEF Same, Recorded
<1>9. AskInv(d)'
  BY <1>4, <1>5 DEF AskInv, Asking, At
<1>10. ASSUME NEW e \in Desks, e # d PROVE AskInv(e)'
  <2>1. \A g \in Files : At(e, "recording") /\ request[e].file = g
              => Same(g) /\ (Idle.pc \notin {"idle", "saving"} => Idle.file # g)
    BY <1>4, <1>6, <1>8, <1>10 DEF At, Asking
  <2>2. drawn \subseteq drawn' /\ torn \subseteq torn' /\ issued \subseteq issued' /\ \A g \in drawn : g \in objects' => g \in objects
    BY <1>2
  <2> QED
    BY <2>1, <2>2, <1>2, <1>3, <1>7, <1>10, AskStays
<1>11. ASSUME NEW g \in Files, g # f PROVE FileInv(g)'
  BY <1>1, <1>2, <1>3, <1>4, <1>7, <1>8, <1>11, FileStays
<1>12. FileInv(f)'
  <2>1. Fits(f)'
    BY <1>2, <1>6 DEF Fits, Recorded
  <2>2. Signed(f)'
    BY <1>2, <1>3 DEF FileInv, Signed, Recorded
  <2>3. Known(f)'
    BY <1>2, <1>3, <1>4, <1>5, <1>6 DEF FileInv, Known, Recorded, At
  <2> QED
    BY <2>1, <2>2, <2>3 DEF FileInv
<1>13. ListedInv'
  BY <1>2, <1>3 DEF ListedInv, Recorded
<1> QED
  BY <1>7, <1>9, <1>10, <1>11, <1>12, <1>13 DEF UploadsInv

LEMMA UpWriteReport == ASSUME UploadsInv, NEW d \in Desks, WriteReport(d) PROVE UploadsInv'
<1>3. /\ UploadsTypeOK /\ ListedInv
      /\ \A e \in Desks : AskInv(e)
      /\ \A g \in Files : FileInv(g)
  BY SoFar
<1>0. At(d, "reporting")
  BY DEF WriteReport
<1>1. PICK f \in Files : f = request[d].file
  BY <1>0, <1>3, AskTypes DEF At, Asking
<1>2. /\ exports' = [g \in DOMAIN exports \cup {f} |-> IF g = f THEN {First(f)} ELSE exports[g]]
      /\ Goes(d, Idle)
      /\ UNCHANGED <<upload, objects, drawn, ticket, issued, revoked, raced, torn>>
  BY <1>1 DEF WriteReport, links
<1>4. Idle \in Asks /\ Idle.pc = "idle"
  BY DEF Asks, Idle
<1>5. request'[d] = Idle /\ \A e \in Desks : e # d => request'[e] = request[e]
  BY <1>2, <1>3, AskGiven
<1>6. /\ f \in drawn /\ request[d].pc = "reporting"
      /\ \A e \in Desks : (e # d /\ At(e, "recording")) => request[e].file # f
  BY <1>0, <1>1, <1>3 DEF AskInv, Asking, At
<1>7. UploadsTypeOK'
  <2>1. request' \in [Desks -> Asks]
    BY <1>2, <1>3, <1>4, AskGiven
  <2>2. First(f) \in issued
    BY <1>0, <1>1, <1>3 DEF AskInv
  <2>3. DOMAIN exports' = DOMAIN exports \cup {f} /\ exports' \in [DOMAIN exports \cup {f} -> SUBSET issued]
    BY <2>2, <1>2, <1>3 DEF UploadsTypeOK
  <2> QED
    BY <2>1, <2>3, <1>2, <1>3, <1>6 DEF UploadsTypeOK, Asks, Recorded
<1>8. \A g \in Files : g # f => Same(g)
  BY <1>2 DEF Same, Recorded
<1>9. AskInv(d)'
  BY <1>4, <1>5 DEF AskInv, Asking, At
<1>10. ASSUME NEW e \in Desks, e # d PROVE AskInv(e)'
  <2>1. \A g \in Files : At(e, "recording") /\ request[e].file = g
              => Same(g) /\ (Idle.pc \notin {"idle", "saving"} => Idle.file # g)
    BY <1>4, <1>6, <1>8, <1>10
  <2>2. drawn \subseteq drawn' /\ torn \subseteq torn' /\ issued \subseteq issued' /\ \A g \in drawn : g \in objects' => g \in objects
    BY <1>2
  <2> QED
    BY <2>1, <2>2, <1>2, <1>3, <1>7, <1>10, AskStays
<1>11. ASSUME NEW g \in Files, g # f PROVE FileInv(g)'
  BY <1>2, <1>3, <1>4, <1>6, <1>7, <1>8, <1>11, FileStays
<1>12. FileInv(f)'
  <2>1. Fits(f)'
    BY <1>2, <1>3, <1>5, <1>6 DEF FileInv, Fits, Recorded
  <2>2. Signed(f)'
    BY <1>2, <1>3 DEF FileInv, Signed, Recorded
  <2>3. Known(f)'
    BY <1>2, <1>3 DEF FileInv, Known, Recorded, Opens
  <2> QED
    BY <2>1, <2>2, <2>3 DEF FileInv
<1>13. ListedInv'
  BY <1>2, <1>3 DEF ListedInv, Recorded
<1> QED
  BY <1>7, <1>9, <1>10, <1>11, <1>12, <1>13 DEF UploadsInv

LEMMA UpDie == ASSUME UploadsInv, NEW d \in Desks, Die(d) PROVE UploadsInv'
<1>3. /\ UploadsTypeOK /\ ListedInv
      /\ \A e \in Desks : AskInv(e)
      /\ \A g \in Files : FileInv(g)
  BY SoFar
<1>0. request[d].pc \in {"recording", "dropping", "reporting"}
  BY DEF Die
<1>1. PICK f \in Files : f = request[d].file
  BY <1>0, <1>3, AskTypes DEF Asking
<1>2. /\ torn' = (IF At(d, "reporting") THEN torn ELSE torn \cup {f})
      /\ Goes(d, Idle)
      /\ UNCHANGED <<upload, objects, drawn, exports, ticket, issued, revoked, raced>>
  BY <1>1 DEF Die, books, links
<1>4. Idle \in Asks /\ Idle.pc = "idle"
  BY DEF Asks, Idle
<1>5. request'[d] = Idle /\ \A e \in Desks : e # d => request'[e] = request[e]
  BY <1>2, <1>3, AskGiven
<1>6. /\ f \in drawn /\ torn \subseteq torn' /\ torn' \subseteq torn \cup {f}
      /\ \A e \in Desks : (e # d /\ At(e, "recording")) => request[e].file # f
  BY <1>0, <1>1, <1>2, <1>3 DEF AskInv, Asking, At
<1>7. UploadsTypeOK'
  <2>1. request' \in [Desks -> Asks]
    BY <1>2, <1>3, <1>4, AskGiven
  <2> QED
    BY <2>1, <1>2, <1>3, <1>6 DEF UploadsTypeOK, Asks, Recorded
<1>8. \A g \in Files : g # f => Same(g)
  BY <1>2, <1>6 DEF Same, Recorded
<1>9. AskInv(d)'
  BY <1>4, <1>5 DEF AskInv, Asking, At
<1>10. ASSUME NEW e \in Desks, e # d PROVE AskInv(e)'
  <2>1. \A g \in Files : At(e, "recording") /\ request[e].file = g
              => Same(g) /\ (Idle.pc \notin {"idle", "saving"} => Idle.file # g)
    BY <1>4, <1>6, <1>8, <1>10
  <2>2. drawn \subseteq drawn' /\ torn \subseteq torn' /\ issued \subseteq issued' /\ \A g \in drawn : g \in objects' => g \in objects
    BY <1>2, <1>6
  <2> QED
    BY <2>1, <2>2, <1>2, <1>3, <1>7, <1>10, AskStays
<1>11. ASSUME NEW g \in Files, g # f PROVE FileInv(g)'
  BY <1>1, <1>2, <1>3, <1>4, <1>7, <1>8, <1>11, FileStays
<1>12. FileInv(f)'
  <2>1. Fits(f)'
    <3>1. CASE At(d, "reporting")
      BY <3>1, <1>2, <1>3, <1>5 DEF FileInv, Fits, Recorded, At
    <3>2. CASE ~At(d, "reporting")
      BY <3>2, <1>2 DEF Fits
    <3> QED
      BY <3>1, <3>2
  <2>2. Signed(f)'
    BY <1>2, <1>3 DEF FileInv, Signed, Recorded
  <2>3. Known(f)'
    BY <1>2, <1>3, <1>4, <1>5 DEF FileInv, Known, Recorded, Opens, At
  <2> QED
    BY <2>1, <2>2, <2>3 DEF FileInv
<1>13. ListedInv'
  BY <1>2, <1>3 DEF ListedInv, Recorded
<1> QED
  BY <1>7, <1>9, <1>10, <1>11, <1>12, <1>13 DEF UploadsInv

LEMMA UpRemove == ASSUME UploadsInv, NEW d \in Desks, Remove(d) PROVE UploadsInv'
<1>3. /\ UploadsTypeOK /\ ListedInv
      /\ \A e \in Desks : AskInv(e)
      /\ \A g \in Files : FileInv(g)
  BY SoFar
<1>0. request[d].pc = "idle"
  BY DEF Remove, At
<1>1. PICK f \in Recorded :
         /\ \E taken \in {{f}, {}} : /\ objects' = objects \ taken
                                     /\ torn' = torn \cup ({f} \cap (objects \ taken))
         /\ Goes(d, [pc |-> "dropping", file |-> f])
         /\ UNCHANGED <<upload, drawn, exports, ticket, issued, revoked, raced>>
  BY DEF Remove, TakenBack, books, links
<1> DEFINE ask == [pc |-> "dropping", file |-> f]
<1>2. f \in Files /\ f \in drawn
  BY <1>3 DEF UploadsTypeOK
<1>4. ask \in Asks /\ ask.pc = "dropping" /\ ask.file = f
  BY <1>2 DEF Asks
<1> HIDE DEF ask
<1>5. Goes(d, ask)
  BY <1>1 DEF ask
<1>6. request'[d] = ask /\ \A e \in Desks : e # d => request'[e] = request[e]
  BY <1>3, <1>5, AskGiven
<1>7. UploadsTypeOK'
  <2>1. request' \in [Desks -> Asks]
    BY <1>3, <1>4, <1>5, AskGiven
  <2> QED
    BY <2>1, <1>1, <1>2, <1>3 DEF UploadsTypeOK, Asks, Recorded
<1>8. \A g \in Files : g # f => Same(g)
  BY <1>1 DEF Same, Recorded
<1>9. AskInv(d)'
  BY <1>1, <1>2, <1>4, <1>6 DEF AskInv, Asking, At
<1>10. ASSUME NEW e \in Desks, e # d PROVE AskInv(e)'
  <2>1. At(e, "recording") => request[e].file \notin Recorded
    BY <1>3 DEF AskInv
  <2>2. \A g \in Files : At(e, "recording") /\ request[e].file = g
              => Same(g) /\ (ask.pc \notin {"idle", "saving"} => ask.file # g)
    BY <1>1, <1>4, <1>8, <2>1
  <2>3. drawn \subseteq drawn' /\ torn \subseteq torn' /\ issued \subseteq issued' /\ \A g \in drawn : g \in objects' => g \in objects
    BY <1>1
  <2> QED
    BY <2>2, <2>3, <1>3, <1>5, <1>7, <1>10, AskStays
<1>11. ASSUME NEW g \in Files, g # f PROVE FileInv(g)'
  BY <1>0, <1>3, <1>4, <1>5, <1>7, <1>8, <1>11, FileStays
<1>12. FileInv(f)'
  <2>1. Fits(f)'
    BY <1>4, <1>6 DEF Fits
  <2>2. Signed(f)'
    BY <1>1, <1>2, <1>3 DEF FileInv, Signed, Recorded
  <2>3. Known(f)'
    BY <1>1, <1>2, <1>3, <1>4, <1>6 DEF FileInv, Known, Recorded, Opens, At
  <2> QED
    BY <2>1, <2>2, <2>3 DEF FileInv
<1>13. ListedInv'
  BY <1>1, <1>3 DEF ListedInv, Recorded
<1> QED
  BY <1>2, <1>7, <1>9, <1>10, <1>11, <1>12, <1>13 DEF UploadsInv

LEMMA UpDrop == ASSUME UploadsInv, NEW d \in Desks, Drop(d) PROVE UploadsInv'
<1>3. /\ UploadsTypeOK /\ ListedInv
      /\ \A e \in Desks : AskInv(e)
      /\ \A g \in Files : FileInv(g)
  BY SoFar
<1>0. At(d, "dropping")
  BY DEF Drop
<1>1. PICK f \in Files : f = request[d].file
  BY <1>0, <1>3, AskTypes DEF At, Asking
<1>2. /\ upload' = [g \in Recorded \ {f} |-> upload[g]]
      /\ ticket' = [ticket EXCEPT !.files = {a \in ticket.files : a.file # f}]
      /\ Goes(d, Idle)
      /\ UNCHANGED <<objects, drawn, exports, issued, revoked, raced, torn>>
  BY <1>1 DEF Drop, links
<1>4. Idle \in Asks /\ Idle.pc = "idle"
  BY DEF Asks, Idle
<1>5. request'[d] = Idle /\ \A e \in Desks : e # d => request'[e] = request[e]
  BY <1>2, <1>3, AskGiven
<1>6. /\ f \in drawn /\ (f \in objects => f \in torn)
      /\ \A e \in Desks : (e # d /\ At(e, "recording")) => request[e].file # f
  BY <1>0, <1>1, <1>3 DEF AskInv, Asking, At
<1>7. /\ Recorded' = Recorded \ {f} /\ upload' \in [Recorded \ {f} -> 0 .. MaxEpoch]
      /\ \A g \in Recorded \ {f} : upload'[g] = upload[g]
  BY <1>2, <1>3 DEF Recorded, UploadsTypeOK
<1>8. ticket' \in Ticket /\ ticket'.files = {a \in ticket.files : a.file # f}
  BY <1>2, <1>3 DEF UploadsTypeOK, Ticket
<1>9. UploadsTypeOK'
  <2>1. request' \in [Desks -> Asks]
    BY <1>2, <1>3, <1>4, AskGiven
  <2> QED
    BY <2>1, <1>2, <1>3, <1>7, <1>8 DEF UploadsTypeOK, Asks
<1>10. \A g \in Files : g # f => Same(g)
  BY <1>2, <1>7 DEF Same
<1>11. AskInv(d)'
  BY <1>4, <1>5 DEF AskInv, Asking, At
<1>12. ASSUME NEW e \in Desks, e # d PROVE AskInv(e)'
  <2>1. \A g \in Files : At(e, "recording") /\ request[e].file = g
              => Same(g) /\ (Idle.pc \notin {"idle", "saving"} => Idle.file # g)
    BY <1>4, <1>6, <1>10, <1>12
  <2>2. drawn \subseteq drawn' /\ torn \subseteq torn' /\ issued \subseteq issued' /\ \A g \in drawn : g \in objects' => g \in objects
    BY <1>2
  <2> QED
    BY <2>1, <2>2, <1>2, <1>3, <1>9, <1>12, AskStays
<1>13. ASSUME NEW g \in Files, g # f PROVE FileInv(g)'
  BY <1>1, <1>2, <1>3, <1>4, <1>9, <1>10, <1>13, FileStays
<1>14. FileInv(f)'
  <2>1. Fits(f)'
    BY <1>2, <1>6, <1>7 DEF Fits
  <2>2. Signed(f)'
    BY <1>2, <1>6, <1>7 DEF Signed
  <2>3. Known(f)'
    BY <1>2, <1>3, <1>4, <1>5, <1>7 DEF FileInv, Known, At
  <2> QED
    BY <2>1, <2>2, <2>3 DEF FileInv
<1>15. ListedInv'
  BY <1>3, <1>7, <1>8 DEF ListedInv
<1> QED
  BY <1>9, <1>11, <1>12, <1>13, <1>14, <1>15 DEF UploadsInv

\* A request that only loads changes nothing of any file.
LEMMA UpLoads ==
    ASSUME UploadsInv, NEW d \in Desks, At(d, "idle"), NEW ask \in Asks, Goes(d, ask),
           UNCHANGED <<upload, objects, drawn, exports, ticket, issued, revoked, raced, torn>>,
           \/ ask.pc = "saving"
           \/ ask.pc = "renewing" /\ ask.file \in Recorded /\ ask.epoch < MaxEpoch
    PROVE  UploadsInv'
<1>1. /\ UploadsTypeOK /\ ListedInv
      /\ \A e \in Desks : AskInv(e)
      /\ \A g \in Files : FileInv(g)
  BY SoFar
<1>2. request'[d] = ask /\ \A e \in Desks : e # d => request'[e] = request[e]
  BY <1>1, AskGiven
<1>3. UploadsTypeOK'
  <2>1. request' \in [Desks -> Asks]
    BY <1>1, AskGiven
  <2> QED
    BY <2>1, <1>1 DEF UploadsTypeOK, Asks, Recorded
<1>4. \A g \in Files : Same(g)
  BY DEF Same, Recorded
<1>5. AskInv(d)'
  BY <1>1, <1>2 DEF AskInv, Asking, At, UploadsTypeOK
<1>6. ASSUME NEW e \in Desks, e # d PROVE AskInv(e)'
  <2>1. At(e, "recording") => request[e].file \notin Recorded
    BY <1>1 DEF AskInv
  <2>2. \A g \in Files : At(e, "recording") /\ request[e].file = g
              => Same(g) /\ (ask.pc \notin {"idle", "saving"} => ask.file # g)
    BY <1>4, <2>1
  <2> QED
    BY <2>2, <1>1, <1>3, <1>6, AskStays
<1>7. ASSUME NEW g \in Files PROVE FileInv(g)'
  BY <1>1, <1>3, <1>4, FileStays DEF At
<1>8. ListedInv'
  BY <1>1 DEF ListedInv, Recorded
<1> QED
  BY <1>3, <1>5, <1>6, <1>7, <1>8 DEF UploadsInv

LEMMA UpRenew == ASSUME UploadsInv, NEW d \in Desks, Renew(d) PROVE UploadsInv'
<1>3. /\ UploadsTypeOK /\ ListedInv
      /\ \A e \in Desks : AskInv(e)
      /\ \A g \in Files : FileInv(g)
  BY SoFar
<1>0. At(d, "renewing")
  BY DEF Renew
<1>1. PICK f \in Files : f = request[d].file
  BY <1>0, <1>3, AskTypes DEF At, Asking
<1>2. UNCHANGED <<objects, drawn, exports, ticket, issued, torn>>
  BY DEF Renew, books
<1>4. PICK n \in 0 .. MaxEpoch : n = request[d].epoch + 1
  BY <1>0, <1>3, AskTypes, EpochAssumption DEF AskInv
<1>5. \/ /\ f \in Recorded /\ upload' = [upload EXCEPT ![f] = n]
         /\ revoked' = revoked \cup {l \in issued : l.file = f}
         /\ raced' = (IF upload[f] + 1 = n THEN raced ELSE raced \cup {f})
         /\ Goes(d, [pc |-> "answering", file |-> f])
      \/ f \notin Recorded /\ Goes(d, Idle) /\ UNCHANGED <<upload, revoked, raced>>
  <2>1. \/ /\ f \in Recorded /\ upload' = [upload EXCEPT ![f] = Bumped(request[d].epoch)]
           /\ revoked' = revoked \cup {l \in issued : l.file = f}
           /\ raced' = (IF upload[f] = request[d].epoch THEN raced ELSE raced \cup {f})
           /\ Goes(d, [pc |-> "answering", file |-> f])
        \/ f \notin Recorded /\ Goes(d, Idle) /\ UNCHANGED <<upload, revoked, raced>>
    BY <1>1 DEF Renew
  <2>2. Bumped(request[d].epoch) = n
    BY <1>4 DEF Bumped
  <2>3. f \in Recorded => (upload[f] = request[d].epoch <=> upload[f] + 1 = n)
    BY <1>0, <1>3, <1>4, AskTypes DEF UploadsTypeOK
  <2> QED
    BY <2>1, <2>2, <2>3
<1>6. PICK ask \in Asks : /\ Goes(d, ask) /\ ask.pc \in {"idle", "answering"}
                          /\ ask.pc = "answering" => ask.file = f
  <2>1. Idle \in Asks /\ [pc |-> "answering", file |-> f] \in Asks
    BY DEF Asks
  <2> QED
    BY <2>1, <1>5 DEF Idle
<1>7. request'[d] = ask /\ \A e \in Desks : e # d => request'[e] = request[e]
  BY <1>3, <1>6, AskGiven
<1>8. /\ f \in drawn /\ \A e \in Desks : (e # d /\ At(e, "recording")) => request[e].file # f
  BY <1>0, <1>1, <1>3 DEF AskInv, Asking, At
<1>9. /\ Recorded' = Recorded /\ upload' \in [Recorded -> 0 .. MaxEpoch]
      /\ \A g \in Recorded : g # f => upload'[g] = upload[g]
      /\ raced \subseteq raced' /\ raced' \subseteq raced \cup {f}
      /\ revoked \subseteq revoked' /\ revoked' \subseteq issued
      /\ \A l \in issued : l.file # f => (l \in revoked' <=> l \in revoked)
  BY <1>3, <1>5 DEF Recorded, UploadsTypeOK
<1>10. UploadsTypeOK'
  <2>1. request' \in [Desks -> Asks]
    BY <1>3, <1>6, AskGiven
  <2> QED
    BY <2>1, <1>2, <1>3, <1>8, <1>9 DEF UploadsTypeOK, Asks
<1>11. \A g \in Files : g # f => Same(g)
  BY <1>2, <1>3, <1>9 DEF Same, UploadsTypeOK
<1>12. AskInv(d)'
  BY <1>2, <1>6, <1>7, <1>8 DEF AskInv, Asking, At
<1>13. ASSUME NEW e \in Desks, e # d PROVE AskInv(e)'
  <2>1. \A g \in Files : At(e, "recording") /\ request[e].file = g
              => Same(g) /\ (ask.pc \notin {"idle", "saving"} => ask.file # g)
    BY <1>6, <1>8, <1>11, <1>13
  <2>2. drawn \subseteq drawn' /\ torn \subseteq torn' /\ issued \subseteq issued' /\ \A g \in drawn : g \in objects' => g \in objects
    BY <1>2
  <2> QED
    BY <2>1, <2>2, <1>3, <1>6, <1>10, <1>13, AskStays
<1>14. ASSUME NEW g \in Files, g # f PROVE FileInv(g)'
  <2>1. ask.pc = "reporting" => ask.file # g
    BY <1>6
  <2>2. request[d].file # g
    BY <1>1, <1>14
  <2> QED
    BY <2>1, <2>2, <1>3, <1>6, <1>10, <1>11, <1>14, FileStays
<1>15. FileInv(f)'
  <2>0. Fits(f) /\ Signed(f) /\ Known(f)
    BY <1>3 DEF FileInv
  <2>1. Fits(f)'
    BY <2>0, <1>0, <1>2, <1>7, <1>9 DEF Fits, At
  <2>2. Signed(f)'
    <3> SUFFICES ASSUME NEW l \in issued, l.file = f, f \in Recorded, f \notin raced'
                 PROVE  l.epoch < upload'[f]
      BY <2>0, <1>2, <1>3, <1>9 DEF Signed, UploadsTypeOK, Link
    <3>1. upload'[f] = n /\ upload[f] + 1 = n
      BY <1>3, <1>5 DEF UploadsTypeOK
    <3>2. l.epoch <= upload[f] /\ l.epoch \in Nat /\ upload[f] \in Nat
      BY <2>0, <1>3, <1>9 DEF Signed, UploadsTypeOK, Link
    <3> QED
      BY <3>1, <3>2
  <2>3. Known(f)'
    BY <2>0, <1>2, <1>5, <1>9 DEF Known
  <2> QED
    BY <2>1, <2>2, <2>3 DEF FileInv
<1>16. ListedInv'
  BY <1>2, <1>3, <1>9 DEF ListedInv
<1> QED
  BY <1>10, <1>12, <1>13, <1>14, <1>15, <1>16 DEF UploadsInv

LEMMA UpAnswer == ASSUME UploadsInv, NEW d \in Desks, AnswerRenewal(d) PROVE UploadsInv'
<1>3. /\ UploadsTypeOK /\ ListedInv
      /\ \A e \in Desks : AskInv(e)
      /\ \A g \in Files : FileInv(g)
  BY SoFar
<1>0. At(d, "answering")
  BY DEF AnswerRenewal
<1>1. PICK f \in Files : f = request[d].file
  BY <1>0, <1>3, AskTypes DEF At, Asking
<1>2. /\ issued' = issued \cup {l \in Link : l.file = f /\ Opens(l)}
      /\ Goes(d, Idle)
      /\ UNCHANGED <<upload, objects, drawn, exports, ticket, revoked, raced, torn>>
  BY <1>1 DEF AnswerRenewal, books
<1>4. Idle \in Asks /\ Idle.pc = "idle"
  BY DEF Asks, Idle
<1>5. request'[d] = Idle /\ \A e \in Desks : e # d => request'[e] = request[e]
  BY <1>2, <1>3, AskGiven
<1>6. /\ f \in drawn /\ request[d].pc = "answering"
      /\ \A e \in Desks : (e # d /\ At(e, "recording")) => request[e].file # f
  BY <1>0, <1>1, <1>3 DEF AskInv, Asking, At
<1>7. UploadsTypeOK'
  <2>1. request' \in [Desks -> Asks]
    BY <1>2, <1>3, <1>4, AskGiven
  <2> QED
    BY <2>1, <1>2, <1>3 DEF UploadsTypeOK, Asks, Recorded
<1>8. \A g \in Files : g # f => Same(g)
  BY <1>2 DEF Same, Recorded
<1>9. AskInv(d)'
  BY <1>4, <1>5 DEF AskInv, Asking, At
<1>10. ASSUME NEW e \in Desks, e # d PROVE AskInv(e)'
  <2>1. \A g \in Files : At(e, "recording") /\ request[e].file = g
              => Same(g) /\ (Idle.pc \notin {"idle", "saving"} => Idle.file # g)
    BY <1>4, <1>6, <1>8, <1>10
  <2>2. drawn \subseteq drawn' /\ torn \subseteq torn' /\ issued \subseteq issued' /\ \A g \in drawn : g \in objects' => g \in objects
    BY <1>2
  <2> QED
    BY <2>1, <2>2, <1>2, <1>3, <1>7, <1>10, AskStays
<1>11. ASSUME NEW g \in Files, g # f PROVE FileInv(g)'
  BY <1>2, <1>3, <1>4, <1>6, <1>7, <1>8, <1>11, FileStays
<1>12. FileInv(f)'
  <2>0. Fits(f) /\ Signed(f) /\ Known(f)
    BY <1>3 DEF FileInv
  <2>1. Fits(f)'
    BY <2>0, <1>2, <1>5, <1>6 DEF Fits, Recorded
  <2>2. Signed(f)'
    <3> SUFFICES ASSUME NEW l \in issued', l.file = f
                 PROVE  /\ f \in drawn
                        /\ (f \in Recorded /\ f \notin raced) =>
                              /\ l.epoch <= upload[f]
                              /\ l \in revoked => l.epoch < upload[f]
      BY <1>2 DEF Signed, Recorded
    <3>1. l \in issued \/ (l \notin issued /\ Opens(l))
      BY <1>2
    <3>2. f \in Recorded => upload[f] \in Nat
      BY <1>3 DEF UploadsTypeOK
    <3> QED
      BY <2>0, <3>1, <3>2, <1>3, <1>6 DEF Signed, Opens, UploadsTypeOK
  <2>3. Known(f)'
    BY <2>0, <1>2 DEF Known, Recorded, Opens
  <2> QED
    BY <2>1, <2>2, <2>3 DEF FileInv
<1>13. ListedInv'
  BY <1>2, <1>3 DEF ListedInv, Recorded
<1> QED
  BY <1>7, <1>9, <1>10, <1>11, <1>12, <1>13 DEF UploadsInv

\* A link of a file is handed out: it opens now, or is the first.
LEMMA UpSign == ASSUME UploadsInv, NEW f \in Files, Sign(f) PROVE UploadsInv'
<1>1. /\ UploadsTypeOK /\ ListedInv
      /\ \A e \in Desks : AskInv(e)
      /\ \A g \in Files : FileInv(g)
  BY SoFar
<1>2. PICK n \in Link : n.file = f /\ (Opens(n) \/ n.epoch = 0) /\ issued' = issued \cup {n}
  BY DEF Sign
<1>3. /\ f \in drawn
      /\ UNCHANGED <<upload, objects, drawn, exports, ticket, request, revoked, raced, torn>>
  BY DEF Sign, books
<1>4. UploadsTypeOK'
  BY <1>1, <1>2, <1>3 DEF UploadsTypeOK, Recorded
<1>5. n \notin issued => n \notin revoked
  BY <1>1 DEF UploadsTypeOK
<1>6. ASSUME NEW e \in Desks PROVE AskInv(e)'
  <2>1. AskInv(e)
    BY <1>1
  <2>2. At(e, "recording") => \A l \in issued' : l.file = request[e].file => l.epoch = 0 /\ l \notin revoked
    BY <2>1, <1>2, <1>5 DEF AskInv, Opens
  <2>3. (At(e, "recording")' <=> At(e, "recording")) /\ (\A g \in Desks : Asking(g)' <=> Asking(g))
    BY <1>3 DEF At, Asking
  <2> QED
    BY <2>1, <2>2, <2>3, <1>2, <1>3 DEF AskInv, Recorded, At
<1>7. ASSUME NEW g \in Files PROVE FileInv(g)'
  <2>0. Fits(g) /\ Signed(g) /\ Known(g)
    BY <1>1 DEF FileInv
  <2>1. Fits(g)'
    BY <2>0, <1>3 DEF Fits, Recorded
  <2>2. Signed(g)'
    <3> SUFFICES ASSUME NEW l \in issued', l.file = g
                 PROVE  /\ g \in drawn
                        /\ (g \in Recorded /\ g \notin raced) =>
                              /\ l.epoch <= upload[g]
                              /\ l \in revoked => l.epoch < upload[g]
      BY <1>3 DEF Signed, Recorded
    <3>1. l \in issued \/ (l = n /\ l \notin revoked /\ g = f)
      BY <1>2, <1>5
    <3>2. g \in Recorded => upload[g] \in Nat
      BY <1>1 DEF UploadsTypeOK
    <3> QED
      BY <2>0, <3>1, <3>2, <1>2, <1>3 DEF Signed, Opens
  <2>3. Known(g)'
    <3>1. ASSUME NEW l \in issued', l.file = g, g \in Recorded PROVE Opens(l) \/ l \in revoked
      <4>1. CASE l \in issued
        BY <3>1, <4>1, <2>0 DEF Known
      <4>2. CASE l = n /\ n.epoch = 0
        <5>1. l = First(g)
          BY <3>1, <4>2, <1>2 DEF First, Link
        <5> QED
          BY <3>1, <5>1, <2>0 DEF Known
      <4> QED
        BY <3>1, <4>1, <4>2, <1>2
    <3> QED
      BY <3>1, <2>0, <1>2, <1>3 DEF Known, Recorded, Opens
  <2> QED
    BY <2>1, <2>2, <2>3 DEF FileInv
<1>8. ListedInv'
  BY <1>1, <1>3 DEF ListedInv, Recorded
<1> QED
  BY <1>4, <1>6, <1>7, <1>8 DEF UploadsInv

LEMMA UpUpdateReport == ASSUME UploadsInv, NEW f \in Files, UpdateReport(f) PROVE UploadsInv'
<1>1. /\ UploadsTypeOK /\ ListedInv
      /\ \A e \in Desks : AskInv(e)
      /\ \A g \in Files : FileInv(g)
  BY SoFar
<1>2. /\ f \in DOMAIN exports
      /\ UNCHANGED <<upload, objects, drawn, ticket, request, issued, revoked, raced, torn>>
  BY DEF UpdateReport, links
<1>3. PICK url \in SUBSET issued : exports' = [exports EXCEPT ![f] = url]
  BY DEF UpdateReport
<1>4. DOMAIN exports' = DOMAIN exports /\ exports' \in [DOMAIN exports -> SUBSET issued]
  BY <1>1, <1>3 DEF UploadsTypeOK
<1>5. UploadsTypeOK'
  BY <1>1, <1>2, <1>4 DEF UploadsTypeOK, Recorded
<1>6. \A e \in Desks : AskInv(e)'
  BY <1>1, <1>2 DEF AskInv, Asking, At, Recorded
<1>7. \A g \in Files : FileInv(g)'
  BY <1>1, <1>2 DEF FileInv, Fits, Signed, Known, Recorded, Opens, At
<1>8. ListedInv'
  BY <1>1, <1>2 DEF ListedInv, Recorded
<1> QED
  BY <1>5, <1>6, <1>7, <1>8 DEF UploadsInv

LEMMA UpDeleteReport == ASSUME UploadsInv, NEW f \in Files, DeleteReport(f) PROVE UploadsInv'
<1>1. /\ UploadsTypeOK /\ ListedInv
      /\ \A e \in Desks : AskInv(e)
      /\ \A g \in Files : FileInv(g)
  BY SoFar
<1>2. /\ exports' = [g \in DOMAIN exports \ {f} |-> exports[g]]
      /\ UNCHANGED <<upload, objects, drawn, ticket, request, issued, revoked, raced, torn>>
  BY DEF DeleteReport, links
<1>3. UploadsTypeOK'
  BY <1>1, <1>2 DEF UploadsTypeOK, Recorded
<1>4. \A e \in Desks : AskInv(e)'
  BY <1>1, <1>2 DEF AskInv, Asking, At, Recorded
<1>5. \A g \in Files : FileInv(g)'
  BY <1>1, <1>2 DEF FileInv, Fits, Signed, Known, Recorded, Opens, At
<1>6. ListedInv'
  BY <1>1, <1>2 DEF ListedInv, Recorded
<1> QED
  BY <1>3, <1>4, <1>5, <1>6 DEF UploadsInv

LEMMA UpLoadForRenewal == ASSUME UploadsInv, NEW d \in Desks, LoadForRenewal(d) PROVE UploadsInv'
<1>1. PICK f \in Recorded : /\ upload[f] < MaxEpoch
                            /\ Goes(d, [pc |-> "renewing", file |-> f, epoch |-> upload[f]])
  BY DEF LoadForRenewal
<1>2. PICK n : n = upload[f]
  OBVIOUS
<1>3. f \in Files /\ n \in 0 .. MaxEpoch /\ n < MaxEpoch
  BY <1>1, <1>2, SoFar DEF UploadsTypeOK
<1> DEFINE ask == [pc |-> "renewing", file |-> f, epoch |-> n]
<1>4. ask \in Asks /\ ask.pc = "renewing" /\ ask.file \in Recorded /\ ask.epoch < MaxEpoch
  BY <1>1, <1>3 DEF Asks
<1>5. Goes(d, ask)
  BY <1>1, <1>2
<1> HIDE DEF ask
<1>6. At(d, "idle") /\ UNCHANGED <<upload, objects, drawn, exports, ticket, issued, revoked, raced, torn>>
  BY DEF LoadForRenewal, books, links
<1> QED
  BY <1>4, <1>5, <1>6, UpLoads

\* A request on the ticket names files that have a row.
LEMMA UpTicket ==
    ASSUME UploadsInv, NEW d \in Desks, NEW new \in Ticket, LoadTicket(d, new)
    PROVE  UploadsInv'
<1>1. PICK loaded \in Ticket : loaded = ticket
  BY SoFar DEF UploadsTypeOK
<1> DEFINE ask == [pc |-> "saving", loaded |-> loaded, ticket |-> new]
<1>2. ask \in Asks /\ ask.pc = "saving"
  BY DEF Asks
<1>3. Goes(d, ask)
  BY <1>1 DEF LoadTicket
<1> HIDE DEF ask
<1>4. At(d, "idle") /\ UNCHANGED <<upload, objects, drawn, exports, ticket, issued, revoked, raced, torn>>
  BY DEF LoadTicket, books, links
<1> QED
  BY <1>2, <1>3, <1>4, UpLoads

LEMMA UpTickets ==
    ASSUME UploadsInv, NEW d \in Desks,
           FileTicket(d) \/ EditTicket(d) \/ TakeTicket(d) \/ WithdrawTicket(d) \/ DeleteTicket(d)
    PROVE  UploadsInv'
<1>1. ticket \in Ticket /\ Recorded \subseteq Files
  BY SoFar DEF UploadsTypeOK
<1>2. \A files \in Attaching(d) : files \subseteq Attachment
  BY <1>1 DEF Attaching, Attachment
<1>3. \A files \in Attaching(d) : [status |-> "open", files |-> files] \in Ticket
  BY <1>2 DEF Ticket
<1>4. \A files \in Attaching(d) : [ticket EXCEPT !.files = files] \in Ticket
  BY <1>1, <1>2 DEF Ticket
<1>5. [ticket EXCEPT !.status = "taken"] \in Ticket /\ Deleted \in Ticket
  BY <1>1 DEF Ticket, Deleted
<1>6. FileTicket(d) => \E new \in Ticket : LoadTicket(d, new)
  BY <1>3 DEF FileTicket
<1>7. EditTicket(d) => \E new \in Ticket : LoadTicket(d, new)
  <2> SUFFICES ASSUME EditTicket(d) PROVE \E new \in Ticket : LoadTicket(d, new)
    OBVIOUS
  <2>1. PICK files \in Attaching(d) : LoadTicket(d, [ticket EXCEPT !.files = files])
    BY DEF EditTicket
  <2>2. PICK new \in Ticket : new = [ticket EXCEPT !.files = files]
    BY <1>4
  <2>3. LoadTicket(d, new)
    BY <2>1, <2>2 DEF LoadTicket
  <2> QED
    BY <2>3
<1>8. TakeTicket(d) => \E new \in Ticket : LoadTicket(d, new)
  <2>1. PICK new \in Ticket : new = [ticket EXCEPT !.status = "taken"]
    BY <1>5
  <2>2. TakeTicket(d) => LoadTicket(d, new)
    BY <2>1 DEF TakeTicket, LoadTicket
  <2> QED
    BY <2>2
<1>9. WithdrawTicket(d) \/ DeleteTicket(d) => LoadTicket(d, Deleted)
  BY DEF WithdrawTicket, DeleteTicket
<1> QED
  BY <1>5, <1>6, <1>7, <1>8, <1>9, UpTicket

LEMMA UpSaveTicket == ASSUME UploadsInv, NEW d \in Desks, SaveTicket(d) PROVE UploadsInv'
<1>1. /\ UploadsTypeOK /\ ListedInv
      /\ \A e \in Desks : AskInv(e)
      /\ \A g \in Files : FileInv(g)
  BY SoFar
<1>2. /\ At(d, "saving") /\ Goes(d, Idle)
      /\ UNCHANGED <<upload, objects, drawn, exports, issued, revoked, raced, torn>>
  BY DEF SaveTicket, links
<1>3. PICK loaded \in Ticket, new \in Ticket :
         ticket' = IF new = Deleted THEN Deleted
                   ELSE IF Accepted(loaded, new) THEN Kept(loaded, new) ELSE ticket
  BY <1>1, <1>2, AskTypes DEF SaveTicket
<1>4. Idle \in Asks /\ Idle.pc = "idle"
  BY DEF Asks, Idle
<1>5. request'[d] = Idle /\ \A e \in Desks : e # d => request'[e] = request[e]
  BY <1>1, <1>2, AskGiven
<1>6. ticket' \in Ticket /\ ListedInv'
  <2>1. Recorded' = Recorded /\ ticket \in Ticket
    BY <1>1, <1>2 DEF Recorded, UploadsTypeOK
  <2>2. CASE ticket' = Deleted
    BY <2>1, <2>2 DEF Deleted, Ticket, ListedInv
  <2>3. CASE ticket' = ticket
    BY <2>1, <2>3, <1>1 DEF ListedInv
  <2>4. CASE Accepted(loaded, new) /\ ticket' = Kept(loaded, new)
    <3>1. ticket' \in Ticket
      BY <2>1, <2>4 DEF Kept, Ticket
    <3>2. /\ ticket'.files \subseteq ticket.files \cup (new.files \ loaded.files)
          /\ \A a \in new.files \ loaded.files : a.file \in Recorded
      BY <2>4 DEF Kept, Accepted
    <3> QED
      BY <3>1, <3>2, <2>1, <1>1 DEF ListedInv
  <2> QED
    BY <1>3, <2>2, <2>3, <2>4
<1>7. UploadsTypeOK'
  <2>1. request' \in [Desks -> Asks]
    BY <1>1, <1>2, <1>4, AskGiven
  <2> QED
    BY <2>1, <1>1, <1>2, <1>6 DEF UploadsTypeOK, Asks, Recorded
<1>8. \A g \in Files : Same(g)
  BY <1>2 DEF Same, Recorded
<1>9. AskInv(d)'
  BY <1>4, <1>5 DEF AskInv, Asking, At
<1>10. ASSUME NEW e \in Desks, e # d PROVE AskInv(e)'
  BY <1>1, <1>2, <1>4, <1>7, <1>8, <1>10, AskStays
<1>11. ASSUME NEW g \in Files PROVE FileInv(g)'
  BY <1>1, <1>2, <1>4, <1>7, <1>8, FileStays DEF At
<1> QED
  BY <1>6, <1>7, <1>9, <1>10, <1>11 DEF UploadsInv

LEMMA UploadsNextInv == UploadsInv /\ [UploadsNext]_fileVars => UploadsInv'
<1> SUFFICES ASSUME UploadsInv, [UploadsNext]_fileVars PROVE UploadsInv'
  OBVIOUS
<1>1. ASSUME NEW d \in Desks,
             \/ Push(d) \/ Record(d) \/ RecordFails(d) \/ WriteReport(d) \/ Die(d)
             \/ Remove(d) \/ Drop(d) \/ LoadForRenewal(d) \/ Renew(d) \/ AnswerRenewal(d)
             \/ FileTicket(d) \/ EditTicket(d) \/ TakeTicket(d) \/ WithdrawTicket(d) \/ DeleteTicket(d)
             \/ SaveTicket(d)
      PROVE  UploadsInv'
  BY <1>1, UpPush, UpRecord, UpRecordFails, UpWriteReport, UpDie, UpRemove, UpDrop, UpLoadForRenewal,
     UpRenew, UpAnswer, UpTickets, UpSaveTicket
<1>2. CASE UNCHANGED fileVars
  BY <1>2 DEF fileVars, UploadsInv, UploadsTypeOK, ListedInv, AskInv, FileInv, Fits, Signed, Known,
              Asking, At, Opens, Recorded
<1> QED
  BY <1>1, <1>2, UpSign, UpUpdateReport, UpDeleteReport DEF UploadsNext

LEMMA UploadsInvariance == UploadsSpec => []UploadsInv
  BY UploadsInitInv, UploadsNextInv, PTL DEF UploadsSpec

\* upload_service.py, report_service.py and support_ticket_service.py: the bucket fits the table
\* but for what is under way or torn, a revoked link stays dead but for overlapping regenerations,
\* and what a report or a ticket shows opens.
THEOREM FilesKept == UploadsSpec => []FilesAreKept
<1>1. UploadsInv => FilesAreKept
  <2> SUFFICES ASSUME UploadsInv PROVE BucketFitsTable /\ RevokedStaysDead /\ ShownOpens
    BY DEF FilesAreKept
  <2>1. /\ UploadsTypeOK /\ ListedInv
        /\ \A g \in Files : FileInv(g)
    BY SoFar
  <2>2. BucketFitsTable
    BY <2>1 DEF FileInv, Fits, BucketFitsTable
  <2>3. RevokedStaysDead
    <3> SUFFICES ASSUME NEW l \in revoked, Opens(l), l.file \notin raced PROVE FALSE
      BY DEF RevokedStaysDead
    <3>1. l \in issued /\ l.file \in Files /\ l.epoch \in Nat
      BY <2>1 DEF UploadsTypeOK, Link
    <3>2. Signed(l.file)
      BY <2>1, <3>1 DEF FileInv
    <3> QED
      BY <3>1, <3>2 DEF Signed, Opens
  <2>4. ShownOpens
    <3>1. ASSUME NEW f \in DOMAIN exports, NEW l \in exports[f]
          PROVE  Opens(l) \/ l \in revoked \/ l.file \notin Recorded
      <4>1. l \in issued /\ l.file \in Files
        BY <2>1, <3>1 DEF UploadsTypeOK, Link
      <4>2. Known(l.file)
        BY <2>1, <4>1 DEF FileInv
      <4> QED
        BY <4>1, <4>2 DEF Known
    <3> QED
      BY <2>1, <3>1 DEF ShownOpens, ListedInv
  <2> QED
    BY <2>2, <2>3, <2>4
<1> QED
  BY <1>1, UploadsInvariance, PTL

-----------------------------------------------------------------------------
(* The composition *)

\* Each component runs by its own specification, whatever the others do: what bounds the
\* instance, and the fairness, are not needed.
LEMMA OfficeRun ==
    Spec => ReportSpec /\ ChatSpec /\ DashboardSpec /\ ScanSpec /\ UploadsSpec
<1>1. Init => ReportInit /\ ChatInit /\ DashboardInit /\ ScanInit /\ UploadsInit
  BY DEF Init
<1>2. [Next]_vars =>
         /\ [ReportNext]_reportVars /\ [ChatNext]_chatVars /\ [DashboardNext]_dashboardVars
         /\ [ScanNext]_scanVars /\ [UploadsNext]_fileVars
  BY DEF Next, vars, requests
<1> QED
  BY <1>1, <1>2, PTL DEF Spec, ReportSpec, ChatSpec, DashboardSpec, ScanSpec, UploadsSpec

\* The rows, turns, views, scans and files of the five components have their types.
THEOREM OfficeType == Spec => []OfficeTypeOK
<1>1. ReportTypeOK /\ ChatInv /\ DashInv /\ ScanInv /\ UploadsInv => OfficeTypeOK
  BY DEF ChatInv, DashInv, ScanInv, UploadsInv, OfficeTypeOK
<1> QED
  BY <1>1, OfficeRun, ReportTypeCorrect, ChatInvariance, DashInvariance, ScanInvariance,
     UploadsInvariance, PTL
=============================================================================

-------------------------- MODULE ReportEmailProofs --------------------------
(***************************************************************************)
(* Proofs about the daily report e-mail, for any number of sessions, dates *)
(* and attempts.                                                           *)
(***************************************************************************)
EXTENDS ReportEmail, TLAPS

USE ReportAssumption

\* On a date that is not blurred: one session at most has the report in hand; the row is as
\* that session loaded it, so that its write takes effect whole; and the mail that went
\* out, if one did, is on record or about to be.
Alone(d)    == \A s, t \in Senders : InHand(s, d) /\ InHand(t, d) => s = t
Loaded(d)   == \A s \in Senders : InHand(s, d) => existing[s] = log[d] /\ log[d].status # "sent"
Unmailed(d) == mails[d] = 0
Logged(d)   == mails[d] = 1 /\ log[d].status = "sent"
Mailing(d)  == mails[d] = 1 /\ \E s \in Senders : InHand(s, d) /\ at[s] = "write" /\ outcome[s] = Sent

Handled(d)  == Alone(d) /\ Loaded(d) /\ (Unmailed(d) \/ Logged(d) \/ Mailing(d))

HandledInv  == \A d \in Dates : d \notin blurred => Handled(d)

LEMMA RowTypes == /\ None \in Rows /\ Skipped \in Rows /\ Sent \in Rows
                  /\ \A row \in Failed : row \in Rows
                  /\ \A old, loaded, new \in Rows : Written(old, loaded, new) \in Rows
<1>1. None \in Rows /\ Skipped \in Rows /\ Sent \in Rows
  BY DEF None, Skipped, Sent, Rows
<1>2. ASSUME NEW row \in Failed PROVE row \in Rows
  BY <1>2 DEF Failed, Rows
<1>3. ASSUME NEW old \in Rows, NEW loaded \in Rows, NEW new \in Rows PROVE Written(old, loaded, new) \in Rows
  BY DEF Rows, Written
<1> QED
  BY <1>1, <1>2, <1>3

\* A session that wrote over the very row it loaded leaves what it meant to write.
LEMMA WriteTakesEffect == \A loaded, new \in Rows : Written(loaded, loaded, new) = new
BY DEF Rows, Written

LEMMA CountTypes == \A n \in 0 .. 2 : (IF n = 2 THEN 2 ELSE n + 1) \in 0 .. 2
OBVIOUS

LEMMA ReportInitType == ReportInit => ReportTypeOK
<1>1. 1 \in 1 .. MaxDate + 1 /\ 0 \in 0 .. MaxAttempts /\ 0 \in 0 .. MaxLost /\ 0 \in 0 .. 2
  OBVIOUS
<1>2. None \in Rows
  BY RowTypes
<1>3. ReportInit => log \in [Dates -> Rows] /\ cooling \in [Dates -> BOOLEAN] /\ blurred \in SUBSET Dates
  BY <1>2 DEF ReportInit
<1>4. ReportInit => today \in 1 .. MaxDate + 1 /\ late \in BOOLEAN /\ lost \in 0 .. MaxLost
  BY <1>1 DEF ReportInit
<1>5. ReportInit => mails \in [Dates -> 0 .. 2]
  <2>1. 0 \in 0 .. 2
    BY <1>1
  <2> HIDE ReportAssumption
  <2> QED
    BY <2>1 DEF ReportInit
<1>6. ReportInit => failure \in [Dates -> {"none", "written", "unwritten"}]
  BY DEF ReportInit
<1>7. ReportInit => /\ at \in [Senders -> {"idle", "next", "build", "send", "write"}]
                    /\ todo \in [Senders -> SUBSET Dates] /\ tries \in [Senders -> 0 .. MaxAttempts]
                    /\ existing \in [Senders -> Rows] /\ outcome \in [Senders -> Rows]
  BY <1>1, <1>2 DEF ReportInit
<1> QED
  BY <1>3, <1>4, <1>5, <1>6, <1>7 DEF ReportTypeOK

\* A delivery, heard of or not.
LEMMA DeliveryTypes == ASSUME ReportTypeOK, NEW d
                       PROVE  /\ Delivered(d) => mails' \in [Dates -> 0 .. 2]
                              /\ Unheard(d) => /\ mails' \in [Dates -> 0 .. 2] /\ lost' \in 0 .. MaxLost
                                               /\ failure' \in [Dates -> {"none", "written", "unwritten"}]
                                               /\ d \in Dates => blurred' \in SUBSET Dates
<1>1. ASSUME Delivered(d) PROVE mails' \in [Dates -> 0 .. 2]
  <2>1. \A x \in Dates : mails[x] \in 0 .. 2 /\ (IF mails[x] = 2 THEN 2 ELSE mails[x] + 1) \in 0 .. 2
    BY CountTypes DEF ReportTypeOK
  <2> HIDE DEF ReportTypeOK
  <2> QED
    BY <1>1, <2>1 DEF Delivered, ReportTypeOK
<1>2. lost < MaxLost => lost + 1 \in 0 .. MaxLost
  BY DEF ReportTypeOK
<1> QED
  BY <1>1, <1>2 DEF Unheard, ReportTypeOK, mailVars

LEMMA OneDate == ASSUME NEW s \in Senders, NEW d \in Dates, NEW e \in Dates, On(s, d), On(s, e)
                 PROVE  d = e
BY DEF On, Dates

\* The leaves of ReportNextType: what an action writes has its type.
LEMMA ToNextTypes == ASSUME ReportTypeOK, NEW s \in Senders, NEW d, ToNext(s, d)
                     PROVE  /\ at' \in [Senders -> {"idle", "next", "build", "send", "write"}]
                            /\ todo' \in [Senders -> SUBSET Dates]
                            /\ existing' \in [Senders -> Rows] /\ outcome' \in [Senders -> Rows]
                            /\ tries' \in [Senders -> 0 .. MaxAttempts]
<1>1. 0 \in 0 .. MaxAttempts /\ None \in Rows
  BY RowTypes
<1> QED
  BY <1>1 DEF ToNext, ReportTypeOK

LEMMA GiveTypes == ASSUME ReportTypeOK, NEW s \in Senders, NEW row \in Rows, Give(s, row)
                   PROVE  /\ at' \in [Senders -> {"idle", "next", "build", "send", "write"}]
                          /\ outcome' \in [Senders -> Rows]
BY DEF Give, ReportTypeOK

LEMMA FailureTypes == ASSUME ReportTypeOK, NEW d, NEW row, NEW changed \in BOOLEAN, Failure(d, row, changed)
                      PROVE  failure' \in [Dates -> {"none", "written", "unwritten"}]
BY DEF Failure, ReportTypeOK

LEMMA WorkType == ASSUME ReportTypeOK, NEW s \in Senders, NEW d \in Dates, Work(s, d) \/ (On(s, d) /\ Skip(s, d))
                  PROVE  ReportTypeOK'
<1> USE DEF rowVars, clockVars, mailVars
<1>1. CASE Pass(s, d)
  BY <1>1, ToNextTypes DEF Pass, ReportTypeOK
<1>2. CASE Attempt(s, d) \/ Skip(s, d)
  BY <1>2, RowTypes DEF Attempt, Skip, TakeUp, ReportTypeOK
<1>3. CASE Build(s, d)
  <2>1. 1 \in 0 .. MaxAttempts
    BY ReportAssumption
  <2> QED
    BY <1>3, <2>1 DEF Build, ReportTypeOK
<1>4. CASE BuildFail(s, d)
  <2>1. PICK row \in Failed : Give(s, row)
    BY <1>4 DEF BuildFail
  <2> QED
    BY <1>4, <2>1, RowTypes, GiveTypes DEF BuildFail, Give, ReportTypeOK
<1>5. CASE Accept(s, d)
  BY <1>5, RowTypes, GiveTypes, DeliveryTypes DEF Accept, Give, ReportTypeOK
<1>6. CASE Retry(s, d)
  <2>1. tries' \in [Senders -> 0 .. MaxAttempts]
    BY <1>6 DEF Retry, ReportTypeOK
  <2>2. /\ mails' \in [Dates -> 0 .. 2] /\ lost' \in 0 .. MaxLost /\ blurred' \in SUBSET Dates
        /\ failure' \in [Dates -> {"none", "written", "unwritten"}]
    BY <1>6, DeliveryTypes DEF Retry
  <2> QED
    BY <1>6, <2>1, <2>2 DEF Retry, ReportTypeOK
<1>7. CASE SendFail(s, d)
  <2>1. PICK row \in Failed : Give(s, row)
    BY <1>7 DEF SendFail
  <2>2. at' \in [Senders -> {"idle", "next", "build", "send", "write"}] /\ outcome' \in [Senders -> Rows]
    BY <2>1, RowTypes, GiveTypes
  <2>3. /\ mails' \in [Dates -> 0 .. 2] /\ lost' \in 0 .. MaxLost /\ blurred' \in SUBSET Dates
        /\ failure' \in [Dates -> {"none", "written", "unwritten"}]
    BY <1>7, DeliveryTypes DEF SendFail
  <2> QED
    BY <2>1, <2>2, <2>3 DEF Give, ReportTypeOK
<1>8. CASE SendRaise(s, d)
  <2>1. /\ mails' \in [Dates -> 0 .. 2] /\ lost' \in 0 .. MaxLost /\ blurred' \in SUBSET Dates
        /\ failure' \in [Dates -> {"none", "written", "unwritten"}]
    BY <1>8, DeliveryTypes DEF SendRaise
  <2> QED
    BY <1>8, <2>1, ToNextTypes DEF SendRaise, ReportTypeOK
<1>9. CASE Insert(s, d)
  BY <1>9, ToNextTypes, FailureTypes DEF Insert, ReportTypeOK
<1>10. CASE InsertConflict(s, d)
  BY <1>10, ToNextTypes DEF InsertConflict, ReportTypeOK
<1>11. CASE Update(s, d)
  <2>1. Written(log[d], existing[s], outcome[s]) \in Rows
    BY RowTypes DEF ReportTypeOK
  <2> QED
    BY <1>11, <2>1, ToNextTypes, FailureTypes DEF Update, ReportTypeOK
<1> QED
  BY <1>1, <1>2, <1>3, <1>4, <1>5, <1>6, <1>7, <1>8, <1>9, <1>10, <1>11 DEF Work

LEMMA ReportNextType == ReportTypeOK /\ [ReportNext]_reportVars => ReportTypeOK'
<1> SUFFICES ASSUME ReportTypeOK, [ReportNext]_reportVars PROVE ReportTypeOK'
  OBVIOUS
<1> USE DEF rowVars, clockVars, sendVars, mailVars
<1>1. Due \subseteq Dates
  BY DEF Due, DueToday
<1>2. ASSUME NEW s \in Senders, StartSweep(s) \/ StartSingle(s) \/ EndSweep(s) PROVE ReportTypeOK'
  BY <1>1, <1>2 DEF StartSweep, StartSingle, EndSweep, ReportTypeOK
<1>3. ASSUME NEW s \in Senders, Crash(s) PROVE ReportTypeOK'
  <2>1. 0 \in 0 .. MaxAttempts /\ None \in Rows
    BY RowTypes
  <2>2. lost' \in 0 .. MaxLost
    BY <1>3 DEF Crash, ReportTypeOK
  <2> QED
    BY <1>3, <2>1, <2>2 DEF Crash, ReportTypeOK
<1>4. ASSUME NEW d \in Dates, HourPasses(d) PROVE ReportTypeOK'
  BY <1>4 DEF HourPasses, ReportTypeOK
<1>5. CASE HalfPastEleven
  BY <1>5 DEF HalfPastEleven, ReportTypeOK
<1>6. CASE Midnight
  <2>1. today' \in 1 .. MaxDate + 1
    BY <1>6 DEF Midnight, ReportTypeOK
  <2> QED
    BY <1>6, <2>1 DEF Midnight, ReportTypeOK
<1>7. CASE UNCHANGED reportVars
  BY <1>7 DEF reportVars, ReportTypeOK
<1> QED
  BY <1>2, <1>3, <1>4, <1>5, <1>6, <1>7, WorkType DEF ReportNext, Step

\* Type correctness, whatever the number of sessions, dates, attempts and details.
THEOREM ReportTypeCorrect == ReportSpec => []ReportTypeOK
<1>1. ReportInit => ReportTypeOK
  BY ReportInitType
<1>2. ReportTypeOK /\ [ReportNext]_reportVars => ReportTypeOK'
  BY ReportNextType
<1> QED
  BY <1>1, <1>2, PTL DEF ReportSpec

\* A session that works on a date leaves the others as they are.
LEMMA Elsewhere == ASSUME NEW s \in Senders, NEW d \in Dates, NEW e \in Dates, On(s, d), e # d, Handled(e),
                          \A t \in Senders : t # s => /\ at'[t] = at[t] /\ todo'[t] = todo[t]
                                                      /\ existing'[t] = existing[t] /\ outcome'[t] = outcome[t],
                          todo'[s] = todo[s] \/ at'[s] = "next",
                          log'[e] = log[e], mails'[e] = mails[e]
                   PROVE  Handled(e)'
<1>1. ~On(s, e)
  BY OneDate
<1>2. ~InHand(s, e) /\ ~InHand(s, e)'
  BY <1>1 DEF InHand, On
<1>3. \A t \in Senders : t # s => (InHand(t, e)' <=> InHand(t, e))
  BY DEF InHand, On
<1> QED
  BY <1>2, <1>3 DEF Handled, Alone, Loaded, Unmailed, Logged, Mailing

\* A session that is done with its date has it no longer in hand.
LEMMA LetsGo == ASSUME ReportTypeOK, NEW s \in Senders, NEW d \in Dates, ToNext(s, d)
                PROVE  /\ ~InHand(s, d)' /\ at'[s] = "next"
                       /\ \A t \in Senders : t # s => /\ at'[t] = at[t] /\ todo'[t] = todo[t]
                                                      /\ existing'[t] = existing[t] /\ outcome'[t] = outcome[t]
                                                      /\ InHand(t, d)' <=> InHand(t, d)
BY DEF ToNext, InHand, On, ReportTypeOK

\* A delivery, heard of or not, is of one date.
LEMMA Mailed == ASSUME ReportTypeOK, NEW d \in Dates
                PROVE  /\ Delivered(d) => /\ \A e \in Dates : e # d => mails'[e] = mails[e]
                                          /\ mails[d] = 0 => mails'[d] = 1
                       /\ Unheard(d) => /\ \A e \in Dates : e # d => mails'[e] = mails[e]
                                        /\ blurred \subseteq blurred'
                                        /\ d \in blurred' \/ mails'[d] = mails[d]
<1>1. Delivered(d) => /\ \A e \in Dates : e # d => mails'[e] = mails[e]
                      /\ mails[d] = 0 => mails'[d] = 1
  BY DEF Delivered, ReportTypeOK
<1> QED
  BY <1>1 DEF Unheard, mailVars

\* What remains to be shown of such a step.
LEMMA Here == ASSUME NEW s \in Senders, NEW d \in Dates, On(s, d), HandledInv,
                     \A t \in Senders : t # s => /\ at'[t] = at[t] /\ todo'[t] = todo[t]
                                                 /\ existing'[t] = existing[t] /\ outcome'[t] = outcome[t],
                     todo'[s] = todo[s] \/ at'[s] = "next",
                     \A e \in Dates : e # d => log'[e] = log[e] /\ mails'[e] = mails[e],
                     blurred \subseteq blurred',
                     d \notin blurred' => Handled(d)'
              PROVE  HandledInv'
<1>1. ASSUME NEW e \in Dates, e \notin blurred', e # d PROVE Handled(e)'
  BY <1>1, Elsewhere DEF HandledInv
<1> QED
  BY <1>1 DEF HandledInv

LEMMA WorkHandled == ASSUME ReportTypeOK, HandledInv, NEW s \in Senders, NEW d \in Dates,
                            Work(s, d) \/ (On(s, d) /\ Skip(s, d))
                     PROVE  HandledInv'
<1> USE DEF rowVars, clockVars, mailVars
<1> DEFINE Others == \A t \in Senders : t # s => /\ at'[t] = at[t] /\ todo'[t] = todo[t]
                                                 /\ existing'[t] = existing[t] /\ outcome'[t] = outcome[t]
<1>1. On(s, d)
  BY DEF Work
<1>a. d \notin blurred => Handled(d)
  BY DEF HandledInv
<1>2. CASE Pass(s, d)
  <2>1. d \notin blurred' => Handled(d)'
    BY <1>2, <1>a, LetsGo DEF Pass, Handled, Alone, Loaded, Unmailed, Logged, Mailing, InHand
  <2> QED
    BY <1>1, <1>2, <2>1, LetsGo, Here DEF Pass
<1>3. CASE Attempt(s, d) \/ Skip(s, d)
  <2>1. /\ Others /\ todo' = todo /\ log' = log /\ mails' = mails /\ existing'[s] = log[d]
        /\ blurred \subseteq blurred' /\ log[d].status # "sent"
        /\ d \notin blurred' => \A t \in Senders : ~InHand(t, d)
    BY <1>3 DEF Attempt, Skip, TakeUp, Waits, ReportTypeOK
  <2>2. \A t \in Senders : t # s => (InHand(t, d)' <=> InHand(t, d))
    BY <2>1 DEF InHand, On
  <2>3. d \notin blurred' => Handled(d)'
    BY <1>a, <2>1, <2>2 DEF Handled, Alone, Loaded, Unmailed, Logged, Mailing
  <2> HIDE DEF Others
  <2> QED
    BY <1>1, <2>1, <2>3, Here DEF Others
<1>4. CASE Build(s, d)
  <2>1. /\ Others /\ todo' = todo /\ log' = log /\ mails' = mails /\ existing' = existing
        /\ blurred' = blurred /\ at[s] = "build" /\ at'[s] = "send"
    BY <1>4 DEF Build, ReportTypeOK
  <2>2. \A t \in Senders : InHand(t, d)' <=> InHand(t, d)
    BY <2>1 DEF InHand, On
  <2>3. d \notin blurred' => Handled(d)'
    BY <1>a, <2>1, <2>2 DEF Handled, Alone, Loaded, Unmailed, Logged, Mailing
  <2> QED
    BY <1>1, <2>1, <2>3, Here
<1>5. CASE BuildFail(s, d)
  <2>1. /\ Others /\ todo' = todo /\ log' = log /\ mails' = mails /\ existing' = existing
        /\ blurred' = blurred /\ at[s] = "build" /\ at'[s] = "write"
    BY <1>5 DEF BuildFail, Give, ReportTypeOK
  <2>2. \A t \in Senders : InHand(t, d)' <=> InHand(t, d)
    BY <2>1 DEF InHand, On
  <2>3. d \notin blurred' => Handled(d)'
    BY <1>a, <2>1, <2>2 DEF Handled, Alone, Loaded, Unmailed, Logged, Mailing
  <2> QED
    BY <1>1, <2>1, <2>3, Here
<1>6. CASE Accept(s, d)
  <2>1. /\ Others /\ todo' = todo /\ log' = log /\ existing' = existing
        /\ blurred' = blurred /\ at[s] = "send" /\ at'[s] = "write" /\ outcome'[s] = Sent
    BY <1>6 DEF Accept, Give, ReportTypeOK
  <2>2. InHand(s, d) /\ \A t \in Senders : InHand(t, d)' <=> InHand(t, d)
    BY <1>1, <2>1 DEF InHand, On
  <2>3. /\ \A e \in Dates : e # d => mails'[e] = mails[e]
        /\ mails[d] = 0 => mails'[d] = 1
    BY <1>6, Mailed DEF Accept
  <2>4. d \notin blurred => mails[d] = 0
    BY <1>a, <2>1, <2>2 DEF Handled, Alone, Loaded, Unmailed, Logged, Mailing
  <2>5. d \notin blurred' => Handled(d)'
    BY <1>a, <2>1, <2>2, <2>3, <2>4 DEF Handled, Alone, Loaded, Unmailed, Logged, Mailing
  <2> QED
    BY <1>1, <2>1, <2>3, <2>5, Here
<1>7. CASE Retry(s, d) \/ SendFail(s, d)
  <2>1. /\ Others /\ todo' = todo /\ log' = log /\ existing' = existing
        /\ at[s] = "send" /\ at'[s] \in {"send", "write"} /\ Unheard(d)
    BY <1>7 DEF Retry, SendFail, Give, ReportTypeOK
  <2>2. \A t \in Senders : InHand(t, d)' <=> InHand(t, d)
    BY <2>1 DEF InHand, On
  <2>3. /\ \A e \in Dates : e # d => mails'[e] = mails[e]
        /\ blurred \subseteq blurred'
        /\ d \in blurred' \/ mails'[d] = mails[d]
    BY <2>1, Mailed
  <2>4. d \notin blurred' => Handled(d)'
    BY <1>a, <2>1, <2>2, <2>3 DEF Handled, Alone, Loaded, Unmailed, Logged, Mailing
  <2> QED
    BY <1>1, <2>1, <2>3, <2>4, Here
<1>8. CASE SendRaise(s, d)
  <2>1. log' = log /\ at[s] = "send" /\ Unheard(d) /\ ToNext(s, d)
    BY <1>8 DEF SendRaise
  <2>2. /\ \A e \in Dates : e # d => mails'[e] = mails[e]
        /\ blurred \subseteq blurred'
        /\ d \in blurred' \/ mails'[d] = mails[d]
    BY <2>1, Mailed
  <2>3. d \notin blurred' => Handled(d)'
    BY <1>a, <2>1, <2>2, LetsGo DEF Handled, Alone, Loaded, Unmailed, Logged, Mailing
  <2> QED
    BY <1>1, <2>1, <2>2, <2>3, LetsGo, Here
<1>9. CASE Insert(s, d) \/ Update(s, d)
  <2>1. /\ at[s] = "write" /\ ToNext(s, d) /\ mails' = mails /\ blurred' = blurred
        /\ \A e \in Dates : e # d => log'[e] = log[e]
        /\ existing[s] = log[d] => log'[d] = outcome[s]
    <3>1. log[d] \in Rows /\ outcome[s] \in Rows /\ log'[d] \in {outcome[s], Written(log[d], existing[s], outcome[s])}
      BY <1>9 DEF Insert, Update, ReportTypeOK
    <3>2. existing[s] = log[d] => log'[d] = outcome[s]
      BY <3>1, WriteTakesEffect
    <3> QED
      BY <1>9, <3>2 DEF Insert, Update, ReportTypeOK
  <2>2. InHand(s, d)
    BY <1>1, <2>1 DEF InHand
  <2>3. d \notin blurred => log'[d] = outcome[s]
    BY <1>a, <2>1, <2>2 DEF Handled, Loaded
  <2>4. Sent.status = "sent"
    BY DEF Sent
  <2>5. d \notin blurred' => Handled(d)'
    BY <1>a, <2>1, <2>2, <2>3, <2>4, LetsGo DEF Handled, Alone, Loaded, Unmailed, Logged, Mailing
  <2> QED
    BY <1>1, <2>1, <2>5, LetsGo, Here
<1>10. CASE InsertConflict(s, d)
  <2>1. /\ existing[s] # log[d] /\ ToNext(s, d) /\ log' = log /\ mails' = mails /\ blurred' = blurred
        /\ InHand(s, d)
    BY <1>1, <1>10 DEF InsertConflict, InHand
  <2>2. d \in blurred'
    BY <1>a, <2>1 DEF Handled, Loaded
  <2> QED
    BY <1>1, <2>1, <2>2, LetsGo, Here
<1> QED
  BY <1>2, <1>3, <1>4, <1>5, <1>6, <1>7, <1>8, <1>9, <1>10 DEF Work

LEMMA ReportInitHandled == ReportInit => HandledInv
BY DEF ReportInit, HandledInv, Handled, Alone, Loaded, Unmailed, InHand

LEMMA ReportNextHandled == ReportTypeOK /\ HandledInv /\ [ReportNext]_reportVars => HandledInv'
<1> SUFFICES ASSUME ReportTypeOK, HandledInv, [ReportNext]_reportVars PROVE HandledInv'
  OBVIOUS
<1> USE DEF rowVars, clockVars, sendVars, mailVars
<1>1. ASSUME NEW s \in Senders,
             /\ at[s] \in {"idle", "next"} /\ at'[s] \in {"idle", "next"}
             /\ \A t \in Senders : t # s => at'[t] = at[t] /\ todo'[t] = todo[t]
             /\ UNCHANGED <<log, mails, existing, outcome, blurred>>
      PROVE  HandledInv'
  <2>1. \A t \in Senders, d \in Dates : InHand(t, d)' <=> InHand(t, d)
    BY <1>1 DEF InHand, On
  <2> QED
    BY <1>1, <2>1 DEF HandledInv, Handled, Alone, Loaded, Unmailed, Logged, Mailing, InHand
<1>2. ASSUME NEW s \in Senders, StartSweep(s) \/ StartSingle(s) \/ EndSweep(s) PROVE HandledInv'
  BY <1>1, <1>2 DEF StartSweep, StartSingle, EndSweep, ReportTypeOK
<1>3. ASSUME NEW s \in Senders, Crash(s) PROVE HandledInv'
  <2>1. /\ \A t \in Senders : t # s => /\ at'[t] = at[t] /\ todo'[t] = todo[t]
                                       /\ existing'[t] = existing[t] /\ outcome'[t] = outcome[t]
        /\ at'[s] = "idle" /\ UNCHANGED <<log, mails>>
        /\ blurred' = blurred \cup {d \in Dates : InHand(s, d)}
    BY <1>3 DEF Crash, ReportTypeOK
  <2>2. ASSUME NEW d \in Dates, d \notin blurred' PROVE Handled(d)'
    <3>1. Handled(d) /\ ~InHand(s, d)
      BY <2>1, <2>2 DEF HandledInv
    <3>2. \A t \in Senders : InHand(t, d)' <=> InHand(t, d)
      BY <2>1, <3>1 DEF InHand, On
    <3> QED
      BY <2>1, <3>1, <3>2 DEF Handled, Alone, Loaded, Unmailed, Logged, Mailing
  <2> QED
    BY <2>2 DEF HandledInv
<1>4. ASSUME UNCHANGED <<log, mails, at, todo, existing, outcome, blurred>> PROVE HandledInv'
  BY <1>4 DEF HandledInv, Handled, Alone, Loaded, Unmailed, Logged, Mailing, InHand, On
<1>5. ASSUME NEW d \in Dates, HourPasses(d) PROVE HandledInv'
  BY <1>4, <1>5 DEF HourPasses
<1>6. CASE HalfPastEleven \/ Midnight \/ UNCHANGED reportVars
  BY <1>4, <1>6 DEF HalfPastEleven, Midnight, reportVars
<1> QED
  BY <1>2, <1>3, <1>5, <1>6, WorkHandled DEF ReportNext, Step

LEMMA ReportHandled == ReportSpec => [](ReportTypeOK /\ HandledInv)
<1>1. ReportInit => ReportTypeOK /\ HandledInv
  BY ReportInitType, ReportInitHandled
<1>2. ReportTypeOK /\ HandledInv /\ [ReportNext]_reportVars => ReportTypeOK' /\ HandledInv'
  BY ReportNextType, ReportNextHandled
<1> QED
  BY <1>1, <1>2, PTL DEF ReportSpec

\* No report goes out twice, but for the ways named in MailedOnceUnlessBlurred.
THEOREM MailedOnce == ReportSpec => []MailedOnceUnlessBlurred
<1>1. HandledInv => MailedOnceUnlessBlurred
  BY DEF HandledInv, Handled, Unmailed, Logged, Mailing, MailedOnceUnlessBlurred
<1> QED
  BY <1>1, ReportHandled, PTL

\* A row that says sent is written over only on a blurred date.
THEOREM SentStays == ReportSpec => SentIsFinal
<1>1. ReportTypeOK /\ HandledInv /\ [ReportNext]_reportVars
      => [\A d \in Dates : log[d].status = "sent" => log'[d].status = "sent" \/ d \in blurred]_reportVars
  <2> SUFFICES ASSUME ReportTypeOK, HandledInv, ReportNext,
                      NEW d \in Dates, log[d].status = "sent", log'[d].status # "sent"
               PROVE  d \in blurred
    BY DEF reportVars
  <2>1. PICK s \in Senders, e \in Dates : On(s, e) /\ (Insert(s, e) \/ Update(s, e))
    BY DEF ReportNext, Step, Work, StartSweep, StartSingle, EndSweep, Pass, Attempt, Skip, TakeUp, Build,
           BuildFail, Give, Accept, Retry, SendFail, SendRaise, InsertConflict, Crash, HourPasses,
           HalfPastEleven, Midnight, rowVars
  <2>2. e = d
    BY <2>1 DEF Insert, Update, ReportTypeOK
  <2>3. InHand(s, d)
    BY <2>1, <2>2 DEF Insert, Update, InHand
  <2> QED
    BY <2>3 DEF HandledInv, Handled, Loaded
<1> QED
  BY <1>1, ReportHandled, PTL DEF ReportSpec, SentIsFinal

-----------------------------------------------------------------------------
(* The hour after a failure *)

\* A failure that was written, on a date that is not blurred, is on the row with a fresh
\* updated_at, and nobody has the date in hand.
CoolsInv ==
    \A d \in Dates : d \notin blurred /\ failure[d] = "written" =>
        /\ log[d].status = "failed" /\ cooling[d]
        /\ \A s \in Senders : ~InHand(s, d)

\* A session that writes no row takes a date in hand only if it need not wait for it.
LEMMA TakesOnlyWhatIsDue ==
    ASSUME ReportTypeOK, NEW s \in Senders, NEW d \in Dates, On(s, d),
           \/ Pass(s, d) \/ Attempt(s, d) \/ Skip(s, d) \/ Build(s, d) \/ BuildFail(s, d)
           \/ Accept(s, d) \/ Retry(s, d) \/ SendFail(s, d) \/ SendRaise(s, d) \/ InsertConflict(s, d)
    PROVE  /\ UNCHANGED <<log, cooling, failure>> /\ blurred \subseteq blurred'
           /\ \A t \in Senders, e \in Dates : InHand(t, e)' => InHand(t, e) \/ ~Waits(e)
<1> USE DEF rowVars, clockVars, mailVars
<1>1. CASE Pass(s, d) \/ SendRaise(s, d) \/ InsertConflict(s, d)
  <2>1. /\ ToNext(s, d) /\ UNCHANGED <<log, cooling, failure>> /\ blurred \subseteq blurred'
    BY <1>1 DEF Pass, SendRaise, InsertConflict, Unheard
  <2> QED
    BY <2>1 DEF ToNext, InHand, On, ReportTypeOK
<1>2. CASE Attempt(s, d) \/ Skip(s, d)
  <2>1. /\ ~Waits(d) /\ UNCHANGED <<log, cooling, failure, todo>> /\ blurred \subseteq blurred'
        /\ \A t \in Senders \ {s} : at'[t] = at[t]
    BY <1>2 DEF Attempt, Skip, TakeUp, ReportTypeOK
  <2>2. \A e \in Dates : On(s, e)' => e = d
    BY <2>1, OneDate DEF On
  <2> QED
    BY <2>1, <2>2 DEF InHand, On
<1>3. CASE Build(s, d) \/ BuildFail(s, d) \/ Accept(s, d) \/ Retry(s, d) \/ SendFail(s, d)
  <2>1. /\ at[s] \in {"build", "send"} /\ UNCHANGED <<log, cooling, failure, todo>>
        /\ blurred \subseteq blurred' /\ \A t \in Senders \ {s} : at'[t] = at[t]
    BY <1>3 DEF Build, BuildFail, Accept, Retry, SendFail, Give, Unheard, ReportTypeOK
  <2> QED
    BY <2>1 DEF InHand, On
<1> QED
  BY <1>1, <1>2, <1>3

\* What is written is written whole and by the only session that had the date in hand.
LEMMA WritesAlone ==
    ASSUME ReportTypeOK, HandledInv, CoolsInv, NEW s \in Senders, NEW d \in Dates, On(s, d),
           Insert(s, d) \/ Update(s, d)
    PROVE  CoolsInv'
<1>1. /\ at[s] = "write" /\ ToNext(s, d) /\ blurred' = blurred
      /\ log'[d] \in {outcome[s], Written(log[d], existing[s], outcome[s])}
      /\ failure'[d] = "written" => failure[d] = "written" \/ (outcome[s].status = "failed" /\ cooling'[d])
      /\ \A e \in Dates \ {d} : log'[e] = log[e] /\ cooling'[e] = cooling[e] /\ failure'[e] = failure[e]
  BY DEF Insert, Update, Failure, ReportTypeOK
<1>2. InHand(s, d)
  BY <1>1 DEF InHand
<1>3. \A t \in Senders, e \in Dates : InHand(t, e)' => InHand(t, e) /\ (e = d => t # s)
  BY <1>1 DEF ToNext, InHand, On, ReportTypeOK
<1>4. ASSUME d \notin blurred, failure'[d] = "written"
      PROVE  /\ log'[d].status = "failed" /\ cooling'[d]
             /\ \A t \in Senders : ~InHand(t, d)'
  <2>1. Alone(d) /\ existing[s] = log[d]
    BY <1>2, <1>4 DEF HandledInv, Handled, Loaded
  <2>2. outcome[s].status = "failed" /\ cooling'[d]
    BY <1>1, <1>2, <1>4 DEF CoolsInv
  <2>3. log'[d] = outcome[s]
    BY <1>1, <2>1, WriteTakesEffect DEF ReportTypeOK
  <2> QED
    BY <1>2, <1>3, <2>1, <2>2, <2>3 DEF Alone
<1> QED
  BY <1>1, <1>3, <1>4 DEF CoolsInv

LEMMA NextCools ==
    ASSUME ReportTypeOK, HandledInv, CoolsInv, [ReportNext]_reportVars
    PROVE  CoolsInv'
<1> USE DEF rowVars, clockVars, sendVars, mailVars
<1>1. ASSUME UNCHANGED <<log, cooling, failure>>, blurred \subseteq blurred',
             \A t \in Senders, e \in Dates : InHand(t, e)' => InHand(t, e) \/ ~Waits(e)
      PROVE  CoolsInv'
  BY <1>1 DEF CoolsInv, Waits
<1>2. ASSUME NEW s \in Senders, NEW d \in Dates, Work(s, d) \/ (On(s, d) /\ Skip(s, d))
      PROVE  CoolsInv'
  BY <1>1, <1>2, TakesOnlyWhatIsDue, WritesAlone DEF Work
<1>3. ASSUME NEW s \in Senders, StartSweep(s) \/ StartSingle(s) \/ EndSweep(s) \/ Crash(s)
      PROVE  CoolsInv'
  <2>1. /\ UNCHANGED <<log, cooling, failure>> /\ blurred \subseteq blurred'
        /\ at'[s] \in {"idle", "next"}
        /\ \A t \in Senders \ {s} : at'[t] = at[t] /\ todo'[t] = todo[t]
    BY <1>3 DEF StartSweep, StartSingle, EndSweep, Crash, ReportTypeOK
  <2>2. \A t \in Senders, e \in Dates : InHand(t, e)' => InHand(t, e)
    BY <2>1 DEF InHand, On
  <2> QED
    BY <1>1, <2>1, <2>2
<1>4. ASSUME NEW d \in Dates, HourPasses(d) PROVE CoolsInv'
  <2>1. /\ UNCHANGED <<log, blurred, at, todo>> /\ failure'[d] = "none"
        /\ \A e \in Dates \ {d} : cooling'[e] = cooling[e] /\ failure'[e] = failure[e]
    BY <1>4 DEF HourPasses, ReportTypeOK
  <2> QED
    BY <2>1 DEF CoolsInv, InHand, On
<1>5. CASE HalfPastEleven \/ Midnight \/ UNCHANGED reportVars
  <2>1. UNCHANGED <<log, cooling, failure, blurred, at, todo>>
    BY <1>5 DEF HalfPastEleven, Midnight, reportVars
  <2> QED
    BY <1>1, <2>1 DEF InHand, On
<1> QED
  BY <1>2, <1>3, <1>4, <1>5 DEF ReportNext, Step

\* A date is taken up within the hour after a failure only if the failure repeated the one
\* before and so wrote nothing, or the date is blurred.
CoolsUnlessRepeated ==
    [][\A s \in Senders, d \in Dates : Begins(s, d) => failure[d] # "written" \/ d \in blurred]_reportVars

LEMMA BeginsWhenDue ==
    ASSUME ReportTypeOK, ReportNext, NEW s \in Senders, NEW d \in Dates, Begins(s, d)
    PROVE  ~Waits(d)
<1>1. at[s] = "next" /\ at'[s] = "build" /\ On(s, d)
  BY DEF Begins
<1>2. ASSUME NEW t \in Senders, NEW e \in Dates, On(t, e), Attempt(t, e) PROVE ~Waits(d)
  <2>1. ~Waits(e) /\ at' = [at EXCEPT ![t] = "build"]
    BY <1>2 DEF Attempt, TakeUp
  <2>2. t = s
    BY <1>1, <2>1 DEF ReportTypeOK
  <2> QED
    BY <1>1, <1>2, <2>1, <2>2, OneDate
<1>3. ASSUME NEW t \in Senders, NEW e \in Dates, On(t, e), Skip(t, e) PROVE FALSE
  BY <1>1, <1>3 DEF Skip, TakeUp, ReportTypeOK
<1>4. ASSUME NEW t \in Senders, NEW e \in Dates,
             \/ Pass(t, e) \/ SendRaise(t, e) \/ Insert(t, e) \/ InsertConflict(t, e) \/ Update(t, e)
      PROVE  FALSE
  <2>1. ToNext(t, e)
    BY <1>4 DEF Pass, SendRaise, Insert, InsertConflict, Update
  <2> QED
    BY <1>1, <2>1 DEF ToNext, ReportTypeOK
<1>5. ASSUME NEW t \in Senders, NEW e \in Dates,
             \/ Build(t, e) \/ BuildFail(t, e) \/ Accept(t, e) \/ Retry(t, e) \/ SendFail(t, e)
      PROVE  FALSE
  BY <1>1, <1>5 DEF Build, BuildFail, Accept, Retry, SendFail, Give, ReportTypeOK
<1>6. ASSUME NEW t \in Senders, StartSweep(t) \/ StartSingle(t) \/ EndSweep(t) \/ Crash(t) PROVE FALSE
  BY <1>1, <1>6 DEF StartSweep, StartSingle, EndSweep, Crash, ReportTypeOK
<1>7. ASSUME HalfPastEleven \/ Midnight \/ \E e \in Dates : HourPasses(e) PROVE FALSE
  BY <1>1, <1>7 DEF HalfPastEleven, Midnight, HourPasses, sendVars
<1> QED
  BY <1>2, <1>3, <1>4, <1>5, <1>6, <1>7 DEF ReportNext, Step, Work

\* The cooldown of service.py:40 fails in no other way.
THEOREM CoolsDown == ReportSpec => CoolsUnlessRepeated
<1>1. ReportInit => CoolsInv
  BY DEF ReportInit, CoolsInv
<1>2. ReportTypeOK /\ HandledInv /\ CoolsInv /\ [ReportNext]_reportVars => CoolsInv'
  BY NextCools
<1>3. ReportTypeOK /\ CoolsInv /\ [ReportNext]_reportVars =>
         [\A s \in Senders, d \in Dates : Begins(s, d) => failure[d] # "written" \/ d \in blurred]_reportVars
  BY BeginsWhenDue DEF CoolsInv, Waits
<1> QED
  BY <1>1, <1>2, <1>3, ReportHandled, PTL DEF ReportSpec, CoolsUnlessRepeated

\* Every failure that ended a send is on the row with a new updated_at, and no date is blurred.
FailuresAreWritten == blurred = {} /\ \A d \in Dates : failure[d] # "unwritten"

\* Where every failure is written, one session at a time handles a date and no answer of the
\* provider is lost, an hour passes after a failed send before the next, as service.py:40 says.
THEOREM WrittenFailuresCoolDown == ReportSpec /\ []FailuresAreWritten => FailureCoolsDown
<1>1. /\ ReportTypeOK /\ FailuresAreWritten
      /\ [\A s \in Senders, d \in Dates : Begins(s, d) => failure[d] # "written" \/ d \in blurred]_reportVars
      => [\A s \in Senders, d \in Dates : Begins(s, d) => failure[d] = "none"]_reportVars
  BY DEF FailuresAreWritten, ReportTypeOK
<1> QED
  BY <1>1, CoolsDown, ReportTypeCorrect, PTL DEF CoolsUnlessRepeated, FailureCoolsDown
=============================================================================

---------------------------- MODULE ServicesProofs ----------------------------
(***************************************************************************)
(* Proofs about the components that sweeps and requests run - the plan of  *)
(* a month, the alerts, the notifications and their mail, what a sync      *)
(* stores, the calls to the model - for any number of sessions and rows;   *)
(* and about their composition.                                            *)
(***************************************************************************)
EXTENDS MCServices, ReportEmailProofs, FiniteSetTheorems

\* Elements that are all equal are at most one.
LEMMA AtMostOne ==
    ASSUME NEW S, \A a, b \in S : a = b
    PROVE  Cardinality(S) <= 1
<1>1. CASE S = {}
  BY <1>1, FS_EmptySet
<1>2. CASE S # {}
  <2>1. PICK a \in S : TRUE
    BY <1>2
  <2>2. S = {a}
    BY <2>1
  <2> QED
    BY <2>2, FS_Singleton
<1> QED
  BY <1>1, <1>2

-----------------------------------------------------------------------------
(* The plan of a month *)

\* Of a period that is not unsure: one sweep at most has it in hand, and it has a batch of
\* drafts only if it is logged or that sweep is about to log it.
PeriodInv(m) ==
    /\ batches[m] <= 1
    /\ \A s, t \in HasInHand(m) : s = t
    /\ \A s \in HasInHand(m) : plan[s] = "draft" => batches[m] = 0
    /\ batches[m] # 0 => m \in logged \/ \E s \in HasInHand(m) : plan[s] = "log"

AutoInv ==
    /\ AutoPlanTypeOK
    /\ due => month < MaxMonth
    /\ \A m \in Months \ unsure : PeriodInv(m)
    /\ \A s \in Sweepers : /\ plan[s] = "log" => batches[period[s]] >= 1
                           /\ plan[s] = "tell" => period[s] \in logged
    /\ told \subseteq logged
    /\ \A m \in logged : batches[m] >= 1

LEMMA AutoInitInv == AutoPlanInit => AutoInv
<1> SUFFICES ASSUME AutoPlanInit PROVE AutoInv
  OBVIOUS
<1>1. 1 \in Months /\ 0 \in 0 .. MaxBatches
  BY AutoPlanAssumption DEF Months
<1>2. AutoPlanTypeOK
  BY <1>1 DEF AutoPlanInit, AutoPlanTypeOK
<1> QED
  BY <1>1, <1>2 DEF AutoPlanInit, AutoInv, PeriodInv, HasInHand

LEMMA AutoNextInv == AutoInv /\ [AutoPlanNext]_autoVars => AutoInv'
<1> SUFFICES ASSUME AutoInv, [AutoPlanNext]_autoVars PROVE AutoInv'
  OBVIOUS
<1>0. /\ month \in Months /\ due \in BOOLEAN /\ logged \subseteq Months /\ told \subseteq logged
      /\ batches \in [Months -> 0 .. MaxBatches] /\ unsure \subseteq Months
      /\ plan \in [Sweepers -> {"idle", "draft", "log", "tell"}] /\ period \in [Sweepers -> Months]
      /\ due => month < MaxMonth
      /\ \A m \in Months : batches[m] \in Nat
      /\ Months \subseteq Nat /\ MaxMonth \in Nat \ {0} /\ MaxBatches \in Nat
  BY AutoPlanAssumption DEF AutoInv, AutoPlanTypeOK, Months
<1>m. month \in 1 .. MaxMonth /\ MaxMonth \in Nat
  BY <1>0 DEF Months
<1>b. \A m \in Months : batches[m] \in 0 .. MaxBatches /\ batches[m] \in Nat
  BY <1>0
<1>1. CASE The15th \/ NextMonth
  <2>1. UNCHANGED <<logged, batches, told, plan, period, unsure>>
    BY <1>1 DEF The15th, NextMonth
  <2>2. month' \in Months /\ due' \in BOOLEAN /\ (due' => month' < MaxMonth)
    <3>1. CASE The15th
      BY <1>0, <3>1 DEF The15th
    <3>2. CASE NextMonth
      <4>1. month < MaxMonth /\ month' = month + 1 /\ due' = FALSE
        BY <1>0, <3>2 DEF NextMonth
      <4>2. month' \in 1 .. MaxMonth
        BY <1>m, <4>1
      <4> QED
        BY <4>1, <4>2 DEF Months
    <3> QED
      BY <1>1, <3>1, <3>2
  <2> QED
    BY <2>1, <2>2 DEF AutoInv, AutoPlanTypeOK, PeriodInv, HasInHand
<1>2. ASSUME NEW s \in Sweepers, Check(s) PROVE AutoInv'
  <2>0. PICK n \in Months : n = NextMonthRange
    BY <1>0, <1>2 DEF Check, NextMonthRange, Months
  <2>1. /\ plan[s] = "idle" /\ due /\ n \notin logged /\ n \in Months
        /\ plan' = [plan EXCEPT ![s] = "draft"] /\ period' = [period EXCEPT ![s] = n]
        /\ unsure' = IF HasInHand(n) # {} THEN unsure \cup {n} ELSE unsure
        /\ UNCHANGED <<month, due, logged, batches, told>>
    BY <1>2, <2>0 DEF Check, Exists, ToPlan
  <2>2. AutoPlanTypeOK'
    BY <1>0, <2>1 DEF AutoInv, AutoPlanTypeOK
  <2>a. /\ \A t \in Sweepers \ {s} : plan'[t] = plan[t] /\ period'[t] = period[t]
        /\ plan'[s] = "draft" /\ period'[s] = n
    BY <1>0, <2>1
  <2>3. /\ \A m \in Months \ {n} : HasInHand(m)' = HasInHand(m)
        /\ HasInHand(n)' = HasInHand(n) \cup {s}
        /\ \A t \in Sweepers \ {s} : plan'[t] = plan[t] /\ period'[t] = period[t]
        /\ plan'[s] = "draft" /\ s \notin HasInHand(n)
    BY <2>1, <2>a DEF HasInHand
  <2>4. ASSUME NEW m \in Months \ unsure' PROVE PeriodInv(m)'
    <3>1. m \notin unsure /\ PeriodInv(m)
      BY <2>1 DEF AutoInv
    <3>2. CASE m # n
      <4>1. \A t \in HasInHand(m) : plan'[t] = plan[t]
        BY <1>0, <2>1, <2>3 DEF HasInHand
      <4> QED
        BY <2>1, <2>3, <3>1, <3>2, <4>1 DEF PeriodInv
    <3>3. CASE m = n
      <4>1. HasInHand(n) = {} /\ batches[n] = 0
        BY <2>1, <2>4, <3>1, <3>3 DEF PeriodInv
      <4> QED
        <5>1. batches'[n] = 0 /\ HasInHand(n)' = {s} /\ plan'[s] = "draft"
          BY <2>1, <2>3, <4>1
        <5> QED
          BY <3>3, <5>1 DEF PeriodInv
    <3> QED
      BY <3>2, <3>3
  <2> QED
    BY <1>0, <2>1, <2>2, <2>3, <2>4 DEF AutoInv
<1>3. ASSUME NEW s \in Sweepers, ProposeRange(s) PROVE AutoInv'
  <2> DEFINE n == period[s]
  <2>1. /\ plan[s] = "draft" /\ n \in Months /\ batches[n] < MaxBatches
        /\ plan' = [plan EXCEPT ![s] = "log"] /\ batches' = [batches EXCEPT ![n] = batches[n] + 1]
        /\ UNCHANGED <<month, due, logged, told, period, unsure>>
    BY <1>0, <1>3 DEF ProposeRange, ToPlan
  <2>2. /\ batches'[n] = batches[n] + 1 /\ \A m \in Months \ {n} : batches'[m] = batches[m]
        /\ batches' \in [Months -> 0 .. MaxBatches]
    <3>1. batches[n] \in 0 .. MaxBatches /\ batches[n] < MaxBatches /\ MaxBatches \in Nat
      BY <1>0, <2>1
    <3>2. batches[n] + 1 \in 0 .. MaxBatches
      BY <3>1
    <3> QED
      BY <1>0, <2>1, <3>2
  <2>3. /\ \A m \in Months : HasInHand(m)' = HasInHand(m)
        /\ s \in HasInHand(n) /\ \A m \in Months \ {n} : s \notin HasInHand(m)
        /\ \A t \in Sweepers \ {s} : plan'[t] = plan[t]
        /\ plan'[s] = "log"
    BY <1>0, <2>1 DEF HasInHand
  <2>4. AutoPlanTypeOK'
    BY <1>0, <2>1, <2>2 DEF AutoInv, AutoPlanTypeOK
  <2>5. \A m \in Months : batches'[m] >= batches[m]
    BY <1>0, <2>2
  <2>6. ASSUME NEW m \in Months \ unsure' PROVE PeriodInv(m)'
    <3>1. PeriodInv(m)
      BY <2>1 DEF AutoInv
    <3>2. CASE m # n
      BY <2>1, <2>2, <2>3, <3>1, <3>2 DEF PeriodInv, HasInHand
    <3>3. CASE m = n
      <4>1. HasInHand(n) = {s} /\ batches[n] = 0
        BY <2>1, <2>3, <3>1, <3>3 DEF PeriodInv
      <4> QED
        BY <2>2, <2>3, <3>3, <4>1 DEF PeriodInv
    <3> QED
      BY <3>2, <3>3
  <2>7. ASSUME NEW t \in Sweepers PROVE /\ plan'[t] = "log" => batches'[period'[t]] >= 1
                                        /\ plan'[t] = "tell" => period'[t] \in logged'
    <3>1. CASE t = s
      <4>1. plan'[t] = "log" /\ period'[t] = n /\ batches'[n] >= 1
        <5>1. plan'[t] = "log" /\ period'[t] = n /\ batches'[n] = batches[n] + 1
          BY <2>1, <2>2, <2>3, <3>1
        <5> QED
          BY <1>b, <2>1, <5>1
      <4> QED
        BY <4>1
    <3>2. CASE t # s
      <4>1. plan'[t] = plan[t] /\ period'[t] = period[t] /\ period[t] \in Months
        BY <1>0, <2>1, <2>3, <3>2
      <4>2. /\ plan[t] = "log" => batches[period[t]] >= 1
            /\ plan[t] = "tell" => period[t] \in logged
        BY DEF AutoInv
      <4>3. batches'[period[t]] >= batches[period[t]] /\ batches'[period[t]] \in Nat
        BY <2>2, <2>5, <4>1
      <4>4. batches[period[t]] \in Nat /\ logged' = logged
        BY <1>b, <2>1, <4>1
      <4> QED
        BY <4>1, <4>2, <4>3, <4>4
    <3> QED
      BY <3>1, <3>2
  <2>8. \A m \in logged' : batches'[m] >= 1
    BY <1>0, <2>1, <2>2, <2>5 DEF AutoInv
  <2> QED
    BY <1>0, <2>1, <2>4, <2>6, <2>7, <2>8 DEF AutoInv
<1>4. ASSUME NEW s \in Sweepers, Log(s) PROVE AutoInv'
  <2>1. /\ plan[s] = "log" /\ plan' = [plan EXCEPT ![s] = "tell"] /\ period[s] \in Months
        /\ logged' = logged \cup {period[s]}
        /\ UNCHANGED <<month, due, batches, told, period, unsure>>
    BY <1>0, <1>4 DEF Log, ToPlan
  <2>2. AutoPlanTypeOK'
    BY <1>0, <2>1 DEF AutoInv, AutoPlanTypeOK
  <2>3. \A m \in Months : HasInHand(m)' = HasInHand(m) \ {s}
    BY <1>0, <2>1 DEF HasInHand
  <2>4. ASSUME NEW m \in Months \ unsure' PROVE PeriodInv(m)'
    <3>1. PeriodInv(m) /\ \A t \in HasInHand(m) : t = s => m = period[s]
      BY <2>1 DEF AutoInv, HasInHand
    <3>2. \A t \in HasInHand(m) \ {s} : plan'[t] = plan[t]
      BY <1>0, <2>1 DEF HasInHand
    <3> QED
      BY <2>1, <2>3, <3>1, <3>2 DEF PeriodInv
  <2> QED
    BY <1>0, <2>1, <2>2, <2>4 DEF AutoInv
<1>5. ASSUME NEW s \in Sweepers, LogConflict(s) \/ Tell(s) \/ SweepDies(s) PROVE AutoInv'
  <2>1. /\ plan' = [plan EXCEPT ![s] = "idle"] /\ plan[s] # "idle" /\ period[s] \in Months
        /\ unsure \subseteq unsure' /\ unsure' \subseteq Months
        /\ plan[s] = "log" => period[s] \in logged \/ period[s] \in unsure'
        /\ told' \subseteq logged
        /\ UNCHANGED <<month, due, batches, logged, period>>
    BY <1>0, <1>5 DEF LogConflict, Tell, SweepDies, ToPlan, AutoInv
  <2>2. AutoPlanTypeOK'
    BY <1>0, <2>1 DEF AutoInv, AutoPlanTypeOK
  <2>3. \A m \in Months : HasInHand(m)' = HasInHand(m) \ {s}
    BY <1>0, <2>1 DEF HasInHand
  <2>4. ASSUME NEW m \in Months \ unsure' PROVE PeriodInv(m)'
    <3>1. PeriodInv(m) /\ \A t \in HasInHand(m) : t = s => m = period[s]
      BY <2>1 DEF AutoInv, HasInHand
    <3>2. \A t \in HasInHand(m) \ {s} : plan'[t] = plan[t]
      BY <1>0, <2>1 DEF HasInHand
    <3> QED
      BY <2>1, <2>3, <2>4, <3>1, <3>2 DEF PeriodInv
  <2> QED
    BY <1>0, <2>1, <2>2, <2>4 DEF AutoInv
<1>6. CASE UNCHANGED autoVars
  BY <1>6 DEF autoVars, AutoInv, AutoPlanTypeOK, PeriodInv, HasInHand
<1> QED
  BY <1>1, <1>2, <1>3, <1>4, <1>5, <1>6 DEF AutoPlanNext

LEMMA AutoDrafted == AutoInv => DraftedOnce
BY DEF AutoInv, PeriodInv, DraftedOnce

-----------------------------------------------------------------------------
(* The alerts *)

OneRow(k) == \A a, b \in LiveFor(k) : a = b

\* What an evaluation that nothing crossed has read is what there is: the breaches, and of
\* every rec_key one live row or none.
Uncrossed(w) ==
    /\ eval[w] # "idle" => findings[w] = breaches
    /\ eval[w] = "commit" => \A k \in Keys : \/ live[w][k] = NoRow /\ LiveFor(k) = {}
                                             \/ live[w][k] \in LiveFor(k)

AlertInv ==
    /\ AlertTypeOK
    /\ \A k \in Keys \ twinned : OneRow(k)
    /\ \A k \in settled : LiveFor(k) # {} <=> k \in breaches
    /\ \A w \in Watchers \ crossed : Uncrossed(w)

LEMMA AlertInitInv == AlertInit => AlertInv
<1> SUFFICES ASSUME AlertInit PROVE AlertInv
  OBVIOUS
<1>1. (CHOOSE k \in Keys : TRUE) \in Keys
  <2>1. Keys # {}
    <3>1. PICK c \in Campaigns : TRUE
      BY AlertAssumption
    <3>2. PICK x \in Checks : TRUE
      BY AlertAssumption
    <3>3. <<c, x>> \in Keys
      BY DEF Keys
    <3> QED
      BY <3>3
  <2> QED
    BY <2>1
<1>2. AlertTypeOK
  BY <1>1 DEF AlertInit, AlertTypeOK
<1>3. \A k \in Keys : LiveFor(k) = {}
  BY DEF AlertInit, LiveFor, LiveStatuses
<1> QED
  BY <1>2, <1>3 DEF AlertInit, AlertInv, OneRow, Uncrossed

\* Others that commit cross the evaluations under way: those that nothing has crossed have not
\* begun.
LEMMA CrossKeeps ==
    ASSUME AlertInv, Cross, UNCHANGED evalVars, AlertTypeOK',
           \A k \in Keys \ twinned' : OneRow(k)',
           \A k \in settled' : (LiveFor(k) # {})' <=> k \in breaches'
    PROVE  AlertInv'
<1>1. \A w \in Watchers \ crossed' : eval'[w] = "idle"
  BY DEF Cross, evalVars
<1> QED
  BY <1>1 DEF AlertInv, Uncrossed

LEMMA CampaignKeeps ==
    ASSUME AlertInv, NEW c \in Campaigns, UpdateCampaign(c) \/ DeleteCampaign(c)
    PROVE  AlertInv'
<1>0. /\ campaigns \subseteq Campaigns /\ breaches \subseteq Keys /\ about \in [Alerts -> Keys]
      /\ status \in [Alerts -> LiveStatuses \cup {"none", "resolved", "deleted"}]
      /\ settled \subseteq Keys /\ \A k \in Keys : k[1] \in Campaigns /\ k[2] \in Checks
  BY DEF AlertInv, AlertTypeOK, Keys
<1>1. Cross /\ UNCHANGED <<about, evalVars, twinned>> /\ settled' = settled \ ({c} \X Checks)
  BY DEF UpdateCampaign, DeleteCampaign
<1>2. /\ campaigns' \subseteq Campaigns /\ breaches' \subseteq Keys
      /\ \A k \in Keys : k[1] # c => (k \in breaches' <=> k \in breaches)
  <2>1. CASE UpdateCampaign(c)
    <3>1. PICK bad \in SUBSET Checks : breaches' = {k \in breaches : k[1] # c} \cup ({c} \X bad)
      BY <2>1 DEF UpdateCampaign
    <3>2. campaigns' = campaigns
      BY <2>1 DEF UpdateCampaign
    <3>3. {c} \X bad \subseteq Keys /\ \A k \in {c} \X bad : k[1] = c
      BY DEF Keys
    <3> QED
      BY <1>0, <3>1, <3>2, <3>3
  <2>2. CASE DeleteCampaign(c)
    BY <1>0, <2>2 DEF DeleteCampaign
  <2> QED
    BY <2>1, <2>2
<1>3. /\ status' \in [Alerts -> LiveStatuses \cup {"none", "resolved", "deleted"}]
      /\ \A a \in Alerts : status'[a] \in {status[a], "deleted"}
      /\ \A a \in Alerts : about[a][1] # c => status'[a] = status[a]
  <2>1. CASE UpdateCampaign(c)
    BY <1>0, <2>1 DEF UpdateCampaign
  <2>2. CASE DeleteCampaign(c)
    BY <1>0, <2>2 DEF DeleteCampaign
  <2> QED
    BY <2>1, <2>2
<1>4. /\ \A k \in Keys : LiveFor(k)' \subseteq LiveFor(k)
      /\ \A k \in Keys : k[1] # c => LiveFor(k)' = LiveFor(k)
  BY <1>1, <1>3 DEF LiveFor, LiveStatuses
<1>5. \A k \in settled' : k[1] # c /\ k \in settled
  BY <1>0, <1>1 DEF Keys
<1>6. AlertTypeOK'
  BY <1>0, <1>1, <1>2, <1>3 DEF AlertInv, AlertTypeOK, Cross, evalVars
<1>7. \A k \in Keys \ twinned' : OneRow(k)'
  BY <1>1, <1>4 DEF AlertInv, OneRow
<1>8. \A k \in settled' : (LiveFor(k) # {})' <=> k \in breaches'
  BY <1>0, <1>2, <1>4, <1>5 DEF AlertInv
<1> QED
  BY <1>1, <1>6, <1>7, <1>8, CrossKeeps

LEMMA MarkKeeps ==
    ASSUME AlertInv, NEW a \in Alerts, Acknowledge(a) \/ ResolveAlert(a)
    PROVE  AlertInv'
<1>0. /\ about \in [Alerts -> Keys] /\ settled \subseteq Keys /\ twinned \subseteq Keys
      /\ status \in [Alerts -> LiveStatuses \cup {"none", "resolved", "deleted"}]
  BY DEF AlertInv, AlertTypeOK
<1>1. PICK s \in {"acknowledged", "resolved"} : Mark(a, s)
  BY DEF Acknowledge, ResolveAlert
<1>k. PICK j \in Keys : j = about[a]
  BY <1>0
<1>2. /\ status' = [status EXCEPT ![a] = s] /\ settled' = settled \ {j} /\ Cross
      /\ UNCHANGED <<campaigns, breaches, about, evalVars>>
  BY <1>1, <1>k DEF Mark
<1>3. /\ status' \in [Alerts -> LiveStatuses \cup {"none", "resolved", "deleted"}]
      /\ status'[a] = s /\ \A b \in Alerts \ {a} : status'[b] = status[b]
  BY <1>0, <1>2 DEF LiveStatuses
<1>4. \A k \in Keys : k # j => LiveFor(k)' = LiveFor(k)
  BY <1>0, <1>2, <1>3, <1>k DEF LiveFor
<1>5. twinned \subseteq twinned' /\ twinned' \subseteq Keys
  BY <1>0 DEF Acknowledge, ResolveAlert
<1>6. ASSUME j \notin twinned' PROVE OneRow(j)'
  <2>1. OneRow(j)
    BY <1>5, <1>6 DEF AlertInv
  <2>2. CASE status'[a] \notin LiveStatuses \/ status[a] \in LiveStatuses
    <3>1. LiveFor(j)' \subseteq LiveFor(j)
      BY <1>2, <1>3, <2>2 DEF LiveFor
    <3> QED
      BY <1>2, <2>1, <3>1 DEF OneRow
  <2>3. CASE status'[a] \in LiveStatuses /\ status[a] \notin LiveStatuses
    <3>1. Acknowledge(a) /\ status[a] = "resolved"
      BY <1>3, <2>3 DEF Acknowledge, ResolveAlert, Mark, LiveStatuses
    <3>2. LiveFor(j) = {}
      BY <1>0, <1>6, <1>k, <3>1 DEF Acknowledge
    <3>3. LiveFor(j)' \subseteq {a}
      BY <1>2, <1>3, <3>2 DEF LiveFor
    <3> QED
      BY <1>2, <3>3 DEF OneRow
  <2> QED
    BY <2>2, <2>3
<1>7. \A k \in Keys \ twinned' : OneRow(k)'
  BY <1>4, <1>5, <1>6 DEF AlertInv, OneRow
<1>8. \A k \in settled' : (LiveFor(k) # {})' <=> k \in breaches'
  BY <1>0, <1>2, <1>4 DEF AlertInv
<1>9. AlertTypeOK'
  BY <1>0, <1>2, <1>3, <1>5 DEF AlertInv, AlertTypeOK, Cross, evalVars
<1> QED
  BY <1>2, <1>7, <1>8, <1>9, CrossKeeps

\* The steps of an evaluation before its commit.
LEMMA ReadsKeep ==
    ASSUME AlertInv, NEW w \in Watchers,
           ReadCampaigns(w) \/ ReadLive(w) \/ EvaluateFails(w) \/ WatcherDies(w)
    PROVE  AlertInv'
<1>0. /\ breaches \subseteq Keys /\ eval \in [Watchers -> {"idle", "rows", "commit"}]
      /\ findings \in [Watchers -> SUBSET Keys] /\ crossed \subseteq Watchers
      /\ live \in [Watchers -> [Keys -> Alerts \cup {NoRow}]]
      /\ \A v \in Watchers \ crossed : Uncrossed(v)
  BY DEF AlertInv, AlertTypeOK
<1>1. UNCHANGED <<campaigns, breaches, about, status, twinned, settled>>
  BY DEF ReadCampaigns, ReadLive, EvaluateFails, WatcherDies, alertRows
<1>2. \A k \in Keys : LiveFor(k)' = LiveFor(k)
  BY <1>1 DEF LiveFor
<1>3. /\ eval' \in [Watchers -> {"idle", "rows", "commit"}] /\ findings' \in [Watchers -> SUBSET Keys]
      /\ live' \in [Watchers -> [Keys -> Alerts \cup {NoRow}]] /\ crossed' \subseteq Watchers
      /\ \A v \in Watchers \ {w} : /\ eval'[v] = eval[v] /\ findings'[v] = findings[v]
                                   /\ live'[v] = live[v] /\ (v \in crossed' <=> v \in crossed)
      /\ w \notin crossed' => Uncrossed(w)'
  <2>1. CASE ReadCampaigns(w)
    <3>1. /\ eval' = [eval EXCEPT ![w] = "rows"] /\ findings' = [findings EXCEPT ![w] = breaches]
          /\ crossed' = crossed \ {w} /\ live' = live
      BY <2>1 DEF ReadCampaigns
    <3>2. eval'[w] = "rows" /\ findings'[w] = breaches
      BY <1>0, <3>1
    <3> QED
      BY <1>0, <1>1, <3>1, <3>2 DEF Uncrossed
  <2>2. CASE ReadLive(w)
    <3>1. PICK g \in [Keys -> Alerts \cup {NoRow}] :
            /\ \A k \in Keys : IF LiveFor(k) = {} THEN g[k] = NoRow ELSE g[k] \in LiveFor(k)
            /\ live' = [live EXCEPT ![w] = g]
      BY <2>2 DEF ReadLive
    <3>2. /\ eval[w] = "rows" /\ eval' = [eval EXCEPT ![w] = "commit"]
          /\ UNCHANGED <<findings, crossed>>
      BY <2>2 DEF ReadLive
    <3>3. eval'[w] = "commit" /\ live'[w] = g
      BY <1>0, <3>1, <3>2
    <3>4. w \notin crossed' => findings'[w] = breaches'
      BY <1>0, <1>1, <3>2 DEF Uncrossed
    <3>5. w \notin crossed' => Uncrossed(w)'
      BY <1>2, <3>1, <3>3, <3>4 DEF Uncrossed
    <3> QED
      BY <1>0, <3>1, <3>2, <3>5
  <2>3. CASE EvaluateFails(w) \/ WatcherDies(w)
    <3>1. LeaveOff(w) /\ crossed' = crossed
      BY <2>3 DEF EvaluateFails, WatcherDies
    <3>2. /\ eval' = [eval EXCEPT ![w] = "idle"] /\ findings' = [findings EXCEPT ![w] = {}]
          /\ live' = [live EXCEPT ![w] = [k \in Keys |-> NoRow]]
      BY <3>1 DEF LeaveOff
    <3>3. eval'[w] = "idle"
      BY <1>0, <3>2
    <3> QED
      BY <1>0, <3>1, <3>2, <3>3 DEF Uncrossed
  <2> QED
    BY <2>1, <2>2, <2>3
<1>4. \A v \in Watchers \ crossed' : Uncrossed(v)'
  <2> SUFFICES ASSUME NEW v \in Watchers \ crossed', v # w PROVE Uncrossed(v)'
    BY <1>3
  <2>1. Uncrossed(v)
    BY <1>0, <1>3
  <2> QED
    BY <1>1, <1>2, <1>3, <2>1 DEF Uncrossed
<1>5. AlertTypeOK'
  BY <1>1, <1>3 DEF AlertInv, AlertTypeOK
<1> QED
  BY <1>1, <1>2, <1>4, <1>5 DEF AlertInv, AlertTypeOK, OneRow

\* The commit of an evaluation: rows never used yet for what it has found without a live row,
\* resolved ones for what is found no longer.
LEMMA Evaluates ==
    ASSUME AlertInv, NEW w \in Watchers, Evaluate(w)
    PROVE  /\ eval[w] = "commit" /\ UNCHANGED <<campaigns, breaches>> /\ AlertTypeOK'
           /\ twinned' = IF w \in crossed THEN twinned \cup Opens(w) ELSE twinned
           /\ settled' = IF w \in crossed THEN {} ELSE Keys \ twinned
           /\ \A v \in Watchers \ crossed' : eval'[v] = "idle"
           /\ Opens(w) \subseteq Keys
           /\ \E row \in [Opens(w) -> Alerts] :
                 /\ \A k \in Opens(w) : status[row[k]] = "none" /\ about'[row[k]] = k
                                        /\ status'[row[k]] = "open"
                 /\ \A a \in Alerts : (\A k \in Opens(w) : row[k] # a) =>
                       /\ about'[a] = about[a]
                       /\ status'[a] = IF a \in Resolves(w) THEN "resolved" ELSE status[a]
<1>0. /\ about \in [Alerts -> Keys] /\ status \in [Alerts -> LiveStatuses \cup {"none", "resolved", "deleted"}]
      /\ eval \in [Watchers -> {"idle", "rows", "commit"}] /\ findings \in [Watchers -> SUBSET Keys]
      /\ live \in [Watchers -> [Keys -> Alerts \cup {NoRow}]]
      /\ twinned \subseteq Keys /\ settled \subseteq Keys
      /\ campaigns \subseteq Campaigns /\ breaches \subseteq Keys
  BY DEF AlertInv, AlertTypeOK
<1>1. /\ eval[w] = "commit" /\ UNCHANGED <<campaigns, breaches>> /\ LeaveOff(w)
      /\ twinned' = (IF w \in crossed THEN twinned \cup Opens(w) ELSE twinned)
      /\ settled' = (IF w \in crossed THEN {} ELSE Keys \ twinned)
      /\ crossed' = {v \in Watchers \ {w} : eval[v] # "idle"}
  BY DEF Evaluate
<1>2. Opens(w) \subseteq Keys
  BY <1>0 DEF Opens
<1>3. PICK row \in [Opens(w) -> NextAlerts(Cardinality(Opens(w)))] :
        /\ \A k, j \in Opens(w) : row[k] = row[j] => k = j
        /\ about' = [a \in Alerts |-> IF \E k \in Opens(w) : row[k] = a
                                      THEN CHOOSE k \in Opens(w) : row[k] = a ELSE about[a]]
        /\ status' = [a \in Alerts |->
              IF \E k \in Opens(w) : row[k] = a THEN "open"
              ELSE IF a \in Resolves(w) THEN "resolved" ELSE status[a]]
  BY DEF Evaluate
<1>4. row \in [Opens(w) -> Alerts] /\ \A k \in Opens(w) : status[row[k]] = "none"
  BY <1>3 DEF NextAlerts, Unused
<1>5. ASSUME NEW k \in Opens(w) PROVE about'[row[k]] = k /\ status'[row[k]] = "open"
  <2>1. (CHOOSE j \in Opens(w) : row[j] = row[k]) = k
    BY <1>3
  <2>2. PICK a \in Alerts : a = row[k]
    BY <1>4
  <2>3. (\E j \in Opens(w) : row[j] = a) /\ (CHOOSE j \in Opens(w) : row[j] = a) = k
    BY <2>1, <2>2
  <2>4. about'[a] = k
    BY <1>3, <2>3
  <2>5. status'[a] = "open"
    BY <1>3, <2>3
  <2> QED
    BY <2>2, <2>4, <2>5
<1>6. ASSUME NEW a \in Alerts, \A k \in Opens(w) : row[k] # a
      PROVE  /\ about'[a] = about[a]
             /\ status'[a] = IF a \in Resolves(w) THEN "resolved" ELSE status[a]
  BY <1>3, <1>6
<1>7. about' \in [Alerts -> Keys] /\ status' \in [Alerts -> LiveStatuses \cup {"none", "resolved", "deleted"}]
  <2>1. ASSUME NEW a \in Alerts
        PROVE  about'[a] \in Keys /\ status'[a] \in LiveStatuses \cup {"none", "resolved", "deleted"}
    <3>1. CASE \E k \in Opens(w) : row[k] = a
      BY <1>2, <1>5, <3>1 DEF LiveStatuses
    <3>2. CASE \A k \in Opens(w) : row[k] # a
      BY <1>0, <1>6, <3>2
    <3> QED
      BY <3>1, <3>2
  <2>2. about' = [a \in Alerts |-> about'[a]] /\ status' = [a \in Alerts |-> status'[a]]
    BY <1>3
  <2> QED
    BY <2>1, <2>2
<1>8. /\ eval' = [eval EXCEPT ![w] = "idle"] /\ findings' = [findings EXCEPT ![w] = {}]
      /\ live' = [live EXCEPT ![w] = [k \in Keys |-> NoRow]]
  BY <1>1 DEF LeaveOff
<1>9. AlertTypeOK'
  <2>1. [k \in Keys |-> NoRow] \in [Keys -> Alerts \cup {NoRow}]
    OBVIOUS
  <2>2. live' \in [Watchers -> [Keys -> Alerts \cup {NoRow}]]
    BY <1>0, <1>8, <2>1
  <2> QED
    BY <1>0, <1>1, <1>2, <1>7, <1>8, <2>2 DEF AlertTypeOK
<1>10. \A v \in Watchers \ crossed' : eval'[v] = "idle"
  BY <1>0, <1>1, <1>8
<1> QED
  BY <1>1, <1>2, <1>4, <1>5, <1>6, <1>9, <1>10

LEMMA EvaluateKeeps ==
    ASSUME AlertInv, NEW w \in Watchers, Evaluate(w)
    PROVE  AlertInv'
<1>0. /\ about \in [Alerts -> Keys] /\ twinned \subseteq Keys
      /\ live \in [Watchers -> [Keys -> Alerts \cup {NoRow}]]
      /\ breaches \subseteq Keys /\ findings \in [Watchers -> SUBSET Keys]
      /\ \A k \in Keys \ twinned : OneRow(k)
      /\ \A k \in Keys : LiveFor(k) \subseteq Alerts
      /\ NoRow \notin Alerts
  BY DEF AlertInv, AlertTypeOK, LiveFor, NoRow, Alerts
<1>1. /\ eval[w] = "commit" /\ UNCHANGED <<campaigns, breaches>> /\ AlertTypeOK'
      /\ twinned' = (IF w \in crossed THEN twinned \cup Opens(w) ELSE twinned)
      /\ settled' = (IF w \in crossed THEN {} ELSE Keys \ twinned)
      /\ \A v \in Watchers \ crossed' : eval'[v] = "idle"
      /\ Opens(w) \subseteq Keys
  BY Evaluates
<1>2. PICK row \in [Opens(w) -> Alerts] :
        /\ \A k \in Opens(w) : status[row[k]] = "none" /\ about'[row[k]] = k /\ status'[row[k]] = "open"
        /\ \A a \in Alerts : (\A k \in Opens(w) : row[k] # a) =>
              /\ about'[a] = about[a]
              /\ status'[a] = IF a \in Resolves(w) THEN "resolved" ELSE status[a]
  BY Evaluates
\* The rows that are live afterwards.
<1>3. ASSUME NEW k \in Keys
      PROVE  /\ k \notin Opens(w) => LiveFor(k)' = LiveFor(k) \ Resolves(w)
             /\ k \in Opens(w) => LiveFor(k)' = (LiveFor(k) \ Resolves(w)) \cup {row[k]}
  <2>1. ASSUME NEW a \in Alerts, \A j \in Opens(w) : row[j] # a
        PROVE  a \in LiveFor(k)' <=> a \in LiveFor(k) \ Resolves(w)
    BY <1>2, <2>1 DEF LiveFor, LiveStatuses
  <2>2. ASSUME NEW j \in Opens(w)
        PROVE  /\ row[j] \in LiveFor(k)' <=> j = k
               /\ row[j] \notin LiveFor(k)
    BY <1>2 DEF LiveFor, LiveStatuses
  <2>3. LiveFor(k)' \subseteq Alerts
    BY DEF LiveFor, Alerts
  <2>4. ASSUME k \notin Opens(w) PROVE LiveFor(k)' = LiveFor(k) \ Resolves(w)
    <3>1. \A a \in Alerts : a \in LiveFor(k)' <=> a \in LiveFor(k) \ Resolves(w)
      BY <2>1, <2>2, <2>4
    <3> QED
      BY <1>0, <2>3, <3>1
  <2>5. ASSUME k \in Opens(w) PROVE LiveFor(k)' = (LiveFor(k) \ Resolves(w)) \cup {row[k]}
    <3>1. \A a \in Alerts : a \in LiveFor(k)' <=> a \in (LiveFor(k) \ Resolves(w)) \cup {row[k]}
      BY <2>1, <2>2, <2>5
    <3> QED
      BY <1>0, <1>2, <2>3, <2>5, <3>1
  <2> QED
    BY <2>4, <2>5
\* What an evaluation that nothing crossed has read.
<1>4. ASSUME w \notin crossed
      PROVE  /\ findings[w] = breaches
             /\ \A k \in Keys : \/ live[w][k] = NoRow /\ LiveFor(k) = {}
                                \/ live[w][k] \in LiveFor(k)
  BY <1>1, <1>4 DEF AlertInv, Uncrossed
<1>5. ASSUME NEW k \in Keys \ twinned' PROVE OneRow(k)'
  <2>1. k \notin twinned /\ OneRow(k)
    BY <1>0, <1>1
  <2>2. CASE k \notin Opens(w)
    BY <1>3, <2>1, <2>2 DEF OneRow
  <2>3. CASE k \in Opens(w)
    <3>1. w \notin crossed
      BY <1>1, <2>3
    <3>2. LiveFor(k) = {}
      BY <1>0, <1>4, <2>3, <3>1 DEF Opens
    <3> QED
      BY <1>3, <2>3, <3>2 DEF OneRow
  <2> QED
    BY <2>2, <2>3
<1>6. ASSUME NEW k \in settled' PROVE (LiveFor(k) # {})' <=> k \in breaches'
  <2>1. w \notin crossed /\ k \in Keys \ twinned /\ OneRow(k)
    BY <1>0, <1>1
  <2>2. CASE k \in breaches /\ live[w][k] = NoRow
    <3>1. k \in Opens(w)
      BY <1>4, <2>1, <2>2 DEF Opens
    <3> QED
      BY <1>1, <1>3, <2>1, <2>2, <3>1
  <2>3. CASE k \in breaches /\ live[w][k] # NoRow
    <3>1. live[w][k] \in LiveFor(k)
      BY <1>4, <2>1, <2>3
    <3>2. live[w][k] \notin Resolves(w)
      <4> SUFFICES ASSUME NEW j \in Keys, live[w][j] # NoRow, j \notin findings[w], live[w][j] = live[w][k]
                   PROVE  FALSE
        BY DEF Resolves
      <4>1. live[w][j] \in LiveFor(j)
        BY <1>4, <2>1
      <4>2. j = k
        BY <3>1, <4>1 DEF LiveFor
      <4> QED
        BY <1>4, <2>1, <2>3, <4>2
    <3>3. k \notin Opens(w)
      BY <2>3 DEF Opens
    <3> QED
      BY <1>1, <1>3, <2>1, <2>3, <3>1, <3>2, <3>3
  <2>4. CASE k \notin breaches
    <3>1. k \notin Opens(w) /\ k \notin findings[w]
      BY <1>4, <2>1, <2>4 DEF Opens
    <3>2. ASSUME NEW a \in LiveFor(k) PROVE a \in Resolves(w)
      <4>1. live[w][k] \in LiveFor(k)
        BY <1>4, <2>1
      <4>2. a = live[w][k] /\ live[w][k] # NoRow
        BY <1>0, <2>1, <4>1 DEF OneRow
      <4> QED
        BY <2>1, <3>1, <4>2 DEF Resolves
    <3> QED
      BY <1>1, <1>3, <2>1, <2>4, <3>1, <3>2
  <2> QED
    BY <2>2, <2>3, <2>4
<1>7. \A v \in Watchers \ crossed' : Uncrossed(v)'
  BY <1>1 DEF Uncrossed
<1> QED
  BY <1>1, <1>5, <1>6, <1>7 DEF AlertInv

LEMMA AlertNextInv == AlertInv /\ [AlertNext]_alertVars => AlertInv'
<1> SUFFICES ASSUME AlertInv, [AlertNext]_alertVars PROVE AlertInv'
  OBVIOUS
<1>1. CASE UNCHANGED alertVars
  BY <1>1 DEF alertVars, alertRows, evalVars, AlertInv, AlertTypeOK, OneRow, Uncrossed, LiveFor
<1> QED
  BY <1>1, CampaignKeeps, MarkKeeps, ReadsKeep, EvaluateKeeps DEF AlertNext

LEMMA AlertsFollow == AlertInv => AlertsFollowBreaches
<1> SUFFICES ASSUME AlertInv PROVE AlertsFollowBreaches
  OBVIOUS
<1>1. ASSUME NEW k \in Keys \ twinned PROVE Cardinality(LiveFor(k)) <= 1
  BY AtMostOne DEF AlertInv, OneRow
<1>2. \A k \in settled : (LiveFor(k) # {}) = (k \in breaches)
  BY DEF AlertInv
<1> QED
  BY <1>1, <1>2 DEF AlertsFollowBreaches

-----------------------------------------------------------------------------
(* The notifications *)

\* Of two notifications of a signal under way one has crossed the other; one alone that found
\* no unread row of a user is right that there is none.
UnreadInv ==
    /\ \A s, q \in Notifiers :
          signal[s] = "commit" /\ signal[q] = "commit" /\ s # q /\ signalOf[s] = signalOf[q]
          => signalOf[s] \in doubled
    /\ \A s \in Notifiers, u \in Users :
          signal[s] = "commit" /\ signalOf[s] \notin doubled /\ unread[s][u] = NoNote
          => FindUnread(u, signalOf[s]) = {}
    /\ \A u \in Users, c \in Clients \ doubled : \A i, j \in FindUnread(u, c) : i = j

\* A row that was mailed is marked, in the hands of the sweep that mailed it, or lost track of;
\* no two sweeps hold a row, unless it is lost track of.
MailInv ==
    /\ again \subseteq astray /\ mailed \subseteq NotesThere
    /\ \A i \in mailed : notes[i].emailed \/ i \in astray \/ \E d \in Digesters : i \in posted[d]
    /\ \A d \in Digesters :
          /\ backlog[d] \subseteq NotesThere /\ posted[d] \subseteq NotesThere
          /\ sweep[d] # "save" => posted[d] = {}
          /\ sweep[d] = "idle" => backlog[d] = {}
          /\ backlog[d] \cap mailed \subseteq astray
          /\ \A e \in Digesters \ {d} : backlog[d] \cap (backlog[e] \cup posted[e]) \subseteq astray

NoteInv == NoteTypeOK /\ UnreadInv /\ MailInv

\* The order in which the rows of a signal are created has each user once.
LEMMA OrdersOnce ==
    ASSUME NEW us \in SUBSET Users, NEW order \in Orders(us)
    PROVE  /\ Cardinality(us) \in Nat /\ order \in Seq(us) /\ Len(order) = Cardinality(us)
           /\ \A i, j \in 1 .. Len(order) : order[i] = order[j] => i = j
<1>1. IsFiniteSet(us) /\ Cardinality(us) \in Nat
  BY DigestAssumption, FS_Subset, FS_CardinalityType
<1>2. order \in [1 .. Cardinality(us) -> us] /\ \A u \in us : \E i \in DOMAIN order : order[i] = u
  BY DEF Orders
<1>3. order \in Surjection(1 .. Cardinality(us), us)
  BY <1>2 DEF Surjection
<1>4. IsFiniteSet(1 .. Cardinality(us)) /\ Cardinality(1 .. Cardinality(us)) = Cardinality(us)
  BY <1>1, FS_Interval
<1>5. order \in Injection(1 .. Cardinality(us), us)
  BY <1>3, <1>4, FS_Surjection
<1>6. order \in Seq(us) /\ Len(order) = Cardinality(us)
  BY <1>1, <1>2
<1> QED
  BY <1>1, <1>5, <1>6 DEF Injection, IsInjective

LEMMA NoteTypes ==
    ASSUME NoteInv
    PROVE  /\ notes \in Seq(Notes) /\ Len(notes) \in 0 .. MaxNotes /\ MaxNotes \in Nat
           /\ NotesThere \subseteq Ids /\ \A i \in NotesThere : notes[i] \in Notes
           /\ wants \in [Users -> SUBSET Clients]
           /\ signal \in [Notifiers -> {"idle", "commit"}]
           /\ signalOf \in [Notifiers -> Clients] /\ urgent \in [Notifiers -> BOOLEAN]
           /\ unread \in [Notifiers -> [Users -> Ids \cup {NoNote}]]
           /\ sweep \in [Digesters -> {"idle", "work", "save"}]
           /\ backlog \in [Digesters -> SUBSET Ids] /\ posted \in [Digesters -> SUBSET Ids]
           /\ knows \in [Digesters -> [Users -> SUBSET Clients]] /\ reread \in [Digesters -> BOOLEAN]
           /\ mailed \subseteq Ids /\ again \subseteq mailed /\ astray \subseteq Ids /\ doubled \subseteq Clients
<1>1. NoteTypeOK
  BY DEF NoteInv
<1>2. notes \in Seq(Notes) /\ Len(notes) <= MaxNotes /\ MaxNotes \in Nat
  BY <1>1, DigestAssumption DEF NoteTypeOK
<1>3. Len(notes) \in 0 .. MaxNotes /\ NotesThere \subseteq Ids /\ \A i \in NotesThere : notes[i] \in Notes
  BY <1>2 DEF NotesThere, Ids
<1> QED
  BY <1>1, <1>2, <1>3 DEF NoteTypeOK

LEMMA NoteInitInv == NoteInit => NoteInv
<1> SUFFICES ASSUME NoteInit PROVE NoteInv
  OBVIOUS
<1>1. (CHOOSE c \in Clients : TRUE) \in Clients
  BY DigestAssumption
<1>2. notes = <<>> /\ notes \in Seq(Notes) /\ Len(notes) = 0 /\ Len(notes) <= MaxNotes
  BY DigestAssumption DEF NoteInit
<1>3. NotesThere = {}
  BY <1>2 DEF NotesThere
<1>4. NoteTypeOK
  BY <1>1, <1>2 DEF NoteInit, NoteTypeOK
<1>5. UnreadInv
  BY <1>3 DEF NoteInit, UnreadInv, FindUnread
<1>6. MailInv
  BY <1>3 DEF NoteInit, MailInv
<1> QED
  BY <1>4, <1>5, <1>6 DEF NoteInv

\* What people do keeps what the mail rests on, and the mail what the notifications rest on.
LEMMA MailStays ==
    ASSUME MailInv, UNCHANGED <<sweepVars, digestVars>>, NotesThere \subseteq NotesThere',
           \A i \in NotesThere : notes'[i].emailed = notes[i].emailed
    PROVE  MailInv'
BY DEF MailInv, sweepVars, digestVars

LEMMA UnreadStays ==
    ASSUME UnreadInv, UNCHANGED <<notifyVars, doubled>>,
           \A u \in Users, c \in Clients : FindUnread(u, c)' \subseteq FindUnread(u, c),
           signalOf \in [Notifiers -> Clients]
    PROVE  UnreadInv'
BY DEF UnreadInv, notifyVars

LEMMA NotifyKeeps ==
    ASSUME NoteInv, NEW s \in Notifiers, Notify(s)
    PROVE  NoteInv'
<1>0. /\ signal \in [Notifiers -> {"idle", "commit"}] /\ signalOf \in [Notifiers -> Clients]
      /\ urgent \in [Notifiers -> BOOLEAN] /\ unread \in [Notifiers -> [Users -> Ids \cup {NoNote}]]
      /\ NotesThere \subseteq Ids /\ NoNote \notin NotesThere /\ doubled \subseteq Clients
  BY NoteTypes DEF NotesThere, NoNote
<1>1. PICK c \in Clients, hot \in BOOLEAN :
        /\ signalOf' = [signalOf EXCEPT ![s] = c] /\ urgent' = [urgent EXCEPT ![s] = hot]
        /\ unread' \in {[unread EXCEPT ![s] = f] : f \in {g \in [Users -> Ids \cup {NoNote}] :
              \A u \in Users : IF FindUnread(u, c) = {} THEN g[u] = NoNote
                               ELSE g[u] \in FindUnread(u, c)}}
        /\ doubled' = IF \E q \in Notifiers \ {s} : signal[q] = "commit" /\ signalOf[q] = c
                      THEN doubled \cup {c} ELSE doubled
  BY DEF Notify
<1>2. PICK f \in [Users -> Ids \cup {NoNote}] :
        /\ \A u \in Users : IF FindUnread(u, c) = {} THEN f[u] = NoNote ELSE f[u] \in FindUnread(u, c)
        /\ unread' = [unread EXCEPT ![s] = f]
  BY <1>1
<1>3. /\ signal' = [signal EXCEPT ![s] = "commit"] /\ signal[s] = "idle"
      /\ UNCHANGED <<notes, wants, sweepVars, digestVars>>
  BY DEF Notify
<1>4. /\ signal'[s] = "commit" /\ signalOf'[s] = c /\ unread'[s] = f
      /\ \A q \in Notifiers \ {s} : signal'[q] = signal[q] /\ signalOf'[q] = signalOf[q] /\ unread'[q] = unread[q]
      /\ doubled \subseteq doubled' /\ doubled' \subseteq Clients
  BY <1>0, <1>1, <1>2, <1>3
<1>5. \A u, k : FindUnread(u, k)' = FindUnread(u, k)
  BY <1>3 DEF FindUnread, NotesThere
<1>6. \A u \in Users : f[u] = NoNote => FindUnread(u, c) = {}
  BY <1>0, <1>2 DEF FindUnread
<1>7. UnreadInv'
  <2>1. ASSUME NEW p \in Notifiers, NEW q \in Notifiers, signal'[p] = "commit", signal'[q] = "commit",
               p # q, signalOf'[p] = signalOf'[q]
        PROVE  signalOf'[p] \in doubled'
    BY <1>1, <1>4, <2>1 DEF NoteInv, UnreadInv
  <2>2. ASSUME NEW p \in Notifiers, NEW u \in Users, signal'[p] = "commit", signalOf'[p] \notin doubled',
               unread'[p][u] = NoNote
        PROVE  FindUnread(u, signalOf[p])' = {}
    <3>1. CASE p = s
      <4>1. FindUnread(u, c) = {}
        BY <1>4, <1>6, <2>2, <3>1
      <4> QED
        BY <1>3, <1>4, <3>1, <4>1 DEF FindUnread, NotesThere
    <3>2. CASE p # s
      <4>1. FindUnread(u, signalOf[p]) = {}
        BY <1>4, <2>2, <3>2 DEF NoteInv, UnreadInv
      <4> QED
        BY <1>3, <1>4, <3>2, <4>1 DEF FindUnread, NotesThere
    <3> QED
      BY <3>1, <3>2
  <2>3. ASSUME NEW u \in Users, NEW k \in Clients \ doubled' PROVE \A i, j \in FindUnread(u, k)' : i = j
    BY <1>4, <1>5 DEF NoteInv, UnreadInv
  <2> QED
    BY <2>1, <2>2, <2>3 DEF UnreadInv
<1>8. MailInv'
  BY <1>3, MailStays DEF NoteInv, NotesThere
<1>9. NoteTypeOK'
  BY <1>0, <1>1, <1>2, <1>3, <1>4 DEF NoteInv, NoteTypeOK, sweepVars, digestVars
<1> QED
  BY <1>7, <1>8, <1>9 DEF NoteInv

LEMMA Joined ==
    ASSUME NEW S, NEW a \in Seq(S), NEW b \in Seq(S)
    PROVE  a \o b \in Seq(S) /\ Len(a \o b) = Len(a) + Len(b)
OBVIOUS

\* A notification that commits refreshes the rows it has found and adds one for each of the
\* other users.
LEMMA CommitsNotes ==
    ASSUME NoteInv, NEW s \in Notifiers, CommitNotify(s)
    PROVE  /\ notes' \in Seq(Notes) /\ Len(notes) <= Len(notes') /\ Len(notes') <= MaxNotes
           /\ \A i \in NotesThere : /\ notes'[i].user = notes[i].user /\ notes'[i].client = notes[i].client
                                    /\ notes'[i].read = notes[i].read /\ notes'[i].emailed = notes[i].emailed
           /\ \A i \in NotesThere' \ NotesThere : /\ notes'[i].client = signalOf[s]
                                                  /\ unread[s][notes'[i].user] = NoNote
           /\ \A i, j \in NotesThere' \ NotesThere : notes'[i].user = notes'[j].user => i = j
<1> DEFINE new == {u \in Users : unread[s][u] = NoNote}
           touched == [i \in NotesThere |-> IF \E u \in Users : unread[s][u] = i
                                         THEN [notes[i] EXCEPT !.urgent = urgent[s]] ELSE notes[i]]
<1>0. /\ notes \in Seq(Notes) /\ Len(notes) \in Nat /\ MaxNotes \in Nat /\ NotesThere = 1 .. Len(notes)
      /\ \A i \in NotesThere : notes[i] \in Notes
      /\ urgent[s] \in BOOLEAN /\ signalOf[s] \in Clients
  BY NoteTypes DEF NotesThere
<1>1. Len(notes) + Cardinality(new) <= MaxNotes
  BY DEF CommitNotify
<1>2. PICK order \in Orders(new) : notes' = touched \o NewNotes(s, order)
  BY DEF CommitNotify
<1>3. /\ Cardinality(new) \in Nat /\ order \in Seq(new) /\ Len(order) = Cardinality(new)
      /\ \A i, j \in 1 .. Len(order) : order[i] = order[j] => i = j
  BY OrdersOnce
<1>4. /\ touched \in Seq(Notes) /\ Len(touched) = Len(notes)
      /\ \A i \in NotesThere : /\ touched[i].user = notes[i].user /\ touched[i].client = notes[i].client
                               /\ touched[i].read = notes[i].read /\ touched[i].emailed = notes[i].emailed
  <2>1. ASSUME NEW i \in NotesThere
        PROVE  /\ touched[i] \in Notes /\ touched[i].user = notes[i].user /\ touched[i].client = notes[i].client
               /\ touched[i].read = notes[i].read /\ touched[i].emailed = notes[i].emailed
    BY <1>0 DEF Notes
  <2>2. touched \in [1 .. Len(notes) -> Notes]
    BY <1>0, <2>1
  <2> HIDE DEF touched
  <2> QED
    BY <1>0, <2>1, <2>2
<1> DEFINE added == NewNotes(s, order)
<1>5. Len(order) \in Nat /\ \A i \in 1 .. Len(order) : order[i] \in new
  <2> HIDE DEF new
  <2> QED
    BY <1>3
<1>6. \A i \in 1 .. Len(order) : order[i] \in Users /\ unread[s][order[i]] = NoNote
  BY <1>5
<1>7. /\ added \in Seq(Notes) /\ Len(added) = Len(order)
      /\ \A i \in 1 .. Len(order) : added[i].user = order[i] /\ added[i].client = signalOf[s]
  <2>1. added \in [1 .. Len(order) -> Notes]
    BY <1>0, <1>6 DEF NewNotes, Notes
  <2>2. \A i \in 1 .. Len(order) : added[i].user = order[i] /\ added[i].client = signalOf[s]
    BY DEF NewNotes
  <2> HIDE DEF added, new
  <2> QED
    BY <1>5, <2>1, <2>2
<1> HIDE DEF new, touched, added
<1>8. /\ notes' = touched \o added /\ notes' \in Seq(Notes) /\ Len(notes') = Len(notes) + Len(order)
      /\ \A i \in 1 .. Len(notes) : notes'[i] = touched[i]
      /\ \A i \in Len(notes) + 1 .. Len(notes') : notes'[i] = added[i - Len(notes)]
  <2>1. notes' = touched \o added
    BY <1>2 DEF added
  <2>2. touched \in Seq(Notes) /\ added \in Seq(Notes) /\ Len(touched) = Len(notes) /\ Len(added) = Len(order)
    BY <1>4, <1>7
  <2>3. touched \o added \in Seq(Notes) /\ Len(touched \o added) = Len(touched) + Len(added)
    BY <2>2, Joined
  <2>4. notes' \in Seq(Notes) /\ Len(notes') = Len(notes) + Len(order)
    BY <2>1, <2>2, <2>3, Zenon
  <2> QED
    BY <1>0, <1>5, <2>1, <2>2, <2>4
<1>9. NotesThere' \ NotesThere = Len(notes) + 1 .. Len(notes')
  BY <1>0, <1>5, <1>8 DEF NotesThere
<1>10. ASSUME NEW i \in NotesThere' \ NotesThere
       PROVE  /\ i - Len(notes) \in 1 .. Len(order) /\ notes'[i].user = order[i - Len(notes)]
              /\ notes'[i].client = signalOf[s]
  <2>1. i - Len(notes) \in 1 .. Len(order)
    BY <1>0, <1>5, <1>8, <1>9
  <2> QED
    BY <1>7, <1>8, <1>9, <2>1
<1>11. ASSUME NEW i \in NotesThere' \ NotesThere, NEW j \in NotesThere' \ NotesThere,
              notes'[i].user = notes'[j].user
       PROVE  i = j
  <2>1. i - Len(notes) = j - Len(notes)
    BY <1>3, <1>10, <1>11
  <2> QED
    BY <1>0, <1>9, <2>1
<1>12. Len(notes) <= Len(notes') /\ Len(notes') <= MaxNotes
  BY <1>0, <1>1, <1>3, <1>5, <1>8
<1>13. \A i \in NotesThere : notes'[i] = touched[i]
  BY <1>0, <1>8
<1>14. \A i \in NotesThere' \ NotesThere : unread[s][notes'[i].user] = NoNote
  BY <1>6, <1>10
<1> QED
  BY <1>4, <1>8, <1>10, <1>11, <1>12, <1>13, <1>14

LEMMA CommitNotifyKeeps ==
    ASSUME NoteInv, NEW s \in Notifiers, CommitNotify(s)
    PROVE  NoteInv'
<1>0. /\ signal \in [Notifiers -> {"idle", "commit"}] /\ signalOf \in [Notifiers -> Clients]
      /\ urgent \in [Notifiers -> BOOLEAN] /\ unread \in [Notifiers -> [Users -> Ids \cup {NoNote}]]
      /\ NotesThere = 1 .. Len(notes) /\ Len(notes) \in Nat /\ MaxNotes \in Nat
  BY NoteTypes DEF NotesThere
<1>1. /\ notes' \in Seq(Notes) /\ Len(notes) <= Len(notes') /\ Len(notes') <= MaxNotes
      /\ \A i \in NotesThere : /\ notes'[i].user = notes[i].user /\ notes'[i].client = notes[i].client
                               /\ notes'[i].read = notes[i].read /\ notes'[i].emailed = notes[i].emailed
      /\ \A i \in NotesThere' \ NotesThere : /\ notes'[i].client = signalOf[s]
                                             /\ unread[s][notes'[i].user] = NoNote
      /\ \A i, j \in NotesThere' \ NotesThere : notes'[i].user = notes'[j].user => i = j
  BY CommitsNotes
<1>2. /\ signal[s] = "commit" /\ signal' = [signal EXCEPT ![s] = "idle"]
      /\ urgent' = [urgent EXCEPT ![s] = FALSE]
      /\ unread' = [unread EXCEPT ![s] = [u \in Users |-> NoNote]]
      /\ UNCHANGED <<wants, signalOf, sweepVars, digestVars, doubled>>
  BY DEF CommitNotify
<1>3. /\ signal'[s] = "idle"
      /\ \A q \in Notifiers \ {s} : signal'[q] = signal[q] /\ unread'[q] = unread[q]
  BY <1>0, <1>2
<1>4. Len(notes') \in Nat /\ NotesThere' = 1 .. Len(notes') /\ NotesThere \subseteq NotesThere'
  BY <1>0, <1>1 DEF NotesThere
<1>5. \A u \in Users, c \in Clients : FindUnread(u, c)' \cap NotesThere = FindUnread(u, c)
  BY <1>1, <1>4 DEF FindUnread
<1>6. ASSUME NEW u \in Users, NEW c \in Clients, c # signalOf[s] PROVE FindUnread(u, c)' = FindUnread(u, c)
  BY <1>1, <1>5, <1>6 DEF FindUnread
<1>7. ASSUME NEW u \in Users, NEW c \in Clients \ doubled PROVE \A i, j \in FindUnread(u, c)' : i = j
  <2>1. \A i, j \in FindUnread(u, c) : i = j
    BY DEF NoteInv, UnreadInv
  <2>2. CASE c # signalOf[s]
    BY <1>6, <2>1, <2>2
  <2>3. CASE c = signalOf[s] /\ unread[s][u] # NoNote
    <3>1. FindUnread(u, c)' \subseteq NotesThere
      BY <1>1, <2>3 DEF FindUnread
    <3> QED
      BY <1>5, <2>1, <3>1
  <2>4. CASE c = signalOf[s] /\ unread[s][u] = NoNote
    <3>1. FindUnread(u, c) = {}
      BY <1>2, <2>4 DEF NoteInv, UnreadInv
    <3>2. FindUnread(u, c)' \subseteq NotesThere' \ NotesThere
      BY <1>5, <3>1 DEF FindUnread
    <3>3. ASSUME NEW i \in FindUnread(u, c)' PROVE i \in NotesThere' \ NotesThere /\ notes'[i].user = u
      BY <3>2 DEF FindUnread
    <3> QED
      BY <1>1, <3>3
  <2> QED
    BY <2>2, <2>3, <2>4
<1>8. ASSUME NEW q \in Notifiers, signal'[q] = "commit", signalOf[q] \notin doubled
      PROVE  q # s /\ signal[q] = "commit" /\ signalOf[q] # signalOf[s] /\ unread'[q] = unread[q]
  BY <1>2, <1>3, <1>8 DEF NoteInv, UnreadInv
<1>9. UnreadInv'
  <2>1. ASSUME NEW p \in Notifiers, NEW q \in Notifiers, signal'[p] = "commit", signal'[q] = "commit",
               p # q, signalOf'[p] = signalOf'[q]
        PROVE  signalOf'[p] \in doubled'
    BY <1>2, <1>3, <2>1 DEF NoteInv, UnreadInv
  <2>2. ASSUME NEW p \in Notifiers, NEW u \in Users, signal'[p] = "commit", signalOf'[p] \notin doubled',
               unread'[p][u] = NoNote
        PROVE  FindUnread(u, signalOf[p])' = {}
    <3>1. /\ signal[p] = "commit" /\ signalOf[p] # signalOf[s] /\ unread[p][u] = NoNote
          /\ signalOf[p] \notin doubled /\ signalOf[p] \in Clients
      BY <1>0, <1>2, <1>8, <2>2
    <3>2. FindUnread(u, signalOf[p]) = {}
      BY <3>1 DEF NoteInv, UnreadInv
    <3>3. PICK c \in Clients : c = signalOf[p]
      BY <3>1
    <3>4. FindUnread(u, c)' = {}
      BY <1>6, <3>1, <3>2, <3>3
    <3> QED
      BY <1>2, <3>3, <3>4
  <2>3. ASSUME NEW u \in Users, NEW k \in Clients \ doubled' PROVE \A i, j \in FindUnread(u, k)' : i = j
    BY <1>2, <1>7
  <2> QED
    BY <2>1, <2>2, <2>3 DEF UnreadInv
<1>10. MailInv'
  <2>1. \A i \in NotesThere : notes'[i].emailed = notes[i].emailed
    BY <1>1
  <2> QED
    BY <1>2, <1>4, <2>1, MailStays DEF NoteInv, digestVars
<1>11. NoteTypeOK'
  <2>1. NoteTypeOK
    BY DEF NoteInv
  <2>2. notes' \in Seq(Notes) /\ Len(notes') <= MaxNotes
    BY <1>1
  <2>3. /\ signal' \in [Notifiers -> {"idle", "commit"}] /\ urgent' \in [Notifiers -> BOOLEAN]
        /\ unread' \in [Notifiers -> [Users -> Ids \cup {NoNote}]]
    BY <1>0, <1>2
  <2> QED
    BY <1>2, <2>1, <2>2, <2>3 DEF NoteTypeOK, sweepVars, digestVars
<1> QED
  BY <1>9, <1>10, <1>11 DEF NoteInv

LEMMA MarkReadKeeps ==
    ASSUME NoteInv, NEW i \in Ids, MarkRead(i)
    PROVE  NoteInv'
<1>0. /\ notes \in Seq(Notes) /\ Len(notes) \in 0 .. MaxNotes /\ MaxNotes \in Nat
      /\ NotesThere = 1 .. Len(notes) /\ signalOf \in [Notifiers -> Clients]
  BY NoteTypes DEF NotesThere
<1>1. /\ i \in NotesThere /\ ~notes[i].read /\ notes' = [notes EXCEPT ![i].read = TRUE]
      /\ UNCHANGED <<wants, notifyVars, sweepVars, digestVars, doubled>>
  BY DEF MarkRead
<1>2. /\ notes' \in Seq(Notes) /\ Len(notes') = Len(notes) /\ NotesThere' = NotesThere
      /\ \A j \in NotesThere : /\ notes'[j].user = notes[j].user /\ notes'[j].client = notes[j].client
                               /\ notes'[j].read = (j = i \/ notes[j].read)
                               /\ notes'[j].emailed = notes[j].emailed
  <2>0. notes \in [NotesThere -> Notes]
    BY <1>0
  <2>1. notes[i] \in Notes
    BY <1>0, <1>1
  <2>2. [notes[i] EXCEPT !.read = TRUE] \in Notes
    BY <2>1 DEF Notes
  <2>3. notes' \in [1 .. Len(notes) -> Notes]
    BY <1>0, <1>1, <2>2
  <2>4. notes' \in Seq(Notes) /\ Len(notes') = Len(notes) /\ NotesThere' = NotesThere
    BY <1>0, <2>3 DEF NotesThere
  <2>5. \A j \in NotesThere : j # i => notes'[j] = notes[j]
    BY <1>0, <1>1
  <2>6. notes'[i] = [notes[i] EXCEPT !.read = TRUE]
    BY <1>1, <2>0
  <2>7. /\ notes'[i].user = notes[i].user /\ notes'[i].client = notes[i].client
        /\ notes'[i].read = TRUE /\ notes'[i].emailed = notes[i].emailed
    BY <2>1, <2>6 DEF Notes
  <2>8. ASSUME NEW j \in NotesThere, j # i
        PROVE  /\ notes'[j].user = notes[j].user /\ notes'[j].client = notes[j].client
               /\ notes'[j].read = notes[j].read /\ notes'[j].emailed = notes[j].emailed
    BY <2>5, <2>8
  <2>9. \A j \in NotesThere : notes[j] \in Notes /\ notes[j].read \in BOOLEAN
    BY <2>0 DEF Notes
  <2> QED
    BY <2>4, <2>7, <2>8, <2>9
<1>3. \A u \in Users, c \in Clients : FindUnread(u, c)' \subseteq FindUnread(u, c)
  BY <1>2 DEF FindUnread
<1>4. UnreadInv'
  BY <1>0, <1>1, <1>3, UnreadStays DEF NoteInv
<1>5. MailInv'
  BY <1>1, <1>2, MailStays DEF NoteInv
<1>6. NoteTypeOK'
  <2>1. notes' \in Seq(Notes) /\ Len(notes') <= MaxNotes
    BY <1>0, <1>2
  <2> QED
    BY <1>1, <2>1 DEF NoteInv, NoteTypeOK, notifyVars, sweepVars, digestVars
<1> QED
  BY <1>4, <1>5, <1>6 DEF NoteInv

LEMMA SetPreferencesKeeps ==
    ASSUME NoteInv, NEW u \in Users, SetPreferences(u)
    PROVE  NoteInv'
<1>1. UNCHANGED <<notes, notifyVars, sweepVars, digestVars, doubled>>
  BY DEF SetPreferences
<1>2. PICK want \in SUBSET Clients : wants' = [wants EXCEPT ![u] = want]
  BY DEF SetPreferences
<1>3. wants' \in [Users -> SUBSET Clients]
  BY <1>2, NoteTypes
<1>4. UnreadInv' /\ MailInv'
  BY <1>1, NoteTypes, UnreadStays, MailStays DEF NoteInv, FindUnread, NotesThere
<1> QED
  BY <1>1, <1>3, <1>4 DEF NoteInv, NoteTypeOK, notifyVars, sweepVars, digestVars

\* What a sweep does says nothing of the signals, and keeps the types.
LEMMA SweepStays ==
    ASSUME NoteInv, MailInv', UNCHANGED <<wants, notifyVars, doubled>>, notes' \in Seq(Notes),
           Len(notes') = Len(notes),
           \A i \in NotesThere : /\ notes'[i].user = notes[i].user /\ notes'[i].client = notes[i].client
                                 /\ notes'[i].read = notes[i].read,
           sweep' \in [Digesters -> {"idle", "work", "save"}], backlog' \in [Digesters -> SUBSET Ids],
           posted' \in [Digesters -> SUBSET Ids], knows' \in [Digesters -> [Users -> SUBSET Clients]],
           reread' \in [Digesters -> BOOLEAN],
           mailed' \subseteq Ids, again' \subseteq mailed', astray' \subseteq Ids
    PROVE  NoteInv'
<1>1. \A u \in Users, c \in Clients : FindUnread(u, c)' \subseteq FindUnread(u, c)
  BY DEF FindUnread, NotesThere
<1>2. UnreadInv'
  BY <1>1, NoteTypes, UnreadStays DEF NoteInv
<1>3. notes' \in Seq(Notes) /\ Len(notes') <= MaxNotes
  BY NoteTypes
<1>4. NoteTypeOK'
  BY <1>3 DEF NoteInv, NoteTypeOK, notifyVars
<1> QED
  BY <1>2, <1>4 DEF NoteInv

\* What is to be mailed is of the user's turn, and so of what the sweep has in hand.
LEMMA EligibleInHand ==
    ASSUME NEW d \in Digesters
    PROVE  Eligible(d) \subseteq TurnItems(d) /\ TurnItems(d) \subseteq backlog[d]
BY DEF Eligible, TurnItems

LEMMA CollectKeeps ==
    ASSUME NoteInv, NEW d \in Digesters, Collect(d)
    PROVE  NoteInv'
<1> DEFINE oldest == Oldest(Pending)
<1>0. /\ NotesThere \subseteq Ids /\ backlog \in [Digesters -> SUBSET Ids]
      /\ posted \in [Digesters -> SUBSET Ids] /\ wants \in [Users -> SUBSET Clients]
      /\ knows \in [Digesters -> [Users -> SUBSET Clients]] /\ reread \in [Digesters -> BOOLEAN]
      /\ sweep \in [Digesters -> {"idle", "work", "save"}] /\ notes \in Seq(Notes)
      /\ mailed \subseteq Ids /\ again \subseteq mailed /\ astray \subseteq Ids
  BY NoteTypes
<1>1. oldest \subseteq NotesThere /\ \A i \in oldest : ~notes[i].emailed
  BY DEF Oldest, Pending
<1> HIDE DEF oldest
<1>2. /\ sweep[d] = "idle" /\ sweep' = [sweep EXCEPT ![d] = "work"]
      /\ backlog' = [backlog EXCEPT ![d] = oldest]
      /\ knows' = [knows EXCEPT ![d] = wants] /\ reread' = [reread EXCEPT ![d] = FALSE]
      /\ astray' = astray \cup UNION {oldest \cap (backlog[e] \cup posted[e]) : e \in Digesters}
      /\ UNCHANGED <<notes, wants, notifyVars, posted, mailed, again, doubled>>
  BY DEF Collect, oldest
<1>3. /\ astray \subseteq astray' /\ \A e \in Digesters : oldest \cap (backlog[e] \cup posted[e]) \subseteq astray'
      /\ astray' \subseteq Ids
  BY <1>0, <1>1, <1>2
<1>4. /\ backlog'[d] = oldest /\ sweep'[d] = "work"
      /\ \A e \in Digesters \ {d} : backlog'[e] = backlog[e] /\ sweep'[e] = sweep[e]
  BY <1>0, <1>2
<1>5. posted[d] = {}
  BY <1>2 DEF NoteInv, MailInv
<1>6. MailInv'
  <2>1. /\ again' \subseteq astray' /\ mailed' \subseteq NotesThere'
        /\ \A i \in mailed' : notes'[i].emailed \/ i \in astray' \/ \E e \in Digesters : i \in posted'[e]
    BY <1>2, <1>3 DEF NoteInv, MailInv, NotesThere
  <2>2. oldest \cap mailed \subseteq astray'
    BY <1>1, <1>3 DEF NoteInv, MailInv
  <2>3. ASSUME NEW a \in Digesters
        PROVE  /\ backlog'[a] \subseteq NotesThere' /\ posted'[a] \subseteq NotesThere'
               /\ sweep'[a] # "save" => posted'[a] = {}
               /\ sweep'[a] = "idle" => backlog'[a] = {}
               /\ backlog'[a] \cap mailed' \subseteq astray'
    <3>1. CASE a = d
      BY <1>1, <1>2, <1>4, <1>5, <2>2, <3>1 DEF NotesThere
    <3>2. CASE a # d
      BY <1>2, <1>3, <1>4, <3>2 DEF NoteInv, MailInv, NotesThere
    <3> QED
      BY <3>1, <3>2
  <2>4. ASSUME NEW a \in Digesters, NEW e \in Digesters \ {a}
        PROVE  backlog'[a] \cap (backlog'[e] \cup posted'[e]) \subseteq astray'
    <3>1. CASE a = d
      BY <1>2, <1>3, <1>4, <3>1
    <3>2. CASE e = d
      BY <1>2, <1>3, <1>4, <1>5, <3>2
    <3>3. CASE a # d /\ e # d
      BY <1>2, <1>3, <1>4, <3>3 DEF NoteInv, MailInv
    <3> QED
      BY <3>1, <3>2, <3>3
  <2> QED
    BY <2>1, <2>3, <2>4 DEF MailInv
<1>7. /\ sweep' \in [Digesters -> {"idle", "work", "save"}] /\ backlog' \in [Digesters -> SUBSET Ids]
      /\ knows' \in [Digesters -> [Users -> SUBSET Clients]] /\ reread' \in [Digesters -> BOOLEAN]
  BY <1>0, <1>1, <1>2
<1> QED
  BY <1>0, <1>2, <1>3, <1>6, <1>7, SweepStays

\* A sweep that is done with a user has it no longer in hand.
LEMMA TurnsEnd ==
    ASSUME NoteInv, NEW d \in Digesters, Done(d)
    PROVE  /\ backlog' \in [Digesters -> SUBSET Ids] /\ backlog'[d] = backlog[d] \ TurnItems(d)
           /\ \A e \in Digesters : backlog'[e] \subseteq backlog[e]
<1>1. backlog \in [Digesters -> SUBSET Ids]
  BY NoteTypes
<1> QED
  BY <1>1 DEF Done

LEMMA PassOverKeeps ==
    ASSUME NoteInv, NEW d \in Digesters, PassOver(d)
    PROVE  NoteInv'
<1>1. UNCHANGED <<notes, wants, notifyVars, sweep, knows, reread, posted, mailed, again, astray, doubled>>
  BY DEF PassOver, digestVars
<1>2. backlog' \in [Digesters -> SUBSET Ids] /\ \A e \in Digesters : backlog'[e] \subseteq backlog[e]
  BY TurnsEnd DEF PassOver
<1>3. MailInv'
  <2>1. ASSUME NEW a \in Digesters
        PROVE  /\ backlog'[a] \subseteq NotesThere /\ backlog'[a] \cap mailed \subseteq astray
               /\ sweep[a] = "idle" => backlog'[a] = {}
               /\ \A e \in Digesters \ {a} : backlog'[a] \cap (backlog'[e] \cup posted[e]) \subseteq astray
    BY <1>2 DEF NoteInv, MailInv
  <2> QED
    BY <1>1, <2>1 DEF NoteInv, MailInv, NotesThere
<1> QED
  BY <1>1, <1>2, <1>3, NoteTypes, SweepStays

LEMMA SendDigestKeeps ==
    ASSUME NoteInv, NEW d \in Digesters, SendDigest(d)
    PROVE  NoteInv'
<1> DEFINE items == Eligible(d)
<1>0. /\ posted \in [Digesters -> SUBSET Ids] /\ NotesThere \subseteq Ids
      /\ sweep \in [Digesters -> {"idle", "work", "save"}] /\ mailed \subseteq Ids /\ again \subseteq mailed
  BY NoteTypes
<1>1. /\ sweep[d] = "work" /\ sweep' = [sweep EXCEPT ![d] = "save"]
      /\ again' = again \cup (mailed \cap items) /\ mailed' = mailed \cup items
      /\ posted' = [posted EXCEPT ![d] = items]
      /\ UNCHANGED <<notes, wants, notifyVars, knows, reread, astray, doubled>>
  BY DEF SendDigest, Deliver
<1>2. /\ items \subseteq TurnItems(d) /\ items \subseteq backlog[d] /\ items \subseteq NotesThere
  BY EligibleInHand DEF NoteInv, MailInv
<1>3. /\ backlog' \in [Digesters -> SUBSET Ids] /\ backlog'[d] = backlog[d] \ TurnItems(d)
      /\ \A e \in Digesters : backlog'[e] \subseteq backlog[e]
  BY TurnsEnd DEF SendDigest
<1> HIDE DEF items
<1>4. /\ posted'[d] = items /\ posted[d] = {} /\ sweep'[d] = "save"
      /\ \A e \in Digesters \ {d} : posted'[e] = posted[e] /\ sweep'[e] = sweep[e]
  BY <1>0, <1>1 DEF NoteInv, MailInv
<1>5. MailInv'
  <2>1. again' \subseteq astray' /\ mailed' \subseteq NotesThere'
    BY <1>1, <1>2 DEF NoteInv, MailInv, NotesThere
  <2>2. ASSUME NEW i \in mailed'
        PROVE  notes'[i].emailed \/ i \in astray' \/ \E e \in Digesters : i \in posted'[e]
    <3>1. CASE i \in items
      BY <1>4, <3>1
    <3>2. CASE i \in mailed
      <4>1. notes[i].emailed \/ i \in astray \/ \E e \in Digesters \ {d} : i \in posted[e]
        BY <1>4, <3>2 DEF NoteInv, MailInv
      <4> QED
        BY <1>1, <1>4, <4>1
    <3> QED
      BY <1>1, <2>2, <3>1, <3>2
  <2>3. ASSUME NEW a \in Digesters
        PROVE  /\ backlog'[a] \subseteq NotesThere' /\ posted'[a] \subseteq NotesThere'
               /\ sweep'[a] # "save" => posted'[a] = {}
               /\ sweep'[a] = "idle" => backlog'[a] = {}
    BY <1>1, <1>2, <1>3, <1>4 DEF NoteInv, MailInv, NotesThere
  <2>4. ASSUME NEW a \in Digesters PROVE backlog'[a] \cap mailed' \subseteq astray'
    <3>1. backlog[a] \cap mailed \subseteq astray
      BY DEF NoteInv, MailInv
    <3>2. backlog'[a] \cap items \subseteq astray
      BY <1>2, <1>3 DEF NoteInv, MailInv
    <3> QED
      BY <1>1, <1>3, <3>1, <3>2
  <2>5. ASSUME NEW a \in Digesters, NEW e \in Digesters \ {a}
        PROVE  backlog'[a] \cap (backlog'[e] \cup posted'[e]) \subseteq astray'
    <3>1. posted'[e] \subseteq backlog[e] \cup posted[e]
      BY <1>2, <1>4
    <3>2. backlog[a] \cap (backlog[e] \cup posted[e]) \subseteq astray
      BY DEF NoteInv, MailInv
    <3> QED
      BY <1>1, <1>3, <3>1, <3>2
  <2> QED
    BY <2>1, <2>2, <2>3, <2>4, <2>5 DEF MailInv
<1>6. /\ sweep' \in [Digesters -> {"idle", "work", "save"}] /\ posted' \in [Digesters -> SUBSET Ids]
      /\ mailed' \subseteq Ids /\ again' \subseteq mailed'
  BY <1>0, <1>1, <1>2
<1> QED
  BY <1>1, <1>3, <1>5, <1>6, NoteTypes, SweepStays

LEMMA SendFailsKeeps ==
    ASSUME NoteInv, NEW d \in Digesters, SendFails(d)
    PROVE  NoteInv'
<1> DEFINE items == Eligible(d)
<1>0. NotesThere \subseteq Ids /\ mailed \subseteq Ids /\ again \subseteq mailed /\ astray \subseteq Ids
  BY NoteTypes
<1>1. /\ UNCHANGED <<notes, wants, notifyVars, sweep, knows, reread, posted, doubled>>
      /\ \/ mailed' = mailed /\ again' = again /\ astray' = astray
         \/ again' = again \cup (mailed \cap items) /\ mailed' = mailed \cup items /\ astray' = astray \cup items
  BY DEF SendFails, Deliver, digestVars
<1>2. items \subseteq NotesThere
  BY EligibleInHand DEF NoteInv, MailInv
<1>3. backlog' \in [Digesters -> SUBSET Ids] /\ \A e \in Digesters : backlog'[e] \subseteq backlog[e]
  BY TurnsEnd DEF SendFails
<1> HIDE DEF items
<1>4. /\ mailed \subseteq mailed' /\ mailed' \subseteq mailed \cup astray' /\ mailed' \subseteq NotesThere
      /\ again' \subseteq astray' /\ astray \subseteq astray'
      /\ mailed' \subseteq Ids /\ again' \subseteq mailed' /\ astray' \subseteq Ids
  BY <1>0, <1>1, <1>2 DEF NoteInv, MailInv
<1>5. MailInv'
  <2>1. ASSUME NEW a \in Digesters
        PROVE  /\ backlog'[a] \subseteq NotesThere /\ backlog'[a] \cap mailed' \subseteq astray'
               /\ sweep[a] = "idle" => backlog'[a] = {}
    BY <1>3, <1>4 DEF NoteInv, MailInv
  <2>2. ASSUME NEW a \in Digesters, NEW e \in Digesters \ {a}
        PROVE  backlog'[a] \cap (backlog'[e] \cup posted[e]) \subseteq astray'
    BY <1>3, <1>4 DEF NoteInv, MailInv
  <2>3. ASSUME NEW i \in mailed'
        PROVE  notes[i].emailed \/ i \in astray' \/ \E e \in Digesters : i \in posted[e]
    BY <1>4 DEF NoteInv, MailInv
  <2> QED
    BY <1>1, <1>4, <2>1, <2>2, <2>3 DEF NoteInv, MailInv, NotesThere
<1> QED
  BY <1>1, <1>3, <1>4, <1>5, NoteTypes, SweepStays

LEMMA SaveEmailedKeeps ==
    ASSUME NoteInv, NEW d \in Digesters, SaveEmailed(d)
    PROVE  NoteInv'
<1>0. /\ notes \in [NotesThere -> Notes] /\ Len(notes) \in Nat /\ NotesThere = 1 .. Len(notes)
      /\ posted \in [Digesters -> SUBSET Ids] /\ knows \in [Digesters -> [Users -> SUBSET Clients]]
      /\ reread \in [Digesters -> BOOLEAN] /\ sweep \in [Digesters -> {"idle", "work", "save"}]
  BY NoteTypes DEF NotesThere
<1>1. /\ notes' = [i \in NotesThere |-> IF i \in posted[d] THEN [notes[i] EXCEPT !.emailed = TRUE] ELSE notes[i]]
      /\ posted' = [posted EXCEPT ![d] = {}] /\ reread' = [reread EXCEPT ![d] = TRUE]
      /\ knows' = [knows EXCEPT ![d] = [u \in Users |-> {}]]
      /\ sweep' = [sweep EXCEPT ![d] = "work"]
      /\ UNCHANGED <<wants, notifyVars, backlog, mailed, again, astray, doubled>>
  BY DEF SaveEmailed, digestVars
<1>2. ASSUME NEW i \in NotesThere
      PROVE  /\ notes'[i] \in Notes
             /\ notes'[i].user = notes[i].user /\ notes'[i].client = notes[i].client
             /\ notes'[i].read = notes[i].read
             /\ notes[i].emailed \/ i \in posted[d] => notes'[i].emailed
  <2>1. notes[i] \in Notes
    BY <1>0
  <2>2. CASE i \in posted[d]
    <3>1. notes'[i] = [notes[i] EXCEPT !.emailed = TRUE]
      BY <1>1, <2>2
    <3> QED
      BY <2>1, <3>1 DEF Notes
  <2>3. CASE i \notin posted[d]
    <3>1. notes'[i] = notes[i]
      BY <1>1, <2>3
    <3> QED
      BY <2>1, <2>3, <3>1
  <2> QED
    BY <2>2, <2>3
<1>3. notes' \in Seq(Notes) /\ Len(notes') = Len(notes) /\ NotesThere' = NotesThere
  <2>1. notes' \in [1 .. Len(notes) -> Notes]
    BY <1>0, <1>1, <1>2
  <2> QED
    BY <1>0, <2>1 DEF NotesThere
<1>4. /\ posted'[d] = {} /\ sweep'[d] = "work"
      /\ \A e \in Digesters \ {d} : posted'[e] = posted[e] /\ sweep'[e] = sweep[e]
  BY <1>0, <1>1
<1>5. MailInv'
  <2>1. ASSUME NEW i \in mailed
        PROVE  notes'[i].emailed \/ i \in astray \/ \E e \in Digesters : i \in posted'[e]
    <3>1. i \in NotesThere /\ (notes[i].emailed \/ i \in astray \/ \E e \in Digesters : i \in posted[e])
      BY DEF NoteInv, MailInv
    <3> QED
      BY <1>2, <1>4, <3>1
  <2>2. ASSUME NEW a \in Digesters
        PROVE  /\ posted'[a] \subseteq posted[a] /\ (sweep'[a] # "save" => posted'[a] = {})
               /\ sweep'[a] = "idle" => backlog[a] = {}
    BY <1>4 DEF NoteInv, MailInv
  <2>3. ASSUME NEW a \in Digesters
        PROVE  /\ backlog[a] \subseteq NotesThere /\ posted'[a] \subseteq NotesThere
               /\ backlog[a] \cap mailed \subseteq astray
               /\ \A e \in Digesters \ {a} : backlog[a] \cap (backlog[e] \cup posted'[e]) \subseteq astray
    BY <2>2 DEF NoteInv, MailInv
  <2> QED
    BY <1>1, <1>3, <2>1, <2>2, <2>3 DEF NoteInv, MailInv
<1>6. /\ sweep' \in [Digesters -> {"idle", "work", "save"}] /\ posted' \in [Digesters -> SUBSET Ids]
      /\ knows' \in [Digesters -> [Users -> SUBSET Clients]] /\ reread' \in [Digesters -> BOOLEAN]
  BY <1>0, <1>1
<1> QED
  BY <1>1, <1>2, <1>3, <1>5, <1>6, NoteTypes, SweepStays

\* A sweep that is over has nothing in hand; what it had mailed and not saved is lost track of.
LEMMA SweepOverKeeps ==
    ASSUME NoteInv, NEW d \in Digesters, EndDigest(d) \/ DigestDies(d)
    PROVE  NoteInv'
<1>0. /\ backlog \in [Digesters -> SUBSET Ids] /\ posted \in [Digesters -> SUBSET Ids]
      /\ knows \in [Digesters -> [Users -> SUBSET Clients]] /\ reread \in [Digesters -> BOOLEAN]
      /\ sweep \in [Digesters -> {"idle", "work", "save"}] /\ astray \subseteq Ids
  BY NoteTypes
<1>1. /\ sweep' = [sweep EXCEPT ![d] = "idle"] /\ backlog' = [backlog EXCEPT ![d] = {}]
      /\ posted' = [posted EXCEPT ![d] = {}] /\ knows' = [knows EXCEPT ![d] = [u \in Users |-> {}]]
      /\ reread' = [reread EXCEPT ![d] = FALSE]
      /\ UNCHANGED <<notes, wants, notifyVars, mailed, again, doubled>>
  BY DEF EndDigest, DigestDies, SweepOver, digestVars
<1>2. astray \subseteq astray' /\ posted[d] \subseteq astray' /\ astray' \subseteq Ids
  <2>1. CASE EndDigest(d)
    BY <1>0, <2>1 DEF EndDigest, digestVars, NoteInv, MailInv
  <2>2. CASE DigestDies(d)
    BY <1>0, <2>2 DEF DigestDies
  <2> QED
    BY <2>1, <2>2
<1>3. /\ posted'[d] = {} /\ backlog'[d] = {} /\ sweep'[d] = "idle"
      /\ \A e \in Digesters \ {d} : posted'[e] = posted[e] /\ backlog'[e] = backlog[e] /\ sweep'[e] = sweep[e]
  BY <1>0, <1>1
<1>4. MailInv'
  <2>1. ASSUME NEW i \in mailed
        PROVE  notes[i].emailed \/ i \in astray' \/ \E e \in Digesters : i \in posted'[e]
    <3>1. notes[i].emailed \/ i \in astray \/ \E e \in Digesters : i \in posted[e]
      BY DEF NoteInv, MailInv
    <3> QED
      BY <1>2, <1>3, <3>1
  <2>2. ASSUME NEW a \in Digesters
        PROVE  /\ posted'[a] \subseteq posted[a] /\ backlog'[a] \subseteq backlog[a]
               /\ sweep'[a] # "save" => posted'[a] = {}
               /\ sweep'[a] = "idle" => backlog'[a] = {}
    BY <1>3 DEF NoteInv, MailInv
  <2>3. ASSUME NEW a \in Digesters
        PROVE  /\ backlog'[a] \subseteq NotesThere /\ posted'[a] \subseteq NotesThere
               /\ backlog'[a] \cap mailed \subseteq astray'
               /\ \A e \in Digesters \ {a} : backlog'[a] \cap (backlog'[e] \cup posted'[e]) \subseteq astray'
    BY <1>2, <2>2 DEF NoteInv, MailInv
  <2>4. again \subseteq astray' /\ mailed \subseteq NotesThere
    BY <1>2 DEF NoteInv, MailInv
  <2> QED
    BY <1>1, <2>1, <2>2, <2>3, <2>4 DEF MailInv, NotesThere
<1>5. /\ sweep' \in [Digesters -> {"idle", "work", "save"}] /\ posted' \in [Digesters -> SUBSET Ids]
      /\ backlog' \in [Digesters -> SUBSET Ids]
      /\ knows' \in [Digesters -> [Users -> SUBSET Clients]] /\ reread' \in [Digesters -> BOOLEAN]
  BY <1>0, <1>1
<1> QED
  BY <1>1, <1>2, <1>4, <1>5, NoteTypes, SweepStays

LEMMA NoteNextInv == NoteInv /\ [NoteNext]_noteVars => NoteInv'
<1> SUFFICES ASSUME NoteInv, [NoteNext]_noteVars PROVE NoteInv'
  OBVIOUS
<1>1. CASE UNCHANGED noteVars
  BY <1>1 DEF noteVars, notifyVars, sweepVars, digestVars, NoteInv, NoteTypeOK, UnreadInv, MailInv,
              FindUnread, NotesThere
<1>2. CASE NoteNext
  BY <1>2, NotifyKeeps, CommitNotifyKeeps, MarkReadKeeps, SetPreferencesKeeps, CollectKeeps,
     PassOverKeeps, SendDigestKeeps, SendFailsKeeps, SaveEmailedKeeps, SweepOverKeeps
  DEF NoteNext, Digest
<1> QED
  BY <1>1, <1>2

LEMMA NotesTold == NoteInv => ToldOnce
<1> SUFFICES ASSUME NoteInv PROVE ToldOnce
  OBVIOUS
<1>1. ASSUME NEW u \in Users, NEW c \in Clients \ doubled PROVE Cardinality(FindUnread(u, c)) <= 1
  BY AtMostOne DEF NoteInv, UnreadInv
<1>2. again \subseteq astray
  BY DEF NoteInv, MailInv
<1> QED
  BY <1>1, <1>2 DEF ToldOnce

-----------------------------------------------------------------------------
(* The pulls of a sync *)

\* The facts of a pull are committed when only its status is left to be.  One that no commit
\* has overlapped has the totals there are, and has summed the facts there are and its own; one
\* whose connector no other has replaced the breakdowns of deletes all of them.
PullInv(s) ==
    /\ s \in kept => spot[s] \in {"stamp", "end"}
    /\ s \in broken => spot[s] = "end"
    /\ spot[s] = "stamp" => s \in kept /\ way[s] \in AdWays \cup SiteWays
    /\ spot[s] \in {"delete", "insert"} =>
          way[s] \in SiteWays /\ \A r \in dropped[s] : way[r[2]] = way[s]
    /\ s \in kept \cap broken => way[s] \in AdWays \cup SiteWays
    /\ s \in kept \ broken /\ spot[s] = "end" /\ way[s] \in Connectors => synced[way[s]] # Unwritten
    /\ s \notin overlapped /\ Active(s) =>
          carried[s] = totals /\ (spot[s] # "fetch" => summed[s] = Sum(s, own[s]))
    /\ s \notin passed /\ spot[s] \in {"delete", "insert"} =>
          dropped[s] = {r \in slices : way[r[2]] = way[s]}

StoredInv ==
    /\ \A w \in Connectors : synced[w] # Unwritten => synced[w] \in kept
    /\ landed \subseteq kept
    /\ \A g \in open \cup closed : \E s \in landed : way[s] = g[1]

InsightInv ==
    /\ InsightTypeOK /\ TotalsFollowFacts /\ SlicesAreOneSnapshot /\ StoredInv
    /\ \A s \in Pulls : PullInv(s)

LEMMA InsightInitInv == InsightInit => InsightInv
<1> SUFFICES ASSUME InsightInit PROVE InsightInv
  OBVIOUS
<1>1. InsightTypeOK
  BY DEF InsightInit, InsightTypeOK, Facts
<1>2. TotalsFollowFacts /\ SlicesAreOneSnapshot /\ StoredInv
  BY DEF InsightInit, TotalsFollowFacts, SlicesAreOneSnapshot, StoredInv
<1>3. \A s \in Pulls : PullInv(s)
  BY DEF InsightInit, PullInv, Active
<1> QED
  BY <1>1, <1>2, <1>3 DEF InsightInv

LEMMA InsightTypes ==
    ASSUME InsightInv
    PROVE  /\ cells \in Facts /\ totals \in Facts /\ slices \subseteq Slices \X Pulls
           /\ open \subseteq AllSignals /\ closed \subseteq AllSignals /\ open \cap closed = {}
           /\ synced \in [Connectors -> Pulls \cup {Unwritten}]
           /\ way \in [Pulls -> Ways]
           /\ spot \in [Pulls -> {"idle", "fetch", "more", "delete", "insert", "commit", "stamp", "end"}]
           /\ carried \in [Pulls -> Facts] /\ own \in [Pulls -> SUBSET Cells]
           /\ summed \in [Pulls -> Facts] /\ dropped \in [Pulls -> SUBSET (Slices \X Pulls)]
           /\ kept \subseteq Pulls /\ landed \subseteq Pulls /\ broken \subseteq Pulls
           /\ overlapped \subseteq Pulls /\ passed \subseteq Pulls
           /\ drifted \in BOOLEAN /\ torn \subseteq SiteWays
BY DEF InsightInv, InsightTypeOK

LEMMA Summed ==
    ASSUME NEW s \in Pulls, NEW mine \in SUBSET Cells, InsightInv
    PROVE  Sum(s, mine) \in Facts
BY DEF Sum, Facts, InsightInv, InsightTypeOK

\* A step of one pull that stores nothing disturbs no other.
LEMMA PullMoves ==
    ASSUME InsightInv, NEW s \in Pulls, UNCHANGED <<storeVars, way, kept, landed, drifted, torn>>,
           \A q \in Pulls \ {s} : /\ spot'[q] = spot[q] /\ carried'[q] = carried[q] /\ own'[q] = own[q]
                                  /\ summed'[q] = summed[q] /\ dropped'[q] = dropped[q]
                                  /\ (q \in broken') = (q \in broken) /\ (q \in passed') = (q \in passed)
                                  /\ (q \in overlapped') = (q \in overlapped),
           InsightTypeOK', PullInv(s)'
    PROVE  InsightInv'
<1>1. ASSUME NEW q \in Pulls PROVE PullInv(q)'
  <2>1. CASE q # s
    BY <2>1 DEF InsightInv, PullInv, Active, Sum, storeVars
  <2> QED
    BY <2>1
<1>2. TotalsFollowFacts' /\ SlicesAreOneSnapshot' /\ StoredInv'
  BY DEF InsightInv, TotalsFollowFacts, SlicesAreOneSnapshot, StoredInv, storeVars
<1> QED
  BY <1>1, <1>2 DEF InsightInv

LEMMA PullBreaks ==
    ASSUME InsightInv, NEW s \in Pulls, BreakPull(s), spot[s] # "end"
    PROVE  InsightInv'
<1>1. /\ spot' = [spot EXCEPT ![s] = "end"] /\ broken' = broken \cup {s}
      /\ UNCHANGED <<storeVars, way, carried, own, summed, dropped, kept, landed, overlapped,
                     passed, drifted, torn>>
  BY DEF BreakPull, ToSpot
<1>2. /\ spot' \in [Pulls -> {"idle", "fetch", "more", "delete", "insert", "commit", "stamp", "end"}]
      /\ spot'[s] = "end" /\ \A q \in Pulls \ {s} : spot'[q] = spot[q]
  BY <1>1, InsightTypes
<1>3. InsightTypeOK'
  BY <1>1, <1>2 DEF InsightInv, InsightTypeOK, storeVars
<1>4. s \in kept => way[s] \in AdWays \cup SiteWays
  BY DEF InsightInv, PullInv
<1>5. PullInv(s)'
  BY <1>1, <1>2, <1>4 DEF PullInv, Active
<1> QED
  BY <1>1, <1>2, <1>3, <1>5, PullMoves

LEMMA StartKeeps ==
    ASSUME InsightInv, NEW s \in Pulls, Start(s)
    PROVE  InsightInv'
<1>1. /\ spot[s] = "idle" /\ spot' = [spot EXCEPT ![s] = "fetch"]
      /\ carried' = [carried EXCEPT ![s] = totals] /\ overlapped' = overlapped \ {s}
      /\ UNCHANGED <<storeVars, way, own, summed, dropped, kept, landed, broken, passed, drifted, torn>>
  BY DEF Start, ToSpot
<1>2. /\ spot' \in [Pulls -> {"idle", "fetch", "more", "delete", "insert", "commit", "stamp", "end"}]
      /\ carried' \in [Pulls -> Facts] /\ spot'[s] = "fetch" /\ carried'[s] = totals
      /\ \A q \in Pulls \ {s} : spot'[q] = spot[q] /\ carried'[q] = carried[q]
  BY <1>1, InsightTypes
<1>3. InsightTypeOK'
  BY <1>1, <1>2 DEF InsightInv, InsightTypeOK, storeVars
<1>4. s \notin kept \cup broken
  BY <1>1 DEF InsightInv, PullInv
<1>5. PullInv(s)'
  BY <1>1, <1>2, <1>4 DEF PullInv, Active, storeVars
<1> QED
  BY <1>1, <1>2, <1>3, <1>5, PullMoves

LEMMA FetchNothingKeeps ==
    ASSUME InsightInv, NEW s \in Pulls, FetchNothing(s)
    PROVE  InsightInv'
<1>1. /\ spot[s] = "fetch" /\ spot' = [spot EXCEPT ![s] = "end"]
      /\ UNCHANGED <<storeVars, way, carried, own, summed, dropped, recordVars>>
  BY DEF FetchNothing, ToSpot
<1>2. /\ spot' \in [Pulls -> {"idle", "fetch", "more", "delete", "insert", "commit", "stamp", "end"}]
      /\ spot'[s] = "end" /\ \A q \in Pulls \ {s} : spot'[q] = spot[q]
  BY <1>1, InsightTypes
<1>3. InsightTypeOK'
  BY <1>1, <1>2 DEF InsightInv, InsightTypeOK, storeVars, recordVars
<1>4. s \notin kept \cup broken
  BY <1>1 DEF InsightInv, PullInv
<1>5. PullInv(s)'
  BY <1>1, <1>2, <1>4 DEF PullInv, Active, recordVars
<1> QED
  BY <1>1, <1>2, <1>3, <1>5, PullMoves DEF recordVars

\* Whatever a pull has fetched, its rows are of the cells there are.
LEMMA DaysAreCells == \A w \in Ways : DaysOf(w) \subseteq SUBSET Cells
BY DEF Ways, AdWays, SiteWays, DaysOf, MetaDays, GoogleAdsDays, GoogleLsaDays, Ga4Days,
       SearchConsoleDays, LinkedInDays, GhlDays, UploadDays

LEMMA UpsertKeeps ==
    ASSUME InsightInv, NEW s \in Pulls, Upsert(s)
    PROVE  InsightInv'
<1>1. PICK mine \in DaysOf(way[s]) :
        own' = [own EXCEPT ![s] = mine] /\ summed' = [summed EXCEPT ![s] = Sum(s, mine)]
  BY DEF Upsert
<1>2. PICK p \in {"more", "commit"} : spot' = [spot EXCEPT ![s] = p]
  BY DEF Upsert, ToSpot
<1>3. spot[s] = "fetch" /\ UNCHANGED <<storeVars, way, carried, dropped, recordVars>>
  BY DEF Upsert
<1>4. mine \in SUBSET Cells /\ Sum(s, mine) \in Facts
  BY DaysAreCells, InsightTypes, Summed
<1>5. /\ spot' \in [Pulls -> {"idle", "fetch", "more", "delete", "insert", "commit", "stamp", "end"}]
      /\ own' \in [Pulls -> SUBSET Cells] /\ summed' \in [Pulls -> Facts]
      /\ spot'[s] \in {"more", "commit"} /\ own'[s] = mine /\ summed'[s] = Sum(s, mine)
      /\ \A q \in Pulls \ {s} : spot'[q] = spot[q] /\ own'[q] = own[q] /\ summed'[q] = summed[q]
  BY <1>1, <1>2, <1>4, InsightTypes
<1>6. InsightTypeOK'
  BY <1>3, <1>5 DEF InsightInv, InsightTypeOK, storeVars, recordVars
<1>7. s \notin kept \cup broken /\ (s \notin overlapped => carried[s] = totals)
  BY <1>3 DEF InsightInv, PullInv, Active
<1>8. PullInv(s)'
  BY <1>3, <1>5, <1>7 DEF PullInv, Active, Sum, storeVars, recordVars
<1> QED
  BY <1>3, <1>5, <1>6, <1>8, PullMoves DEF recordVars

LEMMA MoreFailKeeps ==
    ASSUME InsightInv, NEW s \in Pulls, MoreFail(s)
    PROVE  InsightInv'
<1>1. /\ spot[s] = "more" /\ spot' = [spot EXCEPT ![s] = "commit"]
      /\ UNCHANGED <<storeVars, way, carried, own, summed, dropped, recordVars>>
  BY DEF MoreFail, ToSpot
<1>2. /\ spot' \in [Pulls -> {"idle", "fetch", "more", "delete", "insert", "commit", "stamp", "end"}]
      /\ spot'[s] = "commit" /\ \A q \in Pulls \ {s} : spot'[q] = spot[q]
  BY <1>1, InsightTypes
<1>3. InsightTypeOK'
  BY <1>1, <1>2 DEF InsightInv, InsightTypeOK, storeVars, recordVars
<1>4. PullInv(s)
  BY DEF InsightInv
<1>5. PullInv(s)'
  BY <1>1, <1>2, <1>4 DEF PullInv, Active, Sum, storeVars, recordVars
<1> QED
  BY <1>1, <1>2, <1>3, <1>5, PullMoves DEF recordVars

LEMMA DeleteSlicesKeeps ==
    ASSUME InsightInv, NEW s \in Pulls, DeleteSlices(s)
    PROVE  InsightInv'
<1> DEFINE mine == {r \in slices : way[r[2]] = way[s]}
<1>1. /\ spot[s] = "more" /\ spot' = [spot EXCEPT ![s] = "delete"] /\ way[s] \in SiteWays
      /\ dropped' = [dropped EXCEPT ![s] = mine] /\ passed' = passed \ {s}
      /\ UNCHANGED <<storeVars, way, carried, own, summed, kept, landed, broken, overlapped,
                     drifted, torn>>
  BY DEF DeleteSlices, ToSpot
<1>2. mine \in SUBSET (Slices \X Pulls) /\ \A r \in mine : way[r[2]] = way[s]
  BY InsightTypes
<1>3. mine' = mine
  BY <1>1 DEF storeVars
<1>4. mine = {r \in slices : way[r[2]] = way[s]}
  OBVIOUS
<1> HIDE DEF mine
<1>5. /\ spot' \in [Pulls -> {"idle", "fetch", "more", "delete", "insert", "commit", "stamp", "end"}]
      /\ dropped' \in [Pulls -> SUBSET (Slices \X Pulls)] /\ spot'[s] = "delete" /\ dropped'[s] = mine
      /\ \A q \in Pulls \ {s} : spot'[q] = spot[q] /\ dropped'[q] = dropped[q]
  BY <1>1, <1>2, InsightTypes
<1>6. InsightTypeOK'
  BY <1>1, <1>5 DEF InsightInv, InsightTypeOK, storeVars
<1>7. /\ s \notin kept \cup broken
      /\ s \notin overlapped => carried[s] = totals /\ summed[s] = Sum(s, own[s])
  BY <1>1 DEF InsightInv, PullInv, Active
<1>8. s \notin overlapped' => carried'[s] = totals' /\ summed'[s] = Sum(s, own[s])'
  BY <1>1, <1>7 DEF Sum, storeVars
<1>9. PullInv(s)'
  BY <1>1, <1>2, <1>3, <1>4, <1>5, <1>7, <1>8 DEF PullInv, Active, storeVars
<1> QED
  BY <1>1, <1>5, <1>6, <1>9, PullMoves

LEMMA DeletedSlicesKeeps ==
    ASSUME InsightInv, NEW s \in Pulls, DeletedSlices(s)
    PROVE  InsightInv'
<1>1. /\ spot[s] = "delete" /\ spot' = [spot EXCEPT ![s] = "insert"]
      /\ UNCHANGED <<storeVars, way, carried, own, summed, dropped, recordVars>>
  BY DEF DeletedSlices, ToSpot
<1>2. /\ spot' \in [Pulls -> {"idle", "fetch", "more", "delete", "insert", "commit", "stamp", "end"}]
      /\ spot'[s] = "insert" /\ \A q \in Pulls \ {s} : spot'[q] = spot[q]
  BY <1>1, InsightTypes
<1>3. InsightTypeOK'
  BY <1>1, <1>2 DEF InsightInv, InsightTypeOK, storeVars, recordVars
<1>4. PullInv(s)
  BY DEF InsightInv
<1>5. PullInv(s)'
  BY <1>1, <1>2, <1>4 DEF PullInv, Active, Sum, storeVars, recordVars
<1> QED
  BY <1>1, <1>2, <1>3, <1>5, PullMoves DEF recordVars

\* A connector that a pull stamps has that pull's time, the others the one they had.
LEMMA Stamped ==
    ASSUME InsightInv, NEW s \in Pulls, Stamps(s)
    PROVE  /\ synced' \in [Connectors -> Pulls \cup {Unwritten}]
           /\ way[s] \in Connectors => synced'[way[s]] = s
           /\ \A w \in Connectors : synced'[w] = s \/ synced'[w] = synced[w]
           /\ \A w \in Connectors : synced[w] # Unwritten => synced'[w] # Unwritten
<1>1. synced \in [Connectors -> Pulls \cup {Unwritten}] /\ s # Unwritten
  BY InsightTypes, InsightAssumption
<1>2. CASE way[s] \in Connectors
  <2>1. synced' = [synced EXCEPT ![way[s]] = s]
    BY <1>2 DEF Stamps
  <2> QED
    BY <1>1, <1>2, <2>1
<1>3. CASE way[s] \notin Connectors
  BY <1>1, <1>3 DEF Stamps
<1> QED
  BY <1>2, <1>3

\* Whatever a pull stores or stamps is of a pull whose facts are stored.
LEMMA StoredOn ==
    ASSUME InsightInv, NEW s \in Pulls, kept' = kept \cup {s}, way' = way, Stamps(s) \/ synced' = synced,
           landed' = landed \/ landed' = landed \cup {s},
           \A g \in (open \cup closed)' : g \in open \cup closed \/ (g[1] = way[s] /\ s \in landed')
    PROVE  StoredInv'
<1>1. \A w \in Connectors : synced'[w] = s \/ synced'[w] = synced[w]
  BY Stamped
<1>2. StoredInv
  BY DEF InsightInv
<1>3. \A w \in Connectors : synced'[w] # Unwritten => synced'[w] \in kept'
  BY <1>1, <1>2 DEF StoredInv
<1>4. landed' \subseteq kept'
  BY <1>2 DEF StoredInv
<1>5. ASSUME NEW g \in (open \cup closed)' PROVE \E q \in landed' : way'[q] = g[1]
  <2>1. CASE g \in open \cup closed
    <3>1. PICK q \in landed : way[q] = g[1]
      BY <1>2, <2>1 DEF StoredInv
    <3> QED
      BY <3>1
  <2> QED
    BY <2>1
<1> QED
  BY <1>3, <1>4, <1>5 DEF StoredInv

\* A pull whose facts are committed is followed by its status or by nothing, and the others
\* are overlapped.
LEMMA Commits ==
    ASSUME InsightInv, NEW s \in Pulls, NEW p \in {"stamp", "end"},
           spot[s] \in {"more", "commit", "insert"}, CommitFacts(s), ToSpot(s, p),
           UNCHANGED <<way, carried, own, summed, dropped, broken>>,
           Stamps(s) \/ synced' = synced,
           p = "stamp" => way[s] \in AdWays \cup SiteWays, p = "end" => Stamps(s),
           \A q \in Pulls \ {s} : spot[q] \in {"delete", "insert"} /\ q \notin passed' =>
              /\ q \notin passed
              /\ {r \in slices' : way[r[2]] = way[q]} = {r \in slices : way[r[2]] = way[q]}
    PROVE  /\ TotalsFollowFacts' /\ \A q \in Pulls : PullInv(q)'
           /\ cells' \in Facts /\ totals' \in Facts /\ kept' = kept \cup {s}
           /\ spot' \in [Pulls -> {"idle", "fetch", "more", "delete", "insert", "commit", "stamp", "end"}]
           /\ synced' \in [Connectors -> Pulls \cup {Unwritten}]
           /\ kept' \subseteq Pulls /\ overlapped' \subseteq Pulls /\ drifted' \in BOOLEAN
<1>1. /\ cells' = [c \in Cells |-> IF c \in own[s] THEN s ELSE cells[c]]
      /\ totals' = IF summed[s] # carried[s] THEN summed[s] ELSE totals
      /\ kept' = kept \cup {s} /\ drifted' = (s \in overlapped)
      /\ overlapped' = overlapped \cup {q \in Pulls \ {s} : Active(q)}
      /\ spot' = [spot EXCEPT ![s] = p]
  BY DEF CommitFacts, CommitTotals, ToSpot
<1>2. cells' = Sum(s, own[s])
  BY <1>1 DEF Sum
<1>3. cells' \in Facts /\ totals' \in Facts
  BY <1>1, <1>2, InsightTypes, Summed
<1>4. /\ spot' \in [Pulls -> {"idle", "fetch", "more", "delete", "insert", "commit", "stamp", "end"}]
      /\ spot'[s] = p /\ \A q \in Pulls \ {s} : spot'[q] = spot[q]
  BY <1>1, InsightTypes
<1>5. s \notin kept \cup broken
  BY DEF InsightInv, PullInv
<1>6. TotalsFollowFacts'
  <2>1. CASE s \in overlapped
    BY <1>1, <2>1 DEF TotalsFollowFacts
  <2>2. CASE s \notin overlapped
    <3>1. carried[s] = totals /\ summed[s] = Sum(s, own[s])
      BY <2>2 DEF InsightInv, PullInv, Active
    <3> QED
      BY <1>1, <1>2, <3>1 DEF TotalsFollowFacts
  <2> QED
    BY <2>1, <2>2
<1>7. /\ synced' \in [Connectors -> Pulls \cup {Unwritten}]
      /\ \A w \in Connectors : synced[w] # Unwritten => synced'[w] # Unwritten
      /\ p = "end" /\ way[s] \in Connectors => synced'[way[s]] # Unwritten
  BY Stamped, InsightTypes, InsightAssumption
<1>8. ASSUME NEW q \in Pulls PROVE PullInv(q)'
  <2>1. CASE q = s
    BY <1>1, <1>4, <1>5, <1>7, <2>1 DEF PullInv, Active
  <2>2. CASE q # s
    <3>1. Active(q)' => q \in overlapped'
      BY <1>1, <1>4, <2>2 DEF Active
    <3>2. PullInv(q)
      BY DEF InsightInv
    <3>3. q \in kept \ broken /\ spot[q] = "end" /\ way[q] \in Connectors => synced'[way[q]] # Unwritten
      BY <1>7, <3>2 DEF PullInv
    <3>4. q \notin passed' /\ spot[q] \in {"delete", "insert"} =>
             dropped[q] = {r \in slices' : way[r[2]] = way[q]}
      BY <2>2, <3>2 DEF PullInv
    <3> QED
      BY <1>1, <1>4, <2>2, <3>1, <3>2, <3>3, <3>4 DEF PullInv
  <2> QED
    BY <2>1, <2>2
<1>9. kept' \subseteq Pulls /\ overlapped' \subseteq Pulls /\ drifted' \in BOOLEAN
  BY <1>1, InsightTypes
<1> QED
  BY <1>1, <1>3, <1>4, <1>6, <1>7, <1>8, <1>9

LEMMA CommitPullKeeps ==
    ASSUME InsightInv, NEW s \in Pulls, CommitPull(s)
    PROVE  InsightInv'
<1>1. /\ spot[s] = "commit" /\ CommitFacts(s) /\ Stamps(s) /\ ToSpot(s, "end")
      /\ UNCHANGED <<slices, open, closed, way, carried, own, summed, dropped, landed, broken,
                     passed, torn>>
  BY DEF CommitPull
<1>2. /\ TotalsFollowFacts' /\ \A q \in Pulls : PullInv(q)'
      /\ cells' \in Facts /\ totals' \in Facts /\ kept' = kept \cup {s}
      /\ spot' \in [Pulls -> {"idle", "fetch", "more", "delete", "insert", "commit", "stamp", "end"}]
      /\ synced' \in [Connectors -> Pulls \cup {Unwritten}]
      /\ kept' \subseteq Pulls /\ overlapped' \subseteq Pulls /\ drifted' \in BOOLEAN
  BY <1>1, Commits
<1>3. InsightTypeOK'
  BY <1>1, <1>2 DEF InsightInv, InsightTypeOK
<1>4. StoredInv'
  BY <1>1, <1>2, StoredOn
<1>5. SlicesAreOneSnapshot'
  BY <1>1 DEF InsightInv, SlicesAreOneSnapshot
<1> QED
  BY <1>2, <1>3, <1>4, <1>5 DEF InsightInv

LEMMA CommitStatusKeeps ==
    ASSUME InsightInv, NEW s \in Pulls, CommitStatus(s)
    PROVE  InsightInv'
<1>1. /\ spot[s] = "stamp" /\ Stamps(s) /\ spot' = [spot EXCEPT ![s] = "end"]
      /\ UNCHANGED <<cells, totals, slices, open, closed, way, carried, own, summed, dropped, recordVars>>
  BY DEF CommitStatus, ToSpot
<1>2. /\ synced' \in [Connectors -> Pulls \cup {Unwritten}]
      /\ way[s] \in Connectors => synced'[way[s]] # Unwritten
      /\ \A w \in Connectors : synced[w] # Unwritten => synced'[w] # Unwritten
  BY <1>1, Stamped, InsightAssumption
<1>3. /\ spot' \in [Pulls -> {"idle", "fetch", "more", "delete", "insert", "commit", "stamp", "end"}]
      /\ spot'[s] = "end" /\ \A q \in Pulls \ {s} : spot'[q] = spot[q]
  BY <1>1, InsightTypes
<1>4. InsightTypeOK'
  BY <1>1, <1>2, <1>3 DEF InsightInv, InsightTypeOK, recordVars
<1>5. s \in kept /\ s \notin broken /\ way[s] \in AdWays \cup SiteWays
  BY <1>1 DEF InsightInv, PullInv
<1>6. StoredInv'
  <2>1. kept' = kept \cup {s} /\ way' = way /\ landed' = landed /\ open' = open /\ closed' = closed
    BY <1>1, <1>5 DEF recordVars
  <2> QED
    BY <1>1, <2>1, StoredOn
<1>7. ASSUME NEW q \in Pulls PROVE PullInv(q)'
  <2>1. PullInv(q)
    BY DEF InsightInv
  <2>2. CASE q = s
    BY <1>1, <1>2, <1>3, <1>5, <2>2 DEF PullInv, Active, recordVars
  <2>3. CASE q # s
    BY <1>1, <1>2, <1>3, <2>1, <2>3 DEF PullInv, Active, Sum, recordVars
  <2> QED
    BY <2>2, <2>3
<1>8. TotalsFollowFacts' /\ SlicesAreOneSnapshot'
  BY <1>1 DEF InsightInv, TotalsFollowFacts, SlicesAreOneSnapshot, recordVars
<1> QED
  BY <1>4, <1>6, <1>7, <1>8 DEF InsightInv

\* The insights of an ad platform, all that was found or the first of it.
LEMMA LandsKeep ==
    ASSUME InsightInv, NEW s \in Pulls, NEW p \in {"stamp", "end"}, NEW found \in SUBSET AllSignals,
           spot[s] = "more", way[s] \in AdWays, Finds(s, found), CommitFacts(s), ToSpot(s, p),
           UNCHANGED <<slices, way, carried, own, summed, dropped, broken, passed, torn>>,
           IF p = "end" THEN Stamps(s) ELSE synced' = synced,
           \A g \in found : g[1] = way[s]
    PROVE  InsightInv'
<1>1. open' = open \cup found /\ closed' = closed \ found /\ landed' = landed \cup {s}
  BY DEF Finds
<1>2. /\ TotalsFollowFacts' /\ \A q \in Pulls : PullInv(q)'
      /\ cells' \in Facts /\ totals' \in Facts /\ kept' = kept \cup {s}
      /\ spot' \in [Pulls -> {"idle", "fetch", "more", "delete", "insert", "commit", "stamp", "end"}]
      /\ synced' \in [Connectors -> Pulls \cup {Unwritten}]
      /\ kept' \subseteq Pulls /\ overlapped' \subseteq Pulls /\ drifted' \in BOOLEAN
  BY Commits
<1>3. /\ open' \subseteq AllSignals /\ closed' \subseteq AllSignals /\ open' \cap closed' = {}
      /\ landed' \subseteq Pulls
  BY <1>1, InsightTypes
<1>4. InsightTypeOK'
  BY <1>2, <1>3 DEF InsightInv, InsightTypeOK
<1>5. \A g \in (open \cup closed)' : g \in open \cup closed \/ (g[1] = way[s] /\ s \in landed')
  BY <1>1
<1>6. StoredInv'
  BY <1>1, <1>2, <1>5, StoredOn
<1>7. SlicesAreOneSnapshot'
  BY DEF InsightInv, SlicesAreOneSnapshot
<1> QED
  BY <1>2, <1>4, <1>6, <1>7 DEF InsightInv

LEMMA LandKeeps ==
    ASSUME InsightInv, NEW s \in Pulls, Land(s)
    PROVE  InsightInv'
<1>1. /\ spot[s] = "more" /\ way[s] \in AdWays /\ CommitFacts(s) /\ ToSpot(s, "stamp")
      /\ UNCHANGED <<slices, synced, way, carried, own, summed, dropped, broken, passed, torn>>
  BY DEF Land
<1>2. PICK found \in CASE way[s] = "meta"       -> SyncMeta
                       [] way[s] = "google_ads" -> SyncGoogleAds
                       [] way[s] = "google_lsa" -> SyncGoogleLsa : Finds(s, found)
  BY DEF Land
<1>3. found \subseteq {way[s]} \X Signals(way[s])
  BY <1>1, <1>2 DEF AdWays, SyncMeta, SyncGoogleAds, SyncGoogleLsa, Signals
<1>4. found \in SUBSET AllSignals /\ \A g \in found : g[1] = way[s]
  BY <1>1, <1>3 DEF AllSignals
<1> QED
  BY <1>1, <1>2, <1>4, LandsKeep

LEMMA LandPartlyKeeps ==
    ASSUME InsightInv, NEW s \in Pulls, LandPartly(s)
    PROVE  InsightInv'
<1>1. /\ spot[s] = "more" /\ way[s] \in AdWays /\ CommitFacts(s) /\ Stamps(s) /\ ToSpot(s, "end")
      /\ UNCHANGED <<slices, way, carried, own, summed, dropped, broken, passed, torn>>
  BY DEF LandPartly
<1>2. PICK found \in SUBSET {<<way[s], "recommendation">>} : Finds(s, found)
  BY DEF LandPartly
<1>3. "recommendation" \in Signals(way[s])
  BY <1>1 DEF AdWays, Signals, MetaSignals, GoogleAdsSignals, LsaSignals
<1>4. found \in SUBSET AllSignals /\ \A g \in found : g[1] = way[s]
  BY <1>1, <1>2, <1>3 DEF AllSignals
<1> QED
  BY <1>1, <1>2, <1>4, LandsKeep

LEMMA InsertSlicesKeeps ==
    ASSUME InsightInv, NEW s \in Pulls, InsertSlices(s)
    PROVE  InsightInv'
<1>1. /\ spot[s] = "insert" /\ CommitFacts(s) /\ landed' = landed \cup {s} /\ ToSpot(s, "stamp")
      /\ torn' = IF s \in passed THEN torn \cup {way[s]} ELSE torn \ {way[s]}
      /\ passed' = passed \cup {q \in Pulls \ {s} : spot[q] \in {"delete", "insert"} /\ way[q] = way[s]}
      /\ UNCHANGED <<open, closed, synced, way, carried, own, summed, dropped, broken>>
  BY DEF InsertSlices
<1>2. PICK found \in SUBSET Slices : slices' = (slices \ dropped[s]) \cup (found \X {s})
  BY DEF InsertSlices
<1>3. /\ way[s] \in SiteWays /\ \A r \in dropped[s] : way[r[2]] = way[s]
      /\ s \notin passed => dropped[s] = {r \in slices : way[r[2]] = way[s]}
  BY <1>1 DEF InsightInv, PullInv
<1>4. ASSUME NEW q \in Pulls \ {s}, spot[q] \in {"delete", "insert"}, q \notin passed'
      PROVE  /\ q \notin passed
             /\ {r \in slices' : way[r[2]] = way[q]} = {r \in slices : way[r[2]] = way[q]}
  <2>1. q \notin passed /\ way[q] # way[s]
    BY <1>1, <1>4
  <2>2. \A r : r \in slices' /\ way[r[2]] = way[q] <=> r \in slices /\ way[r[2]] = way[q]
    BY <1>2, <1>3, <2>1
  <2> QED
    BY <2>1, <2>2
<1>5. /\ TotalsFollowFacts' /\ \A q \in Pulls : PullInv(q)'
      /\ cells' \in Facts /\ totals' \in Facts /\ kept' = kept \cup {s}
      /\ spot' \in [Pulls -> {"idle", "fetch", "more", "delete", "insert", "commit", "stamp", "end"}]
      /\ synced' \in [Connectors -> Pulls \cup {Unwritten}]
      /\ kept' \subseteq Pulls /\ overlapped' \subseteq Pulls /\ drifted' \in BOOLEAN
  BY <1>1, <1>3, <1>4, Commits
<1>6. /\ slices' \subseteq Slices \X Pulls /\ torn' \subseteq SiteWays /\ landed' \subseteq Pulls
      /\ passed' \subseteq Pulls
  BY <1>1, <1>2, <1>3, InsightTypes
<1>7. InsightTypeOK'
  BY <1>1, <1>5, <1>6 DEF InsightInv, InsightTypeOK
<1>8. StoredInv'
  BY <1>1, <1>5, StoredOn
<1>9. SlicesAreOneSnapshot'
  <2> SUFFICES ASSUME NEW q \in slices', NEW r \in slices', way[q[2]] = way[r[2]], way[q[2]] \notin torn'
               PROVE  q[2] = r[2]
    BY <1>1 DEF SlicesAreOneSnapshot
  <2>1. CASE way[q[2]] = way[s]
    <3>1. dropped[s] = {x \in slices : way[x[2]] = way[s]}
      BY <1>1, <1>3, <2>1
    <3>2. q \in found \X {s} /\ r \in found \X {s}
      BY <1>2, <2>1, <3>1
    <3> QED
      BY <3>2
  <2>2. CASE way[q[2]] # way[s]
    <3>1. q \in slices /\ r \in slices
      BY <1>2, <2>2
    <3>2. way[q[2]] \notin torn
      BY <1>1, <2>2
    <3> QED
      BY <3>1, <3>2 DEF InsightInv, SlicesAreOneSnapshot
  <2> QED
    BY <2>1, <2>2
<1> QED
  BY <1>5, <1>7, <1>8, <1>9 DEF InsightInv

LEMMA CloseSignalKeeps ==
    ASSUME InsightInv, NEW g \in AllSignals, CloseSignal(g)
    PROVE  InsightInv'
<1>1. /\ g \in open /\ open' = open \ {g} /\ closed' = closed \cup {g}
      /\ UNCHANGED <<cells, totals, slices, synced, pullVars, recordVars>>
  BY DEF CloseSignal
<1>2. InsightTypeOK'
  BY <1>1 DEF InsightInv, InsightTypeOK, pullVars, recordVars
<1>3. TotalsFollowFacts' /\ SlicesAreOneSnapshot'
  BY <1>1 DEF InsightInv, TotalsFollowFacts, SlicesAreOneSnapshot, pullVars, recordVars
<1>4. StoredInv'
  BY <1>1 DEF InsightInv, StoredInv, pullVars, recordVars
<1>5. \A q \in Pulls : PullInv(q)'
  BY <1>1 DEF InsightInv, PullInv, Active, Sum, pullVars, recordVars
<1> QED
  BY <1>2, <1>3, <1>4, <1>5 DEF InsightInv

LEMMA InsightNextInv == InsightInv /\ [InsightNext]_insightVars => InsightInv'
<1> SUFFICES ASSUME InsightInv, [InsightNext]_insightVars PROVE InsightInv'
  OBVIOUS
<1>1. CASE UNCHANGED insightVars
  BY <1>1 DEF insightVars, storeVars, pullVars, recordVars, InsightInv, InsightTypeOK, TotalsFollowFacts,
              SlicesAreOneSnapshot, StoredInv, PullInv, Active, Sum
<1>2. ASSUME NEW s \in Pulls, FetchFail(s) \/ InsightsBreak(s) \/ Die(s) PROVE InsightInv'
  BY <1>2, PullBreaks DEF FetchFail, InsightsBreak, Die
<1>3. CASE InsightNext
  BY <1>2, <1>3, StartKeeps, FetchNothingKeeps, UpsertKeeps, MoreFailKeeps, DeleteSlicesKeeps,
     DeletedSlicesKeeps, LandKeeps, LandPartlyKeeps, CommitPullKeeps, CommitStatusKeeps,
     InsertSlicesKeeps, CloseSignalKeeps
  DEF InsightNext
<1> QED
  BY <1>1, <1>3

\* The statement the runs check, from its parts.
LEMMA InsightsWhole == InsightInv => SlicesAreOneSnapshot /\ SyncedAsStored
<1> SUFFICES ASSUME InsightInv PROVE SlicesAreOneSnapshot /\ SyncedAsStored
  OBVIOUS
<1>1. SlicesAreOneSnapshot /\ StoredInv /\ kept \subseteq Pulls
  BY InsightTypes DEF InsightInv
<1>2. \A s \in Pulls : PullInv(s)
  BY DEF InsightInv
<1>3. \A s \in kept \cap broken : way[s] \in AdWays \cup SiteWays
  BY <1>1, <1>2 DEF PullInv
<1>4. \A s \in kept \ broken :
        spot[s] = "end" /\ way[s] \in Connectors => synced[way[s]] # Unwritten
  BY <1>1, <1>2 DEF PullInv
<1> QED
  BY <1>1, <1>3, <1>4 DEF StoredInv, SyncedAsStored

-----------------------------------------------------------------------------
(* The calls to the language model *)

\* A route that was replaced since it was read.
Stale(r) == r \notin {NoRoute, 0, route}

\* As long as no load was slow: a stale route in a cache was replaced after the cache was
\* loaded; one about to be stored or stamped, at this very tick; and a call takes its route
\* from a cache that has not expired.
CacheInv(p) ==
    /\ cached[p] \in 0 .. route \cup {NoRoute} /\ loadedAt[p] <= now
    /\ ~slow /\ Stale(cached[p]) => replaced[cached[p]] >= loadedAt[p]

LoadInv(c) ==
    /\ callAt[c] = "keep" => got[c] <= route
    /\ Loading(c) /\ ~slow => began[c] = now
    /\ began[c] <= now
    /\ callAt[c] = "keep" /\ ~slow /\ Stale(got[c]) => replaced[got[c]] >= now
    /\ callAt[c] = "stamp" /\ ~slow /\ Stale(cached[home[c]]) => replaced[cached[home[c]]] >= now
    /\ callAt[c] = "take" /\ ~slow => now - loadedAt[home[c]] <= TTL

\* A call was sent if it waits, or has ended with an event, stored or lost.
UsageInv(c) ==
    /\ (c \in sent) <=> \/ callAt[c] = "wait"
                        \/ callAt[c] = "end" /\ (event[c].status # "none" \/ c \in unrecorded)
    /\ event[c].status # "none" => callAt[c] = "end" /\ c \notin unrecorded
    /\ c \in unrecorded => callAt[c] = "end"
    /\ heard[c] = "text" => event[c].status # "error"

CallInv ==
    /\ CallTypeOK
    /\ \A p \in Processes : CacheInv(p)
    /\ \A c \in Calls : LoadInv(c) /\ UsageInv(c)

LEMMA CallInitInv == CallInit => CallInv
<1> SUFFICES ASSUME CallInit PROVE CallInv
  OBVIOUS
<1>0. TTL \in Nat /\ MaxRoute \in Nat /\ MaxTime \in Nat /\ 0 \in Routes /\ 0 \in Times
  BY CallAssumption DEF Routes, Times
<1>1. CallTypeOK
  BY <1>0 DEF CallInit, CallTypeOK, Events, NoEvent
<1>2. \A p \in Processes : CacheInv(p)
  BY <1>0 DEF CallInit, CacheInv, Stale
<1>3. \A c \in Calls : LoadInv(c) /\ UsageInv(c)
  BY <1>0 DEF CallInit, LoadInv, UsageInv, Loading, NoEvent
<1> QED
  BY <1>1, <1>2, <1>3 DEF CallInv

LEMMA CallTypes ==
    ASSUME CallInv
    PROVE  /\ TTL \in Nat /\ MaxRoute \in Nat /\ MaxTime \in Nat /\ NoRoute \notin Nat
           /\ route \in 0 .. MaxRoute /\ route \in Nat /\ now \in Nat /\ now <= MaxTime /\ slow \in BOOLEAN
           /\ replaced \in [0 .. MaxRoute -> Nat] /\ replaced \in [Routes -> Times]
           /\ cached \in [Processes -> Routes \cup {NoRoute}]
           /\ loadedAt \in [Processes -> Times] /\ \A p \in Processes : loadedAt[p] \in Nat
           /\ committed \in [Processes -> BOOLEAN] /\ home \in [Calls -> Processes]
           /\ callAt \in [Calls -> {"idle", "take", "load", "keep", "stamp", "send", "wait", "end"}]
           /\ got \in [Calls -> Routes] /\ \A c \in Calls : got[c] \in 0 .. MaxRoute
           /\ began \in [Calls -> Times] /\ \A c \in Calls : began[c] \in Nat
           /\ event \in [Calls -> Events] /\ heard \in [Calls -> {"nothing", "part", "text", "failure"}]
           /\ sent \subseteq Calls /\ unrecorded \subseteq Calls
BY CallAssumption DEF CallInv, CallTypeOK, Routes, Times

\* The events and what the callers hear are no concern of the routes.
LEMMA RoutesStay ==
    ASSUME CallInv, UNCHANGED <<routeVars, cacheVars, pickVars>>, NEW c \in Calls,
           callAt' \in [Calls -> {"idle", "take", "load", "keep", "stamp", "send", "wait", "end"}],
           callAt'[c] \in {"send", "wait", "end"}, \A d \in Calls \ {c} : callAt'[d] = callAt[d]
    PROVE  (\A p \in Processes : CacheInv(p)') /\ (\A d \in Calls : LoadInv(d)')
<1>1. \A p \in Processes : CacheInv(p)'
  BY DEF CallInv, CacheInv, Stale, routeVars, cacheVars
<1>2. ASSUME NEW d \in Calls PROVE LoadInv(d)'
  <2>1. CASE d = c
    BY <2>1 DEF CallInv, LoadInv, Loading, routeVars, pickVars
  <2>2. CASE d # c
    BY <2>2 DEF CallInv, LoadInv, Loading, Stale, routeVars, cacheVars, pickVars
  <2> QED
    BY <2>1, <2>2
<1> QED
  BY <1>1, <1>2

LEMMA UsageStays ==
    ASSUME CallInv, UNCHANGED usageVars, NEW d \in Calls,
           \/ callAt'[d] = callAt[d]
           \/ callAt[d] \notin {"wait", "end"} /\ callAt'[d] \notin {"wait", "end"}
    PROVE  UsageInv(d)'
BY DEF CallInv, UsageInv, usageVars

-----------------------------------------------------------------------------

\* A route that becomes stale is the one replaced now; one that was is replaced no more.
LEMMA Replaced ==
    ASSUME CallInv, Replace
    PROVE  /\ route' = route + 1 /\ route' \in Routes /\ replaced' \in [Routes -> Times]
           /\ now' = now /\ slow' = slow
           /\ \A r \in 0 .. route \cup {NoRoute}, t \in Nat :
                 (Stale(r) => replaced[r] >= t) /\ t <= now => (Stale(r)' => replaced'[r] >= t)
<1>0. /\ route \in 0 .. MaxRoute /\ route \in Nat /\ now \in Nat /\ now <= MaxTime /\ MaxRoute \in Nat
      /\ MaxTime \in Nat /\ NoRoute \notin Nat /\ replaced \in [0 .. MaxRoute -> Nat]
      /\ replaced \in [Routes -> Times]
  BY CallTypes
<1>1. /\ route < MaxRoute /\ route' = route + 1 /\ replaced' = [replaced EXCEPT ![route] = now]
      /\ now' = now /\ slow' = slow
  BY DEF Replace
<1>2. replaced'[route] = now /\ \A r \in 0 .. route : r # route => replaced'[r] = replaced[r]
  BY <1>0, <1>1
<1>3. route' \in Routes /\ replaced' \in [Routes -> Times]
  BY <1>0, <1>1 DEF Routes, Times
<1>4. ASSUME NEW r \in 0 .. route \cup {NoRoute}, NEW t \in Nat, t <= now,
             Stale(r) => replaced[r] >= t, Stale(r)'
      PROVE  replaced'[r] >= t
  <2>1. r \in 0 .. route
    BY <1>4 DEF Stale
  <2>2. CASE r = route
    BY <1>0, <1>2, <1>4, <2>2
  <2>3. CASE r # route
    BY <1>2, <1>4, <2>1, <2>3 DEF Stale
  <2> QED
    BY <2>2, <2>3
<1> QED
  BY <1>1, <1>3, <1>4

LEMMA ReplaceKeeps ==
    ASSUME CallInv, Replace, UNCHANGED <<cached, loadedAt, pickVars, callAt, usageVars>>,
           committed' \in [Processes -> BOOLEAN]
    PROVE  CallInv'
<1>0. /\ route \in Nat /\ now \in Nat /\ home \in [Calls -> Processes] /\ NoRoute \notin Nat
      /\ (\A p \in Processes : loadedAt[p] \in Nat) /\ (\A c \in Calls : got[c] \in Nat /\ began[c] \in Nat)
      /\ slow \in BOOLEAN
  BY CallTypes
<1>1. /\ route' = route + 1 /\ route' \in Routes /\ replaced' \in [Routes -> Times]
      /\ now' = now /\ slow' = slow
  BY Replaced
<1>2. ASSUME NEW p \in Processes PROVE CacheInv(p)'
  <2>1. PICK r \in 0 .. route \cup {NoRoute} : cached[p] = r
    BY DEF CallInv, CacheInv
  <2>2. /\ loadedAt[p] <= now /\ (~slow /\ Stale(r) => replaced[r] >= loadedAt[p])
    BY <2>1 DEF CallInv, CacheInv
  <2>3. ~slow /\ Stale(r)' => replaced'[r] >= loadedAt[p]
    BY <1>0, <2>2, Replaced
  <2> QED
    BY <1>0, <1>1, <2>1, <2>2, <2>3 DEF CacheInv, Stale
<1>3. ASSUME NEW c \in Calls PROVE LoadInv(c)'
  <2>1. PICK r \in 0 .. route \cup {NoRoute} : cached[home[c]] = r
    BY <1>0 DEF CallInv, CacheInv
  <2>2. callAt[c] = "stamp" /\ ~slow => (Stale(r)' => replaced'[r] >= now)
    <3> SUFFICES ASSUME callAt[c] = "stamp", ~slow PROVE Stale(r)' => replaced'[r] >= now
      OBVIOUS
    <3>1. Stale(r) => replaced[r] >= now
      BY <2>1 DEF CallInv, LoadInv
    <3>2. \A t \in Nat : (Stale(r) => replaced[r] >= t) /\ t <= now => (Stale(r)' => replaced'[r] >= t)
      BY Replaced
    <3> QED
      BY <1>0, <3>1, <3>2
  <2>3. callAt[c] = "keep" /\ ~slow => (Stale(got[c])' => replaced'[got[c]] >= now)
    <3> SUFFICES ASSUME callAt[c] = "keep", ~slow PROVE Stale(got[c])' => replaced'[got[c]] >= now
      OBVIOUS
    <3>1. PICK g \in 0 .. route : got[c] = g
      BY <1>0 DEF CallInv, LoadInv
    <3>2. Stale(g)' => replaced'[g] >= now
      BY <1>0, <3>1, Replaced DEF CallInv, LoadInv
    <3> QED
      BY <3>1, <3>2 DEF Stale, pickVars
  <2>4. /\ callAt[c] = "keep" => got[c] <= route + 1
        /\ Loading(c) /\ ~slow => began[c] = now
        /\ began[c] <= now
        /\ callAt[c] = "take" /\ ~slow => now - loadedAt[home[c]] <= TTL
    BY <1>0 DEF CallInv, LoadInv
  <2> QED
    BY <1>1, <2>1, <2>2, <2>3, <2>4 DEF LoadInv, Loading, Stale, pickVars
<1>4. ASSUME NEW c \in Calls PROVE UsageInv(c)'
  BY UsageStays DEF pickVars
<1>5. CallTypeOK'
  BY <1>1 DEF CallInv, CallTypeOK, pickVars, usageVars
<1> QED
  BY <1>2, <1>3, <1>4, <1>5 DEF CallInv

LEMMA InvalidateKeeps ==
    ASSUME CallInv, NEW q \in Processes, Invalidate(q)
    PROVE  CallInv'
<1>0. /\ cached \in [Processes -> Routes \cup {NoRoute}] /\ committed \in [Processes -> BOOLEAN]
      /\ home \in [Calls -> Processes]
  BY CallTypes
<1>1. /\ committed' = [committed EXCEPT ![q] = FALSE] /\ cached' = [cached EXCEPT ![q] = NoRoute]
      /\ UNCHANGED <<routeVars, loadedAt, pickVars, callAt, usageVars>>
  BY DEF Invalidate
<1>2. /\ cached' \in [Processes -> Routes \cup {NoRoute}] /\ committed' \in [Processes -> BOOLEAN]
      /\ cached'[q] = NoRoute /\ \A p \in Processes \ {q} : cached'[p] = cached[p]
  BY <1>0, <1>1
<1>3. ASSUME NEW p \in Processes PROVE CacheInv(p)'
  BY <1>1, <1>2 DEF CallInv, CacheInv, Stale, routeVars
<1>4. ASSUME NEW c \in Calls PROVE LoadInv(c)'
  <2>1. CASE home[c] = q
    BY <1>1, <1>2, <2>1 DEF CallInv, LoadInv, Loading, Stale, routeVars, pickVars
  <2>2. CASE home[c] # q
    BY <1>0, <1>1, <1>2, <2>2 DEF CallInv, LoadInv, Loading, Stale, routeVars, pickVars
  <2> QED
    BY <2>1, <2>2
<1>5. ASSUME NEW c \in Calls PROVE UsageInv(c)'
  BY <1>1, UsageStays
<1>6. CallTypeOK'
  BY <1>1, <1>2 DEF CallInv, CallTypeOK, routeVars, pickVars, usageVars
<1> QED
  BY <1>3, <1>4, <1>5, <1>6 DEF CallInv

LEMMA TickKeeps ==
    ASSUME CallInv, Tick
    PROVE  CallInv'
<1>0. /\ now \in Nat /\ MaxTime \in Nat /\ slow \in BOOLEAN
      /\ (\A p \in Processes : loadedAt[p] \in Nat) /\ (\A c \in Calls : began[c] \in Nat)
  BY CallTypes
<1>1. /\ now < MaxTime /\ now' = now + 1 /\ slow' = (slow \/ \E c \in Calls : Loading(c))
      /\ UNCHANGED <<route, replaced, cacheVars, pickVars, callAt, usageVars>>
  BY DEF Tick
<1>2. ASSUME NEW p \in Processes PROVE CacheInv(p)'
  BY <1>0, <1>1 DEF CallInv, CacheInv, Stale, cacheVars
<1>3. ASSUME NEW c \in Calls PROVE LoadInv(c)'
  <2>1. ~slow' => callAt[c] \notin {"load", "keep", "stamp", "take"}
    BY <1>1 DEF Loading
  <2>2. began[c] <= now /\ (callAt[c] = "keep" => got[c] <= route)
    BY DEF CallInv, LoadInv
  <2>3. /\ callAt' = callAt /\ route' = route /\ got'[c] = got[c] /\ began'[c] = began[c]
        /\ began[c] <= now'
    BY <1>0, <1>1, <2>2 DEF pickVars
  <2> QED
    BY <2>1, <2>2, <2>3 DEF LoadInv, Loading
<1>4. ASSUME NEW c \in Calls PROVE UsageInv(c)'
  BY <1>1, UsageStays
<1>5. now' \in Times /\ slow' \in BOOLEAN
  BY <1>0, <1>1 DEF Times, Loading
<1>6. CallTypeOK'
  BY <1>1, <1>5 DEF CallInv, CallTypeOK, cacheVars, pickVars, usageVars
<1> QED
  BY <1>2, <1>3, <1>4, <1>6 DEF CallInv

-----------------------------------------------------------------------------

\* The steps of model_for, and the request that follows it.
LEMMA LookKeeps ==
    ASSUME CallInv, NEW c \in Calls, Look(c)
    PROVE  CallInv'
<1>0. /\ callAt \in [Calls -> {"idle", "take", "load", "keep", "stamp", "send", "wait", "end"}]
      /\ began \in [Calls -> Times] /\ now \in Times /\ home \in [Calls -> Processes]
      /\ now \in Nat /\ TTL \in Nat /\ \A p \in Processes : loadedAt[p] \in Nat
  BY CallTypes DEF Times
<1>1. /\ callAt[c] = "idle" /\ began' = [began EXCEPT ![c] = now]
      /\ UNCHANGED <<routeVars, cacheVars, home, streams, got, usageVars>>
  BY DEF Look
<1>2. PICK point \in {"load", "take"} :
        callAt' = [callAt EXCEPT ![c] = point] /\ (point = "take" => ~(now - loadedAt[home[c]] > TTL))
  BY DEF Look, Point, Expired
<1>3. /\ callAt' \in [Calls -> {"idle", "take", "load", "keep", "stamp", "send", "wait", "end"}]
      /\ began' \in [Calls -> Times] /\ callAt'[c] = point /\ began'[c] = now
      /\ \A d \in Calls \ {c} : callAt'[d] = callAt[d] /\ began'[d] = began[d]
  BY <1>0, <1>1, <1>2
<1>4. ASSUME NEW p \in Processes PROVE CacheInv(p)'
  BY <1>1 DEF CallInv, CacheInv, Stale, routeVars, cacheVars
<1>5. ASSUME NEW d \in Calls PROVE LoadInv(d)'
  <2>1. CASE d = c
    <3>1. point = "take" => now - loadedAt[home[c]] <= TTL
      BY <1>0, <1>2
    <3> QED
      BY <1>0, <1>1, <1>3, <2>1, <3>1 DEF LoadInv, Loading, routeVars, cacheVars
  <2>2. CASE d # c
    BY <1>1, <1>3, <2>2 DEF CallInv, LoadInv, Loading, Stale, routeVars, cacheVars
  <2> QED
    BY <2>1, <2>2
<1>6. ASSUME NEW d \in Calls PROVE UsageInv(d)'
  BY <1>1, <1>3, UsageStays
<1>7. CallTypeOK'
  BY <1>1, <1>3 DEF CallInv, CallTypeOK, routeVars, cacheVars, usageVars
<1> QED
  BY <1>4, <1>5, <1>6, <1>7 DEF CallInv

LEMMA LoadKeeps ==
    ASSUME CallInv, NEW c \in Calls, Load(c)
    PROVE  CallInv'
<1>0. /\ callAt \in [Calls -> {"idle", "take", "load", "keep", "stamp", "send", "wait", "end"}]
      /\ got \in [Calls -> Routes] /\ route \in Routes /\ 0 \in Routes /\ route \in Nat
  BY CallTypes DEF Routes
<1>1. /\ callAt[c] = "load" /\ callAt' = [callAt EXCEPT ![c] = "keep"]
      /\ UNCHANGED <<routeVars, cacheVars, home, streams, began, usageVars>>
  BY DEF Load, Point
<1>2. PICK r \in {route, 0} : got' = [got EXCEPT ![c] = r]
  BY DEF Load
<1>3. /\ callAt' \in [Calls -> {"idle", "take", "load", "keep", "stamp", "send", "wait", "end"}]
      /\ got' \in [Calls -> Routes] /\ callAt'[c] = "keep" /\ got'[c] = r
      /\ \A d \in Calls \ {c} : callAt'[d] = callAt[d] /\ got'[d] = got[d]
  BY <1>0, <1>1, <1>2
<1>4. ASSUME NEW p \in Processes PROVE CacheInv(p)'
  BY <1>1 DEF CallInv, CacheInv, Stale, routeVars, cacheVars
<1>5. ASSUME NEW d \in Calls PROVE LoadInv(d)'
  <2>1. CASE d = c
    BY <1>0, <1>1, <1>3, <2>1 DEF CallInv, LoadInv, Loading, Stale, routeVars, cacheVars
  <2>2. CASE d # c
    BY <1>1, <1>3, <2>2 DEF CallInv, LoadInv, Loading, Stale, routeVars, cacheVars
  <2> QED
    BY <2>1, <2>2
<1>6. ASSUME NEW d \in Calls PROVE UsageInv(d)'
  BY <1>1, <1>3, UsageStays
<1>7. CallTypeOK'
  BY <1>1, <1>3 DEF CallInv, CallTypeOK, routeVars, cacheVars, usageVars
<1> QED
  BY <1>4, <1>5, <1>6, <1>7 DEF CallInv

LEMMA KeepKeeps ==
    ASSUME CallInv, NEW c \in Calls, Keep(c)
    PROVE  CallInv'
<1>0. /\ callAt \in [Calls -> {"idle", "take", "load", "keep", "stamp", "send", "wait", "end"}]
      /\ cached \in [Processes -> Routes \cup {NoRoute}] /\ got \in [Calls -> Routes]
      /\ home \in [Calls -> Processes] /\ route \in Nat /\ got[c] \in Nat /\ now \in Nat /\ MaxRoute \in Nat
      /\ \A p \in Processes : loadedAt[p] \in Nat
  BY CallTypes
<1>1. /\ callAt[c] = "keep" /\ callAt' = [callAt EXCEPT ![c] = "stamp"]
      /\ cached' = [cached EXCEPT ![home[c]] = got[c]]
      /\ UNCHANGED <<routeVars, loadedAt, committed, pickVars, usageVars>>
  BY DEF Keep, Point
<1>2. /\ callAt' \in [Calls -> {"idle", "take", "load", "keep", "stamp", "send", "wait", "end"}]
      /\ cached' \in [Processes -> Routes \cup {NoRoute}]
      /\ callAt'[c] = "stamp" /\ cached'[home[c]] = got[c]
      /\ \A d \in Calls \ {c} : callAt'[d] = callAt[d]
      /\ \A p \in Processes \ {home[c]} : cached'[p] = cached[p]
  BY <1>0, <1>1
<1>3. /\ got[c] \in 0 .. route
      /\ ~slow /\ Stale(got[c]) => replaced[got[c]] >= now
  BY <1>0, <1>1 DEF CallInv, LoadInv
<1>4. ASSUME NEW p \in Processes PROVE CacheInv(p)'
  <2>1. CASE p = home[c]
    <3>1. loadedAt[p] <= now
      BY DEF CallInv, CacheInv
    <3>2. replaced[got[c]] \in Nat
      BY <1>0, CallTypes
    <3>3. ~slow /\ Stale(got[c]) => replaced[got[c]] >= loadedAt[p]
      BY <1>0, <1>3, <3>1, <3>2
    <3> QED
      BY <1>1, <1>2, <1>3, <2>1, <3>1, <3>3 DEF CacheInv, Stale, routeVars
  <2>2. CASE p # home[c]
    BY <1>1, <1>2, <2>2 DEF CallInv, CacheInv, Stale, routeVars
  <2> QED
    BY <2>1, <2>2
<1>5. ASSUME NEW d \in Calls PROVE LoadInv(d)'
  <2>1. callAt'[d] = "stamp" /\ ~slow /\ Stale(cached'[home[d]]) => replaced[cached'[home[d]]] >= now
    <3>1. CASE home[d] = home[c]
      BY <1>2, <1>3, <3>1
    <3>2. CASE home[d] # home[c]
      BY <1>0, <1>2, <3>2 DEF CallInv, LoadInv
    <3> QED
      BY <3>1, <3>2
  <2>2. CASE d = c
    BY <1>1, <1>2, <2>1, <2>2 DEF CallInv, LoadInv, Loading, Stale, routeVars, pickVars
  <2>3. CASE d # c
    BY <1>1, <1>2, <2>1, <2>3 DEF CallInv, LoadInv, Loading, Stale, routeVars, pickVars
  <2> QED
    BY <2>2, <2>3
<1>6. ASSUME NEW d \in Calls PROVE UsageInv(d)'
  BY <1>1, <1>2, UsageStays
<1>7. CallTypeOK'
  BY <1>1, <1>2 DEF CallInv, CallTypeOK, routeVars, pickVars, usageVars
<1> QED
  BY <1>4, <1>5, <1>6, <1>7 DEF CallInv

LEMMA StampKeeps ==
    ASSUME CallInv, NEW c \in Calls, Stamp(c)
    PROVE  CallInv'
<1>0. /\ callAt \in [Calls -> {"idle", "take", "load", "keep", "stamp", "send", "wait", "end"}]
      /\ loadedAt \in [Processes -> Times] /\ began \in [Calls -> Times]
      /\ home \in [Calls -> Processes] /\ now \in Nat /\ TTL \in Nat
      /\ slow \in BOOLEAN /\ began[c] \in Nat
  BY CallTypes
<1>1. /\ callAt[c] = "stamp" /\ callAt' = [callAt EXCEPT ![c] = "take"]
      /\ loadedAt' = [loadedAt EXCEPT ![home[c]] = began[c]]
      /\ UNCHANGED <<routeVars, cached, committed, pickVars, usageVars>>
  BY DEF Stamp, Point
<1>2. /\ callAt' \in [Calls -> {"idle", "take", "load", "keep", "stamp", "send", "wait", "end"}]
      /\ loadedAt' \in [Processes -> Times]
      /\ callAt'[c] = "take" /\ loadedAt'[home[c]] = began[c]
      /\ \A d \in Calls \ {c} : callAt'[d] = callAt[d]
      /\ \A p \in Processes \ {home[c]} : loadedAt'[p] = loadedAt[p]
  BY <1>0, <1>1
<1>3. /\ began[c] <= now /\ (~slow => began[c] = now)
      /\ ~slow /\ Stale(cached[home[c]]) => replaced[cached[home[c]]] >= now
  BY <1>1 DEF CallInv, LoadInv, Loading
<1>4. ASSUME NEW p \in Processes PROVE CacheInv(p)'
  <2>1. CASE p = home[c]
    <3>1. cached[p] \in 0 .. route \cup {NoRoute}
      BY DEF CallInv, CacheInv
    <3> QED
      BY <1>1, <1>2, <1>3, <2>1, <3>1 DEF CacheInv, Stale, routeVars
  <2>2. CASE p # home[c]
    BY <1>1, <1>2, <2>2 DEF CallInv, CacheInv, Stale, routeVars
  <2> QED
    BY <2>1, <2>2
<1>5. ASSUME NEW d \in Calls PROVE LoadInv(d)'
  <2>1. callAt'[d] = "take" /\ ~slow => now - loadedAt'[home[d]] <= TTL
    <3> SUFFICES ASSUME callAt'[d] = "take", ~slow PROVE now - loadedAt'[home[d]] <= TTL
      OBVIOUS
    <3>1. CASE home[d] = home[c]
      BY <1>0, <1>2, <1>3, <3>1
    <3>2. CASE home[d] # home[c]
      BY <1>0, <1>2, <3>2 DEF CallInv, LoadInv
    <3> QED
      BY <3>1, <3>2
  <2>2. CASE d = c
    BY <1>1, <1>2, <1>3, <2>1, <2>2 DEF CallInv, LoadInv, Loading, Stale, routeVars, pickVars
  <2>3. CASE d # c
    BY <1>1, <1>2, <2>1, <2>3 DEF CallInv, LoadInv, Loading, Stale, routeVars, pickVars
  <2> QED
    BY <2>2, <2>3
<1>6. ASSUME NEW d \in Calls PROVE UsageInv(d)'
  BY <1>1, <1>2, UsageStays
<1>7. CallTypeOK'
  BY <1>1, <1>2 DEF CallInv, CallTypeOK, routeVars, pickVars, usageVars
<1> QED
  BY <1>4, <1>5, <1>6, <1>7 DEF CallInv

LEMMA TakeKeeps ==
    ASSUME CallInv, NEW c \in Calls, Take(c)
    PROVE  CallInv'
<1>0. /\ callAt \in [Calls -> {"idle", "take", "load", "keep", "stamp", "send", "wait", "end"}]
      /\ cached \in [Processes -> Routes \cup {NoRoute}] /\ got \in [Calls -> Routes]
      /\ home \in [Calls -> Processes]
  BY CallTypes
<1>1. /\ callAt[c] = "take" /\ callAt' = [callAt EXCEPT ![c] = "send"]
      /\ got' = [got EXCEPT ![c] = cached[home[c]]] /\ cached[home[c]] \in Routes
      /\ UNCHANGED <<routeVars, cacheVars, home, streams, began, usageVars>>
  BY <1>0 DEF Take, Point, Refused
<1>2. /\ callAt' \in [Calls -> {"idle", "take", "load", "keep", "stamp", "send", "wait", "end"}]
      /\ got' \in [Calls -> Routes] /\ callAt'[c] = "send"
      /\ \A d \in Calls \ {c} : callAt'[d] = callAt[d] /\ got'[d] = got[d]
  BY <1>0, <1>1
<1>3. ASSUME NEW p \in Processes PROVE CacheInv(p)'
  BY <1>1 DEF CallInv, CacheInv, Stale, routeVars, cacheVars
<1>4. ASSUME NEW d \in Calls PROVE LoadInv(d)'
  <2>1. CASE d = c
    BY <1>1, <1>2, <2>1 DEF CallInv, LoadInv, Loading, routeVars
  <2>2. CASE d # c
    BY <1>1, <1>2, <2>2 DEF CallInv, LoadInv, Loading, Stale, routeVars, cacheVars
  <2> QED
    BY <2>1, <2>2
<1>5. ASSUME NEW d \in Calls PROVE UsageInv(d)'
  BY <1>1, <1>2, UsageStays
<1>6. CallTypeOK'
  BY <1>1, <1>2 DEF CallInv, CallTypeOK, routeVars, cacheVars, usageVars
<1> QED
  BY <1>3, <1>4, <1>5, <1>6 DEF CallInv

\* An end of the call, refused, answered or given up, and its event, stored or lost.
LEMMA EndsKeep ==
    ASSUME CallInv, NEW c \in Calls, callAt[c] \in {"take", "wait"},
           UNCHANGED <<routeVars, cacheVars, pickVars, sent>>, callAt' = [callAt EXCEPT ![c] = "end"],
           NEW what \in {"nothing", "part", "text", "failure"}, heard' = [heard EXCEPT ![c] = what],
           \/ callAt[c] = "take" /\ event' = event /\ unrecorded' = unrecorded
           \/ callAt[c] = "wait" /\ event' = event /\ unrecorded' = unrecorded \cup {c}
           \/ /\ callAt[c] = "wait" /\ unrecorded' = unrecorded
              /\ \E e \in Events : /\ event' = [event EXCEPT ![c] = e] /\ e.status # "none"
                                   /\ what = "text" => e.status = "success"
    PROVE  CallInv'
<1>0. /\ callAt \in [Calls -> {"idle", "take", "load", "keep", "stamp", "send", "wait", "end"}]
      /\ event \in [Calls -> Events] /\ heard \in [Calls -> {"nothing", "part", "text", "failure"}]
      /\ sent \subseteq Calls /\ unrecorded \subseteq Calls
  BY CallTypes
<1>1. /\ callAt' \in [Calls -> {"idle", "take", "load", "keep", "stamp", "send", "wait", "end"}]
      /\ heard' \in [Calls -> {"nothing", "part", "text", "failure"}] /\ event' \in [Calls -> Events]
      /\ unrecorded' \subseteq Calls
      /\ callAt'[c] = "end" /\ heard'[c] = what
      /\ \A d \in Calls \ {c} : /\ callAt'[d] = callAt[d] /\ heard'[d] = heard[d] /\ event'[d] = event[d]
                                /\ (d \in unrecorded') = (d \in unrecorded)
  BY <1>0
<1>2. event[c].status = "none" /\ c \notin unrecorded /\ (c \in sent <=> callAt[c] = "wait")
  BY DEF CallInv, UsageInv
<1>3. UsageInv(c)'
  <2>1. CASE callAt[c] = "take" /\ event' = event /\ unrecorded' = unrecorded
    BY <1>1, <1>2, <2>1 DEF UsageInv
  <2>2. CASE callAt[c] = "wait" /\ event' = event /\ unrecorded' = unrecorded \cup {c}
    BY <1>1, <1>2, <2>2 DEF UsageInv
  <2>3. CASE /\ callAt[c] = "wait" /\ unrecorded' = unrecorded
             /\ \E e \in Events : /\ event' = [event EXCEPT ![c] = e] /\ e.status # "none"
                                  /\ what = "text" => e.status = "success"
    <3>1. event'[c].status # "none" /\ (what = "text" => event'[c].status = "success")
      BY <1>0, <2>3
    <3> QED
      BY <1>1, <1>2, <2>3, <3>1 DEF UsageInv
  <2> QED
    BY <2>1, <2>2, <2>3
<1>4. ASSUME NEW d \in Calls \ {c} PROVE UsageInv(d)'
  BY <1>1 DEF CallInv, UsageInv
<1>5. (\A p \in Processes : CacheInv(p)') /\ (\A d \in Calls : LoadInv(d)')
  BY <1>1, RoutesStay
<1>6. CallTypeOK'
  BY <1>1 DEF CallInv, CallTypeOK, routeVars, cacheVars, pickVars
<1> QED
  BY <1>3, <1>4, <1>5, <1>6 DEF CallInv

LEMMA RefuseKeeps ==
    ASSUME CallInv, NEW c \in Calls, Refuse(c)
    PROVE  CallInv'
<1>1. /\ callAt[c] = "take" /\ heard' = [heard EXCEPT ![c] = "failure"]
      /\ callAt' = [callAt EXCEPT ![c] = "end"]
      /\ UNCHANGED <<routeVars, cacheVars, pickVars, event, sent, unrecorded>>
  BY DEF Refuse, Answered, Point
<1> QED
  BY <1>1, EndsKeep

LEMMA SendKeeps ==
    ASSUME CallInv, NEW c \in Calls, Send(c)
    PROVE  CallInv'
<1>1. /\ callAt[c] = "send" /\ callAt' = [callAt EXCEPT ![c] = "wait"] /\ sent' = sent \cup {c}
      /\ UNCHANGED <<routeVars, cacheVars, pickVars, event, heard, unrecorded>>
  BY DEF Send, Point
<1>2. /\ callAt' \in [Calls -> {"idle", "take", "load", "keep", "stamp", "send", "wait", "end"}]
      /\ callAt'[c] = "wait" /\ sent' \subseteq Calls
      /\ \A d \in Calls \ {c} : callAt'[d] = callAt[d] /\ (d \in sent' <=> d \in sent)
  BY <1>1, CallTypes
<1>3. (\A p \in Processes : CacheInv(p)') /\ (\A d \in Calls : LoadInv(d)')
  BY <1>1, <1>2, RoutesStay
<1>4. ASSUME NEW d \in Calls PROVE UsageInv(d)'
  <2>1. CASE d = c
    BY <1>1, <1>2, <2>1 DEF CallInv, UsageInv
  <2>2. CASE d # c
    BY <1>1, <1>2, <2>2 DEF CallInv, UsageInv
  <2> QED
    BY <2>1, <2>2
<1>5. CallTypeOK'
  BY <1>1, <1>2 DEF CallInv, CallTypeOK, routeVars, cacheVars, pickVars
<1> QED
  BY <1>3, <1>4, <1>5 DEF CallInv

LEMMA AnswerKeeps ==
    ASSUME CallInv, NEW c \in Calls, Succeed(c) \/ SucceedOddly(c) \/ FailCall(c) \/ Cancel(c)
    PROVE  CallInv'
<1>1. /\ callAt[c] = "wait" /\ callAt' = [callAt EXCEPT ![c] = "end"]
      /\ UNCHANGED <<routeVars, cacheVars, pickVars, sent>>
  BY DEF Succeed, SucceedOddly, FailCall, Cancel, Answered, Point
<1>2. CASE Succeed(c)
  <2>1. PICK what \in {"text", "failure"} : heard' = [heard EXCEPT ![c] = what]
    BY <1>2 DEF Succeed, Answered
  <2>2. \/ event' = event /\ unrecorded' = unrecorded \cup {c}
        \/ /\ unrecorded' = unrecorded
           /\ \E priced \in BOOLEAN : event' = [event EXCEPT ![c] = [status |-> "success", priced |-> priced]]
    BY <1>2 DEF Succeed, Record
  <2>3. ASSUME NEW priced \in BOOLEAN
        PROVE  [status |-> "success", priced |-> priced] \in Events
    BY DEF Events
  <2> QED
    BY <1>1, <2>1, <2>2, <2>3, EndsKeep
<1>3. CASE FailCall(c)
  <2>1. PICK what \in {"failure", "part"} : heard' = [heard EXCEPT ![c] = what]
    BY <1>3 DEF FailCall, Answered
  <2>2. \/ event' = event /\ unrecorded' = unrecorded \cup {c}
        \/ /\ unrecorded' = unrecorded
           /\ \E priced \in BOOLEAN : event' = [event EXCEPT ![c] = [status |-> "error", priced |-> priced]]
    BY <1>3 DEF FailCall, Record
  <2>3. ASSUME NEW priced \in BOOLEAN
        PROVE  [status |-> "error", priced |-> priced] \in Events
    BY DEF Events
  <2> QED
    BY <1>1, <2>1, <2>2, <2>3, EndsKeep
<1>4. CASE SucceedOddly(c) \/ Cancel(c)
  <2>1. PICK what \in {"failure", "part", "nothing"} : heard' = [heard EXCEPT ![c] = what]
    BY <1>4 DEF SucceedOddly, Cancel, Answered
  <2>2. event' = event /\ unrecorded' = unrecorded \cup {c}
    BY <1>4 DEF SucceedOddly, Cancel
  <2> QED
    BY <1>1, <2>1, <2>2, EndsKeep
<1> QED
  BY <1>2, <1>3, <1>4

LEMMA CallNextInv == CallInv /\ [CallNext]_modelVars => CallInv'
<1> SUFFICES ASSUME CallInv, [CallNext]_modelVars PROVE CallInv'
  OBVIOUS
<1>1. CASE UNCHANGED modelVars
  BY <1>1 DEF modelVars, routeVars, cacheVars, pickVars, usageVars, CallInv, CallTypeOK, CacheInv, LoadInv,
              UsageInv, Stale, Loading
<1>2. ASSUME NEW p \in Processes, Choose(p) PROVE CallInv'
  <2>1. committed' \in [Processes -> BOOLEAN]
    BY <1>2, CallTypes DEF Choose
  <2> QED
    BY <1>2, <2>1, ReplaceKeeps DEF Choose
<1>3. CASE Bootstrap
  BY <1>3, ReplaceKeeps, CallTypes DEF Bootstrap, cacheVars
<1>4. CASE CallNext
  BY <1>2, <1>3, <1>4, InvalidateKeeps, TickKeeps, LookKeeps, LoadKeeps, KeepKeeps, StampKeeps, TakeKeeps,
     RefuseKeeps, SendKeeps, AnswerKeeps
  DEF CallNext, PickNext, RequestNext
<1> QED
  BY <1>1, <1>4

\* The events and the events lost are apart, and together they are the requests ended.
LEMMA CallsAccounted == CallInv => AttemptsAreAccounted
<1> SUFFICES ASSUME CallInv PROVE AttemptsAreAccounted
  OBVIOUS
<1> DEFINE stored == {c \in Calls : event[c].status # "none"}
           ended  == {c \in sent : callAt[c] = "end"}
<1>1. stored \cap unrecorded = {} /\ stored \cup unrecorded = ended
  BY CallTypes DEF CallInv, UsageInv
<1>2. IsFiniteSet(stored) /\ IsFiniteSet(unrecorded)
  BY CallAssumption, CallTypes, FS_Subset
<1> HIDE DEF stored, ended
<1>3. Cardinality(ended) = Cardinality(stored) + Cardinality(unrecorded) - Cardinality(stored \cap unrecorded)
  BY <1>1, <1>2, FS_Union
<1>4. /\ Cardinality(stored \cap unrecorded) = 0 /\ Cardinality(stored) \in Nat
      /\ Cardinality(unrecorded) \in Nat
  BY <1>1, <1>2, FS_EmptySet, FS_CardinalityType
<1>5. Cardinality(stored) + Cardinality(unrecorded) = Cardinality(ended)
  BY <1>3, <1>4
<1>6. \A c \in Calls : heard[c] = "text" => event[c].status # "error"
  BY DEF CallInv, UsageInv
<1> QED
  BY <1>5, <1>6 DEF AttemptsAreAccounted, Requests, stored, ended

\* A call that goes out takes the route of a cache that has not expired, and one replaced
\* since was replaced after that cache was loaded.
LEMMA TakesYoung ==
    ASSUME CallInv, CallNext, NEW c \in Calls, callAt[c] = "take", callAt'[c] = "send", ~slow, got'[c] # route
    PROVE  now - replaced[got'[c]] <= TTL
<1>1. Take(c)
  <2>1. \A p : Choose(p) \/ Invalidate(p) \/ Bootstrap \/ Tick => callAt' = callAt
    BY DEF Choose, Invalidate, Bootstrap, Tick
  <2>2. callAt \in [Calls -> {"idle", "take", "load", "keep", "stamp", "send", "wait", "end"}]
    BY CallTypes
  <2>3. ASSUME NEW d \in Calls, Look(d) \/ Load(d) \/ Keep(d) \/ Stamp(d) \/ Refuse(d) PROVE FALSE
    BY <2>2, <2>3 DEF Look, Load, Keep, Stamp, Refuse, Answered, Point
  <2>4. ASSUME NEW d \in Calls, Send(d) \/ Succeed(d) \/ SucceedOddly(d) \/ FailCall(d) \/ Cancel(d)
        PROVE  FALSE
    BY <2>2, <2>4 DEF Send, Succeed, SucceedOddly, FailCall, Cancel, Answered, Point
  <2>5. ASSUME NEW d \in Calls, Take(d) PROVE d = c
    BY <2>2, <2>5 DEF Take, Point
  <2> QED
    BY <2>1, <2>3, <2>4, <2>5 DEF CallNext, PickNext, RequestNext
<1>2. PICK r \in 0 .. route \cup {NoRoute} : cached[home[c]] = r
  BY CallTypes DEF CallInv, CacheInv
<1>3. got'[c] = r /\ r \notin {NoRoute, 0}
  BY <1>1, <1>2, CallTypes DEF Take, Refused
<1>4. Stale(r) /\ r \in 0 .. route
  BY <1>2, <1>3 DEF Stale
<1>5. replaced[r] >= loadedAt[home[c]] /\ now - loadedAt[home[c]] <= TTL
  BY <1>2, <1>4, CallTypes DEF CallInv, CacheInv, LoadInv
<1>6. replaced[r] \in Nat /\ loadedAt[home[c]] \in Nat /\ now \in Nat /\ TTL \in Nat
  BY <1>4, CallTypes
<1> QED
  BY <1>3, <1>5, <1>6

-----------------------------------------------------------------------------
(* The components, each with any number of sessions, rows and steps *)

AutoPlanSpec == AutoPlanInit /\ [][AutoPlanNext]_autoVars
AlertSpec    == AlertInit /\ [][AlertNext]_alertVars
NotifySpec   == NoteInit /\ [][NoteNext]_noteVars
InsightSpec  == InsightInit /\ [][InsightNext]_insightVars
CallSpec     == CallInit /\ [][CallNext]_modelVars

LEMMA AutoInvariance == AutoPlanSpec => []AutoInv
BY AutoInitInv, AutoNextInv, PTL DEF AutoPlanSpec

LEMMA AlertInvariance == AlertSpec => []AlertInv
BY AlertInitInv, AlertNextInv, PTL DEF AlertSpec

LEMMA NoteInvariance == NotifySpec => []NoteInv
BY NoteInitInv, NoteNextInv, PTL DEF NotifySpec

LEMMA InsightInvariance == InsightSpec => []InsightInv
BY InsightInitInv, InsightNextInv, PTL DEF InsightSpec

LEMMA CallInvariance == CallSpec => []CallInv
BY CallInitInv, CallNextInv, PTL DEF CallSpec

\* scheduler_service.py, run_auto_plan: however many processes sweep, a month of a client that no
\* crash and no overlap has made unsure is drafted once.
THEOREM MonthDraftedOnce == AutoPlanSpec => []DraftedOnce
BY AutoInvariance, AutoDrafted, PTL

\* alert_service.py, evaluate: an evaluation that none other crosses leaves a live alert for each
\* breach and for nothing else, and a campaign's check has one live row.
THEOREM AlertsMatchBreaches == AlertSpec => []AlertsFollowBreaches
BY AlertInvariance, AlertsFollow, PTL

\* notification_service.py, notify_client_team, and notification_email_service.py,
\* send_pending_emails: one unread row per user and signal unless two notifications overlapped,
\* one mail per row unless it was lost track of.
THEOREM NotesToldOnce == NotifySpec => []ToldOnce
BY NoteInvariance, NotesTold, PTL

\* client_rollup.py, refresh_client_rollups: the totals of a client are those of its facts after
\* every pull that no other was committed during, whatever they had drifted to.
THEOREM TotalsAreFacts == InsightSpec => []TotalsFollowFacts
<1>1. InsightInv => TotalsFollowFacts
  BY DEF InsightInv
<1> QED
  BY <1>1, InsightInvariance, PTL

\* analytics_breakdown_repository.py, replace_breakdowns, and integration_service.py, sync: the
\* breakdowns of a connector are those of one pull, unless another replaced them meanwhile, and
\* a sync that counts as done has its facts stored, whoever failed its insights.
THEOREM PullsAreWhole == InsightSpec => []SyncsAreWhole
<1>1. InsightInv => SyncsAreWhole
  BY InsightsWhole DEF SyncsAreWhole
<1> QED
  BY <1>1, InsightInvariance, PTL

\* openrouter.py and usage.py: every request sent and ended is an event or a known loss, and no
\* caller has an answer of an event that says error.
THEOREM AttemptsCounted == CallSpec => []AttemptsAreAccounted
BY CallInvariance, CallsAccounted, PTL

\* model_router.py, model_for: whatever loads, drops and changes cross, a call whose look-up is
\* not slow goes out with a replaced route only within the life of a cache since it was replaced.
THEOREM RoutesExpire == CallSpec => OldRoutesExpire
<1>1. CallInv /\ [CallNext]_modelVars =>
        [\A c \in Calls : callAt[c] = "take" /\ callAt'[c] = "send" /\ ~slow /\ got'[c] # route
              => now - replaced[got'[c]] <= TTL]_modelVars
  BY TakesYoung
<1> QED
  BY <1>1, CallInvariance, PTL DEF CallSpec, OldRoutesExpire

-----------------------------------------------------------------------------
(* The composition *)

\* Each component runs under its own specification while the others stand still.
LEMMA ServicesRun ==
    Spec => ReportSpec /\ CallSpec /\ InsightSpec /\ AlertSpec /\ AutoPlanSpec /\ NotifySpec
<1>1. Init => ReportInit /\ CallInit /\ InsightInit /\ AlertInit /\ AutoPlanInit /\ NoteInit
  BY DEF Init
<1>2. [Next]_vars =>
         /\ [ReportNext]_reportVars /\ [CallNext]_modelVars /\ [InsightNext]_insightVars
         /\ [AlertNext]_alertVars /\ [AutoPlanNext]_autoVars /\ [NoteNext]_noteVars
  BY DEF Next, vars, people, numbers, CallNext
<1> QED
  BY <1>1, <1>2, PTL DEF Spec, ReportSpec, CallSpec, InsightSpec, AlertSpec, AutoPlanSpec, NotifySpec

\* The rows, caches, sweeps and events of the six components have their types.
THEOREM ServicesType == Spec => []ServicesTypeOK
<1>1. ReportTypeOK /\ CallInv /\ InsightInv /\ AlertInv /\ AutoInv /\ NoteInv => ServicesTypeOK
  BY DEF CallInv, InsightInv, AlertInv, AutoInv, NoteInv, ServicesTypeOK
<1> QED
  BY <1>1, ServicesRun, ReportTypeCorrect, CallInvariance, InsightInvariance, AlertInvariance,
     AutoInvariance, NoteInvariance, PTL

\* scheduler_service.py and notification_email_service.py: what a sweep does for a client or a
\* user it does once, however many processes sweep, but for the ways the properties name.
THEOREM SweepsOnce == Spec => []SweepsActOnce
<1>1. DraftedOnce /\ ToldOnce => SweepsActOnce
  BY DEF SweepsActOnce
<1> QED
  BY <1>1, ServicesRun, MonthDraftedOnce, NotesToldOnce, PTL
=============================================================================

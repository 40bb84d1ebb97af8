------------------------------ MODULE KpiAlerts ------------------------------
(***************************************************************************)
(* The KPI watchdog of one client (services/alert_service.py,              *)
(* campaign_service.py, run_watchdog_sweep of scheduler_service.py).  An   *)
(* evaluation compares every campaign with its targets and opens, updates  *)
(* or resolves alerts; people acknowledge and resolve them and edit the    *)
(* campaigns meanwhile.  Figures are left out: a campaign is in breach of  *)
(* some checks.  The notification that follows an evaluation is a signal   *)
(* of NotificationDigest.                                                  *)
(***************************************************************************)
EXTENDS Naturals, FiniteSets

CONSTANTS Campaigns,  \* ids of campaigns
          Checks,     \* the checks that can be in breach, a subset of Metrics
          Watchers,   \* sessions that evaluate: sweeps, and requests
          MaxAlerts   \* bound on rows of alerts

\* The checks of _findings_for.
Metrics == {"cpl", "ctr", "budget", "roas"}

ASSUME AlertAssumption ==
    MaxAlerts \in Nat /\ Checks \subseteq Metrics /\ Campaigns # {} /\ Checks # {}

Keys   == Campaigns \X Checks
Alerts == 1 .. MaxAlerts

VARIABLES
    \* campaigns: those there are, and the checks they are in breach of
    campaigns, breaches,
    \* alerts: rec_key of each row, status
    about, status,
    \* each evaluation: control point, findings, live rows it has read by rec_key
    eval, findings, live,
    \* history: evaluations something else was committed during; rec_keys that an overlap
    \* or an acknowledged old alert may have given two live rows; the breaches that the
    \* last evaluation, if nothing crossed it, has left as they are
    crossed, twinned, settled

alertRows == <<campaigns, breaches, about, status>>
evalVars  == <<eval, findings, live>>
alertVars == <<alertRows, evalVars, crossed, twinned, settled>>

LiveStatuses == {"open", "acknowledged"}
NoRow        == 0

\* live_for_client, and the rows of one rec_key among them.
LiveFor(k)  == {a \in Alerts : status[a] \in LiveStatuses /\ about[a] = k}
Unused      == {a \in Alerts : status[a] = "none"}
NextAlerts(n) == {a \in Unused : a <= MaxAlerts - Cardinality(Unused) + n}

AlertTypeOK ==
    /\ campaigns \subseteq Campaigns /\ breaches \subseteq Keys
    /\ about \in [Alerts -> Keys]
    /\ status \in [Alerts -> LiveStatuses \cup {"none", "resolved", "deleted"}]
    /\ eval \in [Watchers -> {"idle", "rows", "commit"}]
    /\ findings \in [Watchers -> SUBSET Keys]
    /\ live \in [Watchers -> [Keys -> Alerts \cup {NoRow}]]
    /\ crossed \subseteq Watchers /\ twinned \subseteq Keys /\ settled \subseteq Keys

AlertInit ==
    /\ campaigns = Campaigns /\ breaches = {}
    /\ about = [a \in Alerts |-> CHOOSE k \in Keys : TRUE]
    /\ status = [a \in Alerts |-> "none"]
    /\ eval = [w \in Watchers |-> "idle"]
    /\ findings = [w \in Watchers |-> {}]
    /\ live = [w \in Watchers |-> [k \in Keys |-> NoRow]]
    /\ crossed = {} /\ twinned = {} /\ settled = {}

-----------------------------------------------------------------------------
(* The campaigns *)

\* What others commit crosses the evaluations under way.
Cross == crossed' = {w \in Watchers : eval[w] # "idle"}

\* The targets, budget and metrics of a campaign are edited: any of its checks may be in
\* breach now, or no longer.
UpdateCampaign(c) ==
    /\ c \in campaigns
    /\ \E bad \in SUBSET Checks : breaches' = {k \in breaches : k[1] # c} \cup ({c} \X bad)
    /\ breaches' # breaches
    /\ settled' = settled \ ({c} \X Checks)
    /\ Cross
    /\ UNCHANGED <<campaigns, about, status, evalVars, twinned>>

\* The alerts of a campaign go with it.
DeleteCampaign(c) ==
    /\ c \in campaigns
    /\ campaigns' = campaigns \ {c}
    /\ breaches' = {k \in breaches : k[1] # c}
    /\ status' = [a \in Alerts |-> IF about[a][1] = c /\ status[a] # "none" THEN "deleted" ELSE status[a]]
    /\ settled' = settled \ ({c} \X Checks)
    /\ Cross
    /\ UNCHANGED <<about, evalVars, twinned>>

-----------------------------------------------------------------------------
(* The people *)

Mark(a, s) ==
    /\ status' = [status EXCEPT ![a] = s]
    /\ settled' = settled \ {about[a]}
    /\ Cross
    /\ UNCHANGED <<campaigns, breaches, about, evalVars>>

\* Whatever its status: acknowledging a resolved alert makes it live again.
Acknowledge(a) ==
    /\ status[a] \in LiveStatuses \cup {"resolved"}
    /\ Mark(a, "acknowledged")
    /\ twinned' = IF status[a] = "resolved" /\ LiveFor(about[a]) # {} THEN twinned \cup {about[a]}
                  ELSE twinned

ResolveAlert(a) ==
    /\ status[a] \in LiveStatuses \cup {"resolved"}
    /\ Mark(a, "resolved")
    /\ UNCHANGED twinned

-----------------------------------------------------------------------------
(* An evaluation *)

ReadCampaigns(w) ==
    /\ eval[w] = "idle"
    /\ findings' = [findings EXCEPT ![w] = breaches]
    /\ eval' = [eval EXCEPT ![w] = "rows"]
    /\ crossed' = crossed \ {w}
    /\ UNCHANGED <<alertRows, live, twinned, settled>>

\* One row of every rec_key: the last, in no order.
ReadLive(w) ==
    /\ eval[w] = "rows"
    /\ live' \in {[live EXCEPT ![w] = f] : f \in {g \in [Keys -> Alerts \cup {NoRow}] :
                     \A k \in Keys : IF LiveFor(k) = {} THEN g[k] = NoRow ELSE g[k] \in LiveFor(k)}}
    /\ eval' = [eval EXCEPT ![w] = "commit"]
    /\ UNCHANGED <<alertRows, findings, crossed, twinned, settled>>

ResolvesOpenOnly(w) ==
    {live[w][k] : k \in {j \in Keys : live[w][j] # NoRow /\ status[live[w][j]] = "open" /\ j \notin findings[w]}}

Opens(w)    == {k \in findings[w] : live[w][k] = NoRow}
Updates(w)  == {live[w][k] : k \in {j \in findings[w] : live[w][j] # NoRow}}
Resolves(w) == {live[w][k] : k \in {j \in Keys : live[w][j] # NoRow /\ j \notin findings[w]}}

LeaveOff(w) ==
    /\ eval' = [eval EXCEPT ![w] = "idle"]
    /\ findings' = [findings EXCEPT ![w] = {}]
    /\ live' = [live EXCEPT ![w] = [k \in Keys |-> NoRow]]

\* A row to write has been deleted, or the campaign a new one names.
Vanished(w) ==
    \/ \E a \in Resolves(w) \cup Updates(w) : status[a] = "deleted"
    \/ \E k \in Opens(w) : k[1] \notin campaigns

\* Updated rows keep the status they have; resolved ones take it whatever it was.
Evaluate(w) ==
    /\ eval[w] = "commit" /\ ~Vanished(w)
    /\ Cardinality(Opens(w)) <= Cardinality(Unused)
    /\ \E new \in [Opens(w) -> NextAlerts(Cardinality(Opens(w)))] :
          /\ \A k, j \in Opens(w) : new[k] = new[j] => k = j
          /\ about' = [a \in Alerts |-> IF \E k \in Opens(w) : new[k] = a
                                        THEN CHOOSE k \in Opens(w) : new[k] = a ELSE about[a]]
          /\ status' = [a \in Alerts |->
                IF \E k \in Opens(w) : new[k] = a THEN "open"
                ELSE IF a \in Resolves(w) THEN "resolved" ELSE status[a]]
    /\ twinned' = IF w \in crossed THEN twinned \cup Opens(w) ELSE twinned
    /\ settled' = IF w \in crossed THEN {} ELSE Keys \ twinned
    /\ crossed' = {v \in Watchers \ {w} : eval[v] # "idle"}
    /\ LeaveOff(w)
    /\ UNCHANGED <<campaigns, breaches>>

\* The sweep logs it and goes on to the next client.
EvaluateFails(w) ==
    /\ eval[w] = "commit" /\ Vanished(w)
    /\ LeaveOff(w)
    /\ UNCHANGED <<alertRows, crossed, twinned, settled>>

\* The process dies, or the database fails.
WatcherDies(w) ==
    /\ eval[w] # "idle"
    /\ LeaveOff(w)
    /\ UNCHANGED <<alertRows, crossed, twinned, settled>>

AlertNext ==
    \/ \E c \in Campaigns : UpdateCampaign(c) \/ DeleteCampaign(c)
    \/ \E a \in Alerts : Acknowledge(a) \/ ResolveAlert(a)
    \/ \E w \in Watchers : \/ ReadCampaigns(w) \/ ReadLive(w) \/ Evaluate(w)
                           \/ EvaluateFails(w) \/ WatcherDies(w)

-----------------------------------------------------------------------------
(* Properties *)

\* A breach has one live alert, updated and not repeated by evaluations
\* (alert_service.py:6), unless an evaluation crossed another's commit, or an alert that
\* was resolved is acknowledged (alert_service.py:73); and once an evaluation that nothing
\* crossed has ended, what is in breach has its alert, and what is not has none.
AlertsFollowBreaches ==
    /\ \A k \in Keys \ twinned : Cardinality(LiveFor(k)) <= 1
    /\ \A k \in settled : (LiveFor(k) # {}) = (k \in breaches)
=============================================================================

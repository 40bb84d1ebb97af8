----------------------------- MODULE MCServices -----------------------------
(* Small instances for TLC of the components that sweeps and requests run: what *)
(* is mailed, counted, measured, watched and planned.  They share no state: one *)
(* moves, the others stay as they began.                                        *)
EXTENDS ReportEmail, ModelCalls, InsightSync, KpiAlerts, AutoPlan, NotificationDigest, TLC

\* The component that moves.
VARIABLE part

numbers == <<modelVars, insightVars, alertVars>>
people  == <<reportVars, noteVars, autoVars>>
vars    == <<people, numbers, part>>

Parts == {"report", "routes", "calls", "insights", "alerts", "auto", "mail", "signals"}

\* What the pulls of one client store: a connector with itself and another, and every
\* connector at least once; two pulls where there are many signals to find, else three.
\* Pulls of one connector are interchangeable, and begin in order.
WayMixes == {<<"ga4", "search_console", "upload">>, <<"ga4", "ga4", "upload">>,
             <<"google_lsa", "leads", "linkedin">>,
             <<"meta", "meta", "upload">>, <<"google_ads", "ga4", "upload">>}

Few == /\ way[1] \in {"meta", "google_ads"} => spot'[3] = "idle"
       /\ way[1] = way[2] /\ spot'[1] = "idle" => spot'[2] = "idle"

Init ==
    /\ part \in Parts
    /\ ReportInit /\ CallInit /\ InsightInit /\ AlertInit /\ AutoPlanInit /\ NoteInit
    /\ part # "calls" => streams = [c \in Calls |-> FALSE]
    /\ part \notin {"routes", "calls"} => \A c, d \in Calls : home[c] = home[d]
    /\ way \in IF part = "insights" THEN WayMixes ELSE {[s \in Pulls |-> "upload"]}
    /\ part # "mail" => wants = [u \in Users |-> Clients]

\* Requests are no concern of the cache of routes: the routes are checked with the calls not
\* yet sent, and the requests with one call at a time choosing its route, at one time.
OnePicks == Cardinality({c \in Calls : Loading(c)}) <= 1 /\ now' = now /\ committed' = committed

\* The mail does not ask whether a notification was read, nor a notification whether it was
\* mailed: the sweeps are checked with one session that notifies, and notifications without.
Posting    == (\A i \in NotesThere : notes'[i].read = notes[i].read)
              /\ Cardinality({s \in Notifiers : signal'[s] # "idle"}) <= 1
Signalling == UNCHANGED <<wants, sweepVars, digestVars>>

Next ==
    \/ part = "report"   /\ ReportNext
                         /\ UNCHANGED <<noteVars, autoVars, numbers, part>>
    \/ part = "auto"     /\ AutoPlanNext
                         /\ UNCHANGED <<reportVars, noteVars, numbers, part>>
    \/ part = "insights" /\ InsightNext /\ Few
                         /\ UNCHANGED <<people, modelVars, alertVars, part>>
    \/ part = "routes"   /\ PickNext
                         /\ UNCHANGED <<people, insightVars, alertVars, part>>
    \/ part = "calls"    /\ (RequestNext \/ (PickNext /\ OnePicks))
                         /\ UNCHANGED <<people, insightVars, alertVars, part>>
    \/ part = "alerts"   /\ AlertNext
                         /\ UNCHANGED <<people, modelVars, insightVars, part>>
    \/ part = "mail"     /\ NoteNext /\ Posting
                         /\ UNCHANGED <<reportVars, autoVars, numbers, part>>
    \/ part = "signals"  /\ Signalling /\ NoteNext
                         /\ UNCHANGED <<reportVars, autoVars, numbers, part>>

Spec == Init /\ [][Next]_vars

\* One type invariant for all.
ServicesTypeOK ==
    /\ ReportTypeOK
    /\ CallTypeOK /\ InsightTypeOK /\ AlertTypeOK /\ AutoPlanTypeOK /\ NoteTypeOK

\* What a sync stored stays whole: the slices of a connector are one snapshot, and what a
\* connector counts as synced is stored (integration_service.py, sync).
SyncsAreWhole == SlicesAreOneSnapshot /\ SyncedAsStored

\* What a sweep does for a client or a user it does once, however many processes sweep: a month
\* is drafted once (scheduler_service.py), and a notification is mailed once
\* (notification_email_service.py), unless a process died or two ran at once.
SweepsActOnce == DraftedOnce /\ ToldOnce

\* The sessions of every component are one set of model values, and interchangeable; the users,
\* the errors of a report, the days of a client and the dimensions of its breakdowns are another.
Symmetry == Permutations(Users \cup Details \cup Cells \cup Slices)
            \cup Permutations(Senders \cup Watchers \cup Sweepers \cup Notifiers \cup Digesters)
=============================================================================

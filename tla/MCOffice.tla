------------------------------ MODULE MCOffice ------------------------------
(* Small instances for TLC of the components whose runs check that something    *)
(* ends, with those of their other properties, and of the files they are asked  *)
(* for.  They share no state: one moves, the others stay as they began.         *)
EXTENDS ReportEmail, AssistantChat, DashboardCache, BrandScan, Uploads

\* The component that moves.
VARIABLE part

requests == <<chatVars, dashboardVars, scanVars>>
vars     == <<reportVars, requests, fileVars, part>>

\* What the client's rows may say is interchangeable, and so are the views.
FirstInputs == CHOOSE i \in Inputs : TRUE
FirstView   == CHOOSE v \in Views : TRUE

Init ==
    /\ part \in {"report", "chat", "dashboard", "scan", "links", "tickets"}
    /\ ReportInit /\ ChatInit /\ DashboardInit /\ ScanInit /\ UploadsInit
    /\ part # "chat" => kind = [t \in Turns |-> "ask"]
    /\ inputs = FirstInputs
    /\ forced[FirstView] => \A v \in Views : forced[v]
    /\ part # "dashboard" => /\ forced = [v \in Views |-> FALSE]
                             /\ \A v, w \in Views : place[v] = place[w]

\* A ticket asks of a file only whether it has a row: links and reports are checked without the
\* ticket, and the ticket with no renewal, no report and nothing torn.
Linking == \A d \in Desks : request'[d].pc # "saving"
Filing  == /\ request' # request /\ torn' = {}
           /\ \A d \in Desks : request'[d].pc \notin {"renewing", "reporting"}

Next ==
    \/ part = "report"    /\ ReportNext
                          /\ UNCHANGED <<requests, fileVars, part>>
    \/ part = "chat"      /\ ChatNext
                          /\ UNCHANGED <<reportVars, dashboardVars, scanVars, fileVars, part>>
    \/ part = "dashboard" /\ DashboardNext
                          /\ UNCHANGED <<reportVars, chatVars, scanVars, fileVars, part>>
    \/ part = "scan"      /\ ScanNext
                          /\ UNCHANGED <<reportVars, chatVars, dashboardVars, fileVars, part>>
    \/ part = "links"     /\ UploadsNext /\ Linking
                          /\ UNCHANGED <<reportVars, requests, part>>
    \/ part = "tickets"   /\ UploadsNext /\ Filing
                          /\ UNCHANGED <<reportVars, requests, part>>

\* The mail of the day comes due by itself: its fairness binds it when it is the one.
Fairness ==
    /\ ChatFairness /\ DashboardFairness /\ ScanFairness
    /\ part = "report" => ReportFairness

Spec == Init /\ [][Next]_vars /\ Fairness

\* One type invariant for all.
OfficeTypeOK == ReportTypeOK /\ ChatTypeOK /\ DashboardTypeOK /\ ScanTypeOK /\ UploadsTypeOK

\* Every request for an answer, a dashboard or a brand theme ends, with what the models give or
\* an error: the rounds of a command turn are bounded (_MAX_ROUNDS), the lock of a
\* client's dashboard is released whatever becomes of the build that holds it, and a scan has
\* so many addresses, navigations and calls.
RequestsEnd == TurnsEnd /\ ViewsEnd /\ ScansEnd

\* A thread is whole, and its card tells the decision that was made on it.
ThreadsAreTrue == ThreadIsWhole /\ CardTellsDecision
=============================================================================

---------------------------- MODULE ReportEmail ----------------------------
(***************************************************************************)
(* The daily report e-mail of one client: send_daily_reports_sweep         *)
(* (services/scheduler_service.py), run by the scheduler and by admins,    *)
(* the single send of api/v1/routers/automation.py, and send_daily_report  *)
(* with its log (services/report_email/service.py).                        *)
(*                                                                         *)
(* A report date is a number.  A log row keeps its status and, as one      *)
(* column, the detail (error, attempts, recipients, message id).  Time     *)
(* enters through three comparisons: 23:30 local, midnight, and the hour   *)
(* since the row's updated_at.                                             *)
(*                                                                         *)
(* A definition placed just before another one and named for a mistake     *)
(* (a dropped guard, a wrong column) is a deliberate fault: it is listed   *)
(* under "mutants" in PROJECT.json, and TLC must reject the model with it. *)
(***************************************************************************)
EXTENDS Naturals, FiniteSets

CONSTANTS Senders,       \* sessions that may send the report: sweeps and admin requests
          MaxDate,       \* bound on report dates
          MaxAttempts,   \* _MAX_ATTEMPTS
          Details,       \* what a failure may leave in the detail columns
          MaxLost        \* bound on deliveries the sender never hears of, and on crashes

ASSUME ReportAssumption == MaxDate \in Nat /\ MaxAttempts \in Nat \ {0} /\ MaxLost \in Nat

Dates == 1 .. MaxDate

VARIABLES
    \* report_email_log: the row of each date, and whether it was updated within
    \* _FAILED_RETRY_COOLDOWN
    log, cooling,
    \* the client's local day, and whether its 23:30 has passed
    today, late,
    \* each session: control point, dates still to do, the row it loaded, what it is about
    \* to write, sends done
    at, todo, existing, outcome, tries,
    \* losses so far
    lost,
    \* history: mails delivered for a date (2 is two or more); the failure of the last
    \* hour, if any, and whether it changed the row; dates on which two sessions worked
    \* at once or a delivery went unheard
    mails, failure, blurred

rowVars     == <<log, cooling>>
clockVars   == <<today, late>>
sendVars    == <<at, todo, existing, outcome, tries>>
mailVars    == <<mails, failure, blurred>>
reportVars  == <<rowVars, clockVars, sendVars, lost, mailVars>>

None     == [status |-> "none", detail |-> "clear"]
Skipped  == [status |-> "skipped", detail |-> "clear"]
Sent     == [status |-> "sent", detail |-> "message"]
Failed   == [status : {"failed"}, detail : Details]
Rows     == [status : {"none", "skipped", "sent", "failed"}, detail : Details \cup {"clear", "message"}]

\* Each column and each local state has its type.
ReportTypeOK ==
    /\ log      \in [Dates -> Rows]
    /\ cooling  \in [Dates -> BOOLEAN]
    /\ today    \in 1 .. MaxDate + 1
    /\ late     \in BOOLEAN
    /\ at       \in [Senders -> {"idle", "next", "build", "send", "write"}]
    /\ todo     \in [Senders -> SUBSET Dates]
    /\ existing \in [Senders -> Rows]
    /\ outcome  \in [Senders -> Rows]
    /\ tries    \in [Senders -> 0 .. MaxAttempts]
    /\ lost     \in 0 .. MaxLost
    /\ mails    \in [Dates -> 0 .. 2]
    /\ failure  \in [Dates -> {"none", "written", "unwritten"}]
    /\ blurred  \in SUBSET Dates

ReportInit ==
    /\ log      = [d \in Dates |-> None]
    /\ cooling  = [d \in Dates |-> FALSE]
    /\ today    = 1
    /\ late     = FALSE
    /\ at       = [s \in Senders |-> "idle"]
    /\ todo     = [s \in Senders |-> {}]
    /\ existing = [s \in Senders |-> None]
    /\ outcome  = [s \in Senders |-> None]
    /\ tries    = [s \in Senders |-> 0]
    /\ lost     = 0
    /\ mails    = [d \in Dates |-> 0]
    /\ failure  = [d \in Dates |-> "none"]
    /\ blurred  = {}

-----------------------------------------------------------------------------
(* What is due, and what each session is working on *)

\* due_report_dates: yesterday always, today once its 23:30 has passed.
DueToday == {d \in Dates : d = today /\ late}
Due      == {d \in Dates : d = today - 1} \cup DueToday

\* A sweep takes the older date first.
On(s, d) == d \in todo[s] /\ \A e \in todo[s] : d <= e

InHand(s, d) == at[s] \in {"build", "send", "write"} /\ On(s, d)

\* send_daily_report returns for a report that was sent, and waits out the cooldown of one
\* that failed; a skipped one is tried again.
WaitsUnlessNew(d)    == log[d] # None
WaitsOneHour(d)      == log[d].status \in {"sent", "failed"} /\ cooling[d]
Waits(d) ==
    \/ log[d].status = "sent"
    \/ log[d].status = "failed" /\ cooling[d]

-----------------------------------------------------------------------------
(* Sessions *)

\* The sweep reads the clock once, and opens a session for the client.
StartSweep(s) ==
    /\ at[s] = "idle"
    /\ at'   = [at EXCEPT ![s] = "next"]
    /\ todo' = [todo EXCEPT ![s] = Due]
    /\ UNCHANGED <<rowVars, clockVars, existing, outcome, tries, lost, mailVars>>

\* send_client_report_email: today's report, whatever the time.
StartSingle(s) ==
    /\ at[s] = "idle"
    /\ today \in Dates
    /\ at'   = [at EXCEPT ![s] = "next"]
    /\ todo' = [todo EXCEPT ![s] = {today}]
    /\ UNCHANGED <<rowVars, clockVars, existing, outcome, tries, lost, mailVars>>

EndSweep(s) ==
    /\ at[s] = "next" /\ todo[s] = {}
    /\ at' = [at EXCEPT ![s] = "idle"]
    /\ UNCHANGED <<rowVars, clockVars, todo, existing, outcome, tries, lost, mailVars>>

\* The session is done with its date; the next read starts afresh.
ToNext(s, d) ==
    /\ at'       = [at EXCEPT ![s] = "next"]
    /\ todo'     = [todo EXCEPT ![s] = @ \ {d}]
    /\ existing' = [existing EXCEPT ![s] = None]
    /\ outcome'  = [outcome EXCEPT ![s] = None]
    /\ tries'    = [tries EXCEPT ![s] = 0]

Pass(s, d) ==
    /\ at[s] = "next"
    /\ Waits(d)
    /\ ToNext(s, d)
    /\ UNCHANGED <<rowVars, clockVars, lost, mailVars>>

\* A session that takes up a date others have in hand overlaps them.
TakeUp(s, d, point, row) ==
    /\ at[s] = "next"
    /\ ~Waits(d)
    /\ at'       = [at EXCEPT ![s] = point]
    /\ existing' = [existing EXCEPT ![s] = log[d]]
    /\ outcome'  = [outcome EXCEPT ![s] = row]
    /\ blurred'  = IF \E t \in Senders : InHand(t, d) THEN blurred \cup {d} ELSE blurred
    /\ UNCHANGED <<rowVars, clockVars, todo, tries, lost, mails, failure>>

\* No recipients, or no mail provider configured.
Skip(s, d)    == TakeUp(s, d, "write", Skipped)
Attempt(s, d) == TakeUp(s, d, "build", None)

\* Only build_daily_report_data and the rendering may fail: the narrative has a fallback.
Build(s, d) ==
    /\ at[s] = "build"
    /\ at'    = [at EXCEPT ![s] = "send"]
    /\ tries' = [tries EXCEPT ![s] = 1]
    /\ UNCHANGED <<rowVars, clockVars, todo, existing, outcome, lost, mailVars>>

Give(s, row) ==
    /\ at'      = [at EXCEPT ![s] = "write"]
    /\ outcome' = [outcome EXCEPT ![s] = row]
    /\ UNCHANGED <<rowVars, clockVars, todo, existing, tries>>

BuildFail(s, d) ==
    /\ at[s] = "build"
    /\ \E row \in Failed : Give(s, row)
    /\ UNCHANGED <<lost, mailVars>>

-----------------------------------------------------------------------------
(* The provider *)

Delivered(d) == mails' = [mails EXCEPT ![d] = IF @ = 2 THEN 2 ELSE @ + 1]

\* The provider may deliver and the answer be lost.
Unheard(d) ==
    \/ UNCHANGED <<lost, mailVars>>
    \/ /\ lost < MaxLost
       /\ lost' = lost + 1
       /\ Delivered(d)
       /\ blurred' = blurred \cup {d}
       /\ UNCHANGED failure

AcceptUnrecorded(s, d) ==
    /\ at[s] = "send"
    /\ Give(s, Skipped)
    /\ Delivered(d)
    /\ UNCHANGED <<lost, failure, blurred>>

Accept(s, d) ==
    /\ at[s] = "send"
    /\ Give(s, Sent)
    /\ Delivered(d)
    /\ UNCHANGED <<lost, failure, blurred>>

RetryForEver(s, d) ==
    /\ at[s] = "send" /\ tries[s] <= MaxAttempts
    /\ tries' = [tries EXCEPT ![s] = @ + 1]
    /\ Unheard(d)
    /\ UNCHANGED <<rowVars, clockVars, at, todo, existing, outcome>>

\* A time-out, a broken connection or a 5xx: retryable.
Retry(s, d) ==
    /\ at[s] = "send" /\ tries[s] < MaxAttempts
    /\ tries' = [tries EXCEPT ![s] = @ + 1]
    /\ Unheard(d)
    /\ UNCHANGED <<rowVars, clockVars, at, todo, existing, outcome>>

\* The last retryable error, or a 4xx.
SendFail(s, d) ==
    /\ at[s] = "send"
    /\ \E row \in Failed : Give(s, row)
    /\ Unheard(d)

\* Any other error of the HTTP client, or an answer that is no JSON, leaves
\* send_daily_report; the sweep goes on with its next date and nothing is logged.
SendRaise(s, d) ==
    /\ at[s] = "send"
    /\ ToNext(s, d)
    /\ Unheard(d)
    /\ UNCHANGED <<rowVars, clockVars>>

-----------------------------------------------------------------------------
(* _write_log *)

\* The failures of the last hour: "unwritten" if the row already said the same.
Failure(d, row, changed) ==
    failure' = [failure EXCEPT ![d] = CASE row.status # "failed" -> @
                                        [] row.status = "failed" /\ changed  -> "written"
                                        [] row.status = "failed" /\ ~changed -> "unwritten"]

Insert(s, d) ==
    /\ at[s] = "write" /\ existing[s] = None /\ log[d] = None
    /\ log'     = [log EXCEPT ![d] = outcome[s]]
    /\ cooling' = [cooling EXCEPT ![d] = TRUE]
    /\ Failure(d, outcome[s], TRUE)
    /\ ToNext(s, d)
    /\ UNCHANGED <<clockVars, lost, mails, blurred>>

\* The unique constraint: somebody else has inserted the row.
InsertConflict(s, d) ==
    /\ at[s] = "write" /\ existing[s] = None /\ log[d] # None
    /\ ToNext(s, d)
    /\ UNCHANGED <<rowVars, clockVars, lost, mailVars>>

\* Only the columns that differ from what was loaded are written, and updated_at only
\* moves if there is one.
Written(old, loaded, new) ==
    [status |-> IF new.status = loaded.status THEN old.status ELSE new.status,
     detail |-> IF new.detail = loaded.detail THEN old.detail ELSE new.detail]

Update(s, d) ==
    /\ at[s] = "write" /\ existing[s] # None
    /\ log'     = [log EXCEPT ![d] = Written(@, existing[s], outcome[s])]
    /\ cooling' = [cooling EXCEPT ![d] = @ \/ outcome[s] # existing[s]]
    /\ Failure(d, outcome[s], outcome[s] # existing[s])
    /\ ToNext(s, d)
    /\ UNCHANGED <<clockVars, lost, mails, blurred>>

-----------------------------------------------------------------------------
(* Time and faults *)

\* The process dies; what it delivered and did not log is unheard of.
Crash(s) ==
    /\ at[s] # "idle" /\ lost < MaxLost
    /\ lost'     = lost + 1
    /\ at'       = [at EXCEPT ![s] = "idle"]
    /\ todo'     = [todo EXCEPT ![s] = {}]
    /\ existing' = [existing EXCEPT ![s] = None]
    /\ outcome'  = [outcome EXCEPT ![s] = None]
    /\ tries'    = [tries EXCEPT ![s] = 0]
    /\ blurred'  = blurred \cup {d \in Dates : InHand(s, d)}
    /\ UNCHANGED <<rowVars, clockVars, mails, failure>>

HourPasses(d) ==
    /\ cooling[d] \/ failure[d] # "none"
    /\ cooling' = [cooling EXCEPT ![d] = FALSE]
    /\ failure' = [failure EXCEPT ![d] = "none"]
    /\ UNCHANGED <<log, clockVars, sendVars, lost, mails, blurred>>

HalfPastEleven ==
    /\ ~late
    /\ late' = TRUE
    /\ UNCHANGED <<rowVars, today, sendVars, lost, mailVars>>

Midnight ==
    /\ late /\ today <= MaxDate
    /\ today' = today + 1
    /\ late'  = FALSE
    /\ UNCHANGED <<rowVars, sendVars, lost, mailVars>>

-----------------------------------------------------------------------------

Work(s, d) ==
    /\ On(s, d)
    /\ \/ Pass(s, d) \/ Attempt(s, d)
       \/ Build(s, d) \/ BuildFail(s, d)
       \/ Accept(s, d) \/ Retry(s, d) \/ SendFail(s, d) \/ SendRaise(s, d)
       \/ Insert(s, d) \/ InsertConflict(s, d) \/ Update(s, d)

Step(s) == EndSweep(s) \/ \E d \in Dates : Work(s, d)

ReportNext ==
    \/ \E s \in Senders : StartSweep(s) \/ StartSingle(s) \/ Step(s) \/ Crash(s)
    \/ \E s \in Senders, d \in Dates : On(s, d) /\ Skip(s, d)
    \/ \E d \in Dates : HourPasses(d)
    \/ HalfPastEleven \/ Midnight

ReportSpec == ReportInit /\ [][ReportNext]_reportVars

\* The scheduler sweeps for ever and its process runs on; an hour passes; and the
\* outside does not fail for ever: whenever a date is tried again and again, there is
\* somebody to mail to, data to be had and a provider that accepts.
ReportFairness ==
    /\ \A s \in Senders :
          /\ WF_reportVars(Step(s)) /\ SF_reportVars(StartSweep(s))
          /\ \A d \in Dates :
                /\ SF_reportVars(On(s, d) /\ Attempt(s, d))
                /\ SF_reportVars(On(s, d) /\ Build(s, d))
                /\ SF_reportVars(On(s, d) /\ Accept(s, d))
    /\ \A d \in Dates : WF_reportVars(HourPasses(d))

-----------------------------------------------------------------------------
(* Properties *)

\* A report is mailed once (models/report_email_log.py:4), unless two sessions had it
\* in hand at once or an answer of the provider was lost: the status, the cooldown, the
\* unique constraint and the writing of changed columns leave no other way.
MailedOnceUnlessBlurred == \A d \in Dates : mails[d] = 2 => d \in blurred

\* A row that says sent goes on saying so, with the same exception: a session that loaded
\* the row earlier may write its own failure over it, and the report is mailed again.
SentIsFinal == [][\A d \in Dates : log[d].status = "sent" => log'[d].status = "sent" \/ d \in blurred]_reportVars

Begins(s, d) == at[s] = "next" /\ at'[s] = "build" /\ On(s, d)

\* What the comment at service.py:40 and test_report_email_service.py say: once a send has
\* failed, an hour passes before the next.  A failure that repeats the one before writes
\* nothing, so updated_at stays old and there is no cooldown.
FailureCoolsDown ==
    [][\A s \in Senders, d \in Dates : Begins(s, d) => failure[d] = "none"]_reportVars

\* A report is sent in the end, as long as its date is due: neither a skipped row, nor the
\* cooldown, nor the other date of a sweep shuts it out.
DueIsSent == \A d \in Dates : d \in Due ~> (log[d].status = "sent" \/ d \notin Due)
=============================================================================

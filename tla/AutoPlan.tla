------------------------------- MODULE AutoPlan -------------------------------
(***************************************************************************)
(* The automatic content plan of one client (run_auto_plan_generation_sweep *)
(* of services/scheduler_service.py, auto_plan_generation_timing.py): from *)
(* the 15th on, a sweep drafts the month that follows and logs that it has. *)
(* The drafts are committed by PlanGenerationService, before the log.      *)
(***************************************************************************)
EXTENDS Naturals

CONSTANTS Sweepers,  \* sessions: the scheduler's sweep, an administrator's
          MaxMonth,  \* bound on months
          MaxBatches \* bound on batches of drafts of a month

ASSUME AutoPlanAssumption == MaxMonth \in Nat \ {0} /\ MaxBatches \in Nat

Months == 1 .. MaxMonth

VARIABLES
    month, due,       \* the client's local month, whether its 15th has come
    logged, batches,  \* auto_plan_generation_log by period; batches of drafts committed
    told,             \* periods the client's team was notified of
    plan, period,     \* each sweep: control point, month it drafts
    unsure            \* history: periods that two sweeps had in hand, or one lost in between

autoVars == <<month, due, logged, batches, told, plan, period, unsure>>

AutoPlanTypeOK ==
    /\ month \in Months /\ due \in BOOLEAN
    /\ logged \subseteq Months /\ told \subseteq Months /\ unsure \subseteq Months
    /\ batches \in [Months -> 0 .. MaxBatches]
    /\ plan \in [Sweepers -> {"idle", "draft", "log", "tell"}]
    /\ period \in [Sweepers -> Months]

AutoPlanInit ==
    /\ month = 1 /\ due = FALSE
    /\ logged = {} /\ told = {} /\ unsure = {}
    /\ batches = [m \in Months |-> 0]
    /\ plan = [s \in Sweepers |-> "idle"]
    /\ period = [s \in Sweepers |-> 1]

ToPlan(s, p) == plan' = [plan EXCEPT ![s] = p]
HasInHand(m) == {s \in Sweepers : plan[s] \in {"draft", "log"} /\ period[s] = m}

\* auto_generation_due, and the month after the client's.
The15th ==
    /\ ~due /\ month < MaxMonth
    /\ due' = TRUE
    /\ UNCHANGED <<month, logged, batches, told, plan, period, unsure>>

NextMonth ==
    /\ due
    /\ month' = month + 1 /\ due' = FALSE
    /\ UNCHANGED <<logged, batches, told, plan, period, unsure>>

NextMonthRange == month + 1

\* The check of the log; a period that is logged ends the sweep of this client.
Exists(s) == NextMonthRange \in logged

Check(s) ==
    /\ plan[s] = "idle" /\ due /\ ~Exists(s)
    /\ ToPlan(s, "draft")
    /\ period' = [period EXCEPT ![s] = NextMonthRange]
    /\ unsure' = IF HasInHand(NextMonthRange) # {} THEN unsure \cup {NextMonthRange} ELSE unsure
    /\ UNCHANGED <<month, due, logged, batches, told>>

\* propose_range awaits the model, which always gives a plan, its own or the placeholder,
\* and commits the items.
ProposeRange(s) ==
    /\ plan[s] = "draft" /\ batches[period[s]] < MaxBatches
    /\ batches' = [batches EXCEPT ![period[s]] = @ + 1]
    /\ ToPlan(s, "log")
    /\ UNCHANGED <<month, due, logged, told, period, unsure>>

Log(s) ==
    /\ plan[s] = "log" /\ period[s] \notin logged
    /\ logged' = logged \cup {period[s]}
    /\ ToPlan(s, "tell")
    /\ UNCHANGED <<month, due, batches, told, period, unsure>>

\* The unique constraint: reported as failed, the drafts are there twice.
LogConflict(s) ==
    /\ plan[s] = "log" /\ period[s] \in logged
    /\ ToPlan(s, "idle")
    /\ UNCHANGED <<month, due, logged, batches, told, period, unsure>>

Tell(s) ==
    /\ plan[s] = "tell"
    /\ told' = told \cup {period[s]}
    /\ ToPlan(s, "idle")
    /\ UNCHANGED <<month, due, logged, batches, period, unsure>>

\* The database fails, and the sweep goes on to the next client, or the process dies.
SweepDies(s) ==
    /\ plan[s] # "idle"
    /\ unsure' = IF plan[s] = "log" THEN unsure \cup {period[s]} ELSE unsure
    /\ ToPlan(s, "idle")
    /\ UNCHANGED <<month, due, logged, batches, told, period>>

AutoPlanNext ==
    \/ The15th \/ NextMonth
    \/ \E s \in Sweepers : \/ Check(s) \/ ProposeRange(s) \/ Log(s) \/ LogConflict(s)
                           \/ Tell(s) \/ SweepDies(s)

-----------------------------------------------------------------------------
(* Properties *)

\* A month is drafted once (scheduler_service.py:446), unless two sweeps had it in hand at
\* once or one was lost between the drafts and the log: the constraint that is to prevent it
\* is met when the drafts have been committed.  The log, and what the team is told, speak of
\* a plan that is there.
DraftedOnce ==
    /\ \A m \in Months \ unsure : batches[m] <= 1
    /\ told \subseteq logged
    /\ \A m \in logged : batches[m] >= 1
=============================================================================

----------------------------- MODULE PlanReview -----------------------------
(***************************************************************************)
(* The review of a drafted content plan.  An item of the plan is a task    *)
(* (plan_tasks) and its calendar event with the post (marketing_events,    *)
(* event_posts).  Managers assign, reject and regenerate items             *)
(* (services/plan_generation_service.py), decide on, edit and delete their *)
(* events (services/calendar_service.py), and patch and delete their tasks *)
(* (services/plan_service.py).                                             *)
(*                                                                         *)
(* Every one of these requests loads rows, sets attributes and commits.    *)
(* The commit writes the columns whose value differs from the one loaded,  *)
(* whatever others have committed in between; regenerate_item awaits a     *)
(* model between load and commit.  The task's status, priority and         *)
(* assignee and the event's stage, note and activity are left out: they    *)
(* are written and never read by these requests.                           *)
(***************************************************************************)
EXTENDS Naturals

CONSTANTS Items,       \* drafted items
          Managers,    \* each handles one request at a time
          Nobody,      \* approved_by of an item nobody approved
          MaxDay,      \* bound on the days of a plan
          MaxDrafts    \* bound on the drafts the model writes

ASSUME PlanAssumption ==
    MaxDay \in Nat \ {0} /\ MaxDrafts \in Nat \ {0} /\ Nobody \notin Managers

NoDay == 0
Days  == 0 .. MaxDay

VARIABLES
    \* the columns of each item
    item,
    \* the request each manager has open, the columns it will write of the items it has
    \* loaded, and the drafts it has read and approves: pairs of an item and its content
    doing, writes, approving,
    \* drafts written so far; draft 0 is a text edited by hand
    drafts,
    \* history: the columns others have committed of the items a request has loaded, as
    \* pairs of an item and a column; the pairs somebody approved; and what the properties
    \* do not ask of an item until the next request puts it right
    passed, reviewed, exempt

requestVars == <<doing, writes, approving, passed>>
reviewVars  == <<reviewed, exempt>>
planVars    == <<item, requestVars, drafts, reviewVars>>

Kinds == {"assign", "reject", "approve", "regenerate", "edit", "decide", "patch"}

\* task and event say whether the two rows exist.
Row == [task : BOOLEAN, start : Days, due : Days,
        event : BOOLEAN, approval : {"pending", "approved", "rejected"},
        by : Managers \cup {Nobody}, content : 0 .. MaxDrafts]

\* The row with some of its columns written.
Over(row, columns) ==
    [c \in DOMAIN row |-> IF c \in DOMAIN columns THEN columns[c] ELSE row[c]]

EventColumns    == {"event", "approval", "by", "content"}
DecisionColumns == {"approval", "by", "content"}
DateColumns     == {"start", "due"}

\* propose_range: a task of one day with a draft to be reviewed.
Drafted(day) == [task |-> TRUE, start |-> day, due |-> day,
                 event |-> TRUE, approval |-> "pending", by |-> Nobody, content |-> 1]

\* The columns and the local states have their types, a manager without a request holds
\* nothing, and nobody approves a draft that is not written yet
\* (plan_generation_service.py:99-155, 299-322: content and decision commit together).
PlanTypeOK ==
    /\ item  \in [Items -> Row]
    /\ doing \in [Managers -> Kinds \cup {"nothing"}]
    /\ \A m \in Managers :
          /\ DOMAIN writes[m] \subseteq Items
          /\ doing[m] = "nothing" => writes[m] = <<>> /\ approving[m] = {} /\ passed[m] = {}
          /\ \A i \in DOMAIN writes[m] : Over(item[i], writes[m][i]) \in Row
    /\ passed \in [Managers -> SUBSET (Items \X (DateColumns \cup DecisionColumns))]
    /\ drafts \in 1 .. MaxDrafts
    /\ \A p \in reviewed \cup UNION {approving[m] : m \in Managers} :
          p[1] \in Items /\ p[2] \in 0 .. drafts
    /\ exempt \in [Items -> SUBSET {"decisions", "dates"}]

PlanInit ==
    /\ item        \in [Items -> {Drafted(day) : day \in Days \ {NoDay}}]
    /\ doing       = [m \in Managers |-> "nothing"]
    /\ writes      = [m \in Managers |-> <<>>]
    /\ approving   = [m \in Managers |-> {}]
    /\ drafts      = 1
    /\ passed      = [m \in Managers |-> {}]
    /\ reviewed    = {}
    /\ exempt      = [i \in Items |-> {}]

-----------------------------------------------------------------------------
(* Requests: what each means an item to be *)

HasRead(m, i) == i \in DOMAIN writes[m]

Dirty(row, new) == [c \in {c \in DOMAIN row : new[c] # row[c]} |-> new[c]]

\* approve_batch and reject_batch go on to further items before they commit.
Batches == {"approve", "reject"}

\* A request loads item i and sets its attributes to those of new.
Open(m, kind, i, new) ==
    /\ doing[m] = "nothing" \/ (doing[m] = kind /\ kind \in Batches /\ ~HasRead(m, i))
    /\ doing'  = [doing EXCEPT ![m] = kind]
    /\ writes' = [writes EXCEPT ![m] =
                     [j \in DOMAIN @ \cup {i} |-> IF j = i THEN Dirty(item[i], new) ELSE @[j]]]
    /\ approving' = [approving EXCEPT ![m] =
                        IF kind \in {"assign", "approve", "decide"} /\ new.event /\ new.approval = "approved"
                        THEN @ \cup ({<<i, item[i].content>>} \ {<<i, 0>>}) ELSE @]
    /\ UNCHANGED <<item, passed, reviewVars>>

\* What a request does to the event is skipped if the task has none.
IfEvent(row, new) ==
    [c \in DOMAIN row |-> IF c \in EventColumns /\ ~row.event THEN row[c] ELSE new[c]]

Assign(m, i) ==
    \E day \in Days :
        /\ item[i].task
        /\ Open(m, "assign", i, IfEvent(item[i],
              [item[i] EXCEPT !.due      = IF day = NoDay THEN @ ELSE day,
                              !.start    = IF @ = NoDay THEN day ELSE @,
                              !.approval = "approved",
                              !.by       = m]))
        /\ UNCHANGED drafts

\* reject, and each step of reject_batch.
Reject(m, i) ==
    /\ item[i].task
    /\ Open(m, "reject", i, IfEvent(item[i], [item[i] EXCEPT !.approval = "rejected"]))
    /\ UNCHANGED drafts

\* Each step of approve_batch.
Approve(m, i) ==
    /\ item[i].task
    /\ Open(m, "approve", i, IfEvent(item[i], [item[i] EXCEPT !.approval = "approved", !.by = m]))
    /\ UNCHANGED drafts

RegenerateApproved(m, i) ==
    /\ item[i].task /\ item[i].event
    /\ drafts < MaxDrafts
    /\ drafts' = drafts + 1
    /\ Open(m, "regenerate", i, [item[i] EXCEPT !.content = drafts + 1])

\* The model writes another draft, which is to be reviewed anew.
Regenerate(m, i) ==
    /\ item[i].task /\ item[i].event
    /\ drafts < MaxDrafts
    /\ drafts' = drafts + 1
    /\ Open(m, "regenerate", i,
          [item[i] EXCEPT !.content = drafts + 1, !.approval = "pending", !.by = Nobody])

\* update_event: the post's text; the approval stays.
Edit(m, i) ==
    /\ item[i].event
    /\ Open(m, "edit", i, [item[i] EXCEPT !.content = 0])
    /\ UNCHANGED drafts

Decide(m, i) ==
    \E to \in {"pending", "approved", "rejected"} :
        /\ item[i].event
        /\ Open(m, "decide", i,
              [item[i] EXCEPT !.approval = to, !.by = IF to = "approved" THEN m ELSE Nobody])
        /\ UNCHANGED drafts

InOrder(start, due) == start # NoDay /\ due # NoDay => start <= due

\* _apply_update_task: the range is checked as it will be, merged with the task's own.
RangeInOrderIfBothMove(row, new) ==
    new.start # row.start /\ new.due # row.due => InOrder(new.start, new.due)
RangeInOrder(row, new)           == InOrder(new.start, new.due)

Patch(m, i) ==
    \E start, due \in Days :
        LET new == [item[i] EXCEPT !.start = start, !.due = due] IN
        /\ item[i].task
        /\ RangeInOrder(item[i], new)
        /\ Open(m, "patch", i, new)
        /\ UNCHANGED drafts

\* Deletions write no column and so need not be loaded first; the columns of a row that is
\* gone are reset.
DeleteTask(i) ==
    /\ item[i].task
    /\ item' = [item EXCEPT ![i].task = FALSE, ![i].start = NoDay, ![i].due = NoDay]
    /\ UNCHANGED <<requestVars, drafts, reviewVars>>

DeleteEvent(i) ==
    /\ item[i].event
    /\ item' = [item EXCEPT ![i].event = FALSE, ![i].approval = "pending",
                            ![i].by = Nobody, ![i].content = 0]
    /\ UNCHANGED <<requestVars, drafts, reviewVars>>

-----------------------------------------------------------------------------
(* Commit *)

\* A row that is gone takes no update, and no activity entry can refer to its event.
Blocked(m, i) ==
    \/ ~item[i].task  /\ doing[m] \in {"assign", "reject", "regenerate", "patch"}
    \/ ~item[i].event /\ DOMAIN writes[m][i] \cap EventColumns # {}
    \/ ~item[i].event /\ (doing[m] \in {"edit", "decide", "regenerate"} \/ \E p \in approving[m] : p[1] = i)

\* Columns that did not change for their own request are left out of its commit: it can undo
\* half of a decision that was committed since it loaded the item, or move one end of a range
\* whose other end has moved.  The next decision that nothing passes is whole again.
Passed(m, i, columns) == \E c \in columns : <<i, c>> \in passed[m]

MixesDecisions(m, i) ==
    IF doing[m] \in {"edit", "patch"} THEN "decisions" \in exempt[i]
    ELSE Passed(m, i, DecisionColumns)

\* Nothing compares the due date that an assignment sets with the start.
MixesDates(m, i) ==
    LET ends == DateColumns \cap DOMAIN writes[m][i]
    IN CASE ends = {}          -> "dates" \in exempt[i]
         [] ends = DateColumns -> FALSE
         [] OTHER -> \/ Passed(m, i, DateColumns \ ends)
                     \/ doing[m] = "assign" /\ "due" \in ends

Exempted(m, i) == (IF MixesDecisions(m, i) THEN {"decisions"} ELSE {})
                  \cup (IF MixesDates(m, i) THEN {"dates"} ELSE {})

\* What the commit of m passes of the items that n has loaded.
Passes(m, n) ==
    {p \in Items \X (DateColumns \cup DecisionColumns) :
        HasRead(m, p[1]) /\ HasRead(n, p[1]) /\ p[2] \in DOMAIN writes[m][p[1]]}

Close(m) ==
    /\ doing'     = [doing EXCEPT ![m] = "nothing"]
    /\ writes'    = [writes EXCEPT ![m] = <<>>]
    /\ approving' = [approving EXCEPT ![m] = {}]

CommitItem(m) ==
    /\ doing[m] # "nothing"
    /\ \A i \in DOMAIN writes[m] : ~Blocked(m, i)
    /\ item'     = [i \in Items |-> IF HasRead(m, i) THEN Over(item[i], writes[m][i]) ELSE item[i]]
    /\ reviewed' = reviewed \cup approving[m]
    /\ exempt'   = [i \in Items |-> IF HasRead(m, i) THEN Exempted(m, i) ELSE exempt[i]]
    /\ passed'   = [n \in Managers |-> IF n = m THEN {} ELSE passed[n] \cup Passes(m, n)]
    /\ Close(m)
    /\ UNCHANGED drafts

\* A row is gone (StaleDataError, foreign key), a later task of a batch is not found, the
\* model fails, or the process dies: the session is rolled back.
Abandon(m) ==
    /\ doing[m] # "nothing"
    /\ Close(m)
    /\ passed' = [passed EXCEPT ![m] = {}]
    /\ UNCHANGED <<item, drafts, reviewVars>>

-----------------------------------------------------------------------------

PlanNext ==
    \/ \E m \in Managers, i \in Items :
          \/ Assign(m, i) \/ Reject(m, i) \/ Approve(m, i) \/ Regenerate(m, i)
          \/ Edit(m, i) \/ Decide(m, i) \/ Patch(m, i)
    \/ \E i \in Items : DeleteTask(i) \/ DeleteEvent(i)
    \/ \E m \in Managers : CommitItem(m) \/ Abandon(m)

PlanSpec == PlanInit /\ [][PlanNext]_planVars

-----------------------------------------------------------------------------
(* Properties *)

\* What the model wrote is approved only by somebody who read it
\* (plan_generation_service.py:299-300), unless the last to decide or to regenerate wrote over
\* what another had committed of the item since it was loaded.
DraftsAreReviewed ==
    \A i \in Items :
        item[i].event /\ item[i].approval = "approved" /\ item[i].content # 0
        => <<i, item[i].content>> \in reviewed \/ "decisions" \in exempt[i]

\* An approved item says who approved it (calendar_service.py:150-151), with the same
\* exception.
ApprovedBySomebody ==
    \A i \in Items :
        item[i].event /\ item[i].approval = "approved"
        => item[i].by # Nobody \/ "decisions" \in exempt[i]

\* A task does not end before it starts (schemas/plan.py:26-32), whatever requests are open
\* on it, unless the last to write its dates was an assignment that moved the due date alone
\* or a request that wrote one end while another had committed the other since it was loaded:
\* two patches that write both ends each never cross.
SpansAreInOrder ==
    \A i \in Items :
        item[i].task /\ item[i].start # NoDay /\ item[i].due # NoDay
        => item[i].start <= item[i].due \/ "dates" \in exempt[i]
=============================================================================

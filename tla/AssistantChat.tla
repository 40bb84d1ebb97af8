--------------------------- MODULE AssistantChat ---------------------------
(***************************************************************************)
(* One chat of a client with the assistant (services/assistant_service.py, *)
(* ai/command_agent.py, api/v1/routers/assistant.py).  A request runs one  *)
(* turn: it stores the user's message, lets a classifier look for a        *)
(* content-plan request, answers, and stores the assistant's message.  The *)
(* answer may stage operations, which become one change proposal, or draft *)
(* plan tasks, which the message shows on a card to approve or discard.    *)
(* Texts, prompts and the model's wording are left out; what the model     *)
(* asks for is nondeterministic.                                           *)
(***************************************************************************)
EXTENDS Naturals, FiniteSets

CONSTANTS Turns,      \* requests, one turn each
          Deciders,   \* requests that approve or discard a card
          MaxRounds,  \* _MAX_ROUNDS
          Nothing     \* no turn

ASSUME ChatAssumption == MaxRounds \in Nat \ {0} /\ Nothing \notin Turns

VARIABLES
    \* ai_chats, ai_chat_messages: the chat; the turns whose user message and whose
    \* assistant message are stored; the status of a message's card; the messages that
    \* name a proposal
    chat, asked, answered, card, named,
    \* change_proposals, and the drafts a turn has committed, whole or with a task deleted
    proposals, drafts,
    \* each request: endpoint, control point, model calls made, whether operations are
    \* staged, what the reply is
    kind, step, rounds, staged, reply,
    \* each decision: control point, card, verdict
    stage, over, verdict,
    \* history: turns that ended before their last write; the decision last committed for
    \* the tasks of a draft; drafts whose decisions overlapped or were cut short
    cut, decided, contested

threadVars == <<chat, asked, answered, card, named>>
turnVars   == <<kind, step, rounds, staged, reply>>
decideVars == <<stage, over, verdict, decided, contested>>
chatVars   == <<threadVars, proposals, drafts, turnVars, decideVars, cut>>

Endpoints == {"ask", "answer", "turn", "stream"}
Streamed    == {"answer", "stream"}
Commands    == {"turn", "stream"}
Verdicts    == {"approved", "rejected"}

ChatTypeOK ==
    /\ chat \in BOOLEAN
    /\ asked \subseteq Turns /\ answered \subseteq Turns /\ named \subseteq Turns
    /\ card \in [Turns -> {"none", "pending"} \cup Verdicts]
    /\ proposals \subseteq Turns
    /\ drafts \in [Turns -> {"none", "whole", "broken"}]
    /\ kind \in [Turns -> Endpoints]
    /\ step \in [Turns -> {"idle", "intent", "draft", "answer", "model", "store", "name", "end"}]
    /\ rounds \in [Turns -> 0 .. MaxRounds]
    /\ staged \in [Turns -> BOOLEAN]
    /\ reply \in [Turns -> {"none", "text", "question", "card"}]
    /\ stage \in [Deciders -> {"idle", "batch", "card"}]
    /\ over \in [Deciders -> Turns \cup {Nothing}]
    /\ verdict \in [Deciders -> Verdicts]
    /\ cut \subseteq Turns /\ contested \subseteq Turns
    /\ decided \in [Turns -> {"none"} \cup Verdicts]

ChatInit ==
    /\ chat = TRUE /\ asked = {} /\ answered = {} /\ named = {}
    /\ card = [t \in Turns |-> "none"]
    /\ proposals = {} /\ drafts = [t \in Turns |-> "none"]
    /\ kind \in [Turns -> Endpoints]
    /\ step = [t \in Turns |-> "idle"]
    /\ rounds = [t \in Turns |-> 0]
    /\ staged = [t \in Turns |-> FALSE]
    /\ reply = [t \in Turns |-> "none"]
    /\ stage = [d \in Deciders |-> "idle"]
    /\ over = [d \in Deciders |-> Nothing]
    /\ verdict = [d \in Deciders |-> "approved"]
    /\ cut = {} /\ contested = {}
    /\ decided = [t \in Turns |-> "none"]

-----------------------------------------------------------------------------
(* The tools a command turn may call *)

SearchTools == {"search_plan_tasks", "get_plan_task", "search_users",
                "search_knowledge_base"}
FactTools   == {"get_performance_summary", "get_client", "get_editable_schema"}
TaskTools   == {"create", "update", "assign", "unassign", "archive", "delete", "duplicate", "note"}
BulkTools   == {"bulk_update", "bulk_delete"}
ClientTools == {"update_client", "update_brand"}
WriteTools  == TaskTools \cup BulkTools \cup ClientTools

\* Whether a call stages an operation: a search never does; a proposed change is tried
\* inside a savepoint that is rolled back, and stages nothing if it is refused.
SearchStages == {FALSE}
FactStages   == {FALSE}
TaskStages   == BOOLEAN
BulkStages   == BOOLEAN
ClientStages == BOOLEAN

Stages(tool) ==
    CASE tool \in SearchTools -> SearchStages
      [] tool \in FactTools   -> FactStages
      [] tool \in TaskTools   -> TaskStages
      [] tool \in BulkTools   -> BulkStages
      [] tool \in ClientTools -> ClientStages

-----------------------------------------------------------------------------
(* A turn *)

Goto(t, point) == step' = [step EXCEPT ![t] = point]

\* An ask leaves its message uncommitted: it holds a key lock on the chat until it ends.
Locks(t) == kind[t] = "ask" /\ step[t] \notin {"idle", "end"} /\ t \notin asked

\* A chat that is missing, a file that cannot be read or a file sent to ask_stream ends the
\* request before it has written anything.
Begin(t) ==
    /\ step[t] = "idle" /\ chat
    /\ asked' = IF kind[t] = "ask" THEN asked ELSE asked \cup {t}
    /\ Goto(t, "intent")
    /\ UNCHANGED <<chat, answered, card, named, proposals, drafts, kind, rounds, staged,
                   reply, decideVars, cut>>

Reply(t, what) ==
    /\ reply' = [reply EXCEPT ![t] = what]
    /\ Goto(t, "store")
    /\ UNCHANGED <<kind, rounds>>

\* A plan request that is not ready, or comes from a read-only account.
AskBack(t) ==
    /\ step[t] = "intent"
    /\ Reply(t, "question")
    /\ UNCHANGED <<threadVars, proposals, drafts, staged, decideVars, cut>>

\* No plan request: a command turn without files goes to the tool loop, and so on.
\* A classifier that fails, or answers no JSON, says no.
Classify(t, point) ==
    /\ step[t] = "intent"
    /\ point = "model" => kind[t] \in Commands
    /\ Goto(t, point)
    /\ UNCHANGED <<threadVars, proposals, drafts, kind, rounds, staged, reply, decideVars, cut>>

\* A commit of the request stores the message an ask has left uncommitted.
Asked(t) == asked' = IF kind[t] = "ask" THEN asked \cup {t} ELSE asked

\* propose_range commits the drafts, and with them the user message of an ask, before
\* there is a message to show them.
Draft(t) ==
    /\ step[t] = "draft"
    /\ drafts' = [drafts EXCEPT ![t] = "whole"]
    /\ Asked(t)
    /\ Reply(t, "card")
    /\ UNCHANGED <<chat, answered, card, named, proposals, staged, decideVars, cut>>

DraftNothing(t) ==
    /\ step[t] = "draft"
    /\ Asked(t)
    /\ Reply(t, "text")
    /\ UNCHANGED <<chat, answered, card, named, proposals, drafts, staged, decideVars, cut>>

\* ProjectAssistantAgent always has an answer: the model's, or the fallback.
Answer(t) ==
    /\ step[t] = "answer"
    /\ Reply(t, "text")
    /\ UNCHANGED <<threadVars, proposals, drafts, staged, decideVars, cut>>

\* The model calls tools; every refusal goes back to it as the result of the call.
CallTools(t) ==
    /\ step[t] = "model" /\ rounds[t] < MaxRounds
    /\ rounds' = [rounds EXCEPT ![t] = @ + 1]
    /\ \E tool \in SearchTools \cup FactTools \cup WriteTools : \E new \in Stages(tool) :
          staged' = [staged EXCEPT ![t] = @ \/ new]
    /\ UNCHANGED <<threadVars, proposals, drafts, kind, step, reply, decideVars, cut>>

\* A clarifying question drops what earlier rounds, or calls beside it, have staged.
Clarify(t) ==
    /\ step[t] = "model" /\ rounds[t] < MaxRounds
    /\ staged' = [staged EXCEPT ![t] = FALSE]
    /\ Reply(t, "question")
    /\ UNCHANGED <<threadVars, proposals, drafts, decideVars, cut>>

\* The model answers, the provider fails, or the rounds are used up: what was staged stays.
Conclude(t) ==
    /\ step[t] = "model"
    /\ Reply(t, "text")
    /\ UNCHANGED <<threadVars, proposals, drafts, staged, decideVars, cut>>

-----------------------------------------------------------------------------
(* The assistant's message *)

\* With operations, create_proposal commits the message and the proposal first; the
\* message learns the proposal's id in a second transaction.
Store(t) ==
    /\ step[t] = "store" /\ chat
    /\ Asked(t)
    /\ answered' = answered \cup {t}
    /\ card' = [card EXCEPT ![t] = IF reply[t] = "card" THEN "pending" ELSE "none"]
    /\ proposals' = IF staged[t] THEN proposals \cup {t} ELSE proposals
    /\ Goto(t, IF staged[t] THEN "name" ELSE "end")
    /\ UNCHANGED <<chat, named, drafts, kind, rounds, staged, reply, decideVars, cut>>

Name(t) ==
    /\ step[t] = "name" /\ chat
    /\ named' = named \cup {t}
    /\ Goto(t, "end")
    /\ UNCHANGED <<chat, asked, answered, card, proposals, drafts, kind, rounds, staged, reply,
                   decideVars, cut>>

Break(t) ==
    /\ Goto(t, "end")
    /\ cut' = cut \cup {t}
    /\ UNCHANGED <<threadVars, proposals, drafts, kind, rounds, staged, reply, decideVars>>

\* The chat is gone: not found, a foreign key, or a message row to update that is not there.
ChatGone(t) == step[t] \in {"store", "name"} /\ ~chat /\ Break(t)

\* The reader of a stream leaves: the generator is cancelled where it awaits or yields.
Disconnect(t) ==
    /\ kind[t] \in Streamed
    /\ \/ step[t] = "store"
       \/ step[t] = (IF kind[t] = "answer" THEN "answer" ELSE "model")
    /\ Break(t)

\* The process dies, or an error nobody catches.
Fail(t) == step[t] \notin {"idle", "end"} /\ Break(t)

\* Messages go with the chat; proposals and drafts stay.
DeleteChat ==
    /\ chat /\ \A t \in Turns : ~Locks(t)
    /\ chat' = FALSE /\ asked' = {} /\ answered' = {} /\ named' = {}
    /\ card' = [t \in Turns |-> "none"]
    /\ UNCHANGED <<proposals, drafts, turnVars, decideVars, cut>>

-----------------------------------------------------------------------------
(* The card *)

\* One task of the draft is deleted on the plan board.
DropTask(t) ==
    /\ drafts[t] = "whole"
    /\ drafts' = [drafts EXCEPT ![t] = "broken"]
    /\ UNCHANGED <<threadVars, proposals, turnVars, decideVars, cut>>

OpenAny(d, t, v) ==
    /\ stage[d] = "idle" /\ card[t] # "none"
    /\ stage' = [stage EXCEPT ![d] = "batch"]
    /\ over' = [over EXCEPT ![d] = t]
    /\ verdict' = [verdict EXCEPT ![d] = v]
    /\ contested' = IF \E e \in Deciders : over[e] = t THEN contested \cup {t} ELSE contested
    /\ UNCHANGED <<threadVars, proposals, drafts, turnVars, decided, cut>>

\* _require_pending_action_message reads the card without a lock.
Open(d, t, v) ==
    /\ stage[d] = "idle" /\ card[t] = "pending"
    /\ stage' = [stage EXCEPT ![d] = "batch"]
    /\ over' = [over EXCEPT ![d] = t]
    /\ verdict' = [verdict EXCEPT ![d] = v]
    /\ contested' = IF \E e \in Deciders : over[e] = t THEN contested \cup {t} ELSE contested
    /\ UNCHANGED <<threadVars, proposals, drafts, turnVars, decided, cut>>

\* approve_batch or reject_batch: every task of the draft in one transaction.
Batch(d) ==
    /\ stage[d] = "batch" /\ drafts[over[d]] = "whole"
    /\ decided' = [decided EXCEPT ![over[d]] = verdict[d]]
    /\ stage' = [stage EXCEPT ![d] = "card"]
    /\ UNCHANGED <<threadVars, proposals, drafts, turnVars, over, verdict, contested, cut>>

Leave(d) ==
    /\ stage' = [stage EXCEPT ![d] = "idle"]
    /\ over' = [over EXCEPT ![d] = Nothing]
    /\ verdict' = [verdict EXCEPT ![d] = "approved"]

\* A task of the draft is missing: nothing is decided, and the card stays pending.
BatchMissing(d) ==
    /\ stage[d] = "batch" /\ drafts[over[d]] = "broken"
    /\ Leave(d)
    /\ UNCHANGED <<threadVars, proposals, drafts, turnVars, decided, contested, cut>>

\* _set_action_status, in a transaction of its own.
Resolve(d) ==
    /\ stage[d] = "card" /\ card[over[d]] # "none"
    /\ card' = [card EXCEPT ![over[d]] = verdict[d]]
    /\ Leave(d)
    /\ UNCHANGED <<chat, asked, answered, named, proposals, drafts, turnVars, decided,
                   contested, cut>>

\* The process dies, or the chat has gone with the card.
Abandon(d) ==
    /\ stage[d] # "idle"
    /\ Leave(d)
    /\ UNCHANGED <<threadVars, proposals, drafts, turnVars, decided, contested, cut>>

-----------------------------------------------------------------------------

Advance(t) ==
    \/ Begin(t)
    \/ AskBack(t) \/ \E point \in {"draft", "answer", "model"} : Classify(t, point)
    \/ Draft(t) \/ DraftNothing(t) \/ Answer(t)
    \/ CallTools(t) \/ Clarify(t) \/ Conclude(t)
    \/ Store(t) \/ Name(t) \/ ChatGone(t)

ChatNext ==
    \/ \E t \in Turns : Advance(t) \/ Disconnect(t) \/ Fail(t) \/ DropTask(t)
    \/ \E d \in Deciders : \/ \E t \in Turns, v \in Verdicts : Open(d, t, v)
                           \/ Batch(d) \/ BatchMissing(d) \/ Resolve(d) \/ Abandon(d)
    \/ DeleteChat

\* A request that runs goes on: every model call ends, with an answer or a time-out.
ChatFairness == \A t \in Turns : WF_chatVars(step[t] # "idle" /\ Advance(t))

-----------------------------------------------------------------------------
(* Properties *)

Ended(t) == step[t] = "end" /\ t \notin cut

\* An answer stands in a chat that holds its question.  Operations become a proposal only
\* if the reply was no question, and a proposal or a draft is shown by a message, unless
\* the turn was cut short (assistant_service.py:471, :558) or the chat deleted: the message
\* is written after the drafts are committed, and named after the proposal is.
ThreadIsWhole ==
    /\ answered \subseteq asked
    /\ named \subseteq proposals
    /\ \A t \in Turns :
          /\ t \in proposals => reply[t] = "text"
          /\ chat /\ Ended(t) /\ t \in proposals => t \in named
          /\ chat /\ Ended(t) /\ drafts[t] # "none" => card[t] # "none"

\* A card that says approved or rejected says what was last done to its drafts, unless two
\* decisions had it open at once: the card is read before the tasks are decided and written
\* after (assistant_service.py:816-817).
CardTellsDecision ==
    \A t \in Turns : card[t] \in Verdicts /\ t \notin contested => decided[t] = card[t]

\* A turn ends: the model may not call tools for ever.
TurnsEnd == \A t \in Turns : step[t] # "idle" ~> step[t] = "end"
=============================================================================

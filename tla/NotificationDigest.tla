-------------------------- MODULE NotificationDigest --------------------------
(***************************************************************************)
(* Notifications and the mail that digests them                            *)
(* (services/notification_service.py, notification_email_service.py).  A   *)
(* signal about a client is a notification of every user of its team, or   *)
(* refreshes the one still unread; a sweep mails each user what is         *)
(* pending, oldest first, a batch at a time.                               *)
(***************************************************************************)
EXTENDS Naturals, FiniteSets, Sequences

CONSTANTS Users,     \* recipients, all on the team of every client
          Clients,   \* what a signal is about: its rec_key
          Notifiers, \* sessions that notify
          Digesters, \* sessions of the digest sweep
          MaxNotes,  \* bound on rows of notifications
          BatchLimit \* _BATCH_LIMIT

ASSUME DigestAssumption ==
    /\ MaxNotes \in Nat /\ BatchLimit \in Nat \ {0}
    /\ IsFiniteSet(Users) /\ Clients # {}

Ids    == 1 .. MaxNotes
NoNote == 0
Notes  == [user : Users, client : Clients, urgent : BOOLEAN, read : BOOLEAN, emailed : BOOLEAN]

VARIABLES
    \* notifications, in the order they were created
    notes,
    \* notification_preferences: the clients a user wants mail about, none if opted out
    wants,
    \* each notify: control point, signal, its urgency, unread rows it has found
    signal, signalOf, urgent, unread,
    \* each sweep: control point, rows it has left, what it knows of the preferences unless
    \* they are read again, the rows of the mail it has sent
    sweep, backlog, knows, reread, posted,
    \* history: rows that were mailed, mailed again; rows whose mail was lost track of;
    \* signals two notifications of which overlapped
    mailed, again, astray, doubled

notifyVars == <<signal, signalOf, urgent, unread>>
sweepVars  == <<sweep, backlog, knows, reread, posted>>
digestVars   == <<mailed, again, astray>>
noteVars   == <<notes, wants, notifyVars, sweepVars, digestVars, doubled>>

NotesThere == 1 .. Len(notes)

NoteTypeOK ==
    /\ notes \in Seq(Notes) /\ Len(notes) <= MaxNotes
    /\ wants \in [Users -> SUBSET Clients]
    /\ signal \in [Notifiers -> {"idle", "commit"}]
    /\ signalOf \in [Notifiers -> Clients] /\ urgent \in [Notifiers -> BOOLEAN]
    /\ unread \in [Notifiers -> [Users -> Ids \cup {NoNote}]]
    /\ sweep \in [Digesters -> {"idle", "work", "save"}]
    /\ backlog \in [Digesters -> SUBSET Ids]
    /\ knows \in [Digesters -> [Users -> SUBSET Clients]]
    /\ reread \in [Digesters -> BOOLEAN]
    /\ posted \in [Digesters -> SUBSET Ids]
    /\ mailed \subseteq Ids /\ again \subseteq mailed /\ astray \subseteq Ids
    /\ doubled \subseteq Clients

NoteInit ==
    /\ notes = <<>>
    /\ wants \in [Users -> SUBSET Clients]
    /\ signal = [s \in Notifiers |-> "idle"]
    /\ signalOf = [s \in Notifiers |-> CHOOSE c \in Clients : TRUE]
    /\ urgent = [s \in Notifiers |-> FALSE]
    /\ unread = [s \in Notifiers |-> [u \in Users |-> NoNote]]
    /\ sweep = [d \in Digesters |-> "idle"]
    /\ backlog = [d \in Digesters |-> {}]
    /\ knows = [d \in Digesters |-> [u \in Users |-> {}]]
    /\ reread = [d \in Digesters |-> FALSE]
    /\ posted = [d \in Digesters |-> {}]
    /\ mailed = {} /\ again = {} /\ astray = {} /\ doubled = {}

-----------------------------------------------------------------------------
(* notify_client_team *)

FindUnread(u, c) == {i \in NotesThere : notes[i].user = u /\ notes[i].client = c /\ ~notes[i].read}

\* Each user's unread row of this signal, one of them if there are more.
Notify(s) ==
    /\ signal[s] = "idle"
    /\ \E c \in Clients, hot \in BOOLEAN :
          /\ signalOf' = [signalOf EXCEPT ![s] = c]
          /\ urgent' = [urgent EXCEPT ![s] = hot]
          /\ unread' \in {[unread EXCEPT ![s] = f] : f \in {g \in [Users -> Ids \cup {NoNote}] :
                \A u \in Users : IF FindUnread(u, c) = {} THEN g[u] = NoNote
                                 ELSE g[u] \in FindUnread(u, c)}}
          /\ doubled' = IF \E q \in Notifiers \ {s} : signal[q] = "commit" /\ signalOf[q] = c
                        THEN doubled \cup {c} ELSE doubled
    /\ signal' = [signal EXCEPT ![s] = "commit"]
    /\ UNCHANGED <<notes, wants, sweepVars, digestVars>>

\* Rows found are refreshed, though read or mailed by now; the others get a new one.
NewNotes(s, order) ==
    [i \in 1 .. Len(order) |-> [user |-> order[i], client |-> signalOf[s], urgent |-> urgent[s],
                                read |-> FALSE, emailed |-> FALSE]]

Orders(us) == {o \in [1 .. Cardinality(us) -> us] : \A u \in us : \E i \in DOMAIN o : o[i] = u}

CommitNotify(s) ==
    LET new == {u \in Users : unread[s][u] = NoNote} IN
    /\ signal[s] = "commit" /\ Len(notes) + Cardinality(new) <= MaxNotes
    /\ \E order \in Orders(new) :
          notes' = [i \in NotesThere |-> IF \E u \in Users : unread[s][u] = i
                                      THEN [notes[i] EXCEPT !.urgent = urgent[s]] ELSE notes[i]]
                   \o NewNotes(s, order)
    /\ signal' = [signal EXCEPT ![s] = "idle"]
    /\ urgent' = [urgent EXCEPT ![s] = FALSE]
    /\ unread' = [unread EXCEPT ![s] = [u \in Users |-> NoNote]]
    /\ UNCHANGED <<wants, signalOf, sweepVars, digestVars, doubled>>

MarkRead(i) ==
    /\ i \in NotesThere /\ ~notes[i].read
    /\ notes' = [notes EXCEPT ![i].read = TRUE]
    /\ UNCHANGED <<wants, notifyVars, sweepVars, digestVars, doubled>>

SetPreferences(u) ==
    /\ \E want \in SUBSET Clients : want # wants[u] /\ wants' = [wants EXCEPT ![u] = want]
    /\ UNCHANGED <<notes, notifyVars, sweepVars, digestVars, doubled>>

-----------------------------------------------------------------------------
(* send_pending_emails *)

PendingMailed == {i \in NotesThere : notes[i].urgent}
Pending == {i \in NotesThere : notes[i].urgent /\ ~notes[i].emailed}

Oldest(S) == {i \in S : Cardinality({j \in S : j < i}) < BatchLimit}

\* list_pending_email, whoever the rows are for, and the preferences.
Collect(d) ==
    /\ sweep[d] = "idle" /\ Pending # {}
    /\ backlog' = [backlog EXCEPT ![d] = Oldest(Pending)]
    /\ knows' = [knows EXCEPT ![d] = wants]
    /\ reread' = [reread EXCEPT ![d] = FALSE]
    /\ sweep' = [sweep EXCEPT ![d] = "work"]
    /\ astray' = astray \cup UNION {Oldest(Pending) \cap (backlog[e] \cup posted[e]) : e \in Digesters}
    /\ UNCHANGED <<notes, wants, notifyVars, posted, mailed, again, doubled>>

\* The user whose turn it is, the one of the oldest row left; what is sent to it.
Turn(d)      == notes[CHOOSE i \in backlog[d] : \A j \in backlog[d] : i <= j].user
TurnItems(d) == {i \in backlog[d] : notes[i].user = Turn(d)}
Wanted(d)    == IF reread[d] THEN wants[Turn(d)] ELSE knows[d][Turn(d)]
Eligible(d)  == {i \in TurnItems(d) : notes[i].client \in Wanted(d)}

Done(d) == backlog' = [backlog EXCEPT ![d] = @ \ TurnItems(d)]

\* Opted out, inactive, or all of it muted: the rows stay pending.
PassOver(d) ==
    /\ sweep[d] = "work" /\ backlog[d] # {} /\ Eligible(d) = {}
    /\ Done(d)
    /\ UNCHANGED <<notes, wants, notifyVars, sweep, knows, reread, posted, digestVars, doubled>>

Deliver(is) == /\ again' = again \cup (mailed \cap is)
               /\ mailed' = mailed \cup is

SendDigest(d) ==
    /\ sweep[d] = "work" /\ backlog[d] # {} /\ Eligible(d) # {}
    /\ Deliver(Eligible(d))
    /\ posted' = [posted EXCEPT ![d] = Eligible(d)]
    /\ Done(d)
    /\ sweep' = [sweep EXCEPT ![d] = "save"]
    /\ UNCHANGED <<notes, wants, notifyVars, knows, reread, astray, doubled>>

\* The provider refuses, or accepts and its answer is lost: the user's rows stay pending.
SendFails(d) ==
    /\ sweep[d] = "work" /\ backlog[d] # {} /\ Eligible(d) # {}
    /\ \/ UNCHANGED digestVars
       \/ Deliver(Eligible(d)) /\ astray' = astray \cup Eligible(d)
    /\ Done(d)
    /\ UNCHANGED <<notes, wants, notifyVars, sweep, knows, reread, posted, doubled>>

\* The commit makes the session read rows and preferences again.
SaveEmailed(d) ==
    /\ sweep[d] = "save"
    /\ notes' = [i \in NotesThere |-> IF i \in posted[d] THEN [notes[i] EXCEPT !.emailed = TRUE]
                                   ELSE notes[i]]
    /\ posted' = [posted EXCEPT ![d] = {}]
    /\ reread' = [reread EXCEPT ![d] = TRUE]
    /\ knows' = [knows EXCEPT ![d] = [u \in Users |-> {}]]
    /\ sweep' = [sweep EXCEPT ![d] = "work"]
    /\ UNCHANGED <<wants, notifyVars, backlog, digestVars, doubled>>

SweepOver(d) ==
    /\ sweep' = [sweep EXCEPT ![d] = "idle"]
    /\ backlog' = [backlog EXCEPT ![d] = {}]
    /\ posted' = [posted EXCEPT ![d] = {}]
    /\ knows' = [knows EXCEPT ![d] = [u \in Users |-> {}]]
    /\ reread' = [reread EXCEPT ![d] = FALSE]

EndDigest(d) ==
    /\ sweep[d] = "work" /\ backlog[d] = {}
    /\ SweepOver(d)
    /\ UNCHANGED <<notes, wants, notifyVars, digestVars, doubled>>

\* The process dies, or the database fails: what was mailed and not saved is mailed again.
DigestDies(d) ==
    /\ sweep[d] # "idle"
    /\ SweepOver(d)
    /\ astray' = astray \cup posted[d]
    /\ UNCHANGED <<notes, wants, notifyVars, mailed, again, doubled>>

Digest(d) == Collect(d) \/ PassOver(d) \/ SendDigest(d) \/ SaveEmailed(d) \/ EndDigest(d)

NoteNext ==
    \/ \E s \in Notifiers : Notify(s) \/ CommitNotify(s)
    \/ \E i \in Ids : MarkRead(i)
    \/ \E u \in Users : SetPreferences(u)
    \/ \E d \in Digesters : Digest(d) \/ SendFails(d) \/ DigestDies(d)

\* The scheduler runs the sweep again and again; one that is repeated for ever does not die
\* for ever, and a user's mail that is tried again and again goes out.
NoteFairness ==
    \A d \in Digesters :
       /\ WF_noteVars(Digest(d))
       /\ SF_noteVars(PassOver(d)) /\ SF_noteVars(SaveEmailed(d))
       /\ \A u \in Users : SF_noteVars(SendDigest(d) /\ Turn(d) = u)

NoteSpec == NoteInit /\ [][NoteNext]_noteVars /\ NoteFairness

-----------------------------------------------------------------------------
(* Properties *)

\* A repeated signal updates the notification still unread (notification_service.py:6), so a
\* user has one unread of it, unless two notifications of it overlapped.  A row is mailed
\* once, unless two sweeps had it, or the provider's answer or the process was lost between
\* the mail and the commit.
ToldOnce ==
    /\ \A u \in Users, c \in Clients \ doubled : Cardinality(FindUnread(u, c)) <= 1
    /\ again \subseteq astray

\* A backlog drains in order, oldest first (notification_repository.py:77): while nobody
\* changes what it wants, what is pending for a user who wants it does not stay pending.
BacklogDrains ==
    \A want \in [Users -> SUBSET Clients] : [](wants = want) =>
        \A i \in Ids :
           i \in Pending /\ notes[i].client \in want[notes[i].user] ~> i \notin Pending
=============================================================================

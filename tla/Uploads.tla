------------------------------ MODULE Uploads ------------------------------
(***************************************************************************)
(* Stored files: services/upload_service.py, the links that open them      *)
(* (utils/download_link.py, api/v1/routers/uploads.py), the reports that   *)
(* are generated into them (report_service.py, reports/generator.py) and   *)
(* the tickets they are attached to (support_ticket_service.py).           *)
(*                                                                         *)
(* A file is an object of the bucket and a row of uploads; no transaction  *)
(* spans both, and every write of the object comes before the commit of    *)
(* the row.  A link is the file and the epoch it is signed for.  There is  *)
(* one ticket, of one reporter who owns every file; a status other than    *)
(* open is "taken".                                                        *)
(***************************************************************************)
EXTENDS Naturals, FiniteSets

CONSTANTS Files,     \* upload ids, each drawn once (uuid4)
          Desks,     \* requests
          MaxEpoch   \* bound: regenerations in a row

ASSUME EpochAssumption == MaxEpoch \in Nat \ {0}

Link       == [file : Files, epoch : 0 .. MaxEpoch]
Attachment == [file : Files, by : Desks]      \* named by the request that made it
Ticket     == [status : {"none", "open", "taken", "deleted"}, files : SUBSET Attachment]
NoTicket   == [status |-> "none", files |-> {}]
Deleted    == [status |-> "deleted", files |-> {}]
Idle       == [pc |-> "idle"]

VARIABLES
    upload,    \* the uploads table: the link_epoch of each row
    objects,   \* the bucket
    drawn,     \* the ids already drawn
    exports,   \* the file_url of each report, named by the file it was generated into: a link
               \* of ours, or none where an operator wrote another text over it
    ticket,    \* the ticket with its attachments
    request,     \* what each request is about
    issued,    \* history: the links handed out
    revoked,   \* history: those handed out before a regeneration that was answered
    raced,     \* history: files two regenerations of which overlapped
    torn        \* history: files whose request died, or the bucket or the commit failed

fileVars == <<upload, objects, drawn, exports, ticket, request, issued, revoked, raced, torn>>
books    == <<exports, ticket>>
links    == <<issued, revoked, raced>>

Recorded == DOMAIN upload   \* the files that have a row

UploadsTypeOK ==
    /\ Recorded \subseteq drawn /\ upload \in [Recorded -> 0 .. MaxEpoch]
    /\ objects \cup DOMAIN exports \cup raced \cup torn \subseteq drawn /\ drawn \subseteq Files
    /\ ticket \in Ticket
    /\ issued \subseteq Link /\ revoked \subseteq issued
    /\ exports \in [DOMAIN exports -> SUBSET issued]
    /\ request \in [Desks ->
         {Idle} \cup [pc : {"recording"}, file : Files, export : BOOLEAN]
                \cup [pc : {"dropping", "answering", "reporting"}, file : Files]
                \cup [pc : {"renewing"}, file : Files, epoch : 0 .. MaxEpoch]
                \cup [pc : {"saving"}, loaded : Ticket, ticket : Ticket]]

UploadsInit ==
    /\ upload = [f \in {} |-> 0] /\ objects = {} /\ drawn = {}
    /\ exports = [f \in {} |-> {}] /\ ticket = NoTicket
    /\ request = [d \in Desks |-> Idle]
    /\ issued = {} /\ revoked = {} /\ raced = {} /\ torn = {}

Goes(d, ask) == request' = [request EXCEPT ![d] = ask]
At(d, pc)     == request[d].pc = pc

------------------------------------------------------------------------------
(* Storing a file: the object, the row, and the report it is for *)

\* The bytes are pushed under a key of their own; a failure here leaves nothing.
Push(d) ==
    /\ At(d, "idle")
    /\ \E f \in Files \ drawn, export \in BOOLEAN :
         /\ objects' = objects \cup {f} /\ drawn' = drawn \cup {f}
         /\ Goes(d, [pc |-> "recording", file |-> f, export |-> export])
    /\ UNCHANGED <<upload, books, links, torn>>

\* The link store_bytes answers with.
First(f) == [file |-> f, epoch |-> 0]

Record(d) ==
    /\ At(d, "recording")
    /\ LET f == request[d].file
       IN  /\ upload' = [g \in Recorded \cup {f} |-> IF g = f THEN 0 ELSE upload[g]]
           /\ issued' = issued \cup {First(f)}
           /\ Goes(d, IF request[d].export THEN [pc |-> "reporting", file |-> f] ELSE Idle)
    /\ UNCHANGED <<objects, drawn, books, revoked, raced, torn>>

\* The keys _safe_delete takes back: it swallows what the bucket answers.
TakenBack(f) == {{f}, {}}

\* The commit fails: the object is taken back, if the bucket answers.
RecordFails(d) ==
    /\ At(d, "recording")
    /\ \E taken \in TakenBack(request[d].file) :
         /\ objects' = objects \ taken
         /\ torn' = torn \cup ({request[d].file} \ taken)
    /\ Goes(d, Idle)
    /\ UNCHANGED <<upload, drawn, books, links>>

\* The report's row, in a transaction of its own.
WriteReport(d) ==
    /\ At(d, "reporting")
    /\ LET f == request[d].file
       IN  exports' = [g \in DOMAIN exports \cup {f} |-> IF g = f THEN {First(f)} ELSE exports[g]]
    /\ Goes(d, Idle)
    /\ UNCHANGED <<upload, objects, drawn, ticket, links, torn>>

\* An edit writes any text over the file_url: a link that was handed out, or something else.
UpdateReport(f) ==
    /\ f \in DOMAIN exports
    /\ \E url \in {{}} \cup {{l} : l \in issued} : exports' = [exports EXCEPT ![f] = url]
    /\ UNCHANGED <<upload, objects, drawn, ticket, request, links, torn>>

\* Deleting a report deletes its row alone.
DeleteReport(f) ==
    /\ f \in DOMAIN exports
    /\ exports' = [g \in DOMAIN exports \ {f} |-> exports[g]]
    /\ UNCHANGED <<upload, objects, drawn, ticket, request, links, torn>>

\* The process dies, or a commit is refused: what was not committed is lost.
Die(d) ==
    /\ request[d].pc \in {"recording", "dropping", "reporting"}
    /\ torn' = IF At(d, "reporting") THEN torn ELSE torn \cup {request[d].file}
    /\ Goes(d, Idle)
    /\ UNCHANGED <<upload, objects, drawn, books, links>>

------------------------------------------------------------------------------
(* Deleting a file *)

\* The object first, best effort.
Remove(d) ==
    /\ At(d, "idle")
    /\ \E f \in Recorded : \E taken \in TakenBack(f) :
         /\ objects' = objects \ taken
         /\ torn' = torn \cup ({f} \cap (objects \ taken))
         /\ Goes(d, [pc |-> "dropping", file |-> f])
    /\ UNCHANGED <<upload, drawn, books, links>>

\* Then the row, and the attachments that reference it (ON DELETE CASCADE).
Drop(d) ==
    /\ At(d, "dropping")
    /\ upload' = [f \in Recorded \ {request[d].file} |-> upload[f]]
    /\ ticket' = [ticket EXCEPT !.files = {a \in @ : a.file # request[d].file}]
    /\ Goes(d, Idle)
    /\ UNCHANGED <<objects, drawn, exports, links, torn>>

------------------------------------------------------------------------------
(* Links *)

\* What a link opens: the row is loaded, and the signature checked for its epoch.
Opens(l) == l.file \in Recorded /\ upload[l.file] = l.epoch

\* A link for every read: of the file or of the ticket, signed for the epoch of the row; of a
\* chat or a logo, for the first.
Sign(f) ==
    /\ f \in drawn
    /\ \E l \in Link : /\ l.file = f /\ (Opens(l) \/ l.epoch = 0)
                       /\ issued' = issued \cup {l}
    /\ UNCHANGED <<upload, objects, drawn, books, request, revoked, raced, torn>>

LoadForRenewal(d) ==
    /\ At(d, "idle")
    /\ \E f \in Recorded : /\ upload[f] < MaxEpoch
                         /\ Goes(d, [pc |-> "renewing", file |-> f, epoch |-> upload[f]])
    /\ UNCHANGED <<upload, objects, drawn, books, links, torn>>

\* A mark in place of a counter.
BumpedToOne(epoch) == 1

\* link_epoch += 1, of the row as it was loaded.
Bumped(epoch) == epoch + 1

Renew(d) ==
    /\ At(d, "renewing")
    /\ LET f == request[d].file
       IN  IF f \in Recorded
           THEN /\ upload' = [upload EXCEPT ![f] = Bumped(request[d].epoch)]
                /\ revoked' = revoked \cup {l \in issued : l.file = f}
                /\ raced' = IF upload[f] = request[d].epoch THEN raced ELSE raced \cup {f}
                /\ Goes(d, [pc |-> "answering", file |-> f])
           ELSE /\ Goes(d, Idle)                \* no row to update: 409
                /\ UNCHANGED <<upload, revoked, raced>>
    /\ UNCHANGED <<objects, drawn, books, issued, torn>>

\* The answer reads the row again: the commit expired it.
AnswerRenewal(d) ==
    /\ At(d, "answering")
    /\ issued' = issued \cup {l \in Link : l.file = request[d].file /\ Opens(l)}
    /\ Goes(d, Idle)
    /\ UNCHANGED <<upload, objects, drawn, books, revoked, raced, torn>>

------------------------------------------------------------------------------
(* The ticket *)

\* A request loads the ticket, checks what it may do, and resolves the files it attaches.
LoadTicket(d, new) ==
    /\ At(d, "idle")
    /\ Goes(d, [pc |-> "saving", loaded |-> ticket, ticket |-> new])
    /\ UNCHANGED <<upload, objects, drawn, books, links, torn>>

There == ticket.status \in {"open", "taken"}

Attaching(d) == {{[file |-> f, by |-> d] : f \in files} : files \in SUBSET Recorded}

FileTicket(d)     == /\ ticket = NoTicket
                     /\ \E files \in Attaching(d) : LoadTicket(d, [status |-> "open", files |-> files])
EditTicket(d)     == There /\ \E files \in Attaching(d) : LoadTicket(d, [ticket EXCEPT !.files = files])
TakeTicket(d)     == There /\ LoadTicket(d, [ticket EXCEPT !.status = "taken"])   \* an admin
WithdrawTicket(d) == ticket.status = "open" /\ LoadTicket(d, Deleted)            \* the reporter
DeleteTicket(d)   == There /\ LoadTicket(d, Deleted)                             \* an admin

\* What is written: a status that was changed, the new attachments, and the DELETEs of those
\* loaded that were replaced.
Kept(loaded, new) ==
    [status |-> IF new.status = loaded.status THEN ticket.status ELSE new.status,
     files  |-> (ticket.files \ (loaded.files \ new.files)) \cup (new.files \ loaded.files)]

\* Foreign keys refuse an attachment of a file, or to a ticket, that is gone (409).
Accepted(loaded, new) ==
    /\ \A a \in new.files \ loaded.files : a.file \in Recorded
    /\ IF loaded = NoTicket THEN ticket = NoTicket ELSE There

SaveTicket(d) ==
    /\ At(d, "saving")
    /\ LET loaded == request[d].loaded
           new    == request[d].ticket
       IN  ticket' = IF new = Deleted THEN Deleted
                     ELSE IF Accepted(loaded, new) THEN Kept(loaded, new) ELSE ticket
    /\ Goes(d, Idle)
    /\ UNCHANGED <<upload, objects, drawn, exports, links, torn>>

UploadsNext ==
    \/ \E d \in Desks :
         \/ Push(d) \/ Record(d) \/ RecordFails(d) \/ WriteReport(d) \/ Die(d)
         \/ Remove(d) \/ Drop(d) \/ LoadForRenewal(d) \/ Renew(d) \/ AnswerRenewal(d)
         \/ FileTicket(d) \/ EditTicket(d) \/ TakeTicket(d) \/ WithdrawTicket(d) \/ DeleteTicket(d)
         \/ SaveTicket(d)
    \/ \E f \in Files : Sign(f) \/ UpdateReport(f) \/ DeleteReport(f)

------------------------------------------------------------------------------
(* Properties *)

\* A file is in the bucket and in the table or in neither (store_bytes, delete), unless a
\* request about it is under way, or one was torn between the two.
BucketFitsTable ==
    \A f \in Files \ torn : (f \in objects) # (f \in Recorded)
                             => \E d \in Desks : request[d].pc \in {"recording", "dropping"} /\ request[d].file = f

\* A link that was revoked (regenerate_link: "invalidate every previously-issued signed link")
\* never opens again, unless two regenerations overlapped.
RevokedStaysDead == \A l \in revoked : Opens(l) => l.file \in raced

\* What a report or a ticket shows opens: a link in a report's file_url, generated or written
\* there by an edit, until it is revoked or its file deleted, the attachments of a ticket as
\* long as they are listed.
ShownOpens ==
    /\ \A f \in DOMAIN exports : \A l \in exports[f] :
          Opens(l) \/ l \in revoked \/ l.file \notin Recorded
    /\ \A a \in ticket.files : a.file \in Recorded

\* The files, their links, and the records that show them agree.
FilesAreKept == BucketFitsTable /\ RevokedStaysDead /\ ShownOpens
=============================================================================

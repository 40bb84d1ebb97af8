----------------------------- MODULE Knowledge -----------------------------
(***************************************************************************)
(* What a client's agents can look up: IngestionService.sync, the chunking *)
(* and embedding of orchestrator.build, and the promotion of an e-mail by  *)
(* ConversationService.add_message_to_source.  A build reads the fields,   *)
(* documents and promoted messages of the client, loads those whose hash   *)
(* is not the one stored, and commits rows and chunks at its end; nothing  *)
(* keeps a second build, or a promotion, from committing meanwhile.        *)
(* ProfileBuild has the version that the same commit publishes.            *)
(***************************************************************************)
EXTENDS Naturals, FiniteSets

CONSTANTS Groups,       \* groups of onboarding fields
          Documents,    \* documents uploaded, each immutable
          Messages,     \* messages of the inbox
          Ingests,      \* workers building this client's profile
          Promoters,    \* requests to promote a message
          Rows,         \* bound on rows of knowledge_sources
          MaxText,      \* bound on the texts of a field
          MaxBuilds,    \* bound on builds
          NoRow

Origins  == Groups \cup Documents \cup Messages

ASSUME KnowledgeAssumption ==
    /\ MaxText \in Nat \ {0} /\ MaxBuilds \in Nat
    /\ IsFiniteSet(Origins) /\ IsFiniteSet(Rows) /\ NoRow \notin Origins \cup Rows
    /\ Groups \cap Documents = {} /\ Groups \cap Messages = {} /\ Documents \cap Messages = {}

Bodies   == 0 .. MaxText     \* 0 is the empty text, and the hash that is NULL
SourceStatuses == {"pending", "extracted", "embedded", "failed"}
NoSource == [of |-> NoRow, hash |-> 0, text |-> 0, status |-> "pending"]
Source   == [of : Origins \cup {NoRow}, hash : Bodies, text : Bodies, status : SourceStatuses]

\* What a build holds: the origins it has yet to read, the texts it read, the rows it read and which it took for each origin;
\* from its flush on, the rows as it will commit them and the chunks it deletes.
Build    == [pc : {"idle", "origins", "sources", "load", "embed"}, full : BOOLEAN, alone : BOOLEAN,
             left : SUBSET Origins, wants : [Origins -> Bodies], had : [Rows -> Source],
             pick : [Origins -> Rows \cup {NoRow}], source : [Rows -> Source],
             written : SUBSET Rows, removed : SUBSET Rows, doomed : [Rows -> SUBSET Bodies]]
NoBuild  == [pc |-> "idle", full |-> FALSE, alone |-> FALSE, left |-> {},
             wants |-> [o \in Origins |-> 0], had |-> [r \in Rows |-> NoSource],
             pick |-> [o \in Origins |-> NoRow], source |-> [r \in Rows |-> NoSource],
             written |-> {}, removed |-> {}, doomed |-> [r \in Rows |-> {}]]

VARIABLES
    text,         \* the text of each field; for a document or a message, 1 while it exists
    gone,         \* documents and messages that were deleted
    stamped,      \* messages.added_to_source_at
    promoting,    \* each request: the message it read as not yet promoted
    knowledge,    \* knowledge_sources
    chunks,       \* knowledge_chunks: the texts whose pieces each source has
    build,        \* each build: what it read, and what it will commit
    builds
originVars    == <<text, gone>>
knowledgeVars == <<text, gone, stamped, promoting, knowledge, chunks, build, builds>>

KnowledgeTypeOK ==
    /\ text \in [Origins -> Bodies]
    /\ stamped \subseteq Messages /\ promoting \in [Promoters -> Messages \cup {NoRow}]
    /\ knowledge \in [Rows -> Source]
    /\ chunks \in [Rows -> SUBSET (Bodies \ {0})]
    /\ build \in [Ingests -> Build]

KnowledgeInit ==
    /\ text      = [o \in Origins |-> 0]
    /\ gone      = {} /\ stamped = {} /\ builds = 0
    /\ promoting = [p \in Promoters |-> NoRow]
    /\ knowledge = [r \in Rows |-> NoSource]
    /\ chunks    = [r \in Rows |-> {}]
    /\ build     = [b \in Ingests |-> NoBuild]

\* The rows whose identity is o, in a table as it is or was read.
RowsOf(table, o) == {r \in Rows : table[r].of = o}

\* chunk: pieces of a text in their order, none of an empty one.
PiecesOf(body) == {body} \ {0}

\* A row of a new key: neither stored nor known to a transaction.
Flushed(b) == build[b].pc = "embed"
Fresh == {r \in Rows : /\ knowledge[r].of = NoRow
                       /\ \A b \in Ingests : /\ build[b].had[r].of = NoRow
                                             /\ build[b].source[r].of = NoRow}

\* What search can return of an origin.
Search(o) == UNION {chunks[r] : r \in RowsOf(knowledge, o)}

------------------------------------------------------------------------------
(* The origins *)

EditField(f, t) == /\ t # text[f]
                   /\ text' = [text EXCEPT ![f] = t]
                   /\ UNCHANGED <<gone, stamped, promoting, knowledge, chunks, build, builds>>

AddOrigin(o) == /\ o \notin gone /\ text[o] = 0
          /\ text' = [text EXCEPT ![o] = 1]
          /\ UNCHANGED <<gone, stamped, promoting, knowledge, chunks, build, builds>>

\* A conversation goes with its messages, and no build is queued; what was embedded stays.
RemoveOrigin(o) == /\ text[o] = 1
             /\ text' = [text EXCEPT ![o] = 0] /\ gone' = gone \cup {o}
             /\ UNCHANGED <<stamped, promoting, knowledge, chunks, build, builds>>

StartPromotion(p, m) ==
    /\ promoting[p] = NoRow
    /\ text[m] = 1 /\ m \notin stamped
    /\ promoting' = [promoting EXCEPT ![p] = m]
    /\ UNCHANGED <<originVars, stamped, knowledge, chunks, build, builds>>

\* The builds under way see the table change under them.
Overlapped == [b \in Ingests |-> [build[b] EXCEPT !.alone = FALSE]]

\* The row is inserted and the message stamped, if the message is still there.
Promote(p) ==
    LET m == promoting[p] IN
    /\ m # NoRow
    /\ \/ /\ text[m] = 0
          /\ UNCHANGED <<stamped, knowledge, build>>
       \/ /\ text[m] = 1 /\ Fresh # {}
          /\ knowledge' = [knowledge EXCEPT ![CHOOSE r \in Fresh : TRUE] =
                              [NoSource EXCEPT !.of = m, !.text = 1]]
          /\ stamped' = stamped \cup {m}
          /\ build' = Overlapped
    /\ promoting' = [promoting EXCEPT ![p] = NoRow]
    /\ UNCHANGED <<originVars, chunks, builds>>

------------------------------------------------------------------------------
(* A build *)

Step(b, new) == build' = [build EXCEPT ![b] = new]

StartIngest(b) ==
    /\ build[b].pc = "idle" /\ builds < MaxBuilds
    /\ \E full \in BOOLEAN : Step(b, [NoBuild EXCEPT !.pc = "origins", !.full = full,
                                     !.alone = TRUE, !.left = Origins])
    /\ builds' = builds + 1
    /\ UNCHANGED <<originVars, stamped, promoting, knowledge, chunks>>

\* What one SELECT reads: a group of fields, and after them the documents, and then the messages.
Selects(left) == IF left \cap Groups # {} THEN {{f} : f \in left \cap Groups}
                 ELSE IF left \cap Documents # {} THEN {left \cap Documents} ELSE {left}

ReadOrigins(b) ==
    LET d == build[b] IN
    /\ d.pc = "origins"
    /\ \E S \in Selects(d.left) :
         Step(b, [d EXCEPT !.pc = IF d.left = S THEN "sources" ELSE "origins", !.left = d.left \ S,
                  !.wants = [o \in Origins |-> IF o \notin S THEN d.wants[o]
                                               ELSE IF o \in Messages \ stamped THEN 0 ELSE text[o]]])
    /\ UNCHANGED <<originVars, stamped, promoting, knowledge, chunks, builds>>

\* The rows by identity: of two rows with the same one, either.
ReadSources(b) ==
    /\ build[b].pc = "sources"
    /\ \E pick \in [Origins -> Rows \cup {NoRow}] :
         /\ \A o \in Origins : IF RowsOf(knowledge, o) = {} THEN pick[o] = NoRow
                               ELSE pick[o] \in RowsOf(knowledge, o)
         /\ Step(b, [build[b] EXCEPT !.pc = "load", !.had = knowledge, !.pick = pick])
    /\ UNCHANGED <<originVars, stamped, promoting, knowledge, chunks, builds>>

Changed(b) ==
    LET d == build[b] IN
    {o \in Origins : /\ d.wants[o] # 0
                     /\ d.full \/ d.pick[o] = NoRow \/ d.had[d.pick[o]].hash # d.wants[o]}

\* Sources whose origin no longer exists.
VanishedNever(b) == {}
Vanished(b)      == {build[b].pick[o] : o \in {i \in Origins : build[b].wants[i] = 0}} \ {NoRow}

\* The row after load_text; a document may be out of reach or unreadable.
Loaded(b, o, failing) ==
    [of |-> o, hash |-> build[b].wants[o],
     text |-> IF o \in failing THEN 0 ELSE build[b].wants[o],
     status |-> IF o \in failing THEN "failed" ELSE "extracted"]

\* The rows another build has flushed and not committed: their locks are held.
Locked(b) == UNION {build[c].written \cup build[c].removed : c \in {i \in Ingests \ {b} : Flushed(i)}}

\* What changed and has no row yet, and a new row for each.
Missing(b) == {o \in Changed(b) : build[b].pick[o] = NoRow}
NewRows(b) == CHOOSE n \in [Missing(b) -> Fresh] : \A o, i \in Missing(b) : n[o] = n[i] => o = i

\* The flush of sync, once every text is loaded, and the delete of the chunks of what changed:
\* an UPDATE carries the columns that differ from the row as it was read, and none is sent if
\* none does.  A row to update that is no longer there ends the build.
Sync(b) ==
    LET d       == build[b]
        row     == [o \in Changed(b) |-> IF o \in Missing(b) THEN NewRows(b)[o] ELSE d.pick[o]]
        at(r)   == CHOOSE o \in Changed(b) : row[o] = r
        touched == {row[o] : o \in Changed(b)}
    IN  /\ d.pc = "load"
        /\ Cardinality(Missing(b)) <= Cardinality(Fresh)
        /\ \E failing \in SUBSET (Changed(b) \cap Documents) :
             LET source  == [r \in Rows |-> IF r \in touched THEN Loaded(b, at(r), failing)
                                            ELSE d.had[r]]
                 written == {r \in touched : source[r] # d.had[r]}
             IN  /\ (written \cup Vanished(b)) \cap Locked(b) = {}
                 /\ IF \E r \in written : d.had[r].of # NoRow /\ knowledge[r].of = NoRow
                    THEN Step(b, NoBuild)
                    ELSE Step(b, [d EXCEPT !.pc = "embed", !.source = source, !.written = written,
                                  !.removed = Vanished(b),
                                  !.doomed = [r \in Rows |-> IF r \in touched THEN chunks[r] ELSE {}]])
        /\ UNCHANGED <<originVars, stamped, promoting, knowledge, chunks, builds>>

\* What the agents read of a source that was not loaded again: the row as it was read.
CorpusOf(b, o) == build[b].had[build[b].pick[o]]

\* The chunks of what was loaded, the version, and the commit of it all.
CommitBuild(b) ==
    LET d         == build[b]
        embeds(r) == r \in d.written /\ d.source[r].status = "extracted"
        column(r, f) == IF d.source[r][f] # d.had[r][f] THEN d.source[r][f] ELSE knowledge[r][f]
    IN  /\ d.pc = "embed"
        /\ knowledge' = [r \in Rows |->
              IF r \in d.removed THEN NoSource
              ELSE IF r \notin d.written THEN knowledge[r]
              ELSE [of |-> d.source[r].of, hash |-> column(r, "hash"), text |-> column(r, "text"),
                    status |-> IF embeds(r) THEN "embedded" ELSE column(r, "status")]]
        /\ chunks' = [r \in Rows |->
              IF r \in d.removed THEN {}
              ELSE (chunks[r] \ d.doomed[r]) \cup (IF embeds(r) THEN PiecesOf(d.source[r].text) ELSE {})]
        /\ build' = [Overlapped EXCEPT ![b] = NoBuild]
        /\ UNCHANGED <<originVars, stamped, promoting, builds>>

\* The embedder, a model or the version's number raises, or the worker dies: all is rolled back.
Abort(b) ==
    /\ build[b].pc # "idle"
    /\ Step(b, NoBuild)
    /\ UNCHANGED <<originVars, stamped, promoting, knowledge, chunks, builds>>

KnowledgeNext ==
    \/ \E f \in Groups, t \in Bodies : EditField(f, t)
    \/ \E o \in Documents \cup Messages : AddOrigin(o) \/ RemoveOrigin(o)
    \/ \E p \in Promoters : Promote(p) \/ \E m \in Messages : StartPromotion(p, m)
    \/ \E b \in Ingests : \/ StartIngest(b) \/ ReadOrigins(b) \/ ReadSources(b) \/ Sync(b) \/ CommitBuild(b) \/ Abort(b)

------------------------------------------------------------------------------
(* Properties *)

Distinct == \A o \in Origins : Cardinality(RowsOf(knowledge, o)) <= 1

\* A row says what its chunks are, and its hash what its text is.
Coherent ==
    \A r \in Rows : LET s == knowledge[r] IN
        /\ chunks[r] = IF s.status = "embedded" THEN PiecesOf(s.text) ELSE {}
        /\ s.hash # 0 => IF s.status = "failed" THEN s.text = 0 ELSE s.text = s.hash

\* The corpus the agents read tells what the build read: a source whose text was not loaded again
\* has the text the build read of its origin, or not at all where a document could not be.
\* (Such a document may stand as embedded: a full build that read it embedded and loads it sends
\* no text, so that an overlapping build that could not load it leaves the empty one.)
CorpusTellsOrigins ==
    \A b \in Ingests : build[b].pc = "embed" => \A o \in Origins \ Changed(b) :
        build[b].wants[o] # 0 =>
            \/ CorpusOf(b, o).text = build[b].wants[o]
            \/ o \in Documents /\ CorpusOf(b, o).text = 0

\* What search returns of each origin is what the build read of it, and nothing of what vanished;
\* of a document that could not be loaded, nothing, for as long as builds are incremental.
Whole(b) ==
    \A o \in Origins :
        \/ Search(o)' = PiecesOf(build[b].wants[o])
        \/ /\ o \in Documents /\ Search(o)' = {}
           /\ \E r \in Rows : knowledge'[r].of = o /\ knowledge'[r].status = "failed"

\* A build that nothing overlapped leaves the knowledge base whole; a full one even if an earlier
\* overlap had left the chunks of one text under the hash of another.  Two rows for one source,
\* which two builds or two promotions at once may leave, are never merged.
BuildsAreWhole ==
    [][\A b \in Ingests :
          (CommitBuild(b) /\ build[b].alone /\ Distinct /\ (build[b].full \/ Coherent))
              => Whole(b) /\ Distinct' /\ Coherent']_knowledgeVars

\* Both.
KnowledgeIsWhole == []CorpusTellsOrigins /\ BuildsAreWhole
=============================================================================

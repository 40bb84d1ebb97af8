----------------------------- MODULE Onboarding -----------------------------
(***************************************************************************)
(* Client onboarding, services/onboarding_service.py with the auto-fill of *)
(* client_discovery_service.py and the edits of client_service.py: one     *)
(* clients row with the child tables it is saved with, written by any      *)
(* number of requests, each a session that loads the row, sets what it was *)
(* given and commits.                                                      *)
(*                                                                         *)
(* SQLAlchemy writes the columns that differ from those loaded; a replaced *)
(* collection is an INSERT of the new rows, then a DELETE of the rows the  *)
(* session had loaded.  One text column stands for those the operator      *)
(* types and a page gives (location), one for those the model writes       *)
(* (about_brand); a child row is named by the request that wrote it.       *)
(***************************************************************************)
EXTENDS BrandScan

CONSTANTS Savers,     \* requests other than an auto-fill; Scans are the auto-fills
          Slugs,      \* 1 .. n: acme, acme-2, ...
          Channels,   \* marketing channels
          FinalStep   \* FINAL_STEP

ASSUME SaversAssumption == Savers \cap Scans = {}
ASSUME WizardAssumption ==
    /\ FinalStep \in Nat \ {0}
    /\ 1 \in Slugs /\ \A g \in Slugs : g \in Nat \ {0} /\ 1 .. g \subseteq Slugs

Sessions == Savers \cup Scans
Texts    == {"", "typed", "scanned", "placeholder"}
Platform == [by : Sessions, channel : Channels]
Builds   == {"none", "incremental", "full_build"}

NoClient == [there |-> FALSE, step |-> 1, status |-> "draft", location |-> "", about |-> "",
             colors |-> {}, notes |-> {}, documents |-> {}, platforms |-> {}, build |-> "none"]

Columns     == {"step", "status", "location", "about"}
Collections == {"colors", "notes", "documents", "platforms"}
NoRequest   == [pc |-> "idle", slug |-> 1, loaded |-> NoClient, row |-> NoClient]

VARIABLES
    client,      \* clients by slug, with their child rows and their queued build
    session,     \* each request: where it stands, the row it loaded, the row it will commit
    overlapped   \* history: sessions whose row was committed to between their load and commit
onboardingVars == <<client, session, overlapped, scanVars>>

Client ==
    [there : BOOLEAN, step : 1 .. FinalStep, status : {"draft", "active", "paused"},
     location : Texts, about : Texts, colors : SUBSET Sessions, notes : SUBSET Sessions,
     documents : SUBSET Sessions, platforms : SUBSET Platform, build : Builds]

OnboardingTypeOK ==
    /\ ScanTypeOK
    /\ client \in [Slugs -> Client]
    /\ overlapped \subseteq Sessions
    /\ session \in [Sessions ->
         [pc : {"idle", "scanning", "creating", "loading", "saving", "saved", "conflict", "error"},
          slug : Slugs, loaded : Client, row : Client]]

OnboardingInit ==
    /\ client = [g \in Slugs |-> NoClient]
    /\ session = [r \in Sessions |-> NoRequest]
    /\ overlapped = {}
    /\ ScanInit

------------------------------------------------------------------------------
(* A session: load, set, commit *)

Entered(r, slug, row) ==
    session' = [session EXCEPT ![r] = [pc |-> "saving", slug |-> slug, loaded |-> client[slug], row |-> row]]

Ended(r, pc) == session' = [session EXCEPT ![r].pc = pc]

\* The first slug not taken, as the session sees it.
FreeSlug(slug) == ~client[slug].there /\ \A g \in 1 .. slug - 1 : client[g].there

\* The replaced rows of a collection: those the session loaded and drops go, those it adds come.
Replaced(db, loaded, row) == (db \ (loaded \ row)) \cup (row \ loaded)

\* UNIQUE (client_id, channel) is met by the INSERTs, which come before the DELETEs.
Clashes(r) == \E p \in session[r].row.platforms \ session[r].loaded.platforms,
                 q \in client[session[r].slug].platforms : p.channel = q.channel

\* A full build queued takes the incremental one in.
BuildQueued(build, wanted) == IF build = "full_build" \/ wanted = "none" THEN build ELSE wanted

Committed(r) ==
    LET db == client[session[r].slug]
        loaded == session[r].loaded
        row    == session[r].row
    IN  [f \in DOMAIN db |->
           CASE f \in Columns     -> IF row[f] = loaded[f] THEN db[f] ELSE row[f]
             [] f \in Collections -> Replaced(db[f], loaded[f], row[f])
             [] f = "build"       -> BuildQueued(db[f], row[f])
             [] f = "there"       -> TRUE]

\* The slug of a new row was taken meanwhile, or a platform row is refused.
Refused(r) == \/ ~session[r].loaded.there /\ client[session[r].slug].there
              \/ Clashes(r)

\* The others at work on the row see it change under them.
Overlap(r) == overlapped' = overlapped \cup
    {o \in Sessions \ {r} : session[o].pc \in {"creating", "saving"} /\ session[o].slug = session[r].slug}

\* The commit, with the build enqueued in the same transaction; an auto-fill that has only
\* created its draft goes on to fill it.
Commit(r) ==
    /\ session[r].pc \in {"creating", "saving"}
    /\ IF Refused(r)
       THEN Ended(r, "conflict") /\ UNCHANGED <<client, overlapped>>
       ELSE /\ client' = [client EXCEPT ![session[r].slug] = Committed(r)]
            /\ Ended(r, IF session[r].pc = "creating" THEN "loading" ELSE "saved")
            /\ Overlap(r)
    /\ UNCHANGED scanVars

------------------------------------------------------------------------------
(* The requests of the wizard and of the settings page *)

\* onboard: the whole payload, live at once.
Onboard(r) == \E slug \in Slugs, channels \in SUBSET Channels \ {{}}, feed \in BOOLEAN :
    /\ FreeSlug(slug)
    /\ Entered(r, slug, [NoClient EXCEPT
           !.step = FinalStep, !.status = "active", !.location = "typed", !.about = "typed",
           !.colors = {r}, !.notes = IF feed THEN {r} ELSE {}, !.documents = {r},
           !.platforms = [by : {r}, channel : channels], !.build = "full_build"])

\* create_draft: the gate of step 1.
CreateDraft(r) == \E slug \in Slugs, location \in {"", "typed"} :
    /\ FreeSlug(slug)
    /\ Entered(r, slug, [NoClient EXCEPT !.location = location])

\* The sections of update_step, each as it sets the loaded row.
Basics(row)       == {[row EXCEPT !.location = text] : text \in {"", "typed"}}
Brand(row)        == {[row EXCEPT !.about = text] : text \in {"", "typed"}}
Colors(r, row)    == {[row EXCEPT !.colors = rows] : rows \in {{}, {r}}}
Platforms(r, row) == {[row EXCEPT !.platforms = [by : {r}, channel : channels]] :
                          channels \in SUBSET Channels}
Compliance(r, row) == {[row EXCEPT !.notes = rows] : rows \in {{}, {r}}}

Sections(r, row) == Basics(row) \cup Brand(row) \cup Colors(r, row) \cup Platforms(r, row)
                    \cup Compliance(r, row) \cup {row}

Larger(a, b) == IF a > b THEN a ELSE b

\* update_step: one section, and the step it completes or none.
UpdateStep(r, slug) == \E row \in Sections(r, client[slug]), step \in 0 .. FinalStep :
    Entered(r, slug, [row EXCEPT !.step = IF step = 0 THEN @ ELSE Larger(@, step),
                                 !.build = "incremental"])

AddDocuments(r, slug) ==
    Entered(r, slug, [client[slug] EXCEPT !.documents = @ \cup {r}, !.build = "incremental"])

RemoveDocument(r, slug) == \E d \in client[slug].documents :
    Entered(r, slug, [client[slug] EXCEPT !.documents = @ \ {d}, !.build = "incremental"])

Complete(r, slug) ==
    Entered(r, slug, [client[slug] EXCEPT !.step = FinalStep, !.build = "full_build",
                                          !.status = IF @ = "draft" THEN "active" ELSE @])

\* update_client: a build only if something changes.
UpdateClient(r, slug) ==
    LET old == client[slug]
    IN  \E status \in {"draft", "active", "paused"}, location \in {"typed", old.location} :
          Entered(r, slug, [old EXCEPT
              !.status = status, !.location = location,
              !.build = IF status = old.status /\ location = old.location THEN "none"
                        ELSE "incremental"])

Save(r) ==
    /\ session[r].pc = "idle"
    /\ \/ Onboard(r)
       \/ CreateDraft(r)
       \/ \E slug \in Slugs :
            /\ client[slug].there
            /\ \/ UpdateStep(r, slug)
               \/ AddDocuments(r, slug) \/ RemoveDocument(r, slug)
               \/ Complete(r, slug)
               \/ UpdateClient(r, slug)
    /\ UNCHANGED <<client, overlapped, scanVars>>

------------------------------------------------------------------------------
(* Auto-fill: scan, then create or load, then fill what is empty *)

AutoFill(s, website) ==
    /\ session[s].pc = "idle"
    /\ BeginScan(s, "autofill", website)
    /\ Ended(s, "scanning")
    /\ UNCHANGED <<client, overlapped>>

AutoFillFails(s) ==
    /\ session[s].pc = "scanning"
    /\ scan[s].pc = "error"
    /\ Ended(s, "error")
    /\ UNCHANGED <<client, overlapped, scanVars>>

\* create_draft_minimal: a client of its own, committed before anything is filled.
CreateDraftMinimal(s) == \E slug \in Slugs :
    /\ session[s].pc = "scanning"
    /\ scan[s].pc = "done"
    /\ FreeSlug(slug)
    /\ session' = [session EXCEPT ![s] = [NoRequest EXCEPT !.pc = "creating", !.slug = slug]]
    /\ UNCHANGED <<client, overlapped, scanVars>>

\* What the scan gives for the text the model writes: its summary, or the page's description.
AboutOf(s) == CASE scan[s].generated -> IF SummaryOf(s) = "placeholder" THEN "placeholder" ELSE "scanned"
                [] OTHER -> IF "description" \in scan[s].page THEN "scanned" ELSE ""

WantedAnyway(s, row) ==
      (IF "location" \in Identity(s) THEN {"location"} ELSE {})
    \cup (IF AboutOf(s) # "" THEN {"about"} ELSE {})

Wanted(s, row) ==
      (IF row.location = "" /\ "location" \in Identity(s) THEN {"location"} ELSE {})
    \cup (IF row.about = "" /\ AboutOf(s) # "" THEN {"about"} ELSE {})
    \cup (IF row.colors = {} /\ ColorsOf(s) # {} THEN {"colors"} ELSE {})

Filled(s, row, fields) ==
    [row EXCEPT !.location = IF "location" \in fields THEN "scanned" ELSE @,
                !.about    = IF "about" \in fields THEN AboutOf(s) ELSE @,
                !.colors   = IF "colors" \in fields THEN {s} ELSE @,
                !.build    = "incremental"]

\* A colour in words is no BrandColorIn: the update raises, after the draft was created.
Malformed(s, fields) == "colors" \in fields /\ "names" \in ColorsOf(s)

\* The row is loaded after the scan and patched without an await; nothing to fill saves nothing.
Fill(s, slug) ==
    LET fields == Wanted(s, client[slug])
    IN  /\ client[slug].there
        /\ CASE Malformed(s, fields) -> Ended(s, "error")
             [] fields = {}          -> Ended(s, "saved")
             [] OTHER -> session' = [session EXCEPT ![s] =
                    [pc |-> "saving", slug |-> slug, loaded |-> client[slug],
                     row |-> Filled(s, client[slug], fields)]]
        /\ UNCHANGED <<client, overlapped, scanVars>>

FillClient(s) == \E slug \in Slugs :
    /\ \/ session[s].pc = "scanning" /\ scan[s].pc = "done"
       \/ session[s].pc = "loading" /\ slug = session[s].slug
    /\ Fill(s, slug)

OnboardingNext ==
    \/ \E r \in Savers : Save(r)
    \/ \E r \in Sessions : Commit(r)
    \/ \E s \in Scans : \/ \E w \in Websites : AutoFill(s, w)
                        \/ Progress(s) /\ UNCHANGED <<client, session, overlapped>>
                        \/ AutoFillFails(s) \/ CreateDraftMinimal(s) \/ FillClient(s)

------------------------------------------------------------------------------
(* Properties *)

Writes(r) == session[r].pc = "saving" /\ session'[r].pc = "saved"

\* What the wizard took in is not lost behind the operator's back.  A typed value gives way to a
\* scanned one only if it was committed while the auto-fill was committing too, never because the
\* scan was slow; and the step moves back only where two saves met.
WizardKeepsWork ==
    [][\A r \in Sessions, g \in Slugs : (Writes(r) /\ session[r].slug = g /\ r \notin overlapped) =>
         /\ client'[g].step >= client[g].step
         /\ r \in Scans => \A f \in {"location", "about"} :
                             client[g][f] = "typed" => client'[g][f] = "typed"]_onboardingVars

\* The compliance feed is one note and a palette one save's colours, unless two saves met: the
\* replaced rows are those the session knew.
OneFeedPerClient ==
    \A g \in Slugs : LET c == client[g] IN
        \/ Cardinality(c.notes) <= 1 /\ Cardinality(c.colors) <= 1
        \/ overlapped # {}

\* An onboarding keeps what it was given, once.
OnboardingKeepsWork == WizardKeepsWork /\ []OneFeedPerClient
=============================================================================

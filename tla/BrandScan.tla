----------------------------- MODULE BrandScan -----------------------------
(***************************************************************************)
(* Brand extraction, ai/brand_extraction.py with its fetchers utils/web.py *)
(* and utils/render.py: a website is fetched by the first of three tiers   *)
(* that works, or an uploaded document is read, and one model call turns   *)
(* what was found into a brand theme.  A scan is a request (extract-brand),*)
(* a background job (services/brand_job_service.py) or the first part of   *)
(* an auto-fill (Onboarding).                                              *)
(*                                                                         *)
(* A page is the set of the marks it bears, an answer the set of the       *)
(* fields it fills: markup, colours and wording are left out.              *)
(***************************************************************************)
EXTENDS Naturals, Sequences, FiniteSets

CONSTANTS Scans,          \* calls that scan, each once
          Pages,          \* pages the sites serve
          Answers,        \* answers the model gives
          NavAttempts,    \* _NAV_ATTEMPTS of the headless browser
          MaxRedirects,   \* _MAX_REDIRECTS of the plain scrape
          ModelAttempts   \* _MODEL_ATTEMPTS

\* words and image: text or a picture for the model to read; organization: a JSON-LD node
\* with name, logo and address; sitename: Open Graph; palette: colours and fonts measured.
Marks == {"words", "image", "description", "organization", "sitename", "palette"}

\* hues are colours in hexadecimal, names colours in words; nulls: null where a list belongs.
Fields == {"summary", "tone", "industry", "hues", "names", "nulls"}

ASSUME PagesAssumption   == Pages \subseteq SUBSET Marks
ASSUME AnswersAssumption == Answers \subseteq SUBSET Fields
ASSUME ScanBoundsAssumption ==
    NavAttempts \in Nat \ {0} /\ MaxRedirects \in Nat /\ ModelAttempts \in Nat \ {0}

\* What an operator types: a scheme or none, www or not, and whether the host has a dot.
Websites == [scheme : {"", "http", "https", "other"}, www : BOOLEAN, dotted : BOOLEAN]

Usable(w) == w.scheme \in {"http", "https"} \/ (w.scheme = "" /\ w.dotted)

\* The addresses to try: as given, with www toggled, and in clear text only where https was
\* our own guess.
Addresses(w) ==
    LET scheme == IF w.scheme = "" THEN "https" ELSE w.scheme
        Url(s, www) == [scheme |-> s, www |-> www]
    IN  IF ~Usable(w) THEN <<>>
        ELSE <<Url(scheme, w.www), Url(scheme, ~w.www)>>
             \o (IF w.scheme = "" THEN <<Url("http", w.www)>> ELSE <<>>)

\* An uploaded document takes the place of a website.
Document == [scheme |-> "document", www |-> FALSE, dotted |-> FALSE]

Sources  == {"none", "scrapingbee", "render", "scrape", "document"}
NoScan   == [kind |-> "extract", pc |-> "idle", website |-> Document, left |-> 0, tries |-> 0,
             empty |-> FALSE, source |-> "none", page |-> {}, generated |-> FALSE, answer |-> {}]

VARIABLES
    scan,   \* each scan: its steps, how many addresses are left in the tier at work, what it found
    jobs    \* brand_jobs.status of the scans that are jobs
scanVars == <<scan, jobs>>

ScanPCs     == {"idle", "queued", "read", "bee", "render", "scrape", "finish", "analyze",
                "done", "error", "dead"}
JobStatuses == {"none", "pending", "running", "done", "failed"}

ScanTypeOK ==
    /\ jobs \in [Scans -> JobStatuses]
    /\ scan \in [Scans ->
         [kind : {"extract", "job", "autofill"}, pc : ScanPCs, website : Websites \cup {Document},
          left : 0 .. 3, tries : 0 .. MaxRedirects + NavAttempts + ModelAttempts,
          empty : BOOLEAN, source : Sources, page : SUBSET Marks,
          generated : BOOLEAN, answer : SUBSET Fields]]

ScanInit == scan = [s \in Scans |-> NoScan] /\ jobs = [s \in Scans |-> "none"]

------------------------------------------------------------------------------
(* Starting *)

Moved(s, changes) == scan' = [scan EXCEPT ![s] = [f \in DOMAIN @ |->
                                  IF f \in DOMAIN changes THEN changes[f] ELSE @[f]]]

\* The row of a job as its scan ends.
Settled(s, pc) ==
    jobs' = [jobs EXCEPT ![s] = IF @ # "running" THEN @ ELSE IF pc = "done" THEN "done" ELSE "failed"]

FirstTier(website) == IF website = Document THEN "read" ELSE "bee"

\* A scan is asked for; a job commits its row first and works after the response.
BeginScan(s, kind, website) ==
    /\ scan[s].pc = "idle"
    /\ Moved(s, [kind |-> kind, website |-> website,
                 pc |-> IF kind = "job" THEN "queued" ELSE FirstTier(website)])
    /\ jobs' = [jobs EXCEPT ![s] = IF kind = "job" THEN "pending" ELSE @]

ProcessJob(s) ==
    /\ scan[s].pc = "queued"
    /\ Moved(s, [pc |-> FirstTier(scan[s].website)])
    /\ jobs' = [jobs EXCEPT ![s] = "running"]

\* Nothing raised, or an exception: 500 for a request, a failed job.
End(s, changes) == Moved(s, changes) /\ Settled(s, changes.pc)

Found(s, source, page) ==
    /\ Moved(s, [pc |-> "finish", source |-> source, page |-> page, left |-> 0, tries |-> 0])
    /\ UNCHANGED jobs

\* The upload is the caller's and the store gives it; its owner still exists.  An image goes to
\* the model as it is, any other file as the text extracted, which may be none.
ReadDocument(s) ==
    /\ scan[s].pc = "read"
    /\ \/ \E page \in {{"image"}, {"words"}, {}} : Found(s, "document", page)
       \/ End(s, [pc |-> "error"])

------------------------------------------------------------------------------
(* The three tiers *)

\* The proxy, when it is configured and returns something; otherwise the browser, for those of
\* the addresses that resolve to public hosts only.  An address that does not parse, for its
\* port or its brackets, raises.
Bee(s) ==
    /\ scan[s].pc = "bee"
    /\ \/ \E page \in Pages : Found(s, "scrapingbee", page)
       \/ \E public \in 0 .. Len(Addresses(scan[s].website)) :
            Moved(s, [pc |-> "render", left |-> public]) /\ UNCHANGED jobs
       \/ End(s, [pc |-> "error"])

NextUrl(s, empty) == /\ Moved(s, [left |-> scan[s].left - 1, tries |-> 0, empty |-> empty])
                     /\ UNCHANGED jobs

Again(s) == Moved(s, [tries |-> scan[s].tries + 1]) /\ UNCHANGED jobs

\* What the script in the browser measures, with a screenshot.
Rendered == {page \cup {"image"} : page \in {p \in Pages : "words" \in p}}

\* One navigation of the browser: it fails and is repeated; an interstitial or a page without
\* words is a miss.
Render(s) ==
    /\ scan[s].pc = "render"
    /\ scan[s].left > 0
    /\ \/ scan[s].tries + 1 < NavAttempts /\ Again(s)
       \/ NextUrl(s, FALSE)
       \/ \E page \in Rendered : Found(s, "render", page)

\* No address rendered, the browser is not installed, or it breaks: the plain scrape.
ToScrape(s) ==
    /\ scan[s].pc = "render"
    /\ Moved(s, [pc |-> "scrape", left |-> Len(Addresses(scan[s].website)), tries |-> 0])
    /\ UNCHANGED jobs

\* One request of the scrape: no answer from a public address, a redirect, an empty body, a page.
Scrape(s) ==
    /\ scan[s].pc = "scrape"
    /\ scan[s].left > 0
    /\ \/ NextUrl(s, FALSE)
       \/ scan[s].tries < MaxRedirects /\ Again(s)
       \/ NextUrl(s, TRUE)
       \/ \E page \in Pages : Found(s, "scrape", page)

\* The body of the last address tried, empty, still counts as a page.
Scraped(s) ==
    /\ scan[s].pc = "scrape"
    /\ scan[s].left = 0
    /\ Found(s, IF scan[s].empty THEN "scrape" ELSE "none", {})

------------------------------------------------------------------------------
(* The model call *)

Unanalysed(s) == End(s, [pc |-> "done", generated |-> FALSE])

FinishAsking(s) ==
    /\ scan[s].pc = "finish"
    /\ \/ Unanalysed(s)
       \/ Moved(s, [pc |-> "analyze"]) /\ UNCHANGED jobs

\* Nothing was fetched, or no model is configured: the deterministic theme.  Otherwise web
\* research, which may add to the words, and the model.
FinishScan(s) ==
    /\ scan[s].pc = "finish"
    /\ \/ Unanalysed(s)
       \/ /\ scan[s].source # "none"
          /\ Moved(s, [pc |-> "analyze"])
          /\ UNCHANGED jobs

\* A failed call or an answer that is no JSON object is repeated, and then given up; a null for
\* the colours or the fonts raises.
Analyze(s) ==
    /\ scan[s].pc = "analyze"
    /\ \/ scan[s].tries + 1 < ModelAttempts /\ Again(s)
       \/ scan[s].tries + 1 = ModelAttempts /\ Unanalysed(s)
       \/ \E answer \in Answers :
            End(s, IF "nulls" \in answer THEN [pc |-> "error"]
                   ELSE [pc |-> "done", generated |-> TRUE, answer |-> answer])

\* The process dies: a job keeps the status it had.
ScanDies(s) ==
    /\ scan[s].pc \notin {"idle", "done", "error", "dead"}
    /\ Moved(s, [pc |-> "dead"])
    /\ UNCHANGED jobs

------------------------------------------------------------------------------
(* The theme, and the facts taken from the page as they are *)

SummaryOf(s) == CASE scan[s].generated /\ "summary" \in scan[s].answer -> "model"
                  [] ~scan[s].generated /\ "description" \in scan[s].page -> "description"
                  [] OTHER -> "placeholder"

ColorsOf(s) == (scan[s].page \cap {"palette"}) \cup (scan[s].answer \cap {"hues", "names"})

\* JSON-LD before Open Graph; the logo falls back on the conventional address of the icon.
Identity(s) ==
    LET page == scan[s].page
    IN  IF scan[s].source \in {"none", "document"} THEN {}
        ELSE {"logo"} \cup (IF page \cap {"organization", "sitename"} # {} THEN {"name"} ELSE {})
                      \cup (IF "organization" \in page THEN {"location"} ELSE {})

Progress(s) == \/ ProcessJob(s) \/ ReadDocument(s) \/ Bee(s) \/ Render(s) \/ ToScrape(s)
               \/ Scrape(s) \/ Scraped(s) \/ FinishScan(s) \/ Analyze(s)

ScanNext == \E s \in Scans :
    \/ \E kind \in {"extract", "job"}, w \in Websites \cup {Document} : BeginScan(s, kind, w)
    \/ Progress(s)
    \/ ScanDies(s)

ScanFairness == \A s \in Scans : WF_scanVars(Progress(s))

------------------------------------------------------------------------------
(* Properties *)

\* A theme said to come from the model is one the model gave for something fetched, and a job
\* says done or failed as its scan ended so: the poller never sees half of an outcome.
ThemesAreFound ==
    \A s \in Scans :
        /\ scan[s].generated => scan[s].source # "none" /\ scan[s].pc = "done"
        /\ ~scan[s].generated => scan[s].answer = {}
        /\ jobs[s] = "done" => scan[s].pc = "done"
        /\ jobs[s] = "failed" => scan[s].pc = "error"

\* A scan ends, however the site misbehaves, unless its process dies; a job then tells how.
ScansEnd == \A s \in Scans :
    scan[s].pc # "idle" ~> \/ scan[s].pc = "dead"
                           \/ /\ scan[s].pc \in {"done", "error"}
                              /\ jobs[s] \in {"none", "done", "failed"}
=============================================================================

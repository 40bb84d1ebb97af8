----------------------------- MODULE ScanProofs -----------------------------
(***************************************************************************)
(* Proofs about brand extraction, for any number of scans, whatever the    *)
(* sites serve and the model answers.                                      *)
(***************************************************************************)
EXTENDS BrandScan, SequenceTheorems, TLAPS

ScanSpec == ScanInit /\ [][ScanNext]_scanVars

ScanFields == {"kind", "pc", "website", "left", "tries", "empty", "source", "page", "generated",
               "answer"}
ScanRows   == [kind : {"extract", "job", "autofill"}, pc : ScanPCs, website : Websites \cup {Document},
               left : 0 .. 3, tries : 0 .. MaxRedirects + NavAttempts + ModelAttempts,
               empty : BOOLEAN, source : Sources, page : SUBSET Marks,
               generated : BOOLEAN, answer : SUBSET Fields]

\* What one scan has given, and what its job says of it.
FoundInv(s) ==
    /\ scan[s].pc # "done" => ~scan[s].generated
    /\ scan[s].pc = "analyze" => scan[s].source # "none"
    /\ scan[s].generated => scan[s].source # "none"
    /\ ~scan[s].generated => scan[s].answer = {}
    /\ jobs[s] = "done" => scan[s].pc = "done"
    /\ jobs[s] = "failed" => scan[s].pc = "error"

ScanInv == ScanTypeOK /\ \A s \in Scans : FoundInv(s)

LEMMA RowFields == \A x \in ScanRows : DOMAIN x = ScanFields
  BY DEF ScanRows, ScanFields

\* A row with its fields, each of its type.
LEMMA RowOfFields ==
    ASSUME NEW x, x = [f \in ScanFields |-> x[f]],
           x["kind"] \in {"extract", "job", "autofill"}, x["pc"] \in ScanPCs,
           x["website"] \in Websites \cup {Document},
           x["left"] \in 0 .. 3, x["tries"] \in 0 .. MaxRedirects + NavAttempts + ModelAttempts,
           x["empty"] \in BOOLEAN, x["source"] \in Sources, x["page"] \in SUBSET Marks,
           x["generated"] \in BOOLEAN, x["answer"] \in SUBSET Fields
    PROVE  x \in ScanRows
  BY DEF ScanRows, ScanFields

\* A move changes the fields it names, of the scan it names.
LEMMA MovedRow ==
    ASSUME ScanTypeOK, NEW s \in Scans, NEW changes, Moved(s, changes)
    PROVE  /\ DOMAIN scan' = Scans /\ \A r \in Scans : r # s => scan'[r] = scan[r]
           /\ scan'[s] = [f \in ScanFields |-> scan'[s][f]]
           /\ \A f \in ScanFields : scan'[s][f] = IF f \in DOMAIN changes THEN changes[f] ELSE scan[s][f]
<1>1. scan \in [Scans -> ScanRows]
  BY DEF ScanTypeOK, ScanRows
<1>2. DOMAIN scan[s] = ScanFields
  BY <1>1, RowFields
<1>3. scan'[s] = [f \in ScanFields |-> IF f \in DOMAIN changes THEN changes[f] ELSE scan[s][f]]
  BY <1>1, <1>2 DEF Moved
<1> QED
  BY <1>1, <1>3 DEF Moved

\* A step of one scan: its row keeps its types, and the others are as they were.
LEMMA OneScan ==
    ASSUME ScanInv, NEW s \in Scans, NEW changes, Moved(s, changes),
           \A r \in Scans : r # s => jobs'[r] = jobs[r],
           jobs' \in [Scans -> JobStatuses],
           scan'[s] \in ScanRows, FoundInv(s)'
    PROVE  ScanInv'
<1>1. ScanTypeOK /\ \A r \in Scans : FoundInv(r)
  BY DEF ScanInv
<1>2. /\ DOMAIN scan' = Scans /\ \A r \in Scans : r # s => scan'[r] = scan[r]
  BY <1>1, MovedRow
<1>3. scan' \in [Scans -> ScanRows]
  <2>1. scan' = [r \in Scans |-> scan'[r]]
    BY <1>1 DEF Moved, ScanTypeOK
  <2>2. \A r \in Scans : scan'[r] \in ScanRows
    BY <1>1, <1>2 DEF ScanTypeOK, ScanRows
  <2> QED
    BY <2>1, <2>2
<1>4. ScanTypeOK'
  BY <1>3 DEF ScanTypeOK, ScanRows
<1>5. ASSUME NEW r \in Scans PROVE FoundInv(r)'
  <2>1. CASE r = s
    BY <2>1
  <2>2. CASE r # s
    BY <2>2, <1>1, <1>2 DEF FoundInv
  <2> QED
    BY <2>1, <2>2
<1> QED
  BY <1>4, <1>5 DEF ScanInv

\* What is known of the row of a scan.
LEMMA ScanTypes ==
    ASSUME ScanInv, NEW s \in Scans
    PROVE  /\ scan[s]["kind"] \in {"extract", "job", "autofill"} /\ scan[s]["pc"] \in ScanPCs
           /\ scan[s]["website"] \in Websites \cup {Document}
           /\ scan[s]["left"] \in 0 .. 3
           /\ scan[s]["tries"] \in 0 .. MaxRedirects + NavAttempts + ModelAttempts
           /\ scan[s]["empty"] \in BOOLEAN /\ scan[s]["source"] \in Sources
           /\ scan[s]["page"] \in SUBSET Marks
           /\ scan[s]["generated"] \in BOOLEAN /\ scan[s]["answer"] \in SUBSET Fields
           /\ jobs \in [Scans -> JobStatuses]
  BY DEF ScanInv, ScanTypeOK

\* As given, with www toggled, and in clear text.
LEMMA FewAddresses == \A w : Len(Addresses(w)) \in 0 .. 3
<1> SUFFICES ASSUME NEW w PROVE Len(Addresses(w)) \in 0 .. 3
  OBVIOUS
<1> DEFINE scheme == IF w.scheme = "" THEN "https" ELSE w.scheme
           Url(x, www) == [scheme |-> x, www |-> www]
           two == <<Url(scheme, w.www), Url(scheme, ~w.www)>>
           one == IF w.scheme = "" THEN <<Url("http", w.www)>> ELSE <<>>
           All == {Url(scheme, w.www), Url(scheme, ~w.www), Url("http", w.www)}
<1>1. Addresses(w) = IF ~Usable(w) THEN <<>> ELSE two \o one
  BY DEF Addresses
<1>2. two \in Seq(All) /\ Len(two) = 2
  OBVIOUS
<1>3. one \in Seq(All) /\ Len(one) \in 0 .. 1
  <2>1. CASE w.scheme = ""
    <3>1. one = <<Url("http", w.www)>> /\ Url("http", w.www) \in All
      BY <2>1
    <3> HIDE DEF All, one, Url
    <3> QED
      BY <3>1
  <2>2. CASE w.scheme # ""
    <3>1. one = <<>>
      BY <2>2
    <3> HIDE DEF All, one, Url
    <3> QED
      BY <3>1
  <2> QED
    BY <2>1, <2>2
<1> HIDE DEF two, one, All
<1>4. Len(two \o one) = Len(two) + Len(one)
  BY <1>2, <1>3, ConcatProperties
<1>5. CASE Usable(w)
  BY <1>1, <1>2, <1>3, <1>4, <1>5
<1>6. CASE ~Usable(w)
  BY <1>1, <1>6
<1> QED
  BY <1>5, <1>6

LEMMA ScanInitInv == ScanInit => ScanInv
<1> SUFFICES ASSUME ScanInit PROVE ScanInv
  OBVIOUS
<1>1. NoScan \in ScanRows
  BY ScanBoundsAssumption DEF NoScan, ScanRows, ScanPCs, Sources, Marks, Fields
<1>2. ScanTypeOK
  BY <1>1 DEF ScanInit, ScanTypeOK, ScanRows, JobStatuses
<1>3. \A s \in Scans : FoundInv(s)
  BY DEF ScanInit, NoScan, FoundInv
<1> QED
  BY <1>2, <1>3 DEF ScanInv

\* The job of a scan that goes on, and of one that ends.
LEMMA JobStays ==
    ASSUME ScanInv, NEW s \in Scans, UNCHANGED jobs
    PROVE  /\ jobs'[s] = jobs[s]
           /\ \A r \in Scans : r # s => jobs'[r] = jobs[r]
           /\ jobs' \in [Scans -> JobStatuses]
  BY DEF ScanInv, ScanTypeOK

LEMMA JobSettles ==
    ASSUME ScanInv, NEW s \in Scans, NEW pc, Settled(s, pc)
    PROVE  /\ jobs'[s] = IF jobs[s] # "running" THEN jobs[s]
                         ELSE IF pc = "done" THEN "done" ELSE "failed"
           /\ \A r \in Scans : r # s => jobs'[r] = jobs[r]
           /\ jobs' \in [Scans -> JobStatuses]
  BY DEF ScanInv, ScanTypeOK, Settled, JobStatuses

LEMMA ScanBegins ==
    ASSUME ScanInv, NEW s \in Scans, NEW knd \in {"extract", "job", "autofill"},
           NEW website \in Websites \cup {Document}, BeginScan(s, knd, website)
    PROVE  ScanInv'
<1> DEFINE changes == [kind |-> knd, website |-> website,
                       pc |-> IF knd = "job" THEN "queued" ELSE FirstTier(website)]
<1>1. /\ scan[s].pc = "idle" /\ Moved(s, changes)
      /\ jobs' = [jobs EXCEPT ![s] = IF knd = "job" THEN "pending" ELSE @]
  BY DEF BeginScan
<1>2. /\ scan'[s] = [f \in ScanFields |-> scan'[s][f]]
      /\ \A f \in ScanFields : scan'[s][f] = IF f \in DOMAIN changes THEN changes[f] ELSE scan[s][f]
  BY <1>1, MovedRow DEF ScanInv
<1>3. scan'[s].pc \in {"queued", "read", "bee"}
  BY <1>2 DEF ScanFields, FirstTier
<1>4. scan'[s] \in ScanRows
  BY <1>2, <1>3, RowOfFields, ScanTypes DEF ScanFields, ScanPCs
<1>5. /\ jobs'[s] = (IF knd = "job" THEN "pending" ELSE jobs[s])
      /\ \A r \in Scans : r # s => jobs'[r] = jobs[r]
      /\ jobs' \in [Scans -> JobStatuses]
  BY <1>1 DEF ScanInv, ScanTypeOK, JobStatuses
<1>6. FoundInv(s)'
  BY <1>1, <1>2, <1>3, <1>5 DEF ScanFields, ScanInv, FoundInv
<1> QED
  BY <1>1, <1>4, <1>5, <1>6, OneScan

LEMMA ScanJob == ASSUME ScanInv, NEW s \in Scans, ProcessJob(s) PROVE ScanInv'
<1> DEFINE changes == [pc |-> FirstTier(scan[s].website)]
<1>1. /\ scan[s].pc = "queued" /\ Moved(s, changes)
      /\ jobs' = [jobs EXCEPT ![s] = "running"]
  BY DEF ProcessJob
<1>2. /\ scan'[s] = [f \in ScanFields |-> scan'[s][f]]
      /\ \A f \in ScanFields : scan'[s][f] = IF f \in DOMAIN changes THEN changes[f] ELSE scan[s][f]
  BY <1>1, MovedRow DEF ScanInv
<1>3. scan'[s].pc \in {"read", "bee"}
  BY <1>2 DEF ScanFields, FirstTier
<1>4. scan'[s] \in ScanRows
  BY <1>2, <1>3, RowOfFields, ScanTypes DEF ScanFields, ScanPCs
<1>5. /\ jobs'[s] = "running"
      /\ \A r \in Scans : r # s => jobs'[r] = jobs[r]
      /\ jobs' \in [Scans -> JobStatuses]
  BY <1>1 DEF ScanInv, ScanTypeOK, JobStatuses
<1>6. FoundInv(s)'
  BY <1>1, <1>2, <1>3, <1>5 DEF ScanFields, ScanInv, FoundInv
<1> QED
  BY <1>1, <1>4, <1>5, <1>6, OneScan

\* A source is found, or none is, before the model is asked.
LEMMA ScanFound ==
    ASSUME ScanInv, NEW s \in Scans, scan[s].pc \in {"read", "bee", "render", "scrape"},
           NEW src \in Sources, NEW page \in SUBSET Marks, Found(s, src, page)
    PROVE  ScanInv'
<1> DEFINE changes == [pc |-> "finish", source |-> src, page |-> page, left |-> 0, tries |-> 0]
<1>1. Moved(s, changes) /\ UNCHANGED jobs
  BY DEF Found
<1>2. /\ scan'[s] = [f \in ScanFields |-> scan'[s][f]]
      /\ \A f \in ScanFields : scan'[s][f] = IF f \in DOMAIN changes THEN changes[f] ELSE scan[s][f]
  BY <1>1, MovedRow DEF ScanInv
<1>3. scan'[s] \in ScanRows
  BY <1>2, RowOfFields, ScanTypes, ScanBoundsAssumption DEF ScanFields, ScanPCs
<1>4. FoundInv(s)'
  BY <1>1, <1>2, JobStays DEF ScanFields, ScanInv, FoundInv
<1> QED
  BY <1>1, <1>3, <1>4, JobStays, OneScan

\* A scan ends with an error, or without the model, or as its process dies.
LEMMA ScanEnds ==
    ASSUME ScanInv, NEW s \in Scans, scan[s].pc \notin {"idle", "done", "error"},
           NEW pc \in {"error", "done", "dead"},
           NEW changes \in {[pc |-> pc], [pc |-> pc, generated |-> FALSE]}, Moved(s, changes),
           IF pc = "dead" THEN UNCHANGED jobs ELSE Settled(s, pc)
    PROVE  ScanInv'
<1>1. /\ scan'[s] = [f \in ScanFields |-> scan'[s][f]]
      /\ \A f \in ScanFields : scan'[s][f] = IF f \in DOMAIN changes THEN changes[f] ELSE scan[s][f]
  BY MovedRow DEF ScanInv
<1>2. FoundInv(s) /\ scan[s]["generated"] \in BOOLEAN
  BY ScanTypes DEF ScanInv
<1>3. /\ scan'[s].pc = pc /\ scan'[s].generated = FALSE
      /\ \A f \in ScanFields \ {"pc", "generated"} : scan'[s][f] = scan[s][f]
  BY <1>1, <1>2 DEF ScanFields, FoundInv
<1>4. scan'[s] \in ScanRows
  BY <1>1, <1>3, RowOfFields, ScanTypes DEF ScanFields, ScanPCs
<1>5. /\ jobs'[s] = IF jobs[s] # "running" \/ pc = "dead" THEN jobs[s]
                    ELSE IF pc = "done" THEN "done" ELSE "failed"
      /\ \A r \in Scans : r # s => jobs'[r] = jobs[r]
      /\ jobs' \in [Scans -> JobStatuses]
  BY JobStays, JobSettles
<1>6. FoundInv(s)'
  <2>1. scan'[s].answer = {}
    BY <1>2, <1>3 DEF ScanFields, FoundInv
  <2> QED
    BY <1>2, <1>3, <1>5, <2>1 DEF FoundInv
<1> QED
  BY <1>4, <1>5, <1>6, OneScan

\* A scan goes on within its tier, to the next, or to the model.
LEMMA ScanGoesOn ==
    ASSUME ScanInv, NEW s \in Scans, scan[s].pc \notin {"idle", "done", "error"},
           NEW changes, Moved(s, changes), UNCHANGED jobs,
           \/ changes = [pc |-> "analyze"] /\ scan[s].source # "none"
           \/ \E l \in 0 .. 3 : changes = [pc |-> "render", left |-> l]
           \/ \E l \in 0 .. 3 : changes = [pc |-> "scrape", left |-> l, tries |-> 0]
           \/ \E l \in 0 .. 3, e \in BOOLEAN : changes = [left |-> l, tries |-> 0, empty |-> e]
           \/ \E n \in 0 .. MaxRedirects + NavAttempts + ModelAttempts : changes = [tries |-> n]
    PROVE  ScanInv'
<1>1. /\ scan'[s] = [f \in ScanFields |-> scan'[s][f]]
      /\ \A f \in ScanFields : scan'[s][f] = IF f \in DOMAIN changes THEN changes[f] ELSE scan[s][f]
  BY MovedRow DEF ScanInv
<1>2. 0 \in 0 .. MaxRedirects + NavAttempts + ModelAttempts
  BY ScanBoundsAssumption
<1>3. /\ scan'[s].pc \in {scan[s].pc, "analyze", "render", "scrape"}
      /\ (scan'[s].pc = "analyze" /\ scan[s].pc # "analyze") => scan[s].source # "none"
      /\ scan'[s].left \in 0 .. 3 /\ scan'[s].empty \in BOOLEAN
      /\ scan'[s].tries \in 0 .. MaxRedirects + NavAttempts + ModelAttempts
      /\ \A f \in {"kind", "website", "source", "page", "generated", "answer"} :
            scan'[s][f] = scan[s][f]
  <2>1. CASE changes = [pc |-> "analyze"] /\ scan[s].source # "none"
    BY <2>1, <1>1, ScanTypes DEF ScanFields
  <2>2. CASE \E l \in 0 .. 3 : changes = [pc |-> "render", left |-> l]
    BY <2>2, <1>1, ScanTypes DEF ScanFields
  <2>3. CASE \E l \in 0 .. 3 : changes = [pc |-> "scrape", left |-> l, tries |-> 0]
    BY <2>3, <1>1, <1>2, ScanTypes DEF ScanFields
  <2>4. CASE \E l \in 0 .. 3, e \in BOOLEAN : changes = [left |-> l, tries |-> 0, empty |-> e]
    BY <2>4, <1>1, <1>2, ScanTypes DEF ScanFields
  <2>5. CASE \E n \in 0 .. MaxRedirects + NavAttempts + ModelAttempts : changes = [tries |-> n]
    BY <2>5, <1>1, ScanTypes DEF ScanFields
  <2> QED
    BY <2>1, <2>2, <2>3, <2>4, <2>5
<1>4. scan'[s] \in ScanRows
  BY <1>1, <1>3, RowOfFields, ScanTypes DEF ScanFields, ScanPCs
<1>5. FoundInv(s)'
  BY <1>3, JobStays DEF ScanInv, FoundInv
<1> QED
  BY <1>4, <1>5, JobStays, OneScan

\* The model has answered, and not with a null for a list.
LEMMA ScanAnswered ==
    ASSUME ScanInv, NEW s \in Scans, scan[s].pc = "analyze", NEW ans \in SUBSET Fields,
           End(s, [pc |-> "done", generated |-> TRUE, answer |-> ans])
    PROVE  ScanInv'
<1> DEFINE changes == [pc |-> "done", generated |-> TRUE, answer |-> ans]
<1>1. Moved(s, changes) /\ Settled(s, "done")
  BY DEF End
<1>2. /\ scan'[s] = [f \in ScanFields |-> scan'[s][f]]
      /\ \A f \in ScanFields : scan'[s][f] = IF f \in DOMAIN changes THEN changes[f] ELSE scan[s][f]
  BY <1>1, MovedRow DEF ScanInv
<1>3. scan'[s] \in ScanRows
  BY <1>2, RowOfFields, ScanTypes DEF ScanFields, ScanPCs
<1>4. FoundInv(s)'
  <2>1. scan'[s].pc = "done" /\ scan'[s].generated = TRUE /\ scan'[s].source = scan[s].source
    BY <1>2 DEF ScanFields
  <2>2. jobs'[s] # "failed"
    BY <1>1, JobSettles DEF ScanInv, FoundInv
  <2> QED
    BY <2>1, <2>2 DEF ScanInv, FoundInv
<1> QED
  BY <1>1, <1>3, <1>4, JobSettles, OneScan

LEMMA ScanProgress == ASSUME ScanInv, NEW s \in Scans, Progress(s) PROVE ScanInv'
<1> USE PagesAssumption, AnswersAssumption, ScanBoundsAssumption
<1>1. CASE ReadDocument(s)
  <2>1. ASSUME NEW page \in {{"image"}, {"words"}, {}} PROVE page \in SUBSET Marks
    BY DEF Marks
  <2>2. "document" \in Sources
    BY DEF Sources
  <2>3. scan[s].pc = "read"
    BY <1>1 DEF ReadDocument
  <2>4. End(s, [pc |-> "error"]) => Moved(s, [pc |-> "error"]) /\ Settled(s, "error")
    BY DEF End
  <2>5. End(s, [pc |-> "error"]) => ScanInv'
    BY <2>3, <2>4, ScanEnds
  <2> QED
    BY <1>1, <2>1, <2>2, <2>3, <2>5, ScanFound DEF ReadDocument
<1>2. CASE Bee(s)
  <2>1. "scrapingbee" \in Sources
    BY DEF Sources
  <2>2. scan[s].pc = "bee"
    BY <1>2 DEF Bee
  <2>3. ASSUME NEW public \in 0 .. Len(Addresses(scan[s].website)) PROVE public \in 0 .. 3
    <3>1. PICK n \in 0 .. 3 : n = Len(Addresses(scan[s].website))
      BY FewAddresses
    <3>2. public \in 0 .. n
      BY <3>1
    <3> QED
      BY <3>2
  <2>4. \A public \in 0 .. 3 : Moved(s, [pc |-> "render", left |-> public]) /\ UNCHANGED jobs => ScanInv'
    BY <2>2, ScanGoesOn
  <2>5. End(s, [pc |-> "error"]) => Moved(s, [pc |-> "error"]) /\ Settled(s, "error")
    BY DEF End
  <2>6. End(s, [pc |-> "error"]) => ScanInv'
    BY <2>2, <2>5, ScanEnds
  <2> QED
    BY <1>2, <2>1, <2>2, <2>3, <2>4, <2>6, ScanFound DEF Bee
<1>3. \A e \in BOOLEAN : scan[s].pc \in {"render", "scrape"} /\ scan[s].left > 0 /\ NextUrl(s, e) => ScanInv'
  <2> SUFFICES ASSUME NEW e \in BOOLEAN, scan[s].pc \in {"render", "scrape"}, scan[s].left > 0,
                      NextUrl(s, e)
               PROVE  ScanInv'
    OBVIOUS
  <2>1. scan[s].left - 1 \in 0 .. 3
    BY ScanTypes
  <2>2. Moved(s, [left |-> scan[s].left - 1, tries |-> 0, empty |-> e]) /\ UNCHANGED jobs
    BY DEF NextUrl
  <2> QED
    BY <2>1, <2>2, ScanGoesOn
<1>4. ASSUME scan[s].pc \in {"render", "scrape", "analyze"}, Again(s),
             scan[s].tries + 1 <= MaxRedirects + NavAttempts + ModelAttempts
      PROVE  ScanInv'
  <2>1. scan[s].tries + 1 \in 0 .. MaxRedirects + NavAttempts + ModelAttempts
    BY <1>4, ScanTypes
  <2>2. Moved(s, [tries |-> scan[s].tries + 1]) /\ UNCHANGED jobs
    BY <1>4 DEF Again
  <2> QED
    BY <1>4, <2>1, <2>2, ScanGoesOn
<1>5. scan[s].tries \in Nat
  BY ScanTypes
<1>6. CASE Render(s)
  <2>1. "render" \in Sources /\ Rendered \subseteq SUBSET Marks
    <3>1. \A page \in Pages : page \cup {"image"} \in SUBSET Marks
      BY PagesAssumption DEF Marks
    <3> QED
      BY <3>1 DEF Sources, Rendered
  <2>2. scan[s].pc = "render" /\ scan[s].left > 0
    BY <1>6 DEF Render
  <2>3. scan[s].tries + 1 < NavAttempts
          => scan[s].tries + 1 <= MaxRedirects + NavAttempts + ModelAttempts
    BY <1>5
  <2>4. CASE \E page \in Rendered : Found(s, "render", page)
    BY <2>1, <2>2, <2>4, ScanFound
  <2> QED
    BY <1>3, <1>4, <1>6, <2>2, <2>3, <2>4 DEF Render
<1>7. CASE ToScrape(s)
  <2>1. PICK l : /\ l = Len(Addresses(scan[s].website)) /\ UNCHANGED jobs
                 /\ Moved(s, [pc |-> "scrape", left |-> l, tries |-> 0])
    BY <1>7 DEF ToScrape
  <2>2. l \in 0 .. 3 /\ scan[s].pc = "render"
    BY <1>7, <2>1, FewAddresses DEF ToScrape
  <2> QED
    BY <2>1, <2>2, ScanGoesOn
<1>8. CASE Scrape(s)
  <2>1. "scrape" \in Sources
    BY DEF Sources
  <2>2. scan[s].pc = "scrape" /\ scan[s].left > 0
    BY <1>8 DEF Scrape
  <2>3. scan[s].tries < MaxRedirects
          => scan[s].tries + 1 <= MaxRedirects + NavAttempts + ModelAttempts
    BY <1>5
  <2>4. CASE \E page \in Pages : Found(s, "scrape", page)
    BY <2>1, <2>2, <2>4, ScanFound
  <2> QED
    BY <1>3, <1>4, <1>8, <2>2, <2>3, <2>4 DEF Scrape
<1>9. CASE Scraped(s)
  <2>1. PICK src \in Sources : Found(s, src, {})
    BY <1>9 DEF Scraped, Sources
  <2> QED
    BY <1>9, <2>1, ScanFound DEF Scraped
<1>10. scan[s].pc \in {"finish", "analyze"} /\ Unanalysed(s) => ScanInv'
  <2>1. Unanalysed(s) => Moved(s, [pc |-> "done", generated |-> FALSE]) /\ Settled(s, "done")
    BY DEF Unanalysed, End
  <2> QED
    BY <2>1, ScanEnds
<1>11. CASE FinishScan(s)
  <2>1. scan[s].pc = "finish"
    BY <1>11 DEF FinishScan
  <2>2. CASE scan[s].source # "none" /\ Moved(s, [pc |-> "analyze"]) /\ UNCHANGED jobs
    BY <2>1, <2>2, ScanGoesOn
  <2> QED
    BY <1>10, <1>11, <2>1, <2>2 DEF FinishScan
<1>12. CASE Analyze(s)
  <2>1. scan[s].pc = "analyze"
    BY <1>12 DEF Analyze
  <2>2. scan[s].tries + 1 < ModelAttempts
          => scan[s].tries + 1 <= MaxRedirects + NavAttempts + ModelAttempts
    BY <1>5
  <2>3. ASSUME NEW ans \in Answers,
               End(s, IF "nulls" \in ans THEN [pc |-> "error"]
                      ELSE [pc |-> "done", generated |-> TRUE, answer |-> ans])
        PROVE  ScanInv'
    <3>1. CASE "nulls" \in ans
      <4>1. End(s, [pc |-> "error"])
        BY <2>3, <3>1
      <4>2. Moved(s, [pc |-> "error"]) /\ Settled(s, "error")
        BY <4>1 DEF End
      <4> QED
        BY <2>1, <4>2, ScanEnds
    <3>2. CASE "nulls" \notin ans
      <4>1. End(s, [pc |-> "done", generated |-> TRUE, answer |-> ans])
        BY <2>3, <3>2
      <4> QED
        BY <2>1, <2>3, <4>1, ScanAnswered
    <3> QED
      BY <3>1, <3>2
  <2> QED
    BY <1>4, <1>10, <1>12, <2>1, <2>2, <2>3 DEF Analyze
<1> QED
  BY <1>1, <1>2, <1>6, <1>7, <1>8, <1>9, <1>11, <1>12, ScanJob DEF Progress

LEMMA ScanNextInv == ScanInv /\ [ScanNext]_scanVars => ScanInv'
<1> SUFFICES ASSUME ScanInv, [ScanNext]_scanVars PROVE ScanInv'
  OBVIOUS
<1>1. ASSUME NEW s \in Scans, ScanDies(s) PROVE ScanInv'
  BY <1>1, ScanEnds DEF ScanDies
<1>2. CASE UNCHANGED scanVars
  BY <1>2 DEF scanVars, ScanInv, ScanTypeOK, FoundInv
<1> QED
  BY <1>1, <1>2, ScanBegins, ScanProgress DEF ScanNext

LEMMA ScanInvariance == ScanSpec => []ScanInv
  BY ScanInitInv, ScanNextInv, PTL DEF ScanSpec

\* brand_extraction.py and brand_job_service.py: a theme said to be the model's is one it gave
\* for something fetched, and a job tells how its scan ended.
THEOREM ThemesFound == ScanSpec => []ThemesAreFound
<1>1. ScanInv => ThemesAreFound
  BY DEF ScanInv, FoundInv, ThemesAreFound
<1> QED
  BY <1>1, ScanInvariance, PTL

-----------------------------------------------------------------------------
(* Every step of a scan brings it nearer to its end *)

Stage == [idle |-> 8, queued |-> 7, read |-> 6, bee |-> 6, render |-> 5, scrape |-> 4, finish |-> 3,
          analyze |-> 2, done |-> 1, error |-> 1, dead |-> 0]

\* A later stage; or one address fewer in the same tier; or one more of the attempts there,
\* of which ScanTypeOK bounds the number.
Nearer(s) ==
    \/ Stage[scan'[s].pc] < Stage[scan[s].pc]
    \/ scan'[s].pc = scan[s].pc /\ scan'[s].left < scan[s].left
    \/ /\ scan'[s].pc = scan[s].pc /\ scan'[s].left = scan[s].left
       /\ scan'[s].tries > scan[s].tries

\* A scan that moves gets nearer, and no step of its work leaves it where it was.
ScansGetNearer ==
    [][\A s \in Scans : Nearer(s) \/ (scan'[s] = scan[s] /\ ~Progress(s))]_scanVars

\* What a move makes of the control point and the two counters.
LEMMA MovedTo ==
    ASSUME ScanInv, NEW s \in Scans, NEW changes, Moved(s, changes)
    PROVE  /\ scan'[s].pc = IF "pc" \in DOMAIN changes THEN changes["pc"] ELSE scan[s].pc
           /\ scan'[s].left = IF "left" \in DOMAIN changes THEN changes["left"] ELSE scan[s].left
           /\ scan'[s].tries = IF "tries" \in DOMAIN changes THEN changes["tries"] ELSE scan[s].tries
BY MovedRow DEF ScanInv, ScanFields

\* A change of the control point to a later stage.
LEMMA LaterStage ==
    ASSUME ScanInv, NEW s \in Scans, NEW changes, Moved(s, changes), "pc" \in DOMAIN changes,
           Stage[changes["pc"]] < Stage[scan[s].pc]
    PROVE  Nearer(s)
BY MovedTo DEF Nearer

LEMMA WorkGetsNearer == ASSUME ScanInv, NEW s \in Scans, Progress(s) PROVE Nearer(s)
<1>1. scan[s].left \in 0 .. 3 /\ scan[s].tries \in Nat
  BY ScanTypes, ScanBoundsAssumption
<1>2. ASSUME ProcessJob(s) PROVE Nearer(s)
  <2> DEFINE changes == [pc |-> FirstTier(scan[s].website)]
  <2>1. scan[s].pc = "queued" /\ Moved(s, changes)
    BY <1>2 DEF ProcessJob
  <2>2. "pc" \in DOMAIN changes /\ Stage[changes["pc"]] < Stage[scan[s].pc]
    BY <2>1 DEF FirstTier, Stage
  <2> QED
    BY <2>1, <2>2, LaterStage
<1>3. ASSUME NEW src, NEW page, Found(s, src, page), scan[s].pc \in {"read", "bee", "render", "scrape"}
      PROVE  Nearer(s)
  <2> DEFINE changes == [pc |-> "finish", source |-> src, page |-> page, left |-> 0, tries |-> 0]
  <2>1. Moved(s, changes)
    BY <1>3 DEF Found
  <2>2. "pc" \in DOMAIN changes /\ Stage[changes["pc"]] < Stage[scan[s].pc]
    BY <1>3 DEF Stage
  <2> QED
    BY <2>1, <2>2, LaterStage
<1>4. ASSUME scan[s].pc \in {"read", "bee", "finish", "analyze"},
             \/ End(s, [pc |-> "error"]) \/ Unanalysed(s)
             \/ \E answer : End(s, [pc |-> "done", generated |-> TRUE, answer |-> answer])
      PROVE  Nearer(s)
  <2>1. PICK changes : /\ Moved(s, changes) /\ "pc" \in DOMAIN changes
                       /\ changes["pc"] \in {"done", "error"}
    <3> DEFINE Ending(changes) == /\ Moved(s, changes) /\ "pc" \in DOMAIN changes
                                  /\ changes["pc"] \in {"done", "error"}
    <3>1. ASSUME End(s, [pc |-> "error"]) PROVE Ending([pc |-> "error"])
      BY <3>1 DEF End
    <3>2. ASSUME Unanalysed(s) PROVE Ending([pc |-> "done", generated |-> FALSE])
      BY <3>2 DEF Unanalysed, End
    <3>3. ASSUME NEW answer, End(s, [pc |-> "done", generated |-> TRUE, answer |-> answer])
          PROVE  Ending([pc |-> "done", generated |-> TRUE, answer |-> answer])
      BY <3>3 DEF End
    <3> HIDE DEF Ending
    <3>4. \E changes : Ending(changes)
      BY <1>4, <3>1, <3>2, <3>3
    <3> QED
      BY <3>4 DEF Ending
  <2>2. Stage[changes["pc"]] < Stage[scan[s].pc]
    BY <1>4, <2>1 DEF Stage
  <2> QED
    BY <2>1, <2>2, LaterStage
<1>5. ASSUME Again(s) PROVE Nearer(s)
  BY <1>1, <1>5, MovedTo DEF Again, Nearer
<1>6. ASSUME NEW e, NextUrl(s, e), scan[s].left > 0 PROVE Nearer(s)
  BY <1>1, <1>6, MovedTo DEF NextUrl, Nearer
<1>7. ASSUME ReadDocument(s) PROVE Nearer(s)
  BY <1>3, <1>4, <1>7 DEF ReadDocument
<1>8. ASSUME Bee(s) PROVE Nearer(s)
  <2>1. ASSUME NEW public, Moved(s, [pc |-> "render", left |-> public]) PROVE Nearer(s)
    <3>1. Stage["render"] < Stage["bee"] /\ scan[s].pc = "bee"
      BY <1>8 DEF Stage, Bee
    <3> QED
      BY <2>1, <3>1, LaterStage
  <2> QED
    BY <1>3, <1>4, <1>8, <2>1 DEF Bee
<1>9. ASSUME Render(s) \/ Scrape(s) PROVE Nearer(s)
  BY <1>3, <1>5, <1>6, <1>9 DEF Render, Scrape
<1>10. ASSUME ToScrape(s) PROVE Nearer(s)
  <2>1. Stage["scrape"] < Stage["render"]
    BY DEF Stage
  <2> QED
    BY <1>10, <2>1, LaterStage DEF ToScrape
<1>11. ASSUME Scraped(s) PROVE Nearer(s)
  BY <1>3, <1>11 DEF Scraped
<1>12. ASSUME FinishScan(s) PROVE Nearer(s)
  <2>1. Stage["analyze"] < Stage["finish"]
    BY DEF Stage
  <2>2. Moved(s, [pc |-> "analyze"]) /\ scan[s].pc = "finish" => Nearer(s)
    BY <2>1, LaterStage
  <2> QED
    BY <1>4, <1>12, <2>2 DEF FinishScan
<1>13. ASSUME Analyze(s) PROVE Nearer(s)
  BY <1>4, <1>5, <1>13 DEF Analyze
<1> QED
  BY <1>2, <1>7, <1>8, <1>9, <1>10, <1>11, <1>12, <1>13 DEF Progress

\* brand_extraction.py tries so many addresses, so many times each, in three tiers, and asks
\* the model so many times: every step of a scan is one of them, so a scan that goes on
\* ends (ScansEnd).
THEOREM ScansAreBounded == ScanSpec => ScansGetNearer
<1>1. ASSUME ScanInv, ScanNext PROVE \A s \in Scans : Nearer(s) \/ (scan'[s] = scan[s] /\ ~Progress(s))
  <2> SUFFICES ASSUME NEW s \in Scans, ~Progress(s) PROVE Nearer(s) \/ scan'[s] = scan[s]
    BY <1>1, WorkGetsNearer
  <2>1. ASSUME NEW r \in Scans, NEW changes, Moved(r, changes), r # s PROVE scan'[s] = scan[s]
    BY <1>1, <2>1, MovedRow DEF ScanInv
  <2>2. ASSUME NEW r \in Scans, Progress(r) PROVE scan'[s] = scan[s]
    <3>1. \E changes : Moved(r, changes)
      BY <2>2 DEF Progress, ProcessJob, ReadDocument, Bee, Render, ToScrape, Scrape, Scraped, FinishScan,
                  Analyze, Found, End, Unanalysed, NextUrl, Again
    <3>2. r # s
      BY <2>2
    <3> QED
      BY <2>1, <3>1, <3>2
  <2>3. ASSUME NEW r \in Scans, NEW knd \in {"extract", "job"}, NEW w \in Websites \cup {Document},
               BeginScan(r, knd, w)
        PROVE  Nearer(s) \/ scan'[s] = scan[s]
    <3> DEFINE changes == [kind |-> knd, website |-> w,
                           pc |-> IF knd = "job" THEN "queued" ELSE FirstTier(w)]
    <3>1. Moved(r, changes) /\ scan[r].pc = "idle"
      BY <2>3 DEF BeginScan
    <3>2. "pc" \in DOMAIN changes /\ Stage[changes["pc"]] < Stage["idle"]
      BY DEF FirstTier, Stage
    <3> HIDE DEF changes
    <3>3. r = s => Nearer(s)
      BY <1>1, <3>1, <3>2, LaterStage
    <3> QED
      BY <2>1, <3>1, <3>3
  <2>4. ASSUME NEW r \in Scans, ScanDies(r) PROVE Nearer(s) \/ scan'[s] = scan[s]
    <3>1. Moved(r, [pc |-> "dead"]) /\ scan[r].pc \notin {"done", "error", "dead", "idle"}
      BY <2>4 DEF ScanDies
    <3>2. Stage["dead"] < Stage[scan[r].pc]
      BY <1>1, <3>1, ScanTypes DEF ScanPCs, Stage
    <3>3. r = s => Nearer(s)
      BY <1>1, <3>1, <3>2, LaterStage
    <3> QED
      BY <2>1, <3>1, <3>3
  <2> QED
    BY <1>1, <2>2, <2>3, <2>4 DEF ScanNext
<1>2. ScanInv /\ [ScanNext]_scanVars =>
         [\A s \in Scans : Nearer(s) \/ (scan'[s] = scan[s] /\ ~Progress(s))]_scanVars
  BY <1>1
<1> QED
  BY <1>2, ScanInvariance, PTL DEF ScanSpec, ScansGetNearer
=============================================================================

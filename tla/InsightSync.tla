---------------------------- MODULE InsightSync ----------------------------
(***************************************************************************)
(* What a sync stores for one client (services/analytics_service.py,       *)
(* platform_insight_service.py, analytics_breakdown_service.py, their      *)
(* repositories and client_rollup.py, called by IntegrationService.sync).  *)
(* A pull upserts daily facts, recomputes the client's lifetime totals,    *)
(* keeps both uncommitted while it asks the provider for more, commits     *)
(* the further rows with them, and then its status.  Figures are left out: *)
(* a cell holds the pull that wrote it last, the totals the facts they     *)
(* were summed over, and last_sync_at the pull that set it.                *)
(***************************************************************************)
EXTENDS Naturals, FiniteSets

CONSTANTS Pulls,    \* sessions that store facts: a sync, an upload, a lead count
          Cells,    \* (date, platform) of analytics_daily
          Slices,   \* (breakdown_type, dimension) of analytics_breakdowns
          Unwritten \* no pull

ASSUME InsightAssumption == Unwritten \notin Pulls

VARIABLES
    \* committed: the facts, clients.spend_total and its like, the breakdown rows each with
    \* its pull, recommendations and delivery issues that are open or closed, and
    \* last_sync_at of each connector (Unwritten is NULL)
    cells, totals, slices, open, closed, synced,
    \* each pull: what it stores, control point, the totals its session has carried, the
    \* cells it has upserted, the sum over them and the others, the breakdown rows it deletes
    way, spot, carried, own, summed, dropped,
    \* history: pulls whose facts, whose insights are committed, and that broke; pulls that
    \* others have committed during, and those between whose DELETE and commit another of
    \* their connector has replaced the breakdowns; whether the last commit of totals was of
    \* the first, the connectors for which the last of breakdowns was of the second
    kept, landed, broken, overlapped, passed, drifted, torn

storeVars   == <<cells, totals, slices, open, closed, synced>>
pullVars    == <<way, spot, carried, own, summed, dropped>>
recordVars  == <<kept, landed, broken, overlapped, passed, drifted, torn>>
insightVars == <<storeVars, pullVars, recordVars>>

\* What is fetched: campaigns and their like of an ad platform, breakdowns of a site, or
\* nothing beyond the facts (LinkedIn, GHL leads, an upload).
AdWays   == {"meta", "google_ads", "google_lsa"}
SiteWays == {"ga4", "search_console"}
Ways     == AdWays \cup SiteWays \cup {"linkedin", "leads", "upload"}

\* A sync of these ends with its integration's status and last_sync_at.
Connectors == AdWays \cup SiteWays \cup {"linkedin"}

\* The signals a sync can find, by rec_key: recommendations, and issues it derives.
MetaSignals      == {"recommendation", "status_mismatch", "issues_info", "review_feedback"}
GoogleAdsSignals == {"recommendation", "primary_status", "policy"}
LsaSignals       == {"recommendation", "primary_status"}

Signals(w) ==
    CASE w = "meta"       -> MetaSignals
      [] w = "google_ads" -> GoogleAdsSignals
      [] w = "google_lsa" -> LsaSignals

AllSignals == UNION {{w} \X Signals(w) : w \in AdWays}

\* The cells a pull has rows for.  The platforms answer with a row for every day they have
\* figures of, LinkedIn with one row of today; leads and uploads without rows end there.
MetaDays          == SUBSET Cells
GoogleAdsDays     == SUBSET Cells
GoogleLsaDays     == SUBSET Cells
Ga4Days           == SUBSET Cells
SearchConsoleDays == SUBSET Cells
LinkedInDays      == {{c} : c \in Cells}
GhlDays           == SUBSET Cells \ {{}}
UploadDays        == SUBSET Cells \ {{}}

DaysOf(w) ==
    CASE w = "meta"           -> MetaDays
      [] w = "google_ads"     -> GoogleAdsDays
      [] w = "google_lsa"     -> GoogleLsaDays
      [] w = "ga4"            -> Ga4Days
      [] w = "search_console" -> SearchConsoleDays
      [] w = "linkedin"       -> LinkedInDays
      [] w = "leads"          -> GhlDays
      [] w = "upload"         -> UploadDays

Facts      == [Cells -> Pulls \cup {Unwritten}]

InsightTypeOK ==
    /\ cells \in Facts /\ totals \in Facts
    /\ slices \subseteq Slices \X Pulls
    /\ open \subseteq AllSignals /\ closed \subseteq AllSignals /\ open \cap closed = {}
    /\ synced \in [Connectors -> Pulls \cup {Unwritten}]
    /\ way \in [Pulls -> Ways]
    /\ spot \in [Pulls -> {"idle", "fetch", "more", "delete", "insert", "commit", "stamp", "end"}]
    /\ carried \in [Pulls -> Facts]
    /\ own \in [Pulls -> SUBSET Cells]
    /\ summed \in [Pulls -> Facts]
    /\ dropped \in [Pulls -> SUBSET (Slices \X Pulls)]
    /\ kept \subseteq Pulls /\ landed \subseteq Pulls /\ broken \subseteq Pulls
    /\ overlapped \subseteq Pulls /\ passed \subseteq Pulls
    /\ drifted \in BOOLEAN /\ torn \subseteq SiteWays

InsightInit ==
    /\ cells = [c \in Cells |-> Unwritten] /\ totals = cells
    /\ slices = {} /\ open = {} /\ closed = {}
    /\ synced = [w \in Connectors |-> Unwritten]
    /\ way \in [Pulls -> Ways]
    /\ spot = [s \in Pulls |-> "idle"]
    /\ carried = [s \in Pulls |-> cells]
    /\ own = [s \in Pulls |-> {}]
    /\ summed = [s \in Pulls |-> cells]
    /\ dropped = [s \in Pulls |-> {}]
    /\ kept = {} /\ landed = {} /\ broken = {} /\ overlapped = {} /\ passed = {}
    /\ drifted = FALSE /\ torn = {}

-----------------------------------------------------------------------------
(* The facts *)

ToSpot(s, p) == spot' = [spot EXCEPT ![s] = p]

\* In the transaction that stores what the pull has fetched.
Active(s) == spot[s] \notin {"idle", "stamp", "end"}

\* The request, or the sweep, has the client in its session from here on.
Start(s) ==
    /\ spot[s] = "idle"
    /\ ToSpot(s, "fetch")
    /\ carried' = [carried EXCEPT ![s] = totals]
    /\ overlapped' = overlapped \ {s}
    /\ UNCHANGED <<storeVars, way, own, summed, dropped, kept, landed, broken,
                   passed, drifted, torn>>

BreakPull(s) ==
    /\ ToSpot(s, "end")
    /\ broken' = broken \cup {s}
    /\ UNCHANGED <<storeVars, way, carried, own, summed, dropped, kept, landed, overlapped,
                   passed, drifted, torn>>

\* No facts: a provider's error, or an upload that cannot be read.
FetchFail(s) == spot[s] = "fetch" /\ BreakPull(s)

FetchNothing(s) ==
    /\ spot[s] = "fetch" /\ {} \notin DaysOf(way[s]) /\ way[s] # "linkedin"
    /\ ToSpot(s, "end")
    /\ UNCHANGED <<storeVars, way, carried, own, summed, dropped, recordVars>>

\* refresh_client_rollups sums what this session sees: the others' committed facts, its own.
SumAdding(s, mine) == [c \in Cells |-> IF c \in mine THEN s ELSE carried[s][c]]
Sum(s, mine)       == [c \in Cells |-> IF c \in mine THEN s ELSE cells[c]]

\* One INSERT ... ON CONFLICT over the rows fetched, which it locks until the commit.
Upsert(s) ==
    /\ spot[s] = "fetch"
    /\ \E mine \in DaysOf(way[s]) :
          /\ \A q \in Pulls \ {s} : Active(q) => own[q] \cap mine = {}
          /\ own' = [own EXCEPT ![s] = mine]
          /\ summed' = [summed EXCEPT ![s] = Sum(s, mine)]
    /\ ToSpot(s, IF way[s] \in AdWays \cup SiteWays THEN "more" ELSE "commit")
    /\ UNCHANGED <<storeVars, way, carried, dropped, recordVars>>

-----------------------------------------------------------------------------
(* The commit, and what goes with it *)

\* The session writes the totals only if they differ from those it has carried.
CommitTotals(s) == totals' = IF summed[s] # carried[s] THEN summed[s] ELSE totals

CommitFacts(s) ==
    /\ cells' = [c \in Cells |-> IF c \in own[s] THEN s ELSE cells[c]]
    /\ CommitTotals(s)
    /\ kept' = kept \cup {s}
    /\ drifted' = (s \in overlapped)
    /\ overlapped' = overlapped \cup {q \in Pulls \ {s} : Active(q)}

\* The integration, connected and with last_sync_at.
Stamps(s) == synced' = IF way[s] \in Connectors THEN [synced EXCEPT ![way[s]] = s] ELSE synced

\* The terminal commit, of the facts too if nothing has committed them.
CommitPull(s) ==
    /\ spot[s] = "commit"
    /\ CommitFacts(s) /\ Stamps(s)
    /\ ToSpot(s, "end")
    /\ UNCHANGED <<slices, open, closed, way, carried, own, summed, dropped, landed, broken,
                   passed, torn>>

CommitStatus(s) ==
    /\ spot[s] = "stamp"
    /\ Stamps(s)
    /\ ToSpot(s, "end")
    /\ UNCHANGED <<cells, totals, slices, open, closed, way, carried, own, summed, dropped, recordVars>>

\* A provider that fails now costs the insights only: all it is asked for is fetched before
\* the first of them is written.
MoreFail(s) ==
    /\ spot[s] = "more"
    /\ ToSpot(s, "commit")
    /\ UNCHANGED <<storeVars, way, carried, own, summed, dropped, recordVars>>

\* What sync_meta and its like may find: issues are derived from what they have fetched, and
\* recommendations may be unavailable.
SyncMeta      == SUBSET ({"meta"} \X MetaSignals)
SyncGoogleAds == SUBSET ({"google_ads"} \X GoogleAdsSignals)
SyncGoogleLsa == SUBSET ({"google_lsa"} \X LsaSignals)

\* Whatever is found is open, closed before or not, and what is no longer found stays as it
\* is; the campaigns, ads and metrics upserted with it are left out.
Finds(s, found) ==
    /\ open' = open \cup found
    /\ closed' = closed \ found
    /\ landed' = landed \cup {s}

\* The service commits the insights, and the facts with them.
Land(s) ==
    /\ spot[s] = "more" /\ way[s] \in AdWays
    /\ \E found \in CASE way[s] = "meta"       -> SyncMeta
                       [] way[s] = "google_ads" -> SyncGoogleAds
                       [] way[s] = "google_lsa" -> SyncGoogleLsa : Finds(s, found)
    /\ CommitFacts(s)
    /\ ToSpot(s, "stamp")
    /\ UNCHANGED <<slices, synced, way, carried, own, summed, dropped, broken, passed, torn>>

\* A row that cannot be read ends the insights halfway, and the terminal commit stores those
\* that were written before.
LandPartly(s) ==
    /\ spot[s] = "more" /\ way[s] \in AdWays
    /\ \E found \in SUBSET {<<way[s], "recommendation">>} : Finds(s, found)
    /\ CommitFacts(s) /\ Stamps(s)
    /\ ToSpot(s, "end")
    /\ UNCHANGED <<slices, way, carried, own, summed, dropped, broken, passed, torn>>

InsightsRolledBack(s) ==
    /\ spot[s] \in {"more", "delete", "insert"}
    /\ ToSpot(s, "stamp")
    /\ UNCHANGED <<storeVars, way, carried, own, summed, dropped, recordVars>>

\* An error of the database is caught like the provider's (the unique constraint against rows
\* the DELETE did not see, a deadlock with another pull), but it has aborted the transaction:
\* the terminal commit fails, and the facts are lost with the insights.
InsightsBreak(s) ==
    /\ spot[s] \in {"more", "delete", "insert"}
    /\ BreakPull(s)

\* replace_breakdowns: the DELETE chooses its rows when it begins, and waits for another
\* that has deleted them.
DeleteSlices(s) ==
    /\ spot[s] = "more" /\ way[s] \in SiteWays
    /\ dropped' = [dropped EXCEPT ![s] = {r \in slices : way[r[2]] = way[s]}]
    /\ passed' = passed \ {s}
    /\ ToSpot(s, "delete")
    /\ UNCHANGED <<storeVars, way, carried, own, summed, kept, landed, broken, overlapped,
                   drifted, torn>>

DeletedSlices(s) ==
    /\ spot[s] = "delete"
    /\ \A q \in Pulls \ {s} : spot[q] = "insert" => dropped[q] \cap dropped[s] = {}
    /\ ToSpot(s, "insert")
    /\ UNCHANGED <<storeVars, way, carried, own, summed, dropped, recordVars>>

Clashes(s, found) == \E r \in slices \ dropped[s] : way[r[2]] = way[s] /\ r[1] \in found

InsertSlices(s) ==
    /\ spot[s] = "insert"
    /\ \E found \in SUBSET Slices :
          /\ ~Clashes(s, found)
          /\ slices' = (slices \ dropped[s]) \cup (found \X {s})
    /\ landed' = landed \cup {s}
    /\ torn' = IF s \in passed THEN torn \cup {way[s]} ELSE torn \ {way[s]}
    /\ passed' = passed \cup {q \in Pulls \ {s} : spot[q] \in {"delete", "insert"} /\ way[q] = way[s]}
    /\ CommitFacts(s)
    /\ ToSpot(s, "stamp")
    /\ UNCHANGED <<open, closed, synced, way, carried, own, summed, dropped, broken>>

Die(s) == spot[s] \notin {"idle", "end"} /\ BreakPull(s)

\* dismiss_recommendation, resolve_delivery_issue.
CloseSignal(g) ==
    /\ g \in open
    /\ open' = open \ {g} /\ closed' = closed \cup {g}
    /\ UNCHANGED <<cells, totals, slices, synced, pullVars, recordVars>>

InsightNext ==
    \/ \E s \in Pulls : \/ Start(s) \/ FetchFail(s) \/ FetchNothing(s) \/ Upsert(s)
                        \/ MoreFail(s) \/ Land(s) \/ LandPartly(s) \/ InsightsBreak(s)
                        \/ DeleteSlices(s) \/ DeletedSlices(s) \/ InsertSlices(s)
                        \/ CommitPull(s) \/ CommitStatus(s) \/ Die(s)
    \/ \E g \in AllSignals : CloseSignal(g)

-----------------------------------------------------------------------------
(* Properties *)

\* The client's totals are those of its facts, unless another pull was committed while the
\* last one ran (client_rollup.py:29): they drift, and the next pull that runs alone heals
\* them, whatever drift it finds.
TotalsFollowFacts == drifted \/ totals = cells

\* The breakdowns of a connector are those of one pull: a dimension that has fallen out of
\* the top does not linger (analytics_breakdown_repository.py:26), whatever other pulls are
\* under way, unless another pull of the connector replaced them between the DELETE and the
\* commit of the last one that did; the next heals them.
SlicesAreOneSnapshot ==
    \A q, r \in slices : way[q[2]] = way[r[2]] /\ way[q[2]] \notin torn => q[2] = r[2]

\* A sync counts as done only if its facts are stored, whatever became of its insights and
\* whoever swallowed the error (integration_service.py:735, 761).  Insights are never stored
\* without the facts of their pull; the facts are stored by a pull that breaks only where the
\* insights have a commit of their own (integration_service.py:680), and by one that does not
\* break never without the sync being done.
SyncedAsStored ==
    /\ \A w \in Connectors : synced[w] # Unwritten => synced[w] \in kept
    /\ landed \subseteq kept
    /\ \A g \in open \cup closed : \E s \in landed : way[s] = g[1]
    /\ \A s \in kept \cap broken : way[s] \in AdWays \cup SiteWays
    /\ \A s \in kept \ broken :
          spot[s] = "end" /\ way[s] \in Connectors => synced[way[s]] # Unwritten
=============================================================================

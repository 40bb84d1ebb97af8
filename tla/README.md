# InWork MarketingOS backend: a TLA+ model

This directory holds a formal model of the parts of the backend whose
correctness depends on the order of things: TLA+ modules translated from the
Python in `src/app`, TLC configurations that check them on small instances, and
proofs, checked by TLAPS, that the most important results hold for every
instance. `PROJECT.json` lists the components, the runs, the faults each
property is known to catch ("mutants"), the source lines behind every
definition ("map"), the disagreements found between code and documentation
("findings"), the hazards the properties are aimed at, and the theorems.

## 1. The system

An agency runs its clients' marketing with it. A FastAPI process serves the
endpoints; a worker process builds client profiles from a queue in the
database; a scheduler process runs periodic sweeps. All share one PostgreSQL
database at READ COMMITTED through SQLAlchemy sessions, one per request or
claim. Model calls (LLM, embeddings), e-mail, file storage and the ad platforms
are external.

Three facts about that stack decide what can go wrong, and every module states
them in the same way:

- a plain SELECT takes no lock, so what it returned may have changed by the
  time it is used;
- an UPDATE is by primary key and writes only the columns whose value differs
  from the one the session loaded. It waits for a row lock and then applies to
  whatever the row has become;
- a commit makes all writes of a transaction visible at once and releases its
  locks; an exception that leaves the handler rolls back what was not committed.

### Components

| component | state it keeps | operations | what is hard | what makes it correct |
|---|---|---|---|---|
| intelligence job queue, worker | `intel_jobs` | enqueue (coalescing), reclaim, claim, succeed, fail | several workers, advisory and row locks, crashes, stale claims, retries | at most one running row per client; no change without a build; no row stuck |
| profile build, review gate | `client_profiles`, `client_directives`, `clients.current_profile_version` | build, resolve_directive | model calls between read and commit, overlapping builds, admins meanwhile | live version is the last one; nothing binding goes live unreviewed; flags match directives |
| ingestion, embedding | `knowledge_sources`, `knowledge_chunks` | sync, chunk and embed, promote a message | overlapping builds without a unique key, column-wise updates, a source that fails once | what search returns is what the client has |
| AI change proposals | `change_proposals`, `proposed_operations`, the rows they change, `audit_logs` | stage, create, approve, reject, expire | approval racing approval, rejection and edits; failure in the middle | applied once, as a whole, and only what was reviewed |
| onboarding, auto-fill, brand scans | `clients` and its child rows, background jobs | save a section, auto-fill, scan a website or document | minutes between load and commit, replaced collections, tiers that fail | nothing typed is lost to a scan; a theme is of what was found; every scan ends |
| assistant | `ai_chats`, messages with their cards, drafts, proposals | turns of four endpoints, decide a card, delete a chat | several commits per turn, a model that asks for tools, disconnects | the thread tells what was done; every turn ends |
| model routing and usage | routes, the cache of a process, usage events | update a route, call a model | a cache loaded by any thread, failures in a stream | an old route expires; every attempt is accounted for |
| scheduler, sweeps | logs of what was done | periodic jobs | crash between doing and logging | once per client and period |
| daily report e-mail, notification digest | `report_email_logs`, `notifications` | send, log, notify, read | retries, crash between send and log, batch limits | sent at most once; everything is sent in the end |
| plan, plan generation, calendar | `plan_tasks`, `calendar_events` | assign, approve, regenerate, edit | a model call between read and write | what is published is what was approved |
| insight sync | daily facts, insights, breakdowns, `clients.spend_total` | pull, replace, roll up | several commits and swallowed errors per pull, overlapping pulls | one snapshot per day, totals of the facts there are |
| alerts, dashboard cache | `alerts`, `dashboard_snapshots` | evaluate, acknowledge, view, refresh | concurrent evaluations, locks of one process | one live alert per breach; no stale snapshot |
| rate limiter, sessions, audit | hit windows, `user_sessions`, `audit_logs` | attempt, login, logout, purge, record | eviction, several stores, sessions that end in flight | limit holds; every change is recorded with its actor |
| integrations | `integrations`, `ghl_agency_connections` | start, complete, select an account, sync, disconnect | tokens rotated and refreshed while others reconnect or disconnect | the stored refresh token is the last issued; account, location and token belong together; what was disconnected stays so |
| uploads, reports, tickets | `uploads`, the bucket, `reports`, `support_tickets` | store, delete, renew the link, generate, attach | no transaction spans the bucket and the table | rows and objects fit; a revoked link stays dead |
| the rest (budgets, strategy, compliance, administrator tasks, demo data, ...) | their tables | CRUD and aggregation | little order, much data | see `PROJECT.json` for each |

Interactions: onboarding, compliance and strategy requests *enqueue* inside
their own transaction; a worker *claims* and *builds*; the build publishes a
profile that every AI feature reads; an admin *resolves* the directives a build
left for review. The assistant *stages* operations that a proposal carries to
an approval, which runs the same `_apply_*` halves as the ordinary endpoints.

## 2. Modules

| module | models | its runs |
|---|---|---|
| `IntelJobQueue`, `IntelJobQueueProofs` | `services/intelligence/job_queue.py`, `worker.py` | `queue_*` |
| `Onboarding` (EXTENDS `BrandScan`) | `services/onboarding_service.py`, `client_discovery_service.py`, edits of `client_service.py` | `queue_safety` |
| `Knowledge` | `services/intelligence/ingestion_service.py`, the embedding of `orchestrator.py`, promotion in `conversation_service.py` | `queue_safety` |
| `Access` | `core/rate_limit.py`, `services/auth_service.py`, `api/deps.py`, `core/middleware.py` | `queue_safety` |
| `ProfileVersions` | the abstract promise of `models/client_profile.py`: an append-only list of versions, published atomically | as a property of `records_safety` |
| `ProfileBuild` | `orchestrator.py`, `reconcile.py`, `intelligence_service.py` | `records_safety`, `profile_flags_sync` |
| `PlanReview` | `services/plan_generation_service.py`, `calendar_service.py`, the task requests of `plan_service.py` | `records_safety` |
| `GhlConnection` | the GHL part of `services/integration_service.py`, `integrations/ghl/oauth.py`, the GHL sweep | `records_safety`, `ghl_collision` |
| `Integrations` | the OAuth connectors of `services/integration_service.py` (Meta, Google, LinkedIn), the sweep that syncs them | `records_safety` |
| `ChangeProposal`, `ChangeProposalProofs` | `services/proposal_service.py`, `repositories/proposal_repository.py` | `proposal_*` |
| `ReviewedChanges` | the abstract promise of `services/proposal_service.py`: a reviewed proposal takes effect once, in one step, on the rows it names | as a property of `proposal_safety` |
| `ReportEmail`, `ReportEmailProofs` | `services/report_email/service.py`, its sweep, `models/report_email_log.py` | `services_safety`, `office`, `report_cooldown` |
| `ModelCalls` | `ai/model_router.py`, `services/ai_model_route_service.py`, `integrations/llm/openrouter.py`, `ai/usage.py` | `services_safety` |
| `InsightSync` | `services/analytics_service.py`, `platform_insight_service.py`, `analytics_breakdown_service.py`, `client_rollup.py` | `services_safety` |
| `KpiAlerts` | `services/alert_service.py`, `campaign_service.py`, the watchdog sweep | `services_safety` |
| `AutoPlan` | the plan sweep of `scheduler_service.py`, `auto_plan_generation_timing.py` | `services_safety` |
| `NotificationDigest` | `services/notification_service.py`, `notification_email_service.py` | `services_safety`, `digest_starves` |
| `AssistantChat` | `services/assistant_service.py`, `ai/command_agent.py` | `office` |
| `DashboardCache` | `services/dashboard_service.py` | `office` |
| `BrandScan` | `ai/brand_extraction.py`, `utils/web.py`, `utils/render.py`, `services/brand_job_service.py` | `office`, `queue_safety` |
| `Uploads` | `services/upload_service.py`, `support_ticket_service.py`, `report_service.py`, `utils/download_link.py` | `office` |
| `MCIntelJobQueue`, `MCRecords`, `MCServices`, `MCOffice`, `MCQueueLive`, `MCChangeProposal` | the instances that TLC checks | |
| `ConnectionProofs`, `ScanProofs` | proofs about `GhlConnection` and `Integrations`; about `BrandScan` | |
| `RecordsProofs`, `ServicesProofs`, `OfficeProofs` | proofs about the other modules of `MCRecords`, `MCServices` and `MCOffice`, and about the compositions | |

The first four `MC` modules compose. Their modules share no variables, and a
variable `part`, chosen initially, says which one moves while the others keep
their initial state; a run therefore explores the sum of the state spaces and
not their product, and one run checks many components. Where two modules meet
in the code the meeting is inside a module: `Onboarding` takes in `BrandScan`
for the auto-fill, the builds it enqueues are those of `IntelJobQueue`,
`Knowledge` is what such a build does before `ProfileBuild` publishes, and
`KpiAlerts` ends in a signal of `NotificationDigest`. Within a part an `MC`
module may leave out combinations that cannot influence one another; each such
restriction stands there as an operator with its reason, and section 3 names them.
They restrict the runs only: the theorems about a module are about all it can do.

### IntelJobQueue

One function per column of `intel_jobs`; time enters only through two comparisons, so
`run_after <= now` is the flag `due` and `locked_at < now - 30 min` the flag `stale`,
which `BecomeDue` and `BecomeStale` raise. A worker moves through `reclaim_stale` (`Poll`,
`ReclaimLoad`, `ReclaimWrite`), `claim_next` (`SelectCandidate`, `AdvisoryLock`,
`RecheckFree`/`RecheckBusy`, `ClaimCommit`, `NoCandidate`), the build (`StartBuild`,
`BuildCommit`, `BuildFail`) and the outcome (`Succeed`, `Fail`). `BuildFail` stands for
every error that `worker.py:62-66` turns into a `fail`: of the build, and of `succeed`
itself. `loaded` is the SQLAlchemy identity map: `GiveBack` writes only the columns that
differ from it, which is how an outdated `fail` or reclaim damages a newer claim. `Crash`
and `ClaimError` (a database error, among them the deadlock PostgreSQL breaks) drop the
locks and leave the row. A request reads the queue (`EnqueueRead`) and commits later
(`EnqueueInsert`, `EnqueueCoalesce`), the change it made becoming visible at that moment
(`Publish`); `wanted` is what was published and not built since, `covers` what the build
at hand has read.

Left out: `settings.intelligence.enabled = false` and a client deleted while
its job waits (the job succeeds without a build), priorities (every row has the
default), logging.

### ProfileBuild

A build loads the client and with it the live pointer (`Start`), awaits the
model (`Extract`: any result that `reconcile` can produce, gated against the
rules active on the version it loaded), asks for the next number
(`NextVersion`) and commits everything (`Commit`), which needs the number to be
free (the unique constraint). The queue does not rule out overlapping builds of
a client (a build that outlives the 30 minutes of `job_queue.py:76` is
reclaimed while it runs), so `Builders` may have two members. An admin reads in three
SELECTs, each of which sees what is committed by then: the directive (`ResolveRead`), the
profile with its flags (`ResolveProfile`), and the directives of the version the flags are
recomputed from (`ResolveDirectives`), and then commits (`ResolveCommit`).

### ChangeProposal

`approve` is three transactions, as in the code: the compare-and-swap of the
status (`Claim`, `LoseClaim`), the preflight and the operations, each a lookup
(`Select`) and a flush (`Flush`) that waits for row locks, ended by `Finish` or
`SelectFail` (a row that is gone, or a range that is out of order by now), and after a
rollback `Record`. Errors that are no `AppError`
(`FlushError`: stale data, unique violation, deadlock) and crashes leave the
claim behind. `loaded` again is the identity map: a row is not read twice in a
session. Rows of `Tasks` carry `updated_at`, rows of `Seats` do not, so only
the former have a snapshot. The other kinds of operation behave like one of the
six: client, brand and user updates like `update`, `add_note` like `duplicate`;
`set_capabilities` is not modelled.

`AppliesAsOneChange` says that the module implements `ReviewedChanges`, under the
mapping that forgets the sessions: the rows as committed, the operations of each
proposal, which proposals are recorded, which were approved while their
snapshots held (`reviewed`) and which carry an audit row. The abstract `Apply`
makes, in one step, of every row what the last operation on it makes of it; the
engine takes up to two steps per operation, waits for locks, rolls back and
crashes in between. An edit that comes between the preflight and the
transaction is written over, in both: that window is open by the design of the
snapshot check.

### ReportEmail

One client's log row per report date. A session is a sweep or an admin's single
send (`StartSweep`, `StartSingle`); it takes up its dates in order (`Pass`,
`Skip`, `Attempt`), builds the report (`Build`, `BuildFail`), sends it with
`MAX_ATTEMPTS` tries (`Accept`, `Retry`, `SendFail`, `SendRaise`) and writes the
log (`Insert`, `InsertConflict`, `Update`). The row's detail columns (error,
attempts, recipients, message id) are one value, because all that matters is
whether an update changes any of them: only then does `updated_at`, on which the
cooldown rests, move (`Written`, `cooling`). `Unheard` is an answer of the
provider that does not arrive although the mail was delivered; `Crash` may
happen anywhere. Local time is the day (`Midnight`) and whether 23:30 has passed
(`HalfPastEleven`).

### PlanReview

An item is the task and event of one drafted post, a record of the columns the
requests decide by. A request opens an item (`Assign`, `Reject`, `Approve`,
`Regenerate`, `Edit`, `Decide`, `Patch`), which computes the columns it will
write from the row as it is (`Dirty`); `CommitItem` writes them over whatever the
row has become by then (`Over`), and `Abandon` is every way to be rolled back.
The await of the model in `regenerate_item` is the time between the two, as the
time slice between two statements is for the other requests. Deletions are one
step: they write no column and depend on none. `reviewed` records which draft
an approval had read, and `passed` which columns others have committed of the items a
request holds. From it every commit decides anew whether the item is `exempt`: whether
the columns this request leaves out are not those it had read, so that it may have
finished half of what another began. An item is exempt only until the next
request that nothing passed. The decision `changes_requested` behaves like `rejected`.

### GhlConnection

The one row of `ghl_agency_connections`, and the provider's side of it: a token is a grant
and the number of its pair, `turn` the last pair of each grant. An admin starts
(`GhlOauthStart`), consents and has the code exchanged (`Exchange`), completes
(`GhlOauthComplete`, which goes on to sync every tagged client) and disconnects. A session
takes up a client (`SetGhlTags`, `BeginCall`), loads the connection (`LoadConnection`,
`NotUsable`), refreshes its token if it is about to expire (`Refresh`, `RefreshRefused`,
`RefreshFails`, `RefreshEmpty`, `SaveTokens`) and asks for the contacts (`FetchOk`,
`FetchRefused`, `FetchFails`); every failure is written to the shared row (`Settle`).
Whether a token expires is the flag `aged`; the location is the grant it was picked with.
An answer of the provider may lack a new refresh token, in which case the stored one stays
and is honoured on (`rotated`), or, at the exchange, any refresh token, and then none is
kept; and an exchange may not tell the location, so that the one stored before stays
(`unlocated`). The row of the client itself is left out: the calls write its status and
never read it.

### Integrations

One row of `integrations`. A session authorizes (`BeginComplete`, `Complete`),
selects an account (`BeginSelect`, `SelectAccount`) or syncs (`BeginSync`),
refreshing the token on the way (`SaveToken`, `UseStored`). The first two end in
a first sync (`FollowUp`), whose failure is committed and then overridden
(`Fail`, `Override`). `Committed` is what a commit writes: the columns that
differ from those loaded, and after an earlier commit of the session (`lapsed`)
whatever it sets, because SQLAlchemy has forgotten what it knew. A token is the
grant it came from and `sees` the accounts each grant can see. Left out:
`login_customer_id`, labels and scopes, the figures that are stored, the
signature of the state. Where Google's exchange gives no refresh token the one of an earlier
grant stays, and may renew an access token for it (`mixed`).

### Onboarding and BrandScan

A session loads the row of a client with its child rows, sets what it was given and
commits (`Save`, `Commit`): the columns that differ, and of a replaced collection the
INSERTs of the new rows before the DELETEs of the loaded ones, so that a row of the same
channel clashes (`Clashes`). An auto-fill scans, creates a draft under the first free
slug, loads it again and fills what is empty (`AutoFill`, `CreateDraftMinimal`,
`FillClient`). A scan goes through the proxy, the headless render and the plain scrape,
each with its attempts and redirects (an address that does not parse ends it at once),
reads a document instead if it was given one, and asks the model once (`Progress`); a page
is the set of marks it bears, an answer the fields it fills.

### Knowledge

A build reads the origins SELECT by SELECT (`ReadOrigins`: one group of fields after
another, then the documents, then the promoted messages), then the rows (`ReadSources`),
decides by the hash what to load (`Sync`) and commits rows and chunks (`CommitBuild`),
writing the columns it changed over what the row has become. A promotion inserts a row of
its own. There is no unique key on a source, so rows are named apart from what they are
of; a key is new (`Fresh`) if neither the table nor any build under way knows it, since
keys are drawn and never used again.

### Access

`Attempt` spends a hit of the account's bucket in the store of a process or of
Redis, with the pruning, the cap of a scope and the failure that lets an attempt
through uncounted; `Verify` and `Mint` end a login, of which the good one
forgets the bucket. A request is let in (`GetCurrentUser`), handled, and
recorded afterwards by a session of its own that resolves the actor anew
(`Audit`), while the session row may be logged out, purged or expire.

### ModelCalls, InsightSync, KpiAlerts, AutoPlan, NotificationDigest

`ModelCalls` takes the load, storing and stamping of the route cache as three steps of any
thread, against `Choose` and `Invalidate` of an administrator; a request ends in
`Succeed`, `SucceedOddly` (a malformed usage), `FailCall` or `Cancel`. In `InsightSync` a
cell holds the pull that wrote it last, so that mixing shows; a pull fetches, upserts and
rolls up, asks for more and commits, of an ad platform the signals found (`Land`), or some
of them where a row cannot be read (`LandPartly`), of a site the slices of a breakdown it
replaces (`DeleteSlices`, `InsertSlices`). The two ways this may go wrong under one
`except` (`integration_service.py:735`, 761) are two actions: a provider that fails costs
the insights only (`MoreFail`), and an error of the database, which has aborted the
transaction, costs the facts too (`InsightsBreak`). `KpiAlerts` reads campaigns and live
alerts apart and writes by what it read. `AutoPlan` drafts, logs and tells in three
commits. `NotificationDigest` looks for the unread row and commits later, and its sweep
takes the oldest batch, passes over users who want nothing, mails and then saves.

### AssistantChat, DashboardCache, Uploads

A turn of `AssistantChat` is a sequence of commits (`Advance`), cut by `Disconnect` or
`Fail`; a decision on a card reads it (`Open`), decides the tasks (`Batch`) and writes the
card (`Resolve`). In `DashboardCache` a view reads its inputs, asks the snapshot, waits
for the lock of its process and builds; `came` and `shows` count the decisions known.
`Uploads` puts the object before the row and removes it before the row (`Push`, `Record`,
`Remove`, `Drop`); a link is the file and the epoch it was signed for. A report shows a
link in its `file_url`, which an edit may write over with any other (`UpdateReport`). A
ticket's save writes its attachments under the foreign keys of both tables.

## 3. What the runs show

Runs that pass, part by part:

- `queue_safety`. Queue: one running row per client; dead only with the attempts used up;
  a running row stays visible to reclaim unless an outdated write hit its client; a change
  is lost only to the two overtaking writes. Two workers, two requests, two jobs, two
  attempts, one fault: enough for a slow worker to be reclaimed, the row claimed again by
  the other, and each of the late outcomes to arrive, and for an enqueue to overlap a
  claim. A request that asks for a full build or debounces meets a plain one, and a fault
  plain ones only (`Asked`). Onboarding: two saves and one auto-fill over two slugs, so
  that a save overlaps a save and either overlaps a scan (`OnboardingKeepsWork`); the scan
  goes through the proxy, the other tiers being checked in `office` (`Proxied`).
  Knowledge: one origin of each kind, two texts, two builds at once or a build and a
  promotion (`Few`); a field takes a second text while it is the only source (`Alone`),
  which is enough for a build to hold an old text of what another one reads anew
  (`KnowledgeIsWhole`), and one document or message is deleted (`OneGone`). Limits: four
  logins of two accounts with two per window, begun in order (`InOrder`), for
  `LimitHolds`. Sessions: two logins and one request (`ChangesAreAccounted`).
- `queue_live`: a queued job settles, and a running row leaves `running`. Every row may be
  claimed twice, so that a build that fails or is reclaimed is tried again before it is
  dead. In `slow` two workers share one row, which is reclaimed while a worker still
  builds it, or after it died. In `crash` they share two rows of a client, and one fault
  takes a worker away from a row that the other has to bring back; only such a row turns
  stale (`Stales`). In `deadlock` three workers share two rows of each of two clients. A
  worker that lost the recheck of one client keeps its advisory lock while it asks for the
  other's (`MaxClaimAttempts` is 2), and two of them may ask crosswise; the database
  aborts one. Since it takes a long way to come there, this part begins in the middle of
  it (`Contended`, a state the queue reaches; nobody waits for anybody yet), and leaves
  out the requests that filled the queue and the faults. `queue_safety` has one client,
  and no such deadlock.
- `records_safety`. Profile: two builders and one admin, and three versions with one
  resolve or two with two (`Short`): enough for a build to publish over a version it never
  saw, for a rule to be carried forward twice, and for a resolve to meet each of two
  builds; the builds implement `ProfileVersions`. Reviews: two managers, one item, two
  days (a range needs two to be inverted) and two drafts (one to replace). Patches write
  dates and decisions write approvals, so each is checked against assignments, which write
  both, and not against the other (`Only`); in the part of the decisions an assignment
  sets no due date (`Undated`). GHL: two sessions, one client, two grants (one to
  replace), of which one has two answers (one to rotate to; `OneTurns`). One answer lacks
  its refresh token or its location, and then nothing is revoked, lost or listed
  (`Sparing`). Connectors: two sessions, two authorizations and one account for each kind
  of provider, so that an account is visible to one grant and not to the other; only the
  first grant is withdrawn, and once there are two it is withdrawn or expires, both of
  which a provider refuses alike (`Withdrawing`). Over a row that is exempt (`stray`,
  `outdated`) only an admin begins anything, which is what ends the exemption
  (`OnlyAdmins`).
- `proposal_safety`: two approvers, a rejecter, and either one proposal of two
  operations of all six kinds with two outside edits and a crash, or two
  proposals of updates and deletes over the same two rows, in every order of
  locks, staged in one order, since proposals and rows are interchangeable
  (`InOrder`); a proposal is one change of the rows it names (`AppliesAsOneChange`,
  the refinement of `ReviewedChanges`), and what was claimed by an approver is
  recorded in the end (`ApprovalEnds`).
- `services_safety`. Reports: two sessions, one date, two attempts, two kinds of failure,
  one lost answer or crash. Routes: two calls and two edits. Requests: two calls, plain or
  streamed. Syncs: five mixtures in which every connector occurs, with itself and with
  another, pulls of one connector begun in order (`Few`). Alerts: two evaluations of one
  campaign. Plans: two sweeps, two months. Mail and signals: two users, two sweeps or two
  signals at once, a batch of one.
- `office`. Reports: one sweep over two dates: a date is sent in the end or is no
  longer due. Chat: one turn and two decisions on its card. Dashboard: two views
  of one process, one decision. Scan: two attempts of navigation and of the
  model, one redirect. The views are interchangeable and so are the inputs
  (`FirstView`, `FirstInputs`). Files: two requests over one file, two renewals (a third
  epoch is needed for one to be set back), and one ticket. A request ends
  (`RequestsEnd`) in all of these that have one.

Runs that find a violation, each a disagreement between the code and what it
says of itself (`PROJECT.json`, "findings", quotes both): `queue_no_lost_work`,
`profile_flags_sync`, `proposal_rejected`, `report_cooldown`,
`ghl_collision`, `digest_starves`. The same modules
pass the weaker property that the code does guarantee, so that the line between
the two is explicit: `LostOnlyWhenOvertaken` beside `NoLostWork`,
`AppliedOnceAsAWhole` beside `RejectedIsNotApplied`, `DueIsSent` beside
`FailureCoolsDown`, `RefreshTokenIsLast` beside `NoRefreshCollides`, `SweepsActOnce`
beside `BacklogDrains`; `FlagsInSync` holds with one admin and fails with two. For
four of the six a theorem names the condition that the code leaves open ("Boundary
theorems" in section 4).

Limits. Other statements of the code hold only with an exception, which the
passing properties name:

- two workers can build one client at a time: the 30 minutes after which a
  claim counts as abandoned (`job_queue.py:76`) bound no build
  (`models/intel_job.py:4-5`). `OneRunningRowPerClient` is about the rows.
- an outdated `fail` clears the lock of a newer claim (`job_queue.py:206`),
  which reclaim then never sees (`job_queue.py:17-18`): `RunningIsReclaimable`.
- a directive flagged for review can become active unreviewed if it binds
  nothing (`orchestrator.py:213`, 293-298): `HardRulesAreReviewed`; one approved
  while a build runs is not carried forward (`orchestrator.py:207`, 196-197).
- an error other than `AppError` leaves a proposal executing
  (`proposal_service.py:575`, 512-515): `ApprovalEnds` is about the approver.
- two sessions that have a report in hand at once, or an answer of the provider
  that is lost, send it twice (`models/report_email_log.py:4-7`):
  `MailedOnceUnlessBlurred`.
- an item regenerated while somebody approves it can stay approved with a text
  nobody read, because `pending` does not differ from the `pending` that was
  loaded (`plan_generation_service.py:299-309`); two decisions can leave it
  approved by nobody; two patches of one end each, or an assignment alone
  (`plan_generation_service.py:173-175`), can invert its range
  (`schemas/plan.py:26-32`). `exempt` marks the item from such a commit to the next that
  nothing passed, whatever else was open: `ReviewIsAnswered` and `SpansAreInOrder` hold
  everywhere else, also where requests overlap without mixing, as two patches that each
  write both ends.
- a call that loaded the GHL connection before an admin reconnected or
  disconnected it writes its tokens or its outcome over theirs
  (`integration_service.py:471-499`): `outdated` marks the row from then on, in
  `ConnectionsAreCoherent` and `DisconnectedStays`. `RefreshTokenIsLast` excepts a
  pair that was issued and never arrived.
- a request on a connector writes what it began before another changed the row,
  and the placeholder `connect` sets `connected` without a token
  (`integration_service.py:205-228`): `stray` marks both, in the same two
  properties.
- a pull that others were committed during leaves totals of a mixture
  (`client_rollup.py:29`; `drifted`), and one whose DELETE and commit lie on either side
  of another's replacement of the same breakdowns leaves slices of both (`torn`); the next
  pull that nothing crosses heals either. A database error among the insights is swallowed
  like a provider's but loses the facts as well (`integration_service.py:735`, 761); the
  sync is not recorded as done then (`SyncedAsStored`). A sync re-opens what people
  dismissed or resolved and closes nothing that is no longer reported.
- overlapping evaluations open an alert twice, there being no unique key on
  client and `rec_key`, and acknowledging a resolved alert makes it live again
  (`alert_service.py:73`): `twinned`.
- two sweeps at once, or a crash between drafts and log, draft a month twice
  though the log is to rule it out (`models/auto_plan_generation_log.py:5-7`):
  `unsure`; a crash between mail and commit mails a digest twice: `astray`.
- a slower build of a dashboard overwrites a newer snapshot; a fallback answer is
  kept for the full age and labelled as generated whenever a model is configured
  (`global_assistant_service.py:58` does the same).
- a route loaded before an administrator's write and stored after it stays until
  it expires (`model_router.py:114-117` says it is picked up at once):
  `OldRoutesExpire`; a cancelled stream and a malformed usage leave no usage event.
- two decisions that open a card at once both act (`contested`), and a turn cut
  between its commits leaves drafts or a proposal that no message names (`cut`).
- a step of the wizard can go back, and notes and colours double, where two saves
  overlap (`overlapped`); saving the platforms again with a channel they already
  have is refused, since the new rows come before the old ones go
  (`onboarding_service.py:233`, `models/client.py:245`); an empty summary is
  replaced by a placeholder that is then stored as the client's, against
  `client_discovery_service.py:168-170`; an answer that cannot be stored leaves
  the draft client that was created for it.
- two rows for one source, left by overlapping builds or promotions, are never
  merged, and an overlapping full build can leave the chunks of an old text under
  the hash of the new one until the next full build; a document that could not be
  downloaded stays unread as long (`ingestion_service.py:166`): the exceptions of
  `KnowledgeIsWhole`.
- the memory limiter counts per process, the cap of a scope evicts buckets that
  still count, and Redis out of reach counts nothing: `LimitHolds` is per store
  and from the last eviction on. A change whose session ended in flight is
  recorded without its actor: `ChangesAreAccounted`.
- a request cut between the bucket and the table leaves an object or a row alone
  (`torn`); two renewals at once can set the epoch back and bring revoked links
  to life (`raced`). Links of chats, logos and reports are always signed for the
  first epoch (`assistant_service.py:215`, `schemas/client.py:41`), so after a
  renewal they are dead although the file is there, and links by key
  (`schemas/document.py:38`) are never revoked.

Bounds. `MaxJobs`, `MaxFaults`, `MaxVersion`, `MaxResolves`, `MaxOps`,
`MaxEdits`, `MaxCrashes`, `MaxDate`, `MaxLost`, `MaxDay`, `MaxDrafts`, `MaxGrants`,
`MaxTurns`, `MaxConsents`, `MaxRoute`, `MaxTime`, `MaxAlerts`, `MaxMonth`,
`MaxBatches`, `MaxNotes`, `MaxTicks`, `MaxDecided`, `MaxText`, `MaxBuilds`,
`MaxClock` and `MaxEpoch` bound what in the code is unbounded; each is a guard of
the action it bounds or bounds the inputs of one, and the theorems hold for every
value. `MaxAttempts`, `MaxClaimAttempts`, `MaxRounds`, `NavAttempts`,
`ModelAttempts`, `MaxRedirects`, `BatchLimit`, `Times`, `Window`, `MaxKeys` and
`FinalStep` are the code's own limits, taken smaller; `Lasts`, `TTL`, `BucketTTL`
and `Lifetime` its periods, in ticks. A batch of `PlanReview` has one item in the
run: its properties are about one item each. Symmetry is used where sessions are
interchangeable model values, and only in runs without liveness.
`CHECK_DEADLOCK FALSE` is said where versions, resolves or requests are a
finite supply and the system may simply be done, as when every date has passed
or both rows of an item are deleted.

Fairness. The queue (`LiveSpec` of `MCQueueLive`, of the workers and rows that take part): a
worker that can step does (weak; a worker that crashed
polls again from the top, as its supervisor restarts it), time passes (weak on
`BecomeDue` and `BecomeStale`), PostgreSQL aborts a member of a deadlock (weak),
and a worker that polls for ever is not throttled at every poll (strong on
`ReclaimLoad`: the throttle is a time interval). `ChangeProposal`: a request
that was started keeps running (weak); nobody is assumed to approve, edit or
let a proposal expire. `ReportEmail`: the scheduler's loop sweeps for ever, a session
that can step does, and an hour passes (weak); and the outside does not fail for
ever: a date that is tried again and again meets recipients, data and a provider
that accepts (strong on `Attempt`, `Build` and `Accept`), without which a report
need never be sent. The sweep's start is strongly fair because a single send of
the same session disables it now and then. Nothing is assumed of midnight.
`AssistantChat`, `DashboardCache` and `BrandScan`: a request that was started keeps
running (weak), the event loop and the thread pool being fair; nobody is assumed to
ask, decide or give up. `NotificationDigest`: the sweep runs again and again and does
not die every time (weak, and strong on the steps a crash cuts), and a user's mail
that is tried for ever goes out (strong). The other modules state no fairness: their
properties are about what may happen and not about what must.

## 4. What is proved

All theorems are of the form `Spec => []P`, `Spec => [][A]_vars` or `Spec =>
Abstract!Spec`, or one of the first two under a condition (`Spec /\ []C`), for every value
of the constants. Every safety invariant and every action property that a passing run
checks is among them, and so are both refinements, of `ProfileVersions` (`Refinement`) and
of `ReviewedChanges` (`OneChange`). A specification without fairness is proved about
(`AccessSpec`, `KnowledgeSpec` and the like are `Init /\ [][Next]_vars` of one module); a
fair one implies it.

Assumptions. They are the `ASSUME`s of the modules, which TLC evaluates too:
participants are finite sets where they are counted (`Workers`, `Clients`,
`Users`, `Calls`, `Origins`, `Rows`); a placeholder (`Null`, `NoRow`, `Nobody`,
`Unbound`, ...) is not one of what it stands in for; bounds and periods are
natural numbers, those of the code that cannot be zero are not; what is chosen
from is not empty where the code has something (`Campaigns`, `Checks`, `Clients`,
`1 \in Slugs`); a bucket lives at least as long as its window
(`core/rate_limit.py` keeps it so). No proof limits the number of participants.

Each proof goes by an inductive invariant, which TLC checked first on the
instances of the runs. The common difficulty is that the code reads, works for
seconds and then writes. The invariant therefore says of each participant what
it may still believe of the row it read, and the history variables (`outdated`,
`stray`, `exempt`, `blurred`, `unsure`, `crossed`, `alone`, ...) say when it may
not; the proof shows that nothing else can make it wrong.

- `IntelJobQueueProofs`, queue. `TypeCorrect`. `OneRunningRow`: a worker past the
  recheck holds the advisory lock of its client, that client has no running row,
  and a queued row it holds is row-locked, so that of two workers at most one can
  be between recheck and commit for a client. `DeadLetter`: attempts only grow, so
  the attempts a session loaded bound the row's from below. `Reclaimable`: a
  claim's row has its lock unless an outdated write was recorded.
  `LostOvertaken`: what is wanted of a client whose row a worker still claims will be
  covered by that build or is pending in another row, and what a request saw is a
  row of its client, unless one of the two overtaking writes happened.
  `ClaimsFromQueued` from the same invariants.
- `IntelJobQueueProofs`, around the queue. `WindowsHold`: a bucket holds the last
  attempts its store let in, in order; those it dropped are out of the window, and
  one attempt comes at least a window after the one `Times` before it.
  `ChangesAudited`: a request that was let in holds the token of a login that is over.
  `OnboardingKept`: the row a session loaded is the row as it is, unless another
  one committed meanwhile; a fill spares what was typed; notes and colours come
  from one session. `KnowledgeWhole`: what a stored row may say of its kind of
  origin (`SoundRow`), that a key is of one origin for ever (`OneKey`), what a build
  holds of the rows it read and flushed (`Reads`, `Flushes`), that the table still
  is what it read while nothing overlapped (`Sees`), and that two builds past their
  flush have no row in common (`Apart`). A commit then leaves one row for each
  origin that was read, none for the others, and its chunks. `QueueType` is the
  composition of the four.
- `RecordsProofs`, profile. `TypeCorrect`. `LiveLatest`: the published numbers are `1 ..
  current`; a build whose number is still free took it after the last publication, so the
  version it supersedes is below it. `HardRules`: what is active is signed, and what a
  draft carries as active was active on a version when it was gated. `FlagsWhenApart`:
  what a request has read of the flags and the directive still holds when it writes
  (`FlagsInv`), if no two admins have directives of one profile in hand (`ResolvesApart`).
  `OnlyLive`: a version stays ready beside the live one only if the build that followed
  had not seen it. `Refinement`: every commit is one `Publish` of `ProfileVersions`, and
  every other step a stutter.
- `RecordsProofs`, reviews. `PlanReviewed` and `PlanInOrder`: the columns of an item that
  nobody has passed are those a request loaded (`RequestsInv`). Hence a request about to
  approve writes a name with it and has read the draft that is there, and a patch leaves
  the range in order with the ends the row still has; where it leaves out a column that was
  passed, the commit marks the item, and the next that leaves out none clears it. Two
  patches of both ends may cross as they like (`DatesMeet`).
- `ConnectionProofs`. `StoredRefreshIsLast`: nobody holds a token that was not
  issued; a pair about to be stored is the last of its grant and no two sessions
  hold pairs of one grant; while the row has the access token a session loaded, it
  refreshes the grant of the row's location. `GhlCoherent` and
  `GhlStaysDisconnected` follow with what the status says of the tokens;
  `LinkCoherent` and `LinkStaysDown` are the same for one client's connector, and
  `RecordsConnections` and `RecordsStayDisconnected` state both of the composition.
  `RefreshesApartDoNotCollide`: what a session is about to refresh is the last token
  of its grant unless the grant is lost (`RefreshesLast`), if no session refreshes while
  another's new pair is not stored (`RefreshesApart`).
- `ChangeProposalProofs`. `TypeCorrect`. `AppliedOnce`: a working approver's
  proposal is not pending, no two approvers work on the same proposal, and
  nothing is recorded for a proposal while an approver works on it.
  `OnlyReviewed`: an operation on a task has as base a stamp that the row has had, a
  row a request has written is locked by it, and a proposal that was unfit when it
  was claimed cannot get past the preflight, whatever is edited meanwhile (a stamp
  that was left behind never comes back). `OneChange`, the refinement of
  `ReviewedChanges`: the uncommitted writes of a request are those of the operations
  it has carried out (`EffectInv`), so `FinishApplies` is the abstract `Apply`; staging,
  an outside edit and a claim map to their abstract steps or to a stutter, and so does
  every other step. `RejectedInTime`: where no claim comes between the two steps of
  a reject (`RejectsInTime`), a rejected proposal is in nobody's hands. `LocksHeldAtWork`:
  a row lock is held by a request that is at work on its operations.
  `ApprovalsAreBounded`: each own step of an approval lowers `Remaining`, three for each
  operation and two more, and no step of another raises it.
- `ReportEmailProofs`. `ReportTypeCorrect`. `MailedOnce` and `SentStays` from
  one invariant, `HandledInv`: of a date that is not blurred, at most one session
  has it in hand, and the row it loaded is the row as it is; nothing was mailed
  unless the row says sent or that session is about to write so. A write
  therefore takes full effect (`WriteTakesEffect`), and a session that starts on
  a mailed date meets the sent row and passes. `CoolsDown`: a failure that was
  written is on the row with a new `updated_at`, and nobody has the date in hand
  (`CoolsInv`); so a date is taken up within the hour only if the failure repeated the
  one before and wrote nothing, or the date is blurred. `WrittenFailuresCoolDown`
  follows.
- `ServicesProofs`. `SweepsOnce` from `MonthDraftedOnce` (of a month that is not unsure at
  most one sweep has it in hand) and `NotesToldOnce` (a mailed row is marked, in the hands
  of the sweep that mailed it, or lost track of; of two notifications of one signal one
  has crossed the other). `AlertsMatchBreaches`: an evaluation that nobody crossed still
  sees the campaigns and the live alerts. `TotalsAreFacts`: a pull that no commit
  overlapped has summed the facts there are. `PullsAreWhole`: a pull between its DELETE
  and its commit that no other of its connector has passed deletes all the breakdown rows
  of the connector there are; every way to store insights or to stamp a sync as done has
  stored the facts, whichever error was swallowed before. `AttemptsCounted`: a call has
  been sent if it waits or has ended with an event. `RoutesExpire`: as long as no load was
  slow, a stale route in a cache was replaced after the cache was loaded, and one about to
  be stored was replaced at this very tick. `ServicesType` is the composition.
- `OfficeProofs`. `AnswersCurrent` and `OneBuild`: what a view has merged is as new as the
  view, and engines that nobody forced run under the lock of their process. `ThreadsTrue`:
  operations are staged and drafts committed only on the way to a reply that names them,
  and a decision that met no other finds its card open. `FilesKept`: a file being recorded
  is nobody else's yet, one being dropped has left the bucket or is torn, no link of a
  file is newer than its row, a revoked one is older, and what a report shows is a link
  that was handed out (`Known`), which therefore opens or is revoked.
  `LockGoesWithTheBuild`: the lock of a process is held by a view of that process whose
  engines or review are under way, whatever fails. `TurnsAreBounded`: each own step of a
  turn leaves it less to do (`TurnLeft`: the model may call tools `MaxRounds` times, the
  rest is a way of few steps). `OfficeType` is the composition.
- `ScanProofs`. `ThemesFound`: a scan that asks the model has a source, and what is said
  to be generated was answered for it. `ScansAreBounded`: every step of a scan brings it
  to a later stage, to the next address or to the next attempt at it, in this order.

Boundary theorems. Where a run refutes what the code says of itself, the finding is a
counterexample on a small instance; for four of them a theorem of the form `Spec /\ []C =>
claim` adds which condition on the interleavings is enough for the claim, for any number
of participants. What would establish it is a lock, a recheck or a write of `updated_at`
that the code does not have:

| refuted by the run | theorem | condition `C` |
|---|---|---|
| `profile_flags_sync` | `FlagsWhenApart` | no two admins have directives of one profile in hand |
| `proposal_rejected` | `RejectedInTime` | no claim comes between a reject's read of the status and its write |
| `ghl_collision` | `RefreshesApartDoNotCollide` | no session refreshes until another one's pair is stored |
| `report_cooldown` | `WrittenFailuresCoolDown` | every failure changes the row, one session at a time handles a date, and no crash or lost answer leaves its outcome in doubt (no date is blurred) |

The first three hold of every participant that works alone, and of several where they do
not overlap; the last fails for one session alone that meets the same failure twice.
`CoolsDown` needs no condition: it says that the cooldown fails in these two ways only.

A proof attempt found one statement wrong. `CorpusTellsOrigins` said that the text
a build reads of a source it does not load again is what it read of the origin, but
for a document that is stored as failed. The invariant did not go through, and TLC
with four builds instead of the run's two gave the reason: a full build that loads a
document it had read as embedded sends no text, since none changed, and so leaves
the empty text that an overlapping build, which could not load the document,
committed meanwhile; the row is embedded and says nothing. The property now excepts
a document with an empty text, whatever its status.

Only model-checked: liveness, fairness and ENABLED being beyond TLAPS (`BuildsEnd`,
`ApprovalEnds`, `DueIsSent`, `RequestsEnd`). What these rest on is proved where it is a
matter of safety: that the own steps of an approval, a scan and a turn are bounded
(`ApprovalsAreBounded`, `ScansAreBounded`, `TurnsAreBounded`), and that whoever waits for
a lock waits for one that works (`LocksHeldAtWork`, `LockGoesWithTheBuild`). That such a
step is enabled and is taken in the end is what TLC adds. `NoLostWork` and `BacklogDrains`
are refuted by their runs and have no boundary theorem of their own (`LostOvertaken` says
when work is lost; the second is liveness).

## 5. Not modelled, and the plan

Proofs: the safety properties of the passing runs are done. What would add to them are
properties of their own, stated and checked first: that a build whose claim was not
overtaken publishes what was wanted when it read (the queue and the profile as one),
and that `InsightSync` and `KpiAlerts` together raise an alert for what the facts say.

Models that would add to these: task assets and their limit; `reconcile.py` as an
algorithm against its reference definition; the queue composed with the build, refining the
promise that every change is in a published profile in the end; the retention of the
audit log.

Not modelled, since no order of events matters there: administrator tasks,
compliance and strategy documents, budgets (one row, one write; the builds that
some of them enqueue are requests of `IntelJobQueue`), client context (a read of
the current version), demo data, migrations, and everything that is layout, wording,
prompts, schemas or configuration. The external services themselves are modelled only
by what they may answer.

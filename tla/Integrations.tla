---------------------------- MODULE Integrations ----------------------------
(***************************************************************************)
(* One OAuth connector of one client, a row of integrations: oauth_start,  *)
(* oauth_complete, select_account, sync, connect and disconnect of         *)
(* services/integration_service.py, and the sweep of                       *)
(* services/scheduler_service.py that syncs it.                            *)
(*                                                                         *)
(* These requests load the row, await the provider and commit.  A commit   *)
(* writes the columns that differ from those loaded; an earlier commit of  *)
(* the same session makes it forget what it loaded, and what it sets next  *)
(* is written whatever it is.  A token is the number of the grant it came  *)
(* from; each is encrypted afresh, so that one of the same grant is still  *)
(* written.                                                                *)
(***************************************************************************)
EXTENDS Naturals, Sequences

CONSTANTS Operators,   \* sessions: requests and the sweep
          Providers,   \* kinds of provider, out of meta, google and linkedin
          Listed,      \* ad accounts, properties or sites
          Unbound,     \* external_account_id of a row with no account
          MaxConsents  \* bound on completed authorizations

ASSUME IntegrationsAssumption ==
    Providers \subseteq {"meta", "google", "linkedin"} /\ Unbound \notin Listed /\ MaxConsents \in Nat

VARIABLES
    \* the provider of the connector; its row; whether its token is about to expire
    provider, link, expiring,
    \* the provider: the accounts each grant can see, and the grants withdrawn
    sees, withdrawn,
    \* each session: control point, what it is for, the row it loaded, and whether it has
    \* committed since
    stage, purpose, known, lapsed,
    \* history: the row holds what somebody wrote by hand, or from a load others overtook;
    \* its access token was renewed for another grant than its account was listed for
    stray, mixed

sessionVars     == <<stage, purpose, known, lapsed>>
integrationVars == <<provider, link, expiring, sees, withdrawn, sessionVars, stray, mixed>>

Consents == 1 .. MaxConsents

\* Grant 0 is no token.
Link == [status  : {"none", "pending", "connected", "error", "needs_reauth", "disconnected"},
         access  : {0} \cup Consents, refresh : {0} \cup Consents,
         account : Listed \cup {Unbound}]

NoLink == [status |-> "none", access |-> 0, refresh |-> 0, account |-> Unbound]

\* Columns and local states have their types, and whoever syncs has loaded the account to
\* query (the last guard of sync).
LinkTypeOK ==
    /\ provider  \in Providers
    /\ link      \in Link
    /\ expiring  \in BOOLEAN
    /\ sees      \in Seq(SUBSET Listed) /\ Len(sees) <= MaxConsents
    /\ withdrawn \subseteq DOMAIN sees
    /\ stage     \in [Operators -> {"idle", "authorize", "refresh", "query", "failed"}]
    /\ purpose   \in [Operators -> {"none", "complete", "select", "first", "sync"}]
    /\ known      \in [Operators -> Link]
    /\ lapsed    \in [Operators -> BOOLEAN]
    /\ stray     \in BOOLEAN /\ mixed \in BOOLEAN
    /\ \A s \in Operators :
          stage[s] = "refresh" /\ purpose[s] # "select" /\ provider # "linkedin"
          => known[s].account # Unbound

IntegrationsInit ==
    /\ provider \in Providers
    /\ link     = NoLink /\ expiring = FALSE
    /\ sees     = <<>> /\ withdrawn = {}
    /\ stage    = [s \in Operators |-> "idle"]
    /\ purpose  = [s \in Operators |-> "none"]
    /\ known     = [s \in Operators |-> NoLink]
    /\ lapsed   = [s \in Operators |-> FALSE]
    /\ stray    = FALSE /\ mixed = FALSE

Enter(s, point, why, row) ==
    /\ stage'   = [stage   EXCEPT ![s] = point]
    /\ purpose' = [purpose EXCEPT ![s] = why]
    /\ known'    = [known    EXCEPT ![s] = row]
    /\ lapsed'  = [lapsed  EXCEPT ![s] = FALSE]

End(s) == Enter(s, "idle", "none", NoLink)

Unchanged == UNCHANGED <<provider, sees, withdrawn>>

-----------------------------------------------------------------------------
(* Requests that await nothing *)

\* The tokens stay: a reconnection that is not finished leaves them unused.
OauthStart ==
    /\ link' = [link EXCEPT !.status = "pending"]
    /\ Unchanged /\ UNCHANGED <<expiring, sessionVars, stray, mixed>>

\* The placeholder for providers without a client of their own takes any connector.
Connect(account) ==
    /\ link'  = [link EXCEPT !.status = "connected", !.account = account]
    /\ stray' = TRUE
    /\ Unchanged /\ UNCHANGED <<expiring, sessionVars, mixed>>

ClearedTokens == [link EXCEPT !.status = "disconnected", !.access = 0, !.refresh = 0]

\* The account stays, to be shown.
Disconnect ==
    /\ link.status # "none"
    /\ link'     = ClearedTokens
    /\ expiring' = FALSE
    /\ stray'    = FALSE
    /\ Unchanged /\ UNCHANGED <<sessionVars, mixed>>

-----------------------------------------------------------------------------
(* Commits *)

\* The row after a session sets these columns and commits; blind is a commit of columns
\* the session no longer remembers.
Committed(s, columns, blind) ==
    [c \in DOMAIN link |->
        IF /\ c \in DOMAIN columns
           /\ blind \/ columns[c] # known[s][c] \/ (c = "access" /\ columns[c] # 0)
        THEN columns[c] ELSE link[c]]

\* What a session writes over a row that is not the one it loaded is stray.
Write(s, columns, blind) ==
    /\ link'  = Committed(s, columns, blind)
    /\ stray' = (stray \/ (link # known[s] /\ link' # link))

Syncable(row) ==
    /\ row.status = "connected" /\ row.access # 0
    /\ provider # "linkedin" => row.account # Unbound

\* A token about to expire is refreshed first, where there is a way to.
UseToken(s, why, row, aged) ==
    LET renewable == IF provider = "meta" THEN why # "select" ELSE row.refresh # 0 IN
    Enter(s, IF aged /\ renewable THEN "refresh" ELSE "query", why, row)

\* _try_sync_after_connect: the row just committed is synced at once; if it cannot be, it is
\* connected all the same.
FollowUp(s, row, aged) ==
    IF Syncable(row)
    THEN link' = row /\ UseToken(s, "first", row, aged)
    ELSE link' = [row EXCEPT !.status = "connected"] /\ End(s)

\* The grant that a refreshed token is of: Meta renews the token itself.
Renews(row) == IF provider = "meta" THEN row.access ELSE row.refresh

-----------------------------------------------------------------------------
(* oauth_complete *)

\* The row is loaded before the code is exchanged.
BeginComplete(s) ==
    /\ stage[s] = "idle" /\ link.status # "none" /\ Len(sees) < MaxConsents
    /\ Enter(s, "authorize", "complete", link)
    /\ Unchanged /\ UNCHANGED <<link, expiring, stray, mixed>>

\* Meta gives no refresh token; Google is asked for one, and where it gives none the one
\* that was loaded stays; LinkedIn may give one.
RefreshTokens(s, grant) ==
    CASE provider = "meta"     -> {0}
      [] provider = "google"   -> {grant, known[s].refresh}
      [] provider = "linkedin" -> {0, grant}

\* LinkedIn takes an account of those listed; elsewhere one of them may be asked for.
Bindable(visible) ==
    IF provider = "linkedin" /\ visible # {} THEN visible ELSE visible \cup {Unbound}

\* Without an account, a meta or google connector waits for select_account; but if Meta
\* listed none the first sync is tried, and refused.
AwaitsSelection(account, visible) ==
    account = Unbound /\ (provider = "google" \/ (provider = "meta" /\ visible # {}))

\* An account nobody picked is cleared.
Connected(s, grant, refresh, account) ==
    [status |-> "connected", access |-> grant, refresh |-> refresh, account |-> account]

Complete(s) ==
    LET grant == Len(sees) + 1 IN
    /\ stage[s] = "authorize" /\ grant <= MaxConsents
    /\ \E visible \in SUBSET Listed, refresh \in RefreshTokens(s, grant) :
       \E account \in Bindable(visible) :
          LET row == Committed(s, Connected(s, grant, refresh, account), FALSE) IN
          /\ sees' = Append(sees, visible)
          /\ IF AwaitsSelection(account, visible) THEN link' = row /\ End(s)
                                                 ELSE FollowUp(s, row, FALSE)
    /\ expiring' = FALSE
    /\ stray'    = (link # known[s]) /\ mixed' = FALSE
    /\ UNCHANGED <<provider, withdrawn>>

-----------------------------------------------------------------------------
(* select_account and sync *)

BeginSelect(s) ==
    /\ stage[s] = "idle" /\ provider # "linkedin"
    /\ link.status = "connected" /\ link.access # 0
    /\ UseToken(s, "select", link, expiring)
    /\ Unchanged /\ UNCHANGED <<link, expiring, stray, mixed>>

SelectAccount(s) ==
    /\ stage[s] = "query" /\ purpose[s] = "select" /\ known[s].access \notin withdrawn
    /\ \E account \in sees[known[s].access] :
          LET row == Committed(s, [account |-> account], lapsed[s]) IN
          /\ FollowUp(s, row, expiring)
          /\ stray' = (stray \/ link # known[s]) /\ mixed' = FALSE
    /\ Unchanged /\ UNCHANGED expiring

\* A connector that cannot be synced is refused, and nothing is recorded.
BeginSync(s) ==
    /\ stage[s] = "idle" /\ Syncable(link)
    /\ UseToken(s, "sync", link, expiring)
    /\ Unchanged /\ UNCHANGED <<link, expiring, stray, mixed>>

\* A commit that the session goes on after; the Ads clients read the row again.
SaveToken(s) ==
    /\ stage[s] = "refresh" /\ Renews(known[s]) \notin withdrawn
    /\ Write(s, [access |-> Renews(known[s])], FALSE)
    /\ mixed'    = (mixed \/ Renews(known[s]) # known[s].access)
    /\ expiring' = FALSE
    /\ stage'    = [stage EXCEPT ![s] = "query"]
    /\ \/ /\ lapsed' = [lapsed EXCEPT ![s] = TRUE]
          /\ known'  = [known  EXCEPT ![s].access = Renews(known[s])]
       \/ /\ provider = "google" /\ purpose[s] # "select"
          /\ known' = [known EXCEPT ![s] = link'] /\ UNCHANGED lapsed
    /\ Unchanged /\ UNCHANGED purpose

\* An answer without a token, or for Meta no good answer at all: the stored token is used.
UseStored(s) ==
    /\ stage[s] = "refresh"
    /\ stage' = [stage EXCEPT ![s] = "query"]
    /\ Unchanged /\ UNCHANGED <<link, expiring, purpose, known, lapsed, stray, mixed>>

Syncs(s) ==
    /\ purpose[s] \in {"first", "sync"}
    /\ stage[s] = "query" \/ (stage[s] = "refresh" /\ provider # "meta")

\* The failure is committed before anything else; the first sync has more to write.
Fail(s, status) ==
    /\ Write(s, [status |-> status], lapsed[s])
    /\ IF purpose[s] = "first"
          THEN /\ stage'  = [stage  EXCEPT ![s] = "failed"]
               /\ known'   = [known   EXCEPT ![s].status = status]
               /\ lapsed' = [lapsed EXCEPT ![s] = TRUE]
               /\ UNCHANGED purpose
          ELSE End(s)
    /\ Unchanged /\ UNCHANGED <<expiring, mixed>>

\* Anything but a refusal of the token or the grant.
SyncFails(s) == Syncs(s) /\ Fail(s, "error")

SyncRefused(s) ==
    /\ Syncs(s)
    /\ \/ stage[s] = "refresh" /\ Renews(known[s]) \in withdrawn
       \/ stage[s] = "query" /\ (known[s].access \in withdrawn \/ expiring)
    /\ Fail(s, "needs_reauth")

\* The clients of Meta and Google sync more, best effort, and may commit on the way.
SyncOk(s) ==
    /\ Syncs(s) /\ stage[s] = "query" /\ known[s].access \notin withdrawn
    /\ \E blind \in IF provider = "linkedin" THEN {lapsed[s]} ELSE BOOLEAN :
          Write(s, [status |-> "connected"], blind)
    /\ End(s)
    /\ Unchanged /\ UNCHANGED <<expiring, mixed>>

\* A first sync that failed must not look like a connection that failed.
Override(s) ==
    /\ stage[s] = "failed"
    /\ Write(s, [status |-> "connected"], TRUE)
    /\ End(s)
    /\ Unchanged /\ UNCHANGED <<expiring, mixed>>

-----------------------------------------------------------------------------
(* Time, the provider's side, and requests that end early *)

LinkAges ==
    /\ link.access # 0 /\ ~expiring
    /\ expiring' = TRUE
    /\ Unchanged /\ UNCHANGED <<link, sessionVars, stray, mixed>>

Withdraw(g) ==
    /\ withdrawn' = withdrawn \cup {g}
    /\ UNCHANGED <<provider, link, expiring, sees, sessionVars, stray, mixed>>

\* The process dies; or an authorization or a selection meets an error, which is not kept.
GiveUp(s) ==
    /\ stage[s] # "idle"
    /\ End(s)
    /\ Unchanged /\ UNCHANGED <<link, expiring, stray, mixed>>

-----------------------------------------------------------------------------

IntegrationsNext ==
    \/ OauthStart \/ Disconnect \/ LinkAges
    \/ \E account \in Listed : Connect(account)
    \/ \E s \in Operators :
          \/ BeginComplete(s) \/ Complete(s)
          \/ BeginSelect(s) \/ SelectAccount(s) \/ BeginSync(s)
          \/ SaveToken(s) \/ UseStored(s)
          \/ SyncFails(s) \/ SyncRefused(s) \/ SyncOk(s) \/ Override(s)
          \/ GiveUp(s)
    \/ \E g \in DOMAIN sees \ withdrawn : Withdraw(g)

IntegrationsSpec == IntegrationsInit /\ [][IntegrationsNext]_integrationVars

-----------------------------------------------------------------------------
(* Properties *)

\* The row says what it holds: no token behind "disconnected" (the comment of disconnect),
\* one behind "connected", and an account its token can see (the check of select_account),
\* through reconnections, selections, refreshes and failures, unless a session wrote what
\* it had begun before another changed the row, or somebody connected it by hand.  The
\* account may be out of sight once a refresh token that Google's exchange has left from an
\* earlier grant (integration_service.py:858) has renewed the access token.
LinkIsCoherent ==
    \/ stray
    \/ /\ link.status = "disconnected" => link.access = 0 /\ link.refresh = 0
       /\ link.status = "connected" => link.access # 0
       /\ link.access # 0 /\ link.account # Unbound =>
             mixed \/ link.account \in sees[link.access]

\* A connector that was disconnected is only connected again on request: by start, by an
\* authorization, or by hand; a sync does it only with what it had loaded before.
LinkStaysDisconnected ==
    [][link.status = "disconnected" /\ link'.status \notin {"disconnected", "pending"}
       => stray' \/ \E s \in Operators : stage[s] = "authorize" /\ stage'[s] # "authorize"]_integrationVars
=============================================================================

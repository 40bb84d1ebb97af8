--------------------------- MODULE GhlConnection ---------------------------
(***************************************************************************)
(* The one agency-wide GoHighLevel connection and the clients that share   *)
(* it: the GHL part of services/integration_service.py, with               *)
(* integrations/ghl/oauth.py, models/ghl_agency_connection.py and the GHL  *)
(* sweep of services/scheduler_service.py.                                 *)
(*                                                                         *)
(* Admins connect and disconnect; a sync or a listing of contacts for a    *)
(* client loads both rows, refreshes the access token if it is about to    *)
(* expire, asks the provider and commits.  The provider numbers its        *)
(* answers to a grant: each has an access token, most a new refresh token, *)
(* and only the last of those is honoured.  A commit writes the columns    *)
(* that differ from what the session loaded.  What loads and commits       *)
(* without awaiting anything is one step.  The status of a client's own    *)
(* row is left out: these calls write it and never read it.                *)
(***************************************************************************)
EXTENDS Naturals

CONSTANTS Callers,     \* sessions: requests and the clients of a sweep
          Accounts,    \* the clients that may have tags
          MaxGrants,   \* bound on authorizations by an admin
          MaxTurns     \* bound on the answers to one grant

ASSUME GhlAssumption == MaxGrants \in Nat /\ MaxTurns \in Nat \ {0}

VARIABLES
    \* ghl_agency_connections: the one row, and whether its access token is about to expire
    conn, aged,
    \* the clients that have tags
    tagged,
    \* the provider: the last answer to each grant (0: not granted yet), the last of them
    \* with a refresh token, grants revoked, grants told of without their location
    turn, rotated, revoked, unlocated,
    \* each session: control point, clients still to do, the rows it loaded, the access token
    \* it has, and what else the answer holds
    phase, batch, loaded, token, given,
    \* history: grants whose last refresh token nobody received; whether the row was committed
    \* by a session that had loaded another token, since it was last connected or disconnected
    mislaid, outdated

providerVars == <<turn, rotated, revoked, unlocated>>
callVars     == <<phase, batch, loaded, token, given>>
ghlVars      == <<conn, aged, tagged, providerVars, callVars, mislaid, outdated>>

Grants  == 1 .. MaxGrants
NoToken == [grant |-> 0, turn |-> 0]
Tokens  == [grant : Grants, turn : 1 .. MaxTurns]

Outcomes == {"pending", "connected", "error", "needs_reauth", "disconnected"}

\* The location is the one picked with the grant of that number.
Connection == [status : Outcomes \cup {"none"}, location : 0 .. MaxGrants,
               access : Tokens \cup {NoToken}, refresh : Tokens \cup {NoToken}]

NotConnected == [status |-> "none", location |-> 0, access |-> NoToken, refresh |-> NoToken]

\* What a call has loaded, for which client, and whether it syncs leads or lists contacts.
Loaded == [conn : Connection, of : Accounts, leads : BOOLEAN]

\* Columns and local states have their types, and a session asks the provider with a token.
GhlTypeOK ==
    /\ conn     \in Connection
    /\ aged     \in BOOLEAN
    /\ tagged   \subseteq Accounts
    /\ turn     \in [Grants -> 0 .. MaxTurns]
    /\ rotated  \in [Grants -> 0 .. MaxTurns]
    /\ revoked  \subseteq Grants /\ mislaid \subseteq Grants /\ unlocated \subseteq Grants
    /\ given    \in [Callers -> SUBSET {"refresh", "location"}]
    /\ phase    \in [Callers -> {"idle", "next", "list", "refresh", "save", "fetch", "complete"}]
    /\ batch    \in [Callers -> SUBSET Accounts]
    /\ outdated \in BOOLEAN
    /\ \A s \in Callers :
          /\ phase[s] \in {"refresh", "save", "fetch"} => loaded[s] \in Loaded
          /\ phase[s] \in {"save", "fetch", "complete"} => token[s] \in Tokens

GhlInit ==
    /\ conn = NotConnected /\ aged = FALSE
    /\ tagged   = {}
    /\ turn     = [g \in Grants |-> 0] /\ rotated = turn
    /\ revoked  = {} /\ mislaid = {} /\ unlocated = {}
    /\ phase    = [s \in Callers |-> "idle"]
    /\ batch    = [s \in Callers |-> {}]
    /\ loaded   = [s \in Callers |-> <<>>]
    /\ token    = [s \in Callers |-> NoToken]
    /\ given    = [s \in Callers |-> {}]
    /\ outdated = FALSE

\* The session goes on with these clients; none, and it ends.
Proceed(s, accounts, point) ==
    /\ phase'  = [phase  EXCEPT ![s] = IF accounts = {} THEN "idle" ELSE point]
    /\ batch'  = [batch  EXCEPT ![s] = accounts]
    /\ loaded' = [loaded EXCEPT ![s] = <<>>]
    /\ token'  = [token  EXCEPT ![s] = NoToken]
    /\ given'  = [given  EXCEPT ![s] = {}]

-----------------------------------------------------------------------------
(* Admins *)

GhlOauthStart ==
    /\ conn.status # "pending"
    /\ conn' = [conn EXCEPT !.status = "pending"]
    /\ UNCHANGED <<aged, tagged, providerVars, callVars, mislaid, outdated>>

\* The admin has consented; the provider takes the code.
Exchange(s) ==
    /\ phase[s] = "idle" /\ conn.status # "none"
    /\ \E g \in Grants, answer \in SUBSET {"refresh", "location"} :
          /\ \A h \in Grants : turn[h] = 0 <=> h >= g
          /\ turn'      = [turn EXCEPT ![g] = 1]
          /\ rotated'   = IF "refresh" \in answer THEN [rotated EXCEPT ![g] = 1] ELSE rotated
          /\ unlocated' = IF "location" \in answer THEN unlocated ELSE unlocated \cup {g}
          /\ token'     = [token EXCEPT ![s] = [grant |-> g, turn |-> 1]]
          /\ given'     = [given EXCEPT ![s] = answer]
    /\ phase' = [phase EXCEPT ![s] = "complete"]
    /\ UNCHANGED <<conn, aged, tagged, revoked, batch, loaded, mislaid, outdated>>

GrantedHere(t, answer) ==
    [status |-> "connected", access |-> t,
     refresh  |-> IF "refresh" \in answer THEN t ELSE NoToken,
     location |-> IF conn.location = 0 THEN t.grant ELSE conn.location]

\* Without a refresh token none is kept; without locationId the location stays as it was.
Granted(t, answer) ==
    [status |-> "connected", access |-> t,
     refresh  |-> IF "refresh"  \in answer THEN t ELSE NoToken,
     location |-> IF "location" \in answer THEN t.grant ELSE conn.location]

\* ghl_oauth_complete loads the row after the exchange, and goes on to sync everybody.
GhlOauthComplete(s) ==
    /\ phase[s] = "complete"
    /\ conn' = Granted(token[s], given[s])
    /\ aged' = FALSE
    /\ outdated' = FALSE
    /\ Proceed(s, tagged, "next")
    /\ UNCHANGED <<tagged, providerVars, mislaid>>

Cleared == [conn EXCEPT !.status = "disconnected", !.access = NoToken, !.refresh = NoToken]

\* The provider is not told.
GhlDisconnect ==
    /\ conn.status \notin {"none", "disconnected"}
    /\ conn' = Cleared
    /\ aged' = FALSE
    /\ outdated' = FALSE
    /\ UNCHANGED <<tagged, providerVars, callVars, mislaid>>

-----------------------------------------------------------------------------
(* Clients *)

\* The first sync follows at once, whatever the status of the row.
SetGhlTags(s, c) ==
    /\ phase[s] = "idle"
    /\ tagged' = tagged \cup {c}
    /\ Proceed(s, IF conn.status = "none" THEN {} ELSE {c}, "next")
    /\ UNCHANGED <<conn, aged, providerVars, mislaid, outdated>>

\* The sweep and POST .../ghl/sync; GET .../ghl/contacts.
BeginCall(s, c) ==
    /\ phase[s] = "idle" /\ c \in tagged
    /\ \E point \in {"next", "list"} : Proceed(s, {c}, point)
    /\ UNCHANGED <<conn, aged, tagged, providerVars, mislaid, outdated>>

\* Whatever the status says, a stored token is used.
Usable == conn.status # "none" /\ conn.access # NoToken

LoadConnection(s, c) ==
    /\ phase[s] \in {"next", "list"} /\ c \in batch[s] /\ Usable
    /\ loaded' = [loaded EXCEPT ![s] = [conn |-> conn, of |-> c, leads |-> phase[s] = "next"]]
    /\ IF aged /\ conn.refresh # NoToken
          THEN phase' = [phase EXCEPT ![s] = "refresh"] /\ UNCHANGED token
          ELSE phase' = [phase EXCEPT ![s] = "fetch"]
               /\ token' = [token EXCEPT ![s] = conn.access]
    /\ UNCHANGED <<conn, aged, tagged, providerVars, batch, given, mislaid, outdated>>

NotUsableRecorded(s, c) ==
    /\ phase[s] \in {"next", "list"} /\ c \in batch[s] /\ ~Usable
    /\ conn' = IF conn.status = "none" THEN conn ELSE [conn EXCEPT !.status = "error"]
    /\ Proceed(s, batch[s] \ {c}, "next")
    /\ UNCHANGED <<aged, tagged, providerVars, mislaid, outdated>>

\* The request is refused before anything is tried, and nothing is recorded.
NotUsable(s, c) ==
    /\ phase[s] \in {"next", "list"} /\ c \in batch[s] /\ ~Usable
    /\ Proceed(s, batch[s] \ {c}, "next")
    /\ UNCHANGED <<conn, aged, tagged, providerVars, mislaid, outdated>>

-----------------------------------------------------------------------------
(* Commits of a call *)

Merged(new, was, row) == [f \in DOMAIN row |-> IF new[f] # was[f] THEN new[f] ELSE row[f]]

\* The row carries a token this session never saw.
Overtaken(s) == conn.access # loaded[s].conn.access

\* The outcome of a call goes to the shared row, but for a listing that went well; then
\* the next client.
Settle(s, status) ==
    LET l == loaded[s]
        shared == IF status = "connected" /\ ~l.leads THEN l.conn.status ELSE status IN
    /\ conn'     = Merged([l.conn EXCEPT !.status = shared], l.conn, conn)
    /\ outdated' = (outdated \/ (shared # l.conn.status /\ Overtaken(s)))
    /\ Proceed(s, batch[s] \ {l.of}, "next")
    /\ UNCHANGED <<aged, tagged, revoked, unlocated>>

-----------------------------------------------------------------------------
(* _ghl_agency_access_token *)

Honoured(t) == t.grant \notin revoked /\ t.turn = rotated[t.grant]

\* The provider answers a refresh, as a rule with the next refresh token.
Answer(g, answer) ==
    /\ turn[g] < MaxTurns
    /\ turn'    = [turn EXCEPT ![g] = @ + 1]
    /\ rotated' = IF "refresh" \in answer THEN [rotated EXCEPT ![g] = turn[g] + 1] ELSE rotated

Refresh(s) ==
    LET t == loaded[s].conn.refresh IN
    /\ phase[s] = "refresh" /\ Honoured(t)
    /\ \E answer \in SUBSET {"refresh"} :
          /\ Answer(t.grant, answer)
          /\ given' = [given EXCEPT ![s] = answer]
    /\ phase' = [phase EXCEPT ![s] = "save"]
    /\ token' = [token EXCEPT ![s] = [t EXCEPT !.turn = turn[t.grant] + 1]]
    /\ UNCHANGED <<conn, aged, tagged, revoked, unlocated, batch, loaded, mislaid, outdated>>

\* invalid_grant.
RefreshRefused(s) ==
    /\ phase[s] = "refresh" /\ ~Honoured(loaded[s].conn.refresh)
    /\ Settle(s, "needs_reauth")
    /\ UNCHANGED <<turn, rotated, mislaid>>

\* The provider is not reached, or its answer never arrives.
RefreshFails(s) ==
    LET t == loaded[s].conn.refresh IN
    /\ phase[s] = "refresh"
    /\ Settle(s, "error")
    /\ \/ UNCHANGED <<turn, rotated, mislaid>>
       \/ Honoured(t) /\ Answer(t.grant, {"refresh"}) /\ mislaid' = mislaid \cup {t.grant}

\* An answer without a token: the stored one is used.
RefreshEmpty(s) ==
    /\ phase[s] = "refresh"
    /\ phase' = [phase EXCEPT ![s] = "fetch"]
    /\ token' = [token EXCEPT ![s] = loaded[s].conn.access]
    /\ UNCHANGED <<conn, aged, tagged, providerVars, batch, loaded, given, mislaid, outdated>>

RefreshedAccessOnly(was, t, answer) == [was EXCEPT !.access = t]

\* Without a new refresh token the stored one stays.
Refreshed(was, t, answer) ==
    [was EXCEPT !.access = t, !.refresh = IF "refresh" \in answer THEN t ELSE @]

\* The commit expires what the session had loaded; the search reads the rows again.
SaveTokens(s) ==
    /\ phase[s] = "save"
    /\ LET l == loaded[s]
           row == Merged(Refreshed(l.conn, token[s], given[s]), l.conn, conn) IN
          /\ conn'   = row
          /\ loaded' = [loaded EXCEPT ![s] = [l EXCEPT !.conn = row]]
    /\ aged'     = FALSE
    /\ outdated' = (outdated \/ Overtaken(s))
    /\ phase'    = [phase EXCEPT ![s] = "fetch"]
    /\ given'    = [given EXCEPT ![s] = {}]
    /\ UNCHANGED <<tagged, providerVars, batch, token, mislaid>>

-----------------------------------------------------------------------------
(* The search *)

FetchOk(s) ==
    /\ phase[s] = "fetch" /\ token[s].grant \notin revoked
    /\ Settle(s, "connected")
    /\ UNCHANGED <<turn, rotated, mislaid>>

\* A 401 or 403, for a token that is revoked, expired or not the last.
FetchRefused(s) ==
    /\ phase[s] = "fetch"
    /\ aged \/ token[s].grant \in revoked \/ token[s].turn # turn[token[s].grant]
    /\ Settle(s, "needs_reauth")
    /\ UNCHANGED <<turn, rotated, mislaid>>

FetchFails(s) ==
    /\ phase[s] = "fetch"
    /\ Settle(s, "error")
    /\ UNCHANGED <<turn, rotated, mislaid>>

-----------------------------------------------------------------------------
(* Time, the provider's side, and crashes *)

TokenAges ==
    /\ conn.access # NoToken /\ ~aged
    /\ aged' = TRUE
    /\ UNCHANGED <<conn, tagged, providerVars, callVars, mislaid, outdated>>

Revoke(g) ==
    /\ turn[g] > 0 /\ g \notin revoked
    /\ revoked' = revoked \cup {g}
    /\ UNCHANGED <<conn, aged, tagged, turn, rotated, unlocated, callVars, mislaid, outdated>>

CallerDies(s) ==
    /\ phase[s] # "idle"
    /\ mislaid' = IF phase[s] = "save" /\ "refresh" \in given[s] THEN mislaid \cup {token[s].grant} ELSE mislaid
    /\ Proceed(s, {}, "idle")
    /\ UNCHANGED <<conn, aged, tagged, providerVars, outdated>>

-----------------------------------------------------------------------------

GhlNext ==
    \/ GhlOauthStart \/ GhlDisconnect \/ TokenAges
    \/ \E s \in Callers :
          \/ Exchange(s) \/ GhlOauthComplete(s)
          \/ Refresh(s) \/ RefreshRefused(s) \/ RefreshFails(s)
          \/ RefreshEmpty(s) \/ SaveTokens(s)
          \/ FetchOk(s) \/ FetchRefused(s) \/ FetchFails(s)
          \/ CallerDies(s)
    \/ \E s \in Callers, c \in Accounts :
          \/ SetGhlTags(s, c) \/ BeginCall(s, c) \/ LoadConnection(s, c) \/ NotUsable(s, c)
    \/ \E g \in Grants : Revoke(g)

GhlSpec == GhlInit /\ [][GhlNext]_ghlVars

-----------------------------------------------------------------------------
(* Properties *)

\* GHL rotates the refresh token on every use, and callers must persist the one returned
\* (integrations/ghl/oauth.py:93-94): the stored one is the last of its grant, unless a
\* session is about to store its successor, the grant was revoked, or one was issued and
\* nobody got it.
RefreshTokenIsLast ==
    LET t == conn.refresh IN
    \/ t = NoToken \/ Honoured(t)
    \/ t.grant \in revoked \cup mislaid
    \/ \E s \in Callers : phase[s] = "save" /\ "refresh" \in given[s] /\ token[s].grant = t.grant

\* Contacts are searched in the location the token was granted for, across reconnections
\* and refreshes, wherever the provider has told it, with a refresh token of the same grant
\* or none; and a disconnected connection keeps no token to sync with (the clearing in
\* ghl_disconnect), unless a call stored what it had begun before the admin did.
ConnectionIsCoherent ==
    \/ outdated
    \/ conn.access = NoToken /\ conn.refresh = NoToken
    \/ /\ conn.status # "disconnected"
       /\ conn.access.grant \in unlocated \cup {conn.location}
       /\ conn.refresh # NoToken => conn.refresh.grant = conn.access.grant

\* Only an admin leads a connection out of disconnected; a sync does so only if it had
\* loaded the tokens before.
StaysDisconnected ==
    [][conn.status = "disconnected" /\ conn'.status \notin {"disconnected", "pending"}
       => outdated' \/ \E s \in Callers : phase[s] = "complete"]_ghlVars

\* models/ghl_agency_connection.py:9-13: one row, refreshed in one place, makes a refresh
\* that fails with invalid_grant because another one has rotated the token structurally
\* impossible.  Two calls that load the row before either stores its pair do collide.
NoRefreshCollides ==
    [][\A s \in Callers : RefreshRefused(s) => loaded[s].conn.refresh.grant \in revoked \cup mislaid]_ghlVars
=============================================================================

-------------------------- MODULE ConnectionProofs --------------------------
(***************************************************************************)
(* Proofs about the connections to providers, for any number of sessions,  *)
(* grants and rotations: the agency's GoHighLevel connection and a         *)
(* client's OAuth connector.                                               *)
(***************************************************************************)
EXTENDS GhlConnection, Integrations, TLAPS

USE GhlAssumption, IntegrationsAssumption

-----------------------------------------------------------------------------
(* The agency's connection: what its sessions hold *)

\* The sessions that hold an answer nobody has stored yet, those whose answer has a new
\* refresh token, and those that hold the row.
Holding  == {s \in Callers : phase[s] \in {"save", "complete"}}
Renewing == {s \in Holding : "refresh" \in given[s]}
Loading  == {s \in Callers : phase[s] \in {"refresh", "save", "fetch"}}

\* A session that holds the row found a token in it, and one that refreshes or stores a
\* pair found one to refresh with.
HoldsTokens ==
    /\ loaded \in [Callers -> Loaded \cup {<<>>}]
    /\ token  \in [Callers -> Tokens \cup {NoToken}]
    /\ \A s \in Loading : loaded[s].conn.access \in Tokens
    /\ \A s \in Loading : phase[s] # "fetch" => loaded[s].conn.refresh \in Tokens

Issued(t) == t = NoToken \/ t.turn <= turn[t.grant]

\* Nobody holds a token that was not issued.
IssuedInv ==
    /\ Issued(conn.access) /\ Issued(conn.refresh)
    /\ \A s \in Callers : Issued(token[s])
    /\ \A s \in Loading : Issued(loaded[s].conn.access) /\ Issued(loaded[s].conn.refresh)

\* Nobody but its holder has seen the token.
Fresh(t) ==
    /\ conn.access # t /\ conn.refresh # t
    /\ \A s \in Loading : loaded[s].conn.access # t /\ loaded[s].conn.refresh # t

\* An answer about to be stored is new to the row and to whoever loaded it, no two sessions
\* hold the same, and a refresh stays in its grant; a new refresh token is the last of its
\* grant, and a grant without its location is known for one.
HeldInv ==
    /\ \A g \in Grants : rotated[g] <= turn[g]
    /\ \A s \in Holding : Fresh(token[s])
    /\ \A s, r \in Holding : token[s] = token[r] => s = r
    /\ \A s \in Renewing : token[s].turn = rotated[token[s].grant]
    /\ \A s \in Holding : phase[s] = "save" => token[s].grant = loaded[s].conn.refresh.grant
    /\ \A s \in Holding : phase[s] = "complete" => "location" \in given[s] \/ token[s].grant \in unlocated

\* While the row still has the access token a session loaded, what the session refreshes
\* is of the grant of that token.
LoadedInv ==
    \A s \in Loading :
        \/ outdated \/ conn.access # loaded[s].conn.access
        \/ phase[s] # "fetch" => loaded[s].conn.refresh.grant = conn.access.grant

GhlTyped == GhlTypeOK /\ HoldsTokens
PairsInv == IssuedInv /\ HeldInv /\ LoadedInv

Columns(row, status, location, access, refresh) ==
    /\ row.status = status /\ row.location = location
    /\ row.access = access /\ row.refresh = refresh

-----------------------------------------------------------------------------
(* Commits *)

\* A commit keeps the types and writes each column that differs from the one loaded.
LEMMA MergedColumns ==
    ASSUME NEW new \in Connection, NEW was \in Connection, NEW row \in Connection
    PROVE  /\ Merged(new, was, row) \in Connection
           /\ Columns(Merged(new, was, row),
                      IF new.status   # was.status   THEN new.status   ELSE row.status,
                      IF new.location # was.location THEN new.location ELSE row.location,
                      IF new.access   # was.access   THEN new.access   ELSE row.access,
                      IF new.refresh  # was.refresh  THEN new.refresh  ELSE row.refresh)
<1>1. DOMAIN row = {"status", "location", "access", "refresh"}
  BY DEF Connection
<1>2. Merged(new, was, row) =
        [status   |-> IF new.status   # was.status   THEN new.status   ELSE row.status,
         location |-> IF new.location # was.location THEN new.location ELSE row.location,
         access   |-> IF new.access   # was.access   THEN new.access   ELSE row.access,
         refresh  |-> IF new.refresh  # was.refresh  THEN new.refresh  ELSE row.refresh]
  BY <1>1 DEF Merged
<1> QED
  BY <1>2 DEF Connection, Columns

\* A session that goes on to its next client, or ends, holds nothing.
LEMMA Proceeds ==
    ASSUME GhlTyped, NEW s \in Callers, NEW accounts \in SUBSET Accounts,
           NEW point \in {"next", "list", "idle"}, Proceed(s, accounts, point)
    PROVE  /\ phase' \in [Callers -> {"idle", "next", "list", "refresh", "save", "fetch", "complete"}]
           /\ batch' \in [Callers -> SUBSET Accounts]
           /\ loaded' \in [Callers -> Loaded \cup {<<>>}]
           /\ token' \in [Callers -> Tokens \cup {NoToken}]
           /\ given' \in [Callers -> SUBSET {"refresh", "location"}]
           /\ phase'[s] \in {"next", "list", "idle"} /\ token'[s] = NoToken
           /\ \A r \in Callers \ {s} : /\ phase'[r] = phase[r] /\ loaded'[r] = loaded[r]
                                       /\ token'[r] = token[r] /\ given'[r] = given[r]
BY DEF GhlTyped, GhlTypeOK, HoldsTokens, Proceed

\* The outcome of a call is a status, written over another one only by a session that
\* loaded the token of the row, or the row is outdated.
LEMMA Settles ==
    ASSUME GhlTyped, NEW s \in Loading, NEW status \in {"connected", "error", "needs_reauth"},
           Settle(s, status)
    PROVE  /\ conn' \in Connection
           /\ Columns(conn', conn'.status, conn.location, conn.access, conn.refresh)
           /\ conn'.status # conn.status =>
                 conn'.status = status /\ (outdated' \/ conn.access = loaded[s].conn.access)
           /\ outdated' \in BOOLEAN /\ (outdated => outdated')
           /\ batch[s] \ {loaded[s].of} \in SUBSET Accounts
           /\ Proceed(s, batch[s] \ {loaded[s].of}, "next")
           /\ UNCHANGED <<aged, tagged, revoked, unlocated>>
<1> DEFINE l == loaded[s]
           shared == IF status = "connected" /\ ~l.leads THEN l.conn.status ELSE status
           new == [l.conn EXCEPT !.status = shared]
<1>1. s \in Callers /\ l \in Loaded /\ conn \in Connection
  BY DEF Loading, GhlTyped, GhlTypeOK
<1>2. l.conn \in Connection
  BY <1>1 DEF Loaded
<1>3. shared \in Outcomes \cup {"none"}
  BY <1>2 DEF Connection, Outcomes
<1>4. new \in Connection /\ Columns(new, shared, l.conn.location, l.conn.access, l.conn.refresh)
  BY <1>2, <1>3 DEF Connection, Columns
<1>5. /\ conn' = Merged(new, l.conn, conn)
      /\ outdated' = (outdated \/ (shared # l.conn.status /\ Overtaken(s)))
      /\ Proceed(s, batch[s] \ {l.of}, "next")
      /\ UNCHANGED <<aged, tagged, revoked, unlocated>>
  BY DEF Settle
<1>6. batch[s] \in SUBSET Accounts
  BY <1>1 DEF GhlTyped, GhlTypeOK
<1>7. outdated \in BOOLEAN
  BY DEF GhlTyped, GhlTypeOK
<1>8. shared = l.conn.status \/ shared = status
  OBVIOUS
<1> HIDE DEF new, shared
<1>9. /\ conn' \in Connection
      /\ Columns(conn', IF shared # l.conn.status THEN shared ELSE conn.status,
                 conn.location, conn.access, conn.refresh)
  BY <1>1, <1>2, <1>4, <1>5, MergedColumns DEF Columns
<1> QED
  BY <1>1, <1>5, <1>6, <1>7, <1>8, <1>9 DEF Columns, Overtaken

-----------------------------------------------------------------------------
(* Types *)

LEMMA GhlInitType == GhlInit => GhlTyped
<1> SUFFICES ASSUME GhlInit PROVE GhlTyped
  OBVIOUS
<1>1. conn \in Connection /\ aged \in BOOLEAN /\ outdated \in BOOLEAN
  <2>1. conn = [status |-> "none", location |-> 0, access |-> NoToken, refresh |-> NoToken]
    BY DEF GhlInit, NotConnected
  <2>2. 0 \in 0 .. MaxGrants
    OBVIOUS
  <2>3. conn \in Connection
    BY <2>1, <2>2 DEF Connection
  <2>4. aged = FALSE /\ outdated = FALSE
    BY DEF GhlInit
  <2> QED
    BY <2>3, <2>4
<1>2. /\ turn \in [Grants -> 0 .. MaxTurns] /\ rotated = turn /\ unlocated = {}
      /\ given = [s \in Callers |-> {}]
      /\ phase = [s \in Callers |-> "idle"] /\ batch = [s \in Callers |-> {}]
      /\ loaded = [s \in Callers |-> <<>>] /\ token = [s \in Callers |-> NoToken]
      /\ tagged = {} /\ revoked = {} /\ mislaid = {}
  BY DEF GhlInit
<1> QED
  BY <1>1, <1>2 DEF GhlTyped, GhlTypeOK, HoldsTokens, Loading

\* What concerns one session, for the others, holds if they did not move.
LEMMA OthersTyped ==
    ASSUME GhlTyped, NEW s \in Callers,
           phase' \in [Callers -> {"idle", "next", "list", "refresh", "save", "fetch", "complete"}],
           loaded' \in [Callers -> Loaded \cup {<<>>}],
           token' \in [Callers -> Tokens \cup {NoToken}],
           \A r \in Callers \ {s} : /\ phase'[r] = phase[r] /\ loaded'[r] = loaded[r]
                                    /\ token'[r] = token[r],
           phase'[s] \in {"refresh", "save", "fetch"} =>
                 loaded'[s] \in Loaded /\ loaded'[s].conn.access \in Tokens,
           phase'[s] \in {"refresh", "save"} => loaded'[s].conn.refresh \in Tokens,
           phase'[s] \in {"save", "fetch", "complete"} => token'[s] \in Tokens,
           conn' \in Connection, aged' \in BOOLEAN, tagged' \subseteq Accounts,
           turn' \in [Grants -> 0 .. MaxTurns], rotated' \in [Grants -> 0 .. MaxTurns],
           revoked' \subseteq Grants, mislaid' \subseteq Grants, unlocated' \subseteq Grants,
           given' \in [Callers -> SUBSET {"refresh", "location"}],
           batch' \in [Callers -> SUBSET Accounts], outdated' \in BOOLEAN
    PROVE  GhlTyped'
<1>1. HoldsTokens'
  BY DEF GhlTyped, HoldsTokens, Loading
<1>2. GhlTypeOK'
  BY DEF GhlTyped, GhlTypeOK
<1> QED
  BY <1>1, <1>2 DEF GhlTyped

\* A step that leaves the sessions alone.
LEMMA RowTyped ==
    ASSUME GhlTyped, UNCHANGED <<phase, loaded, token, given, batch, turn, rotated, unlocated>>, conn' \in Connection,
           aged' \in BOOLEAN, outdated' \in BOOLEAN, tagged' = tagged, mislaid' = mislaid,
           revoked' \subseteq Grants
    PROVE  GhlTyped'
BY DEF GhlTyped, GhlTypeOK, HoldsTokens, Loading

\* A commit of an outcome, by a session whose call is over.
LEMMA SettleTyped ==
    ASSUME GhlTyped, NEW s \in Loading, NEW status \in {"connected", "error", "needs_reauth"},
           Settle(s, status), turn' \in [Grants -> 0 .. MaxTurns],
           rotated' \in [Grants -> 0 .. MaxTurns], mislaid' \subseteq Grants
    PROVE  GhlTyped'
<1> DEFINE accounts == batch[s] \ {loaded[s].of}
<1>1. /\ conn' \in Connection /\ outdated' \in BOOLEAN /\ accounts \in SUBSET Accounts
      /\ Proceed(s, accounts, "next") /\ UNCHANGED <<aged, tagged, revoked, unlocated>>
  BY Settles
<1> HIDE DEF accounts
<1>2. s \in Callers
  BY DEF Loading
<1>3. /\ aged \in BOOLEAN /\ tagged \subseteq Accounts /\ revoked \subseteq Grants
      /\ unlocated \subseteq Grants
  BY DEF GhlTyped, GhlTypeOK
<1>4. /\ phase' \in [Callers -> {"idle", "next", "list", "refresh", "save", "fetch", "complete"}]
      /\ batch' \in [Callers -> SUBSET Accounts]
      /\ loaded' \in [Callers -> Loaded \cup {<<>>}]
      /\ token' \in [Callers -> Tokens \cup {NoToken}]
      /\ given' \in [Callers -> SUBSET {"refresh", "location"}]
      /\ phase'[s] \in {"next", "list", "idle"}
      /\ \A r \in Callers \ {s} : /\ phase'[r] = phase[r] /\ loaded'[r] = loaded[r]
                                  /\ token'[r] = token[r]
  BY <1>1, <1>2, Proceeds
<1> QED
  BY <1>1, <1>2, <1>3, <1>4, OthersTyped

\* The next answer to a grant whose refresh token is honoured.
LEMMA Answers ==
    ASSUME GhlTyped, HeldInv, NEW t \in Tokens, NEW answer \in SUBSET {"refresh", "location"},
           Honoured(t), Answer(t.grant, answer)
    PROVE  /\ t.grant \in Grants /\ t.turn = rotated[t.grant] /\ t.turn \in Nat
           /\ turn' \in [Grants -> 0 .. MaxTurns] /\ rotated' \in [Grants -> 0 .. MaxTurns]
           /\ turn'[t.grant] = turn[t.grant] + 1
           /\ rotated'[t.grant] = IF "refresh" \in answer THEN turn[t.grant] + 1 ELSE rotated[t.grant]
           /\ \A g \in Grants \ {t.grant} : turn'[g] = turn[g] /\ rotated'[g] = rotated[g]
           /\ \A g \in Grants : turn[g] <= turn'[g] /\ rotated'[g] <= turn'[g]
           /\ [t EXCEPT !.turn = turn[t.grant] + 1] = [grant |-> t.grant, turn |-> turn[t.grant] + 1]
           /\ [t EXCEPT !.turn = turn[t.grant] + 1] \in Tokens
<1>1. t = [grant |-> t.grant, turn |-> t.turn] /\ t.grant \in Grants /\ t.turn \in 1 .. MaxTurns
  BY DEF Tokens
<1>2. /\ turn \in [Grants -> 0 .. MaxTurns] /\ rotated \in [Grants -> 0 .. MaxTurns]
      /\ turn[t.grant] < MaxTurns /\ \A g \in Grants : rotated[g] <= turn[g]
  BY DEF GhlTyped, GhlTypeOK, Answer, HeldInv
<1>3. /\ turn' = [turn EXCEPT ![t.grant] = @ + 1] /\ t.turn = rotated[t.grant]
      /\ rotated' = IF "refresh" \in answer THEN [rotated EXCEPT ![t.grant] = turn[t.grant] + 1] ELSE rotated
  BY DEF Answer, Honoured
<1>4. [t EXCEPT !.turn = turn[t.grant] + 1] = [grant |-> t.grant, turn |-> turn[t.grant] + 1]
  BY <1>1
<1>5. turn[t.grant] + 1 \in 1 .. MaxTurns
  BY <1>1, <1>2
<1>6. [grant |-> t.grant, turn |-> turn[t.grant] + 1] \in Tokens
  BY <1>1, <1>5 DEF Tokens
<1>7. /\ turn' \in [Grants -> 0 .. MaxTurns] /\ turn'[t.grant] = turn[t.grant] + 1
      /\ \A g \in Grants \ {t.grant} : turn'[g] = turn[g]
  BY <1>1, <1>2, <1>3, <1>5
<1>8. /\ rotated' \in [Grants -> 0 .. MaxTurns]
      /\ rotated'[t.grant] = IF "refresh" \in answer THEN turn[t.grant] + 1 ELSE rotated[t.grant]
      /\ \A g \in Grants \ {t.grant} : rotated'[g] = rotated[g]
  BY <1>1, <1>2, <1>3, <1>5
<1>9. ASSUME NEW g \in Grants PROVE turn[g] <= turn'[g] /\ rotated'[g] <= turn'[g]
  <2>1. turn[g] \in Nat /\ rotated[g] \in Nat /\ rotated[g] <= turn[g]
    BY <1>2
  <2>2. CASE g = t.grant
    BY <1>7, <1>8, <2>1, <2>2
  <2>3. CASE g # t.grant
    BY <1>7, <1>8, <2>1, <2>3
  <2> QED
    BY <2>2, <2>3
<1> QED
  BY <1>1, <1>3, <1>4, <1>6, <1>7, <1>8, <1>9

LEMMA GhlNextType == GhlTyped /\ HeldInv /\ [GhlNext]_ghlVars => GhlTyped'
<1> SUFFICES ASSUME GhlTyped, HeldInv, [GhlNext]_ghlVars PROVE GhlTyped'
  OBVIOUS
<1> DEFINE Points == {"idle", "next", "list", "refresh", "save", "fetch", "complete"}
<1>0. /\ conn \in Connection /\ aged \in BOOLEAN /\ outdated \in BOOLEAN
      /\ tagged \subseteq Accounts /\ revoked \subseteq Grants /\ mislaid \subseteq Grants
      /\ turn \in [Grants -> 0 .. MaxTurns] /\ rotated \in [Grants -> 0 .. MaxTurns]
      /\ unlocated \subseteq Grants /\ given \in [Callers -> SUBSET {"refresh", "location"}]
      /\ phase \in [Callers -> Points] /\ batch \in [Callers -> SUBSET Accounts]
      /\ loaded \in [Callers -> Loaded \cup {<<>>}] /\ token \in [Callers -> Tokens \cup {NoToken}]
  BY DEF GhlTyped, GhlTypeOK, HoldsTokens
<1>00. ASSUME NEW s \in Loading
       PROVE  /\ s \in Callers /\ loaded[s] \in Loaded /\ loaded[s].conn \in Connection
              /\ loaded[s].conn.access \in Tokens
              /\ phase[s] # "fetch" => loaded[s].conn.refresh \in Tokens
  BY DEF GhlTyped, GhlTypeOK, HoldsTokens, Loading, Loaded
<1>1. ASSUME GhlOauthStart \/ GhlDisconnect \/ TokenAges PROVE GhlTyped'
  <2>1. conn' \in Connection
    <3>1. CASE GhlOauthStart
      BY <1>0, <3>1 DEF GhlOauthStart, Connection, Outcomes
    <3>2. CASE GhlDisconnect
      BY <1>0, <3>2 DEF GhlDisconnect, Cleared, Connection, Outcomes
    <3>3. CASE TokenAges
      BY <1>0, <3>3 DEF TokenAges
    <3> QED
      BY <1>1, <3>1, <3>2, <3>3
  <2> QED
    BY <1>0, <1>1, <2>1, RowTyped DEF GhlOauthStart, GhlDisconnect, TokenAges, callVars, providerVars
<1>2. ASSUME NEW s \in Callers, Exchange(s) PROVE GhlTyped'
  <2>1. PICK g \in Grants, answer \in SUBSET {"refresh", "location"} :
              /\ turn' = [turn EXCEPT ![g] = 1]
              /\ rotated' = IF "refresh" \in answer THEN [rotated EXCEPT ![g] = 1] ELSE rotated
              /\ unlocated' = IF "location" \in answer THEN unlocated ELSE unlocated \cup {g}
              /\ token' = [token EXCEPT ![s] = [grant |-> g, turn |-> 1]]
              /\ given' = [given EXCEPT ![s] = answer]
    BY <1>2 DEF Exchange
  <2>2. [grant |-> g, turn |-> 1] \in Tokens
    BY DEF Tokens
  <2>3. /\ phase' = [phase EXCEPT ![s] = "complete"]
        /\ UNCHANGED <<conn, aged, tagged, revoked, batch, loaded, mislaid, outdated>>
    BY <1>2 DEF Exchange
  <2>4. /\ turn' \in [Grants -> 0 .. MaxTurns] /\ rotated' \in [Grants -> 0 .. MaxTurns]
        /\ unlocated' \subseteq Grants /\ given' \in [Callers -> SUBSET {"refresh", "location"}]
    BY <1>0, <2>1
  <2> QED
    BY <1>0, <2>1, <2>2, <2>3, <2>4, OthersTyped
<1>3. ASSUME NEW s \in Callers, GhlOauthComplete(s) PROVE GhlTyped'
  <2>1. /\ phase[s] = "complete" /\ conn' = Granted(token[s], given[s]) /\ aged' = FALSE
        /\ outdated' = FALSE /\ Proceed(s, tagged, "next")
        /\ UNCHANGED <<tagged, turn, rotated, revoked, unlocated, mislaid>>
    BY <1>3 DEF GhlOauthComplete, providerVars
  <2>2. token[s] \in Tokens
    BY <2>1 DEF GhlTyped, GhlTypeOK
  <2>3. conn' \in Connection
    BY <1>0, <2>1, <2>2 DEF Granted, Connection, Outcomes, Tokens, Grants
  <2> QED
    BY <1>0, <2>1, <2>3, Proceeds, OthersTyped
<1>4. ASSUME NEW s \in Callers, Refresh(s) PROVE GhlTyped'
  <2> DEFINE t == loaded[s].conn.refresh
  <2>1. /\ phase[s] = "refresh" /\ Honoured(t)
        /\ phase' = [phase EXCEPT ![s] = "save"]
        /\ token' = [token EXCEPT ![s] = [t EXCEPT !.turn = turn[t.grant] + 1]]
        /\ UNCHANGED <<conn, aged, tagged, revoked, unlocated, batch, loaded, mislaid, outdated>>
    BY <1>4 DEF Refresh
  <2>0. PICK answer \in SUBSET {"refresh"} : Answer(t.grant, answer) /\ given' = [given EXCEPT ![s] = answer]
    BY <1>4 DEF Refresh
  <2>2. s \in Loading
    BY <2>1 DEF Loading
  <2>3. t \in Tokens
    BY <1>00, <2>1, <2>2
  <2> HIDE DEF t
  <2>4. /\ turn' \in [Grants -> 0 .. MaxTurns] /\ rotated' \in [Grants -> 0 .. MaxTurns]
        /\ [t EXCEPT !.turn = turn[t.grant] + 1] \in Tokens
    BY <2>0, <2>1, <2>3, Answers
  <2>5. t \in Tokens => loaded[s].conn.refresh \in Tokens
    BY DEF t
  <2>6. given' \in [Callers -> SUBSET {"refresh", "location"}]
    BY <1>0, <2>0
  <2> QED
    <3>1. /\ phase' \in [Callers -> Points] /\ token' \in [Callers -> Tokens \cup {NoToken}]
          /\ phase'[s] = "save" /\ token'[s] \in Tokens /\ loaded'[s] = loaded[s]
          /\ \A r \in Callers \ {s} : /\ phase'[r] = phase[r] /\ loaded'[r] = loaded[r]
                                      /\ token'[r] = token[r]
      BY <1>0, <2>1, <2>4
    <3>2. loaded[s] \in Loaded /\ loaded[s].conn.access \in Tokens /\ loaded[s].conn.refresh \in Tokens
      BY <1>00, <2>1, <2>2
    <3> QED
      BY <1>0, <2>1, <2>4, <2>6, <3>1, <3>2, OthersTyped
<1>5. ASSUME NEW s \in Callers, RefreshRefused(s) \/ RefreshFails(s) PROVE GhlTyped'
  <2> DEFINE t == loaded[s].conn.refresh
  <2>1. /\ phase[s] = "refresh" /\ (Settle(s, "needs_reauth") \/ Settle(s, "error"))
        /\ \/ UNCHANGED <<turn, rotated, mislaid>>
           \/ Honoured(t) /\ Answer(t.grant, {"refresh"}) /\ mislaid' = mislaid \cup {t.grant}
    BY <1>5 DEF RefreshRefused, RefreshFails
  <2>2. s \in Loading
    BY <2>1 DEF Loading
  <2>3. t \in Tokens
    BY <1>00, <2>1, <2>2
  <2> HIDE DEF t
  <2>4. /\ turn' \in [Grants -> 0 .. MaxTurns] /\ rotated' \in [Grants -> 0 .. MaxTurns]
        /\ mislaid' \subseteq Grants
    <3>1. CASE UNCHANGED <<turn, rotated, mislaid>>
      BY <1>0, <3>1
    <3>2. CASE Honoured(t) /\ Answer(t.grant, {"refresh"}) /\ mislaid' = mislaid \cup {t.grant}
      <4>1. /\ turn' \in [Grants -> 0 .. MaxTurns] /\ rotated' \in [Grants -> 0 .. MaxTurns]
            /\ t.grant \in Grants
        BY <2>3, <3>2, Answers
      <4> QED
        BY <1>0, <3>2, <4>1
    <3> QED
      BY <2>1, <3>1, <3>2
  <2> QED
    BY <2>1, <2>2, <2>4, SettleTyped
<1>6. ASSUME NEW s \in Callers, RefreshEmpty(s) PROVE GhlTyped'
  <2>1. /\ phase[s] = "refresh" /\ phase' = [phase EXCEPT ![s] = "fetch"]
        /\ token' = [token EXCEPT ![s] = loaded[s].conn.access]
        /\ UNCHANGED <<conn, aged, tagged, turn, rotated, revoked, unlocated, batch, loaded, given,
                       mislaid, outdated>>
    BY <1>6 DEF RefreshEmpty, providerVars
  <2>2. s \in Loading
    BY <2>1 DEF Loading
  <2> QED
    BY <1>0, <1>00, <2>1, <2>2, OthersTyped
<1>7. ASSUME NEW s \in Callers, SaveTokens(s) PROVE GhlTyped'
  <2> DEFINE l == loaded[s]
             row == Merged(Refreshed(l.conn, token[s], given[s]), l.conn, conn)
  <2>1. /\ phase[s] = "save" /\ conn' = row /\ loaded' = [loaded EXCEPT ![s] = [l EXCEPT !.conn = row]]
        /\ aged' = FALSE /\ outdated' = (outdated \/ Overtaken(s))
        /\ phase' = [phase EXCEPT ![s] = "fetch"]
        /\ given' = [given EXCEPT ![s] = {}]
        /\ UNCHANGED <<tagged, turn, rotated, revoked, unlocated, batch, token, mislaid>>
    BY <1>7 DEF SaveTokens, providerVars
  <2>2. s \in Loading /\ token[s] \in Tokens
    BY <2>1 DEF Loading, GhlTyped, GhlTypeOK
  <2>3. l \in Loaded /\ l.conn \in Connection
    BY <1>00, <2>2
  <2>4. /\ Refreshed(l.conn, token[s], given[s]) \in Connection
        /\ Columns(Refreshed(l.conn, token[s], given[s]), l.conn.status, l.conn.location, token[s],
                   IF "refresh" \in given[s] THEN token[s] ELSE l.conn.refresh)
    BY <2>2, <2>3 DEF Refreshed, Connection, Columns
  <2>5. token[s] # l.conn.access /\ token[s] # l.conn.refresh
    BY <2>1, <2>2 DEF HeldInv, Holding, Loading, Fresh
  <2>6. /\ row \in Connection
        /\ Columns(row, conn.status, conn.location, token[s],
                   IF "refresh" \in given[s] THEN token[s] ELSE conn.refresh)
    BY <1>0, <2>3, <2>4, <2>5, MergedColumns DEF Columns
  <2> HIDE DEF row
  <2>7. [l EXCEPT !.conn = row] \in Loaded /\ [l EXCEPT !.conn = row].conn = row
    BY <2>3, <2>6 DEF Loaded
  <2>8. outdated' \in BOOLEAN /\ given' \in [Callers -> SUBSET {"refresh", "location"}]
    BY <1>0, <2>1
  <2> HIDE DEF l
  <2>9. loaded' \in [Callers -> Loaded \cup {<<>>}] /\ loaded'[s] \in Loaded /\ loaded'[s].conn = row
    BY <1>0, <2>1, <2>7
  <2> QED
    BY <1>0, <2>1, <2>2, <2>6, <2>8, <2>9, OthersTyped DEF Columns
<1>8. ASSUME NEW s \in Callers,
             FetchOk(s) \/ FetchRefused(s) \/ FetchFails(s)
      PROVE  GhlTyped'
  <2>1. /\ phase[s] = "fetch" /\ UNCHANGED <<turn, rotated, mislaid>>
        /\ Settle(s, "connected") \/ Settle(s, "needs_reauth") \/ Settle(s, "error")
    BY <1>8 DEF FetchOk, FetchRefused, FetchFails
  <2>2. s \in Loading
    BY <2>1 DEF Loading
  <2> QED
    BY <1>0, <2>1, <2>2, SettleTyped
<1>9. ASSUME NEW s \in Callers, CallerDies(s) PROVE GhlTyped'
  <2>1. /\ mislaid' = mislaid \/ (phase[s] = "save" /\ mislaid' = mislaid \cup {token[s].grant})
        /\ Proceed(s, {}, "idle")
        /\ UNCHANGED <<conn, aged, tagged, turn, rotated, revoked, unlocated, outdated>>
    BY <1>9 DEF CallerDies, providerVars
  <2>2. mislaid' \subseteq Grants
    <3>1. phase[s] = "save" => token[s].grant \in Grants
      BY DEF GhlTyped, GhlTypeOK, Tokens
    <3> QED
      BY <1>0, <2>1, <3>1
  <2>3. {} \in SUBSET Accounts /\ "idle" \in {"next", "list", "idle"}
    OBVIOUS
  <2>4. /\ phase' \in [Callers -> Points] /\ batch' \in [Callers -> SUBSET Accounts]
        /\ loaded' \in [Callers -> Loaded \cup {<<>>}] /\ token' \in [Callers -> Tokens \cup {NoToken}]
        /\ given' \in [Callers -> SUBSET {"refresh", "location"}]
        /\ phase'[s] \in {"next", "list", "idle"}
        /\ \A r \in Callers \ {s} : /\ phase'[r] = phase[r] /\ loaded'[r] = loaded[r]
                                    /\ token'[r] = token[r]
    BY <2>1, <2>3, Proceeds
  <2> QED
    BY <1>0, <2>1, <2>2, <2>4, OthersTyped
<1>10. ASSUME NEW s \in Callers, NEW c \in Accounts,
              SetGhlTags(s, c) \/ BeginCall(s, c) \/ NotUsable(s, c)
       PROVE  GhlTyped'
  <2>1. PICK accounts \in SUBSET Accounts, point \in {"next", "list"} : Proceed(s, accounts, point)
    BY <1>0, <1>10 DEF SetGhlTags, BeginCall, NotUsable
  <2>2. /\ tagged' \subseteq Accounts
        /\ UNCHANGED <<conn, aged, turn, rotated, revoked, unlocated, mislaid, outdated>>
    BY <1>0, <1>10 DEF SetGhlTags, BeginCall, NotUsable, providerVars
  <2>3. /\ phase' \in [Callers -> Points] /\ batch' \in [Callers -> SUBSET Accounts]
        /\ loaded' \in [Callers -> Loaded \cup {<<>>}] /\ token' \in [Callers -> Tokens \cup {NoToken}]
        /\ given' \in [Callers -> SUBSET {"refresh", "location"}]
        /\ phase'[s] \in {"next", "list", "idle"}
        /\ \A r \in Callers \ {s} : /\ phase'[r] = phase[r] /\ loaded'[r] = loaded[r]
                                    /\ token'[r] = token[r]
    BY <2>1, Proceeds
  <2> QED
    BY <1>0, <2>2, <2>3, OthersTyped
<1>11. ASSUME NEW s \in Callers, NEW c \in Accounts, LoadConnection(s, c) PROVE GhlTyped'
  <2> DEFINE l == [conn |-> conn, of |-> c, leads |-> phase[s] = "next"]
  <2>1. /\ loaded' = [loaded EXCEPT ![s] = l] /\ conn.access # NoToken
        /\ \/ /\ conn.refresh # NoToken
              /\ phase' = [phase EXCEPT ![s] = "refresh"] /\ UNCHANGED token
           \/ /\ phase' = [phase EXCEPT ![s] = "fetch"]
              /\ token' = [token EXCEPT ![s] = conn.access]
        /\ UNCHANGED <<conn, aged, tagged, turn, rotated, revoked, unlocated, batch, given, mislaid, outdated>>
    BY <1>11 DEF LoadConnection, Usable, providerVars
  <2>2. l \in Loaded /\ l.conn = conn
    BY <1>0 DEF Loaded
  <2>3. conn.access \in Tokens /\ (conn.refresh # NoToken => conn.refresh \in Tokens)
    BY <1>0, <2>1 DEF Connection
  <2> HIDE DEF l
  <2>4. /\ phase' \in [Callers -> Points] /\ loaded' \in [Callers -> Loaded \cup {<<>>}]
        /\ token' \in [Callers -> Tokens \cup {NoToken}] /\ loaded'[s] = l
        /\ phase'[s] \in {"refresh", "fetch"}
        /\ phase'[s] = "refresh" => conn.refresh # NoToken
        /\ phase'[s] = "fetch" => token'[s] \in Tokens
        /\ \A r \in Callers \ {s} : /\ phase'[r] = phase[r] /\ loaded'[r] = loaded[r]
                                    /\ token'[r] = token[r]
    BY <1>0, <2>1, <2>2, <2>3
  <2>5. /\ loaded'[s] \in Loaded /\ loaded'[s].conn.access \in Tokens
        /\ phase'[s] = "refresh" => loaded'[s].conn.refresh \in Tokens
    BY <2>2, <2>3, <2>4
  <2> QED
    BY <1>0, <2>1, <2>4, <2>5, OthersTyped
<1>12. ASSUME NEW g \in Grants, Revoke(g) PROVE GhlTyped'
  BY <1>0, <1>12, RowTyped DEF Revoke, callVars
<1>13. CASE UNCHANGED ghlVars
  BY <1>0, <1>13, RowTyped DEF ghlVars, callVars, providerVars
<1> QED
  BY <1>1, <1>2, <1>3, <1>4, <1>5, <1>6, <1>7, <1>8, <1>9, <1>10, <1>11, <1>12, <1>13 DEF GhlNext

-----------------------------------------------------------------------------
(* Token pairs *)

\* A step that only moves known tokens: the row keeps or loses them, and a session keeps
\* or leaves what it had, or loads the row.  A grant whose refresh token is rotated is one
\* that nobody is about to store a refresh token of.
LEMMA PairsStay ==
    ASSUME GhlTyped, PairsInv, ConnectionIsCoherent,
           conn'.access \in {conn.access, NoToken}, conn'.refresh \in {conn.refresh, NoToken},
           conn'.access # NoToken => (outdated => outdated'),
           \A g \in Grants : /\ turn[g] <= turn'[g] /\ rotated'[g] <= turn'[g]
                             /\ rotated'[g] # rotated[g] => \A r \in Renewing : token[r].grant # g,
           turn' \in [Grants -> 0 .. MaxTurns], unlocated \subseteq unlocated',
           \A r \in Holding' : r \in Holding /\ phase'[r] = phase[r] /\ token'[r] = token[r]
                               /\ loaded'[r] = loaded[r] /\ given'[r] = given[r],
           \A r \in Loading' : \/ /\ loaded'[r].conn = conn
                                  /\ conn' = conn /\ outdated' = outdated
                                  /\ conn.access # NoToken
                                  /\ phase'[r] = "fetch" \/ conn.refresh # NoToken
                               \/ /\ r \in Loading /\ loaded'[r] = loaded[r]
                                  /\ phase'[r] \in {phase[r], "fetch"},
           \A r \in Callers : \/ token'[r] \in {token[r], NoToken, conn.access}
                              \/ r \in Loading /\ token'[r] = loaded[r].conn.access
    PROVE  PairsInv'
<1>0. NoToken \notin Tokens
  BY DEF NoToken, Tokens, Grants
<1>1. /\ conn.access \in Tokens \cup {NoToken} /\ conn.refresh \in Tokens \cup {NoToken}
      /\ turn \in [Grants -> 0 .. MaxTurns]
  BY DEF GhlTyped, GhlTypeOK, Connection
<1>2. \A t \in Tokens : t.grant \in Grants /\ t.turn \in Nat
  BY DEF Tokens
<1>3. \A t \in Tokens \cup {NoToken} : Issued(t) => Issued(t)'
  <2> TAKE t \in Tokens \cup {NoToken}
  <2>1. CASE t \in Tokens
    <3>1. turn[t.grant] <= turn'[t.grant] /\ turn[t.grant] \in Nat /\ turn'[t.grant] \in Nat
      BY <1>1, <1>2, <2>1
    <3> QED
      BY <1>2, <2>1, <3>1 DEF Issued
  <2> QED
    BY <2>1 DEF Issued
<1>4. \A r \in Loading : /\ loaded[r].conn.access \in Tokens
                         /\ loaded[r].conn.refresh \in Tokens \cup {NoToken}
                         /\ r \in Callers /\ phase[r] \in {"refresh", "save", "fetch"}
  BY DEF GhlTyped, GhlTypeOK, HoldsTokens, Loading, Loaded, Connection
<1>5. \A r \in Holding : token[r] \in Tokens /\ r \in Callers
  BY DEF GhlTyped, GhlTypeOK, Holding
<1>6. IssuedInv'
  <2>1. Issued(conn.access)' /\ Issued(conn.refresh)'
    BY <1>1, <1>3 DEF PairsInv, IssuedInv, Issued
  <2>2. ASSUME NEW r \in Callers PROVE Issued(token[r])'
    <3>1. token[r] \in Tokens \cup {NoToken}
      BY DEF GhlTyped, HoldsTokens
    <3> QED
      BY <1>1, <1>3, <1>4, <3>1 DEF PairsInv, IssuedInv, Issued
  <2>3. ASSUME NEW r \in Loading' PROVE Issued(loaded[r].conn.access)' /\ Issued(loaded[r].conn.refresh)'
    <3>1. CASE loaded'[r].conn = conn
      BY <1>1, <1>3, <3>1 DEF PairsInv, IssuedInv, Issued
    <3>2. CASE r \in Loading /\ loaded'[r] = loaded[r]
      <4>1. /\ loaded[r].conn.access \in Tokens \cup {NoToken}
            /\ loaded[r].conn.refresh \in Tokens \cup {NoToken}
        BY <1>4, <3>2
      <4>2. Issued(loaded[r].conn.access) /\ Issued(loaded[r].conn.refresh)
        BY <3>2 DEF PairsInv, IssuedInv
      <4> QED
        BY <1>3, <3>2, <4>1, <4>2 DEF Issued
    <3> QED
      BY <3>1, <3>2
  <2> QED
    BY <2>1, <2>2, <2>3 DEF IssuedInv
<1>7. HeldInv'
  <2>1. ASSUME NEW r \in Holding' PROVE Fresh(token[r])'
    <3>1. Fresh(token[r]) /\ token'[r] = token[r] /\ token[r] \in Tokens
      BY <1>5 DEF PairsInv, HeldInv
    <3> QED
      BY <1>0, <3>1 DEF Fresh
  <2>2. ASSUME NEW r \in Holding', NEW q \in Holding', token'[r] = token'[q] PROVE r = q
    BY <2>2 DEF PairsInv, HeldInv
  <2>3. ASSUME NEW r \in Holding', phase'[r] = "save" PROVE token'[r].grant = loaded'[r].conn.refresh.grant
    BY <2>3 DEF PairsInv, HeldInv
  <2>4. ASSUME NEW r \in Renewing' PROVE (token[r].turn = rotated[token[r].grant])'
    <3>1. r \in Holding' /\ r \in Renewing /\ token'[r] = token[r] /\ token[r] \in Tokens
      BY <1>5 DEF Renewing
    <3>2. rotated'[token[r].grant] = rotated[token[r].grant]
      BY <1>2, <3>1
    <3> QED
      BY <3>1, <3>2 DEF PairsInv, HeldInv
  <2>5. ASSUME NEW r \in Holding', phase'[r] = "complete"
        PROVE  "location" \in given'[r] \/ token'[r].grant \in unlocated'
    BY <2>5 DEF PairsInv, HeldInv
  <2> QED
    BY <2>1, <2>2, <2>3, <2>4, <2>5 DEF HeldInv
<1>8. LoadedInv'
  <2> SUFFICES ASSUME NEW r \in Loading', ~outdated', conn'.access = loaded'[r].conn.access,
                      phase'[r] # "fetch"
               PROVE  loaded'[r].conn.refresh.grant = conn'.access.grant
    BY DEF LoadedInv
  <2>1. CASE /\ loaded'[r].conn = conn /\ conn' = conn /\ outdated' = outdated
             /\ conn.access # NoToken /\ conn.refresh # NoToken
    BY <2>1 DEF ConnectionIsCoherent
  <2>2. CASE r \in Loading /\ loaded'[r] = loaded[r] /\ phase'[r] \in {phase[r], "fetch"}
    <3>1. conn'.access = conn.access /\ conn.access # NoToken
      BY <1>0, <1>4, <2>2
    <3> QED
      BY <2>2, <3>1 DEF PairsInv, LoadedInv
  <2> QED
    BY <2>1, <2>2
<1> QED
  BY <1>6, <1>7, <1>8 DEF PairsInv

\* The outcome of a call is committed, and the turn of a grant may move on unnoticed.
LEMMA SettlePairs ==
    ASSUME GhlTyped, PairsInv, ConnectionIsCoherent,
           NEW s \in Loading, NEW status \in {"connected", "error", "needs_reauth"},
           Settle(s, status), turn' \in [Grants -> 0 .. MaxTurns],
           \A g \in Grants : /\ turn[g] <= turn'[g] /\ rotated'[g] <= turn'[g]
                             /\ rotated'[g] # rotated[g] => \A r \in Renewing : token[r].grant # g
    PROVE  PairsInv' /\ ConnectionIsCoherent'
<1> DEFINE accounts == batch[s] \ {loaded[s].of}
<1>1. /\ Columns(conn', conn'.status, conn.location, conn.access, conn.refresh)
      /\ conn'.status # conn.status =>
            conn'.status = status /\ (outdated' \/ conn.access = loaded[s].conn.access)
      /\ outdated => outdated'
      /\ accounts \in SUBSET Accounts /\ Proceed(s, accounts, "next")
      /\ unlocated' = unlocated
  BY Settles
<1> HIDE DEF accounts
<1>2. s \in Callers
  BY DEF Loading
<1>3. /\ phase'[s] \in {"next", "list", "idle"} /\ token'[s] = NoToken
      /\ \A r \in Callers \ {s} : /\ phase'[r] = phase[r] /\ loaded'[r] = loaded[r]
                                  /\ token'[r] = token[r] /\ given'[r] = given[r]
  BY <1>1, <1>2, Proceeds
<1>4. PairsInv'
  BY <1>1, <1>2, <1>3, PairsStay DEF Columns, Holding, Loading
<1>5. ConnectionIsCoherent'
  <2>1. loaded[s].conn.access \in Tokens /\ NoToken \notin Tokens
    BY DEF GhlTyped, HoldsTokens, NoToken, Tokens, Grants
  <2> QED
    BY <1>1, <2>1 DEF ConnectionIsCoherent, Columns
<1> QED
  BY <1>4, <1>5

\* Nobody has the next refresh token of a grant that somebody else can still refresh.
LEMMA NobodyHolds ==
    ASSUME GhlTyped, PairsInv, NEW s \in Loading, phase[s] # "fetch",
           Honoured(loaded[s].conn.refresh)
    PROVE  \A r \in Renewing : token[r].grant # loaded[s].conn.refresh.grant
<1> SUFFICES ASSUME NEW r \in Renewing, token[r].grant = loaded[s].conn.refresh.grant PROVE FALSE
  OBVIOUS
<1>1. token[r] \in Tokens /\ loaded[s].conn.refresh \in Tokens /\ r \in Holding
  BY DEF GhlTyped, GhlTypeOK, HoldsTokens, Holding, Renewing
<1>2. token[r].turn = loaded[s].conn.refresh.turn
  BY DEF PairsInv, HeldInv, Honoured
<1>3. token[r] = loaded[s].conn.refresh
  BY <1>1, <1>2 DEF Tokens
<1> QED
  BY <1>1, <1>3 DEF PairsInv, HeldInv, Fresh

\* Every step keeps the pairs apart and the connection coherent.
LEMMA NextPairs ==
    GhlTyped /\ PairsInv /\ ConnectionIsCoherent /\ [GhlNext]_ghlVars
    => PairsInv' /\ ConnectionIsCoherent'
<1> SUFFICES ASSUME GhlTyped, PairsInv, ConnectionIsCoherent, [GhlNext]_ghlVars
             PROVE  PairsInv' /\ ConnectionIsCoherent'
  OBVIOUS
<1>0. /\ conn \in Connection /\ turn \in [Grants -> 0 .. MaxTurns]
      /\ phase \in [Callers -> {"idle", "next", "list", "refresh", "save", "fetch", "complete"}]
      /\ loaded \in [Callers -> Loaded \cup {<<>>}] /\ token \in [Callers -> Tokens \cup {NoToken}]
      /\ tagged \subseteq Accounts /\ given \in [Callers -> SUBSET {"refresh", "location"}]
      /\ rotated \in [Grants -> 0 .. MaxTurns]
  BY DEF GhlTyped, GhlTypeOK, HoldsTokens
<1>00. \A g \in Grants : turn[g] <= turn[g] /\ rotated[g] <= turn[g]
  BY <1>0 DEF PairsInv, HeldInv
<1>1. ASSUME GhlOauthStart \/ TokenAges \/ GhlDisconnect PROVE PairsInv' /\ ConnectionIsCoherent'
  <2>1. /\ UNCHANGED callVars /\ UNCHANGED <<turn, rotated, unlocated>>
        /\ \/ conn' = conn /\ outdated' = outdated
           \/ /\ Columns(conn', "pending", conn.location, conn.access, conn.refresh)
              /\ outdated' = outdated
           \/ Columns(conn', "disconnected", conn.location, NoToken, NoToken)
    BY <1>0, <1>1 DEF GhlOauthStart, TokenAges, GhlDisconnect, Cleared, providerVars, Columns, Connection
  <2>2. PairsInv'
    BY <1>0, <1>00, <2>1, PairsStay DEF Columns, Holding, Loading, callVars
  <2>3. ConnectionIsCoherent'
    BY <2>1 DEF ConnectionIsCoherent, Columns
  <2> QED
    BY <2>2, <2>3
<1>2. ASSUME NEW s \in Callers,
             \/ \E c \in Accounts : SetGhlTags(s, c) \/ BeginCall(s, c) \/ NotUsable(s, c)
             \/ CallerDies(s)
      PROVE  PairsInv' /\ ConnectionIsCoherent'
  <2>1. PICK accounts \in SUBSET Accounts, point \in {"next", "list", "idle"} : Proceed(s, accounts, point)
    BY <1>0, <1>2 DEF SetGhlTags, BeginCall, NotUsable, CallerDies, GhlTyped, GhlTypeOK
  <2>2. UNCHANGED <<conn, turn, rotated, unlocated, outdated>>
    BY <1>2 DEF SetGhlTags, BeginCall, NotUsable, CallerDies, providerVars
  <2>3. /\ phase'[s] \in {"next", "list", "idle"} /\ token'[s] = NoToken
        /\ \A r \in Callers \ {s} : /\ phase'[r] = phase[r] /\ loaded'[r] = loaded[r]
                                    /\ token'[r] = token[r] /\ given'[r] = given[r]
    BY <2>1, Proceeds
  <2>4. PairsInv'
    BY <1>0, <1>00, <2>2, <2>3, PairsStay DEF Holding, Loading
  <2> QED
    BY <2>2, <2>4 DEF ConnectionIsCoherent
<1>3. ASSUME NEW s \in Callers, RefreshRefused(s) \/ RefreshFails(s)
      PROVE  PairsInv' /\ ConnectionIsCoherent'
  <2> DEFINE t == loaded[s].conn.refresh
  <2>1. /\ phase[s] = "refresh" /\ (Settle(s, "needs_reauth") \/ Settle(s, "error"))
        /\ \/ UNCHANGED <<turn, rotated>>
           \/ Honoured(t) /\ Answer(t.grant, {"refresh"})
    BY <1>3 DEF RefreshRefused, RefreshFails
  <2>2. s \in Loading /\ t \in Tokens
    BY <2>1 DEF Loading, GhlTyped, HoldsTokens
  <2>3. Honoured(t) => \A r \in Renewing : token[r].grant # t.grant
    BY <2>1, <2>2, NobodyHolds
  <2> HIDE DEF t
  <2>4. /\ turn' \in [Grants -> 0 .. MaxTurns]
        /\ \A g \in Grants : /\ turn[g] <= turn'[g] /\ rotated'[g] <= turn'[g]
                             /\ rotated'[g] # rotated[g] => \A r \in Renewing : token[r].grant # g
    <3>1. CASE UNCHANGED <<turn, rotated>>
      BY <1>0, <1>00, <3>1
    <3>2. CASE Honoured(t) /\ Answer(t.grant, {"refresh"})
      <4>1. /\ turn' \in [Grants -> 0 .. MaxTurns]
            /\ \A g \in Grants : turn[g] <= turn'[g] /\ rotated'[g] <= turn'[g]
            /\ \A g \in Grants \ {t.grant} : rotated'[g] = rotated[g]
        BY <2>2, <3>2, Answers DEF PairsInv
      <4> QED
        BY <2>3, <3>2, <4>1
    <3> QED
      BY <2>1, <3>1, <3>2
  <2> QED
    BY <2>1, <2>2, <2>4, SettlePairs
<1>4. ASSUME NEW s \in Callers, FetchOk(s) \/ FetchRefused(s) \/ FetchFails(s)
      PROVE  PairsInv' /\ ConnectionIsCoherent'
  <2>1. /\ phase[s] = "fetch" /\ UNCHANGED <<turn, rotated>>
        /\ Settle(s, "connected") \/ Settle(s, "needs_reauth") \/ Settle(s, "error")
    BY <1>4 DEF FetchOk, FetchRefused, FetchFails
  <2>2. s \in Loading
    BY <2>1 DEF Loading
  <2> QED
    BY <1>0, <1>00, <2>1, <2>2, SettlePairs
<1>5. ASSUME NEW s \in Callers, RefreshEmpty(s) PROVE PairsInv' /\ ConnectionIsCoherent'
  <2>1. /\ phase[s] = "refresh" /\ phase' = [phase EXCEPT ![s] = "fetch"]
        /\ token' = [token EXCEPT ![s] = loaded[s].conn.access]
        /\ UNCHANGED <<conn, turn, rotated, unlocated, loaded, given, outdated>>
    BY <1>5 DEF RefreshEmpty, providerVars
  <2>2. PairsInv'
    BY <1>0, <1>00, <2>1, PairsStay DEF Holding, Loading
  <2> QED
    BY <2>1, <2>2 DEF ConnectionIsCoherent
<1>6. ASSUME NEW s \in Callers, NEW c \in Accounts, LoadConnection(s, c)
      PROVE  PairsInv' /\ ConnectionIsCoherent'
  <2> DEFINE l == [conn |-> conn, of |-> c, leads |-> phase[s] = "next"]
  <2>1. /\ loaded' = [loaded EXCEPT ![s] = l] /\ conn.access # NoToken
        /\ phase[s] \in {"next", "list"}
        /\ \/ phase' = [phase EXCEPT ![s] = "refresh"] /\ UNCHANGED token /\ conn.refresh # NoToken
           \/ /\ phase' = [phase EXCEPT ![s] = "fetch"]
              /\ token' = [token EXCEPT ![s] = conn.access]
        /\ UNCHANGED <<conn, turn, rotated, unlocated, given, outdated>>
    BY <1>6 DEF LoadConnection, Usable, providerVars
  <2>2. l.conn = conn
    OBVIOUS
  <2> HIDE DEF l
  <2>3. loaded'[s].conn = conn /\ \A r \in Callers \ {s} : loaded'[r] = loaded[r]
    BY <1>0, <2>1, <2>2
  <2>4. PairsInv'
    BY <1>0, <1>00, <2>1, <2>3, PairsStay DEF Holding, Loading
  <2> QED
    BY <2>1, <2>4 DEF ConnectionIsCoherent
<1>7. ASSUME NEW g \in Grants, Revoke(g) PROVE PairsInv' /\ ConnectionIsCoherent'
  <2>1. UNCHANGED <<conn, turn, rotated, unlocated, phase, loaded, token, given, outdated>>
    BY <1>7 DEF Revoke, callVars
  <2>2. PairsInv'
    BY <1>0, <1>00, <2>1, PairsStay DEF Holding, Loading
  <2> QED
    BY <2>1, <2>2 DEF ConnectionIsCoherent
<1>8. CASE UNCHANGED ghlVars
  <2>1. UNCHANGED <<conn, turn, rotated, unlocated, phase, loaded, token, given, outdated>>
    BY <1>8 DEF ghlVars, callVars, providerVars
  <2>2. PairsInv'
    BY <1>0, <1>00, <2>1, PairsStay DEF Holding, Loading
  <2> QED
    BY <2>1, <2>2 DEF ConnectionIsCoherent
<1>9. ASSUME NEW s \in Callers, Exchange(s) PROVE PairsInv' /\ ConnectionIsCoherent'
  <2>1. PICK g \in Grants, answer \in SUBSET {"refresh", "location"} :
              /\ turn[g] = 0 /\ turn' = [turn EXCEPT ![g] = 1]
              /\ rotated' = IF "refresh" \in answer THEN [rotated EXCEPT ![g] = 1] ELSE rotated
              /\ unlocated' = IF "location" \in answer THEN unlocated ELSE unlocated \cup {g}
              /\ token' = [token EXCEPT ![s] = [grant |-> g, turn |-> 1]]
              /\ given' = [given EXCEPT ![s] = answer]
    <3>1. \A g \in Grants : g >= g
      BY DEF Grants
    <3> QED
      BY <1>9, <3>1 DEF Exchange
  <2>2. /\ phase[s] = "idle" /\ phase' = [phase EXCEPT ![s] = "complete"]
        /\ UNCHANGED <<conn, loaded, outdated>>
    BY <1>9 DEF Exchange
  <2>20. /\ unlocated \subseteq unlocated' /\ ("location" \in answer \/ g \in unlocated')
         /\ "refresh" \in answer => rotated'[g] = 1
         /\ \A h \in Grants \ {g} : rotated'[h] = rotated[h]
         /\ \A h \in Grants : rotated'[h] <= turn'[h]
    BY <1>0, <1>00, <2>1
  <2> DEFINE t == [grant |-> g, turn |-> 1]
  \* Nothing was issued of this grant before.
  <2>3. ASSUME NEW u \in Tokens, Issued(u) PROVE u.grant # g /\ Issued(u)'
    <3>1. u.grant \in Grants /\ u.turn \in Nat \ {0} /\ u # NoToken
      BY DEF Tokens, NoToken, Grants
    <3>2. u.turn <= turn[u.grant]
      BY <2>3, <3>1 DEF Issued
    <3> QED
      BY <1>0, <2>1, <3>1, <3>2 DEF Issued
  <2>4. \A u \in Tokens \cup {NoToken} : Issued(u) => u # t /\ Issued(u)'
    <3>1. Issued(NoToken)' /\ NoToken # t
      BY DEF Issued, NoToken, Grants
    <3> QED
      BY <2>3, <3>1
  <2>5. /\ conn.access \in Tokens \cup {NoToken} /\ conn.refresh \in Tokens \cup {NoToken}
        /\ \A r \in Loading : /\ loaded[r].conn.access \in Tokens
                              /\ loaded[r].conn.refresh \in Tokens \cup {NoToken}
    BY <1>0 DEF Connection, GhlTyped, GhlTypeOK, HoldsTokens, Loading, Loaded
  <2>6. Issued(t)' /\ t.grant = g /\ t.turn = 1 /\ t' = t
    BY <1>0, <2>1 DEF Issued
  <2>7. Holding' = Holding \cup {s} /\ s \notin Holding /\ Loading' = Loading /\ s \notin Loading
    BY <1>0, <2>2 DEF Holding, Loading
  <2> HIDE DEF t
  <2>8. /\ token'[s] = t /\ given'[s] = answer /\ phase'[s] = "complete"
        /\ \A r \in Callers \ {s} : /\ token'[r] = token[r] /\ phase'[r] = phase[r]
                                    /\ given'[r] = given[r]
    BY <1>0, <2>1, <2>2 DEF t
  <2>9. IssuedInv'
    BY <1>0, <2>2, <2>4, <2>5, <2>6, <2>7, <2>8 DEF PairsInv, IssuedInv
  <2>10. Fresh(t)'
    BY <2>2, <2>4, <2>5, <2>7 DEF PairsInv, IssuedInv, Fresh
  <2>11. ASSUME NEW r \in Holding
         PROVE  r \in Callers \ {s} /\ token[r].grant \in Grants \ {g} /\ Fresh(token[r])'
    <3>1. token[r] \in Tokens /\ r \in Callers \ {s}
      BY <2>7 DEF GhlTyped, GhlTypeOK, Holding
    <3>2. token[r].grant # g /\ token[r].grant \in Grants
      BY <2>3, <3>1 DEF PairsInv, IssuedInv, Tokens
    <3> QED
      BY <1>0, <2>1, <2>2, <2>7, <2>8, <3>1, <3>2 DEF PairsInv, HeldInv, Fresh
  <2>12. HeldInv'
    <3>1. \A r \in Holding' : Fresh(token[r])'
      BY <2>6, <2>7, <2>8, <2>10, <2>11
    <3>2. \A r, q \in Holding' : token'[r] = token'[q] => r = q
      BY <2>6, <2>7, <2>8, <2>11 DEF PairsInv, HeldInv
    <3>3. \A r \in Holding' : phase'[r] = "save" => token'[r].grant = loaded'[r].conn.refresh.grant
      BY <1>0, <2>2, <2>7, <2>8, <2>11 DEF PairsInv, HeldInv
    <3>4. \A r \in Holding' : phase'[r] = "complete" => "location" \in given'[r] \/ token'[r].grant \in unlocated'
      BY <2>6, <2>7, <2>8, <2>11, <2>20 DEF PairsInv, HeldInv
    <3>5. \A r \in Renewing' : (token[r].turn = rotated[token[r].grant])'
      <4>1. Renewing' \subseteq Renewing \cup {s} /\ (s \in Renewing' => "refresh" \in answer)
        BY <2>7, <2>8, <2>11 DEF Renewing
      <4>2. \A r \in Renewing : r \in Holding /\ token[r].turn = rotated[token[r].grant]
        BY DEF Renewing, PairsInv, HeldInv
      <4> QED
        BY <2>6, <2>8, <2>11, <2>20, <4>1, <4>2
    <3> QED
      BY <2>20, <3>1, <3>2, <3>3, <3>4, <3>5 DEF HeldInv
  <2>13. LoadedInv'
    BY <2>2, <2>7, <2>8 DEF PairsInv, LoadedInv, Loading
  <2> QED
    BY <2>2, <2>20, <2>9, <2>12, <2>13 DEF PairsInv, ConnectionIsCoherent
<1>10. ASSUME NEW s \in Callers, GhlOauthComplete(s) PROVE PairsInv' /\ ConnectionIsCoherent'
  <2> DEFINE t == token[s]
  <2>1. /\ phase[s] = "complete" /\ conn' = Granted(t, given[s]) /\ outdated' = FALSE
        /\ Proceed(s, tagged, "next") /\ UNCHANGED <<tagged, turn, rotated, unlocated>>
    BY <1>10 DEF GhlOauthComplete, providerVars
  <2>2. s \in Holding /\ t \in Tokens /\ Issued(t) /\ NoToken \notin Tokens
    BY <2>1 DEF Holding, GhlTyped, GhlTypeOK, PairsInv, IssuedInv, NoToken, Tokens, Grants
  <2>3. /\ conn'.status = "connected" /\ conn'.access = t /\ conn'.refresh \in {t, NoToken}
        /\ "location" \in given[s] => conn'.location = t.grant
    BY <2>1 DEF Granted
  <2>30. "location" \in given[s] \/ t.grant \in unlocated'
    BY <2>1, <2>2 DEF PairsInv, HeldInv
  <2>4. /\ phase'[s] \in {"next", "list", "idle"} /\ token'[s] = NoToken
        /\ \A r \in Callers \ {s} : /\ phase'[r] = phase[r] /\ loaded'[r] = loaded[r]
                                    /\ token'[r] = token[r] /\ given'[r] = given[r]
    BY <1>0, <2>1, Proceeds
  <2>5. Holding' = Holding \ {s} /\ Renewing' \subseteq Renewing \ {s} /\ Loading' = Loading
    BY <2>1, <2>4 DEF Holding, Renewing, Loading
  <2>6. s \notin Loading
    BY <2>1 DEF Loading
  <2>7. \A r \in Holding \ {s} : token[r] # t
    BY <2>2 DEF PairsInv, HeldInv
  <2>8. \A r \in Loading : loaded[r].conn.access # t
    BY <2>2 DEF PairsInv, HeldInv, Fresh
  <2> HIDE DEF t
  <2>9. IssuedInv'
    BY <2>1, <2>2, <2>3, <2>4, <2>5, <2>6 DEF PairsInv, IssuedInv, Issued, Loading
  <2>10. HeldInv'
    <3>1. \A r \in Holding' : r \in Holding /\ r # s /\ token'[r] = token[r] /\ phase'[r] = phase[r]
                              /\ given'[r] = given[r] /\ loaded'[r] = loaded[r]
      BY <2>4, <2>5 DEF Holding
    <3>2. \A r \in Holding' : Fresh(token[r])'
      <4> TAKE r \in Holding'
      <4>1. Fresh(token[r]) /\ token[r] # t /\ token[r] # NoToken
        BY <2>7, <3>1 DEF PairsInv, HeldInv, GhlTyped, GhlTypeOK, Holding, NoToken, Tokens, Grants
      <4> QED
        BY <2>3, <2>4, <2>5, <2>6, <3>1, <4>1 DEF Fresh, Loading
    <3>3. \A r \in Renewing' : (token[r].turn = rotated[token[r].grant])'
      BY <2>1, <2>5, <3>1 DEF PairsInv, HeldInv, Renewing
    <3> QED
      BY <2>1, <3>1, <3>2, <3>3 DEF PairsInv, HeldInv
  <2>11. LoadedInv'
    BY <2>3, <2>4, <2>5, <2>6, <2>8 DEF LoadedInv, Loading
  <2> QED
    BY <2>3, <2>30, <2>9, <2>10, <2>11 DEF PairsInv, ConnectionIsCoherent
<1>11. ASSUME NEW s \in Callers, Refresh(s) PROVE PairsInv' /\ ConnectionIsCoherent'
  <2> DEFINE t == loaded[s].conn.refresh
             u == [t EXCEPT !.turn = turn[t.grant] + 1]
  <2>1. PICK answer \in SUBSET {"refresh"} :
              Answer(t.grant, answer) /\ given' = [given EXCEPT ![s] = answer]
    BY <1>11 DEF Refresh
  <2>10. /\ phase[s] = "refresh" /\ Honoured(t)
         /\ phase' = [phase EXCEPT ![s] = "save"] /\ token' = [token EXCEPT ![s] = u]
         /\ UNCHANGED <<conn, loaded, unlocated, outdated>>
    BY <1>11 DEF Refresh
  <2>2. s \in Loading /\ t \in Tokens /\ answer \in SUBSET {"refresh", "location"}
    BY <2>10 DEF Loading, GhlTyped, HoldsTokens
  <2>3. \A r \in Renewing : token[r].grant # t.grant
    BY <2>10, <2>2, NobodyHolds
  <2>6. loaded'[s].conn.refresh = t
    BY <2>10
  <2> HIDE DEF t
  <2>4. /\ t.grant \in Grants
        /\ turn' \in [Grants -> 0 .. MaxTurns] /\ turn'[t.grant] = turn[t.grant] + 1
        /\ rotated'[t.grant] = IF "refresh" \in answer THEN turn[t.grant] + 1 ELSE rotated[t.grant]
        /\ \A g \in Grants \ {t.grant} : turn'[g] = turn[g] /\ rotated'[g] = rotated[g]
        /\ \A g \in Grants : turn[g] <= turn'[g] /\ rotated'[g] <= turn'[g]
        /\ u = [grant |-> t.grant, turn |-> turn[t.grant] + 1] /\ u \in Tokens
    <3>1. HeldInv
      BY DEF PairsInv
    <3> QED
      BY ONLY GhlTyped, <3>1, <2>1, <2>10, <2>2, Answers
  <2>40. u.grant = t.grant /\ u.turn = turn[t.grant] + 1 /\ turn[t.grant] \in Nat
    BY <1>0, <2>4
  <2>5. s \notin Holding /\ Holding' = Holding \cup {s} /\ Loading' = Loading
    BY <1>0, <2>10 DEF Holding, Loading
  <2>9. /\ token'[s] = u /\ given'[s] = answer /\ phase'[s] = "save"
        /\ \A r \in Callers \ {s} : /\ token'[r] = token[r] /\ phase'[r] = phase[r]
                                    /\ given'[r] = given[r]
    BY <1>0, <2>1, <2>10
  \* Nothing issued so far is this token.
  <2>7. ASSUME NEW v \in Tokens \cup {NoToken}, Issued(v)
        PROVE  v # [grant |-> t.grant, turn |-> turn[t.grant] + 1] /\ Issued(v)'
    <3>1. CASE v = NoToken
      BY <2>4, <3>1 DEF Issued, NoToken, Tokens, Grants
    <3>2. CASE v # NoToken
      <4>1. v.grant \in Grants /\ v.turn \in Nat /\ v.turn <= turn[v.grant]
        BY <2>7, <3>2 DEF Issued, Tokens
      <4>2. turn[v.grant] \in Nat /\ turn'[v.grant] \in Nat /\ turn[v.grant] <= turn'[v.grant]
        BY <1>0, <2>4, <4>1
      <4>3. Issued(v)'
        BY <4>1, <4>2 DEF Issued
      <4>4. v.grant = t.grant => v.turn # turn[t.grant] + 1
        BY <4>1, <4>2
      <4> QED
        BY <4>3, <4>4
    <3> QED
      BY <3>1, <3>2
  <2>70. ASSUME NEW v \in Tokens \cup {NoToken}, Issued(v) PROVE v # u /\ Issued(v)'
    BY <2>4, <2>7, <2>70
  <2>11. u.turn <= turn'[u.grant]
    BY <2>4, <2>40
  <2> HIDE DEF u
  <2>8. /\ conn.access \in Tokens \cup {NoToken} /\ conn.refresh \in Tokens \cup {NoToken}
        /\ \A r \in Loading : /\ loaded[r].conn.access \in Tokens
                              /\ loaded[r].conn.refresh \in Tokens \cup {NoToken}
    BY <1>0 DEF Connection, GhlTyped, GhlTypeOK, HoldsTokens, Loading, Loaded
  <2>12. /\ IssuedInv'
         /\ \A r \in Holding : Fresh(token[r])'
    <3>1. \A r \in Callers : Issued(token[r])'
      <4> TAKE r \in Callers
      <4>1. CASE r = s
        BY <2>9, <2>11, <4>1 DEF Issued
      <4>2. CASE r # s
        <5>1. token'[r] = token[r] /\ token[r] \in Tokens \cup {NoToken} /\ Issued(token[r])
          BY <1>0, <2>9, <4>2 DEF PairsInv, IssuedInv
        <5>2. Issued(token[r])'
          BY <2>70, <5>1
        <5> QED
          BY <5>1, <5>2 DEF Issued
      <4> QED
        BY <4>1, <4>2
    <3>2. /\ Issued(conn.access)' /\ Issued(conn.refresh)'
          /\ \A r \in Loading : Issued(loaded[r].conn.access)' /\ Issued(loaded[r].conn.refresh)'
      BY <2>8, <2>10, <2>70 DEF PairsInv, IssuedInv, Issued
    <3>3. ASSUME NEW r \in Holding PROVE Fresh(token[r])'
      <4>1. r # s /\ Fresh(token[r]) /\ r \in Callers
        BY <2>5 DEF PairsInv, HeldInv, Holding
      <4> QED
        BY <2>5, <2>9, <2>10, <4>1 DEF Fresh
    <3> QED
      BY <2>5, <2>10, <3>1, <3>2, <3>3 DEF IssuedInv, Issued
  <2>13. HeldInv'
    <3>1. Fresh(token[s])'
      <4>1. Fresh(u)
        BY <2>8, <2>70 DEF PairsInv, IssuedInv, Fresh
      <4> QED
        BY <2>5, <2>9, <2>10, <4>1 DEF Fresh
    <3>2. \A r \in Holding : r \in Callers \ {s} /\ token[r] \in Tokens /\ token[r] # u
      BY <2>5, <2>70 DEF GhlTyped, GhlTypeOK, Holding, PairsInv, IssuedInv
    <3>3. \A r \in Holding' : Fresh(token[r])'
      BY <2>5, <2>12, <3>1
    <3>4. \A r, q \in Holding' : token'[r] = token'[q] => r = q
      BY <2>5, <2>9, <3>2 DEF PairsInv, HeldInv
    <3>5. \A r \in Holding' : phase'[r] = "save" => token'[r].grant = loaded'[r].conn.refresh.grant
      BY <2>10, <2>40, <2>5, <2>6, <2>9, <3>2 DEF PairsInv, HeldInv
    <3>6. \A r \in Holding' : phase'[r] = "complete" => "location" \in given'[r] \/ token'[r].grant \in unlocated'
      BY <2>5, <2>9, <2>10, <3>2 DEF PairsInv, HeldInv
    <3>7. \A r \in Renewing' : (token[r].turn = rotated[token[r].grant])'
      <4>1. Renewing' \subseteq Renewing \cup {s} /\ (s \in Renewing' => "refresh" \in answer)
        BY <2>5, <2>9, <3>2 DEF Renewing
      <4>2. \A r \in Renewing : /\ r \in Callers \ {s} /\ token[r].grant \in Grants \ {t.grant}
                                 /\ token[r].turn = rotated[token[r].grant]
        BY <2>3, <3>2 DEF Renewing, PairsInv, HeldInv, Tokens
      <4>3. \A r \in Renewing : (token[r].turn = rotated[token[r].grant])'
        BY <2>4, <2>9, <4>2
      <4>4. s \in Renewing' => (token[s].turn = rotated[token[s].grant])'
        BY <2>4, <2>40, <2>9, <4>1
      <4> QED
        BY <4>1, <4>3, <4>4
    <3> QED
      BY <2>4, <3>3, <3>4, <3>5, <3>6, <3>7 DEF HeldInv
  <2>14. LoadedInv'
    BY <1>0, <2>10, <2>5, <2>9 DEF PairsInv, LoadedInv, Loading
  <2> QED
    BY <2>10, <2>12, <2>13, <2>14 DEF PairsInv, ConnectionIsCoherent
<1>12. ASSUME NEW s \in Callers, SaveTokens(s) PROVE PairsInv' /\ ConnectionIsCoherent'
  <2> DEFINE l == loaded[s]
             row == Merged(Refreshed(l.conn, token[s], given[s]), l.conn, conn)
             t == token[s]
  <2>1. /\ phase[s] = "save" /\ conn' = row /\ loaded' = [loaded EXCEPT ![s] = [l EXCEPT !.conn = row]]
        /\ outdated' = (outdated \/ conn.access # l.conn.access)
        /\ phase' = [phase EXCEPT ![s] = "fetch"] /\ given' = [given EXCEPT ![s] = {}]
        /\ UNCHANGED <<turn, rotated, unlocated, token>>
    BY <1>12 DEF SaveTokens, providerVars, Overtaken
  <2>2. s \in Holding /\ s \in Loading /\ t \in Tokens /\ NoToken \notin Tokens
    BY <2>1 DEF Loading, Holding, GhlTyped, GhlTypeOK, NoToken, Tokens, Grants
  <2>3. /\ l \in Loaded /\ l.conn \in Connection /\ l.conn.access \in Tokens
        /\ t.grant = l.conn.refresh.grant /\ Issued(t) /\ Fresh(t)
    BY <2>1, <2>2 DEF GhlTyped, GhlTypeOK, HoldsTokens, Loading, Loaded, PairsInv, IssuedInv, HeldInv
  <2>4. /\ Refreshed(l.conn, t, given[s]) \in Connection
        /\ Columns(Refreshed(l.conn, t, given[s]), l.conn.status, l.conn.location, t,
                   IF "refresh" \in given[s] THEN t ELSE l.conn.refresh)
    BY <2>2, <2>3 DEF Refreshed, Connection, Columns
  <2>5. t # l.conn.access /\ t # l.conn.refresh
    BY <2>2, <2>3 DEF Fresh
  <2>60. /\ row \in Connection
         /\ Columns(row, conn.status, conn.location, t, IF "refresh" \in given[s] THEN t ELSE conn.refresh)
    BY <1>0, <2>3, <2>4, <2>5, MergedColumns DEF Columns
  <2>6. /\ row.status = conn.status /\ row.location = conn.location
        /\ row.access = t /\ row.refresh \in {t, conn.refresh}
    BY <2>60 DEF Columns
  <2> HIDE DEF row
  <2>7. [l EXCEPT !.conn = row].conn = row
    BY <2>3 DEF Loaded
  \* The row is of the grant that was refreshed, if nobody overtook the session.
  <2>8. conn.access = l.conn.access => outdated \/ t.grant = conn.access.grant
    BY <2>1, <2>2, <2>3 DEF PairsInv, LoadedInv
  <2>9. conn.access = l.conn.access =>
           \/ outdated
           \/ /\ conn.status # "disconnected" /\ conn.access.grant \in unlocated \cup {conn.location}
              /\ conn.refresh # NoToken => conn.refresh.grant = conn.access.grant
    BY <2>2, <2>3 DEF ConnectionIsCoherent
  <2>10. \A r \in Loading : loaded[r].conn.access # t
    BY <2>3 DEF Fresh
  <2> HIDE DEF l
  <2>11. /\ loaded'[s].conn = row /\ phase'[s] = "fetch"
         /\ \A r \in Callers \ {s} : /\ loaded'[r] = loaded[r] /\ phase'[r] = phase[r]
                                     /\ given'[r] = given[r]
    BY <1>0, <2>1, <2>2, <2>7 DEF Loading
  <2>12. Holding' = Holding \ {s} /\ Renewing' \subseteq Renewing \ {s} /\ Loading' = Loading
    BY <2>1, <2>2, <2>11 DEF Holding, Renewing, Loading
  <2>13. \A r \in Holding \ {s} : token[r] # t
    BY <2>2 DEF PairsInv, HeldInv
  <2>14. t' = t
    BY <2>1
  <2> HIDE DEF t
  <2>15. IssuedInv'
    BY <2>1, <2>3, <2>6, <2>11, <2>12, <2>14 DEF PairsInv, IssuedInv, Issued, Loading
  <2>16. HeldInv'
    <3>1. \A r \in Holding' : /\ r \in Holding /\ r # s /\ r \in Callers /\ token'[r] = token[r]
                              /\ phase'[r] = phase[r] /\ given'[r] = given[r] /\ loaded'[r] = loaded[r]
      BY <2>1, <2>11, <2>12 DEF Holding
    <3>2. \A r \in Holding' : Fresh(token[r])'
      BY <2>1, <2>6, <2>11, <2>12, <2>13 DEF PairsInv, HeldInv, Fresh, Loading
    <3>3. \A r \in Renewing' : (token[r].turn = rotated[token[r].grant])'
      BY <2>1, <2>12 DEF PairsInv, HeldInv
    <3> QED
      BY <2>1, <3>1, <3>2, <3>3 DEF PairsInv, HeldInv
  <2>17. LoadedInv'
    BY <2>1, <2>6, <2>10, <2>11, <2>12 DEF LoadedInv, Loading
  <2>18. ConnectionIsCoherent'
    BY <2>1, <2>6, <2>8, <2>9 DEF ConnectionIsCoherent
  <2> QED
    BY <2>15, <2>16, <2>17, <2>18 DEF PairsInv
<1> QED
  BY <1>1, <1>2, <1>3, <1>4, <1>5, <1>6, <1>7, <1>8, <1>9, <1>10, <1>11, <1>12 DEF GhlNext

-----------------------------------------------------------------------------
(* The stored refresh token *)

\* The stored token stays the last one if that of its grant is rotated only for a session
\* that is about to store the next, or for an answer that is lost.
LEMMA LastStays ==
    ASSUME GhlTyped, IssuedInv, RefreshTokenIsLast,
           conn'.refresh \in {conn.refresh, NoToken},
           revoked \subseteq revoked', mislaid \subseteq mislaid',
           \A g \in Grants : \/ rotated'[g] = rotated[g] \/ turn[g] = 0 \/ g \in mislaid'
                             \/ \E s \in Callers : /\ phase'[s] = "save" /\ "refresh" \in given'[s]
                                                   /\ token'[s].grant = g,
           \A s \in Callers : phase[s] = "save" /\ "refresh" \in given[s] =>
                 \/ token[s].grant \in mislaid'
                 \/ phase'[s] = "save" /\ token'[s] = token[s] /\ given'[s] = given[s]
    PROVE  RefreshTokenIsLast'
<1> DEFINE t == conn.refresh
<1>1. t \in Tokens \cup {NoToken}
  BY DEF GhlTyped, GhlTypeOK, Connection
<1>2. CASE conn'.refresh = NoToken
  BY <1>2 DEF RefreshTokenIsLast
<1>3. CASE conn'.refresh = t /\ t \in Tokens
  <2>1. t.grant \in Grants /\ t.turn \in Nat \ {0} /\ t # NoToken
    BY <1>3 DEF Tokens, NoToken, Grants
  <2>2. turn[t.grant] # 0
    BY <2>1 DEF IssuedInv, Issued, GhlTyped, GhlTypeOK
  <2>3. CASE t.grant \in revoked \cup mislaid
    BY <1>3, <2>3 DEF RefreshTokenIsLast
  <2>4. CASE \E s \in Callers : phase[s] = "save" /\ "refresh" \in given[s] /\ token[s].grant = t.grant
    BY <1>3, <2>4 DEF RefreshTokenIsLast
  <2>5. CASE Honoured(t) /\ t.grant \notin revoked'
    <3>1. CASE rotated'[t.grant] = rotated[t.grant]
      BY <1>3, <2>5, <3>1 DEF RefreshTokenIsLast, Honoured
    <3>2. CASE \/ t.grant \in mislaid'
               \/ \E s \in Callers : /\ phase'[s] = "save" /\ "refresh" \in given'[s]
                                     /\ token'[s].grant = t.grant
      BY <1>3, <3>2 DEF RefreshTokenIsLast
    <3> QED
      BY <2>1, <2>2, <3>1, <3>2
  <2>6. CASE t.grant \in revoked'
    BY <1>3, <2>6 DEF RefreshTokenIsLast
  <2> QED
    BY <2>1, <2>3, <2>4, <2>5, <2>6 DEF RefreshTokenIsLast
<1> QED
  BY <1>1, <1>2, <1>3

LEMMA NextLast ==
    GhlTyped /\ PairsInv /\ RefreshTokenIsLast /\ [GhlNext]_ghlVars => RefreshTokenIsLast'
<1> SUFFICES ASSUME GhlTyped, PairsInv, RefreshTokenIsLast, [GhlNext]_ghlVars
             PROVE  RefreshTokenIsLast'
  OBVIOUS
<1>0. /\ conn \in Connection /\ turn \in [Grants -> 0 .. MaxTurns]
      /\ phase \in [Callers -> {"idle", "next", "list", "refresh", "save", "fetch", "complete"}]
      /\ token \in [Callers -> Tokens \cup {NoToken}] /\ tagged \subseteq Accounts
      /\ rotated \in [Grants -> 0 .. MaxTurns] /\ given \in [Callers -> SUBSET {"refresh", "location"}]
  BY DEF GhlTyped, GhlTypeOK, HoldsTokens
<1>1. IssuedInv
  BY DEF PairsInv
<1>2. ASSUME GhlOauthStart \/ TokenAges \/ GhlDisconnect \/ UNCHANGED ghlVars
             \/ \E g \in Grants : Revoke(g)
      PROVE  RefreshTokenIsLast'
  <2>1. /\ UNCHANGED <<phase, token, given, turn, rotated, mislaid>> /\ revoked \subseteq revoked'
        /\ conn'.refresh \in {conn.refresh, NoToken}
    BY <1>0, <1>2 DEF GhlOauthStart, TokenAges, GhlDisconnect, Cleared, Revoke, ghlVars, callVars,
                      providerVars, Connection
  <2> QED
    BY <1>1, <2>1, LastStays
\* A session that stores no refresh token begins, goes on or ends.
<1>3. ASSUME NEW s \in Callers, phase[s] = "save" => "refresh" \notin given[s],
             \A r \in Callers \ {s} : /\ phase'[r] = phase[r] /\ token'[r] = token[r]
                                      /\ given'[r] = given[r],
             conn'.refresh = conn.refresh, revoked' = revoked,
             \/ UNCHANGED <<turn, rotated, mislaid>>
             \/ \E g \in Grants : Answer(g, {"refresh"}) /\ mislaid' = mislaid \cup {g}
      PROVE  RefreshTokenIsLast'
  <2>1. (\A g \in Grants : rotated'[g] = rotated[g] \/ g \in mislaid') /\ mislaid \subseteq mislaid'
    BY <1>0, <1>3 DEF Answer
  <2> QED
    BY <1>1, <1>3, <2>1, LastStays
<1>4. ASSUME NEW s \in Callers, NEW c \in Accounts,
             SetGhlTags(s, c) \/ BeginCall(s, c) \/ NotUsable(s, c) \/ LoadConnection(s, c)
      PROVE  RefreshTokenIsLast'
  <2>1. /\ phase[s] \in {"idle", "next", "list"} /\ UNCHANGED <<conn, turn, rotated, revoked, mislaid>>
        /\ \A r \in Callers \ {s} : /\ phase'[r] = phase[r] /\ token'[r] = token[r]
                                    /\ given'[r] = given[r]
    BY <1>0, <1>4 DEF SetGhlTags, BeginCall, NotUsable, LoadConnection, Proceed, providerVars
  <2> QED
    BY <1>3, <2>1
<1>5. ASSUME NEW s \in Callers, NEW status \in {"connected", "error", "needs_reauth"}, Settle(s, status),
             phase[s] \in {"refresh", "fetch"},
             \/ UNCHANGED <<turn, rotated, mislaid>>
             \/ \E g \in Grants : Answer(g, {"refresh"}) /\ mislaid' = mislaid \cup {g}
      PROVE  RefreshTokenIsLast'
  <2>1. s \in Loading
    BY <1>5 DEF Loading
  <2> DEFINE accounts == batch[s] \ {loaded[s].of}
  <2>2. /\ conn'.refresh = conn.refresh /\ revoked' = revoked
        /\ accounts \in SUBSET Accounts /\ Proceed(s, accounts, "next")
    BY <1>5, <2>1, Settles DEF Columns
  <2> HIDE DEF accounts
  <2>3. \A r \in Callers \ {s} : /\ phase'[r] = phase[r] /\ token'[r] = token[r]
                                 /\ given'[r] = given[r]
    BY <2>2, Proceeds
  <2>4. phase[s] # "save"
    BY <1>5
  <2> QED
    BY <1>3, <1>5, <2>2, <2>3, <2>4
<1>6. ASSUME NEW s \in Callers,
             \/ RefreshRefused(s) \/ RefreshFails(s)
             \/ FetchOk(s) \/ FetchRefused(s) \/ FetchFails(s)
      PROVE  RefreshTokenIsLast'
  <2>1. /\ phase[s] \in {"refresh", "fetch"}
        /\ Settle(s, "connected") \/ Settle(s, "needs_reauth") \/ Settle(s, "error")
        /\ \/ UNCHANGED <<turn, rotated, mislaid>>
           \/ /\ phase[s] = "refresh" /\ Answer(loaded[s].conn.refresh.grant, {"refresh"})
              /\ mislaid' = mislaid \cup {loaded[s].conn.refresh.grant}
    BY <1>6 DEF RefreshRefused, RefreshFails, FetchOk, FetchRefused, FetchFails
  <2>2. phase[s] = "refresh" => loaded[s].conn.refresh.grant \in Grants
    BY DEF GhlTyped, HoldsTokens, Loading, Tokens
  <2> QED
    BY <1>5, <2>1, <2>2
<1>7. ASSUME NEW s \in Callers, RefreshEmpty(s) PROVE RefreshTokenIsLast'
  <2>1. /\ phase[s] = "refresh" /\ UNCHANGED <<conn, turn, rotated, revoked, mislaid>>
        /\ \A r \in Callers \ {s} : /\ phase'[r] = phase[r] /\ token'[r] = token[r]
                                    /\ given'[r] = given[r]
    BY <1>0, <1>7 DEF RefreshEmpty, providerVars
  <2> QED
    BY <1>3, <2>1
<1>8. ASSUME NEW s \in Callers, Exchange(s) PROVE RefreshTokenIsLast'
  <2>1. /\ phase[s] = "idle" /\ UNCHANGED <<conn, revoked, mislaid>>
        /\ \A r \in Callers \ {s} : /\ phase'[r] = phase[r] /\ token'[r] = token[r]
                                    /\ given'[r] = given[r]
        /\ \E g \in Grants : /\ turn[g] = 0
                              /\ rotated' \in {rotated, [rotated EXCEPT ![g] = 1]}
    <3>1. \A g \in Grants : g >= g
      BY DEF Grants
    <3> QED
      BY <1>0, <1>8, <3>1 DEF Exchange
  <2>2. \A g \in Grants : rotated'[g] = rotated[g] \/ turn[g] = 0
    BY <1>0, <2>1
  <2> QED
    BY <1>1, <2>1, <2>2, LastStays
<1>9. ASSUME NEW s \in Callers, Refresh(s) PROVE RefreshTokenIsLast'
  <2> DEFINE t == loaded[s].conn.refresh
  <2>1. PICK answer \in SUBSET {"refresh"} :
              Answer(t.grant, answer) /\ given' = [given EXCEPT ![s] = answer]
    BY <1>9 DEF Refresh
  <2>2. /\ phase[s] = "refresh" /\ Honoured(t)
        /\ phase' = [phase EXCEPT ![s] = "save"]
        /\ token' = [token EXCEPT ![s] = [t EXCEPT !.turn = turn[t.grant] + 1]]
        /\ UNCHANGED <<conn, revoked, mislaid>>
    BY <1>9 DEF Refresh
  <2>3. t \in Tokens /\ answer \in SUBSET {"refresh", "location"}
    BY <2>2 DEF Loading, GhlTyped, HoldsTokens
  <2> HIDE DEF t
  <2>4. /\ \A g \in Grants \ {t.grant} : rotated'[g] = rotated[g]
        /\ rotated'[t.grant] = IF "refresh" \in answer THEN turn[t.grant] + 1 ELSE rotated[t.grant]
        /\ [t EXCEPT !.turn = turn[t.grant] + 1] = [grant |-> t.grant, turn |-> turn[t.grant] + 1]
    <3>1. HeldInv
      BY DEF PairsInv
    <3> QED
      BY ONLY GhlTyped, <3>1, <2>1, <2>2, <2>3, Answers
  <2>5. token'[s].grant = t.grant /\ phase'[s] = "save" /\ given'[s] = answer
    BY <1>0, <2>1, <2>2, <2>4
  <2>6. \A r \in Callers \ {s} : /\ phase'[r] = phase[r] /\ token'[r] = token[r]
                                 /\ given'[r] = given[r]
    BY <1>0, <2>1, <2>2
  <2>7. \A g \in Grants : \/ rotated'[g] = rotated[g]
                          \/ phase'[s] = "save" /\ "refresh" \in given'[s] /\ token'[s].grant = g
    BY <2>4, <2>5
  <2> QED
    BY <1>1, <2>2, <2>6, <2>7, LastStays
<1>10. ASSUME NEW s \in Callers, CallerDies(s) PROVE RefreshTokenIsLast'
  <2>1. /\ mislaid' = IF phase[s] = "save" /\ "refresh" \in given[s]
                      THEN mislaid \cup {token[s].grant} ELSE mislaid
        /\ UNCHANGED <<conn, turn, rotated, revoked>>
        /\ \A r \in Callers \ {s} : /\ phase'[r] = phase[r] /\ token'[r] = token[r]
                                    /\ given'[r] = given[r]
    BY <1>0, <1>10 DEF CallerDies, Proceed, providerVars
  <2> QED
    BY <1>1, <2>1, LastStays
\* A session that stores a new refresh token stores the last of its grant.
<1>11. ASSUME NEW s \in Renewing, conn'.refresh = token[s], UNCHANGED <<rotated, revoked>>
       PROVE  RefreshTokenIsLast'
  BY <1>11 DEF PairsInv, HeldInv, RefreshTokenIsLast, Honoured
<1>12. ASSUME NEW s \in Callers, GhlOauthComplete(s) PROVE RefreshTokenIsLast'
  <2>1. /\ phase[s] = "complete" /\ UNCHANGED <<rotated, revoked>>
        /\ conn'.refresh = IF "refresh" \in given[s] THEN token[s] ELSE NoToken
    BY <1>12 DEF GhlOauthComplete, Granted, providerVars
  <2>2. CASE "refresh" \in given[s]
    BY <1>11, <2>1, <2>2 DEF Renewing, Holding
  <2>3. CASE "refresh" \notin given[s]
    BY <2>1, <2>3 DEF RefreshTokenIsLast
  <2> QED
    BY <2>2, <2>3
<1>13. ASSUME NEW s \in Callers, SaveTokens(s) PROVE RefreshTokenIsLast'
  <2> DEFINE l == loaded[s]
             new == Refreshed(l.conn, token[s], given[s])
  <2>1. /\ phase[s] = "save" /\ conn' = Merged(new, l.conn, conn)
        /\ UNCHANGED <<turn, rotated, revoked, mislaid, token>>
        /\ \A r \in Callers \ {s} : phase'[r] = phase[r] /\ given'[r] = given[r]
    BY <1>0, <1>13 DEF SaveTokens, providerVars
  <2>2. /\ s \in Holding /\ s \in Loading /\ token[s] \in Tokens /\ l.conn \in Connection
        /\ Fresh(token[s])
    BY <2>1 DEF Loading, Holding, GhlTyped, GhlTypeOK, Loaded, PairsInv, HeldInv
  <2>3. /\ new \in Connection
        /\ new.refresh = IF "refresh" \in given[s] THEN token[s] ELSE l.conn.refresh
    BY <2>2 DEF Refreshed, Connection
  <2>4. token[s] # l.conn.refresh
    BY <2>2 DEF Fresh
  <2> HIDE DEF new
  <2>5. conn'.refresh = IF "refresh" \in given[s] THEN token[s] ELSE conn.refresh
    BY <1>0, <2>1, <2>2, <2>3, <2>4, MergedColumns DEF Columns
  <2>6. CASE "refresh" \in given[s]
    BY <1>11, <2>1, <2>2, <2>5, <2>6 DEF Renewing
  <2>7. CASE "refresh" \notin given[s]
    BY <1>3, <2>1, <2>5, <2>7
  <2> QED
    BY <2>6, <2>7
<1> QED
  BY <1>2, <1>4, <1>6, <1>7, <1>8, <1>9, <1>10, <1>12, <1>13 DEF GhlNext

-----------------------------------------------------------------------------
(* What holds of the agency's connection *)

GhlInv == GhlTyped /\ PairsInv /\ ConnectionIsCoherent /\ RefreshTokenIsLast

LEMMA GhlInitInv == GhlInit => GhlInv
<1> SUFFICES ASSUME GhlInit PROVE GhlInv
  OBVIOUS
<1>1. /\ conn = NotConnected /\ Holding = {} /\ Renewing = {} /\ Loading = {}
      /\ \A s \in Callers : token[s] = NoToken
      /\ \A g \in Grants : rotated[g] <= turn[g]
  BY DEF GhlInit, Holding, Renewing, Loading
<1>2. conn.access = NoToken /\ conn.refresh = NoToken
  BY <1>1 DEF NotConnected
<1>3. IssuedInv
  BY <1>1, <1>2 DEF IssuedInv, Issued
<1>4. HeldInv /\ LoadedInv
  BY <1>1 DEF HeldInv, LoadedInv
<1> QED
  BY <1>2, <1>3, <1>4, GhlInitType DEF GhlInv, PairsInv, ConnectionIsCoherent, RefreshTokenIsLast

LEMMA GhlNextInv == GhlInv /\ [GhlNext]_ghlVars => GhlInv'
BY GhlNextType, NextPairs, NextLast DEF GhlInv, PairsInv

\* Only an admin reconnects what was disconnected, but for a call that had loaded it before.
LEMMA GhlReconnects ==
    ASSUME GhlInv, GhlNext,
           conn.status = "disconnected", conn'.status \notin {"disconnected", "pending"}
    PROVE  outdated' \/ \E s \in Callers : phase[s] = "complete"
<1>0. conn \in Connection /\ NoToken \notin Tokens
  BY DEF GhlInv, GhlTyped, GhlTypeOK, NoToken, Tokens, Grants
<1>1. ASSUME NEW s \in Callers, NEW status \in {"connected", "error", "needs_reauth"},
             Settle(s, status), phase[s] \in {"refresh", "fetch"}
      PROVE  outdated'
  <2>1. s \in Loading
    BY <1>1 DEF Loading
  <2>2. /\ conn'.status # conn.status => outdated' \/ conn.access = loaded[s].conn.access
        /\ outdated => outdated'
    BY <1>1, <2>1, Settles DEF GhlInv
  <2>3. loaded[s].conn.access \in Tokens
    BY <2>1 DEF GhlInv, GhlTyped, HoldsTokens
  <2> QED
    BY <1>0, <2>2, <2>3 DEF GhlInv, ConnectionIsCoherent
<1>2. ASSUME NEW s \in Callers,
             \/ RefreshRefused(s) \/ RefreshFails(s)
             \/ FetchOk(s) \/ FetchRefused(s) \/ FetchFails(s)
      PROVE  outdated'
  BY <1>1, <1>2 DEF RefreshRefused, RefreshFails, FetchOk, FetchRefused, FetchFails
<1>3. ASSUME NEW s \in Callers, SaveTokens(s) PROVE FALSE
  <2> DEFINE l == loaded[s]
  <2>1. phase[s] = "save" /\ conn' = Merged(Refreshed(l.conn, token[s], given[s]), l.conn, conn)
    BY <1>3 DEF SaveTokens
  <2>2. token[s] \in Tokens /\ l.conn \in Connection
    BY <2>1 DEF GhlInv, GhlTyped, GhlTypeOK, Loaded
  <2>3. /\ Refreshed(l.conn, token[s], given[s]) \in Connection
        /\ Refreshed(l.conn, token[s], given[s]).status = l.conn.status
    BY <2>2 DEF Refreshed, Connection
  <2>4. conn'.status = conn.status
    BY <1>0, <2>1, <2>2, <2>3, MergedColumns DEF Columns
  <2> QED
    BY <2>4
<1>4. ASSUME \/ GhlOauthStart \/ GhlDisconnect
             \/ \E s \in Callers : GhlOauthComplete(s)
      PROVE  \E s \in Callers : phase[s] = "complete"
  BY <1>0, <1>4 DEF GhlOauthStart, GhlDisconnect, GhlOauthComplete, Connection
<1>5. ASSUME \/ TokenAges \/ \E g \in Grants : Revoke(g)
             \/ \E s \in Callers : Exchange(s) \/ Refresh(s) \/ RefreshEmpty(s) \/ CallerDies(s)
             \/ \E s \in Callers, c \in Accounts :
                   SetGhlTags(s, c) \/ BeginCall(s, c) \/ LoadConnection(s, c) \/ NotUsable(s, c)
      PROVE  FALSE
  BY <1>5 DEF TokenAges, Revoke, Exchange, Refresh, RefreshEmpty, CallerDies, SetGhlTags, BeginCall,
              LoadConnection, NotUsable
<1> QED
  BY <1>2, <1>3, <1>4, <1>5 DEF GhlNext

LEMMA GhlInvariance == GhlSpec => []GhlInv
<1> QED
  BY GhlInitInv, GhlNextInv, PTL DEF GhlSpec

\* The stored refresh token of the agency is the last of its grant, whatever syncs, listings,
\* reconnections and crashes overlap, unless a session is about to store its successor or
\* a pair was lost (integrations/ghl/oauth.py:93-94).
THEOREM StoredRefreshIsLast == GhlSpec => []RefreshTokenIsLast
<1> QED
  BY GhlInvariance, PTL DEF GhlInv

\* The agency's location, tokens and status fit together (ghl_oauth_complete and
\* ghl_disconnect), unless a session stored what it had begun before an admin acted.
THEOREM GhlCoherent == GhlSpec => []ConnectionIsCoherent
<1> QED
  BY GhlInvariance, PTL DEF GhlInv

\* A sync does not reconnect what an admin disconnected, unless it had loaded the row before.
THEOREM GhlStaysDisconnected == GhlSpec => StaysDisconnected
<1>1. GhlInv /\ [GhlNext]_ghlVars =>
         [conn.status = "disconnected" /\ conn'.status \notin {"disconnected", "pending"}
          => outdated' \/ \E s \in Callers : phase[s] = "complete"]_ghlVars
  BY GhlReconnects
<1> QED
  BY <1>1, GhlInvariance, PTL DEF GhlSpec, StaysDisconnected

-----------------------------------------------------------------------------
(* Refreshes one at a time *)

\* No session refreshes while another one refreshes or has yet to store its pair.
RefreshesApart ==
    \A s, r \in Callers :
        phase[s] \in {"refresh", "save"} /\ phase[r] \in {"refresh", "save"} => s = r

\* What a session is about to refresh is the last of its grant, or the grant is lost.
RefreshesLast ==
    \A s \in Callers : phase[s] = "refresh" =>
        LET t == loaded[s].conn.refresh IN
        t.grant \in revoked \cup mislaid \/ t.turn = rotated[t.grant]

\* A session that goes on refreshing keeps the last token if only the tokens of grants that
\* had none or are lost are rotated.
LEMMA StillLast ==
    ASSUME GhlInv, RefreshesLast, NEW s \in Callers,
           phase[s] = "refresh", phase'[s] = "refresh", loaded'[s] = loaded[s],
           revoked \subseteq revoked', mislaid \subseteq mislaid',
           \A g \in Grants : rotated'[g] = rotated[g] \/ turn[g] = 0 \/ g \in mislaid'
    PROVE  LET t == loaded'[s].conn.refresh IN
           t.grant \in revoked' \cup mislaid' \/ t.turn = rotated'[t.grant]
<1> DEFINE t == loaded[s].conn.refresh
<1>1. s \in Loading
  BY DEF Loading
<1>2. t \in Tokens /\ Issued(t)
  BY <1>1 DEF GhlInv, GhlTyped, HoldsTokens, PairsInv, IssuedInv
<1>3. t.grant \in Grants /\ t.turn \in Nat \ {0} /\ t # NoToken
  BY <1>2 DEF Tokens, NoToken, Grants
<1>4. turn[t.grant] # 0
  BY <1>2, <1>3 DEF Issued, GhlInv, GhlTyped, GhlTypeOK
<1>5. t.grant \in revoked \cup mislaid \/ t.turn = rotated[t.grant]
  BY DEF RefreshesLast
<1> QED
  BY <1>3, <1>4, <1>5

LEMMA NextRefreshesLast ==
    ASSUME GhlInv, RefreshesLast, RefreshesApart, RefreshesApart', [GhlNext]_ghlVars
    PROVE  RefreshesLast'
<1>0. /\ phase \in [Callers -> {"idle", "next", "list", "refresh", "save", "fetch", "complete"}]
      /\ turn \in [Grants -> 0 .. MaxTurns] /\ loaded \in [Callers -> Loaded \cup {<<>>}]
      /\ \A s \in Callers : batch[s] \in SUBSET Accounts
      /\ rotated \in [Grants -> 0 .. MaxTurns]
      /\ tagged \subseteq Accounts
  BY DEF GhlInv, GhlTyped, GhlTypeOK, HoldsTokens
<1>1. \A s \in Callers : phase[s] = "refresh" => loaded[s].conn.refresh.grant \in Grants
  BY DEF GhlInv, GhlTyped, HoldsTokens, Loading, Tokens
\* The sessions that refresh are those that did, with what they had loaded.
<1>2. ASSUME \A s \in Callers : phase'[s] = "refresh" =>
                 phase[s] = "refresh" /\ loaded'[s] = loaded[s],
             revoked \subseteq revoked', mislaid \subseteq mislaid',
             \A g \in Grants : rotated'[g] = rotated[g] \/ turn[g] = 0 \/ g \in mislaid'
      PROVE  RefreshesLast'
  BY <1>2, StillLast DEF RefreshesLast
\* Nobody else refreshes while this session does, and it is done.
<1>3. ASSUME NEW s \in Callers, phase[s] = "refresh", phase'[s] # "refresh",
             \A r \in Callers \ {s} : phase'[r] = phase[r]
      PROVE  RefreshesLast'
  BY <1>3 DEF RefreshesApart, RefreshesLast
<1>4. ASSUME NEW s \in Callers, NEW accounts \in SUBSET Accounts, NEW point \in {"next", "list", "idle"},
             Proceed(s, accounts, point)
      PROVE  /\ phase'[s] # "refresh"
             /\ \A r \in Callers \ {s} : phase'[r] = phase[r] /\ loaded'[r] = loaded[r]
  BY <1>4, Proceeds DEF GhlInv
<1>5. ASSUME NEW s \in Callers, NEW status \in {"connected", "error", "needs_reauth"},
             Settle(s, status), phase[s] \in {"refresh", "fetch"}
      PROVE  /\ phase'[s] # "refresh" /\ revoked' = revoked
             /\ \A r \in Callers \ {s} : phase'[r] = phase[r] /\ loaded'[r] = loaded[r]
  <2> DEFINE accounts == batch[s] \ {loaded[s].of}
  <2>1. accounts \in SUBSET Accounts /\ Proceed(s, accounts, "next") /\ revoked' = revoked
    BY <1>0, <1>5 DEF Settle
  <2> HIDE DEF accounts
  <2> QED
    BY <1>4, <2>1
<1>6. CASE UNCHANGED ghlVars \/ GhlOauthStart \/ GhlDisconnect \/ TokenAges \/ \E g \in Grants : Revoke(g)
  <2>1. UNCHANGED <<phase, loaded, rotated, mislaid>> /\ revoked \subseteq revoked'
    BY <1>6 DEF ghlVars, callVars, providerVars, GhlOauthStart, GhlDisconnect, TokenAges, Revoke
  <2> QED
    BY <1>2, <2>1
<1>7. ASSUME NEW s \in Callers, Exchange(s) PROVE RefreshesLast'
  <2>1. \A g \in Grants : g >= g
    BY DEF Grants
  <2>2. /\ phase' = [phase EXCEPT ![s] = "complete"] /\ UNCHANGED <<loaded, revoked, mislaid>>
        /\ \E g \in Grants : turn[g] = 0 /\ rotated' \in {rotated, [rotated EXCEPT ![g] = 1]}
    BY <1>7, <2>1 DEF Exchange
  <2>3. \A g \in Grants : rotated'[g] = rotated[g] \/ turn[g] = 0
    BY <1>0, <2>2
  <2> QED
    BY <1>0, <1>2, <2>2, <2>3
<1>8. ASSUME NEW s \in Callers, GhlOauthComplete(s) \/ CallerDies(s) PROVE RefreshesLast'
  <2>1. /\ UNCHANGED <<rotated, revoked>> /\ mislaid \subseteq mislaid'
        /\ Proceed(s, tagged, "next") \/ Proceed(s, {}, "idle")
    BY <1>8 DEF GhlOauthComplete, CallerDies, providerVars
  <2>2. /\ phase'[s] # "refresh"
        /\ \A r \in Callers \ {s} : phase'[r] = phase[r] /\ loaded'[r] = loaded[r]
    BY <1>0, <1>4, <2>1
  <2> QED
    BY <1>2, <2>1, <2>2
<1>9. ASSUME NEW s \in Callers, Refresh(s) \/ RefreshEmpty(s) PROVE RefreshesLast'
  <2>1. phase[s] = "refresh" /\ \E p \in {"save", "fetch"} : phase' = [phase EXCEPT ![s] = p]
    BY <1>9 DEF Refresh, RefreshEmpty
  <2> QED
    BY <1>0, <1>3, <2>1
<1>10. ASSUME NEW s \in Callers, RefreshRefused(s) \/ RefreshFails(s) PROVE RefreshesLast'
  <2>1. phase[s] = "refresh" /\ (Settle(s, "needs_reauth") \/ Settle(s, "error"))
    BY <1>10 DEF RefreshRefused, RefreshFails
  <2> QED
    BY <1>3, <1>5, <2>1
<1>11. ASSUME NEW s \in Callers, SaveTokens(s) PROVE RefreshesLast'
  <2>1. /\ phase[s] = "save" /\ phase' = [phase EXCEPT ![s] = "fetch"]
    BY <1>11 DEF SaveTokens
  <2> QED
    BY <1>0, <2>1 DEF RefreshesApart, RefreshesLast
<1>12. ASSUME NEW s \in Callers, FetchOk(s) \/ FetchRefused(s) \/ FetchFails(s) PROVE RefreshesLast'
  <2>1. /\ phase[s] = "fetch" /\ UNCHANGED <<rotated, mislaid>>
        /\ Settle(s, "connected") \/ Settle(s, "needs_reauth") \/ Settle(s, "error")
    BY <1>12 DEF FetchOk, FetchRefused, FetchFails
  <2>2. /\ phase'[s] # "refresh" /\ revoked' = revoked
        /\ \A r \in Callers \ {s} : phase'[r] = phase[r] /\ loaded'[r] = loaded[r]
    BY <1>5, <2>1
  <2> QED
    BY <1>2, <2>1, <2>2
<1>13. ASSUME NEW s \in Callers, NEW c \in Accounts, SetGhlTags(s, c) \/ BeginCall(s, c) \/ NotUsable(s, c)
       PROVE  RefreshesLast'
  <2>1. /\ UNCHANGED <<rotated, revoked, mislaid>>
        /\ \E accounts \in SUBSET Accounts, point \in {"next", "list"} : Proceed(s, accounts, point)
    BY <1>0, <1>13 DEF SetGhlTags, BeginCall, NotUsable, providerVars
  <2>2. /\ phase'[s] # "refresh"
        /\ \A r \in Callers \ {s} : phase'[r] = phase[r] /\ loaded'[r] = loaded[r]
    BY <1>4, <2>1
  <2> QED
    BY <1>2, <2>1, <2>2
\* The row's token is the last one: nobody is about to store its successor.
<1>14. ASSUME NEW s \in Callers, NEW c \in Accounts, LoadConnection(s, c) PROVE RefreshesLast'
  <2>1. /\ phase[s] \in {"next", "list"} /\ UNCHANGED <<rotated, revoked, mislaid>>
        /\ \E p \in {"refresh", "fetch"} : phase' = [phase EXCEPT ![s] = p]
        /\ phase'[s] = "refresh" => conn.refresh # NoToken
        /\ \A r \in Callers \ {s} : loaded'[r] = loaded[r]
        /\ loaded'[s].conn = conn
    BY <1>0, <1>14 DEF LoadConnection, providerVars
  <2>2. \A r \in Callers \ {s} : phase'[r] = phase[r]
    BY <1>0, <2>1
  <2>3. CASE phase'[s] # "refresh"
    BY <1>2, <2>1, <2>2, <2>3
  <2>4. CASE phase'[s] = "refresh"
    <3>1. \A r \in Callers : phase[r] # "save" /\ phase[r] # "refresh"
      BY <2>1, <2>2, <2>4 DEF RefreshesApart
    <3>2. conn.refresh.grant \in revoked \cup mislaid \/ conn.refresh.turn = rotated[conn.refresh.grant]
      BY <2>1, <2>4, <3>1 DEF GhlInv, RefreshTokenIsLast, Honoured
    <3> QED
      BY <2>1, <2>2, <2>4, <3>1, <3>2 DEF RefreshesLast
  <2> QED
    BY <2>3, <2>4
<1> QED
  BY <1>6, <1>7, <1>8, <1>9, <1>10, <1>11, <1>12, <1>13, <1>14 DEF GhlNext

\* What models/ghl_agency_connection.py:9-13 calls structurally impossible would be, if a
\* session waited until another one's refresh is stored: then a refresh is refused only
\* when an admin revoked the grant or a pair was lost.
THEOREM RefreshesApartDoNotCollide == GhlSpec /\ []RefreshesApart => NoRefreshCollides
<1>1. GhlInit => RefreshesLast
  BY DEF GhlInit, RefreshesLast
<1>2. RefreshesLast /\ [GhlNext]_ghlVars =>
         [\A s \in Callers : RefreshRefused(s) =>
              loaded[s].conn.refresh.grant \in revoked \cup mislaid]_ghlVars
  BY DEF RefreshesLast, RefreshRefused, Honoured
<1>3. GhlInv /\ RefreshesLast /\ RefreshesApart /\ RefreshesApart' /\ [GhlNext]_ghlVars
         => RefreshesLast'
  BY NextRefreshesLast
<1> QED
  BY <1>1, <1>2, <1>3, GhlInvariance, PTL DEF GhlSpec, NoRefreshCollides

-----------------------------------------------------------------------------
(* A client's connector: what its sessions hold *)

Stages   == {"idle", "authorize", "refresh", "query", "failed"}
Purposes == {"none", "complete", "select", "first", "sync"}
Asking   == {"refresh", "query", "failed"}

\* Tokens come from consents given, and a session asks the provider, or for a new token,
\* with one.
ConsentInv ==
    /\ link.access <= Len(sees) /\ link.refresh <= Len(sees)
    /\ \A s \in Operators : /\ known[s].access <= Len(sees) /\ known[s].refresh <= Len(sees)
                            /\ stage[s] \in Asking => known[s].access # 0
                            /\ stage[s] = "refresh" => Renews(known[s]) # 0

LinkTyped == LinkTypeOK /\ ConsentInv

LinkColumns(row, status, access, refresh, account) ==
    row = [status |-> status, access |-> access, refresh |-> refresh, account |-> account]

LEMMA LinkFields ==
    ASSUME NEW row \in Link
    PROVE  /\ DOMAIN row = {"status", "access", "refresh", "account"}
           /\ LinkColumns(row, row.status, row.access, row.refresh, row.account)
BY DEF Link, LinkColumns

\* What a session can enter.
LEMMA Enters ==
    ASSUME LinkTypeOK, NEW s \in Operators, NEW point \in Stages, NEW why \in Purposes,
           NEW row \in Link, Enter(s, point, why, row)
    PROVE  /\ stage' \in [Operators -> Stages] /\ purpose' \in [Operators -> Purposes]
           /\ known' \in [Operators -> Link] /\ lapsed' \in [Operators -> BOOLEAN]
           /\ stage'[s] = point /\ purpose'[s] = why /\ known'[s] = row
           /\ \A r \in Operators \ {s} : /\ stage'[r] = stage[r] /\ purpose'[r] = purpose[r]
                                         /\ known'[r] = known[r]
BY DEF LinkTypeOK, Enter, Stages, Purposes

\* What concerns one session, for the others, holds if they did not move.
LEMMA OthersLink ==
    ASSUME LinkTyped, NEW s \in Operators,
           stage' \in [Operators -> Stages], purpose' \in [Operators -> Purposes],
           known' \in [Operators -> Link], lapsed' \in [Operators -> BOOLEAN],
           \A r \in Operators \ {s} : /\ stage'[r] = stage[r] /\ purpose'[r] = purpose[r]
                                      /\ known'[r] = known[r],
           stage'[s] = "refresh" /\ purpose'[s] # "select" /\ provider # "linkedin"
           => known'[s].account # Unbound,
           known'[s].access <= Len(sees'), known'[s].refresh <= Len(sees'),
           stage'[s] \in Asking => known'[s].access # 0,
           stage'[s] = "refresh" => Renews(known'[s]) # 0,
           provider' = provider, link' \in Link,
           link'.access <= Len(sees'), link'.refresh <= Len(sees'),
           expiring' \in BOOLEAN, stray' \in BOOLEAN, mixed' \in BOOLEAN,
           sees' \in Seq(SUBSET Listed), Len(sees) <= Len(sees'), Len(sees') <= MaxConsents,
           withdrawn' \subseteq DOMAIN sees'
    PROVE  LinkTyped'
<1>1. ConsentInv'
  <2>1. \A r \in Operators : /\ known[r].access \in Nat /\ known[r].refresh \in Nat
                             /\ Len(sees) \in Nat /\ Len(sees') \in Nat
    BY DEF LinkTyped, LinkTypeOK, Link, Consents
  <2>2. \A r \in Operators : known'[r].access <= Len(sees') /\ known'[r].refresh <= Len(sees')
    BY <2>1 DEF LinkTyped, ConsentInv
  <2>3. \A r \in Operators : /\ stage'[r] \in Asking => known'[r].access # 0
                             /\ stage'[r] = "refresh" => Renews(known[r])' # 0
    BY DEF LinkTyped, ConsentInv, Renews
  <2> QED
    BY <2>2, <2>3 DEF ConsentInv
<1>2. LinkTypeOK'
  BY DEF LinkTyped, LinkTypeOK, Stages, Purposes
<1> QED
  BY <1>1, <1>2 DEF LinkTyped

\* A session that uses a token goes on to refresh it or to ask with it.
LEMMA Uses ==
    ASSUME LinkTypeOK, NEW s \in Operators, NEW why \in Purposes, NEW row \in Link, NEW old,
           row.access # 0, why = "select" \/ provider = "linkedin" \/ row.account # Unbound,
           UseToken(s, why, row, old)
    PROVE  /\ stage' \in [Operators -> Stages] /\ purpose' \in [Operators -> Purposes]
           /\ known' \in [Operators -> Link] /\ lapsed' \in [Operators -> BOOLEAN]
           /\ \A r \in Operators \ {s} : /\ stage'[r] = stage[r] /\ purpose'[r] = purpose[r]
                                         /\ known'[r] = known[r]
           /\ stage'[s] \in {"refresh", "query"} /\ purpose'[s] = why /\ known'[s] = row
           /\ stage'[s] = "refresh" => Renews(row) # 0
<1>1. PICK point \in {"refresh", "query"} :
         Enter(s, point, why, row) /\ (point = "refresh" => Renews(row) # 0)
  <2> DEFINE renewable == IF provider = "meta" THEN why # "select" ELSE row.refresh # 0
  <2>1. Enter(s, IF old /\ renewable THEN "refresh" ELSE "query", why, row)
    BY DEF UseToken
  <2>2. renewable => Renews(row) # 0
    BY DEF Renews
  <2> QED
    BY <2>1, <2>2
<1>2. point \in Stages
  BY DEF Stages
<1> QED
  BY <1>1, <1>2, Enters

\* After a connection the row is connected, with what it has, and synced if it can be.
LEMMA Follows ==
    ASSUME LinkTypeOK, NEW s \in Operators, NEW row \in Link, NEW old, FollowUp(s, row, old)
    PROVE  /\ link' \in Link
           /\ LinkColumns(link', "connected", row.access, row.refresh, row.account)
           /\ stage' \in [Operators -> Stages] /\ purpose' \in [Operators -> Purposes]
           /\ known' \in [Operators -> Link] /\ lapsed' \in [Operators -> BOOLEAN]
           /\ \A r \in Operators \ {s} : /\ stage'[r] = stage[r] /\ purpose'[r] = purpose[r]
                                         /\ known'[r] = known[r]
           /\ \/ stage'[s] = "idle" /\ known'[s] = NoLink
              \/ /\ stage'[s] \in {"refresh", "query"} /\ known'[s] = row /\ row.access # 0
                 /\ provider # "linkedin" => row.account # Unbound
                 /\ stage'[s] = "refresh" => Renews(row) # 0
<1>1. CASE Syncable(row)
  <2>1. /\ row.status = "connected" /\ row.access # 0 /\ link' = row
        /\ UseToken(s, "first", row, old)
        /\ provider = "linkedin" \/ row.account # Unbound
    BY <1>1 DEF FollowUp, Syncable
  <2>2. "first" \in Purposes
    BY DEF Purposes
  <2> QED
    BY <2>1, <2>2, Uses, LinkFields
<1>2. CASE ~Syncable(row)
  <2>1. link' = [row EXCEPT !.status = "connected"] /\ Enter(s, "idle", "none", NoLink)
    BY <1>2 DEF FollowUp, End
  <2>2. NoLink \in Link /\ "idle" \in Stages /\ "none" \in Purposes
    BY DEF NoLink, Link, Stages, Purposes
  <2>3. link' \in Link /\ LinkColumns(link', "connected", row.access, row.refresh, row.account)
    BY <2>1 DEF Link, LinkColumns
  <2> QED
    BY <2>1, <2>2, <2>3, Enters
<1> QED
  BY <1>1, <1>2

\* The row a commit leaves, where a session sets the account, the token, or the status.
LEMMA CommitsAccount ==
    ASSUME LinkTypeOK, NEW s \in Operators, NEW blind \in BOOLEAN, NEW account \in Listed
    PROVE  /\ Committed(s, [account |-> account], blind) \in Link
           /\ Committed(s, [account |-> account], blind).access = link.access
           /\ Committed(s, [account |-> account], blind).refresh = link.refresh
           /\ Committed(s, [account |-> account], blind).status = link.status
           /\ link = known[s] => Committed(s, [account |-> account], blind).account = account
<1> DEFINE bound == IF blind \/ account # known[s].account THEN account ELSE link.account
<1>1. link \in Link /\ known[s] \in Link
  BY DEF LinkTypeOK
<1>2. LinkColumns(Committed(s, [account |-> account], blind), link.status, link.access, link.refresh, bound)
  BY <1>1, LinkFields DEF Committed, LinkColumns
<1>3. bound \in Listed \cup {Unbound} /\ (link = known[s] => bound = account)
  BY <1>1 DEF Link
<1> HIDE DEF bound
<1> QED
  BY <1>1, <1>2, <1>3 DEF LinkColumns, Link

LEMMA CommitsToken ==
    ASSUME LinkTypeOK, NEW s \in Operators, NEW grant \in Consents
    PROVE  LET row == Committed(s, [access |-> grant], FALSE) IN
           /\ row \in Link /\ LinkColumns(row, link.status, grant, link.refresh, link.account)
<1>1. link \in Link /\ grant # 0
  BY DEF LinkTypeOK, Consents
<1> DEFINE row == Committed(s, [access |-> grant], FALSE)
<1>2. LinkColumns(row, link.status, grant, link.refresh, link.account)
  BY <1>1, LinkFields DEF Committed, LinkColumns
<1> HIDE DEF row
<1>3. row \in Link
  BY <1>1, <1>2 DEF LinkColumns, Link
<1> QED
  BY <1>2, <1>3 DEF row

LEMMA CommitsStatus ==
    ASSUME LinkTypeOK, NEW s \in Operators, NEW blind \in BOOLEAN,
           NEW status \in {"connected", "error", "needs_reauth"}
    PROVE  LET row == Committed(s, [status |-> status], blind) IN
           /\ row \in Link /\ row.access = link.access
           /\ LinkColumns(row, row.status, link.access, link.refresh, link.account)
           /\ row.status \in {status, link.status}
           /\ link = known[s] => row.status = status
<1>1. link \in Link /\ known[s] \in Link
  BY DEF LinkTypeOK
<1>2. LinkColumns(Committed(s, [status |-> status], blind),
                  IF blind \/ status # known[s].status THEN status ELSE link.status,
                  link.access, link.refresh, link.account)
  BY <1>1, LinkFields DEF Committed, LinkColumns
<1> QED
  BY <1>1, <1>2 DEF LinkColumns, Link

-----------------------------------------------------------------------------
(* Every step of a connector *)

\* A step that leaves the sessions alone.
LEMMA RowLink ==
    ASSUME LinkTyped, UNCHANGED <<provider, stage, purpose, known, lapsed, sees>>,
           link' \in Link, link'.access \in {link.access, 0}, link'.refresh \in {link.refresh, 0},
           expiring' \in BOOLEAN, stray' \in BOOLEAN, mixed' = mixed, withdrawn' \subseteq DOMAIN sees
    PROVE  LinkTyped'
<1>1. Len(sees) \in Nat
  BY DEF LinkTyped, LinkTypeOK
<1>2. ConsentInv'
  BY <1>1 DEF LinkTyped, ConsentInv, Renews
<1>3. LinkTypeOK'
  BY DEF LinkTyped, LinkTypeOK
<1> QED
  BY <1>2, <1>3 DEF LinkTyped

\* A session that has a row it may ask with, while the row is still that one and nothing is
\* stray, proves that the row is not disconnected.
LEMMA AskingIsConnected ==
    ASSUME LinkTyped, LinkIsCoherent, ~stray, NEW s \in Operators, stage[s] \in Asking, link = known[s]
    PROVE  link.access # 0 /\ link.status # "disconnected"
BY DEF LinkTyped, ConsentInv, LinkIsCoherent

\* Requests that await nothing, time and the provider.
LEMMA RequestsKeep ==
    ASSUME LinkTyped, LinkIsCoherent,
           \/ OauthStart \/ Disconnect \/ LinkAges \/ \E account \in Listed : Connect(account)
           \/ (\E g \in DOMAIN sees \ withdrawn : Withdraw(g)) \/ UNCHANGED integrationVars
    PROVE  LinkTyped' /\ LinkIsCoherent'
<1>0. /\ link \in Link /\ expiring \in BOOLEAN /\ stray \in BOOLEAN
      /\ withdrawn \subseteq DOMAIN sees
  BY DEF LinkTyped, LinkTypeOK
<1>1. ASSUME OauthStart PROVE LinkTyped' /\ LinkIsCoherent'
  <2>1. /\ link' = [link EXCEPT !.status = "pending"]
        /\ UNCHANGED <<provider, sees, withdrawn, expiring, stage, purpose, known, lapsed, stray, mixed>>
    BY <1>1 DEF OauthStart, Unchanged, sessionVars
  <2>2. LinkColumns(link', "pending", link.access, link.refresh, link.account)
    BY <1>0, <2>1 DEF Link, LinkColumns
  <2>3. link' \in Link
    BY <1>0, <2>1 DEF Link
  <2> QED
    BY <1>0, <2>1, <2>2, <2>3, RowLink DEF LinkColumns, LinkIsCoherent
<1>2. ASSUME Disconnect PROVE LinkTyped' /\ LinkIsCoherent'
  <2>1. /\ link' = ClearedTokens /\ expiring' = FALSE /\ stray' = FALSE
        /\ UNCHANGED <<provider, sees, withdrawn, stage, purpose, known, lapsed, mixed>>
    BY <1>2 DEF Disconnect, Unchanged, sessionVars
  <2>2. link'.status = "disconnected" /\ link'.access = 0 /\ link'.refresh = 0
    BY <1>0, <2>1 DEF ClearedTokens, Link
  <2>3. link' \in Link
    BY <1>0, <2>1 DEF ClearedTokens, Link
  <2>4. LinkTyped'
    BY <1>0, <2>1, <2>2, <2>3, RowLink
  <2> QED
    BY <2>2, <2>4 DEF LinkIsCoherent
<1>3. ASSUME NEW account \in Listed, Connect(account) PROVE LinkTyped' /\ LinkIsCoherent'
  <2>1. /\ link' = [link EXCEPT !.status = "connected", !.account = account] /\ stray' = TRUE
        /\ UNCHANGED <<provider, sees, withdrawn, expiring, stage, purpose, known, lapsed, mixed>>
    BY <1>3 DEF Connect, Unchanged, sessionVars
  <2>2. link' \in Link /\ link'.access = link.access /\ link'.refresh = link.refresh
    BY <1>0, <2>1 DEF Link
  <2> QED
    BY <1>0, <2>1, <2>2, RowLink DEF LinkIsCoherent
<1>4. ASSUME \/ LinkAges \/ (\E g \in DOMAIN sees \ withdrawn : Withdraw(g))
             \/ UNCHANGED integrationVars
      PROVE  LinkTyped' /\ LinkIsCoherent'
  <2>1. /\ UNCHANGED <<provider, link, sees, stage, purpose, known, lapsed, stray, mixed>>
        /\ expiring' \in BOOLEAN /\ withdrawn' \subseteq DOMAIN sees
    BY <1>0, <1>4 DEF LinkAges, Withdraw, integrationVars, Unchanged, sessionVars
  <2> QED
    BY <1>0, <2>1, RowLink DEF LinkIsCoherent
<1> QED
  BY <1>1, <1>2, <1>3, <1>4

\* An authorization binds tokens and an account that its grant can see.
LEMMA CompleteKeeps ==
    ASSUME LinkTyped, LinkIsCoherent, NEW s \in Operators, Complete(s)
    PROVE  LinkTyped' /\ LinkIsCoherent' /\ stage'[s] # "authorize"
<1> DEFINE grant == Len(sees) + 1
<1>1. /\ stage[s] = "authorize" /\ grant \in Consents
      /\ expiring' = FALSE /\ stray' = (link # known[s]) /\ mixed' = FALSE /\ UNCHANGED <<provider, withdrawn>>
  BY DEF Complete, LinkTyped, LinkTypeOK, Consents
<1>2. PICK visible \in SUBSET Listed, refresh \in RefreshTokens(s, grant) :
      \E account \in Bindable(visible) :
         LET row == Committed(s, Connected(s, grant, refresh, account), FALSE) IN
         /\ sees' = Append(sees, visible)
         /\ \/ link' = row /\ End(s)
            \/ FollowUp(s, row, FALSE)
  BY DEF Complete
<1>3. PICK account \in Bindable(visible) :
         LET row == Committed(s, Connected(s, grant, refresh, account), FALSE) IN
         /\ sees' = Append(sees, visible)
         /\ \/ link' = row /\ End(s)
            \/ FollowUp(s, row, FALSE)
  BY <1>2
<1>4. Len(sees) \in Nat /\ grant = Len(sees) + 1 /\ grant # 0
  BY DEF LinkTyped, LinkTypeOK
<1> HIDE DEF grant
<1> DEFINE row == Committed(s, Connected(s, grant, refresh, account), FALSE)
<1>5. /\ refresh \in {0} \cup Consents /\ account \in visible \cup {Unbound}
      /\ refresh \in {0, grant, known[s].refresh}
  BY <1>1, <1>2, <1>3 DEF RefreshTokens, Bindable, LinkTyped, LinkTypeOK, Link
<1>6. /\ row \in Link /\ row.access = grant /\ row.refresh \in {refresh, link.refresh}
      /\ link = known[s] => LinkColumns(row, "connected", grant, refresh, account)
  <2> DEFINE new == Connected(s, grant, refresh, account)
             status == IF new.status # known[s].status THEN new.status ELSE link.status
             second == IF new.refresh # known[s].refresh THEN new.refresh ELSE link.refresh
             bound == IF new.account # known[s].account THEN new.account ELSE link.account
  <2>1. link \in Link /\ known[s] \in Link /\ account \in Listed \cup {Unbound}
    BY <1>2, <1>5 DEF LinkTyped, LinkTypeOK
  <2>2. LinkColumns(new, "connected", grant, refresh, account) /\ DOMAIN new = {"status", "access", "refresh", "account"}
    BY DEF Connected, LinkColumns
  <2>3. row = Committed(s, new, FALSE) /\ grant # 0
    BY <1>4
  <2> HIDE DEF row, new
  <2>4. LinkColumns(row, status, grant, second, bound)
    BY <2>1, <2>2, <2>3, LinkFields DEF Committed, LinkColumns
  <2>5. new.status = "connected" /\ new.refresh = refresh /\ new.account = account
    BY <2>2 DEF LinkColumns
  <2>6. /\ status \in {"none", "pending", "connected", "error", "needs_reauth", "disconnected"}
        /\ second \in {0} \cup Consents /\ second \in {refresh, link.refresh} /\ bound \in Listed \cup {Unbound}
    BY <1>5, <2>1, <2>5 DEF Link
  <2>7. link = known[s] => status = "connected" /\ second = refresh /\ bound = account
    BY <2>5
  <2>8. row = [status |-> status, access |-> grant, refresh |-> second, account |-> bound]
    BY <2>4 DEF LinkColumns
  <2> HIDE DEF status, second, bound
  <2>9. row \in Link /\ row.access = grant /\ row.refresh \in {refresh, link.refresh}
    BY <1>1, <2>6, <2>8 DEF Link
  <2> QED
    BY <2>7, <2>8, <2>9 DEF LinkColumns
<1>7. /\ sees \in Seq(SUBSET Listed) /\ Len(sees) \in Nat /\ link \in Link
      /\ withdrawn \subseteq DOMAIN sees
  BY DEF LinkTyped, LinkTypeOK
<1>100. mixed' \in BOOLEAN
  BY <1>1
<1>70. row.refresh <= grant
  <2>1. /\ link.refresh <= Len(sees) /\ known[s].refresh <= Len(sees)
        /\ link.refresh \in Nat /\ known[s].refresh \in Nat
    BY <1>7 DEF LinkTyped, LinkTypeOK, ConsentInv, Link, Consents
  <2>2. refresh <= grant /\ link.refresh <= grant
    BY <1>4, <1>5, <2>1
  <2> QED
    BY <1>6, <2>2
<1>8. /\ sees' \in Seq(SUBSET Listed) /\ Len(sees') = grant /\ sees'[grant] = visible
      /\ DOMAIN sees \subseteq DOMAIN sees'
      /\ Len(sees) <= Len(sees') /\ Len(sees') <= MaxConsents
  BY <1>1, <1>3, <1>4, <1>7 DEF Consents
<1> HIDE DEF row
\* What was written over the row that was loaded, with an account out of those seen.
<1>9. ASSUME ~stray', link'.status = "connected", link'.access = grant,
              link'.account \in visible \cup {Unbound}
       PROVE  LinkIsCoherent'
  BY <1>9, <1>4, <1>8 DEF LinkIsCoherent
<1>10. CASE link' = row /\ End(s)
  <2>1. /\ NoLink \in Link /\ "idle" \in Stages /\ "none" \in Purposes
        /\ NoLink.access = 0 /\ NoLink.refresh = 0
    BY DEF NoLink, Link, Stages, Purposes
  <2>2. /\ stage' \in [Operators -> Stages] /\ purpose' \in [Operators -> Purposes]
        /\ known' \in [Operators -> Link] /\ lapsed' \in [Operators -> BOOLEAN]
        /\ stage'[s] = "idle" /\ known'[s] = NoLink
        /\ \A r \in Operators \ {s} : /\ stage'[r] = stage[r] /\ purpose'[r] = purpose[r]
                                      /\ known'[r] = known[r]
    BY <1>10, <2>1, Enters DEF End, LinkTyped
  <2>3. /\ stray' \in BOOLEAN /\ withdrawn' \subseteq DOMAIN sees' /\ link'.access <= Len(sees')
        /\ known'[s].access <= Len(sees') /\ stage'[s] \notin Asking /\ stage'[s] # "refresh"
    BY <1>1, <1>4, <1>6, <1>7, <1>8, <1>10, <2>1, <2>2 DEF Asking
  <2>6. link'.refresh <= Len(sees') /\ known'[s].refresh <= Len(sees')
    BY <1>1, <1>7, <1>70, <1>8, <1>10, <2>1, <2>2
  <2>4. LinkTyped'
    BY <1>1, <1>6, <1>8, <1>10, <2>2, <1>100, <2>3, <2>6, OthersLink
  <2>5. LinkIsCoherent'
    <3>1. CASE stray'
      BY <3>1 DEF LinkIsCoherent
    <3>2. CASE ~stray'
      <4>1. LinkColumns(link', "connected", grant, refresh, account)
        BY <1>1, <1>6, <1>10, <3>2
      <4> QED
        BY <1>9, <1>5, <3>2, <4>1 DEF LinkColumns
    <3> QED
      BY <3>1, <3>2
  <2> QED
    BY <2>2, <2>4, <2>5
<1>11. CASE FollowUp(s, row, FALSE)
  <2>1. /\ link' \in Link
        /\ LinkColumns(link', "connected", row.access, row.refresh, row.account)
        /\ stage' \in [Operators -> Stages] /\ purpose' \in [Operators -> Purposes]
        /\ known' \in [Operators -> Link] /\ lapsed' \in [Operators -> BOOLEAN]
        /\ \A r \in Operators \ {s} : /\ stage'[r] = stage[r] /\ purpose'[r] = purpose[r]
                                      /\ known'[r] = known[r]
        /\ \/ stage'[s] = "idle" /\ known'[s] = NoLink
           \/ /\ stage'[s] \in {"refresh", "query"} /\ known'[s] = row /\ row.access # 0
              /\ provider # "linkedin" => row.account # Unbound
              /\ stage'[s] = "refresh" => Renews(row) # 0
    BY <1>6, <1>11, Follows DEF LinkTyped
  <2>2. /\ NoLink.access = 0 /\ NoLink.refresh = 0 /\ link'.access = grant
        /\ link'.account = row.account /\ link'.refresh = row.refresh /\ link'.status = "connected"
    BY <1>6, <2>1 DEF NoLink, LinkColumns
  <2>3. /\ stray' \in BOOLEAN /\ withdrawn' \subseteq DOMAIN sees' /\ link'.access <= Len(sees')
        /\ known'[s].access <= Len(sees')
        /\ stage'[s] \in Asking => known'[s].access # 0
        /\ stage'[s] = "refresh" /\ provider # "linkedin" => known'[s].account # Unbound
        /\ stage'[s] = "refresh" => Renews(known'[s]) # 0
    BY <1>1, <1>4, <1>6, <1>7, <1>8, <2>1, <2>2 DEF Asking
  <2>6. link'.refresh <= Len(sees') /\ known'[s].refresh <= Len(sees')
    BY <1>1, <1>7, <1>70, <1>8, <2>1, <2>2
  <2>4. LinkTyped'
    BY <1>1, <1>8, <2>1, <1>100, <2>3, <2>6, OthersLink
  <2>5. LinkIsCoherent'
    <3>1. CASE stray'
      BY <3>1 DEF LinkIsCoherent
    <3>2. CASE ~stray'
      <4>1. LinkColumns(row, "connected", grant, refresh, account)
        BY <1>1, <1>6, <3>2
      <4> QED
        BY <1>9, <1>5, <2>2, <3>2, <4>1 DEF LinkColumns
    <3> QED
      BY <3>1, <3>2
  <2> QED
    BY <2>1, <2>4, <2>5
<1> QED
  BY <1>3, <1>10, <1>11 DEF row

\* A selection binds an account that the token it asked with can see.
LEMMA SelectKeeps ==
    ASSUME LinkTyped, LinkIsCoherent, NEW s \in Operators, SelectAccount(s)
    PROVE  /\ LinkTyped' /\ LinkIsCoherent'
           /\ link.status = "disconnected" => stray'
<1>1. /\ stage[s] = "query" /\ stray' = (stray \/ link # known[s]) /\ mixed' = FALSE
      /\ UNCHANGED <<provider, sees, withdrawn, expiring>>
  BY DEF SelectAccount, Unchanged
<1>2. PICK account \in sees[known[s].access] :
         FollowUp(s, Committed(s, [account |-> account], lapsed[s]), expiring)
  BY DEF SelectAccount
<1>3. /\ sees \in Seq(SUBSET Listed) /\ Len(sees) \in Nat /\ Len(sees) <= MaxConsents
      /\ withdrawn \subseteq DOMAIN sees
      /\ link \in Link /\ known[s] \in Link /\ lapsed[s] \in BOOLEAN
      /\ expiring \in BOOLEAN /\ stray \in BOOLEAN
  BY DEF LinkTyped, LinkTypeOK
<1>4. known[s].access \in 1 .. Len(sees) /\ link.access <= Len(sees) /\ link.refresh <= Len(sees)
  BY <1>1, <1>3 DEF LinkTyped, ConsentInv, Asking, Link, Consents
<1>5. account \in Listed
  <2>1. sees[known[s].access] \in SUBSET Listed
    BY <1>3, <1>4
  <2> QED
    BY <1>2, <2>1
<1>6. PICK blind \in BOOLEAN : blind = lapsed[s]
  BY <1>3
<1> DEFINE row == Committed(s, [account |-> account], blind)
<1>100. mixed' \in BOOLEAN
  BY <1>1
<1>7. /\ row \in Link /\ row.access = link.access /\ row.refresh = link.refresh
      /\ link = known[s] => row.account = account
  <2>1. LinkTypeOK
    BY DEF LinkTyped
  <2>2. row \in Link /\ row.access = link.access /\ row.refresh = link.refresh
    BY <1>5, <1>6, <2>1, CommitsAccount
  <2>3. ASSUME link = known[s] PROVE row.account = account
    BY <1>5, <1>6, <2>1, <2>3, CommitsAccount
  <2> QED
    BY <2>2, <2>3
<1> HIDE DEF row
<1>8. /\ link' \in Link
      /\ LinkColumns(link', "connected", row.access, row.refresh, row.account)
      /\ stage' \in [Operators -> Stages] /\ purpose' \in [Operators -> Purposes]
      /\ known' \in [Operators -> Link] /\ lapsed' \in [Operators -> BOOLEAN]
      /\ \A r \in Operators \ {s} : /\ stage'[r] = stage[r] /\ purpose'[r] = purpose[r]
                                    /\ known'[r] = known[r]
      /\ \/ stage'[s] = "idle" /\ known'[s] = NoLink
         \/ /\ stage'[s] \in {"refresh", "query"} /\ known'[s] = row /\ row.access # 0
            /\ provider # "linkedin" => row.account # Unbound
            /\ stage'[s] = "refresh" => Renews(row) # 0
  BY <1>2, <1>6, <1>7, Follows DEF LinkTyped, row
<1>9. /\ NoLink.access = 0 /\ NoLink.refresh = 0 /\ link'.access = link.access
      /\ link'.refresh = link.refresh /\ link'.account = row.account /\ link'.status = "connected"
  BY <1>7, <1>8 DEF NoLink, LinkColumns
<1>10. LinkTyped'
  <2>1. /\ stray' \in BOOLEAN /\ known'[s].access <= Len(sees)
        /\ stage'[s] \in Asking => known'[s].access # 0
        /\ stage'[s] = "refresh" /\ provider # "linkedin" => known'[s].account # Unbound
        /\ stage'[s] = "refresh" => Renews(known'[s]) # 0
    BY <1>1, <1>3, <1>4, <1>7, <1>8, <1>9 DEF Asking
  <2>2. known'[s].refresh <= Len(sees)
    BY <1>1, <1>3, <1>4, <1>7, <1>8, <1>9
  <2> QED
    BY <1>1, <1>3, <1>4, <1>8, <1>9, <1>100, <2>1, <2>2, OthersLink
<1>11. ASSUME ~stray' PROVE LinkIsCoherent' /\ link.status # "disconnected"
  <2>1. ~stray /\ link = known[s] /\ row.account = account
    BY <1>1, <1>11, <1>7
  <2>2. link.access # 0 /\ link.status # "disconnected"
    BY <1>1, <2>1, AskingIsConnected DEF Asking
  <2> QED
    BY <1>1, <1>2, <1>9, <2>1, <2>2 DEF LinkIsCoherent
<1> QED
  BY <1>10, <1>11 DEF LinkIsCoherent

\* A session that commits over the row it loaded leaves it coherent; over another, stray.
LEMMA WriteKeeps ==
    ASSUME LinkTyped, LinkIsCoherent, NEW s \in Operators, stage[s] \in Asking,
           NEW status \in {"connected", "error", "needs_reauth"}, NEW blind \in BOOLEAN,
           Write(s, [status |-> status], blind), sees' = sees, mixed' = mixed
    PROVE  /\ link' \in Link /\ link'.access = link.access /\ link'.refresh = link.refresh
           /\ stray' \in BOOLEAN
           /\ LinkIsCoherent'
           /\ link.status = "disconnected" /\ link'.status # "disconnected" => stray'
<1> DEFINE row == Committed(s, [status |-> status], blind)
<1>1. /\ row \in Link /\ row.access = link.access
      /\ LinkColumns(row, row.status, link.access, link.refresh, link.account)
      /\ row.status \in {status, link.status}
      /\ link = known[s] => row.status = status
  BY CommitsStatus DEF LinkTyped
<1>2. link' = row /\ stray' = (stray \/ (link # known[s] /\ link' # link))
  BY DEF Write
<1> HIDE DEF row
<1>3. stray \in BOOLEAN
  BY DEF LinkTyped, LinkTypeOK
<1>4. ASSUME ~stray', link' # link PROVE LinkIsCoherent' /\ link.status # "disconnected"
  <2>1. ~stray /\ link = known[s]
    BY <1>2, <1>4
  <2>2. link.access # 0 /\ link.status # "disconnected"
    BY <2>1, AskingIsConnected
  <2>3. link'.status = status /\ link'.access = link.access /\ link'.account = link.account
    BY <1>1, <1>2, <2>1 DEF LinkColumns
  <2> QED
    BY <2>1, <2>2, <2>3 DEF LinkIsCoherent
<1>5. ASSUME link' = link PROVE LinkIsCoherent'
  BY <1>2, <1>5 DEF LinkIsCoherent
<1>6. stray' => LinkIsCoherent'
  BY DEF LinkIsCoherent
<1> QED
  BY <1>1, <1>2, <1>3, <1>4, <1>5, <1>6 DEF LinkColumns

\* A session that stores a renewed token stores one of a grant it had loaded; it is the grant
\* the account was listed for, or the row is known to mix two.
LEMMA SaveKeeps ==
    ASSUME LinkTyped, LinkIsCoherent, NEW s \in Operators, SaveToken(s)
    PROVE  LinkTyped' /\ LinkIsCoherent' /\ link'.status = link.status
<1> DEFINE grant == Renews(known[s])
           row   == Committed(s, [access |-> grant], FALSE)
<1>1. /\ stage[s] = "refresh" /\ link' = row /\ expiring' = FALSE
      /\ stray' = (stray \/ (link # known[s] /\ link' # link))
      /\ mixed' = (mixed \/ grant # known[s].access)
      /\ stage' = [stage EXCEPT ![s] = "query"]
      /\ \/ lapsed' = [lapsed EXCEPT ![s] = TRUE] /\ known' = [known EXCEPT ![s].access = grant]
         \/ known' = [known EXCEPT ![s] = link'] /\ UNCHANGED lapsed
      /\ UNCHANGED <<provider, sees, withdrawn, purpose>>
  BY DEF SaveToken, Write, Unchanged
<1>2. /\ link \in Link /\ known \in [Operators -> Link] /\ stray \in BOOLEAN /\ mixed \in BOOLEAN
      /\ stage \in [Operators -> Stages] /\ purpose \in [Operators -> Purposes]
      /\ lapsed \in [Operators -> BOOLEAN]
      /\ sees \in Seq(SUBSET Listed) /\ Len(sees) \in Nat /\ Len(sees) <= MaxConsents
      /\ withdrawn \subseteq DOMAIN sees
  BY DEF LinkTyped, LinkTypeOK, Stages, Purposes
<1>3. /\ known[s] \in Link /\ known[s].access # 0 /\ grant # 0
      /\ grant <= Len(sees) /\ known[s].refresh <= Len(sees) /\ link.refresh <= Len(sees)
      /\ grant \in {known[s].access, known[s].refresh}
  BY <1>1, <1>2 DEF LinkTyped, ConsentInv, Asking, Renews
<1>4. grant \in Consents
  BY <1>3 DEF Link
<1>5. row \in Link /\ LinkColumns(row, link.status, grant, link.refresh, link.account)
  BY <1>4, CommitsToken DEF LinkTyped
<1> HIDE DEF row, grant
<1>6. /\ row.status = link.status /\ row.access = grant /\ row.refresh = link.refresh
      /\ row.account = link.account
  BY <1>5 DEF LinkColumns
<1>7. \E held \in Link : /\ known' = [known EXCEPT ![s] = held]
                          /\ held.access = grant /\ held.refresh \in {known[s].refresh, link.refresh}
  <2>1. CASE known' = [known EXCEPT ![s].access = grant]
    <3>1. /\ [known[s] EXCEPT !.access = grant] \in Link
          /\ [known[s] EXCEPT !.access = grant].access = grant
          /\ [known[s] EXCEPT !.access = grant].refresh = known[s].refresh
      BY <1>3, <1>4 DEF Link
    <3> QED
      BY <1>2, <2>1, <3>1
  <2>2. CASE known' = [known EXCEPT ![s] = link']
    BY <1>1, <1>5, <1>6, <2>2
  <2> QED
    BY <1>1, <2>1, <2>2
<1>70. /\ known' \in [Operators -> Link] /\ known'[s].access = grant
       /\ known'[s].refresh \in {known[s].refresh, link.refresh}
       /\ \A r \in Operators \ {s} : known'[r] = known[r]
  BY <1>2, <1>7
<1>8. /\ stage' \in [Operators -> Stages] /\ stage'[s] = "query" /\ known' \in [Operators -> Link]
      /\ lapsed' \in [Operators -> BOOLEAN] /\ stray' \in BOOLEAN /\ mixed' \in BOOLEAN
      /\ known'[s].access = grant /\ known'[s].refresh \in {known[s].refresh, link.refresh}
      /\ \A r \in Operators \ {s} : stage'[r] = stage[r] /\ known'[r] = known[r]
  BY <1>1, <1>2, <1>70 DEF Stages
<1>9. LinkTyped'
  <2>1. /\ link' \in Link /\ link'.access <= Len(sees') /\ link'.refresh <= Len(sees')
        /\ known'[s].access <= Len(sees') /\ known'[s].refresh <= Len(sees')
        /\ known'[s].access # 0 /\ stage'[s] # "refresh"
        /\ Len(sees) <= Len(sees') /\ Len(sees') <= MaxConsents /\ purpose' = purpose
    BY <1>1, <1>2, <1>3, <1>5, <1>6, <1>8
  <2>2. /\ provider' = provider /\ sees' \in Seq(SUBSET Listed) /\ withdrawn' \subseteq DOMAIN sees'
        /\ expiring' \in BOOLEAN
    BY <1>1, <1>2
  <2> QED
    BY <1>2, <1>8, <2>1, <2>2, OthersLink
<1>10. LinkIsCoherent'
  <2>1. CASE stray'
    BY <2>1 DEF LinkIsCoherent
  <2>2. CASE ~stray' /\ link' = link
    BY <1>1, <2>2 DEF LinkIsCoherent
  <2>3. CASE ~stray' /\ link = known[s]
    <3>1. ~stray /\ link.access # 0 /\ link.status # "disconnected"
      BY <1>1, <1>3, <2>3 DEF LinkIsCoherent
    <3>2. CASE grant = known[s].access
      BY <1>1, <1>6, <2>3, <3>1, <3>2 DEF LinkIsCoherent
    <3>3. CASE grant # known[s].access
      BY <1>1, <1>3, <1>6, <3>1, <3>3 DEF LinkIsCoherent
    <3> QED
      BY <3>2, <3>3
  <2> QED
    BY <1>1, <2>1, <2>2, <2>3
<1> QED
  BY <1>1, <1>6, <1>9, <1>10

\* A session begins to ask, or goes on, with the row it loaded, and writes nothing.
LEMMA BeginsKeep ==
    ASSUME LinkTyped, LinkIsCoherent, NEW s \in Operators,
           \/ BeginComplete(s) \/ BeginSelect(s) \/ BeginSync(s) \/ UseStored(s) \/ GiveUp(s)
    PROVE  LinkTyped' /\ LinkIsCoherent' /\ link' = link
<1>0. /\ link \in Link /\ known \in [Operators -> Link] /\ stray \in BOOLEAN /\ mixed \in BOOLEAN
      /\ stage \in [Operators -> Stages] /\ purpose \in [Operators -> Purposes]
      /\ lapsed \in [Operators -> BOOLEAN] /\ expiring \in BOOLEAN
      /\ sees \in Seq(SUBSET Listed) /\ Len(sees) \in Nat /\ Len(sees) <= MaxConsents
      /\ withdrawn \subseteq DOMAIN sees /\ link.access <= Len(sees) /\ link.refresh <= Len(sees)
      /\ known[s].access <= Len(sees) /\ known[s].refresh <= Len(sees)
  BY DEF LinkTyped, LinkTypeOK, ConsentInv, Stages, Purposes
<1>1. UNCHANGED <<provider, sees, withdrawn, link, expiring, stray, mixed>>
  BY DEF BeginComplete, BeginSelect, BeginSync, UseStored, GiveUp, Unchanged
<1>2. /\ NoLink \in Link /\ NoLink.access = 0 /\ NoLink.refresh = 0 /\ {"idle", "authorize"} \subseteq Stages
      /\ {"none", "complete", "select", "sync"} \subseteq Purposes
  BY DEF NoLink, Link, Stages, Purposes
<1>3. /\ stage' \in [Operators -> Stages] /\ purpose' \in [Operators -> Purposes]
      /\ known' \in [Operators -> Link] /\ lapsed' \in [Operators -> BOOLEAN]
      /\ \A r \in Operators \ {s} : /\ stage'[r] = stage[r] /\ purpose'[r] = purpose[r]
                                    /\ known'[r] = known[r]
      /\ known'[s] \in {link, NoLink, known[s]}
      /\ stage'[s] \in Asking => known'[s].access # 0
      /\ stage'[s] = "refresh" /\ purpose'[s] # "select" /\ provider # "linkedin"
         => known'[s].account # Unbound
      /\ stage'[s] = "refresh" => Renews(known'[s]) # 0
  <2>1. CASE BeginComplete(s)
    <3>1. Enter(s, "authorize", "complete", link)
      BY <2>1 DEF BeginComplete
    <3> QED
      BY <1>0, <1>2, <3>1, Enters DEF LinkTyped, Asking
  <2>2. CASE BeginSelect(s)
    <3>1. link.access # 0 /\ UseToken(s, "select", link, expiring)
      BY <2>2 DEF BeginSelect
    <3> QED
      BY <1>0, <1>2, <3>1, Uses DEF LinkTyped
  <2>3. CASE BeginSync(s)
    <3>1. /\ link.access # 0 /\ (provider = "linkedin" \/ link.account # Unbound)
          /\ UseToken(s, "sync", link, expiring)
      BY <2>3 DEF BeginSync, Syncable
    <3> QED
      BY <1>0, <1>2, <3>1, Uses DEF LinkTyped
  <2>4. CASE UseStored(s)
    <3>1. /\ stage[s] = "refresh" /\ stage' = [stage EXCEPT ![s] = "query"]
          /\ UNCHANGED <<purpose, known, lapsed>>
      BY <2>4 DEF UseStored
    <3> QED
      BY <1>0, <3>1 DEF Stages, Asking, LinkTyped, ConsentInv
  <2>5. CASE GiveUp(s)
    <3>1. Enter(s, "idle", "none", NoLink)
      BY <2>5 DEF GiveUp, End
    <3> QED
      BY <1>0, <1>2, <3>1, Enters DEF LinkTyped, Asking
  <2> QED
    BY <2>1, <2>2, <2>3, <2>4, <2>5
<1>4. LinkTyped'
  <2>1. /\ known'[s].access <= Len(sees') /\ known'[s].refresh <= Len(sees')
        /\ Len(sees) <= Len(sees') /\ mixed' \in BOOLEAN
        /\ link' \in Link /\ link'.access <= Len(sees') /\ link'.refresh <= Len(sees') /\ expiring' \in BOOLEAN /\ stray' \in BOOLEAN
        /\ sees' \in Seq(SUBSET Listed) /\ Len(sees') <= MaxConsents /\ withdrawn' \subseteq DOMAIN sees'
        /\ provider' = provider
    BY <1>0, <1>1, <1>2, <1>3
  <2> QED
    BY <1>3, <2>1, OthersLink
<1> QED
  BY <1>1, <1>4 DEF LinkIsCoherent

\* A session commits the outcome of what it asked.
LEMMA OutcomesKeep ==
    ASSUME LinkTyped, LinkIsCoherent, NEW s \in Operators,
           SyncFails(s) \/ SyncRefused(s) \/ SyncOk(s) \/ Override(s)
    PROVE  /\ LinkTyped' /\ LinkIsCoherent'
           /\ link.status = "disconnected" /\ link'.status # "disconnected" => stray'
<1>0. /\ link \in Link /\ mixed \in BOOLEAN /\ known \in [Operators -> Link]
      /\ stage \in [Operators -> Stages] /\ purpose \in [Operators -> Purposes]
      /\ lapsed \in [Operators -> BOOLEAN] /\ expiring \in BOOLEAN
      /\ sees \in Seq(SUBSET Listed) /\ Len(sees) \in Nat /\ Len(sees) <= MaxConsents
      /\ withdrawn \subseteq DOMAIN sees /\ link.access <= Len(sees) /\ link.refresh <= Len(sees)
      /\ known[s].access <= Len(sees) /\ known[s].refresh <= Len(sees)
  BY DEF LinkTyped, LinkTypeOK, ConsentInv, Stages, Purposes
<1>1. stage[s] \in Asking /\ UNCHANGED <<provider, sees, withdrawn, expiring, mixed>>
  BY DEF SyncFails, SyncRefused, SyncOk, Override, Syncs, Fail, Unchanged, Asking
<1>2. known[s].access # 0
  BY <1>1 DEF LinkTyped, ConsentInv
<1>3. PICK status \in {"connected", "error", "needs_reauth"}, blind \in BOOLEAN :
         Write(s, [status |-> status], blind)
  <2>1. lapsed[s] \in BOOLEAN
    BY <1>0
  <2> QED
    BY <2>1 DEF SyncFails, SyncRefused, SyncOk, Override, Fail
<1>4. /\ link' \in Link /\ link'.access = link.access /\ link'.refresh = link.refresh /\ stray' \in BOOLEAN /\ LinkIsCoherent'
      /\ link.status = "disconnected" /\ link'.status # "disconnected" => stray'
  BY <1>1, <1>3, WriteKeeps
\* The session ends, or has failed a first sync and goes on to override it.
<1>5. /\ stage' \in [Operators -> Stages] /\ purpose' \in [Operators -> Purposes]
      /\ known' \in [Operators -> Link] /\ lapsed' \in [Operators -> BOOLEAN]
      /\ \A r \in Operators \ {s} : /\ stage'[r] = stage[r] /\ purpose'[r] = purpose[r]
                                    /\ known'[r] = known[r]
      /\ stage'[s] \in {"idle", "failed"} /\ known'[s].access \in {0, known[s].access}
      /\ known'[s].refresh \in {0, known[s].refresh}
      /\ stage'[s] = "failed" => known'[s].access = known[s].access
  <2>1. CASE End(s)
    <3>1. NoLink \in Link /\ NoLink.access = 0 /\ NoLink.refresh = 0 /\ "idle" \in Stages /\ "none" \in Purposes
      BY DEF NoLink, Link, Stages, Purposes
    <3> QED
      BY <2>1, <3>1, Enters DEF End, LinkTyped
  <2>2. CASE \E to \in {"error", "needs_reauth"} :
                /\ stage' = [stage EXCEPT ![s] = "failed"] /\ known' = [known EXCEPT ![s].status = to]
                /\ lapsed' = [lapsed EXCEPT ![s] = TRUE] /\ UNCHANGED purpose
    <3>1. PICK to \in {"error", "needs_reauth"} : known' = [known EXCEPT ![s].status = to]
      BY <2>2
    <3>2. /\ [known[s] EXCEPT !.status = to] \in Link
          /\ [known[s] EXCEPT !.status = to].access = known[s].access
          /\ [known[s] EXCEPT !.status = to].refresh = known[s].refresh
      BY <1>0 DEF Link
    <3>3. /\ known' \in [Operators -> Link] /\ known'[s].access = known[s].access
          /\ known'[s].refresh = known[s].refresh
      BY <1>0, <3>1, <3>2
    <3> QED
      BY <1>0, <2>2, <3>1, <3>3 DEF Stages
  <2> QED
    BY <2>1, <2>2 DEF SyncFails, SyncRefused, SyncOk, Override, Fail
<1>6. LinkTyped'
  <2>1. /\ known'[s].access <= Len(sees') /\ known'[s].refresh <= Len(sees')
        /\ Len(sees) <= Len(sees') /\ mixed' \in BOOLEAN
        /\ link'.access <= Len(sees') /\ link'.refresh <= Len(sees') /\ expiring' \in BOOLEAN
        /\ sees' \in Seq(SUBSET Listed) /\ Len(sees') <= MaxConsents /\ withdrawn' \subseteq DOMAIN sees'
        /\ provider' = provider
    BY <1>0, <1>1, <1>4, <1>5
  <2>2. (stage'[s] \in Asking => known'[s].access # 0) /\ stage'[s] # "refresh"
    BY <1>2, <1>5 DEF Asking
  <2> QED
    BY <1>4, <1>5, <2>1, <2>2, OthersLink
<1> QED
  BY <1>4, <1>6

-----------------------------------------------------------------------------
(* What holds of a client's connector *)

LinkInv == LinkTyped /\ LinkIsCoherent

LEMMA LinkInitInv == IntegrationsInit => LinkInv
<1> SUFFICES ASSUME IntegrationsInit PROVE LinkInv
  OBVIOUS
<1>1. /\ provider \in Providers /\ link = NoLink /\ expiring = FALSE /\ sees = <<>> /\ withdrawn = {}
      /\ stage = [s \in Operators |-> "idle"] /\ purpose = [s \in Operators |-> "none"]
      /\ known = [s \in Operators |-> NoLink] /\ lapsed = [s \in Operators |-> FALSE]
      /\ stray = FALSE /\ mixed = FALSE
  BY DEF IntegrationsInit
<1>2. NoLink \in Link /\ NoLink.access = 0 /\ NoLink.refresh = 0 /\ NoLink.status = "none"
  BY DEF NoLink, Link
<1>3. <<>> \in Seq(SUBSET Listed) /\ Len(<<>>) = 0
  OBVIOUS
<1>4. LinkTypeOK
  <2>1. sees \in Seq(SUBSET Listed) /\ Len(sees) <= MaxConsents /\ withdrawn \subseteq DOMAIN sees
    BY <1>1, <1>3
  <2>2. \A s \in Operators : stage[s] = "idle"
    BY <1>1
  <2> QED
    BY <1>1, <1>2, <2>1, <2>2 DEF LinkTypeOK
<1>5. ConsentInv
  BY <1>1, <1>2, <1>3 DEF ConsentInv, Asking
<1> QED
  BY <1>1, <1>2, <1>4, <1>5 DEF LinkInv, LinkTyped, LinkIsCoherent

\* Every step keeps the connector coherent, and reconnects what is disconnected only by an
\* authorization that ends, or leaves it stray.
LEMMA LinkNextInv ==
    ASSUME LinkInv, [IntegrationsNext]_integrationVars
    PROVE  /\ LinkInv'
           /\ link.status = "disconnected" /\ link'.status \notin {"disconnected", "pending"}
              => stray' \/ \E s \in Operators : stage[s] = "authorize" /\ stage'[s] # "authorize"
<1>0. link \in Link
  BY DEF LinkInv, LinkTyped, LinkTypeOK
<1>1. ASSUME \/ OauthStart \/ Disconnect \/ LinkAges \/ \E account \in Listed : Connect(account)
             \/ (\E g \in DOMAIN sees \ withdrawn : Withdraw(g)) \/ UNCHANGED integrationVars
      PROVE  /\ LinkInv'
             /\ link'.status \in {link.status, "disconnected", "pending"} \/ stray'
  <2>1. LinkInv'
    BY <1>1, RequestsKeep DEF LinkInv
  <2>2. link'.status \in {link.status, "disconnected", "pending"} \/ stray'
    BY <1>0, <1>1 DEF OauthStart, Disconnect, ClearedTokens, LinkAges, Connect, Withdraw, Link, integrationVars
  <2> QED
    BY <2>1, <2>2
<1>2. ASSUME NEW s \in Operators, Complete(s)
      PROVE  LinkInv' /\ stage[s] = "authorize" /\ stage'[s] # "authorize"
  BY <1>2, CompleteKeeps DEF LinkInv, Complete
<1>3. ASSUME NEW s \in Operators, SelectAccount(s)
      PROVE  LinkInv' /\ (link.status = "disconnected" => stray')
  BY <1>3, SelectKeeps DEF LinkInv
<1>4. ASSUME NEW s \in Operators,
             \/ BeginComplete(s) \/ BeginSelect(s) \/ BeginSync(s) \/ UseStored(s) \/ GiveUp(s)
             \/ SaveToken(s)
      PROVE  LinkInv' /\ link'.status = link.status
  BY <1>4, BeginsKeep, SaveKeeps DEF LinkInv
<1>5. ASSUME NEW s \in Operators, SyncFails(s) \/ SyncRefused(s) \/ SyncOk(s) \/ Override(s)
      PROVE  LinkInv' /\ (link.status = "disconnected" /\ link'.status # "disconnected" => stray')
  BY <1>5, OutcomesKeep DEF LinkInv
<1> QED
  BY <1>1, <1>2, <1>3, <1>4, <1>5 DEF IntegrationsNext

LEMMA LinkInvariance == IntegrationsSpec => []LinkInv
<1>1. LinkInv /\ [IntegrationsNext]_integrationVars => LinkInv'
  BY LinkNextInv
<1> QED
  BY <1>1, LinkInitInv, PTL DEF IntegrationsSpec

\* A connector's status, tokens and account fit together (oauth_complete, select_account,
\* disconnect), whatever authorizations, selections, syncs and refreshes overlap, unless a
\* session wrote over a row that others had changed or somebody connected it by hand.
THEOREM LinkCoherent == IntegrationsSpec => []LinkIsCoherent
<1> QED
  BY LinkInvariance, PTL DEF LinkInv

\* A sync does not reconnect what was disconnected, unless it had loaded the row before.
THEOREM LinkStaysDown == IntegrationsSpec => LinkStaysDisconnected
<1>1. LinkInv /\ [IntegrationsNext]_integrationVars =>
         [link.status = "disconnected" /\ link'.status \notin {"disconnected", "pending"}
          => stray' \/ \E s \in Operators : stage[s] = "authorize" /\ stage'[s] # "authorize"]_integrationVars
  BY LinkNextInv
<1> QED
  BY <1>1, LinkInvariance, PTL DEF IntegrationsSpec, LinkStaysDisconnected
=============================================================================

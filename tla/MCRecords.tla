------------------------------ MODULE MCRecords ------------------------------
(* Small instances for TLC of four components that builds, people and syncs     *)
(* write at once: the profile, the items under review, the agency's connection  *)
(* and a client's connector.  They share no state: one moves, the others stay   *)
(* as they began.                                                               *)
EXTENDS ProfileBuild, PlanReview, GhlConnection, Integrations, TLC

\* The component that moves.
VARIABLE part

connections == <<ghlVars, integrationVars>>
records     == <<vars, planVars, connections, part>>

Parts == {"profile", "review", "dates", "ghl", "connector"}

RecordsInit ==
    /\ part \in Parts
    /\ Init /\ PlanInit /\ GhlInit /\ IntegrationsInit
    /\ part \notin {"review", "dates"} => item = [i \in Items |-> Drafted(1)]
    /\ part # "connector" => provider = CHOOSE p \in Providers : TRUE

\* A patch writes the dates of a task and a decision the approval of its event; both meet
\* in an assignment only, so each is checked against assignments and not against the other:
\* those of one part set no due date, those of the other any.
Only(kinds) == \A m \in Managers : doing'[m] \in kinds
Undated     == \A m \in Managers : \A i \in DOMAIN writes'[m] : "due" \notin DOMAIN writes'[m][i]

\* Three versions or two resolves, not both.
Short == resolves' <= 1 \/ profile'[MaxVersion] = "none"

\* One grant of the agency whose tokens turn.  An answer lacks its refresh token or its
\* location once, where another is stored; then no grant is revoked, no answer lost, and
\* nothing listed.
OneTurns == \E g \in Grants : turn'[g] <= 1
Lacking  == unlocated' \cup {g \in Grants : rotated'[g] # turn'[g]}
Sparing  == /\ unlocated' \subseteq {2} /\ (turn'[1] > 0 => rotated'[1] > 0)
            /\ turn'[1] > 1 => Lacking \subseteq {1}
            /\ Lacking # {} => /\ revoked' \cup mislaid' = {}
                               /\ \A s \in Callers : phase'[s] # "list"
            /\ Cardinality(Lacking) <= 1

\* The second authorization is what leads out of a withdrawal of the first; a token that was
\* withdrawn or that expires is refused alike, so after both authorizations it is one or the
\* other, and neither where the refresh token of the first has renewed that of the second.
Withdrawing == /\ withdrawn' \subseteq {1}
               /\ Len(sees') <= 1 \/ withdrawn' = {} \/ ~(expiring' \/ mixed')

\* Over a row that no longer tells anything of its sessions only an admin begins something.
OnlyAdmins ==
    /\ stray    => \A s \in Operators : stage[s] = "idle" => stage'[s] \in {"idle", "authorize"}
    /\ outdated => \A s \in Callers : phase[s] = "idle" => phase'[s] \in {"idle", "complete"}

RecordsNext ==
    \/ part = "profile"   /\ Next /\ Short
                          /\ UNCHANGED <<planVars, connections, part>>
    \/ part = "review"    /\ PlanNext /\ Only((Kinds \ {"patch"}) \cup {"nothing"}) /\ Undated
                          /\ UNCHANGED <<vars, connections, part>>
    \/ part = "dates"     /\ PlanNext /\ Only({"nothing", "patch", "assign"})
                          /\ UNCHANGED <<vars, connections, part>>
    \/ part = "ghl"       /\ GhlNext /\ OneTurns /\ Sparing /\ OnlyAdmins
                          /\ UNCHANGED <<vars, planVars, integrationVars, part>>
    \/ part = "connector" /\ IntegrationsNext /\ Withdrawing /\ OnlyAdmins
                          /\ UNCHANGED <<vars, planVars, ghlVars, part>>

RecordsSpec == RecordsInit /\ [][RecordsNext]_records

\* One type invariant for all: TypeOK is that of the profile.
RecordsTypeOK == TypeOK /\ PlanTypeOK /\ GhlTypeOK /\ LinkTypeOK

\* Nothing reaches the calendar unread: a draft is reviewed, and what is approved names who
\* approved it (content_review_service.py).
ReviewIsAnswered == DraftsAreReviewed /\ ApprovedBySomebody

\* The row of the agency and the connectors of its clients say what they hold
\* (integration_service.py, ghl_oauth_complete and oauth_complete): a location, an account
\* and a status that fit the tokens stored, except where a session wrote what it had begun
\* before another changed the row.
ConnectionsAreCoherent == ConnectionIsCoherent /\ LinkIsCoherent

\* What an admin disconnected (ghl_disconnect, disconnect) is connected again by an
\* authorization or by hand, and never by a sync that had not loaded its tokens before.
DisconnectedStays == StaysDisconnected /\ LinkStaysDisconnected

\* The sessions of every component are one set of model values, and interchangeable.
Symmetry == Permutations(Builders \cup Managers \cup Callers \cup Operators)
=============================================================================

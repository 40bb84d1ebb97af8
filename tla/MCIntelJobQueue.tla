-------------------------- MODULE MCIntelJobQueue --------------------------
(* Small instances for TLC of the build queue and of what surrounds it: the   *)
(* onboarding whose saves enqueue the builds, the knowledge base the builds   *)
(* keep, and the sign-ins and requests before them.  They share no state: one *)
(* moves, the others stay as they began.                                      *)
EXTENDS IntelJobQueue, Onboarding, Knowledge, Access

\* The component that moves; of Access, its limiter and its sessions move apart.
VARIABLE part

allVars == <<vars, onboardingVars, knowledgeVars, accessVars, part>>

Parts == {"queue", "onboarding", "knowledge", "limits", "sessions"}

MCInit ==
    /\ part \in Parts
    /\ Init /\ OnboardingInit /\ KnowledgeInit /\ AccessInit
    /\ part # "limits" => backend = "memory"

\* A request that debounces or asks for a full build meets a plain one, and a fault plain ones
\* only: what a fault does to a row depends neither on its type nor on when it is due.
Plain(r) == req'[r].kind = "incremental" /\ ~req'[r].debounce
Asked    == /\ \E r \in Requests : Plain(r)
            /\ faults' = 0 \/ \A r \in Requests : Plain(r)

\* An auto-fill is asked for one form of the website, and scans through the proxy or not at all:
\* the other tiers give the pages the proxy gives, and BrandScan is checked with them.
Site    == [scheme |-> "", www |-> FALSE, dotted |-> TRUE]
Proxied == \A s \in Scans : /\ scan'[s].pc \notin {"render", "scrape"}
                            /\ scan'[s].pc = "bee" => scan'[s].website = Site

\* Logins are interchangeable: they begin in order.
Begun   == {l \in Logins : login'[l].pc # "idle"}
InOrder == \A l \in Begun : \A k \in Logins : k < l => k \in Begun

\* Two builds, or a build and a promotion, are under way at once, not more.
Few == Cardinality({b \in Ingests : build'[b].pc # "idle"})
         + Cardinality({p \in Promoters : promoting'[p] # NoRow}) <= 2

\* A field takes its second text while it is the only source: the others have one text each.
Alone == \A f \in Groups : text'[f] <= 1 \/ \A o \in Origins \ {f} : text'[o] = 0

\* One document or message is deleted, not several.
OneGone == Cardinality(gone') <= 1

\* Requests come to an end, and the workers do not: a deadlock is one of the queue.
MCNext ==
    \/ part = "queue"      /\ Next /\ Asked
                           /\ UNCHANGED <<onboardingVars, knowledgeVars, accessVars, part>>
    \/ part = "onboarding" /\ OnboardingNext /\ Proxied
                           /\ UNCHANGED <<vars, knowledgeVars, accessVars, part>>
    \/ part = "knowledge"  /\ KnowledgeNext /\ Few /\ Alone /\ OneGone
                           /\ UNCHANGED <<vars, onboardingVars, accessVars, part>>
    \/ part = "limits"     /\ AccessNext /\ InOrder /\ UNCHANGED <<active, signed, callVars>>
                           /\ UNCHANGED <<vars, onboardingVars, knowledgeVars, part>>
    \/ part = "sessions"   /\ AccessNext /\ InOrder /\ Cardinality(Begun) <= 2
                           /\ UNCHANGED <<vars, onboardingVars, knowledgeVars, part>>
    \/ part # "queue"      /\ UNCHANGED allVars

MCSpec == MCInit /\ [][MCNext]_allVars

\* One type invariant for all: TypeOK is that of the queue.
QueueTypeOK == TypeOK /\ OnboardingTypeOK /\ KnowledgeTypeOK /\ AccessTypeOK

\* Workers, requests to the queue and saves are interchangeable: nothing orders them.
Symmetry == Permutations(Workers \cup Savers) \cup Permutations(Requests)
=============================================================================

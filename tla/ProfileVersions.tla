-------------------------- MODULE ProfileVersions --------------------------
(***************************************************************************)
(* What models/client_profile.py promises of a client's profile, abstractly: *)
(* an append-only list of versions of which the live one is the last, and  *)
(* publishing a version makes it live in the same step.                    *)
(***************************************************************************)
EXTENDS Naturals

VARIABLES latest,   \* number of versions published so far
          live      \* the version readers are given, 0 before the first

Init == latest = 0 /\ live = 0

Publish == /\ latest' = latest + 1
           /\ live' = latest'

Spec == Init /\ [][Publish]_<<latest, live>>
=============================================================================

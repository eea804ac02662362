-------------------------- MODULE PersistedCursor --------------------------
(***************************************************************************)
(* What the control plane's resume cursor (hosts.last_acked_seq) promises: *)
(* it is written behind the messages that are processed, in any order and  *)
(* with any delay, yet it never goes back and never passes a number that   *)
(* was not processed.                                                      *)
(***************************************************************************)
EXTENDS Naturals

VARIABLES
    noted,   \* the highest processed number that may still reach the database
    stored   \* hosts.last_acked_seq

vars == <<noted, stored>>

Init == noted \in Nat /\ stored \in 0..noted

\* Messages are processed.
Note ==
    /\ noted' \in Nat /\ noted' > noted
    /\ UNCHANGED stored

\* A write, not necessarily the latest, reaches the database.
Store ==
    /\ stored' \in (stored + 1)..noted
    /\ UNCHANGED noted

\* A restart forgets what had not been sent to the database.
Forget ==
    /\ noted' \in stored..noted
    /\ UNCHANGED stored

Next == Note \/ Store \/ Forget

Spec == Init /\ [][Next]_vars
=============================================================================

--------------------------- MODULE DurableChannel ---------------------------
(***************************************************************************)
(* What agentd's outbound queue and acknowledgements promise together: a   *)
(* message accepted from a producer is retained until the control plane    *)
(* has applied it, however often either side restarts or the connection is *)
(* lost, or until a full queue drops it.                                   *)
(***************************************************************************)
CONSTANT Messages

VARIABLES
    accepted,   \* handed to agentd by a producer
    retained,   \* agentd will send it again
    delivered,  \* applied by the control plane
    dropped,    \* dropped by a full queue before it was delivered
    intact      \* the promise still stands

vars == <<accepted, retained, delivered, dropped, intact>>

Init ==
    /\ accepted \subseteq Messages
    /\ retained = accepted
    /\ delivered \subseteq accepted
    /\ dropped = {}
    /\ intact = TRUE

\* A message is accepted; a full queue drops one retained message, possibly
\* delivered already, to make room.
Accept ==
    \E m \in Messages \ accepted :
        /\ accepted' = accepted \cup {m}
        /\ \/ retained' = retained \cup {m} /\ UNCHANGED dropped
           \/ \E old \in retained :
                /\ retained' = (retained \ {old}) \cup {m}
                /\ dropped' = dropped \cup ({old} \ delivered)
        /\ UNCHANGED <<delivered, intact>>

\* Any accepted message may be delivered, again or for the first time: a copy
\* of a dropped one may still be on its way.
Deliver ==
    /\ \E m \in accepted : delivered' = delivered \cup {m}
    /\ UNCHANGED <<accepted, retained, dropped, intact>>

\* Only delivered messages stop being retained.
Release ==
    /\ retained' \subseteq retained
    /\ retained \ retained' \subseteq delivered
    /\ UNCHANGED <<accepted, delivered, dropped, intact>>

\* A restart finds the retained messages again; it may forget delivered ones
\* and bring back delivered ones it had released.
Restart ==
    /\ retained' \subseteq accepted
    /\ retained \ retained' \subseteq delivered
    /\ retained' \ retained \subseteq delivered
    /\ UNCHANGED <<accepted, delivered, dropped, intact>>

\* An event outside the promise.
Void ==
    /\ intact' = FALSE
    /\ UNCHANGED accepted

Next ==
    \/ intact /\ (Accept \/ Deliver \/ Release \/ Restart \/ Void)
    \/ ~intact /\ ~intact'

Spec == Init /\ [][Next]_vars
=============================================================================

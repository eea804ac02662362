------------------------------ MODULE Verdict ------------------------------
(***************************************************************************)
(* What Approvals promises for each permission request: one verdict, given *)
(* once, and no answer to the waiting hook but that verdict.               *)
(***************************************************************************)
CONSTANT Requests

VARIABLES verdict, answer
vars == <<verdict, answer>>

Init ==
    /\ verdict = [a \in Requests |-> "open"]
    /\ answer = [a \in Requests |-> "none"]

Ask(a) ==
    /\ answer[a] = "none" /\ answer' = [answer EXCEPT ![a] = "waiting"]
    /\ UNCHANGED verdict

Decide(a, v) ==
    /\ verdict[a] = "open" /\ verdict' = [verdict EXCEPT ![a] = v]
    /\ UNCHANGED answer

\* Requests that time out or are superseded.
Lapse(S) ==
    /\ \A a \in S : verdict[a] = "open"
    /\ verdict' = [a \in Requests |-> IF a \in S THEN "timedout" ELSE verdict[a]]
    /\ UNCHANGED answer

Answer(a) ==
    /\ answer[a] = "waiting" /\ verdict[a] \in {"allow", "deny"}
    /\ answer' = [answer EXCEPT ![a] = verdict[a]]
    /\ UNCHANGED verdict

\* The user is asked in the terminal instead.
GiveUp(S) ==
    /\ \A a \in S : answer[a] = "waiting"
    /\ answer' = [a \in Requests |-> IF a \in S THEN "dialog" ELSE answer[a]]
    /\ UNCHANGED verdict

Next ==
    \/ \E a \in Requests : Ask(a) \/ Answer(a) \/ Decide(a, "allow") \/ Decide(a, "deny")
    \/ \E S \in SUBSET Requests : Lapse(S) \/ GiveUp(S)

Spec == Init /\ [][Next]_vars
=============================================================================

---------------------------- MODULE MCUIStream -----------------------------
(* Instances of UIStream for TLC. *)
EXTENDS UIStream, TLC
CONSTANTS i1, i2

\* A row with another face, and two that differ in what the store ignores.
SomeValues ==
    {[face |-> "running", rest |-> "plain"], [face |-> "idle", rest |-> "plain"],
     [face |-> "idle", rest |-> "dirty"]}
=============================================================================

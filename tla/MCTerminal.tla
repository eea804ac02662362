----------------------------- MODULE MCTerminal -----------------------------
(* Instances of Terminal for TLC. *)
EXTENDS Terminal, TLC
CONSTANTS t1, t2, p1, p2

\* The tabs are interchangeable.
TabSymmetry == Permutations(Tabs)
=============================================================================

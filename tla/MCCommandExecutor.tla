------------------------- MODULE MCCommandExecutor -------------------------
(***************************************************************************)
(* Instances of CommandExecutor for TLC: two commands of one session, one  *)
(* each of two others, and three workers.                                  *)
(***************************************************************************)
EXTENDS CommandExecutor, TLC

CONSTANTS c1, c2, c3, c4, s1, s2, s3, w1, w2, w3

MCCmds == {c1, c2, c3, c4}
MCKeys == {s1, s2, s3}
MCKeyOf == (c1 :> s1) @@ (c2 :> s1) @@ (c3 :> s2) @@ (c4 :> s3)
MCWorkers == {w1, w2, w3}
=============================================================================

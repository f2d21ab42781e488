---------------------------- MODULE MCTaskLedger ----------------------------
(* Two tasks, one with two items and one with one.                         *)
EXTENDS TaskLedger, TLC

CONSTANTS t1, t2, i1, i2, i3

TwoAndOne == (i1 :> t1) @@ (i2 :> t1) @@ (i3 :> t2)
=============================================================================

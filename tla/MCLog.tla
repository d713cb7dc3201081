------------------------------- MODULE MCLog -------------------------------
(* Log on a small disk, for TLC: two operations fill the log, the third       *)
(* process has to wait.                                                       *)
EXTENDS Log, TLC

Symmetry == Permutations(Thr) \cup Permutations(Block)
=============================================================================

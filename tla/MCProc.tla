------------------------------- MODULE MCProc -------------------------------
(* Proc on a small table, for TLC.                                           *)
EXTENDS Proc, TLC

CpuSymmetry == Permutations(CPU)
=============================================================================

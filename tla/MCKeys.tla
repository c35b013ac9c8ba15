------------------------------ MODULE MCKeys ------------------------------
(***************************************************************************)
(* An instance of Keys for TLC.                                            *)
(***************************************************************************)
EXTENDS Keys, TLC

ProcSymmetry == Permutations(Procs)
============================================================================

------------------------------ MODULE MCQueue -------------------------------
(* Queue for TLC: interchangeable processes. *)
EXTENDS Queue, TLC

ProcSymmetry == Permutations(Procs)
=============================================================================

----------------------------- MODULE MCSegment ------------------------------
(* Segment for TLC: interchangeable processes, inodes and layouts. *)
EXTENDS Segment, TLC

Symmetry == Permutations(Procs) \cup Permutations(Inodes) \cup Permutations(Layouts)
=============================================================================

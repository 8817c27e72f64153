---------------------------- MODULE MCFutexQueue ----------------------------
(* FutexQueue for TLC. *)
EXTENDS FutexQueue
=============================================================================

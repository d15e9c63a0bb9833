---------------------------- MODULE MCSentryQueue ----------------------------
(***************************************************************************)
(* TLC's instances of SentryQueue: three threads that all produce, consume *)
(* and join.                                                               *)
(***************************************************************************)
EXTENDS SentryQueue, TLC

(* The threads are interchangeable; sound for the safety-only runs.        *)
Symmetry == Permutations(Threads)
=============================================================================

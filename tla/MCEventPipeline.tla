--------------------------- MODULE MCEventPipeline ---------------------------
(***************************************************************************)
(* TLC's instance of EventPipeline.                                        *)
(***************************************************************************)
EXTENDS EventPipeline, TLC

(* Sound: the run is of safety only.                                       *)
Symmetry == Permutations(Threads) \cup Permutations(Items)
=============================================================================

------------------------- MODULE MCContinuousProfiler -------------------------
(***************************************************************************)
(* TLC's instance of ContinuousProfiler.                                   *)
(***************************************************************************)
EXTENDS ContinuousProfiler
=============================================================================

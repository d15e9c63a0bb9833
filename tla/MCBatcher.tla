------------------------------ MODULE MCBatcher ------------------------------
(***************************************************************************)
(* TLC's instance of Batcher: two items, one of which cannot be            *)
(* serialized, and thresholds of one item, so that the buffer fills,       *)
(* overflows and is stuck.  A process creates one flusher, so MaxForks + 1 *)
(* of them are enough, and one more shows whether a second one is ever     *)
(* created.                                                                *)
(***************************************************************************)
EXTENDS Batcher
=============================================================================

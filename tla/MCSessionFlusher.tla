--------------------------- MODULE MCSessionFlusher ---------------------------
(***************************************************************************)
(* TLC's instance of SessionFlusher: two application threads, envelopes of *)
(* one item.                                                               *)
(***************************************************************************)
EXTENDS SessionFlusher
=============================================================================

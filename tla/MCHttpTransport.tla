---------------------------- MODULE MCHttpTransport ----------------------------
(***************************************************************************)
(* TLC's instances of HttpTransport: an envelope with a transaction, whose *)
(* loss is counted for its spans too, and an attachment, and a span that   *)
(* is discarded before it is in an envelope.                               *)
(***************************************************************************)
EXTENDS HttpTransport, TLC

CONSTANTS tx, att, drop

MCItems      == {tx, att, drop}
MCEnvelopes  == {{tx, att}}
MCCategories == {"transaction", "span", "attachment"}
MCCategory   == (tx :> "transaction") @@ (att :> "attachment") @@ (drop :> "span")
MCCountedAs  == (tx :> {"transaction", "span"}) @@ (att :> {"attachment"}) @@ (drop :> {"span"})
MCHeaders    == {{}, {"transaction"}, {All}}

(* Sound for the safety-only runs.                                         *)
Symmetry == Permutations(Apps)
=============================================================================

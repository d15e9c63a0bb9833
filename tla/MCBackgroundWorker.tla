-------------------------- MODULE MCBackgroundWorker --------------------------
(***************************************************************************)
(* TLC's instances of BackgroundWorker.  At most one worker thread lives    *)
(* for the current start and one for each kill, and each kill ends at most *)
(* one: 1 + 2 * MaxKills + MaxForks worker threads are enough, and Workers *)
(* never is what stops a start.                                            *)
(***************************************************************************)
EXTENDS BackgroundWorker
=============================================================================

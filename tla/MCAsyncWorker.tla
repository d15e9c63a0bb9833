----------------------------- MODULE MCAsyncWorker -----------------------------
(***************************************************************************)
(* TLC's instance of AsyncWorker.                                          *)
(***************************************************************************)
EXTENDS AsyncWorkerProperties

AsyncSpec == A!Spec
=============================================================================

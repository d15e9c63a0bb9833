------------------------------- MODULE MCMonitor -------------------------------
(***************************************************************************)
(* TLC's instance of Monitor: two threads that read, two rate limits.      *)
(***************************************************************************)
EXTENDS MonitorProperties

MonitorSpec == M!Spec
=============================================================================

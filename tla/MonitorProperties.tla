--------------------------- MODULE MonitorProperties ---------------------------
(***************************************************************************)
(* What is claimed of Monitor, for TLC to check and to state theorems of,  *)
(* with names that a module about both it and EventPipeline can use.       *)
(***************************************************************************)
CONSTANTS Readers,      \* the threads that sample traces
          Monitors, Categories, MaxFactor, MaxForks,
          Null,
          StartMayFail

VARIABLES healthy, factor, running, thread, threadForPid, threadLock, pid, pc, keys, limited,
          full, unseen, size, streak, died

M == INSTANCE Monitor WITH Threads <- Readers, None <- Null

ASSUME MonitorConstants == M!Constants

(* The factor is the work of one thread and says how long the transport    *)
(* has been unhealthy (monitor.py:73-126).                                 *)
FactorRight == M!FactorRight

(* The monitor stands in nobody's way: neither in that of a thread that    *)
(* samples nor, for good, in that of what is sampled (monitor.py:40-118).  *)
StandsAside == M!StandsAside

(* The class promises checks "once every interval seconds" (monitor.py:19),*)
(* so that the thread's death is no excuse for a factor that stays.        *)
ChecksGoOn == M!ChecksGoOn
=============================================================================

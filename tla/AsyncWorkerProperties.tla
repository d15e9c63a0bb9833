------------------------- MODULE AsyncWorkerProperties -------------------------
(***************************************************************************)
(* What is claimed of AsyncWorker, for TLC to check and to state theorems  *)
(* of, with names that a module about both it and BackgroundWorker can     *)
(* use.                                                                    *)
(***************************************************************************)
CONSTANTS Items, Generations,
          QueueRoom,    \* QueueSize
          FlushLimit,   \* MaxFlushes
          MaxStops,     \* MaxKills
          Null

VARIABLES ready, stopped, current, task, queues, counts, consumer, cancelled, state, request,
          origin, active, flush, joined, killed, before

A == INSTANCE AsyncWorker WITH QueueSize <- QueueRoom, MaxFlushes <- FlushLimit,
                               MaxKills <- MaxStops, None <- Null,
                               queue <- queues, unfinished <- counts, kills <- killed

ASSUME AsyncConstants == A!Constants

(* What a generation of the worker was given, it counts; what it has       *)
(* taken, it references; and it alone takes (worker.py:184-307).           *)
WorkTracked == A!WorkTracked

(* What is captured comes to its end, and a flush does not end before it   *)
(* (worker.py:184-307, transport.py:929-960).                              *)
FlushAwaitsAll == A!FlushAwaitsAll
=============================================================================

---------------------------- MODULE ScopesProperties ----------------------------
(***************************************************************************)
(* What is claimed of Scopes, for TLC to check and to state theorems of,   *)
(* with names that a module about both it and SessionFlusher can use.      *)
(***************************************************************************)
CONSTANTS Handlers,     \* the threads
          Main,
          Scopes,
          Objects,      \* the sessions
          MaxEvents,
          Nothing

VARIABLES made, begun, scopeOf, isolation, blocks, status, errors, at, call, current,
          kind, seen, reports, holders, count, crashes, raced, stale

S == INSTANCE Scopes WITH Threads <- Handlers, Sessions <- Objects, None <- Nothing,
                          pc <- at, session <- current

ASSUME ScopesConstants == S!Constants

(* The scopes and the sessions they hold belong together, and a session is *)
(* given up once by each scope that has had it (scope.py:303, 1616-1637).  *)
SessionsHeld == S!SessionsHeld

(* What is reported of a session is what happened, whole without races and *)
(* true with them (client.py:1115-1150, session.py:121-130).               *)
ReportsTrue == S!ReportsTrue

(* Neither an error nor a session is left behind (client.py:1145-1150,     *)
(* sessions.py:116-132).                                                   *)
NothingForgotten == S!NothingForgotten
=============================================================================

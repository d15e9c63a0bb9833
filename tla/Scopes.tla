-------------------------------- MODULE Scopes --------------------------------
(***************************************************************************)
(* sentry_sdk/scope.py, session.py and the session half of client.py:      *)
(* isolation scopes are forked for blocks and threads, and hold the        *)
(* session that events update and that end_session() reports.              *)
(*                                                                         *)
(* A fork copies the reference to the session, so scopes of several        *)
(* threads share one Session object, which has no lock: an update reads    *)
(* "errors" before it writes it back, and close() reads "status" before it *)
(* writes it.                                                              *)
(***************************************************************************)
EXTENDS Naturals, FiniteSets, Sequences, Functions

CONSTANTS Threads, Main,    \* threads; the one that runs from the start
          Scopes, Sessions, \* the objects that can ever be made, numbered
          MaxEvents,        \* events with an exception that are ever captured
          None

(* What an instance assumes of them.                                       *)
Constants ==
  /\ Scopes \cup Sessions \subseteq Nat \ {0} /\ Main \in Threads /\ 1 \in Scopes
  /\ MaxEvents \in Nat /\ None \notin Threads \cup Nat

Kinds == {"message", "error", "crash"}   \* without exceptions; handled; not
Calls == {"end", "start", "leave"}

VARIABLES
  made, begun,  \* the scopes and the sessions that exist
  scopeOf,      \* _session of a scope
  isolation,    \* _isolation_scope of each thread, None before it runs
  blocks,       \* the scopes it will restore, and whether its blocks track a session
  status, errors,  \* of the sessions
  pc, call,     \* where a thread is, and in which call
  session,      \* the session it works on
  kind, seen,   \* the event it captures, and the errors it has read
  reports,      \* what has been given to session_flusher.add_session()
  holders,      \* how many scopes have had a session
  count,        \* how many events with an exception have been captured with it
  crashes,      \* the sessions with a crash recorded
  raced,        \* those with an update or a close() while another was under way
  stale         \* those that a message's update gave their earlier error count

scopeState == <<made, scopeOf, isolation, blocks, holders>>
fields     == <<status, errors>>
local      == <<session, kind, seen>>
ghosts     == <<count, crashes, raced, stale>>
vars == <<begun, scopeState, fields, pc, call, local, reports, ghosts>>

TypeOK ==
  /\ made \subseteq Scopes /\ begun \subseteq Sessions
  /\ scopeOf \in [Scopes -> begun \cup {None}]
  /\ isolation \in [Threads -> made \cup {None}]
  /\ blocks \in [Threads -> Seq(made \X BOOLEAN)]
  /\ status \in [Sessions -> {"ok", "exited", "crashed"}] /\ errors \in [Sessions -> Nat]
  /\ pc \in [Threads -> {"idle", "take", "check", "exit", "report", "after",
                         "count", "errors", "status"}]
  /\ call \in [Threads -> Calls] /\ kind \in [Threads -> Kinds]
  /\ session \in [Threads -> begun \cup {None}] /\ seen \in [Threads -> Nat]
  /\ reports \in [Sessions -> Seq([status : {"ok", "exited", "crashed"}, errors : Nat])]
  /\ holders \in [Sessions -> Nat] /\ count \in [Sessions -> Nat]
  /\ crashes \cup raced \cup stale \subseteq begun

Init ==
  /\ made = {1} /\ begun = {}
  /\ scopeOf = [sc \in Scopes |-> None]
  /\ isolation = [t \in Threads |-> IF t = Main THEN 1 ELSE None]
  /\ blocks = [t \in Threads |-> <<>>]
  /\ status = [s \in Sessions |-> "ok"] /\ errors = [s \in Sessions |-> 0]
  /\ pc = [t \in Threads |-> "idle"] /\ call = [t \in Threads |-> "end"]
  /\ session = [t \in Threads |-> None] /\ kind = [t \in Threads |-> "message"]
  /\ seen = [t \in Threads |-> 0]
  /\ reports = [s \in Sessions |-> <<>>] /\ holders = [s \in Sessions |-> 0]
  /\ count = [s \in Sessions |-> 0] /\ crashes = {} /\ raced = {} /\ stale = {}

Goto(t, point) == pc' = [pc EXCEPT ![t] = point]
Idle(t) == pc[t] = "idle" /\ isolation[t] # None
First(S) == CHOOSE x \in S : \A y \in S : x <= y
Captured == FoldFunction(+, 0, count)

-----------------------------------------------------------------------------
(* Scope.fork(): a copy, with the same session.                            *)
Fork(sc, copy) ==
  /\ made' = made \cup {copy}
  /\ scopeOf' = [scopeOf EXCEPT ![copy] = scopeOf[sc]]
  /\ holders' = [s \in Sessions |-> IF s = scopeOf[sc] THEN holders[s] + 1 ELSE holders[s]]

(* "with isolation_scope()"; as the WSGI, ASGI and aiohttp integrations    *)
(* use it, with track_session() inside, which calls start_session().       *)
Enter(t, tracked) ==
  /\ Idle(t) /\ made # Scopes
  /\ LET sc == First(Scopes \ made) IN
       /\ Fork(isolation[t], sc)
       /\ isolation' = [isolation EXCEPT ![t] = sc]
       /\ blocks' = [blocks EXCEPT ![t] = <<<<isolation[t], tracked>>>> \o @]
  /\ call' = [call EXCEPT ![t] = IF tracked THEN "start" ELSE "end"]
  /\ Goto(t, IF tracked THEN "take" ELSE "idle")
  /\ UNCHANGED <<begun, fields, local, reports, ghosts>>

(* ThreadingIntegration: Thread.start() runs the thread in a fork of the   *)
(* isolation scope, or, with propagate_scope=False, in a scope of its own. *)
Spawn(t, u, propagated) ==
  /\ Idle(t) /\ isolation[u] = None /\ made # Scopes
  /\ LET sc == First(Scopes \ made) IN
       /\ IF propagated THEN Fork(isolation[t], sc)
          ELSE made' = made \cup {sc} /\ UNCHANGED <<scopeOf, holders>>
       /\ isolation' = [isolation EXCEPT ![u] = sc]
  /\ UNCHANGED <<begun, blocks, fields, pc, call, local, reports, ghosts>>

-----------------------------------------------------------------------------
(* start_session(); end_session(), also as stop_auto_session_tracking(),   *)
(* whose flag decides whether later blocks are tracked; the end of a block,*)
(* which ends a tracked session.                                           *)
CallOr(t, c, skip) ==
  /\ Idle(t)
  /\ c = "leave" => blocks[t] # <<>>
  /\ call' = [call EXCEPT ![t] = c]
  /\ Goto(t, IF skip THEN "after" ELSE "take")
  /\ UNCHANGED <<begun, scopeState, fields, local, reports, ghosts>>

CallLeaving(t, c) == CallOr(t, c, c = "leave")                 \* seeded bug
Call(t, c) == CallOr(t, c, c = "leave" /\ ~Head(blocks[t])[2])

(* end_session() takes the session off the scope ...                       *)
Racing(t, s) ==
  raced' = IF \E u \in Threads \ {t} : session[u] = s THEN raced \cup {s} ELSE raced

TakeLeaving(t, left) ==
  /\ pc[t] = "take"
  /\ LET s == scopeOf[isolation[t]] IN
       /\ scopeOf' = [scopeOf EXCEPT ![isolation[t]] = left]
       /\ session' = [session EXCEPT ![t] = s]
       /\ Goto(t, IF s = None THEN "after" ELSE "check")
       /\ IF s = None THEN UNCHANGED raced ELSE Racing(t, s)
  /\ UNCHANGED <<begun, made, isolation, blocks, holders, fields, call,
                 kind, seen, reports, count, crashes, stale>>

TakeKeeping(t) == TakeLeaving(t, scopeOf[isolation[t]])        \* seeded bug
Take(t) == TakeLeaving(t, None)

(* ... and closes it: only if it is "ok", it becomes "exited" ...          *)
CloseIf(t, open) ==
  /\ pc[t] = "check"
  /\ Goto(t, IF open THEN "exit" ELSE "report")
  /\ UNCHANGED <<begun, scopeState, fields, call, local, reports, ghosts>>

CheckCareless(t) == CloseIf(t, TRUE)                           \* seeded bug
CheckCrashOnly(t) == CloseIf(t, status[session[t]] = "crashed") \* seeded bug
Check(t) == CloseIf(t, status[session[t]] = "ok")

Exit(t) ==
  /\ pc[t] = "exit"
  /\ status' = [status EXCEPT ![session[t]] = "exited"]
  /\ Goto(t, "report")
  /\ UNCHANGED <<begun, scopeState, errors, call, local, reports, ghosts>>

(* ... and capture_session() gives what it now is to the flusher.          *)
Report(t) ==
  /\ pc[t] = "report"
  /\ LET s == session[t] IN
       reports' = [reports EXCEPT ![s] =
                     Append(@, [status |-> status[s], errors |-> errors[s]])]
  /\ session' = [session EXCEPT ![t] = None]
  /\ Goto(t, "after")
  /\ UNCHANGED <<begun, scopeState, fields, call, kind, seen, ghosts>>

(* The rest of the call: a new session, the flag, the old scope.           *)
After(t) ==
  /\ pc[t] = "after"
  /\ \/ /\ call[t] = "end"
        /\ UNCHANGED <<begun, scopeState>>
     \/ /\ call[t] = "start" /\ begun # Sessions
        /\ LET s == First(Sessions \ begun) IN
             /\ begun' = begun \cup {s}
             /\ scopeOf' = [scopeOf EXCEPT ![isolation[t]] = s]
             /\ holders' = [holders EXCEPT ![s] = 1]
        /\ UNCHANGED <<made, isolation, blocks>>
     \/ /\ call[t] = "leave"
        /\ isolation' = [isolation EXCEPT ![t] = Head(blocks[t])[1]]
        /\ blocks' = [blocks EXCEPT ![t] = Tail(@)]
        /\ UNCHANGED <<begun, made, scopeOf, holders>>
  /\ call' = [call EXCEPT ![t] = "end"]
  /\ Goto(t, "idle")
  /\ UNCHANGED <<fields, local, reports, ghosts>>

-----------------------------------------------------------------------------
(* _update_session_from_event(): the errors are read, ...                  *)
Capture(t, k) ==
  /\ Idle(t) /\ scopeOf[isolation[t]] # None
  /\ LET s == scopeOf[isolation[t]] IN
       /\ k # "message" => Captured < MaxEvents
       /\ session' = [session EXCEPT ![t] = s]
       /\ seen' = [seen EXCEPT ![t] = errors[s]]
       /\ count' = IF k = "message" THEN count ELSE [count EXCEPT ![s] = @ + 1]
       /\ Racing(t, s)
  /\ kind' = [kind EXCEPT ![t] = k]
  /\ Goto(t, "errors")
  /\ UNCHANGED <<begun, scopeState, fields, call, reports, crashes, stale>>

(* ... written, with the exception of this event, ...                      *)
UpdateErrorsTo(t, now) ==
  /\ pc[t] = "errors"
  /\ LET s == session[t] IN
       /\ errors' = [errors EXCEPT ![s] = now]
       /\ stale' = IF kind[t] = "message" /\ errors[s] > seen[t]
                   THEN stale \cup {s} ELSE stale
       /\ session' = [session EXCEPT ![t] = IF kind[t] = "crash" THEN s ELSE None]
  /\ seen' = [seen EXCEPT ![t] = 0]
  /\ kind' = [kind EXCEPT ![t] = "message"]
  /\ Goto(t, IF kind[t] = "crash" THEN "status" ELSE "idle")
  /\ UNCHANGED <<begun, scopeState, status, call, reports, count, crashes, raced>>

Exceptions(t) == IF kind[t] = "message" THEN 0 ELSE 1
UpdateErrorsAnew(t) == UpdateErrorsTo(t, Exceptions(t))        \* seeded bug
UpdateErrorsAlways(t) == UpdateErrorsTo(t, seen[t] + 1)        \* seeded bug
UpdateErrors(t) == UpdateErrorsTo(t, seen[t] + Exceptions(t))

(* ... and a crash is the status from now on.                              *)
UpdateStatus(t) ==
  /\ pc[t] = "status"
  /\ status' = [status EXCEPT ![session[t]] = "crashed"]
  /\ crashes' = crashes \cup {session[t]}
  /\ session' = [session EXCEPT ![t] = None]
  /\ Goto(t, "idle")
  /\ UNCHANGED <<begun, scopeState, errors, call, kind, seen, reports, count, raced, stale>>

Step(t) == \/ Take(t) \/ Check(t) \/ Exit(t) \/ Report(t) \/ After(t)
           \/ UpdateErrors(t) \/ UpdateStatus(t)

Next == \E t \in Threads :
  \/ Step(t)
  \/ \E c \in Calls : Call(t, c)
  \/ \E tracked \in BOOLEAN : Enter(t, tracked)
  \/ \E u \in Threads, propagated \in BOOLEAN : Spawn(t, u, propagated)
  \/ \E k \in Kinds : Capture(t, k)

Spec == Init /\ [][Next]_vars

-----------------------------------------------------------------------------
Healthy(r) == r.status = "exited" /\ r.errors = 0
Reported(s) == {reports[s][i] : i \in DOMAIN reports[s]}
Ending(s) == {t \in Threads : session[t] = s /\ pc[t] \in {"check", "exit", "report"}}

(* A session is given up once by each scope that has had it, and no scope  *)
(* has it afterwards: so it is reported once if no scope is forked while   *)
(* it is open, and otherwise once by each fork that ends it or starts      *)
(* another one (scope.py:303, 1616-1637).                                  *)
OncePerHolder ==
  \A s \in begun :
    holders[s] = Len(reports[s]) + Cardinality(Ending(s))
                 + Cardinality({sc \in made : scopeOf[sc] = s})

(* The scopes and the sessions they hold belong together.                  *)
SessionsHeld == TypeOK /\ OncePerHolder

(* Unless an update or close() of another thread comes between, an ended   *)
(* session is reported with all of its errors, and as crashed if and only  *)
(* if it crashed, also when several scopes share it (client.py:1115-1150,  *)
(* session.py:121-130).                                                    *)
ReportsWhatHappened ==
  \A s \in begun \ raced : \A t \in Threads :
    session[t] = s /\ pc[t] = "report" =>
      /\ errors[s] = count[s]
      /\ status[s] = IF s \in crashes THEN "crashed" ELSE "exited"

(* Even then, errors are never counted twice, nor is a crash made up, and  *)
(* a report is never that of an open session (session.py:125-130).         *)
NothingMadeUp ==
  \A s \in begun : \A r \in Reported(s) :
    /\ r.errors <= count[s] /\ r.status # "ok"
    /\ r.status = "crashed" => s \in crashes

(* What is reported is what happened, whole without races and true with    *)
(* them (client.py:1115-1150, session.py:121-130).                         *)
ReportsTrue == ReportsWhatHappened /\ NothingMadeUp

(* Lost increments or not, a session in which an error was recorded does   *)
(* not look error-free again, unless a message was captured meanwhile: its *)
(* update, though it has no exception to count, writes back the errors it  *)
(* read (client.py:1145-1150).                                             *)
ErrorsStay == [][\A s \in begun : errors[s] > 0 /\ s \notin stale' => errors'[s] > 0]_vars

(* A tracked block does not leave a session behind: whatever happened in   *)
(* it, its scope has none when the old scope is back (sessions.py:116-132).*)
NoneLeftBehind ==
  [][\A t \in Threads :
       pc[t] = "after" /\ call[t] = "leave" /\ Head(blocks[t])[2] /\ pc'[t] = "idle"
         => scopeOf'[isolation[t]] = None]_vars

(* Neither an error nor a session is left behind.                          *)
NothingForgotten == ErrorsStay /\ NoneLeftBehind
=============================================================================

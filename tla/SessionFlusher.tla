---------------------------- MODULE SessionFlusher ----------------------------
(***************************************************************************)
(* sentry_sdk/sessions.py: SessionFlusher collects ended sessions, those   *)
(* of mode "application" in the list pending_sessions and those of mode    *)
(* "request" in aggregated counters, and a thread of its own sends them    *)
(* every minute.  Application threads add sessions, flush, kill and fork.  *)
(*                                                                         *)
(* The list is not locked.  "pending_sessions.append(session.to_json())"   *)
(* reads the list before it calls to_json(), and flush() reads it before   *)
(* it puts an empty one in its place, so each of them is two steps.        *)
(* Lists and counters are the sets of the sessions in them.                *)
(***************************************************************************)
EXTENDS Naturals, FiniteSets

CONSTANTS Threads,           \* application threads
          Callers,           \* those that also flush, kill and fork
          Flushers,          \* flusher threads that can ever be created, numbered
          Sessions,          \* what is added, each session once and in their order
          Requests,          \* those of mode "request"
          MaxItems,          \* MAX_ENVELOPE_ITEMS
          None, MaxForks,
          CaptureMayFail,    \* can capture_func raise?
          StartMayFail       \* can Thread.start() raise RuntimeError?

Actors == Threads \cup Flushers

(* What an instance assumes of them.                                       *)
Constants ==
  /\ Sessions \subseteq Nat /\ Requests \subseteq Sessions
  /\ Flushers \subseteq Nat /\ Threads \cap Flushers = {} /\ Callers \subseteq Threads
  /\ None \notin Actors \cup Nat
  /\ MaxItems \in Nat \ {0} /\ MaxForks \in Nat
  /\ CaptureMayFail \in BOOLEAN /\ StartMayFail \in BOOLEAN

ASSUME Parameters == Constants

VARIABLES
  pending,      \* pending_sessions
  aggregates,   \* pending_aggregates
  thread,       \* _thread
  threadForPid, \* _thread_for_pid, as the number of forks before it; None
  pid,          \* os.getpid(), likewise
  lock,         \* who holds _thread_lock
  shutdown,     \* __shutdown_requested.is_set()
  pc,           \* where each thread is
  session,      \* the session a thread appends
  into,         \* who has the list it appends to: flushes, None for pending_sessions
  list,         \* what is left in the list that flush() took
  taken,        \* the aggregates it took
  envelope,     \* the items of the envelope it builds
  ending,       \* is a flusher thread in its last round?
  added,        \* the sessions that were given to add_session()
  inherited,    \* those that were before the last fork
  overlapped,   \* those whose list was replaced between a thread's two steps on it
  late,         \* those appended after shutdown was requested
  captured,     \* how often each was given to the transport
  failed,       \* those that an exception in capture_func took
  died          \* has an exception ended the flusher thread, or kept it from starting?

buffers     == <<pending, aggregates>>
threadState == <<thread, threadForPid, pid, lock, shutdown>>
addState    == <<session, into, added, inherited, overlapped, late>>
flushState  == <<list, taken, envelope>>
results     == <<captured, failed, died>>
vars == <<buffers, threadState, pc, addState, flushState, ending, results>>

TypeOK ==
  /\ pending \subseteq Sessions \ Requests /\ aggregates \subseteq Requests
  /\ thread \in Flushers \cup {None} /\ lock \in Threads \cup {None}
  /\ pid \in 0..MaxForks /\ threadForPid \in 0..MaxForks \cup {None}
  /\ shutdown \in BOOLEAN /\ died \in BOOLEAN
  /\ pc \in [Actors -> {"idle", "gone", "new", "wait", "dead", "append", "start", "assign",
                        "flush", "swap", "take", "sessions"}]
  /\ session \in [Actors -> Sessions \cup {None}]
  /\ into \in [Actors -> SUBSET (Actors \cup {None})]
  /\ list \in [Actors -> SUBSET (Sessions \ Requests)]
  /\ taken \in [Actors -> SUBSET Requests]
  /\ envelope \in [Actors -> SUBSET SUBSET Sessions]
  /\ ending \in [Flushers -> BOOLEAN]
  /\ captured \in [Sessions -> Nat]
  /\ overlapped \cup late \cup failed \cup inherited \subseteq added
  /\ added \subseteq Sessions

Init ==
  /\ pending = {} /\ aggregates = {}
  /\ thread = None /\ threadForPid = None /\ pid = 0 /\ lock = None
  /\ shutdown = FALSE
  /\ pc = [t \in Actors |-> IF t \in Threads THEN "idle" ELSE "new"]
  /\ session = [t \in Actors |-> None] /\ into = [t \in Actors |-> {}]
  /\ list = [t \in Actors |-> {}] /\ taken = [t \in Actors |-> {}]
  /\ envelope = [t \in Actors |-> {}] /\ ending = [f \in Flushers |-> FALSE]
  /\ added = {} /\ inherited = {} /\ overlapped = {} /\ late = {}
  /\ captured = [s \in Sessions |-> 0] /\ failed = {} /\ died = FALSE

Goto(t, point) == pc' = [pc EXCEPT ![t] = point]

-----------------------------------------------------------------------------
(* _ensure_running's first test, without the lock.                         *)
ThreadIsThere == threadForPid = pid /\ thread # None
EnsureRunning == IF ThreadIsThere THEN "idle" ELSE "start"

(* add_session(), mode "application": pending_sessions is read ...         *)
AddSessionUnless(t, s, requests) ==
  /\ pc[t] = "idle" /\ s \notin added \cup requests
  /\ \A u \in Sessions \ added : s <= u
  /\ added' = added \cup {s}
  /\ session' = [session EXCEPT ![t] = s] /\ into' = [into EXCEPT ![t] = {None}]
  /\ Goto(t, "append")
  /\ UNCHANGED <<buffers, threadState, inherited, overlapped, late, flushState,
                 ending, results>>

AddAnySession(t, s) == AddSessionUnless(t, s, {})      \* seeded bug
AddSession(t, s) == AddSessionUnless(t, s, Requests)

(* ... and after to_json() the list that was read is appended to.  A flush *)
(* that has taken it, and iterates over it, still finds the session.       *)
AppendSession(t) ==
  /\ pc[t] = "append"
  /\ pending' = IF None \in into[t] THEN pending \cup {session[t]} ELSE pending
  /\ list' = [u \in Actors |-> IF u \in into[t] THEN list[u] \cup {session[t]} ELSE list[u]]
  /\ late' = IF shutdown THEN late \cup {session[t]} ELSE late
  /\ session' = [session EXCEPT ![t] = None] /\ into' = [into EXCEPT ![t] = {}]
  /\ Goto(t, EnsureRunning)
  /\ UNCHANGED <<aggregates, threadState, added, inherited, overlapped,
                 taken, envelope, ending, results>>

(* Mode "request": counted under _aggregate_lock.                          *)
AddAggregateSession(t, s) ==
  /\ pc[t] = "idle" /\ s \in Requests \ added
  /\ \A u \in Sessions \ added : s <= u
  /\ added' = added \cup {s}
  /\ aggregates' = aggregates \cup {s}
  /\ late' = IF shutdown THEN late \cup {s} ELSE late
  /\ Goto(t, EnsureRunning)
  /\ UNCHANGED <<pending, threadState, session, into, inherited, overlapped,
                 flushState, ending, results>>

(* The test again, with the lock, and start(), which may fail ...          *)
StartUnless(t, there) ==
  /\ pc[t] = "start" /\ lock = None
  /\ \/ /\ there
        /\ Goto(t, "idle")
        /\ UNCHANGED <<lock, shutdown, died>>
     \/ /\ ~there
        /\ \E f \in Flushers :
             /\ pc[f] = "new" /\ \A g \in Flushers : pc[g] = "new" => f <= g
             /\ pc' = [pc EXCEPT ![t] = "assign", ![f] = "wait"]
        /\ lock' = t
        /\ UNCHANGED <<shutdown, died>>
     \/ /\ ~there /\ StartMayFail
        /\ shutdown' = TRUE /\ died' = TRUE
        /\ Goto(t, "idle")
        /\ UNCHANGED lock
  /\ UNCHANGED <<buffers, thread, threadForPid, pid, addState, flushState, ending,
                 captured, failed>>

StartUnchecked(t) == StartUnless(t, FALSE)             \* seeded bug
Start(t) == StartUnless(t, ThreadIsThere)

(* ... before _thread and _thread_for_pid are set.                         *)
AssignThread(t) ==
  /\ pc[t] = "assign"
  /\ \E f \in Flushers :
       /\ pc[f] # "new" /\ \A g \in Flushers : pc[g] # "new" => g <= f
       /\ thread' = f
  /\ threadForPid' = pid
  /\ lock' = None
  /\ Goto(t, "idle")
  /\ UNCHANGED <<buffers, pid, shutdown, addState, flushState, ending, results>>

-----------------------------------------------------------------------------
Flush(t) ==
  /\ pc[t] = "idle"
  /\ Goto(t, "flush")
  /\ UNCHANGED <<buffers, threadState, addState, flushState, ending, results>>

FlushRead(t) ==
  /\ pc[t] = "flush"
  /\ into' = [into EXCEPT ![t] = {None}]
  /\ Goto(t, "swap")
  /\ UNCHANGED <<buffers, threadState, session, added, inherited, overlapped, late,
                 flushState, ending, results>>

(* What was pending_sessions until now is the list of all the flushes that *)
(* have read it, and of those who are about to append to it; usually this  *)
(* flush is the only one.                                                  *)
Readers(point) == {u \in Actors : pc[u] = point /\ None \in into[u]}
FlushSwap(t) ==
  /\ pc[t] = "swap"
  /\ LET ts == Readers("swap") IN
       /\ list' = [u \in Actors |-> IF u \in ts THEN pending ELSE list[u]]
       /\ into' = [u \in Actors |-> IF None \notin into[u] THEN into[u]
                                    ELSE IF u \in ts THEN {} ELSE ts]
       /\ overlapped' = overlapped \cup {session[u] : u \in Readers("append")}
                                   \cup IF ts = {t} THEN {} ELSE pending
  /\ pending' = {}
  /\ Goto(t, "take")
  /\ UNCHANGED <<aggregates, threadState, session, added, inherited, late,
                 taken, envelope, ending, results>>

(* The swap of pending_aggregates, under _aggregate_lock.                  *)
TakeAggregates(t, kept) ==
  /\ pc[t] = "take"
  /\ taken' = [taken EXCEPT ![t] = aggregates]
  /\ aggregates' = kept
  /\ Goto(t, "sessions")
  /\ UNCHANGED <<pending, threadState, addState, list, envelope, ending, results>>

FlushAggregatesKept(t) == TakeAggregates(t, aggregates)    \* seeded bug
FlushAggregates(t) == TakeAggregates(t, {})

(* An item for the envelope; a full one is captured first.  The exception  *)
(* of capture_func ends flush(), and the thread with it.                   *)
Sent(items) == captured' = [s \in Sessions |-> IF s \in UNION items THEN captured[s] + 1
                                               ELSE captured[s]]
PutInto(t, item, full, fresh) ==
  /\ \/ /\ ~full
        /\ envelope' = [envelope EXCEPT ![t] = @ \cup {item}]
        /\ UNCHANGED captured
     \/ /\ full
        /\ Sent(envelope[t])
        /\ envelope' = [envelope EXCEPT ![t] = fresh]
  /\ UNCHANGED <<pc, failed, died>>

PutItemOrSend(t, item, full) == PutInto(t, item, full, {})     \* seeded bug
PutItem(t, item, full) == PutInto(t, item, full, {item})

Raise(t) ==
  /\ CaptureMayFail
  /\ failed' = failed \cup list[t] \cup taken[t] \cup UNION envelope[t]
  /\ died' = (died \/ t \in Flushers)
  /\ list' = [list EXCEPT ![t] = {}] /\ taken' = [taken EXCEPT ![t] = {}]
  /\ envelope' = [envelope EXCEPT ![t] = {}]
  /\ Goto(t, IF t \in Threads THEN "idle" ELSE "dead")
  /\ UNCHANGED captured

Release(t) == into' = [u \in Actors |-> into[u] \ {t}]

(* The loop over the sessions, which sees those appended meanwhile.        *)
FlushSessionWhen(t, full) ==
  /\ pc[t] = "sessions"
  /\ \E s \in list[t] :
       \/ /\ PutItem(t, {s}, full)
          /\ list' = [list EXCEPT ![t] = @ \ {s}]
          /\ UNCHANGED <<into, taken>>
       \/ full /\ Raise(t) /\ Release(t)
  /\ UNCHANGED <<buffers, threadState, session, added, inherited, overlapped, late, ending>>

Full(t) == Cardinality(envelope[t]) = MaxItems
FlushSessionUnbounded(t) == FlushSessionWhen(t, FALSE)      \* seeded bug
FlushSession(t) == FlushSessionWhen(t, Full(t))

(* After the last one, the aggregates, as one item; it has an envelope of  *)
(* its own if the one of the sessions is full.                             *)
FlushRest(t, full) ==
  LET items == envelope[t] \cup ({taken[t]} \ {{}})
  IN /\ pc[t] = "sessions" /\ list[t] = {}
     /\ Release(t)
     /\ \/ /\ full /\ taken[t] # {}
           /\ Sent(envelope[t])
           /\ envelope' = [envelope EXCEPT ![t] = {}]
           /\ UNCHANGED <<pc, list, taken, failed, died>>
        \/ /\ ~full \/ taken[t] = {}
           /\ Sent(items)
           /\ envelope' = [envelope EXCEPT ![t] = {}]
           /\ taken' = [taken EXCEPT ![t] = {}]
           /\ Goto(t, IF t \in Threads THEN "idle" ELSE IF ending[t] THEN "dead" ELSE "wait")
           /\ UNCHANGED <<list, failed, died>>
        \/ items # {} /\ Raise(t)
  /\ UNCHANGED <<buffers, threadState, session, added, inherited, overlapped, late, ending>>

FlushLast(t) == FlushRest(t, Full(t))

-----------------------------------------------------------------------------
(* _thread(): wait() ends when shutdown is requested or the time is up,    *)
(* which can be at any moment; the last round still flushes.               *)
WaitThen(f, point) ==
  /\ pc[f] = "wait"
  /\ ending' = [ending EXCEPT ![f] = shutdown]
  /\ Goto(f, point)
  /\ UNCHANGED <<buffers, threadState, addState, flushState, results>>

WaitOrEnd(f) == WaitThen(f, IF shutdown THEN "dead" ELSE "flush")   \* seeded bug
Wait(f) == WaitThen(f, "flush")

Kill(t) ==
  /\ pc[t] = "idle" /\ ~shutdown
  /\ shutdown' = TRUE
  /\ UNCHANGED <<buffers, thread, threadForPid, pid, lock, pc, addState, flushState,
                 ending, results>>

(* os.fork() in t while the locks are free, followed into the child.       *)
(* Nothing is reset there: it has its parent's pending sessions, too.      *)
Fork(t) ==
  /\ pc[t] = "idle" /\ lock = None
  /\ pid < MaxForks /\ pid' = pid + 1
  /\ pc' = [u \in Actors |-> IF u = t \/ pc[u] = "new" THEN pc[u] ELSE "gone"]
  /\ session' = [u \in Actors |-> None] /\ into' = [u \in Actors |-> {}]
  /\ list' = [u \in Actors |-> {}] /\ taken' = [u \in Actors |-> {}]
  /\ envelope' = [u \in Actors |-> {}] /\ ending' = [f \in Flushers |-> FALSE]
  /\ captured' = [s \in Sessions |-> 0] /\ failed' = {} /\ died' = FALSE
  /\ inherited' = added /\ overlapped' = {} /\ late' = {}
  /\ UNCHANGED <<buffers, thread, threadForPid, lock, shutdown, added>>

AddStep(t) == AppendSession(t) \/ Start(t) \/ AssignThread(t)
FlushStep(t) == \/ FlushRead(t) \/ FlushSwap(t) \/ FlushAggregates(t)
                \/ FlushSession(t) \/ FlushLast(t)

Next ==
  \/ \E t \in Threads :
       \/ AddStep(t) \/ FlushStep(t)
       \/ t \in Callers /\ (Flush(t) \/ Kill(t) \/ Fork(t))
       \/ \E s \in Sessions : AddSession(t, s) \/ AddAggregateSession(t, s)
  \/ \E f \in Flushers : Wait(f) \/ FlushStep(f)

Spec == Init /\ [][Next]_vars

(* Threads run; calls are not fair.                                        *)
Fairness ==
  /\ \A t \in Threads : WF_vars(AddStep(t)) /\ WF_vars(FlushStep(t))
  /\ \A f \in Flushers : WF_vars(Wait(f) \/ FlushStep(f))

FairSpec == Spec /\ Fairness

-----------------------------------------------------------------------------
(* Where a session is that add_session() has returned for.                 *)
Taken(t) == list[t] \cup taken[t] \cup UNION envelope[t]
Waiting == pending \cup aggregates
Accounted(s) ==
  \/ captured[s] > 0 \/ s \in failed \cup Waiting
  \/ \E t \in Actors : session[t] = s \/ s \in Taken(t)

(* A session of the process is not lost, whatever threads flush while it   *)
(* is added, unless the list it is appended to was replaced between the    *)
(* two steps of add_session(); a "request" session never is, since both    *)
(* sides lock (sessions.py:158-164, 230-257).                              *)
NoneLost ==
  \A s \in added \ inherited :
    Accounted(s) \/ s \in overlapped

(* None is sent twice by the process that ended it, though any thread may  *)
(* flush: each flush has a list and counters of its own (sessions.py:158-  *)
(* 182).                                                                   *)
SentOnce ==
  \A s \in added \ inherited : captured[s] <= 1 \/ s \in overlapped

(* Each session is sent once, the races of add_session() and flush() on    *)
(* one list excepted (sessions.py:158-182, 230-257).                       *)
SessionsSent == TypeOK /\ NoneLost /\ SentOnce

(* An envelope has MAX_ENVELOPE_ITEMS items at most, also where sessions   *)
(* end and aggregates begin (sessions.py:166-182).                         *)
EnvelopesFit == \A t \in Actors : Cardinality(envelope[t]) <= MaxItems

(* One flusher thread at most, however first calls race, also in a child   *)
(* process (sessions.py:192-215).                                          *)
OneThread == Cardinality({f \in Flushers : pc[f] \notin {"new", "dead", "gone"}}) <= 1

(* One thread flushes at the interval, into envelopes that the server      *)
(* takes (sessions.py:166-215).                                            *)
FlushesFit == OneThread /\ EnvelopesFit

(* A pending session does not stay pending, also in a forked child that    *)
(* ends a session, and also when kill() comes next; except one that was    *)
(* appended after that, or if the thread is gone: an exception ended it,   *)
(* and nothing starts another one, or it could not be started (sessions.py:*)
(* 184-217, 254-261).                                                      *)
Drains ==
  \A s \in Sessions :
    s \in Waiting ~> s \notin Waiting \/ s \in late \cup inherited \/ died
=============================================================================

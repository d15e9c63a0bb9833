------------------------------ MODULE AsyncWorker ------------------------------
(***************************************************************************)
(* AsyncWorker of sentry_sdk/worker.py and AsyncHttpTransport of           *)
(* transport.py: envelopes are sent by tasks of an asyncio event loop.     *)
(*                                                                         *)
(* The loop runs one callback at a time, in the order in which they became *)
(* ready; other threads, the network and timers add to its end.  kill()    *)
(* cancels the tasks, which find out when the loop next runs them, and a   *)
(* later start() replaces the queue while they may still refer to the old  *)
(* one, so each start is a generation with a queue and a consumer.         *)
(***************************************************************************)
EXTENDS Naturals, SequencesExt

CONSTANTS Items,        \* what is submitted, numbered: envelopes, requests for client reports
          Generations,  \* how often start() can succeed, numbered from 1
          QueueSize, MaxFlushes, MaxKills,
          None

Constants == /\ Items \subseteq Nat \ {0} /\ Generations \subseteq Nat \ {0}
             /\ {QueueSize, MaxFlushes, MaxKills} \subseteq Nat /\ None \notin Nat

Flushes == 1..MaxFlushes

VARIABLES
  ready,       \* the callbacks the loop will run
  stopped,     \* has the loop stopped for good?
  current,     \* the generation of _queue; 0 for None
  task,        \* that of _task, None after kill()
  queue, unfinished, \* of each generation
  consumer,    \* where the _target() task of each is
  cancelled,   \* consumers and items whose task is to raise CancelledError
  state,       \* of each item
  request,     \* is it a flush's request for a client report?
  origin,      \* the generation whose queue it was taken from
  active,      \* _active_tasks
  flush,       \* where each flush is
  joined,      \* the generation whose join() it awaits
  kills,       \* how often kill() has been called
  before       \* the items given to the transport before a flush

loopState   == <<ready, stopped>>
workerState == <<current, task, queue, unfinished, consumer, active>>
itemState   == <<state, request, origin>>
flushState  == <<flush, joined, before>>
vars == <<loopState, workerState, cancelled, itemState, flushState, kills>>

Handles == {"capture", "task", "complete"} \X Items \cup {"target"} \X Generations
           \cup {"flush"} \X Flushes

TypeOK ==
  /\ ready \in Seq(Handles) /\ stopped \in BOOLEAN
  /\ current \in Generations \cup {0} /\ task \in Generations \cup {None}
  /\ queue \in [Generations -> Seq(Items)]
  /\ \A g \in Generations : Len(queue[g]) <= QueueSize
  /\ unfinished \in [Generations -> Nat]
  /\ consumer \in [Generations -> {"none", "ready", "waiting", "done"}]
  /\ cancelled \subseteq {"target"} \X Generations \cup {"task"} \X Items
  /\ state \in [Items -> {"new", "posted", "queued", "created", "sending", "answered",
                          "sent", "finished", "dropped"}]
  /\ request \in [Items -> BOOLEAN] /\ origin \in [Items -> Generations \cup {0}]
  /\ active \subseteq Items
  /\ flush \in [Flushes -> {"new", "begin", "first", "timeout", "second", "expired",
                            "drained", "over"}]
  /\ joined \in [Flushes -> Generations \cup {0}]
  /\ before \in [Flushes -> SUBSET Items]
  /\ kills \in 0..MaxKills

Init ==
  /\ ready = <<>> /\ stopped = FALSE /\ current = 0 /\ task = None
  /\ queue = [g \in Generations |-> <<>>] /\ unfinished = [g \in Generations |-> 0]
  /\ consumer = [g \in Generations |-> "none"] /\ cancelled = {}
  /\ state = [i \in Items |-> "new"] /\ request = [i \in Items |-> FALSE]
  /\ origin = [i \in Items |-> 0] /\ active = {}
  /\ flush = [f \in Flushes |-> "new"] /\ joined = [f \in Flushes |-> 0]
  /\ before = [f \in Flushes |-> {}] /\ kills = 0

Fresh(i) == state[i] = "new" /\ \A j \in Items : state[j] = "new" => i <= j
Later(h) == ready \o h
Runs(kind, x) == ready # <<>> /\ Head(ready) = <<kind, x>> /\ ~stopped

-----------------------------------------------------------------------------
(* capture_envelope(), from any thread: call_soon_threadsafe, or lost.     *)
CaptureEnvelope(i) ==
  /\ Fresh(i)
  /\ state' = [state EXCEPT ![i] = IF stopped THEN "dropped" ELSE "posted"]
  /\ ready' = IF stopped THEN ready ELSE Later(<<<<"capture", i>>>>)
  /\ UNCHANGED <<stopped, workerState, cancelled, request, origin, flushState, kills>>

(* submit(), while the loop runs: start(), if the task is not alive, with a*)
(* fresh queue; then put_nowait(), which wakes the consumer, or is refused.*)
IsAlive == task # None /\ consumer[task] # "done"
OverFull(g) == Len(queue[g]) > QueueSize               \* seeded bug
Full(g) == Len(queue[g]) >= QueueSize
WakesOnly(g) == consumer[g] = "waiting" /\ queue[g] # <<>>    \* seeded bug
Wakes(g) == consumer[g] = "waiting"
Submit(i, rest, asked, then) ==
  LET g == IF IsAlive THEN current ELSE current + 1
      runs == ~IsAlive \/ (Wakes(g) /\ ~Full(g))
  IN /\ g \in Generations
     /\ current' = g /\ task' = g
     /\ consumer' = [consumer EXCEPT ![g] = IF runs THEN "ready" ELSE @]
     /\ queue' = [queue EXCEPT ![g] = IF Full(g) THEN @ ELSE Append(@, i)]
     /\ unfinished' = [unfinished EXCEPT ![g] = IF Full(g) THEN @ ELSE @ + 1]
     /\ state' = [state EXCEPT ![i] = IF Full(g) THEN "dropped" ELSE "queued"]
     /\ request' = [request EXCEPT ![i] = asked]
     /\ ready' = rest \o (IF runs THEN <<<<"target", g>>>> ELSE <<>>) \o then

RunCapture(i) ==
  /\ Runs("capture", i)
  /\ Submit(i, Tail(ready), FALSE, <<>>)
  /\ UNCHANGED <<stopped, cancelled, origin, active, flushState, kills>>

(* The consumer: cancelled, waiting for an item, or with one, for which it *)
(* makes a task before it yields.                                          *)
RunTarget(g) ==
  /\ Runs("target", g)
  /\ \/ /\ <<"target", g>> \in cancelled
        /\ consumer' = [consumer EXCEPT ![g] = "done"]
        /\ ready' = Tail(ready)
        /\ UNCHANGED <<queue, state, origin, active>>
     \/ /\ <<"target", g>> \notin cancelled /\ queue[current] = <<>>
        /\ consumer' = [consumer EXCEPT ![g] = "waiting"]
        /\ ready' = Tail(ready)
        /\ UNCHANGED <<queue, state, origin, active>>
     \/ /\ <<"target", g>> \notin cancelled /\ queue[current] # <<>>
        /\ LET i == Head(queue[current]) IN
             /\ queue' = [queue EXCEPT ![current] = Tail(@)]
             /\ state' = [state EXCEPT ![i] = "created"]
             /\ origin' = [origin EXCEPT ![i] = current]
             /\ active' = active \cup {i}
             /\ ready' = Tail(ready) \o <<<<"task", i>>, <<"target", g>>>>
        /\ UNCHANGED consumer
  /\ UNCHANGED <<stopped, current, task, unfinished, cancelled, request, flushState, kills>>

(* The task of an item: it awaits an answer; or has had one, or needs none *)
(* (a request for a report, an envelope that is rate limited as a whole),  *)
(* and may then capture a client report; or is cancelled, an exception     *)
(* that capture_internal_exceptions swallows: its task is done, and the    *)
(* item "sent" for the worker, but may be neither sent nor reported.       *)
RunTask(i) ==
  /\ Runs("task", i)
  /\ \/ /\ state[i] = "created" /\ <<"task", i>> \notin cancelled /\ ~request[i]
        /\ state' = [state EXCEPT ![i] = "sending"]
        /\ ready' = Tail(ready)
     \/ /\ state' = [state EXCEPT ![i] = "sent"]
        /\ ready' = Tail(ready) \o <<<<"complete", i>>>>
     \/ \E r \in Items :
          /\ <<"task", i>> \notin cancelled /\ Fresh(r)
          /\ state' = [state EXCEPT ![i] = "sent", ![r] = "posted"]
          /\ ready' = Tail(ready) \o <<<<"capture", r>>, <<"complete", i>>>>
  /\ UNCHANGED <<stopped, workerState, cancelled, request, origin, flushState, kills>>

Answer(i) ==
  /\ state[i] = "sending" /\ <<"task", i>> \notin cancelled /\ ~stopped
  /\ state' = [state EXCEPT ![i] = "answered"]
  /\ ready' = Later(<<<<"task", i>>>>)
  /\ UNCHANGED <<stopped, workerState, cancelled, request, origin, flushState, kills>>

(* _on_task_complete(): task_done() on the queue the item came from; the   *)
(* last one wakes those who join it.                                       *)
CompleteOn(i, g) ==
  /\ Runs("complete", i)
  /\ state' = [state EXCEPT ![i] = "finished"]
  /\ unfinished' = [unfinished EXCEPT ![g] = @ - 1]
  /\ active' = active \ {i}
  /\ LET woken == {f \in Flushes : flush[f] \in {"first", "second"} /\ joined[f] = g
                                   /\ unfinished[g] = 1}
     IN /\ flush' = [f \in Flushes |-> IF f \in woken THEN "drained" ELSE flush[f]]
        /\ \E order \in SetToSeqs({"flush"} \X woken) : ready' = Tail(ready) \o order
  /\ UNCHANGED <<stopped, current, task, queue, consumer, cancelled, request, origin,
                 joined, before, kills>>

CompleteOnCurrent(i) == CompleteOn(i, current)             \* seeded bug
RunComplete(i) == CompleteOn(i, origin[i])

-----------------------------------------------------------------------------
(* kill(), on the loop's thread: consumer and tasks are to be cancelled;   *)
(* those that wait are made ready, in some order.                          *)
KillSparing(spared) ==
  LET victims == ({<<"target", task>>} \cup {"task"} \X active) \ spared
      sleeping == {v \in victims : \/ v[1] = "target" /\ consumer[v[2]] = "waiting"
                                   \/ v[1] = "task" /\ state[v[2]] = "sending"}
  IN /\ task # None /\ kills < MaxKills /\ ~stopped
     /\ kills' = kills + 1
     /\ cancelled' = cancelled \cup victims
     /\ \E order \in SetToSeqs(sleeping) : ready' = Later(order)
     /\ consumer' = [consumer EXCEPT ![task] = IF @ = "waiting" /\ <<"target", task>> \in victims
                                               THEN "ready" ELSE @]
     /\ task' = None /\ active' = {}
     /\ UNCHANGED <<stopped, current, queue, unfinished, itemState, flushState>>

KillTasksOnly == KillSparing({"target"} \X Generations)     \* seeded bug
KillTargetOnly == KillSparing({"task"} \X Items)             \* seeded bug
Kill == KillSparing({})

(* transport.flush(): a request for a client report and a task that waits. *)
Given == {i \in Items : state[i] # "new"}
Flush(f, i) ==
  /\ flush[f] = "new" /\ \A e \in Flushes : flush[e] = "new" => f <= e
  /\ Fresh(i) /\ ~stopped
  /\ Submit(i, ready, TRUE, <<<<"flush", f>>>>)
  /\ flush' = [flush EXCEPT ![f] = "begin"]
  /\ before' = [before EXCEPT ![f] = Given]
  /\ UNCHANGED <<stopped, cancelled, origin, active, joined, kills>>

JoinedIfEmpty(g) == queue[g] = <<>>                          \* seeded bug
JoinedIfDone(g) == unfinished[g] = 0

(* _wait_flush(): join() for a tenth of a second, then for the rest.       *)
Join(f, point) ==
  /\ joined' = [joined EXCEPT ![f] = current]
  /\ flush' = [flush EXCEPT ![f] = IF JoinedIfDone(current) THEN "over" ELSE point]

RunFlush(f) ==
  /\ Runs("flush", f)
  /\ ready' = Tail(ready)
  /\ \/ flush[f] = "begin" /\ task # None /\ Join(f, "first")
     \/ flush[f] = "timeout" /\ Join(f, "second")
     \/ /\ flush[f] \in {"expired", "drained"} \/ (flush[f] = "begin" /\ task = None)
        /\ flush' = [flush EXCEPT ![f] = "over"] /\ UNCHANGED joined
  /\ UNCHANGED <<stopped, workerState, cancelled, itemState, before, kills>>

Timeout(f) ==
  /\ flush[f] \in {"first", "second"} /\ ~stopped
  /\ flush' = [flush EXCEPT ![f] = IF @ = "first" THEN "timeout" ELSE "expired"]
  /\ ready' = Later(<<<<"flush", f>>>>)
  /\ UNCHANGED <<stopped, workerState, cancelled, itemState, joined, before, kills>>

Stop ==
  /\ ~stopped /\ stopped' = TRUE
  /\ UNCHANGED <<ready, workerState, cancelled, itemState, flushState, kills>>

LoopStep ==
  \/ \E i \in Items : RunCapture(i) \/ RunTask(i) \/ RunComplete(i)
  \/ \E g \in Generations : RunTarget(g)
  \/ \E f \in Flushes : RunFlush(f)

Next ==
  \/ LoopStep \/ Kill \/ Stop
  \/ \E i \in Items : CaptureEnvelope(i) \/ Answer(i)
  \/ \E f \in Flushes : Timeout(f) \/ \E i \in Items : Flush(f, i)

(* The loop runs what is ready, and requests have timeouts.                *)
Fairness == WF_vars(LoopStep) /\ \A i \in Items : WF_vars(Answer(i))

Spec == Init /\ [][Next]_vars /\ Fairness

-----------------------------------------------------------------------------
Taken(g) == {i \in Items : origin[i] = g /\ state[i] # "finished"}

(* Every queue counts what join() has to wait for, across kill() and       *)
(* start(): what is in it and what was taken from it and is not done, the  *)
(* cancelled tasks included (worker.py:260-307).                           *)
UnfinishedExact ==
  \A g \in Generations : unfinished[g] = Len(queue[g]) + Cardinality(Taken(g))

(* One consumer at most is not about to end (worker.py:184-213).           *)
OneConsumer ==
  Cardinality({g \in Generations : consumer[g] \in {"ready", "waiting"}
                                   /\ <<"target", g>> \notin cancelled}) <= 1

(* Items kill() has given up: in a queue without a consumer, or cancelled. *)
Orphaned(i) == \E g \in Generations : <<"target", g>> \in cancelled
                                      /\ \E n \in DOMAIN queue[g] : queue[g][n] = i
Killed(i) == Orphaned(i) \/ <<"task", i>> \in cancelled

(* A flush that ends without a timeout has waited for all envelopes that   *)
(* were captured before it, those that only had been posted to the loop    *)
(* included, except those that kill() gave up (transport.py:929-960).      *)
FlushDrains ==
  [][\A f \in Flushes :
       flush[f] \in {"begin", "timeout", "drained"} /\ flush'[f] = "over"
         => \A i \in before[f] : state[i] \in {"finished", "dropped"} \/ Killed(i)]_vars

(* A task is referenced until it is complete, so that it is not garbage    *)
(* collected, and is cancelled by kill() (worker.py:268-285).              *)
Referenced ==
  \A i \in Items : state[i] \in {"created", "sending", "answered", "sent"}
                     => i \in active \/ <<"task", i>> \in cancelled

(* What a generation of the worker was given, it counts; what it has       *)
(* taken, it references; and it alone takes (worker.py:184-307).           *)
WorkTracked == TypeOK /\ UnfinishedExact /\ OneConsumer /\ Referenced

(* What was captured comes to its end: it was sent or reported lost, or    *)
(* its task was cancelled (transport.py:902 reports an Exception only),    *)
(* unless kill() left it in a queue that has no consumer any more, or the  *)
(* loop stopped: again and again nothing remains to be done (worker.py:    *)
(* 184-307).                                                               *)
Settles ==
  []<>\A i \in Items :
        state[i] \in {"new", "finished", "dropped"} \/ Orphaned(i) \/ stopped

(* What is captured comes to its end, and a flush does not end before it   *)
(* (worker.py:184-307, transport.py:929-960).                              *)
FlushAwaitsAll == FlushDrains /\ Settles
=============================================================================

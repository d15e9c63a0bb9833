------------------------------- MODULE Batcher -------------------------------
(***************************************************************************)
(* sentry_sdk/_batcher.py: LogBatcher and MetricsBatcher collect items in  *)
(* a buffer that a flusher thread, started by the first add(), empties     *)
(* into an envelope every few seconds or when enough have come.            *)
(*                                                                         *)
(* Application threads add, flush, kill and fork.  add() reads _running,   *)
(* _flusher_pid and _flusher without _lock, and _ensure_thread writes the  *)
(* last two one after the other under it; kill() takes no lock at all.     *)
(* Each of these reads and writes is a step.                               *)
(***************************************************************************)
EXTENDS Naturals, Sequences, FiniteSets

CONSTANTS Threads,          \* application threads
          Flushers,         \* flusher threads that can ever be created, numbered
          Items,            \* what is added, each item once
          Poison,           \* the items that _to_transport_format raises on
          MaxBeforeFlush,   \* MAX_BEFORE_FLUSH: 100 logs, 1000 metrics
          MaxBeforeDrop,    \* MAX_BEFORE_DROP: 1000 logs, 10000 metrics
          None,
          MaxForks,
          CaptureMayFail,   \* can _capture_func raise?
          StartMayFail      \* can Thread.start() raise RuntimeError?

ASSUME Thresholds == /\ MaxBeforeFlush \in Nat \ {0}
                     /\ MaxBeforeDrop \in Nat /\ MaxBeforeFlush <= MaxBeforeDrop
ASSUME SomePoison == Poison \subseteq Items
ASSUME Distinct == /\ None \notin Threads \cup Flushers \cup Items
                   /\ None \notin Nat
                   /\ Threads \cap Flushers = {}
ASSUME FiniteItems == IsFiniteSet(Items)
ASSUME NumberedFlushers == Flushers \subseteq Nat
ASSUME Flags == MaxForks \in Nat /\ {CaptureMayFail, StartMayFail} \subseteq BOOLEAN

Actors == Threads \cup Flushers

VARIABLES
  buffer,       \* _buffer; the order of the items does not matter here
  running,      \* _running
  lock,         \* who holds _lock
  active,       \* _active.flag, of each thread
  flushEvent,   \* _flush_event.is_set()
  flusher,      \* _flusher
  flusherPid,   \* _flusher_pid, as the number of forks before it; None
  pid,          \* os.getpid(), likewise
  pc,           \* where each thread is
  item,         \* the item a thread is adding
  batch,        \* the items in the envelope a thread has built
  added,        \* the items add() was called with, in this process
  inherited,    \* those it was called with before the last fork
  outcomes      \* what became of each item, in order

threadState == <<running, flusher, flusherPid, pid>>
data == <<buffer, batch, added, inherited, outcomes>>
vars == <<buffer, running, lock, active, flushEvent, flusher, flusherPid, pid,
          pc, item, batch, added, inherited, outcomes>>

Outcomes == {"captured",   \* in an envelope given to the transport
             "lost",       \* dropped, and reported as queue_overflow
             "unreported", \* dropped, and the report itself failed
             "ignored",    \* add() returned without a trace of it
             "raised",     \* add() raised into the application
             "failed"}     \* in an envelope that the transport did not take

AddPoints     == {"ensure", "recheck", "create", "start", "check", "add",
                  "append", "lost"}
FlushPoints   == {"flush", "serialize", "capture"}
KillPoints    == {"kill_event", "kill_forget"}
FlusherPoints == {"new", "begin", "loop", "wait", "clear", "dead"}
LockPoints    == {"create", "start", "append", "serialize"}

TypeOK ==
  /\ buffer \subseteq Items /\ Cardinality(buffer) <= MaxBeforeDrop
  /\ running \in BOOLEAN /\ flushEvent \in BOOLEAN
  /\ lock \in Actors \cup {None}
  /\ active \in [Actors -> BOOLEAN]
  /\ flusher \in Flushers \cup {None}
  /\ pid \in 0..MaxForks /\ flusherPid \in 0..MaxForks \cup {None}
  /\ pc \in [Actors -> {"idle", "gone"} \cup AddPoints \cup FlushPoints
                          \cup KillPoints \cup FlusherPoints]
  /\ item \in [Actors -> Items \cup {None}]
  /\ batch \in [Actors -> SUBSET Items]
  /\ added \subseteq Items /\ inherited \subseteq Items
  /\ outcomes \in [Items -> Seq(Outcomes)]

Init ==
  /\ buffer = {} /\ running = TRUE /\ lock = None
  /\ active = [t \in Actors |-> FALSE]
  /\ flushEvent = FALSE
  /\ flusher = None /\ flusherPid = None /\ pid = 0
  /\ pc = [t \in Actors |-> IF t \in Threads THEN "idle" ELSE "new"]
  /\ item = [t \in Actors |-> None]
  /\ batch = [t \in Actors |-> {}]
  /\ added = {} /\ inherited = {}
  /\ outcomes = [x \in Items |-> <<>>]

(* The flusher thread that is created next.                                *)
IsNext(f) == pc[f] = "new" /\ \A g \in Flushers : pc[g] = "new" => f <= g

Goto(t, point) == pc' = [pc EXCEPT ![t] = point]

Meet(xs, o) ==
  outcomes' = [x \in Items |-> IF x \in xs THEN Append(outcomes[x], o) ELSE outcomes[x]]

-----------------------------------------------------------------------------
(* The end of add(): its finally clause, and what became of the item.      *)
AddReturn(t, o) ==
  /\ Goto(t, "idle")
  /\ active' = [active EXCEPT ![t] = FALSE]
  /\ item' = [item EXCEPT ![t] = None]
  /\ Meet({item[t]}, o)

(* add() in t, which may be nested: a finalizer or a log record can call   *)
(* it at any point of the batcher's own code.  If the flag is set, it      *)
(* returns at once; if not, it sets the flag and goes on.  kill() does not *)
(* set the flag, but has stopped the batcher, so that _ensure_thread       *)
(* returns.                                                                *)
AddUnless(t, x, flag) ==
  /\ pc[t] \notin {"new", "begin", "dead", "gone"}
  /\ x \notin added \cup inherited
  /\ added' = added \cup {x}
  /\ \/ /\ flag \/ (pc[t] \in KillPoints /\ ~running)
        /\ Meet({x}, "ignored")
        /\ UNCHANGED <<pc, active, item>>
     \/ /\ ~flag /\ pc[t] = "idle"
        /\ Goto(t, "ensure")
        /\ active' = [active EXCEPT ![t] = TRUE]
        /\ item' = [item EXCEPT ![t] = x]
        /\ UNCHANGED outcomes
  /\ UNCHANGED <<buffer, lock, flushEvent, threadState, batch, inherited>>

AddAnyFlag(t, x) == AddUnless(t, x, \E u \in Actors : active[u])  \* seeded bug
Add(t, x) == AddUnless(t, x, active[t])

(* _ensure_thread before it takes the lock.                                *)
EnsureThread(t) ==
  /\ pc[t] = "ensure"
  /\ \/ /\ ~running
        /\ AddReturn(t, "ignored")
     \/ /\ running
        /\ Goto(t, IF flusherPid = pid THEN "check" ELSE "recheck")
        /\ UNCHANGED <<active, item, outcomes>>
  /\ UNCHANGED <<buffer, lock, flushEvent, threadState, batch, added, inherited>>

(* With the lock: another thread may have been here.  If not, the pid is   *)
(* written before the flusher that it vouches for.                         *)
RecheckFor(t, done) ==
  /\ pc[t] = "recheck" /\ lock = None
  /\ \/ /\ done
        /\ Goto(t, "check")
        /\ UNCHANGED <<lock, flusherPid>>
     \/ /\ ~done
        /\ lock' = t
        /\ flusherPid' = pid
        /\ Goto(t, "create")
  /\ UNCHANGED <<data, active, flushEvent, running, flusher, pid, item>>

RecheckMissing(t) == RecheckFor(t, FALSE)              \* seeded bug
Recheck(t) == RecheckFor(t, flusherPid = pid)

CreateFlusher(t) ==
  /\ pc[t] = "create"
  /\ \E f \in Flushers : IsNext(f) /\ flusher' = f
  /\ Goto(t, "start")
  /\ UNCHANGED <<data, lock, active, flushEvent, running, flusherPid, pid, item>>

(* self._flusher.start().  A RuntimeError stops the batcher.  If kill()    *)
(* has reset _flusher, it is an AttributeError, and that leaves add().     *)
StartFlusher(t) ==
  /\ pc[t] = "start"
  /\ lock' = None
  /\ \/ /\ flusher # None
        /\ pc' = [pc EXCEPT ![t] = "check", ![flusher] = "begin"]
        /\ UNCHANGED <<running, active, item, outcomes>>
     \/ /\ flusher # None /\ StartMayFail
        /\ running' = FALSE
        /\ AddReturn(t, "ignored")
     \/ /\ flusher = None
        /\ AddReturn(t, "raised")
        /\ UNCHANGED running
  /\ UNCHANGED <<buffer, flushEvent, flusher, flusherPid, pid, batch, added, inherited>>

(* "or self._flusher is None"                                              *)
CheckFlusher(t) ==
  /\ pc[t] = "check"
  /\ \/ /\ flusher = None
        /\ AddReturn(t, "ignored")
     \/ /\ flusher # None
        /\ Goto(t, "add")
        /\ UNCHANGED <<active, item, outcomes>>
  /\ UNCHANGED <<buffer, lock, flushEvent, threadState, batch, added, inherited>>

LockForAdd(t) ==
  /\ pc[t] = "add" /\ lock = None
  /\ lock' = t
  /\ Goto(t, "append")
  /\ UNCHANGED <<data, active, flushEvent, threadState, item>>

(* Append and wake the flusher if there is enough, or drop.                *)
AppendWhen(t, room, enough) ==
  /\ pc[t] = "append"
  /\ lock' = None
  /\ \/ /\ room
        /\ buffer' = buffer \cup {item[t]}
        /\ flushEvent' = (flushEvent \/ enough)
        /\ Goto(t, "idle")
        /\ active' = [active EXCEPT ![t] = FALSE]
        /\ item' = [item EXCEPT ![t] = None]
     \/ /\ ~room
        /\ Goto(t, "lost")
        /\ UNCHANGED <<buffer, flushEvent, active, item>>
  /\ UNCHANGED <<threadState, batch, added, inherited, outcomes>>

Size == Cardinality(buffer)
AppendItemTooMany(t) ==                                \* seeded bug
  AppendWhen(t, Size <= MaxBeforeDrop, Size + 1 >= MaxBeforeFlush)
AppendItemLateWake(t) ==                               \* seeded bug
  AppendWhen(t, Size < MaxBeforeDrop, Size >= MaxBeforeFlush)
AppendItem(t) == AppendWhen(t, Size < MaxBeforeDrop, Size + 1 >= MaxBeforeFlush)

(* _record_lost, outside the lock, serializes the item to count its bytes. *)
RecordLost(t) ==
  /\ pc[t] = "lost"
  /\ AddReturn(t, IF item[t] \in Poison THEN "unreported" ELSE "lost")
  /\ UNCHANGED <<buffer, lock, flushEvent, threadState, batch, added, inherited>>

-----------------------------------------------------------------------------
(* flush() from the application, with the flag set around it.              *)
Flush(t) ==
  /\ pc[t] = "idle" /\ t \in Threads
  /\ active' = [active EXCEPT ![t] = TRUE]
  /\ Goto(t, "flush")
  /\ UNCHANGED <<data, lock, flushEvent, threadState, item>>

(* The end of _flush, by return or by exception: to the application, or to *)
(* the flusher's loop, which swallows the exception.                       *)
FlushReturnOnce(t) ==                                  \* seeded bug
  IF t \in Threads
    THEN Goto(t, "idle") /\ active' = [active EXCEPT ![t] = FALSE]
    ELSE Goto(t, "dead") /\ UNCHANGED active
FlushReturn(t) ==
  IF t \in Threads
    THEN Goto(t, "idle") /\ active' = [active EXCEPT ![t] = FALSE]
    ELSE Goto(t, "loop") /\ UNCHANGED active

LockForFlush(t) ==
  /\ pc[t] = "flush" /\ lock = None
  /\ \/ /\ buffer = {}
        /\ FlushReturn(t)
        /\ UNCHANGED lock
     \/ /\ buffer # {}
        /\ lock' = t
        /\ Goto(t, "serialize")
        /\ UNCHANGED active
  /\ UNCHANGED <<data, flushEvent, threadState, item>>

(* _add_to_envelope, then _buffer.clear(), unless an item cannot be        *)
(* serialized: the buffer stays as it is.                                  *)
SerializeAndKeep(t, kept) ==
  /\ pc[t] = "serialize"
  /\ lock' = None
  /\ \/ /\ buffer \cap Poison = {}
        /\ batch' = [batch EXCEPT ![t] = buffer]
        /\ buffer' = kept
        /\ Goto(t, "capture")
        /\ UNCHANGED active
     \/ /\ buffer \cap Poison # {}
        /\ FlushReturn(t)
        /\ UNCHANGED <<batch, buffer>>
  /\ UNCHANGED <<flushEvent, threadState, item, added, inherited, outcomes>>

SerializeKeeps(t) == SerializeAndKeep(t, buffer)       \* seeded bug
Serialize(t) == SerializeAndKeep(t, {})

(* _capture_func(envelope), without the lock.                              *)
Capture(t) ==
  /\ pc[t] = "capture"
  /\ \/ Meet(batch[t], "captured")
     \/ CaptureMayFail /\ Meet(batch[t], "failed")
  /\ batch' = [batch EXCEPT ![t] = {}]
  /\ FlushReturn(t)
  /\ UNCHANGED <<buffer, lock, flushEvent, threadState, item, added, inherited>>

-----------------------------------------------------------------------------
(* _flush_loop.  Its wait() ends when the event is set or the time is up,  *)
(* which can be at any moment.                                             *)
FlusherMark(f, flag) ==
  /\ pc[f] = "begin"
  /\ active' = [active EXCEPT ![f] = flag]
  /\ Goto(f, "loop")
  /\ UNCHANGED <<data, lock, flushEvent, threadState, item>>

FlusherBeginUnmarked(f) == FlusherMark(f, FALSE)       \* seeded bug
FlusherBegin(f) == FlusherMark(f, TRUE)

FlusherLoop(f) ==
  /\ pc[f] = "loop"
  /\ Goto(f, IF running THEN "wait" ELSE "dead")
  /\ UNCHANGED <<data, lock, active, flushEvent, threadState, item>>

FlusherWait(f, over) ==
  /\ pc[f] = "wait" /\ over
  /\ Goto(f, "clear")
  /\ UNCHANGED <<data, lock, active, flushEvent, threadState, item>>

FlusherWake(f) == FlusherWait(f, TRUE)

FlusherClear(f) ==
  /\ pc[f] = "clear"
  /\ flushEvent' = FALSE
  /\ Goto(f, "flush")
  /\ UNCHANGED <<data, lock, active, threadState, item>>

-----------------------------------------------------------------------------
(* kill(): a test and three writes, without the lock and without the flag. *)
KillFrom(t, runs, left) ==
  /\ pc[t] = "idle" /\ t \in Threads
  /\ flusher # None
  /\ running' = runs /\ flusher' = left
  /\ Goto(t, "kill_event")
  /\ UNCHANGED <<data, lock, active, flushEvent, flusherPid, pid, item>>

KillForgetsFirst(t) == KillFrom(t, running, None)      \* seeded bug
Kill(t) == KillFrom(t, FALSE, flusher)

KillEvent(t) ==
  /\ pc[t] = "kill_event"
  /\ flushEvent' = TRUE
  /\ Goto(t, "kill_forget")
  /\ UNCHANGED <<data, lock, active, threadState, item>>

KillForget(t) ==
  /\ pc[t] = "kill_forget"
  /\ flusher' = None
  /\ Goto(t, "idle")
  /\ UNCHANGED <<data, lock, active, flushEvent, running, flusherPid, pid, item>>

(* os.fork() in t, followed into the child, where t is the only thread and *)
(* _reset_thread_state has run.                                            *)
ForkWith(t, held, kept) ==
  /\ pc[t] = "idle" /\ t \in Threads
  /\ pid < MaxForks
  /\ pid' = pid + 1
  /\ buffer' = kept /\ running' = TRUE /\ lock' = held /\ flushEvent' = FALSE
  /\ active' = [u \in Actors |-> FALSE]
  /\ flusher' = None /\ flusherPid' = None
  /\ pc' = [u \in Actors |-> IF u = t \/ pc[u] = "new" THEN pc[u] ELSE "gone"]
  /\ item' = [u \in Actors |-> None]
  /\ batch' = [u \in Actors |-> {}]
  /\ inherited' = inherited \cup added /\ added' = {}
  /\ UNCHANGED outcomes

ForkKeepsLock(t) == ForkWith(t, lock, {})              \* seeded bug
ForkKeepsBuffer(t) == ForkWith(t, None, buffer)        \* seeded bug
Fork(t) == ForkWith(t, None, {})

AddStep(t) ==
  \/ EnsureThread(t) \/ Recheck(t)    \/ CreateFlusher(t) \/ StartFlusher(t)
  \/ CheckFlusher(t) \/ LockForAdd(t) \/ AppendItem(t)    \/ RecordLost(t)
FlushStep(t) == LockForFlush(t) \/ Serialize(t) \/ Capture(t)
KillStep(t)  == KillEvent(t) \/ KillForget(t)
LoopStep(f)  == FlusherBegin(f) \/ FlusherLoop(f) \/ FlusherWake(f) \/ FlusherClear(f)

Next ==
  \/ \E t \in Threads :
       \/ AddStep(t) \/ FlushStep(t) \/ KillStep(t)
       \/ Flush(t) \/ Kill(t) \/ Fork(t)
  \/ \E f \in Flushers : LoopStep(f) \/ FlushStep(f)
  \/ \E t \in Actors, x \in Items : Add(t, x)

Spec == Init /\ [][Next]_vars

(* Threads run, and a thread that keeps asking for _lock gets it: adders   *)
(* and flushers hold it for a moment only.  Calls are not fair.            *)
Fairness ==
  /\ \A t \in Threads : SF_vars(AddStep(t)) /\ SF_vars(FlushStep(t)) /\ WF_vars(KillStep(t))
  /\ \A f \in Flushers : WF_vars(LoopStep(f)) /\ SF_vars(FlushStep(f))

FairSpec == Spec /\ Fairness

-----------------------------------------------------------------------------
(* An add() nested in a thread's own batcher code (a finalizer that logs)  *)
(* would deadlock on a lock that this thread holds: _lock, or the lock of  *)
(* _flush_event inside set(), wait() and clear().  It returns before it    *)
(* asks for one, because the flag is set or the batcher is stopped         *)
(* (_batcher.py:96-100, 113-121, 140-145).                                 *)
HoldsLock(t) == lock = t \/ pc[t] \in {"kill_event", "wait", "clear"}
NoSelfDeadlock == \A t \in Actors : HoldsLock(t) => active[t] \/ ~running

(* One flusher at a time, however first add() calls race                   *)
(* (_batcher.py:71-84).                                                    *)
Running == {f \in Flushers : pc[f] \notin {"new", "gone", "dead"}}
OneFlusher == Cardinality(Running) <= 1

(* Who still has an item that was added; None stands for the buffer.       *)
Holders ==
  [x \in Items |-> {t \in Actors : item[t] = x \/ x \in batch[t]}
                     \cup (IF x \in buffer THEN {None} ELSE {})]

(* Every item is in one place, or has met one outcome: none is sent twice  *)
(* by two flushes, and none is sent and also reported as lost              *)
(* (_batcher.py:126-136, 179-186).                                         *)
Conservation ==
  \A x \in added : Cardinality(Holders[x]) + Len(outcomes[x]) = 1

(* Enough items in the buffer never wait for the flusher's timeout: the    *)
(* event is set, or someone is on the way to the buffer, even if clear()   *)
(* came between (_batcher.py:102-110, 129-131).                            *)
FullBufferWakes ==
  running /\ buffer \cap Poison = {} /\ Cardinality(buffer) >= MaxBeforeFlush
    => flushEvent \/ \E u \in Actors : pc[u] \in {"clear", "flush", "serialize"}

(* One flusher looks after the buffer, and does so as soon as there is     *)
(* enough in it (_batcher.py:71-84, 102-110).                              *)
FlusherAttends == TypeOK /\ OneFlusher /\ FullBufferWakes

(* While the batcher runs, an item that has passed the test of the flag    *)
(* can only vanish silently between the two writes of _ensure_thread, when *)
(* another thread sees the pid of a flusher that is not there yet          *)
(* (_batcher.py:71-82, 123-124).                                           *)
IgnoredOnlyAtStart ==
  [][\A x \in added :
       running /\ outcomes'[x] # outcomes[x] /\ outcomes'[x][1] = "ignored"
         => \E t \in Threads : pc[t] \in {"create", "start"}]_vars

(* And the test turns back the nested calls only: while the batcher runs,  *)
(* a thread outside of it is never taken for one inside, neither because   *)
(* of another thread nor after a flush or an add that raised or was killed *)
(* (_batcher.py:113-121, 137-138, 148-154).                                *)
InBatcher(t) == pc[t] \in AddPoints \cup FlushPoints \cup {"loop", "wait", "clear"}
IgnoredOnlyIfNested ==
  [][\A t \in Actors, x \in Items :
       running /\ ~InBatcher(t) /\ Add(t, x) => UNCHANGED outcomes]_vars

(* add() raises only if a kill() came between the creation of the flusher  *)
(* and its start (_batcher.py:82-86, 140-146).                             *)
RaisesOnlyIfKilled ==
  \A x \in added : "raised" \in {outcomes[x][i] : i \in DOMAIN outcomes[x]} => ~running

(* A call to log does no harm to its caller: add() neither waits for       *)
(* itself nor raises, unless kill() interfered (_batcher.py:71-86,         *)
(* 113-145).                                                               *)
AddIsSafe == NoSelfDeadlock /\ RaisesOnlyIfKilled

(* A child process never delivers what its parent had buffered or was      *)
(* about to send (_batcher.py:54-61).                                      *)
NotDeliveredTwice == [][\A x \in inherited : outcomes'[x] = outcomes[x]]_vars

(* What becomes of an item is never the wrong process's doing, and while   *)
(* the batcher runs it is never nothing, but for that moment and for calls *)
(* from inside the batcher (_batcher.py:54-82, 113-124).                   *)
OutcomesDeserved == NotDeliveredTwice /\ IgnoredOnlyAtStart /\ IgnoredOnlyIfNested

(* Every add(), flush() and kill() returns, also in a child forked while   *)
(* another thread held _lock (_batcher.py:43-61).                          *)
CallsReturn ==
  \A t \in Threads : pc[t] # "idle" ~> pc[t] \in {"idle", "gone"}

(* While the batcher runs, a buffered item does not stay in the buffer,    *)
(* although a flush may fail (_batcher.py:101-110); unless one that cannot *)
(* be serialized is in the buffer too, which no flush gets past (179-184). *)
BufferDrains ==
  \A x \in Items \ Poison :
    x \in buffer ~> x \notin buffer \/ ~running \/ buffer \cap Poison # {}

(* Neither a call nor an item stays for ever where a lock, an event or a   *)
(* failure has left it (_batcher.py:43-61, 101-110, 179-184).              *)
NothingStalls == CallsReturn /\ BufferDrains
=============================================================================

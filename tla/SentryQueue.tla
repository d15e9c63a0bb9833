----------------------------- MODULE SentryQueue -----------------------------
(***************************************************************************)
(* sentry_sdk/_queue.py: the SDK's fork of the standard library's Queue,   *)
(* with its one mutex turned into an RLock "to avoid a deadlock while      *)
(* garbage collecting".  The mutex is shared by three conditions; a thread *)
(* asleep in one of them is a thread whose pc is "put_wait", "get_wait" or *)
(* "join_wait", and a notify moves it back to the check that its wait loop *)
(* makes next.                                                             *)
(*                                                                         *)
(* A critical section is one step unless it calls a function between       *)
(* reading what the mutex protects and acting on it.  Three do: put()      *)
(* between its test for a free slot and the append, get() between finding  *)
(* the queue empty and falling asleep, and task_done() between computing   *)
(* the new count and storing it.  There the thread may run a finalizer,    *)
(* which may log, which may put an event: the RLock lets that nested       *)
(* put_nowait in.  ReentrantAt says at which of the three points it can    *)
(* happen; {} is the queue without reentrancy.                             *)
(***************************************************************************)
EXTENDS Naturals, Sequences, FiniteSets

CONSTANTS Threads,      \* the threads that use the queue
          Items,        \* what can be put into it
          MaxSize,      \* Queue(maxsize); transport_queue_size, 100 by default
          None,         \* no thread, no item
          ReentrantAt   \* the call points at which a finalizer can put

ASSUME ThreadsFinite == IsFiniteSet(Threads)
ASSUME MaxSizePositive == MaxSize \in Nat \ {0}
ASSUME NoneIsNone == None \notin Threads /\ None \notin Items
ASSUME ReentrantPoints == ReentrantAt \subseteq {"put_commit", "get_sleep", "done_store"}

VARIABLES items,        \* Queue.queue
          unfinished,   \* Queue.unfinished_tasks
          mutex,        \* who is inside a critical section that spans steps
          pc,           \* where each thread is
          mode,         \* how long its put or get may block
          held          \* the item it is putting, or fetched and works on

vars == <<items, unfinished, mutex, pc, mode, held>>

Modes == {"nowait", "forever", "timed"}

PutPoints  == {"put", "put_wait", "put_commit"}
GetPoints  == {"get", "get_sleep", "get_wait"}
JoinPoints == {"join", "join_wait"}
DonePoints == {"working", "done_store"}
Points == {"idle", "crashed"} \cup PutPoints \cup GetPoints
            \cup JoinPoints \cup DonePoints

TypeOK ==
  /\ items \in Seq(Items)
  /\ unfinished \in Nat
  /\ mutex \in Threads \cup {None}
  /\ pc \in [Threads -> Points]
  /\ mode \in [Threads -> Modes]
  /\ held \in [Threads -> Items \cup {None}]

At(point)  == {t \in Threads : pc[t] = point}
Room       == Len(items) < MaxSize
Fetched    == {t \in Threads : pc[t] \in DonePoints}

Init ==
  /\ items = <<>>
  /\ unfinished = 0
  /\ mutex = None
  /\ pc = [t \in Threads |-> "idle"]
  /\ mode = [t \in Threads |-> "nowait"]
  /\ held = [t \in Threads |-> None]

-----------------------------------------------------------------------------
(* Condition.notify(): pc with t moved to `point` and one sleeper of the   *)
(* condition (any of them) moved from `asleep` to `awake`.                 *)
Notified(t, point, asleep, awake) ==
  LET here == [pc EXCEPT ![t] = point]
  IN IF At(asleep) = {} THEN {here}
     ELSE {[here EXCEPT ![u] = awake] : u \in At(asleep)}

(* Condition.notify_all().                                                 *)
AllNotified(asleep, awake) ==
  [u \in Threads |-> IF pc[u] = asleep THEN awake ELSE pc[u]]

(* put(item, block, timeout) is called. *)
PutCall(t, x, m) ==
  /\ pc[t] = "idle"
  /\ pc' = [pc EXCEPT ![t] = "put"]
  /\ mode' = [mode EXCEPT ![t] = m]
  /\ held' = [held EXCEPT ![t] = x]
  /\ UNCHANGED <<items, unfinished, mutex>>

(* Seeded bug: the mutex is released between the test and the append.      *)
PutCheckUnlocked(t) ==
  /\ pc[t] = "put" /\ mutex = None
  /\ Room
  /\ pc' = [pc EXCEPT ![t] = "put_commit"]
  /\ UNCHANGED <<items, unfinished, mutex, mode, held>>

(* The test of put's wait loop, and the FullError of a put that may not or *)
(* may no longer wait.                                                     *)
PutCheck(t) ==
  /\ pc[t] = "put" /\ mutex = None
  /\ \/ /\ Room
        /\ mutex' = t
        /\ pc' = [pc EXCEPT ![t] = "put_commit"]
        /\ UNCHANGED held
     \/ /\ ~Room /\ mode[t] = "nowait"
        /\ pc' = [pc EXCEPT ![t] = "idle"]
        /\ held' = [held EXCEPT ![t] = None]
        /\ UNCHANGED mutex
     \/ /\ ~Room /\ mode[t] # "nowait"
        /\ pc' = [pc EXCEPT ![t] = "put_wait"]
        /\ UNCHANGED <<mutex, held>>
  /\ UNCHANGED <<items, unfinished, mode>>

(* Seeded bug: not_empty is not notified.                                  *)
PutCommitSilent(t) ==
  /\ pc[t] = "put_commit"
  /\ items' = Append(items, held[t])
  /\ unfinished' = unfinished + 1
  /\ mutex' = None
  /\ pc' = [pc EXCEPT ![t] = "idle"]
  /\ held' = [held EXCEPT ![t] = None]
  /\ UNCHANGED mode

(* _put(item), unfinished_tasks += 1, not_empty.notify(), release. *)
PutCommit(t) ==
  /\ pc[t] = "put_commit"
  /\ items' = Append(items, held[t])
  /\ unfinished' = unfinished + 1
  /\ mutex' = None
  /\ pc' \in Notified(t, "idle", "get_wait", "get")
  /\ held' = [held EXCEPT ![t] = None]
  /\ UNCHANGED mode

GetCall(t, m) ==
  /\ pc[t] = "idle"
  /\ pc' = [pc EXCEPT ![t] = "get"]
  /\ mode' = [mode EXCEPT ![t] = m]
  /\ UNCHANGED <<items, unfinished, mutex, held>>

(* Seeded bug: not_full is not notified.                                   *)
GetCheckSilent(t) ==
  /\ pc[t] = "get" /\ mutex = None
  /\ items # <<>>
  /\ items' = Tail(items)
  /\ held' = [held EXCEPT ![t] = Head(items)]
  /\ pc' = [pc EXCEPT ![t] = "working"]
  /\ UNCHANGED <<unfinished, mutex, mode>>

(* Seeded bug: pop() for popleft(), the newest item leaves first.          *)
GetCheckNewest(t) ==
  /\ pc[t] = "get" /\ mutex = None
  /\ items # <<>>
  /\ items' = SubSeq(items, 1, Len(items) - 1)
  /\ held' = [held EXCEPT ![t] = items[Len(items)]]
  /\ pc' \in Notified(t, "working", "put_wait", "put")
  /\ UNCHANGED <<unfinished, mutex, mode>>

(* The test of get's wait loop; the oldest item leaves the queue and one   *)
(* thread that waits for room is notified.                                 *)
GetCheck(t) ==
  /\ pc[t] = "get" /\ mutex = None
  /\ \/ /\ items # <<>>
        /\ items' = Tail(items)
        /\ held' = [held EXCEPT ![t] = Head(items)]
        /\ pc' \in Notified(t, "working", "put_wait", "put")
        /\ UNCHANGED mutex
     \/ /\ items = <<>> /\ mode[t] = "nowait"
        /\ pc' = [pc EXCEPT ![t] = "idle"]
        /\ UNCHANGED <<items, mutex, held>>
     \/ /\ items = <<>> /\ mode[t] # "nowait"
        /\ mutex' = t
        /\ pc' = [pc EXCEPT ![t] = "get_sleep"]
        /\ UNCHANGED <<items, held>>
  /\ UNCHANGED <<unfinished, mode>>

(* not_empty.wait(): registered as a waiter and the mutex released.        *)
GetSleep(t) ==
  /\ pc[t] = "get_sleep"
  /\ mutex' = None
  /\ pc' = [pc EXCEPT ![t] = "get_wait"]
  /\ UNCHANGED <<items, unfinished, mode, held>>

(* The deadline of a timed put or get passes: its next test raises         *)
(* FullError or EmptyError instead of waiting.  A sleeper stays registered *)
(* until it wakes, so that a notify can still choose it.                   *)
Expire(t) ==
  /\ mode[t] = "timed"
  /\ pc[t] \in {"put", "put_wait", "get", "get_sleep", "get_wait"}
  /\ mode' = [mode EXCEPT ![t] = "nowait"]
  /\ UNCHANGED <<items, unfinished, mutex, pc, held>>

WakeExpired(t) ==
  /\ mode[t] = "nowait"
  /\ \/ pc[t] = "put_wait" /\ pc' = [pc EXCEPT ![t] = "put"]
     \/ pc[t] = "get_wait" /\ pc' = [pc EXCEPT ![t] = "get"]
  /\ UNCHANGED <<items, unfinished, mutex, mode, held>>

(* Seeded bug: no test for a count that is already 0.                      *)
TaskDoneUnchecked(t) ==
  /\ pc[t] = "working" /\ mutex = None
  /\ \/ /\ unfinished = 1
        /\ mutex' = t
        /\ pc' = [AllNotified("join_wait", "join") EXCEPT ![t] = "done_store"]
        /\ UNCHANGED <<unfinished, held>>
     \/ /\ unfinished # 1
        /\ unfinished' = unfinished - 1
        /\ pc' = [pc EXCEPT ![t] = "idle"]
        /\ held' = [held EXCEPT ![t] = None]
        /\ UNCHANGED mutex
  /\ UNCHANGED <<items, mode>>

(* Seeded bug: the mutex is released before the count is stored.           *)
TaskDoneUnlocked(t) ==
  /\ pc[t] = "working" /\ mutex = None
  /\ unfinished = 1
  /\ pc' = [AllNotified("join_wait", "join") EXCEPT ![t] = "done_store"]
  /\ UNCHANGED <<items, unfinished, mutex, mode, held>>

(* Seeded bug: all_tasks_done is not notified.                             *)
TaskDoneSilent(t) ==
  /\ pc[t] = "working" /\ mutex = None
  /\ unfinished = 1
  /\ mutex' = t
  /\ pc' = [pc EXCEPT ![t] = "done_store"]
  /\ UNCHANGED <<items, unfinished, mode, held>>

(* task_done() up to the store: ValueError if the count is already 0, and  *)
(* notify_all before the count that the woken threads wait for is stored.  *)
TaskDone(t) ==
  /\ pc[t] = "working" /\ mutex = None
  /\ \/ /\ unfinished = 0
        /\ pc' = [pc EXCEPT ![t] = "crashed"]
        /\ UNCHANGED <<unfinished, mutex, held>>
     \/ /\ unfinished = 1
        /\ mutex' = t
        /\ pc' = [AllNotified("join_wait", "join") EXCEPT ![t] = "done_store"]
        /\ UNCHANGED <<unfinished, held>>
     \/ /\ unfinished > 1
        /\ unfinished' = unfinished - 1
        /\ pc' = [pc EXCEPT ![t] = "idle"]
        /\ held' = [held EXCEPT ![t] = None]
        /\ UNCHANGED mutex
  /\ UNCHANGED <<items, mode>>

(* Seeded bug: the new count is not stored.                                *)
DoneStoreForgotten(t) ==
  /\ pc[t] = "done_store"
  /\ mutex' = None
  /\ pc' = [pc EXCEPT ![t] = "idle"]
  /\ held' = [held EXCEPT ![t] = None]
  /\ UNCHANGED <<items, unfinished, mode>>

(* The store, of the count computed before notify_all was called.          *)
DoneStore(t) ==
  /\ pc[t] = "done_store"
  /\ unfinished' = 0
  /\ mutex' = None
  /\ pc' = [pc EXCEPT ![t] = "idle"]
  /\ held' = [held EXCEPT ![t] = None]
  /\ UNCHANGED <<items, mode>>

JoinCall(t) ==
  /\ pc[t] = "idle"
  /\ pc' = [pc EXCEPT ![t] = "join"]
  /\ UNCHANGED <<items, unfinished, mutex, mode, held>>

(* Seeded bug: join() tests that the queue is empty.                       *)
JoinCheckEmpty(t) ==
  /\ pc[t] = "join" /\ mutex = None
  /\ pc' = [pc EXCEPT ![t] = IF items = <<>> THEN "idle" ELSE "join_wait"]
  /\ UNCHANGED <<items, unfinished, mutex, mode, held>>

JoinCheck(t) ==
  /\ pc[t] = "join" /\ mutex = None
  /\ pc' = [pc EXCEPT ![t] = IF unfinished = 0 THEN "idle" ELSE "join_wait"]
  /\ UNCHANGED <<items, unfinished, mutex, mode, held>>

(* Seeded bug: a nested put does not test for a free slot.                 *)
ReenterUnchecked(t, x) ==
  /\ pc[t] \in ReentrantAt
  /\ Len(items) < MaxSize + 2
  /\ items' = Append(items, x)
  /\ unfinished' = unfinished + 1
  /\ pc' \in Notified(t, pc[t], "get_wait", "get")
  /\ UNCHANGED <<mutex, mode, held>>

(* A finalizer that runs inside t's critical section calls put_nowait(x).  *)
(* Without room it raises FullError and changes nothing.                   *)
Reenter(t, x) ==
  /\ pc[t] \in ReentrantAt
  /\ Room
  /\ items' = Append(items, x)
  /\ unfinished' = unfinished + 1
  /\ pc' \in Notified(t, pc[t], "get_wait", "get")
  /\ UNCHANGED <<mutex, mode, held>>

Step(t) ==
  \/ PutCheck(t)  \/ PutCommit(t)
  \/ GetCheck(t)  \/ GetSleep(t)
  \/ TaskDone(t)  \/ DoneStore(t)
  \/ JoinCheck(t) \/ WakeExpired(t)

Next ==
  \E t \in Threads :
    \/ Step(t)
    \/ Expire(t)
    \/ JoinCall(t)
    \/ \E m \in Modes : GetCall(t, m) \/ \E x \in Items : PutCall(t, x, m)
    \/ \E x \in Items : Reenter(t, x)

Spec == Init /\ [][Next]_vars

-----------------------------------------------------------------------------
(* unfinished_tasks counts what join() must wait for: the queued items and *)
(* the fetched ones whose task_done() has not returned (_queue.py:126-146, *)
(* 220).  A count too high hangs every flush, one too low lets it return   *)
(* early and makes a later task_done() raise in the worker thread.         *)
CountExact == unfinished = Len(items) + Cardinality(Fetched)

(* With reentrancy the count can only be too low, never too high: a flush  *)
(* is never kept waiting for a task that does not exist.                   *)
NeverOvercounted ==
  unfinished <= Len(items) + Cardinality(Fetched)

(* put() never stores an item beyond maxsize (_queue.py:202-219).          *)
Bounded == Len(items) <= MaxSize

(* A finalizer's put between the test and the append oversteps the bound   *)
(* by one item at most, however often it runs.                             *)
OvershootByOne == Len(items) <= MaxSize + 1

(* What a finalizer that calls put() in the middle of another call may do  *)
(* to the queue: one item too many, a count too low, and nothing worse     *)
(* (_queue.py:140-146, 202-221).                                           *)
OffByOneAtMost == TypeOK /\ OvershootByOne /\ NeverOvercounted

(* While a consumer sleeps, every queued item has a consumer that is awake *)
(* and about to test for it; while a producer sleeps, every free slot has  *)
(* one.  Each notify() wakes a single thread (_queue.py:221, 251), which   *)
(* may find that a newcomer was faster, or whose deadline may have passed. *)
GetterWakes ==
  At("get_wait") # {} => Len(items) <= Cardinality(At("get"))
PutterWakes ==
  At("put_wait") # {} =>
    MaxSize <= Len(items) + Cardinality(At("put") \cup At("put_commit"))

(* No caller of join() sleeps while the count is 0, although notify_all    *)
(* comes before the store (_queue.py:145-146).                             *)
JoinerWakes == mutex = None /\ unfinished = 0 => At("join_wait") = {}

(* No thread sleeps in a condition that holds, whichever it waits for      *)
(* (_queue.py:133-146, 202-251).                                           *)
NoLostWakeup == GetterWakes /\ PutterWakes /\ JoinerWakes

(* join() returns only when every item put before has been fetched and     *)
(* reported as done (_queue.py:133-135).                                   *)
JoinContract ==
  [][\A t \in Threads :
       pc[t] \in JoinPoints /\ pc'[t] = "idle" => items = <<>> /\ Fetched = {}]_vars

(* The queue implements TaskQueue: items leave in the order they came, one *)
(* consumer gets each, no task_done() fails, and join() waits for all.     *)
Task    == [t \in Threads |-> IF t \in Fetched THEN held[t] ELSE None]
Joining == {t \in Threads : pc[t] \in JoinPoints}
Abstract == INSTANCE TaskQueue WITH task <- Task, joining <- Joining
ImplementsTaskQueue == Abstract!Spec
=============================================================================

------------------------------ MODULE TaskQueue ------------------------------
(***************************************************************************)
(* What sentry_sdk/_queue.py promises its callers, without locks and       *)
(* condition variables: a bounded first-in first-out queue of items, the   *)
(* task each consumer has fetched and not yet reported with task_done(),   *)
(* and the callers of join(), who are let go only when nothing is left.    *)
(***************************************************************************)
EXTENDS Naturals, Sequences

CONSTANTS Threads,   \* the threads that use the queue
          Items,     \* what can be put into it
          MaxSize,   \* Queue(maxsize), positive
          None       \* "no task"

VARIABLES items,     \* the queued items, oldest first
          task,      \* task[t]: what t fetched and has not reported as done
          joining    \* the threads inside join()

vars == <<items, task, joining>>

TypeOK ==
  /\ items \in Seq(Items)
  /\ Len(items) <= MaxSize
  /\ task \in [Threads -> Items \cup {None}]
  /\ joining \subseteq Threads

Init ==
  /\ items = <<>>
  /\ task = [t \in Threads |-> None]
  /\ joining = {}

(* An item is accepted only into a free slot. *)
Put(x) ==
  /\ Len(items) < MaxSize
  /\ items' = Append(items, x)
  /\ UNCHANGED <<task, joining>>

(* The oldest item goes to one consumer. *)
Get(t) ==
  /\ task[t] = None
  /\ items # <<>>
  /\ items' = Tail(items)
  /\ task' = [task EXCEPT ![t] = Head(items)]
  /\ UNCHANGED joining

TaskDone(t) ==
  /\ task[t] # None
  /\ task' = [task EXCEPT ![t] = None]
  /\ UNCHANGED <<items, joining>>

JoinCall(t) ==
  /\ joining' = joining \cup {t}
  /\ UNCHANGED <<items, task>>

(* join() "resumes when all items have been processed". *)
JoinReturn(t) ==
  /\ t \in joining
  /\ items = <<>>
  /\ \A u \in Threads : task[u] = None
  /\ joining' = joining \ {t}
  /\ UNCHANGED <<items, task>>

Next ==
  \/ \E x \in Items : Put(x)
  \/ \E t \in Threads : Get(t) \/ TaskDone(t) \/ JoinCall(t) \/ JoinReturn(t)

Spec == Init /\ [][Next]_vars
=============================================================================

--------------------------- MODULE BackgroundWorker ---------------------------
(***************************************************************************)
(* sentry_sdk/worker.py, BackgroundWorker: the thread that sends envelopes *)
(* for the HTTP transport.  Application threads submit jobs, kill the      *)
(* worker, flush it and fork the process; the worker thread is started on  *)
(* demand and runs until it takes a terminator from the queue.  A job may  *)
(* submit another one (the transport's client reports do), so worker       *)
(* threads are callers of submit() too.                                    *)
(*                                                                         *)
(* The queue is TaskQueue (SentryQueue implements it): put_nowait, get and *)
(* task_done are single steps here.  submit() holds no lock between its    *)
(* test for a living thread and its put, so these are separate steps.      *)
(***************************************************************************)
EXTENDS Naturals, Sequences, FiniteSets

CONSTANTS Clients,       \* application threads
          Workers,       \* worker threads that can ever be started, numbered
          Jobs,          \* callbacks, each submitted at most once
          QueueSize,     \* Queue(queue_size)
          Terminator,    \* _TERMINATOR
          None,          \* no thread, no job, no pid
          MaxKills, MaxFlushes, MaxForks,
          ForkAnywhere,  \* can fork() come while another thread holds _lock?
          MayShutDown,   \* can the interpreter stop starting threads?
          JobsSubmit     \* do jobs submit jobs?

ASSUME QueueSizePositive == QueueSize \in Nat \ {0}
ASSUME Distinct ==
  /\ Terminator \notin Jobs
  /\ None \notin Jobs \cup {Terminator} \cup Clients \cup Workers
  /\ Clients \cap Workers = {}
ASSUME NumberedWorkers == IsFiniteSet(Workers) /\ Workers \subseteq Nat
ASSUME Bounds == /\ MaxKills \in Nat /\ MaxFlushes \in Nat /\ MaxForks \in Nat
                 /\ {ForkAnywhere, MayShutDown, JobsSubmit} \subseteq BOOLEAN

VARIABLES
  queue,         \* _queue.queue
  unfinished,    \* _queue.unfinished_tasks
  lock,          \* the holder of _lock while flush() waits
  thread,        \* _thread
  threadForPid,  \* _thread_for_pid, as the number of forks before it; None
  pid,           \* os.getpid(), likewise
  canStart,      \* FALSE: Thread.start() raises RuntimeError
  wpc,           \* worker thread: "new" "get" "run" "report" "dead"
  wjob,          \* the job (or terminator) it fetched
  pc,            \* where a caller is in submit() or flush()
  cjob,          \* the job it submits
  accepted,      \* jobs for which submit() returned True
  owned,         \* those put while _thread was set, and ~stray
  stray,         \* has a terminator been queued for a thread that fork() left behind?
  finished,      \* jobs whose callback has run
  awaited,       \* per client, the jobs accepted before its flush()
  kills, flushes \* calls so far

clientVars == <<pc, cjob, awaited>>
workerVars == <<wpc, wjob, finished>>
calls == <<kills, flushes>>
threadVars == <<thread, threadForPid, pid, canStart, stray>>
vars == <<queue, unfinished, lock, threadVars, workerVars, clientVars,
          accepted, owned, calls>>

Callers == Clients \cup Workers

Live == {w \in Workers : wpc[w] \in {"get", "run", "report"}}
Busy == {w \in Workers : wpc[w] \in {"run", "report"}}

TypeOK ==
  /\ queue \in Seq(Jobs \cup {Terminator})
  /\ unfinished \in Nat
  /\ lock \in Clients \cup {None}
  /\ thread \in Workers \cup {None}
  /\ pid \in 0..MaxForks /\ threadForPid \in 0..MaxForks \cup {None}
  /\ canStart \in BOOLEAN /\ stray \in BOOLEAN
  /\ wpc \in [Workers -> {"new", "get", "run", "report", "dead"}]
  /\ wjob \in [Workers -> Jobs \cup {Terminator, None}]
  /\ pc \in [Callers -> {"idle", "alive", "start", "put", "flush1", "flush2",
                         "raised", "gone"}]
  /\ cjob \in [Callers -> Jobs \cup {None}]
  /\ accepted \subseteq Jobs /\ owned \subseteq accepted /\ finished \subseteq Jobs
  /\ awaited \in [Clients -> SUBSET Jobs]
  /\ kills \in 0..MaxKills /\ flushes \in 0..MaxFlushes

Init ==
  /\ queue = <<>> /\ unfinished = 0 /\ lock = None
  /\ thread = None /\ threadForPid = None /\ pid = 0 /\ canStart = TRUE
  /\ stray = FALSE
  /\ wpc = [w \in Workers |-> "new"] /\ wjob = [w \in Workers |-> None]
  /\ pc = [c \in Callers |-> "idle"] /\ cjob = [c \in Callers |-> None]
  /\ accepted = {} /\ owned = {} /\ finished = {}
  /\ awaited = [c \in Clients |-> {}]
  /\ kills = 0 /\ flushes = 0

Room == Len(queue) < QueueSize

(* is_alive, evaluated where _thread cannot change during the evaluation.  *)
IsAlive == threadForPid = pid /\ thread # None /\ thread \in Live

(* The worker thread that is created next.                                 *)
IsNext(w) == wpc[w] = "new" /\ \A v \in Workers : wpc[v] = "new" => w <= v

(* An application thread, or a worker thread inside its job.               *)
MayCall(c) == pc[c] = "idle" /\ (c \in Workers => JobsSubmit /\ wpc[c] = "run")

-----------------------------------------------------------------------------
(* submit(): is_alive up to its test that _thread is set.                  *)
Submit(c, j) ==
  /\ MayCall(c)
  /\ j \notin accepted /\ \A d \in Callers : cjob[d] # j
  /\ cjob' = [cjob EXCEPT ![c] = j]
  /\ pc' = [pc EXCEPT ![c] =
              IF threadForPid = pid /\ thread # None THEN "alive" ELSE "start"]
  /\ UNCHANGED <<queue, unfinished, lock, threadVars, workerVars, awaited,
                 accepted, owned, calls>>

(* The second read of _thread, for _thread.is_alive(): an AttributeError   *)
(* if kill() has reset it in between.  _target swallows the one of a job.  *)
AliveCall(c) ==
  /\ pc[c] = "alive"
  /\ \/ /\ thread # None
        /\ pc' = [pc EXCEPT ![c] = IF thread \in Live THEN "put" ELSE "start"]
        /\ UNCHANGED cjob
     \/ /\ thread = None
        /\ pc' = [pc EXCEPT ![c] = IF c \in Clients THEN "raised" ELSE "idle"]
        /\ cjob' = [cjob EXCEPT ![c] = None]
  /\ UNCHANGED <<queue, unfinished, lock, threadVars, workerVars, awaited,
                 accepted, owned, calls>>

(* start(), under _lock, which tests again whether the thread is alive.    *)
StartUnless(c, alive) ==
  /\ pc[c] = "start" /\ lock = None
  /\ \/ /\ alive
        /\ UNCHANGED <<thread, threadForPid, wpc>>
     \/ /\ ~alive /\ canStart
        /\ \E w \in Workers :
             /\ IsNext(w)
             /\ wpc' = [wpc EXCEPT ![w] = "get"]
             /\ thread' = w
        /\ threadForPid' = pid
     \/ /\ ~alive /\ ~canStart
        /\ thread' = None
        /\ UNCHANGED <<threadForPid, wpc>>
  /\ pc' = [pc EXCEPT ![c] = "put"]
  /\ UNCHANGED <<queue, unfinished, lock, pid, canStart, stray, wjob, finished,
                 cjob, awaited, accepted, owned, calls>>

StartUnchecked(c) == StartUnless(c, FALSE)             \* seeded bug
StartAnyThread(c) == StartUnless(c, thread # None)     \* seeded bug
Start(c) == StartUnless(c, IsAlive)

(* put_nowait(callback): True, or False if the queue is full.              *)
Put(c) ==
  /\ pc[c] = "put"
  /\ \/ /\ Room
        /\ queue' = Append(queue, cjob[c])
        /\ unfinished' = unfinished + 1
        /\ accepted' = accepted \cup {cjob[c]}
        /\ owned' = IF thread # None /\ ~stray THEN owned \cup {cjob[c]} ELSE owned
     \/ /\ ~Room
        /\ UNCHANGED <<queue, unfinished, accepted, owned>>
  /\ pc' = [pc EXCEPT ![c] = "idle"]
  /\ cjob' = [cjob EXCEPT ![c] = None]
  /\ UNCHANGED <<lock, threadVars, workerVars, awaited, calls>>

(* kill(), under _lock: the terminator goes into the queue, unless that is *)
(* full, and _thread is reset.  With no thread, kill() does nothing.       *)
KillBy(c, with, count) ==
  /\ c \in Clients /\ pc[c] = "idle" /\ lock = None
  /\ kills < MaxKills /\ kills' = kills + 1
  /\ thread # None
  /\ \/ /\ Room
        /\ queue' = with
        /\ unfinished' = count
     \/ /\ ~Room
        /\ UNCHANGED <<queue, unfinished>>
  /\ stray' = (stray \/ (Room /\ threadForPid # pid))
  /\ thread' = None /\ threadForPid' = None
  /\ UNCHANGED <<lock, pid, canStart, workerVars, clientVars, accepted, owned,
                 flushes>>

KillUncounted(c) == KillBy(c, Append(queue, Terminator), unfinished)       \* seeded bug
KillTwice(c) == KillBy(c, queue \o <<Terminator, Terminator>>, unfinished + 2) \* seeded bug
KillFirst(c) == KillBy(c, <<Terminator>> \o queue, unfinished + 1)         \* seeded bug
Kill(c) == KillBy(c, Append(queue, Terminator), unfinished + 1)

(* flush() takes _lock and, if the thread is alive, waits with it held; if *)
(* it is not, flush() returns at once.                                     *)
Flush(c) ==
  /\ c \in Clients /\ pc[c] = "idle" /\ lock = None
  /\ flushes < MaxFlushes
  /\ flushes' = flushes + 1
  /\ IsAlive
  /\ lock' = c
  /\ pc' = [pc EXCEPT ![c] = "flush1"]
  /\ awaited' = [awaited EXCEPT ![c] = accepted]
  /\ UNCHANGED <<queue, unfinished, threadVars, workerVars, cjob, accepted,
                 owned, kills>>

(* _timed_queue_join: the count is 0.                                      *)
FlushDone(c) ==
  /\ pc[c] \in {"flush1", "flush2"}
  /\ unfinished = 0
  /\ lock' = None
  /\ pc' = [pc EXCEPT ![c] = "idle"]
  /\ UNCHANGED <<queue, unfinished, threadVars, workerVars, cjob, awaited,
                 accepted, owned, calls>>

(* _wait_flush waits twice: 0.1 s, then for the rest of the timeout.       *)
TimeUp(c, holder) ==
  /\ unfinished # 0
  /\ \/ /\ pc[c] = "flush1"
        /\ pc' = [pc EXCEPT ![c] = "flush2"]
        /\ UNCHANGED lock
     \/ /\ pc[c] = "flush2"
        /\ pc' = [pc EXCEPT ![c] = "idle"]
        /\ lock' = holder
  /\ UNCHANGED <<queue, unfinished, threadVars, workerVars, cjob, awaited,
                 accepted, owned, calls>>

FlushTimeoutLocked(c) == TimeUp(c, lock)               \* seeded bug
FlushTimeout(c) == TimeUp(c, None)

-----------------------------------------------------------------------------
(* _target(): get(), the callback, and task_done() in the finally clause,  *)
(* which a terminator also passes on its way out.                          *)
Fetch(w, count) ==
  /\ wpc[w] = "get" /\ queue # <<>>
  /\ queue' = Tail(queue)
  /\ unfinished' = count
  /\ wjob' = [wjob EXCEPT ![w] = Head(queue)]
  /\ wpc' = [wpc EXCEPT ![w] = IF Head(queue) = Terminator THEN "report" ELSE "run"]
  /\ UNCHANGED <<lock, threadVars, finished, clientVars, accepted, owned, calls>>

WorkerGetCounts(w) == Fetch(w, unfinished - 1)         \* seeded bug
WorkerGet(w) == Fetch(w, unfinished)

WorkerRun(w) ==
  /\ wpc[w] = "run" /\ pc[w] = "idle"
  /\ finished' = finished \cup {wjob[w]}
  /\ wpc' = [wpc EXCEPT ![w] = "report"]
  /\ UNCHANGED <<queue, unfinished, lock, threadVars, wjob, clientVars, accepted,
                 owned, calls>>

Done(w, count) ==
  /\ wpc[w] = "report"
  /\ unfinished' = count
  /\ wpc' = [wpc EXCEPT ![w] = IF wjob[w] = Terminator THEN "dead" ELSE "get"]
  /\ wjob' = [wjob EXCEPT ![w] = None]
  /\ UNCHANGED <<queue, lock, threadVars, finished, clientVars, accepted, owned, calls>>

WorkerReportJobs(w) ==                                 \* seeded bug
  Done(w, IF wjob[w] = Terminator THEN unfinished ELSE unfinished - 1)
WorkerReport(w) == Done(w, unfinished - 1)

-----------------------------------------------------------------------------
(* os.fork() in thread c, followed into the child: no other thread exists  *)
(* there, but _lock, the queue and its count are copied as they are.  What *)
(* was accepted before is the parent's to deliver.                         *)
Fork(c) ==
  /\ c \in Clients /\ pc[c] = "idle"
  /\ pid < MaxForks
  /\ lock = None \/ ForkAnywhere
  /\ pid' = pid + 1
  /\ pc' = [d \in Callers |-> IF d \in Clients /\ d # c THEN "gone" ELSE "idle"]
  /\ cjob' = [d \in Callers |-> None]
  /\ wpc' = [w \in Workers |-> IF w \in Live THEN "dead" ELSE wpc[w]]
  /\ owned' = {}
  /\ stray' = (stray \/ \E i \in DOMAIN queue : queue[i] = Terminator)
  /\ UNCHANGED <<queue, unfinished, lock, thread, threadForPid, canStart, wjob,
                 finished, awaited, accepted, calls>>

(* The interpreter begins to shut down: no thread can be started.          *)
ShutDown ==
  /\ MayShutDown /\ canStart
  /\ canStart' = FALSE
  /\ UNCHANGED <<queue, unfinished, lock, thread, threadForPid, pid, stray, workerVars,
                 clientVars, accepted, owned, calls>>

CallStep(c) == AliveCall(c) \/ Start(c) \/ Put(c) \/ FlushDone(c)
WorkerStep(w) == WorkerGet(w) \/ WorkerRun(w) \/ WorkerReport(w)

Next ==
  \/ \E c \in Callers : \/ CallStep(c) \/ FlushTimeout(c)
                        \/ Kill(c) \/ Flush(c) \/ Fork(c)
                        \/ \E j \in Jobs : Submit(c, j)
  \/ \E w \in Workers : WorkerStep(w)
  \/ ShutDown

Spec == Init /\ [][Next]_vars

(* Every thread that can take a step of its own eventually does, and a     *)
(* flush that keeps waiting eventually times out.  Calls are not fair: the *)
(* application need never make another one.                                *)
Fairness ==
  /\ \A c \in Callers : WF_vars(CallStep(c)) /\ WF_vars(FlushTimeout(c))
  /\ \A w \in Workers : WF_vars(WorkerStep(w))

FairSpec == Spec /\ Fairness

-----------------------------------------------------------------------------
(* flush() waits on a count of what is queued or being worked on, and only *)
(* on that (worker.py:69-84, 148-160).  In a forked child it does not hold. *)
CountOfWork == pid = 0 => unfinished = Len(queue) + Cardinality(Busy)

(* Terminators that will still end some worker thread.                     *)
QueuedTerminators == {i \in DOMAIN queue : queue[i] = Terminator}
TakenTerminators  == {w \in Live : wjob[w] = Terminator}

(* A terminator is taken by whichever worker thread comes first, not by    *)
(* the one kill() meant.  Still, while _thread is set, one more worker     *)
(* lives than there are terminators for: what is put then will be run      *)
(* (worker.py:86-116, 140-160).  Not so in a forked child, which has the   *)
(* terminators and not the threads they are for.                           *)
ConsumerRemains ==
  pid = 0 =>
    Cardinality(Live) >= Cardinality(QueuedTerminators) + Cardinality(TakenTerminators)
                          + (IF thread = None THEN 0 ELSE 1)

(* However submit() calls race in start(), and whichever thread takes a    *)
(* terminator, there is one worker thread for a start that was asked for   *)
(* and at most one more for every kill (worker.py:65-67, 86-116).          *)
OneWorkerPerKill == Cardinality(Live) <= kills + 1

(* There are neither too few nor too many worker threads: one more than    *)
(* the terminators, and one more than the kills at most (worker.py:86-116, *)
(* 140-160).                                                               *)
EnoughWorkers == TypeOK /\ ConsumerRemains /\ OneWorkerPerKill

(* A flush that ends because the count is 0 leaves no job unfinished that  *)
(* was accepted before it was called (worker.py:118-138).                  *)
FlushDrains ==
  [][\A c \in Clients :
       lock = c /\ lock' = None /\ unfinished = 0 => awaited[c] \subseteq finished]_vars

(* A job that submit() accepted while _thread was set is run, even if      *)
(* kill() comes next: the terminator is behind it (worker.py:102-116,      *)
(* 140-160).  Not so in a forked child whose queue has a terminator for a  *)
(* thread that exists in the parent only: the child's first worker thread  *)
(* takes it and ends, and the job waits for the next submit().             *)
OwnedRuns == \A j \in Jobs : j \in owned ~> j \in finished \/ j \notin owned

(* Every submit() and flush() returns (worker.py:118-146).                 *)
CallsReturn ==
  \A c \in Callers : pc[c] # "idle" ~> pc[c] \in {"idle", "raised", "gone"}

(* submit() "returns True if queued, False if full": it does not raise     *)
(* (worker.py:45-46).                                                      *)
SubmitNeverRaises == \A c \in Clients : pc[c] # "raised"
=============================================================================

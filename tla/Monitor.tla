-------------------------------- MODULE Monitor --------------------------------
(***************************************************************************)
(* sentry_sdk/monitor.py: a thread samples the transport's health once in  *)
(* an interval and sets the factor by which traces are downsampled; the    *)
(* threads that read the factor start that thread when there is none.      *)
(*                                                                         *)
(* The health check iterates over the transport's rate limits, which the   *)
(* transport's worker changes without a lock: a dictionary that has grown  *)
(* since the iteration began raises RuntimeError in it, and ends the thread.*)
(***************************************************************************)
EXTENDS Naturals, FiniteSets

CONSTANTS Threads,        \* threads that sample traces
          Monitors,       \* monitor threads that can ever be created, numbered
          Categories,     \* what can be rate limited
          MaxFactor,      \* MAX_DOWNSAMPLE_FACTOR
          MaxForks, None,
          StartMayFail    \* can Thread.start() raise RuntimeError?

(* What an instance assumes of them.                                       *)
Constants ==
  /\ Monitors \subseteq Nat /\ Threads \cap Monitors = {}
  /\ None \notin Threads \cup Nat
  /\ IsFiniteSet(Categories)
  /\ MaxFactor \in Nat /\ MaxForks \in Nat /\ StartMayFail \in BOOLEAN

VARIABLES
  healthy, factor, running,         \* the fields of the same names
  thread, threadForPid, threadLock, \* _thread_lock by its holder
  pid,                              \* os.getpid(): the forks so far
  pc,                               \* where each thread is
  keys, limited,                    \* _disabled_until: its keys, those in the future
  full,                             \* is the worker's queue full?
  unseen, size,                     \* the iteration: what it has not seen, the size it began with
  streak,                           \* how many checks in a row have found it unhealthy
  died                              \* has RuntimeError ended a monitor thread?

Actors    == Threads \cup Monitors
lifecycle == <<running, thread, threadForPid, threadLock, pid>>
transport == <<keys, limited, full>>
iteration == <<unseen, size>>
vars == <<healthy, factor, lifecycle, pc, transport, iteration, streak, died>>

TypeOK ==
  /\ healthy \in BOOLEAN /\ running \in BOOLEAN /\ full \in BOOLEAN /\ died \in BOOLEAN
  /\ factor \in 0..MaxFactor /\ streak \in 0..MaxFactor + 1
  /\ thread \in Monitors \cup {None} /\ threadLock \in Actors \cup {None}
  /\ pid \in 0..MaxForks /\ threadForPid \in 0..MaxForks \cup {None}
  /\ pc \in [Actors -> {"idle", "lock", "start", "assign", "new", "sleep", "worker",
                        "limits", "set", "bump", "dead", "gone"}]
  /\ limited \subseteq keys /\ keys \subseteq Categories
  /\ unseen \subseteq Categories /\ size \in 0..Cardinality(Categories)

Init ==
  /\ healthy = TRUE /\ factor = 0 /\ running = TRUE
  /\ thread = None /\ threadForPid = None /\ threadLock = None /\ pid = 0
  /\ pc = [a \in Actors |-> IF a \in Threads THEN "idle" ELSE "new"]
  /\ keys = {} /\ limited = {} /\ full = FALSE
  /\ unseen = {} /\ size = 0 /\ streak = 0 /\ died = FALSE

Goto(a, point) == pc' = [pc EXCEPT ![a] = point]
Resume(a) == IF a \in Threads THEN "idle" ELSE "bump"
Running == threadForPid = pid /\ thread # None

-----------------------------------------------------------------------------
(* _ensure_running(), which every read of the health or factor begins with:*)
(* the test without the lock, ...                                          *)
Read(t) ==
  /\ pc[t] = "idle" /\ ~Running
  /\ Goto(t, "lock")
  /\ UNCHANGED <<healthy, factor, lifecycle, transport, iteration, streak, died>>

(* ... with it, ...                                                        *)
LockUnless(a, there) ==
  /\ pc[a] = "lock" /\ threadLock = None
  /\ threadLock' = IF there THEN None ELSE a
  /\ Goto(a, IF there THEN Resume(a) ELSE "start")
  /\ UNCHANGED <<healthy, factor, running, thread, threadForPid, pid, transport,
                 iteration, streak, died>>

LockUnchecked(a) == LockUnless(a, FALSE)               \* seeded bug
Lock(a) == LockUnless(a, Running)

(* ... a new thread, or none at interpreter shutdown, ...                  *)
Start(a) ==
  /\ pc[a] = "start"
  /\ \/ \E m \in Monitors :
          /\ pc[m] = "new" /\ \A n \in Monitors : pc[n] = "new" => m <= n
          /\ pc' = [pc EXCEPT ![a] = "assign", ![m] = IF running THEN "sleep" ELSE "dead"]
          /\ UNCHANGED <<running, threadLock>>
     \/ /\ StartMayFail
        /\ running' = FALSE /\ threadLock' = None
        /\ Goto(a, Resume(a))
  /\ UNCHANGED <<healthy, factor, thread, threadForPid, pid, transport, iteration,
                 streak, died>>

(* ... which is then remembered.                                           *)
Assign(a) ==
  /\ pc[a] = "assign"
  /\ \E m \in Monitors :
       /\ pc[m] # "new" /\ \A n \in Monitors : pc[n] # "new" => n <= m
       /\ thread' = m
  /\ threadForPid' = pid /\ threadLock' = None
  /\ Goto(a, Resume(a))
  /\ UNCHANGED <<healthy, factor, running, pid, transport, iteration, streak, died>>

-----------------------------------------------------------------------------
(* The thread: after its sleep, if it is still to run, is_healthy() asks   *)
(* the worker first, ...                                                   *)
Wake(m) ==
  /\ pc[m] = "sleep"
  /\ Goto(m, IF running THEN "worker" ELSE "dead")
  /\ UNCHANGED <<healthy, factor, lifecycle, transport, iteration, streak, died>>

Found(m, ok) ==
  /\ healthy' = ok
  /\ streak' = IF ok THEN 0 ELSE IF streak > MaxFactor THEN streak ELSE streak + 1
  /\ Goto(m, "set")
  /\ UNCHANGED died

CheckWorker(m) ==
  /\ pc[m] = "worker"
  /\ IF full THEN Found(m, FALSE) /\ UNCHANGED iteration
     ELSE /\ unseen' = keys /\ size' = Cardinality(keys)
          /\ Goto(m, "limits")
          /\ UNCHANGED <<healthy, streak, died>>
  /\ UNCHANGED <<factor, lifecycle, transport>>

(* ... then one limit after the other, until one is in the future.         *)
CheckLimitIn(m, limits) ==
  /\ pc[m] = "limits"
  /\ \/ /\ Cardinality(keys) # size
        /\ died' = TRUE
        /\ Goto(m, "dead")
        /\ UNCHANGED <<healthy, streak, unseen>>
     \/ /\ Cardinality(keys) = size /\ unseen = {}
        /\ Found(m, TRUE) /\ UNCHANGED unseen
     \/ /\ Cardinality(keys) = size
        /\ \E c \in unseen :
             \/ c \in limits /\ Found(m, FALSE) /\ UNCHANGED unseen
             \/ /\ c \notin limits /\ unseen' = unseen \ {c}
                /\ UNCHANGED <<healthy, streak, pc, died>>
  /\ UNCHANGED <<factor, lifecycle, transport, size>>

CheckLimitExpired(m) == CheckLimitIn(m, keys)                     \* seeded bug
CheckLimit(m) == CheckLimitIn(m, limited)

(* set_downsample_factor(): back to normal, or one more.  It reads the     *)
(* factor through the property, so it may lock as well.                    *)
SetTo(m, normal) ==
  /\ pc[m] = "set"
  /\ IF healthy THEN factor' = normal /\ Goto(m, IF running THEN "sleep" ELSE "dead")
     ELSE factor' = factor /\ Goto(m, IF Running THEN "bump" ELSE "lock")
  /\ UNCHANGED <<healthy, lifecycle, transport, iteration, streak, died>>

SetLower(m) == SetTo(m, IF factor > 0 THEN factor - 1 ELSE 0)     \* seeded bug
Set(m) == SetTo(m, 0)

BumpIf(m, below) ==
  /\ pc[m] = "bump"
  /\ factor' = IF below THEN factor + 1 ELSE factor
  /\ Goto(m, IF running THEN "sleep" ELSE "dead")
  /\ UNCHANGED <<healthy, lifecycle, transport, iteration, streak, died>>

BumpTooFar(m) == BumpIf(m, factor <= MaxFactor)                   \* seeded bug
Bump(m) == BumpIf(m, factor < MaxFactor)

-----------------------------------------------------------------------------
Kill ==
  /\ running /\ running' = FALSE
  /\ UNCHANGED <<healthy, factor, thread, threadForPid, threadLock, pid, pc, transport,
                 iteration, streak, died>>

(* The transport's worker gets a rate limit; time passes; the queue fills. *)
Limit(c) ==
  /\ c \notin limited
  /\ keys' = keys \cup {c} /\ limited' = limited \cup {c}
  /\ UNCHANGED <<healthy, factor, lifecycle, pc, full, iteration, streak, died>>

Pass ==
  /\ \/ \E c \in limited : limited' = limited \ {c} /\ UNCHANGED full
     \/ full' = ~full /\ UNCHANGED limited
  /\ UNCHANGED <<healthy, factor, lifecycle, pc, keys, iteration, streak, died>>

(* os.fork() in thread t, followed into the child, where _reset_thread_state*)
(* has run; the factor and the limits are the parent's, and the streak is  *)
(* counted on from that factor.                                            *)
ForkWith(t, lockThere) ==
  /\ pc[t] = "idle" /\ pid < MaxForks
  /\ pid' = pid + 1
  /\ pc' = [a \in Actors |-> IF a = t \/ pc[a] = "new" THEN pc[a] ELSE "gone"]
  /\ thread' = None /\ threadForPid' = None /\ threadLock' = lockThere
  /\ streak' = factor /\ died' = FALSE
  /\ UNCHANGED <<healthy, factor, running, transport, iteration>>

ForkKeepsLock(t) == ForkWith(t, threadLock)                       \* seeded bug
Fork(t) == ForkWith(t, None)

EnsureStep(a) == Lock(a) \/ Start(a) \/ Assign(a)
Round(m) == Wake(m) \/ CheckWorker(m) \/ CheckLimit(m) \/ Set(m) \/ Bump(m)

Next ==
  \/ \E t \in Threads : Read(t) \/ EnsureStep(t) \/ Fork(t)
  \/ \E m \in Monitors : EnsureStep(m) \/ Round(m)
  \/ \E c \in Categories : Limit(c)
  \/ Kill \/ Pass

Fairness ==
  /\ \A t \in Threads : SF_vars(EnsureStep(t))
  /\ \A m \in Monitors : SF_vars(EnsureStep(m)) /\ WF_vars(Round(m))

Spec == Init /\ [][Next]_vars /\ Fairness

-----------------------------------------------------------------------------
(* One monitor thread per process, however first reads race (monitor.py:   *)
(* 73-97).                                                                 *)
OneMonitor == Cardinality({m \in Monitors : pc[m] \notin {"new", "dead", "gone"}}) <= 1

(* The factor is the number of unhealthy checks in a row, up to the limit: *)
(* neither a racing start nor a fork in the middle of a round loses or     *)
(* doubles one (monitor.py:101-126).                                       *)
FactorIsStreak ==
  (\A m \in Monitors : pc[m] \notin {"set", "lock", "start", "assign", "bump"}) =>
    factor = IF streak > MaxFactor THEN MaxFactor ELSE streak

(* The factor is the work of one thread and says how long the transport    *)
(* has been unhealthy (monitor.py:73-126).                                 *)
FactorRight == TypeOK /\ OneMonitor /\ FactorIsStreak

(* Whoever reads the factor gets an answer, also in a child forked while   *)
(* another thread held the lock (monitor.py:40-63).                        *)
ReadsReturn == \A t \in Threads : pc[t] # "idle" ~> pc[t] \in {"idle", "gone"}

(* Once the transport stays healthy, sampling goes back to normal, unless  *)
(* there is no thread: it was killed, could not be started, was not needed *)
(* since a fork, or has died (monitor.py:80-118).                          *)
Well == ~full /\ limited = {}
Recovers == <>[]Well => []<>(factor = 0 \/ ~running \/ thread = None \/ died)

(* The monitor stands in nobody's way: neither in that of a thread that    *)
(* samples nor, for good, in that of what is sampled (monitor.py:40-118).  *)
StandsAside == ReadsReturn /\ Recovers

(* What the class promises: "Performs health checks in a separate thread   *)
(* once every interval seconds and updates the internal state" (monitor.py:*)
(* 19), so the thread's death is no excuse.                                *)
ChecksGoOn == <>[]Well => []<>(factor = 0 \/ ~running \/ thread = None)
=============================================================================

-------------------------- MODULE ContinuousProfiler --------------------------
(***************************************************************************)
(* sentry_sdk/profiler/continuous_profiler.py: a scheduler samples all     *)
(* stacks in a thread of its own, either while there are profiles of       *)
(* traces (lifecycle "trace"), or from start_profiler() to stop_profiler() *)
(* (lifecycle "manual").                                                   *)
(*                                                                         *)
(* Only the start of a thread is under the lock: the flags "running" and   *)
(* "soft_shutdown", the profiles and the buffer are read and written       *)
(* without it, by the threads that start and by the profiler thread.       *)
(***************************************************************************)
EXTENDS Naturals, FiniteSets, Sequences

CONSTANTS Threads,        \* application threads
          Profilers,      \* profiler threads that can ever be created, numbered; also
                          \* the buffers, one for each
          Profiles,       \* profiles of traces, numbered
          MaxNew,         \* the length of new_profiles, 128
          MaxForks, None,
          StartMayFail, CaptureMayFail   \* can Thread.start(), capture_func raise?

ASSUME Numbered == Profilers \cup Profiles \subseteq Nat \ {0} /\ Threads \cap Nat = {}
ASSUME Bounds == /\ MaxNew \in Nat \ {0} /\ MaxForks \in Nat
                 /\ {StartMayFail, CaptureMayFail} \subseteq BOOLEAN
                 /\ None \notin Threads \cup Nat

Actors == Threads \cup Profilers

VARIABLES
  lifecycle,
  running, soft,     \* the flags running and soft_shutdown
  profilerPid, pid,  \* self.pid and os.getpid(), as the forks so far; None
  lock,              \* who holds it
  thread,            \* self.thread
  buffer,            \* self.buffer
  newProfiles, activeProfiles,
  pc,                \* where each thread is
  empty,             \* what the sampler has returned to a profiler
  target,            \* the thread that a stop_profiler() joins
  mine,              \* the profile a thread is starting
  started, stopped,  \* profiles
  unsent,            \* the buffers with samples that have not been sent
  dropped,           \* profiles new_profiles had no room for
  missed,            \* those started while a soft shutdown was under way, or
                     \* when no thread could be started
  inherited,        \* and those of before the last fork
  overlap,           \* has a start come between a stop and the end of the thread?
  replaced,          \* buffers that a new one replaced before a profiler had ended
  died               \* has an exception ended a profiler?

flags    == <<running, soft, profilerPid, pid, lock, thread>>
profiles == <<newProfiles, activeProfiles, mine, started, stopped, dropped, missed, inherited>>
ghosts   == <<overlap, replaced, died>>
vars == <<lifecycle, flags, buffer, pc, empty, target, profiles, unsent, ghosts>>

TypeOK ==
  /\ lifecycle \in {"trace", "manual"}
  /\ running \in BOOLEAN /\ soft \in BOOLEAN /\ overlap \in BOOLEAN /\ died \in BOOLEAN
  /\ pid \in 0..MaxForks /\ profilerPid \in 0..MaxForks \cup {None}
  /\ lock \in Threads \cup {None}
  /\ thread \in Profilers \cup {None} /\ buffer \in Profilers \cup {None}
  /\ newProfiles \in Seq(Profiles) /\ Len(newProfiles) <= MaxNew
  /\ pc \in [Actors -> {"idle", "reset", "check", "lock", "spawn", "stop", "reread", "join",
                        "new", "loop", "sample", "assign", "test", "shut", "end", "dead", "gone"}]
  /\ mine \in [Threads -> Profiles \cup {None}]
  /\ empty \in [Profilers -> BOOLEAN] /\ target \in [Threads -> Profilers \cup {None}]
  /\ activeProfiles \subseteq started /\ stopped \subseteq started
  /\ dropped \subseteq started /\ missed \subseteq started /\ inherited \subseteq started
  /\ started \subseteq Profiles /\ replaced \subseteq Profilers /\ unsent \subseteq Profilers

Init ==
  /\ lifecycle \in {"trace", "manual"}
  /\ running = FALSE /\ soft = FALSE /\ profilerPid = None /\ pid = 0
  /\ lock = None /\ thread = None /\ buffer = None
  /\ newProfiles = <<>> /\ activeProfiles = {}
  /\ pc = [a \in Actors |-> IF a \in Threads THEN "idle" ELSE "new"]
  /\ empty = [g \in Profilers |-> FALSE] /\ target = [t \in Threads |-> None]
  /\ mine = [t \in Threads |-> None]
  /\ started = {} /\ stopped = {} /\ dropped = {} /\ missed = {} /\ inherited = {}
  /\ unsent = {}
  /\ overlap = FALSE /\ replaced = {} /\ died = FALSE

Goto(a, point) == pc' = [pc EXCEPT ![a] = point]
Items(q) == {q[n] : n \in DOMAIN q}
Ready == running /\ profilerPid = pid
Looping == {g \in Profilers : pc[g] \in {"loop", "sample", "assign", "test", "shut"}}
Live == {g \in Profilers : pc[g] \notin {"new", "dead", "gone"}}

-----------------------------------------------------------------------------
(* auto_start(): the profile is appended, which drops the oldest one of a  *)
(* full deque; manual_start() has no profile.                              *)
AutoStartUpTo(t, p, max) ==
  /\ lifecycle = "trace" /\ pc[t] = "idle"
  /\ p \notin started /\ \A q \in Profiles \ started : p <= q
  /\ started' = started \cup {p} /\ mine' = [mine EXCEPT ![t] = p]
  /\ IF Len(newProfiles) < max
     THEN newProfiles' = Append(newProfiles, p) /\ UNCHANGED dropped
     ELSE /\ newProfiles' = Append(Tail(newProfiles), p)
          /\ dropped' = dropped \cup {Head(newProfiles)}
  /\ Goto(t, "reset")
  /\ UNCHANGED <<lifecycle, flags, buffer, empty, target, activeProfiles, stopped, missed,
                 inherited, unsent, ghosts>>

AutoStartUnbounded(t, p) == AutoStartUpTo(t, p, Cardinality(Profiles))  \* seeded bug
AutoStart(t, p) == AutoStartUpTo(t, p, MaxNew)

ManualStart(t) ==
  /\ lifecycle = "manual" /\ pc[t] = "idle"
  /\ Goto(t, "reset")
  /\ UNCHANGED <<lifecycle, flags, buffer, empty, target, profiles, unsent, ghosts>>

(* ensure_running(): the flag is reset, ...                                *)
ResetSoft(t) ==
  /\ pc[t] = "reset"
  /\ soft' = FALSE
  /\ Goto(t, "check")
  /\ UNCHANGED <<lifecycle, running, profilerPid, pid, lock, thread, buffer, empty, target,
                 profiles, unsent, ghosts>>

(* ... a test without the lock, ...                                        *)
Return(t) == Goto(t, "idle") /\ mine' = [mine EXCEPT ![t] = None]
Started == <<newProfiles, activeProfiles, started, stopped, dropped, missed, inherited>>

Check(t) ==
  /\ pc[t] = "check"
  /\ IF Ready THEN Return(t) ELSE Goto(t, "lock") /\ UNCHANGED mine
  /\ UNCHANGED <<lifecycle, flags, buffer, empty, target, Started, unsent, ghosts>>

(* ... and one with it, before there are a new buffer and a new thread, ...*)
LockUnless(t, there) ==
  /\ pc[t] = "lock" /\ lock = None
  /\ IF there
     THEN Return(t) /\ UNCHANGED <<flags, buffer, overlap, replaced>>
     ELSE \E g \in Profilers :
            /\ pc[g] = "new" /\ \A h \in Profilers : pc[h] = "new" => g <= h
            /\ profilerPid' = pid /\ running' = TRUE
            /\ buffer' = g /\ thread' = g /\ lock' = t
            /\ overlap' = (overlap \/ (lifecycle = "manual" /\
                 (Live # {} \/ \E u \in Threads : pc[u] \in {"stop", "reread", "join"})))
            /\ replaced' = IF Live = {} THEN replaced ELSE replaced \cup {buffer}
            /\ Goto(t, "spawn")
            /\ UNCHANGED <<soft, pid, mine>>
  /\ UNCHANGED <<lifecycle, empty, target, Started, unsent, died>>

LockUnchecked(t) == LockUnless(t, FALSE)               \* seeded bug
Lock(t) == LockUnless(t, Ready)

(* ... which is started, if the interpreter still can.                     *)
Spawn(t) ==
  /\ pc[t] = "spawn"
  /\ lock' = None /\ mine' = [mine EXCEPT ![t] = None]
  /\ \/ /\ pc' = [pc EXCEPT ![t] = "idle", ![buffer] = "loop"]
        /\ UNCHANGED <<running, thread, missed>>
     \/ /\ StartMayFail
        /\ running' = FALSE /\ thread' = None
        /\ missed' = missed \cup started
        /\ pc' = [pc EXCEPT ![t] = "idle", ![buffer] = "gone"]
  /\ UNCHANGED <<lifecycle, soft, profilerPid, pid, buffer, empty, target, newProfiles,
                 activeProfiles, started, stopped, dropped, inherited, unsent, ghosts>>

(* ContinuousProfile.stop(), by the end of the trace.                      *)
StopProfile(p) ==
  /\ p \in started \ stopped /\ \A t \in Threads : mine[t] # p
  /\ stopped' = stopped \cup {p}
  /\ UNCHANGED <<lifecycle, flags, buffer, pc, empty, target, newProfiles, activeProfiles,
                 mine, started, dropped, missed, inherited, unsent, ghosts>>

(* manual_stop(): teardown() of a thread that has been started.            *)
ManualStopLeaving(t, flag) ==
  /\ lifecycle = "manual" /\ pc[t] = "idle"
  /\ running' = flag
  /\ Goto(t, "stop")
  /\ UNCHANGED <<lifecycle, soft, profilerPid, pid, lock, thread, buffer, empty, target,
                 profiles, unsent, ghosts>>

ManualStopJoins(t) == ManualStopLeaving(t, running)    \* seeded bug
ManualStop(t) == ManualStopLeaving(t, FALSE)

(* The thread is tested, and then read again to be joined, which raises if *)
(* there is none any more or if it is about to be started.                 *)
TearDown(t) ==
  /\ \/ /\ pc[t] = "stop"
        /\ Goto(t, IF thread = None THEN "idle" ELSE "reread") /\ UNCHANGED target
     \/ /\ pc[t] = "reread"
        /\ IF thread = None \/ (thread # None /\ pc[thread] = "new")
           THEN Goto(t, "idle") /\ UNCHANGED target
           ELSE Goto(t, "join") /\ target' = [target EXCEPT ![t] = thread]
  /\ UNCHANGED <<lifecycle, flags, buffer, empty, profiles, unsent, ghosts>>

Join(t) ==
  /\ pc[t] = "join" /\ pc[target[t]] \in {"dead", "gone"}
  /\ thread' = None
  /\ target' = [target EXCEPT ![t] = None]
  /\ Goto(t, "idle")
  /\ UNCHANGED <<lifecycle, running, soft, profilerPid, pid, lock, buffer, empty, profiles,
                 unsent, ghosts>>

-----------------------------------------------------------------------------
(* The profiler thread, while "running" is set ...                         *)
Loop(g) ==
  /\ pc[g] = "loop"
  /\ Goto(g, IF running THEN "sample" ELSE "end")
  /\ UNCHANGED <<lifecycle, flags, buffer, empty, target, profiles, unsent, ghosts>>

(* ... samples: without profiles, not at all; and a bad sample is dropped. *)
(* A full chunk is sent before the sample begins the next one.             *)
Sampled(g, none) ==
  /\ pc[g] = "sample"
  /\ empty' = [empty EXCEPT ![g] = none]
  /\ Goto(g, "assign")
  /\ UNCHANGED <<lifecycle, flags, buffer, target, mine, started, stopped, dropped, missed,
                 inherited, ghosts>>

NoProfiles == lifecycle = "trace" /\ newProfiles = <<>> /\ activeProfiles = {}

SampleExcept(g, gone) ==
  /\ ~NoProfiles /\ Sampled(g, FALSE)
  /\ activeProfiles' = (activeProfiles \cup Items(newProfiles)) \ gone
  /\ newProfiles' = <<>>
  /\ unsent' = unsent \cup {buffer}

NoSampleIf(g, none) ==
  /\ Sampled(g, none)                         \* no profiles, or a bad sample
  /\ UNCHANGED <<newProfiles, activeProfiles, unsent>>

NoSampleIfNoNew(g) == NoSampleIf(g, lifecycle = "trace" /\ newProfiles = <<>>) \* seeded bug
NoSample(g) == NoSampleIf(g, NoProfiles)
SampleKeeping(g) == SampleExcept(g, {})                 \* seeded bug
Sample(g) == SampleExcept(g, stopped)

SendRaises(g) ==
  /\ pc[g] = "sample" /\ ~NoProfiles /\ CaptureMayFail /\ buffer \in unsent
  /\ died' = TRUE
  /\ Goto(g, "dead")
  /\ UNCHANGED <<lifecycle, flags, buffer, empty, target, profiles, unsent, overlap, replaced>>

(* What the sampler returned becomes soft_shutdown; after the sleep, unless*)
(* somebody has reset it, it ends the thread.                              *)
Assign(g) ==
  /\ pc[g] = "assign"
  /\ soft' = empty[g]
  /\ empty' = [empty EXCEPT ![g] = FALSE]
  /\ Goto(g, "test")
  /\ UNCHANGED <<lifecycle, running, profilerPid, pid, lock, thread, buffer, target,
                 profiles, unsent, ghosts>>

Test(g) ==
  /\ pc[g] = "test"
  /\ Goto(g, IF soft THEN "shut" ELSE "loop")
  /\ UNCHANGED <<lifecycle, flags, buffer, empty, target, profiles, unsent, ghosts>>

Shut(g) ==
  /\ pc[g] = "shut"
  /\ running' = FALSE
  /\ missed' = missed \cup (Items(newProfiles) \ {mine[t] : t \in Threads})
  /\ Goto(g, "end")
  /\ UNCHANGED <<lifecycle, soft, profilerPid, pid, lock, thread, buffer, empty, target,
                 newProfiles, activeProfiles, mine, started, stopped, dropped, inherited,
                 unsent, ghosts>>

(* Last, what is the buffer now is sent.                                   *)
EndSending(g, which) ==
  /\ pc[g] = "end"
  /\ \/ /\ unsent' = unsent \ which
        /\ UNCHANGED died
     \/ /\ CaptureMayFail /\ died' = TRUE
        /\ UNCHANGED unsent
  /\ Goto(g, "dead")
  /\ UNCHANGED <<lifecycle, flags, buffer, empty, target, profiles, overlap, replaced>>

EndSilently(g) == EndSending(g, {})                    \* seeded bug
End(g) == EndSending(g, {buffer})

(* os.fork() in t while the lock is free, followed into the child, where   *)
(* everything is as it was, except that the other threads are gone.        *)
Fork(t) ==
  /\ pc[t] = "idle" /\ lock = None /\ pid < MaxForks
  /\ pid' = pid + 1
  /\ pc' = [a \in Actors |-> IF a = t \/ pc[a] = "new" THEN pc[a] ELSE "gone"]
  /\ inherited' = started /\ mine' = [u \in Threads |-> None]
  /\ empty' = [g \in Profilers |-> FALSE] /\ target' = [u \in Threads |-> None]
  /\ replaced' = replaced \cup unsent
  /\ UNCHANGED <<lifecycle, running, soft, profilerPid, lock, thread, buffer, newProfiles,
                 activeProfiles, started, stopped, dropped, missed, unsent, overlap, died>>

CallStep(t) == \/ ResetSoft(t) \/ Check(t) \/ Lock(t) \/ Spawn(t)
               \/ TearDown(t) \/ Join(t)
Run(g) == \/ Loop(g) \/ Sample(g) \/ NoSample(g) \/ SendRaises(g)
          \/ Assign(g) \/ Test(g) \/ Shut(g) \/ End(g)

Next ==
  \/ \E t \in Threads :
       \/ CallStep(t) \/ ManualStart(t) \/ ManualStop(t) \/ Fork(t)
       \/ \E p \in Profiles : AutoStart(t, p)
  \/ \E p \in Profiles : StopProfile(p)
  \/ \E g \in Profilers : Run(g)

Fairness ==
  /\ \A t \in Threads : SF_vars(CallStep(t))
  /\ \A g \in Profilers : WF_vars(Run(g)) /\ SF_vars(Sample(g))   \* not all are bad

Spec == Init /\ [][Next]_vars /\ Fairness

-----------------------------------------------------------------------------
(* One thread samples at a time, unless a manual start comes between a     *)
(* stop and the end of the thread that it stops (continuous_profiler.py:   *)
(* 385-420, 452-497).                                                      *)
OneSampler == overlap \/ Cardinality(Looping) <= 1

(* A trace's profile is sampled as long as it lasts: a profiler thread is  *)
(* there, or is being started, unless the profile was appended while the   *)
(* thread, which had just found no profiles, was about to stop, or no      *)
(* thread could be started for it, or it was the oldest of a full deque    *)
(* (continuous_profiler.py:224-238, 303-310, 390-413, 452-488).            *)
Wanted == started \ UNION {stopped, missed, dropped, inherited, {mine[t] : t \in Threads}}
NoneAbandoned == Wanted # {} => died \/ (Ready /\ (Looping # {} \/ lock # None))

(* A profile that is wanted is sampled, by one thread                      *)
(* (continuous_profiler.py:224-238, 385-420, 452-497).                     *)
OneSamples == TypeOK /\ OneSampler /\ NoneAbandoned

(* The last profiler to end has sent every sample, those excepted in a     *)
(* buffer that was replaced while there was one (continuous_profiler.py:   *)
(* 385-420, 468-475).                                                      *)
SamplesSent == Live = {} => unsent \subseteq replaced \/ died

(* Without profiles, the profiler ends, unless it died as "running".       *)
Ends ==
  <>[](lifecycle = "trace" /\ started \subseteq stopped) => []<>(Looping = {})

(* A stop_profiler() returns, unless a start has come between.             *)
StopsReturn == \A t \in Threads : pc[t] = "join" ~> pc[t] # "join" \/ overlap

(* What is stopped stops: the profiler, and with it the call that waits    *)
(* for it (continuous_profiler.py:385-420, 490-497).                       *)
StopsWork == Ends /\ StopsReturn
=============================================================================

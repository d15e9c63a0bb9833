----------------------- MODULE ContinuousProfilerProofs -----------------------
(***************************************************************************)
(* Theorems about ContinuousProfiler for any threads, any number of        *)
(* profilers, profiles and forks, and any length of new_profiles.  IInv    *)
(* says who holds the lock, where a profile is that has been started and   *)
(* not stopped, which profilers can be at work in each lifecycle, and that *)
(* one that is about to end for want of profiles has none.                 *)
(***************************************************************************)
EXTENDS ContinuousProfiler, FiniteSetTheorems, TLAPS

Sampling(g) == pc[g] \in {"loop", "sample", "assign", "test", "shut"}
Working(g)  == pc[g] \notin {"new", "dead", "gone"}

(* The lock is held between the creation of a profiler and its start.      *)
LockInv ==
  /\ \A t \in Threads : pc[t] = "spawn" => lock = t
  /\ lock # None => /\ pc[lock] = "spawn" /\ buffer \in Profilers /\ pc[buffer] = "new"
  /\ buffer = None => \A g \in Profilers : pc[g] = "new"
  /\ profilerPid = None \/ profilerPid <= pid
  /\ \A g \in Profilers : Working(g) => Sampling(g) \/ pc[g] = "end"

(* A profile is in the deque or the set until it is stopped or dropped,    *)
(* and a thread's own only in its call.                                    *)
ProfileInv ==
  /\ Items(newProfiles) \subseteq started
  /\ started \ (stopped \cup dropped) \subseteq Items(newProfiles) \cup activeProfiles
  /\ lifecycle = "manual" => started = {}
  /\ \A t \in Threads : mine[t] # None => pc[t] \in {"reset", "check", "lock", "spawn"}

(* With the lifecycle "manual", one profiler works, up to its end, ...     *)
ManualInv ==
  lifecycle = "manual" /\ ~overlap =>
    /\ \A g, h \in Profilers : Working(g) /\ Working(h) => g = h
    /\ \A g \in Profilers : Working(g) => lock = None

(* ... and with "trace", one samples, exactly as long as "running" is set. *)
TraceInv ==
  lifecycle = "trace" =>
    /\ \A g, h \in Profilers : Sampling(g) /\ Sampling(h) => g = h
    /\ \A g \in Profilers : Sampling(g) => lock = None /\ Ready
    /\ lock # None => Ready
    /\ Ready => died \/ lock # None \/ \E g \in Profilers : Sampling(g)

(* One that is about to end by itself has no profiles.                     *)
ShutInv ==
  \A g \in Profilers :
    (\/ pc[g] = "assign" /\ empty[g]
     \/ pc[g] = "test" /\ soft
     \/ pc[g] = "shut") => activeProfiles = {}

(* What has not been sent is in the last buffer, or had been replaced.     *)
SentInv == died \/ unsent \subseteq replaced \cup {buffer}

IInv == /\ TypeOK /\ LockInv /\ ProfileInv /\ ManualInv /\ TraceInv /\ ShutInv
        /\ SentInv /\ NoneAbandoned /\ SamplesSent

-----------------------------------------------------------------------------
LEMMA Members ==
  /\ \A t \in Threads : t \in Actors /\ t \notin Profilers /\ t # None
  /\ \A g \in Profilers : g \in Actors /\ g \notin Threads /\ g \in Nat /\ g # None
  /\ \A a \in Actors : a \in Threads \/ a \in Profilers
  /\ None \notin Profiles /\ None \notin Nat /\ Profiles \subseteq Nat
BY Numbered, Bounds DEF Actors

(* The deque as a set, when it is appended to.                             *)
LEMMA Deque ==
  ASSUME NEW q \in Seq(Profiles), NEW p \in Profiles
  PROVE  /\ Items(Append(q, p)) = Items(q) \cup {p}
         /\ Append(q, p) \in Seq(Profiles) /\ Len(Append(q, p)) = Len(q) + 1
         /\ Len(q) > 0 =>
              /\ Head(q) \in Items(q)
              /\ Append(Tail(q), p) \in Seq(Profiles)
              /\ Len(Append(Tail(q), p)) = Len(q)
              /\ Items(Append(Tail(q), p)) \subseteq Items(q) \cup {p}
              /\ Items(q) \cup {p} \subseteq Items(Append(Tail(q), p)) \cup {Head(q)}
<1>1. /\ Append(q, p) \in Seq(Profiles) /\ Len(Append(q, p)) = Len(q) + 1
      /\ \A n \in 1..Len(q) : Append(q, p)[n] = q[n]
      /\ Append(q, p)[Len(q) + 1] = p
  OBVIOUS
<1>2. Items(Append(q, p)) = Items(q) \cup {p}
  <2>1. ASSUME NEW x \in Items(Append(q, p)) PROVE x \in Items(q) \cup {p}
    BY <1>1 DEF Items
  <2>2. ASSUME NEW x \in Items(q) PROVE x \in Items(Append(q, p))
    BY <1>1 DEF Items
  <2>3. p \in Items(Append(q, p))
    BY <1>1 DEF Items
  <2> QED
    BY <2>1, <2>2, <2>3
<1>3. ASSUME Len(q) > 0
      PROVE  /\ Head(q) \in Items(q)
             /\ Append(Tail(q), p) \in Seq(Profiles)
             /\ Len(Append(Tail(q), p)) = Len(q)
             /\ Items(Append(Tail(q), p)) \subseteq Items(q) \cup {p}
             /\ Items(q) \cup {p} \subseteq Items(Append(Tail(q), p)) \cup {Head(q)}
  <2> DEFINE s == Append(Tail(q), p)
  <2>1. /\ s \in Seq(Profiles) /\ Len(s) = Len(q)
        /\ \A n \in 1..Len(q) - 1 : s[n] = q[n + 1]
        /\ s[Len(q)] = p /\ Head(q) = q[1]
    BY <1>3
  <2> HIDE DEF s
  <2>2. Head(q) \in Items(q)
    BY <1>3, <2>1 DEF Items
  <2>3. ASSUME NEW x \in Items(s) PROVE x \in Items(q) \cup {p}
    <3>1. PICK n \in 1..Len(q) : x = s[n]
      BY <2>1 DEF Items
    <3>2. CASE n = Len(q)
      BY <2>1, <3>1, <3>2
    <3>3. CASE n # Len(q)
      <4>1. n + 1 \in DOMAIN q /\ q[n + 1] = x
        BY <2>1, <3>1, <3>3
      <4> QED
        BY <4>1 DEF Items
    <3> QED
      BY <3>2, <3>3
  <2>4. ASSUME NEW x \in Items(q) PROVE x \in Items(s) \cup {Head(q)}
    <3>1. PICK n \in 1..Len(q) : x = q[n]
      BY DEF Items
    <3>2. CASE n > 1
      <4>1. n - 1 \in 1..Len(q) - 1 /\ s[n - 1] = x /\ n - 1 \in DOMAIN s
        BY <2>1, <3>1, <3>2
      <4> QED
        BY <4>1 DEF Items
    <3> QED
      BY <2>1, <3>1, <3>2
  <2>5. p \in Items(s)
    BY <2>1, <1>3 DEF Items
  <2> QED
    BY <2>1, <2>2, <2>3, <2>4, <2>5 DEF s
<1> QED
  BY <1>1, <1>2, <1>3

LEMMA EmptyDeque == Items(<<>>) = {}
BY DEF Items

-----------------------------------------------------------------------------
Points == {"idle", "reset", "check", "lock", "spawn", "stop", "reread", "join", "new",
           "loop", "sample", "assign", "test", "shut", "end", "dead", "gone"}

TypeFlags ==
  /\ lifecycle \in {"trace", "manual"}
  /\ running \in BOOLEAN /\ soft \in BOOLEAN /\ overlap \in BOOLEAN /\ died \in BOOLEAN
  /\ pid \in 0..MaxForks /\ profilerPid \in 0..MaxForks \cup {None}
  /\ lock \in Threads \cup {None}
  /\ thread \in Profilers \cup {None} /\ buffer \in Profilers \cup {None}
TypeThreads ==
  /\ pc \in [Actors -> Points]
  /\ mine \in [Threads -> Profiles \cup {None}]
  /\ empty \in [Profilers -> BOOLEAN] /\ target \in [Threads -> Profilers \cup {None}]
TypeProfiles ==
  /\ newProfiles \in Seq(Profiles) /\ Len(newProfiles) <= MaxNew
  /\ activeProfiles \subseteq started /\ stopped \subseteq started
  /\ dropped \subseteq started /\ missed \subseteq started /\ inherited \subseteq started
  /\ started \subseteq Profiles /\ replaced \subseteq Profilers /\ unsent \subseteq Profilers

LEMMA Types == /\ TypeOK <=> TypeFlags /\ TypeThreads /\ TypeProfiles
               /\ TypeOK' <=> TypeFlags' /\ TypeThreads' /\ TypeProfiles'
BY DEF TypeOK, TypeFlags, TypeThreads, TypeProfiles, Points

LEMMA Moves ==
  ASSUME TypeThreads, NEW a \in Actors, NEW point \in Points, Goto(a, point)
  PROVE  /\ pc' \in [Actors -> Points]
         /\ pc'[a] = point /\ \A b \in Actors \ {a} : pc'[b] = pc[b]
BY DEF TypeThreads, Goto

LEMMA Initially == Init => IInv
<1> SUFFICES ASSUME Init PROVE IInv
  OBVIOUS
<1> USE Members, Bounds, EmptyDeque DEF Init
<1>1. TypeOK
  <2>1. TypeFlags
    <3>1. 0 \in 0..MaxForks
      BY Bounds
    <3> QED
      BY <3>1 DEF TypeFlags
  <2>2. TypeThreads
    BY DEF TypeThreads, Points
  <2>3. TypeProfiles
    BY DEF TypeProfiles
  <2> QED
    BY <2>1, <2>2, <2>3, Types
<1>2. LockInv /\ ShutInv /\ ManualInv /\ TraceInv
  BY DEF LockInv, ShutInv, ManualInv, TraceInv, Working, Sampling, Ready
<1>3. ProfileInv
  BY DEF ProfileInv
<1>4. SentInv /\ NoneAbandoned /\ SamplesSent
  BY DEF SentInv, NoneAbandoned, SamplesSent, Wanted
<1> QED
  BY <1>1, <1>2, <1>3, <1>4 DEF IInv

LEMMA TypeStep == IInv /\ [Next]_vars => TypeOK'
<1> SUFFICES ASSUME IInv, [Next]_vars PROVE TypeOK'
  OBVIOUS
<1> USE Members, Bounds, EmptyDeque DEF flags, profiles, ghosts, Started
<1>t. TypeFlags /\ TypeThreads /\ TypeProfiles
  BY Types DEF IInv
<1>p. \A a \in Actors, point \in Points : Goto(a, point) => pc' \in [Actors -> Points]
  BY <1>t, Moves
<1>1. ASSUME NEW t \in Threads, NEW p \in Profiles, AutoStart(t, p) PROVE TypeOK'
  <2>1. TypeFlags'
    BY <1>1, <1>t DEF TypeFlags, AutoStart, AutoStartUpTo
  <2>2. TypeThreads'
    BY <1>1, <1>t, <1>p DEF TypeThreads, AutoStart, AutoStartUpTo, Points
  <2>3. Len(newProfiles) < MaxNew \/ Len(newProfiles) > 0
    BY <1>t DEF TypeProfiles
  <2>4. /\ newProfiles' \in Seq(Profiles) /\ Len(newProfiles') <= MaxNew
    <3>1. newProfiles \in Seq(Profiles) /\ Len(newProfiles) <= MaxNew /\ MaxNew \in Nat
          /\ Len(newProfiles) \in Nat
      BY <1>t DEF TypeProfiles
    <3>2. CASE Len(newProfiles) < MaxNew
      <4>1. newProfiles' = Append(newProfiles, p)
        BY <1>1, <3>2 DEF AutoStart, AutoStartUpTo
      <4> QED
        BY <3>1, <3>2, <4>1, Deque
    <3>3. CASE ~(Len(newProfiles) < MaxNew)
      <4>1. newProfiles' = Append(Tail(newProfiles), p)
        BY <1>1, <3>3 DEF AutoStart, AutoStartUpTo
      <4> QED
        BY <2>3, <3>1, <3>3, <4>1, Deque
    <3> QED
      BY <3>2, <3>3
  <2>5. dropped' \subseteq started \cup {p}
    <3>1. Items(newProfiles) \subseteq started
      BY DEF IInv, ProfileInv
    <3>2. CASE Len(newProfiles) < MaxNew
      BY <1>1, <1>t, <3>2 DEF TypeProfiles, AutoStart, AutoStartUpTo
    <3>3. CASE ~(Len(newProfiles) < MaxNew)
      <4>1. Head(newProfiles) \in started
        BY <2>3, <3>1, <3>3, <1>t, Deque DEF TypeProfiles
      <4> QED
        BY <1>1, <1>t, <3>3, <4>1 DEF TypeProfiles, AutoStart, AutoStartUpTo
    <3> QED
      BY <3>2, <3>3
  <2>6. TypeProfiles'
    BY <1>1, <1>t, <2>4, <2>5 DEF TypeProfiles, AutoStart, AutoStartUpTo
  <2> QED
    BY <2>1, <2>2, <2>6, Types
<1>2. ASSUME NEW t \in Threads, CallStep(t) PROVE TypeOK'
  <2>1. CASE ResetSoft(t) \/ Check(t)
    <3>1. TypeFlags' /\ TypeProfiles'
      BY <2>1, <1>t DEF ResetSoft, Check, Return, TypeFlags, TypeProfiles
    <3>2. TypeThreads'
      BY <2>1, <1>t, <1>p DEF ResetSoft, Check, Return, TypeThreads, Points
    <3> QED
      BY <3>1, <3>2, Types
  <2>2. CASE Join(t) \/ TearDown(t)
    <3>1. TypeFlags' /\ TypeProfiles'
      BY <2>2, <1>t DEF Join, TearDown, TypeFlags, TypeProfiles
    <3>2. TypeThreads'
      BY <2>2, <1>t, <1>p DEF Join, TearDown, TypeThreads, TypeFlags, Points
    <3> QED
      BY <3>1, <3>2, Types
  <2>3. CASE Lock(t)
    <3>1. TypeFlags'
      BY <2>3, <1>t DEF Lock, LockUnless, TypeFlags
    <3>2. TypeThreads'
      BY <2>3, <1>t, <1>p DEF Lock, LockUnless, Return, TypeThreads, Points
    <3>3. replaced' \subseteq Profilers
      <4>1. buffer = None => Live = {}
        BY DEF IInv, LockInv, Live
      <4> QED
        BY <2>3, <1>t, <4>1 DEF Lock, LockUnless, TypeProfiles, TypeFlags
    <3>4. TypeProfiles'
      BY <2>3, <1>t, <3>3 DEF Lock, LockUnless, TypeProfiles
    <3> QED
      BY <3>1, <3>2, <3>4, Types
  <2>4. CASE Spawn(t)
    <3>1. TypeFlags' /\ TypeProfiles'
      BY <2>4, <1>t DEF Spawn, TypeFlags, TypeProfiles
    <3>2. TypeThreads'
      BY <2>4, <1>t DEF Spawn, TypeThreads, Points
    <3> QED
      BY <3>1, <3>2, Types
  <2> QED
    BY <1>2, <2>1, <2>2, <2>3, <2>4 DEF CallStep
<1>3. ASSUME NEW t \in Threads, ManualStart(t) \/ ManualStop(t) PROVE TypeOK'
  <2>1. TypeFlags' /\ TypeProfiles'
    BY <1>3, <1>t DEF ManualStart, ManualStop, ManualStopLeaving, TypeFlags, TypeProfiles
  <2>2. TypeThreads'
    BY <1>3, <1>t, <1>p DEF ManualStart, ManualStop, ManualStopLeaving, TypeThreads, Points
  <2> QED
    BY <2>1, <2>2, Types
<1>4. ASSUME NEW t \in Threads, Fork(t) PROVE TypeOK'
  <2>1. TypeFlags' /\ TypeProfiles'
    BY <1>4, <1>t DEF Fork, TypeFlags, TypeProfiles
  <2>2. TypeThreads'
    BY <1>4, <1>t DEF Fork, TypeThreads, Points
  <2> QED
    BY <2>1, <2>2, Types
<1>5. ASSUME NEW p \in Profiles, StopProfile(p) PROVE TypeOK'
  BY <1>5, <1>t, Types DEF StopProfile, TypeFlags, TypeThreads, TypeProfiles
<1>6. ASSUME NEW g \in Profilers, Run(g) PROVE TypeOK'
  <2> USE DEF Loop, SendRaises, Assign, Test, Shut, End, EndSending,
              NoSample, NoSampleIf, Sample, SampleExcept, Sampled
  <2>1. TypeFlags'
    BY <1>6, <1>t DEF Run, TypeFlags, TypeThreads
  <2>2. TypeThreads'
    <3>1. pc' \in [Actors -> Points]
      BY <1>6, <1>p DEF Run, Points
    <3>2. NoProfiles \in BOOLEAN
      BY DEF NoProfiles
    <3>3. mine' = mine /\ target' = target /\ empty' \in [Profilers -> BOOLEAN]
      BY <1>6, <1>t, <3>2 DEF Run, TypeThreads
    <3> QED
      BY <1>t, <3>1, <3>3 DEF TypeThreads
  <2>3. TypeProfiles'
    <3>1. Items(newProfiles) \subseteq started
      BY DEF IInv, ProfileInv
    <3>2. pc[g] = "sample" => buffer \in Profilers
      BY <1>t DEF IInv, LockInv, TypeFlags
    <3>3. CASE Sample(g)
      <4>1. /\ activeProfiles' \subseteq activeProfiles \cup Items(newProfiles)
            /\ newProfiles' = <<>> /\ unsent' \subseteq unsent \cup {buffer}
            /\ UNCHANGED <<started, stopped, dropped, missed, inherited, replaced>>
            /\ buffer \in Profilers
        BY <3>2, <3>3
      <4>2. newProfiles' \in Seq(Profiles) /\ Len(newProfiles') <= MaxNew
        BY <4>1
      <4> QED
        BY <3>1, <4>1, <4>2, <1>t DEF TypeProfiles
    <3>4. CASE Shut(g)
      BY <3>1, <3>4, <1>t DEF TypeProfiles
    <3>5. CASE Run(g) /\ ~Sample(g) /\ ~Shut(g)
      <4>1. /\ UNCHANGED <<newProfiles, activeProfiles, started, stopped, dropped, missed,
                           inherited, replaced>>
            /\ unsent' \subseteq unsent
        BY <3>5 DEF Run
      <4> QED
        BY <4>1, <1>t DEF TypeProfiles
    <3> QED
      BY <1>6, <3>3, <3>4, <3>5
  <2> QED
    BY <2>1, <2>2, <2>3, Types
<1>7. CASE UNCHANGED vars
  BY <1>7, <1>t, Types DEF vars, TypeFlags, TypeThreads, TypeProfiles
<1> QED
  BY <1>1, <1>2, <1>3, <1>4, <1>5, <1>6, <1>7 DEF Next

-----------------------------------------------------------------------------
(* A profiler's step moves it alone, on its way from "loop" to "dead".     *)
LEMMA RunMoves ==
  ASSUME IInv, NEW g \in Profilers, Run(g)
  PROVE  /\ Working(g) /\ \A b \in Actors \ {g} : pc'[b] = pc[b]
         /\ pc'[g] \in {"loop", "sample", "assign", "test", "shut", "end", "dead"}
         /\ UNCHANGED <<lifecycle, profilerPid, pid, lock, thread, buffer, started, stopped,
                        dropped, inherited, mine, overlap, replaced>>
<1> USE DEF Loop, SendRaises, Assign, Test, Shut, End, EndSending, NoSample, NoSampleIf,
            Sample, SampleExcept, Sampled, flags, profiles, ghosts
<1>1. TypeThreads
  BY Types DEF IInv
<1>2. \A point \in Points : Goto(g, point) =>
         pc'[g] = point /\ \A b \in Actors \ {g} : pc'[b] = pc[b]
  BY <1>1, Moves, Members
<1>3. Working(g)
  BY DEF Run, Working
<1>4. \E point \in {"loop", "sample", "assign", "test", "shut", "end", "dead"} : Goto(g, point)
  BY DEF Run
<1>5. UNCHANGED <<lifecycle, profilerPid, pid, lock, thread, buffer, started, stopped,
                  dropped, inherited, mine, overlap, replaced>>
  BY DEF Run
<1> QED
  BY <1>2, <1>3, <1>4, <1>5 DEF Points

(* A call moves its thread alone, but for the profiler that it starts.     *)
LEMMA CallMoves ==
  ASSUME IInv, NEW t \in Threads, CallStep(t)
  PROVE  /\ \A u \in Threads \ {t} : pc'[u] = pc[u]
         /\ pc[t] \in {"reset", "check", "lock", "spawn", "stop", "reread", "join"}
         /\ pc'[t] \in {"idle", "check", "lock", "spawn", "reread", "join"}
         /\ \A g \in Profilers : pc'[g] # pc[g] =>
              /\ Spawn(t) /\ g = buffer /\ pc[g] = "new" /\ pc'[g] \in {"loop", "gone"}
         /\ UNCHANGED <<lifecycle, newProfiles, activeProfiles, started, stopped, dropped,
                        inherited, empty, unsent, pid, died>>
<1> USE DEF ResetSoft, Check, Lock, LockUnless, TearDown, Join, Return,
            flags, profiles, ghosts, Started
<1>1. TypeThreads
  BY Types DEF IInv
<1>2. \A point \in Points : Goto(t, point) =>
         pc'[t] = point /\ \A b \in Actors \ {t} : pc'[b] = pc[b]
  BY <1>1, Moves, Members
<1>3. CASE Spawn(t)
  <2>1. lock = t /\ buffer \in Profilers /\ pc[buffer] = "new"
    BY <1>3, Members DEF IInv, LockInv, Spawn
  <2>2. buffer \in Actors /\ t \in Actors /\ buffer # t
    BY <2>1, Members
  <2>3. \/ pc' = [pc EXCEPT ![t] = "idle", ![buffer] = "loop"]
        \/ pc' = [pc EXCEPT ![t] = "idle", ![buffer] = "gone"]
    BY <1>3 DEF Spawn
  <2>4. /\ pc'[t] = "idle" /\ pc'[buffer] \in {"loop", "gone"}
        /\ \A a \in Actors \ {t, buffer} : pc'[a] = pc[a]
    BY <1>1, <2>2, <2>3 DEF TypeThreads
  <2>5. UNCHANGED <<lifecycle, newProfiles, activeProfiles, started, stopped, dropped,
                    inherited, empty, unsent, pid, died>>
    BY <1>3 DEF Spawn
  <2> QED
    BY <1>3, <2>1, <2>4, <2>5, Members DEF Spawn
<1>4. CASE CallStep(t) /\ ~Spawn(t)
  <2>1. /\ pc[t] \in {"reset", "check", "lock", "stop", "reread", "join"}
        /\ \E point \in {"idle", "check", "lock", "spawn", "reread", "join"} : Goto(t, point)
    BY <1>4 DEF CallStep
  <2>2. UNCHANGED <<lifecycle, newProfiles, activeProfiles, started, stopped, dropped,
                    inherited, empty, unsent, pid, died>>
    BY <1>4 DEF CallStep
  <2>3. \A b \in Actors \ {t} : pc'[b] = pc[b]
    BY <1>2, <2>1 DEF Points
  <2>4. pc'[t] \in {"idle", "check", "lock", "spawn", "reread", "join"}
    BY <1>2, <2>1 DEF Points
  <2> QED
    BY <2>1, <2>2, <2>3, <2>4, Members
<1> QED
  BY <1>3, <1>4

(* The other steps of a thread: the beginnings of calls.                   *)
Begin(t) == ManualStart(t) \/ ManualStop(t) \/ \E p \in Profiles : AutoStart(t, p)
LEMMA BeginMoves ==
  ASSUME IInv, NEW t \in Threads, Begin(t)
  PROVE  /\ \A b \in Actors \ {t} : pc'[b] = pc[b]
         /\ pc[t] = "idle" /\ pc'[t] \in {"reset", "stop"}
         /\ UNCHANGED <<lifecycle, soft, profilerPid, pid, lock, thread, buffer,
                        activeProfiles, stopped, inherited, missed, empty, unsent, overlap,
                        replaced, died>>
         /\ lifecycle = "trace" => UNCHANGED running
<1> USE DEF ManualStart, ManualStop, ManualStopLeaving, AutoStart, AutoStartUpTo,
            flags, profiles, ghosts
<1>1. \A point \in Points : Goto(t, point) =>
         pc'[t] = point /\ \A b \in Actors \ {t} : pc'[b] = pc[b]
  BY Moves, Members, Types DEF IInv
<1>2. pc[t] = "idle" /\ \E point \in {"reset", "stop"} : Goto(t, point)
  BY DEF Begin
<1>3. /\ UNCHANGED <<lifecycle, soft, profilerPid, pid, lock, thread, buffer,
                     activeProfiles, stopped, inherited, missed, empty, unsent, overlap,
                     replaced, died>>
      /\ lifecycle = "trace" => UNCHANGED running
  BY DEF Begin
<1> QED
  BY <1>1, <1>2, <1>3 DEF Points

LEMMA ForkMoves ==
  ASSUME IInv, NEW t \in Threads, Fork(t)
  PROVE  /\ \A b \in Actors : pc'[b] = pc[b] \/ (pc'[b] = "gone" /\ pc[b] # "new")
         /\ pc'[t] = "idle" /\ \A g \in Profilers : pc'[g] \in {"new", "gone"}
         /\ lock = None /\ pid \in Nat /\ pid' = pid + 1
         /\ \A u \in Threads : mine'[u] = None
         /\ \A g \in Profilers : empty'[g] = FALSE
BY Members, Bounds, Types DEF IInv, TypeThreads, TypeFlags, Fork

(* The disjuncts of Next, by who takes the step.                           *)
LEMMA Steps ==
  ASSUME [Next]_vars
  PROVE  \/ \E t \in Threads : CallStep(t) \/ Begin(t) \/ Fork(t)
         \/ \E p \in Profiles : StopProfile(p)
         \/ \E g \in Profilers : Run(g)
         \/ UNCHANGED vars
BY DEF Next, Begin

LEMMA LockStep == IInv /\ [Next]_vars => LockInv'
<1> SUFFICES ASSUME IInv, [Next]_vars PROVE LockInv'
  OBVIOUS
<1>i. LockInv /\ TypeFlags /\ TypeThreads
  BY Types DEF IInv
<1>j. lock \in Threads \cup {None} /\ buffer \in Profilers \cup {None}
  BY <1>i DEF TypeFlags
<1> USE DEF LockInv, Working, Sampling
<1>1. ASSUME NEW t \in Threads, CallStep(t) PROVE LockInv'
  <2>1. CASE Lock(t)
    <3>1. CASE Ready
      <4>1. pc'[t] = "idle" /\ UNCHANGED <<lock, buffer, profilerPid, pid>>
        BY <2>1, <3>1, <1>i, Members, Moves DEF Lock, LockUnless, Return, Points, flags
      <4> QED
        BY <1>1, <1>i, <2>1, <4>1, CallMoves, Members DEF Lock, LockUnless
    <3>2. CASE ~Ready
      <4>1. /\ pc'[t] = "spawn" /\ lock = None /\ lock' = t /\ buffer' \in Profilers
            /\ pc[buffer'] = "new" /\ profilerPid' = pid /\ pid' = pid
        BY <2>1, <3>2, <1>i, Members, Moves DEF Lock, LockUnless, Points
      <4>2. \A g \in Profilers : pc'[g] = pc[g]
        BY <1>1, <2>1, CallMoves DEF Spawn, Lock, LockUnless
      <4>3. pid \in Nat
        BY <1>i, Bounds DEF TypeFlags
      <4> QED
        BY <1>1, <1>i, <4>1, <4>2, <4>3, CallMoves, Members
    <3> QED
      BY <3>1, <3>2
  <2>2. CASE Spawn(t)
    <3>1. lock = t /\ lock' = None /\ UNCHANGED <<buffer, profilerPid, pid>>
      BY <2>2, <1>i DEF Spawn
    <3>2. \A u \in Threads : pc'[u] # "spawn"
      <4>1. pc'[t] = "idle"
        BY <1>i, <2>2, Members DEF Spawn, TypeThreads
      <4> QED
        BY <1>1, <1>i, <3>1, <4>1, CallMoves
    <3>3. \A h \in Profilers : pc'[h] = pc[h] \/ pc'[h] \in {"loop", "gone"}
      BY <1>1, CallMoves
    <3> QED
      BY <1>i, <1>j, <2>2, <3>1, <3>2, <3>3, Members
  <2>3. CASE CallStep(t) /\ ~Lock(t) /\ ~Spawn(t)
    <3>1. UNCHANGED <<lock, buffer, profilerPid, pid>> /\ pc[t] # "spawn" /\ pc'[t] # "spawn"
      BY <2>3, <1>i, Members, Moves
      DEF CallStep, ResetSoft, Check, Return, TearDown, Join, flags, Points
    <3> QED
      BY <1>1, <1>i, <1>j, <2>3, <3>1, CallMoves, Members
  <2> QED
    BY <1>1, <2>1, <2>2, <2>3
<1>2. ASSUME NEW t \in Threads, Begin(t) PROVE LockInv'
  BY <1>2, <1>i, <1>j, BeginMoves, Members
<1>3. ASSUME NEW t \in Threads, Fork(t) PROVE LockInv'
  <2>1. UNCHANGED <<lock, buffer, profilerPid>>
    BY <1>3 DEF Fork
  <2>2. profilerPid = None \/ profilerPid \in Nat
    BY <1>i, Bounds DEF TypeFlags
  <2>3. lock' = None /\ \A u \in Threads : pc'[u] # "spawn"
    BY <1>3, <1>i, <2>1, ForkMoves, Members
  <2>4. profilerPid' = None \/ profilerPid' <= pid'
    <3>1. pid \in Nat /\ pid' = pid + 1
      BY <1>3, ForkMoves
    <3>2. profilerPid = None \/ profilerPid <= pid
      BY <1>i
    <3> QED
      BY <2>1, <2>2, <3>1, <3>2
  <2>5. \A g \in Profilers : pc'[g] \in {"new", "gone"} /\ (pc[g] = "new" => pc'[g] = "new")
    BY <1>3, ForkMoves, Members
  <2> QED
    BY <1>i, <2>1, <2>3, <2>4, <2>5
<1>4. ASSUME NEW p \in Profiles, StopProfile(p) PROVE LockInv'
  BY <1>4, <1>i DEF StopProfile, flags
<1>5. ASSUME NEW g \in Profilers, Run(g) PROVE LockInv'
  BY <1>5, <1>i, <1>j, RunMoves, Members
<1>6. CASE UNCHANGED vars
  BY <1>6, <1>i DEF vars, flags
<1> QED
  BY <1>1, <1>2, <1>3, <1>4, <1>5, <1>6, Steps

(* What a call does to the flags: nothing, but for creating a profiler and *)
(* starting it.                                                            *)
LEMMA CallFlags ==
  ASSUME IInv, NEW t \in Threads, CallStep(t)
  PROVE  \/ /\ UNCHANGED <<running, profilerPid, lock, buffer, overlap, replaced, missed>>
            /\ UNCHANGED mine \/ Ready
            /\ \A g \in Profilers : pc'[g] = pc[g]
         \/ /\ Lock(t) /\ ~Ready /\ lock = None /\ lock' = t /\ Ready'
            /\ buffer' \in Profilers /\ pc[buffer'] = "new" /\ UNCHANGED <<missed, mine>>
            /\ \A g \in Profilers : pc'[g] = pc[g]
         \/ /\ Spawn(t) /\ lock = t /\ lock' = None /\ pc[t] = "spawn"
            /\ buffer \in Profilers /\ pc[buffer] = "new"
            /\ UNCHANGED <<profilerPid, buffer, overlap, replaced>>
            /\ mine' = [mine EXCEPT ![t] = None]
            /\ \A g \in Profilers \ {buffer} : pc'[g] = pc[g]
            /\ \/ pc'[buffer] = "loop" /\ UNCHANGED <<running, missed>>
               \/ pc'[buffer] = "gone" /\ running' = FALSE /\ missed' = missed \cup started
<1>1. ASSUME ~Spawn(t), NEW g \in Profilers PROVE pc'[g] = pc[g]
  BY <1>1, CallMoves
<1>2. CASE ResetSoft(t) \/ Check(t) \/ TearDown(t) \/ Join(t)
  BY <1>1, <1>2 DEF ResetSoft, Check, TearDown, Join, Spawn, Return, flags, profiles, ghosts,
                    Started
<1>3. CASE Lock(t)
  BY <1>1, <1>3 DEF Lock, LockUnless, Spawn, Ready, flags, profiles, ghosts, Started
<1>4. CASE Spawn(t)
  <2>1. lock = t /\ buffer \in Profilers /\ pc[buffer] = "new"
    BY <1>4, Members DEF IInv, LockInv, Spawn
  <2>2. /\ pc \in [Actors -> Points] /\ buffer \in Actors /\ t \in Actors /\ buffer # t
        /\ \A g \in Profilers : g \in Actors /\ g # t
    BY <2>1, Members, Types DEF IInv, TypeThreads
  <2>3. \A g \in Profilers \ {buffer} : pc'[g] = pc[g]
    BY <1>4, <2>2 DEF Spawn
  <2>4. \/ pc'[buffer] = "loop" /\ UNCHANGED <<running, missed>>
        \/ pc'[buffer] = "gone" /\ running' = FALSE /\ missed' = missed \cup started
    BY <1>4, <2>2 DEF Spawn
  <2>5. /\ lock' = None /\ pc[t] = "spawn"
        /\ UNCHANGED <<profilerPid, buffer, overlap, replaced>>
        /\ mine' = [mine EXCEPT ![t] = None]
    BY <1>4 DEF Spawn, ghosts
  <2> QED
    BY <1>4, <2>1, <2>3, <2>4, <2>5
<1> QED
  BY <1>2, <1>3, <1>4 DEF CallStep

LEMMA TraceStep == IInv /\ [Next]_vars => TraceInv'
<1> SUFFICES ASSUME IInv, [Next]_vars PROVE TraceInv'
  OBVIOUS
<1>i. TraceInv /\ LockInv /\ TypeFlags /\ lock \in Threads \cup {None}
  BY Types DEF IInv, TypeFlags
<1> USE DEF TraceInv, Sampling
<1>1. ASSUME NEW t \in Threads, CallStep(t) PROVE TraceInv'
  <2>1. UNCHANGED <<lifecycle, pid, died>>
    BY <1>1, CallMoves
  <2>2. CASE /\ UNCHANGED <<running, profilerPid, lock>>
             /\ \A g \in Profilers : pc'[g] = pc[g]
    BY <1>i, <2>1, <2>2 DEF Ready
  <2>3. CASE /\ ~Ready /\ lock = None /\ lock' = t /\ Ready'
             /\ \A g \in Profilers : pc'[g] = pc[g]
    BY <1>i, <2>1, <2>3, Members
  <2>4. CASE /\ lock = t /\ lock' = None /\ UNCHANGED <<profilerPid, buffer>>
             /\ buffer \in Profilers /\ \A g \in Profilers \ {buffer} : pc'[g] = pc[g]
             /\ \/ pc'[buffer] = "loop" /\ UNCHANGED running
                \/ pc'[buffer] = "gone" /\ running' = FALSE
    <3>1. t # None
      BY Members
    <3>2. lifecycle = "trace" => Ready /\ \A g \in Profilers : ~Sampling(g)
      BY <1>i, <2>4, <3>1
    <3>3. lifecycle = "trace" => \A g \in Profilers \ {buffer} : ~Sampling(g)'
      BY <2>4, <3>2
    <3>4. CASE pc'[buffer] = "loop" /\ UNCHANGED running
      <4>1. Ready' <=> Ready
        BY <2>1, <2>4, <3>4 DEF Ready
      <4>2. Sampling(buffer)'
        BY <2>4, <3>4
      <4> QED
        BY <2>1, <2>4, <3>2, <3>3, <4>1, <4>2
    <3>5. CASE pc'[buffer] = "gone" /\ running' = FALSE
      BY <2>1, <2>4, <3>3, <3>5 DEF Ready
    <3> QED
      BY <2>4, <3>4, <3>5
  <2> QED
    BY <1>1, <2>2, <2>3, <2>4, CallFlags
<1>2. ASSUME NEW t \in Threads, Begin(t) PROVE TraceInv'
  <2>1. \A g \in Profilers : pc'[g] = pc[g]
    BY <1>2, BeginMoves, Members
  <2>2. /\ UNCHANGED <<lifecycle, profilerPid, pid, lock, died>>
        /\ lifecycle = "trace" => UNCHANGED running
    BY <1>2, BeginMoves
  <2> QED
    BY <1>i, <2>1, <2>2 DEF Ready
<1>3. ASSUME NEW t \in Threads, Fork(t) PROVE TraceInv'
  <2>1. lock' = None /\ \A g \in Profilers : ~Sampling(g)'
    BY <1>3, ForkMoves DEF Fork
  <2>2. ~Ready'
    <3>1. pid \in Nat /\ pid' = pid + 1 /\ profilerPid' = profilerPid
      BY <1>3, ForkMoves DEF Fork
    <3>2. \/ profilerPid = None
          \/ profilerPid \in Nat /\ profilerPid <= pid
      BY <1>i, Bounds DEF LockInv, TypeFlags
    <3> QED
      BY <3>1, <3>2, Members DEF Ready
  <2> QED
    BY <2>1, <2>2
<1>4. ASSUME NEW p \in Profiles, StopProfile(p) PROVE TraceInv'
  BY <1>4, <1>i DEF StopProfile, flags, ghosts, Ready
<1>5. ASSUME NEW g \in Profilers, Run(g) PROVE TraceInv'
  <2>1. /\ \A h \in Profilers \ {g} : pc'[h] = pc[h]
        /\ UNCHANGED <<lifecycle, profilerPid, pid, lock>>
    BY <1>5, RunMoves, Members
  <2>2. CASE Shut(g)
    <3>1. running' = FALSE /\ pc[g] = "shut"
      BY <2>2 DEF Shut
    <3>2. lifecycle = "trace" => \A h \in Profilers \ {g} : ~Sampling(h)
      BY <1>i, <3>1
    <3>3. ~Sampling(g)'
      BY <1>i, <2>2, Members, Moves, Types DEF Shut, IInv, Points
    <3>4. lifecycle = "trace" => lock' = None
      BY <1>i, <2>1, <3>1
    <3>5. lifecycle = "trace" => \A h \in Profilers : ~Sampling(h)'
      BY <2>1, <3>2, <3>3
    <3> QED
      BY <2>1, <3>1, <3>4, <3>5 DEF Ready
  <2>3. CASE Run(g) /\ ~Shut(g)
    <3>1. running' = running /\ (died => died')
      BY <2>3 DEF Run, Loop, SendRaises, Assign, Test, End, EndSending, NoSample, NoSampleIf,
                  Sample, SampleExcept, Sampled, flags, ghosts
    <3>2. lifecycle = "trace" => (Sampling(g) <=> Sampling(g)') \/ (died' /\ ~Sampling(g)')
      <4> USE Members, Moves, Types DEF IInv, Points
      <4>1. CASE Loop(g)
        BY <1>i, <4>1 DEF Loop, Ready
      <4>2. CASE SendRaises(g) \/ End(g)
        BY <4>2 DEF SendRaises, End, EndSending
      <4>3. CASE Assign(g) \/ Test(g) \/ NoSample(g) \/ Sample(g)
        BY <4>3 DEF Assign, Test, NoSample, NoSampleIf, Sample, SampleExcept, Sampled
      <4> QED
        BY <2>3, <4>1, <4>2, <4>3 DEF Run
    <3> QED
      BY <1>i, <2>1, <3>1, <3>2 DEF Ready
  <2> QED
    BY <1>5, <2>2, <2>3
<1>6. CASE UNCHANGED vars
  BY <1>6, <1>i DEF vars, flags, ghosts, Ready
<1> QED
  BY <1>1, <1>2, <1>3, <1>4, <1>5, <1>6, Steps

LEMMA ManualStep == IInv /\ [Next]_vars => ManualInv'
<1> SUFFICES ASSUME IInv, [Next]_vars PROVE ManualInv'
  OBVIOUS
<1>i. ManualInv /\ LockInv /\ TypeFlags /\ lock \in Threads \cup {None}
  BY Types DEF IInv, TypeFlags
<1> USE DEF ManualInv, Working
<1>1. ASSUME NEW t \in Threads, CallStep(t) PROVE ManualInv'
  <2>1. UNCHANGED lifecycle
    BY <1>1, CallMoves
  <2>2. CASE UNCHANGED <<lock, overlap>> /\ \A g \in Profilers : pc'[g] = pc[g]
    BY <1>i, <2>1, <2>2
  <2>3. CASE Lock(t) /\ ~Ready /\ lock = None /\ \A g \in Profilers : pc'[g] = pc[g]
    <3>1. lifecycle = "manual" /\ ~overlap' => ~overlap /\ Live = {}
      BY <2>3 DEF Lock, LockUnless
    <3>2. Live = {} => \A g \in Profilers : ~Working(g)
      BY DEF Live
    <3> QED
      BY <1>i, <2>1, <2>3, <3>1, <3>2
  <2>4. CASE /\ lock = t /\ lock' = None /\ UNCHANGED overlap
             /\ buffer \in Profilers /\ \A g \in Profilers \ {buffer} : pc'[g] = pc[g]
    BY <1>i, <2>1, <2>4, Members
  <2> QED
    BY <1>1, <2>2, <2>3, <2>4, CallFlags
<1>2. ASSUME NEW t \in Threads, Begin(t) PROVE ManualInv'
  BY <1>2, <1>i, BeginMoves, Members
<1>3. ASSUME NEW t \in Threads, Fork(t) PROVE ManualInv'
  BY <1>3, ForkMoves
<1>4. ASSUME NEW p \in Profiles, StopProfile(p) PROVE ManualInv'
  BY <1>4, <1>i DEF StopProfile, flags, ghosts
<1>5. ASSUME NEW g \in Profilers, Run(g) PROVE ManualInv'
  BY <1>5, <1>i, RunMoves, Members
<1>6. CASE UNCHANGED vars
  BY <1>6, <1>i DEF vars, flags, ghosts
<1> QED
  BY <1>1, <1>2, <1>3, <1>4, <1>5, <1>6, Steps

LEMMA ProfileStep == IInv /\ [Next]_vars => ProfileInv'
<1> SUFFICES ASSUME IInv, [Next]_vars PROVE ProfileInv'
  OBVIOUS
<1>i. ProfileInv /\ TypeThreads /\ TypeProfiles
  BY Types DEF IInv
<1> USE DEF ProfileInv
<1>1. ASSUME NEW t \in Threads, CallStep(t) PROVE ProfileInv'
  <2>1. UNCHANGED <<lifecycle, newProfiles, activeProfiles, started, stopped, dropped>>
    BY <1>1, CallMoves
  <2>2. \A u \in Threads \ {t} : pc'[u] = pc[u] /\ mine'[u] = mine[u]
    <3>1. mine' = mine \/ mine' = [mine EXCEPT ![t] = None]
      BY <1>1 DEF CallStep, ResetSoft, Check, Lock, LockUnless, Spawn, TearDown, Join, Return,
                  profiles
    <3> QED
      BY <1>1, <1>i, <3>1, CallMoves DEF TypeThreads
  <2>3. mine'[t] # None => pc'[t] \in {"reset", "check", "lock", "spawn"}
    <3> USE <1>i, Members, Moves DEF Points, Return, profiles
    <3>1. CASE ResetSoft(t)
      BY <3>1 DEF ResetSoft
    <3>2. CASE Check(t) \/ Lock(t)
      <4>1. \/ mine'[t] = None
            \/ pc'[t] = "lock" \/ pc'[t] = "spawn"
        BY <3>2 DEF Check, Lock, LockUnless, TypeThreads
      <4> QED
        BY <4>1
    <3>3. CASE Spawn(t)
      BY <3>3 DEF Spawn, TypeThreads
    <3>4. CASE TearDown(t) \/ Join(t)
      BY <3>4 DEF TearDown, Join
    <3> QED
      BY <1>1, <3>1, <3>2, <3>3, <3>4 DEF CallStep
  <2> QED
    BY <1>i, <2>1, <2>2, <2>3
<1>2. ASSUME NEW t \in Threads, Begin(t) PROVE ProfileInv'
  <2>1. CASE ManualStart(t) \/ ManualStop(t)
    <3>1. UNCHANGED <<lifecycle, profiles>> /\ pc[t] = "idle"
      BY <2>1 DEF ManualStart, ManualStop, ManualStopLeaving
    <3> QED
      BY <1>2, <1>i, <3>1, BeginMoves, Members DEF profiles
  <2>2. ASSUME NEW p \in Profiles, AutoStart(t, p) PROVE ProfileInv'
    <3>1. /\ lifecycle' = "trace" /\ started' = started \cup {p}
          /\ UNCHANGED <<activeProfiles, stopped>> /\ mine' = [mine EXCEPT ![t] = p]
      BY <2>2 DEF AutoStart, AutoStartUpTo
    <3>2. pc'[t] = "reset" /\ \A u \in Threads \ {t} : pc'[u] = pc[u]
      BY <2>2, <1>i, Members, Moves DEF AutoStart, AutoStartUpTo, Points
    <3>3. newProfiles \in Seq(Profiles) /\ (Len(newProfiles) < MaxNew \/ Len(newProfiles) > 0)
      BY <1>i, Bounds DEF TypeProfiles
    <3>4. /\ Items(newProfiles)' \subseteq Items(newProfiles) \cup {p}
          /\ Items(newProfiles) \cup {p} \subseteq Items(newProfiles)' \cup dropped'
          /\ dropped \subseteq dropped'
      <4>1. CASE Len(newProfiles) < MaxNew
        <5>1. newProfiles' = Append(newProfiles, p) /\ dropped' = dropped
          BY <2>2, <4>1 DEF AutoStart, AutoStartUpTo
        <5> QED
          BY <3>3, <5>1, Deque DEF Items
      <4>2. CASE ~(Len(newProfiles) < MaxNew)
        <5>1. /\ newProfiles' = Append(Tail(newProfiles), p)
              /\ dropped' = dropped \cup {Head(newProfiles)}
          BY <2>2, <4>2 DEF AutoStart, AutoStartUpTo
        <5>2. Items(newProfiles)' = Items(Append(Tail(newProfiles), p))
          BY <5>1 DEF Items
        <5>3. Len(newProfiles) > 0
          BY <3>3, <4>2
        <5> QED
          BY <3>3, <5>1, <5>2, <5>3, Deque
      <4> QED
        BY <4>1, <4>2
    <3>5. \A u \in Threads : mine'[u] # None => pc'[u] \in {"reset", "check", "lock", "spawn"}
      BY <1>i, <3>1, <3>2 DEF TypeThreads
    <3>6. Items(newProfiles)' \subseteq started'
      BY <1>i, <3>1, <3>4
    <3>7. started' \ (stopped' \cup dropped') \subseteq Items(newProfiles)' \cup activeProfiles'
      BY <1>i, <3>1, <3>4
    <3> QED
      BY <3>1, <3>5, <3>6, <3>7
  <2> QED
    BY <1>2, <2>1, <2>2 DEF Begin
<1>3. ASSUME NEW t \in Threads, Fork(t) PROVE ProfileInv'
  <2>1. UNCHANGED <<lifecycle, newProfiles, activeProfiles, started, stopped, dropped>>
    BY <1>3 DEF Fork
  <2> QED
    BY <1>3, <1>i, <2>1, ForkMoves
<1>4. ASSUME NEW p \in Profiles, StopProfile(p) PROVE ProfileInv'
  BY <1>4, <1>i DEF StopProfile
<1>5. ASSUME NEW g \in Profilers, Run(g) PROVE ProfileInv'
  <2>1. /\ UNCHANGED <<lifecycle, started, stopped, dropped, mine>>
        /\ \A u \in Threads : pc'[u] = pc[u]
    BY <1>5, RunMoves, Members
  <2>2. CASE UNCHANGED <<newProfiles, activeProfiles>>
    BY <1>i, <2>1, <2>2
  <2>3. CASE Sample(g)
    <3>1. Items(newProfiles)' = {}
      BY <2>3, EmptyDeque DEF Sample, SampleExcept, Items
    <3>2. activeProfiles' = (activeProfiles \cup Items(newProfiles)) \ stopped
      BY <2>3 DEF Sample, SampleExcept
    <3> QED
      BY <1>i, <2>1, <3>1, <3>2
  <2>4. UNCHANGED <<newProfiles, activeProfiles>> \/ Sample(g)
    BY <1>5 DEF Run, Loop, SendRaises, Assign, Test, Shut, End, EndSending, NoSample,
                NoSampleIf, profiles
  <2> QED
    BY <2>2, <2>3, <2>4
<1>6. CASE UNCHANGED vars
  BY <1>6, <1>i DEF vars, profiles
<1> QED
  BY <1>1, <1>2, <1>3, <1>4, <1>5, <1>6, Steps

LEMMA ShutStep == IInv /\ [Next]_vars => ShutInv'
<1> SUFFICES ASSUME IInv, [Next]_vars PROVE ShutInv'
  OBVIOUS
<1>i. ShutInv /\ TypeThreads
  BY Types DEF IInv
<1> USE DEF ShutInv
<1>1. ASSUME NEW t \in Threads, CallStep(t) PROVE ShutInv'
  <2>1. UNCHANGED <<activeProfiles, empty>>
    BY <1>1, CallMoves
  <2>2. soft' => soft
    BY <1>1 DEF CallStep, ResetSoft, Check, Lock, LockUnless, Spawn, TearDown, Join, flags
  <2>3. \A g \in Profilers : pc'[g] = pc[g] \/ pc'[g] \in {"loop", "gone"}
    BY <1>1, CallMoves
  <2> QED
    BY <1>i, <2>1, <2>2, <2>3
<1>2. ASSUME NEW t \in Threads, Begin(t) PROVE ShutInv'
  BY <1>2, <1>i, BeginMoves, Members
<1>3. ASSUME NEW t \in Threads, Fork(t) PROVE ShutInv'
  BY <1>3, ForkMoves
<1>4. ASSUME NEW p \in Profiles, StopProfile(p) PROVE ShutInv'
  BY <1>4, <1>i DEF StopProfile, flags
<1>5. ASSUME NEW g \in Profilers, Run(g) PROVE ShutInv'
  <2>0. \A h \in Profilers \ {g} : pc'[h] = pc[h]
    BY <1>5, RunMoves, Members
  <2> USE Members, Moves DEF Points
  <2>1. CASE Loop(g) \/ SendRaises(g) \/ End(g) \/ Shut(g) \/ Test(g)
    <3>1. UNCHANGED <<activeProfiles, empty, soft>>
      BY <2>1 DEF Loop, SendRaises, End, EndSending, Shut, Test, flags, profiles
    <3>2. \/ pc'[g] \in {"sample", "loop", "dead", "end"}
          \/ pc'[g] = "shut" /\ pc[g] = "test" /\ soft
      BY <1>i, <2>1 DEF Loop, SendRaises, End, EndSending, Shut, Test
    <3> QED
      BY <1>i, <2>0, <3>1, <3>2
  <2>2. CASE Assign(g)
    <3>1. /\ activeProfiles' = activeProfiles /\ soft' = empty[g] /\ pc[g] = "assign"
          /\ pc'[g] = "test" /\ \A h \in Profilers \ {g} : empty'[h] = empty[h]
      BY <1>i, <2>2 DEF Assign, TypeThreads, profiles
    <3> QED
      BY <1>i, <2>0, <3>1
  <2>3. CASE NoSample(g)
    <3>1. /\ UNCHANGED <<activeProfiles, soft>> /\ empty'[g] = NoProfiles
          /\ pc'[g] = "assign" /\ \A h \in Profilers \ {g} : empty'[h] = empty[h]
      BY <1>i, <2>3 DEF NoSample, NoSampleIf, Sampled, TypeThreads, flags
    <3> QED
      BY <1>i, <2>0, <3>1 DEF NoProfiles
  <2>4. CASE Sample(g)
    <3>1. /\ pc[g] = "sample" /\ pc'[g] = "assign" /\ empty'[g] = FALSE /\ soft' = soft
          /\ activeProfiles' \subseteq activeProfiles \cup Items(newProfiles)
          /\ \A h \in Profilers \ {g} : empty'[h] = empty[h]
      BY <1>i, <2>4 DEF Sample, SampleExcept, Sampled, TypeThreads, flags
    <3>2. CASE lifecycle = "manual"
      <4>1. activeProfiles' = {}
        BY <3>1, <3>2, Types DEF IInv, ProfileInv, TypeProfiles
      <4> QED
        BY <4>1
    <3>3. CASE lifecycle # "manual"
      <4>1. \A h \in Profilers \ {g} : ~Sampling(h)
        BY <3>1, <3>3, Types DEF IInv, TraceInv, Sampling, TypeFlags
      <4> QED
        BY <2>0, <3>1, <4>1 DEF Sampling
    <3> QED
      BY <3>2, <3>3
  <2> QED
    BY <1>5, <2>1, <2>2, <2>3, <2>4 DEF Run
<1>6. CASE UNCHANGED vars
  BY <1>6, <1>i DEF vars, flags, profiles
<1> QED
  BY <1>1, <1>2, <1>3, <1>4, <1>5, <1>6, Steps

LEMMA SentStep == IInv /\ [Next]_vars => SentInv' /\ SamplesSent'
<1> SUFFICES ASSUME IInv, [Next]_vars PROVE SentInv' /\ SamplesSent'
  OBVIOUS
<1>i. SentInv /\ SamplesSent
  BY DEF IInv
<1> USE DEF SentInv, SamplesSent
<1>1. ASSUME NEW t \in Threads, CallStep(t) PROVE SentInv' /\ SamplesSent'
  <2>1. UNCHANGED <<unsent, died>>
    BY <1>1, CallMoves
  <2>2. CASE UNCHANGED <<buffer, replaced>> /\ \A g \in Profilers : pc'[g] = pc[g]
    BY <1>i, <2>1, <2>2 DEF Live
  <2>3. CASE Lock(t) /\ ~Ready /\ \A g \in Profilers : pc'[g] = pc[g]
    <3>1. replaced' = IF Live = {} THEN replaced ELSE replaced \cup {buffer}
      BY <2>3 DEF Lock, LockUnless
    <3>2. Live' = Live
      BY <2>3 DEF Live
    <3> QED
      BY <1>i, <2>1, <3>1, <3>2
  <2>4. CASE /\ buffer \in Profilers /\ pc[buffer] = "new" /\ UNCHANGED <<buffer, replaced>>
             /\ \A g \in Profilers \ {buffer} : pc'[g] = pc[g]
             /\ pc'[buffer] = "loop" \/ pc'[buffer] = "gone"
    <3>1. Live' = {} => Live = {}
      BY <2>4 DEF Live
    <3> QED
      BY <1>i, <2>1, <2>4, <3>1
  <2> QED
    BY <1>1, <2>2, <2>3, <2>4, CallFlags
<1>2. ASSUME NEW t \in Threads, Begin(t) PROVE SentInv' /\ SamplesSent'
  <2>1. Live' = Live
    BY <1>2, BeginMoves, Members DEF Live
  <2> QED
    BY <1>2, <1>i, <2>1, BeginMoves
<1>3. ASSUME NEW t \in Threads, Fork(t) PROVE SentInv' /\ SamplesSent'
  BY <1>3 DEF Fork
<1>4. ASSUME NEW p \in Profiles, StopProfile(p) PROVE SentInv' /\ SamplesSent'
  <2>1. Live' = Live
    BY <1>4 DEF StopProfile, Live
  <2> QED
    BY <1>4, <1>i, <2>1 DEF StopProfile, ghosts
<1>5. ASSUME NEW g \in Profilers, Run(g) PROVE SentInv' /\ SamplesSent'
  <2>1. UNCHANGED <<buffer, replaced>>
    BY <1>5, RunMoves
  <2> USE DEF Loop, SendRaises, Assign, Test, Shut, End, EndSending, NoSample, NoSampleIf,
              Sample, SampleExcept, Sampled, ghosts
  <2>2. (died => died') /\ unsent' \subseteq unsent \cup {buffer}
    BY <1>5 DEF Run
  <2>3. CASE SendRaises(g) \/ End(g)
    <3>1. died' \/ unsent' = unsent \ {buffer}
      BY <2>3
    <3> QED
      BY <1>i, <2>1, <2>2, <3>1
  <2>4. CASE Run(g) /\ ~SendRaises(g) /\ ~End(g)
    <3>1. \E point \in {"loop", "sample", "assign", "test", "shut", "end"} : Goto(g, point)
      BY <2>4 DEF Run
    <3>2. pc'[g] \in {"loop", "sample", "assign", "test", "shut", "end"}
      BY <3>1, Moves, Members, Types DEF IInv, Points
    <3>3. Live' # {}
      BY <3>2 DEF Live
    <3> QED
      BY <1>i, <2>1, <2>2, <3>3
  <2> QED
    BY <1>5, <2>3, <2>4
<1>6. CASE UNCHANGED vars
  BY <1>6, <1>i DEF vars, flags, ghosts, Live
<1> QED
  BY <1>1, <1>2, <1>3, <1>4, <1>5, <1>6, Steps

-----------------------------------------------------------------------------
(* The profiles that are wanted, one by one.                               *)
Wants(p) ==
  /\ p \in started
  /\ p \notin stopped /\ p \notin missed /\ p \notin dropped /\ p \notin inherited
  /\ \A t \in Threads : mine[t] # p

LEMMA WantedOnes == /\ \A p : p \in Wanted <=> Wants(p)
                    /\ \A p : p \in Wanted' <=> Wants(p)'
BY DEF Wanted, Wants

LEMMA AbandonStep == IInv /\ [Next]_vars => NoneAbandoned'
<1> SUFFICES ASSUME IInv, [Next]_vars PROVE NoneAbandoned'
  OBVIOUS
<1>i. /\ TraceInv /\ ProfileInv /\ TypeFlags /\ TypeThreads /\ TypeProfiles /\ LockInv
      /\ ProfileInv' /\ TraceInv' /\ TypeFlags'
  BY Types, TypeStep, TraceStep, ProfileStep DEF IInv
<1>w. \A p : Wants(p) => died \/ Ready
  BY WantedOnes DEF IInv, NoneAbandoned
(* With "manual" there are no profiles; with "trace", TraceInv has the     *)
(* rest of what is to be shown.                                            *)
<1> SUFFICES ASSUME lifecycle' = "trace", NEW p, Wants(p)' PROVE died' \/ Ready'
  <2>1. CASE Wanted' = {}
    BY <2>1 DEF NoneAbandoned
  <2>2. ASSUME NEW p \in Wanted' PROVE NoneAbandoned'
    <3>1. Wants(p)'
      BY <2>2, WantedOnes
    <3>2. lifecycle' = "trace"
      BY <1>i, <3>1 DEF ProfileInv, TypeFlags, Wants
    <3>3. died' \/ Ready'
      BY <3>1, <3>2
    <3>4. (\E g \in Profilers : Sampling(g))' => Looping' # {}
      BY DEF Sampling, Looping
    <3> QED
      BY <1>i, <3>2, <3>3, <3>4 DEF TraceInv, NoneAbandoned
  <2> QED
    BY <2>1, <2>2
<1> USE DEF Wants
<1>1. ASSUME NEW t \in Threads, CallStep(t) PROVE died' \/ Ready'
  <2>1. UNCHANGED <<lifecycle, started, stopped, dropped, inherited, pid, died>>
    BY <1>1, CallMoves
  <2>2. CASE /\ UNCHANGED <<running, profilerPid, missed>>
             /\ UNCHANGED mine \/ Ready
    <3>1. Ready' <=> Ready
      BY <2>1, <2>2 DEF Ready
    <3>2. CASE UNCHANGED mine
      <4>1. Wants(p)
        BY <2>1, <2>2, <3>2
      <4> QED
        BY <1>w, <2>1, <3>1, <4>1
    <3> QED
      BY <2>2, <3>1, <3>2
  <2>3. CASE /\ lock = t /\ UNCHANGED profilerPid
             /\ \/ UNCHANGED running
                \/ missed' = missed \cup started
    <3>1. Ready
      BY <1>i, <2>1, <2>3, Members DEF TraceInv
    <3> QED
      BY <2>1, <2>3, <3>1 DEF Ready
  <2> QED
    BY <1>1, <2>2, <2>3, CallFlags
<1>2. ASSUME NEW t \in Threads, Begin(t) PROVE died' \/ Ready'
  <2>1. UNCHANGED <<died, stopped, missed, inherited>> /\ Ready' = Ready /\ pc[t] = "idle"
    BY <1>2, BeginMoves DEF Ready
  <2>2. PICK q \in Profiles : AutoStart(t, q)
    BY <1>2, BeginMoves DEF Begin, ManualStart, ManualStop, ManualStopLeaving
  <2>3. /\ started' = started \cup {q} /\ dropped \subseteq dropped'
        /\ mine' = [mine EXCEPT ![t] = q]
    BY <2>2 DEF AutoStart, AutoStartUpTo
  <2>4. mine[t] = None /\ p # None
    BY <1>i, <2>1, <2>3, Members DEF ProfileInv, TypeProfiles
  <2>5. Wants(p)
    BY <1>i, <2>1, <2>3, <2>4 DEF TypeThreads
  <2> QED
    BY <1>w, <2>1, <2>5
<1>3. ASSUME NEW t \in Threads, Fork(t) PROVE died' \/ Ready'
  BY <1>3 DEF Fork
<1>4. ASSUME NEW q \in Profiles, StopProfile(q) PROVE died' \/ Ready'
  BY <1>4, <1>w DEF StopProfile, flags, ghosts, Ready
<1>5. ASSUME NEW g \in Profilers, Run(g) PROVE died' \/ Ready'
  <2>1. UNCHANGED <<profilerPid, pid, started, stopped, dropped, inherited, mine>>
    BY <1>5, RunMoves
  <2>2. CASE Shut(g)
    <3>1. missed' = missed \cup (Items(newProfiles) \ {mine[t] : t \in Threads})
      BY <2>2 DEF Shut
    <3>2. p \in Items(newProfiles)
      BY <1>i, <2>1, <2>2 DEF IInv, ShutInv, ProfileInv, Shut
    <3> QED
      BY <2>1, <3>1, <3>2
  <2>3. CASE Run(g) /\ ~Shut(g)
    <3>1. UNCHANGED <<running, missed>> /\ (died => died')
      BY <2>3 DEF Run, Loop, SendRaises, Assign, Test, End, EndSending, NoSample, NoSampleIf,
                  Sample, SampleExcept, Sampled, flags, profiles, ghosts
    <3> QED
      BY <1>w, <2>1, <3>1 DEF Ready
  <2> QED
    BY <1>5, <2>2, <2>3
<1>6. CASE UNCHANGED vars
  BY <1>6, <1>w DEF vars, flags, profiles, ghosts, Ready
<1> QED
  BY <1>1, <1>2, <1>3, <1>4, <1>5, <1>6, Steps

-----------------------------------------------------------------------------
LEMMA Inductive == IInv /\ [Next]_vars => IInv'
BY TypeStep, LockStep, ProfileStep, ManualStep, TraceStep, ShutStep, SentStep, AbandonStep
DEF IInv

THEOREM Invariance == Spec => []IInv
BY Initially, Inductive, PTL DEF Spec

(* One profiler at most samples.                                           *)
LEMMA One == IInv => OneSampler
<1> SUFFICES ASSUME IInv, ~overlap PROVE Cardinality(Looping) <= 1
  BY DEF OneSampler
<1>1. \A g, h \in Looping : g = h
  <2>1. \A g \in Looping : g \in Profilers /\ Sampling(g) /\ Working(g)
    BY DEF Looping, Sampling, Working
  <2>2. lifecycle \in {"trace", "manual"}
    BY Types DEF IInv, TypeFlags
  <2> QED
    BY <2>1, <2>2 DEF IInv, TraceInv, ManualInv
<1>2. CASE Looping = {}
  BY <1>2, FS_EmptySet
<1>3. ASSUME NEW g \in Looping PROVE Cardinality(Looping) <= 1
  <2>1. Looping = {g}
    BY <1>1
  <2> QED
    BY <2>1, FS_Singleton
<1> QED
  BY <1>2, <1>3

(* For any threads, profilers, profiles and forks: one profiler at most    *)
(* samples, unless a manual start has come between a stop and the end of   *)
(* the profiler it stops, and no profile that is wanted is without one     *)
(* (continuous_profiler.py:224-238, 303-310, 385-420, 452-497).            *)
THEOREM ProfilesAreSampled == Spec => []OneSamples
<1>1. IInv => OneSamples
  BY One DEF IInv, OneSamples
<1> QED
  BY <1>1, Invariance, PTL

(* When no profiler is left, every sample has been sent, but for those in  *)
(* a buffer that was replaced under a profiler that had not ended, or if   *)
(* an exception ended one (continuous_profiler.py:385-420, 468-475).       *)
THEOREM SamplesAreSent == Spec => []SamplesSent
<1>1. IInv => SamplesSent
  BY DEF IInv
<1> QED
  BY <1>1, Invariance, PTL
=============================================================================

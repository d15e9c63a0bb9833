----------------------------- MODULE BatcherProofs -----------------------------
(***************************************************************************)
(* Theorems about Batcher for any threads, items and thresholds.  IInv is  *)
(* the inductive invariant.                                                *)
(***************************************************************************)
EXTENDS Batcher, FiniteSetTheorems, SequenceTheorems, TLAPS

(* Threads add, flush and kill; flushers run the loop, which flushes.      *)
PlaceInv ==
  /\ \A t \in Threads : pc[t] \notin FlusherPoints
  /\ \A f \in Flushers : pc[f] \in FlusherPoints \cup FlushPoints \cup {"gone"}

(* Where a thread holds the lock.                                          *)
LockInv == \A t \in Actors : pc[t] \in LockPoints <=> lock = t

(* The flag is set wherever the batcher's own code runs, except in kill(), *)
(* which has stopped the batcher, and nowhere else.                        *)
FlagInv ==
  \A t \in Actors :
    /\ InBatcher(t) => active[t]
    /\ active[t] => InBatcher(t) \/ pc[t] = "dead"
    /\ pc[t] \in KillPoints => ~running

(* _flusher_pid vouches for a flusher, or for a thread that is about to    *)
(* create and start it; never for both.                                    *)
Creating == {t \in Actors : pc[t] \in {"create", "start"}}
FlusherInv ==
  /\ Creating # {} \/ Running # {} => flusherPid = pid
  /\ Creating # {} => Running = {}
  /\ \A f, g \in Running : f = g
  /\ \A t \in Actors : pc[t] = "start" =>
       IF flusher = None THEN ~running ELSE pc[flusher] = "new"
  /\ \A t \in Actors : pc[t] = "check" => flusherPid = pid
  /\ running /\ flusherPid = pid /\ flusher = None => Creating # {}

(* An item has one holder or has met one outcome.                          *)
HolderInv ==
  /\ \A t \in Actors : pc[t] \in AddPoints <=> item[t] # None
  /\ \A t \in Actors : pc[t] # "capture" => batch[t] = {}
  /\ \A x \in Items : \A h, k \in Holders[x] : h = k
FateInv ==
  /\ added \cap inherited = {}
  /\ \A x \in Items :
       /\ Holders[x] # {} => x \in added /\ outcomes[x] = <<>>
       /\ x \in added /\ Holders[x] = {} => Len(outcomes[x]) = 1
       /\ x \notin added \cup inherited => outcomes[x] = <<>>

IInv ==
  /\ TypeOK /\ PlaceInv /\ LockInv /\ FlagInv /\ FlusherInv
  /\ HolderInv /\ FateInv /\ RaisesOnlyIfKilled /\ FullBufferWakes

-----------------------------------------------------------------------------
(* Meet() adds an outcome to some items and leaves the others alone.       *)
LEMMA MeetAppends ==
  ASSUME TypeOK, NEW xs, NEW o \in Outcomes, Meet(xs, o)
  PROVE  /\ outcomes' \in [Items -> Seq(Outcomes)]
         /\ \A x \in Items : outcomes'[x] =
              IF x \in xs THEN Append(outcomes[x], o) ELSE outcomes[x]
<1>1. \A x \in Items : outcomes[x] \in Seq(Outcomes)
  BY DEF TypeOK
<1>2. \A x \in Items : Append(outcomes[x], o) \in Seq(Outcomes)
  BY <1>1, AppendProperties
<1> QED
  BY <1>1, <1>2 DEF Meet

(* The buffer is finite, and an append adds one item at most.              *)
LEMMA BufferSize ==
  ASSUME TypeOK
  PROVE  /\ Size \in Nat
         /\ buffer = {} <=> Size = 0
         /\ \A x \in Items : Cardinality(buffer \cup {x}) \in {Size, Size + 1}
<1>1. IsFiniteSet(buffer)
  BY FiniteItems, FS_Subset DEF TypeOK
<1> QED
  BY <1>1, FS_CardinalityType, FS_EmptySet, FS_AddElement DEF Size

(* What an adding thread has in hand.                                      *)
LEMMA ItemInHand ==
  ASSUME IInv, NEW t \in Actors, pc[t] \in AddPoints
  PROVE  /\ item[t] \in Items /\ item[t] \in added /\ outcomes[item[t]] = <<>>
         /\ Holders[item[t]] = {t}
<1>1. item[t] \in Items
  BY DEF IInv, HolderInv, TypeOK
<1>2. t \in Holders[item[t]]
  BY <1>1 DEF Holders
<1> QED
  BY <1>1, <1>2 DEF IInv, HolderInv, FateInv

-----------------------------------------------------------------------------
(* Steps that a part of the invariant does not notice.                     *)
LEMMA SameData ==
  ASSUME IInv, UNCHANGED <<data, item>>, running' => running,
         \A t \in Actors : pc'[t] \in AddPoints <=> pc[t] \in AddPoints,
         \A t \in Actors : pc[t] = "capture" => pc'[t] = "capture"
  PROVE  HolderInv' /\ FateInv' /\ RaisesOnlyIfKilled'
<1>0. Holders' = Holders
  BY DEF Holders, data
<1>1. HolderInv'
  BY <1>0 DEF IInv, HolderInv, data, Actors, AddPoints
<1>2. FateInv'
  BY <1>0 DEF IInv, FateInv, data
<1>3. RaisesOnlyIfKilled'
  BY DEF IInv, RaisesOnlyIfKilled, data
<1> QED
  BY <1>1, <1>2, <1>3

LEMMA SameFlusher ==
  ASSUME IInv, UNCHANGED threadState,
         \A t \in Actors :
           /\ pc[t] \in {"create", "start", "new", "gone", "dead"} => pc'[t] = pc[t]
           /\ pc'[t] \in {"create", "start"} => pc'[t] = pc[t]
           /\ pc'[t] = "check" => pc[t] = "check" \/ flusherPid = pid
  PROVE  FlusherInv'
<1>1. Creating' = Creating
  BY DEF Creating
<1>2. Running' \subseteq Running
  BY DEF Running, Actors
<1>3. \A t \in Actors : (pc[t] = "start" => IF flusher = None THEN ~running ELSE pc[flusher] = "new")'
  BY DEF IInv, FlusherInv, TypeOK, Actors, threadState
<1> QED
  BY <1>1, <1>2, <1>3 DEF IInv, FlusherInv, threadState

LEMMA SameWakes ==
  ASSUME IInv, UNCHANGED buffer, running' => running, flushEvent => flushEvent',
         \A t \in Actors : pc[t] \in {"clear", "flush", "serialize"}
                           => pc'[t] \in {"clear", "flush", "serialize"}
  PROVE  FullBufferWakes'
BY DEF IInv, FullBufferWakes

(* The end of an add() that leaves no trace of its item in the batcher.    *)
LEMMA Returned ==
  ASSUME IInv, NEW t \in Threads, NEW o \in Outcomes, pc[t] \in AddPoints,
         AddReturn(t, o), UNCHANGED <<buffer, batch, added, inherited>>,
         running' => running /\ o # "raised"
  PROVE  HolderInv' /\ FateInv' /\ RaisesOnlyIfKilled'
<1>0. t \in Actors /\ pc \in [Actors -> {"idle", "gone"} \cup AddPoints \cup FlushPoints
                          \cup KillPoints \cup FlusherPoints]
      /\ item \in [Actors -> Items \cup {None}]
  BY DEF Actors, IInv, TypeOK
<1>1. /\ outcomes' \in [Items -> Seq(Outcomes)]
      /\ \A x \in Items : outcomes'[x] =
           IF x = item[t] THEN Append(outcomes[x], o) ELSE outcomes[x]
  BY MeetAppends DEF IInv, AddReturn
<1>2. /\ item[t] \in Items /\ item[t] \in added /\ outcomes[item[t]] = <<>>
      /\ Holders[item[t]] = {t}
  BY <1>0, ItemInHand
<1>3. \A x \in Items \ {item[t]} : Holders'[x] = Holders[x]
  <2>1. \A x \in Items \ {item[t]}, u \in Actors : item'[u] = x <=> item[u] = x
    BY <1>0, Distinct DEF AddReturn
  <2> QED
    BY <2>1 DEF Holders
<1>8. Holders'[item[t]] = {}
  <2>0. batch[t] = {}
    BY <1>0 DEF IInv, HolderInv, AddPoints
  <2>1. \A u \in Actors : item'[u] # item[t] /\ item[t] \notin batch[u]
    BY <1>0, <1>2, <2>0, Distinct DEF Holders, AddReturn
  <2>2. item[t] \notin buffer
    BY <1>2, Distinct DEF Holders
  <2> QED
    BY <1>2, <2>1, <2>2 DEF Holders
<1>4. HolderInv'
  <2>1. \A u \in Actors : (pc[u] \in AddPoints <=> item[u] # None)'
    BY <1>0 DEF IInv, HolderInv, AddReturn, Goto, AddPoints
  <2>2. \A u \in Actors : (pc[u] # "capture" => batch[u] = {})'
    BY <1>0 DEF IInv, HolderInv, AddReturn, Goto, AddPoints
  <2> QED
    BY <1>3, <1>8, <2>1, <2>2 DEF IInv, HolderInv
<1>5. outcomes'[item[t]] = <<o>> /\ Len(outcomes'[item[t]]) = 1
  <2>1. outcomes'[item[t]] = Append(<<>>, o)
    BY <1>1, <1>2
  <2> QED
    BY <2>1
<1>6. FateInv'
  BY <1>1, <1>2, <1>3, <1>8, <1>5 DEF IInv, FateInv
<1>7. RaisesOnlyIfKilled'
  BY SMTT(30), <1>1, <1>2, <1>5 DEF IInv, RaisesOnlyIfKilled, TypeOK
<1> QED
  BY <1>4, <1>6, <1>7

-----------------------------------------------------------------------------
LEMMA InitIInv == Init => IInv
<1> SUFFICES ASSUME Init PROVE IInv
  OBVIOUS
<1> USE DEF AddPoints, FlushPoints, KillPoints, FlusherPoints, LockPoints, InBatcher
<1>1. TypeOK
  <2>1. Cardinality(buffer) = 0
    BY FS_EmptySet DEF Init
  <2>2. outcomes \in [Items -> Seq(Outcomes)]
    BY EmptySeq DEF Init
  <2>3. pid \in 0..MaxForks /\ 0 <= MaxBeforeDrop
    BY Thresholds, Flags DEF Init
  <2> QED
    BY <2>1, <2>2, <2>3 DEF Init, TypeOK, Actors
<1>2. PlaceInv /\ LockInv /\ FlagInv
  BY Distinct DEF Init, PlaceInv, LockInv, FlagInv, Actors
<1>3. Creating = {} /\ Running = {}
  BY Distinct DEF Init, Creating, Running, Actors
<1>8. FlusherInv
  BY <1>3, Distinct DEF Init, FlusherInv, Actors
<1>4. \A x \in Items : Holders[x] = {}
  BY Distinct DEF Init, Holders
<1>5. HolderInv /\ FateInv
  BY <1>4, Distinct DEF Init, HolderInv, FateInv, Actors
<1>6. RaisesOnlyIfKilled /\ FullBufferWakes
  BY FS_EmptySet, Thresholds DEF Init, RaisesOnlyIfKilled, FullBufferWakes
<1> QED
  BY <1>1, <1>2, <1>8, <1>5, <1>6 DEF IInv

-----------------------------------------------------------------------------
(* One step per action.                                                    *)
LEMMA ReturnTypes ==
  ASSUME TypeOK, NEW t \in Threads, NEW o \in Outcomes, AddReturn(t, o)
  PROVE  /\ outcomes' \in [Items -> Seq(Outcomes)]
         /\ pc' = [pc EXCEPT ![t] = "idle"]
         /\ active' \in [Actors -> BOOLEAN]
         /\ item' \in [Actors -> Items \cup {None}]
<1>1. outcomes' \in [Items -> Seq(Outcomes)]
  BY MeetAppends DEF AddReturn
<1> QED
  BY <1>1 DEF AddReturn, Goto, TypeOK

LEMMA StepIInv == IInv /\ [Next]_vars => IInv'
<1> SUFFICES ASSUME IInv, [Next]_vars PROVE IInv'
  OBVIOUS
<1> USE DEF AddPoints, FlushPoints, KillPoints, FlusherPoints, LockPoints, InBatcher
<1>0. /\ TypeOK /\ Threads \subseteq Actors /\ Flushers \subseteq Actors
      /\ pc \in [Actors -> {"idle", "gone"} \cup AddPoints \cup FlushPoints
                              \cup KillPoints \cup FlusherPoints]
  BY DEF IInv, TypeOK, Actors
<1>1. ASSUME NEW t \in Actors, NEW x \in Items, Add(t, x)
      PROVE  IInv'
  <2>1. /\ Holders[x] = {} /\ outcomes[x] = <<>> /\ x \notin added \cup inherited
        /\ added' = added \cup {x}
        /\ UNCHANGED <<buffer, lock, flushEvent, threadState, batch, inherited>>
    BY <1>1 DEF IInv, FateInv, Add, AddUnless
  <2>2. CASE UNCHANGED <<pc, active, item>> /\ Meet({x}, "ignored")
    <3>1. /\ outcomes' \in [Items -> Seq(Outcomes)]
          /\ \A y \in Items : outcomes'[y] =
               IF y = x THEN Append(outcomes[y], "ignored") ELSE outcomes[y]
      BY <1>0, <2>2, MeetAppends DEF Outcomes
    <3>2. outcomes'[x] = <<"ignored">> /\ Len(outcomes'[x]) = 1
      <4>1. outcomes'[x] = Append(<<>>, "ignored")
        BY <2>1, <3>1
      <4> QED
        BY <4>1
    <3>3. TypeOK'
      BY <1>0, <2>1, <2>2, <3>1 DEF TypeOK, threadState
    <3>4. PlaceInv' /\ LockInv' /\ FlagInv' /\ FlusherInv' /\ FullBufferWakes'
      BY <2>1, <2>2, SameFlusher, SameWakes
      DEF IInv, PlaceInv, LockInv, FlagInv, threadState
    <3>5. Holders' = Holders
      BY <2>1, <2>2 DEF Holders
    <3>6. HolderInv' /\ FateInv'
      BY <2>1, <2>2, <3>1, <3>2, <3>5 DEF IInv, HolderInv, FateInv
    <3>7. RaisesOnlyIfKilled'
      BY <2>1, <3>1, <3>2 DEF IInv, TypeOK, RaisesOnlyIfKilled, threadState
    <3> QED
      BY <3>3, <3>4, <3>6, <3>7 DEF IInv
  <2>3. CASE /\ pc[t] = "idle" /\ pc' = [pc EXCEPT ![t] = "ensure"]
             /\ active' = [active EXCEPT ![t] = TRUE]
             /\ item' = [item EXCEPT ![t] = x] /\ UNCHANGED outcomes
    <3>0. t \in Threads
      BY <2>3 DEF IInv, PlaceInv, Actors
    <3>1. TypeOK'
      BY <1>0, <2>1, <2>3 DEF TypeOK, threadState
    <3>2. PlaceInv' /\ LockInv' /\ FlagInv'
      BY <1>0, <2>1, <2>3, <3>0, Distinct
      DEF IInv, TypeOK, PlaceInv, LockInv, FlagInv, Actors, threadState
    <3>3. FlusherInv'
      BY <1>0, <2>1, <2>3, Distinct, SameFlusher DEF PlaceInv
    <3>4. HolderInv' /\ FateInv' /\ RaisesOnlyIfKilled'
      <4>1. item[t] = None
        BY <1>0, <2>3 DEF IInv, HolderInv
      <4>2. \A y \in Items \ {x} : Holders'[y] = Holders[y]
        BY <1>0, <2>1, <2>3, <4>1, Distinct DEF Holders, TypeOK
      <4>3. Holders'[x] = {t}
        BY <1>0, <2>1, <2>3, <4>1 DEF Holders, TypeOK
      <4>4. \A u \in Actors : (pc[u] \in AddPoints <=> item[u] # None)'
        BY <1>0, <2>3, Distinct DEF IInv, HolderInv, TypeOK
      <4>5. \A u \in Actors : (pc[u] # "capture" => batch[u] = {})'
        BY <1>0, <2>1, <2>3 DEF IInv, HolderInv
      <4> QED
        BY <2>1, <2>3, <4>1, <4>2, <4>3, <4>4, <4>5
        DEF IInv, HolderInv, FateInv, RaisesOnlyIfKilled, threadState
    <3>5. FullBufferWakes'
      BY <1>0, <2>1, <2>3, SameWakes DEF threadState
    <3> QED
      BY <3>1, <3>2, <3>3, <3>4, <3>5 DEF IInv
  <2> QED
    BY <1>1, <2>2, <2>3 DEF Add, AddUnless, Goto
<1>2. ASSUME NEW t \in Threads, EnsureThread(t)
      PROVE  IInv'
  <2>1. CASE ~running
    <3>1. AddReturn(t, "ignored") /\ "ignored" \in Outcomes
      BY <2>1, <1>2 DEF EnsureThread, Outcomes
    <3>2. HolderInv' /\ FateInv' /\ RaisesOnlyIfKilled'
      BY <3>1, <1>2, Returned DEF EnsureThread, Goto, threadState
    <3>3. TypeOK'
      BY <1>0, <3>1, <1>2, ReturnTypes DEF TypeOK, EnsureThread, Goto, threadState
    <3>4. PlaceInv' /\ LockInv' /\ FlagInv'
      BY <1>0, <3>1, <1>2, Distinct
      DEF IInv, TypeOK, PlaceInv, LockInv, FlagInv, Actors, AddReturn,
          EnsureThread, Goto, threadState
    <3>5. FlusherInv' /\ FullBufferWakes'
      BY <1>0, <3>1, <1>2, SameFlusher, SameWakes
      DEF AddReturn, EnsureThread, Goto, threadState
    <3> QED
      BY <3>2, <3>3, <3>4, <3>5 DEF IInv
  <2>2. CASE running
    <3>1. TypeOK'
      BY <1>0, <2>2, <1>2 DEF TypeOK, EnsureThread, Goto, threadState
    <3>2. PlaceInv' /\ LockInv' /\ FlagInv'
      BY <1>0, <2>2, <1>2, Distinct
      DEF IInv, TypeOK, PlaceInv, LockInv, FlagInv, Actors, EnsureThread, Goto,
          threadState
    <3>3. FlusherInv' /\ FullBufferWakes'
      BY <1>0, <2>2, <1>2, SameFlusher, SameWakes
      DEF EnsureThread, Goto, threadState
    <3>4. HolderInv' /\ FateInv' /\ RaisesOnlyIfKilled'
      BY <1>0, <2>2, <1>2, SameData DEF data, EnsureThread, Goto, threadState
    <3> QED
      BY <3>1, <3>2, <3>3, <3>4 DEF IInv
  <2> QED
    BY <2>1, <2>2
<1>3. ASSUME NEW t \in Threads, CheckFlusher(t)
      PROVE  IInv'
  <2>1. CASE flusher = None
    <3>1. AddReturn(t, "ignored") /\ "ignored" \in Outcomes
      BY <2>1, <1>3 DEF CheckFlusher, Outcomes
    <3>2. HolderInv' /\ FateInv' /\ RaisesOnlyIfKilled'
      BY <3>1, <1>3, Returned DEF CheckFlusher, Goto, threadState
    <3>3. TypeOK'
      BY <1>0, <3>1, <1>3, ReturnTypes DEF TypeOK, CheckFlusher, Goto, threadState
    <3>4. PlaceInv' /\ LockInv' /\ FlagInv'
      BY <1>0, <3>1, <1>3, Distinct
      DEF IInv, TypeOK, PlaceInv, LockInv, FlagInv, Actors, AddReturn,
          CheckFlusher, Goto, threadState
    <3>5. FlusherInv' /\ FullBufferWakes'
      BY <1>0, <3>1, <1>3, SameFlusher, SameWakes
      DEF AddReturn, CheckFlusher, Goto, threadState
    <3> QED
      BY <3>2, <3>3, <3>4, <3>5 DEF IInv
  <2>2. CASE flusher # None
    <3>1. TypeOK'
      BY <1>0, <2>2, <1>3 DEF TypeOK, CheckFlusher, Goto, threadState
    <3>2. PlaceInv' /\ LockInv' /\ FlagInv'
      <4>1. PlaceInv' /\ LockInv'
        BY <1>0, <2>2, <1>3, Distinct
        DEF IInv, TypeOK, PlaceInv, LockInv, Actors, CheckFlusher, Goto, threadState
      <4>2. FlagInv'
        BY <1>0, <2>2, <1>3
        DEF IInv, TypeOK, FlagInv, CheckFlusher, Goto, threadState
      <4> QED
        BY <4>1, <4>2
    <3>3. FlusherInv' /\ FullBufferWakes'
      BY <1>0, <2>2, <1>3, SameFlusher, SameWakes
      DEF CheckFlusher, Goto, threadState
    <3>4. HolderInv' /\ FateInv' /\ RaisesOnlyIfKilled'
      BY <1>0, <2>2, <1>3, SameData DEF data, CheckFlusher, Goto, threadState
    <3> QED
      BY <3>1, <3>2, <3>3, <3>4 DEF IInv
  <2> QED
    BY <2>1, <2>2
<1>4. ASSUME NEW t \in Threads, Recheck(t)
      PROVE  IInv'
  <2>1. TypeOK'
    BY <1>0, <1>4 DEF TypeOK, data, Recheck, RecheckFor, Goto, threadState
  <2>2. PlaceInv' /\ LockInv' /\ FlagInv'
    BY <1>0, <1>4, Distinct
    DEF IInv, TypeOK, PlaceInv, LockInv, FlagInv, Actors, Recheck, RecheckFor,
        Goto, threadState
  <2>3. FlusherInv'
    <3>1. CASE flusherPid = pid
      BY <1>0, <3>1, <1>4, SameFlusher DEF Recheck, RecheckFor, Goto, threadState
    <3>2. CASE flusherPid # pid
      <4>1. Creating = {} /\ Running = {}
        BY <3>2 DEF IInv, FlusherInv
      <4>2. Creating' = {t} /\ Running' = {}
        BY <1>0, <3>2, <4>1, <1>4, Distinct
        DEF Creating, Running, Actors, Recheck, RecheckFor, Goto
      <4>3. \A u \in Actors : pc'[u] \notin {"start", "check"}
        BY <1>0, <3>2, <4>1, <1>4
        DEF IInv, FlusherInv, Creating, Recheck, RecheckFor, Goto
      <4> QED
        BY <3>2, <4>2, <4>3, <1>4 DEF FlusherInv, Recheck, RecheckFor
    <3> QED
      BY <3>1, <3>2
  <2>4. HolderInv' /\ FateInv' /\ RaisesOnlyIfKilled'
    BY <1>0, <1>4, SameData DEF PlaceInv, Recheck, RecheckFor, Goto, threadState
  <2>5. FullBufferWakes'
    BY <1>0, <1>4, SameWakes DEF data, Recheck, RecheckFor, Goto, threadState
  <2> QED
    BY <2>1, <2>2, <2>3, <2>4, <2>5 DEF IInv
<1>5. ASSUME NEW t \in Threads, CreateFlusher(t)
      PROVE  IInv'
  <2>1. TypeOK'
    BY <1>0, <1>5 DEF TypeOK, data, CreateFlusher, IsNext, Goto, threadState
  <2>2. PlaceInv' /\ LockInv' /\ FlagInv'
    BY <1>0, <1>5, Distinct
    DEF IInv, TypeOK, PlaceInv, LockInv, FlagInv, Actors, CreateFlusher, IsNext,
        Goto, threadState
  <2>3. FlusherInv'
    <3>1. PICK f \in Flushers : pc[f] = "new" /\ flusher' = f /\ f # t /\ f # None
      BY <1>5, Distinct DEF CreateFlusher, IsNext
    <3>2. /\ Creating = {t} /\ Creating' = {t}
          /\ \A u \in Actors : pc'[u] = "start" => u = t
      BY <1>0, <1>5 DEF IInv, LockInv, Creating, CreateFlusher, Goto
    <3>3. flusherPid = pid /\ Running = {} /\ Running' = {}
      BY <1>0, <3>2, <1>5, Distinct
      DEF IInv, FlusherInv, Running, Actors, CreateFlusher, Goto
    <3> QED
      BY <1>0, <3>1, <3>2, <3>3, <1>5 DEF FlusherInv, CreateFlusher, Goto
  <2>4. HolderInv' /\ FateInv' /\ RaisesOnlyIfKilled'
    BY <1>0, <1>5, SameData DEF PlaceInv, CreateFlusher, IsNext, Goto, threadState
  <2>5. FullBufferWakes'
    BY <1>0, <1>5, SameWakes DEF data, CreateFlusher, IsNext, Goto, threadState
  <2> QED
    BY <2>1, <2>2, <2>3, <2>4, <2>5 DEF IInv
<1>6. ASSUME NEW t \in Threads, StartFlusher(t)
      PROVE  IInv'
  <2>1. /\ Creating = {t} /\ flusherPid = pid /\ Running = {}
        /\ flusher # None => flusher \in Flushers /\ flusher # t /\ pc[flusher] = "new"
    BY <1>0, <1>6, Distinct
    DEF IInv, TypeOK, LockInv, FlusherInv, Creating, StartFlusher
  <2>2. CASE pc' = [pc EXCEPT ![t] = "check", ![flusher] = "begin"] /\ flusher # None
           /\ UNCHANGED <<running, active, item, outcomes>>
    <3>1. TypeOK'
      BY <1>0, <2>1, <2>2, <1>6 DEF TypeOK, StartFlusher
    <3>2. PlaceInv' /\ LockInv' /\ FlagInv'
      BY ZenonT(60), <1>0, <2>1, <2>2, <1>6, Distinct
      DEF IInv, TypeOK, PlaceInv, LockInv, FlagInv, Actors, StartFlusher
    <3>3. Creating' = {} /\ Running' = {flusher}
      BY <1>0, <2>1, <2>2, Distinct DEF Creating, Running, Actors
    <3>4. FlusherInv'
      BY <1>0, <2>1, <2>2, <3>3, <1>6 DEF FlusherInv, Creating, StartFlusher
    <3>5. HolderInv' /\ FateInv' /\ RaisesOnlyIfKilled'
      BY <1>0, <2>1, <2>2, <1>6, SameData DEF data, StartFlusher
    <3>6. FullBufferWakes'
      BY <1>0, <2>1, <2>2, <1>6, SameWakes DEF StartFlusher
    <3> QED
      BY <3>1, <3>2, <3>4, <3>5, <3>6 DEF IInv
  <2>3. CASE \E o \in {"ignored", "raised"} : AddReturn(t, o) /\ ~running'
    <3>1. PICK o \in {"ignored", "raised"} : AddReturn(t, o) /\ ~running' /\ o \in Outcomes
      BY <2>3 DEF Outcomes
    <3>2. HolderInv' /\ FateInv' /\ RaisesOnlyIfKilled'
      BY <3>1, <1>6, Returned DEF StartFlusher
    <3>3. TypeOK'
      BY <1>0, <3>1, <1>6, ReturnTypes DEF TypeOK, StartFlusher
    <3>4. PlaceInv' /\ LockInv' /\ FlagInv'
      BY <1>0, <3>1, <1>6, Distinct
      DEF IInv, TypeOK, PlaceInv, LockInv, FlagInv, Actors, AddReturn, Goto,
          StartFlusher
    <3>5. Creating' = {} /\ Running' = {}
      BY <1>0, <2>1, <3>1, Distinct DEF Creating, Running, Actors, AddReturn, Goto
    <3>6. FlusherInv'
      BY <1>0, <2>1, <3>1, <3>5, <1>6
      DEF FlusherInv, Creating, IInv, AddReturn, Goto, StartFlusher
    <3>7. FullBufferWakes'
      BY <1>0, <3>1, <1>6, SameWakes DEF StartFlusher, AddReturn, Goto
    <3> QED
      BY <3>2, <3>3, <3>4, <3>6, <3>7 DEF IInv
  <2>4. flusher = None => ~running
    BY <1>0, <1>6 DEF IInv, FlusherInv, StartFlusher
  <2> QED
    BY <2>2, <2>3, <2>4, <1>6 DEF StartFlusher
<1>7. ASSUME NEW t \in Threads, LockForAdd(t)
      PROVE  IInv'
  <2>1. TypeOK'
    BY <1>0, <1>7 DEF TypeOK, data, LockForAdd, Goto, threadState
  <2>2. PlaceInv' /\ LockInv' /\ FlagInv'
    BY <1>0, <1>7, Distinct
    DEF IInv, TypeOK, PlaceInv, LockInv, FlagInv, Actors, LockForAdd, Goto,
        threadState
  <2>3. FlusherInv'
    BY <1>0, <1>7, Distinct, SameFlusher DEF PlaceInv, LockForAdd, Goto, threadState
  <2>4. HolderInv' /\ FateInv' /\ RaisesOnlyIfKilled'
    BY <1>0, <1>7, SameData DEF PlaceInv, LockForAdd, Goto, threadState
  <2>5. FullBufferWakes'
    BY <1>0, <1>7, SameWakes DEF data, LockForAdd, Goto, threadState
  <2> QED
    BY <2>1, <2>2, <2>3, <2>4, <2>5 DEF IInv
<1>8. ASSUME NEW t \in Threads, AppendItem(t)
      PROVE  IInv'
  <2>1. Size \in Nat /\ MaxBeforeDrop \in Nat /\ MaxBeforeFlush \in Nat
    BY <1>0, BufferSize, Thresholds
  <2>2. item[t] \in Items /\ item[t] \in added /\ Holders[item[t]] = {t}
        /\ outcomes[item[t]] = <<>>
    BY <1>0, <1>8, ItemInHand DEF AppendItem, AppendWhen
  <2>3. PlaceInv' /\ LockInv' /\ FlagInv'
    <3>1. PlaceInv'
      BY <1>0, <1>8, Distinct
      DEF IInv, PlaceInv, Actors, AppendItem, AppendWhen, Goto, threadState
    <3>2. LockInv'
      BY SMTT(30), <1>0, <1>8, Distinct
      DEF IInv, TypeOK, LockInv, Actors, AppendItem, AppendWhen, Goto,
          threadState
    <3>3. FlagInv'
      BY <1>0, <1>8, Distinct
      DEF IInv, TypeOK, FlagInv, PlaceInv, Actors, AppendItem, AppendWhen, Goto,
          threadState
    <3> QED
      BY <3>1, <3>2, <3>3
  <2>4. FlusherInv'
    BY <1>0, <1>8, SameFlusher DEF AppendItem, AppendWhen, Goto, threadState
  <2>5. CASE Size < MaxBeforeDrop
    <3>1. /\ buffer' = buffer \cup {item[t]} /\ pc' = [pc EXCEPT ![t] = "idle"]
          /\ item' = [item EXCEPT ![t] = None]
          /\ flushEvent' = (flushEvent \/ Size + 1 >= MaxBeforeFlush)
          /\ UNCHANGED <<threadState, batch, added, inherited, outcomes>>
      BY <2>1, <2>5, <1>8 DEF AppendItem, AppendWhen, Goto
    <3>2. Cardinality(buffer') \in {Size, Size + 1}
      BY <1>0, <2>1, <2>2, <3>1, BufferSize
    <3>3. TypeOK'
      <4>1. Cardinality(buffer') <= MaxBeforeDrop
        BY <1>0, <2>1, <2>2, <2>5, <3>1, BufferSize
      <4> QED
        BY <1>0, <2>2, <3>1, <4>1, <1>8
        DEF TypeOK, AppendItem, AppendWhen, threadState
    <3>4. HolderInv' /\ FateInv'
      <4>1. \A x \in Items \ {item[t]} : Holders'[x] = Holders[x]
        BY <1>0, <3>1, Distinct DEF Holders, TypeOK
      <4>2. \A u \in Actors : item'[u] # item[t] /\ item[t] \notin batch[u]
        <5>1. \A u \in Actors : item[u] = item[t] \/ item[t] \in batch[u] => u = t
          BY <2>2 DEF Holders
        <5>2. batch[t] = {}
          BY <1>0, <1>8 DEF IInv, HolderInv, AppendItem, AppendWhen
        <5> QED
          BY <1>0, <2>2, <3>1, <5>1, <5>2, Distinct DEF TypeOK
      <4>3. Holders'[item[t]] = {None}
        BY <2>2, <3>1, <4>2 DEF Holders
      <4>4. HolderInv'
        <5>1. \A u \in Actors : (pc[u] \in AddPoints <=> item[u] # None)'
          BY <1>0, <3>1 DEF IInv, HolderInv, TypeOK
        <5>2. \A u \in Actors : (pc[u] # "capture" => batch[u] = {})'
          BY <1>0, <3>1, <1>8 DEF IInv, HolderInv, AppendItem, AppendWhen
        <5> QED
          BY <4>1, <4>3, <5>1, <5>2 DEF IInv, HolderInv
      <4>5. FateInv'
        BY <2>2, <3>1, <4>1, <4>3 DEF IInv, FateInv
      <4> QED
        BY <4>4, <4>5
    <3>5. RaisesOnlyIfKilled'
      BY <3>1 DEF IInv, RaisesOnlyIfKilled, threadState
    <3>6. FullBufferWakes'
      <4>1. Size + 1 >= MaxBeforeFlush => flushEvent'
        BY <1>0, <3>1 DEF TypeOK
      <4> QED
        BY <2>1, <3>2, <4>1 DEF FullBufferWakes
    <3> QED
      BY <2>3, <2>4, <3>3, <3>4, <3>5, <3>6 DEF IInv
  <2>6. CASE ~(Size < MaxBeforeDrop)
    <3>1. /\ pc' = [pc EXCEPT ![t] = "lost"]
          /\ UNCHANGED <<threadState, buffer, flushEvent, item, active, batch, added,
                         inherited, outcomes>>
      BY <2>6, <1>8 DEF AppendItem, AppendWhen, Goto
    <3>2. TypeOK'
      BY <1>0, <3>1, <1>8 DEF TypeOK, AppendItem, AppendWhen, threadState
    <3>3. HolderInv' /\ FateInv' /\ RaisesOnlyIfKilled'
      BY <1>0, <3>1, <1>8, SameData DEF data, threadState, AppendItem, AppendWhen
    <3>4. FullBufferWakes'
      BY <1>0, <3>1, <1>8, SameWakes DEF threadState, AppendItem, AppendWhen
    <3> QED
      BY <2>3, <2>4, <3>2, <3>3, <3>4 DEF IInv
  <2> QED
    BY <2>5, <2>6
<1>9. ASSUME NEW t \in Threads, RecordLost(t)
      PROVE  IInv'
  <2>1. PICK o \in {"lost", "unreported"} : AddReturn(t, o) /\ o \in Outcomes
    BY <1>9 DEF RecordLost, Outcomes
  <2>2. HolderInv' /\ FateInv' /\ RaisesOnlyIfKilled'
    BY <2>1, <1>9, Returned DEF RecordLost, threadState
  <2>3. TypeOK'
    BY <1>0, <2>1, <1>9, ReturnTypes DEF TypeOK, RecordLost, threadState
  <2>4. PlaceInv' /\ LockInv' /\ FlagInv'
    BY <1>0, <2>1, <1>9, Distinct
    DEF IInv, TypeOK, PlaceInv, LockInv, FlagInv, Actors, AddReturn, Goto,
        RecordLost, threadState
  <2>5. FlusherInv' /\ FullBufferWakes'
    BY <1>0, <2>1, <1>9, SameFlusher, SameWakes
    DEF AddReturn, Goto, RecordLost, threadState
  <2> QED
    BY <2>1, <2>2, <2>3, <2>4, <2>5 DEF IInv
<1>10. ASSUME NEW t \in Threads, Flush(t)
      PROVE  IInv'
  <2>1. TypeOK'
    BY <1>0, <1>10 DEF TypeOK, data, Flush, Goto, threadState
  <2>2. PlaceInv' /\ LockInv' /\ FlagInv'
    BY <1>0, <1>10, Distinct
    DEF IInv, TypeOK, PlaceInv, LockInv, FlagInv, Actors, Flush, Goto,
        threadState
  <2>3. FlusherInv'
    BY <1>0, <1>10, Distinct, SameFlusher DEF PlaceInv, Flush, Goto, threadState
  <2>4. HolderInv' /\ FateInv' /\ RaisesOnlyIfKilled'
    BY <1>0, <1>10, SameData DEF PlaceInv, Flush, Goto, threadState
  <2>5. FullBufferWakes'
    BY <1>0, <1>10, SameWakes DEF data, Flush, Goto, threadState
  <2> QED
    BY <2>1, <2>2, <2>3, <2>4, <2>5 DEF IInv
<1>11. ASSUME NEW t \in Actors, LockForFlush(t)
      PROVE  IInv'
  <2>1. TypeOK'
    BY <1>0, <1>11 DEF TypeOK, data, LockForFlush, FlushReturn, Goto, threadState
  <2>2. PlaceInv' /\ LockInv' /\ FlagInv'
    <3>1. PlaceInv'
      BY <1>0, <1>11, Distinct
      DEF IInv, PlaceInv, Actors, LockForFlush, FlushReturn, Goto, threadState
    <3>2. LockInv'
      BY <1>0, <1>11, Distinct
      DEF IInv, TypeOK, LockInv, Actors, LockForFlush, FlushReturn, Goto,
          threadState
    <3>3. FlagInv'
      BY <1>0, <1>11, Distinct
      DEF IInv, TypeOK, FlagInv, PlaceInv, Actors, LockForFlush, FlushReturn,
          Goto, threadState
    <3> QED
      BY <3>1, <3>2, <3>3
  <2>3. FlusherInv'
    BY <1>0, <1>11, Distinct, SameFlusher
    DEF PlaceInv, LockForFlush, FlushReturn, Goto, threadState
  <2>4. HolderInv' /\ FateInv' /\ RaisesOnlyIfKilled'
    BY <1>0, <1>11, SameData
    DEF PlaceInv, LockForFlush, FlushReturn, Goto, threadState
  <2>5. FullBufferWakes'
    <3>1. CASE buffer = {}
      BY <3>1, <1>11, FS_EmptySet, Thresholds
      DEF FullBufferWakes, LockForFlush, data
    <3>2. CASE buffer # {}
      BY <1>0, <3>2, <1>11, SameWakes DEF LockForFlush, Goto, threadState, data
    <3> QED
      BY <3>1, <3>2
  <2> QED
    BY <2>1, <2>2, <2>3, <2>4, <2>5 DEF IInv
<1>12. ASSUME NEW t \in Actors, Serialize(t)
      PROVE  IInv'
  <2>1. TypeOK'
    <3>1. Cardinality(buffer') <= MaxBeforeDrop
      <4>1. Cardinality({}) <= MaxBeforeDrop
        BY FS_EmptySet, Thresholds
      <4>2. buffer' = {} \/ buffer' = buffer
        BY <1>12 DEF Serialize, SerializeAndKeep
      <4> QED
        BY <1>0, <4>1, <4>2 DEF TypeOK
    <3> QED
      BY <1>0, <3>1, <1>12
      DEF TypeOK, threadState, Serialize, SerializeAndKeep, FlushReturn, Goto
  <2>2. PlaceInv' /\ LockInv' /\ FlagInv'
    <3>1. PlaceInv'
      BY <1>0, <1>12, Distinct
      DEF IInv, PlaceInv, Actors, Serialize, SerializeAndKeep, FlushReturn,
          Goto, threadState
    <3>2. LockInv'
      <4>1. lock' = None /\ \A u \in Actors : pc'[u] \notin LockPoints
        BY <1>0, <1>12
        DEF IInv, LockInv, Serialize, SerializeAndKeep, FlushReturn, Goto
      <4> QED
        BY <4>1, Distinct DEF LockInv, Actors
    <3>3. FlagInv'
      BY <1>0, <1>12, Distinct
      DEF IInv, TypeOK, FlagInv, PlaceInv, Actors, Serialize, SerializeAndKeep,
          FlushReturn, Goto, threadState
    <3> QED
      BY <3>1, <3>2, <3>3
  <2>3. FlusherInv'
    BY <1>0, <1>12, Distinct, SameFlusher
    DEF threadState, Serialize, SerializeAndKeep, FlushReturn, Goto
  <2>4. CASE buffer \cap Poison = {}
    <3>1. /\ buffer' = {} /\ batch' = [batch EXCEPT ![t] = buffer]
          /\ pc' = [pc EXCEPT ![t] = "capture"] /\ pc[t] = "serialize" /\ batch[t] = {}
          /\ UNCHANGED <<item, threadState, added, inherited, outcomes>>
      BY <1>0, <2>4, <1>12 DEF IInv, HolderInv, Serialize, SerializeAndKeep, Goto
    <3>2. \A x \in Items \ buffer : Holders'[x] = Holders[x]
      BY <1>0, <3>1 DEF Holders, TypeOK
    <3>3. \A x \in buffer : Holders[x] = {None} /\ Holders'[x] = {t}
      <4>1. \A x \in buffer : x \in Items /\ None \in Holders[x]
        BY <1>0 DEF Holders, TypeOK
      <4>2. \A x \in buffer : Holders[x] = {None}
        BY <4>1 DEF IInv, HolderInv
      <4>3. \A x \in buffer, u \in Actors : item[u] # x /\ x \notin batch[u]
        BY ZenonT(60), <4>1, <4>2, Distinct DEF Holders, Actors
      <4> QED
        BY <1>0, <3>1, <4>1, <4>2, <4>3 DEF Holders, TypeOK
    <3>4. HolderInv'
      <4>1. \A u \in Actors : (pc[u] \in AddPoints <=> item[u] # None)'
        <5>1. "serialize" \notin AddPoints /\ "capture" \notin AddPoints
          BY DEF AddPoints
        <5> QED
          BY <1>0, <3>1, <5>1 DEF IInv, HolderInv, AddPoints
      <4>2. \A u \in Actors : (pc[u] # "capture" => batch[u] = {})'
        BY <1>0, <3>1 DEF IInv, HolderInv, TypeOK
      <4>3. \A x \in Items : \A h, k \in Holders'[x] : h = k
        BY <3>2, <3>3 DEF IInv, HolderInv
      <4> QED
        BY <4>1, <4>2, <4>3 DEF HolderInv
    <3>5. FateInv'
      BY <1>0, <3>1, <3>2, <3>3 DEF IInv, FateInv
    <3>7. RaisesOnlyIfKilled'
      BY <3>1 DEF IInv, RaisesOnlyIfKilled, threadState
    <3>6. FullBufferWakes'
      BY <3>1, FS_EmptySet, Thresholds DEF FullBufferWakes
    <3> QED
      BY <2>1, <2>2, <2>3, <3>4, <3>5, <3>7, <3>6 DEF IInv
  <2>5. CASE buffer \cap Poison # {}
    <3>1. HolderInv' /\ FateInv' /\ RaisesOnlyIfKilled'
      BY <1>0, <2>5, <1>12, SameData
      DEF data, threadState, Serialize, SerializeAndKeep, FlushReturn, Goto
    <3>2. FullBufferWakes'
      BY <2>5, <1>12 DEF FullBufferWakes, Serialize, SerializeAndKeep
    <3> QED
      BY <2>1, <2>2, <2>3, <3>1, <3>2 DEF IInv
  <2> QED
    BY <2>4, <2>5
<1>13. ASSUME NEW t \in Actors, Capture(t)
      PROVE  IInv'
  <2>1. PICK o \in {"captured", "failed"} : Meet(batch[t], o) /\ o \in Outcomes
    BY <1>13 DEF Capture, Outcomes
  <2>2. /\ outcomes' \in [Items -> Seq(Outcomes)]
        /\ \A x \in Items : outcomes'[x] =
             IF x \in batch[t] THEN Append(outcomes[x], o) ELSE outcomes[x]
    BY <1>0, <2>1, MeetAppends
  <2>3. TypeOK'
    BY <1>0, <2>2, <1>13 DEF TypeOK, Capture, FlushReturn, Goto, threadState
  <2>4. PlaceInv' /\ LockInv' /\ FlagInv'
    <3>1. PlaceInv'
      BY <1>0, <1>13, Distinct
      DEF IInv, PlaceInv, Actors, Capture, FlushReturn, Goto, threadState
    <3>2. LockInv'
      BY <1>0, <1>13, Distinct
      DEF IInv, TypeOK, LockInv, Actors, Capture, FlushReturn, Goto, threadState
    <3>3. FlagInv'
      BY SMTT(30), <1>0, <1>13, Distinct
      DEF IInv, TypeOK, FlagInv, PlaceInv, Actors, Capture, FlushReturn, Goto,
          threadState
    <3> QED
      BY <3>1, <3>2, <3>3
  <2>5. FlusherInv'
    BY <1>0, <1>13, Distinct, SameFlusher
    DEF Capture, FlushReturn, Goto, threadState
  <2>6. \A x \in batch[t] : x \in Items /\ Holders[x] = {t} /\ Holders'[x] = {}
    <3>1. \A x \in batch[t] : x \in Items /\ t \in Holders[x]
      BY <1>0 DEF TypeOK, Holders
    <3>2. \A x \in batch[t] : Holders[x] = {t}
      BY <3>1 DEF IInv, HolderInv
    <3>3. item[t] = None
      BY <1>0, <1>13 DEF IInv, HolderInv, Capture
    <3>4. \A x \in batch[t], u \in Actors \ {t} : item[u] # x /\ x \notin batch[u]
      <4> SUFFICES ASSUME NEW x \in batch[t], NEW u \in Actors \ {t}
                   PROVE  item[u] # x /\ x \notin batch[u]
        OBVIOUS
      <4>1. x \in Items /\ u \notin Holders[x]
        BY <3>1, <3>2
      <4> QED
        BY <4>1 DEF Holders
    <3>5. \A x \in batch[t] : x \notin buffer /\ x # None
      <4> SUFFICES ASSUME NEW x \in batch[t]
                   PROVE  x \notin buffer /\ x # None
        OBVIOUS
      <4>1. x \in Items /\ None \notin Holders[x] /\ x # None
        BY <3>1, <3>2, Distinct DEF Actors
      <4> QED
        BY <4>1 DEF Holders
    <3> QED
      BY <1>0, <3>1, <3>3, <3>4, <3>5, <1>13 DEF Holders, Capture, TypeOK
  <2>7. \A x \in Items \ batch[t] : Holders'[x] = Holders[x]
    BY <1>0, <1>13 DEF Holders, Capture, TypeOK
  <2>8. HolderInv'
    <3>1. \A u \in Actors : (pc[u] \in AddPoints <=> item[u] # None)'
      BY <1>0, <1>13 DEF IInv, HolderInv, Capture, FlushReturn, Goto
    <3>2. \A u \in Actors : (pc[u] # "capture" => batch[u] = {})'
      BY <1>0, <1>13 DEF IInv, HolderInv, Capture, FlushReturn, Goto, TypeOK
    <3> QED
      BY <2>6, <2>7, <3>1, <3>2 DEF IInv, HolderInv
  <2>9. FateInv' /\ RaisesOnlyIfKilled'
    <3>1. \A x \in batch[t] : x \in added /\ outcomes'[x] = <<o>> /\ Len(outcomes'[x]) = 1
      <4>1. \A x \in batch[t] : x \in added /\ outcomes'[x] = Append(<<>>, o)
        BY <2>2, <2>6 DEF IInv, FateInv
      <4> QED
        BY <4>1
    <3>2. \A x \in batch[t] : \A i \in DOMAIN outcomes'[x] : outcomes'[x][i] # "raised"
      BY <2>1, <3>1
    <3>3. FateInv'
      BY <2>2, <2>6, <2>7, <3>1, <1>13 DEF IInv, FateInv, Capture
    <3>4. RaisesOnlyIfKilled'
      <4>1. added' = added /\ running' = running /\ added \subseteq Items
        BY <1>0, <1>13 DEF IInv, TypeOK, Capture, threadState
      <4> SUFFICES ASSUME NEW x \in added, NEW i \in DOMAIN outcomes'[x],
                          outcomes'[x][i] = "raised"
                   PROVE  ~running
        BY <4>1 DEF RaisesOnlyIfKilled
      <4>2. outcomes'[x] = outcomes[x]
        BY <2>2, <3>2, <4>1
      <4> QED
        BY <4>2 DEF IInv, RaisesOnlyIfKilled
    <3> QED
      BY <3>3, <3>4
  <2>10. FullBufferWakes'
    BY <1>0, <1>13, SameWakes DEF Capture, FlushReturn, Goto, threadState
  <2> QED
    BY <2>3, <2>4, <2>5, <2>8, <2>9, <2>10 DEF IInv
<1>14. ASSUME NEW f \in Flushers, FlusherBegin(f)
      PROVE  IInv'
  <2>1. TypeOK'
    BY <1>0, <1>14 DEF TypeOK, data, FlusherBegin, FlusherMark, Goto, threadState
  <2>2. PlaceInv' /\ LockInv' /\ FlagInv'
    BY <1>0, <1>14, Distinct
    DEF IInv, TypeOK, PlaceInv, LockInv, FlagInv, Actors, FlusherBegin,
        FlusherMark, Goto, threadState
  <2>3. FlusherInv'
    BY <1>0, <1>14, Distinct, SameFlusher
    DEF PlaceInv, FlusherBegin, FlusherMark, Goto, threadState
  <2>4. HolderInv' /\ FateInv' /\ RaisesOnlyIfKilled'
    BY <1>0, <1>14, SameData
    DEF PlaceInv, FlusherBegin, FlusherMark, Goto, threadState
  <2>5. FullBufferWakes'
    BY <1>0, <1>14, SameWakes DEF data, FlusherBegin, FlusherMark, Goto, threadState
  <2> QED
    BY <2>1, <2>2, <2>3, <2>4, <2>5 DEF IInv
<1>15. ASSUME NEW f \in Flushers, FlusherLoop(f)
      PROVE  IInv'
  <2>1. TypeOK'
    BY <1>0, <1>15 DEF TypeOK, data, FlusherLoop, Goto, threadState
  <2>2. PlaceInv' /\ LockInv' /\ FlagInv'
    BY <1>0, <1>15, Distinct
    DEF IInv, TypeOK, PlaceInv, LockInv, FlagInv, Actors, FlusherLoop, Goto,
        threadState
  <2>3. FlusherInv'
    BY <1>0, <1>15, Distinct, SameFlusher
    DEF PlaceInv, FlusherLoop, Goto, threadState
  <2>4. HolderInv' /\ FateInv' /\ RaisesOnlyIfKilled'
    BY <1>0, <1>15, SameData DEF PlaceInv, FlusherLoop, Goto, threadState
  <2>5. FullBufferWakes'
    BY <1>0, <1>15, SameWakes DEF data, FlusherLoop, Goto, threadState
  <2> QED
    BY <2>1, <2>2, <2>3, <2>4, <2>5 DEF IInv
<1>16. ASSUME NEW f \in Flushers, FlusherWake(f)
      PROVE  IInv'
  <2>1. TypeOK'
    BY <1>0, <1>16 DEF TypeOK, data, FlusherWake, FlusherWait, Goto, threadState
  <2>2. PlaceInv' /\ LockInv' /\ FlagInv'
    BY <1>0, <1>16, Distinct
    DEF IInv, TypeOK, PlaceInv, LockInv, FlagInv, Actors, FlusherWake,
        FlusherWait, Goto, threadState
  <2>3. FlusherInv'
    BY <1>0, <1>16, Distinct, SameFlusher
    DEF PlaceInv, FlusherWake, FlusherWait, Goto, threadState
  <2>4. HolderInv' /\ FateInv' /\ RaisesOnlyIfKilled'
    BY <1>0, <1>16, SameData
    DEF PlaceInv, FlusherWake, FlusherWait, Goto, threadState
  <2>5. FullBufferWakes'
    BY <1>0, <1>16, SameWakes DEF data, FlusherWake, FlusherWait, Goto, threadState
  <2> QED
    BY <2>1, <2>2, <2>3, <2>4, <2>5 DEF IInv
<1>17. ASSUME NEW f \in Flushers, FlusherClear(f)
      PROVE  IInv'
  <2>1. TypeOK'
    BY <1>0, <1>17 DEF TypeOK, data, FlusherClear, Goto, threadState
  <2>2. PlaceInv' /\ LockInv' /\ FlagInv'
    BY <1>0, <1>17, Distinct
    DEF IInv, TypeOK, PlaceInv, LockInv, FlagInv, Actors, FlusherClear, Goto,
        threadState
  <2>3. FlusherInv'
    BY <1>0, <1>17, Distinct, SameFlusher
    DEF PlaceInv, FlusherClear, Goto, threadState
  <2>4. HolderInv' /\ FateInv' /\ RaisesOnlyIfKilled'
    BY <1>0, <1>17, SameData DEF PlaceInv, FlusherClear, Goto, threadState
  <2>5. FullBufferWakes'
    BY <1>0, <1>17 DEF FullBufferWakes, FlusherClear, Goto
  <2> QED
    BY <2>1, <2>2, <2>3, <2>4, <2>5 DEF IInv
<1>18. ASSUME NEW t \in Threads, Kill(t)
      PROVE  IInv'
  <2>1. TypeOK'
    BY <1>0, <1>18 DEF TypeOK, data, Kill, KillFrom, Goto
  <2>2. PlaceInv' /\ LockInv' /\ FlagInv'
    BY <1>0, <1>18, Distinct
    DEF IInv, TypeOK, PlaceInv, LockInv, FlagInv, Actors, Kill, KillFrom, Goto
  <2>3. FlusherInv'
    <3>1. Creating' = Creating /\ Running' = Running
      BY <1>0, <1>18, Distinct DEF Creating, Running, Actors, Kill, KillFrom, Goto
    <3> QED
      BY <1>0, <3>1, <1>18
      DEF IInv, FlusherInv, Kill, KillFrom, Goto, TypeOK, PlaceInv
  <2>4. HolderInv' /\ FateInv' /\ RaisesOnlyIfKilled'
    BY <1>0, <1>18, SameData DEF PlaceInv, Kill, KillFrom, Goto
  <2>5. FullBufferWakes'
    BY <1>18 DEF FullBufferWakes, Kill, KillFrom, Goto
  <2> QED
    BY <2>1, <2>2, <2>3, <2>4, <2>5 DEF IInv
<1>19. ASSUME NEW t \in Threads, KillEvent(t)
      PROVE  IInv'
  <2>1. TypeOK'
    BY <1>0, <1>19 DEF TypeOK, data, KillEvent, Goto, threadState
  <2>2. PlaceInv' /\ LockInv' /\ FlagInv'
    BY <1>0, <1>19, Distinct
    DEF IInv, TypeOK, PlaceInv, LockInv, FlagInv, Actors, KillEvent, Goto,
        threadState
  <2>3. FlusherInv'
    BY <1>0, <1>19, Distinct, SameFlusher DEF PlaceInv, KillEvent, Goto, threadState
  <2>4. HolderInv' /\ FateInv' /\ RaisesOnlyIfKilled'
    BY <1>0, <1>19, SameData DEF PlaceInv, KillEvent, Goto, threadState
  <2>5. FullBufferWakes'
    BY <1>0, <1>19, SameWakes DEF data, KillEvent, Goto, threadState
  <2> QED
    BY <2>1, <2>2, <2>3, <2>4, <2>5 DEF IInv
<1>20. ASSUME NEW t \in Threads, KillForget(t)
      PROVE  IInv'
  <2>1. TypeOK'
    BY <1>0, <1>20 DEF TypeOK, data, KillForget, Goto
  <2>2. PlaceInv' /\ LockInv' /\ FlagInv'
    BY <1>0, <1>20, Distinct
    DEF IInv, TypeOK, PlaceInv, LockInv, FlagInv, Actors, KillForget, Goto
  <2>3. FlusherInv'
    <3>1. Creating' = Creating /\ Running' = Running /\ ~running
      BY <1>0, <1>20, Distinct
      DEF IInv, FlagInv, Creating, Running, Actors, KillForget, Goto
    <3> QED
      BY <1>0, <3>1, <1>20 DEF IInv, FlusherInv, KillForget, Goto
  <2>4. HolderInv' /\ FateInv' /\ RaisesOnlyIfKilled'
    BY <1>0, <1>20, SameData DEF PlaceInv, KillForget, Goto
  <2>5. FullBufferWakes'
    BY <1>0, <1>20, SameWakes DEF data, KillForget, Goto
  <2> QED
    BY <2>1, <2>2, <2>3, <2>4, <2>5 DEF IInv
<1>21. ASSUME NEW t \in Threads, Fork(t)
      PROVE  IInv'
  <2>1. TypeOK'
    <3>1. buffer' = {} /\ Cardinality(buffer') <= MaxBeforeDrop
      BY <1>21, FS_EmptySet, Thresholds DEF Fork, ForkWith
    <3>2. pid' \in 0..MaxForks
      BY <1>0, <1>21, Flags DEF TypeOK, Fork, ForkWith
    <3> QED
      BY <1>0, <3>1, <3>2, <1>21 DEF TypeOK, Fork, ForkWith
  <2>2. \A u \in Actors : pc'[u] \in {"idle", "new", "gone"}
    BY <1>21 DEF Fork, ForkWith
  <2>3. PlaceInv' /\ LockInv' /\ FlagInv'
    BY <1>0, <2>2, <1>21, Distinct
    DEF IInv, PlaceInv, LockInv, FlagInv, Actors, Fork, ForkWith
  <2>4. FlusherInv'
    <3>1. Creating' = {} /\ Running' = {}
      BY <1>0, <2>2, <1>21, Distinct
      DEF Creating, Running, IInv, PlaceInv, Actors, Fork, ForkWith
    <3> QED
      BY <1>0, <2>2, <3>1, <1>21, Distinct, Flags
      DEF FlusherInv, TypeOK, Fork, ForkWith
  <2>5. HolderInv' /\ FateInv'
    <3>1. \A x \in Items : Holders'[x] = {}
      BY <1>21, Distinct DEF Holders, Fork, ForkWith
    <3>2. HolderInv'
      BY <1>0, <2>2, <3>1, <1>21 DEF HolderInv, Fork, ForkWith
    <3>3. FateInv'
      BY <3>1, <1>21 DEF IInv, FateInv, Fork, ForkWith
    <3> QED
      BY <3>2, <3>3
  <2>6. RaisesOnlyIfKilled' /\ FullBufferWakes'
    BY <1>21, FS_EmptySet, Thresholds
    DEF RaisesOnlyIfKilled, FullBufferWakes, Fork, ForkWith
  <2> QED
    BY <2>1, <2>3, <2>4, <2>5, <2>6 DEF IInv
<1>22. CASE UNCHANGED vars
  <2>1. UNCHANGED <<data, item, threadState>> /\ UNCHANGED <<pc, lock, active, flushEvent>>
    BY <1>22 DEF vars, data, threadState
  <2>2. TypeOK' /\ PlaceInv' /\ LockInv' /\ FlagInv'
    BY <1>0, <2>1 DEF IInv, TypeOK, PlaceInv, LockInv, FlagInv, data, threadState
  <2>3. FlusherInv' /\ FullBufferWakes'
    BY <2>1, SameFlusher, SameWakes DEF data, threadState
  <2>4. HolderInv' /\ FateInv' /\ RaisesOnlyIfKilled'
    BY <2>1, SameData DEF threadState
  <2> QED
    BY <2>2, <2>3, <2>4 DEF IInv
<1> QED
  BY <1>0, <1>1, <1>2, <1>3, <1>4, <1>5, <1>6, <1>7, <1>8, <1>9, <1>10, <1>11,
      <1>12, <1>13, <1>14, <1>15, <1>16, <1>17, <1>18, <1>19, <1>20, <1>21,
      <1>22
  DEF Next, AddStep, FlushStep, KillStep, LoopStep

-----------------------------------------------------------------------------
LEMMA InvariantHolds == Spec => []IInv
<1> QED
  BY InitIInv, StepIInv, PTL DEF Spec

(* Every variable of the batcher stays within its type, the buffer within  *)
(* MAX_BEFORE_DROP included (_batcher.py:126-131).                         *)
THEOREM TypeCorrect == Spec => []TypeOK
<1>1. IInv => TypeOK
  BY DEF IInv
<1> QED
  BY <1>1, InvariantHolds, PTL

(* A nested add() never waits for a lock of its own thread (_batcher.py:   *)
(* 96-100, 113-121).                                                       *)
THEOREM NeverSelfDeadlocks == Spec => []NoSelfDeadlock
<1>1. IInv => NoSelfDeadlock
  <2> SUFFICES ASSUME IInv, NEW t \in Actors, HoldsLock(t)
               PROVE  active[t] \/ ~running
    BY DEF NoSelfDeadlock
  <2>1. pc[t] \in LockPoints \cup {"kill_event", "wait", "clear"}
    BY DEF HoldsLock, IInv, LockInv
  <2> QED
    BY <2>1 DEF IInv, FlagInv, InBatcher, LockPoints, AddPoints, FlushPoints,
                  KillPoints
<1> QED
  BY <1>1, InvariantHolds, PTL

(* At most one flusher thread runs in a process, however many first add()  *)
(* calls race (_batcher.py:71-84).                                         *)
THEOREM HasOneFlusher == Spec => []OneFlusher
<1>1. IInv => OneFlusher
  <2>1. CASE Running = {}
    BY <2>1, FS_EmptySet DEF OneFlusher
  <2>2. ASSUME IInv, Running # {} PROVE OneFlusher
    <3>1. PICK f \in Running : Running = {f}
      BY <2>2 DEF IInv, FlusherInv
    <3> QED
      BY <3>1, FS_Singleton DEF OneFlusher
  <2> QED
    BY <2>1, <2>2
<1> QED
  BY <1>1, InvariantHolds, PTL

(* Every item given to add() has exactly one holder or one outcome         *)
(* (_batcher.py:126-136, 179-186).                                         *)
THEOREM ConservesItems == Spec => []Conservation
<1>1. IInv => Conservation
  <2> SUFFICES ASSUME IInv, NEW x \in added
               PROVE  Cardinality(Holders[x]) + Len(outcomes[x]) = 1
    BY DEF Conservation
  <2>0. x \in Items
    BY DEF IInv, TypeOK
  <2>1. CASE Holders[x] = {}
    <3>1. Cardinality(Holders[x]) = 0
      BY <2>1, FS_EmptySet
    <3>2. Len(outcomes[x]) = 1
      BY <2>0, <2>1 DEF IInv, FateInv
    <3> QED
      BY <3>1, <3>2
  <2>2. CASE Holders[x] # {}
    <3>1. PICK h : Holders[x] = {h}
      BY <2>0, <2>2 DEF IInv, HolderInv
    <3>2. Cardinality(Holders[x]) = 1
      BY <3>1, FS_Singleton
    <3>3. Len(outcomes[x]) = 0
      BY <2>0, <2>2 DEF IInv, FateInv
    <3> QED
      BY <3>2, <3>3
  <2> QED
    BY <2>1, <2>2
<1> QED
  BY <1>1, InvariantHolds, PTL

(* A buffer with enough items wakes the flusher, although clear() follows  *)
(* wait() (_batcher.py:102-110, 129-131).                                  *)
THEOREM WakesWhenFull == Spec => []FullBufferWakes
<1>1. IInv => FullBufferWakes
  BY DEF IInv
<1> QED
  BY <1>1, InvariantHolds, PTL

(* add() raises into the application only after a kill() (_batcher.py:     *)
(* 82-86, 140-146).                                                        *)
THEOREM RaisesAfterKill == Spec => []RaisesOnlyIfKilled
<1>1. IInv => RaisesOnlyIfKilled
  BY DEF IInv
<1> QED
  BY <1>1, InvariantHolds, PTL

-----------------------------------------------------------------------------
(* Only an item with a holder meets an outcome, and an inherited one has   *)
(* none.                                                                   *)
LEMMA InheritedKept ==
  ASSUME IInv, [Next]_vars
  PROVE  \A x \in inherited : outcomes'[x] = outcomes[x]
<1>1. ASSUME NEW t \in Threads, NEW o, AddReturn(t, o), pc[t] \in AddPoints
      PROVE  \A x \in inherited : outcomes'[x] = outcomes[x]
  <2>1. item[t] \in added
    BY <1>1, ItemInHand DEF Actors
  <2> QED
    BY <1>1, <2>1 DEF AddReturn, Meet, IInv, FateInv, TypeOK
<1>2. ASSUME NEW t \in Actors, Capture(t)
      PROVE  \A x \in inherited : outcomes'[x] = outcomes[x]
  <2>1. \A x \in batch[t] : x \in Items /\ t \in Holders[x]
    BY DEF IInv, TypeOK, Holders
  <2>2. batch[t] \cap inherited = {}
    BY <2>1 DEF IInv, FateInv
  <2> QED
    BY <1>2, <2>2 DEF Capture, Meet, IInv, TypeOK
<1>3. ASSUME NEW t \in Threads, AddStep(t)
      PROVE  \A x \in inherited : outcomes'[x] = outcomes[x]
  <2>1. CASE UNCHANGED outcomes
    BY <2>1
  <2>2. CASE \E o \in Outcomes : AddReturn(t, o) /\ pc[t] \in AddPoints
    BY <1>1, <2>2
  <2> QED
    BY <1>3, <2>1, <2>2
    DEF AddStep, EnsureThread, Recheck, RecheckFor, CreateFlusher, StartFlusher,
        CheckFlusher, LockForAdd, AppendItem, AppendWhen, RecordLost, data,
        Outcomes, AddPoints
<1>4. ASSUME NEW t \in Actors, LockForFlush(t) \/ Serialize(t)
      PROVE  UNCHANGED outcomes
  BY <1>4 DEF LockForFlush, Serialize, SerializeAndKeep, data
<1>5. ASSUME NEW t \in Threads, KillStep(t) \/ Flush(t) \/ Kill(t) \/ Fork(t)
      PROVE  UNCHANGED outcomes
  BY <1>5 DEF KillStep, KillEvent, KillForget, Flush, Kill, KillFrom, Fork, ForkWith, data
<1>6. ASSUME NEW t \in Actors, NEW y \in Items, Add(t, y)
      PROVE  \A x \in inherited : outcomes'[x] = outcomes[x]
  BY <1>6 DEF Add, AddUnless, Meet, IInv, TypeOK
<1>7. ASSUME NEW f \in Flushers, LoopStep(f)
      PROVE  UNCHANGED outcomes
  BY <1>7 DEF LoopStep, FlusherBegin, FlusherMark, FlusherLoop, FlusherWake,
              FlusherWait, FlusherClear, data
<1>8. CASE UNCHANGED vars
  BY <1>8 DEF vars
<1> QED
  BY <1>2, <1>3, <1>4, <1>5, <1>6, <1>7, <1>8 DEF Next, FlushStep, Actors

(* A forked child delivers nothing of its parent's (_batcher.py:54-61).    *)
THEOREM NeverDeliversTwice == Spec => NotDeliveredTwice
<1>1. IInv /\ [Next]_vars => [\A x \in inherited : outcomes'[x] = outcomes[x]]_vars
  BY InheritedKept
<1> QED
  BY <1>1, InvariantHolds, PTL DEF Spec, NotDeliveredTwice

(* The first outcome of an item that meets one now is the one it meets.    *)
LEMMA FirstOutcome ==
  ASSUME IInv, NEW xs \in SUBSET Items, NEW o \in Outcomes, Meet(xs, o),
         \A x \in xs : Holders[x] # {}, NEW x \in Items, outcomes'[x] # outcomes[x]
  PROVE  x \in xs /\ outcomes'[x][1] = o
<1>0. \A y \in Items : outcomes'[y] = IF y \in xs THEN Append(outcomes[y], o) ELSE outcomes[y]
  BY MeetAppends DEF IInv
<1>1. x \in xs /\ outcomes'[x] = Append(outcomes[x], o)
  BY <1>0
<1>2. outcomes[x] = <<>>
  BY <1>1 DEF IInv, FateInv
<1>3. outcomes'[x] = Append(<<>>, o)
  BY <1>1, <1>2
<1> QED
  BY <1>1, <1>3

LEMMA IgnoredStep ==
  ASSUME IInv, [Next]_vars, running, NEW x \in Items, x \in added,
         outcomes'[x] # outcomes[x], outcomes'[x][1] = "ignored"
  PROVE  \E t \in Threads : pc[t] \in {"create", "start"}
<1>1. ASSUME NEW t \in Threads, NEW o \in Outcomes, AddReturn(t, o), pc[t] \in AddPoints
      PROVE  o = "ignored"
  <2>1. item[t] \in Items /\ Holders[item[t]] = {t}
    BY <1>1, ItemInHand DEF Actors
  <2>2. /\ {item[t]} \in SUBSET Items /\ Meet({item[t]}, o)
        /\ \A y \in {item[t]} : Holders[y] # {}
    BY <1>1, <2>1 DEF AddReturn
  <2>3. x \in {item[t]} /\ outcomes'[x][1] = o
    BY <2>2, FirstOutcome
  <2> QED
    BY <2>3
<1>2. ASSUME NEW t \in Threads, CheckFlusher(t)
      PROVE  \E u \in Threads : pc[u] \in {"create", "start"}
  <2>1. flusher = None /\ flusherPid = pid
    BY <1>2 DEF CheckFlusher, IInv, FlusherInv, Actors
  <2>2. PICK u \in Creating : TRUE
    BY <2>1 DEF IInv, FlusherInv
  <2> QED
    BY <2>2 DEF IInv, PlaceInv, Creating, Actors, FlusherPoints, FlushPoints
<1>3. ASSUME NEW t \in Threads, EnsureThread(t) PROVE FALSE
  BY <1>3 DEF EnsureThread
<1>4. ASSUME NEW t \in Threads, RecordLost(t) PROVE FALSE
  <2>1. PICK o \in {"lost", "unreported"} : AddReturn(t, o)
    BY <1>4 DEF RecordLost
  <2> QED
    BY <1>1, <1>4, <2>1 DEF RecordLost, Outcomes, AddPoints
<1>5. ASSUME NEW t \in Actors, Capture(t) PROVE FALSE
  <2>1. PICK o \in {"captured", "failed"} : Meet(batch[t], o)
    BY <1>5 DEF Capture
  <2>2. \A y \in batch[t] : y \in Items /\ t \in Holders[y]
    BY DEF IInv, TypeOK, Holders
  <2>3. batch[t] \in SUBSET Items /\ o \in Outcomes
    BY <2>2 DEF Outcomes
  <2> QED
    BY <2>1, <2>2, <2>3, FirstOutcome
<1>6. ASSUME NEW t \in Threads, StartFlusher(t)
      PROVE  \E u \in Threads : pc[u] \in {"create", "start"}
  BY <1>6 DEF StartFlusher
<1>7. ASSUME NEW t \in Threads,
             Recheck(t) \/ CreateFlusher(t) \/ LockForAdd(t) \/ AppendItem(t)
      PROVE  FALSE
  BY <1>7 DEF Recheck, RecheckFor, CreateFlusher, LockForAdd, AppendItem, AppendWhen, data
<1>8. ASSUME NEW t \in Actors, LockForFlush(t) \/ Serialize(t)
      PROVE  FALSE
  BY <1>8 DEF LockForFlush, Serialize, SerializeAndKeep, data
<1>9. ASSUME NEW t \in Threads, KillStep(t) \/ Flush(t) \/ Kill(t) \/ Fork(t)
      PROVE  FALSE
  BY <1>9 DEF KillStep, KillEvent, KillForget, Flush, Kill, KillFrom, Fork, ForkWith, data
<1>10. ASSUME NEW t \in Actors, NEW y \in Items, Add(t, y) PROVE FALSE
  BY <1>10 DEF Add, AddUnless, Meet, IInv, TypeOK
<1>11. ASSUME NEW f \in Flushers, LoopStep(f) PROVE FALSE
  BY <1>11 DEF LoopStep, FlusherBegin, FlusherMark, FlusherLoop, FlusherWake,
               FlusherWait, FlusherClear, data
<1>12. CASE UNCHANGED vars
  BY <1>12 DEF vars
<1> QED
  BY <1>2, <1>3, <1>4, <1>5, <1>6, <1>7, <1>8, <1>9, <1>10, <1>11, <1>12
  DEF Next, AddStep, FlushStep, Actors

(* While the batcher runs, an add() that is not nested forgets its item    *)
(* only while another thread is between the two writes of _ensure_thread   *)
(* (_batcher.py:80-85, 123).                                               *)
THEOREM IgnoresOnlyAtStart == Spec => IgnoredOnlyAtStart
<1>1. IInv /\ [Next]_vars =>
        [\A x \in added :
           running /\ outcomes'[x] # outcomes[x] /\ outcomes'[x][1] = "ignored"
             => \E t \in Threads : pc[t] \in {"create", "start"}]_vars
  BY IgnoredStep DEF IInv, TypeOK
<1> QED
  BY <1>1, InvariantHolds, PTL DEF Spec, IgnoredOnlyAtStart

(* The flag turns an add() back only if its own thread is inside of the    *)
(* batcher: no other thread's flag is taken for its own, and none is left  *)
(* set by a call that has returned or raised (_batcher.py:113-121, 137-    *)
(* 138, 148-154).                                                          *)
THEOREM IgnoresOnlyIfNested == Spec => IgnoredOnlyIfNested
<1>1. ASSUME IInv, NEW t \in Actors, NEW x \in Items, running, ~InBatcher(t), Add(t, x)
      PROVE  UNCHANGED outcomes
  <2>1. ~active[t] /\ ~(pc[t] \in KillPoints /\ ~running)
    BY <1>1 DEF IInv, FlagInv, Add, AddUnless
  <2> QED
    BY <1>1, <2>1 DEF Add, AddUnless
<1>2. IInv /\ [Next]_vars =>
        [\A t \in Actors, x \in Items :
           running /\ ~InBatcher(t) /\ Add(t, x) => UNCHANGED outcomes]_vars
  BY <1>1
<1> QED
  BY <1>2, InvariantHolds, PTL DEF Spec, IgnoredOnlyIfNested

(* add() neither deadlocks with itself nor, unless killed, raises          *)
(* (_batcher.py:71-86, 113-145).                                           *)
THEOREM AddIsHarmless == Spec => []AddIsSafe
  BY NeverSelfDeadlocks, RaisesAfterKill, PTL DEF AddIsSafe

(* One flusher, which is awake when the buffer is full (_batcher.py:71-84, *)
(* 102-110).                                                               *)
THEOREM FlusherIsThere == Spec => []FlusherAttends
  BY TypeCorrect, HasOneFlusher, WakesWhenFull, PTL DEF FlusherAttends

(* No item meets an outcome in a process that inherited it, nor is ignored *)
(* while the batcher runs, but for the window at the start and for calls   *)
(* from inside the batcher (_batcher.py:54-82, 113-124).                   *)
THEOREM OutcomesAreDeserved == Spec => OutcomesDeserved
  BY NeverDeliversTwice, IgnoresOnlyAtStart, IgnoresOnlyIfNested, PTL DEF OutcomesDeserved
=============================================================================

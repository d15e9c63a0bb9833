-------------------------- MODULE SentryQueueProofs --------------------------
(***************************************************************************)
(* Theorems about SentryQueue for any number of threads and items and any  *)
(* maxsize.  IInv is the inductive invariant: which points own the mutex,  *)
(* that whoever is about to store an item or a count still may, and that   *)
(* the count is exact.  The parts that reentrancy breaks are conditional   *)
(* on the point where it breaks them.                                      *)
(***************************************************************************)
EXTENDS SentryQueue, FiniteSetTheorems, SequenceTheorems, TLAPS

Sections == {"put_commit", "get_sleep", "done_store"}

MutexInv == \A t \in Threads : pc[t] \in Sections <=> mutex = t

HeldInv ==
  \A t \in Threads : pc[t] \in PutPoints \cup DonePoints => held[t] \in Items

RoomInv ==
  "put_commit" \notin ReentrantAt =>
    /\ Bounded
    /\ \A t \in Threads : pc[t] = "put_commit" => Room

CountInv ==
  "done_store" \notin ReentrantAt =>
    /\ CountExact
    /\ \A t \in Threads : pc[t] = "done_store" => unfinished = 1

IInv == TypeOK /\ MutexInv /\ HeldInv /\ RoomInv /\ CountInv

-----------------------------------------------------------------------------
(* A notify moves t to its next point, and of the others at most sleepers. *)
LEMMA NotifiedMoves ==
  ASSUME TypeOK, NEW t \in Threads, NEW point \in Points,
         NEW asleep \in Points, NEW awake \in Points, pc[t] # asleep,
         pc' \in Notified(t, point, asleep, awake)
  PROVE  /\ pc' \in [Threads -> Points]
         /\ pc'[t] = point
         /\ \A u \in Threads \ {t} :
              pc'[u] = pc[u] \/ (pc[u] = asleep /\ pc'[u] = awake)
<1> DEFINE here == [pc EXCEPT ![t] = point]
<1>1. here \in [Threads -> Points]
  BY DEF TypeOK
<1>2. CASE At(asleep) = {}
  BY <1>1, <1>2 DEF Notified, TypeOK
<1>3. CASE At(asleep) # {}
  <2>1. PICK u \in At(asleep) : pc' = [here EXCEPT ![u] = awake]
    BY <1>3 DEF Notified
  <2>2. u \in Threads /\ pc[u] = asleep /\ u # t
    BY <2>1 DEF At
  <2> QED
    BY <1>1, <2>1, <2>2 DEF TypeOK
<1> QED
  BY <1>2, <1>3

(* The effect of a step on the number of fetched items.                    *)
LEMMA FetchedFinite == IsFiniteSet(Fetched) /\ Cardinality(Fetched) \in Nat
<1>1. Fetched \in SUBSET Threads
  BY DEF Fetched
<1> QED
  BY <1>1, ThreadsFinite, FS_Subset, FS_CardinalityType

LEMMA FetchedGains ==
  ASSUME NEW t \in Threads, pc[t] \notin DonePoints, pc'[t] \in DonePoints,
         \A u \in Threads \ {t} : pc'[u] \in DonePoints <=> pc[u] \in DonePoints
  PROVE  Cardinality(Fetched)' = Cardinality(Fetched) + 1
<1>1. Fetched' = Fetched \cup {t} /\ t \notin Fetched
  BY DEF Fetched
<1> QED
  BY <1>1, FetchedFinite, FS_AddElement

LEMMA FetchedLoses ==
  ASSUME NEW t \in Threads, pc[t] \in DonePoints, pc'[t] \notin DonePoints,
         \A u \in Threads \ {t} : pc'[u] \in DonePoints <=> pc[u] \in DonePoints
  PROVE  Cardinality(Fetched)' = Cardinality(Fetched) - 1
<1>1. Fetched' = Fetched \ {t} /\ t \in Fetched
  BY DEF Fetched
<1> QED
  BY <1>1, FetchedFinite, FS_RemoveElement

LEMMA FetchedSame ==
  ASSUME \A u \in Threads : pc'[u] \in DonePoints <=> pc[u] \in DonePoints
  PROVE  Cardinality(Fetched)' = Cardinality(Fetched)
<1>1. Fetched' = Fetched
  BY DEF Fetched
<1> QED
  BY <1>1

LEMMA FetchedPositive ==
  ASSUME NEW t \in Threads, pc[t] \in DonePoints
  PROVE  Cardinality(Fetched) > 0
<1>1. t \in Fetched
  BY DEF Fetched
<1> QED
  BY <1>1, FetchedFinite, FS_EmptySet

-----------------------------------------------------------------------------
LEMMA InitIInv == Init => IInv
<1> SUFFICES ASSUME Init PROVE IInv
  OBVIOUS
<1>1. Fetched = {}
  BY DEF Init, Fetched, DonePoints
<1>2. TypeOK
  BY EmptySeq DEF Init, TypeOK, Points, Modes
<1>3. MutexInv /\ HeldInv
  BY NoneIsNone DEF Init, MutexInv, HeldInv, Sections, PutPoints, DonePoints
<1>4. RoomInv
  BY MaxSizePositive DEF Init, RoomInv, Bounded, Room
<1>5. CountInv
  BY <1>1, FS_EmptySet DEF Init, CountInv, CountExact
<1> QED
  BY <1>2, <1>3, <1>4, <1>5 DEF IInv

(* Steps that leave items, the count and the fetched tasks alone.          *)
LEMMA QuietStep ==
  ASSUME IInv, UNCHANGED <<items, unfinished>>,
         TypeOK', MutexInv', HeldInv',
         \A u \in Threads : pc'[u] \in DonePoints <=> pc[u] \in DonePoints,
         \A u \in Threads : pc'[u] = "put_commit" => pc[u] = "put_commit" \/ Room,
         \A u \in Threads : pc'[u] = "done_store" => pc[u] = "done_store" \/ unfinished = 1
  PROVE  IInv'
<1>1. RoomInv'
  BY DEF IInv, RoomInv, Bounded, Room
<1>2. CountInv'
  BY FetchedSame DEF IInv, CountInv, CountExact
<1> QED
  BY <1>1, <1>2 DEF IInv

-----------------------------------------------------------------------------
LEMMA StepIInv == IInv /\ [Next]_vars => IInv'
<1> SUFFICES ASSUME IInv, [Next]_vars PROVE IInv'
  OBVIOUS
<1> USE DEF Sections, PutPoints, GetPoints, JoinPoints, DonePoints
<1>0. CASE UNCHANGED vars
  BY <1>0, QuietStep DEF vars, IInv, TypeOK, MutexInv, HeldInv
<1>1. ASSUME NEW t \in Threads, NEW x \in Items, NEW m \in Modes, PutCall(t, x, m)
      PROVE  IInv'
  <2>1. TypeOK'
    BY <1>1 DEF PutCall, IInv, TypeOK, Points
  <2>2. MutexInv' /\ HeldInv'
    BY <1>1 DEF PutCall, IInv, TypeOK, MutexInv, HeldInv
  <2> QED
    BY <1>1, <2>1, <2>2, QuietStep DEF PutCall, IInv, TypeOK
<1>2. ASSUME NEW t \in Threads, PutCheck(t)
      PROVE  IInv'
  <2>1. TypeOK'
    BY <1>2, NoneIsNone DEF PutCheck, IInv, TypeOK, Points
  <2>2. MutexInv' /\ HeldInv'
    BY <1>2, NoneIsNone DEF PutCheck, IInv, TypeOK, MutexInv, HeldInv
  <2> QED
    BY <1>2, <2>1, <2>2, QuietStep DEF PutCheck, IInv, TypeOK
<1>3. ASSUME NEW t \in Threads, PutCommit(t)
      PROVE  IInv'
  <2>1. /\ pc' \in [Threads -> Points]
        /\ pc'[t] = "idle"
        /\ \A u \in Threads \ {t} :
             pc'[u] = pc[u] \/ (pc[u] = "get_wait" /\ pc'[u] = "get")
    BY <1>3, NotifiedMoves DEF PutCommit, IInv, Points
  <2>2. held[t] \in Items /\ Len(items) \in Nat /\ Len(items') = Len(items) + 1
    BY <1>3, AppendProperties DEF PutCommit, IInv, TypeOK, HeldInv
  <2>3. TypeOK'
    <3>1. items' \in Seq(Items)
      BY <1>3, <2>2, AppendProperties DEF PutCommit, IInv, TypeOK
    <3>2. held' \in [Threads -> Items \cup {None}]
      BY <1>3 DEF PutCommit, IInv, TypeOK
    <3> QED
      BY <1>3, <2>1, <3>1, <3>2 DEF PutCommit, IInv, TypeOK
  <2>4. MutexInv' /\ HeldInv'
    BY <1>3, <2>1, NoneIsNone DEF PutCommit, IInv, TypeOK, MutexInv, HeldInv
  <2>5. RoomInv'
    BY <1>3, <2>1, <2>2, MaxSizePositive
    DEF PutCommit, IInv, RoomInv, MutexInv, Bounded, Room
  <2>6. CountInv'
    <3>1. Cardinality(Fetched)' = Cardinality(Fetched)
      BY <1>3, <2>1, FetchedSame DEF PutCommit
    <3>2. \A u \in Threads : pc'[u] # "done_store"
      BY <1>3, <2>1 DEF PutCommit, IInv, MutexInv
    <3> QED
      BY <1>3, <2>2, <3>1, <3>2, FetchedFinite DEF PutCommit, IInv, TypeOK, CountInv, CountExact
  <2> QED
    BY <2>3, <2>4, <2>5, <2>6 DEF IInv
<1>4. ASSUME NEW t \in Threads, NEW m \in Modes, GetCall(t, m)
      PROVE  IInv'
  <2>1. TypeOK'
    BY <1>4 DEF GetCall, IInv, TypeOK, Points
  <2>2. MutexInv' /\ HeldInv'
    BY <1>4 DEF GetCall, IInv, TypeOK, MutexInv, HeldInv
  <2> QED
    BY <1>4, <2>1, <2>2, QuietStep DEF GetCall, IInv, TypeOK
<1>5. ASSUME NEW t \in Threads, GetCheck(t)
      PROVE  IInv'
  <2>1. CASE items # <<>>
    <3>1. /\ pc' \in [Threads -> Points]
          /\ pc'[t] = "working"
          /\ \A u \in Threads \ {t} :
               pc'[u] = pc[u] \/ (pc[u] = "put_wait" /\ pc'[u] = "put")
      BY ZenonT(60), <1>5, <2>1, NotifiedMoves DEF GetCheck, IInv, Points
    <3>2. /\ held'[t] \in Items
          /\ Len(items) \in Nat /\ Len(items') \in Nat /\ Len(items') = Len(items) - 1
      BY <1>5, <2>1, HeadTailProperties DEF GetCheck, IInv, TypeOK
    <3>3. TypeOK'
      <4>1. items' \in Seq(Items)
        <5>1. items \in Seq(Items) /\ items' = Tail(items)
          BY <1>5, <2>1 DEF GetCheck, IInv, TypeOK
        <5> QED
          BY <5>1, <2>1, HeadTailProperties
      <4>2. held' \in [Threads -> Items \cup {None}]
        BY <1>5, <2>1, <3>2 DEF GetCheck, IInv, TypeOK
      <4> QED
        BY <1>5, <3>1, <4>1, <4>2 DEF GetCheck, IInv, TypeOK
    <3>4. MutexInv' /\ HeldInv'
      BY <1>5, <2>1, <3>1, <3>2, NoneIsNone DEF GetCheck, IInv, TypeOK, MutexInv, HeldInv
    <3>5. RoomInv'
      BY <1>5, <2>1, <3>1, <3>2, MaxSizePositive
      DEF GetCheck, IInv, RoomInv, Bounded, Room
    <3>6. CountInv'
      <4>1. Cardinality(Fetched)' = Cardinality(Fetched) + 1
        BY <1>5, <3>1, FetchedGains DEF GetCheck
      <4>2. \A u \in Threads : pc'[u] # "done_store"
        BY <1>5, <3>1, NoneIsNone DEF GetCheck, IInv, MutexInv
      <4> QED
        BY <1>5, <2>1, <3>2, <4>1, <4>2, FetchedFinite
        DEF GetCheck, IInv, TypeOK, CountInv, CountExact
    <3> QED
      BY <3>3, <3>4, <3>5, <3>6 DEF IInv
  <2>2. CASE items = <<>>
    <3>1. TypeOK'
      BY <1>5, <2>2 DEF GetCheck, IInv, TypeOK, Points
    <3>2. MutexInv' /\ HeldInv'
      BY <1>5, <2>2, NoneIsNone DEF GetCheck, IInv, TypeOK, MutexInv, HeldInv
    <3> QED
      BY <1>5, <2>2, <3>1, <3>2, QuietStep DEF GetCheck, IInv, TypeOK
  <2> QED
    BY <2>1, <2>2
<1>6. ASSUME NEW t \in Threads, GetSleep(t)
      PROVE  IInv'
  <2>1. TypeOK'
    BY <1>6 DEF GetSleep, IInv, TypeOK, Points
  <2>2. MutexInv' /\ HeldInv'
    BY <1>6, NoneIsNone DEF GetSleep, IInv, TypeOK, MutexInv, HeldInv
  <2> QED
    BY <1>6, <2>1, <2>2, QuietStep DEF GetSleep, IInv, TypeOK
<1>7a. ASSUME NEW t \in Threads, Expire(t)
       PROVE  IInv'
  <2>1. TypeOK'
    BY <1>7a DEF Expire, IInv, TypeOK, Points, Modes
  <2>2. MutexInv' /\ HeldInv'
    BY <1>7a DEF Expire, IInv, TypeOK, MutexInv, HeldInv
  <2> QED
    BY <1>7a, <2>1, <2>2, QuietStep DEF Expire, IInv, TypeOK
<1>7b. ASSUME NEW t \in Threads, WakeExpired(t)
       PROVE  IInv'
  <2>1. TypeOK'
    BY <1>7b DEF WakeExpired, IInv, TypeOK, Points
  <2>2. MutexInv' /\ HeldInv'
    BY <1>7b DEF WakeExpired, IInv, TypeOK, MutexInv, HeldInv
  <2> QED
    BY <1>7b, <2>1, <2>2, QuietStep DEF WakeExpired, IInv, TypeOK
<1>7c. ASSUME NEW t \in Threads, JoinCall(t)
       PROVE  IInv'
  <2>1. TypeOK'
    BY <1>7c DEF JoinCall, IInv, TypeOK, Points
  <2>2. MutexInv' /\ HeldInv'
    BY <1>7c DEF JoinCall, IInv, TypeOK, MutexInv, HeldInv
  <2> QED
    BY <1>7c, <2>1, <2>2, QuietStep DEF JoinCall, IInv, TypeOK
<1>7d. ASSUME NEW t \in Threads, JoinCheck(t)
       PROVE  IInv'
  <2>1. TypeOK'
    BY <1>7d DEF JoinCheck, IInv, TypeOK, Points
  <2>2. MutexInv' /\ HeldInv'
    BY <1>7d DEF JoinCheck, IInv, TypeOK, MutexInv, HeldInv
  <2> QED
    BY <1>7d, <2>1, <2>2, QuietStep DEF JoinCheck, IInv, TypeOK
<1>8. ASSUME NEW t \in Threads, TaskDone(t)
      PROVE  IInv'
  <2>1. TypeOK'
    <3>1. pc' \in [Threads -> Points]
      BY <1>8 DEF TaskDone, AllNotified, IInv, TypeOK, Points
    <3>2. held' \in [Threads -> Items \cup {None}]
      BY <1>8 DEF TaskDone, IInv, TypeOK
    <3>3. unfinished' \in Nat /\ mutex' \in Threads \cup {None}
      BY <1>8 DEF TaskDone, IInv, TypeOK
    <3> QED
      BY <1>8, <3>1, <3>2, <3>3 DEF TaskDone, IInv, TypeOK
  <2>0. \A u \in Threads \ {t} :
          pc'[u] = pc[u] \/ (pc[u] = "join_wait" /\ pc'[u] = "join")
    BY <1>8 DEF TaskDone, AllNotified, IInv, TypeOK
  <2>2. MutexInv'
    BY <1>8, <2>0, NoneIsNone DEF TaskDone, AllNotified, IInv, TypeOK, MutexInv
  <2>3. HeldInv'
    <3>1. \A u \in Threads \ {t} : held'[u] = held[u]
      BY <1>8 DEF TaskDone, IInv, TypeOK
    <3>2. pc'[t] \in PutPoints \cup DonePoints => held'[t] = held[t]
      BY <1>8 DEF TaskDone, AllNotified, IInv, TypeOK
    <3> QED
      BY <1>8, <2>0, <3>1, <3>2 DEF TaskDone, IInv, HeldInv
  <2>4. CASE unfinished = 1
    <3>1. pc[t] = "working" /\ pc'[t] = "done_store"
      BY <1>8, <2>4 DEF TaskDone, AllNotified, IInv, TypeOK
    <3>2. UNCHANGED <<items, unfinished>>
      BY <1>8, <2>4 DEF TaskDone
    <3> QED
      BY <2>0, <2>1, <2>2, <2>3, <2>4, <3>1, <3>2, QuietStep
  <2>5. CASE unfinished = 0
    <3>1. RoomInv'
      BY <1>8, <2>5 DEF TaskDone, AllNotified, IInv, TypeOK, RoomInv, Bounded, Room
    <3>2. CountInv'
      BY <1>8, <2>5, FetchedPositive, FetchedFinite, LenProperties
      DEF TaskDone, AllNotified, IInv, TypeOK, CountInv, CountExact
    <3> QED
      BY <2>1, <2>2, <2>3, <3>1, <3>2 DEF IInv
  <2>6. CASE unfinished > 1
    <3>1. RoomInv'
      BY <1>8, <2>6 DEF TaskDone, AllNotified, IInv, TypeOK, RoomInv, Bounded, Room
    <3>2. Cardinality(Fetched)' = Cardinality(Fetched) - 1
      BY <1>8, <2>6, FetchedLoses DEF TaskDone, AllNotified, IInv, TypeOK
    <3>3. \A u \in Threads : pc'[u] # "done_store"
      BY <1>8, <2>6, NoneIsNone DEF TaskDone, AllNotified, IInv, TypeOK, MutexInv
    <3>4. CountInv'
      BY <1>8, <2>6, <3>2, <3>3, FetchedFinite, LenProperties
      DEF TaskDone, AllNotified, IInv, TypeOK, CountInv, CountExact
    <3> QED
      BY <2>1, <2>2, <2>3, <3>1, <3>4 DEF IInv
  <2> QED
    BY <1>8, <2>4, <2>5, <2>6 DEF TaskDone
<1>9. ASSUME NEW t \in Threads, DoneStore(t)
      PROVE  IInv'
  <2>1. TypeOK'
    BY <1>9 DEF DoneStore, IInv, TypeOK, Points
  <2>2. MutexInv' /\ HeldInv'
    BY <1>9, NoneIsNone DEF DoneStore, IInv, TypeOK, MutexInv, HeldInv
  <2>3. RoomInv'
    BY <1>9 DEF DoneStore, IInv, TypeOK, RoomInv, Bounded, Room
  <2>4. Cardinality(Fetched)' = Cardinality(Fetched) - 1
    BY <1>9, FetchedLoses DEF DoneStore, IInv, TypeOK
  <2>5. \A u \in Threads : pc'[u] # "done_store"
    BY <1>9 DEF DoneStore, IInv, TypeOK, MutexInv
  <2>6. CountInv'
    BY <1>9, <2>4, <2>5, FetchedFinite, LenProperties
    DEF DoneStore, IInv, TypeOK, CountInv, CountExact
  <2> QED
    BY <2>1, <2>2, <2>3, <2>6 DEF IInv
<1>10. ASSUME NEW t \in Threads, NEW x \in Items, Reenter(t, x)
       PROVE  IInv'
  <2>1. /\ pc' \in [Threads -> Points]
        /\ pc'[t] = pc[t]
        /\ \A u \in Threads \ {t} :
             pc'[u] = pc[u] \/ (pc[u] = "get_wait" /\ pc'[u] = "get")
    BY <1>10, NotifiedMoves, ReentrantPoints DEF Reenter, IInv, TypeOK, Points
  <2>2. /\ Len(items) \in Nat /\ Len(items') = Len(items) + 1
        /\ items' \in Seq(Items)
    BY <1>10, AppendProperties DEF Reenter, IInv, TypeOK
  <2>3. TypeOK'
    BY <1>10, <2>1, <2>2 DEF Reenter, IInv, TypeOK
  <2>4. MutexInv' /\ HeldInv'
    BY <1>10, <2>1 DEF Reenter, IInv, TypeOK, MutexInv, HeldInv
  <2>5. mutex = t
    BY <1>10, ReentrantPoints DEF Reenter, IInv, MutexInv
  <2>6. RoomInv'
    BY <1>10, <2>1, <2>2, <2>5, MaxSizePositive
    DEF Reenter, IInv, RoomInv, MutexInv, Bounded, Room
  <2>7. Cardinality(Fetched)' = Cardinality(Fetched)
    BY <1>10, <2>1, FetchedSame
  <2>8. CountInv'
    BY <1>10, <2>1, <2>2, <2>5, <2>7, FetchedFinite
    DEF Reenter, IInv, TypeOK, CountInv, CountExact, MutexInv
  <2> QED
    BY <2>3, <2>4, <2>6, <2>8 DEF IInv
<1> QED
  BY <1>0, <1>1, <1>2, <1>3, <1>4, <1>5, <1>6, <1>7a, <1>7b, <1>7c, <1>7d, <1>8, <1>9, <1>10 DEF Next, Step

LEMMA Inductive == Spec => []IInv
BY InitIInv, StepIInv, PTL DEF Spec

-----------------------------------------------------------------------------
(* The types of the variables, for any number of threads, any maxsize and  *)
(* whatever reentrancy the finalizers cause.                               *)
THEOREM TypeCorrect == Spec => []TypeOK
<1>1. IInv => TypeOK
  BY DEF IInv
<1> QED
  BY <1>1, Inductive, PTL

(* If no finalizer puts inside task_done(), the count that join() and      *)
(* flush wait on is exact: queued items plus tasks not yet reported.       *)
THEOREM CountIsExact ==
  ASSUME "done_store" \notin ReentrantAt
  PROVE  Spec => []CountExact
<1>1. IInv => CountExact
  BY DEF IInv, CountInv
<1> QED
  BY <1>1, Inductive, PTL

(* If no finalizer puts between put()'s test and its append, the queue     *)
(* never holds more than maxsize items.                                    *)
THEOREM SizeIsBounded ==
  ASSUME "put_commit" \notin ReentrantAt
  PROVE  Spec => []Bounded
<1>1. IInv => Bounded
  BY DEF IInv, RoomInv
<1> QED
  BY <1>1, Inductive, PTL

-----------------------------------------------------------------------------
LEMMA Stutters ==
  ASSUME UNCHANGED items,
         \A u \in Threads : /\ pc'[u] \in DonePoints <=> pc[u] \in DonePoints
                            /\ pc[u] \in DonePoints => held'[u] = held[u]
                            /\ pc'[u] \in JoinPoints <=> pc[u] \in JoinPoints
  PROVE  UNCHANGED Abstract!vars
BY DEF Abstract!vars, Task, Joining, Fetched

(* A put, commited or nested, as the abstract queue sees it.               *)
LEMMA Puts ==
  ASSUME NEW x \in Items, Room, items' = Append(items, x),
         \A u \in Threads : /\ pc'[u] \in DonePoints <=> pc[u] \in DonePoints
                            /\ pc[u] \in DonePoints => held'[u] = held[u]
                            /\ pc'[u] \in JoinPoints <=> pc[u] \in JoinPoints
  PROVE  Abstract!Put(x)
BY DEF Abstract!Put, Task, Joining, Fetched, Room

(* The end of task_done() as the abstract queue sees it.                   *)
LEMMA Reports ==
  ASSUME NEW t \in Threads, pc[t] \in DonePoints, pc'[t] = "idle",
         held[t] \in Items, UNCHANGED items,
         \A u \in Threads \ {t} : pc'[u] = pc[u] /\ held'[u] = held[u]
  PROVE  Abstract!TaskDone(t)
<1>1. Task[t] = held[t] /\ held[t] # None
  BY NoneIsNone DEF Task, Fetched
<1>2. Task' = [Task EXCEPT ![t] = None]
  BY DEF Task, Fetched, DonePoints
<1>3. Joining' = Joining
  BY DEF Joining, JoinPoints, DonePoints
<1> QED
  BY <1>1, <1>2, <1>3 DEF Abstract!TaskDone

LEMMA StepRefines ==
  ASSUME ReentrantAt \subseteq {"get_sleep"}, IInv, [Next]_vars
  PROVE  [Abstract!Next]_(Abstract!vars)
<1> USE DEF PutPoints, GetPoints, JoinPoints, DonePoints
<1>0. CASE UNCHANGED vars
  BY <1>0, Stutters DEF vars
<1>1. ASSUME NEW t \in Threads, NEW x \in Items, NEW m \in Modes, PutCall(t, x, m)
      PROVE  UNCHANGED Abstract!vars
  BY <1>1, Stutters DEF PutCall, IInv, TypeOK
<1>2. ASSUME NEW t \in Threads, PutCheck(t)
      PROVE  UNCHANGED Abstract!vars
  BY <1>2, Stutters DEF PutCheck, IInv, TypeOK
<1>3. ASSUME NEW t \in Threads, PutCommit(t)
      PROVE  Abstract!Put(held[t])
  <2>1. /\ pc' \in [Threads -> Points]
        /\ pc'[t] = "idle"
        /\ \A u \in Threads \ {t} :
             pc'[u] = pc[u] \/ (pc[u] = "get_wait" /\ pc'[u] = "get")
    BY ZenonT(60), <1>3, NotifiedMoves DEF PutCommit, IInv, Points
  <2>2. held[t] \in Items /\ Room
    BY <1>3 DEF PutCommit, IInv, HeldInv, RoomInv
  <2> QED
    BY <1>3, <2>1, <2>2, Puts DEF PutCommit, IInv, TypeOK
<1>4. ASSUME NEW t \in Threads, NEW m \in Modes, GetCall(t, m)
      PROVE  UNCHANGED Abstract!vars
  BY <1>4, Stutters DEF GetCall, IInv, TypeOK
<1>5. ASSUME NEW t \in Threads, GetCheck(t)
      PROVE  Abstract!Get(t) \/ UNCHANGED Abstract!vars
  <2>1. CASE items # <<>>
    <3>1. /\ pc' \in [Threads -> Points]
          /\ pc'[t] = "working"
          /\ \A u \in Threads \ {t} :
               pc'[u] = pc[u] \/ (pc[u] = "put_wait" /\ pc'[u] = "put")
      BY ZenonT(60), <1>5, <2>1, NotifiedMoves DEF GetCheck, IInv, Points
    <3>2. /\ items' = Tail(items) /\ held' = [held EXCEPT ![t] = Head(items)]
          /\ pc[t] = "get"
      BY <1>5, <2>1 DEF GetCheck
    <3>3. Fetched' = Fetched \cup {t} /\ t \notin Fetched /\ Joining' = Joining
      BY <3>1, <3>2 DEF Fetched, Joining
    <3>4. Task' = [Task EXCEPT ![t] = Head(items)]
      BY <3>2, <3>3 DEF Task, IInv, TypeOK
    <3> QED
      BY <2>1, <3>2, <3>3, <3>4 DEF Abstract!Get, Task
  <2>2. CASE items = <<>>
    BY <1>5, <2>2, Stutters DEF GetCheck, IInv, TypeOK
  <2> QED
    BY <2>1, <2>2
<1>6. ASSUME NEW t \in Threads, GetSleep(t) \/ Expire(t)
      PROVE  UNCHANGED Abstract!vars
  BY <1>6, Stutters DEF GetSleep, Expire, IInv, TypeOK
<1>7. ASSUME NEW t \in Threads, WakeExpired(t)
      PROVE  UNCHANGED Abstract!vars
  BY <1>7, Stutters DEF WakeExpired, IInv, TypeOK
<1>8. ASSUME NEW t \in Threads, TaskDone(t)
      PROVE  Abstract!TaskDone(t) \/ UNCHANGED Abstract!vars
  <2>1. unfinished > 0
    BY <1>8, FetchedPositive, FetchedFinite, LenProperties
    DEF TaskDone, IInv, TypeOK, CountInv, CountExact
  <2>2. CASE unfinished = 1
    <3>1. /\ pc[t] = "working" /\ pc'[t] = "done_store" /\ UNCHANGED <<items, held>>
      BY <1>8, <2>2 DEF TaskDone, AllNotified, IInv, TypeOK
    <3>2. \A u \in Threads \ {t} :
            pc'[u] = pc[u] \/ (pc[u] = "join_wait" /\ pc'[u] = "join")
      BY <1>8, <2>2 DEF TaskDone, AllNotified, IInv, TypeOK
    <3> QED
      BY <3>1, <3>2, Stutters
  <2>3. CASE unfinished > 1
    BY <1>8, <2>3, Reports DEF TaskDone, IInv, TypeOK, HeldInv
  <2> QED
    BY <2>1, <2>2, <2>3 DEF IInv, TypeOK
<1>9. ASSUME NEW t \in Threads, DoneStore(t)
      PROVE  Abstract!TaskDone(t)
  BY <1>9, Reports DEF DoneStore, IInv, TypeOK, HeldInv
<1>10. ASSUME NEW t \in Threads, JoinCall(t)
       PROVE  Abstract!JoinCall(t)
  <2>1. Joining' = Joining \cup {t} /\ Fetched' = Fetched
    BY <1>10 DEF JoinCall, IInv, TypeOK, Joining, Fetched
  <2> QED
    BY <1>10, <2>1 DEF JoinCall, Abstract!JoinCall, Task
<1>11. ASSUME NEW t \in Threads, JoinCheck(t)
       PROVE  Abstract!JoinReturn(t) \/ UNCHANGED Abstract!vars
  <2>1. CASE unfinished = 0
    <3>1. items = <<>> /\ Fetched = {}
      BY <2>1, FetchedFinite, FS_EmptySet, LenProperties, EmptySeq, ThreadsFinite
      DEF IInv, TypeOK, CountInv, CountExact
    <3>2. Joining' = Joining \ {t} /\ t \in Joining /\ Fetched' = Fetched
      BY <1>11, <2>1 DEF JoinCheck, IInv, TypeOK, Joining, Fetched
    <3> QED
      BY <1>11, <3>1, <3>2 DEF JoinCheck, Abstract!JoinReturn, Task
  <2>2. CASE unfinished # 0
    BY <1>11, <2>2, Stutters DEF JoinCheck, IInv, TypeOK
  <2> QED
    BY <2>1, <2>2
<1>12. ASSUME NEW t \in Threads, NEW x \in Items, Reenter(t, x)
       PROVE  Abstract!Put(x)
  <2>1. pc[t] = "get_sleep"
    BY <1>12 DEF Reenter
  <2>2. /\ pc'[t] = pc[t]
        /\ \A u \in Threads \ {t} :
             pc'[u] = pc[u] \/ (pc[u] = "get_wait" /\ pc'[u] = "get")
    BY ZenonT(60), <1>12, <2>1, NotifiedMoves DEF Reenter, IInv, Points
  <2> QED
    BY <1>12, <2>1, <2>2, Puts DEF Reenter, IInv, TypeOK
<1>13. ASSUME NEW t \in Threads, PutCommit(t)
       PROVE  Abstract!Next
  BY <1>3, <1>13 DEF PutCommit, IInv, HeldInv, Abstract!Next
<1> QED
  BY <1>0, <1>1, <1>2, <1>4, <1>5, <1>6, <1>7, <1>8, <1>9, <1>10, <1>11, <1>12, <1>13
  DEF Next, Step, Abstract!Next

(* Without reentrancy in put() and task_done(), the queue of locks and     *)
(* conditions implements TaskQueue: first in first out, one consumer for   *)
(* each item, a bound, and a join() that waits for every task.             *)
THEOREM ImplementsAbstractQueue ==
  ASSUME ReentrantAt \subseteq {"get_sleep"}
  PROVE  Spec => ImplementsTaskQueue
<1>1. Init => Abstract!Init
  BY DEF Init, Abstract!Init, Task, Joining, Fetched, DonePoints, JoinPoints
<1>2. IInv /\ [Next]_vars => [Abstract!Next]_(Abstract!vars)
  BY StepRefines
<1> QED
  BY <1>1, <1>2, Inductive, PTL DEF Spec, ImplementsTaskQueue, Abstract!Spec

-----------------------------------------------------------------------------
(* What keeps a sleeper from being forgotten, in inductive form.  The gap  *)
(* between get()'s test and its sleep must find the queue still empty, so  *)
(* SleepInv is conditional on no finalizer putting there; the gap between  *)
(* notify_all and the store in task_done() must find no caller of join()   *)
(* asleep.                                                                 *)
Putters == At("put") \cup At("put_commit")

SleepInv ==
  "get_sleep" \notin ReentrantAt =>
    /\ GetterWakes
    /\ \A t \in Threads : pc[t] = "get_sleep" => items = <<>>

JoinInv == unfinished = 0 \/ At("done_store") # {} => At("join_wait") = {}

WakeInv == IInv /\ SleepInv /\ PutterWakes /\ JoinInv

(* The bound and the count, when finalizers put at any of the three points.*)
OverInv ==
  /\ IInv
  /\ OvershootByOne
  /\ At("put_commit") # {} => Bounded
  /\ NeverOvercounted

(* Sets of threads have a size that one thread more or less changes by one.*)
LEMMA ThreadSets ==
  ASSUME NEW S \in SUBSET Threads
  PROVE  /\ IsFiniteSet(S) /\ Cardinality(S) \in Nat
         /\ \A t \in Threads \ S : Cardinality(S \cup {t}) = Cardinality(S) + 1
         /\ \A t \in S : Cardinality(S \ {t}) = Cardinality(S) - 1
         /\ \A R \in SUBSET S : Cardinality(R) <= Cardinality(S)
<1>1. IsFiniteSet(S) /\ Cardinality(S) \in Nat
  BY ThreadsFinite, FS_Subset, FS_CardinalityType
<1>2. ASSUME NEW t \in Threads \ S
      PROVE  Cardinality(S \cup {t}) = Cardinality(S) + 1
  BY <1>1, <1>2, FS_AddElement
<1>3. ASSUME NEW t \in S
      PROVE  Cardinality(S \ {t}) = Cardinality(S) - 1
  BY <1>1, <1>3, FS_RemoveElement
<1>4. ASSUME NEW R \in SUBSET S
      PROVE  Cardinality(R) <= Cardinality(S)
  BY <1>1, <1>4, FS_Subset
<1> QED
  BY <1>1, <1>2, <1>3, <1>4

(* A notify finds nobody, or moves exactly one sleeper.                    *)
LEMMA NotifyPicks ==
  ASSUME TypeOK, NEW t \in Threads, NEW point \in Points,
         NEW asleep \in Points, NEW awake \in Points, pc[t] # asleep,
         pc' \in Notified(t, point, asleep, awake)
  PROVE  \/ /\ At(asleep) = {}
            /\ pc' = [pc EXCEPT ![t] = point]
         \/ \E u \in At(asleep) :
              /\ u \in Threads \ {t} /\ pc[u] = asleep
              /\ pc' = [[pc EXCEPT ![t] = point] EXCEPT ![u] = awake]
<1>1. CASE At(asleep) = {}
  BY <1>1 DEF Notified
<1>2. CASE At(asleep) # {}
  <2>1. PICK u \in At(asleep) : pc' = [[pc EXCEPT ![t] = point] EXCEPT ![u] = awake]
    BY <1>2 DEF Notified
  <2>2. u \in Threads \ {t} /\ pc[u] = asleep
    BY <2>1 DEF At
  <2> QED
    BY <2>1, <2>2
<1> QED
  BY <1>1, <1>2

(* A get() that finds an item.                                             *)
LEMMA GetTakes ==
  ASSUME TypeOK, NEW t \in Threads, GetCheck(t), items # <<>>
  PROVE  /\ pc[t] = "get" /\ mutex = None /\ pc'[t] = "working"
         /\ pc' \in Notified(t, "working", "put_wait", "put")
         /\ \A u \in Threads \ {t} :
              pc'[u] = pc[u] \/ (pc[u] = "put_wait" /\ pc'[u] = "put")
         /\ Len(items) \in Nat /\ Len(items') = Len(items) - 1
         /\ UNCHANGED unfinished
<1>1. /\ pc[t] = "get" /\ mutex = None /\ items' = Tail(items)
      /\ pc' \in Notified(t, "working", "put_wait", "put")
      /\ UNCHANGED unfinished
  BY DEF GetCheck
<1>2. /\ "working" \in Points /\ "put_wait" \in Points /\ "put" \in Points
      /\ pc[t] # "put_wait"
  BY <1>1 DEF Points, PutPoints, DonePoints
<1>3. /\ pc'[t] = "working"
      /\ \A u \in Threads \ {t} :
           pc'[u] = pc[u] \/ (pc[u] = "put_wait" /\ pc'[u] = "put")
  BY <1>1, <1>2, NotifiedMoves
<1>4. Len(items) \in Nat /\ Len(items') = Len(items) - 1
  BY <1>1, HeadTailProperties DEF TypeOK
<1> QED
  BY <1>1, <1>3, <1>4

(* A task_done() that brings the count to 0 first wakes every join().      *)
LEMMA LastDone ==
  ASSUME TypeOK, NEW t \in Threads, TaskDone(t), unfinished = 1
  PROVE  /\ pc[t] = "working" /\ pc'[t] = "done_store" /\ UNCHANGED <<items, unfinished>>
         /\ \A u \in Threads \ {t} : pc'[u] = IF pc[u] = "join_wait" THEN "join" ELSE pc[u]
<1>1. /\ pc[t] = "working" /\ UNCHANGED <<items, unfinished>>
      /\ pc' = [AllNotified("join_wait", "join") EXCEPT ![t] = "done_store"]
  BY DEF TaskDone
<1> QED
  BY <1>1 DEF AllNotified

-----------------------------------------------------------------------------
(* Nothing to wake a consumer for: the queue is empty, or stays as it is   *)
(* and no consumer turns from the test.                                    *)
LEMMA SleepEmpty ==
  ASSUME items' = <<>>
  PROVE  SleepInv'
<1>1. Cardinality(At("get")') \in Nat
  BY ThreadSets DEF At
<1> QED
  BY <1>1 DEF SleepInv, GetterWakes

LEMMA SleepSame ==
  ASSUME SleepInv, TypeOK, UNCHANGED items,
         At("get_wait")' \subseteq At("get_wait"),
         At("get") \subseteq At("get")',
         \A u \in Threads : pc'[u] = "get_sleep" => pc[u] = "get_sleep"
  PROVE  SleepInv'
<1>1. Cardinality(At("get")) <= Cardinality(At("get")')
  BY ThreadSets DEF At
<1>2. Cardinality(At("get")) \in Nat /\ Cardinality(At("get")') \in Nat
  BY ThreadSets DEF At
<1>3. Len(items) \in Nat
  BY LenProperties DEF TypeOK
<1> QED
  BY <1>1, <1>2, <1>3 DEF SleepInv, GetterWakes

(* An item arrives while no thread is between the test and the sleep, and  *)
(* notify() is called for it.                                              *)
LEMMA SleepPut ==
  ASSUME SleepInv, TypeOK, NEW t \in Threads, NEW point \in Points,
         pc[t] \notin GetPoints, point \notin GetPoints,
         Len(items') = Len(items) + 1,
         \A u \in Threads : pc[u] # "get_sleep",
         pc' \in Notified(t, point, "get_wait", "get")
  PROVE  SleepInv'
<1> USE DEF GetPoints
<1>1. "get_wait" \in Points /\ "get" \in Points
  BY DEF Points
<1>2. Len(items) \in Nat
  BY LenProperties DEF TypeOK
<1>3. CASE At("get_wait") = {} /\ pc' = [pc EXCEPT ![t] = point]
  <2>1. At("get_wait")' = {} /\ \A u \in Threads : pc'[u] # "get_sleep"
    BY <1>3 DEF At, TypeOK
  <2> QED
    BY <2>1 DEF SleepInv, GetterWakes
<1>4. ASSUME NEW u \in Threads \ {t}, pc[u] = "get_wait",
             pc' = [[pc EXCEPT ![t] = point] EXCEPT ![u] = "get"]
      PROVE  SleepInv'
  <2>1. At("get")' = At("get") \cup {u} /\ u \in Threads \ At("get")
    BY <1>4 DEF At, TypeOK
  <2>2. Cardinality(At("get")') = Cardinality(At("get")) + 1
    BY <2>1, ThreadSets DEF At
  <2>3. \A v \in Threads : pc'[v] # "get_sleep"
    BY <1>4 DEF TypeOK
  <2>4. At("get_wait") # {}
    BY <1>4 DEF At
  <2>5. Cardinality(At("get")) \in Nat
    BY ThreadSets DEF At
  <2> QED
    BY <1>2, <2>2, <2>3, <2>4, <2>5 DEF SleepInv, GetterWakes
<1>5. \/ At("get_wait") = {} /\ pc' = [pc EXCEPT ![t] = point]
      \/ \E u \in At("get_wait") :
           /\ u \in Threads \ {t} /\ pc[u] = "get_wait"
           /\ pc' = [[pc EXCEPT ![t] = point] EXCEPT ![u] = "get"]
  <2>1. pc[t] # "get_wait"
    OBVIOUS
  <2> QED
    BY <1>1, <2>1, NotifyPicks
<1> QED
  BY <1>3, <1>4, <1>5

LEMMA StepSleep ==
  ASSUME IInv, SleepInv, NEW t \in Threads,
         \/ Step(t) \/ Expire(t) \/ JoinCall(t)
         \/ \E m \in Modes : GetCall(t, m) \/ \E x \in Items : PutCall(t, x, m)
         \/ \E x \in Items : Reenter(t, x)
  PROVE  SleepInv'
<1>0. TypeOK
  BY DEF IInv
<1>1. ASSUME NEW x \in Items, NEW m \in Modes, PutCall(t, x, m)
      PROVE  SleepInv'
  BY <1>0, <1>1, SleepSame DEF PutCall, TypeOK, At
<1>2. CASE PutCheck(t)
  BY <1>0, <1>2, SleepSame DEF PutCheck, TypeOK, At
<1>3. CASE PutCommit(t)
  <2>1. \A u \in Threads : pc[u] # "get_sleep"
    BY <1>3 DEF PutCommit, IInv, MutexInv, Sections
  <2>2. Len(items') = Len(items) + 1
    BY <1>0, <1>3, AppendProperties DEF PutCommit, IInv, TypeOK, HeldInv, PutPoints
  <2> QED
    BY <1>0, <1>3, <2>1, <2>2, SleepPut DEF PutCommit, GetPoints, Points
<1>4. ASSUME NEW m \in Modes, GetCall(t, m)
      PROVE  SleepInv'
  BY <1>0, <1>4, SleepSame DEF GetCall, TypeOK, At
<1>5. CASE GetCheck(t) /\ items # <<>>
  <2>1. /\ pc[t] = "get" /\ mutex = None /\ pc'[t] = "working"
        /\ \A u \in Threads \ {t} :
             pc'[u] = pc[u] \/ (pc[u] = "put_wait" /\ pc'[u] = "put")
        /\ Len(items) \in Nat /\ Len(items') = Len(items) - 1
    BY <1>0, <1>5, GetTakes
  <2>2. \A u \in Threads : pc[u] # "get_sleep"
    BY <2>1, NoneIsNone DEF IInv, MutexInv, Sections
  <2>3. At("get")' = At("get") \ {t} /\ t \in At("get")
    BY <2>1 DEF At
  <2>4. /\ Cardinality(At("get")') = Cardinality(At("get")) - 1
        /\ Cardinality(At("get")) \in Nat
    BY <2>3, ThreadSets DEF At
  <2>5. At("get_wait")' = At("get_wait") /\ \A u \in Threads : pc'[u] # "get_sleep"
    BY <2>1, <2>2 DEF At
  <2> QED
    BY <2>1, <2>4, <2>5 DEF SleepInv, GetterWakes
<1>6. CASE GetCheck(t) /\ items = <<>>
  BY <1>6, SleepEmpty DEF GetCheck
<1>7. CASE GetSleep(t)
  <2>1. CASE "get_sleep" \in ReentrantAt
    BY <2>1 DEF SleepInv
  <2>2. CASE "get_sleep" \notin ReentrantAt
    BY <1>7, <2>2, SleepEmpty DEF SleepInv, GetSleep
  <2> QED
    BY <2>1, <2>2
<1>8. CASE Expire(t)
  BY <1>0, <1>8, SleepSame DEF Expire, TypeOK, At
<1>9. CASE WakeExpired(t)
  BY <1>0, <1>9, SleepSame DEF WakeExpired, TypeOK, At
<1>10. CASE TaskDone(t)
  BY <1>0, <1>10, SleepSame DEF TaskDone, AllNotified, TypeOK, At
<1>11. CASE DoneStore(t)
  BY <1>0, <1>11, SleepSame DEF DoneStore, TypeOK, At
<1>12. CASE JoinCall(t)
  BY <1>0, <1>12, SleepSame DEF JoinCall, TypeOK, At
<1>13. CASE JoinCheck(t)
  BY <1>0, <1>13, SleepSame DEF JoinCheck, TypeOK, At
<1>14. ASSUME NEW x \in Items, Reenter(t, x)
       PROVE  SleepInv'
  <2>1. CASE "get_sleep" \in ReentrantAt
    BY <2>1 DEF SleepInv
  <2>2. CASE "get_sleep" \notin ReentrantAt
    <3>1. pc[t] \in {"put_commit", "done_store"}
      BY <1>14, <2>2, ReentrantPoints DEF Reenter
    <3>2. \A u \in Threads : pc[u] # "get_sleep"
      BY <3>1 DEF IInv, MutexInv, Sections
    <3>3. Len(items') = Len(items) + 1
      BY <1>0, <1>14, AppendProperties DEF Reenter, TypeOK
    <3> QED
      BY <1>0, <1>14, <3>1, <3>2, <3>3, SleepPut DEF Reenter, GetPoints, TypeOK
  <2> QED
    BY <2>1, <2>2
<1> QED
  BY <1>1, <1>2, <1>3, <1>4, <1>5, <1>6, <1>7, <1>8, <1>9, <1>10, <1>11, <1>12, <1>13, <1>14
  DEF Step

-----------------------------------------------------------------------------
(* The queue gets no emptier and no producer turns from the test, or it is *)
(* full anyhow.                                                            *)
LEMMA PuttersSame ==
  ASSUME PutterWakes, TypeOK, TypeOK',
         \/ MaxSize <= Len(items')
         \/ /\ Len(items) <= Len(items')
            /\ At("put_wait")' \subseteq At("put_wait")
            /\ Putters \subseteq Putters'
  PROVE  PutterWakes'
<1>1. Cardinality(Putters) \in Nat /\ Cardinality(Putters') \in Nat
  BY ThreadSets DEF Putters, At
<1>2. Len(items) \in Nat /\ Len(items') \in Nat
  BY LenProperties DEF TypeOK
<1>3. Putters \subseteq Putters' => Cardinality(Putters) <= Cardinality(Putters')
  BY ThreadSets DEF Putters, At
<1> QED
  BY <1>1, <1>2, <1>3, MaxSizePositive DEF PutterWakes, Putters

LEMMA StepPutters ==
  ASSUME IInv, TypeOK', PutterWakes, NEW t \in Threads,
         \/ Step(t) \/ Expire(t) \/ JoinCall(t)
         \/ \E m \in Modes : GetCall(t, m) \/ \E x \in Items : PutCall(t, x, m)
         \/ \E x \in Items : Reenter(t, x)
  PROVE  PutterWakes'
<1>0. TypeOK /\ Len(items) \in Nat
  BY LenProperties DEF IInv, TypeOK
<1>1. ASSUME NEW x \in Items, NEW m \in Modes, PutCall(t, x, m)
      PROVE  PutterWakes'
  BY <1>0, <1>1, PuttersSame DEF PutCall, TypeOK, At, Putters
<1>2. CASE PutCheck(t)
  <2>1. CASE Room
    BY <1>0, <1>2, <2>1, PuttersSame DEF PutCheck, TypeOK, At, Putters
  <2>2. CASE ~Room
    BY <1>0, <1>2, <2>2, PuttersSame, MaxSizePositive DEF PutCheck, Room
  <2> QED
    BY <2>1, <2>2
<1>3. CASE PutCommit(t)
  <2>1. /\ pc[t] = "put_commit" /\ pc'[t] = "idle"
        /\ \A u \in Threads \ {t} :
             pc'[u] = pc[u] \/ (pc[u] = "get_wait" /\ pc'[u] = "get")
    BY <1>0, <1>3, NotifiedMoves DEF PutCommit, Points, GetPoints
  <2>2. Len(items') = Len(items) + 1
    BY <1>0, <1>3, AppendProperties DEF PutCommit, IInv, TypeOK, HeldInv, PutPoints
  <2>3. Putters' = Putters \ {t} /\ t \in Putters /\ At("put_wait")' = At("put_wait")
    BY <2>1 DEF Putters, At
  <2>4. Cardinality(Putters') = Cardinality(Putters) - 1 /\ Cardinality(Putters) \in Nat
    BY <2>3, ThreadSets DEF Putters, At
  <2> QED
    BY <1>0, <2>2, <2>3, <2>4, MaxSizePositive DEF PutterWakes, Putters
<1>4. ASSUME NEW m \in Modes, GetCall(t, m)
      PROVE  PutterWakes'
  BY <1>0, <1>4, PuttersSame DEF GetCall, TypeOK, At, Putters
<1>5. CASE GetCheck(t) /\ items # <<>>
  <2>1. /\ pc[t] = "get" /\ Len(items') = Len(items) - 1
        /\ pc' \in Notified(t, "working", "put_wait", "put")
    BY <1>0, <1>5, GetTakes
  <2>2. /\ "working" \in Points /\ "put_wait" \in Points /\ "put" \in Points
    BY DEF Points, PutPoints, DonePoints
  <2>3. \/ At("put_wait") = {} /\ pc' = [pc EXCEPT ![t] = "working"]
        \/ \E u \in At("put_wait") :
             /\ u \in Threads \ {t} /\ pc[u] = "put_wait"
             /\ pc' = [[pc EXCEPT ![t] = "working"] EXCEPT ![u] = "put"]
    <3>1. pc[t] # "put_wait"
      BY <2>1
    <3> QED
      BY <1>0, <2>1, <2>2, <3>1, NotifyPicks
  <2>4. CASE At("put_wait") = {} /\ pc' = [pc EXCEPT ![t] = "working"]
    <3>1. At("put_wait")' = {}
      BY <1>0, <2>4 DEF At, TypeOK
    <3> QED
      BY <3>1 DEF PutterWakes
  <2>5. ASSUME NEW u \in Threads \ {t}, pc[u] = "put_wait",
               pc' = [[pc EXCEPT ![t] = "working"] EXCEPT ![u] = "put"]
        PROVE  PutterWakes'
    <3>1. Putters' = Putters \cup {u} /\ u \in Threads \ Putters
      BY <1>0, <2>1, <2>5 DEF Putters, At, TypeOK
    <3>2. Cardinality(Putters') = Cardinality(Putters) + 1 /\ Cardinality(Putters) \in Nat
      BY <3>1, ThreadSets DEF Putters, At
    <3>3. At("put_wait") # {}
      BY <2>5 DEF At
    <3> QED
      BY <1>0, <2>1, <3>2, <3>3, MaxSizePositive DEF PutterWakes, Putters
  <2> QED
    BY <2>3, <2>4, <2>5
<1>6. CASE GetCheck(t) /\ items = <<>>
  BY <1>0, <1>6, PuttersSame DEF GetCheck, TypeOK, At, Putters
<1>7. CASE GetSleep(t)
  BY <1>0, <1>7, PuttersSame DEF GetSleep, TypeOK, At, Putters
<1>8. CASE Expire(t)
  BY <1>0, <1>8, PuttersSame DEF Expire, TypeOK, At, Putters
<1>9. CASE WakeExpired(t)
  BY <1>0, <1>9, PuttersSame DEF WakeExpired, TypeOK, At, Putters
<1>10. CASE TaskDone(t)
  <2>1. /\ UNCHANGED items /\ pc[t] = "working" /\ pc'[t] \notin PutPoints
        /\ \A u \in Threads \ {t} :
             pc'[u] = pc[u] \/ (pc[u] = "join_wait" /\ pc'[u] = "join")
    BY <1>0, <1>10 DEF TaskDone, AllNotified, TypeOK, PutPoints
  <2>2. At("put_wait")' \subseteq At("put_wait") /\ Putters \subseteq Putters'
    BY <2>1 DEF At, Putters, PutPoints
  <2> QED
    BY <1>0, <2>1, <2>2, PuttersSame
<1>11. CASE DoneStore(t)
  BY <1>0, <1>11, PuttersSame DEF DoneStore, TypeOK, At, Putters
<1>12. CASE JoinCall(t)
  BY <1>0, <1>12, PuttersSame DEF JoinCall, TypeOK, At, Putters
<1>13. CASE JoinCheck(t)
  BY <1>0, <1>13, PuttersSame DEF JoinCheck, TypeOK, At, Putters
<1>14. ASSUME NEW x \in Items, Reenter(t, x)
       PROVE  PutterWakes'
  <2>1. /\ pc'[t] = pc[t]
        /\ \A u \in Threads \ {t} :
             pc'[u] = pc[u] \/ (pc[u] = "get_wait" /\ pc'[u] = "get")
    BY <1>0, <1>14, NotifiedMoves, ReentrantPoints
    DEF Reenter, TypeOK, Points, GetPoints
  <2>2. Len(items') = Len(items) + 1
    BY <1>0, <1>14, AppendProperties DEF Reenter, TypeOK
  <2>3. Putters' = Putters /\ At("put_wait")' = At("put_wait")
    BY <2>1 DEF Putters, At
  <2> QED
    BY <1>0, <2>2, <2>3, PuttersSame
<1> QED
  BY <1>1, <1>2, <1>3, <1>4, <1>5, <1>6, <1>7, <1>8, <1>9, <1>10, <1>11, <1>12, <1>13, <1>14
  DEF Step

-----------------------------------------------------------------------------
(* No caller of join() falls asleep, the count does not become 0 and no    *)
(* thread comes between notify_all and the store.                          *)
LEMMA JoinersSame ==
  ASSUME JoinInv, unfinished' = 0 => unfinished = 0,
         At("join_wait")' \subseteq At("join_wait"),
         At("done_store")' \subseteq At("done_store")
  PROVE  JoinInv'
BY DEF JoinInv

LEMMA StepJoiners ==
  ASSUME IInv, JoinInv, NEW t \in Threads,
         \/ Step(t) \/ Expire(t) \/ JoinCall(t)
         \/ \E m \in Modes : GetCall(t, m) \/ \E x \in Items : PutCall(t, x, m)
         \/ \E x \in Items : Reenter(t, x)
  PROVE  JoinInv'
<1>0. TypeOK
  BY DEF IInv
<1>1. ASSUME NEW x \in Items, NEW m \in Modes, PutCall(t, x, m)
      PROVE  JoinInv'
  BY <1>0, <1>1, JoinersSame DEF PutCall, TypeOK, At
<1>2. CASE PutCheck(t)
  BY <1>0, <1>2, JoinersSame DEF PutCheck, TypeOK, At
<1>3. CASE PutCommit(t)
  <2>1. /\ pc'[t] = "idle"
        /\ \A u \in Threads \ {t} :
             pc'[u] = pc[u] \/ (pc[u] = "get_wait" /\ pc'[u] = "get")
    BY <1>0, <1>3, NotifiedMoves DEF PutCommit, Points, GetPoints
  <2>2. unfinished' # 0
    BY <1>0, <1>3 DEF PutCommit, TypeOK
  <2> QED
    BY <2>1, <2>2, JoinersSame DEF At
<1>4. ASSUME NEW m \in Modes, GetCall(t, m)
      PROVE  JoinInv'
  BY <1>0, <1>4, JoinersSame DEF GetCall, TypeOK, At
<1>5. CASE GetCheck(t) /\ items # <<>>
  <2>1. /\ pc'[t] = "working" /\ UNCHANGED unfinished
        /\ \A u \in Threads \ {t} :
             pc'[u] = pc[u] \/ (pc[u] = "put_wait" /\ pc'[u] = "put")
    BY <1>0, <1>5, GetTakes
  <2> QED
    BY <2>1, JoinersSame DEF At
<1>6. CASE GetCheck(t) /\ items = <<>>
  BY <1>0, <1>6, JoinersSame DEF GetCheck, TypeOK, At
<1>7. CASE GetSleep(t)
  BY <1>0, <1>7, JoinersSame DEF GetSleep, TypeOK, At
<1>8. CASE Expire(t)
  BY <1>0, <1>8, JoinersSame DEF Expire, TypeOK, At
<1>9. CASE WakeExpired(t)
  BY <1>0, <1>9, JoinersSame DEF WakeExpired, TypeOK, At
<1>10. CASE TaskDone(t)
  <2>1. CASE unfinished = 1
    <3>1. \A u \in Threads : pc'[u] # "join_wait"
      BY <1>0, <1>10, <2>1, LastDone
    <3> QED
      BY <3>1 DEF JoinInv, At
  <2>2. CASE unfinished # 1
    BY <1>0, <1>10, <2>2, JoinersSame DEF TaskDone, TypeOK, At
  <2> QED
    BY <2>1, <2>2
<1>11. CASE DoneStore(t)
  <2>1. At("join_wait") = {}
    BY <1>11 DEF DoneStore, JoinInv, At
  <2>2. At("join_wait")' = {}
    BY <1>0, <1>11, <2>1 DEF DoneStore, TypeOK, At
  <2> QED
    BY <2>2 DEF JoinInv
<1>12. CASE JoinCall(t)
  BY <1>0, <1>12, JoinersSame DEF JoinCall, TypeOK, At
<1>13. CASE JoinCheck(t)
  <2>1. \A u \in Threads : pc[u] # "done_store"
    BY <1>13, NoneIsNone DEF JoinCheck, IInv, MutexInv, Sections
  <2>2. UNCHANGED unfinished /\ \A u \in Threads : pc'[u] # "done_store"
    BY <1>0, <1>13, <2>1 DEF JoinCheck, TypeOK
  <2>3. CASE unfinished = 0
    BY <1>0, <1>13, <2>3, JoinersSame DEF JoinCheck, TypeOK, At
  <2>4. CASE unfinished # 0
    BY <2>2, <2>4 DEF JoinInv, At
  <2> QED
    BY <2>3, <2>4
<1>14. ASSUME NEW x \in Items, Reenter(t, x)
       PROVE  JoinInv'
  <2>1. /\ pc'[t] = pc[t]
        /\ \A u \in Threads \ {t} :
             pc'[u] = pc[u] \/ (pc[u] = "get_wait" /\ pc'[u] = "get")
    BY <1>0, <1>14, NotifiedMoves, ReentrantPoints
    DEF Reenter, TypeOK, Points, GetPoints
  <2>2. unfinished' # 0
    BY <1>0, <1>14 DEF Reenter, TypeOK
  <2> QED
    BY <2>1, <2>2, JoinersSame DEF At
<1> QED
  BY <1>1, <1>2, <1>3, <1>4, <1>5, <1>6, <1>7, <1>8, <1>9, <1>10, <1>11, <1>12, <1>13, <1>14
  DEF Step

LEMMA InductiveWake == Spec => []WakeInv
<1>1. Init => WakeInv
  <2> SUFFICES ASSUME Init PROVE WakeInv
    OBVIOUS
  <2>1. \A point \in Points \ {"idle"} : At(point) = {}
    BY DEF Init, At
  <2>2. {"get_wait", "put_wait", "join_wait"} \subseteq Points \ {"idle"}
    BY DEF Points, PutPoints, GetPoints, JoinPoints
  <2>3. GetterWakes /\ PutterWakes /\ JoinInv
    BY <2>1, <2>2 DEF GetterWakes, PutterWakes, JoinInv
  <2> QED
    BY <2>3, InitIInv DEF Init, WakeInv, SleepInv
<1>2. WakeInv /\ [Next]_vars => WakeInv'
  <2> SUFFICES ASSUME WakeInv, [Next]_vars PROVE WakeInv'
    OBVIOUS
  <2>1. IInv' /\ TypeOK /\ TypeOK'
    BY StepIInv DEF WakeInv, IInv
  <2>2. CASE UNCHANGED vars
    <3>1. SleepInv'
      BY <2>1, <2>2, SleepSame DEF WakeInv, vars, At
    <3>2. PutterWakes' /\ JoinInv'
      BY <2>2 DEF vars, WakeInv, PutterWakes, JoinInv, At
    <3> QED
      BY <2>1, <3>1, <3>2 DEF WakeInv
  <2>3. CASE Next
    <3>1. PICK t \in Threads :
            \/ Step(t) \/ Expire(t) \/ JoinCall(t)
            \/ \E m \in Modes : GetCall(t, m) \/ \E x \in Items : PutCall(t, x, m)
            \/ \E x \in Items : Reenter(t, x)
      BY <2>3 DEF Next
    <3>2. SleepInv'
      BY <3>1, StepSleep DEF WakeInv
    <3>3. PutterWakes'
      BY <2>1, <3>1, StepPutters DEF WakeInv
    <3>4. JoinInv'
      BY <3>1, StepJoiners DEF WakeInv
    <3> QED
      BY <2>1, <3>2, <3>3, <3>4 DEF WakeInv
  <2> QED
    BY <2>2, <2>3
<1> QED
  BY <1>1, <1>2, PTL DEF Spec

(* If no finalizer puts between get()'s test and its sleep, no thread      *)
(* sleeps in a condition that holds: whatever the number of consumers,     *)
(* producers and callers of join(), each notify() that matters reaches a   *)
(* thread that will act on it.                                             *)
THEOREM NoSleeperForgotten ==
  ASSUME "get_sleep" \notin ReentrantAt
  PROVE  Spec => []NoLostWakeup
<1>1. WakeInv => NoLostWakeup
  BY DEF WakeInv, SleepInv, JoinInv, NoLostWakeup, JoinerWakes
<1> QED
  BY <1>1, InductiveWake, PTL

(* Producers and callers of join() are woken whatever the finalizers do:   *)
(* the gap before get()'s sleep is the only one that can lose a wakeup.    *)
THEOREM PutAndJoinAreWoken == Spec => [](PutterWakes /\ JoinerWakes)
<1>1. WakeInv => PutterWakes /\ JoinerWakes
  BY DEF WakeInv, JoinInv, JoinerWakes
<1> QED
  BY <1>1, InductiveWake, PTL

-----------------------------------------------------------------------------
LEMMA OverSame ==
  ASSUME OverInv, IInv', Len(items') <= Len(items),
         \A u \in Threads : pc'[u] = "put_commit" => pc[u] = "put_commit" \/ Room,
         unfinished' <= Len(items') + Cardinality(Fetched)'
  PROVE  OverInv'
<1>1. Len(items) \in Nat /\ Len(items') \in Nat
  BY LenProperties DEF OverInv, IInv, TypeOK
<1>2. OvershootByOne' /\ (At("put_commit")' # {} => Bounded')
  BY <1>1, MaxSizePositive DEF OverInv, OvershootByOne, Bounded, Room, At
<1> QED
  BY <1>2 DEF OverInv, NeverOvercounted

(* Steps that leave items, the count and the fetched tasks alone.          *)
LEMMA OverQuiet ==
  ASSUME OverInv, IInv', UNCHANGED <<items, unfinished>>,
         \A u \in Threads : pc'[u] \in DonePoints <=> pc[u] \in DonePoints,
         \A u \in Threads : pc'[u] = "put_commit" => pc[u] = "put_commit" \/ Room
  PROVE  OverInv'
<1>1. Cardinality(Fetched)' = Cardinality(Fetched)
  BY FetchedSame
<1>2. Len(items') <= Len(items)
  BY LenProperties DEF OverInv, IInv, TypeOK
<1> QED
  BY <1>1, <1>2, OverSame DEF OverInv, NeverOvercounted

LEMMA StepOver ==
  ASSUME OverInv, IInv', NEW t \in Threads,
         \/ Step(t) \/ Expire(t) \/ JoinCall(t)
         \/ \E m \in Modes : GetCall(t, m) \/ \E x \in Items : PutCall(t, x, m)
         \/ \E x \in Items : Reenter(t, x)
  PROVE  OverInv'
<1> USE DEF DonePoints
<1>0. TypeOK /\ IInv /\ Len(items) \in Nat /\ Cardinality(Fetched) \in Nat
  BY LenProperties, FetchedFinite DEF OverInv, IInv, TypeOK
<1>1. ASSUME NEW x \in Items, NEW m \in Modes, PutCall(t, x, m)
      PROVE  OverInv'
  BY <1>0, <1>1, OverQuiet DEF PutCall, TypeOK
<1>2. CASE PutCheck(t)
  BY <1>0, <1>2, OverQuiet DEF PutCheck, TypeOK
<1>3. CASE PutCommit(t)
  <2>1. /\ pc[t] = "put_commit" /\ pc'[t] = "idle"
        /\ \A u \in Threads \ {t} :
             pc'[u] = pc[u] \/ (pc[u] = "get_wait" /\ pc'[u] = "get")
    BY <1>0, <1>3, NotifiedMoves DEF PutCommit, Points, GetPoints
  <2>2. Len(items') = Len(items) + 1 /\ unfinished' = unfinished + 1
    BY <1>0, <1>3, AppendProperties DEF PutCommit, IInv, TypeOK, HeldInv, PutPoints
  <2>3. Bounded /\ \A u \in Threads \ {t} : pc[u] # "put_commit"
    BY <1>0, <2>1 DEF OverInv, At, IInv, MutexInv, Sections
  <2>4. OvershootByOne' /\ At("put_commit")' = {}
    BY <1>0, <2>1, <2>2, <2>3, MaxSizePositive DEF OvershootByOne, Bounded, At
  <2>5. Cardinality(Fetched)' = Cardinality(Fetched)
    BY <2>1, FetchedSame
  <2>6. NeverOvercounted'
    BY <1>0, <2>2, <2>5 DEF OverInv, NeverOvercounted, TypeOK
  <2> QED
    BY <2>4, <2>6 DEF OverInv
<1>4. ASSUME NEW m \in Modes, GetCall(t, m)
      PROVE  OverInv'
  BY <1>0, <1>4, OverQuiet DEF GetCall, TypeOK
<1>5. CASE GetCheck(t) /\ items # <<>>
  <2>1. /\ pc[t] = "get" /\ pc'[t] = "working" /\ UNCHANGED unfinished
        /\ Len(items') = Len(items) - 1
        /\ \A u \in Threads \ {t} :
             pc'[u] = pc[u] \/ (pc[u] = "put_wait" /\ pc'[u] = "put")
    BY <1>0, <1>5, GetTakes
  <2>2. Cardinality(Fetched)' = Cardinality(Fetched) + 1
    BY <2>1, FetchedGains
  <2> QED
    BY <1>0, <2>1, <2>2, OverSame DEF OverInv, NeverOvercounted, TypeOK
<1>6. CASE GetCheck(t) /\ items = <<>>
  BY <1>0, <1>6, OverQuiet DEF GetCheck, TypeOK
<1>7. CASE GetSleep(t)
  BY <1>0, <1>7, OverQuiet DEF GetSleep, TypeOK
<1>8. CASE Expire(t)
  BY <1>0, <1>8, OverQuiet DEF Expire, TypeOK
<1>9. CASE WakeExpired(t)
  BY <1>0, <1>9, OverQuiet DEF WakeExpired, TypeOK
<1>10. CASE TaskDone(t)
  <2>0. /\ UNCHANGED items /\ pc[t] = "working"
        /\ \A u \in Threads : pc'[u] = "put_commit" => pc[u] = "put_commit"
    BY <1>0, <1>10 DEF TaskDone, AllNotified, TypeOK
  <2>1. CASE unfinished = 0
    <3>1. Cardinality(Fetched)' \in Nat /\ unfinished' = 0
      BY <1>10, <2>1, ThreadSets DEF TaskDone, Fetched
    <3> QED
      BY <1>0, <2>0, <3>1, OverSame
  <2>2. CASE unfinished = 1
    <3>1. /\ unfinished' = unfinished
          /\ \A u \in Threads : pc'[u] \in DonePoints <=> pc[u] \in DonePoints
      BY <1>0, <1>10, <2>2, LastDone
    <3> QED
      BY <2>0, <3>1, OverQuiet
  <2>3. CASE unfinished > 1
    <3>1. unfinished' = unfinished - 1
      BY <1>10, <2>3 DEF TaskDone
    <3>2. Cardinality(Fetched)' = Cardinality(Fetched) - 1
      BY <1>0, <1>10, <2>3, FetchedLoses DEF TaskDone, TypeOK
    <3> QED
      BY <1>0, <2>0, <3>1, <3>2, OverSame DEF OverInv, NeverOvercounted, TypeOK
  <2> QED
    BY <1>0, <2>1, <2>2, <2>3 DEF TypeOK
<1>11. CASE DoneStore(t)
  <2>1. /\ UNCHANGED items /\ unfinished' = 0
        /\ \A u \in Threads : pc'[u] = "put_commit" => pc[u] = "put_commit"
    BY <1>0, <1>11 DEF DoneStore, TypeOK
  <2>2. Cardinality(Fetched)' \in Nat
    BY ThreadSets DEF Fetched
  <2> QED
    BY <1>0, <2>1, <2>2, OverSame
<1>12. CASE JoinCall(t)
  BY <1>0, <1>12, OverQuiet DEF JoinCall, TypeOK
<1>13. CASE JoinCheck(t)
  BY <1>0, <1>13, OverQuiet DEF JoinCheck, TypeOK
<1>14. ASSUME NEW x \in Items, Reenter(t, x)
       PROVE  OverInv'
  <2>1. /\ pc'[t] = pc[t]
        /\ \A u \in Threads \ {t} :
             pc'[u] = pc[u] \/ (pc[u] = "get_wait" /\ pc'[u] = "get")
    BY <1>0, <1>14, NotifiedMoves, ReentrantPoints
    DEF Reenter, TypeOK, Points, GetPoints
  <2>2. Len(items') = Len(items) + 1 /\ unfinished' = unfinished + 1
    BY <1>0, <1>14, AppendProperties DEF Reenter, TypeOK
  <2>3. Cardinality(Fetched)' = Cardinality(Fetched)
    BY <2>1, FetchedSame
  <2>4. Bounded' /\ OvershootByOne'
    BY <1>0, <1>14, <2>2, MaxSizePositive DEF Reenter, Room, Bounded, OvershootByOne
  <2>5. NeverOvercounted'
    BY <1>0, <2>2, <2>3 DEF OverInv, NeverOvercounted, TypeOK
  <2> QED
    BY <2>4, <2>5 DEF OverInv
<1> QED
  BY <1>1, <1>2, <1>3, <1>4, <1>5, <1>6, <1>7, <1>8, <1>9, <1>10, <1>11, <1>12, <1>13, <1>14
  DEF Step

(* However often and wherever finalizers put, the queue oversteps maxsize  *)
(* by one item at most and the count is never too high, so that no flush   *)
(* waits for a task that does not exist.                                   *)
THEOREM OffByOne == Spec => []OffByOneAtMost
<1>1. Init => OverInv
  <2> SUFFICES ASSUME Init PROVE OverInv
    OBVIOUS
  <2>1. Cardinality(Fetched) \in Nat /\ Len(items) = 0 /\ unfinished = 0
    BY FetchedFinite DEF Init
  <2> QED
    BY <2>1, InitIInv, MaxSizePositive
    DEF OverInv, OvershootByOne, Bounded, NeverOvercounted
<1>2. OverInv /\ [Next]_vars => OverInv'
  <2> SUFFICES ASSUME OverInv, [Next]_vars PROVE OverInv'
    OBVIOUS
  <2>1. IInv'
    BY StepIInv DEF OverInv
  <2>2. CASE UNCHANGED vars
    BY <2>1, <2>2, OverQuiet DEF vars
  <2>3. CASE Next
    BY <2>1, <2>3, StepOver DEF Next
  <2> QED
    BY <2>2, <2>3
<1>3. OverInv => OffByOneAtMost
  BY DEF OverInv, IInv, OffByOneAtMost
<1> QED
  BY <1>1, <1>2, <1>3, PTL DEF Spec
=============================================================================

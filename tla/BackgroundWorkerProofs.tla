------------------------ MODULE BackgroundWorkerProofs ------------------------
(***************************************************************************)
(* Theorems about BackgroundWorker for any clients, worker threads, jobs   *)
(* and queue size.  IInv is the inductive invariant.  Then theorems about  *)
(* an instance of AsyncWorker.                                             *)
(***************************************************************************)
EXTENDS BackgroundWorker, AsyncWorkerProperties, FiniteSetTheorems, SequenceTheorems, TLAPS

(* Who has a job in hand, and who has not.                                 *)
JobInv ==
  /\ \A c \in Callers : pc[c] \in {"alive", "start", "put"} => cjob[c] \in Jobs
  /\ \A w \in Workers : wpc[w] = "run" => wjob[w] \in Jobs
  /\ \A w \in Workers : wpc[w] \in {"new", "get"} => wjob[w] = None

(* The count covers what is queued or being worked on, and nothing else    *)
(* unless a fork has left a busy thread behind.                            *)
Pending == Len(queue) + Cardinality(Busy)
CountInv == Pending <= unfinished /\ CountOfWork

(* _thread is the one worker thread that no kill() has paid for.           *)
Unkilled == IF thread \in Live THEN 1 ELSE 0
ThreadInv ==
  /\ thread \in Live => threadForPid = pid
  /\ Cardinality(Live) <= kills + Unkilled

(* A job that was accepted is on its way, unless a fork has left it behind *)
(* in a busy thread, which the count remembers.                            *)
OnTheirWay ==
  {j \in Jobs : \/ j \in finished
                \/ \E i \in DOMAIN queue : queue[i] = j
                \/ \E w \in Workers : wpc[w] = "run" /\ wjob[w] = j}
DrainInv ==
  /\ \A c \in Clients : awaited[c] \subseteq accepted
  /\ Pending < unfinished \/ accepted \subseteq OnTheirWay

IInv == TypeOK /\ JobInv /\ CountInv /\ ThreadInv /\ DrainInv /\ ConsumerRemains

-----------------------------------------------------------------------------
(* The sets whose sizes the invariants compare are finite.                 *)
LEMMA Finite ==
  ASSUME TypeOK
  PROVE  /\ IsFiniteSet(Live) /\ Cardinality(Live) \in Nat
         /\ IsFiniteSet(Busy) /\ Cardinality(Busy) \in Nat
         /\ IsFiniteSet(TakenTerminators) /\ Cardinality(TakenTerminators) \in Nat
         /\ IsFiniteSet(QueuedTerminators) /\ Cardinality(QueuedTerminators) \in Nat
         /\ Len(queue) \in Nat /\ DOMAIN queue = 1..Len(queue)
<1>1. IsFiniteSet(Live) /\ IsFiniteSet(Busy)
  BY NumberedWorkers, FS_Subset DEF Live, Busy
<1>2. IsFiniteSet(TakenTerminators)
  BY <1>1, FS_Subset DEF TakenTerminators
<1>3. Len(queue) \in Nat /\ DOMAIN queue = 1..Len(queue)
  BY DEF TypeOK
<1>4. IsFiniteSet(QueuedTerminators)
  <2>1. QueuedTerminators \in SUBSET (1..Len(queue))
    BY <1>3 DEF QueuedTerminators
  <2>2. IsFiniteSet(1..Len(queue))
    BY <1>3, FS_Interval
  <2> QED
    BY <2>1, <2>2, FS_Subset
<1> QED
  BY <1>1, <1>2, <1>3, <1>4, FS_CardinalityType

(* What put_nowait does to the queued terminators.                         *)
LEMMA Appended ==
  ASSUME TypeOK, NEW e \in Jobs \cup {Terminator}, queue' = Append(queue, e)
  PROVE  /\ queue' \in Seq(Jobs \cup {Terminator}) /\ Len(queue') = Len(queue) + 1
         /\ \A i \in DOMAIN queue : i \in DOMAIN queue' /\ queue'[i] = queue[i]
         /\ \E i \in DOMAIN queue' : queue'[i] = e
         /\ Cardinality(QueuedTerminators') =
              Cardinality(QueuedTerminators) + (IF e = Terminator THEN 1 ELSE 0)
<1>1. /\ queue' \in Seq(Jobs \cup {Terminator}) /\ Len(queue') = Len(queue) + 1
      /\ DOMAIN queue' = 1..(Len(queue) + 1) /\ DOMAIN queue = 1..Len(queue)
      /\ Len(queue) \in Nat
      /\ \A i \in 1..Len(queue) : queue'[i] = queue[i]
      /\ queue'[Len(queue) + 1] = e
  BY DEF TypeOK
<1>2. CASE e # Terminator
  <2>1. QueuedTerminators' = QueuedTerminators
    BY <1>1, <1>2 DEF QueuedTerminators
  <2> QED
    BY <1>1, <1>2, <2>1, Finite
<1>3. CASE e = Terminator
  <2>1. QueuedTerminators' = QueuedTerminators \cup {Len(queue) + 1}
    BY <1>1, <1>3 DEF QueuedTerminators
  <2>2. Len(queue) + 1 \notin QueuedTerminators
    BY <1>1 DEF QueuedTerminators
  <2>3. Cardinality(QueuedTerminators') = Cardinality(QueuedTerminators) + 1
    BY <2>1, <2>2, Finite, FS_AddElement
  <2> QED
    BY <1>1, <1>3, <2>3
<1> QED
  BY <1>2, <1>3

(* What get() does to them: they move down by one.                         *)
LEMMA Removed ==
  ASSUME TypeOK, queue # <<>>, queue' = Tail(queue)
  PROVE  /\ queue' \in Seq(Jobs \cup {Terminator}) /\ Len(queue') = Len(queue) - 1
         /\ Head(queue) \in Jobs \cup {Terminator}
         /\ \A i \in DOMAIN queue :
              queue[i] = Head(queue) \/ \E k \in DOMAIN queue' : queue'[k] = queue[i]
         /\ Cardinality(QueuedTerminators') =
              Cardinality(QueuedTerminators) - (IF Head(queue) = Terminator THEN 1 ELSE 0)
<1>1. /\ queue' \in Seq(Jobs \cup {Terminator}) /\ Len(queue') = Len(queue) - 1
      /\ Head(queue) = queue[1] /\ Head(queue) \in Jobs \cup {Terminator}
      /\ DOMAIN queue' = 1..(Len(queue) - 1) /\ DOMAIN queue = 1..Len(queue)
      /\ Len(queue) \in Nat \ {0}
      /\ \A i \in 1..(Len(queue) - 1) : queue'[i] = queue[i + 1]
  BY DEF TypeOK
<1>2. ASSUME NEW i \in DOMAIN queue, i # 1
      PROVE  i - 1 \in DOMAIN queue' /\ queue'[i - 1] = queue[i]
  BY <1>1, <1>2
<1>3. \A i \in DOMAIN queue :
        queue[i] = Head(queue) \/ \E k \in DOMAIN queue' : queue'[k] = queue[i]
  BY <1>1, <1>2
<1> DEFINE rest == QueuedTerminators \ {1}
           down == [i \in rest |-> i - 1]
<1>4. Cardinality(QueuedTerminators') = Cardinality(rest)
  <2>1. down \in [rest -> QueuedTerminators']
    BY <1>1, <1>2 DEF QueuedTerminators
  <2>2. \A i, k \in rest : down[i] = down[k] => i = k
    BY <1>1 DEF QueuedTerminators
  <2>3. \A k \in QueuedTerminators' : k + 1 \in rest /\ down[k + 1] = k
    BY <1>1 DEF QueuedTerminators
  <2>4. down \in Bijection(rest, QueuedTerminators')
    <3>1. IsInjective(down)
      BY <2>2 DEF IsInjective
    <3>2. \A k \in QueuedTerminators' : \E i \in rest : down[i] = k
      BY <2>3
    <3> QED
      BY <2>1, <3>1, <3>2 DEF Bijection, Injection, Surjection
  <2>5. IsFiniteSet(rest)
    BY Finite, FS_Subset
  <2> QED
    BY <2>4, <2>5, FS_Bijection DEF ExistsBijection
<1>5. CASE Head(queue) = Terminator
  <2>1. 1 \in QueuedTerminators
    BY <1>1, <1>5 DEF QueuedTerminators
  <2> QED
    BY <1>1, <1>3, <1>4, <1>5, <2>1, Finite, FS_RemoveElement
<1>6. CASE Head(queue) # Terminator
  <2>1. 1 \notin QueuedTerminators
    BY <1>1, <1>6 DEF QueuedTerminators
  <2>2. rest = QueuedTerminators
    BY <2>1
  <2>3. /\ Cardinality(QueuedTerminators') = Cardinality(QueuedTerminators)
        /\ Cardinality(QueuedTerminators) \in Nat
    BY <1>4, <2>2, Finite
  <2> QED
    BY <1>1, <1>3, <1>6, <2>3
<1> QED
  BY <1>5, <1>6

(* Calls that only move the caller.                                        *)
LEMMA SameWork ==
  ASSUME IInv, UNCHANGED <<queue, unfinished, wpc, wjob, finished, accepted, kills>>,
         UNCHANGED <<thread, threadForPid, pid>>,
         \A c \in Clients : awaited'[c] \subseteq accepted
  PROVE  CountInv' /\ ThreadInv' /\ DrainInv' /\ ConsumerRemains'
<1>1. UNCHANGED <<Live, Busy, TakenTerminators, QueuedTerminators, OnTheirWay>>
  BY DEF Live, Busy, TakenTerminators, QueuedTerminators, OnTheirWay
<1>2. UNCHANGED <<Pending, Unkilled>>
  BY <1>1 DEF Pending, Unkilled
<1> QED
  BY <1>1, <1>2 DEF IInv, CountInv, CountOfWork, ThreadInv, DrainInv, ConsumerRemains

-----------------------------------------------------------------------------
LEMMA InitIInv == Init => IInv
<1> SUFFICES ASSUME Init PROVE IInv
  OBVIOUS
<1>1. Live = {} /\ Busy = {} /\ TakenTerminators = {} /\ QueuedTerminators = {}
  BY DEF Init, Live, Busy, TakenTerminators, QueuedTerminators
<1>2. Cardinality({}) = 0
  BY FS_EmptySet
<1>3. TypeOK
  <2>1. queue \in Seq(Jobs \cup {Terminator})
    BY EmptySeq DEF Init
  <2>2. pid \in 0..MaxForks /\ kills \in 0..MaxKills /\ flushes \in 0..MaxFlushes
    BY Bounds DEF Init
  <2>3. /\ unfinished \in Nat /\ lock \in Clients \cup {None}
        /\ thread \in Workers \cup {None} /\ threadForPid \in 0..MaxForks \cup {None}
        /\ canStart \in BOOLEAN /\ stray \in BOOLEAN
        /\ accepted \subseteq Jobs /\ owned \subseteq accepted /\ finished \subseteq Jobs
    BY DEF Init
  <2>4. /\ wpc \in [Workers -> {"new", "get", "run", "report", "dead"}]
        /\ wjob \in [Workers -> Jobs \cup {Terminator, None}]
        /\ pc \in [Callers -> {"idle", "alive", "start", "put", "flush1", "flush2",
                               "raised", "gone"}]
        /\ cjob \in [Callers -> Jobs \cup {None}]
        /\ awaited \in [Clients -> SUBSET Jobs]
    BY DEF Init
  <2> QED
    BY <2>1, <2>2, <2>3, <2>4 DEF TypeOK
<1>4. JobInv
  BY DEF Init, JobInv, Callers
<1>5. CountInv /\ ThreadInv /\ DrainInv /\ ConsumerRemains
  BY <1>1, <1>2 DEF Init, CountInv, CountOfWork, Pending, ThreadInv, Unkilled,
                    DrainInv, ConsumerRemains
<1> QED
  BY <1>3, <1>4, <1>5 DEF IInv

LEMMA StepIInv == IInv /\ [Next]_vars => IInv'
<1> SUFFICES ASSUME IInv, [Next]_vars PROVE IInv'
  OBVIOUS
<1>0. /\ TypeOK /\ JobInv /\ Clients \subseteq Callers /\ Workers \subseteq Callers
      /\ pc \in [Callers -> {"idle", "alive", "start", "put", "flush1", "flush2",
                             "raised", "gone"}]
      /\ wpc \in [Workers -> {"new", "get", "run", "report", "dead"}]
  BY DEF IInv, TypeOK, Callers
<1>1. ASSUME NEW c \in Callers, NEW j \in Jobs, Submit(c, j)
      PROVE  IInv'
  <2>1. TypeOK' /\ JobInv'
    BY <1>0, <1>1 DEF TypeOK, JobInv, Submit, threadVars, workerVars, calls
  <2>2. CountInv' /\ ThreadInv' /\ DrainInv' /\ ConsumerRemains'
    BY <1>1, SameWork DEF IInv, DrainInv, Submit, threadVars, workerVars, calls
  <2> QED
    BY <2>1, <2>2 DEF IInv
<1>2. ASSUME NEW c \in Callers, AliveCall(c)
      PROVE  IInv'
  <2>1. TypeOK' /\ JobInv'
    BY <1>0, <1>2 DEF TypeOK, JobInv, AliveCall, threadVars, workerVars, calls
  <2>2. CountInv' /\ ThreadInv' /\ DrainInv' /\ ConsumerRemains'
    BY <1>2, SameWork DEF IInv, DrainInv, AliveCall, threadVars, workerVars, calls
  <2> QED
    BY <2>1, <2>2 DEF IInv
<1>3. ASSUME NEW c \in Callers, Start(c)
      PROVE  IInv'
  <2>1. TypeOK' /\ JobInv'
    BY <1>0, <1>3 DEF TypeOK, JobInv, Start, StartUnless, IsNext, calls
  <2>2. CASE IsAlive
    BY <1>3, <2>1, <2>2, SameWork DEF IInv, DrainInv, Start, StartUnless, calls
  <2>3. CASE ~IsAlive /\ ~canStart
    <3>1. thread \notin Live
      BY <2>3, Distinct DEF IsAlive, IInv, ThreadInv, Live
    <3>2. /\ thread' = None /\ pid' = pid
          /\ UNCHANGED <<queue, unfinished, wpc, wjob, finished, accepted, awaited, kills>>
      BY <1>3, <2>3 DEF Start, StartUnless, calls
    <3>3. UNCHANGED <<Live, Busy, TakenTerminators, QueuedTerminators, OnTheirWay>>
      BY <3>2 DEF Live, Busy, TakenTerminators, QueuedTerminators, OnTheirWay
    <3>4. None \notin Live
      BY Distinct DEF Live
    <3>5. CountInv' /\ DrainInv'
      BY <3>2, <3>3 DEF IInv, CountInv, CountOfWork, Pending, DrainInv
    <3>6. ThreadInv'
      BY <3>1, <3>2, <3>3, <3>4 DEF IInv, ThreadInv, Unkilled
    <3>7. ConsumerRemains'
      BY <1>0, <3>2, <3>3, Finite DEF IInv, ConsumerRemains
    <3> QED
      BY <2>1, <3>5, <3>6, <3>7 DEF IInv
  <2>4. CASE ~IsAlive /\ canStart
    <3>1. thread \notin Live
      BY <2>4, Distinct DEF IsAlive, IInv, ThreadInv, Live
    <3>2. PICK w \in Workers :
            /\ wpc[w] = "new" /\ wpc' = [wpc EXCEPT ![w] = "get"]
            /\ thread' = w /\ threadForPid' = pid /\ pid' = pid
            /\ UNCHANGED <<queue, unfinished, wjob, finished, accepted, awaited, kills>>
      BY <1>3, <2>4 DEF Start, StartUnless, IsNext, calls
    <3>3. Live' = Live \cup {w} /\ w \notin Live
      BY <1>0, <3>2 DEF Live
    <3>4. Busy' = Busy /\ TakenTerminators' = TakenTerminators
      BY <1>0, <3>2, Distinct DEF Busy, TakenTerminators, Live, JobInv
    <3>5. UNCHANGED <<QueuedTerminators, OnTheirWay>>
      BY <1>0, <3>2 DEF QueuedTerminators, OnTheirWay
    <3>6. Cardinality(Live') = Cardinality(Live) + 1
      BY <1>0, <3>3, Finite, FS_AddElement
    <3>7. CountInv' /\ DrainInv'
      BY <3>2, <3>4, <3>5 DEF IInv, CountInv, CountOfWork, Pending, DrainInv
    <3>8. ThreadInv'
      BY <1>0, <3>1, <3>2, <3>3, <3>6, Finite DEF IInv, ThreadInv, Unkilled, TypeOK
    <3>9. ConsumerRemains'
      BY <1>0, <3>2, <3>4, <3>5, <3>6, Finite DEF IInv, ConsumerRemains
    <3> QED
      BY <2>1, <3>7, <3>8, <3>9 DEF IInv
  <2> QED
    BY <2>2, <2>3, <2>4
<1>4. ASSUME NEW c \in Callers, Put(c)
      PROVE  IInv'
  <2>1. /\ cjob[c] \in Jobs /\ cjob[c] # Terminator
        /\ UNCHANGED <<thread, threadForPid, pid, wpc, wjob, finished, awaited, kills>>
    BY <1>0, <1>4, Distinct DEF JobInv, Put, threadVars, workerVars, calls
  <2>2. CASE Room
    <3>1. /\ queue' = Append(queue, cjob[c]) /\ unfinished' = unfinished + 1
          /\ accepted' = accepted \cup {cjob[c]}
      BY <1>4, <2>2 DEF Put
    <3>2. /\ queue' \in Seq(Jobs \cup {Terminator}) /\ Len(queue') = Len(queue) + 1
          /\ \A i \in DOMAIN queue : i \in DOMAIN queue' /\ queue'[i] = queue[i]
          /\ \E i \in DOMAIN queue' : queue'[i] = cjob[c]
          /\ Cardinality(QueuedTerminators') = Cardinality(QueuedTerminators)
      BY <1>0, <2>1, <3>1, Finite, Appended
    <3>3. TypeOK' /\ JobInv'
      BY <1>0, <1>4, <2>1, <3>1, <3>2
      DEF TypeOK, JobInv, Put, threadVars, workerVars, calls
    <3>4. UNCHANGED <<Live, Busy, TakenTerminators>>
      BY <2>1 DEF Live, Busy, TakenTerminators
    <3>5. OnTheirWay \cup {cjob[c]} \subseteq OnTheirWay'
      BY <2>1, <3>2 DEF OnTheirWay
    <3>6. CountInv' /\ DrainInv'
      <4>1. /\ Pending \in Nat /\ unfinished \in Nat
            /\ Pending' = Pending + 1 /\ unfinished' = unfinished + 1
        <5>1. /\ Len(queue) \in Nat /\ Cardinality(Busy) \in Nat /\ unfinished \in Nat
              /\ Cardinality(Busy') = Cardinality(Busy)
          BY <1>0, <3>4, Finite DEF TypeOK
        <5>2. Len(queue') = Len(queue) + 1 /\ unfinished' = unfinished + 1
          BY <3>1, <3>2
        <5>3. Pending' = Pending + 1 /\ Pending \in Nat
          BY <5>1, <5>2 DEF Pending
        <5> QED
          BY <5>1, <5>2, <5>3
      <4>2. CountInv'
        BY <2>1, <3>2, <3>4, <4>1 DEF IInv, CountInv, CountOfWork, Pending
      <4>3. \A d \in Clients : awaited'[d] \subseteq accepted'
        BY <2>1, <3>1 DEF IInv, DrainInv
      <4>4. Pending < unfinished => Pending' < unfinished'
        BY <4>1
      <4>5. accepted \subseteq OnTheirWay => accepted' \subseteq OnTheirWay'
        BY <3>1, <3>5
      <4> QED
        BY <4>2, <4>3, <4>4, <4>5 DEF IInv, DrainInv
    <3>7. ThreadInv' /\ ConsumerRemains'
      BY <2>1, <3>2, <3>4 DEF IInv, ThreadInv, Unkilled, ConsumerRemains
    <3> QED
      BY <3>3, <3>6, <3>7 DEF IInv
  <2>3. CASE ~Room
    <3>1. TypeOK' /\ JobInv'
      BY <1>0, <1>4, <2>3 DEF TypeOK, JobInv, Put, threadVars, workerVars, calls
    <3>2. CountInv' /\ ThreadInv' /\ DrainInv' /\ ConsumerRemains'
      BY <1>4, <2>1, <2>3, SameWork DEF IInv, DrainInv, Put
    <3> QED
      BY <3>1, <3>2 DEF IInv
  <2> QED
    BY <2>2, <2>3
<1>5. ASSUME NEW c \in Callers, Kill(c)
      PROVE  IInv'
  <2>0. kills' \in 0..MaxKills
    BY <1>0, <1>5, Bounds DEF TypeOK, Kill, KillBy
  <2>1. /\ thread # None /\ thread' = None /\ pid' = pid /\ kills' = kills + 1
        /\ UNCHANGED <<wpc, wjob, finished, awaited, accepted>>
    BY <1>5 DEF Kill, KillBy, workerVars, clientVars
  <2>2. UNCHANGED <<Live, Busy, TakenTerminators>>
    BY <2>1 DEF Live, Busy, TakenTerminators
  <2>3. None \notin Live
    BY Distinct DEF Live
  <2>4. ThreadInv'
    BY <1>0, <2>1, <2>2, <2>3, Finite DEF IInv, ThreadInv, Unkilled, TypeOK
  <2>5. JobInv'
    BY <1>0, <1>5 DEF JobInv, Kill, KillBy, workerVars, clientVars
  <2>6. CASE Room
    <3>1. queue' = Append(queue, Terminator) /\ unfinished' = unfinished + 1
      BY <1>5, <2>6 DEF Kill, KillBy
    <3>2. /\ queue' \in Seq(Jobs \cup {Terminator}) /\ Len(queue') = Len(queue) + 1
          /\ \A i \in DOMAIN queue : i \in DOMAIN queue' /\ queue'[i] = queue[i]
          /\ Cardinality(QueuedTerminators') = Cardinality(QueuedTerminators) + 1
      BY <1>0, <3>1, Appended
    <3>3. TypeOK'
      BY <1>0, <1>5, <2>0, <3>1, <3>2
      DEF TypeOK, Callers, Kill, KillBy, workerVars, clientVars
    <3>4. OnTheirWay \subseteq OnTheirWay'
      BY <2>1, <3>2 DEF OnTheirWay
    <3>5. CountInv' /\ DrainInv'
      BY SMTT(30), <1>0, <2>1, <2>2, <3>1, <3>2, <3>4, Finite
      DEF IInv, CountInv, CountOfWork, Pending, DrainInv, TypeOK
    <3>6. ConsumerRemains'
      BY <1>0, <2>1, <2>2, <3>2, Finite DEF IInv, ConsumerRemains
    <3> QED
      BY <2>4, <2>5, <3>3, <3>5, <3>6 DEF IInv
  <2>7. CASE ~Room
    <3>1. UNCHANGED <<queue, unfinished>>
      BY <1>5, <2>7 DEF Kill, KillBy
    <3>2. UNCHANGED <<QueuedTerminators, OnTheirWay>>
      BY <2>1, <3>1 DEF QueuedTerminators, OnTheirWay
    <3>3. TypeOK'
      BY <1>0, <1>5, <2>0, <3>1
      DEF TypeOK, Callers, Kill, KillBy, workerVars, clientVars
    <3>4. CountInv' /\ DrainInv'
      BY <2>1, <2>2, <3>1, <3>2 DEF IInv, CountInv, CountOfWork, Pending, DrainInv
    <3>5. ConsumerRemains'
      BY <1>0, <2>1, <2>2, <3>2, Finite DEF IInv, ConsumerRemains
    <3> QED
      BY <2>4, <2>5, <3>3, <3>4, <3>5 DEF IInv
  <2> QED
    BY <2>6, <2>7
<1>6. ASSUME NEW c \in Callers, Flush(c)
      PROVE  IInv'
  <2>0. flushes' \in 0..MaxFlushes
    BY <1>0, <1>6, Bounds DEF TypeOK, Flush
  <2>1. TypeOK' /\ JobInv'
    BY <1>0, <1>6, <2>0 DEF TypeOK, JobInv, Callers, Flush, threadVars, workerVars
  <2>2. \A d \in Clients : awaited'[d] \subseteq accepted
    BY <1>0, <1>6 DEF IInv, DrainInv, TypeOK, Flush
  <2>3. CountInv' /\ ThreadInv' /\ DrainInv' /\ ConsumerRemains'
    BY <1>6, <2>2, SameWork DEF Flush, threadVars, workerVars
  <2> QED
    BY <2>1, <2>3 DEF IInv
<1>7. ASSUME NEW c \in Callers, FlushDone(c)
      PROVE  IInv'
  <2>1. TypeOK' /\ JobInv'
    BY <1>0, <1>7 DEF TypeOK, JobInv, FlushDone, threadVars, workerVars, calls
  <2>2. CountInv' /\ ThreadInv' /\ DrainInv' /\ ConsumerRemains'
    BY <1>7, SameWork DEF IInv, DrainInv, FlushDone, threadVars, workerVars, calls
  <2> QED
    BY <2>1, <2>2 DEF IInv
<1>8. ASSUME NEW c \in Callers, FlushTimeout(c)
      PROVE  IInv'
  <2>1. TypeOK' /\ JobInv'
    BY <1>0, <1>8 DEF TypeOK, JobInv, FlushTimeout, TimeUp, threadVars, workerVars, calls
  <2>2. CountInv' /\ ThreadInv' /\ DrainInv' /\ ConsumerRemains'
    BY <1>8, SameWork
    DEF IInv, DrainInv, FlushTimeout, TimeUp, threadVars, workerVars, calls
  <2> QED
    BY <2>1, <2>2 DEF IInv
<1>9. ASSUME NEW w \in Workers, WorkerGet(w)
      PROVE  IInv'
  <2>1. /\ wpc[w] = "get" /\ queue # <<>> /\ queue' = Tail(queue)
        /\ wjob[w] = None /\ wjob' = [wjob EXCEPT ![w] = Head(queue)]
        /\ wpc' = [wpc EXCEPT ![w] = IF Head(queue) = Terminator THEN "report" ELSE "run"]
        /\ UNCHANGED <<unfinished, thread, threadForPid, pid, finished, awaited,
                       accepted, kills>>
    BY <1>0, <1>9 DEF JobInv, WorkerGet, Fetch, threadVars, clientVars, calls
  <2>2. /\ queue' \in Seq(Jobs \cup {Terminator}) /\ Len(queue') = Len(queue) - 1
        /\ Head(queue) \in Jobs \cup {Terminator}
        /\ \A i \in DOMAIN queue :
             queue[i] = Head(queue) \/ \E k \in DOMAIN queue' : queue'[k] = queue[i]
        /\ Cardinality(QueuedTerminators') =
             Cardinality(QueuedTerminators) - (IF Head(queue) = Terminator THEN 1 ELSE 0)
    BY <1>0, <2>1, Removed
  <2>3. TypeOK' /\ JobInv'
    BY <1>0, <1>9, <2>1, <2>2
    DEF TypeOK, JobInv, WorkerGet, Fetch, threadVars, clientVars, calls
  <2>4. Live' = Live
    BY <1>0, <2>1 DEF Live
  <2>5. Cardinality(Busy') = Cardinality(Busy) + 1
    <3>1. Busy' = Busy \cup {w} /\ w \notin Busy
      BY <1>0, <2>1 DEF Busy
    <3> QED
      BY <1>0, <3>1, Finite, FS_AddElement
  <2>6. Cardinality(TakenTerminators') =
          Cardinality(TakenTerminators) + (IF Head(queue) = Terminator THEN 1 ELSE 0)
    <3>1. w \notin TakenTerminators
      BY <2>1, Distinct DEF TakenTerminators
    <3>2. CASE Head(queue) = Terminator
      <4>1. TakenTerminators' = TakenTerminators \cup {w}
        BY <1>0, <2>1, <2>4, <3>2 DEF TakenTerminators, Live, TypeOK
      <4> QED
        BY <1>0, <3>1, <3>2, <4>1, Finite, FS_AddElement
    <3>3. CASE Head(queue) # Terminator
      <4>1. TakenTerminators' = TakenTerminators
        BY <1>0, <2>1, <2>4, <3>1, <3>3 DEF TakenTerminators, TypeOK
      <4> QED
        BY <1>0, <3>3, <4>1, Finite
    <3> QED
      BY <3>2, <3>3
  <2>7. OnTheirWay \subseteq OnTheirWay'
    <3> SUFFICES ASSUME NEW j \in OnTheirWay PROVE j \in OnTheirWay'
      OBVIOUS
    <3>1. CASE j \in finished
      BY <2>1, <3>1 DEF OnTheirWay
    <3>2. CASE \E i \in DOMAIN queue : queue[i] = j
      <4>1. CASE j = Head(queue)
        BY <1>0, <2>1, <4>1, Distinct DEF OnTheirWay, TypeOK
      <4> QED
        BY <2>2, <3>2, <4>1 DEF OnTheirWay
    <3>3. CASE \E v \in Workers : wpc[v] = "run" /\ wjob[v] = j
      BY <1>0, <2>1, <3>3 DEF OnTheirWay, TypeOK
    <3> QED
      BY <3>1, <3>2, <3>3 DEF OnTheirWay
  <2>8. CountInv' /\ DrainInv'
    BY <1>0, <2>1, <2>2, <2>5, <2>7, Finite
    DEF IInv, CountInv, CountOfWork, Pending, DrainInv, TypeOK
  <2>9. ThreadInv' /\ ConsumerRemains'
    BY <1>0, <2>1, <2>2, <2>4, <2>6, Finite
    DEF IInv, ThreadInv, Unkilled, ConsumerRemains
  <2> QED
    BY <2>3, <2>8, <2>9 DEF IInv
<1>10. ASSUME NEW w \in Workers, WorkerRun(w)
       PROVE  IInv'
  <2>1. /\ wpc[w] = "run" /\ wjob[w] \in Jobs /\ finished' = finished \cup {wjob[w]}
        /\ wpc' = [wpc EXCEPT ![w] = "report"]
        /\ UNCHANGED <<queue, unfinished, thread, threadForPid, pid, wjob, awaited,
                       accepted, kills>>
    BY <1>0, <1>10 DEF JobInv, WorkerRun, threadVars, clientVars, calls
  <2>2. TypeOK' /\ JobInv'
    BY <1>0, <1>10, <2>1 DEF TypeOK, JobInv, WorkerRun, threadVars, clientVars, calls
  <2>3. UNCHANGED <<Live, Busy, TakenTerminators, QueuedTerminators>>
    BY <1>0, <2>1 DEF Live, Busy, TakenTerminators, QueuedTerminators
  <2>4. OnTheirWay \subseteq OnTheirWay'
    BY <1>0, <2>1 DEF OnTheirWay
  <2>5. CountInv' /\ DrainInv'
    BY <2>1, <2>3, <2>4 DEF IInv, CountInv, CountOfWork, Pending, DrainInv
  <2>6. ThreadInv' /\ ConsumerRemains'
    BY <2>1, <2>3 DEF IInv, ThreadInv, Unkilled, ConsumerRemains
  <2> QED
    BY <2>2, <2>5, <2>6 DEF IInv
<1>11. ASSUME NEW w \in Workers, WorkerReport(w)
       PROVE  IInv'
  <2>1. /\ wpc[w] = "report" /\ unfinished' = unfinished - 1
        /\ wpc' = [wpc EXCEPT ![w] = IF wjob[w] = Terminator THEN "dead" ELSE "get"]
        /\ wjob' = [wjob EXCEPT ![w] = None]
        /\ UNCHANGED <<queue, thread, threadForPid, pid, finished, awaited, accepted,
                       kills>>
    BY <1>11 DEF WorkerReport, Done, threadVars, clientVars, calls
  <2>2. Cardinality(Busy') = Cardinality(Busy) - 1 /\ Cardinality(Busy) >= 1
    <3>1. Busy' = Busy \ {w} /\ w \in Busy
      BY <1>0, <2>1 DEF Busy
    <3>2. Cardinality(Busy') = Cardinality(Busy) - 1
      BY <1>0, <3>1, Finite, FS_RemoveElement
    <3>3. Cardinality(Busy) # 0
      BY <1>0, <3>1, Finite, FS_EmptySet
    <3> QED
      BY <1>0, <3>2, <3>3, Finite
  <2>3. Cardinality(Busy) \in Nat /\ Len(queue) \in Nat /\ unfinished \in Nat
    BY <1>0, Finite DEF TypeOK
  <2>4. unfinished - 1 \in Nat
    BY <2>2, <2>3 DEF IInv, CountInv, Pending
  <2>5. TypeOK' /\ JobInv'
    BY <1>0, <1>11, <2>1, <2>4
    DEF TypeOK, JobInv, WorkerReport, Done, threadVars, clientVars, calls
  <2>6. UNCHANGED <<QueuedTerminators, OnTheirWay>>
    BY <1>0, <2>1 DEF QueuedTerminators, OnTheirWay, TypeOK
  <2>7. CountInv' /\ DrainInv'
    BY <2>1, <2>2, <2>3, <2>6 DEF IInv, CountInv, CountOfWork, Pending, DrainInv
  <2>8. CASE wjob[w] = Terminator
    <3>1. Live' = Live \ {w} /\ w \in Live
      BY <1>0, <2>1, <2>8 DEF Live
    <3>2. TakenTerminators' = TakenTerminators \ {w} /\ w \in TakenTerminators
      BY <1>0, <2>1, <2>8, <3>1, Distinct DEF TakenTerminators, TypeOK
    <3>3. /\ Cardinality(Live') = Cardinality(Live) - 1
          /\ Cardinality(TakenTerminators') = Cardinality(TakenTerminators) - 1
      BY <1>0, <3>1, <3>2, Finite, FS_RemoveElement
    <3>4. ThreadInv'
      BY <1>0, <2>1, <3>1, <3>3, Finite DEF IInv, ThreadInv, Unkilled, TypeOK
    <3>5. ConsumerRemains'
      BY <1>0, <2>1, <2>6, <3>3, Finite, SMTT(30) DEF IInv, ConsumerRemains
    <3> QED
      BY <2>5, <2>7, <3>4, <3>5 DEF IInv
  <2>9. CASE wjob[w] # Terminator
    <3>1. Live' = Live
      BY <1>0, <2>1, <2>9 DEF Live
    <3>2. TakenTerminators' = TakenTerminators
      BY <1>0, <2>1, <2>9, <3>1, Distinct DEF TakenTerminators, TypeOK
    <3>3. ThreadInv' /\ ConsumerRemains'
      BY <2>1, <2>6, <3>1, <3>2
      DEF IInv, ThreadInv, Unkilled, ConsumerRemains
    <3> QED
      BY <2>5, <2>7, <3>3 DEF IInv
  <2> QED
    BY <2>8, <2>9
<1>12. ASSUME NEW c \in Callers, Fork(c)
       PROVE  IInv'
  <2>1. /\ pid' = pid + 1 /\ pid \in Nat /\ pid < MaxForks /\ MaxForks \in Nat
        /\ wpc' = [w \in Workers |-> IF w \in Live THEN "dead" ELSE wpc[w]]
        /\ UNCHANGED <<queue, unfinished, thread, wjob, finished, awaited, accepted, kills>>
    BY <1>0, <1>12, Bounds DEF Fork, TypeOK, calls
  <2>2. TypeOK' /\ JobInv'
    BY <1>0, <1>12, <2>1 DEF TypeOK, JobInv, Fork, Live, calls
  <2>3. Live' = {} /\ Busy' = {}
    BY <1>0, <2>1 DEF Live, Busy
  <2>4. Cardinality(Live') = 0 /\ Cardinality(Busy') = 0
    BY <2>3, FS_EmptySet
  <2>5. /\ Len(queue) \in Nat /\ Cardinality(Busy) \in Nat /\ unfinished \in Nat
        /\ kills \in Nat
    BY <1>0, Finite, Bounds DEF TypeOK
  <2>6. CountInv'
    BY <2>1, <2>4, <2>5 DEF IInv, CountInv, CountOfWork, Pending
  <2>7. ThreadInv'
    BY <2>1, <2>3, <2>4, <2>5 DEF ThreadInv, Unkilled
  <2>8. DrainInv'
    <3>1. CASE Busy = {}
      <4>1. OnTheirWay \subseteq OnTheirWay'
        BY <2>1, <3>1 DEF OnTheirWay, Busy
      <4>2. Pending' = Pending
        BY <2>1, <2>3, <3>1 DEF Pending
      <4> QED
        BY <2>1, <4>1, <4>2 DEF IInv, DrainInv
    <3>2. CASE Busy # {}
      <4>1. Cardinality(Busy) # 0
        BY <1>0, <3>2, Finite, FS_EmptySet
      <4> QED
        BY <2>1, <2>4, <2>5, <4>1 DEF IInv, CountInv, DrainInv, Pending
    <3> QED
      BY <3>1, <3>2
  <2>9. ConsumerRemains'
    BY <2>1 DEF ConsumerRemains
  <2> QED
    BY <2>2, <2>6, <2>7, <2>8, <2>9 DEF IInv
<1>13. CASE ShutDown
  <2>1. TypeOK' /\ JobInv'
    BY <1>0, <1>13 DEF TypeOK, JobInv, ShutDown, workerVars, clientVars, calls
  <2>2. CountInv' /\ ThreadInv' /\ DrainInv' /\ ConsumerRemains'
    BY <1>13, SameWork DEF IInv, DrainInv, ShutDown, workerVars, clientVars, calls
  <2> QED
    BY <2>1, <2>2 DEF IInv
<1>14. CASE UNCHANGED vars
  <2>1. TypeOK' /\ JobInv'
    BY <1>0, <1>14
    DEF TypeOK, JobInv, vars, threadVars, workerVars, clientVars, calls
  <2>2. CountInv' /\ ThreadInv' /\ DrainInv' /\ ConsumerRemains'
    BY <1>14, SameWork
    DEF IInv, DrainInv, vars, threadVars, workerVars, clientVars, calls
  <2> QED
    BY <2>1, <2>2 DEF IInv
<1> QED
  BY <1>1, <1>2, <1>3, <1>4, <1>5, <1>6, <1>7, <1>8, <1>9, <1>10, <1>11, <1>12,
     <1>13, <1>14
  DEF Next, CallStep, WorkerStep

-----------------------------------------------------------------------------
LEMMA InvariantHolds == Spec => []IInv
<1> QED
  BY InitIInv, StepIInv, PTL DEF Spec

(* Every variable of the worker stays within its type; the count that      *)
(* flush() waits on never goes below zero (worker.py:148-160).             *)
THEOREM TypeCorrect == Spec => []TypeOK
<1>1. IInv => TypeOK
  BY DEF IInv
<1> QED
  BY <1>1, InvariantHolds, PTL

(* In a process that was not forked, flush() waits on exactly the jobs and *)
(* terminators that are queued or being worked on (worker.py:69-84,        *)
(* 148-160).                                                               *)
THEOREM CountsWork == Spec => []CountOfWork
<1>1. IInv => CountOfWork
  BY DEF IInv, CountInv
<1> QED
  BY <1>1, InvariantHolds, PTL

(* There is at most one worker thread more than there were kills, however  *)
(* submit() calls race and whoever takes a terminator (worker.py:86-116).  *)
THEOREM StartsOneWorker == Spec => []OneWorkerPerKill
<1>1. IInv => OneWorkerPerKill
  <2> SUFFICES ASSUME IInv PROVE OneWorkerPerKill
    OBVIOUS
  <2>1. Cardinality(Live) \in Nat /\ kills \in Nat
    BY Finite, Bounds DEF IInv, TypeOK
  <2> QED
    BY <2>1 DEF IInv, ThreadInv, Unkilled, OneWorkerPerKill
<1> QED
  BY <1>1, InvariantHolds, PTL

(* While _thread is set, a worker thread remains that no terminator will   *)
(* end (worker.py:86-116, 140-160), unless the process has forked.         *)
THEOREM KeepsConsumer == Spec => []ConsumerRemains
<1>1. IInv => ConsumerRemains
  BY DEF IInv
<1> QED
  BY <1>1, InvariantHolds, PTL

-----------------------------------------------------------------------------
(* _lock is let go by FlushDone and FlushTimeout only, and the latter sees *)
(* that the count is not 0.                                                *)
LEMMA DrainedStep ==
  ASSUME IInv, [Next]_vars, NEW c \in Clients, lock = c, lock' = None, unfinished = 0
  PROVE  awaited[c] \subseteq finished
<1>1. /\ Len(queue) \in Nat /\ Cardinality(Busy) \in Nat /\ IsFiniteSet(Busy)
      /\ DOMAIN queue = 1..Len(queue)
  BY Finite DEF IInv
<1>2. Len(queue) = 0 /\ Cardinality(Busy) = 0 /\ ~(Pending < unfinished)
  BY <1>1 DEF IInv, CountInv, Pending
<1>3. Busy = {}
  BY <1>1, <1>2, FS_EmptySet
<1>4. OnTheirWay \subseteq finished
  BY <1>1, <1>2, <1>3 DEF OnTheirWay, Busy
<1> QED
  BY <1>2, <1>4 DEF IInv, DrainInv

(* A flush() that ends because the count is 0 leaves nothing unfinished    *)
(* that was accepted before it (worker.py:118-138), in a forked child too. *)
THEOREM FlushesAll == Spec => FlushDrains
<1>1. IInv /\ [Next]_vars =>
        [\A c \in Clients :
           lock = c /\ lock' = None /\ unfinished = 0 => awaited[c] \subseteq finished]_vars
  BY DrainedStep
<1> QED
  BY <1>1, InvariantHolds, PTL DEF Spec, FlushDrains

(* There are never too few and never too many worker threads: the two      *)
(* theorems above together (worker.py:86-116, 140-160).                    *)
THEOREM HasEnoughWorkers == Spec => []EnoughWorkers
  BY TypeCorrect, KeepsConsumer, StartsOneWorker, PTL DEF EnoughWorkers
-----------------------------------------------------------------------------
(***************************************************************************)
(* The worker of the asynchronous transport.  Theorems about AsyncWorker,  *)
(* of which AsyncWorkerProperties has an instance A, for any items,        *)
(* generations, queue size and numbers of flushes and of calls of kill(),  *)
(* with what A!Constants says of them.  AInv says which handles the loop   *)
(* has, by the states of those who wait for them; which generation is at   *)
(* work; where an item is; and of a flush what those it waits for have     *)
(* come to.                                                                *)
(***************************************************************************)

(* A's finite sets and cardinalities are those of this module.             *)
LEMMA SameFiniteness ==
  \A T : A!Cardinality(T) = Cardinality(T) /\ (A!IsFiniteSet(T) <=> IsFiniteSet(T))
BY DEF A!Cardinality, Cardinality, A!IsFiniteSet, IsFiniteSet

In(s, e) == \E i \in 1..Len(s) : s[i] = e
Once(s) == \A i, j \in 1..Len(s) : s[i] = s[j] => i = j
Precedes(s, a, b) == \A i, j \in 1..Len(s) : s[i] = a /\ s[j] = b => i < j

Working == {"created", "sending", "answered", "sent"}

(* What the loop is to run, by the states of those who wait for it.        *)
DueCapture(i)  == state[i] = "posted"
DueTask(i)     == \/ state[i] \in {"created", "answered"}
                  \/ state[i] = "sending" /\ <<"task", i>> \in cancelled
DueComplete(i) == state[i] = "sent"
DueTarget(g)   == consumer[g] = "ready"
DueFlush(f)    == flush[f] \in {"begin", "timeout", "expired", "drained"}

ReadyInv ==
  /\ Once(ready)
  /\ \A i \in Items : /\ In(ready, <<"capture", i>>) <=> DueCapture(i)
                      /\ In(ready, <<"task", i>>) <=> DueTask(i)
                      /\ In(ready, <<"complete", i>>) <=> DueComplete(i)
  /\ \A g \in Generations : In(ready, <<"target", g>>) <=> DueTarget(g)
  /\ \A f \in A!Flushes : In(ready, <<"flush", f>>) <=> DueFlush(f)

(* A queue has items that are queued, each once, and no other has them.    *)
QueueInv ==
  /\ \A g \in Generations :
       Once(queues[g]) /\ \A i \in Items : In(queues[g], i) => state[i] = "queued"
  /\ \A i \in Items : state[i] = "queued" => \E g \in Generations : In(queues[g], i)
  /\ \A g, h \in Generations, i \in Items : In(queues[g], i) /\ In(queues[h], i) => g = h

(* The generation at work is the current one; those before it are          *)
(* cancelled, those after it are as in the beginning.                      *)
GenerationInv ==
  /\ task # Null => /\ task = current /\ consumer[task] \in {"ready", "waiting"}
                    /\ <<"target", task>> \notin cancelled
  /\ \A g \in Generations : g <= current /\ g # task => <<"target", g>> \in cancelled
  /\ \A g \in Generations : g > current => /\ consumer[g] = "none" /\ queues[g] = <<>>
                                           /\ <<"target", g>> \notin cancelled

ItemInv(i) ==
  /\ origin[i] # 0 <=> state[i] \in Working \cup {"finished"}
  /\ origin[i] <= current
  /\ <<"task", i>> \in cancelled => state[i] \in Working \cup {"finished"}
  /\ i \in active <=> state[i] \in Working /\ <<"task", i>> \notin cancelled
  /\ i \in active => task # Null /\ origin[i] = current

(* How many items of each generation are not complete.                     *)
Exact == \A g \in Generations : counts[g] = Len(queues[g]) + Cardinality(A!Taken(g))
CountsInv ==
  /\ IsFiniteSet(active)
  /\ \A g \in Generations : IsFiniteSet(A!Taken(g))
  /\ Exact

Core == /\ A!TypeOK /\ ReadyInv /\ QueueInv /\ GenerationInv
        /\ (\A i \in Items : ItemInv(i)) /\ CountsInv

(* What flushes wait for: an envelope that was captured before is posted   *)
(* ahead of the flush, which finds it settled, in the queue it joins, or   *)
(* taken from there.                                                       *)
Settled(i) == state[i] \in {"finished", "dropped"} \/ A!Killed(i)
Awaited(i, g) == In(queues[g], i) \/ origin[i] = g

FlushInv(f) ==
  /\ flush[f] # "new" => current # 0
  /\ \A i \in before[f] : state[i] # "new"
  /\ flush[f] = "begin" =>
       \A i \in before[f] : Precedes(ready, <<"capture", i>>, <<"flush", f>>)
  /\ flush[f] \notin {"new", "begin"} => \A i \in before[f] : state[i] # "posted"
  /\ flush[f] \in {"first", "second"} =>
       joined[f] # 0 /\ \A i \in before[f] : Settled(i) \/ Awaited(i, joined[f])
  /\ flush[f] = "drained" => \A i \in before[f] : Settled(i)

AInv == Core /\ \A f \in A!Flushes : FlushInv(f)

-----------------------------------------------------------------------------
(* Sequences of distinct elements: what is in them, and in which order.    *)
LEMMA Concatenated ==
  ASSUME NEW S, NEW s \in Seq(S), NEW t \in Seq(S), Once(s), Once(t),
         \A e : ~(In(s, e) /\ In(t, e))
  PROVE  /\ s \o t \in Seq(S) /\ Once(s \o t)
         /\ \A e : In(s \o t, e) <=> In(s, e) \/ In(t, e)
         /\ \A a, b : Precedes(s, a, b) /\ ~In(t, a) => Precedes(s \o t, a, b)
<1> DEFINE q == s \o t
<1>1. /\ q \in Seq(S) /\ Len(s) \in Nat /\ Len(t) \in Nat /\ Len(q) = Len(s) + Len(t)
      /\ \A i \in 1..Len(s) : i \in 1..Len(q) /\ q[i] = s[i]
      /\ \A i \in 1..Len(t) : i + Len(s) \in 1..Len(q) /\ q[i + Len(s)] = t[i]
  BY ConcatProperties, LenProperties
<1>2. \A i \in 1..Len(q) : \/ i \in 1..Len(s) /\ q[i] = s[i]
                           \/ i - Len(s) \in 1..Len(t) /\ q[i] = t[i - Len(s)] /\ i > Len(s)
  <2> SUFFICES ASSUME NEW i \in 1..Len(q), i > Len(s)
               PROVE  i - Len(s) \in 1..Len(t) /\ q[i] = t[i - Len(s)]
    BY <1>1
  <2>1. i - Len(s) \in 1..Len(t) /\ (i - Len(s)) + Len(s) = i
    BY <1>1
  <2> QED
    BY <1>1, <2>1
<1> HIDE DEF q
<1>3. \A e : In(q, e) <=> In(s, e) \/ In(t, e)
  <2>1. ASSUME NEW e, In(q, e) PROVE In(s, e) \/ In(t, e)
    BY <1>2, <2>1 DEF In
  <2>2. ASSUME NEW e, In(s, e) PROVE In(q, e)
    BY <1>1, <2>2 DEF In
  <2>3. ASSUME NEW e, In(t, e) PROVE In(q, e)
    <3>1. PICK i \in 1..Len(t) : t[i] = e
      BY <2>3 DEF In
    <3>2. i + Len(s) \in 1..Len(q) /\ q[i + Len(s)] = e
      BY <1>1, <3>1
    <3> QED
      BY <3>2 DEF In
  <2> QED
    BY <2>1, <2>2, <2>3
<1>4. Once(q)
  <2> SUFFICES ASSUME NEW i \in 1..Len(q), NEW j \in 1..Len(q), q[i] = q[j] PROVE i = j
    BY DEF Once
  <2>1. CASE i \in 1..Len(s) /\ q[i] = s[i] /\ j \in 1..Len(s) /\ q[j] = s[j]
    BY <2>1 DEF Once
  <2>2. CASE /\ i - Len(s) \in 1..Len(t) /\ q[i] = t[i - Len(s)]
             /\ j - Len(s) \in 1..Len(t) /\ q[j] = t[j - Len(s)]
    <3>1. i - Len(s) = j - Len(s)
      BY <2>2 DEF Once
    <3> QED
      BY <1>1, <3>1
  <2>3. \/ i \in 1..Len(s) /\ q[i] = s[i] /\ j \in 1..Len(s) /\ q[j] = s[j]
        \/ /\ i - Len(s) \in 1..Len(t) /\ q[i] = t[i - Len(s)]
           /\ j - Len(s) \in 1..Len(t) /\ q[j] = t[j - Len(s)]
    BY <1>2 DEF In
  <2> QED
    BY <2>1, <2>2, <2>3
<1>5. ASSUME NEW a, NEW b, Precedes(s, a, b), ~In(t, a) PROVE Precedes(q, a, b)
  <2> SUFFICES ASSUME NEW i \in 1..Len(q), NEW j \in 1..Len(q), q[i] = a, q[j] = b
               PROVE  i < j
    BY DEF Precedes
  <2>1. i \in 1..Len(s) /\ s[i] = a
    BY <1>2, <1>5 DEF In
  <2>2. (j \in 1..Len(s) /\ s[j] = b) \/ j > Len(s)
    BY <1>2
  <2> QED
    BY <1>1, <1>5, <2>1, <2>2 DEF Precedes
<1> QED
  BY <1>1, <1>3, <1>4, <1>5 DEF q

LEMMA Popped ==
  ASSUME NEW S, NEW s \in Seq(S), s # <<>>, Once(s)
  PROVE  /\ Tail(s) \in Seq(S) /\ Len(Tail(s)) = Len(s) - 1
         /\ Once(Tail(s)) /\ In(s, Head(s)) /\ Head(s) \in S
         /\ \A e : In(Tail(s), e) <=> In(s, e) /\ e # Head(s)
         /\ \A a, b : Precedes(s, a, b) => Precedes(Tail(s), a, b)
         /\ \A a : Precedes(s, a, Head(s)) => ~In(s, a)
<1> DEFINE q == Tail(s)
<1>1. /\ q \in Seq(S) /\ Len(s) \in Nat /\ Len(s) > 0 /\ Len(q) = Len(s) - 1
      /\ Head(s) = s[1] /\ s[1] \in S
      /\ \A i \in 1..Len(q) : i + 1 \in 1..Len(s) /\ q[i] = s[i + 1]
  BY HeadTailProperties, LenProperties, EmptySeq
<1>2. \A i \in 1..Len(s) : i = 1 \/ (i - 1 \in 1..Len(q) /\ q[i - 1] = s[i])
  <2> SUFFICES ASSUME NEW i \in 1..Len(s), i # 1
               PROVE  i - 1 \in 1..Len(q) /\ q[i - 1] = s[i]
    OBVIOUS
  <2>1. i - 1 \in 1..Len(q) /\ (i - 1) + 1 = i
    BY <1>1
  <2> QED
    BY <1>1, <2>1
<1> HIDE DEF q
<1>3. Once(q)
  <2> SUFFICES ASSUME NEW i \in 1..Len(q), NEW j \in 1..Len(q), q[i] = q[j] PROVE i = j
    BY DEF Once
  <2>1. i + 1 = j + 1
    BY <1>1 DEF Once
  <2> QED
    BY <1>1, <2>1
<1>4. 1 \in 1..Len(s) /\ In(s, Head(s))
  BY <1>1 DEF In
<1>5. ASSUME NEW e PROVE In(q, e) <=> In(s, e) /\ e # Head(s)
  <2>1. ASSUME NEW i \in 1..Len(q), q[i] = e PROVE In(s, e) /\ e # Head(s)
    <3>1. i + 1 \in 1..Len(s) /\ s[i + 1] = e /\ i + 1 # 1
      BY <1>1, <2>1
    <3> QED
      BY <1>1, <1>4, <3>1 DEF In, Once
  <2>2. ASSUME NEW i \in 1..Len(s), s[i] = e, e # Head(s) PROVE In(q, e)
    <3>1. i - 1 \in 1..Len(q) /\ q[i - 1] = e
      BY <1>1, <1>2, <2>2
    <3> QED
      BY <3>1 DEF In
  <2> QED
    BY <2>1, <2>2 DEF In
<1>6. ASSUME NEW a, NEW b, Precedes(s, a, b) PROVE Precedes(q, a, b)
  <2> SUFFICES ASSUME NEW i \in 1..Len(q), NEW j \in 1..Len(q), q[i] = a, q[j] = b
               PROVE  i < j
    BY DEF Precedes
  <2>1. i + 1 \in 1..Len(s) /\ j + 1 \in 1..Len(s) /\ s[i + 1] = a /\ s[j + 1] = b
    BY <1>1
  <2>2. i + 1 < j + 1
    BY <1>6, <2>1 DEF Precedes
  <2> QED
    BY <2>2
<1>7. ASSUME NEW a, Precedes(s, a, Head(s)), In(s, a) PROVE FALSE
  <2>1. PICK i \in 1..Len(s) : s[i] = a
    BY <1>7 DEF In
  <2>2. i < 1
    BY <1>1, <1>4, <1>7, <2>1 DEF Precedes
  <2> QED
    BY <2>2
<1> QED
  BY <1>1, <1>3, <1>4, <1>5, <1>6, <1>7 DEF q

LEMMA Few ==
  /\ \A S : <<>> \in Seq(S)
  /\ Once(<<>>) /\ \A e : ~In(<<>>, e)
  /\ \A S, a : a \in S => <<a>> \in Seq(S)
  /\ \A a : Once(<<a>>) /\ \A e : In(<<a>>, e) <=> e = a
  /\ \A S, a, b : a \in S /\ b \in S => <<a, b>> \in Seq(S)
  /\ \A a, b : /\ a # b => Once(<<a, b>>)
               /\ \A e : In(<<a, b>>, e) <=> e \in {a, b}
<1>1. /\ Once(<<>>) /\ \A e : ~In(<<>>, e)
      /\ \A S : <<>> \in Seq(S)
  BY DEF Once, In
<1>2. ASSUME NEW a
      PROVE  Once(<<a>>) /\ \A e : In(<<a>>, e) <=> e = a
  BY DEF Once, In
<1>3. ASSUME NEW a, NEW b
      PROVE  /\ a # b => Once(<<a, b>>)
             /\ \A e : In(<<a, b>>, e) <=> e \in {a, b}
  <2>1. 1..Len(<<a, b>>) = {1, 2} /\ <<a, b>>[1] = a /\ <<a, b>>[2] = b
    OBVIOUS
  <2> QED
    BY <2>1 DEF Once, In
<1>4. /\ \A S, a : a \in S => <<a>> \in Seq(S)
      /\ \A S, a, b : a \in S /\ b \in S => <<a, b>> \in Seq(S)
  OBVIOUS
<1> QED
  BY <1>1, <1>2, <1>3, <1>4

LEMMA Ordered ==
  ASSUME NEW S, IsFiniteSet(S), NEW order \in A!SetToSeqs(S)
  PROVE  /\ order \in Seq(S) /\ Once(order)
         /\ \A e : In(order, e) <=> e \in S
<1> DEFINE n == Cardinality(S)
<1>1. n \in Nat /\ order \in [1..n -> S]
  BY FS_CardinalityType, SameFiniteness DEF A!SetToSeqs
<1>2. order \in Seq(S) /\ Len(order) = n
  BY <1>1
<1>3. \A i, j \in 1..n : i # j => order[i] # order[j]
  BY SameFiniteness DEF A!SetToSeqs
<1>4. order \in Injection(1..n, S)
  BY <1>1, <1>3 DEF Injection, IsInjective
<1>5. Cardinality(1..n) = n
  BY <1>1, FS_Interval
<1>6. order \in Surjection(1..n, S)
  BY <1>4, <1>5, FS_Injection
<1>7. \A e \in S : \E i \in 1..n : order[i] = e
  BY <1>6 DEF Surjection
<1> QED
  BY <1>1, <1>2, <1>3, <1>7 DEF Once, In

-----------------------------------------------------------------------------
(* What a step does not undo: an item does not become new or posted again, *)
(* nor unsettled; one that is waited for stays so or is settled.  And none *)
(* that is posted slips in ahead of a flush.                               *)
Onward ==
  /\ \A i \in Items :
       /\ state[i] # "new" => state'[i] # "new"
       /\ state[i] \notin {"new", "posted"} => state'[i] \notin {"new", "posted"}
       /\ Settled(i) => Settled(i)'
       /\ \A g \in Generations : Awaited(i, g) => Awaited(i, g)'
Orderly ==
  \A i \in Items, f \in A!Flushes :
    state[i] # "new" /\ Precedes(ready, <<"capture", i>>, <<"flush", f>>)
      => Precedes(ready', <<"capture", i>>, <<"flush", f>>)

LEMMA Numbers ==
  ASSUME A!Constants
  PROVE  /\ \A g \in Generations : g \in Nat /\ g # 0 /\ g # Null
         /\ \A i \in Items : i \in Nat
         /\ A!Flushes \subseteq Nat /\ IsFiniteSet(A!Flushes)
<1>1. FlushLimit \in Nat
  BY DEF A!Constants
<1>2. IsFiniteSet(1..FlushLimit)
  BY <1>1, FS_Interval
<1> QED
  BY <1>1, <1>2 DEF A!Constants, A!Flushes

LEMMA Orphans ==
  ASSUME A!TypeOK, NEW i \in Items
  PROVE  A!Orphaned(i) <=> \E g \in Generations : /\ <<"target", g>> \in cancelled
                                                  /\ In(queues[g], i)
<1>1. \A g \in Generations : queues[g] \in Seq(Items)
  BY DEF A!TypeOK
<1>2. \A g \in Generations : DOMAIN queues[g] = 1..Len(queues[g])
  BY <1>1, LenProperties
<1> QED
  BY <1>2 DEF A!Orphaned, In

LEMMA Goes ==
  ASSUME A!Constants, A!TypeOK, A!TypeOK', cancelled \subseteq cancelled',
         \A i \in Items : /\ state[i] # "new" => state'[i] # "new"
                          /\ state[i] \notin {"new", "posted"} =>
                               state'[i] \notin {"new", "posted"}
                          /\ state[i] \in {"finished", "dropped"} => state'[i] = state[i]
                          /\ origin[i] # 0 => origin'[i] = origin[i],
         \A i \in Items, g \in Generations :
           In(queues[g], i) => \/ In(queues'[g], i)
                               \/ <<"target", g>> \notin cancelled /\ origin'[i] = g
  PROVE  Onward
<1>1. ASSUME NEW i \in Items, A!Orphaned(i) PROVE A!Orphaned(i)'
  <2>1. PICK g \in Generations : <<"target", g>> \in cancelled /\ In(queues[g], i)
    BY <1>1, Orphans
  <2>2. <<"target", g>> \in cancelled' /\ In(queues'[g], i)
    BY <2>1
  <2>3. queues'[g] \in Seq(Items)
    BY DEF A!TypeOK
  <2>4. DOMAIN queues'[g] = 1..Len(queues'[g])
    BY <2>3, LenProperties
  <2> QED
    BY <2>2, <2>4 DEF A!Orphaned, In
<1>2. \A i \in Items : Settled(i) => Settled(i)'
  BY <1>1 DEF Settled, A!Killed
<1>3. \A i \in Items, g \in Generations : Awaited(i, g) => Awaited(i, g)'
  BY Numbers DEF Awaited
<1> QED
  BY <1>2, <1>3 DEF Onward

(* A step that leaves queues and generations alone.                        *)
Moves(i) == \/ state'[i] = state[i]
            \/ state[i] \in Working /\ state'[i] \in Working
            \/ state[i] = "new" /\ state'[i] \in {"posted", "dropped"}
LEMMA StateMoves ==
  ASSUME A!Constants, Core, A!TypeOK',
         UNCHANGED <<current, task, queues, counts, active, cancelled, origin>>,
         \A i \in Items : Moves(i),
         \A g \in Generations :
           \/ consumer'[g] = consumer[g]
           \/ /\ consumer[g] = "ready"
              /\ consumer'[g] = IF <<"target", g>> \in cancelled THEN "done" ELSE "waiting"
  PROVE  /\ QueueInv' /\ GenerationInv' /\ (\A i \in Items : ItemInv(i)') /\ CountsInv'
         /\ Onward
<1> USE DEF Core
<1>1. QueueInv'
  BY DEF QueueInv, Moves, Working
<1>2. GenerationInv'
  <2>1. task \in Generations \cup {Null}
    BY DEF A!TypeOK
  <2> QED
    BY <2>1 DEF GenerationInv
<1>3. \A i \in Items : ItemInv(i)'
  <2> SUFFICES ASSUME NEW i \in Items PROVE ItemInv(i)'
    OBVIOUS
  <2>1. CASE state'[i] = state[i]
    BY <2>1 DEF ItemInv
  <2>2. CASE state[i] \in Working /\ state'[i] \in Working
    BY <2>2 DEF ItemInv
  <2>3. CASE state[i] = "new" /\ state'[i] \in {"posted", "dropped"}
    BY <2>3 DEF ItemInv, Working
  <2> QED
    BY <2>1, <2>2, <2>3 DEF Moves
<1>4. \A g \in Generations : A!Taken(g)' = A!Taken(g)
  BY Numbers DEF A!Taken, ItemInv, Moves, Working
<1>5. CountsInv'
  BY <1>4 DEF CountsInv, Exact
<1>6. Onward
  BY Goes DEF Moves, Working
<1> QED
  BY <1>1, <1>2, <1>3, <1>5, <1>6

(* What the loop is to run after it has taken a handle and others are      *)
(* added, and after they are added alone.                                  *)
LEMMA Rerun ==
  ASSUME A!TypeOK, ReadyInv, ready # <<>>, NEW added \in Seq(A!Handles), Once(added),
         \A h : In(added, h) => ~In(ready, h) \/ h = Head(ready),
         ready' = Tail(ready) \o added
  PROVE  /\ ready' \in Seq(A!Handles) /\ Once(ready')
         /\ \A h : In(ready', h) <=> (In(ready, h) /\ h # Head(ready)) \/ In(added, h)
         /\ (\A i \in Items : state[i] # "new" => ~In(added, <<"capture", i>>)) => Orderly
<1>1. ready \in Seq(A!Handles) /\ Once(ready)
  BY DEF A!TypeOK, ReadyInv
<1>2. /\ Tail(ready) \in Seq(A!Handles) /\ Once(Tail(ready))
      /\ \A e : In(Tail(ready), e) <=> In(ready, e) /\ e # Head(ready)
      /\ \A a, b : Precedes(ready, a, b) => Precedes(Tail(ready), a, b)
  BY <1>1, Popped
<1>3. \A h : ~(In(Tail(ready), h) /\ In(added, h))
  BY <1>2
<1>4. /\ ready' \in Seq(A!Handles) /\ Once(ready')
      /\ \A e : In(ready', e) <=> In(Tail(ready), e) \/ In(added, e)
      /\ \A a, b : Precedes(Tail(ready), a, b) /\ ~In(added, a) => Precedes(ready', a, b)
  BY <1>2, <1>3, Concatenated
<1> QED
  BY <1>2, <1>4 DEF Orderly

LEMMA Popping ==
  ASSUME A!TypeOK, ReadyInv, ready # <<>>, ready' = Tail(ready)
  PROVE  /\ ready' \in Seq(A!Handles) /\ Once(ready')
         /\ \A h : In(ready', h) <=> In(ready, h) /\ h # Head(ready)
         /\ Orderly
<1>1. ready \in Seq(A!Handles) /\ Once(ready)
  BY DEF A!TypeOK, ReadyInv
<1> QED
  BY <1>1, Popped DEF Orderly

LEMMA Adding ==
  ASSUME A!TypeOK, ReadyInv, NEW added \in Seq(A!Handles), Once(added),
         \A h : In(added, h) => ~In(ready, h), ready' = ready \o added
  PROVE  /\ ready' \in Seq(A!Handles) /\ Once(ready')
         /\ \A h : In(ready', h) <=> In(ready, h) \/ In(added, h)
         /\ (\A i \in Items : state[i] # "new" => ~In(added, <<"capture", i>>)) => Orderly
<1>1. ready \in Seq(A!Handles) /\ Once(ready)
  BY DEF A!TypeOK, ReadyInv
<1>2. \A h : ~(In(ready, h) /\ In(added, h))
  OBVIOUS
<1>3. /\ ready' \in Seq(A!Handles) /\ Once(ready')
      /\ \A e : In(ready', e) <=> In(ready, e) \/ In(added, e)
      /\ \A a, b : Precedes(ready, a, b) /\ ~In(added, a) => Precedes(ready', a, b)
  BY <1>1, <1>2, Concatenated
<1> QED
  BY <1>3 DEF Orderly

LEMMA HeadRuns ==
  ASSUME A!TypeOK, ReadyInv, NEW k, NEW x, A!Runs(k, x)
  PROVE  /\ ready # <<>> /\ Head(ready) = <<k, x>> /\ In(ready, <<k, x>>) /\ ~stopped
         /\ \A a : Precedes(ready, a, <<k, x>>) => ~In(ready, a)
         /\ k = "capture" /\ x \in Items => DueCapture(x)
         /\ k = "task" /\ x \in Items => DueTask(x)
         /\ k = "complete" /\ x \in Items => DueComplete(x)
         /\ k = "target" /\ x \in Generations => DueTarget(x)
         /\ k = "flush" /\ x \in A!Flushes => DueFlush(x)
<1>1. ready \in Seq(A!Handles) /\ Once(ready) /\ ready # <<>> /\ Head(ready) = <<k, x>>
  BY DEF A!TypeOK, ReadyInv, A!Runs
<1>2. In(ready, <<k, x>>) /\ \A a : Precedes(ready, a, <<k, x>>) => ~In(ready, a)
  BY <1>1, Popped
<1> QED
  BY <1>1, <1>2 DEF ReadyInv, A!Runs

-----------------------------------------------------------------------------
LEMMA StepCaptureEnvelope ==
  ASSUME A!Constants, Core, NEW i \in Items, A!CaptureEnvelope(i)
  PROVE  Core' /\ Onward /\ Orderly
<1> USE DEF Core
<1>1. /\ state[i] = "new" /\ state' = [state EXCEPT ![i] = IF stopped THEN "dropped" ELSE "posted"]
      /\ UNCHANGED <<stopped, A!workerState, cancelled, request, origin, A!flushState, killed>>
  BY DEF A!CaptureEnvelope, A!Fresh
<1>2. \A j \in Items \ {i} : state'[j] = state[j]
  BY <1>1
<1>3. state'[i] = IF stopped THEN "dropped" ELSE "posted"
  BY <1>1 DEF A!TypeOK
<1>4. /\ ready' \in Seq(A!Handles) /\ Once(ready') /\ Orderly
      /\ \A h : In(ready', h) <=> In(ready, h) \/ (~stopped /\ h = <<"capture", i>>)
  <2>1. CASE stopped
    <3>1. ready' = ready
      BY <2>1 DEF A!CaptureEnvelope
    <3> QED
      BY <2>1, <3>1 DEF A!TypeOK, ReadyInv, Orderly
  <2>2. CASE ~stopped
    <3> DEFINE added == <<<<"capture", i>>>>
    <3>1. ready' = ready \o added
      BY <2>2 DEF A!CaptureEnvelope, A!Later
    <3>2. added \in Seq(A!Handles) /\ Once(added) /\ \A h : In(added, h) <=> h = <<"capture", i>>
      BY Few DEF A!Handles
    <3>3. ~In(ready, <<"capture", i>>)
      BY <1>1 DEF ReadyInv, DueCapture
    <3> HIDE DEF added
    <3>4. \A j \in Items : state[j] # "new" => ~In(added, <<"capture", j>>)
      BY <1>1, <3>2
    <3> QED
      BY <2>2, <3>1, <3>2, <3>3, <3>4, Adding
  <2> QED
    BY <2>1, <2>2
<1>5. A!TypeOK'
  BY <1>1, <1>4 DEF A!TypeOK, A!workerState, A!flushState
<1>6. ReadyInv'
  BY <1>1, <1>2, <1>3, <1>4
     DEF ReadyInv, DueCapture, DueTask, DueComplete, DueTarget, DueFlush, A!workerState,
         A!flushState
<1>7. \A j \in Items : Moves(j)
  BY <1>1, <1>2, <1>3 DEF Moves
<1> QED
  BY <1>1, <1>4, <1>5, <1>6, <1>7, StateMoves DEF A!workerState

LEMMA StepAnswer ==
  ASSUME A!Constants, Core, NEW i \in Items, A!Answer(i)
  PROVE  Core' /\ Onward /\ Orderly
<1> USE DEF Core
<1> DEFINE added == <<<<"task", i>>>>
<1>1. /\ state[i] = "sending" /\ <<"task", i>> \notin cancelled
      /\ state' = [state EXCEPT ![i] = "answered"] /\ ready' = ready \o added
      /\ UNCHANGED <<stopped, A!workerState, cancelled, request, origin, A!flushState, killed>>
  BY DEF A!Answer, A!Later
<1>2. state'[i] = "answered" /\ \A j \in Items \ {i} : state'[j] = state[j]
  BY <1>1 DEF A!TypeOK
<1>3. added \in Seq(A!Handles) /\ Once(added) /\ \A h : In(added, h) <=> h = <<"task", i>>
  BY Few DEF A!Handles
<1>4. ~In(ready, <<"task", i>>)
  BY <1>1 DEF ReadyInv, DueTask
<1> HIDE DEF added
<1>5. \A j \in Items : ~In(added, <<"capture", j>>)
  BY <1>3
<1>6. /\ ready' \in Seq(A!Handles) /\ Once(ready') /\ Orderly
      /\ \A h : In(ready', h) <=> In(ready, h) \/ h = <<"task", i>>
  BY <1>1, <1>3, <1>4, <1>5, Adding
<1>7. A!TypeOK'
  BY <1>1, <1>6 DEF A!TypeOK, A!workerState, A!flushState
<1>8. ReadyInv'
  BY <1>1, <1>2, <1>6
     DEF ReadyInv, DueCapture, DueTask, DueComplete, DueTarget, DueFlush, A!workerState,
         A!flushState
<1>9. \A j \in Items : Moves(j)
  BY <1>1, <1>2 DEF Moves, Working
<1> QED
  BY <1>1, <1>6, <1>7, <1>8, <1>9, StateMoves DEF A!workerState

LEMMA StepRunTask ==
  ASSUME A!Constants, Core, NEW i \in Items, A!RunTask(i)
  PROVE  Core' /\ Onward /\ Orderly
<1> USE DEF Core
<1>1. /\ A!Runs("task", i)
      /\ UNCHANGED <<stopped, A!workerState, cancelled, request, origin, A!flushState, killed>>
  BY DEF A!RunTask
<1>2. /\ ready # <<>> /\ Head(ready) = <<"task", i>> /\ In(ready, <<"task", i>>)
      /\ DueTask(i) /\ state[i] \in {"created", "answered", "sending"}
  BY <1>1, HeadRuns DEF DueTask
<1>3. ~In(ready, <<"complete", i>>)
  BY <1>2 DEF ReadyInv, DueComplete
<1>4. CASE /\ state[i] = "created" /\ <<"task", i>> \notin cancelled
           /\ state' = [state EXCEPT ![i] = "sending"] /\ ready' = Tail(ready)
  <2>1. state'[i] = "sending" /\ \A j \in Items \ {i} : state'[j] = state[j]
    BY <1>4 DEF A!TypeOK
  <2>2. /\ ready' \in Seq(A!Handles) /\ Once(ready') /\ Orderly
        /\ \A h : In(ready', h) <=> In(ready, h) /\ h # <<"task", i>>
    BY <1>2, <1>4, Popping
  <2>3. A!TypeOK'
    BY <1>1, <1>4, <2>2 DEF A!TypeOK, A!workerState, A!flushState
  <2>4. ReadyInv'
    <3>1. \A j \in Items : <<"task", j>> = <<"task", i>> => j = i
      OBVIOUS
    <3>2. \A j \in Items : (In(ready, <<"task", j>>) <=> DueTask(j))'
      <4> SUFFICES ASSUME NEW j \in Items PROVE (In(ready, <<"task", j>>) <=> DueTask(j))'
        BY Zenon
      <4> QED
        BY <1>1, <1>2, <1>4, <2>1, <2>2, <3>1 DEF ReadyInv, DueTask
    <3>3. \A j \in Items : (In(ready, <<"capture", j>>) <=> DueCapture(j))'
      <4> SUFFICES ASSUME NEW j \in Items PROVE (In(ready, <<"capture", j>>) <=> DueCapture(j))'
        BY Zenon
      <4> QED
        BY <1>2, <2>1, <2>2 DEF ReadyInv, DueCapture, DueTask
    <3>4. \A j \in Items : (In(ready, <<"complete", j>>) <=> DueComplete(j))'
      <4> SUFFICES ASSUME NEW j \in Items PROVE (In(ready, <<"complete", j>>) <=> DueComplete(j))'
        BY Zenon
      <4> QED
        BY <1>2, <2>1, <2>2 DEF ReadyInv, DueComplete, DueTask
    <3>5. \A g \in Generations : (In(ready, <<"target", g>>) <=> DueTarget(g))'
      <4> SUFFICES ASSUME NEW g \in Generations PROVE (In(ready, <<"target", g>>) <=> DueTarget(g))'
        BY Zenon
      <4> QED
        BY <1>1, <2>2 DEF ReadyInv, DueTarget, A!workerState
    <3>6. \A f \in A!Flushes : (In(ready, <<"flush", f>>) <=> DueFlush(f))'
      <4> SUFFICES ASSUME NEW f \in A!Flushes PROVE (In(ready, <<"flush", f>>) <=> DueFlush(f))'
        BY Zenon
      <4> QED
        BY <1>1, <2>2 DEF ReadyInv, DueFlush, A!flushState
    <3> QED
      BY <2>2, <3>2, <3>3, <3>4, <3>5, <3>6 DEF ReadyInv
  <2>5. \A j \in Items : Moves(j)
    BY <1>4, <2>1 DEF Moves, Working
  <2> QED
    BY <1>1, <2>2, <2>3, <2>4, <2>5, StateMoves DEF A!workerState
<1>5. CASE /\ state' = [state EXCEPT ![i] = "sent"]
           /\ ready' = Tail(ready) \o <<<<"complete", i>>>>
  <2> DEFINE added == <<<<"complete", i>>>>
  <2>1. state'[i] = "sent" /\ \A j \in Items \ {i} : state'[j] = state[j]
    BY <1>5 DEF A!TypeOK
  <2>2. added \in Seq(A!Handles) /\ Once(added) /\ \A h : In(added, h) <=> h = <<"complete", i>>
    BY Few DEF A!Handles
  <2>3. ready' = Tail(ready) \o added
    BY <1>5
  <2> HIDE DEF added
  <2>4. /\ ready' \in Seq(A!Handles) /\ Once(ready') /\ Orderly
        /\ \A h : In(ready', h) <=> (In(ready, h) /\ h # <<"task", i>>) \/ h = <<"complete", i>>
    <3>1. \A j \in Items : ~In(added, <<"capture", j>>)
      BY <2>2
    <3> QED
      BY <1>2, <1>3, <2>2, <2>3, <3>1, Rerun
  <2>5. A!TypeOK'
    BY <1>1, <1>5, <2>4 DEF A!TypeOK, A!workerState, A!flushState
  <2>6. ReadyInv'
    BY <1>1, <1>2, <2>1, <2>4
       DEF ReadyInv, DueCapture, DueTask, DueComplete, DueTarget, DueFlush, A!workerState,
           A!flushState
  <2>7. \A j \in Items : Moves(j)
    BY <1>2, <2>1 DEF Moves, Working
  <2> QED
    BY <1>1, <2>4, <2>5, <2>6, <2>7, StateMoves DEF A!workerState
<1>6. ASSUME NEW r \in Items, A!Fresh(r), state' = [state EXCEPT ![i] = "sent", ![r] = "posted"],
             ready' = Tail(ready) \o <<<<"capture", r>>, <<"complete", i>>>>
      PROVE  Core' /\ Onward /\ Orderly
  <2> DEFINE added == <<<<"capture", r>>, <<"complete", i>>>>
  <2>1. /\ state[r] = "new" /\ r # i /\ state'[i] = "sent" /\ state'[r] = "posted"
        /\ \A j \in Items \ {i, r} : state'[j] = state[j]
    BY <1>2, <1>6 DEF A!TypeOK, A!Fresh
  <2>2. /\ added \in Seq(A!Handles) /\ Once(added)
        /\ \A h : In(added, h) <=> h \in {<<"capture", r>>, <<"complete", i>>}
    BY Few DEF A!Handles
  <2>3. ready' = Tail(ready) \o added
    BY <1>6
  <2> HIDE DEF added
  <2>4. ~In(ready, <<"capture", r>>)
    BY <2>1 DEF ReadyInv, DueCapture
  <2>5. /\ ready' \in Seq(A!Handles) /\ Once(ready') /\ Orderly
        /\ \A h : In(ready', h) <=> \/ In(ready, h) /\ h # <<"task", i>>
                                    \/ h \in {<<"capture", r>>, <<"complete", i>>}
    <3>1. \A j \in Items : state[j] # "new" => ~In(added, <<"capture", j>>)
      BY <2>1, <2>2
    <3> QED
      BY <1>2, <1>3, <2>2, <2>3, <2>4, <3>1, Rerun
  <2>6. A!TypeOK'
    BY <1>1, <1>6, <2>5 DEF A!TypeOK, A!workerState, A!flushState
  <2>7. ReadyInv'
    BY <1>1, <1>2, <2>1, <2>5
       DEF ReadyInv, DueCapture, DueTask, DueComplete, DueTarget, DueFlush, A!workerState,
           A!flushState
  <2>8. \A j \in Items : Moves(j)
    BY <1>2, <2>1 DEF Moves, Working
  <2> QED
    BY <1>1, <2>5, <2>6, <2>7, <2>8, StateMoves DEF A!workerState
<1> QED
  BY <1>4, <1>5, <1>6 DEF A!RunTask

(* A step that only moves a flush.                                         *)
LEMMA FlushMoves ==
  ASSUME A!Constants, Core, UNCHANGED <<A!workerState, cancelled, A!itemState, before, killed>>,
         stopped' \in BOOLEAN, ready' \in Seq(A!Handles), Once(ready'),
         flush' \in [A!Flushes -> {"new", "begin", "first", "timeout", "second", "expired",
                                 "drained", "over"}],
         joined' \in [A!Flushes -> Generations \cup {0}],
         \A h : (\A f \in A!Flushes : h # <<"flush", f>>) => (In(ready', h) <=> In(ready, h)),
         \A f \in A!Flushes : In(ready', <<"flush", f>>) <=> DueFlush(f)'
  PROVE  Core' /\ Onward
<1> USE DEF Core, A!workerState, A!itemState
<1>1. A!TypeOK'
  BY DEF A!TypeOK
<1>2. ReadyInv'
  BY DEF ReadyInv, DueCapture, DueTask, DueComplete, DueTarget
<1>3. \A i \in Items : Moves(i)
  BY DEF Moves
<1> QED
  BY <1>1, <1>2, <1>3, StateMoves

LEMMA StepRunFlush ==
  ASSUME A!Constants, Core, NEW f \in A!Flushes, A!RunFlush(f)
  PROVE  Core' /\ Onward /\ Orderly
<1> USE DEF Core
<1>1. /\ A!Runs("flush", f) /\ ready' = Tail(ready)
      /\ UNCHANGED <<stopped, A!workerState, cancelled, A!itemState, before, killed>>
  BY DEF A!RunFlush
<1>2. ready # <<>> /\ Head(ready) = <<"flush", f>>
  BY <1>1, HeadRuns
<1>3. /\ ready' \in Seq(A!Handles) /\ Once(ready') /\ Orderly
      /\ \A h : In(ready', h) <=> In(ready, h) /\ h # <<"flush", f>>
  BY <1>1, <1>2, Popping
<1>4. /\ \E p \in {"first", "second", "over"} : flush' = [flush EXCEPT ![f] = p]
      /\ joined' = joined \/ joined' = [joined EXCEPT ![f] = current]
  BY DEF A!RunFlush, A!Join
<1>5. PICK p \in {"first", "second", "over"} : flush' = [flush EXCEPT ![f] = p]
  BY <1>4
<1>6. flush'[f] = p /\ \A e \in A!Flushes \ {f} : flush'[e] = flush[e]
  BY <1>5 DEF A!TypeOK
<1>7. /\ flush' \in [A!Flushes -> {"new", "begin", "first", "timeout", "second", "expired",
                                 "drained", "over"}]
      /\ joined' \in [A!Flushes -> Generations \cup {0}] /\ stopped' \in BOOLEAN
  BY <1>1, <1>4, <1>5 DEF A!TypeOK
<1>8. \A e \in A!Flushes : In(ready', <<"flush", e>>) <=> DueFlush(e)'
  <2> SUFFICES ASSUME NEW e \in A!Flushes PROVE In(ready', <<"flush", e>>) <=> DueFlush(e)'
    BY Zenon
  <2>1. In(ready, <<"flush", e>>) <=> DueFlush(e)
    BY DEF ReadyInv
  <2>2. e # f => <<"flush", e>> # <<"flush", f>>
    OBVIOUS
  <2> QED
    BY <1>3, <1>5, <1>6, <2>1, <2>2 DEF DueFlush
<1>9. \A h : (\A e \in A!Flushes : h # <<"flush", e>>) => (In(ready', h) <=> In(ready, h))
  BY <1>3
<1> QED
  BY <1>1, <1>3, <1>7, <1>8, <1>9, FlushMoves

LEMMA StepTimeout ==
  ASSUME A!Constants, Core, NEW f \in A!Flushes, A!Timeout(f)
  PROVE  Core' /\ Onward /\ Orderly
<1> USE DEF Core
<1> DEFINE added == <<<<"flush", f>>>>
<1>1. /\ flush[f] \in {"first", "second"} /\ ready' = ready \o added
      /\ flush' = [flush EXCEPT ![f] = IF @ = "first" THEN "timeout" ELSE "expired"]
      /\ UNCHANGED <<stopped, A!workerState, cancelled, A!itemState, joined, before, killed>>
  BY DEF A!Timeout, A!Later
<1>2. flush'[f] \in {"timeout", "expired"} /\ \A e \in A!Flushes \ {f} : flush'[e] = flush[e]
  BY <1>1 DEF A!TypeOK
<1>3. added \in Seq(A!Handles) /\ Once(added) /\ \A h : In(added, h) <=> h = <<"flush", f>>
  BY Few DEF A!Handles
<1> HIDE DEF added
<1>4. ~In(ready, <<"flush", f>>) /\ \A i \in Items : ~In(added, <<"capture", i>>)
  BY <1>1, <1>3 DEF ReadyInv, DueFlush
<1>5. /\ ready' \in Seq(A!Handles) /\ Once(ready') /\ Orderly
      /\ \A h : In(ready', h) <=> In(ready, h) \/ h = <<"flush", f>>
  BY <1>1, <1>3, <1>4, Adding
<1>6. /\ flush' \in [A!Flushes -> {"new", "begin", "first", "timeout", "second", "expired",
                                 "drained", "over"}]
      /\ joined' \in [A!Flushes -> Generations \cup {0}] /\ stopped' \in BOOLEAN
  BY <1>1 DEF A!TypeOK
<1>7. \A e \in A!Flushes : In(ready', <<"flush", e>>) <=> DueFlush(e)'
  <2> SUFFICES ASSUME NEW e \in A!Flushes PROVE In(ready', <<"flush", e>>) <=> DueFlush(e)'
    BY Zenon
  <2>1. In(ready, <<"flush", e>>) <=> DueFlush(e)
    BY DEF ReadyInv
  <2>2. e # f => <<"flush", e>> # <<"flush", f>>
    OBVIOUS
  <2> QED
    BY <1>2, <1>5, <2>1, <2>2 DEF DueFlush
<1>8. \A h : (\A e \in A!Flushes : h # <<"flush", e>>) => (In(ready', h) <=> In(ready, h))
  BY <1>5
<1> QED
  BY <1>1, <1>5, <1>6, <1>7, <1>8, FlushMoves

LEMMA StepIdle ==
  ASSUME A!Constants, Core, A!Stop \/ UNCHANGED A!vars
  PROVE  Core' /\ Onward /\ Orderly
<1> USE DEF Core
<1>1. /\ UNCHANGED <<ready, A!workerState, cancelled, A!itemState, A!flushState, killed>>
      /\ stopped' \in BOOLEAN
  BY DEF A!Stop, A!vars, A!loopState, A!TypeOK
<1>2. /\ ready' \in Seq(A!Handles) /\ Once(ready')
      /\ flush' \in [A!Flushes -> {"new", "begin", "first", "timeout", "second", "expired",
                                 "drained", "over"}]
      /\ joined' \in [A!Flushes -> Generations \cup {0}]
  BY <1>1 DEF A!TypeOK, ReadyInv, A!flushState
<1>3. /\ \A f \in A!Flushes : In(ready', <<"flush", f>>) <=> DueFlush(f)'
      /\ \A h : In(ready', h) <=> In(ready, h)
      /\ before' = before
  BY <1>1 DEF ReadyInv, DueFlush, A!flushState
<1>4. Core' /\ Onward
  BY <1>1, <1>2, <1>3, FlushMoves
<1> QED
  BY <1>1, <1>4 DEF Orderly

-----------------------------------------------------------------------------
(* Consumers find nothing to do, end, or take an item.                     *)
LEMMA StepRests ==
  ASSUME A!Constants, Core, NEW g \in Generations, A!Runs("target", g), ready' = Tail(ready),
         consumer' = [consumer EXCEPT ![g] = IF <<"target", g>> \in cancelled THEN "done"
                                             ELSE "waiting"],
         UNCHANGED <<stopped, current, task, counts, cancelled, request, A!flushState, killed>>,
         UNCHANGED <<queues, state, origin, active>>
  PROVE  Core' /\ Onward /\ Orderly
<1> USE DEF Core
<1>1. ready # <<>> /\ Head(ready) = <<"target", g>> /\ consumer[g] = "ready"
  BY HeadRuns DEF DueTarget
<1>2. /\ consumer'[g] = (IF <<"target", g>> \in cancelled THEN "done" ELSE "waiting")
      /\ \A h \in Generations \ {g} : consumer'[h] = consumer[h]
  BY DEF A!TypeOK
<1>3. /\ ready' \in Seq(A!Handles) /\ Once(ready') /\ Orderly
      /\ \A h : In(ready', h) <=> In(ready, h) /\ h # <<"target", g>>
  BY <1>1, Popping
<1>4. A!TypeOK'
  BY <1>3 DEF A!TypeOK, A!flushState
<1>5. ReadyInv'
  BY <1>2, <1>3
     DEF ReadyInv, DueCapture, DueTask, DueComplete, DueTarget, DueFlush, A!flushState
<1>6. \A i \in Items : Moves(i)
  BY DEF Moves
<1>7. \A h \in Generations :
        \/ consumer'[h] = consumer[h]
        \/ /\ consumer[h] = "ready"
           /\ consumer'[h] = IF <<"target", h>> \in cancelled THEN "done" ELSE "waiting"
  BY <1>1, <1>2
<1> QED
  BY <1>3, <1>4, <1>5, <1>6, <1>7, StateMoves

LEMMA StepTakes ==
  ASSUME A!Constants, Core, NEW g \in Generations, A!Runs("target", g),
         <<"target", g>> \notin cancelled, queues[current] # <<>>,
         NEW i, i = Head(queues[current]),
         queues' = [queues EXCEPT ![current] = Tail(@)],
         state' = [state EXCEPT ![i] = "created"],
         origin' = [origin EXCEPT ![i] = current],
         active' = active \cup {i},
         ready' = Tail(ready) \o <<<<"task", i>>, <<"target", g>>>>,
         UNCHANGED <<stopped, current, task, counts, cancelled, request, A!flushState, killed>>,
         consumer' = consumer
  PROVE  Core' /\ Onward /\ Orderly
<1> USE DEF Core
<1>1. ready # <<>> /\ Head(ready) = <<"target", g>> /\ consumer[g] = "ready"
  BY HeadRuns DEF DueTarget
<1>2. g = current /\ task = g
  <2>1. current \in Nat /\ g \in Nat
    BY Numbers DEF A!TypeOK
  <2>2. g <= current
    BY <1>1, <2>1 DEF GenerationInv
  <2>3. g = task
    BY <2>2 DEF GenerationInv
  <2> QED
    BY <2>3, Numbers DEF GenerationInv
<1>3. /\ i \in Items /\ In(queues[g], i)
      /\ queues'[g] = Tail(queues[g]) /\ queues'[g] \in Seq(Items) /\ Once(queues'[g])
      /\ Len(queues'[g]) = Len(queues[g]) - 1
      /\ \A j : In(queues'[g], j) <=> In(queues[g], j) /\ j # i
      /\ \A h \in Generations \ {g} : queues'[h] = queues[h]
  <2>1. queues \in [Generations -> Seq(Items)] /\ queues[g] \in Seq(Items) /\ Once(queues[g])
    BY DEF A!TypeOK, QueueInv
  <2>2. queues'[g] = Tail(queues[g]) /\ \A h \in Generations \ {g} : queues'[h] = queues[h]
    BY <1>2, <2>1
  <2> QED
    BY <1>2, <2>1, <2>2, Popped
<1>4. /\ state[i] = "queued" /\ i \notin active /\ <<"task", i>> \notin cancelled
      /\ origin[i] = 0
  BY <1>3 DEF QueueInv, ItemInv, Working, A!TypeOK
<1>5. /\ state'[i] = "created" /\ \A j \in Items \ {i} : state'[j] = state[j]
      /\ origin'[i] = g /\ \A j \in Items \ {i} : origin'[j] = origin[j]
  BY <1>2, <1>3 DEF A!TypeOK
<1>6. /\ ready' \in Seq(A!Handles) /\ Once(ready') /\ Orderly
      /\ \A h : In(ready', h) <=> In(ready, h) \/ h = <<"task", i>>
  <2> DEFINE added == <<<<"task", i>>, <<"target", g>>>>
  <2>1. /\ added \in Seq(A!Handles) /\ Once(added)
        /\ \A h : In(added, h) <=> h \in {<<"task", i>>, <<"target", g>>}
    BY <1>3, Few DEF A!Handles
  <2>2. ready' = Tail(ready) \o added
    OBVIOUS
  <2> HIDE DEF added
  <2>3. ~In(ready, <<"task", i>>) /\ In(ready, <<"target", g>>)
    BY <1>1, <1>3, <1>4 DEF ReadyInv, DueTask, DueTarget
  <2>4. \A j \in Items : ~In(added, <<"capture", j>>)
    <3>1. \A j \in Items : <<"capture", j>> \notin {<<"task", i>>, <<"target", g>>}
      OBVIOUS
    <3> QED
      BY <2>1, <3>1
  <2>5. \A h : In(added, h) => ~In(ready, h) \/ h = Head(ready)
    BY <1>1, <2>1, <2>3
  <2>6. /\ ready' \in Seq(A!Handles) /\ Once(ready') /\ Orderly
        /\ \A h : In(ready', h) <=> (In(ready, h) /\ h # <<"target", g>>) \/ In(added, h)
    BY <1>1, <2>1, <2>2, <2>4, <2>5, Rerun
  <2> QED
    BY <2>1, <2>3, <2>6
<1>7. A!TypeOK'
  <2>1. /\ queues' \in [Generations -> Seq(Items)]
        /\ \A h \in Generations : Len(queues'[h]) <= QueueRoom
    <3>1. Len(queues[g]) \in Nat /\ QueueRoom \in Nat
      BY LenProperties DEF A!TypeOK, A!Constants
    <3> QED
      BY <1>2, <1>3, <3>1 DEF A!TypeOK
  <2>2. /\ state' \in [Items -> {"new", "posted", "queued", "created", "sending", "answered",
                                 "sent", "finished", "dropped"}]
        /\ origin' \in [Items -> Generations \cup {0}] /\ active' \subseteq Items
    BY <1>2, <1>3 DEF A!TypeOK
  <2> QED
    BY <1>6, <2>1, <2>2 DEF A!TypeOK, A!flushState
<1>8. ReadyInv'
  <2>1. /\ DueTask(i)' /\ ~DueCapture(i)' /\ ~DueComplete(i)'
        /\ ~DueCapture(i) /\ ~DueComplete(i)
    BY <1>4, <1>5 DEF DueCapture, DueTask, DueComplete
  <2>2. \A j \in Items \ {i} : /\ DueTask(j)' <=> DueTask(j)
                               /\ DueCapture(j)' <=> DueCapture(j)
                               /\ DueComplete(j)' <=> DueComplete(j)
    BY <1>5 DEF DueCapture, DueTask, DueComplete
  <2>3. ASSUME NEW j \in Items
        PROVE  /\ In(ready', <<"task", j>>) <=> DueTask(j)'
               /\ In(ready', <<"capture", j>>) <=> DueCapture(j)'
               /\ In(ready', <<"complete", j>>) <=> DueComplete(j)'
    <3>1. /\ In(ready, <<"task", j>>) <=> DueTask(j)
          /\ In(ready, <<"capture", j>>) <=> DueCapture(j)
          /\ In(ready, <<"complete", j>>) <=> DueComplete(j)
      BY DEF ReadyInv
    <3>2. /\ In(ready', <<"task", j>>) <=> In(ready, <<"task", j>>) \/ j = i
          /\ In(ready', <<"capture", j>>) <=> In(ready, <<"capture", j>>)
          /\ In(ready', <<"complete", j>>) <=> In(ready, <<"complete", j>>)
      BY <1>6
    <3> QED
      BY <2>1, <2>2, <3>1, <3>2
  <2>4. /\ \A h \in Generations : In(ready', <<"target", h>>) <=> DueTarget(h)'
        /\ \A f \in A!Flushes : In(ready', <<"flush", f>>) <=> DueFlush(f)'
    BY <1>6 DEF ReadyInv, DueTarget, DueFlush, A!flushState
  <2> QED
    BY <1>6, <2>3, <2>4 DEF ReadyInv
<1>9. QueueInv'
  <2>1. \A h \in Generations, j \in Items : In(queues'[h], j) <=> In(queues[h], j) /\ j # i
    BY <1>3 DEF QueueInv
  <2>2. \A h \in Generations : Once(queues'[h])
    BY <1>3 DEF QueueInv
  <2> QED
    BY <1>5, <2>1, <2>2 DEF QueueInv
<1>10. GenerationInv'
  BY <1>2, <1>3, Numbers DEF GenerationInv
<1>11. \A j \in Items : ItemInv(j)'
  <2>1. g \in Nat /\ g # 0 /\ task # Null
    BY <1>2, Numbers
  <2>2. ItemInv(i)'
    BY <1>2, <1>4, <1>5, <2>1 DEF ItemInv, Working
  <2>3. \A j \in Items \ {i} : ItemInv(j)'
    <3> SUFFICES ASSUME NEW j \in Items \ {i} PROVE ItemInv(j)'
      OBVIOUS
    <3>1. /\ state'[j] = state[j] /\ origin'[j] = origin[j] /\ (j \in active' <=> j \in active)
          /\ UNCHANGED <<current, task, cancelled>>
      BY <1>5
    <3> QED
      BY <3>1 DEF ItemInv
  <2> QED
    BY <2>2, <2>3
<1>12. CountsInv'
  <2>1. i \notin A!Taken(g) /\ A!Taken(g)' = A!Taken(g) \cup {i}
    BY <1>3, <1>4, <1>5, Numbers DEF A!Taken
  <2>2. \A h \in Generations \ {g} : A!Taken(h)' = A!Taken(h)
    BY <1>3, <1>4, <1>5, Numbers DEF A!Taken
  <2>3. \A h \in Generations : IsFiniteSet(A!Taken(h))
    BY DEF CountsInv
  <2>4. IsFiniteSet(A!Taken(g)') /\ Cardinality(A!Taken(g)') = Cardinality(A!Taken(g)) + 1
    <3>1. IsFiniteSet(A!Taken(g))
      BY <2>3
    <3> QED
      BY <2>1, <3>1, FS_AddElement
  <2>5. IsFiniteSet(active')
    BY FS_AddElement DEF CountsInv
  <2>6. Len(queues[g]) \in Nat /\ Cardinality(A!Taken(g)) \in Nat
    BY <2>3, LenProperties, FS_CardinalityType DEF A!TypeOK
  <2>7. counts'[g] = Len(queues'[g]) + Cardinality(A!Taken(g)')
    <3>1. counts[g] = Len(queues[g]) + Cardinality(A!Taken(g)) /\ counts'[g] = counts[g]
      BY DEF CountsInv, Exact
    <3> QED
      BY <1>3, <2>4, <2>6, <3>1
  <2>8. \A h \in Generations \ {g} :
          counts'[h] = Len(queues'[h]) + Cardinality(A!Taken(h)')
    BY <1>3, <2>2 DEF CountsInv, Exact
  <2> QED
    BY <2>2, <2>3, <2>4, <2>5, <2>7, <2>8 DEF CountsInv, Exact
<1>13. Onward
  <2>1. \A j \in Items : /\ state[j] # "new" => state'[j] # "new"
                         /\ state[j] \notin {"new", "posted"} =>
                              state'[j] \notin {"new", "posted"}
                         /\ state[j] \in {"finished", "dropped"} => state'[j] = state[j]
                         /\ origin[j] # 0 => origin'[j] = origin[j]
    BY <1>4, <1>5
  <2>2. \A j \in Items, h \in Generations :
          In(queues[h], j) => \/ In(queues'[h], j)
                              \/ <<"target", h>> \notin cancelled /\ origin'[j] = h
    BY <1>3, <1>5
  <2> QED
    BY <1>7, <2>1, <2>2, Goes
<1> QED
  BY <1>6, <1>7, <1>8, <1>9, <1>10, <1>11, <1>12, <1>13

LEMMA StepRunTarget ==
  ASSUME A!Constants, Core, NEW g \in Generations, A!RunTarget(g)
  PROVE  Core' /\ Onward /\ Orderly
<1>1. /\ A!Runs("target", g)
      /\ UNCHANGED <<stopped, current, task, counts, cancelled, request, A!flushState, killed>>
  BY DEF A!RunTarget
<1>2. CASE \/ <<"target", g>> \in cancelled
           \/ <<"target", g>> \notin cancelled /\ queues[current] = <<>>
  BY <1>1, <1>2, StepRests DEF A!RunTarget
<1>3. CASE <<"target", g>> \notin cancelled /\ queues[current] # <<>>
  <2> DEFINE i == Head(queues[current])
  <2>1. /\ queues' = [queues EXCEPT ![current] = Tail(@)]
        /\ state' = [state EXCEPT ![i] = "created"]
        /\ origin' = [origin EXCEPT ![i] = current]
        /\ active' = active \cup {i}
        /\ ready' = Tail(ready) \o <<<<"task", i>>, <<"target", g>>>>
        /\ consumer' = consumer
    BY <1>3 DEF A!RunTarget
  <2> HIDE DEF i
  <2>2. i = Head(queues[current])
    BY DEF i
  <2> QED
    BY <1>1, <1>3, <2>1, <2>2, StepTakes
<1> QED
  BY <1>2, <1>3

-----------------------------------------------------------------------------
Woken(g) == {f \in A!Flushes : flush[f] \in {"first", "second"} /\ joined[f] = g
                             /\ counts[g] = 1}

LEMMA StepRunComplete ==
  ASSUME A!Constants, Core, NEW i \in Items, A!RunComplete(i), NEW g, g = origin[i]
  PROVE  Core' /\ Onward /\ Orderly
<1> USE DEF Core
<1> DEFINE woken == Woken(g)
<1>1. /\ A!Runs("complete", i)
      /\ state' = [state EXCEPT ![i] = "finished"]
      /\ counts' = [counts EXCEPT ![g] = @ - 1]
      /\ active' = active \ {i}
      /\ flush' = [f \in A!Flushes |-> IF f \in woken THEN "drained" ELSE flush[f]]
      /\ UNCHANGED <<stopped, current, task, queues, consumer, cancelled, request, origin,
                     joined, before, killed>>
  BY DEF A!RunComplete, A!CompleteOn, Woken
<1>2. PICK order \in A!SetToSeqs({"flush"} \X woken) : ready' = Tail(ready) \o order
  BY DEF A!RunComplete, A!CompleteOn, Woken
<1>3. woken \subseteq A!Flushes /\ IsFiniteSet({"flush"} \X woken)
  <2>1. woken \in SUBSET A!Flushes
    BY DEF Woken
  <2>2. IsFiniteSet(woken) /\ IsFiniteSet({"flush"})
    BY <2>1, Numbers, FS_Subset, FS_Singleton
  <2> QED
    BY <2>1, <2>2, FS_Product
<1>4. /\ ready # <<>> /\ Head(ready) = <<"complete", i>> /\ state[i] = "sent"
      /\ g \in Generations /\ g # 0
  <2>1. ready # <<>> /\ Head(ready) = <<"complete", i>> /\ state[i] = "sent"
    BY <1>1, HeadRuns DEF DueComplete
  <2>2. g # 0 /\ g \in Generations \cup {0}
    BY <2>1 DEF ItemInv, Working, A!TypeOK
  <2> QED
    BY <2>1, <2>2
<1>5. /\ state'[i] = "finished" /\ \A j \in Items \ {i} : state'[j] = state[j]
      /\ \A f \in A!Flushes : flush'[f] = IF f \in woken THEN "drained" ELSE flush[f]
  BY <1>1 DEF A!TypeOK
<1>6. \A f \in woken : flush[f] \in {"first", "second"}
  BY DEF Woken
<1> HIDE DEF woken
<1>7. /\ ready' \in Seq(A!Handles) /\ Once(ready') /\ Orderly
      /\ \A h : In(ready', h) <=> \/ In(ready, h) /\ h # <<"complete", i>>
                                  \/ h \in {"flush"} \X woken
  <2>1. /\ order \in Seq({"flush"} \X woken) /\ Once(order)
        /\ \A h : In(order, h) <=> h \in {"flush"} \X woken
    BY <1>2, <1>3, Ordered
  <2>2. {"flush"} \X woken \subseteq A!Handles
    BY <1>3 DEF A!Handles
  <2>3. order \in Seq(A!Handles)
    BY <2>1, <2>2, SeqMonotonic
  <2>4. \A h \in {"flush"} \X woken : ~In(ready, h)
    <3> SUFFICES ASSUME NEW f \in woken PROVE ~In(ready, <<"flush", f>>)
      OBVIOUS
    <3>1. f \in A!Flushes /\ flush[f] \in {"first", "second"}
      BY <1>3, <1>6
    <3> QED
      BY <3>1 DEF ReadyInv, DueFlush
  <2>5. \A j \in Items : ~In(order, <<"capture", j>>)
    BY <2>1
  <2>6. \A h : In(order, h) => ~In(ready, h) \/ h = Head(ready)
    BY <2>1, <2>4
  <2>7. /\ ready' \in Seq(A!Handles) /\ Once(ready') /\ Orderly
        /\ \A h : In(ready', h) <=> (In(ready, h) /\ h # Head(ready)) \/ In(order, h)
    BY <1>2, <1>4, <2>1, <2>3, <2>5, <2>6, Rerun
  <2> QED
    BY <1>4, <2>1, <2>7
<1>8. /\ i \in A!Taken(g) /\ A!Taken(g)' = A!Taken(g) \ {i}
      /\ \A h \in Generations \ {g} : A!Taken(h)' = A!Taken(h)
  BY <1>1, <1>4, <1>5 DEF A!Taken
<1>9. /\ IsFiniteSet(A!Taken(g)') /\ Cardinality(A!Taken(g)) \in Nat /\ Len(queues[g]) \in Nat
      /\ Cardinality(A!Taken(g)) # 0 /\ Cardinality(A!Taken(g)') = Cardinality(A!Taken(g)) - 1
  <2>1. IsFiniteSet(A!Taken(g))
    BY <1>4 DEF CountsInv
  <2>2. /\ IsFiniteSet(A!Taken(g) \ {i})
        /\ Cardinality(A!Taken(g) \ {i}) = Cardinality(A!Taken(g)) - 1
    BY <1>8, <2>1, FS_RemoveElement
  <2> QED
    BY <1>4, <1>8, <2>1, <2>2, FS_EmptySet, FS_CardinalityType, LenProperties DEF A!TypeOK
<1>10. /\ counts[g] = Len(queues[g]) + Cardinality(A!Taken(g))
       /\ counts[g] \in Nat /\ counts[g] # 0
       /\ counts'[g] = counts[g] - 1 /\ counts[g] - 1 \in Nat
       /\ \A h \in Generations \ {g} : counts'[h] = counts[h]
  BY <1>1, <1>4, <1>9 DEF CountsInv, Exact, A!TypeOK
<1>11. A!TypeOK'
  <2>1. /\ counts' \in [Generations -> Nat] /\ active' \subseteq Items
        /\ state' \in [Items -> {"new", "posted", "queued", "created", "sending", "answered",
                                 "sent", "finished", "dropped"}]
    BY <1>1, <1>4, <1>10 DEF A!TypeOK
  <2>2. flush' \in [A!Flushes -> {"new", "begin", "first", "timeout", "second", "expired",
                                "drained", "over"}]
    BY <1>1 DEF A!TypeOK
  <2> QED
    BY <1>1, <1>7, <2>1, <2>2 DEF A!TypeOK
<1>12. ReadyInv'
  <2>1. ASSUME NEW j \in Items
        PROVE  /\ In(ready', <<"task", j>>) <=> DueTask(j)'
               /\ In(ready', <<"capture", j>>) <=> DueCapture(j)'
               /\ In(ready', <<"complete", j>>) <=> DueComplete(j)'
    <3>1. /\ In(ready, <<"task", j>>) <=> DueTask(j)
          /\ In(ready, <<"capture", j>>) <=> DueCapture(j)
          /\ In(ready, <<"complete", j>>) <=> DueComplete(j)
      BY DEF ReadyInv
    <3>2. /\ In(ready', <<"task", j>>) <=> In(ready, <<"task", j>>)
          /\ In(ready', <<"capture", j>>) <=> In(ready, <<"capture", j>>)
          /\ In(ready', <<"complete", j>>) <=> In(ready, <<"complete", j>>) /\ j # i
      BY <1>7
    <3> QED
      BY <1>1, <1>4, <1>5, <3>1, <3>2 DEF DueTask, DueCapture, DueComplete
  <2>2. ASSUME NEW h \in Generations
        PROVE  In(ready', <<"target", h>>) <=> DueTarget(h)'
    BY <1>1, <1>7 DEF ReadyInv, DueTarget
  <2>3. ASSUME NEW f \in A!Flushes
        PROVE  In(ready', <<"flush", f>>) <=> DueFlush(f)'
    <3>1. In(ready, <<"flush", f>>) <=> DueFlush(f)
      BY DEF ReadyInv
    <3>2. In(ready', <<"flush", f>>) <=> In(ready, <<"flush", f>>) \/ f \in woken
      BY <1>7
    <3> QED
      BY <1>5, <3>1, <3>2 DEF DueFlush
  <2> QED
    BY <1>7, <2>1, <2>2, <2>3, Zenon DEF ReadyInv
<1>13. QueueInv'
  BY <1>1, <1>4, <1>5 DEF QueueInv
<1>14. GenerationInv'
  BY <1>1 DEF GenerationInv
<1>15. ASSUME NEW j \in Items PROVE ItemInv(j)'
  <2>1. ItemInv(i)'
    BY <1>1, <1>4, <1>5 DEF ItemInv, Working
  <2>2. CASE j # i
    <3>1. state'[j] = state[j] /\ (j \in active' <=> j \in active)
      BY <1>1, <1>5, <2>2
    <3> QED
      BY <1>1, <3>1 DEF ItemInv
  <2> QED
    BY <2>1, <2>2
<1>16. CountsInv'
  <2>1. IsFiniteSet(active')
    BY <1>1, FS_RemoveElement DEF CountsInv
  <2>2. counts'[g] = Len(queues'[g]) + Cardinality(A!Taken(g)')
    BY <1>1, <1>9, <1>10
  <2>3. ASSUME NEW h \in Generations \ {g}
        PROVE  /\ IsFiniteSet(A!Taken(h)')
               /\ counts'[h] = Len(queues'[h]) + Cardinality(A!Taken(h)')
    <3>1. A!Taken(h)' = A!Taken(h) /\ counts'[h] = counts[h] /\ queues' = queues
      BY <1>1, <1>8, <1>10
    <3> QED
      BY <3>1 DEF CountsInv, Exact
  <2> QED
    BY <1>9, <2>1, <2>2, <2>3 DEF CountsInv, Exact
<1>17. Onward
  BY <1>1, <1>4, <1>5, <1>11, Goes
<1> QED
  BY <1>7, <1>11, <1>12, <1>13, <1>14, <1>15, <1>16, <1>17

LEMMA StepKill ==
  ASSUME A!Constants, Core, A!Kill
  PROVE  Core' /\ Onward /\ Orderly
<1> USE DEF Core
<1> DEFINE victims  == {<<"target", task>>} \cup {"task"} \X active
           sleeping == {v \in victims : \/ v[1] = "target" /\ consumer[v[2]] = "waiting"
                                        \/ v[1] = "task" /\ state[v[2]] = "sending"}
<1>1. /\ task # Null /\ killed < MaxStops /\ killed' = killed + 1
      /\ cancelled' = cancelled \cup victims
      /\ consumer' = [consumer EXCEPT ![task] = IF @ = "waiting" THEN "ready" ELSE @]
      /\ task' = Null /\ active' = {}
      /\ UNCHANGED <<stopped, current, queues, counts, A!itemState, A!flushState>>
  <2>1. victims = ({<<"target", task>>} \cup {"task"} \X active) \ {}
    OBVIOUS
  <2>2. <<"target", task>> \in victims
    OBVIOUS
  <2> QED
    BY <2>1, <2>2 DEF A!Kill, A!KillSparing
<1>2. PICK order \in A!SetToSeqs(sleeping) : ready' = ready \o order
  <2>1. victims = ({<<"target", task>>} \cup {"task"} \X active) \ {}
    OBVIOUS
  <2> QED
    BY <2>1 DEF A!Kill, A!KillSparing, A!Later
<1>3. /\ task \in Generations /\ task = current /\ active \subseteq Items
      /\ consumer[task] \in {"ready", "waiting"} /\ <<"target", task>> \notin cancelled
  BY <1>1 DEF A!TypeOK, GenerationInv
<1>4. IsFiniteSet(sleeping) /\ sleeping \subseteq A!Handles
  <2>1. IsFiniteSet({"task"} \X active) /\ IsFiniteSet({<<"target", task>>})
    BY FS_Product, FS_Singleton DEF CountsInv
  <2>2. IsFiniteSet(victims)
    BY <2>1, FS_Union
  <2>3. sleeping \in SUBSET victims
    OBVIOUS
  <2> QED
    BY <1>3, <2>2, <2>3, FS_Subset DEF A!Handles
<1>5. /\ \A j \in Items : <<"task", j>> \in victims <=> j \in active
      /\ \A h \in Generations : <<"target", h>> \in victims <=> h = task
      /\ victims \subseteq {"target"} \X Generations \cup {"task"} \X Items
  BY <1>3
<1>6. /\ \A j \in Items : <<"task", j>> \in sleeping <=> j \in active /\ state[j] = "sending"
      /\ \A h \in Generations : <<"target", h>> \in sleeping <=>
                                  h = task /\ consumer[h] = "waiting"
      /\ \A j : <<"capture", j>> \notin sleeping /\ <<"complete", j>> \notin sleeping
      /\ \A f : <<"flush", f>> \notin sleeping
  BY <1>3
<1>7. \A h \in sleeping : ~In(ready, h)
  <2> SUFFICES ASSUME NEW h \in sleeping PROVE ~In(ready, h)
    OBVIOUS
  <2>1. CASE h = <<"target", task>>
    <3>1. consumer[task] = "waiting"
      BY <1>3, <1>6, <2>1
    <3> QED
      BY <1>3, <2>1, <3>1 DEF ReadyInv, DueTarget
  <2>2. ASSUME NEW j \in active, h = <<"task", j>> PROVE ~In(ready, h)
    <3>1. j \in Items /\ state[j] = "sending" /\ <<"task", j>> \notin cancelled
      BY <1>3, <1>6, <2>2 DEF ItemInv
    <3> QED
      BY <2>2, <3>1 DEF ReadyInv, DueTask
  <2> QED
    BY <2>1, <2>2
<1> HIDE DEF victims, sleeping
<1>8. /\ ready' \in Seq(A!Handles) /\ Once(ready') /\ Orderly
      /\ \A h : In(ready', h) <=> In(ready, h) \/ h \in sleeping
  <2>1. /\ order \in Seq(sleeping) /\ Once(order)
        /\ \A h : In(order, h) <=> h \in sleeping
    BY <1>2, <1>4, Ordered
  <2>2. order \in Seq(A!Handles)
    BY <1>4, <2>1, SeqMonotonic
  <2>3. \A j \in Items : ~In(order, <<"capture", j>>)
    BY <1>6, <2>1, Zenon
  <2>4. \A h : In(order, h) => ~In(ready, h)
    BY <1>7, <2>1
  <2> QED
    BY <1>2, <2>1, <2>2, <2>3, <2>4, Adding
<1>9. /\ consumer'[task] = "ready"
      /\ \A h \in Generations \ {task} : consumer'[h] = consumer[h]
  BY <1>1, <1>3 DEF A!TypeOK
<1>10. A!TypeOK'
  <2>1. consumer' \in [Generations -> {"none", "ready", "waiting", "done"}]
    BY <1>1, <1>3 DEF A!TypeOK
  <2>2. killed' \in 0..MaxStops
    BY <1>1 DEF A!TypeOK, A!Constants
  <2> QED
    BY <1>1, <1>5, <1>8, <2>1, <2>2 DEF A!TypeOK, A!itemState, A!flushState
<1>11. ReadyInv'
  <2>1. ASSUME NEW j \in Items
        PROVE  /\ In(ready', <<"task", j>>) <=> DueTask(j)'
               /\ In(ready', <<"capture", j>>) <=> DueCapture(j)'
               /\ In(ready', <<"complete", j>>) <=> DueComplete(j)'
    <3>1. /\ In(ready, <<"task", j>>) <=> DueTask(j)
          /\ In(ready, <<"capture", j>>) <=> DueCapture(j)
          /\ In(ready, <<"complete", j>>) <=> DueComplete(j)
      BY DEF ReadyInv
    <3>2. /\ In(ready', <<"task", j>>) <=>
               In(ready, <<"task", j>>) \/ (j \in active /\ state[j] = "sending")
          /\ In(ready', <<"capture", j>>) <=> In(ready, <<"capture", j>>)
          /\ In(ready', <<"complete", j>>) <=> In(ready, <<"complete", j>>)
      BY <1>6, <1>8
    <3>3. <<"task", j>> \in cancelled' <=> <<"task", j>> \in cancelled \/ j \in active
      BY <1>1, <1>5
    <3> QED
      BY <1>1, <3>1, <3>2, <3>3 DEF DueTask, DueCapture, DueComplete, A!itemState
  <2>2. ASSUME NEW h \in Generations
        PROVE  In(ready', <<"target", h>>) <=> DueTarget(h)'
    <3>1. In(ready, <<"target", h>>) <=> consumer[h] = "ready"
      BY DEF ReadyInv, DueTarget
    <3>2. In(ready', <<"target", h>>) <=>
            In(ready, <<"target", h>>) \/ (h = task /\ consumer[h] = "waiting")
      BY <1>6, <1>8
    <3> QED
      BY <1>3, <1>9, <3>1, <3>2 DEF DueTarget
  <2>3. ASSUME NEW f \in A!Flushes
        PROVE  In(ready', <<"flush", f>>) <=> DueFlush(f)'
    <3>1. In(ready, <<"flush", f>>) <=> DueFlush(f)
      BY DEF ReadyInv
    <3>2. In(ready', <<"flush", f>>) <=> In(ready, <<"flush", f>>)
      BY <1>6, <1>8
    <3> QED
      BY <1>1, <3>1, <3>2 DEF DueFlush, A!flushState
  <2> QED
    BY <1>8, <2>1, <2>2, <2>3, Zenon DEF ReadyInv
<1>12. QueueInv'
  BY <1>1 DEF QueueInv, A!itemState
<1>13. GenerationInv'
  <2>1. current \in Nat /\ task # Null /\ task' = Null
    BY <1>1, <1>3, Numbers
  <2>2. ASSUME NEW h \in Generations
        PROVE  /\ h <= current' => <<"target", h>> \in cancelled'
               /\ h > current' => /\ consumer'[h] = "none" /\ queues'[h] = <<>>
                                  /\ <<"target", h>> \notin cancelled'
    <3>1. current' = current /\ queues' = queues
      BY <1>1
    <3>2. <<"target", h>> \in cancelled' <=> <<"target", h>> \in cancelled \/ h = task
      BY <1>1, <1>5
    <3>3. h > current => h # task
      BY <1>3, <2>1, Numbers
    <3> QED
      BY <1>9, <3>1, <3>2, <3>3 DEF GenerationInv
  <2> QED
    BY <2>1, <2>2 DEF GenerationInv
<1>14. ASSUME NEW j \in Items PROVE ItemInv(j)'
  <2>1. <<"task", j>> \in cancelled' <=> <<"task", j>> \in cancelled \/ j \in active
    BY <1>1, <1>5
  <2> QED
    BY <1>1, <2>1 DEF ItemInv, A!itemState
<1>15. CountsInv'
  <2>1. \A h \in Generations : A!Taken(h)' = A!Taken(h)
    BY <1>1 DEF A!Taken, A!itemState
  <2> QED
    BY <1>1, <2>1, FS_EmptySet DEF CountsInv, Exact
<1>16. Onward
  BY <1>1, <1>10, Goes DEF A!itemState
<1> QED
  BY <1>8, <1>10, <1>11, <1>12, <1>13, <1>14, <1>15, <1>16

-----------------------------------------------------------------------------
LEMMA OneMore ==
  ASSUME NEW S, NEW s \in Seq(S), NEW e \in S, Once(s), ~In(s, e)
  PROVE  /\ Append(s, e) \in Seq(S) /\ Once(Append(s, e))
         /\ Len(Append(s, e)) = Len(s) + 1
         /\ \A a : In(Append(s, e), a) <=> In(s, a) \/ a = e
<1>1. Append(s, e) = s \o <<e>>
  BY AppendIsConcat
<1>2. Len(Append(s, e)) = Len(s) + 1
  BY AppendProperties
<1>3. <<e>> \in Seq(S) /\ Once(<<e>>) /\ \A a : In(<<e>>, a) <=> a = e
  BY Few
<1>4. \A a : ~(In(s, a) /\ In(<<e>>, a))
  BY <1>3
<1>5. /\ s \o <<e>> \in Seq(S) /\ Once(s \o <<e>>)
      /\ \A a : In(s \o <<e>>, a) <=> In(s, a) \/ In(<<e>>, a)
  BY <1>3, <1>4, Concatenated
<1> QED
  BY <1>1, <1>2, <1>3, <1>5

(* submit(), with what is left of the handles before and what is added.    *)
LEMMA StepSubmit ==
  ASSUME A!Constants, Core, NEW i \in Items, state[i] \in {"new", "posted"},
         NEW rest \in Seq(A!Handles), Once(rest), \A h : In(rest, h) => In(ready, h),
         NEW asked \in BOOLEAN,
         NEW added \in Seq(A!Handles), Once(added),
         \A h : In(added, h) => \E f \in A!Flushes : h = <<"flush", f>>,
         \A h : In(added, h) => ~In(rest, h),
         A!Submit(i, rest, asked, added),
         UNCHANGED <<stopped, cancelled, origin, active, killed>>,
         flush' \in [A!Flushes -> {"new", "begin", "first", "timeout", "second", "expired",
                                 "drained", "over"}],
         joined' \in [A!Flushes -> Generations \cup {0}], before' \in [A!Flushes -> SUBSET Items]
  PROVE  /\ A!TypeOK' /\ QueueInv' /\ GenerationInv' /\ (\A j \in Items : ItemInv(j)')
         /\ CountsInv' /\ Onward /\ Once(ready')
         /\ \A h : (\A x \in Generations : h # <<"target", x>>) =>
                     (In(ready', h) <=> In(rest, h) \/ In(added, h))
         /\ \A x \in Generations :
              In(ready', <<"target", x>>) <=>
                In(rest, <<"target", x>>) \/ (consumer[x] # "ready" /\ consumer'[x] = "ready")
         /\ \A x \in Generations : consumer[x] = "ready" => consumer'[x] = "ready"
         /\ \A a, b : Precedes(rest, a, b) /\ ~In(added, a)
                        /\ (\A x \in Generations : a # <<"target", x>>) => Precedes(ready', a, b)
         /\ state'[i] \in {"queued", "dropped"}
         /\ \A j \in Items \ {i} : state'[j] = state[j]
<1> USE DEF Core
<1>1. PICK g \in Generations : g = IF A!IsAlive THEN current ELSE current + 1
  BY DEF A!Submit
<1> DEFINE runs == ~A!IsAlive \/ (A!Wakes(g) /\ ~A!Full(g))
<1>2. /\ current' = g /\ task' = g
      /\ consumer' = [consumer EXCEPT ![g] = IF runs THEN "ready" ELSE @]
      /\ queues' = [queues EXCEPT ![g] = IF A!Full(g) THEN @ ELSE Append(@, i)]
      /\ counts' = [counts EXCEPT ![g] = IF A!Full(g) THEN @ ELSE @ + 1]
      /\ state' = [state EXCEPT ![i] = IF A!Full(g) THEN "dropped" ELSE "queued"]
      /\ request' = [request EXCEPT ![i] = asked]
      /\ ready' = rest \o (IF runs THEN <<<<"target", g>>>> ELSE <<>>) \o added
  BY <1>1 DEF A!Submit
<1>3. /\ g \in Nat /\ g # 0 /\ g # Null /\ current \in Nat
      /\ current <= g /\ \A x \in Generations : x > current => x >= g
      /\ <<"target", g>> \notin cancelled
      /\ IF A!IsAlive THEN task = g /\ current = g /\ consumer[g] \in {"ready", "waiting"}
         ELSE task = Null /\ g > current /\ consumer[g] = "none" /\ queues[g] = <<>>
  <2>1. g \in Nat /\ g # 0 /\ g # Null /\ current \in Nat
    BY Numbers DEF A!TypeOK
  <2>2. A!IsAlive <=> task # Null
    BY DEF A!IsAlive, GenerationInv
  <2>3. CASE A!IsAlive
    <3>1. task = g /\ current = g /\ consumer[g] \in {"ready", "waiting"}
          /\ <<"target", g>> \notin cancelled
      BY <1>1, <2>2, <2>3 DEF GenerationInv
    <3> QED
      BY <2>1, <2>3, <3>1, Numbers
  <2>4. CASE ~A!IsAlive
    <3>1. g = current + 1 /\ task = Null
      BY <1>1, <2>2, <2>4
    <3>2. g > current /\ current <= g /\ \A x \in Generations : x > current => x >= g
      BY <2>1, <3>1, Numbers
    <3>3. consumer[g] = "none" /\ queues[g] = <<>> /\ <<"target", g>> \notin cancelled
      BY <3>2 DEF GenerationInv
    <3> QED
      BY <2>1, <2>4, <3>1, <3>2, <3>3
  <2> QED
    BY <2>3, <2>4
<1>4. /\ runs => consumer[g] # "ready"
      /\ consumer'[g] = IF runs THEN "ready" ELSE consumer[g]
      /\ \A x \in Generations \ {g} : consumer'[x] = consumer[x]
  BY <1>2, <1>3 DEF A!TypeOK, A!Wakes
<1>5. /\ state'[i] = IF A!Full(g) THEN "dropped" ELSE "queued"
      /\ \A j \in Items \ {i} : state'[j] = state[j]
      /\ counts'[g] = IF A!Full(g) THEN counts[g] ELSE counts[g] + 1
      /\ \A x \in Generations \ {g} : counts'[x] = counts[x] /\ queues'[x] = queues[x]
  BY <1>2 DEF A!TypeOK
<1>6. /\ origin[i] = 0 /\ i \notin active /\ <<"task", i>> \notin cancelled
      /\ \A x \in Generations : ~In(queues[x], i)
  BY DEF ItemInv, QueueInv, Working, A!TypeOK
<1>7. /\ queues'[g] \in Seq(Items) /\ Once(queues'[g]) /\ Len(queues'[g]) <= QueueRoom
      /\ Len(queues[g]) \in Nat
      /\ Len(queues'[g]) = IF A!Full(g) THEN Len(queues[g]) ELSE Len(queues[g]) + 1
      /\ \A j : In(queues'[g], j) <=> In(queues[g], j) \/ (~A!Full(g) /\ j = i)
  <2>1. /\ queues[g] \in Seq(Items) /\ Once(queues[g]) /\ Len(queues[g]) \in Nat
        /\ Len(queues[g]) <= QueueRoom /\ QueueRoom \in Nat
    BY LenProperties DEF A!TypeOK, QueueInv, A!Constants
  <2>2. CASE A!Full(g)
    <3>1. queues'[g] = queues[g]
      BY <1>2, <2>2 DEF A!TypeOK
    <3> QED
      BY <2>1, <2>2, <3>1
  <2>3. CASE ~A!Full(g)
    <3>1. queues'[g] = Append(queues[g], i)
      BY <1>2, <2>3 DEF A!TypeOK
    <3>2. /\ queues'[g] \in Seq(Items) /\ Once(queues'[g])
          /\ Len(queues'[g]) = Len(queues[g]) + 1
          /\ \A j : In(queues'[g], j) <=> In(queues[g], j) \/ j = i
      BY <1>6, <2>1, <3>1, OneMore
    <3>3. ~(Len(queues[g]) >= QueueRoom)
      BY <2>3 DEF A!Full
    <3>4. Len(queues'[g]) <= QueueRoom
      BY <2>1, <3>2, <3>3
    <3> QED
      BY <2>1, <2>3, <3>2, <3>4
  <2> QED
    BY <2>2, <2>3
<1>8. /\ ready' \in Seq(A!Handles) /\ Once(ready')
      /\ \A h : In(ready', h) <=> In(rest, h) \/ (runs /\ h = <<"target", g>>) \/ In(added, h)
      /\ \A a, b : Precedes(rest, a, b) /\ ~In(added, a) /\ a # <<"target", g>>
                     => Precedes(ready', a, b)
  <2> DEFINE woken == IF runs THEN <<<<"target", g>>>> ELSE <<>>
             first == rest \o woken
  <2>1. /\ woken \in Seq(A!Handles) /\ Once(woken)
        /\ \A h : In(woken, h) <=> runs /\ h = <<"target", g>>
    <3>1. CASE runs
      <4>1. <<"target", g>> \in A!Handles /\ woken = <<<<"target", g>>>>
        BY <3>1 DEF A!Handles
      <4> QED
        BY <3>1, <4>1, Few
    <3>2. CASE ~runs
      <4>1. woken = <<>>
        BY <3>2
      <4> QED
        BY <3>2, <4>1, Few
    <3> QED
      BY <3>1, <3>2
  <2>2. runs => ~In(ready, <<"target", g>>)
    BY <1>4 DEF ReadyInv, DueTarget
  <2>3. ready' = first \o added
    BY <1>2
  <2> HIDE DEF woken
  <2>4. \A h : ~(In(rest, h) /\ In(woken, h))
    BY <2>1, <2>2
  <2>5. /\ first \in Seq(A!Handles) /\ Once(first)
        /\ \A h : In(first, h) <=> In(rest, h) \/ In(woken, h)
        /\ \A a, b : Precedes(rest, a, b) /\ ~In(woken, a) => Precedes(first, a, b)
    BY <2>1, <2>4, Concatenated
  <2> HIDE DEF first
  <2>6. \A h : ~(In(first, h) /\ In(added, h))
    BY <2>1, <2>5
  <2>7. /\ ready' \in Seq(A!Handles) /\ Once(ready')
        /\ \A h : In(ready', h) <=> In(first, h) \/ In(added, h)
        /\ \A a, b : Precedes(first, a, b) /\ ~In(added, a) => Precedes(ready', a, b)
    BY <2>3, <2>5, <2>6, Concatenated
  <2> QED
    BY <2>1, <2>5, <2>7
<1> HIDE DEF runs
<1>9. A!TypeOK'
  <2>1. /\ queues' \in [Generations -> Seq(Items)]
        /\ \A x \in Generations : Len(queues'[x]) <= QueueRoom
    BY <1>2, <1>5, <1>7 DEF A!TypeOK
  <2>2. /\ counts' \in [Generations -> Nat]
        /\ consumer' \in [Generations -> {"none", "ready", "waiting", "done"}]
        /\ state' \in [Items -> {"new", "posted", "queued", "created", "sending", "answered",
                                 "sent", "finished", "dropped"}]
        /\ request' \in [Items -> BOOLEAN]
    BY <1>2 DEF A!TypeOK
  <2> QED
    BY <1>2, <1>8, <2>1, <2>2 DEF A!TypeOK
<1>10. QueueInv'
  <2>1. \A x \in Generations, j \in Items :
          In(queues'[x], j) <=> In(queues[x], j) \/ (x = g /\ ~A!Full(g) /\ j = i)
    BY <1>5, <1>7
  <2>2. \A x \in Generations : Once(queues'[x])
    BY <1>5, <1>7 DEF QueueInv
  <2>3. \A x \in Generations, j \in Items : In(queues'[x], j) => state'[j] = "queued"
    BY <1>5, <1>6, <2>1 DEF QueueInv
  <2>4. \A j \in Items : state'[j] = "queued" => \E x \in Generations : In(queues'[x], j)
    BY <1>5, <2>1 DEF QueueInv
  <2>5. \A x, y \in Generations, j \in Items : In(queues'[x], j) /\ In(queues'[y], j) => x = y
    BY <1>6, <2>1 DEF QueueInv
  <2> QED
    BY <2>2, <2>3, <2>4, <2>5 DEF QueueInv
<1>11. GenerationInv'
  <2>1. consumer'[g] \in {"ready", "waiting"}
    BY <1>3, <1>4 DEF runs
  <2>2. ASSUME NEW x \in Generations, x # g
        PROVE  /\ x <= g => <<"target", x>> \in cancelled
               /\ x > g => /\ consumer'[x] = "none" /\ queues'[x] = <<>>
                           /\ <<"target", x>> \notin cancelled
    <3>1. x \in Nat
      BY Numbers
    <3>2. x < g => x <= current /\ x # task
      BY <1>3, <2>2, <3>1, Numbers
    <3>3. x > g => x > current
      BY <1>3, <3>1
    <3>4. consumer'[x] = consumer[x] /\ queues'[x] = queues[x]
      BY <1>4, <1>5, <2>2
    <3> QED
      BY <1>3, <2>2, <3>1, <3>2, <3>3, <3>4 DEF GenerationInv
  <2>3. cancelled' = cancelled
    OBVIOUS
  <2> QED
    BY <1>2, <1>3, <2>1, <2>2, <2>3 DEF GenerationInv
<1>12. ASSUME NEW j \in Items PROVE ItemInv(j)'
  <2>1. UNCHANGED <<origin, active, cancelled>>
    OBVIOUS
  <2>2. j \in active => task = g /\ task' # Null
    BY <1>2, <1>3 DEF ItemInv
  <2>3. origin[j] \in Nat
    BY Numbers DEF A!TypeOK
  <2>4. CASE j = i
    BY <1>2, <1>3, <1>5, <1>6, <2>1, <2>2, <2>3, <2>4 DEF ItemInv, Working
  <2>5. CASE j # i
    <3>1. state'[j] = state[j]
      BY <1>5, <2>5
    <3>2. origin[j] <= g
      <4>1. origin[j] <= current
        BY DEF ItemInv
      <4> QED
        BY <1>3, <2>3, <4>1
    <3>3. j \in active => origin[j] = g
      BY <1>3, <2>2 DEF ItemInv
    <3> QED
      BY <1>2, <2>1, <2>2, <3>1, <3>2, <3>3 DEF ItemInv
  <2> QED
    BY <2>4, <2>5
<1>13. CountsInv'
  <2>1. ASSUME NEW x \in Generations PROVE A!Taken(x)' = A!Taken(x)
    BY <1>5, <1>6, Numbers DEF A!Taken
  <2>2. \A x \in Generations : IsFiniteSet(A!Taken(x)) /\ Cardinality(A!Taken(x)) \in Nat
    BY FS_CardinalityType DEF CountsInv
  <2>3. \A x \in Generations : counts'[x] = Len(queues'[x]) + Cardinality(A!Taken(x))
    <3>1. \A x \in Generations :
            counts[x] = Len(queues[x]) + Cardinality(A!Taken(x))
      BY DEF CountsInv, Exact
    <3>2. counts'[g] = Len(queues'[g]) + Cardinality(A!Taken(g))
      BY <1>5, <1>7, <2>2, <3>1
    <3>3. \A x \in Generations \ {g} : counts'[x] = Len(queues'[x]) + Cardinality(A!Taken(x))
      BY <1>5, <3>1
    <3> QED
      BY <3>2, <3>3
  <2> QED
    BY <2>1, <2>2, <2>3 DEF CountsInv, Exact
<1>14. Onward
  <2>1. \A x \in Generations, j \in Items : In(queues[x], j) => In(queues'[x], j)
    BY <1>5, <1>7
  <2>2. \A j \in Items : /\ state[j] # "new" => state'[j] # "new"
                         /\ state[j] \notin {"new", "posted"} =>
                              state'[j] \notin {"new", "posted"}
                         /\ state[j] \in {"finished", "dropped"} => state'[j] = state[j]
    BY <1>5
  <2> QED
    BY <1>9, <2>1, <2>2, Goes
<1>15. \A h : (\A x \in Generations : h # <<"target", x>>) =>
                (In(ready', h) <=> In(rest, h) \/ In(added, h))
  BY <1>8
<1>16. ASSUME NEW x \in Generations
       PROVE  /\ consumer[x] = "ready" => consumer'[x] = "ready"
              /\ In(ready', <<"target", x>>) <=>
                   \/ In(rest, <<"target", x>>)
                   \/ consumer[x] # "ready" /\ consumer'[x] = "ready"
  <2>1. ~In(added, <<"target", x>>)
    OBVIOUS
  <2>2. In(ready', <<"target", x>>) <=> In(rest, <<"target", x>>) \/ (runs /\ x = g)
    BY <1>8, <2>1
  <2>3. consumer[x] # "ready" /\ consumer'[x] = "ready" <=> runs /\ x = g
    BY <1>4
  <2> QED
    BY <1>4, <2>2, <2>3
<1>17. \A a, b : Precedes(rest, a, b) /\ ~In(added, a)
                   /\ (\A x \in Generations : a # <<"target", x>>) => Precedes(ready', a, b)
  BY <1>8
<1> QED
  BY <1>5, <1>8, <1>9, <1>10, <1>11, <1>12, <1>13, <1>14, <1>15, <1>16, <1>17

LEMMA StepRunCapture ==
  ASSUME A!Constants, Core, NEW i \in Items, A!RunCapture(i)
  PROVE  Core' /\ Onward /\ Orderly
<1> USE DEF Core
<1> DEFINE rest == Tail(ready)
<1>1. /\ A!Runs("capture", i) /\ A!Submit(i, rest, FALSE, <<>>)
      /\ UNCHANGED <<stopped, cancelled, origin, active, A!flushState, killed>>
  BY DEF A!RunCapture
<1>2. ready # <<>> /\ Head(ready) = <<"capture", i>> /\ state[i] = "posted"
  BY <1>1, HeadRuns DEF DueCapture
<1>3. /\ rest \in Seq(A!Handles) /\ Once(rest)
      /\ \A h : In(rest, h) <=> In(ready, h) /\ h # <<"capture", i>>
      /\ \A a, b : Precedes(ready, a, b) => Precedes(rest, a, b)
  BY <1>2, Popped DEF A!TypeOK, ReadyInv
<1>4. /\ <<>> \in Seq(A!Handles) /\ Once(<<>>) /\ \A h : ~In(<<>>, h)
  BY Few
<1>5. /\ flush' \in [A!Flushes -> {"new", "begin", "first", "timeout", "second", "expired",
                                 "drained", "over"}]
      /\ joined' \in [A!Flushes -> Generations \cup {0}] /\ before' \in [A!Flushes -> SUBSET Items]
  BY <1>1 DEF A!flushState, A!TypeOK
<1> HIDE DEF rest
<1>6. /\ A!TypeOK' /\ QueueInv' /\ GenerationInv' /\ (\A j \in Items : ItemInv(j)')
      /\ CountsInv' /\ Onward /\ Once(ready')
      /\ \A h : (\A x \in Generations : h # <<"target", x>>) =>
                  (In(ready', h) <=> In(rest, h))
      /\ \A x \in Generations :
           In(ready', <<"target", x>>) <=>
             In(rest, <<"target", x>>) \/ (consumer[x] # "ready" /\ consumer'[x] = "ready")
      /\ \A x \in Generations : consumer[x] = "ready" => consumer'[x] = "ready"
      /\ \A a, b : Precedes(rest, a, b) /\ (\A x \in Generations : a # <<"target", x>>)
                     => Precedes(ready', a, b)
      /\ state'[i] \in {"queued", "dropped"}
      /\ \A j \in Items \ {i} : state'[j] = state[j]
  BY <1>1, <1>2, <1>3, <1>4, <1>5, StepSubmit
<1>7. ReadyInv'
  <2>1. ASSUME NEW j \in Items
        PROVE  /\ In(ready', <<"task", j>>) <=> DueTask(j)'
               /\ In(ready', <<"capture", j>>) <=> DueCapture(j)'
               /\ In(ready', <<"complete", j>>) <=> DueComplete(j)'
    <3>1. /\ In(ready, <<"task", j>>) <=> DueTask(j)
          /\ In(ready, <<"capture", j>>) <=> DueCapture(j)
          /\ In(ready, <<"complete", j>>) <=> DueComplete(j)
      BY DEF ReadyInv
    <3>2. /\ In(ready', <<"task", j>>) <=> In(ready, <<"task", j>>)
          /\ In(ready', <<"capture", j>>) <=> In(ready, <<"capture", j>>) /\ j # i
          /\ In(ready', <<"complete", j>>) <=> In(ready, <<"complete", j>>)
      BY <1>3, <1>6
    <3> QED
      BY <1>1, <1>2, <1>6, <3>1, <3>2 DEF DueTask, DueCapture, DueComplete
  <2>2. ASSUME NEW x \in Generations
        PROVE  In(ready', <<"target", x>>) <=> DueTarget(x)'
    BY <1>3, <1>6 DEF ReadyInv, DueTarget
  <2>3. ASSUME NEW f \in A!Flushes
        PROVE  In(ready', <<"flush", f>>) <=> DueFlush(f)'
    <3>1. In(ready, <<"flush", f>>) <=> DueFlush(f)
      BY DEF ReadyInv
    <3>2. In(ready', <<"flush", f>>) <=> In(ready, <<"flush", f>>)
      BY <1>3, <1>6
    <3> QED
      BY <1>1, <3>1, <3>2 DEF DueFlush, A!flushState
  <2> QED
    BY <1>6, <2>1, <2>2, <2>3, Zenon DEF ReadyInv
<1>8. Orderly
  BY <1>3, <1>6 DEF Orderly
<1> QED
  BY <1>6, <1>7, <1>8

LEMMA StepFlush ==
  ASSUME A!Constants, Core, NEW f \in A!Flushes, NEW i \in Items, A!Flush(f, i)
  PROVE  /\ Core' /\ Onward /\ Orderly
         /\ \A j \in before'[f] : /\ state[j] # "new" /\ j \in Items
                                  /\ Precedes(ready', <<"capture", j>>, <<"flush", f>>)
<1> USE DEF Core
<1> DEFINE added == <<<<"flush", f>>>>
<1>1. /\ flush[f] = "new" /\ state[i] = "new" /\ A!Submit(i, ready, TRUE, added)
      /\ flush' = [flush EXCEPT ![f] = "begin"] /\ before' = [before EXCEPT ![f] = A!Given]
      /\ UNCHANGED <<stopped, cancelled, origin, active, joined, killed>>
  BY DEF A!Flush, A!Fresh
<1>2. ready \in Seq(A!Handles) /\ Once(ready) /\ ~In(ready, <<"flush", f>>)
  BY <1>1 DEF A!TypeOK, ReadyInv, DueFlush
<1>3. added \in Seq(A!Handles) /\ Once(added) /\ \A h : In(added, h) <=> h = <<"flush", f>>
  BY Few DEF A!Handles
<1>4. /\ flush' \in [A!Flushes -> {"new", "begin", "first", "timeout", "second", "expired",
                                 "drained", "over"}]
      /\ joined' \in [A!Flushes -> Generations \cup {0}] /\ before' \in [A!Flushes -> SUBSET Items]
      /\ flush'[f] = "begin" /\ \A e \in A!Flushes \ {f} : flush'[e] = flush[e]
      /\ before'[f] = A!Given
  BY <1>1 DEF A!TypeOK, A!Given
<1> HIDE DEF added
<1>5. /\ \A h : In(added, h) => \E e \in A!Flushes : h = <<"flush", e>>
      /\ \A h : In(added, h) => ~In(ready, h)
      /\ \A h : In(ready, h) => In(ready, h)
  BY <1>2, <1>3
<1>6. /\ A!TypeOK' /\ QueueInv' /\ GenerationInv' /\ (\A j \in Items : ItemInv(j)')
      /\ CountsInv' /\ Onward /\ Once(ready')
      /\ \A h : (\A x \in Generations : h # <<"target", x>>) =>
                  (In(ready', h) <=> In(ready, h) \/ In(added, h))
      /\ \A x \in Generations :
           In(ready', <<"target", x>>) <=>
             In(ready, <<"target", x>>) \/ (consumer[x] # "ready" /\ consumer'[x] = "ready")
      /\ \A x \in Generations : consumer[x] = "ready" => consumer'[x] = "ready"
      /\ \A a, b : Precedes(ready, a, b) /\ ~In(added, a)
                     /\ (\A x \in Generations : a # <<"target", x>>) => Precedes(ready', a, b)
      /\ state'[i] \in {"queued", "dropped"}
      /\ \A j \in Items \ {i} : state'[j] = state[j]
  BY <1>1, <1>2, <1>3, <1>4, <1>5, StepSubmit
<1>7. ReadyInv'
  <2>1. ASSUME NEW j \in Items
        PROVE  /\ In(ready', <<"task", j>>) <=> DueTask(j)'
               /\ In(ready', <<"capture", j>>) <=> DueCapture(j)'
               /\ In(ready', <<"complete", j>>) <=> DueComplete(j)'
    <3>1. /\ In(ready, <<"task", j>>) <=> DueTask(j)
          /\ In(ready, <<"capture", j>>) <=> DueCapture(j)
          /\ In(ready, <<"complete", j>>) <=> DueComplete(j)
      BY DEF ReadyInv
    <3>2. /\ In(ready', <<"task", j>>) <=> In(ready, <<"task", j>>)
          /\ In(ready', <<"capture", j>>) <=> In(ready, <<"capture", j>>)
          /\ In(ready', <<"complete", j>>) <=> In(ready, <<"complete", j>>)
      BY <1>3, <1>6
    <3> QED
      BY <1>1, <1>6, <3>1, <3>2 DEF DueTask, DueCapture, DueComplete
  <2>2. ASSUME NEW x \in Generations
        PROVE  In(ready', <<"target", x>>) <=> DueTarget(x)'
    BY <1>6 DEF ReadyInv, DueTarget
  <2>3. ASSUME NEW e \in A!Flushes
        PROVE  In(ready', <<"flush", e>>) <=> DueFlush(e)'
    <3>1. In(ready, <<"flush", e>>) <=> DueFlush(e)
      BY DEF ReadyInv
    <3>2. In(ready', <<"flush", e>>) <=> In(ready, <<"flush", e>>) \/ e = f
      BY <1>3, <1>6
    <3> QED
      BY <1>4, <3>1, <3>2 DEF DueFlush
  <2> QED
    BY <1>6, <2>1, <2>2, <2>3, Zenon DEF ReadyInv
<1>8. \A a, b : ~In(ready, b) => Precedes(ready, a, b)
  BY DEF Precedes, In
<1>9. \A j \in Items, e \in A!Flushes :
        Precedes(ready, <<"capture", j>>, <<"flush", e>>)
          => Precedes(ready', <<"capture", j>>, <<"flush", e>>)
  <2>1. \A j \in Items : /\ ~In(added, <<"capture", j>>)
                         /\ \A x \in Generations : <<"capture", j>> # <<"target", x>>
    BY <1>3
  <2> QED
    BY <1>6, <2>1
<1>10. Orderly
  BY <1>9 DEF Orderly
<1> QED
  BY <1>2, <1>4, <1>6, <1>7, <1>8, <1>9, <1>10 DEF A!Given

-----------------------------------------------------------------------------
(* An item that the loop has seen is settled, or is what the generation at *)
(* work counts; and a generation that counts nothing has settled all that  *)
(* it was given.                                                           *)
LEMMA NowOrSettled ==
  ASSUME A!Constants, Core, NEW j \in Items, state[j] \notin {"new", "posted"}, ~Settled(j)
  PROVE  task # Null /\ Awaited(j, current)
<1> USE DEF Core
<1>1. ~A!Orphaned(j) /\ <<"task", j>> \notin cancelled
      /\ state[j] \notin {"finished", "dropped"}
  BY DEF Settled, A!Killed
<1>2. CASE state[j] = "queued"
  <2>1. PICK g \in Generations : In(queues[g], j)
    BY <1>2 DEF QueueInv
  <2>2. <<"target", g>> \notin cancelled
    BY <1>1, <2>1, Orphans
  <2>3. ~(g > current)
    <3>1. g > current => queues[g] = <<>>
      BY DEF GenerationInv
    <3>2. ~In(<<>>, j)
      BY Few
    <3> QED
      BY <2>1, <3>1, <3>2
  <2>4. g \in Nat /\ current \in Nat
    BY Numbers DEF A!TypeOK
  <2>5. g = task /\ g # Null
    BY <2>2, <2>3, <2>4, Numbers DEF GenerationInv
  <2> QED
    BY <2>1, <2>5 DEF GenerationInv, Awaited
<1>3. CASE state[j] # "queued"
  <2>1. j \in active
    BY <1>1, <1>3 DEF ItemInv, Working, A!TypeOK
  <2> QED
    BY <2>1 DEF ItemInv, Awaited
<1> QED
  BY <1>2, <1>3

LEMMA AllDone ==
  ASSUME A!Constants, Core, NEW g \in Generations, NEW j \in Items, Awaited(j, g)
  PROVE  /\ counts[g] = 0 => Settled(j)
         /\ counts[g] = 1 => \A i \in A!Taken(g) : j = i \/ Settled(j)
<1> USE DEF Core
<1>1. /\ counts[g] = Len(queues[g]) + Cardinality(A!Taken(g))
      /\ IsFiniteSet(A!Taken(g)) /\ Cardinality(A!Taken(g)) \in Nat
      /\ queues[g] \in Seq(Items) /\ Len(queues[g]) \in Nat
  BY FS_CardinalityType, LenProperties DEF CountsInv, Exact, A!TypeOK
<1>2. In(queues[g], j) => Len(queues[g]) # 0
  BY <1>1 DEF In
<1>3. j \in A!Taken(g) => Cardinality(A!Taken(g)) # 0
  BY <1>1, FS_EmptySet
<1>4. In(queues[g], j) \/ j \in A!Taken(g) \/ Settled(j)
  BY DEF Awaited, A!Taken, Settled
<1>5. ASSUME NEW i \in A!Taken(g), counts[g] = 1 PROVE j = i \/ Settled(j)
  <2>1. Cardinality(A!Taken(g)) # 0
    BY <1>1, FS_EmptySet
  <2>2. Len(queues[g]) = 0 /\ Cardinality(A!Taken(g)) = 1
    BY <1>1, <1>5, <2>1
  <2>3. \E x : A!Taken(g) = {x}
    BY <1>1, <2>2, FS_Singleton
  <2> QED
    BY <1>2, <1>4, <1>5, <2>2, <2>3
<1> QED
  BY <1>1, <1>2, <1>3, <1>4, <1>5

LEMMA FlushKept ==
  ASSUME A!Constants, Core, NEW f \in A!Flushes, FlushInv(f), Onward, Orderly,
         current' = current \/ current' \in Generations,
         flush'[f] = flush[f], before'[f] = before[f], joined'[f] = joined[f]
  PROVE  FlushInv(f)'
<1>1. before[f] \subseteq Items /\ joined[f] \in Generations \cup {0}
  BY DEF Core, A!TypeOK
<1>2. flush[f] # "new" => current' # 0
  BY Numbers DEF FlushInv
<1>3. \A i \in before[f] : state'[i] # "new"
  BY <1>1 DEF FlushInv, Onward
<1>4. flush[f] = "begin" =>
        \A i \in before[f] : Precedes(ready', <<"capture", i>>, <<"flush", f>>)
  <2> SUFFICES ASSUME flush[f] = "begin", NEW i \in before[f]
               PROVE  Precedes(ready', <<"capture", i>>, <<"flush", f>>)
    BY Zenon
  <2>1. i \in Items /\ state[i] # "new" /\ Precedes(ready, <<"capture", i>>, <<"flush", f>>)
    BY <1>1 DEF FlushInv
  <2> QED
    BY <2>1 DEF Orderly
<1>5. flush[f] \notin {"new", "begin"} => \A i \in before[f] : state'[i] # "posted"
  BY <1>1 DEF FlushInv, Onward
<1>6. ASSUME flush[f] \in {"first", "second"}
      PROVE  joined[f] # 0 /\ \A i \in before[f] : Settled(i)' \/ Awaited(i, joined[f])'
  <2>1. joined[f] \in Generations
    BY <1>1, <1>6 DEF FlushInv
  <2>2. \A i \in Items, h \in Generations : Awaited(i, h) => Awaited(i, h)'
    BY DEF Onward
  <2>3. ASSUME NEW i \in before[f], NEW h \in Generations, h = joined[f]
        PROVE  Settled(i)' \/ Awaited(i, joined[f])'
    <3>1. Settled(i) \/ Awaited(i, h)
      BY <1>6, <2>3 DEF FlushInv
    <3>2. Settled(i)' \/ Awaited(i, h)'
      BY <1>1, <2>2, <3>1 DEF Onward
    <3> QED
      BY <2>3, <3>2 DEF Awaited
  <2> QED
    BY <2>1, <2>3, Numbers
<1>7. flush[f] = "drained" => \A i \in before[f] : Settled(i)'
  BY <1>1 DEF FlushInv, Onward
<1> QED
  BY <1>2, <1>3, <1>4, <1>5, <1>6, <1>7 DEF FlushInv

(* A flush at the head of the loop's handles.                              *)
LEMMA FlushRuns ==
  ASSUME A!Constants, Core, NEW f \in A!Flushes, FlushInv(f), A!RunFlush(f), Onward
  PROVE  /\ FlushInv(f)'
         /\ flush[f] \in {"begin", "timeout", "drained"} /\ flush'[f] = "over"
              => \A i \in before[f] : Settled(i)
<1> USE DEF Core
<1>1. /\ A!Runs("flush", f) /\ current' = current /\ before' = before
      /\ flush[f] \in {"begin", "timeout", "expired", "drained"}
  BY HeadRuns DEF A!RunFlush, A!workerState, DueFlush
<1>2. before[f] \subseteq Items /\ current \in Generations
  BY <1>1 DEF A!TypeOK, FlushInv
<1>3. \A i \in before[f] : state[i] \notin {"new", "posted"}
  <2> SUFFICES ASSUME NEW i \in before[f] PROVE state[i] \notin {"new", "posted"}
    OBVIOUS
  <2>1. flush[f] = "begin" => ~In(ready, <<"capture", i>>)
    BY <1>1, HeadRuns DEF FlushInv
  <2>2. i \in Items
    BY <1>2
  <2>3. flush[f] = "begin" => state[i] # "posted"
    BY <2>1, <2>2 DEF ReadyInv, DueCapture
  <2> QED
    BY <1>1, <2>3 DEF FlushInv
<1>4. \A i \in before[f] : /\ Settled(i) \/ (task # Null /\ Awaited(i, current))
                           /\ counts[current] = 0 => Settled(i)
  BY <1>2, <1>3, NowOrSettled, AllDone
<1>5. /\ flush'[f] \in {"first", "second", "over"}
      /\ flush'[f] \in {"first", "second"} => joined'[f] = current
  BY <1>1 DEF A!RunFlush, A!Join, A!TypeOK
<1>6. ASSUME flush[f] \in {"begin", "timeout", "drained"}, flush'[f] = "over"
      PROVE  \A i \in before[f] : Settled(i)
  <2>1. CASE flush[f] = "begin" /\ task = Null
    BY <1>4, <2>1
  <2>2. CASE flush[f] = "drained"
    BY <2>2 DEF FlushInv
  <2>3. CASE flush[f] \in {"begin", "timeout"} /\ (flush[f] = "begin" => task # Null)
    <3>1. PICK point \in {"first", "second"} : A!Join(f, point)
      BY <2>3 DEF A!RunFlush
    <3>2. counts[current] = 0
      BY <1>6, <3>1 DEF A!Join, A!JoinedIfDone, A!TypeOK
    <3> QED
      BY <1>4, <3>2
  <2> QED
    BY <1>6, <2>1, <2>2, <2>3
<1>7. FlushInv(f)'
  <2>1. flush'[f] # "new" => current' # 0
    BY <1>1, <1>2, Numbers
  <2>2. \A i \in before'[f] : state'[i] # "new" /\ state'[i] # "posted"
    BY <1>1, <1>2, <1>3 DEF Onward
  <2>3. flush'[f] \in {"first", "second"} =>
          joined'[f] # 0 /\ \A i \in before'[f] : Settled(i)' \/ Awaited(i, joined[f])'
    <3>1. \A i \in before[f] : Settled(i)' \/ Awaited(i, current)'
      <4>1. PICK g \in Generations : g = current /\ g = current'
        BY <1>1, <1>2
      <4>2. \A i \in before[f] : Settled(i)' \/ Awaited(i, g)'
        BY <1>2, <1>4, <4>1 DEF Onward
      <4> QED
        BY <4>1, <4>2 DEF Awaited
    <3>2. flush'[f] \in {"first", "second"} => joined'[f] = current'
      BY <1>1, <1>5
    <3> QED
      BY <1>1, <1>2, <3>1, <3>2, Numbers DEF Awaited
  <2> QED
    BY <1>5, <2>1, <2>2, <2>3 DEF FlushInv
<1> QED
  BY <1>6, <1>7

-----------------------------------------------------------------------------
LEMMA InitAInv == ASSUME A!Constants PROVE A!Init => AInv
<1> SUFFICES ASSUME A!Init PROVE AInv
  OBVIOUS
<1> USE DEF A!Init
<1>1. A!TypeOK
  <2>1. /\ ready \in Seq(A!Handles) /\ queues \in [Generations -> Seq(Items)]
        /\ \A g \in Generations : Len(queues[g]) = 0
    BY Few, EmptySeq
  <2> QED
    <3>1. \A g \in Generations : Len(queues[g]) <= QueueRoom
      BY <2>1 DEF A!Constants
    <3>2. killed \in 0..MaxStops
      BY DEF A!Constants
    <3> QED
      BY <2>1, <3>1, <3>2 DEF A!TypeOK
<1>2. ReadyInv
  BY Few DEF ReadyInv, DueCapture, DueTask, DueComplete, DueTarget, DueFlush
<1>3. QueueInv
  BY Few DEF QueueInv
<1>4. GenerationInv
  BY Numbers DEF GenerationInv
<1>5. \A i \in Items : ItemInv(i)
  BY DEF ItemInv, Working
<1>6. CountsInv
  <2>1. \A g \in Generations : A!Taken(g) = {} /\ Len(queues[g]) = 0 /\ counts[g] = 0
    BY Numbers, EmptySeq DEF A!Taken
  <2> QED
    <3>1. \A g \in Generations : IsFiniteSet(A!Taken(g)) /\ Cardinality(A!Taken(g)) = 0
      BY <2>1, FS_EmptySet
    <3>2. IsFiniteSet(active)
      BY FS_EmptySet
    <3> QED
      BY <2>1, <3>1, <3>2 DEF CountsInv, Exact
<1>7. \A f \in A!Flushes : FlushInv(f)
  BY DEF FlushInv
<1> QED
  BY <1>1, <1>2, <1>3, <1>4, <1>5, <1>6, <1>7 DEF AInv, Core

(* The steps of the loop, and all others, and the flushes that they leave  *)
(* alone.                                                                  *)
LEMMA StepCore ==
  ASSUME A!Constants, Core, [A!Next]_A!vars
  PROVE  Core' /\ Onward /\ Orderly
<1>1. CASE A!Kill
  BY <1>1, StepKill
<1>2. CASE A!Stop \/ UNCHANGED A!vars
  BY <1>2, StepIdle
<1>3. ASSUME NEW i \in Items, A!CaptureEnvelope(i) PROVE Core' /\ Onward /\ Orderly
  BY <1>3, StepCaptureEnvelope
<1>4. ASSUME NEW i \in Items, A!Answer(i) PROVE Core' /\ Onward /\ Orderly
  BY <1>4, StepAnswer
<1>5. ASSUME NEW f \in A!Flushes, A!Timeout(f) PROVE Core' /\ Onward /\ Orderly
  BY <1>5, StepTimeout
<1>6. ASSUME NEW f \in A!Flushes, NEW i \in Items, A!Flush(f, i) PROVE Core' /\ Onward /\ Orderly
  BY <1>6, StepFlush
<1>7. ASSUME NEW i \in Items, A!RunCapture(i) PROVE Core' /\ Onward /\ Orderly
  BY <1>7, StepRunCapture
<1>8. ASSUME NEW i \in Items, A!RunTask(i) PROVE Core' /\ Onward /\ Orderly
  BY <1>8, StepRunTask
<1>9. ASSUME NEW i \in Items, A!RunComplete(i) PROVE Core' /\ Onward /\ Orderly
  BY <1>9, StepRunComplete
<1>10. ASSUME NEW g \in Generations, A!RunTarget(g) PROVE Core' /\ Onward /\ Orderly
  BY <1>10, StepRunTarget
<1>11. ASSUME NEW f \in A!Flushes, A!RunFlush(f) PROVE Core' /\ Onward /\ Orderly
  BY <1>11, StepRunFlush
<1> QED
  BY <1>1, <1>2, <1>3, <1>4, <1>5, <1>6, <1>7, <1>8, <1>9, <1>10, <1>11 DEF A!Next, A!LoopStep

Elsewhere(f) ==
  /\ flush'[f] = flush[f] /\ before'[f] = before[f] /\ joined'[f] = joined[f]
  /\ current' = current \/ current' \in Generations

LEMMA FlushCases ==
  ASSUME A!Constants, Core, [A!Next]_A!vars, NEW f \in A!Flushes
  PROVE  \/ Elsewhere(f)
         \/ A!RunFlush(f)
         \/ A!Timeout(f)
         \/ \E i \in Items : A!Flush(f, i)
         \/ \E i \in Items : A!RunComplete(i) /\ flush'[f] = "drained"
<1> USE DEF Core
<1>1. CASE A!Kill \/ A!Stop \/ UNCHANGED A!vars
  BY <1>1 DEF A!Kill, A!KillSparing, A!Stop, A!vars, A!workerState, A!flushState, Elsewhere
<1>2. ASSUME NEW i \in Items, A!CaptureEnvelope(i) \/ A!Answer(i) \/ A!RunTask(i)
      PROVE  Elsewhere(f)
  BY <1>2 DEF A!CaptureEnvelope, A!Answer, A!RunTask, A!workerState, A!flushState, Elsewhere
<1>3. ASSUME NEW i \in Items, A!RunCapture(i) PROVE Elsewhere(f)
  BY <1>3 DEF A!RunCapture, A!Submit, A!flushState, Elsewhere
<1>4. ASSUME NEW g \in Generations, A!RunTarget(g) PROVE Elsewhere(f)
  BY <1>4 DEF A!RunTarget, A!flushState, Elsewhere
<1>5. ASSUME NEW i \in Items, A!RunComplete(i), flush'[f] # "drained" PROVE Elsewhere(f)
  BY <1>5 DEF A!RunComplete, A!CompleteOn, Elsewhere
<1>6. ASSUME NEW e \in A!Flushes, e # f, A!RunFlush(e) \/ A!Timeout(e) PROVE Elsewhere(f)
  BY <1>6 DEF A!RunFlush, A!Join, A!Timeout, A!workerState, A!TypeOK, Elsewhere
<1>7. ASSUME NEW e \in A!Flushes, e # f, NEW i \in Items, A!Flush(e, i) PROVE Elsewhere(f)
  BY <1>7 DEF A!Flush, A!Submit, A!TypeOK, Elsewhere
<1> QED
  BY <1>1, <1>2, <1>3, <1>4, <1>5, <1>6, <1>7 DEF A!Next, A!LoopStep

LEMMA FlushDrained ==
  ASSUME A!Constants, Core, NEW f \in A!Flushes, FlushInv(f), Onward, Core',
         NEW i \in Items, A!RunComplete(i), flush'[f] = "drained"
  PROVE  FlushInv(f)'
<1> USE DEF Core
<1>1. PICK g : g = origin[i]
  OBVIOUS
<1>2. /\ before' = before /\ current' = current /\ state[i] = "sent" /\ state'[i] = "finished"
      /\ flush[f] # "drained" =>
           flush[f] \in {"first", "second"} /\ joined[f] = g /\ counts[g] = 1
  <2>1. state[i] = "sent"
    BY HeadRuns DEF A!RunComplete, A!CompleteOn, DueComplete
  <2> QED
    BY <1>1, <2>1 DEF A!RunComplete, A!CompleteOn, A!TypeOK
<1>3. flush[f] \in {"first", "second", "drained"} /\ before[f] \subseteq Items
  BY <1>2 DEF A!TypeOK
<1>4. ASSUME NEW j \in before[f] PROVE Settled(j)'
  <2>1. CASE flush[f] = "drained"
    BY <1>3, <2>1 DEF FlushInv, Onward
  <2>2. CASE flush[f] # "drained"
    <3>1. g \in Generations /\ (Settled(j) \/ Awaited(j, g))
      BY <1>2, <2>2 DEF FlushInv, A!TypeOK
    <3>2. i \in A!Taken(g)
      BY <1>1, <1>2 DEF A!Taken
    <3>3. Settled(j) \/ j = i
      BY <1>2, <1>3, <2>2, <3>1, <3>2, AllDone
    <3>4. Settled(i)'
      BY <1>2 DEF Settled
    <3> QED
      BY <1>3, <3>3, <3>4 DEF Onward
  <2> QED
    BY <2>1, <2>2
<1>5. \A j \in before[f] : state'[j] \notin {"new", "posted"}
  BY <1>3 DEF FlushInv, Onward
<1>6. current # 0
  BY <1>3 DEF FlushInv
<1> QED
  BY <1>2, <1>4, <1>5, <1>6 DEF FlushInv

LEMMA StepAInv == ASSUME A!Constants PROVE AInv /\ [A!Next]_A!vars => AInv'
<1> SUFFICES ASSUME AInv, [A!Next]_A!vars PROVE AInv'
  OBVIOUS
<1>1. Core' /\ Onward /\ Orderly
  BY StepCore DEF AInv
<1>2. ASSUME NEW f \in A!Flushes PROVE FlushInv(f)'
  <2>1. CASE Elsewhere(f)
    BY <1>1, <2>1, FlushKept DEF AInv, Elsewhere
  <2>2. CASE A!RunFlush(f)
    BY <1>1, <2>2, FlushRuns DEF AInv
  <2>3. CASE A!Timeout(f)
    <3>1. /\ flush[f] \in {"first", "second"} /\ flush'[f] \in {"timeout", "expired"}
          /\ before' = before /\ current' = current /\ before[f] \subseteq Items
      BY <2>3 DEF A!Timeout, A!workerState, AInv, Core, A!TypeOK
    <3> QED
      BY <1>1, <3>1 DEF AInv, FlushInv, Onward
  <2>4. ASSUME NEW i \in Items, A!Flush(f, i) PROVE FlushInv(f)'
    <3>1. /\ \A j \in before'[f] : /\ state[j] # "new" /\ j \in Items
                                   /\ Precedes(ready', <<"capture", j>>, <<"flush", f>>)
      BY <2>4, StepFlush DEF AInv
    <3>2. flush'[f] = "begin" /\ current' \in Generations
      BY <2>4 DEF A!Flush, A!Submit, AInv, Core, A!TypeOK
    <3> QED
      BY <1>1, <3>1, <3>2, Numbers DEF FlushInv, Onward
  <2>5. ASSUME NEW i \in Items, A!RunComplete(i), flush'[f] = "drained" PROVE FlushInv(f)'
    BY <1>1, <2>5, FlushDrained DEF AInv
  <2> QED
    BY <2>1, <2>2, <2>3, <2>4, <2>5, FlushCases DEF AInv
<1> QED
  BY <1>1, <1>2 DEF AInv

LEMMA AsyncInductive == ASSUME A!Constants PROVE A!Spec => []AInv
BY InitAInv, StepAInv, PTL DEF A!Spec

(* Every generation's queue counts what is in it and what was taken from   *)
(* it and is not complete, cancelled tasks included; one consumer at most  *)
(* goes on; and a task that is not complete is referenced or cancelled     *)
(* (worker.py:184-307).                                                    *)
THEOREM WorkIsTracked == A!Spec => []WorkTracked
<1>1. AInv => WorkTracked
  <2> SUFFICES ASSUME AInv PROVE A!OneConsumer /\ A!Referenced
    BY SameFiniteness DEF WorkTracked, A!WorkTracked, AInv, Core,
       CountsInv, Exact, A!UnfinishedExact
  <2> DEFINE going == {g \in Generations : consumer[g] \in {"ready", "waiting"}
                                           /\ <<"target", g>> \notin cancelled}
  <2>1. going \subseteq {task}
    <3> SUFFICES ASSUME NEW g \in Generations, consumer[g] \in {"ready", "waiting"},
                        <<"target", g>> \notin cancelled
                 PROVE  g = task
      OBVIOUS
    <3>1. g \in Nat /\ current \in Nat
      BY Numbers, AsyncConstants DEF AInv, Core, A!TypeOK
    <3> QED
      BY <3>1 DEF AInv, Core, GenerationInv
  <2>2. IsFiniteSet({task}) /\ Cardinality({task}) = 1
    BY FS_Singleton
  <2>3. going \in SUBSET {task}
    BY <2>1
  <2>4. Cardinality(going) <= 1
    <3> HIDE DEF going
    <3> QED
      BY <2>2, <2>3, FS_Subset
  <2>5. A!OneConsumer
    BY <2>4, SameFiniteness DEF A!OneConsumer
  <2>6. A!Referenced
    BY DEF AInv, Core, ItemInv, Working, A!Referenced
  <2> QED
    BY <2>5, <2>6
<1> QED
  BY <1>1, AsyncInductive, AsyncConstants, PTL

(* A flush that ends without a timeout has waited for all envelopes that   *)
(* were captured before it, except for those that kill() gave up           *)
(* (transport.py:929-960).                                                 *)
THEOREM FlushesDrain == A!Spec => A!FlushDrains
<1> DEFINE Ends ==
      \A f \in A!Flushes :
        flush[f] \in {"begin", "timeout", "drained"} /\ flush'[f] = "over"
          => \A i \in before[f] : state[i] \in {"finished", "dropped"} \/ A!Killed(i)
<1>1. AInv /\ [A!Next]_A!vars => Ends
  <2> SUFFICES ASSUME AInv, [A!Next]_A!vars, NEW f \in A!Flushes,
                      flush[f] \in {"begin", "timeout", "drained"}, flush'[f] = "over"
               PROVE  \A i \in before[f] : Settled(i)
    BY DEF Settled
  <2>1. A!RunFlush(f)
    <3>1. ~Elsewhere(f) /\ ~A!Timeout(f) /\ ~(\E i \in Items : A!Flush(f, i))
      BY DEF Elsewhere, A!Timeout, A!Flush
    <3> QED
      BY <3>1, FlushCases, AsyncConstants DEF AInv
  <2> QED
    BY <2>1, StepCore, FlushRuns, AsyncConstants DEF AInv
<1> QED
  BY <1>1, AsyncInductive, AsyncConstants, PTL DEF A!Spec, A!FlushDrains
=============================================================================

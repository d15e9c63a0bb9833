-------------------------- MODULE EventPipelineProofs --------------------------
(***************************************************************************)
(* Theorems about EventPipeline for any threads, items and exceptions, any *)
(* maximum of spans and any depth of captures inside of captures.  IInv    *)
(* says of an item what the stage it has reached implies: whether it is on *)
(* a stack, what has been reported of it, whether its session has counted  *)
(* it, and where each of its spans is.  RecorderInv says what the unlocked *)
(* recorder of its spans keeps.  Then theorems about an instance of        *)
(* Monitor.                                                                *)
(***************************************************************************)
EXTENDS EventPipeline, MonitorProperties, FiniteSetTheorems, SequenceTheorems, TLAPS

Captures == Stages \ {"new", "unsampled", "recording", "done"}

In(s, e) == \E i \in 1..Len(s) : s[i] = e
Distinct(s) == \A i, j \in 1..Len(s) : s[i] = s[j] => i = j

(* An item is on one stack at most, once, and while it is being captured.  *)
StackInv ==
  /\ \A t \in Threads : Distinct(stack[t])
  /\ \A t, u \in Threads, e \in Items : In(stack[t], e) /\ In(stack[u], e) => t = u
  /\ \A t \in Threads, e \in Items : In(stack[t], e) => at[e] \in Captures

KindInv(e) ==
  /\ at[e] = "new" => kind[e] = None
  /\ at[e] \in {"unsampled", "recording", "counted"} => IsTransaction(e)
  /\ at[e] \in {"errors", "dedupe", "sampler"} => kind[e] = "error"
  /\ at[e] \in {"errors", "dedupe"} => exc[e] # None
  /\ exc[e] # None => kind[e] = "error"

LostInv(e) ==
  /\ at[e] \notin {"unsampled", "done"} => fate[e] = None
  /\ transport =>
       /\ at[e] \notin {"unsampled", "done"} => lost[e].event = 0
       /\ at[e] = "done" =>
            lost[e].event = IF fate[e] \in {"sent", "ignored"} THEN 0 ELSE 1

SessionInv(e) ==
  /\ at[e] \notin {"sampler", "send", "use", "done"} => e \notin counted
  /\ at[e] \in {"sampler", "send", "use"} => (e \in counted <=> exc[e] # None)
  /\ at[e] = "done" =>
       (e \in counted <=>
          exc[e] # None /\ fate[e] \in {"sampler", "sent", "nowhere", "raised"})

(* The spans of a transaction: until it is counted nothing of it is sent;  *)
(* then the finished ones are; from the event processors on, what is not   *)
(* sent any more is reported, where the recorder has counted it; and in    *)
(* the end the transaction itself is a span too.                           *)
SpanInv(e) ==
  LET s == spans[e]
  IN /\ at[e] = "new" => s = NoSpans /\ (transport => lost[e].span = 0)
     /\ IsTransaction(e) =>
          /\ at[e] = "recording" => s.late = 0 /\ s.sent = 0
          /\ at[e] \in {"counted", "events"} => s.sent = s.finished
          /\ at[e] \in {"recording", "counted", "events"} => s.added = 0
          /\ transport =>
               /\ at[e] \in {"recording", "counted", "events"} => lost[e].span = 0
               /\ at[e] \in {"before_send", "session", "send", "use"} =>
                    Started(s) + s.added + s.dropped
                      = lost[e].span + s.sent + s.late + s.over
               /\ at[e] = "done" =>
                    IF fate[e] \in {"processor", "status", "ignored"}
                    THEN AllSpans(e) = KnownSpans(e)
                    ELSE AllSpans(e) + s.dropped = KnownSpans(e) + s.over

ItemInv(e) == KindInv(e) /\ LostInv(e) /\ SessionInv(e) /\ SpanInv(e)

(* The exception a context has seen last is that of an item which passed   *)
(* the dedupe stage in that context and which before_send has not dropped. *)
Saw(t, e) ==
  /\ exc[e] = lastSeen[t]
  /\ at[e] \notin {"new", "errors", "dedupe"}
  /\ \/ In(stack[t], e)
     \/ at[e] = "done" /\ fate[e] \notin {"before_send", "ignored"}
SeenInv == \A t \in Threads : lastSeen[t] # None => \E e \in Items : Saw(t, e)

IInv == TypeItems /\ StackInv /\ (\A e \in Items : ItemInv(e)) /\ SeenInv

(* The counter is never above what was over the maximum, and not 0 if      *)
(* anything was; it is exact, and one thread at most is about to set it,   *)
(* unless two were counting at once.                                       *)
Counts(e) ==
  LET s == spans[e]
  IN /\ s.dropped <= s.over /\ (s.over > 0 => s.dropped > 0)
     /\ \A t \in Writers(e) : adding[t].seen <= s.over
     /\ ~s.raced => /\ s.dropped = s.over
                    /\ \A t \in Writers(e) : adding[t].seen = s.dropped
                    /\ \A t, u \in Writers(e) : t = u

(* The threads that have passed the test of the length may all append.     *)
Appenders(e) == {t \in Threads : IsAdding(t, e, {"append"})}
Bounded(e) ==
  spans[e].open + spans[e].finished + Cardinality(Appenders(e))
    < MaxSpans + Cardinality(Threads)

RecorderInv ==
  /\ adding \in [Threads -> Adding \cup {Idle}]
  /\ \A e \in Items : (Adders(e) # {} => at[e] # "new") /\ Counts(e) /\ Bounded(e)

-----------------------------------------------------------------------------
(* What is on a stack after a push and after a pop.                        *)
LEMMA Pushed ==
  ASSUME NEW s \in Seq(Items), NEW e \in Items, Distinct(s), ~In(s, e)
  PROVE  /\ <<e>> \o s \in Seq(Items) /\ Len(<<e>> \o s) = Len(s) + 1
         /\ Distinct(<<e>> \o s)
         /\ \A f : In(<<e>> \o s, f) <=> f = e \/ In(s, f)
<1> DEFINE q == <<e>> \o s
<1>1. /\ q \in Seq(Items) /\ Len(s) \in Nat /\ Len(q) = Len(s) + 1
      /\ q[1] = e /\ \A i \in 2..Len(q) : q[i] = s[i - 1]
  BY ConcatProperties, LenProperties
<1>2. Distinct(q)
  <2> SUFFICES ASSUME NEW i \in 1..Len(q), NEW j \in 1..Len(q), q[i] = q[j]
               PROVE  i = j
    BY DEF Distinct
  <2>1. \A k \in 1..Len(q) : k = 1 \/ (k - 1 \in 1..Len(s) /\ q[k] = s[k - 1])
    BY <1>1
  <2> QED
    BY <1>1, <2>1 DEF Distinct, In
<1>3. ASSUME NEW f
      PROVE  In(q, f) <=> f = e \/ In(s, f)
  <2>1. In(q, f) => f = e \/ In(s, f)
    <3> SUFFICES ASSUME NEW i \in 1..Len(q), q[i] = f, f # e PROVE In(s, f)
      BY DEF In
    <3>1. i - 1 \in 1..Len(s) /\ s[i - 1] = f
      BY <1>1
    <3> QED
      BY <3>1 DEF In
  <2>2. f = e => In(q, f)
    BY <1>1 DEF In
  <2>3. In(s, f) => In(q, f)
    <3> SUFFICES ASSUME NEW i \in 1..Len(s), s[i] = f PROVE In(q, f)
      BY DEF In
    <3>1. i + 1 \in 2..Len(q) /\ q[i + 1] = f
      BY <1>1
    <3> QED
      BY <1>1, <3>1 DEF In
  <2> QED
    BY <2>1, <2>2, <2>3
<1> QED
  BY <1>1, <1>2, <1>3

LEMMA Popped ==
  ASSUME NEW s \in Seq(Items), s # <<>>, Distinct(s)
  PROVE  /\ Tail(s) \in Seq(Items) /\ Len(Tail(s)) = Len(s) - 1
         /\ Distinct(Tail(s)) /\ In(s, Head(s))
         /\ \A f : In(Tail(s), f) <=> In(s, f) /\ f # Head(s)
<1> DEFINE q == Tail(s)
<1>1. /\ q \in Seq(Items) /\ Len(s) \in Nat /\ Len(s) > 0 /\ Len(q) = Len(s) - 1
      /\ Head(s) = s[1] /\ \A i \in 1..Len(q) : q[i] = s[i + 1]
  BY HeadTailProperties, LenProperties, EmptySeq
<1>2. Distinct(q)
  <2> SUFFICES ASSUME NEW i \in 1..Len(q), NEW j \in 1..Len(q), q[i] = q[j]
               PROVE  i = j
    BY DEF Distinct
  <2>1. i + 1 \in 1..Len(s) /\ j + 1 \in 1..Len(s) /\ s[i + 1] = s[j + 1]
    BY <1>1
  <2>2. i + 1 = j + 1
    BY <2>1 DEF Distinct
  <2> QED
    BY <2>2, <1>1
<1>3. In(s, Head(s))
  BY <1>1 DEF In
<1>4. ASSUME NEW f
      PROVE  In(q, f) <=> In(s, f) /\ f # Head(s)
  <2>1. In(q, f) => In(s, f) /\ f # Head(s)
    <3> SUFFICES ASSUME NEW i \in 1..Len(q), q[i] = f PROVE In(s, f) /\ f # Head(s)
      BY DEF In
    <3>1. i + 1 \in 1..Len(s) /\ 1 \in 1..Len(s) /\ i + 1 # 1 /\ s[i + 1] = f
      BY <1>1
    <3> QED
      BY <1>1, <3>1 DEF In, Distinct
  <2>2. In(s, f) /\ f # Head(s) => In(q, f)
    <3> SUFFICES ASSUME NEW i \in 1..Len(s), s[i] = f, f # Head(s) PROVE In(q, f)
      BY DEF In
    <3>1. i - 1 \in 1..Len(q) /\ q[i - 1] = f
      BY <1>1
    <3> QED
      BY <3>1 DEF In
  <2> QED
    BY <2>1, <2>2
<1> QED
  BY <1>1, <1>2, <1>3, <1>4

-----------------------------------------------------------------------------
(* The stacks after the three ways in which a step moves an item.          *)
StacksOK ==
  /\ stack \in [Threads -> Seq(Items)]
  /\ \A t \in Threads : Len(stack[t]) <= MaxDepth
  /\ StackInv

LEMMA GotoMoves ==
  ASSUME TypeItems, StackInv, NEW e \in Items, NEW stage \in Stages, Goto(e, stage),
         stage \in Captures \/ at[e] \notin Captures
  PROVE  /\ at' \in [Items -> Stages] /\ at'[e] = stage
         /\ \A f \in Items \ {e} : at'[f] = at[f]
         /\ StacksOK' /\ UNCHANGED <<fate, stack>>
BY DEF Goto, TypeItems, StackInv, StacksOK

LEMMA PushMoves ==
  ASSUME TypeItems, StackInv, NEW t \in Threads, NEW e \in Items, NEW stage \in Captures,
         RunsUserCode(t), at[e] \notin Captures, Push(t, e, stage)
  PROVE  /\ at' \in [Items -> Stages] /\ at'[e] = stage
         /\ \A f \in Items \ {e} : at'[f] = at[f]
         /\ StacksOK' /\ UNCHANGED fate
         /\ \A u \in Threads, f \in Items : In(stack[u], f) => In(stack'[u], f)
<1>1. stack \in [Threads -> Seq(Items)] /\ \A u \in Threads : ~In(stack[u], e)
  BY DEF TypeItems, StackInv
<1>2. at' \in [Items -> Stages] /\ at'[e] = stage /\ \A f \in Items \ {e} : at'[f] = at[f]
  BY DEF Push, TypeItems, Captures
<1>3. /\ stack' \in [Threads -> Seq(Items)] /\ stack'[t] = <<e>> \o stack[t]
      /\ \A u \in Threads \ {t} : stack'[u] = stack[u]
  BY <1>1, Pushed DEF Push, StackInv
<1>4. /\ Len(stack'[t]) = Len(stack[t]) + 1 /\ Distinct(stack'[t])
      /\ \A f : In(stack'[t], f) <=> f = e \/ In(stack[t], f)
  BY <1>1, <1>3, Pushed DEF StackInv
<1>5. Len(stack'[t]) <= MaxDepth
  <2>1. stack[t] = <<>> => Len(stack[t]) = 0
    OBVIOUS
  <2> QED
    BY <1>1, <1>4, <2>1, LenProperties, Bounds DEF RunsUserCode
<1>6. StackInv'
  BY <1>1, <1>2, <1>3, <1>4 DEF StackInv
<1> QED
  BY <1>2, <1>3, <1>4, <1>5, <1>6 DEF StacksOK, TypeItems, Push

LEMMA EndMoves ==
  ASSUME TypeItems, StackInv, NEW e \in Items, NEW f \in Fates, End(e, f),
         \/ at[e] \notin Captures
         \/ \E t \in Threads : stack[t] # <<>> /\ Head(stack[t]) = e
  PROVE  /\ at' \in [Items -> Stages] /\ at'[e] = "done"
         /\ fate' \in [Items -> Fates \cup {None}] /\ fate'[e] = f
         /\ \A g \in Items \ {e} : at'[g] = at[g] /\ fate'[g] = fate[g]
         /\ StacksOK'
         /\ \A u \in Threads, g \in Items : In(stack'[u], g) <=> In(stack[u], g) /\ g # e
<1>1. stack \in [Threads -> Seq(Items)]
  BY DEF TypeItems
<1>2. /\ at' \in [Items -> Stages] /\ at'[e] = "done"
      /\ fate' \in [Items -> Fates \cup {None}] /\ fate'[e] = f
      /\ \A g \in Items \ {e} : at'[g] = at[g] /\ fate'[g] = fate[g]
  BY DEF End, TypeItems, Stages
<1>3. ASSUME NEW u \in Threads
      PROVE  /\ stack'[u] \in Seq(Items) /\ Len(stack'[u]) <= MaxDepth
             /\ Distinct(stack'[u])
             /\ \A g \in Items : In(stack'[u], g) <=> In(stack[u], g) /\ g # e
  <2>1. CASE stack[u] # <<>> /\ Head(stack[u]) = e
    <3>1. stack'[u] = Tail(stack[u])
      BY <2>1 DEF End
    <3>2. Len(stack[u]) \in Nat /\ Len(stack[u]) <= MaxDepth
      BY <1>1, LenProperties DEF TypeItems
    <3> QED
      BY <1>1, <2>1, <3>1, <3>2, Popped, Bounds DEF StackInv
  <2>2. CASE ~(stack[u] # <<>> /\ Head(stack[u]) = e)
    <3>1. stack'[u] = stack[u]
      BY <2>2 DEF End
    <3>2. ~In(stack[u], e)
      <4>1. CASE at[e] \notin Captures
        BY <4>1 DEF StackInv
      <4>2. ASSUME NEW t \in Threads, stack[t] # <<>>, Head(stack[t]) = e
            PROVE  ~In(stack[u], e)
        <5>1. In(stack[t], e)
          BY <1>1, <4>2, Popped DEF StackInv
        <5> QED
          BY <2>2, <4>2, <5>1 DEF StackInv
      <4> QED
        BY <4>1, <4>2
    <3> QED
      BY <1>1, <3>1, <3>2 DEF StackInv, TypeItems
  <2> QED
    BY <2>1, <2>2
<1>4. stack' \in [Threads -> Seq(Items)]
  BY <1>3 DEF End
<1>5. StackInv'
  BY <1>2, <1>3 DEF StackInv
<1> QED
  BY <1>2, <1>3, <1>4, <1>5 DEF StacksOK

LEMMA LoseMoves ==
  ASSUME TypeItems, NEW e \in Items, NEW events \in Nat, NEW n \in Nat, Lose(e, events, n)
  PROVE  /\ lost' \in [Items -> [event : Nat, span : Nat]]
         /\ \A f \in Items \ {e} : lost'[f] = lost[f]
         /\ transport => /\ lost'[e].event = lost[e].event + events
                         /\ lost'[e].span = lost[e].span + n
<1>1. CASE transport
  <2>1. lost[e] \in [event : Nat, span : Nat]
    BY DEF TypeItems
  <2> DEFINE l == [event |-> lost[e].event + events, span |-> lost[e].span + n]
  <2>2. l \in [event : Nat, span : Nat]
    BY <2>1
  <2>3. lost' = [lost EXCEPT ![e] = l]
    BY <1>1, <2>1 DEF Lose, TypeItems
  <2>4. lost' \in [Items -> [event : Nat, span : Nat]] /\ lost'[e] = l
    BY <2>2, <2>3 DEF TypeItems
  <2> HIDE DEF l
  <2>5. \A f \in Items \ {e} : lost'[f] = lost[f]
    BY <2>3 DEF TypeItems
  <2> QED
    BY <2>4, <2>5 DEF l
<1>2. CASE ~transport
  BY <1>2 DEF Lose, TypeItems
<1> QED
  BY <1>1, <1>2

-----------------------------------------------------------------------------
(* A step moves one item; the others are as they were.                     *)
Others(e) ==
  /\ transport' => transport
  /\ \A f \in Items \ {e} :
       /\ kind'[f] = kind[f] /\ exc'[f] = exc[f] /\ at'[f] = at[f] /\ fate'[f] = fate[f]
       /\ spans'[f] = spans[f] /\ lost'[f] = lost[f] /\ (f \in counted' <=> f \in counted)

LEMMA OneItem ==
  ASSUME IInv, NEW e \in Items, Others(e), TypeItems', StackInv', SeenInv', ItemInv(e)'
  PROVE  IInv'
<1>1. ASSUME NEW f \in Items \ {e}
      PROVE  ItemInv(f)'
  <2>1. ItemInv(f)
    BY DEF IInv
  <2>2. /\ kind'[f] = kind[f] /\ exc'[f] = exc[f] /\ at'[f] = at[f] /\ fate'[f] = fate[f]
        /\ spans'[f] = spans[f] /\ lost'[f] = lost[f] /\ (f \in counted' <=> f \in counted)
        /\ (transport' => transport)
    BY DEF Others
  <2>3. KindInv(f)' /\ LostInv(f)' /\ SessionInv(f)'
    BY <2>1, <2>2 DEF ItemInv, KindInv, LostInv, SessionInv, IsTransaction
  <2>4. SpanInv(f)'
    BY <2>1, <2>2
    DEF ItemInv, SpanInv, IsTransaction, Started, Unreported, AllSpans, KnownSpans
  <2> QED
    BY <2>3, <2>4 DEF ItemInv
<1> QED
  BY <1>1 DEF IInv

(* What the contexts have seen stays, if e was not yet seen, or is still   *)
(* on its stack, or ends in a way that leaves it seen.                     *)
LEMMA SeenKept ==
  ASSUME SeenInv, UNCHANGED lastSeen, NEW e \in Items, Others(e),
         \A u \in Threads, f \in Items \ {e} : In(stack[u], f) => In(stack'[u], f),
         \/ at[e] \in {"new", "errors", "dedupe"}
         \/ /\ at'[e] \notin {"new", "errors", "dedupe"} /\ at[e] # "done" /\ exc'[e] = exc[e]
            /\ \A u \in Threads : In(stack[u], e) => In(stack'[u], e)
         \/ /\ at'[e] = "done" /\ fate'[e] \notin {"before_send", "ignored"}
            /\ exc'[e] = exc[e]
  PROVE  SeenInv'
<1> SUFFICES ASSUME NEW t \in Threads, lastSeen[t] # None
             PROVE  \E f \in Items : Saw(t, f)'
  BY DEF SeenInv
<1>1. PICK f \in Items : Saw(t, f)
  BY DEF SeenInv
<1>2. CASE f # e
  <2>1. exc'[f] = exc[f] /\ at'[f] = at[f] /\ fate'[f] = fate[f]
    BY <1>2 DEF Others
  <2> QED
    BY <1>1, <1>2, <2>1 DEF Saw
<1>3. CASE f = e
  BY <1>1, <1>3 DEF Saw
<1> QED
  BY <1>2, <1>3

-----------------------------------------------------------------------------
LEMMA InitIInv == Init => IInv
<1> SUFFICES ASSUME Init PROVE IInv
  OBVIOUS
<1>1. TypeItems
  BY Bounds, EmptySeq
  DEF Init, TypeItems, NoSpans, SpanCounts, Stages
<1>2. StackInv
  BY EmptySeq DEF Init, StackInv, In, Distinct
<1>3. ASSUME NEW e \in Items
      PROVE  ItemInv(e)
  BY <1>3, NoneIsNone
  DEF Init, ItemInv, KindInv, LostInv, SessionInv, SpanInv, IsTransaction, Kinds
<1>4. SeenInv
  BY DEF Init, SeenInv
<1> QED
  BY <1>1, <1>2, <1>3, <1>4 DEF IInv

(* The calls of the application.                                           *)
LEMMA StepCapture ==
  ASSUME IInv, NEW t \in Threads, NEW e \in Items, NEW k \in Kinds,
         NEW x \in Exceptions \cup {None}, Capture(t, e, k, x)
  PROVE  IInv'
<1>1. /\ TypeItems /\ StackInv /\ SeenInv /\ ItemInv(e)
      /\ at[e] = "new" /\ at[e] \notin Captures /\ RunsUserCode(t)
      /\ k # "transaction" /\ (k # "error" => x = None)
      /\ kind' = [kind EXCEPT ![e] = k] /\ exc' = [exc EXCEPT ![e] = x]
      /\ UNCHANGED <<spans, lost, lastSeen, counted, transport>>
  BY DEF IInv, Capture, Captures
<1>2. /\ kind' \in [Items -> Kinds \cup {None}] /\ kind'[e] = k
      /\ exc' \in [Items -> Exceptions \cup {None}] /\ exc'[e] = x
      /\ \A f \in Items \ {e} : kind'[f] = kind[f] /\ exc'[f] = exc[f]
  BY <1>1 DEF TypeItems
<1>3. CASE Push(t, e, FirstStage(k, x))
  <2>1. FirstStage(k, x) \in {"before_send", "events", "errors"} /\ FirstStage(k, x) \in Captures
    BY DEF FirstStage, Captures, Stages
  <2>2. /\ at' \in [Items -> Stages] /\ at'[e] = FirstStage(k, x)
        /\ \A f \in Items \ {e} : at'[f] = at[f]
        /\ StacksOK' /\ UNCHANGED fate
        /\ \A u \in Threads, f \in Items : In(stack[u], f) => In(stack'[u], f)
    BY <1>1, <1>3, <2>1, PushMoves
  <2>3. TypeItems'
    BY <1>1, <1>2, <2>2 DEF TypeItems, StacksOK
  <2>4. Others(e)
    BY <1>1, <1>2, <2>2 DEF Others
  <2>5. SeenInv'
    BY <1>1, <2>2, <2>4, SeenKept
  <2>6. KindInv(e)' /\ LostInv(e)' /\ SessionInv(e)'
    BY <1>1, <1>2, <2>1, <2>2
    DEF ItemInv, KindInv, LostInv, SessionInv, IsTransaction, FirstStage
  <2>7. SpanInv(e)'
    BY <1>1, <1>2, <2>1, <2>2 DEF ItemInv, SpanInv, IsTransaction, NoSpans
  <2> QED
    BY <2>2, <2>3, <2>4, <2>5, <2>6, <2>7, OneItem DEF ItemInv, StacksOK
<1>4. CASE MayBeIgnored(k) /\ End(e, "ignored")
  <2>1. /\ at' \in [Items -> Stages] /\ at'[e] = "done"
        /\ fate' \in [Items -> Fates \cup {None}] /\ fate'[e] = "ignored"
        /\ \A g \in Items \ {e} : at'[g] = at[g] /\ fate'[g] = fate[g]
        /\ StacksOK'
        /\ \A u \in Threads, g \in Items : In(stack'[u], g) <=> In(stack[u], g) /\ g # e
    BY <1>1, <1>4, EndMoves DEF Fates
  <2>2. TypeItems'
    BY <1>1, <1>2, <2>1 DEF TypeItems, StacksOK
  <2>3. Others(e)
    BY <1>1, <1>2, <2>1 DEF Others
  <2>4. SeenInv'
    BY <1>1, <2>1, <2>3, SeenKept
  <2>5. KindInv(e)' /\ LostInv(e)' /\ SessionInv(e)' /\ SpanInv(e)'
    BY <1>1, <1>2, <1>4, <2>1
    DEF ItemInv, KindInv, LostInv, SessionInv, SpanInv, IsTransaction, MayBeIgnored
  <2> QED
    BY <2>1, <2>2, <2>3, <2>4, <2>5, OneItem DEF ItemInv, StacksOK
<1> QED
  BY <1>3, <1>4 DEF Capture

LEMMA StepStartTransaction ==
  ASSUME IInv, NEW t \in Threads, NEW e \in Items, StartTransaction(t, e)
  PROVE  IInv'
<1>1. /\ TypeItems /\ StackInv /\ SeenInv /\ ItemInv(e) /\ at[e] = "new"
      /\ at[e] \notin Captures /\ kind' = [kind EXCEPT ![e] = "transaction"]
      /\ UNCHANGED <<exc, spans, lost, lastSeen, counted, transport>>
  BY DEF IInv, StartTransaction, Captures
<1>2. /\ kind' \in [Items -> Kinds \cup {None}] /\ kind'[e] = "transaction"
      /\ \A f \in Items \ {e} : kind'[f] = kind[f]
  BY <1>1 DEF TypeItems, Kinds
<1>3. /\ at' \in [Items -> Stages] /\ at'[e] \in {"recording", "unsampled"}
      /\ \A f \in Items \ {e} : at'[f] = at[f]
      /\ StacksOK' /\ UNCHANGED <<fate, stack>>
  <2>1. "recording" \in Stages /\ "unsampled" \in Stages
    BY DEF Stages
  <2> QED
    BY <1>1, <2>1, GotoMoves DEF StartTransaction, SamplingDecision
<1>4. TypeItems'
  BY <1>1, <1>2, <1>3 DEF TypeItems, StacksOK
<1>5. Others(e)
  BY <1>1, <1>2, <1>3 DEF Others
<1>6. SeenInv'
  BY <1>1, <1>3, <1>5, SeenKept
<1>7. KindInv(e)' /\ LostInv(e)' /\ SessionInv(e)'
  BY <1>1, <1>2, <1>3, NoneIsNone
  DEF ItemInv, KindInv, LostInv, SessionInv, IsTransaction, Kinds
<1>8. SpanInv(e)'
  BY <1>1, <1>2, <1>3 DEF ItemInv, SpanInv, IsTransaction, NoSpans
<1> QED
  BY <1>3, <1>4, <1>5, <1>6, <1>7, <1>8, OneItem DEF ItemInv, StacksOK

(* The spans of a transaction that is recording come and go; afterwards    *)
(* they are late.                                                          *)
LEMMA SpanMoves ==
  ASSUME IInv, NEW e \in Items, NEW r \in SpanCounts, spans' = [spans EXCEPT ![e] = r],
         at[e] # "new", r.sent = spans[e].sent, r.added = spans[e].added,
         \/ at[e] = "recording" /\ r.late = spans[e].late
         \/ /\ r.late \in {spans[e].late, spans[e].late + 1} /\ at[e] # "recording"
            /\ r.open = spans[e].open /\ r.finished = spans[e].finished
            /\ r.over = spans[e].over /\ r.dropped = spans[e].dropped,
         UNCHANGED <<kind, exc, at, fate, stack, lost, lastSeen, counted, transport>>
  PROVE  IInv'
<1>1. /\ TypeItems /\ StackInv /\ SeenInv /\ ItemInv(e) /\ spans[e] \in SpanCounts
      /\ spans \in [Items -> SpanCounts] /\ lost[e] \in [event : Nat, span : Nat]
  BY DEF IInv, TypeItems
<1>2. /\ spans' \in [Items -> SpanCounts] /\ spans'[e] = r
      /\ \A f \in Items \ {e} : spans'[f] = spans[f]
  BY <1>1
<1>3. TypeItems' /\ Others(e) /\ StackInv' /\ SeenInv'
  BY <1>1, <1>2 DEF TypeItems, Others, StackInv, SeenInv, Saw
<1>4. KindInv(e)' /\ LostInv(e)' /\ SessionInv(e)'
  BY <1>1 DEF ItemInv, KindInv, LostInv, SessionInv, IsTransaction
<1>5. SpanInv(e)'
  <2>1. CASE at[e] = "recording"
    BY <1>1, <1>2, <2>1 DEF ItemInv, SpanInv, IsTransaction
  <2>2. CASE at[e] # "recording"
    <3>1. /\ r.late \in {spans[e].late, spans[e].late + 1} /\ r.open = spans[e].open
          /\ r.finished = spans[e].finished /\ r.over = spans[e].over
          /\ r.dropped = spans[e].dropped
      BY <2>2
    <3> QED
      BY <1>1, <1>2, <2>2, <3>1
      DEF ItemInv, SpanInv, IsTransaction, SpanCounts, Started, AllSpans, KnownSpans, Unreported
  <2> QED
    BY <2>1, <2>2
<1> QED
  BY <1>3, <1>4, <1>5, OneItem DEF ItemInv

LEMMA StepFinishSpan ==
  ASSUME IInv, NEW t \in Threads, NEW e \in Items, FinishSpan(t, e)
  PROVE  IInv'
<1> DEFINE s == spans[e]
           r == [s EXCEPT !.open = s.open - 1, !.finished = s.finished + 1]
<1>1. s \in SpanCounts /\ spans \in [Items -> SpanCounts] /\ at[e] = "recording" /\ s.open > 0
  BY DEF IInv, TypeItems, FinishSpan
<1>2. /\ r \in SpanCounts /\ r.sent = s.sent /\ r.added = s.added /\ r.late = s.late
      /\ spans' = [spans EXCEPT ![e] = r]
  <2>1. s.open - 1 \in Nat /\ s.finished + 1 \in Nat
    BY <1>1 DEF SpanCounts
  <2> QED
    BY <1>1, <2>1 DEF SpanCounts, FinishSpan
<1>3. UNCHANGED <<kind, exc, at, fate, stack, lost, lastSeen, counted, transport>>
  BY DEF FinishSpan
<1> HIDE DEF r
<1> QED
  BY <1>1, <1>2, <1>3, SpanMoves

(* The steps of _SpanRecorder.add().                                       *)
LEMMA Recording ==
  ASSUME RecorderInv, NEW t \in Threads, NEW e \in Items, NEW steps, IsAdding(t, e, steps),
         steps \subseteq {"append", "read", "write"}
  PROVE  adding[t] \in Adding /\ at[e] # "new" /\ adding[t].seen \in Nat
<1>1. adding[t] \in Adding
  BY DEF RecorderInv, IsAdding, Idle
<1>2. t \in Adders(e)
  BY DEF IsAdding, Adders
<1> QED
  BY <1>1, <1>2 DEF RecorderInv, Adding

LEMMA StepAdd ==
  ASSUME IInv, RecorderInv, NEW t \in Threads, NEW e \in Items, Add(t, e)
  PROVE  IInv'
<1> DEFINE s == spans[e]
<1>1. s \in SpanCounts /\ spans \in [Items -> SpanCounts]
  BY DEF IInv, TypeItems
<1>2. UNCHANGED <<kind, exc, at, fate, stack, lost, lastSeen, counted, transport>>
  BY DEF Add, StartSpan, StartSpanUpTo, AppendSpan, ReadDropped, WriteDropped
<1>3. CASE StartSpan(t, e)
  <2>1. UNCHANGED spans
    BY <1>3 DEF StartSpan, StartSpanUpTo
  <2>2. TypeItems' /\ StackInv' /\ SeenInv'
    BY <1>2, <2>1 DEF IInv, TypeItems, StackInv, SeenInv, Saw
  <2>3. ASSUME NEW f \in Items
        PROVE  ItemInv(f)'
    BY <1>2, <2>1 DEF IInv, ItemInv, KindInv, LostInv, SessionInv, SpanInv, IsTransaction,
                      AllSpans, KnownSpans, Unreported
  <2> QED
    BY <2>2, <2>3 DEF IInv
<1>4. CASE AppendSpan(t, e)
  <2> DEFINE r == IF at[e] = "recording" THEN [s EXCEPT !.open = s.open + 1]
                                         ELSE [s EXCEPT !.late = s.late + 1]
  <2>1. spans' = [spans EXCEPT ![e] = r] /\ at[e] # "new"
    BY <1>1, <1>4, Recording DEF AppendSpan
  <2>2. /\ r \in SpanCounts /\ r.sent = s.sent /\ r.added = s.added
        /\ at[e] = "recording" => r.late = s.late
        /\ at[e] # "recording" =>
             /\ r.late = s.late + 1 /\ r.open = s.open /\ r.finished = s.finished
             /\ r.over = s.over /\ r.dropped = s.dropped
    BY <1>1 DEF SpanCounts
  <2> HIDE DEF r
  <2> QED
    BY <1>2, <2>1, <2>2, SpanMoves
<1>5. CASE ReadDropped(t, e)
  <2> DEFINE r == [s EXCEPT !.raced = s.raced \/ Writers(e) # {}]
  <2>1. spans' = [spans EXCEPT ![e] = r] /\ at[e] # "new"
    BY <1>1, <1>5, Recording DEF ReadDropped
  <2>2. /\ r \in SpanCounts /\ r.sent = s.sent /\ r.added = s.added /\ r.late = s.late
        /\ r.open = s.open /\ r.finished = s.finished
        /\ r.over = s.over /\ r.dropped = s.dropped
    <3>1. (s.raced \/ Writers(e) # {}) \in BOOLEAN
      OBVIOUS
    <3> QED
      BY <1>1, <3>1 DEF SpanCounts
  <2> HIDE DEF r
  <2> QED
    BY <1>2, <2>1, <2>2, SpanMoves
<1>6. CASE WriteDropped(t, e)
  <2> DEFINE r == IF at[e] = "recording"
                  THEN [s EXCEPT !.over = s.over + 1, !.dropped = adding[t].seen + 1]
                  ELSE [s EXCEPT !.late = s.late + 1]
  <2>1. spans' = [spans EXCEPT ![e] = r] /\ at[e] # "new" /\ adding[t].seen \in Nat
    BY <1>1, <1>6, Recording DEF WriteDropped
  <2>2. /\ r \in SpanCounts /\ r.sent = s.sent /\ r.added = s.added
        /\ at[e] = "recording" => r.late = s.late
        /\ at[e] # "recording" =>
             /\ r.late = s.late + 1 /\ r.open = s.open /\ r.finished = s.finished
             /\ r.over = s.over /\ r.dropped = s.dropped
    <3>1. s.over + 1 \in Nat /\ adding[t].seen + 1 \in Nat /\ s.late + 1 \in Nat
      BY <1>1, <2>1 DEF SpanCounts
    <3> QED
      BY <1>1, <3>1 DEF SpanCounts
  <2> HIDE DEF r
  <2> QED
    BY <1>2, <2>1, <2>2, SpanMoves
<1> QED
  BY <1>3, <1>4, <1>5, <1>6 DEF Add

LEMMA StepFinish ==
  ASSUME IInv, NEW t \in Threads, NEW e \in Items,
         FinishUnsampled(t, e) \/ FinishIgnored(t, e) \/ FinishTransaction(t, e)
  PROVE  IInv'
<1>1. /\ TypeItems /\ StackInv /\ SeenInv /\ ItemInv(e) /\ RunsUserCode(t)
      /\ spans[e] \in SpanCounts /\ spans \in [Items -> SpanCounts]
      /\ UNCHANGED <<kind, exc, lastSeen, counted, transport>>
  BY DEF IInv, FinishUnsampled, FinishIgnored, FinishTransaction, TypeItems
<1>2. CASE FinishUnsampled(t, e)
  <2>1. /\ at[e] = "unsampled" /\ Lose(e, 1, 1)
        /\ fate' = [fate EXCEPT ![e] = "unsampled"] /\ UNCHANGED <<at, stack, spans>>
    BY <1>2 DEF FinishUnsampled
  <2>2. /\ lost' \in [Items -> [event : Nat, span : Nat]]
        /\ \A f \in Items \ {e} : lost'[f] = lost[f]
    BY <1>1, <2>1, LoseMoves
  <2>3. /\ fate' \in [Items -> Fates \cup {None}]
        /\ \A f \in Items \ {e} : fate'[f] = fate[f]
    BY <1>1, <2>1 DEF TypeItems, Fates
  <2>4. TypeItems' /\ StackInv' /\ Others(e)
    BY <1>1, <2>1, <2>2, <2>3 DEF TypeItems, StackInv, Others
  <2>5. SeenInv'
    BY <1>1, <2>1, <2>4, SeenKept
  <2>6. ItemInv(e)'
    BY <1>1, <2>1 DEF ItemInv, KindInv, LostInv, SessionInv, SpanInv, IsTransaction
  <2> QED
    BY <2>4, <2>5, <2>6, OneItem
<1>3. CASE FinishIgnored(t, e)
  <2>1. /\ at[e] = "recording" /\ at[e] \notin Captures /\ End(e, "status")
        /\ Lose(e, 1, spans[e].open + spans[e].finished + 1) /\ UNCHANGED spans
    BY <1>3 DEF FinishIgnored, Captures
  <2>2. /\ at' \in [Items -> Stages] /\ at'[e] = "done"
        /\ fate' \in [Items -> Fates \cup {None}] /\ fate'[e] = "status"
        /\ \A g \in Items \ {e} : at'[g] = at[g] /\ fate'[g] = fate[g]
        /\ StacksOK'
        /\ \A u \in Threads, g \in Items : In(stack'[u], g) <=> In(stack[u], g) /\ g # e
    BY <1>1, <2>1, EndMoves DEF Fates
  <2>3. spans[e].open + spans[e].finished + 1 \in Nat
    BY <1>1 DEF SpanCounts
  <2>4. /\ lost' \in [Items -> [event : Nat, span : Nat]]
        /\ \A f \in Items \ {e} : lost'[f] = lost[f]
        /\ transport => /\ lost'[e].event = lost[e].event + 1
                        /\ lost'[e].span = lost[e].span + (spans[e].open + spans[e].finished + 1)
    BY <1>1, <2>1, <2>3, LoseMoves
  <2>5. TypeItems' /\ Others(e)
    BY <1>1, <2>1, <2>2, <2>4 DEF TypeItems, StacksOK, Others
  <2>6. SeenInv'
    BY <1>1, <2>1, <2>2, <2>5, SeenKept
  <2>7. KindInv(e)' /\ LostInv(e)' /\ SessionInv(e)'
    BY <1>1, <2>1, <2>2, <2>4, NoneIsNone
    DEF ItemInv, KindInv, LostInv, SessionInv, IsTransaction
  <2>8. SpanInv(e)'
    BY <1>1, <2>1, <2>2, <2>4
    DEF ItemInv, SpanInv, IsTransaction, Started, AllSpans, KnownSpans, Unreported, SpanCounts
  <2> QED
    BY <2>2, <2>5, <2>6, <2>7, <2>8, OneItem DEF ItemInv, StacksOK
<1>4. CASE FinishTransaction(t, e)
  <2>1. /\ at[e] = "recording" /\ at[e] \notin Captures /\ Push(t, e, "counted")
        /\ spans' = [spans EXCEPT ![e].sent = spans[e].finished]
        /\ UNCHANGED <<lost>> /\ "counted" \in Captures
    BY <1>4 DEF FinishTransaction, Captures, Stages
  <2>2. /\ at' \in [Items -> Stages] /\ at'[e] = "counted"
        /\ \A f \in Items \ {e} : at'[f] = at[f]
        /\ StacksOK' /\ UNCHANGED fate
        /\ \A u \in Threads, f \in Items : In(stack[u], f) => In(stack'[u], f)
    BY <1>1, <2>1, PushMoves
  <2>3. /\ spans' \in [Items -> SpanCounts]
        /\ \A f \in Items \ {e} : spans'[f] = spans[f]
        /\ spans'[e] = [spans[e] EXCEPT !.sent = spans[e].finished]
    BY <1>1, <2>1 DEF SpanCounts
  <2>4. TypeItems'
    BY <1>1, <2>1, <2>2, <2>3 DEF TypeItems, StacksOK, SpanCounts
  <2>5. Others(e)
    BY <1>1, <2>1, <2>2, <2>3 DEF Others
  <2>6. SeenInv'
    BY <1>1, <2>1, <2>2, <2>5, SeenKept
  <2>7. KindInv(e)' /\ LostInv(e)' /\ SessionInv(e)'
    BY <1>1, <2>1, <2>2 DEF ItemInv, KindInv, LostInv, SessionInv, IsTransaction
  <2>8. SpanInv(e)'
    BY <1>1, <2>1, <2>2, <2>3 DEF ItemInv, SpanInv, IsTransaction, SpanCounts
  <2> QED
    BY <2>2, <2>4, <2>5, <2>6, <2>7, <2>8, OneItem DEF ItemInv, StacksOK
<1> QED
  BY <1>2, <1>3, <1>4

-----------------------------------------------------------------------------
(* A stage of the pipeline: the item moves on, ...                         *)
LEMMA StageGoes ==
  ASSUME IInv, NEW t \in Threads, NEW e \in Items, NEW stage \in Captures,
         stack[t] # <<>>, Head(stack[t]) = e, at[e] \in Captures, Goto(e, stage),
         \/ stage \notin {"counted", "errors", "dedupe"}
         \/ at[e] = "errors" /\ UNCHANGED lastSeen,
         spans' \in [Items -> SpanCounts], lost' \in [Items -> [event : Nat, span : Nat]],
         \A f \in Items \ {e} : spans'[f] = spans[f] /\ lost'[f] = lost[f],
         \A f \in Items \ {e} : f \in counted' <=> f \in counted, counted' \subseteq Items,
         \/ UNCHANGED lastSeen
         \/ lastSeen' = [lastSeen EXCEPT ![t] = exc[e]] /\ exc[e] # None,
         UNCHANGED <<kind, exc, transport>>
  PROVE  /\ TypeItems' /\ StackInv' /\ SeenInv' /\ Others(e)
         /\ at'[e] = stage /\ UNCHANGED <<fate, stack>>
<1>1. TypeItems /\ StackInv /\ SeenInv /\ stage \in Stages
  BY DEF IInv, Captures
<1>2. /\ at' \in [Items -> Stages] /\ at'[e] = stage
      /\ \A f \in Items \ {e} : at'[f] = at[f]
      /\ StacksOK' /\ UNCHANGED <<fate, stack>>
  BY <1>1, GotoMoves
<1>3. Others(e)
  BY <1>2 DEF Others
<1>4. TypeItems'
  <2>1. lastSeen' \in [Threads -> Exceptions \cup {None}]
    BY <1>1 DEF TypeItems
  <2> QED
    BY <1>1, <1>2, <2>1 DEF TypeItems, StacksOK
<1>5. SeenInv'
  <2>1. CASE UNCHANGED lastSeen
    <3>1. at[e] # "done" /\ (at'[e] \notin {"new", "errors", "dedupe"} \/ at[e] = "errors")
      BY <1>2 DEF Captures
    <3> QED
      BY <1>1, <1>2, <1>3, <2>1, <3>1, SeenKept
  <2>2. CASE /\ lastSeen' = [lastSeen EXCEPT ![t] = exc[e]] /\ exc[e] # None
             /\ ~UNCHANGED lastSeen
    <3>1. In(stack[t], e)
      BY <1>1, Popped DEF TypeItems, StackInv
    <3>2. at'[e] \notin {"new", "errors", "dedupe"}
      BY <1>2, <2>2 DEF Captures
    <3>3. Saw(t, e)'
      BY <1>1, <1>2, <2>2, <3>1, <3>2 DEF Saw, TypeItems
    <3>4. ASSUME NEW u \in Threads \ {t}, lastSeen'[u] # None
          PROVE  \E f \in Items : Saw(u, f)'
      <4>1. lastSeen'[u] = lastSeen[u]
        BY <2>2 DEF IInv, TypeItems
      <4>2. PICK f \in Items : Saw(u, f)
        BY <1>1, <3>4, <4>1 DEF SeenInv
      <4>3. f # e
        <5>1. ~In(stack[u], e)
          BY <1>1, <3>1 DEF StackInv
        <5> QED
          BY <4>2, <5>1 DEF Saw, Captures
      <4> QED
        BY <1>2, <4>1, <4>2, <4>3 DEF Saw
    <3> QED
      BY <3>3, <3>4 DEF SeenInv
  <2> QED
    BY <2>1, <2>2
<1> QED
  BY <1>2, <1>3, <1>4, <1>5 DEF StacksOK

(* ... or ends.                                                            *)
LEMMA StageEnds ==
  ASSUME IInv, NEW t \in Threads, NEW e \in Items, NEW f \in Fates,
         stack[t] # <<>>, Head(stack[t]) = e, at[e] \in Captures, End(e, f),
         spans' \in [Items -> SpanCounts], lost' \in [Items -> [event : Nat, span : Nat]],
         \A g \in Items \ {e} : spans'[g] = spans[g] /\ lost'[g] = lost[g],
         \/ UNCHANGED lastSeen /\ (exc[e] = None \/ f \notin {"before_send", "ignored"})
         \/ lastSeen' = [lastSeen EXCEPT ![t] = None],
         UNCHANGED <<kind, exc, counted, transport>>
  PROVE  /\ TypeItems' /\ StackInv' /\ SeenInv' /\ Others(e)
         /\ at'[e] = "done" /\ fate'[e] = f
<1>1. TypeItems /\ StackInv /\ SeenInv
  BY DEF IInv
<1>2. /\ at' \in [Items -> Stages] /\ at'[e] = "done"
      /\ fate' \in [Items -> Fates \cup {None}] /\ fate'[e] = f
      /\ \A g \in Items \ {e} : at'[g] = at[g] /\ fate'[g] = fate[g]
      /\ StacksOK'
      /\ \A u \in Threads, g \in Items : In(stack'[u], g) <=> In(stack[u], g) /\ g # e
  BY <1>1, EndMoves
<1>3. Others(e)
  BY <1>2 DEF Others
<1>4. TypeItems'
  <2>1. lastSeen' \in [Threads -> Exceptions \cup {None}]
    BY <1>1 DEF TypeItems
  <2> QED
    BY <1>1, <1>2, <2>1 DEF TypeItems, StacksOK
<1>5. SeenInv'
  <2> SUFFICES ASSUME NEW u \in Threads, lastSeen'[u] # None
               PROVE  \E g \in Items : Saw(u, g)'
    BY DEF SeenInv
  <2>1. lastSeen'[u] = lastSeen[u]
    BY <1>1 DEF TypeItems
  <2>2. PICK g \in Items : Saw(u, g)
    BY <1>1, <2>1 DEF SeenInv
  <2>3. CASE g # e
    BY <1>2, <2>1, <2>2, <2>3 DEF Saw
  <2>4. CASE g = e
    <3>1. In(stack[u], e) /\ In(stack[t], e)
      BY <1>1, <2>2, <2>4, Popped DEF Saw, Captures, TypeItems, StackInv
    <3>2. u = t
      BY <1>1, <3>1 DEF StackInv
    <3>3. exc[e] = lastSeen[t] /\ exc[e] # None
      BY <2>1, <2>2, <2>4, <3>2 DEF Saw
    <3>4. f \notin {"before_send", "ignored"}
      BY <1>1, <2>1, <3>2, <3>3 DEF TypeItems
    <3> QED
      BY <1>2, <2>1, <2>2, <2>4, <3>4 DEF Saw
  <2> QED
    BY <2>3, <2>4
<1> QED
  BY <1>2, <1>3, <1>4, <1>5 DEF StacksOK

(* What a callback does to the spans of a transaction.                     *)
LEMMA ChangedCounts ==
  ASSUME TypeItems, NEW e \in Items, NEW n \in Nat, NEW more \in Nat, Changed(e, n, more)
  PROVE  /\ spans' \in [Items -> SpanCounts]
         /\ lost' \in [Items -> [event : Nat, span : Nat]]
         /\ \A f \in Items \ {e} : spans'[f] = spans[f] /\ lost'[f] = lost[f]
         /\ spans'[e].open = spans[e].open /\ spans'[e].finished = spans[e].finished
         /\ spans'[e].over = spans[e].over /\ spans'[e].late = spans[e].late
         /\ spans'[e].dropped = spans[e].dropped /\ spans'[e].raced = spans[e].raced
         /\ transport =>
              /\ lost'[e].event = lost[e].event
              /\ spans'[e].added + spans[e].sent + lost[e].span + more
                   = lost'[e].span + spans'[e].sent + spans[e].added
<1> DEFINE s == spans[e]
           gain == IF n > s.sent THEN n - s.sent ELSE 0
           loss == IF n < s.sent THEN s.sent - n ELSE 0
           r == [s EXCEPT !.sent = n, !.added = s.added + gain]
<1>1. s \in SpanCounts /\ spans \in [Items -> SpanCounts]
  BY DEF TypeItems
<1>2. s.sent \in Nat /\ s.added \in Nat /\ gain \in Nat /\ loss \in Nat /\ more + loss \in Nat
  BY <1>1 DEF SpanCounts
<1>3. spans' = [spans EXCEPT ![e] = r] /\ Lose(e, 0, more + loss)
  BY DEF Changed
<1>4. /\ r \in SpanCounts /\ r.open = s.open /\ r.finished = s.finished /\ r.over = s.over
      /\ r.late = s.late /\ r.dropped = s.dropped /\ r.raced = s.raced
      /\ r.sent = n /\ r.added = s.added + gain
  <2>1. s.added + gain \in Nat
    BY <1>2
  <2> HIDE DEF gain
  <2> QED
    BY <1>1, <2>1 DEF SpanCounts
<1>5. /\ lost' \in [Items -> [event : Nat, span : Nat]]
      /\ \A f \in Items \ {e} : lost'[f] = lost[f]
      /\ transport => /\ lost'[e].event = lost[e].event + 0
                      /\ lost'[e].span = lost[e].span + (more + loss)
  BY <1>2, <1>3, LoseMoves
<1>6. lost[e].event \in Nat /\ lost[e].span \in Nat
  BY DEF TypeItems
<1>7. gain + s.sent = n + loss
  BY <1>2
<1> HIDE DEF r, gain, loss
<1>8. spans' \in [Items -> SpanCounts] /\ spans'[e] = r
      /\ \A f \in Items \ {e} : spans'[f] = spans[f]
  BY <1>1, <1>3, <1>4
<1> QED
  BY <1>2, <1>4, <1>5, <1>6, <1>7, <1>8

(* The stages that the client and the integrations pass an item through.   *)
LEMMA StepQuietStage ==
  ASSUME IInv, NEW t \in Threads, NEW e \in Items,
         Detach(t, e) \/ Test(t, e) \/ CaptureEnvelope(t, e)
  PROVE  IInv'
<1>1. /\ TypeItems /\ ItemInv(e) /\ stack[t] # <<>> /\ Head(stack[t]) = e
      /\ at[e] \in {"counted", "send", "use"} /\ at[e] \in Captures
      /\ UNCHANGED <<kind, exc, spans, lost, lastSeen, counted, transport>>
  BY DEF IInv, Detach, Test, CaptureEnvelope, Capturing, Captures, Stages
<1>2. /\ spans \in [Items -> SpanCounts] /\ lost \in [Items -> [event : Nat, span : Nat]]
      /\ counted \subseteq Items
  BY <1>1 DEF TypeItems
<1>3. ASSUME NEW stage \in {"events", "use"}, Goto(e, stage),
             stage = IF at[e] = "counted" THEN "events" ELSE "use", at[e] # "use"
      PROVE  IInv'
  <2>1. stage \in Captures /\ stage \notin {"counted", "errors", "dedupe"}
    BY DEF Captures, Stages
  <2>2. /\ TypeItems' /\ StackInv' /\ SeenInv' /\ Others(e)
        /\ at'[e] = stage /\ UNCHANGED <<fate, stack>>
    BY <1>1, <1>2, <1>3, <2>1, StageGoes
  <2>3. KindInv(e)' /\ LostInv(e)' /\ SessionInv(e)' /\ SpanInv(e)'
    BY <1>1, <1>3, <2>2
    DEF ItemInv, KindInv, LostInv, SessionInv, SpanInv, IsTransaction
  <2> QED
    BY <2>2, <2>3, OneItem DEF ItemInv
<1>4. ASSUME NEW f \in {"nowhere", "sent", "raised"}, End(e, f),
             at[e] \in {"send", "use"}, f = "sent" <=> transport
      PROVE  IInv'
  <2>1. f \in Fates /\ f \notin {"before_send", "ignored"}
    BY DEF Fates
  <2>2. /\ TypeItems' /\ StackInv' /\ SeenInv' /\ Others(e)
        /\ at'[e] = "done" /\ fate'[e] = f
    BY <1>1, <1>2, <1>4, <2>1, StageEnds
  <2>3. KindInv(e)' /\ LostInv(e)' /\ SessionInv(e)'
    BY <1>1, <1>4, <2>2 DEF ItemInv, KindInv, LostInv, SessionInv, IsTransaction
  <2>4. SpanInv(e)'
    BY <1>1, <1>2, <1>4, <2>2
    DEF ItemInv, SpanInv, IsTransaction, Started, AllSpans, KnownSpans, Unreported, SpanCounts
  <2> QED
    BY <2>2, <2>3, <2>4, OneItem DEF ItemInv
<1>5. CASE Detach(t, e)
  <2>1. at[e] = "counted" /\ IsTransaction(e) /\ exc[e] = None
    BY <1>1, <1>5 DEF Detach, Capturing, ItemInv, KindInv, IsTransaction
  <2>2. CASE Goto(e, "events")
    BY <1>3, <2>1, <2>2
  <2>3. CASE End(e, "ignored")
    <3>1. /\ TypeItems' /\ StackInv' /\ SeenInv' /\ Others(e)
          /\ at'[e] = "done" /\ fate'[e] = "ignored"
      BY <1>1, <1>2, <2>1, <2>3, StageEnds DEF Fates
    <3>2. KindInv(e)' /\ LostInv(e)' /\ SessionInv(e)'
      BY <1>1, <2>1, <3>1 DEF ItemInv, KindInv, LostInv, SessionInv, IsTransaction
    <3>3. SpanInv(e)'
      BY <1>1, <1>2, <2>1, <3>1
      DEF ItemInv, SpanInv, IsTransaction, Started, AllSpans, KnownSpans, Unreported, SpanCounts
    <3> QED
      BY <3>1, <3>2, <3>3, OneItem DEF ItemInv
  <2> QED
    BY <1>5, <2>2, <2>3 DEF Detach
<1>6. CASE Test(t, e)
  BY <1>3, <1>4, <1>6 DEF Test, Capturing
<1>7. CASE CaptureEnvelope(t, e)
  BY <1>4, <1>7 DEF CaptureEnvelope, Capturing
<1> QED
  BY <1>5, <1>6, <1>7

LEMMA StepError ==
  ASSUME IInv, NEW t \in Threads, NEW e \in Items,
         ErrorProcessors(t, e) \/ Dedupe(t, e) \/ SampleError(t, e)
  PROVE  IInv'
<1>1. /\ TypeItems /\ ItemInv(e) /\ stack[t] # <<>> /\ Head(stack[t]) = e
      /\ at[e] \in {"errors", "dedupe", "sampler"} /\ at[e] \in Captures
      /\ UNCHANGED <<kind, exc, spans, counted, transport>>
  BY DEF IInv, ErrorProcessors, Dedupe, DedupeBy, SampleError, SampleErrorReporting,
         Capturing, Captures, Stages
<1>2. /\ spans \in [Items -> SpanCounts] /\ lost \in [Items -> [event : Nat, span : Nat]]
      /\ counted \subseteq Items /\ kind[e] = "error"
  BY <1>1 DEF TypeItems, ItemInv, KindInv
<1>3. ASSUME NEW stage \in {"dedupe", "events", "send"}, Goto(e, stage), UNCHANGED lost,
             at[e] = IF stage = "dedupe" THEN "errors"
                     ELSE IF stage = "events" THEN "dedupe" ELSE "sampler",
             \/ UNCHANGED lastSeen
             \/ stage = "events" /\ lastSeen' = [lastSeen EXCEPT ![t] = exc[e]]
      PROVE  IInv'
  <2>1. stage \in Captures
    BY DEF Captures, Stages
  <2>0. stage = "events" => exc[e] # None
    BY <1>1, <1>3 DEF ItemInv, KindInv
  <2>4. \/ UNCHANGED lastSeen
        \/ lastSeen' = [lastSeen EXCEPT ![t] = exc[e]] /\ exc[e] # None
    BY <1>3, <2>0
  <2>5. \/ stage \notin {"counted", "errors", "dedupe"}
        \/ at[e] = "errors" /\ UNCHANGED lastSeen
    BY <1>3
  <2>2. /\ TypeItems' /\ StackInv' /\ SeenInv' /\ Others(e)
        /\ at'[e] = stage /\ UNCHANGED <<fate, stack>>
    BY <1>1, <1>2, <1>3, <2>1, <2>4, <2>5, StageGoes
  <2>3. KindInv(e)' /\ LostInv(e)' /\ SessionInv(e)'
    BY <1>1, <1>2, <1>3, <2>0, <2>2
    DEF ItemInv, KindInv, LostInv, SessionInv, IsTransaction
  <2>6. SpanInv(e)'
    BY <1>1, <1>2, <1>3, <2>2 DEF SpanInv, IsTransaction
  <2> QED
    BY <2>2, <2>3, <2>6, OneItem DEF ItemInv
<1>4. ASSUME NEW f \in {"processor", "duplicate", "sampler"}, End(e, f), Lose(e, 1, 0),
             f = "sampler" <=> at[e] = "sampler", UNCHANGED lastSeen
      PROVE  IInv'
  <2>1. f \in Fates /\ f \notin {"before_send", "ignored"}
    BY DEF Fates
  <2>2. /\ lost' \in [Items -> [event : Nat, span : Nat]]
        /\ \A g \in Items \ {e} : lost'[g] = lost[g]
        /\ transport => lost'[e].event = lost[e].event + 1
    BY <1>1, <1>4, LoseMoves
  <2>6. /\ spans' \in [Items -> SpanCounts] /\ spans'[e] = spans[e]
        /\ \A g \in Items \ {e} : spans'[g] = spans[g] /\ lost'[g] = lost[g]
        /\ UNCHANGED lastSeen /\ (exc[e] = None \/ f \notin {"before_send", "ignored"})
    BY <1>1, <1>2, <1>4, <2>1, <2>2
  <2>3. /\ TypeItems' /\ StackInv' /\ SeenInv' /\ Others(e)
        /\ at'[e] = "done" /\ fate'[e] = f
    BY <1>1, <1>4, <2>1, <2>2, <2>6, StageEnds
  <2>4. KindInv(e)' /\ LostInv(e)' /\ SessionInv(e)'
    BY <1>1, <1>2, <1>4, <2>2, <2>3
    DEF ItemInv, KindInv, LostInv, SessionInv, IsTransaction
  <2>5. SpanInv(e)'
    BY <1>1, <1>2, <2>3 DEF SpanInv, IsTransaction
  <2> QED
    BY <2>3, <2>4, <2>5, OneItem DEF ItemInv
<1>5. CASE ErrorProcessors(t, e)
  <2>0. at[e] = "errors" /\ UNCHANGED lastSeen
    BY <1>5 DEF ErrorProcessors, Capturing
  <2>1. CASE End(e, "processor") /\ Lose(e, 1, 0)
    BY <1>4, <2>0, <2>1
  <2>2. CASE Goto(e, "dedupe") /\ UNCHANGED lost
    BY <1>3, <2>0, <2>2
  <2> QED
    BY <1>5, <2>1, <2>2 DEF ErrorProcessors
<1>6. CASE Dedupe(t, e)
  <2>1. at[e] = "dedupe" /\ exc[e] # None
    BY <1>1, <1>6 DEF Dedupe, DedupeBy, Capturing, ItemInv, KindInv
  <2> QED
    BY <1>3, <1>4, <1>6, <2>1 DEF Dedupe, DedupeBy
<1>7. CASE SampleError(t, e)
  BY <1>3, <1>4, <1>7 DEF SampleError, SampleErrorReporting, Capturing
<1> QED
  BY <1>5, <1>6, <1>7

LEMMA StepEventProcessors ==
  ASSUME IInv, NEW t \in Threads, NEW e \in Items, EventProcessors(t, e)
  PROVE  IInv'
<1>1. /\ TypeItems /\ ItemInv(e) /\ stack[t] # <<>> /\ Head(stack[t]) = e
      /\ at[e] = "events" /\ at[e] \in Captures
      /\ UNCHANGED <<kind, exc, lastSeen, counted, transport>>
  BY DEF IInv, EventProcessors, EventProcessorsReporting, Capturing, Captures, Stages
<1>2. /\ spans \in [Items -> SpanCounts] /\ lost \in [Items -> [event : Nat, span : Nat]]
      /\ counted \subseteq Items /\ spans[e] \in SpanCounts
      /\ lost[e] \in [event : Nat, span : Nat]
      /\ spans[e].open + spans[e].dropped \in Nat /\ spans[e].sent + 1 \in Nat
  <2>1. spans[e] \in SpanCounts
    BY <1>1 DEF TypeItems
  <2>2. spans[e].open \in Nat /\ spans[e].dropped \in Nat /\ spans[e].sent \in Nat
    BY <2>1 DEF SpanCounts
  <2>3. /\ spans \in [Items -> SpanCounts] /\ lost \in [Items -> [event : Nat, span : Nat]]
        /\ counted \subseteq Items /\ lost[e] \in [event : Nat, span : Nat]
    BY <1>1 DEF TypeItems
  <2> QED
    BY <2>1, <2>2, <2>3
<1>3. CASE /\ End(e, "processor") /\ UNCHANGED spans
           /\ Lose(e, 1, IF IsTransaction(e) THEN spans[e].sent + 1 ELSE 0)
  <2> DEFINE n == IF IsTransaction(e) THEN spans[e].sent + 1 ELSE 0
  <2>1. /\ lost' \in [Items -> [event : Nat, span : Nat]]
        /\ \A g \in Items \ {e} : lost'[g] = lost[g]
        /\ transport => /\ lost'[e].event = lost[e].event + 1
                        /\ lost'[e].span = lost[e].span + n
    <3>1. n \in Nat /\ 1 \in Nat
      BY <1>2
    <3> HIDE DEF n
    <3>2. Lose(e, 1, n)
      BY <1>3 DEF n
    <3> QED
      BY <1>1, <3>1, <3>2, LoseMoves
  <2>2. /\ TypeItems' /\ StackInv' /\ SeenInv' /\ Others(e)
        /\ at'[e] = "done" /\ fate'[e] = "processor"
    BY <1>1, <1>2, <1>3, <2>1, StageEnds DEF Fates
  <2>3. KindInv(e)' /\ LostInv(e)' /\ SessionInv(e)'
    BY <1>1, <1>2, <2>1, <2>2 DEF ItemInv, KindInv, LostInv, SessionInv, IsTransaction
  <2>4. SpanInv(e)'
    BY <1>1, <1>2, <1>3, <2>1, <2>2
    DEF ItemInv, SpanInv, IsTransaction, Started, AllSpans, KnownSpans, Unreported, SpanCounts
  <2> QED
    BY <2>2, <2>3, <2>4, OneItem DEF ItemInv
<1>4. CASE /\ Goto(e, "before_send") /\ ~IsTransaction(e) /\ UNCHANGED <<spans, lost>>
  <2>1. /\ TypeItems' /\ StackInv' /\ SeenInv' /\ Others(e)
        /\ at'[e] = "before_send" /\ UNCHANGED <<fate, stack>>
    BY <1>1, <1>2, <1>4, StageGoes DEF Captures, Stages
  <2>2. KindInv(e)' /\ LostInv(e)' /\ SessionInv(e)' /\ SpanInv(e)'
    BY <1>1, <1>4, <2>1 DEF ItemInv, KindInv, LostInv, SessionInv, SpanInv, IsTransaction
  <2> QED
    BY <2>1, <2>2, OneItem DEF ItemInv
<1>5. ASSUME NEW n \in 0..(spans[e].sent + 1), Goto(e, "before_send"), IsTransaction(e),
             Changed(e, n, spans[e].open + spans[e].dropped)
      PROVE  IInv'
  <2>1. n \in Nat
    BY <1>2
  <2>2. /\ spans' \in [Items -> SpanCounts]
        /\ lost' \in [Items -> [event : Nat, span : Nat]]
        /\ \A f \in Items \ {e} : spans'[f] = spans[f] /\ lost'[f] = lost[f]
        /\ spans'[e].open = spans[e].open /\ spans'[e].finished = spans[e].finished
        /\ spans'[e].over = spans[e].over /\ spans'[e].late = spans[e].late
        /\ spans'[e].dropped = spans[e].dropped
        /\ transport =>
              /\ lost'[e].event = lost[e].event
              /\ spans'[e].added + spans[e].sent + lost[e].span
                     + (spans[e].open + spans[e].dropped)
                   = lost'[e].span + spans'[e].sent + spans[e].added
    BY <1>1, <1>2, <1>5, <2>1, ChangedCounts
  <2>4. /\ TypeItems' /\ StackInv' /\ SeenInv' /\ Others(e)
        /\ at'[e] = "before_send" /\ UNCHANGED <<fate, stack>>
    <3>1. "before_send" \in Captures
      BY DEF Captures, Stages
    <3> QED
      BY <1>1, <1>2, <1>5, <2>2, <3>1, StageGoes
  <2>5. KindInv(e)' /\ LostInv(e)' /\ SessionInv(e)'
    BY <1>1, <2>2, <2>4 DEF ItemInv, KindInv, LostInv, SessionInv, IsTransaction
  <2>6. SpanInv(e)'
    <3>1. spans'[e] \in SpanCounts /\ lost'[e] \in [event : Nat, span : Nat]
      BY <2>2
    <3>2. transport => /\ lost[e].span = 0 /\ spans[e].sent = spans[e].finished
                       /\ spans[e].added = 0
      BY <1>1, <1>5 DEF ItemInv, SpanInv
    <3>3. transport => Started(spans'[e]) + spans'[e].added + spans'[e].dropped
                         = lost'[e].span + spans'[e].sent + spans'[e].late + spans'[e].over
      BY <1>2, <2>2, <3>1, <3>2 DEF Started, SpanCounts
    <3> QED
      BY <1>1, <2>4, <3>3 DEF SpanInv
  <2> QED
    BY <2>4, <2>5, <2>6, OneItem DEF ItemInv
<1> QED
  BY <1>3, <1>4, <1>5 DEF EventProcessors, EventProcessorsReporting

LEMMA StepBeforeSend ==
  ASSUME IInv, NEW t \in Threads, NEW e \in Items, BeforeSend(t, e)
  PROVE  IInv'
<1>1. /\ TypeItems /\ ItemInv(e) /\ stack[t] # <<>> /\ Head(stack[t]) = e
      /\ at[e] = "before_send" /\ at[e] \in Captures
      /\ UNCHANGED <<kind, exc, counted, transport>>
  BY DEF IInv, BeforeSend, BeforeSendForgetting, Capturing, Captures, Stages
<1>2. /\ spans \in [Items -> SpanCounts] /\ lost \in [Items -> [event : Nat, span : Nat]]
      /\ counted \subseteq Items /\ spans[e] \in SpanCounts
      /\ lost[e] \in [event : Nat, span : Nat] /\ spans[e].sent + 1 \in Nat
  <2>1. spans[e] \in SpanCounts
    BY <1>1 DEF TypeItems
  <2>2. spans[e].sent \in Nat
    BY <2>1 DEF SpanCounts
  <2> QED
    BY <1>1, <2>1, <2>2 DEF TypeItems
<1>3. CASE /\ End(e, "before_send") /\ UNCHANGED spans
           /\ Lose(e, 1, IF IsTransaction(e) THEN spans[e].sent + 1 ELSE 0)
           /\ lastSeen' = IF exc[e] = None THEN lastSeen ELSE [lastSeen EXCEPT ![t] = None]
  <2> DEFINE n == IF IsTransaction(e) THEN spans[e].sent + 1 ELSE 0
  <2>1. /\ lost' \in [Items -> [event : Nat, span : Nat]]
        /\ \A g \in Items \ {e} : lost'[g] = lost[g]
        /\ transport => /\ lost'[e].event = lost[e].event + 1
                        /\ lost'[e].span = lost[e].span + n
    <3>1. n \in Nat /\ 1 \in Nat
      BY <1>2
    <3> HIDE DEF n
    <3>2. Lose(e, 1, n)
      BY <1>3 DEF n
    <3> QED
      BY <1>1, <3>1, <3>2, LoseMoves
  <2>2. \/ UNCHANGED lastSeen /\ exc[e] = None
        \/ lastSeen' = [lastSeen EXCEPT ![t] = None]
    BY <1>3
  <2>3. /\ TypeItems' /\ StackInv' /\ SeenInv' /\ Others(e)
        /\ at'[e] = "done" /\ fate'[e] = "before_send"
    BY <1>1, <1>2, <1>3, <2>1, <2>2, StageEnds DEF Fates
  <2>4. KindInv(e)' /\ LostInv(e)' /\ SessionInv(e)'
    BY <1>1, <1>2, <2>1, <2>3 DEF ItemInv, KindInv, LostInv, SessionInv, IsTransaction
  <2>5. SpanInv(e)'
    <3>1. transport /\ IsTransaction(e) => Started(spans[e]) + spans[e].added + spans[e].dropped
                         = lost[e].span + spans[e].sent + spans[e].late + spans[e].over
      BY <1>1 DEF ItemInv, SpanInv
    <3>2. transport /\ IsTransaction(e) => Started(spans[e]) + spans[e].added + 1 + spans[e].dropped
                         = lost'[e].span + spans[e].late + spans[e].over
      BY <1>2, <2>1, <3>1 DEF SpanCounts, Started
    <3>3. Unreported(e)' = spans[e].late + 0
      BY <1>3, <2>3 DEF Unreported
    <3>4. spans[e].late \in Nat /\ (transport => lost'[e].span \in Nat)
      BY <1>2, <2>1 DEF SpanCounts
    <3> QED
      BY <1>1, <1>2, <1>3, <2>3, <3>2, <3>3, <3>4
      DEF SpanInv, IsTransaction, AllSpans, KnownSpans, Started, SpanCounts
  <2> QED
    BY <2>3, <2>4, <2>5, OneItem DEF ItemInv
<1>4. CASE /\ End(e, "sent") /\ Batched(e) /\ UNCHANGED <<spans, lost, lastSeen>>
  <2>1. /\ TypeItems' /\ StackInv' /\ SeenInv' /\ Others(e)
        /\ at'[e] = "done" /\ fate'[e] = "sent"
    BY <1>1, <1>2, <1>4, StageEnds DEF Fates
  <2>2. KindInv(e)' /\ LostInv(e)' /\ SessionInv(e)' /\ SpanInv(e)'
    BY <1>1, <1>4, <2>1
    DEF ItemInv, KindInv, LostInv, SessionInv, SpanInv, IsTransaction, Batched
  <2> QED
    BY <2>1, <2>2, OneItem DEF ItemInv
<1>5. CASE /\ Goto(e, "session") /\ ~IsTransaction(e) /\ UNCHANGED <<spans, lost, lastSeen>>
  <2>1. /\ TypeItems' /\ StackInv' /\ SeenInv' /\ Others(e)
        /\ at'[e] = "session" /\ UNCHANGED <<fate, stack>>
    BY <1>1, <1>2, <1>5, StageGoes DEF Captures, Stages
  <2>2. KindInv(e)' /\ LostInv(e)' /\ SessionInv(e)' /\ SpanInv(e)'
    BY <1>1, <1>5, <2>1 DEF ItemInv, KindInv, LostInv, SessionInv, SpanInv, IsTransaction
  <2> QED
    BY <2>1, <2>2, OneItem DEF ItemInv
<1>6. ASSUME NEW n \in 0..(spans[e].sent + 1), Goto(e, "session"), IsTransaction(e),
             Changed(e, n, 0), UNCHANGED lastSeen
      PROVE  IInv'
  <2>1. n \in Nat /\ 0 \in Nat
    BY <1>2
  <2>2. /\ spans' \in [Items -> SpanCounts]
        /\ lost' \in [Items -> [event : Nat, span : Nat]]
        /\ \A f \in Items \ {e} : spans'[f] = spans[f] /\ lost'[f] = lost[f]
        /\ spans'[e].open = spans[e].open /\ spans'[e].finished = spans[e].finished
        /\ spans'[e].over = spans[e].over /\ spans'[e].late = spans[e].late
        /\ spans'[e].dropped = spans[e].dropped
        /\ transport =>
              /\ lost'[e].event = lost[e].event
              /\ spans'[e].added + spans[e].sent + lost[e].span + 0
                   = lost'[e].span + spans'[e].sent + spans[e].added
    BY <1>1, <1>6, <2>1, ChangedCounts
  <2>4. /\ TypeItems' /\ StackInv' /\ SeenInv' /\ Others(e)
        /\ at'[e] = "session" /\ UNCHANGED <<fate, stack>>
    <3>1. "session" \in Captures
      BY DEF Captures, Stages
    <3> QED
      BY <1>1, <1>2, <1>6, <2>2, <3>1, StageGoes
  <2>5. KindInv(e)' /\ LostInv(e)' /\ SessionInv(e)'
    BY <1>1, <2>2, <2>4 DEF ItemInv, KindInv, LostInv, SessionInv, IsTransaction
  <2>6. SpanInv(e)'
    <3>1. spans'[e] \in SpanCounts /\ lost'[e] \in [event : Nat, span : Nat]
      BY <2>2
    <3>2. transport => Started(spans[e]) + spans[e].added + spans[e].dropped
                         = lost[e].span + spans[e].sent + spans[e].late + spans[e].over
      BY <1>1, <1>6 DEF ItemInv, SpanInv
    <3>3. transport => Started(spans'[e]) + spans'[e].added + spans'[e].dropped
                         = lost'[e].span + spans'[e].sent + spans'[e].late + spans'[e].over
      <4>1. /\ spans[e].added \in Nat /\ spans[e].sent \in Nat /\ lost[e].span \in Nat
            /\ spans'[e].added \in Nat /\ spans'[e].sent \in Nat /\ lost'[e].span \in Nat
            /\ Started(spans[e]) \in Nat /\ Started(spans'[e]) = Started(spans[e])
            /\ spans[e].dropped \in Nat /\ spans[e].late \in Nat /\ spans[e].over \in Nat
        BY <1>2, <2>2, <3>1 DEF Started, SpanCounts
      <4> QED
        BY <2>2, <3>2, <4>1
    <3> QED
      BY <1>1, <2>4, <3>3 DEF SpanInv
  <2> QED
    BY <2>4, <2>5, <2>6, OneItem DEF ItemInv
<1>7. Batched(e) => ~IsTransaction(e)
  BY DEF Batched, IsTransaction
<1> QED
  BY <1>3, <1>4, <1>5, <1>6, <1>7 DEF BeforeSend, BeforeSendForgetting

LEMMA StepSession ==
  ASSUME IInv, NEW t \in Threads, NEW e \in Items, Session(t, e)
  PROVE  IInv'
<1>1. /\ TypeItems /\ ItemInv(e) /\ stack[t] # <<>> /\ Head(stack[t]) = e
      /\ at[e] = "session" /\ at[e] \in Captures
      /\ counted' = counted \cup (IF exc[e] # None THEN {e} ELSE {})
      /\ Goto(e, IF kind[e] = "error" THEN "sampler" ELSE "send")
      /\ UNCHANGED <<kind, exc, spans, lost, lastSeen, transport>>
  BY DEF IInv, Session, SessionThen, Capturing, Captures, Stages
<1>2. /\ spans \in [Items -> SpanCounts] /\ lost \in [Items -> [event : Nat, span : Nat]]
      /\ counted' \subseteq Items /\ \A f \in Items \ {e} : f \in counted' <=> f \in counted
      /\ (IF kind[e] = "error" THEN "sampler" ELSE "send") \in Captures
  BY <1>1 DEF TypeItems, Captures, Stages
<1>3. /\ TypeItems' /\ StackInv' /\ SeenInv' /\ Others(e)
      /\ at'[e] = (IF kind[e] = "error" THEN "sampler" ELSE "send")
      /\ UNCHANGED <<fate, stack>>
  BY <1>1, <1>2, StageGoes
<1>4. KindInv(e)' /\ LostInv(e)' /\ SessionInv(e)' /\ SpanInv(e)'
  BY <1>1, <1>3 DEF ItemInv, KindInv, LostInv, SessionInv, SpanInv, IsTransaction
<1> QED
  BY <1>3, <1>4, OneItem DEF ItemInv

LEMMA StepClose ==
  ASSUME IInv, NEW t \in Threads, Close(t)
  PROVE  IInv'
<1>1. /\ transport' = FALSE
      /\ UNCHANGED <<kind, exc, at, fate, stack, spans, lost, lastSeen, counted>>
  BY DEF Close
<1>2. TypeItems' /\ StackInv' /\ SeenInv'
  BY <1>1 DEF IInv, TypeItems, StackInv, SeenInv, Saw
<1>3. ASSUME NEW e \in Items
      PROVE  ItemInv(e)'
  BY <1>1 DEF IInv, ItemInv, KindInv, LostInv, SessionInv, SpanInv, IsTransaction
<1> QED
  BY <1>2, <1>3 DEF IInv

LEMMA StepIInv == IInv /\ RecorderInv /\ [Next]_vars => IInv'
<1> SUFFICES ASSUME IInv, RecorderInv, [Next]_vars PROVE IInv'
  OBVIOUS
<1>1. CASE UNCHANGED vars
  <2>1. TypeItems' /\ StackInv' /\ SeenInv'
    BY <1>1 DEF vars, IInv, TypeItems, StackInv, SeenInv, Saw
  <2>2. ASSUME NEW e \in Items
        PROVE  ItemInv(e)'
    BY <1>1 DEF vars, IInv, ItemInv, KindInv, LostInv, SessionInv, SpanInv, IsTransaction,
                AllSpans, KnownSpans, Unreported
  <2> QED
    BY <2>1, <2>2 DEF IInv
<1>2. ASSUME NEW t \in Threads, NEW e \in Items, Call(t, e)
      PROVE  IInv'
  BY <1>2, StepCapture, StepStartTransaction, StepFinish, StepFinishSpan DEF Call
<1>3. ASSUME NEW t \in Threads, NEW e \in Items, Step(t, e)
      PROVE  IInv'
  BY <1>3, StepQuietStage, StepError, StepEventProcessors, StepBeforeSend, StepSession
  DEF Step
<1>4. ASSUME NEW t \in Threads, NEW e \in Items, Add(t, e)
      PROVE  IInv'
  BY <1>4, StepAdd
<1>5. ASSUME NEW t \in Threads, Close(t)
      PROVE  IInv'
  BY <1>5, StepClose
<1> QED
  BY <1>1, <1>2, <1>3, <1>4, <1>5 DEF Next

-----------------------------------------------------------------------------
(* The recorder, which only add() and the finish of a span change.         *)
LEMMA SomeAppend ==
  /\ IsFiniteSet(Threads) /\ Cardinality(Threads) \in Nat \ {0}
  /\ \A e : IsFiniteSet(Appenders(e)) /\ Cardinality(Appenders(e)) \in Nat
            /\ Cardinality(Appenders(e)) <= Cardinality(Threads)
<1>1. IsFiniteSet(Threads) /\ Cardinality(Threads) \in Nat /\ Cardinality(Threads) # 0
  BY ThreadsFinite, FS_CardinalityType, FS_EmptySet
<1>2. ASSUME NEW e
      PROVE  /\ IsFiniteSet(Appenders(e)) /\ Cardinality(Appenders(e)) \in Nat
             /\ Cardinality(Appenders(e)) <= Cardinality(Threads)
  <2>1. Appenders(e) \subseteq Threads
    BY DEF Appenders
  <2> QED
    BY <1>1, <2>1, FS_Subset, FS_CardinalityType
<1> QED
  BY <1>1, <1>2

SameRecorder(e) ==
  /\ at'[e] = "new" => at[e] = "new"
  /\ spans'[e].over = spans[e].over /\ spans'[e].dropped = spans[e].dropped
  /\ spans'[e].raced = spans[e].raced
  /\ spans'[e].open + spans'[e].finished = spans[e].open + spans[e].finished

LEMMA OtherCalls ==
  ASSUME IInv, NEW t \in Threads, NEW e \in Items, Call(t, e)
  PROVE  UNCHANGED adding /\ \A f \in Items : SameRecorder(f)
<1>1. /\ spans \in [Items -> SpanCounts] /\ at \in [Items -> Stages]
  BY DEF IInv, TypeItems
<1>2. UNCHANGED adding
  BY DEF Call, Capture, StartTransaction, FinishUnsampled, FinishIgnored, FinishTransaction,
         FinishSpan
<1>3. \A f \in Items : at'[f] = "new" => at[f] = "new"
  BY <1>1 DEF Call, Capture, FirstStage, Push, End, StartTransaction, SamplingDecision, Goto,
              FinishUnsampled, FinishIgnored, FinishTransaction, FinishSpan
<1>4. CASE UNCHANGED spans
  BY <1>2, <1>3, <1>4 DEF SameRecorder
<1>5. CASE FinishTransaction(t, e)
  BY <1>1, <1>2, <1>3, <1>5 DEF FinishTransaction, SameRecorder, SpanCounts
<1>6. CASE FinishSpan(t, e)
  <2> DEFINE s == spans[e]
             r == [s EXCEPT !.open = s.open - 1, !.finished = s.finished + 1]
  <2>1. spans' = [spans EXCEPT ![e] = r] /\ s.open > 0 /\ s \in SpanCounts
    BY <1>1, <1>6 DEF FinishSpan
  <2>2. /\ r.over = s.over /\ r.dropped = s.dropped /\ r.raced = s.raced
        /\ r.open = s.open - 1 /\ r.finished = s.finished + 1
        /\ s.open \in Nat /\ s.finished \in Nat
    BY <2>1 DEF SpanCounts
  <2> HIDE DEF r
  <2> QED
    BY <1>1, <1>2, <1>3, <2>1, <2>2 DEF SameRecorder
<1> QED
  BY <1>4, <1>5, <1>6
  DEF Call, Capture, StartTransaction, FinishUnsampled, FinishIgnored

LEMMA OtherStages ==
  ASSUME IInv, NEW t \in Threads, NEW e \in Items, Step(t, e)
  PROVE  UNCHANGED adding /\ \A f \in Items : SameRecorder(f)
<1>1. /\ TypeItems /\ spans \in [Items -> SpanCounts] /\ at \in [Items -> Stages]
      /\ spans[e] \in SpanCounts
  BY DEF IInv, TypeItems
<1>2. UNCHANGED adding
  BY DEF Step, Detach, ErrorProcessors, Dedupe, DedupeBy, EventProcessors,
         EventProcessorsReporting, BeforeSend, BeforeSendForgetting, Session, SessionThen,
         SampleError, SampleErrorReporting, Test, CaptureEnvelope
<1>3. \A f \in Items : at'[f] = "new" => at[f] = "new"
  BY <1>1 DEF Step, Detach, ErrorProcessors, Dedupe, DedupeBy, EventProcessors,
         EventProcessorsReporting, BeforeSend, BeforeSendForgetting, Session, SessionThen,
         SampleError, SampleErrorReporting, Test, CaptureEnvelope, Goto, End
<1>4. CASE UNCHANGED spans
  BY <1>2, <1>3, <1>4 DEF SameRecorder
<1>5. ASSUME NEW n \in 0..(spans[e].sent + 1), NEW more \in Nat, Changed(e, n, more)
      PROVE  \A f \in Items : SameRecorder(f)
  <2>1. n \in Nat
    BY <1>1 DEF SpanCounts
  <2> QED
    BY <1>1, <1>3, <1>5, <2>1, ChangedCounts DEF SameRecorder
<1>6. CASE EventProcessors(t, e)
  <2>1. spans[e].open + spans[e].dropped \in Nat
    BY <1>1 DEF SpanCounts
  <2> QED
    BY <1>2, <1>4, <1>5, <1>6, <2>1 DEF EventProcessors, EventProcessorsReporting
<1>7. CASE BeforeSend(t, e)
  BY <1>2, <1>4, <1>5, <1>7 DEF BeforeSend, BeforeSendForgetting
<1> QED
  BY <1>4, <1>6, <1>7
  DEF Step, Detach, ErrorProcessors, Dedupe, DedupeBy, Session, SessionThen, SampleError,
      SampleErrorReporting, Test, CaptureEnvelope

LEMMA RecorderKept ==
  ASSUME IInv, RecorderInv, UNCHANGED adding, \A f \in Items : SameRecorder(f)
  PROVE  RecorderInv'
<1> SUFFICES ASSUME NEW e \in Items
             PROVE  (Adders(e) # {} => at[e] # "new")' /\ Counts(e)' /\ Bounded(e)'
  BY DEF RecorderInv
<1>1. (Adders(e) # {} => at[e] # "new") /\ Counts(e) /\ Bounded(e) /\ SameRecorder(e)
  BY DEF RecorderInv
<1>2. Adders(e)' = Adders(e) /\ Writers(e)' = Writers(e) /\ Appenders(e)' = Appenders(e)
  BY DEF Adders, Writers, Appenders, IsAdding
<1> QED
  BY <1>1, <1>2 DEF SameRecorder, Counts, Bounded

(* A step of add() in a thread: what it makes of the item it adds to, and  *)
(* that others have no more threads than before.                           *)
LEMMA OneAdds ==
  ASSUME RecorderInv, NEW t \in Threads, NEW e \in Items, NEW a \in Adding \cup {Idle},
         adding' = [adding EXCEPT ![t] = a], a # Idle => a.to = e
  PROVE  /\ adding' \in [Threads -> Adding \cup {Idle}] /\ adding'[t] = a
         /\ \A u \in Threads \ {t} : adding'[u] = adding[u]
         /\ \A f \in Items \ {e} : /\ Adders(f)' \subseteq Adders(f)
                                   /\ Writers(f)' \subseteq Writers(f)
                                   /\ Appenders(f)' \subseteq Appenders(f)
         /\ \A u \in Writers(e)' \ {t} : u \in Writers(e) /\ adding'[u] = adding[u]
         /\ (t \in Writers(e)') <=> a.step = "write" /\ a # Idle
         /\ a.step # "append" => Appenders(e)' = Appenders(e) \ {t}
<1>1. /\ adding \in [Threads -> Adding \cup {Idle}]
      /\ adding' \in [Threads -> Adding \cup {Idle}] /\ adding'[t] = a
      /\ \A u \in Threads \ {t} : adding'[u] = adding[u]
  BY DEF RecorderInv
<1>2. Idle.step = "idle"
  BY DEF Idle
<1>3. ASSUME NEW f \in Items \ {e}
      PROVE  /\ Adders(f)' \subseteq Adders(f)
             /\ Writers(f)' \subseteq Writers(f)
             /\ Appenders(f)' \subseteq Appenders(f)
  BY <1>1, <1>2 DEF Adders, Writers, Appenders, IsAdding
<1>4. \A u \in Writers(e)' \ {t} : u \in Writers(e) /\ adding'[u] = adding[u]
  BY <1>1 DEF Writers, IsAdding
<1>5. (t \in Writers(e)') <=> a.step = "write" /\ a # Idle
  BY <1>1, <1>2 DEF Writers, IsAdding
<1>6. a.step # "append" => Appenders(e)' = Appenders(e) \ {t}
  BY <1>1 DEF Appenders, IsAdding
<1> QED
  BY <1>1, <1>3, <1>4, <1>5, <1>6

LEMMA NotAdding == Idle \in Adding \cup {Idle} /\ Idle.step = "idle"
BY DEF Idle

LEMMA RecorderSteps ==
  ASSUME IInv, RecorderInv, NEW t \in Threads, NEW e \in Items, NEW a \in Adding \cup {Idle},
         adding' = [adding EXCEPT ![t] = a], a # Idle => a.to = e,
         UNCHANGED at, at[e] # "new", \A f \in Items \ {e} : spans'[f] = spans[f],
         Counts(e)', Bounded(e)'
  PROVE  RecorderInv'
<1>1. /\ adding' \in [Threads -> Adding \cup {Idle}] /\ adding'[t] = a
      /\ \A u \in Threads \ {t} : adding'[u] = adding[u]
      /\ \A f \in Items \ {e} : /\ Adders(f)' \subseteq Adders(f)
                                /\ Writers(f)' \subseteq Writers(f)
                                /\ Appenders(f)' \subseteq Appenders(f)
  BY OneAdds
<1>2. ASSUME NEW f \in Items \ {e}
      PROVE  (Adders(f) # {} => at[f] # "new")' /\ Counts(f)' /\ Bounded(f)'
  <2>1. (Adders(f) # {} => at[f] # "new") /\ Counts(f) /\ Bounded(f)
    BY DEF RecorderInv
  <2>2. Counts(f)'
    <3>1. t \notin Writers(f)'
      BY <1>1 DEF Writers, IsAdding, Idle
    <3>2. \A u \in Writers(f)' : u \in Writers(f) /\ adding'[u] = adding[u]
      BY <1>1, <3>1 DEF Writers
    <3> QED
      BY <2>1, <3>2 DEF Counts
  <2>3. Bounded(f)'
    <3>1. /\ Cardinality(Appenders(f)') <= Cardinality(Appenders(f))
          /\ Cardinality(Appenders(f)') \in Nat /\ Cardinality(Appenders(f)) \in Nat
      BY <1>1, SomeAppend, FS_Subset, FS_CardinalityType
    <3>2. /\ spans[f].open \in Nat /\ spans[f].finished \in Nat /\ MaxSpans \in Nat
          /\ Cardinality(Threads) \in Nat
      BY Bounds, SomeAppend DEF IInv, TypeItems, SpanCounts
    <3> QED
      BY <2>1, <3>1, <3>2 DEF Bounded
  <2> QED
    BY <1>1, <2>1, <2>2, <2>3
<1> QED
  BY <1>1, <1>2 DEF RecorderInv

LEMMA StepRecorder ==
  ASSUME IInv, RecorderInv, NEW t \in Threads, NEW e \in Items, Add(t, e)
  PROVE  RecorderInv'
<1> DEFINE s == spans[e]
<1>1. /\ s \in SpanCounts /\ spans \in [Items -> SpanCounts] /\ Counts(e) /\ Bounded(e)
      /\ UNCHANGED at /\ MaxSpans \in Nat
  BY Bounds DEF IInv, TypeItems, RecorderInv, Add, StartSpan, StartSpanUpTo, AppendSpan,
                ReadDropped, WriteDropped
<1>2. /\ s.open \in Nat /\ s.finished \in Nat /\ s.over \in Nat /\ s.dropped \in Nat
      /\ s.raced \in BOOLEAN
  BY <1>1 DEF SpanCounts
<1>3. CASE StartSpan(t, e)
  <2> DEFINE filled == s.open + s.finished >= MaxSpans
             b == [step |-> IF filled THEN "read" ELSE "append", to |-> e, seen |-> 0]
  <2>1. PICK a \in Adding :
          /\ adding' = [adding EXCEPT ![t] = a] /\ UNCHANGED spans /\ at[e] # "new"
          /\ a.to = e /\ a.step = (IF filled THEN "read" ELSE "append")
    <3>1. /\ b \in Adding /\ adding' = [adding EXCEPT ![t] = b]
          /\ UNCHANGED spans /\ at[e] # "new"
      BY <1>3 DEF StartSpan, StartSpanUpTo, Adding
    <3> QED
      BY <3>1
  <2>2. adding'[t] = a /\ \A u \in Threads \ {t} : adding'[u] = adding[u]
    BY <2>1 DEF RecorderInv
  <2>3. Counts(e)'
    <3>1. \A u \in Writers(e)' : u \in Writers(e) /\ adding'[u] = adding[u]
      BY <2>1, <2>2 DEF Writers, IsAdding
    <3> QED
      BY <1>1, <2>1, <3>1 DEF Counts
  <2>4. Bounded(e)'
    <3>1. CASE filled
      <4>1. Appenders(e)' \subseteq Appenders(e)
        BY <2>1, <2>2, <3>1 DEF Appenders, IsAdding
      <4>2. /\ Cardinality(Appenders(e)') <= Cardinality(Appenders(e))
            /\ Cardinality(Appenders(e)') \in Nat /\ Cardinality(Appenders(e)) \in Nat
        BY <4>1, SomeAppend, FS_Subset, FS_CardinalityType
      <4> QED
        BY <1>1, <1>2, <2>1, <4>2, SomeAppend DEF Bounded
    <3>2. CASE ~filled
      <4>1. Appenders(e)' \subseteq Threads
        BY DEF Appenders
      <4>2. /\ Cardinality(Appenders(e)') <= Cardinality(Threads)
            /\ Cardinality(Appenders(e)') \in Nat /\ Cardinality(Threads) \in Nat
        BY <4>1, SomeAppend, FS_Subset, FS_CardinalityType
      <4> QED
        BY <1>1, <1>2, <2>1, <3>2, <4>2 DEF Bounded
    <3> QED
      BY <3>1, <3>2
  <2> QED
    BY <1>1, <2>1, <2>3, <2>4, RecorderSteps
<1>4. CASE AppendSpan(t, e)
  <2>1. adding' = [adding EXCEPT ![t] = Idle] /\ at[e] # "new" /\ t \in Appenders(e)
    BY <1>4, Recording DEF AppendSpan, Appenders
  <2>2. /\ \A f \in Items \ {e} : spans'[f] = spans[f]
        /\ spans'[e].over = s.over /\ spans'[e].dropped = s.dropped
        /\ spans'[e].raced = s.raced
        /\ spans'[e].open \in {s.open, s.open + 1} /\ spans'[e].finished = s.finished
    BY <1>1, <1>4 DEF AppendSpan, SpanCounts
  <2>3. /\ \A u \in Writers(e)' \ {t} : u \in Writers(e) /\ adding'[u] = adding[u]
        /\ t \notin Writers(e)' /\ Appenders(e)' = Appenders(e) \ {t}
    BY <2>1, NotAdding, OneAdds
  <2>4. Counts(e)'
    BY <1>1, <2>2, <2>3 DEF Counts
  <2>5. Bounded(e)'
    <3>1. /\ Cardinality(Appenders(e)') = Cardinality(Appenders(e)) - 1
          /\ Cardinality(Appenders(e)) \in Nat /\ Cardinality(Threads) \in Nat
      BY <2>1, <2>3, SomeAppend, FS_RemoveElement
    <3> QED
      BY <1>1, <1>2, <2>2, <3>1 DEF Bounded
  <2> QED
    BY <1>1, <2>1, <2>2, <2>4, <2>5, RecorderSteps
<1>5. CASE ReadDropped(t, e)
  <2> DEFINE b == [step |-> "write", to |-> e, seen |-> s.dropped]
  <2>1. PICK a \in Adding :
          /\ adding' = [adding EXCEPT ![t] = a] /\ at[e] # "new"
          /\ a.to = e /\ a.step = "write" /\ a.seen = s.dropped
          /\ adding[t].step = "read"
    <3>1. /\ b \in Adding /\ adding' = [adding EXCEPT ![t] = b]
          /\ at[e] # "new" /\ adding[t].step = "read"
      BY <1>2, <1>5, Recording DEF ReadDropped, Adding, IsAdding
    <3> QED
      BY <3>1
  <2>2. /\ \A f \in Items \ {e} : spans'[f] = spans[f]
        /\ spans'[e].over = s.over /\ spans'[e].dropped = s.dropped
        /\ spans'[e].raced = (s.raced \/ Writers(e) # {})
        /\ spans'[e].open = s.open /\ spans'[e].finished = s.finished
    BY <1>1, <1>5 DEF ReadDropped, SpanCounts
  <2>3. /\ \A u \in Writers(e)' \ {t} : u \in Writers(e) /\ adding'[u] = adding[u]
        /\ adding'[t] = a /\ Appenders(e)' = Appenders(e) \ {t}
    <3>1. adding'[t] = a /\ \A u \in Threads \ {t} : adding'[u] = adding[u]
      BY <2>1 DEF RecorderInv
    <3>2. \A u \in Writers(e)' \ {t} : u \in Writers(e) /\ adding'[u] = adding[u]
      BY <3>1 DEF Writers, IsAdding
    <3>3. Appenders(e)' = Appenders(e) \ {t}
      BY <2>1, <3>1 DEF Appenders, IsAdding
    <3> QED
      BY <3>1, <3>2, <3>3
  <2>4. Counts(e)'
    <3>1. \A u \in Writers(e)' : adding'[u].seen <= s.over
      BY <1>1, <1>2, <2>1, <2>3 DEF Counts
    <3>2. ~spans'[e].raced => ~s.raced /\ Writers(e) = {}
      BY <1>2, <2>2
    <3>3. ~spans'[e].raced => \A u \in Writers(e)' : u = t
      BY <2>3, <3>2
    <3>4. ~spans'[e].raced => s.dropped = s.over
      BY <1>1, <3>2 DEF Counts
    <3> QED
      BY <1>1, <2>1, <2>2, <2>3, <3>1, <3>3, <3>4 DEF Counts
  <2>5. Bounded(e)'
    <3>1. /\ Cardinality(Appenders(e)') <= Cardinality(Appenders(e))
          /\ Cardinality(Appenders(e)') \in Nat /\ Cardinality(Appenders(e)) \in Nat
      BY <2>3, SomeAppend, FS_Subset, FS_CardinalityType
    <3> QED
      BY <1>1, <1>2, <2>2, <3>1, SomeAppend DEF Bounded
  <2> QED
    BY <1>1, <2>1, <2>2, <2>4, <2>5, RecorderSteps
<1>6. CASE WriteDropped(t, e)
  <2>1. /\ adding' = [adding EXCEPT ![t] = Idle] /\ at[e] # "new"
        /\ t \in Writers(e) /\ adding[t].seen \in Nat
    BY <1>6, Recording DEF WriteDropped, Writers
  <2>2. /\ \A f \in Items \ {e} : spans'[f] = spans[f]
        /\ spans'[e].raced = s.raced
        /\ \/ spans'[e].over = s.over /\ spans'[e].dropped = s.dropped
           \/ spans'[e].over = s.over + 1 /\ spans'[e].dropped = adding[t].seen + 1
        /\ spans'[e].open = s.open /\ spans'[e].finished = s.finished
    BY <1>1, <1>6 DEF WriteDropped, SpanCounts
  <2>3. /\ \A u \in Writers(e)' : u # t /\ u \in Writers(e) /\ adding'[u] = adding[u]
        /\ Appenders(e)' = Appenders(e) \ {t}
    <3>1. /\ \A u \in Writers(e)' \ {t} : u \in Writers(e) /\ adding'[u] = adding[u]
          /\ t \notin Writers(e)' /\ Appenders(e)' = Appenders(e) \ {t}
      BY <2>1, NotAdding, OneAdds
    <3> QED
      BY <3>1
  <2>4. Counts(e)'
    <3>1. \A u \in Writers(e) : adding[u].seen <= s.over /\ adding[u].seen \in Nat
      <4>1. ASSUME NEW u \in Writers(e) PROVE adding[u].seen \in Nat
        BY Recording DEF Writers
      <4> QED
        BY <1>1, <4>1 DEF Counts
    <3> QED
      BY <1>1, <1>2, <2>1, <2>2, <2>3, <3>1 DEF Counts
  <2>5. Bounded(e)'
    <3>1. /\ Cardinality(Appenders(e)') <= Cardinality(Appenders(e))
          /\ Cardinality(Appenders(e)') \in Nat /\ Cardinality(Appenders(e)) \in Nat
      BY <2>3, SomeAppend, FS_Subset, FS_CardinalityType
    <3> QED
      BY <1>1, <1>2, <2>2, <3>1, SomeAppend DEF Bounded
  <2> QED
    BY <1>1, <2>1, <2>2, <2>4, <2>5, RecorderSteps
<1> QED
  BY <1>3, <1>4, <1>5, <1>6 DEF Add

LEMMA InitRecorder == Init => RecorderInv
<1> SUFFICES ASSUME Init PROVE RecorderInv
  OBVIOUS
<1>1. \A e \in Items : Adders(e) = {} /\ Writers(e) = {} /\ Appenders(e) = {}
  BY DEF Init, Adders, Writers, Appenders, IsAdding, Idle
<1>2. ASSUME NEW e \in Items PROVE Counts(e) /\ Bounded(e)
  <2>1. Cardinality(Appenders(e)) = 0 /\ spans[e] = NoSpans /\ Writers(e) = {}
    BY <1>1, FS_EmptySet DEF Init
  <2> QED
    BY <2>1, Bounds, SomeAppend DEF Counts, Bounded, NoSpans
<1> QED
  BY <1>1, <1>2 DEF RecorderInv, Init

LEMMA RecorderStep == IInv /\ RecorderInv /\ [Next]_vars => RecorderInv'
<1> SUFFICES ASSUME IInv, RecorderInv, [Next]_vars PROVE RecorderInv'
  OBVIOUS
<1>1. ASSUME UNCHANGED <<adding, spans, at>> PROVE RecorderInv'
  BY <1>1, RecorderKept DEF SameRecorder
<1>2. ASSUME NEW t \in Threads, NEW e \in Items, Call(t, e) \/ Step(t, e)
      PROVE  RecorderInv'
  BY <1>2, OtherCalls, OtherStages, RecorderKept
<1> QED
  BY <1>1, <1>2, StepRecorder DEF Next, Close, vars

LEMMA Inductive == Spec => [](IInv /\ RecorderInv)
BY InitIInv, InitRecorder, StepIInv, RecorderStep, PTL DEF Spec

-----------------------------------------------------------------------------
(* Until the client is closed, every item that was captured is sent, or    *)
(* ignored as the application asked, or reported lost exactly once; and a  *)
(* session counts the exceptions that before_send let through and nothing  *)
(* else: for any number of threads, of captures inside of captures and of  *)
(* decisions that processors and callbacks take.                           *)
THEOREM EveryItemAccounted == Spec => []ItemsAccounted
<1>1. IInv /\ RecorderInv => ItemsAccounted
  BY DEF IInv, ItemInv, LostInv, SessionInv, RecorderInv, ItemsAccounted, TypeOK, LostOnce,
         SessionCounts
<1> QED
  BY <1>1, Inductive, PTL

(* Every span of a finished transaction is sent or reported, but for those *)
(* Unreported names, for any max_spans and whatever the callbacks do to    *)
(* the spans of the event; and but for some of those over the maximum, if  *)
(* two threads increased dropped_spans at the same time (tracing.py:217-   *)
(* 222): without such a race the count is exact, and no race loses it all. *)
THEOREM EverySpanCounted == Spec => []SpansCounted
<1>1. IInv /\ RecorderInv => SpansCounted
  <2> SUFFICES ASSUME IInv, RecorderInv, transport, NEW e \in Items, IsTransaction(e),
                      at[e] = "done"
               PROVE  /\ KnownSpans(e) <= AllSpans(e)
                      /\ KnownSpans(e) # AllSpans(e) =>
                           spans[e].raced /\ AllSpans(e) - KnownSpans(e) < spans[e].over
    BY DEF SpansCounted
  <2>1. spans[e] \in SpanCounts /\ lost[e] \in [event : Nat, span : Nat]
    BY DEF IInv, TypeItems
  <2>2. AllSpans(e) \in Nat /\ KnownSpans(e) \in Nat
    BY <2>1 DEF AllSpans, KnownSpans, Started, Unreported, SpanCounts
  <2>3. \/ AllSpans(e) = KnownSpans(e)
        \/ AllSpans(e) + spans[e].dropped = KnownSpans(e) + spans[e].over
    BY DEF IInv, ItemInv, SpanInv
  <2>4. /\ spans[e].dropped <= spans[e].over /\ (spans[e].over > 0 => spans[e].dropped > 0)
        /\ ~spans[e].raced => spans[e].dropped = spans[e].over
        /\ spans[e].dropped \in Nat /\ spans[e].over \in Nat /\ spans[e].raced \in BOOLEAN
    BY <2>1 DEF RecorderInv, Counts, SpanCounts
  <2> QED
    BY <2>2, <2>3, <2>4
<1> QED
  BY <1>1, Inductive, PTL

(* The recorder holds one span over the maximum at most for every thread   *)
(* but one, for any number of threads: the test of its length and the      *)
(* append are two steps (tracing.py:218-222).                              *)
THEOREM RecorderHasLimit == Spec => []RecorderLimits
<1>1. IInv /\ RecorderInv => RecorderLimits
  <2> SUFFICES ASSUME IInv, RecorderInv, NEW e \in Items
               PROVE  spans[e].open + spans[e].finished < MaxSpans + Cardinality(Threads)
    BY DEF RecorderLimits
  <2>1. /\ spans[e].open \in Nat /\ spans[e].finished \in Nat /\ MaxSpans \in Nat
        /\ Cardinality(Threads) \in Nat /\ Cardinality(Appenders(e)) \in Nat
    BY Bounds, SomeAppend DEF IInv, TypeItems, SpanCounts
  <2>2. Bounded(e)
    BY DEF RecorderInv
  <2> QED
    BY <2>1, <2>2 DEF Bounded
<1> QED
  BY <1>1, Inductive, PTL

(* Whatever threads race for the recorder, every span is accounted for, or *)
(* is one of the few that the race has cost (tracing.py:217-222, 1055-     *)
(* 1073).                                                                  *)
THEOREM EverySpanAccounted == Spec => []SpansAccounted
  BY EverySpanCounted, RecorderHasLimit, PTL DEF SpansAccounted

-----------------------------------------------------------------------------
(* Only the dedupe integration makes an item a duplicate, and it has seen  *)
(* another item with that exception in the same context.                   *)
Justified(e) ==
  \E t \in Threads, f \in Items \ {e} :
    /\ stack[t] # <<>> /\ Head(stack[t]) = e
    /\ exc[f] = exc[e] /\ lastSeen[t] = exc[e]
    /\ fate[f] \notin {"before_send", "ignored"}

LEMMA DedupeJustified ==
  ASSUME IInv, NEW t \in Threads, NEW e \in Items, Dedupe(t, e),
         NEW d \in Items, fate'[d] = "duplicate", fate[d] # "duplicate"
  PROVE  Justified(d)
<1>1. /\ stack[t] # <<>> /\ Head(stack[t]) = e /\ at[e] = "dedupe"
      /\ d = e /\ exc[e] = lastSeen[t]
  BY DEF Dedupe, DedupeBy, Capturing, Goto, End, IInv, TypeItems
<1>2. lastSeen[t] # None
  BY <1>1 DEF IInv, ItemInv, KindInv
<1>3. PICK f \in Items : Saw(t, f)
  BY <1>2 DEF IInv, SeenInv
<1>4. f # e
  BY <1>1, <1>3 DEF Saw
<1>5. fate[f] \notin {"before_send", "ignored"}
  <2>1. CASE In(stack[t], f)
    <3>1. at[f] \in Captures
      BY <2>1 DEF IInv, StackInv
    <3>2. fate[f] = None
      BY <3>1 DEF IInv, ItemInv, LostInv, Captures
    <3> QED
      BY <3>2, NoneIsNone DEF Fates
  <2>2. CASE ~In(stack[t], f)
    BY <1>3, <2>2 DEF Saw
  <2> QED
    BY <2>1, <2>2
<1> QED
  BY <1>1, <1>3, <1>4, <1>5 DEF Justified, Saw

LEMMA OthersMakeNoDuplicate ==
  ASSUME IInv, NEW d \in Items, fate'[d] = "duplicate",
         \/ \E t \in Threads, e \in Items : Call(t, e) \/ (Step(t, e) /\ ~Dedupe(t, e))
         \/ \E t \in Threads, e \in Items : Add(t, e)
         \/ \E t \in Threads : Close(t)
  PROVE  fate[d] = "duplicate"
<1> DEFINE Other(e) == \/ UNCHANGED fate
                       \/ \E f \in Fates \ {"duplicate"} : fate' = [fate EXCEPT ![e] = f]
<1>1. ASSUME NEW t \in Threads, NEW e \in Items, Call(t, e)
      PROVE  Other(e)
  BY <1>1 DEF Call, Capture, Push, End, StartTransaction, SamplingDecision, Goto,
              FinishUnsampled, FinishIgnored, FinishTransaction, FinishSpan, Fates
<1>2. ASSUME NEW t \in Threads, NEW e \in Items, Step(t, e), ~Dedupe(t, e)
      PROVE  Other(e)
  <2>1. CASE Detach(t, e) \/ ErrorProcessors(t, e) \/ Session(t, e)
    BY <2>1 DEF Detach, ErrorProcessors, Session, SessionThen, Goto, End, Fates
  <2>2. CASE EventProcessors(t, e) \/ SampleError(t, e)
    BY <2>2 DEF EventProcessors, EventProcessorsReporting, SampleError,
                SampleErrorReporting, Goto, End, Fates
  <2>3. CASE BeforeSend(t, e)
    BY <2>3 DEF BeforeSend, BeforeSendForgetting, Goto, End, Fates
  <2>4. CASE Test(t, e)
    BY <2>4 DEF Test, Goto, End, Fates
  <2>5. CASE CaptureEnvelope(t, e)
    BY <2>5 DEF CaptureEnvelope, Goto, End, Fates
  <2> QED
    BY <1>2, <2>1, <2>2, <2>3, <2>4, <2>5 DEF Step
<1>3. ASSUME NEW t \in Threads, NEW e \in Items, Add(t, e)
      PROVE  UNCHANGED fate
  BY <1>3 DEF Add, StartSpan, StartSpanUpTo, AppendSpan, ReadDropped, WriteDropped
<1>4. ASSUME NEW t \in Threads, Close(t)
      PROVE  UNCHANGED fate
  BY <1>4 DEF Close
<1>5. UNCHANGED fate \/ \E e \in Items : Other(e)
  BY <1>1, <1>2, <1>3, <1>4
<1> QED
  BY <1>5 DEF IInv, TypeItems

(* An exception is dropped as a duplicate only of another item that the    *)
(* same context has seen and before_send has not dropped.                  *)
THEOREM DuplicatesAreSeen == Spec => Duplicates
<1> DEFINE Allowed == \A e \in Items :
             fate'[e] = "duplicate" /\ fate[e] # "duplicate" => Justified(e)
<1>1. IInv /\ [Next]_vars => [Allowed]_vars
  <2> SUFFICES ASSUME IInv, Next PROVE Allowed
    OBVIOUS
  <2> SUFFICES ASSUME NEW d \in Items, fate'[d] = "duplicate", fate[d] # "duplicate"
               PROVE  Justified(d)
    OBVIOUS
  <2>1. CASE \E t \in Threads, e \in Items : Dedupe(t, e)
    BY <2>1, DedupeJustified
  <2>2. CASE ~ \E t \in Threads, e \in Items : Dedupe(t, e)
    <3>1. \/ \E t \in Threads, e \in Items : Call(t, e) \/ (Step(t, e) /\ ~Dedupe(t, e))
          \/ \E t \in Threads, e \in Items : Add(t, e)
          \/ \E t \in Threads : Close(t)
      BY <2>2 DEF Next
    <3> QED
      BY <3>1, OthersMakeNoDuplicate
  <2> QED
    BY <2>1, <2>2
<1> QED
  BY <1>1, Inductive, PTL DEF Spec, Duplicates, Justified
-----------------------------------------------------------------------------
(***************************************************************************)
(* The factor that the sampling decision reads.  Theorems about Monitor,   *)
(* of which MonitorProperties has an instance M, for any threads, any      *)
(* number of monitor threads, forks and rate limits, and any maximal       *)
(* factor, with what M!Constants says of them.  MInv says who holds the    *)
(* lock, which monitor can be at work, and how far the factor is behind    *)
(* the checks at each point of a round.                                    *)
(***************************************************************************)
LEMMA SameFiniteness ==
  \A T : M!Cardinality(T) = Cardinality(T) /\ (M!IsFiniteSet(T) <=> IsFiniteSet(T))
BY DEF M!Cardinality, Cardinality, M!IsFiniteSet, IsFiniteSet

Busy == {"sleep", "worker", "limits", "set", "lock", "bump"}

(* _thread_lock is held by the thread that starts the monitor, and that is *)
(* no monitor.                                                             *)
LockInv ==
  /\ \A a \in M!Actors : pc[a] \in {"start", "assign"} <=> threadLock = a
  /\ \A m \in Monitors : pc[m] \in Busy \cup {"new", "dead", "gone"}

(* The monitors are created in order.  One that is at work is the one that *)
(* is remembered, or about to be.                                          *)
Newest(m) == \A n \in Monitors : pc[n] # "new" => n <= m
Starting  == \E t \in Readers : pc[t] = "assign"
ThreadInv ==
  /\ \A m, n \in Monitors : pc[m] # "new" /\ pc[n] = "new" => m < n
  /\ \A t \in Readers : pc[t] \in {"start", "assign"} => ~M!Running
  /\ \A m \in Monitors : pc[m] \in Busy =>
       IF Starting THEN Newest(m) ELSE M!Running /\ thread = m

(* How far the factor is behind the checks.                                *)
FactorInv ==
  /\ \A m \in Monitors :
       /\ pc[m] = "set" => streak = (IF healthy THEN 0 ELSE factor + 1)
       /\ pc[m] \in {"lock", "bump"} => ~healthy /\ streak = factor + 1
  /\ M!FactorIsStreak

MInv == M!TypeOK /\ LockInv /\ ThreadInv /\ FactorInv

-----------------------------------------------------------------------------
LEMMA Members ==
  ASSUME M!Constants
  PROVE  /\ \A t \in Readers : t \in M!Actors /\ t \notin Monitors
         /\ \A m \in Monitors : m \in M!Actors /\ m \notin Readers /\ m \in Nat
         /\ \A a \in M!Actors : a # Null /\ (a \in Readers \/ a \in Monitors)
         /\ Null \notin Monitors
BY DEF M!Constants, M!Actors

(* One monitor at most is at work, and it is none of the threads that hold *)
(* the lock.                                                               *)
LEMMA OneBusy ==
  ASSUME M!Constants, MInv, NEW m \in Monitors, pc[m] \in Busy
  PROVE  /\ \A n \in Monitors \ {m} : pc[n] \in {"new", "dead", "gone"}
         /\ \A a \in Readers : pc[a] # "start"
<1>1. ASSUME NEW n \in Monitors, pc[n] \in Busy
      PROVE  n = m
  <2>1. CASE Starting
    <3>1. m <= n /\ n <= m
      BY <1>1, <2>1 DEF MInv, ThreadInv, Newest, Busy
    <3> QED
      BY <3>1, Members
  <2>2. CASE ~Starting
    BY <1>1, <2>2 DEF MInv, ThreadInv
  <2> QED
    BY <2>1, <2>2
<1>2. \A n \in Monitors \ {m} : pc[n] \in {"new", "dead", "gone"}
  BY <1>1 DEF MInv, LockInv
<1>3. ASSUME NEW a \in Readers, pc[a] = "start" PROVE FALSE
  <2>1. threadLock = a
    BY <1>3, Members DEF MInv, LockInv
  <2>2. ~M!Running
    BY <1>3 DEF MInv, ThreadInv
  <2>3. Starting
    BY <2>2 DEF MInv, ThreadInv
  <2>4. PICK t \in Readers : pc[t] = "assign"
    BY <2>3 DEF Starting
  <2>5. t = a
    BY <2>1, <2>4, Members DEF MInv, LockInv
  <2> QED
    BY <1>3, <2>4, <2>5
<1> QED
  BY <1>2, <1>3

(* A step of the monitor at work, which leaves the rest as it is.          *)
LEMMA BusyStep ==
  ASSUME M!Constants, MInv, NEW m \in Monitors, pc[m] \in Busy,
         NEW p \in Busy \cup {"dead"}, pc' = [pc EXCEPT ![m] = p],
         UNCHANGED M!lifecycle,
         factor' \in 0..MaxFactor /\ streak' \in 0..MaxFactor + 1,
         p = "set" => streak' = (IF healthy' THEN 0 ELSE factor' + 1),
         p \in {"lock", "bump"} => ~healthy' /\ streak' = factor' + 1,
         p \notin {"set", "lock", "bump"} =>
           factor' = IF streak' > MaxFactor THEN MaxFactor ELSE streak'
  PROVE  LockInv' /\ ThreadInv' /\ FactorInv' /\ pc'[m] = p
<1> USE DEF MInv
<1>1. /\ pc'[m] = p /\ m \in M!Actors /\ \A a \in M!Actors \ {m} : pc'[a] = pc[a]
  BY Members DEF M!TypeOK
<1>2. \A n \in Monitors \ {m} : pc'[n] = pc[n] /\ pc[n] \in {"new", "dead", "gone"}
  BY <1>1, OneBusy, Members
<1>3. p \in {"sleep", "worker", "limits", "set", "lock", "bump", "dead"}
  BY DEF Busy
<1>4. LockInv'
  <2>1. \A a \in M!Actors : pc'[a] \in {"start", "assign"} <=> pc[a] \in {"start", "assign"}
    BY <1>1, <1>3 DEF Busy
  <2> QED
    BY <1>1, <1>2, <2>1 DEF LockInv, M!lifecycle, Busy
<1>5. ThreadInv'
  <2>1. /\ \A t \in Readers : pc'[t] = pc[t]
        /\ \A n \in Monitors : pc'[n] = "new" <=> pc[n] = "new"
    BY <1>1, <1>2, <1>3, Members DEF Busy
  <2>2. /\ Starting' <=> Starting
        /\ M!Running' <=> M!Running
        /\ \A n \in Monitors : (\A k \in Monitors : pc'[k] # "new" => k <= n) <=> Newest(n)
    BY <2>1 DEF Starting, M!Running, Newest, M!lifecycle
  <2>3. \A n \in Monitors : pc'[n] \in Busy => n = m
    BY <1>2 DEF Busy
  <2>4. IF Starting' THEN \A k \in Monitors : pc'[k] # "new" => k <= m
        ELSE M!Running' /\ thread' = m
    BY <2>2 DEF ThreadInv, M!lifecycle
  <2>5. ASSUME NEW n \in Monitors, pc'[n] \in Busy
        PROVE  IF Starting' THEN Newest(n)' ELSE M!Running' /\ thread' = n
    BY <2>3, <2>4, <2>5 DEF Newest
  <2>6. \A t \in Readers : pc'[t] \in {"start", "assign"} => ~M!Running'
    BY <2>1, <2>2 DEF ThreadInv
  <2>7. \A n, k \in Monitors : pc'[n] # "new" /\ pc'[k] = "new" => n < k
    BY <2>1 DEF ThreadInv
  <2> QED
    BY <2>5, <2>6, <2>7 DEF ThreadInv
<1>6. FactorInv'
  <2>1. ASSUME NEW n \in Monitors
        PROVE  /\ pc'[n] = "set" => streak' = (IF healthy' THEN 0 ELSE factor' + 1)
               /\ pc'[n] \in {"lock", "bump"} => ~healthy' /\ streak' = factor' + 1
    BY <1>1, <1>2
  <2>2. M!FactorIsStreak'
    BY <1>1, <1>3 DEF M!FactorIsStreak
  <2> QED
    BY <2>1, <2>2 DEF FactorInv
<1> QED
  BY <1>1, <1>4, <1>5, <1>6

(* The factor of a monitor that is between two rounds, or about to find.   *)
LEMMA FactorIdle ==
  ASSUME M!Constants, MInv, NEW m \in Monitors, pc[m] \in {"sleep", "worker", "limits"}
  PROVE  factor = IF streak > MaxFactor THEN MaxFactor ELSE streak
<1>1. \A n \in Monitors \ {m} : pc[n] \in {"new", "dead", "gone"}
  BY OneBusy DEF Busy
<1> QED
  BY <1>1 DEF MInv, FactorInv, M!FactorIsStreak

(* What a check finds.                                                     *)
LEMMA FoundStreak ==
  ASSUME M!Constants, MInv, NEW m \in Monitors, pc[m] \in {"worker", "limits"}, NEW ok \in BOOLEAN,
         M!Found(m, ok), UNCHANGED <<factor, M!lifecycle>>
  PROVE  LockInv' /\ ThreadInv' /\ FactorInv' /\ healthy' \in BOOLEAN
         /\ streak' \in 0..MaxFactor + 1 /\ pc' = [pc EXCEPT ![m] = "set"] /\ UNCHANGED died
<1>1. factor \in 0..MaxFactor /\ streak \in 0..MaxFactor + 1 /\ MaxFactor \in Nat
  BY DEF M!Constants, MInv, M!TypeOK
<1>2. /\ healthy' = ok /\ pc' = [pc EXCEPT ![m] = "set"] /\ UNCHANGED died
      /\ streak' = IF ok THEN 0 ELSE IF streak > MaxFactor THEN streak ELSE streak + 1
  BY DEF M!Found, M!Goto
<1>3. streak' \in 0..MaxFactor + 1 /\ streak' = (IF healthy' THEN 0 ELSE factor' + 1)
  BY <1>1, <1>2, FactorIdle
<1>4. pc[m] \in Busy /\ "set" \in Busy \cup {"dead"} /\ factor' \in 0..MaxFactor
  BY <1>1 DEF Busy
<1> QED
  BY <1>2, <1>3, <1>4, BusyStep

(* The types of a step that moves one thread.                              *)
LEMMA MovedTypes ==
  ASSUME M!Constants, M!TypeOK, NEW a \in M!Actors,
         NEW p \in {"idle", "lock", "start", "assign", "new", "sleep", "worker",
                    "limits", "set", "bump", "dead", "gone"},
         pc' = [pc EXCEPT ![a] = p], UNCHANGED <<pid, M!transport>>,
         healthy' \in BOOLEAN, running' \in BOOLEAN, died' \in BOOLEAN,
         factor' \in 0..MaxFactor, streak' \in 0..MaxFactor + 1,
         thread' \in Monitors \cup {Null}, threadLock' \in M!Actors \cup {Null},
         threadForPid' \in 0..MaxForks \cup {Null},
         unseen' \subseteq Categories, size' \in 0..M!Cardinality(Categories)
  PROVE  M!TypeOK'
BY DEF M!TypeOK, M!transport

-----------------------------------------------------------------------------
(* The round of the monitor.                                               *)
LEMMA WakeStep ==
  ASSUME M!Constants, MInv, NEW m \in Monitors, M!Wake(m)
  PROVE  MInv'
<1> DEFINE p == IF running THEN "worker" ELSE "dead"
<1>1. /\ pc[m] = "sleep" /\ pc' = [pc EXCEPT ![m] = p]
      /\ UNCHANGED <<healthy, factor, M!lifecycle, M!transport, M!iteration, streak, died>>
  BY DEF M!Wake, M!Goto
<1>2. pc[m] \in Busy /\ p \in Busy \cup {"dead"} /\ p \notin {"set", "lock", "bump"}
  BY <1>1 DEF Busy
<1> HIDE DEF p
<1>3. factor \in 0..MaxFactor /\ streak \in 0..MaxFactor + 1
  BY DEF MInv, M!TypeOK
<1>4. LockInv' /\ ThreadInv' /\ FactorInv'
  BY <1>1, <1>2, <1>3, BusyStep, FactorIdle
<1>5. M!TypeOK'
  BY <1>1, <1>2, Members, MovedTypes DEF MInv, M!TypeOK, Busy, M!lifecycle, M!transport, M!iteration
<1> QED
  BY <1>4, <1>5 DEF MInv

LEMMA CheckWorkerStep ==
  ASSUME M!Constants, MInv, NEW m \in Monitors, M!CheckWorker(m)
  PROVE  MInv'
<1>1. /\ pc[m] = "worker" /\ UNCHANGED <<factor, M!lifecycle, M!transport>>
  BY DEF M!CheckWorker
<1>2. /\ healthy \in BOOLEAN /\ running \in BOOLEAN /\ died \in BOOLEAN
      /\ factor \in 0..MaxFactor /\ streak \in 0..MaxFactor + 1
      /\ thread \in Monitors \cup {Null} /\ threadLock \in M!Actors \cup {Null}
      /\ threadForPid \in 0..MaxForks \cup {Null}
      /\ unseen \subseteq Categories /\ size \in 0..M!Cardinality(Categories)
      /\ keys \subseteq Categories
  BY DEF MInv, M!TypeOK
<1>3. CASE full
  <2>1. M!Found(m, FALSE) /\ UNCHANGED M!iteration
    BY <1>3 DEF M!CheckWorker
  <2>2. /\ LockInv' /\ ThreadInv' /\ FactorInv' /\ healthy' \in BOOLEAN
        /\ streak' \in 0..MaxFactor + 1 /\ pc' = [pc EXCEPT ![m] = "set"] /\ UNCHANGED died
    BY <1>1, <2>1, FoundStreak
  <2>3. M!TypeOK'
    BY <1>1, <1>2, <2>1, <2>2, Members, MovedTypes DEF MInv, M!lifecycle, M!iteration
  <2> QED
    BY <2>2, <2>3 DEF MInv
<1>4. CASE ~full
  <2>1. /\ unseen' = keys /\ size' = M!Cardinality(keys) /\ pc' = [pc EXCEPT ![m] = "limits"]
        /\ UNCHANGED <<healthy, streak, died>>
    BY <1>4 DEF M!CheckWorker, M!Goto
  <2>2. pc[m] \in Busy /\ "limits" \in Busy \cup {"dead"}
    BY <1>1 DEF Busy
  <2>3. LockInv' /\ ThreadInv' /\ FactorInv'
    BY <1>1, <1>2, <2>1, <2>2, BusyStep, FactorIdle
  <2>4. size' \in 0..M!Cardinality(Categories)
    <3>1. /\ M!Cardinality(keys) <= M!Cardinality(Categories)
          /\ M!Cardinality(Categories) \in Nat /\ M!Cardinality(keys) \in Nat
      BY <1>2, FS_Subset, FS_CardinalityType, SameFiniteness DEF M!Constants
    <3> QED
      BY <2>1, <3>1
  <2>5. M!TypeOK'
    BY <1>1, <1>2, <2>1, <2>4, Members, MovedTypes DEF MInv, M!lifecycle
  <2> QED
    BY <2>3, <2>5 DEF MInv
<1> QED
  BY <1>3, <1>4

LEMMA CheckLimitStep ==
  ASSUME M!Constants, MInv, NEW m \in Monitors, M!CheckLimit(m)
  PROVE  MInv'
<1>1. /\ pc[m] = "limits" /\ UNCHANGED <<factor, M!lifecycle, M!transport, size>>
  BY DEF M!CheckLimit, M!CheckLimitIn
<1>2. /\ healthy \in BOOLEAN /\ running \in BOOLEAN /\ died \in BOOLEAN
      /\ factor \in 0..MaxFactor /\ streak \in 0..MaxFactor + 1
      /\ thread \in Monitors \cup {Null} /\ threadLock \in M!Actors \cup {Null}
      /\ threadForPid \in 0..MaxForks \cup {Null}
      /\ unseen \subseteq Categories /\ size \in 0..M!Cardinality(Categories)
      /\ pc \in [M!Actors -> {"idle", "lock", "start", "assign", "new", "sleep", "worker",
                           "limits", "set", "bump", "dead", "gone"}]
  BY DEF MInv, M!TypeOK
<1>3. pc[m] \in Busy /\ m \in M!Actors
  BY <1>1, Members DEF Busy
<1>4. CASE died' = TRUE /\ pc' = [pc EXCEPT ![m] = "dead"] /\ UNCHANGED <<healthy, streak, unseen>>
  <2>1. LockInv' /\ ThreadInv' /\ FactorInv'
    BY <1>1, <1>2, <1>3, <1>4, BusyStep, FactorIdle
  <2>2. M!TypeOK'
    BY <1>1, <1>2, <1>3, <1>4, MovedTypes DEF MInv, M!lifecycle
  <2> QED
    BY <2>1, <2>2 DEF MInv
<1>5. ASSUME NEW ok \in BOOLEAN, M!Found(m, ok), UNCHANGED unseen
      PROVE  MInv'
  <2>1. /\ LockInv' /\ ThreadInv' /\ FactorInv' /\ healthy' \in BOOLEAN
        /\ streak' \in 0..MaxFactor + 1 /\ pc' = [pc EXCEPT ![m] = "set"] /\ UNCHANGED died
    BY <1>1, <1>5, FoundStreak
  <2>2. M!TypeOK'
    BY <1>1, <1>2, <1>3, <1>5, <2>1, MovedTypes DEF MInv, M!lifecycle
  <2> QED
    BY <2>1, <2>2 DEF MInv
<1>6. ASSUME NEW c \in unseen, unseen' = unseen \ {c}, UNCHANGED <<healthy, streak, pc, died>>
      PROVE  MInv'
  <2>1. pc' = [pc EXCEPT ![m] = "limits"]
    BY <1>1, <1>2, <1>3, <1>6
  <2>2. "limits" \in Busy \cup {"dead"}
    BY DEF Busy
  <2>3. LockInv' /\ ThreadInv' /\ FactorInv'
    BY <1>1, <1>2, <1>3, <1>6, <2>1, <2>2, BusyStep, FactorIdle
  <2>4. M!TypeOK'
    BY <1>1, <1>2, <1>3, <1>6, <2>1, MovedTypes DEF MInv, M!lifecycle
  <2> QED
    BY <2>3, <2>4 DEF MInv
<1> QED
  BY <1>4, <1>5, <1>6 DEF M!CheckLimit, M!CheckLimitIn, M!Goto

LEMMA SetStep ==
  ASSUME M!Constants, MInv, NEW m \in Monitors, M!Set(m)
  PROVE  MInv'
<1> DEFINE p == IF healthy THEN (IF running THEN "sleep" ELSE "dead")
                ELSE (IF M!Running THEN "bump" ELSE "lock")
<1>1. /\ pc[m] = "set" /\ pc' = [pc EXCEPT ![m] = p]
      /\ factor' = IF healthy THEN 0 ELSE factor
      /\ UNCHANGED <<healthy, M!lifecycle, M!transport, M!iteration, streak, died>>
  BY DEF M!Set, M!SetTo, M!Goto
<1>2. /\ factor \in 0..MaxFactor /\ streak \in 0..MaxFactor + 1 /\ MaxFactor \in Nat
      /\ streak = (IF healthy THEN 0 ELSE factor + 1)
  BY <1>1 DEF M!Constants, MInv, M!TypeOK, FactorInv
<1>3. /\ pc[m] \in Busy /\ p \in Busy \cup {"dead"} /\ p # "set"
      /\ p \in {"lock", "bump"} <=> ~healthy
      /\ p \in {"sleep", "dead", "bump", "lock"}
  BY <1>1 DEF Busy
<1> HIDE DEF p
<1>4. /\ factor' \in 0..MaxFactor /\ streak' \in 0..MaxFactor + 1
      /\ p \in {"lock", "bump"} => ~healthy' /\ streak' = factor' + 1
      /\ p \notin {"set", "lock", "bump"} =>
           factor' = IF streak' > MaxFactor THEN MaxFactor ELSE streak'
  BY <1>1, <1>2, <1>3
<1>5. LockInv' /\ ThreadInv' /\ FactorInv'
  BY <1>1, <1>3, <1>4, BusyStep
<1>6. M!TypeOK'
  BY <1>1, <1>3, <1>4, Members, MovedTypes DEF MInv, M!TypeOK, M!lifecycle, M!transport, M!iteration
<1> QED
  BY <1>5, <1>6 DEF MInv

LEMMA BumpStep ==
  ASSUME M!Constants, MInv, NEW m \in Monitors, M!Bump(m)
  PROVE  MInv'
<1> DEFINE p == IF running THEN "sleep" ELSE "dead"
<1>1. /\ pc[m] = "bump" /\ pc' = [pc EXCEPT ![m] = p]
      /\ factor' = IF factor < MaxFactor THEN factor + 1 ELSE factor
      /\ UNCHANGED <<healthy, M!lifecycle, M!transport, M!iteration, streak, died>>
  BY DEF M!Bump, M!BumpIf, M!Goto
<1>2. /\ factor \in 0..MaxFactor /\ streak \in 0..MaxFactor + 1 /\ MaxFactor \in Nat
      /\ streak = factor + 1
  BY <1>1 DEF M!Constants, MInv, M!TypeOK, FactorInv
<1>3. pc[m] \in Busy /\ p \in Busy \cup {"dead"} /\ p \in {"sleep", "dead"}
  BY <1>1 DEF Busy
<1> HIDE DEF p
<1>4. /\ factor' \in 0..MaxFactor /\ streak' \in 0..MaxFactor + 1
      /\ factor' = IF streak' > MaxFactor THEN MaxFactor ELSE streak'
  BY <1>1, <1>2
<1>5. LockInv' /\ ThreadInv' /\ FactorInv'
  BY <1>1, <1>3, <1>4, BusyStep
<1>6. M!TypeOK'
  BY <1>1, <1>3, <1>4, Members, MovedTypes DEF MInv, M!TypeOK, M!lifecycle, M!transport, M!iteration
<1> QED
  BY <1>5, <1>6 DEF MInv

-----------------------------------------------------------------------------
(* _ensure_running().                                                      *)
LEMMA FactorKept ==
  ASSUME M!Constants, MInv, UNCHANGED <<healthy, factor, streak>>,
         \A m \in Monitors : pc'[m] = pc[m]
  PROVE  FactorInv'
<1>1. M!FactorIsStreak'
  BY DEF MInv, FactorInv, M!FactorIsStreak
<1> QED
  BY <1>1 DEF MInv, FactorInv

LEMMA ReadStep ==
  ASSUME M!Constants, MInv, NEW t \in Readers, M!Read(t)
  PROVE  MInv'
<1>1. /\ pc[t] = "idle" /\ pc' = [pc EXCEPT ![t] = "lock"]
      /\ UNCHANGED <<healthy, factor, M!lifecycle, M!transport, M!iteration, streak, died>>
  BY DEF M!Read, M!Goto
<1>2. /\ t \in M!Actors /\ pc'[t] = "lock" /\ \A a \in M!Actors \ {t} : pc'[a] = pc[a]
      /\ \A m \in Monitors : pc'[m] = pc[m]
  BY <1>1, Members DEF MInv, M!TypeOK
<1>3. M!TypeOK'
  BY <1>1, <1>2, MovedTypes DEF MInv, M!TypeOK, M!lifecycle, M!transport, M!iteration
<1>4. LockInv'
  BY <1>1, <1>2 DEF MInv, LockInv, M!lifecycle
<1>5. ThreadInv'
  <2>1. (Starting' <=> Starting) /\ (M!Running' <=> M!Running)
    BY <1>1, <1>2, Members DEF Starting, M!Running, M!lifecycle
  <2> QED
    BY <1>1, <1>2, <2>1, Members DEF MInv, ThreadInv, Newest, M!lifecycle
<1>6. FactorInv'
  BY <1>1, <1>2, FactorKept
<1> QED
  BY <1>3, <1>4, <1>5, <1>6 DEF MInv

LEMMA LockStep ==
  ASSUME M!Constants, MInv, NEW a \in M!Actors, M!Lock(a)
  PROVE  MInv'
<1>1. /\ pc[a] = "lock" /\ threadLock = Null
      /\ threadLock' = IF M!Running THEN Null ELSE a
      /\ pc' = [pc EXCEPT ![a] = IF M!Running THEN M!Resume(a) ELSE "start"]
      /\ UNCHANGED <<healthy, factor, running, thread, threadForPid, pid, M!transport,
                     M!iteration, streak, died>>
  BY DEF M!Lock, M!LockUnless, M!Goto
<1>2. \A b \in M!Actors : pc[b] \notin {"start", "assign"}
  BY <1>1, Members DEF MInv, LockInv
<1>3. ~Starting
  BY <1>2, Members DEF Starting
<1>4. CASE a \in Monitors
  <2>1. pc[a] \in Busy /\ M!Running /\ thread = a
    BY <1>1, <1>3, <1>4 DEF MInv, ThreadInv, Busy
  <2>2. /\ pc' = [pc EXCEPT ![a] = "bump"] /\ UNCHANGED M!lifecycle
        /\ "bump" \in Busy \cup {"dead"}
    BY <1>1, <1>4, <2>1, Members DEF M!Resume, M!lifecycle, Busy
  <2>3. /\ ~healthy /\ streak = factor + 1 /\ factor \in 0..MaxFactor
        /\ streak \in 0..MaxFactor + 1
    BY <1>1, <1>4 DEF MInv, FactorInv, M!TypeOK
  <2>4. LockInv' /\ ThreadInv' /\ FactorInv'
    BY <1>1, <1>4, <2>1, <2>2, <2>3, BusyStep
  <2>5. M!TypeOK'
    <3>1. UNCHANGED <<healthy, factor, streak, died, unseen, size, M!lifecycle, M!transport>>
      BY <1>1, <2>2 DEF M!iteration
    <3> QED
      BY <2>2, <3>1, MovedTypes DEF MInv, M!TypeOK, M!lifecycle
  <2> QED
    BY <2>4, <2>5 DEF MInv
<1>5. CASE a \in Readers
  <2> DEFINE p == IF M!Running THEN "idle" ELSE "start"
  <2>1. pc' = [pc EXCEPT ![a] = p]
    BY <1>1, <1>5 DEF M!Resume
  <2>2. /\ pc'[a] = p /\ \A b \in M!Actors \ {a} : pc'[b] = pc[b]
        /\ \A m \in Monitors : pc'[m] = pc[m]
    BY <1>5, <2>1, Members DEF MInv, M!TypeOK
  <2>3. M!TypeOK'
    BY <1>1, <2>1, MovedTypes DEF MInv, M!TypeOK, M!iteration
  <2>4. LockInv'
    <3>1. CASE M!Running
      BY <1>1, <1>2, <2>2, <3>1, Members DEF MInv, LockInv
    <3>2. CASE ~M!Running
      BY <1>1, <1>2, <2>2, <3>2, Members DEF MInv, LockInv
    <3> QED
      BY <3>1, <3>2
  <2>5. ThreadInv'
    <3>1. ~Starting' /\ (M!Running' <=> M!Running)
      BY <1>1, <1>2, <2>2, Members DEF Starting, M!Running
    <3>2. \A t \in Readers : pc'[t] \in {"start", "assign"} => ~M!Running
      BY <1>2, <2>2, Members
    <3> QED
      BY <1>1, <1>3, <2>2, <3>1, <3>2 DEF MInv, ThreadInv
  <2>6. FactorInv'
    BY <1>1, <2>2, FactorKept
  <2> QED
    BY <2>3, <2>4, <2>5, <2>6 DEF MInv
<1> QED
  BY <1>4, <1>5, Members

(* While the lock is held nobody is at work until the new thread starts.   *)
LEMMA StartStep ==
  ASSUME M!Constants, MInv, NEW a \in M!Actors, M!Start(a)
  PROVE  MInv'
<1>1. /\ pc[a] = "start"
      /\ UNCHANGED <<healthy, factor, thread, threadForPid, pid, M!transport, M!iteration,
                     streak, died>>
  BY DEF M!Start
<1>2. /\ a \in Readers /\ threadLock = a /\ ~M!Running /\ a \notin Monitors
      /\ \A b \in M!Actors \ {a} : pc[b] \notin {"start", "assign"}
  <2>1. a \in Readers /\ threadLock = a /\ a \notin Monitors
    BY <1>1, Members DEF MInv, LockInv, Busy
  <2> QED
    BY <1>1, <2>1 DEF MInv, LockInv, ThreadInv
<1>3. ~Starting
  BY <1>1, <1>2, Members DEF Starting
<1>4. \A n \in Monitors : pc[n] \in {"new", "dead", "gone"}
  BY <1>2, <1>3 DEF MInv, ThreadInv, LockInv
<1>5. factor = IF streak > MaxFactor THEN MaxFactor ELSE streak
  BY <1>4 DEF MInv, FactorInv, M!FactorIsStreak
<1>6. ASSUME NEW m \in Monitors, pc[m] = "new", \A n \in Monitors : pc[n] = "new" => m <= n,
             pc' = [pc EXCEPT ![a] = "assign", ![m] = IF running THEN "sleep" ELSE "dead"],
             UNCHANGED <<running, threadLock>>
      PROVE  MInv'
  <2>1. m \in M!Actors /\ m # a
    BY <1>2, Members
  <2>2. /\ pc'[a] = "assign" /\ pc'[m] = (IF running THEN "sleep" ELSE "dead")
        /\ \A b \in M!Actors \ {a, m} : pc'[b] = pc[b]
        /\ \A n \in Monitors \ {m} : pc'[n] = pc[n]
        /\ pc' \in [M!Actors -> {"idle", "lock", "start", "assign", "new", "sleep", "worker",
                               "limits", "set", "bump", "dead", "gone"}]
    BY <1>2, <1>6, <2>1, Members DEF MInv, M!TypeOK
  <2>3. M!TypeOK'
    BY <1>1, <1>6, <2>2 DEF MInv, M!TypeOK, M!transport, M!iteration
  <2>4. LockInv'
    <3>1. pc'[m] \notin {"start", "assign"} /\ pc'[m] \in Busy \cup {"dead"}
      BY <2>2 DEF Busy
    <3>2. \A b \in M!Actors : pc'[b] \in {"start", "assign"} <=> b = a
      BY <1>2, <2>1, <2>2, <3>1
    <3> QED
      BY <1>2, <1>4, <1>6, <2>2, <3>1, <3>2 DEF LockInv
  <2>5. ThreadInv'
    <3>1. Starting' /\ ~M!Running'
      BY <1>1, <1>2, <1>6, <2>2 DEF Starting, M!Running
    <3>2. \A n \in Monitors : (pc'[n] # "new" <=> pc[n] # "new" \/ n = m)
      BY <1>4, <2>2
    <3>3. \A n \in Monitors : pc[n] # "new" => n < m
      BY <1>6 DEF MInv, ThreadInv
    <3>4. \A n \in Monitors : pc[n] = "new" /\ n # m => m < n
      BY <1>6, Members
    <3>5. \A n, k \in Monitors : pc'[n] # "new" /\ pc'[k] = "new" => n < k
      BY <3>2, <3>4 DEF MInv, ThreadInv
    <3>6. Newest(m)'
      BY <3>2, <3>3, Members DEF Newest
    <3>7. \A n \in Monitors : pc'[n] \in Busy => n = m
      BY <1>4, <2>2 DEF Busy
    <3>8. ASSUME NEW n \in Monitors, pc'[n] \in Busy PROVE Newest(n)'
      BY <3>6, <3>7, <3>8 DEF Newest
    <3> QED
      BY <3>1, <3>5, <3>8 DEF ThreadInv
  <2>6. FactorInv'
    <3>1. \A n \in Monitors : pc'[n] \notin {"set", "lock", "bump"}
      BY <1>4, <2>2
    <3> QED
      BY <1>1, <1>5, <3>1 DEF FactorInv, M!FactorIsStreak
  <2> QED
    BY <2>3, <2>4, <2>5, <2>6 DEF MInv
<1>7. CASE running' = FALSE /\ threadLock' = Null /\ pc' = [pc EXCEPT ![a] = "idle"]
  <2>1. /\ pc'[a] = "idle" /\ \A b \in M!Actors \ {a} : pc'[b] = pc[b]
        /\ \A n \in Monitors : pc'[n] = pc[n]
    BY <1>2, <1>7, Members DEF MInv, M!TypeOK
  <2>2. M!TypeOK'
    BY <1>1, <1>7, MovedTypes DEF MInv, M!TypeOK, M!iteration
  <2>3. \A b \in M!Actors : pc'[b] \notin {"start", "assign"}
    BY <1>2, <2>1
  <2>4. LockInv'
    BY <1>4, <1>7, <2>1, <2>3, Members DEF LockInv
  <2>5. ThreadInv'
    BY <1>1, <1>4, <2>1, <2>3, Members DEF MInv, ThreadInv, Busy
  <2>6. FactorInv'
    BY <1>1, <2>1, FactorKept
  <2> QED
    BY <2>2, <2>4, <2>5, <2>6 DEF MInv
<1> QED
  BY <1>2, <1>6, <1>7 DEF M!Start, M!Goto, M!Resume

LEMMA AssignStep ==
  ASSUME M!Constants, MInv, NEW a \in M!Actors, M!Assign(a)
  PROVE  MInv'
<1>1. /\ pc[a] = "assign" /\ threadForPid' = pid /\ threadLock' = Null
      /\ pc' = [pc EXCEPT ![a] = M!Resume(a)]
      /\ UNCHANGED <<healthy, factor, running, pid, M!transport, M!iteration, streak, died>>
  BY DEF M!Assign, M!Goto
<1>2. PICK m \in Monitors :
        /\ pc[m] # "new" /\ \A n \in Monitors : pc[n] # "new" => n <= m
        /\ thread' = m
  BY DEF M!Assign
<1>3. /\ a \in Readers /\ threadLock = a /\ a \notin Monitors
      /\ \A b \in M!Actors \ {a} : pc[b] \notin {"start", "assign"}
  <2>1. a \in Readers /\ threadLock = a /\ a \notin Monitors
    BY <1>1, Members DEF MInv, LockInv, Busy
  <2> QED
    BY <1>1, <2>1 DEF MInv, LockInv
<1>4. Starting /\ pc' = [pc EXCEPT ![a] = "idle"]
  BY <1>1, <1>3 DEF Starting, M!Resume
<1>5. /\ pc'[a] = "idle" /\ \A b \in M!Actors \ {a} : pc'[b] = pc[b]
      /\ \A n \in Monitors : pc'[n] = pc[n]
  BY <1>3, <1>4, Members DEF MInv, M!TypeOK
<1>6. M!TypeOK'
  BY <1>1, <1>2, <1>4, MovedTypes DEF MInv, M!TypeOK, M!iteration
<1>7. \A b \in M!Actors : pc'[b] \notin {"start", "assign"}
  BY <1>3, <1>5
<1>8. LockInv'
  BY <1>1, <1>5, <1>7, Members DEF MInv, LockInv
<1>9. ThreadInv'
  <2>1. ~Starting' /\ M!Running'
    BY <1>1, <1>2, <1>7, Members DEF Starting, M!Running
  <2>2. ASSUME NEW n \in Monitors, pc[n] \in Busy PROVE n = m
    <3>1. m <= n /\ n <= m
      BY <1>2, <1>4, <2>2 DEF MInv, ThreadInv, Newest, Busy
    <3> QED
      BY <3>1, Members
  <2> QED
    BY <1>2, <1>5, <1>7, <2>1, <2>2, Members DEF MInv, ThreadInv
<1>10. FactorInv'
  BY <1>1, <1>5, FactorKept
<1> QED
  BY <1>6, <1>8, <1>9, <1>10 DEF MInv

-----------------------------------------------------------------------------
(* kill(), the transport, and a fork.                                      *)
LEMMA OutsideStep ==
  ASSUME M!Constants, MInv, M!Kill \/ M!Pass \/ \E c \in Categories : M!Limit(c)
  PROVE  MInv'
<1>1. UNCHANGED <<healthy, factor, thread, threadForPid, threadLock, pid, pc, M!iteration,
                  streak, died>>
  BY DEF M!Kill, M!Pass, M!Limit, M!lifecycle
<1>2. M!TypeOK'
  <2>1. /\ running' \in BOOLEAN /\ full' \in BOOLEAN
        /\ limited' \subseteq keys' /\ keys' \subseteq Categories
    BY DEF MInv, M!TypeOK, M!Kill, M!Pass, M!Limit, M!lifecycle, M!transport
  <2> QED
    BY <1>1, <2>1 DEF MInv, M!TypeOK, M!iteration
<1>3. LockInv'
  BY <1>1 DEF MInv, LockInv
<1>4. ThreadInv'
  <2>1. (Starting' <=> Starting) /\ (M!Running' <=> M!Running)
    BY <1>1 DEF Starting, M!Running
  <2> QED
    BY <1>1, <2>1 DEF MInv, ThreadInv, Newest
<1>5. FactorInv'
  BY <1>1, FactorKept
<1> QED
  BY <1>2, <1>3, <1>4, <1>5 DEF MInv

LEMMA ForkStep ==
  ASSUME M!Constants, MInv, NEW t \in Readers, M!Fork(t)
  PROVE  MInv'
<1>1. /\ pc[t] = "idle" /\ pid < MaxForks /\ pid' = pid + 1
      /\ pc' = [a \in M!Actors |-> IF a = t \/ pc[a] = "new" THEN pc[a] ELSE "gone"]
      /\ thread' = Null /\ threadForPid' = Null /\ threadLock' = Null
      /\ streak' = factor /\ died' = FALSE
      /\ UNCHANGED <<healthy, factor, running, M!transport, M!iteration>>
  BY DEF M!Fork, M!ForkWith
<1>2. /\ \A a \in M!Actors : /\ pc'[a] \in {"idle", "new", "gone"}
                             /\ pc'[a] = "new" <=> pc[a] = "new"
      /\ \A n \in Monitors : pc'[n] \in {"new", "gone"}
  BY <1>1, Members
<1>3. M!TypeOK'
  <2>1. pc' \in [M!Actors -> {"idle", "lock", "start", "assign", "new", "sleep", "worker",
                           "limits", "set", "bump", "dead", "gone"}]
    BY <1>1, <1>2
  <2>2. pid' \in 0..MaxForks /\ streak' \in 0..MaxFactor + 1
    BY <1>1 DEF M!Constants, MInv, M!TypeOK
  <2> QED
    BY <1>1, <2>1, <2>2 DEF MInv, M!TypeOK, M!transport, M!iteration
<1>4. LockInv'
  BY <1>1, <1>2, Members DEF LockInv
<1>5. ThreadInv'
  <2>1. ~M!Running'
    BY <1>1 DEF M!Running
  <2> QED
    BY <1>2, <2>1, Members DEF MInv, ThreadInv, Busy
<1>6. FactorInv'
  <2>1. factor' = IF streak' > MaxFactor THEN MaxFactor ELSE streak'
    BY <1>1 DEF M!Constants, MInv, M!TypeOK
  <2> QED
    BY <1>2, <2>1 DEF FactorInv, M!FactorIsStreak
<1> QED
  BY <1>3, <1>4, <1>5, <1>6 DEF MInv

(* IInv holds at first, and every step keeps it.                           *)
LEMMA InitMInv == ASSUME M!Constants PROVE M!Init => MInv
<1> SUFFICES ASSUME M!Init PROVE MInv
  OBVIOUS
<1> USE DEF M!Init
<1>1. /\ \A t \in Readers : pc[t] = "idle"
      /\ \A m \in Monitors : pc[m] = "new"
      /\ \A a \in M!Actors : pc[a] \in {"idle", "new"}
  BY Members
<1>2. M!TypeOK
  <2>1. pc \in [M!Actors -> {"idle", "lock", "start", "assign", "new", "sleep", "worker",
                          "limits", "set", "bump", "dead", "gone"}]
    BY <1>1
  <2>2. 0 \in 0..M!Cardinality(Categories) /\ 0 \in 0..MaxFactor /\ 0 \in 0..MaxFactor + 1
        /\ 0 \in 0..MaxForks
    BY FS_CardinalityType, SameFiniteness DEF M!Constants
  <2> QED
    BY <2>1, <2>2 DEF M!TypeOK
<1>3. LockInv
  BY <1>1, Members DEF LockInv
<1>4. ThreadInv
  BY <1>1 DEF ThreadInv, Busy
<1>5. FactorInv
  BY <1>1 DEF M!Constants, FactorInv, M!FactorIsStreak
<1> QED
  BY <1>2, <1>3, <1>4, <1>5 DEF MInv

LEMMA StepMInv == ASSUME M!Constants PROVE MInv /\ [M!Next]_M!vars => MInv'
<1> SUFFICES ASSUME MInv, [M!Next]_M!vars PROVE MInv'
  OBVIOUS
<1>1. ASSUME NEW t \in Readers, M!Read(t) \/ M!EnsureStep(t) \/ M!Fork(t)
      PROVE  MInv'
  BY <1>1, ReadStep, LockStep, StartStep, AssignStep, ForkStep, Members DEF M!EnsureStep
<1>2. ASSUME NEW m \in Monitors, M!EnsureStep(m) \/ M!Round(m)
      PROVE  MInv'
  BY <1>2, LockStep, StartStep, AssignStep, WakeStep, CheckWorkerStep, CheckLimitStep,
     SetStep, BumpStep, Members DEF M!EnsureStep, M!Round
<1>3. CASE M!Kill \/ M!Pass \/ \E c \in Categories : M!Limit(c)
  BY <1>3, OutsideStep
<1>4. CASE UNCHANGED M!vars
  <2>1. M!TypeOK'
    BY <1>4 DEF MInv, M!TypeOK, M!vars, M!lifecycle, M!transport, M!iteration
  <2>2. (Starting' <=> Starting) /\ (M!Running' <=> M!Running)
    BY <1>4 DEF Starting, M!Running, M!vars, M!lifecycle
  <2>3. LockInv' /\ ThreadInv'
    BY <1>4, <2>2 DEF MInv, LockInv, ThreadInv, Newest, M!vars, M!lifecycle
  <2>4. FactorInv'
    BY <1>4, FactorKept DEF M!vars
  <2> QED
    BY <2>1, <2>3, <2>4 DEF MInv
<1> QED
  BY <1>1, <1>2, <1>3, <1>4 DEF M!Next

LEMMA MonitorInductive == ASSUME M!Constants PROVE M!Spec => []MInv
BY InitMInv, StepMInv, PTL DEF M!Spec

(* One monitor thread at most is at work in a process, and the factor is   *)
(* the number of unhealthy checks in a row, up to the limit, whatever the  *)
(* races of the first reads, forks and deaths (monitor.py:73-126).         *)
THEOREM FactorIsRight == M!Spec => []FactorRight
<1>1. MInv => FactorRight
  <2> SUFFICES ASSUME MInv PROVE FactorRight
    OBVIOUS
  <2> DEFINE working == {m \in Monitors : pc[m] \notin {"new", "dead", "gone"}}
  <2>1. \A m \in working : m \in Monitors /\ pc[m] \in Busy
    BY DEF MInv, LockInv
  <2>2. \A m, n \in working : m = n
    BY <2>1, OneBusy, MonitorConstants
  <2>3. working = {} \/ \E m \in working : working = {m}
    BY <2>2
  <2>4. M!Cardinality(working) <= 1
    <3> HIDE DEF working
    <3>1. M!Cardinality({}) = 0 /\ \A m : M!Cardinality({m}) = 1
      BY FS_EmptySet, FS_Singleton, SameFiniteness
    <3>2. CASE working = {}
      BY <3>1, <3>2
    <3>3. ASSUME NEW m, working = {m}
          PROVE  M!Cardinality(working) <= 1
      <4>1. M!Cardinality({m}) = 1
        BY <3>1
      <4> QED
        BY <3>3, <4>1
    <3> QED
      BY <2>3, <3>2, <3>3
  <2> QED
    BY <2>4 DEF FactorRight, M!FactorRight, M!OneMonitor, MInv, FactorInv
<1> QED
  BY <1>1, MonitorInductive, MonitorConstants, PTL
=============================================================================

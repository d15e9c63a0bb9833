--------------------------- MODULE SpanBatcherProofs ---------------------------
(***************************************************************************)
(* Theorems about SpanBatcher for any threads, spans, traces, sizes,       *)
(* limits and number of forks.  IInv says at which point a thread holds a  *)
(* span or envelopes, that a bucket has spans of its trace, each once, and *)
(* where a span is at any time.                                            *)
(***************************************************************************)
EXTENDS SpanBatcher, FiniteSetTheorems, WellFoundedInduction, TLAPS

FlusherPoints == {"none", "wait", "clear", "pending", "sendpending", "full", "capture", "dead"}
ThreadPoints == {"idle", "gone", "append", "notify", "flush", "capture"}

ThreadInv ==
  /\ \A t \in Threads : pc[t] \in ThreadPoints
  /\ pc[Flusher] \in FlusherPoints
  /\ \A t \in Actors : pc[t] = "append" <=> span[t] # None
  /\ \A t \in Actors : pc[t] \notin {"capture", "sendpending"} => envelopes[t] = {}

BucketInv ==
  \A tr \in Traces : \A i, j \in DOMAIN bucket[tr] :
    /\ TraceOf[bucket[tr][i]] = tr
    /\ bucket[tr][i] = bucket[tr][j] => i = j

(* Where a span is. *)
InBucket(x) == \E tr \in Traces : x \in Members(bucket[tr])
Held(x)     == \E t \in Actors : span[t] = x
Packed(x)   == \E t \in Actors : \E e \in envelopes[t] : x \in e
Met(x)      == outcome[x] # {}

FateInv ==
  \A x \in Spans :
    /\ x \notin added \ inherited =>
         ~InBucket(x) /\ ~Held(x) /\ ~Packed(x) /\ ~Met(x)
    /\ x \in added \ inherited => InBucket(x) \/ Held(x) \/ Packed(x) \/ Met(x)
    /\ ~(InBucket(x) /\ Held(x)) /\ ~(InBucket(x) /\ Packed(x)) /\ ~(InBucket(x) /\ Met(x))
    /\ ~(Held(x) /\ Packed(x)) /\ ~(Held(x) /\ Met(x)) /\ ~(Packed(x) /\ Met(x))

OnceInv ==
  /\ \A t, u \in Actors : span[t] = span[u] /\ span[t] # None => t = u
  /\ \A t, u \in Actors : \A e \in envelopes[t], f \in envelopes[u] :
       e \cap f # {} => t = u /\ e = f
  /\ \A x \in Spans : \A o, p \in outcome[x] : o = p

IInv == TypeOK /\ ThreadInv /\ BucketInv /\ FateInv /\ OnceInv /\ FullBucketWakes

-----------------------------------------------------------------------------
(* The slices of a bucket.                                                 *)
LEMMA Division ==
  ASSUME NEW M \in Nat \ {0}
  PROVE  /\ \A s \in Nat : /\ s = M * (s \div M) + (s % M)
                           /\ s % M \in 0..M - 1 /\ s \div M \in Nat
         /\ \A q, r \in Nat : q < r => M * q + M <= M * r
         /\ \A q \in Nat : (M * q) % M = 0 /\ M * q \in Nat
<1>1. \A s \in Nat : /\ s = M * (s \div M) + (s % M)
                     /\ s % M \in 0..M - 1 /\ s \div M \in Nat
  OBVIOUS
<1>2. \A q, r \in Nat : q < r => M * q + M <= M * r
  OBVIOUS
<1>3. \A q \in Nat : (M * q) % M = 0 /\ M * q \in Nat
  OBVIOUS
<1> QED
  BY <1>1, <1>2, <1>3

LEMMA OneMultiple ==
  ASSUME NEW M \in Nat \ {0}, NEW s \in Nat, NEW u \in Nat, NEW k \in Nat,
         s % M = 0, u % M = 0, s < k, k <= s + M, u < k, k <= u + M
  PROVE  s = u
<1> DEFINE q == s \div M
           r == u \div M
<1>1. q \in Nat /\ r \in Nat /\ s = M * q /\ u = M * r
  BY Division
<1> HIDE DEF q, r
<1>2. ~(q < r) /\ ~(r < q)
  BY <1>1, Division
<1>3. q = r
  BY <1>1, <1>2
<1> QED
  BY <1>1, <1>3

LEMMA SomeMultiple ==
  ASSUME NEW M \in Nat \ {0}, NEW k \in Nat \ {0}
  PROVE  \E s \in 0..k - 1 : s % M = 0 /\ s < k /\ k <= s + M
<1> DEFINE q == (k - 1) \div M
           s == M * q
<1>0. k - 1 \in Nat
  OBVIOUS
<1>1. q \in Nat /\ k - 1 = s + ((k - 1) % M) /\ (k - 1) % M \in 0..M - 1
  BY <1>0, Division
<1>2. s % M = 0 /\ s \in Nat
  BY <1>1, Division
<1> HIDE DEF q, s
<1>3. s \in 0..k - 1 /\ s < k /\ k <= s + M
  BY <1>1, <1>2
<1> QED
  BY <1>2, <1>3

LEMMA SlicesPartition ==
  ASSUME NEW s \in Seq(Spans), \A i, j \in DOMAIN s : s[i] = s[j] => i = j
  PROVE  /\ \A e \in Slices(s) : e \subseteq Members(s)
         /\ \A x \in Members(s) : \E e \in Slices(s) : x \in e
         /\ \A e, f \in Slices(s) : e \cap f # {} => e = f
<1> DEFINE M == MaxEnvelopeSize
           Slice(b) == {s[j] : j \in {k \in DOMAIN s : k > b /\ k <= b + M}}
           Starts == {b \in 0..Len(s) - 1 : b % M = 0}
<1>1. Slices(s) = {Slice(b) : b \in Starts}
  BY DEF Slices, SlicesOf
<1>2. DOMAIN s = 1..Len(s) /\ Len(s) \in Nat /\ M \in Nat \ {0}
  BY Thresholds
<1>3. \A b \in Starts : b \in Nat /\ b % M = 0
  BY <1>2
<1> HIDE DEF M
<1>4. ASSUME NEW e \in Slices(s) PROVE e \subseteq Members(s)
  BY <1>1 DEF Members
<1>5. ASSUME NEW x \in Members(s) PROVE \E e \in Slices(s) : x \in e
  <2>1. PICK k \in DOMAIN s : x = s[k]
    BY DEF Members
  <2>2. PICK b \in 0..k - 1 : b % M = 0 /\ b < k /\ k <= b + M
    <3>1. k \in Nat \ {0}
      BY <1>2
    <3> QED
      BY <1>2, <3>1, SomeMultiple
  <2>3. b \in Starts
    BY <1>2, <2>1, <2>2
  <2>4. x \in Slice(b)
    BY <2>1, <2>2
  <2> QED
    BY <1>1, <2>3, <2>4
<1>6. ASSUME NEW e \in Slices(s), NEW f \in Slices(s), NEW x \in e \cap f PROVE e = f
  <2>1. PICK b \in Starts, c \in Starts : e = Slice(b) /\ f = Slice(c)
    BY <1>1
  <2>2. PICK j \in DOMAIN s, k \in DOMAIN s :
          s[j] = x /\ s[k] = x /\ b < j /\ j <= b + M /\ c < k /\ k <= c + M
    BY <1>6, <2>1
  <2>3. j = k
    BY <2>2
  <2>4. b = c
    <3>1. b \in Nat /\ c \in Nat /\ k \in Nat /\ b % M = 0 /\ c % M = 0
      BY <1>2, <1>3
    <3>2. b < k /\ k <= b + M /\ c < k /\ k <= c + M
      BY <2>2, <2>3
    <3> QED
      BY <1>2, <3>1, <3>2, OneMultiple
  <2> QED
    BY <2>1, <2>4
<1> QED
  BY <1>4, <1>5, <1>6

-----------------------------------------------------------------------------
LEMMA People == /\ \A t \in Threads : t \in Actors /\ t # Flusher
                /\ Flusher \in Actors /\ Flusher \notin Threads
                /\ \A a \in Actors : a \in Threads \/ a = Flusher
                /\ None \notin Spans
                /\ \A x \in Spans : TraceOf[x] \in Traces
BY Apart DEF Actors, Traces

LEMMA Appended ==
  ASSUME NEW s \in Seq(Spans), NEW x \in Spans
  PROVE  /\ Append(s, x) \in Seq(Spans) /\ Len(Append(s, x)) = Len(s) + 1
         /\ DOMAIN Append(s, x) = 1..Len(s) + 1 /\ DOMAIN s = 1..Len(s)
         /\ \A i \in DOMAIN s : Append(s, x)[i] = s[i]
         /\ Append(s, x)[Len(s) + 1] = x
         /\ Members(Append(s, x)) = Members(s) \cup {x}
<1>1. /\ Append(s, x) \in Seq(Spans) /\ Len(Append(s, x)) = Len(s) + 1 /\ Len(s) \in Nat
      /\ DOMAIN Append(s, x) = 1..Len(s) + 1 /\ DOMAIN s = 1..Len(s)
      /\ \A i \in DOMAIN s : Append(s, x)[i] = s[i]
      /\ Append(s, x)[Len(s) + 1] = x
  OBVIOUS
<1>2. ASSUME NEW y \in Members(Append(s, x)) PROVE y \in Members(s) \cup {x}
  BY <1>1 DEF Members
<1>3. ASSUME NEW y \in Members(s) PROVE y \in Members(Append(s, x))
  BY <1>1 DEF Members
<1>4. x \in Members(Append(s, x))
  BY <1>1 DEF Members
<1> QED
  BY <1>1, <1>2, <1>3, <1>4

LEMMA NoMembers == Members(<<>>) = {} /\ Len(<<>>) = 0 /\ <<>> \in Seq(Spans)
BY DEF Members

TypeBuckets ==
  /\ bucket \in [Traces -> Seq(Spans)] /\ size \in [Traces -> Nat]
  /\ older \in [Traces -> SUBSET Traces]
  /\ \A tr \in Traces : Len(bucket[tr]) <= MaxBeforeDrop
  /\ pending \subseteq Traces /\ left \subseteq Traces
Points == ThreadPoints \cup FlusherPoints
TypePoints == pc \in [Actors -> Points]
TypeThreads ==
  /\ span \in [Actors -> Spans \cup {None}]
  /\ envelopes \in [Actors -> SUBSET SUBSET Spans]
  /\ event \in BOOLEAN /\ running \in BOOLEAN /\ due \in BOOLEAN /\ pid \in 0..MaxForks
TypeFates ==
  /\ outcome \in [Spans -> SUBSET Outcomes] /\ added \subseteq Spans /\ inherited \subseteq added

LEMMA Types ==
  /\ TypeOK <=> TypeBuckets /\ TypePoints /\ TypeThreads /\ TypeFates
  /\ TypeOK' <=> TypeBuckets' /\ TypePoints' /\ TypeThreads' /\ TypeFates'
BY DEF TypeOK, TypeBuckets, TypePoints, TypeThreads, TypeFates, Points, ThreadPoints, FlusherPoints

LEMMA Moves ==
  ASSUME TypePoints, NEW a \in Actors, NEW point \in Points, Goto(a, point)
  PROVE  TypePoints' /\ pc'[a] = point /\ \A b \in Actors \ {a} : pc'[b] = pc[b]
BY DEF TypePoints, Goto

(* What becomes of spans, ...                                              *)
LEMMA Meeting ==
  ASSUME TypeFates, NEW xs, NEW o \in Outcomes, Meet(xs, o)
  PROVE  /\ outcome' \in [Spans -> SUBSET Outcomes]
         /\ \A x \in Spans \ xs : outcome'[x] = outcome[x]
         /\ \A x \in Spans : x \in xs => outcome'[x] = outcome[x] \cup {o}
BY DEF TypeFates, Meet

-----------------------------------------------------------------------------
(* The steps of Next, by what they do.  Quiet ones move no span, ...       *)
Quiet == \/ \E t \in Threads : Notify(t) \/ Flush(t) \/ Kill(t)
         \/ Wait \/ Clear \/ Tick

(* ... flushes take buckets, all that are pending unless they fail, ...    *)
Flushes(t, deleted, failed, point) ==
  /\ FlushBuckets(t, deleted, failed, point)
  /\ deleted \subseteq Traces /\ (failed \/ pending \cap Keys \subseteq deleted)
  /\ \/ t \in Threads /\ pc[t] = "flush" /\ point = "capture"
     \/ t = Flusher /\ pc[t] = "pending" /\ point = "sendpending"
     \/ t = Flusher /\ pc[t] = "full" /\ point = "capture"
Flushing == \E t \in Actors, deleted \in SUBSET Traces, failed \in BOOLEAN,
               point \in {"capture", "sendpending"} : Flushes(t, deleted, failed, point)

(* ... and captures send envelopes.                                        *)
Captures(t, point, next, failure, stillDue) ==
  /\ CaptureAt(t, point, next, failure, stillDue) /\ stillDue \in BOOLEAN
  /\ point \in {"capture", "sendpending"}
  /\ \/ t \in Threads /\ next = "idle" /\ failure = "idle"
     \/ t = Flusher /\ next \in {"wait", "full"} /\ failure = "wait"
Capturing == \E t \in Actors : \E point, next, failure, stillDue :
               Captures(t, point, next, failure, stillDue)

LEMMA Steps ==
  ASSUME [Next]_vars, TypeOK
  PROVE  \/ Quiet
         \/ \E t \in Actors, x \in Spans : Add(t, x)
         \/ \E t \in Threads : AppendSpan(t)
         \/ Flushing
         \/ Capturing
         \/ \E t \in Threads : Fork(t)
         \/ UNCHANGED vars
<1>1. ASSUME NEW t \in Actors, FlushAll(t),
             \/ t \in Threads /\ pc[t] = "flush"
             \/ t = Flusher /\ pc[t] = "full"
      PROVE  Flushing
  <2>1. /\ Preceding \in SUBSET Traces /\ (Preceding # Keys) \in BOOLEAN
        /\ (Preceding # Keys) \/ pending \cap Keys \subseteq Preceding
    BY DEF Preceding, Keys
  <2>2. Flushes(t, Preceding, Preceding # Keys, "capture")
    BY <1>1, <2>1 DEF FlushAll, Flushes
  <2> QED
    BY <2>1, <2>2 DEF Flushing
<1>2. ASSUME FlushPending PROVE Flushing
  <2>1. PICK deleted \in Deletable(pending) :
          FlushBuckets(Flusher, deleted, pending \cap Bad # {}, "sendpending")
    BY <1>2 DEF FlushPending
  <2>2. /\ deleted \in SUBSET Traces
        /\ (pending \cap Bad # {}) \/ pending \cap Keys \subseteq deleted
    BY DEF Deletable, TypeOK
  <2>3. Flushes(Flusher, deleted, pending \cap Bad # {}, "sendpending")
    BY <1>2, <2>1, <2>2 DEF FlushPending, Flushes
  <2> QED
    BY <2>2, <2>3, People DEF Flushing
<1>3. ASSUME NEW t \in Threads, CaptureFromThread(t) PROVE Capturing
  <2>1. Captures(t, "capture", "idle", "idle", due)
    BY <1>3 DEF CaptureFromThread, Captures, TypeOK
  <2> QED
    BY <2>1, People DEF Capturing
<1>4. ASSUME CapturePending \/ CaptureFull PROVE Capturing
  <2>1. \/ Captures(Flusher, "sendpending", IF due THEN "full" ELSE "wait", "wait", due)
        \/ Captures(Flusher, "capture", "wait", "wait", FALSE)
    BY <1>4 DEF CapturePending, CaptureFull, Captures, TypeOK
  <2> QED
    BY <2>1, People DEF Capturing
<1> QED
  BY <1>1, <1>2, <1>3, <1>4, People
  DEF Next, ThreadStep, FlusherStep, FlushFromThread, FlushFull, Quiet

(* What the quiet steps leave alone.                                       *)
QuietEffect ==
  /\ UNCHANGED <<bucket, older, size, pending, left, span, envelopes, outcome, added,
                 inherited, pid>>
  /\ TypePoints' /\ event' \in BOOLEAN /\ running' \in BOOLEAN /\ due' \in BOOLEAN
  /\ \A t \in Actors : pc'[t] # pc[t] =>
       /\ pc[t] \notin {"append", "capture", "sendpending"}
       /\ pc'[t] \notin {"append", "capture", "sendpending"}
       /\ IF t \in Threads THEN pc'[t] \in ThreadPoints ELSE pc'[t] \in FlusherPoints

LEMMA QuietSteps ==
  ASSUME Quiet, TypeOK, ThreadInv
  PROVE  QuietEffect
<1> USE People DEF data, past
<1>1. TypePoints /\ event \in BOOLEAN /\ running \in BOOLEAN /\ due \in BOOLEAN
  BY DEF TypeOK, TypePoints, Points, ThreadPoints, FlusherPoints
<1>2. ASSUME NEW t \in Threads, Notify(t) \/ Flush(t)
      PROVE  /\ TypePoints' /\ pc[t] \in {"notify", "idle"} /\ pc'[t] \in {"idle", "flush"}
             /\ \A b \in Actors \ {t} : pc'[b] = pc[b]
  BY <1>1, <1>2, Moves DEF Notify, Flush, Points, ThreadPoints
<1>3. ASSUME Wait \/ Clear
      PROVE  /\ TypePoints' /\ pc[Flusher] \in {"wait", "clear"}
             /\ pc'[Flusher] \in {"clear", "dead", "pending"}
             /\ \A b \in Actors \ {Flusher} : pc'[b] = pc[b]
  BY <1>1, <1>3, Moves DEF Wait, WaitUntil, Clear, Points, FlusherPoints
<1>4. ASSUME Tick \/ \E t \in Threads : Kill(t) PROVE pc' = pc
  BY <1>4 DEF Tick, Kill
<1>5. /\ UNCHANGED <<bucket, older, size, pending, left, span, envelopes, outcome, added,
                     inherited, pid>>
      /\ event' \in BOOLEAN /\ running' \in BOOLEAN /\ due' \in BOOLEAN
  BY <1>1 DEF Quiet, Notify, Flush, Kill, Wait, WaitUntil, Clear, Tick
<1> QED
  BY <1>1, <1>2, <1>3, <1>4, <1>5 DEF QuietEffect, Quiet, TypePoints, ThreadPoints, FlusherPoints

(* add() up to the lock.                                                   *)
AddEffect(t, x) ==
  /\ UNCHANGED <<bucket, older, size, pending, left, event, due, pid, envelopes,
                 inherited>>
  /\ x \notin added /\ added' = added \cup {x}
  /\ TypePoints' /\ running' \in BOOLEAN
  /\ pc'[Flusher] = pc[Flusher] \/ (pc[Flusher] = "none" /\ pc'[Flusher] = "wait")
  /\ \A b \in Threads \ {t} : pc'[b] = pc[b]
  /\ \/ /\ t \in Threads /\ pc[t] = "idle"
        /\ span' = [span EXCEPT ![t] = x] /\ UNCHANGED outcome /\ pc'[t] = "append"
        /\ running /\ UNCHANGED running
     \/ UNCHANGED <<span, pc>> /\ Meet({x}, "ignored") /\ (running' => running)

LEMMA AddSteps ==
  ASSUME TypeOK, ThreadInv, NEW t \in Actors, NEW x \in Spans, Add(t, x)
  PROVE  AddEffect(t, x)
<1>1. /\ UNCHANGED <<bucket, older, size, pending, left, event, due, pid, envelopes,
                     inherited>>
      /\ x \notin added /\ added' = added \cup {x}
      /\ pc[t] = "idle" => t \in Threads
  BY People DEF Add, data, ThreadInv, FlusherPoints
<1>2. CASE /\ pc[t] = "idle" /\ running /\ UNCHANGED <<running, outcome>> /\ span' = [span EXCEPT ![t] = x]
           /\ pc' = [pc EXCEPT ![t] = "append",
                               ![Flusher] = IF @ = "none" THEN "wait" ELSE @]
  <2>1. pc \in [Actors -> Points] /\ t \in Threads /\ Flusher \in Actors /\ t # Flusher
    BY <1>1, <1>2, People, Types DEF TypePoints
  <2>2. /\ pc' \in [Actors -> Points] /\ pc'[t] = "append"
        /\ pc'[Flusher] = (IF pc[Flusher] = "none" THEN "wait" ELSE pc[Flusher])
        /\ \A b \in Actors \ {t, Flusher} : pc'[b] = pc[b]
    BY <1>2, <2>1 DEF Points, ThreadPoints, FlusherPoints
  <2> QED
    BY <1>1, <1>2, <2>2, People DEF AddEffect, TypePoints, TypeOK
<1>3. CASE UNCHANGED <<span, pc>> /\ Meet({x}, "ignored") /\ running' \in {running, FALSE}
  <2>1. TypePoints' /\ running' \in BOOLEAN
    BY <1>3, Types DEF TypePoints, TypeThreads
  <2> QED
    BY <1>1, <1>3, <2>1 DEF AddEffect
<1> QED
  BY <1>2, <1>3 DEF Add

(* add() with the lock.                                                    *)
AppendEffect(t, x, tr) ==
  /\ pc[t] = "append" /\ x \in Spans /\ tr \in Traces
  /\ span' = [span EXCEPT ![t] = None]
  /\ UNCHANGED <<event, running, due, pid, envelopes, added, inherited>>
  /\ TypePoints' /\ pc'[t] \in {"idle", "notify"} /\ \A b \in Actors \ {t} : pc'[b] = pc[b]
  /\ \/ /\ bucket' = [bucket EXCEPT ![tr] = Append(bucket[tr], x)]
        /\ Len(bucket[tr]) < MaxBeforeDrop
        /\ older' = older \/ older' = [older EXCEPT ![tr] = Keys]
        /\ size' = [size EXCEPT ![tr] = size[tr] + SizeOf[x]]
        /\ UNCHANGED outcome
        /\ IF Enough(Append(bucket[tr], x), size[tr] + SizeOf[x], x)
           THEN pending' = pending \cup {tr} /\ left' = left \ {tr} /\ pc'[t] = "notify"
           ELSE UNCHANGED <<pending, left>>
     \/ Meet({x}, "lost") /\ UNCHANGED data

LEMMA AppendSteps ==
  ASSUME TypeOK, ThreadInv, NEW t \in Threads, AppendSpan(t),
         NEW x, x = span[t], NEW tr, tr = TraceOf[x]
  PROVE  AppendEffect(t, x, tr)
<1>1. pc[t] = "append" /\ x \in Spans /\ tr \in Traces
  BY People DEF AppendSpan, AppendUpTo, ThreadInv, TypeOK
<1>2. TypePoints /\ t \in Actors
  BY Types, People
<1>3. /\ span' = [span EXCEPT ![t] = None]
      /\ UNCHANGED <<event, running, due, pid, envelopes, added, inherited>>
  BY DEF AppendSpan, AppendUpTo, past
<1>4. Goto(t, "notify") \/ Goto(t, "idle")
  BY DEF AppendSpan, AppendUpTo
<1>5. TypePoints' /\ pc'[t] \in {"idle", "notify"} /\ \A b \in Actors \ {t} : pc'[b] = pc[b]
  BY <1>2, <1>4, Moves DEF Points, ThreadPoints
<1>6. Goto(t, "notify") => pc'[t] = "notify"
  BY <1>2, Moves DEF Points, ThreadPoints
<1>7. \/ /\ bucket' = [bucket EXCEPT ![tr] = Append(bucket[tr], x)]
         /\ Len(bucket[tr]) < MaxBeforeDrop
         /\ older' = older \/ older' = [older EXCEPT ![tr] = Keys]
         /\ size' = [size EXCEPT ![tr] = size[tr] + SizeOf[x]]
         /\ UNCHANGED outcome
         /\ IF Enough(Append(bucket[tr], x), size[tr] + SizeOf[x], x)
            THEN pending' = pending \cup {tr} /\ left' = left \ {tr} /\ Goto(t, "notify")
            ELSE UNCHANGED <<pending, left>>
      \/ Meet({x}, "lost") /\ UNCHANGED data
  BY DEF AppendSpan, AppendUpTo
<1> QED
  BY <1>1, <1>3, <1>5, <1>6, <1>7 DEF AppendEffect

(* _flush with the lock.                                                   *)
FlushEffect(t, deleted, failed) ==
  /\ UNCHANGED <<event, running, due, pid, span, added, inherited>>
  /\ pc[t] \in {"flush", "pending", "full"}
  /\ TypePoints' /\ \A b \in Actors \ {t} : pc'[b] = pc[b]
  /\ IF t \in Threads THEN pc'[t] \in {"idle", "capture"}
                      ELSE pc'[t] \in {"wait", "capture", "sendpending"}
  /\ \A tr \in deleted : bucket'[tr] = <<>> /\ size'[tr] = 0
  /\ \A tr \in Traces \ deleted : bucket'[tr] = bucket[tr] /\ size'[tr] = size[tr]
  /\ TypeBuckets' /\ pending' = {} /\ (failed \/ pending \cap Keys \subseteq deleted)
  /\ left' = IF failed THEN (left \cup pending) \ deleted ELSE left \ deleted
  /\ \/ /\ ~failed /\ UNCHANGED outcome /\ pc'[t] \in {"capture", "sendpending"}
        /\ envelopes' = [envelopes EXCEPT ![t] =
                           UNION {Slices(bucket[tr]) : tr \in deleted}]
     \/ /\ failed /\ UNCHANGED envelopes /\ pc'[t] \notin {"capture", "sendpending"}
        /\ Meet(UNION {Members(bucket[tr]) : tr \in deleted}, "vanished")

LEMMA FlushSteps ==
  ASSUME TypeOK, ThreadInv, NEW t \in Actors, NEW deleted \in SUBSET Traces,
         NEW failed \in BOOLEAN, NEW point, Flushes(t, deleted, failed, point)
  PROVE  FlushEffect(t, deleted, failed)
<1> USE DEF Flushes, FlushBuckets, FlushTo
<1>1. /\ UNCHANGED <<event, running, due, pid, span, added, inherited>>
      /\ pc[t] \in {"flush", "pending", "full"} /\ pending' = {}
      /\ failed \/ pending \cap Keys \subseteq deleted
      /\ left' = IF failed THEN (left \cup pending) \ deleted ELSE left \ deleted
      /\ point \in {"capture", "sendpending"} /\ (t \in Threads => point = "capture")
  BY People DEF past
<1>2. TypePoints /\ TypeBuckets
  BY Types
<1>3. IF failed THEN Goto(t, IF t = Flusher THEN "wait" ELSE "idle") ELSE Goto(t, point)
  OBVIOUS
<1>4. /\ TypePoints' /\ \A b \in Actors \ {t} : pc'[b] = pc[b]
      /\ pc'[t] = IF failed THEN IF t = Flusher THEN "wait" ELSE "idle" ELSE point
  BY <1>1, <1>2, <1>3, Moves DEF Points, ThreadPoints, FlusherPoints
<1>5. /\ \A tr \in deleted : bucket'[tr] = <<>> /\ size'[tr] = 0
      /\ \A tr \in Traces \ deleted : bucket'[tr] = bucket[tr] /\ size'[tr] = size[tr]
  BY DEF Zeroed
<1>6. TypeBuckets'
  <2>1. bucket' \in [Traces -> Seq(Spans)] /\ size' \in [Traces -> Nat]
    BY <1>2, NoMembers DEF TypeBuckets, Zeroed
  <2>2. older' \in [Traces -> SUBSET Traces]
    <3>1. older' = [tr \in Traces |-> IF tr \in deleted THEN {} ELSE older[tr] \ deleted]
      OBVIOUS
    <3> QED
      BY <1>2, <3>1 DEF TypeBuckets
  <2>3. \A tr \in Traces : Len(bucket'[tr]) <= MaxBeforeDrop
    BY <1>2, <1>5, NoMembers, Thresholds DEF TypeBuckets
  <2>4. pending' \subseteq Traces /\ left' \subseteq Traces
    BY <1>1, <1>2 DEF TypeBuckets
  <2> QED
    BY <2>1, <2>2, <2>3, <2>4 DEF TypeBuckets
<1>7. \/ /\ ~failed /\ UNCHANGED outcome
         /\ envelopes' = [envelopes EXCEPT ![t] = UNION {Slices(bucket[tr]) : tr \in deleted}]
      \/ /\ failed /\ UNCHANGED envelopes
         /\ Meet(UNION {Members(bucket[tr]) : tr \in deleted}, "vanished")
  OBVIOUS
<1>8. t \in Threads <=> t # Flusher
  BY People
<1> QED
  BY <1>1, <1>4, <1>5, <1>6, <1>7, <1>8 DEF FlushEffect

(* _capture_func: no envelope is left, one is sent, or all of them vanish. *)
CaptureEffect(t) ==
  /\ UNCHANGED <<bucket, older, size, pending, left, event, running, pid, span, added,
                 inherited>>
  /\ due' \in BOOLEAN /\ pc[t] \in {"capture", "sendpending"}
  /\ TypePoints' /\ \A b \in Actors \ {t} : pc'[b] = pc[b]
  /\ pc'[t] = pc[t] \/ (t \in Threads /\ pc'[t] = "idle")
                    \/ (t = Flusher /\ pc'[t] \in {"wait", "full"})
  /\ \/ envelopes[t] = {} /\ UNCHANGED <<envelopes, outcome>>
     \/ \E e \in envelopes[t] :
          /\ envelopes' = [envelopes EXCEPT ![t] = envelopes[t] \ {e}]
          /\ Meet(e, "captured") /\ UNCHANGED pc
     \/ /\ envelopes' = [envelopes EXCEPT ![t] = {}]
        /\ Meet(UNION envelopes[t], "vanished")

LEMMA CaptureSteps ==
  ASSUME TypeOK, ThreadInv, NEW t \in Actors, NEW point, NEW next, NEW failure, NEW stillDue,
         Captures(t, point, next, failure, stillDue)
  PROVE  CaptureEffect(t)
<1> USE DEF Captures, CaptureAt
<1>1. /\ UNCHANGED <<bucket, older, size, pending, left, event, running, pid, span, added,
                     inherited>>
      /\ due' \in BOOLEAN /\ pc[t] \in {"capture", "sendpending"}
  BY DEF data, past, TypeOK
<1>2. TypePoints
  BY Types
<1>3. UNCHANGED pc \/ Goto(t, next) \/ Goto(t, failure)
  OBVIOUS
<1>4. /\ TypePoints' /\ \A b \in Actors \ {t} : pc'[b] = pc[b]
      /\ pc'[t] = pc[t] \/ (t \in Threads /\ pc'[t] = "idle")
                        \/ (t = Flusher /\ pc'[t] \in {"wait", "full"})
  <2>1. CASE UNCHANGED pc
    BY <1>2, <2>1 DEF TypePoints
  <2>2. CASE Goto(t, next) \/ Goto(t, failure)
    BY <1>2, <2>2, Moves DEF Points, ThreadPoints, FlusherPoints
  <2> QED
    BY <1>3, <2>1, <2>2
<1> QED
  BY <1>1, <1>4 DEF CaptureEffect

ForkEffect ==
  /\ inherited' = added /\ UNCHANGED added
  /\ bucket' = NoSpans /\ older' = NoOlder /\ size' = NoSizes
  /\ pending' = {} /\ left' = {} /\ event' = FALSE /\ running' = TRUE /\ due' = FALSE
  /\ span' = [u \in Actors |-> None] /\ envelopes' = [u \in Actors |-> {}]
  /\ outcome' = [x \in Spans |-> {}]
  /\ TypePoints' /\ pid' \in 0..MaxForks
  /\ \A u \in Threads : pc'[u] \in {"idle", "gone"}
  /\ pc'[Flusher] = "none"

LEMMA ForkSteps ==
  ASSUME TypeOK, ThreadInv, NEW t \in Threads, Fork(t)
  PROVE  ForkEffect
<1>1. pc' \in [Actors -> Points]
  BY DEF Fork, ForkKeeping, Points, ThreadPoints, FlusherPoints
<1>2. pid' \in 0..MaxForks
  BY Flags DEF TypeOK, Fork, ForkKeeping
<1> QED
  BY <1>1, <1>2, People DEF ForkEffect, Fork, ForkKeeping, TypePoints

LEMMA Effects ==
  ASSUME IInv, [Next]_vars
  PROVE  \/ Quiet /\ QuietEffect
         \/ \E t \in Actors, x \in Spans : AddEffect(t, x)
         \/ \E t \in Threads, x \in Spans, tr \in Traces :
              x = span[t] /\ tr = TraceOf[x] /\ AppendEffect(t, x, tr)
         \/ \E t \in Actors, deleted \in SUBSET Traces, failed \in BOOLEAN :
              FlushEffect(t, deleted, failed)
         \/ \E t \in Actors : CaptureEffect(t)
         \/ ForkEffect
         \/ UNCHANGED vars
<1>i. TypeOK /\ ThreadInv
  BY DEF IInv
<1>1. ASSUME NEW t \in Threads, AppendSpan(t)
      PROVE  \E x \in Spans, tr \in Traces :
               x = span[t] /\ tr = TraceOf[x] /\ AppendEffect(t, x, tr)
  <2>1. AppendEffect(t, span[t], TraceOf[span[t]])
    BY <1>1, <1>i, AppendSteps
  <2>2. span[t] \in Spans /\ TraceOf[span[t]] \in Traces
    BY <2>1 DEF AppendEffect
  <2> QED
    BY <2>1, <2>2
<1>2. ASSUME Flushing
      PROVE  \E t \in Actors, deleted \in SUBSET Traces, failed \in BOOLEAN :
               FlushEffect(t, deleted, failed)
  BY <1>2, <1>i, FlushSteps DEF Flushing
<1>3. ASSUME Capturing PROVE \E t \in Actors : CaptureEffect(t)
  BY <1>3, <1>i, CaptureSteps DEF Capturing
<1> QED
  BY <1>1, <1>2, <1>3, <1>i, Steps, QuietSteps, AddSteps, ForkSteps

-----------------------------------------------------------------------------
LEMMA Initially == Init => IInv
<1> SUFFICES ASSUME Init PROVE IInv
  OBVIOUS
<1> USE DEF Init
<1>1. \A tr \in Traces : bucket[tr] = <<>> /\ size[tr] = 0
  BY DEF NoSpans, NoSizes
<1>2. TypeOK
  <2>1. TypeBuckets
    BY NoMembers, Thresholds DEF TypeBuckets, NoSpans, NoSizes, NoOlder
  <2>2. TypePoints
    BY DEF TypePoints, Points, ThreadPoints, FlusherPoints
  <2>3. 0 \in 0..MaxForks
    BY Flags
  <2>4. TypeThreads /\ TypeFates
    BY <2>3 DEF TypeThreads, TypeFates
  <2> QED
    BY <2>1, <2>2, <2>4, Types
<1>3. ThreadInv
  BY People DEF ThreadInv, ThreadPoints, FlusherPoints
<1>4. BucketInv
  BY <1>1 DEF BucketInv
<1>5. FateInv /\ OnceInv
  BY <1>1, NoMembers, People DEF FateInv, OnceInv, InBucket, Held, Packed, Met
<1>6. FullBucketWakes
  BY <1>1, NoMembers, Thresholds DEF FullBucketWakes, TriggeredPending, PendingWakes, Triggered
<1> QED
  BY <1>2, <1>3, <1>4, <1>5, <1>6 DEF IInv

LEMMA TypeStep == IInv /\ [Next]_vars => TypeOK'
<1> SUFFICES ASSUME IInv, [Next]_vars PROVE TypeOK'
  OBVIOUS
<1>i. BucketInv /\ TypeBuckets /\ TypePoints /\ TypeThreads /\ TypeFates
  BY Types DEF IInv
<1>m. \A xs, o : o \in Outcomes /\ Meet(xs, o) => outcome' \in [Spans -> SUBSET Outcomes]
  BY <1>i, Meeting
<1>o. /\ "ignored" \in Outcomes /\ "lost" \in Outcomes /\ "captured" \in Outcomes
      /\ "vanished" \in Outcomes
  BY DEF Outcomes
<1>1. CASE QuietEffect
  BY <1>1, <1>i, Types DEF QuietEffect, TypeBuckets, TypeThreads, TypeFates
<1>2. ASSUME NEW t \in Actors, NEW x \in Spans, AddEffect(t, x) PROVE TypeOK'
  <2>1. TypeBuckets' /\ TypePoints'
    BY <1>2, <1>i DEF AddEffect, TypeBuckets
  <2>2. TypeThreads'
    BY <1>2, <1>i DEF AddEffect, TypeThreads
  <2>3. outcome' \in [Spans -> SUBSET Outcomes]
    BY <1>2, <1>i, <1>m, <1>o DEF AddEffect, TypeFates
  <2>4. TypeFates'
    BY <1>2, <1>i, <2>3 DEF AddEffect, TypeFates
  <2> QED
    BY <2>1, <2>2, <2>4, Types
<1>3. ASSUME NEW t \in Threads, NEW x \in Spans, NEW tr \in Traces, AppendEffect(t, x, tr)
      PROVE  TypeOK'
  <2>1. TypeThreads' /\ TypePoints'
    BY <1>3, <1>i DEF AppendEffect, TypeThreads
  <2>2. outcome' \in [Spans -> SUBSET Outcomes]
    BY <1>3, <1>i, <1>m, <1>o DEF AppendEffect, TypeFates
  <2>3. TypeFates'
    BY <1>3, <1>i, <2>2 DEF AppendEffect, TypeFates
  <2>4. CASE UNCHANGED data
    BY <1>i, <2>1, <2>3, <2>4, Types DEF TypeBuckets, data
  <2>5. CASE ~UNCHANGED data
    <3>1. /\ bucket' = [bucket EXCEPT ![tr] = Append(bucket[tr], x)]
          /\ Len(bucket[tr]) < MaxBeforeDrop
          /\ older' = older \/ older' = [older EXCEPT ![tr] = Keys]
          /\ size' = [size EXCEPT ![tr] = size[tr] + SizeOf[x]]
          /\ pending' \subseteq pending \cup {tr} /\ left' \subseteq left
      BY <1>3, <2>5 DEF AppendEffect
    <3>2. /\ bucket[tr] \in Seq(Spans) /\ Append(bucket[tr], x) \in Seq(Spans)
          /\ Len(Append(bucket[tr], x)) <= MaxBeforeDrop
      BY <1>i, <3>1, Appended, Thresholds DEF TypeBuckets
    <3>3. SizeOf[x] \in Nat /\ size[tr] \in Nat /\ Keys \subseteq Traces
      BY <1>i, SpanTypes DEF TypeBuckets, Keys
    <3>4. /\ bucket' \in [Traces -> Seq(Spans)] /\ size' \in [Traces -> Nat]
          /\ \A other \in Traces : Len(bucket'[other]) <= MaxBeforeDrop
      BY <1>i, <3>1, <3>2, <3>3 DEF TypeBuckets
    <3>5. /\ older' \in [Traces -> SUBSET Traces]
          /\ pending' \subseteq Traces /\ left' \subseteq Traces
      BY <1>i, <3>1, <3>3 DEF TypeBuckets
    <3> QED
      BY <2>1, <2>3, <3>4, <3>5, Types DEF TypeBuckets
  <2> QED
    BY <2>4, <2>5
<1>4. ASSUME NEW t \in Actors, NEW deleted \in SUBSET Traces, NEW failed \in BOOLEAN,
             FlushEffect(t, deleted, failed)
      PROVE  TypeOK'
  <2>1. TypeBuckets' /\ TypePoints'
    BY <1>4 DEF FlushEffect
  <2>2. UNION {Slices(bucket[tr]) : tr \in deleted} \subseteq SUBSET Spans
    <3>1. ASSUME NEW tr \in deleted PROVE Slices(bucket[tr]) \subseteq SUBSET Spans
      <4>1. bucket[tr] \in Seq(Spans)
        BY <1>i DEF TypeBuckets
      <4>2. \A i, j \in DOMAIN bucket[tr] : bucket[tr][i] = bucket[tr][j] => i = j
        BY <1>i DEF BucketInv
      <4>3. \A e \in Slices(bucket[tr]) : e \subseteq Members(bucket[tr])
        BY <4>1, <4>2, SlicesPartition
      <4>4. Members(bucket[tr]) \subseteq Spans
        BY <4>1 DEF Members
      <4> QED
        BY <4>3, <4>4
    <3> QED
      BY <3>1
  <2>3. \/ envelopes' = envelopes
        \/ envelopes' = [envelopes EXCEPT ![t] = UNION {Slices(bucket[tr]) : tr \in deleted}]
    BY <1>4 DEF FlushEffect
  <2>4. envelopes' \in [Actors -> SUBSET SUBSET Spans]
    BY <1>i, <2>2, <2>3 DEF TypeThreads
  <2>5. UNCHANGED <<event, running, due, pid, span, added, inherited>>
    BY <1>4 DEF FlushEffect
  <2>6. TypeThreads'
    BY <1>i, <2>4, <2>5 DEF TypeThreads
  <2>7. outcome' \in [Spans -> SUBSET Outcomes]
    BY <1>4, <1>i, <1>m, <1>o DEF FlushEffect, TypeFates
  <2> QED
    BY <1>i, <2>1, <2>5, <2>6, <2>7, Types DEF TypeFates
<1>5. ASSUME NEW t \in Actors, CaptureEffect(t) PROVE TypeOK'
  <2>1. TypePoints' /\ UNCHANGED <<bucket, older, size, pending, left, event, running, pid,
                                   span, added, inherited>> /\ due' \in BOOLEAN
    BY <1>5 DEF CaptureEffect
  <2>2. \/ envelopes' = envelopes
        \/ \E es \in SUBSET envelopes[t] : envelopes' = [envelopes EXCEPT ![t] = es]
    BY <1>5 DEF CaptureEffect
  <2>3. envelopes' \in [Actors -> SUBSET SUBSET Spans]
    BY <1>i, <2>2 DEF TypeThreads
  <2>4. outcome' \in [Spans -> SUBSET Outcomes]
    BY <1>5, <1>i, <1>m, <1>o DEF CaptureEffect, TypeFates
  <2>5. TypeBuckets' /\ TypeThreads' /\ TypeFates'
    BY <1>i, <2>1, <2>3, <2>4 DEF TypeBuckets, TypeThreads, TypeFates
  <2> QED
    BY <2>1, <2>5, Types
<1>6. CASE ForkEffect
  <2>1. TypeBuckets'
    <3>1. /\ bucket' = NoSpans /\ older' = NoOlder /\ size' = NoSizes
          /\ pending' = {} /\ left' = {}
      BY <1>6 DEF ForkEffect
    <3> QED
      BY <3>1, NoMembers, Thresholds DEF TypeBuckets, NoSpans, NoSizes, NoOlder
  <2>2. TypeThreads' /\ TypeFates' /\ TypePoints'
    BY <1>6, <1>i DEF ForkEffect, TypeThreads, TypeFates
  <2> QED
    BY <2>1, <2>2, Types
<1>7. CASE UNCHANGED vars
  BY <1>7, <1>i, Types DEF vars, data, past, TypeBuckets, TypePoints, TypeThreads, TypeFates
<1> QED
  BY <1>1, <1>2, <1>3, <1>4, <1>5, <1>6, <1>7, Effects

LEMMA ThreadInvStep == IInv /\ [Next]_vars => ThreadInv'
<1> SUFFICES ASSUME IInv, [Next]_vars PROVE ThreadInv'
  OBVIOUS
<1>i. ThreadInv /\ TypeThreads
  BY Types DEF IInv
<1> USE People DEF ThreadInv, ThreadPoints, FlusherPoints
<1>1. CASE QuietEffect
  BY <1>1, <1>i DEF QuietEffect
<1>2. ASSUME NEW t \in Actors, NEW x \in Spans, AddEffect(t, x) PROVE ThreadInv'
  <2>1. \/ /\ span'[t] = x /\ x # None /\ pc'[t] = "append"
           /\ pc[t] = "idle" /\ t \in Threads
           /\ \A b \in Actors \ {t} : span'[b] = span[b]
        \/ UNCHANGED <<span, pc>>
    BY <1>2, <1>i DEF AddEffect, TypeThreads
  <2>2. /\ UNCHANGED envelopes /\ \A b \in Threads \ {t} : pc'[b] = pc[b]
        /\ pc'[Flusher] = pc[Flusher] \/ (pc[Flusher] = "none" /\ pc'[Flusher] = "wait")
    BY <1>2 DEF AddEffect
  <2> QED
    BY <1>i, <2>1, <2>2
<1>3. ASSUME NEW t \in Threads, NEW x \in Spans, NEW tr \in Traces, AppendEffect(t, x, tr)
      PROVE  ThreadInv'
  <2>1. /\ span'[t] = None /\ \A b \in Actors \ {t} : span'[b] = span[b]
        /\ UNCHANGED envelopes
        /\ pc'[t] \in {"idle", "notify"} /\ \A b \in Actors \ {t} : pc'[b] = pc[b]
        /\ pc[t] = "append"
    BY <1>3, <1>i DEF AppendEffect, TypeThreads
  <2> QED
    BY <1>i, <2>1
<1>4. ASSUME NEW t \in Actors, NEW deleted \in SUBSET Traces, NEW failed \in BOOLEAN,
             FlushEffect(t, deleted, failed)
      PROVE  ThreadInv'
  <2>1. /\ \A b \in Actors \ {t} : envelopes'[b] = envelopes[b] /\ pc'[b] = pc[b]
        /\ envelopes'[t] = envelopes[t] \/ pc'[t] \in {"capture", "sendpending"}
        /\ pc[t] \in {"flush", "pending", "full"} /\ UNCHANGED span
        /\ IF t \in Threads THEN pc'[t] \in {"idle", "capture"}
                            ELSE pc'[t] \in {"wait", "capture", "sendpending"}
    BY <1>4, <1>i DEF FlushEffect, TypeThreads
  <2> QED
    BY <1>i, <2>1
<1>5. ASSUME NEW t \in Actors, CaptureEffect(t) PROVE ThreadInv'
  <2>1. /\ \A b \in Actors \ {t} : envelopes'[b] = envelopes[b] /\ pc'[b] = pc[b]
        /\ envelopes'[t] = {} \/ pc'[t] = pc[t]
        /\ pc[t] \in {"capture", "sendpending"} /\ UNCHANGED span
        /\ pc'[t] = pc[t] \/ (t \in Threads /\ pc'[t] = "idle")
                          \/ (t = Flusher /\ pc'[t] \in {"wait", "full"})
    BY <1>5, <1>i DEF CaptureEffect, TypeThreads
  <2> QED
    BY <1>i, <2>1
<1>6. CASE ForkEffect
  BY <1>6, <1>i DEF ForkEffect
<1>7. CASE UNCHANGED vars
  BY <1>7, <1>i DEF vars
<1> QED
  BY <1>1, <1>2, <1>3, <1>4, <1>5, <1>6, <1>7, Effects

LEMMA BucketStep == IInv /\ [Next]_vars => BucketInv'
<1> SUFFICES ASSUME IInv, [Next]_vars PROVE BucketInv'
  OBVIOUS
<1>i. BucketInv /\ TypeBuckets
  BY Types DEF IInv
<1>1. CASE QuietEffect
  BY <1>1, <1>i DEF QuietEffect, BucketInv
<1>2. ASSUME NEW t \in Actors, NEW x \in Spans, AddEffect(t, x) PROVE BucketInv'
  BY <1>2, <1>i DEF AddEffect, BucketInv
<1>3. ASSUME NEW t \in Threads, NEW x \in Spans, NEW tr \in Traces,
             x = span[t], tr = TraceOf[x], AppendEffect(t, x, tr)
      PROVE  BucketInv'
  <2>1. CASE UNCHANGED bucket
    BY <1>i, <2>1 DEF BucketInv
  <2>2. CASE bucket' = [bucket EXCEPT ![tr] = Append(bucket[tr], x)]
    <3>1. /\ \A other \in Traces \ {tr} : bucket'[other] = bucket[other]
          /\ bucket'[tr] = Append(bucket[tr], x) /\ bucket[tr] \in Seq(Spans)
      BY <1>i, <2>2 DEF TypeBuckets
    <3>2. x \notin Members(bucket[tr])
      BY <1>3, People DEF IInv, FateInv, Held, InBucket
    <3>3. ASSUME NEW i \in DOMAIN bucket'[tr], NEW j \in DOMAIN bucket'[tr]
          PROVE  /\ TraceOf[bucket'[tr][i]] = tr
                 /\ bucket'[tr][i] = bucket'[tr][j] => i = j
      <4> DEFINE s == bucket[tr]
      <4>1. /\ \A k \in DOMAIN s : TraceOf[s[k]] = tr
            /\ \A k, l \in DOMAIN s : s[k] = s[l] => k = l
            /\ \A k \in DOMAIN s : s[k] # x
        BY <1>i, <3>2 DEF BucketInv, Members
      <4>2. /\ DOMAIN bucket'[tr] = 1..Len(s) + 1 /\ DOMAIN s = 1..Len(s) /\ Len(s) \in Nat
            /\ \A k \in DOMAIN s : bucket'[tr][k] = s[k]
            /\ bucket'[tr][Len(s) + 1] = x
        BY <3>1, Appended
      <4> HIDE DEF s
      <4>3. /\ i \in DOMAIN s \/ i = Len(s) + 1
            /\ j \in DOMAIN s \/ j = Len(s) + 1
        BY <3>3, <4>2
      <4> QED
        BY <1>3, <4>1, <4>2, <4>3
    <3>4. ASSUME NEW other \in Traces \ {tr},
                 NEW i \in DOMAIN bucket'[other], NEW j \in DOMAIN bucket'[other]
          PROVE  /\ TraceOf[bucket'[other][i]] = other
                 /\ bucket'[other][i] = bucket'[other][j] => i = j
      BY <1>i, <3>1, <3>4 DEF BucketInv
    <3> QED
      BY <3>3, <3>4 DEF BucketInv
  <2> QED
    BY <1>3, <2>1, <2>2 DEF AppendEffect, data
<1>4. ASSUME NEW t \in Actors, NEW deleted \in SUBSET Traces, NEW failed \in BOOLEAN,
             FlushEffect(t, deleted, failed)
      PROVE  BucketInv'
  <2>1. \A tr \in Traces : bucket'[tr] = bucket[tr] \/ bucket'[tr] = <<>>
    BY <1>4 DEF FlushEffect
  <2> QED
    BY <1>i, <2>1 DEF BucketInv
<1>5. ASSUME NEW t \in Actors, CaptureEffect(t) PROVE BucketInv'
  BY <1>5, <1>i DEF CaptureEffect, BucketInv
<1>6. CASE ForkEffect
  BY <1>6 DEF ForkEffect, NoSpans, BucketInv
<1>7. CASE UNCHANGED vars
  BY <1>7, <1>i DEF vars, data, BucketInv
<1> QED
  BY <1>1, <1>2, <1>3, <1>4, <1>5, <1>6, <1>7, Effects

-----------------------------------------------------------------------------
(* A span is in the bucket of its trace alone.                             *)
LEMMA OwnBucket ==
  ASSUME BucketInv, NEW tr \in Traces, NEW x \in Members(bucket[tr])
  PROVE  TraceOf[x] = tr
BY DEF BucketInv, Members

(* What a step does to where spans are is enough to show that each is in   *)
(* one place still: those of xs change places.                             *)
FateOf(y) ==
  /\ y \notin added \ inherited =>
       ~InBucket(y) /\ ~Held(y) /\ ~Packed(y) /\ ~Met(y)
  /\ y \in added \ inherited => InBucket(y) \/ Held(y) \/ Packed(y) \/ Met(y)
  /\ ~(InBucket(y) /\ Held(y)) /\ ~(InBucket(y) /\ Packed(y)) /\ ~(InBucket(y) /\ Met(y))
  /\ ~(Held(y) /\ Packed(y)) /\ ~(Held(y) /\ Met(y)) /\ ~(Packed(y) /\ Met(y))

LEMMA FateInvIs == /\ FateInv <=> \A y \in Spans : FateOf(y)
                   /\ FateInv' <=> \A y \in Spans : FateOf(y)'
BY DEF FateInv, FateOf

LEMMA AddFates ==
  ASSUME IInv, NEW t \in Actors, NEW x \in Spans, AddEffect(t, x)
  PROVE  FateInv' /\ OnceInv'
<1>i. /\ TypeThreads /\ TypeFates /\ OnceInv /\ \A y \in Spans : FateOf(y)
      /\ pc[t] = "idle" => span[t] = None
  BY Types, FateInvIs DEF IInv, ThreadInv
<1>1. /\ UNCHANGED <<bucket, envelopes, inherited>> /\ x \notin added
      /\ added' = added \cup {x} /\ inherited \subseteq added
  BY <1>i DEF AddEffect, TypeFates
<1>2. FateOf(x) /\ ~InBucket(x) /\ ~Held(x) /\ ~Packed(x) /\ ~Met(x)
  BY <1>i, <1>1 DEF FateOf
<1>3. \A y \in Spans : (InBucket(y)' <=> InBucket(y)) /\ (Packed(y)' <=> Packed(y))
  BY <1>1 DEF InBucket, Packed
<1>4. CASE pc[t] = "idle" /\ span' = [span EXCEPT ![t] = x] /\ UNCHANGED outcome
  <2>1. /\ \A b \in Actors : span'[b] = IF b = t THEN x ELSE span[b]
        /\ \A b \in Actors : span[b] # x
    BY <1>i, <1>2, <1>4 DEF TypeThreads, Held
  <2>2. \A y \in Spans : Held(y)' <=> Held(y) \/ y = x
    BY <1>i, <1>4, <2>1, People DEF Held
  <2>3. \A y \in Spans : Met(y)' <=> Met(y)
    BY <1>4 DEF Met
  <2>4. \A y \in Spans : FateOf(y)'
    BY <1>i, <1>1, <1>2, <1>3, <2>2, <2>3 DEF FateOf
  <2>5. OnceInv'
    BY <1>i, <1>1, <1>4, <2>1 DEF OnceInv
  <2> QED
    BY <2>4, <2>5, FateInvIs
<1>5. CASE UNCHANGED span /\ Meet({x}, "ignored")
  <2>1. /\ \A y \in Spans : outcome'[y] = IF y = x THEN {"ignored"} ELSE outcome[y]
    BY <1>2, <1>5 DEF Met, Meet
  <2>2. \A y \in Spans : Met(y)' <=> Met(y) \/ y = x
    BY <2>1 DEF Met
  <2>3. \A y \in Spans : Held(y)' <=> Held(y)
    BY <1>5 DEF Held
  <2>4. \A y \in Spans : FateOf(y)'
    BY <1>i, <1>1, <1>2, <1>3, <2>2, <2>3 DEF FateOf
  <2>5. OnceInv'
    BY <1>i, <1>1, <1>5, <2>1 DEF OnceInv
  <2> QED
    BY <2>4, <2>5, FateInvIs
<1> QED
  BY <1>4, <1>5 DEF AddEffect

LEMMA AppendFates ==
  ASSUME IInv, NEW t \in Threads, NEW x \in Spans, NEW tr \in Traces, x = span[t],
         tr = TraceOf[x], AppendEffect(t, x, tr)
  PROVE  FateInv' /\ OnceInv'
<1>i. /\ TypeThreads /\ TypeFates /\ TypeBuckets /\ OnceInv /\ t \in Actors /\ x # None
      /\ \A y \in Spans : FateOf(y)
  BY Types, People, FateInvIs DEF IInv
<1>1. UNCHANGED <<envelopes, added, inherited>> /\ span' = [span EXCEPT ![t] = None]
  BY DEF AppendEffect
<1>2. Held(x) /\ FateOf(x)
  BY <1>i DEF Held
<1>3. \A b \in Actors : span'[b] = IF b = t THEN None ELSE span[b]
  BY <1>i, <1>1 DEF TypeThreads
<1>4. \A y \in Spans : Held(y)' <=> Held(y) /\ y # x
  BY <1>i, <1>3, People DEF Held, OnceInv
<1>5. \A y \in Spans : Packed(y)' <=> Packed(y)
  BY <1>1 DEF Packed
<1>6. CASE UNCHANGED outcome /\ bucket' = [bucket EXCEPT ![tr] = Append(bucket[tr], x)]
  <2>1. /\ \A other \in Traces \ {tr} : Members(bucket'[other]) = Members(bucket[other])
        /\ Members(bucket'[tr]) = Members(bucket[tr]) \cup {x}
    BY <1>i, <1>6, Appended DEF TypeBuckets
  <2>2. \A y \in Spans : InBucket(y)' <=> InBucket(y) \/ y = x
    <3>1. \A y : InBucket(y)' <=> \E o \in Traces : y \in Members(bucket'[o])
      BY DEF InBucket, Members
    <3> QED
      BY <2>1, <3>1 DEF InBucket
  <2>3. \A y \in Spans : Met(y)' <=> Met(y)
    BY <1>6 DEF Met
  <2>4. \A y \in Spans : FateOf(y)'
    BY <1>i, <1>1, <1>2, <1>4, <1>5, <2>2, <2>3 DEF FateOf
  <2>5. OnceInv'
    BY <1>i, <1>1, <1>3, <1>6 DEF OnceInv
  <2> QED
    BY <2>4, <2>5, FateInvIs
<1>7. CASE UNCHANGED bucket /\ Meet({x}, "lost")
  <2>1. /\ \A y \in Spans : outcome'[y] = IF y = x THEN {"lost"} ELSE outcome[y]
    BY <1>2, <1>7 DEF Met, Meet, FateOf
  <2>2. \A y \in Spans : Met(y)' <=> Met(y) \/ y = x
    BY <2>1 DEF Met
  <2>3. \A y \in Spans : InBucket(y)' <=> InBucket(y)
    BY <1>7 DEF InBucket
  <2>4. \A y \in Spans : FateOf(y)'
    BY <1>i, <1>1, <1>2, <1>4, <1>5, <2>2, <2>3 DEF FateOf
  <2>5. OnceInv'
    BY <1>i, <1>1, <1>3, <2>1 DEF OnceInv
  <2> QED
    BY <2>4, <2>5, FateInvIs
<1> QED
  BY <1>6, <1>7 DEF AppendEffect, data

LEMMA FlushFates ==
  ASSUME IInv, NEW t \in Actors, NEW deleted \in SUBSET Traces, NEW failed \in BOOLEAN,
         FlushEffect(t, deleted, failed)
  PROVE  FateInv' /\ OnceInv'
<1> DEFINE taken == UNION {Members(bucket[tr]) : tr \in deleted}
           new == UNION {Slices(bucket[tr]) : tr \in deleted}
<1>i. /\ TypeThreads /\ TypeFates /\ TypeBuckets /\ OnceInv /\ BucketInv
      /\ envelopes[t] = {} /\ \A y \in Spans : FateOf(y)
  BY Types, FateInvIs DEF IInv, ThreadInv, FlushEffect
<1>1. UNCHANGED <<span, added, inherited>>
  BY DEF FlushEffect
<1>2. \A y \in Spans : Held(y)' <=> Held(y)
  BY <1>1 DEF Held
<1>3. \A y \in taken : InBucket(y) /\ y \in Spans /\ TraceOf[y] \in deleted
  <2>1. ASSUME NEW tr \in deleted, NEW y \in Members(bucket[tr])
        PROVE  InBucket(y) /\ y \in Spans /\ TraceOf[y] \in deleted
    BY <1>i, OwnBucket DEF InBucket, Members, TypeBuckets
  <2> QED
    BY <2>1
<1>4. \A y \in Spans : InBucket(y)' <=> InBucket(y) /\ y \notin taken
  <2>1. \A y : InBucket(y)' <=> \E o \in Traces : y \in Members(bucket'[o])
    BY DEF InBucket, Members
  <2>2. \A o \in Traces : IF o \in deleted THEN Members(bucket'[o]) = {}
                                           ELSE Members(bucket'[o]) = Members(bucket[o])
    BY NoMembers DEF FlushEffect
  <2>3. \A y : InBucket(y) <=> \E o \in Traces : y \in Members(bucket[o])
    BY DEF InBucket
  <2>4. ASSUME NEW y \in taken, NEW o \in Traces \ deleted PROVE y \notin Members(bucket[o])
    BY <1>3, <1>i, OwnBucket
  <2> QED
    BY <2>1, <2>2, <2>3, <2>4
<1>5. \A y \in taken : FateOf(y) /\ ~Held(y) /\ ~Packed(y) /\ ~Met(y)
  BY <1>i, <1>3 DEF FateOf
<1>6. CASE UNCHANGED outcome /\ envelopes' = [envelopes EXCEPT ![t] = new]
  <2>1. \A b \in Actors : envelopes'[b] = IF b = t THEN new ELSE envelopes[b]
    BY <1>i, <1>6 DEF TypeThreads
  <2>2. ASSUME NEW tr \in deleted
        PROVE  /\ \A e \in Slices(bucket[tr]) : e \subseteq Members(bucket[tr])
               /\ \A y \in Members(bucket[tr]) : \E e \in Slices(bucket[tr]) : y \in e
               /\ \A e, f \in Slices(bucket[tr]) : e \cap f # {} => e = f
    <3>1. bucket[tr] \in Seq(Spans)
      BY <1>i DEF TypeBuckets
    <3>2. \A i, j \in DOMAIN bucket[tr] : bucket[tr][i] = bucket[tr][j] => i = j
      BY <1>i DEF BucketInv
    <3> QED
      BY <3>1, <3>2, SlicesPartition
  <2>3. /\ \A e \in new : e \subseteq taken
        /\ \A y \in taken : \E e \in new : y \in e
    <3>1. ASSUME NEW tr \in deleted, NEW e \in Slices(bucket[tr]) PROVE e \subseteq taken
      BY <2>2
    <3>2. ASSUME NEW tr \in deleted, NEW y \in Members(bucket[tr])
          PROVE  \E e \in new : y \in e
      BY <2>2
    <3> QED
      BY <3>1, <3>2
  <2>4. ASSUME NEW e \in new, NEW f \in new, e \cap f # {} PROVE e = f
    <3>1. PICK tr \in deleted, ur \in deleted : e \in Slices(bucket[tr]) /\ f \in Slices(bucket[ur])
      OBVIOUS
    <3>2. PICK y : y \in e /\ y \in f
      BY <2>4
    <3>3. y \in Members(bucket[tr]) /\ y \in Members(bucket[ur])
      BY <2>2, <3>1, <3>2
    <3>4. tr = ur
      BY <1>i, <3>3, OwnBucket
    <3> QED
      BY <2>2, <2>4, <3>1, <3>4
  <2> HIDE DEF taken, new
  <2>5. \A y \in Spans : Packed(y)' <=> Packed(y) \/ y \in taken
    <3>1. \A y : Packed(y)' <=> \E b \in Actors : \E e \in envelopes'[b] : y \in e
      BY DEF Packed
    <3>2. \A y : Packed(y) <=> \E b \in Actors : \E e \in envelopes[b] : y \in e
      BY DEF Packed
    <3> QED
      BY <1>i, <2>1, <2>3, <3>1, <3>2
  <2>6. \A y \in Spans : Met(y)' <=> Met(y)
    BY <1>6 DEF Met
  <2>7. \A y \in Spans : FateOf(y)'
    BY <1>i, <1>1, <1>2, <1>3, <1>4, <1>5, <2>5, <2>6 DEF FateOf
  <2>8. ASSUME NEW b \in Actors, NEW c \in Actors, NEW e \in envelopes'[b],
               NEW f \in envelopes'[c], e \cap f # {}
        PROVE  b = c /\ e = f
    <3>1. CASE b = t /\ c = t
      BY <2>1, <2>4, <2>8, <3>1
    <3>2. CASE b # t /\ c # t
      BY <1>i, <2>1, <2>8, <3>2 DEF OnceInv
    <3>3. ASSUME NEW d \in Actors \ {t}, NEW g \in envelopes[d], NEW h \in new, g \cap h # {}
          PROVE  FALSE
      <4>1. PICK y : y \in g /\ y \in h
        BY <3>3
      <4>2. y \in taken /\ Packed(y)
        BY <2>3, <4>1 DEF Packed
      <4> QED
        BY <1>5, <4>2
    <3> QED
      BY <2>1, <2>8, <3>1, <3>2, <3>3
  <2>9. OnceInv'
    BY <1>i, <1>1, <1>6, <2>8 DEF OnceInv
  <2> QED
    BY <2>7, <2>9, FateInvIs
<1>7. CASE UNCHANGED envelopes /\ Meet(taken, "vanished")
  <2> HIDE DEF taken
  <2>1. \A y \in Spans : outcome'[y] = IF y \in taken THEN {"vanished"} ELSE outcome[y]
    BY <1>5, <1>7 DEF Met, Meet
  <2>2. \A y \in Spans : Met(y)' <=> Met(y) \/ y \in taken
    BY <2>1 DEF Met
  <2>3. \A y \in Spans : Packed(y)' <=> Packed(y)
    BY <1>7 DEF Packed
  <2>4. \A y \in Spans : FateOf(y)'
    BY <1>i, <1>1, <1>2, <1>3, <1>4, <1>5, <2>2, <2>3 DEF FateOf
  <2>5. OnceInv'
    BY <1>i, <1>1, <1>7, <2>1 DEF OnceInv
  <2> QED
    BY <2>4, <2>5, FateInvIs
<1> QED
  BY <1>6, <1>7 DEF FlushEffect

LEMMA CaptureFates ==
  ASSUME IInv, NEW t \in Actors, CaptureEffect(t)
  PROVE  FateInv' /\ OnceInv'
<1>i. /\ TypeThreads /\ TypeFates /\ OnceInv /\ \A y \in Spans : FateOf(y)
  BY Types, FateInvIs DEF IInv
<1>1. UNCHANGED <<bucket, span, added, inherited>>
  BY DEF CaptureEffect
<1>2. \A y \in Spans : (InBucket(y)' <=> InBucket(y)) /\ (Held(y)' <=> Held(y))
  BY <1>1 DEF InBucket, Held
(* Some of the thread's envelopes go, and their spans meet an outcome.     *)
<1>3. ASSUME NEW gone \in SUBSET envelopes[t], NEW o, Meet(UNION gone, o),
             envelopes' = [envelopes EXCEPT ![t] = envelopes[t] \ gone]
      PROVE  FateInv' /\ OnceInv'
  <2> DEFINE taken == UNION gone
  <2>1. \A b \in Actors : envelopes'[b] = IF b = t THEN envelopes[t] \ gone ELSE envelopes[b]
    BY <1>i, <1>3 DEF TypeThreads
  <2>2. \A y \in taken : Packed(y) /\ y \in Spans
    BY <1>i DEF Packed, TypeThreads
  <2>3. \A y \in taken : FateOf(y) /\ ~Met(y)
    BY <1>i, <2>2 DEF FateOf
  <2>4. \A y \in taken : \A b \in Actors : \A e \in envelopes'[b] : y \notin e
    <3>1. ASSUME NEW y \in taken, NEW b \in Actors, NEW e \in envelopes'[b], y \in e
          PROVE  FALSE
      <4>1. PICK f \in gone : y \in f
        OBVIOUS
      <4>2. e \in envelopes[b] /\ f \in envelopes[t] /\ e \cap f # {}
        BY <2>1, <3>1, <4>1
      <4>3. b = t /\ e = f
        BY <1>i, <4>2 DEF OnceInv
      <4> QED
        BY <2>1, <4>1, <4>3
    <3> QED
      BY <3>1
  <2>5. \A b \in Actors : \A e \in envelopes[b] : e \in envelopes'[b] \/ e \subseteq taken
    BY <2>1
  <2>6. \A b \in Actors : envelopes'[b] \subseteq envelopes[b]
    BY <2>1
  <2>7. \A y \in Spans : outcome'[y] = IF y \in taken THEN {o} ELSE outcome[y]
    BY <1>3, <2>3 DEF Met, Meet
  <2> HIDE DEF taken
  <2>8. \A y \in Spans : Packed(y)' <=> Packed(y) /\ y \notin taken
    BY <2>4, <2>5, <2>6 DEF Packed
  <2>9. \A y \in Spans : Met(y)' <=> Met(y) \/ y \in taken
    BY <2>7 DEF Met
  <2>10. \A y \in Spans : FateOf(y)'
    BY <1>i, <1>1, <1>2, <2>2, <2>8, <2>9 DEF FateOf
  <2>11. OnceInv'
    BY <1>i, <1>1, <2>6, <2>7 DEF OnceInv
  <2> QED
    BY <2>10, <2>11, FateInvIs
<1>4. CASE UNCHANGED <<envelopes, outcome>>
  <2>1. \A y \in Spans : (Packed(y)' <=> Packed(y)) /\ (Met(y)' <=> Met(y))
    BY <1>4 DEF Packed, Met
  <2>2. \A y \in Spans : FateOf(y)'
    BY <1>i, <1>1, <1>2, <2>1 DEF FateOf
  <2>3. OnceInv'
    BY <1>i, <1>1, <1>4 DEF OnceInv
  <2> QED
    BY <2>2, <2>3, FateInvIs
<1>5. ASSUME NEW e \in envelopes[t], Meet(e, "captured"),
             envelopes' = [envelopes EXCEPT ![t] = envelopes[t] \ {e}]
      PROVE  FateInv' /\ OnceInv'
  <2>1. UNION {e} = e /\ {e} \in SUBSET envelopes[t]
    OBVIOUS
  <2> QED
    BY <1>3, <1>5, <2>1
<1>6. CASE envelopes' = [envelopes EXCEPT ![t] = {}] /\ Meet(UNION envelopes[t], "vanished")
  <2>1. envelopes[t] \ envelopes[t] = {} /\ envelopes[t] \in SUBSET envelopes[t]
    OBVIOUS
  <2> QED
    BY <1>3, <1>6, <2>1
<1> QED
  BY <1>4, <1>5, <1>6 DEF CaptureEffect

LEMMA FateStep == IInv /\ [Next]_vars => FateInv' /\ OnceInv'
<1> SUFFICES ASSUME IInv, [Next]_vars PROVE FateInv' /\ OnceInv'
  OBVIOUS
<1>1. CASE UNCHANGED <<bucket, span, envelopes, outcome, added, inherited>>
  BY <1>1 DEF IInv, FateInv, OnceInv, InBucket, Held, Packed, Met
<1>2. CASE ForkEffect
  <2>1. \A y \in Spans : ~InBucket(y)' /\ ~Held(y)' /\ ~Packed(y)' /\ ~Met(y)'
    BY <1>2, People, NoMembers DEF ForkEffect, NoSpans, InBucket, Held, Packed, Met, Members
  <2>2. added' \ inherited' = {}
    BY <1>2 DEF ForkEffect
  <2>3. FateInv'
    BY <2>1, <2>2 DEF FateInv
  <2>4. OnceInv'
    BY <1>2 DEF ForkEffect, OnceInv
  <2> QED
    BY <2>3, <2>4
<1> QED
  BY <1>1, <1>2, Effects, AddFates, AppendFates, FlushFates, CaptureFates
  DEF QuietEffect, vars, data, past

-----------------------------------------------------------------------------
(* What makes a bucket full.                                               *)
LEMMA WakeStep == IInv /\ [Next]_vars => FullBucketWakes'
<1> SUFFICES ASSUME IInv, [Next]_vars PROVE TriggeredPending' /\ PendingWakes'
  BY DEF FullBucketWakes
<1>i. /\ TypeBuckets /\ TypePoints /\ TriggeredPending /\ PendingWakes /\ ThreadInv
  BY Types DEF IInv, FullBucketWakes
<1>t. \A tr \in Traces : Triggered(tr) => tr \in Keys
  <2>1. \A tr \in Traces : bucket[tr] = <<>> =>
          Members(bucket[tr]) = {} /\ ~(Len(bucket[tr]) >= MaxBeforeFlush)
    BY NoMembers, Thresholds
  <2> QED
    BY <2>1 DEF Triggered, Keys
<1>s. ASSUME UNCHANGED <<bucket, size, pending, left>> PROVE TriggeredPending'
  BY <1>s, <1>i DEF TriggeredPending, Triggered
<1>1. CASE Quiet /\ QuietEffect
  <2>1. UNCHANGED <<bucket, size, pending, left>>
    BY <1>1 DEF QuietEffect
  <2>2. PendingWakes'
    <3>1. ASSUME NEW t \in Threads, Notify(t) PROVE PendingWakes'
      BY <3>1 DEF Notify, PendingWakes
    <3>2. ASSUME NEW t \in Threads, Flush(t) PROVE PendingWakes'
      <4>1. /\ pc[t] = "idle" /\ UNCHANGED <<running, pending, event>>
            /\ \A b \in Actors \ {t} : pc'[b] = pc[b]
        BY <3>2, <1>i, People, Moves DEF Flush, data, Points, ThreadPoints
      <4> QED
        BY <1>i, <4>1 DEF PendingWakes
    <3>3. ASSUME NEW t \in Threads, Kill(t) PROVE PendingWakes'
      BY <3>3 DEF Kill, PendingWakes
    <3>4. CASE Wait
      <4>1. /\ pc[Flusher] = "wait" /\ UNCHANGED <<running, pending, event>>
            /\ pc'[Flusher] = (IF running THEN "clear" ELSE "dead")
        BY <3>4, <1>i, People, Moves DEF Wait, WaitUntil, data, Points, FlusherPoints
      <4> QED
        BY <1>i, <4>1, People DEF PendingWakes
    <3>5. CASE Clear
      <4>1. pc'[Flusher] = "pending"
        BY <3>5, <1>i, People, Moves DEF Clear, Points, FlusherPoints
      <4> QED
        BY <4>1, People DEF PendingWakes
    <3>6. CASE Tick
      BY <3>6, <1>i DEF Tick, PendingWakes, data
    <3> QED
      BY <1>1, <3>1, <3>2, <3>3, <3>4, <3>5, <3>6 DEF Quiet
  <2> QED
    BY <1>s, <2>1, <2>2
<1>2. ASSUME NEW t \in Actors, NEW x \in Spans, AddEffect(t, x)
      PROVE  TriggeredPending' /\ PendingWakes'
  <2>1. /\ UNCHANGED <<bucket, size, pending, left, event>>
        /\ pc' = pc \/ (pc[t] = "idle" /\ t \in Threads)
        /\ \A b \in Threads \ {t} : pc'[b] = pc[b]
        /\ pc'[Flusher] = pc[Flusher] \/ pc[Flusher] = "none"
        /\ running' => running
    BY <1>2 DEF AddEffect
  <2>2. PendingWakes'
    BY <1>i, <2>1, People DEF PendingWakes
  <2> QED
    BY <1>s, <2>1, <2>2
<1>3. ASSUME NEW t \in Threads, NEW x \in Spans, NEW tr \in Traces, AppendEffect(t, x, tr)
      PROVE  TriggeredPending' /\ PendingWakes'
  <2>1. /\ UNCHANGED <<event, running>> /\ pc[t] = "append"
        /\ \A b \in Actors \ {t} : pc'[b] = pc[b]
    BY <1>3 DEF AppendEffect
  <2>2. CASE UNCHANGED data
    <3>1. PendingWakes'
      BY <1>i, <2>1, <2>2 DEF PendingWakes, data
    <3> QED
      BY <1>s, <2>2, <3>1 DEF data
  <2>3. CASE ~UNCHANGED data
    <3> DEFINE s == Append(bucket[tr], x)
               bytes == size[tr] + SizeOf[x]
    <3>1. /\ \A other \in Traces \ {tr} : bucket'[other] = bucket[other] /\ size'[other] = size[other]
          /\ bucket'[tr] = s /\ size'[tr] = bytes
          /\ IF Enough(s, bytes, x)
             THEN pending' = pending \cup {tr} /\ left' = left \ {tr} /\ pc'[t] = "notify"
             ELSE UNCHANGED <<pending, left>>
      BY <1>3, <1>i, <2>3 DEF AppendEffect, TypeBuckets
    <3>2. Members(s) = Members(bucket[tr]) \cup {x}
      BY <1>i, Appended DEF TypeBuckets
    <3>3. Triggered(tr)' => Enough(s, bytes, x) \/ Triggered(tr)
      <4>1. Triggered(tr)' => \/ Members(s) \cap Segments # {}
                              \/ Len(s) >= MaxBeforeFlush \/ bytes >= MaxBytesBeforeFlush
        BY <3>1 DEF Triggered, Members
      <4> QED
        BY <3>2, <4>1 DEF Triggered, Enough
    <3>4. \A other \in Traces \ {tr} : Triggered(other)' <=> Triggered(other)
      BY <3>1 DEF Triggered, Members
    <3> HIDE DEF s, bytes
    <3>5. TriggeredPending'
      <4>1. ASSUME NEW other \in Traces, Triggered(other)'
            PROVE  other \in pending' \cup left'
        BY <1>i, <3>1, <3>3, <3>4, <4>1 DEF TriggeredPending
      <4> QED
        BY <4>1 DEF TriggeredPending
    <3>6. PendingWakes'
      <4>1. CASE Enough(s, bytes, x)
        BY <3>1, <4>1, People DEF PendingWakes
      <4>2. CASE ~Enough(s, bytes, x)
        BY <1>i, <2>1, <3>1, <4>2 DEF PendingWakes
      <4> QED
        BY <4>1, <4>2
    <3> QED
      BY <3>5, <3>6
  <2> QED
    BY <2>2, <2>3
<1>4. ASSUME NEW t \in Actors, NEW deleted \in SUBSET Traces, NEW failed \in BOOLEAN,
             FlushEffect(t, deleted, failed)
      PROVE  TriggeredPending' /\ PendingWakes'
  <2>1. /\ \A tr \in deleted : bucket'[tr] = <<>>
        /\ \A tr \in Traces \ deleted : bucket'[tr] = bucket[tr] /\ size'[tr] = size[tr]
        /\ pending' = {} /\ (failed \/ pending \cap Keys \subseteq deleted)
        /\ left' = IF failed THEN (left \cup pending) \ deleted ELSE left \ deleted
    BY <1>4 DEF FlushEffect
  <2>2. ASSUME NEW tr \in Traces, Triggered(tr)' PROVE tr \in pending' \cup left'
    <3>1. tr \notin deleted
      <4>1. bucket'[tr] = <<>> => ~Triggered(tr)'
        <5>1. bucket'[tr] = <<>> => Members(bucket'[tr]) = {} /\ ~(Len(bucket'[tr]) >= MaxBeforeFlush)
          BY NoMembers, Thresholds
        <5>2. Triggered(tr)' <=> \/ Members(bucket'[tr]) \cap Segments # {}
                                 \/ Len(bucket'[tr]) >= MaxBeforeFlush
                                 \/ size'[tr] >= MaxBytesBeforeFlush /\ bucket'[tr] # <<>>
          BY DEF Triggered, Members
        <5> QED
          BY <5>1, <5>2
      <4> QED
        BY <2>1, <2>2, <4>1
    <3>2. Triggered(tr)
      BY <2>1, <2>2, <3>1 DEF Triggered, Members
    <3>3. tr \in Keys /\ tr \in pending \cup left
      BY <1>i, <1>t, <3>2 DEF TriggeredPending
    <3> QED
      BY <2>1, <3>1, <3>3
  <2> QED
    BY <2>1, <2>2 DEF TriggeredPending, PendingWakes
<1>5. ASSUME NEW t \in Actors, CaptureEffect(t) PROVE TriggeredPending' /\ PendingWakes'
  <2>1. /\ UNCHANGED <<bucket, size, pending, left, event, running>>
        /\ pc[t] \in {"capture", "sendpending"} /\ \A b \in Actors \ {t} : pc'[b] = pc[b]
    BY <1>5 DEF CaptureEffect
  <2>2. PendingWakes'
    BY <1>i, <2>1 DEF PendingWakes
  <2> QED
    BY <1>s, <2>1, <2>2
<1>6. CASE ForkEffect
  <2>1. \A tr \in Traces : ~Triggered(tr)'
    <3>1. ASSUME NEW tr \in Traces PROVE bucket'[tr] = <<>>
      BY <1>6 DEF ForkEffect, NoSpans
    <3>2. \A tr \in Traces : Members(bucket'[tr]) = {} /\ ~(Len(bucket'[tr]) >= MaxBeforeFlush)
      BY <3>1, NoMembers, Thresholds
    <3>3. \A tr \in Traces : Triggered(tr)' <=>
             \/ Members(bucket'[tr]) \cap Segments # {}
             \/ Len(bucket'[tr]) >= MaxBeforeFlush
             \/ size'[tr] >= MaxBytesBeforeFlush /\ bucket'[tr] # <<>>
      BY DEF Triggered, Members
    <3> QED
      BY <3>1, <3>2, <3>3
  <2> QED
    BY <1>6, <2>1 DEF ForkEffect, TriggeredPending, PendingWakes
<1>7. CASE UNCHANGED vars
  BY <1>7, <1>i, <1>s DEF vars, data, PendingWakes
<1> QED
  BY <1>1, <1>2, <1>3, <1>4, <1>5, <1>6, <1>7, Effects

LEMMA Inductive == IInv /\ [Next]_vars => IInv'
BY TypeStep, ThreadInvStep, BucketStep, FateStep, WakeStep DEF IInv

THEOREM Invariance == Spec => []IInv
BY Initially, Inductive, PTL DEF Spec

-----------------------------------------------------------------------------
(* The one place of a span, as the three counts of Places.                 *)
LEMMA CountAtMostOne ==
  ASSUME NEW S, \A a, b \in S : a = b
  PROVE  Cardinality(S) = IF S = {} THEN 0 ELSE 1
<1>1. CASE S = {}
  BY <1>1, FS_EmptySet
<1>2. ASSUME NEW a \in S PROVE Cardinality(S) = 1
  <2>1. S = {a}
    OBVIOUS
  <2> QED
    BY <2>1, FS_Singleton
<1> QED
  BY <1>1, <1>2

LEMMA Conserved == IInv => Conservation
<1> SUFFICES ASSUME IInv, NEW x \in added \ inherited
             PROVE  Places(x) + Cardinality(outcome[x]) = 1
  BY DEF Conservation
<1> DEFINE B == {tr \in Traces : x \in Members(bucket[tr])}
           H == {t \in Actors : span[t] = x}
           E == UNION {{<<t, e>> : e \in {f \in envelopes[t] : x \in f}} : t \in Actors}
           O == outcome[x]
<1>i. x \in Spans /\ x # None /\ BucketInv /\ FateInv /\ OnceInv
  BY People, Types DEF IInv, TypeFates
<1>1. \A a, b \in B : a = b
  BY <1>i, OwnBucket
<1>2. \A a, b \in H : a = b
  BY <1>i DEF OnceInv
<1>3. \A a, b \in E : a = b
  <2>1. ASSUME NEW t \in Actors, NEW u \in Actors, NEW e \in envelopes[t], NEW f \in envelopes[u],
               x \in e, x \in f
        PROVE  <<t, e>> = <<u, f>>
    BY <1>i, <2>1 DEF OnceInv
  <2> QED
    BY <2>1
<1>4. \A a, b \in O : a = b
  BY <1>i DEF OnceInv
<1>5. /\ B # {} <=> InBucket(x)
      /\ H # {} <=> Held(x)
      /\ E # {} <=> Packed(x)
      /\ O # {} <=> Met(x)
  <2>1. E # {} => Packed(x)
    BY DEF Packed
  <2>2. ASSUME NEW t \in Actors, NEW e \in envelopes[t], x \in e PROVE <<t, e>> \in E
    BY <2>2
  <2>3. Packed(x) => E # {}
    BY <2>2 DEF Packed
  <2>4. /\ B # {} <=> InBucket(x)
        /\ H # {} <=> Held(x)
        /\ O # {} <=> Met(x)
    BY DEF InBucket, Held, Met
  <2> QED
    BY <2>1, <2>3, <2>4
<1>6. Places(x) = Cardinality(B) + Cardinality(H) + Cardinality(E)
  BY DEF Places
<1> HIDE DEF B, H, E, O
<1>7. /\ Cardinality(B) = IF InBucket(x) THEN 1 ELSE 0
      /\ Cardinality(H) = IF Held(x) THEN 1 ELSE 0
      /\ Cardinality(E) = IF Packed(x) THEN 1 ELSE 0
      /\ Cardinality(O) = IF Met(x) THEN 1 ELSE 0
  BY <1>1, <1>2, <1>3, <1>4, <1>5, CountAtMostOne
<1>8. /\ InBucket(x) \/ Held(x) \/ Packed(x) \/ Met(x)
      /\ ~(InBucket(x) /\ Held(x)) /\ ~(InBucket(x) /\ Packed(x)) /\ ~(InBucket(x) /\ Met(x))
      /\ ~(Held(x) /\ Packed(x)) /\ ~(Held(x) /\ Met(x)) /\ ~(Packed(x) /\ Met(x))
  BY <1>i DEF FateInv
<1> QED
  BY <1>6, <1>7, <1>8 DEF O

(* For any threads, spans, limits and forks: every span that add() was     *)
(* called with in this process is in one place or has met one outcome, and *)
(* those of before a fork are never sent (_span_batcher.py:76-89, 127-151, *)
(* 185-244).                                                               *)
THEOREM SpansAreConserved == Spec => []SpansConserved
<1>1. IInv => NotDeliveredTwice
  <2>1. TypeOK => inherited \subseteq Spans
    BY DEF TypeOK
  <2> QED
    BY <2>1 DEF IInv, FateInv, Met, NotDeliveredTwice
<1>2. IInv => SpansConserved
  BY <1>1, Conserved DEF IInv, SpansConserved
<1> QED
  BY <1>2, Invariance, PTL

(* A bucket with its segment, or with enough spans or bytes, is marked to  *)
(* be flushed, unless a failed flush has left it, and a mark finds the     *)
(* flusher awake or wakes it (_span_batcher.py:95-103, 140-152).           *)
THEOREM FullBucketsAreSeen == Spec => []FullBucketWakes
<1>1. IInv => FullBucketWakes
  BY DEF IInv
<1> QED
  BY <1>1, Invariance, PTL

-----------------------------------------------------------------------------
(* A slice of a bucket has spans of one trace, one to MaxEnvelopeSize.     *)
LEMMA SliceFits ==
  ASSUME NEW s \in Seq(Spans), NEW tr, \A i \in DOMAIN s : TraceOf[s[i]] = tr,
         NEW e \in Slices(s)
  PROVE  Cardinality(e) \in 1..MaxEnvelopeSize /\ Cardinality({TraceOf[x] : x \in e}) = 1
<1> DEFINE M == MaxEnvelopeSize
<1>1. M \in Nat \ {0} /\ Len(s) \in Nat /\ DOMAIN s = 1..Len(s)
  BY Thresholds
<1>2. PICK b \in 0..Len(s) - 1 : e = {s[j] : j \in {k \in DOMAIN s : k > b /\ k <= b + M}}
  BY DEF Slices, SlicesOf
<1> HIDE DEF M
<1>3. b \in Nat /\ b + 1 \in DOMAIN s /\ b + 1 > b /\ b + 1 <= b + M
  BY <1>1
<1>4. s[b + 1] \in e
  BY <1>2, <1>3
<1>5. Cardinality(e) <= M /\ IsFiniteSet(e)
  <2> DEFINE J == b + 1..b + M
             f == [y \in e |-> CHOOSE j \in J : j \in DOMAIN s /\ s[j] = y]
  <2>1. \A y \in e : \E j \in J : j \in DOMAIN s /\ s[j] = y
    BY <1>1, <1>2, <1>3
  <2>2. \A y \in e : f[y] \in J /\ s[f[y]] = y
    BY <2>1
  <2>3. f \in [e -> J]
    BY <2>2
  <2> HIDE DEF f
  <2>4. f \in Injection(e, J)
    BY <2>2, <2>3 DEF Injection, IsInjective
  <2>5. IsFiniteSet(J) /\ Cardinality(J) = M
    <3>1. b + 1 \in Int /\ b + M \in Int /\ ~(b + 1 > b + M) /\ (b + M) - (b + 1) + 1 = M
      BY <1>1, <1>3
    <3> QED
      BY <3>1, FS_Interval
  <2> HIDE DEF J
  <2>6. IsFiniteSet(e) /\ Cardinality(e) <= Cardinality(J)
    BY <2>4, <2>5, FS_Injection
  <2> QED
    BY <2>5, <2>6
<1>6. Cardinality(e) \in Nat /\ Cardinality(e) # 0
  BY <1>4, <1>5, FS_CardinalityType, FS_EmptySet
<1>7. {TraceOf[x] : x \in e} = {tr}
  <2>1. \A x \in e : TraceOf[x] = tr
    BY <1>2
  <2> QED
    BY <1>4, <2>1
<1>8. Cardinality(e) \in 1..M
  BY <1>1, <1>5, <1>6
<1> QED
  BY <1>7, <1>8, FS_Singleton DEF M

(* For any sizes: no envelope has spans of two traces, or more of them     *)
(* than it may (_span_batcher.py:45-48, 207-210).                          *)
THEOREM EnvelopesAreFit == Spec => []EnvelopesFit
<1>1. Init => EnvelopesFit
  BY DEF Init, EnvelopesFit
<1>2. IInv /\ EnvelopesFit /\ [Next]_vars => EnvelopesFit'
  <2> SUFFICES ASSUME IInv, EnvelopesFit, [Next]_vars PROVE EnvelopesFit'
    OBVIOUS
  <2>i. TypeThreads /\ TypeBuckets /\ BucketInv
    BY Types DEF IInv
  <2>1. ASSUME \A t \in Actors : envelopes'[t] \subseteq envelopes[t] PROVE EnvelopesFit'
    BY <2>1 DEF EnvelopesFit
  <2>2. ASSUME NEW t \in Actors, NEW deleted \in SUBSET Traces, NEW failed \in BOOLEAN,
               FlushEffect(t, deleted, failed)
        PROVE  EnvelopesFit'
    <3> DEFINE new == UNION {Slices(bucket[tr]) : tr \in deleted}
    <3>1. \/ envelopes' = envelopes
          \/ envelopes' = [envelopes EXCEPT ![t] = new]
      BY <2>2 DEF FlushEffect
    <3>2. \A b \in Actors : envelopes'[b] = envelopes[b] \/ envelopes'[b] = new
      BY <2>i, <3>1 DEF TypeThreads
    <3>3. ASSUME NEW tr \in deleted, NEW e \in Slices(bucket[tr])
          PROVE  /\ Cardinality(e) \in 1..MaxEnvelopeSize
                 /\ Cardinality({TraceOf[x] : x \in e}) = 1
      <4>1. bucket[tr] \in Seq(Spans) /\ \A i \in DOMAIN bucket[tr] : TraceOf[bucket[tr][i]] = tr
        BY <2>i DEF TypeBuckets, BucketInv
      <4> QED
        BY <4>1, SliceFits
    <3>4. \A e \in new : /\ Cardinality(e) \in 1..MaxEnvelopeSize
                         /\ Cardinality({TraceOf[x] : x \in e}) = 1
      BY <3>3
    <3> HIDE DEF new
    <3> QED
      BY <3>2, <3>4 DEF EnvelopesFit
  <2>3. ASSUME NEW t \in Actors, CaptureEffect(t) PROVE EnvelopesFit'
    BY <2>i, <2>1, <2>3 DEF CaptureEffect, TypeThreads
  <2> QED
    BY <2>1, <2>2, <2>3, Effects
    DEF QuietEffect, AddEffect, AppendEffect, ForkEffect, vars
<1> QED
  BY <1>1, <1>2, Invariance, PTL DEF Spec
-----------------------------------------------------------------------------
(* The sum of the sizes in a bucket: Bytes computes what any function that *)
(* has its partial sums ends with.  Two such functions do not differ in a  *)
(* smallest place, so they are the same.                                   *)
Sums(s, p) == p = [n \in 0..Len(s) |-> IF n = 0 THEN 0 ELSE p[n - 1] + SizeOf[s[n]]]

LEMMA Smallest ==
  ASSUME NEW X \in SUBSET Nat, X # {}
  PROVE  \E x \in X : \A y \in X : ~(y < x)
<1>1. PICK x \in X : \A y \in X : <<y, x>> \notin OpToRel(<, Nat)
  BY WFMin, NatLessThanWellFounded, Zenon
<1>2. \A y \in X : ~(y < x)
  BY <1>1, Zenon DEF OpToRel
<1> QED
  BY <1>2

LEMMA OneSum ==
  ASSUME NEW s \in Seq(Spans), NEW p, Sums(s, p), NEW q, Sums(s, q)
  PROVE  p = q
<1> DEFINE D == {n \in 0..Len(s) : p[n] # q[n]}
<1>1. Len(s) \in Nat
  OBVIOUS
<1>0. /\ \A n \in 0..Len(s) : p[n] = IF n = 0 THEN 0 ELSE p[n - 1] + SizeOf[s[n]]
      /\ \A n \in 0..Len(s) : q[n] = IF n = 0 THEN 0 ELSE q[n - 1] + SizeOf[s[n]]
      /\ DOMAIN p = 0..Len(s) /\ DOMAIN q = 0..Len(s)
  BY DEF Sums
<1>2. \A n \in 0..Len(s) : p[n] = q[n]
  <2> SUFFICES ASSUME D # {} PROVE FALSE
    OBVIOUS
  <2>1. D \subseteq Nat
    BY <1>1
  <2>2. PICK m \in D : \A k \in D : ~(k < m)
    <3> HIDE DEF D
    <3> QED
      BY <2>1, Smallest
  <2>3. m \in 0..Len(s) /\ p[m] # q[m]
    OBVIOUS
  <2>4. m # 0 /\ m - 1 \in 0..Len(s) /\ m - 1 < m
    BY <1>0, <1>1, <2>3
  <2>5. p[m - 1] = q[m - 1]
    BY <2>2, <2>4
  <2> QED
    BY <1>0, <2>3, <2>4, <2>5
<1>3. p = [n \in 0..Len(s) |-> p[n]] /\ q = [n \in 0..Len(s) |-> q[n]]
  BY DEF Sums
<1> QED
  BY <1>2, <1>3

LEMMA BytesIs ==
  ASSUME NEW s \in Seq(Spans), NEW p, Sums(s, p)
  PROVE  Bytes(s) = p[Len(s)]
<1> DEFINE upTo == CHOOSE f : f = [n \in 0..Len(s) |-> IF n = 0 THEN 0 ELSE f[n - 1] + SizeOf[s[n]]]
<1>1. Bytes(s) = upTo[Len(s)]
  BY DEF Bytes
<1>2. Sums(s, upTo)
  BY DEF Sums
<1> QED
  BY <1>1, <1>2, OneSum

(* What SizesExact says of a trace, with a witness of the partial sums.    *)
Summed(tr) == \E p : Sums(bucket[tr], p) /\ p[Len(bucket[tr])] = size[tr]

LEMMA NothingSummed ==
  ASSUME NEW tr \in Traces, bucket[tr] = <<>>, size[tr] = 0
  PROVE  Summed(tr)
<1> DEFINE p == [n \in 0..0 |-> 0]
<1>1. Sums(<<>>, p)
  <2>1. Len(<<>>) = 0 /\ \A n \in 0..0 : n = 0
    OBVIOUS
  <2> QED
    BY <2>1 DEF Sums
<1>2. p[Len(<<>>)] = 0
  OBVIOUS
<1> QED
  BY <1>1, <1>2 DEF Summed

LEMMA OneMoreSummed ==
  ASSUME NEW s \in Seq(Spans), NEW x \in Spans, NEW p, Sums(s, p)
  PROVE  \E q : Sums(Append(s, x), q) /\ q[Len(s) + 1] = p[Len(s)] + SizeOf[x]
<1> DEFINE L == Len(s)
           q == [n \in 0..L + 1 |-> IF n = L + 1 THEN p[L] + SizeOf[x] ELSE p[n]]
<1>1. L \in Nat /\ Len(Append(s, x)) = L + 1
  OBVIOUS
<1>2. Append(s, x)[L + 1] = x /\ \A n \in 1..L : Append(s, x)[n] = s[n]
  OBVIOUS
<1>3. \A n \in 0..L : p[n] = IF n = 0 THEN 0 ELSE p[n - 1] + SizeOf[s[n]]
  BY DEF Sums
<1>4. ASSUME NEW n \in 0..L + 1
      PROVE  q[n] = IF n = 0 THEN 0 ELSE q[n - 1] + SizeOf[Append(s, x)[n]]
  <2>1. CASE n = L + 1
    <3>1. n # 0 /\ n - 1 = L /\ L \in 0..L + 1 /\ L # L + 1
      BY <1>1, <2>1
    <3>2. q[L + 1] = p[L] + SizeOf[x] /\ q[L] = p[L]
      BY <1>1, <3>1
    <3>3. Append(s, x)[n] = x
      BY <1>2, <2>1
    <3> HIDE DEF q, L
    <3>4. q[n] = p[L] + SizeOf[x] /\ q[n - 1] = p[L]
      BY <2>1, <3>1, <3>2
    <3> QED
      BY <3>1, <3>3, <3>4
  <2>2. CASE n = 0
    <3>1. n \in 0..L /\ n # L + 1
      BY <1>1, <2>2
    <3> QED
      BY <1>3, <2>2, <3>1
  <2>3. CASE n \in 1..L
    <3>1. n \in 0..L /\ n # L + 1 /\ n # 0 /\ n - 1 \in 0..L + 1 /\ n - 1 # L + 1
      BY <1>1, <2>3
    <3>2. q[n] = p[n] /\ q[n - 1] = p[n - 1]
      BY <3>1
    <3> QED
      BY <1>2, <1>3, <2>3, <3>1, <3>2
  <2> QED
    BY <1>1, <2>1, <2>2, <2>3
<1>5. q[L + 1] = p[L] + SizeOf[x]
  BY <1>1
<1>6. q = [n \in 0..L + 1 |-> q[n]]
  OBVIOUS
<1> HIDE DEF q
<1>7. q = [n \in 0..L + 1 |-> IF n = 0 THEN 0 ELSE q[n - 1] + SizeOf[Append(s, x)[n]]]
  BY <1>4, <1>6
<1> QED
  BY <1>1, <1>5, <1>7 DEF Sums

LEMMA SumStep ==
  ASSUME IInv, \A tr \in Traces : Summed(tr), [Next]_vars
  PROVE  \A tr \in Traces : Summed(tr)'
<1>i. TypeBuckets
  BY Types DEF IInv
<1>1. ASSUME NEW tr \in Traces, bucket'[tr] = bucket[tr], size'[tr] = size[tr]
      PROVE  Summed(tr)'
  BY <1>1 DEF Summed
<1>2. ASSUME NEW tr \in Traces, bucket'[tr] = <<>>, size'[tr] = 0
      PROVE  Summed(tr)'
  <2> DEFINE p == [n \in 0..0 |-> 0]
  <2>1. Len(<<>>) = 0 /\ \A n \in 0..0 : n = 0
    OBVIOUS
  <2>2. Sums(<<>>, p) /\ p[Len(<<>>)] = 0
    BY <2>1 DEF Sums
  <2> QED
    BY <1>2, <2>2 DEF Summed
<1>3. ASSUME NEW t \in Threads, NEW x \in Spans, NEW tr \in Traces, AppendEffect(t, x, tr),
             NEW other \in Traces
      PROVE  Summed(other)'
  <2>1. CASE other # tr \/ UNCHANGED data
    BY <1>1, <1>3, <1>i, <2>1 DEF AppendEffect, TypeBuckets, data
  <2>2. CASE /\ other = tr /\ bucket' = [bucket EXCEPT ![tr] = Append(bucket[tr], x)]
             /\ size' = [size EXCEPT ![tr] = size[tr] + SizeOf[x]]
    <3>1. /\ bucket'[tr] = Append(bucket[tr], x) /\ size'[tr] = size[tr] + SizeOf[x]
          /\ bucket[tr] \in Seq(Spans)
      BY <1>i, <2>2 DEF TypeBuckets
    <3>2. PICK p : Sums(bucket[tr], p) /\ p[Len(bucket[tr])] = size[tr]
      BY DEF Summed
    <3>3. PICK q : /\ Sums(Append(bucket[tr], x), q)
                   /\ q[Len(bucket[tr]) + 1] = p[Len(bucket[tr])] + SizeOf[x]
      BY <1>3, <3>1, <3>2, OneMoreSummed
    <3>4. Len(bucket'[tr]) = Len(bucket[tr]) + 1
      BY <3>1
    <3> QED
      BY <2>2, <3>1, <3>2, <3>3, <3>4 DEF Summed
  <2> QED
    BY <1>3, <2>1, <2>2 DEF AppendEffect
<1>4. ASSUME NEW t \in Actors, NEW deleted \in SUBSET Traces, NEW failed \in BOOLEAN,
             FlushEffect(t, deleted, failed), NEW tr \in Traces
      PROVE  Summed(tr)'
  BY <1>1, <1>2, <1>4 DEF FlushEffect
<1>5. CASE ForkEffect
  BY <1>2, <1>5 DEF ForkEffect, NoSpans, NoSizes
<1>6. CASE UNCHANGED <<bucket, size>>
  BY <1>1, <1>6
<1> QED
  BY <1>3, <1>4, <1>5, <1>6, Effects DEF QuietEffect, AddEffect, CaptureEffect, vars, data

(* For any sizes: envelopes are within their limits, and the running size  *)
(* of a bucket is the sum of the sizes of the spans in it, so that bytes   *)
(* trigger a flush when they should (_span_batcher.py:138-144, 207-210,    *)
(* 240-241).                                                               *)
THEOREM WhatIsMeasuredFits == Spec => []SizesFit
<1> DEFINE SizeInv == \A tr \in Traces : Summed(tr)
<1>1. Init => SizeInv
  BY NothingSummed DEF Init, NoSpans, NoSizes
<1>2. IInv /\ SizeInv /\ [Next]_vars => SizeInv'
  BY SumStep
<1>3. IInv /\ SizeInv => SizesExact
  <2> SUFFICES ASSUME IInv, SizeInv, NEW tr \in Traces PROVE size[tr] = Bytes(bucket[tr])
    BY DEF SizesExact
  <2>1. bucket[tr] \in Seq(Spans)
    BY Types DEF IInv, TypeBuckets
  <2>2. PICK p : Sums(bucket[tr], p) /\ p[Len(bucket[tr])] = size[tr]
    BY DEF Summed
  <2> QED
    BY <2>1, <2>2, BytesIs
<1>4. Spec => []SizeInv
  <2> HIDE DEF SizeInv
  <2> QED
    BY <1>1, <1>2, Invariance, PTL DEF Spec
<1>5. EnvelopesFit /\ SizesExact => SizesFit
  BY DEF SizesFit
<1> QED
  BY <1>3, <1>4, <1>5, EnvelopesAreFit, Invariance, PTL
=============================================================================

-------------------------- MODULE HttpTransportProofs --------------------------
(***************************************************************************)
(* Theorems about HttpTransport for any application threads, items,        *)
(* envelopes, categories and limits, any size of the queue, and            *)
(* increments that are one step or three.  IInv says where the worker may  *)
(* be with what kind of job, which items are on their way, which losses    *)
(* are still to be counted, and that a loss which was counted is in one    *)
(* dictionary or one report.  What a thread in the middle of an increment  *)
(* has read, it may write back: so that is kept apart from the reports     *)
(* like the dictionary it was read from.                                   *)
(* Then theorems about the traces of Requests.                             *)
(***************************************************************************)
EXTENDS Requests, FiniteSetTheorems, SequenceTheorems, TLAPS

KindInv ==
  /\ wpc = "idle" => job = Report
  /\ wpc \in {"prepare", "attach", "serialize", "request"} => job.kind = "send"
  /\ wpc = "reports" => job \in {Report, Send({}, {})}
  /\ wpc = "build" /\ job.kind = "report" => job = Report
  /\ wpc = "submit" => job.items = {}
  /\ wpc \in {"build", "serialize", "request", "submit"} => todo[Worker] = {}

(* The items and the losses in the queue; no two jobs share any.           *)
Waiting == UNION {queue[i].items : i \in DOMAIN queue}
Queued  == UNION {Listed(queue[i].report) : i \in DOMAIN queue}
ReportQueued == \E i \in DOMAIN queue : queue[i].kind = "report"
QueueInv ==
  /\ \A i \in DOMAIN queue : queue[i].kind = "report" => queue[i] = Report
  /\ \A i, j \in DOMAIN queue : queue[i].items \cap queue[j].items # {} => i = j
  /\ \A i, j \in DOMAIN queue :
       Listed(queue[i].report) \cap Listed(queue[j].report) # {} => i = j

(* An item is in one place on its way, and has no fate before it leaves it.*)
FateInv ==
  /\ job.items \cap Waiting = {}
  /\ \A x \in Items :
       /\ x \in job.items \cup Waiting => x \in captured /\ fate[x] = {}
       /\ x \in captured \ (job.items \cup Waiting) => \E f \in Fates : fate[x] = {f}
       /\ x \notin captured => fate[x] = {}

LimitInv ==
  wpc \in {"attach", "serialize", "request"} \/ (wpc = "build" /\ job.kind = "send") =>
    /\ \A x \in job.items : ~IsDisabled(Category[x])
    /\ All \notin disabled

Reported == Listed(job.report) \cup delivered \cup spilled \cup Queued

LossInv ==
  /\ \A a \in Actors : \A l \in todo[a] : l \notin recorded /\ "lost" \in fate[l[1]]
  /\ \A l \in recorded : "lost" \in fate[l[1]]
  /\ \A a, b \in Actors : todo[a] \cap todo[b] # {} => a = b
  /\ Reported \subseteq recorded
  /\ atomic => recorded \subseteq Counted(counts) \cup Counted(swapped) \cup Reported

(* The losses that a dictionary holds, or that a thread has read from it   *)
(* and may write back.                                                     *)
Seen(dict) == {l \in Loss : \E a \in Actors : /\ reg[a] # None /\ reg[a].dict = dict
                                              /\ reg[a].seen # None /\ l \in reg[a].seen}
Current == Counted(counts) \cup Seen("current")
Swapped == Counted(swapped) \cup Seen("swapped")

DictInv ==
  /\ Current \cup Swapped \subseteq recorded
  /\ Current \cap Swapped = {}
  /\ (Current \cup Swapped) \cap Reported = {}
  /\ wpc # "build" => swapped = Empty
  /\ \A a \in Actors : reg[a] # None =>
       ~atomic /\ (wpc # "build" => reg[a].dict # "swapped")

RepInv ==
  /\ delivered \cap spilled = {}
  /\ (delivered \cup spilled) \cap (Listed(job.report) \cup Queued) = {}
  /\ Listed(job.report) \cap Queued = {}

(* What a flush() asked to be reported is waiting for its report, or out   *)
(* of the counters for good.                                               *)
ReportDue == ReportQueued \/ (wpc = "reports" /\ job.kind = "report")
FlushInv ==
  \A a \in Apps : /\ before[a] \subseteq recorded
                  /\ apc[a] = "flush" /\ asked[a] =>
                       ReportDue \/ before[a] \cap Current = {}

IInv == /\ TypeOK /\ KindInv /\ QueueInv /\ FateInv /\ LimitInv
        /\ LossInv /\ DictInv /\ RepInv /\ FlushInv

-----------------------------------------------------------------------------
(* A loss is an item and a category.                                       *)
LEMMA LossTypes ==
  ASSUME NEW l \in Loss
  PROVE  l[1] \in Items /\ l[2] \in Categories
BY ItemTypes DEF Loss

(* Dictionaries: a new value for a key, and the entries of a report.       *)
LEMMA DictTypes ==
  /\ Empty \in Dicts /\ Counted(Empty) = {}
  /\ \A d \in Dicts : /\ DOMAIN d \in SUBSET Categories
                      /\ d \in [DOMAIN d -> SUBSET Loss]
                      /\ Counted(d) \subseteq Loss
                      /\ Entries(d) \in SUBSET Entry /\ Listed(Entries(d)) = Counted(d)
<1>1. Empty \in Dicts /\ Counted(Empty) = {}
  <2>1. Empty \in [{} -> SUBSET Loss] /\ {} \in SUBSET Categories /\ DOMAIN Empty = {}
    BY DEF Empty
  <2> QED
    BY <2>1 DEF Dicts, Counted
<1>2. ASSUME NEW d \in Dicts
      PROVE  /\ DOMAIN d \in SUBSET Categories
             /\ d \in [DOMAIN d -> SUBSET Loss]
             /\ Counted(d) \subseteq Loss
             /\ Entries(d) \in SUBSET Entry /\ Listed(Entries(d)) = Counted(d)
  <2>1. PICK D \in SUBSET Categories : d \in [D -> SUBSET Loss]
    BY DEF Dicts
  <2>2. DOMAIN d = D
    BY <2>1
  <2>3. Entries(d) \in SUBSET Entry
    BY <2>1, <2>2 DEF Entries, Entry
  <2>4. ASSUME NEW l \in Listed(Entries(d)) PROVE l \in Counted(d)
    <3>1. PICK entry \in Entries(d) : l \in entry[2]
      BY DEF Listed
    <3>2. PICK c \in DOMAIN d : entry = <<c, d[c]>>
      BY DEF Entries
    <3> QED
      BY <3>1, <3>2 DEF Counted
  <2>5. ASSUME NEW l \in Counted(d) PROVE l \in Listed(Entries(d))
    <3>1. PICK c \in DOMAIN d : l \in d[c]
      BY DEF Counted
    <3>2. <<c, d[c]>> \in Entries(d) /\ <<c, d[c]>>[2] = d[c]
      BY DEF Entries
    <3> QED
      BY <3>1, <3>2 DEF Listed
  <2> QED
    BY <2>1, <2>2, <2>3, <2>4, <2>5 DEF Counted
<1> QED
  BY <1>1, <1>2

LEMMA PutCounts ==
  ASSUME NEW d \in Dicts, NEW c \in Categories, NEW v \in SUBSET Loss
  PROVE  /\ Put(d, c, v) \in Dicts
         /\ Counted(Put(d, c, v)) \subseteq Counted(d) \cup v
         /\ v \subseteq Counted(Put(d, c, v))
         /\ Value(d, c) \subseteq Counted(d) /\ Value(d, c) \subseteq Loss
         /\ Value(d, c) \subseteq v => Counted(d) \subseteq Counted(Put(d, c, v))
<1> DEFINE D == DOMAIN d \cup {c}
           p == [k \in D |-> IF k = c THEN v ELSE d[k]]
<1>1. DOMAIN d \in SUBSET Categories /\ d \in [DOMAIN d -> SUBSET Loss]
  BY DictTypes
<1>2. Put(d, c, v) = p
  BY DEF Put
<1>3. p \in [D -> SUBSET Loss] /\ D \in SUBSET Categories
  BY <1>1
<1>4. p \in Dicts
  BY <1>3 DEF Dicts
<1>5. DOMAIN p = D /\ p[c] = v /\ \A k \in DOMAIN d : k # c => p[k] = d[k]
  OBVIOUS
<1> HIDE DEF p
<1>6. Counted(p) \subseteq Counted(d) \cup v /\ v \subseteq Counted(p)
  BY <1>5 DEF Counted
<1>7. Value(d, c) \subseteq Counted(d) /\ Value(d, c) \subseteq Loss
  BY <1>1 DEF Value, Counted
<1>8. ASSUME Value(d, c) \subseteq v
      PROVE  Counted(d) \subseteq Counted(p)
  <2> SUFFICES ASSUME NEW k \in DOMAIN d, NEW l \in d[k] PROVE l \in Counted(p)
    BY DEF Counted
  <2>1. CASE k = c
    BY <1>5, <1>8, <2>1 DEF Value, Counted
  <2>2. CASE k # c
    BY <1>5, <2>2 DEF Counted
  <2> QED
    BY <2>1, <2>2
<1> QED
  BY <1>2, <1>4, <1>6, <1>7, <1>8

(* The queue after a submit() and after a get().                           *)
LEMMA Submitted ==
  ASSUME TypeOK, Room, NEW j \in Jobs, queue' = Append(queue, j)
  PROVE  /\ queue' \in Seq(Jobs) /\ Len(queue') <= QueueSize
         /\ \E n : /\ n \notin DOMAIN queue /\ DOMAIN queue' = DOMAIN queue \cup {n}
                   /\ queue'[n] = j
         /\ \A i \in DOMAIN queue : queue'[i] = queue[i]
<1>1. queue \in Seq(Jobs) /\ Len(queue) \in Nat /\ DOMAIN queue = 1..Len(queue)
  BY LenProperties DEF TypeOK
<1>2. /\ queue' \in Seq(Jobs) /\ Len(queue') = Len(queue) + 1
      /\ \A i \in 1..Len(queue) : queue'[i] = queue[i]
      /\ queue'[Len(queue) + 1] = j
  BY <1>1, AppendProperties
<1>3. DOMAIN queue' = 1..(Len(queue) + 1)
  BY <1>2, LenProperties
<1>4. /\ Len(queue) + 1 \notin DOMAIN queue
      /\ DOMAIN queue' = DOMAIN queue \cup {Len(queue) + 1}
  BY <1>1, <1>3
<1> QED
  BY <1>1, <1>2, <1>4, Bounds DEF Room

LEMMA Taken ==
  ASSUME TypeOK, queue # <<>>, queue' = Tail(queue)
  PROVE  /\ queue' \in Seq(Jobs) /\ Len(queue') <= QueueSize
         /\ 1 \in DOMAIN queue /\ Head(queue) = queue[1] /\ queue[1] \in Jobs
         /\ \A i \in DOMAIN queue' : /\ i + 1 \in DOMAIN queue /\ i + 1 # 1
                                     /\ queue'[i] = queue[i + 1]
         /\ \A i \in DOMAIN queue \ {1} : \E k \in DOMAIN queue' : queue'[k] = queue[i]
         /\ \A i, k \in DOMAIN queue' : i + 1 = k + 1 => i = k
<1>1. /\ queue \in Seq(Jobs) /\ Len(queue) \in Nat /\ DOMAIN queue = 1..Len(queue)
      /\ Len(queue) <= QueueSize /\ Len(queue) # 0
  BY LenProperties, EmptySeq DEF TypeOK
<1>2. /\ queue' \in Seq(Jobs) /\ Len(queue') = Len(queue) - 1 /\ Head(queue) = queue[1]
      /\ \A i \in 1..Len(queue') : queue'[i] = queue[i + 1]
  BY <1>1, HeadTailProperties
<1>3. DOMAIN queue' = 1..(Len(queue) - 1)
  BY <1>2, LenProperties
<1>4. ASSUME NEW i \in DOMAIN queue \ {1}
      PROVE  \E k \in DOMAIN queue' : queue'[k] = queue[i]
  <2>1. i - 1 \in DOMAIN queue' /\ queue'[i - 1] = queue[i]
    BY <1>1, <1>2, <1>3
  <2> QED
    BY <2>1
<1>5. queue[1] \in Jobs /\ 1 \in DOMAIN queue
  BY <1>1
<1> QED
  BY <1>1, <1>2, <1>3, <1>4, <1>5, Bounds

(* The reports of a client report and of an envelope.                      *)
LEMMA ListedTypes ==
  /\ Listed({}) = {}
  /\ \A r \in SUBSET Entry : Listed(r) \subseteq Loss
  /\ \A r, s \in SUBSET Entry : Listed(r \cup s) = Listed(r) \cup Listed(s)
  /\ \A j \in Jobs : /\ j.items \subseteq Items /\ j.report \subseteq Entry
                     /\ j.kind \in {"send", "report"}
  /\ Report \in Jobs /\ Report.items = {} /\ Report.report = {} /\ Report.kind = "report"
  /\ \A xs \in SUBSET Items, r \in SUBSET Entry :
       /\ Send(xs, r) \in Jobs /\ Send(xs, r).items = xs
       /\ Send(xs, r).report = r /\ Send(xs, r).kind = "send"
<1>1. \A r \in SUBSET Entry : Listed(r) \subseteq Loss
  BY DEF Listed, Entry
<1>2. Listed({}) = {} /\ \A r, s \in SUBSET Entry : Listed(r \cup s) = Listed(r) \cup Listed(s)
  BY DEF Listed
<1>3. \A j \in Jobs : /\ j.items \subseteq Items /\ j.report \subseteq Entry
                      /\ j.kind \in {"send", "report"}
  BY DEF Jobs
<1>4. /\ Report \in Jobs /\ Report.items = {} /\ Report.report = {} /\ Report.kind = "report"
      /\ \A xs \in SUBSET Items, r \in SUBSET Entry :
           /\ Send(xs, r) \in Jobs /\ Send(xs, r).items = xs
           /\ Send(xs, r).report = r /\ Send(xs, r).kind = "send"
  BY DEF Jobs, Report, Send
<1> QED
  BY <1>1, <1>2, <1>3, <1>4

(* What the queue holds after a submit() and after a get().                *)
LEMMA QueueAppend ==
  ASSUME TypeOK, QueueInv, Room, NEW j \in Jobs, queue' = Append(queue, j),
         j.items \cap Waiting = {}, Listed(j.report) \cap Queued = {},
         j.kind = "report" => j = Report
  PROVE  /\ queue' \in Seq(Jobs) /\ Len(queue') <= QueueSize
         /\ QueueInv'
         /\ Waiting' = Waiting \cup j.items
         /\ Queued' = Queued \cup Listed(j.report)
         /\ ReportQueued' <=> ReportQueued \/ j.kind = "report"
<1>1. /\ queue' \in Seq(Jobs) /\ Len(queue') <= QueueSize
      /\ \A i \in DOMAIN queue : queue'[i] = queue[i]
  BY Submitted
<1>2. PICK n : /\ n \notin DOMAIN queue /\ DOMAIN queue' = DOMAIN queue \cup {n}
               /\ queue'[n] = j
  BY Submitted
<1>3. Waiting' = Waiting \cup j.items
  BY <1>1, <1>2 DEF Waiting
<1>4. Queued' = Queued \cup Listed(j.report)
  BY <1>1, <1>2 DEF Queued
<1>5. ReportQueued' <=> ReportQueued \/ j.kind = "report"
  BY <1>1, <1>2 DEF ReportQueued
<1>6. \A i \in DOMAIN queue : /\ queue[i].items \subseteq Waiting
                              /\ Listed(queue[i].report) \subseteq Queued
  BY DEF Waiting, Queued
<1>7. \A i \in DOMAIN queue' : queue'[i].kind = "report" => queue'[i] = Report
  BY <1>1, <1>2 DEF QueueInv
<1>8. \A i, k \in DOMAIN queue' : queue'[i].items \cap queue'[k].items # {} => i = k
  <2> SUFFICES ASSUME NEW i \in DOMAIN queue', NEW k \in DOMAIN queue', i # k
               PROVE  queue'[i].items \cap queue'[k].items = {}
    OBVIOUS
  <2>1. CASE i # n /\ k # n
    BY <1>1, <1>2, <2>1 DEF QueueInv
  <2>2. CASE i = n \/ k = n
    BY <1>1, <1>2, <1>6, <2>2
  <2> QED
    BY <2>1, <2>2
<1>9. \A i, k \in DOMAIN queue' :
         Listed(queue'[i].report) \cap Listed(queue'[k].report) # {} => i = k
  <2> SUFFICES ASSUME NEW i \in DOMAIN queue', NEW k \in DOMAIN queue', i # k
               PROVE  Listed(queue'[i].report) \cap Listed(queue'[k].report) = {}
    OBVIOUS
  <2>1. CASE i # n /\ k # n
    BY <1>1, <1>2, <2>1 DEF QueueInv
  <2>2. CASE i = n \/ k = n
    BY <1>1, <1>2, <1>6, <2>2
  <2> QED
    BY <2>1, <2>2
<1> QED
  BY <1>1, <1>3, <1>4, <1>5, <1>7, <1>8, <1>9 DEF QueueInv

LEMMA QueueTail ==
  ASSUME TypeOK, QueueInv, queue # <<>>, queue' = Tail(queue)
  PROVE  /\ queue' \in Seq(Jobs) /\ Len(queue') <= QueueSize
         /\ QueueInv'
         /\ Head(queue) \in Jobs
         /\ Head(queue).kind = "report" => Head(queue) = Report
         /\ Waiting = Waiting' \cup Head(queue).items
         /\ Waiting' \cap Head(queue).items = {}
         /\ Queued = Queued' \cup Listed(Head(queue).report)
         /\ Queued' \cap Listed(Head(queue).report) = {}
         /\ ReportQueued <=> ReportQueued' \/ Head(queue).kind = "report"
<1> DEFINE h == Head(queue)
<1>1. /\ queue' \in Seq(Jobs) /\ Len(queue') <= QueueSize
      /\ 1 \in DOMAIN queue /\ h = queue[1] /\ queue[1] \in Jobs
      /\ \A i \in DOMAIN queue \ {1} : \E k \in DOMAIN queue' : queue'[k] = queue[i]
  BY Taken
<1>2. \A i \in DOMAIN queue' : /\ i + 1 \in DOMAIN queue /\ i + 1 # 1
                              /\ queue'[i] = queue[i + 1]
  BY Taken
<1>3. \A i, k \in DOMAIN queue' : i + 1 = k + 1 => i = k
  BY Taken
<1> HIDE DEF h
<1>4. \A i \in DOMAIN queue' : /\ queue'[i].items \cap h.items = {}
                               /\ Listed(queue'[i].report) \cap Listed(h.report) = {}
  BY <1>1, <1>2 DEF QueueInv
<1>5. Waiting = Waiting' \cup h.items /\ Waiting' \cap h.items = {}
  <2>1. \A x \in Waiting : x \in Waiting' \cup h.items
    BY <1>1 DEF Waiting
  <2>2. \A x \in Waiting' : x \in Waiting
    BY <1>2 DEF Waiting
  <2>3. h.items \subseteq Waiting /\ Waiting' \cap h.items = {}
    BY <1>1, <1>4 DEF Waiting
  <2> QED
    BY <2>1, <2>2, <2>3
<1>6. Queued = Queued' \cup Listed(h.report) /\ Queued' \cap Listed(h.report) = {}
  <2>1. \A x \in Queued : x \in Queued' \cup Listed(h.report)
    BY <1>1 DEF Queued
  <2>2. \A x \in Queued' : x \in Queued
    BY <1>2 DEF Queued
  <2>3. Listed(h.report) \subseteq Queued /\ Queued' \cap Listed(h.report) = {}
    BY <1>1, <1>4 DEF Queued
  <2> QED
    BY <2>1, <2>2, <2>3
<1>7. ReportQueued <=> ReportQueued' \/ h.kind = "report"
  <2>1. ASSUME ReportQueued, h.kind # "report" PROVE ReportQueued'
    <3>1. PICK i \in DOMAIN queue \ {1} : queue[i].kind = "report"
      BY <1>1, <2>1 DEF ReportQueued
    <3>2. PICK k \in DOMAIN queue' : queue'[k] = queue[i]
      BY <1>1
    <3> QED
      BY <3>1, <3>2 DEF ReportQueued
  <2>2. ASSUME ReportQueued' PROVE ReportQueued
    BY <1>2, <2>2 DEF ReportQueued
  <2>3. h.kind = "report" => ReportQueued
    BY <1>1 DEF ReportQueued
  <2> QED
    BY <2>1, <2>2, <2>3
<1>8. QueueInv'
  <2>1. \A i \in DOMAIN queue' : queue'[i].kind = "report" => queue'[i] = Report
    BY <1>2 DEF QueueInv
  <2>2. ASSUME NEW i \in DOMAIN queue', NEW k \in DOMAIN queue',
               \/ queue'[i].items \cap queue'[k].items # {}
               \/ Listed(queue'[i].report) \cap Listed(queue'[k].report) # {}
        PROVE  i = k
    <3>1. i + 1 = k + 1
      BY <1>2, <2>2 DEF QueueInv
    <3> QED
      BY <1>3, <3>1
  <2> QED
    BY <2>1, <2>2 DEF QueueInv
<1>9. h.kind = "report" => h = Report
  BY <1>1 DEF QueueInv
<1> QED
  BY <1>1, <1>5, <1>6, <1>7, <1>8, <1>9 DEF h

(* A step that leaves the queue alone.                                     *)
LEMMA QueueSame ==
  ASSUME UNCHANGED queue, QueueInv
  PROVE  /\ QueueInv' /\ Waiting' = Waiting /\ Queued' = Queued
         /\ ReportQueued' <=> ReportQueued
BY DEF QueueInv, Waiting, Queued, ReportQueued

(* Items that meet a fate.                                                 *)
LEMMA MetFate ==
  ASSUME TypeOK, NEW xs \in SUBSET Items, NEW f \in Fates, fate' = Met(xs, f)
  PROVE  /\ fate' \in [Items -> SUBSET Fates]
         /\ \A x \in xs : fate'[x] = fate[x] \cup {f}
         /\ \A x \in Items \ xs : fate'[x] = fate[x]
BY DEF TypeOK, Met

(* record_lost_event, of items that had no fate: what it will count has    *)
(* not been counted, and nobody else will count it.                        *)
LEMMA LoseCounts ==
  ASSUME TypeOK, LossInv, NEW a \in Actors, Nothing(a), NEW xs \in SUBSET Items,
         \A x \in xs : fate[x] = {}, Lose(a, xs), UNCHANGED <<atomic, reg, recorded>>,
         UNCHANGED <<counts, swapped>>, Reported' = Reported
  PROVE  /\ fate' \in [Items -> SUBSET Fates]
         /\ todo' \in [Actors -> SUBSET Loss]
         /\ \A x \in xs : fate'[x] = {"lost"}
         /\ \A x \in Items \ xs : fate'[x] = fate[x]
         /\ \A b \in Actors \ {a} : todo'[b] = todo[b]
         /\ xs = {} => todo'[a] = {}
         /\ \A b \in Actors : reg'[b] # None => reg'[b].loss \in todo'[b]
         /\ LossInv'
<1> DEFINE new == LossesOf(xs)
<1>1. fate' = Met(xs, "lost") /\ todo' = [todo EXCEPT ![a] = new] /\ todo[a] = {}
  BY DEF Lose, Nothing
<1>2. "lost" \in Fates
  BY DEF Fates
<1>3. /\ fate' \in [Items -> SUBSET Fates]
      /\ \A x \in xs : fate'[x] = {"lost"}
      /\ \A x \in Items \ xs : fate'[x] = fate[x]
  BY <1>1, <1>2, MetFate
<1>4. new \in SUBSET Loss /\ (xs = {} => new = {}) /\ \A l \in new : l[1] \in xs
  BY DEF LossesOf
<1> HIDE DEF new
<1>5. /\ todo \in [Actors -> SUBSET Loss] /\ recorded \subseteq Loss
      /\ \A b \in Actors : reg[b] # None => reg[b].loss \in todo[b]
  BY DEF TypeOK
<1>6. /\ todo' \in [Actors -> SUBSET Loss] /\ todo'[a] = new
      /\ \A b \in Actors \ {a} : todo'[b] = todo[b]
  BY <1>1, <1>4, <1>5
<1>7. \A b \in Actors : reg'[b] # None => reg'[b].loss \in todo'[b]
  BY <1>1, <1>5, <1>6
<1>8. \A l \in Loss : "lost" \in fate[l[1]] => "lost" \in fate'[l[1]]
  BY <1>3, LossTypes
<1>9. \A l \in new : /\ l \notin recorded /\ "lost" \in fate'[l[1]]
                     /\ \A b \in Actors : l \notin todo[b]
  BY <1>3, <1>4, LossTypes DEF LossInv
<1>10. \A b \in Actors : \A l \in todo'[b] : l \notin recorded' /\ "lost" \in fate'[l[1]]
  BY <1>5, <1>6, <1>8, <1>9 DEF LossInv
<1>11. \A b, c \in Actors : todo'[b] \cap todo'[c] # {} => b = c
  BY <1>6, <1>9 DEF LossInv
<1>12. \A l \in recorded' : "lost" \in fate'[l[1]]
  BY <1>5, <1>8 DEF LossInv
<1>13. LossInv'
  BY <1>10, <1>11, <1>12 DEF LossInv
<1> QED
  BY <1>3, <1>4, <1>6, <1>7, <1>13

(* A step in which nothing is counted, nor is to be.                       *)
LEMMA LossesKept ==
  ASSUME TypeOK, LossInv, UNCHANGED <<todo, atomic, recorded>>,
         \A x \in Items : fate[x] \subseteq fate'[x],
         Reported' \subseteq recorded,
         Counted(counts) \cup Counted(swapped) \cup Reported
           \subseteq Counted(counts') \cup Counted(swapped') \cup Reported'
  PROVE  LossInv'
<1>1. \A l \in Loss : "lost" \in fate[l[1]] => "lost" \in fate'[l[1]]
  BY LossTypes
<1>2. todo \in [Actors -> SUBSET Loss] /\ recorded \subseteq Loss
  BY DEF TypeOK
<1> QED
  BY <1>1, <1>2 DEF LossInv

(* A step on which the dictionaries and the reports stay as they are.      *)
LEMMA DictsKept ==
  ASSUME DictInv, UNCHANGED counters, Reported' = Reported,
         wpc # wpc' => wpc # "build"
  PROVE  DictInv' /\ Current' = Current /\ Swapped' = Swapped
<1>1. Current' = Current /\ Swapped' = Swapped
  BY DEF Current, Swapped, Seen, counters
<1> QED
  BY <1>1 DEF DictInv, counters

LEMMA FlushKept ==
  ASSUME FlushInv, UNCHANGED flushState, recorded \subseteq recorded',
         \A a \in Apps : before[a] \subseteq recorded /\ before[a] \cap Current = {}
                           => before[a] \cap Current' = {},
         ReportDue => ReportDue'
  PROVE  FlushInv'
BY DEF FlushInv, flushState

-----------------------------------------------------------------------------
(* The steps of an increment leave the items and the reports alone.        *)
LEMMA CountingKeeps ==
  ASSUME IInv, TypeOK', LossInv', Current' \cup Swapped' \subseteq recorded',
         Current' \cap Swapped' = {}, (Current' \cup Swapped') \cap Reported = {},
         wpc # "build" => swapped' = Empty,
         \A a \in Actors : reg'[a] # None =>
           ~atomic /\ (wpc # "build" => reg'[a].dict # "swapped"),
         \A a \in Actors : todo'[a] \subseteq todo[a], recorded \subseteq recorded',
         Current' \cap recorded \subseteq Current,
         UNCHANGED <<queue, wpc, job, disabled, atomic, flushState, captured, fate, reports>>
  PROVE  IInv'
<1> USE DEF IInv
<1>1. QueueInv' /\ Waiting' = Waiting /\ Queued' = Queued /\ (ReportQueued' <=> ReportQueued)
  BY QueueSame
<1>2. Reported' = Reported
  BY <1>1 DEF Reported, reports
<1>3. KindInv'
  BY Apart DEF KindInv, Actors
<1>4. FateInv' /\ LimitInv' /\ RepInv'
  BY <1>1 DEF FateInv, LimitInv, IsDisabled, RepInv, reports
<1>5. DictInv'
  BY <1>2 DEF DictInv
<1>6. FlushInv'
  <2>1. ReportDue => ReportDue'
    BY <1>1 DEF ReportDue
  <2>2. \A a \in Apps : before[a] \subseteq recorded /\ before[a] \cap Current = {}
                          => before[a] \cap Current' = {}
    OBVIOUS
  <2> QED
    BY <2>1, <2>2, FlushKept
<1> QED
  BY <1>1, <1>3, <1>4, <1>5, <1>6

(* Where an increment is: of what loss, and in which dictionary.           *)
LEMMA RegTypes ==
  ASSUME TypeOK, NEW a \in Actors, reg[a] # None
  PROVE  /\ reg[a] \in Regs /\ reg[a].loss \in Loss /\ reg[a].loss[2] \in Categories
         /\ reg[a].loss \in todo[a]
         /\ reg[a].dict \in {"current", "swapped", "gone"}
         /\ reg[a].seen # None => reg[a].seen \in SUBSET Loss
<1>1. reg[a] \in Regs /\ reg[a].loss \in todo[a]
  BY DEF TypeOK
<1>2. /\ reg[a].loss \in Loss /\ reg[a].dict \in {"current", "swapped", "gone"}
      /\ reg[a].seen # None => reg[a].seen \in SUBSET Loss
  BY <1>1 DEF Regs
<1> QED
  BY <1>1, <1>2, LossTypes

LEMMA CountLoadStep ==
  ASSUME IInv, NEW a \in Actors, NEW l \in todo[a], CountLoad(a, l)
  PROVE  IInv'
<1> USE DEF IInv
<1> DEFINE r == [loss |-> l, dict |-> "current", seen |-> None]
<1>1. /\ ~atomic /\ reg[a] = None /\ reg' = [reg EXCEPT ![a] = r]
      /\ UNCHANGED <<queue, wpc, job, disabled, atomic, counts, swapped, recorded,
                     todo, flushState, captured, fate, reports>>
  BY DEF CountLoad, workerState
<1>2. l \in Loss /\ reg \in [Actors -> Regs \cup {None}]
  BY DEF TypeOK
<1>3. r \in Regs /\ r.dict = "current" /\ r.loss = l /\ r.seen = None
  BY <1>2 DEF Regs
<1> HIDE DEF r
<1>4. /\ reg' \in [Actors -> Regs \cup {None}] /\ reg'[a] = r
      /\ \A b \in Actors \ {a} : reg'[b] = reg[b]
  BY <1>1, <1>2, <1>3
<1>5. TypeOK'
  <2>1. \A b \in Actors : reg'[b] # None => reg'[b].loss \in todo'[b]
    BY <1>1, <1>3, <1>4 DEF TypeOK
  <2> QED
    BY <1>1, <1>4, <2>1 DEF TypeOK, flushState, reports
<1>6. Current' = Current /\ Swapped' = Swapped
  <2>1. Seen("current")' = Seen("current") /\ Seen("swapped")' = Seen("swapped")
    BY <1>1, <1>3, <1>4 DEF Seen
  <2> QED
    BY <1>1, <2>1 DEF Current, Swapped
<1>7. Reported' = Reported
  BY <1>1 DEF Reported, Queued, reports
<1>8. LossInv'
  BY <1>1, <1>7, LossesKept DEF LossInv
<1>9. wpc # "build" => swapped' = Empty
  BY <1>1 DEF DictInv
<1>10. \A b \in Actors : reg'[b] # None =>
         ~atomic /\ (wpc # "build" => reg'[b].dict # "swapped")
  BY <1>1, <1>3, <1>4 DEF DictInv
<1>11. /\ Current' \cup Swapped' \subseteq recorded' /\ Current' \cap Swapped' = {}
       /\ (Current' \cup Swapped') \cap Reported = {}
  BY <1>1, <1>6 DEF DictInv
<1> QED
  BY <1>1, <1>5, <1>6, <1>8, <1>9, <1>10, <1>11, CountingKeeps

LEMMA CountReadStep ==
  ASSUME IInv, NEW a \in Actors, CountRead(a)
  PROVE  IInv'
<1> USE DEF IInv
<1> DEFINE c == reg[a].loss[2]
           v == CASE reg[a].dict = "current" -> Value(counts, c)
                  [] reg[a].dict = "swapped" -> Value(swapped, c)
                  [] reg[a].dict = "gone"    -> {}
           r == [reg[a] EXCEPT !.seen = v]
<1>1. /\ reg[a] # None /\ reg[a].seen = None
      /\ UNCHANGED <<queue, wpc, job, disabled, atomic, recorded,
                     todo, flushState, captured, fate, reports>>
  BY DEF CountRead, workerState
<1>2. Update(a, c, v) /\ reg' = [reg EXCEPT ![a].seen = v]
  BY DEF CountRead
<1>3. /\ reg \in [Actors -> Regs \cup {None}] /\ reg[a] \in Regs
      /\ counts \in Dicts /\ swapped \in Dicts /\ c \in Categories
      /\ reg[a].dict \in {"current", "swapped", "gone"} /\ reg[a].loss \in todo[a]
  BY <1>1, RegTypes DEF TypeOK
<1>4. /\ reg[a].dict = "current" => v = Value(counts, c)
      /\ reg[a].dict = "swapped" => v = Value(swapped, c)
      /\ reg[a].dict = "gone" => v = {}
  OBVIOUS
<1>5. v \in SUBSET Loss
  <2> HIDE DEF v, c
  <2> QED
    BY <1>3, <1>4, PutCounts
<1>6. reg' = [reg EXCEPT ![a] = r]
  BY <1>2
<1>7. r \in Regs /\ r.dict = reg[a].dict /\ r.loss = reg[a].loss /\ r.seen = v
  BY <1>3, <1>5 DEF Regs
<1>8. /\ reg[a].dict = "current" => counts' = Put(counts, c, v) /\ swapped' = swapped
      /\ reg[a].dict = "swapped" => counts' = counts /\ swapped' = Put(swapped, c, v)
      /\ reg[a].dict = "gone" => counts' = counts /\ swapped' = swapped
  BY <1>2 DEF Update
<1>9. v # None
  BY <1>5, NoneIsNone
<1> HIDE DEF c, v, r
<1>10. /\ counts' \in Dicts /\ swapped' \in Dicts
       /\ Counted(counts') = Counted(counts) /\ Counted(swapped') = Counted(swapped)
  <2>1. CASE reg[a].dict = "current"
    BY <1>3, <1>4, <1>5, <1>8, <2>1, PutCounts
  <2>2. CASE reg[a].dict = "swapped"
    <3>1. v = Value(swapped, c) /\ counts' = counts /\ swapped' = Put(swapped, c, v)
      BY <1>4, <1>8, <2>2
    <3>2. /\ Put(swapped, c, v) \in Dicts
          /\ Counted(Put(swapped, c, v)) \subseteq Counted(swapped) \cup v
          /\ v \subseteq Counted(swapped)
          /\ Counted(swapped) \subseteq Counted(Put(swapped, c, v))
      <4>1. swapped \in Dicts /\ c \in Categories /\ v \in SUBSET Loss
        BY <1>3, <1>5
      <4> QED
        BY <3>1, <4>1, PutCounts
    <3> QED
      BY <1>3, <3>1, <3>2
  <2>3. CASE reg[a].dict = "gone"
    BY <1>3, <1>8, <2>3
  <2> QED
    BY <1>3, <2>1, <2>2, <2>3
<1>11. /\ reg[a].dict = "current" => v \subseteq Counted(counts)
       /\ reg[a].dict = "swapped" => v \subseteq Counted(swapped)
  BY <1>3, <1>4, PutCounts
<1>12. /\ reg' \in [Actors -> Regs \cup {None}] /\ reg'[a] = r
       /\ \A b \in Actors \ {a} : reg'[b] = reg[b]
  BY <1>3, <1>6, <1>7
<1>13. TypeOK'
  <2>1. \A b \in Actors : reg'[b] # None => reg'[b].loss \in todo'[b]
    BY <1>1, <1>3, <1>7, <1>12 DEF TypeOK
  <2> QED
    BY <1>1, <1>10, <1>12, <2>1 DEF TypeOK, flushState, reports
<1>14. Current' = Current /\ Swapped' = Swapped
  <2>1. /\ Seen("current")' \subseteq Current /\ Seen("current") \subseteq Seen("current")'
    BY <1>1, <1>7, <1>11, <1>12 DEF Seen, Current
  <2>2. /\ Seen("swapped")' \subseteq Swapped /\ Seen("swapped") \subseteq Seen("swapped")'
    BY <1>1, <1>7, <1>11, <1>12 DEF Seen, Swapped
  <2> QED
    BY <1>10, <2>1, <2>2 DEF Current, Swapped
<1>15. Reported' = Reported
  BY <1>1 DEF Reported, Queued, reports
<1>16. LossInv'
  BY <1>1, <1>10, <1>15, LossesKept DEF LossInv
<1>17. /\ ~atomic /\ (wpc # "build" => reg[a].dict # "swapped")
       /\ wpc # "build" => swapped = Empty
  BY <1>1 DEF DictInv
<1>18. wpc # "build" => swapped' = Empty
  BY <1>3, <1>8, <1>17
<1>19. \A b \in Actors : reg'[b] # None =>
         ~atomic /\ (wpc # "build" => reg'[b].dict # "swapped")
  BY <1>1, <1>7, <1>12 DEF DictInv
<1>20. /\ Current' \cup Swapped' \subseteq recorded' /\ Current' \cap Swapped' = {}
       /\ (Current' \cup Swapped') \cap Reported = {}
  BY <1>1, <1>14 DEF DictInv
<1> QED
  BY <1>1, <1>13, <1>14, <1>16, <1>18, <1>19, <1>20, CountingKeeps

(* Counted late: what the counter held when it was read, and the loss.     *)
LEMMA CountWriteStep ==
  ASSUME IInv, NEW a \in Actors, CountWrite(a)
  PROVE  IInv'
<1> USE DEF IInv
<1> DEFINE l == reg[a].loss
           c == reg[a].loss[2]
           v == reg[a].seen \cup {reg[a].loss}
<1>1. /\ reg[a] # None /\ reg[a].seen # None
      /\ Update(a, c, v) /\ recorded' = recorded \cup {l}
      /\ todo' = [todo EXCEPT ![a] = todo[a] \ {l}] /\ reg' = [reg EXCEPT ![a] = None]
      /\ UNCHANGED <<queue, wpc, job, disabled, atomic, flushState, captured, fate, reports>>
  BY DEF CountWrite, workerState
<1>2. /\ reg \in [Actors -> Regs \cup {None}] /\ l \in Loss /\ l \in todo[a]
      /\ counts \in Dicts /\ swapped \in Dicts /\ c \in Categories
      /\ reg[a].dict \in {"current", "swapped", "gone"} /\ reg[a].seen \in SUBSET Loss
      /\ todo \in [Actors -> SUBSET Loss] /\ recorded \subseteq Loss
  BY <1>1, RegTypes DEF TypeOK
<1>3. v \in SUBSET Loss /\ v = reg[a].seen \cup {l}
  BY <1>2
<1>4. /\ reg[a].dict = "current" => counts' = Put(counts, c, v) /\ swapped' = swapped
      /\ reg[a].dict = "swapped" => counts' = counts /\ swapped' = Put(swapped, c, v)
      /\ reg[a].dict = "gone" => counts' = counts /\ swapped' = swapped
  BY <1>1 DEF Update
<1> HIDE DEF c, v, l
<1>5. /\ counts' \in Dicts /\ swapped' \in Dicts
      /\ reg[a].dict = "current" => /\ Counted(counts') \subseteq Counted(counts) \cup v
                                    /\ Counted(swapped') = Counted(swapped)
      /\ reg[a].dict = "swapped" => /\ Counted(counts') = Counted(counts)
                                    /\ Counted(swapped') \subseteq Counted(swapped) \cup v
      /\ reg[a].dict = "gone" => /\ Counted(counts') = Counted(counts)
                                 /\ Counted(swapped') = Counted(swapped)
  BY <1>2, <1>3, <1>4, PutCounts
<1>6. /\ reg' \in [Actors -> Regs \cup {None}] /\ reg'[a] = None
      /\ \A b \in Actors \ {a} : reg'[b] = reg[b]
  BY <1>1, <1>2
<1>7. /\ todo' \in [Actors -> SUBSET Loss] /\ todo'[a] = todo[a] \ {l}
      /\ \A b \in Actors \ {a} : todo'[b] = todo[b]
  BY <1>1, <1>2
<1>8. /\ l \notin recorded /\ "lost" \in fate[l[1]]
      /\ \A b \in Actors \ {a} : l \notin todo[b]
  BY <1>2 DEF LossInv
<1>9. TypeOK'
  <2>1. \A b \in Actors : reg'[b] # None => reg'[b].loss \in todo'[b]
    BY <1>6, <1>7 DEF TypeOK
  <2> QED
    BY <1>1, <1>2, <1>5, <1>6, <1>7, <2>1 DEF TypeOK, flushState, reports
<1>10. Seen("current")' \subseteq Seen("current") /\ Seen("swapped")' \subseteq Seen("swapped")
  BY <1>6 DEF Seen
<1>11. /\ reg[a].dict = "current" => reg[a].seen \subseteq Current
       /\ reg[a].dict = "swapped" => reg[a].seen \subseteq Swapped
  BY <1>1, <1>2 DEF Current, Swapped, Seen
<1>12. /\ Current' \subseteq Current \cup {l} /\ Swapped' \subseteq Swapped \cup {l}
       /\ Current' \subseteq Current \/ Swapped' \subseteq Swapped
  <2>1. CASE reg[a].dict = "current"
    BY <1>3, <1>5, <1>10, <1>11, <2>1 DEF Current, Swapped
  <2>2. CASE reg[a].dict = "swapped"
    BY <1>3, <1>5, <1>10, <1>11, <2>2 DEF Current, Swapped
  <2>3. CASE reg[a].dict = "gone"
    BY <1>5, <1>10, <2>3 DEF Current, Swapped
  <2> QED
    BY <1>2, <2>1, <2>2, <2>3
<1>13. Reported' = Reported
  BY <1>1 DEF Reported, Queued, reports
<1>14. ~atomic /\ (wpc # "build" => reg[a].dict # "swapped" /\ swapped = Empty)
  BY <1>1 DEF DictInv
<1>15. Reported \subseteq recorded
  BY DEF LossInv
<1>16. LossInv'
  <2>1. \A b \in Actors : \A k \in todo'[b] : k \notin recorded' /\ "lost" \in fate'[k[1]]
    BY <1>1, <1>7, <1>8 DEF LossInv
  <2>2. \A k \in recorded' : "lost" \in fate'[k[1]]
    BY <1>1, <1>8 DEF LossInv
  <2>3. \A b, d \in Actors : todo'[b] \cap todo'[d] # {} => b = d
    BY <1>7 DEF LossInv
  <2> QED
    BY <1>1, <1>13, <1>14, <1>15, <2>1, <2>2, <2>3 DEF LossInv
<1>17. wpc # "build" => swapped' = Empty
  BY <1>2, <1>4, <1>14
<1>18. \A b \in Actors : reg'[b] # None =>
         ~atomic /\ (wpc # "build" => reg'[b].dict # "swapped")
  BY <1>6 DEF DictInv
<1>19. /\ Current' \cup Swapped' \subseteq recorded' /\ Current' \cap Swapped' = {}
       /\ (Current' \cup Swapped') \cap Reported = {} /\ Current' \cap recorded \subseteq Current
  <2>1. /\ Current \cup Swapped \subseteq recorded /\ Current \cap Swapped = {}
        /\ (Current \cup Swapped) \cap Reported = {}
    BY DEF DictInv
  <2> QED
    BY <1>1, <1>8, <1>12, <1>15, <2>1
<1>20. \A b \in Actors : todo'[b] \subseteq todo[b]
  BY <1>7
<1> QED
  BY <1>1, <1>9, <1>16, <1>17, <1>18, <1>19, <1>20, CountingKeeps

LEMMA IncrementStep ==
  ASSUME IInv, NEW a \in Actors, NEW l \in todo[a], Increment(a, l)
  PROVE  IInv'
<1> USE DEF IInv
<1> DEFINE c == l[2]
           v == Value(counts, c) \cup {l}
<1>1. /\ atomic /\ counts' = Put(counts, c, v) /\ recorded' = recorded \cup {l}
      /\ todo' = [todo EXCEPT ![a] = todo[a] \ {l}]
      /\ UNCHANGED <<queue, wpc, job, disabled, atomic, swapped, reg, flushState,
                     captured, fate, reports>>
  BY DEF Increment, workerState
<1>2. /\ l \in Loss /\ counts \in Dicts /\ c \in Categories
      /\ todo \in [Actors -> SUBSET Loss] /\ recorded \subseteq Loss
  BY LossTypes DEF TypeOK
<1>3. Value(counts, c) \subseteq Loss /\ Value(counts, c) \subseteq Counted(counts)
  BY <1>2, PutCounts
<1>4. v \in SUBSET Loss /\ Value(counts, c) \subseteq v /\ l \in v
      /\ v \subseteq Counted(counts) \cup {l}
  BY <1>2, <1>3
<1> HIDE DEF c, v
<1>5. /\ counts' \in Dicts /\ Counted(counts') = Counted(counts) \cup {l}
  BY <1>1, <1>2, <1>4, PutCounts
<1>6. /\ todo' \in [Actors -> SUBSET Loss] /\ todo'[a] = todo[a] \ {l}
      /\ \A b \in Actors \ {a} : todo'[b] = todo[b]
  BY <1>1, <1>2
<1>7. /\ l \notin recorded /\ "lost" \in fate[l[1]]
      /\ \A b \in Actors \ {a} : l \notin todo[b]
  BY <1>2 DEF LossInv
<1>8. \A b \in Actors : reg[b] = None
  BY <1>1 DEF DictInv
<1>9. TypeOK'
  <2>1. \A b \in Actors : reg'[b] # None => reg'[b].loss \in todo'[b]
    BY <1>1, <1>8
  <2> QED
    BY <1>1, <1>2, <1>5, <1>6, <2>1 DEF TypeOK, flushState, reports
<1>10. Current' = Current \cup {l} /\ Swapped' = Swapped
  BY <1>1, <1>5 DEF Current, Swapped, Seen
<1>11. Reported' = Reported
  BY <1>1 DEF Reported, Queued, reports
<1>12. LossInv'
  <2>1. \A b \in Actors : \A k \in todo'[b] : k \notin recorded' /\ "lost" \in fate'[k[1]]
    BY <1>1, <1>6, <1>7 DEF LossInv
  <2>2. \A k \in recorded' : "lost" \in fate'[k[1]]
    BY <1>1, <1>7 DEF LossInv
  <2>3. \A b, d \in Actors : todo'[b] \cap todo'[d] # {} => b = d
    BY <1>6 DEF LossInv
  <2>4. /\ Reported' \subseteq recorded'
        /\ recorded' \subseteq Counted(counts') \cup Counted(swapped') \cup Reported'
    BY <1>1, <1>5, <1>11 DEF LossInv
  <2> QED
    BY <2>1, <2>2, <2>3, <2>4 DEF LossInv
<1>13. /\ Current' \cup Swapped' \subseteq recorded' /\ Current' \cap Swapped' = {}
       /\ (Current' \cup Swapped') \cap Reported = {} /\ Current' \cap recorded \subseteq Current
  <2>1. /\ Current \cup Swapped \subseteq recorded /\ Current \cap Swapped = {}
        /\ (Current \cup Swapped) \cap Reported = {} /\ Reported \subseteq recorded
    BY DEF DictInv, LossInv
  <2> QED
    BY <1>1, <1>7, <1>10, <2>1
<1>14. wpc # "build" => swapped' = Empty
  BY <1>1 DEF DictInv
<1>15. \A b \in Actors : todo'[b] \subseteq todo[b]
  BY <1>6
<1> QED
  BY <1>1, <1>8, <1>9, <1>12, <1>13, <1>14, <1>15, CountingKeeps

-----------------------------------------------------------------------------
(* The other steps of an application or of the server do not touch the     *)
(* counters, and what was put into a report is still in one.               *)
LEMMA CountersKept ==
  ASSUME IInv, TypeOK', KindInv', QueueInv', FateInv', LimitInv', LossInv', RepInv',
         UNCHANGED counters, Reported' = Reported, wpc # wpc' => wpc # "build",
         UNCHANGED flushState, ReportDue => ReportDue'
  PROVE  IInv'
<1>1. DictInv' /\ Current' = Current
  BY DictsKept DEF IInv
<1>2. FlushInv'
  BY <1>1, FlushKept DEF IInv, counters
<1> QED
  BY <1>1, <1>2 DEF IInv

LEMMA CaptureStep ==
  ASSUME IInv, NEW a \in Apps, NEW e \in Envelopes, Capture(a, e)
  PROVE  IInv'
<1> USE DEF IInv
<1>1. /\ Nothing(a) /\ e \cap captured = {} /\ captured' = captured \cup e
      /\ UNCHANGED <<wpc, job, disabled, atomic, counts, swapped, reg, recorded,
                     flushState, reports>>
      /\ UNCHANGED counters
  BY DEF Capture, workerState, counters
<1>2. e \in SUBSET Items /\ a \in Actors /\ a # Worker
  BY Disjoint, Apart DEF Actors
<1>3. \A x \in e : fate[x] = {} /\ x \notin Waiting /\ x \notin job.items
  BY <1>1, <1>2 DEF FateInv
<1>4. CASE Room /\ queue' = Append(queue, Send(e, {})) /\ UNCHANGED <<todo, fate>>
  <2> DEFINE j == Send(e, {})
  <2>1. j \in Jobs /\ j.items = e /\ j.report = {} /\ j.kind = "send"
    BY <1>2, ListedTypes
  <2> HIDE DEF j
  <2>2. j.items \cap Waiting = {} /\ Listed(j.report) = {} /\ (j.kind = "report" => j = Report)
    BY <1>3, <2>1, ListedTypes
  <2>3. Room /\ queue' = Append(queue, j)
    BY <1>4 DEF j
  <2>4. /\ queue' \in Seq(Jobs) /\ Len(queue') <= QueueSize /\ QueueInv'
        /\ Waiting' = Waiting \cup e /\ Queued' = Queued /\ (ReportQueued' <=> ReportQueued)
    BY <2>1, <2>2, <2>3, QueueAppend
  <2>5. TypeOK'
    BY <1>1, <1>2, <1>4, <2>4 DEF TypeOK, flushState, reports
  <2>6. KindInv'
    BY <1>1, <1>4 DEF KindInv
  <2>7. FateInv'
    BY <1>1, <1>2, <1>3, <1>4, <2>4 DEF FateInv
  <2>8. LimitInv' /\ RepInv'
    BY <1>1, <2>4 DEF LimitInv, IsDisabled, RepInv, reports
  <2>9. Reported' = Reported
    BY <1>1, <2>4 DEF Reported, reports
  <2>10. LossInv'
    BY <1>1, <1>4, <2>9 DEF LossInv
  <2>11. ReportDue => ReportDue'
    BY <1>1, <2>4 DEF ReportDue
  <2> QED
    BY <1>1, <2>4, <2>5, <2>6, <2>7, <2>8, <2>9, <2>10, <2>11, CountersKept
<1>5. CASE Lose(a, e) /\ UNCHANGED queue
  <2>1. QueueInv' /\ Waiting' = Waiting /\ Queued' = Queued /\ (ReportQueued' <=> ReportQueued)
    BY <1>5, QueueSame
  <2>2. Reported' = Reported
    BY <1>1, <2>1 DEF Reported, reports
  <2>3. /\ fate' \in [Items -> SUBSET Fates] /\ todo' \in [Actors -> SUBSET Loss]
        /\ \A x \in e : fate'[x] = {"lost"}
        /\ \A x \in Items \ e : fate'[x] = fate[x]
        /\ \A b \in Actors \ {a} : todo'[b] = todo[b]
        /\ \A b \in Actors : reg'[b] # None => reg'[b].loss \in todo'[b]
        /\ LossInv'
    BY <1>1, <1>2, <1>3, <1>5, <2>2, LoseCounts
  <2>4. TypeOK'
    BY <1>1, <1>2, <1>5, <2>3 DEF TypeOK, flushState, reports
  <2>5. KindInv'
    BY <1>1, <1>2, <2>3 DEF KindInv, Actors
  <2>6. FateInv'
    BY <1>1, <1>2, <1>3, <2>1, <2>3 DEF FateInv, Fates
  <2>7. LimitInv' /\ RepInv'
    BY <1>1, <2>1 DEF LimitInv, IsDisabled, RepInv, reports
  <2>8. ReportDue => ReportDue'
    BY <1>1, <2>1 DEF ReportDue
  <2> QED
    BY <1>1, <2>1, <2>2, <2>3, <2>4, <2>5, <2>6, <2>7, <2>8, CountersKept
<1> QED
  BY <1>4, <1>5 DEF Capture

LEMMA DiscardStep ==
  ASSUME IInv, NEW a \in Apps, NEW x \in Items, Discard(a, x)
  PROVE  IInv'
<1> USE DEF IInv
<1>1. /\ Nothing(a) /\ x \notin captured /\ captured' = captured \cup {x}
      /\ Lose(a, {x})
      /\ UNCHANGED <<queue, wpc, job, disabled, atomic, counts, swapped, reg, recorded,
                     flushState, reports>>
      /\ UNCHANGED counters
  BY DEF Discard, workerState, counters
<1>2. {x} \in SUBSET Items /\ a \in Actors /\ a # Worker
  BY Apart DEF Actors
<1>3. fate[x] = {} /\ x \notin Waiting /\ x \notin job.items
  BY <1>1, <1>2 DEF FateInv
<1>4. QueueInv' /\ Waiting' = Waiting /\ Queued' = Queued /\ (ReportQueued' <=> ReportQueued)
  BY <1>1, QueueSame
<1>5. Reported' = Reported
  BY <1>1, <1>4 DEF Reported, reports
<1>6. /\ fate' \in [Items -> SUBSET Fates] /\ todo' \in [Actors -> SUBSET Loss]
      /\ fate'[x] = {"lost"}
      /\ \A y \in Items \ {x} : fate'[y] = fate[y]
      /\ \A b \in Actors \ {a} : todo'[b] = todo[b]
      /\ \A b \in Actors : reg'[b] # None => reg'[b].loss \in todo'[b]
      /\ LossInv'
  BY <1>1, <1>2, <1>3, <1>5, LoseCounts
<1>7. TypeOK'
  BY <1>1, <1>2, <1>6 DEF TypeOK, flushState, reports
<1>8. KindInv'
  BY <1>1, <1>2, <1>6 DEF KindInv, Actors
<1>9. FateInv'
  BY <1>1, <1>2, <1>3, <1>4, <1>6 DEF FateInv, Fates
<1>10. LimitInv' /\ RepInv'
  BY <1>1, <1>4 DEF LimitInv, IsDisabled, RepInv, reports
<1>11. ReportDue => ReportDue'
  BY <1>1, <1>4 DEF ReportDue
<1> QED
  BY <1>1, <1>4, <1>5, <1>6, <1>7, <1>8, <1>9, <1>10, <1>11, CountersKept

LEMMA FlushStep ==
  ASSUME IInv, NEW a \in Apps, Flush(a) \/ FlushReturn(a)
  PROVE  IInv'
<1> USE DEF IInv
<1>1. /\ UNCHANGED <<wpc, job, disabled, todo, captured, fate, reports>>
      /\ UNCHANGED counters
  BY DEF Flush, FlushReturn, workerState
<1>2. /\ queue' \in Seq(Jobs) /\ Len(queue') <= QueueSize /\ QueueInv'
      /\ Waiting' = Waiting /\ Queued' = Queued /\ (ReportQueued => ReportQueued')
      /\ Flush(a) /\ Room => ReportQueued'
  <2>1. CASE Flush(a) /\ Room
    <3>1. queue' = Append(queue, Report)
      BY <2>1 DEF Flush
    <3> DEFINE j == Report
    <3>2. /\ j \in Jobs /\ j.items \cap Waiting = {} /\ j.items = {} /\ Listed(j.report) = {}
          /\ j.kind = "report"
      BY ListedTypes
    <3>3. j = Report /\ queue' = Append(queue, j)
      BY <3>1
    <3> HIDE DEF j
    <3> QED
      BY <2>1, <3>2, <3>3, QueueAppend
  <2>2. CASE FlushReturn(a) \/ ~Room
    <3>1. UNCHANGED queue
      BY <2>2 DEF Flush, FlushReturn
    <3>2. /\ QueueInv' /\ Waiting' = Waiting /\ Queued' = Queued
          /\ (ReportQueued' <=> ReportQueued)
      BY <3>1, QueueSame
    <3>3. ~(Flush(a) /\ Room)
      BY <2>2 DEF Flush, FlushReturn
    <3> QED
      BY <3>1, <3>2, <3>3 DEF TypeOK
  <2> QED
    BY <2>1, <2>2
<1>3. /\ apc' \in [Apps -> {"idle", "flush"}] /\ before' \in [Apps -> SUBSET Loss]
      /\ asked' \in [Apps -> BOOLEAN]
      /\ \A b \in Apps \ {a} : /\ apc'[b] = apc[b] /\ before'[b] = before[b]
                               /\ asked'[b] = asked[b]
      /\ Flush(a) => before'[a] = recorded /\ asked'[a] = Room
      /\ FlushReturn(a) => before'[a] = {} /\ apc'[a] = "idle"
  <2>1. Room \in BOOLEAN
    BY DEF Room
  <2>2. CASE Flush(a)
    <3>1. ~FlushReturn(a)
      BY <2>2 DEF Flush, FlushReturn
    <3> QED
      BY <2>1, <2>2, <3>1 DEF TypeOK, Flush
  <2>3. CASE FlushReturn(a)
    <3>1. ~Flush(a)
      BY <2>3 DEF Flush, FlushReturn
    <3> QED
      BY <2>3, <3>1 DEF TypeOK, FlushReturn
  <2> QED
    BY <2>2, <2>3
<1>4. TypeOK'
  <2>1. flushes' \in 0..MaxFlushes
    BY Bounds DEF TypeOK, Flush, FlushReturn
  <2> QED
    BY <1>1, <1>2, <1>3, <2>1 DEF TypeOK, counters, reports
<1>5. KindInv' /\ FateInv' /\ LimitInv' /\ RepInv'
  BY <1>1, <1>2 DEF KindInv, FateInv, LimitInv, IsDisabled, RepInv, reports
<1>6. Reported' = Reported
  BY <1>1, <1>2 DEF Reported, reports
<1>7. LossInv'
  BY <1>1, <1>6 DEF LossInv, counters
<1>8. DictInv' /\ Current' = Current
  BY <1>1, <1>6, DictsKept
<1>9. FlushInv'
  <2>1. ReportDue => ReportDue'
    BY <1>1, <1>2 DEF ReportDue
  <2>2. ASSUME NEW b \in Apps \ {a}
        PROVE  /\ before'[b] \subseteq recorded'
               /\ apc'[b] = "flush" /\ asked'[b] => ReportDue' \/ before'[b] \cap Current' = {}
    BY <1>1, <1>3, <1>8, <2>1 DEF FlushInv, counters
  <2>3. /\ before'[a] \subseteq recorded'
        /\ apc'[a] = "flush" /\ asked'[a] => ReportDue' \/ before'[a] \cap Current' = {}
    <3>1. CASE Flush(a)
      BY <1>1, <1>2, <1>3, <3>1 DEF counters, ReportDue
    <3>2. CASE FlushReturn(a)
      BY <1>1, <1>3, <3>2
    <3> QED
      BY <3>1, <3>2
  <2> QED
    BY <2>2, <2>3 DEF FlushInv
<1> QED
  BY <1>2, <1>4, <1>5, <1>7, <1>8, <1>9

LEMMA ExpireStep ==
  ASSUME IInv, NEW b \in disabled, Expire(b)
  PROVE  IInv'
<1> USE DEF IInv
<1>1. /\ disabled' = disabled \ {b}
      /\ UNCHANGED <<queue, wpc, job, todo, captured, fate, reports, flushState>>
      /\ UNCHANGED counters
  BY DEF Expire, workerState
<1>2. QueueInv' /\ Waiting' = Waiting /\ Queued' = Queued /\ (ReportQueued' <=> ReportQueued)
  BY <1>1, QueueSame
<1>3. Reported' = Reported
  BY <1>1, <1>2 DEF Reported, reports
<1>4. TypeOK'
  BY <1>1 DEF TypeOK, counters, flushState, reports
<1>5. KindInv' /\ FateInv' /\ RepInv'
  BY <1>1, <1>2 DEF KindInv, FateInv, RepInv, reports
<1>6. LimitInv'
  BY <1>1 DEF LimitInv, IsDisabled
<1>7. LossInv'
  BY <1>1, <1>3 DEF LossInv, counters
<1>8. ReportDue => ReportDue'
  BY <1>1, <1>2 DEF ReportDue
<1> QED
  BY <1>1, <1>2, <1>3, <1>4, <1>5, <1>6, <1>7, <1>8, CountersKept

-----------------------------------------------------------------------------
(* The worker thread: it takes a job ...                                   *)
LEMMA GetJobStep ==
  ASSUME IInv, GetJob
  PROVE  IInv'
<1> USE DEF IInv
<1> DEFINE h == Head(queue)
<1>1. /\ wpc = "idle" /\ Nothing(Worker) /\ queue # <<>> /\ queue' = Tail(queue) /\ job' = h
      /\ wpc' = IF h.kind = "send" THEN "prepare" ELSE "reports"
      /\ UNCHANGED <<disabled, todo, captured, fate, reports, flushState>>
      /\ UNCHANGED counters
  BY DEF GetJob, AtWork, Go
<1>2. /\ queue' \in Seq(Jobs) /\ Len(queue') <= QueueSize /\ QueueInv'
      /\ h \in Jobs /\ h.kind = "report" => h = Report
  BY <1>1, QueueTail
<1>3. /\ h \in Jobs
      /\ Waiting = Waiting' \cup h.items /\ Waiting' \cap h.items = {}
      /\ Queued = Queued' \cup Listed(h.report) /\ Queued' \cap Listed(h.report) = {}
      /\ ReportQueued <=> ReportQueued' \/ h.kind = "report"
  BY <1>1, QueueTail
<1>4. h.kind \in {"send", "report"} /\ h.items \subseteq Items
  BY <1>3, ListedTypes
<1>5. job.items = {} /\ Listed(job.report) = {}
  BY <1>1, ListedTypes DEF KindInv
<1> HIDE DEF h
<1>6. h.kind = "report" => h = Report
  BY <1>1, QueueTail DEF h
<1>7. TypeOK'
  BY <1>1, <1>2, <1>3 DEF TypeOK, counters, flushState, reports
<1>8. KindInv'
  BY <1>1, <1>4, <1>6 DEF KindInv
<1>9. FateInv'
  BY <1>1, <1>3, <1>4, <1>5 DEF FateInv
<1>10. LimitInv'
  BY <1>1 DEF LimitInv
<1>11. RepInv' /\ Reported' = Reported
  BY <1>1, <1>3, <1>5 DEF RepInv, Reported, reports
<1>12. LossInv'
  BY <1>1, <1>11 DEF LossInv, counters
<1>13. ReportDue => ReportDue'
  BY <1>1, <1>3 DEF ReportDue
<1> QED
  BY <1>1, <1>2, <1>7, <1>8, <1>9, <1>10, <1>11, <1>12, <1>13, CountersKept

(* ... keeps what no limit forbids ...                                     *)
LEMMA PrepareStep ==
  ASSUME IInv, Prepare
  PROVE  IInv'
<1> USE DEF IInv
<1> DEFINE over == {x \in job.items : IsDisabled(Category[x])}
           kept == Send(job.items \ over, IF All \in disabled THEN {} ELSE job.report)
<1>1. /\ wpc = "prepare" /\ Nothing(Worker) /\ Lose(Worker, over)
      /\ spilled' = spilled \cup Listed(job.report \ kept.report)
      /\ job' = kept /\ wpc' = IF kept = Send({}, {}) THEN "reports" ELSE "attach"
      /\ UNCHANGED <<queue, disabled, captured, delivered, flushState>>
      /\ UNCHANGED counters
  <2>1. IF kept = Send({}, {}) THEN job' = Send({}, {}) /\ wpc' = "reports"
        ELSE job' = kept /\ wpc' = "attach"
    BY DEF Prepare, Go
  <2>2. job' = kept /\ wpc' = IF kept = Send({}, {}) THEN "reports" ELSE "attach"
    <3> HIDE DEF kept
    <3> QED
      BY <2>1
  <2> QED
    BY <2>2 DEF Prepare, AtWork
<1>2. job \in Jobs /\ job.items \subseteq Items /\ job.report \in SUBSET Entry
  BY ListedTypes DEF TypeOK
<1>3. /\ kept \in Jobs /\ kept.items = job.items \ over /\ kept.kind = "send"
      /\ kept.report = IF All \in disabled THEN {} ELSE job.report
  <2>1. /\ job.items \ over \in SUBSET Items
        /\ (IF All \in disabled THEN {} ELSE job.report) \in SUBSET Entry
    BY <1>2
  <2> HIDE DEF over
  <2> QED
    BY <2>1, ListedTypes
<1>4. /\ over \in SUBSET Items /\ over \subseteq job.items
      /\ \A x \in job.items \ over : ~IsDisabled(Category[x])
      /\ All \in disabled => over = job.items
  BY <1>2 DEF IsDisabled
<1>5. All \in disabled => kept = Send({}, {})
  <2> SUFFICES ASSUME All \in disabled PROVE kept = Send({}, {})
    OBVIOUS
  <2>1. job.items \ over = {}
    BY <1>4
  <2> HIDE DEF over
  <2> QED
    BY <2>1
<1> HIDE DEF over, kept
<1>6. /\ Listed(job.report) \subseteq Loss /\ Listed(kept.report) \subseteq Listed(job.report)
      /\ Listed(job.report \ kept.report) = Listed(job.report) \ Listed(kept.report)
  <2>1. CASE All \in disabled
    <3>1. kept.report = {} /\ job.report \ kept.report = job.report
      BY <1>3, <2>1
    <3> QED
      BY <1>2, <3>1, ListedTypes
  <2>2. CASE All \notin disabled
    <3>1. kept.report = job.report /\ job.report \ kept.report = {}
      BY <1>3, <2>2
    <3> QED
      BY <1>2, <3>1, ListedTypes
  <2> QED
    BY <2>1, <2>2
<1>7. QueueInv' /\ Waiting' = Waiting /\ Queued' = Queued /\ (ReportQueued' <=> ReportQueued)
  BY <1>1, QueueSame
<1>8. RepInv' /\ Reported' = Reported
  BY <1>1, <1>6, <1>7 DEF RepInv, Reported
<1>9. Worker \in Actors /\ \A x \in over : fate[x] = {}
  BY <1>2, <1>4 DEF Actors, FateInv
<1>10. /\ fate' \in [Items -> SUBSET Fates] /\ todo' \in [Actors -> SUBSET Loss]
       /\ \A x \in over : fate'[x] = {"lost"}
       /\ \A x \in Items \ over : fate'[x] = fate[x]
       /\ \A b \in Actors : reg'[b] # None => reg'[b].loss \in todo'[b]
       /\ LossInv'
  BY <1>1, <1>4, <1>8, <1>9, LoseCounts DEF counters
<1>11. TypeOK'
  <2>1. spilled' \subseteq Loss
    BY <1>1, <1>6 DEF TypeOK
  <2> QED
    BY <1>1, <1>3, <1>10, <2>1 DEF TypeOK, counters, flushState
<1>12. KindInv'
  BY <1>1, <1>3 DEF KindInv
<1>13. FateInv'
  BY <1>1, <1>2, <1>3, <1>4, <1>7, <1>10 DEF FateInv, Fates
<1>14. LimitInv'
  BY <1>1, <1>3, <1>4, <1>5 DEF LimitInv, IsDisabled
<1>15. ReportDue => ReportDue'
  BY <1>1, <1>7 DEF ReportDue
<1> QED
  BY <1>1, <1>7, <1>8, <1>10, <1>11, <1>12, <1>13, <1>14, <1>15, CountersKept

(* The dictionaries when the worker puts an empty one in place of the      *)
(* other, and when it is done with that.                                   *)
LEMMA SwapDicts ==
  ASSUME IInv, Swap, wpc # "build", wpc' = "build", UNCHANGED todo, Reported' = Reported
  PROVE  /\ counts' \in Dicts /\ swapped' \in Dicts /\ UNCHANGED <<atomic, recorded>>
         /\ reg' \in [Actors -> Regs \cup {None}]
         /\ \A a \in Actors : reg'[a] # None => reg'[a].loss \in todo'[a]
         /\ Counted(counts') \cup Counted(swapped') = Counted(counts) \cup Counted(swapped)
         /\ Current' = {} /\ DictInv'
<1> USE DEF IInv
<1>1. /\ swapped' = counts /\ counts' = Empty /\ UNCHANGED <<atomic, recorded>>
      /\ reg' = [a \in Actors |-> IF reg[a] # None /\ reg[a].dict = "current"
                                  THEN [reg[a] EXCEPT !.dict = "swapped"] ELSE reg[a]]
  BY DEF Swap
<1>2. Empty \in Dicts /\ Counted(Empty) = {} /\ counts \in Dicts
  BY DictTypes DEF TypeOK
<1>3. ASSUME NEW a \in Actors, reg[a] # None
      PROVE  /\ reg'[a] \in Regs /\ reg'[a].loss \in todo'[a] /\ reg'[a].seen = reg[a].seen
             /\ reg'[a].dict = IF reg[a].dict = "current" THEN "swapped" ELSE reg[a].dict
  <2>1. reg[a] \in Regs /\ reg[a].loss \in todo[a]
    BY <1>3, RegTypes
  <2> QED
    BY <1>1, <1>3, <2>1 DEF Regs
<1>4. \A a \in Actors : reg[a] = None => reg'[a] = None
  BY <1>1
<1>5. reg' \in [Actors -> Regs \cup {None}]
  <2>1. \A a \in Actors : reg'[a] \in Regs \cup {None}
    BY <1>3, <1>4
  <2> QED
    BY <1>1, <2>1
<1>6. /\ ~(\E a \in Actors : reg[a] # None /\ reg[a].dict = "swapped")
      /\ swapped = Empty
      /\ \A a \in Actors : reg[a] # None => ~atomic
  BY DEF DictInv
<1>7. Seen("current")' = {} /\ Seen("swapped")' \subseteq Seen("current")
  BY <1>3, <1>4, <1>6 DEF Seen
<1>8. Current' = {} /\ Swapped' \subseteq Current
  BY <1>1, <1>2, <1>7 DEF Current, Swapped
<1>9. DictInv'
  <2>1. \A a \in Actors : reg'[a] # None => ~atomic'
    BY <1>1, <1>4, <1>6
  <2> QED
    BY <1>1, <1>8, <2>1 DEF DictInv
<1> QED
  BY <1>1, <1>2, <1>3, <1>4, <1>5, <1>6, <1>8, <1>9

LEMMA DetachDicts ==
  ASSUME IInv, Detach, UNCHANGED todo, Reported' = Reported \cup Counted(swapped)
  PROVE  /\ counts' \in Dicts /\ swapped' \in Dicts /\ UNCHANGED <<atomic, recorded, counts>>
         /\ reg' \in [Actors -> Regs \cup {None}]
         /\ \A a \in Actors : reg'[a] # None => reg'[a].loss \in todo'[a]
         /\ Counted(swapped') = {} /\ Current' = Current /\ DictInv'
<1> USE DEF IInv
<1>1. /\ swapped' = Empty /\ UNCHANGED <<atomic, recorded, counts>>
      /\ reg' = [a \in Actors |-> IF reg[a] # None /\ reg[a].dict = "swapped"
                                  THEN [reg[a] EXCEPT !.dict = "gone"] ELSE reg[a]]
  BY DEF Detach
<1>2. Empty \in Dicts /\ Counted(Empty) = {} /\ counts \in Dicts
  BY DictTypes DEF TypeOK
<1>3. ASSUME NEW a \in Actors, reg[a] # None
      PROVE  /\ reg'[a] \in Regs /\ reg'[a].loss \in todo'[a] /\ reg'[a].seen = reg[a].seen
             /\ reg'[a].dict = IF reg[a].dict = "swapped" THEN "gone" ELSE reg[a].dict
  <2>1. reg[a] \in Regs /\ reg[a].loss \in todo[a]
    BY <1>3, RegTypes
  <2> QED
    BY <1>1, <1>3, <2>1 DEF Regs
<1>4. \A a \in Actors : reg[a] = None => reg'[a] = None
  BY <1>1
<1>5. reg' \in [Actors -> Regs \cup {None}]
  <2>1. \A a \in Actors : reg'[a] \in Regs \cup {None}
    BY <1>3, <1>4
  <2> QED
    BY <1>1, <2>1
<1>6. Seen("current")' = Seen("current") /\ Seen("swapped")' = {}
  <2>1. None \notin Regs
    BY NoneIsNone
  <2> QED
    BY <1>3, <1>4, <2>1 DEF Seen
<1>7. Current' = Current /\ Swapped' = {}
  BY <1>1, <1>2, <1>6 DEF Current, Swapped
<1>8. DictInv'
  <2>1. \A a \in Actors : reg'[a] # None => ~atomic' /\ reg'[a].dict # "swapped"
    BY <1>1, <1>3, <1>4 DEF DictInv
  <2>2. Current \cap Counted(swapped) = {}
    BY DEF DictInv, Swapped
  <2> QED
    BY <1>1, <1>7, <2>1, <2>2 DEF DictInv
<1> QED
  BY <1>1, <1>2, <1>3, <1>4, <1>5, <1>7, <1>8

(* ... fetches a report, with an envelope or for one of its own ...        *)
LEMMA FetchStep ==
  ASSUME IInv, Attach \/ FetchReport
  PROVE  IInv'
<1> USE DEF IInv
<1>1. /\ wpc \in {"attach", "reports"} /\ Nothing(Worker)
      /\ UNCHANGED <<queue, disabled, todo, captured, fate, reports, flushState>>
  BY DEF Attach, FetchReport, AtWork
<1>2. QueueInv' /\ Waiting' = Waiting /\ Queued' = Queued /\ (ReportQueued' <=> ReportQueued)
  BY <1>1, QueueSame
<1>3. /\ job' \in Jobs /\ job'.items = job.items /\ Listed(job'.report) = Listed(job.report)
      /\ Attach => job' = job /\ job.kind = "send" /\ wpc = "attach"
      /\ FetchReport => job' = Report /\ wpc = "reports"
  <2>1. CASE Attach
    <3>1. job' = job /\ job.kind = "send" /\ ~FetchReport
      BY <2>1 DEF Attach, FetchReport, AtWork, KindInv
    <3> QED
      BY <2>1, <3>1 DEF TypeOK, Attach, AtWork
  <2>2. CASE FetchReport
    <3>1. wpc = "reports" /\ job \in {Report, Send({}, {})} /\ ~Attach
      BY <2>2 DEF Attach, FetchReport, AtWork, KindInv
    <3>2. job' = Report
      BY <2>2, <3>1 DEF FetchReport, Finish, Report, Send
    <3>3. job.items = {} /\ job.report = {}
      BY <3>1, ListedTypes
    <3> QED
      BY <3>1, <3>2, <3>3, ListedTypes
  <2> QED
    BY <2>1, <2>2
<1>4. RepInv' /\ Reported' = Reported
  BY <1>1, <1>2, <1>3 DEF RepInv, Reported, reports
<1>5. wpc' \in {"build", "serialize", "idle"}
  BY DEF Attach, FetchReport, Finish, Go
<1>6. KindInv'
  BY <1>1, <1>3, <1>5, ListedTypes DEF KindInv, Attach, FetchReport, Finish, Go, Nothing
<1>7. FateInv'
  BY <1>1, <1>2, <1>3 DEF FateInv
<1>8. LimitInv'
  <2>1. CASE Attach
    BY <1>1, <1>3, <2>1 DEF LimitInv, IsDisabled
  <2>2. CASE FetchReport
    BY <1>3, <1>5, <2>2, ListedTypes DEF LimitInv, FetchReport, Finish, Go
  <2> QED
    BY <2>1, <2>2
<1>9. CASE Swap /\ wpc' = "build"
  <2>1. /\ counts' \in Dicts /\ swapped' \in Dicts /\ UNCHANGED <<atomic, recorded>>
        /\ reg' \in [Actors -> Regs \cup {None}]
        /\ \A a \in Actors : reg'[a] # None => reg'[a].loss \in todo'[a]
        /\ Counted(counts') \cup Counted(swapped') = Counted(counts) \cup Counted(swapped)
        /\ Current' = {} /\ DictInv'
    BY <1>1, <1>4, <1>9, SwapDicts
  <2>2. TypeOK'
    BY <1>1, <1>3, <1>9, <2>1 DEF TypeOK, flushState, reports
  <2>3. LossInv'
    BY <1>1, <1>4, <2>1 DEF LossInv
  <2>4. FlushInv'
    BY <1>1, <2>1 DEF FlushInv, flushState
  <2> QED
    BY <1>2, <1>4, <1>6, <1>7, <1>8, <2>1, <2>2, <2>3, <2>4
<1>10. CASE UNCHANGED counters /\ wpc' # "build" /\ job.kind = "send"
  <2>1. TypeOK'
    BY <1>1, <1>3, <1>5, <1>10 DEF TypeOK, counters, flushState, reports
  <2>2. LossInv'
    BY <1>1, <1>4, <1>10 DEF LossInv, counters
  <2>3. ReportDue => ReportDue'
    BY <1>1, <1>2, <1>10 DEF ReportDue
  <2> QED
    BY <1>1, <1>2, <1>4, <1>6, <1>7, <1>8, <1>10, <2>1, <2>2, <2>3, CountersKept
<1> QED
  BY <1>3, <1>9, <1>10 DEF Attach, FetchReport, Finish, Go

(* ... makes it of the dictionary ...                                      *)
LEMMA BuildStep ==
  ASSUME IInv, Build
  PROVE  IInv'
<1> USE DEF IInv
<1>1. /\ wpc = "build" /\ todo[Worker] = {} /\ Detach
      /\ UNCHANGED <<queue, disabled, todo, captured, delivered, flushState>>
      /\ swapped \in Dicts /\ job \in Jobs
  BY DEF Build, KindInv, TypeOK
<1>2. QueueInv' /\ Waiting' = Waiting /\ Queued' = Queued /\ (ReportQueued' <=> ReportQueued)
  BY <1>1, QueueSame
<1>3. /\ Entries(swapped) \in SUBSET Entry /\ Listed(Entries(swapped)) = Counted(swapped)
      /\ Counted(swapped) \subseteq Loss /\ Counted(Empty) = {}
      /\ job.report \in SUBSET Entry /\ job.items \in SUBSET Items
      /\ Listed(job.report) \subseteq Loss
  BY <1>1, DictTypes, ListedTypes
<1>4. Counted(swapped) \subseteq recorded /\ Counted(swapped) \cap Reported = {}
  BY DEF DictInv, Swapped
<1>5. fate \in [Items -> SUBSET Fates] /\ spilled \subseteq Loss
  BY DEF TypeOK
<1> DEFINE Built == /\ job' \in Jobs /\ wpc' \in {"idle", "serialize", "submit"}
                    /\ fate' \in [Items -> SUBSET Fates] /\ spilled' \subseteq Loss
                    /\ \A x \in Items : fate[x] \subseteq fate'[x]
                    /\ Reported' = Reported \cup Counted(swapped)
                    /\ KindInv' /\ FateInv' /\ LimitInv' /\ RepInv'
<1>6. ASSUME /\ job.kind = "send" /\ job' = [job EXCEPT !.report = job.report \cup Entries(swapped)]
             /\ wpc' = "serialize" /\ UNCHANGED <<spilled, fate>>
      PROVE  Built
  <2>1. /\ job' \in Jobs /\ job'.items = job.items /\ job'.kind = "send"
        /\ job'.report = job.report \cup Entries(swapped)
    BY <1>1, <1>3, <1>6 DEF Jobs
  <2>2. Listed(job'.report) = Listed(job.report) \cup Counted(swapped)
    BY <1>3, <2>1, ListedTypes
  <2>3. KindInv' /\ FateInv' /\ LimitInv'
    BY <1>1, <1>2, <1>6, <2>1 DEF KindInv, FateInv, LimitInv, IsDisabled
  <2>4. RepInv' /\ Reported' = Reported \cup Counted(swapped)
    BY <1>1, <1>2, <1>4, <1>6, <2>2 DEF RepInv, Reported
  <2> QED
    BY <1>5, <1>6, <2>1, <2>3, <2>4
<1>7. ASSUME job.kind = "report" /\ swapped = Empty /\ Finish /\ UNCHANGED <<spilled, fate>>
      PROVE  Built
  <2>1. job = Report /\ job' = Report /\ wpc' = "idle" /\ Counted(swapped) = {}
    BY <1>1, <1>3, <1>7 DEF KindInv, Finish, Go
  <2>2. KindInv' /\ FateInv' /\ LimitInv'
    BY <1>1, <1>2, <1>7, <2>1 DEF KindInv, FateInv, LimitInv
  <2>3. RepInv' /\ Reported' = Reported \cup Counted(swapped)
    BY <1>1, <1>2, <1>7, <2>1 DEF RepInv, Reported
  <2> QED
    BY <1>5, <1>1, <1>7, <2>1, <2>2, <2>3
<1>8. ASSUME /\ job.kind = "report" /\ wpc' = "submit" /\ UNCHANGED <<spilled, fate>>
             /\ job' = [job EXCEPT !.report = Entries(swapped)]
      PROVE  Built
  <2>1. job = Report /\ job.items = {} /\ Listed(job.report) = {}
    BY <1>1, <1>8, ListedTypes DEF KindInv
  <2>2. job' \in Jobs /\ job'.items = {} /\ job'.report = Entries(swapped)
    BY <1>1, <1>3, <1>8, <2>1 DEF Jobs
  <2>3. KindInv' /\ FateInv' /\ LimitInv'
    BY <1>1, <1>2, <1>8, <2>1, <2>2 DEF KindInv, FateInv, LimitInv
  <2>4. RepInv' /\ Reported' = Reported \cup Counted(swapped)
    BY <1>1, <1>2, <1>3, <1>4, <1>8, <2>1, <2>2 DEF RepInv, Reported
  <2> QED
    BY <1>5, <1>8, <2>2, <2>3, <2>4
<1>9. ASSUME spilled' = spilled \cup Counted(swapped) \cup Listed(job.report) /\ Abandon
      PROVE  Built
  <2>1. /\ job' = Report /\ wpc' = "idle" /\ fate' = Met(job.items, "vanished")
        /\ "vanished" \in Fates /\ job'.items = {} /\ Listed(job'.report) = {} /\ job' \in Jobs
    BY <1>9, ListedTypes DEF Abandon, Finish, Go, Fates
  <2>2. /\ fate' \in [Items -> SUBSET Fates]
        /\ \A x \in job.items : fate'[x] = fate[x] \cup {"vanished"}
        /\ \A x \in Items \ job.items : fate'[x] = fate[x]
    BY <1>3, <2>1, MetFate
  <2>3. KindInv' /\ LimitInv'
    BY <1>1, <2>1 DEF KindInv, LimitInv
  <2>4. FateInv'
    BY <1>1, <1>2, <1>3, <2>1, <2>2 DEF FateInv
  <2>5. RepInv' /\ Reported' = Reported \cup Counted(swapped)
    BY <1>1, <1>2, <1>4, <1>9, <2>1 DEF RepInv, Reported
  <2> QED
    <3>1. \A x \in Items : fate[x] \subseteq fate'[x]
      BY <2>2
    <3> QED
      BY <1>5, <1>3, <1>9, <2>1, <2>2, <2>3, <2>4, <2>5, <3>1
<1>10. Built
  <2>1. \/ /\ job.kind = "send" /\ job' = [job EXCEPT !.report = job.report \cup Entries(swapped)]
           /\ wpc' = "serialize" /\ UNCHANGED <<spilled, fate>>
        \/ job.kind = "report" /\ swapped = Empty /\ Finish /\ UNCHANGED <<spilled, fate>>
        \/ /\ job.kind = "report" /\ wpc' = "submit" /\ UNCHANGED <<spilled, fate>>
           /\ job' = [job EXCEPT !.report = Entries(swapped)]
        \/ spilled' = spilled \cup Counted(swapped) \cup Listed(job.report) /\ Abandon
    BY DEF Build, Go
  <2> HIDE DEF Built
  <2> QED
    BY <1>6, <1>7, <1>8, <1>9, <2>1
<1>11. /\ counts' \in Dicts /\ swapped' \in Dicts /\ UNCHANGED <<atomic, recorded, counts>>
       /\ reg' \in [Actors -> Regs \cup {None}]
       /\ \A a \in Actors : reg'[a] # None => reg'[a].loss \in todo'[a]
       /\ Counted(swapped') = {} /\ Current' = Current /\ DictInv'
  BY <1>1, <1>10, DetachDicts
<1>12. TypeOK'
  BY <1>1, <1>10, <1>11 DEF TypeOK, flushState
<1>13. LossInv'
  <2>1. Reported' \subseteq recorded
    BY <1>4, <1>10 DEF LossInv
  <2> QED
    BY <1>1, <1>10, <1>11, <2>1, LossesKept
<1>14. FlushInv'
  <2>1. ReportDue => ReportDue'
    BY <1>1, <1>2 DEF ReportDue
  <2> QED
    BY <1>1, <1>11, <2>1, FlushKept
<1> QED
  BY <1>2, <1>10, <1>11, <1>12, <1>13, <1>14

(* ... submits it ...                                                      *)
LEMMA SubmitReportStep ==
  ASSUME IInv, SubmitReport
  PROVE  IInv'
<1> USE DEF IInv
<1>1. /\ wpc = "submit" /\ wpc' = "idle" /\ job' = Report /\ job.items = {} /\ job \in Jobs
      /\ job.report \in SUBSET Entry /\ job'.items = {} /\ Listed(job'.report) = {} /\ job' \in Jobs
      /\ UNCHANGED <<disabled, todo, captured, fate, delivered, flushState>>
      /\ UNCHANGED counters
  BY ListedTypes DEF SubmitReport, Finish, Go, KindInv, TypeOK
<1>2. /\ queue' \in Seq(Jobs) /\ Len(queue') <= QueueSize /\ QueueInv' /\ Waiting' = Waiting
      /\ \/ Queued' = Queued \cup Listed(job.report) /\ spilled' = spilled
         \/ Queued' = Queued /\ spilled' = spilled \cup Listed(job.report)
      /\ ReportQueued' <=> ReportQueued
  <2>1. CASE Room /\ queue' = Append(queue, Send({}, job.report)) /\ UNCHANGED spilled
    <3> DEFINE j == Send({}, job.report)
    <3>1. /\ j \in Jobs /\ j.items = {} /\ j.report = job.report
          /\ j.kind # "report" /\ queue' = Append(queue, j)
      BY <1>1, <2>1, ListedTypes
    <3> HIDE DEF j
    <3>2. j.items \cap Waiting = {} /\ Listed(j.report) \cap Queued = {}
      BY <3>1 DEF RepInv
    <3> QED
      BY <2>1, <3>1, <3>2, QueueAppend
  <2>2. CASE UNCHANGED queue /\ spilled' = spilled \cup Listed(job.report)
    <3>1. /\ QueueInv' /\ Waiting' = Waiting /\ Queued' = Queued
          /\ (ReportQueued' <=> ReportQueued)
      BY <2>2, QueueSame
    <3> QED
      BY <2>2, <3>1 DEF TypeOK
  <2> QED
    BY <2>1, <2>2 DEF SubmitReport
<1>3. RepInv' /\ Reported' = Reported
  BY <1>1, <1>2 DEF RepInv, Reported
<1>4. TypeOK'
  <2>1. spilled' \subseteq Loss
    <3>1. Listed(job.report) \subseteq Loss
      BY <1>1, ListedTypes
    <3> QED
      BY <3>1 DEF TypeOK, SubmitReport
  <2> QED
    BY <1>1, <1>2, <2>1 DEF TypeOK, counters, flushState
<1>5. KindInv' /\ LimitInv'
  BY <1>1 DEF KindInv, LimitInv
<1>6. FateInv'
  BY <1>1, <1>2 DEF FateInv
<1>7. LossInv'
  BY <1>1, <1>3 DEF LossInv, counters
<1>8. ReportDue => ReportDue'
  BY <1>1, <1>2 DEF ReportDue
<1> QED
  BY <1>1, <1>2, <1>3, <1>4, <1>5, <1>6, <1>7, <1>8, CountersKept

(* ... and sends the envelope.  An exception is the end of what it held.   *)
LEMMA SerializeStep ==
  ASSUME IInv, Serialize
  PROVE  IInv'
<1> USE DEF IInv
<1>1. /\ wpc = "serialize" /\ todo[Worker] = {} /\ job.kind = "send" /\ job \in Jobs
      /\ UNCHANGED <<queue, disabled, todo, captured, delivered, flushState>>
      /\ UNCHANGED counters
  BY DEF Serialize, KindInv, TypeOK
<1>2. QueueInv' /\ Waiting' = Waiting /\ Queued' = Queued /\ (ReportQueued' <=> ReportQueued)
  BY <1>1, QueueSame
<1>3. ReportDue => ReportDue'
  BY <1>1, <1>2 DEF ReportDue
<1>4. CASE wpc' = "request" /\ UNCHANGED <<job, spilled, fate>>
  <2>1. TypeOK'
    BY <1>1, <1>4 DEF TypeOK, counters, flushState
  <2>2. KindInv' /\ FateInv' /\ LimitInv' /\ RepInv'
    BY <1>1, <1>2, <1>4 DEF KindInv, FateInv, LimitInv, IsDisabled, RepInv
  <2>3. Reported' = Reported
    BY <1>1, <1>2, <1>4 DEF Reported
  <2>4. LossInv'
    BY <1>1, <1>4, <2>3 DEF LossInv, counters
  <2> QED
    BY <1>1, <1>2, <1>3, <1>4, <2>1, <2>2, <2>3, <2>4, CountersKept
<1>5. CASE spilled' = spilled \cup Listed(job.report) /\ Abandon
  <2>1. /\ job' = Report /\ wpc' = "idle" /\ fate' = Met(job.items, "vanished")
        /\ "vanished" \in Fates /\ job'.items = {} /\ Listed(job'.report) = {} /\ job' \in Jobs
        /\ job.items \in SUBSET Items /\ Listed(job.report) \subseteq Loss
    BY <1>1, <1>5, ListedTypes DEF Abandon, Finish, Go, Fates
  <2>2. /\ fate' \in [Items -> SUBSET Fates]
        /\ \A x \in job.items : fate'[x] = fate[x] \cup {"vanished"}
        /\ \A x \in Items \ job.items : fate'[x] = fate[x]
    BY <2>1, MetFate
  <2>3. TypeOK'
    BY <1>1, <1>5, <2>1, <2>2 DEF TypeOK, counters, flushState
  <2>4. KindInv' /\ LimitInv'
    BY <1>1, <2>1 DEF KindInv, LimitInv
  <2>5. FateInv'
    BY <1>1, <1>2, <2>1, <2>2 DEF FateInv
  <2>6. RepInv' /\ Reported' = Reported
    BY <1>1, <1>2, <1>5, <2>1 DEF RepInv, Reported
  <2>7. LossInv'
    <3>1. \A x \in Items : fate[x] \subseteq fate'[x]
      BY <2>2
    <3>2. Reported' \subseteq recorded
      BY <2>6 DEF LossInv
    <3> QED
      BY <1>1, <2>6, <3>1, <3>2, LossesKept DEF counters
  <2> QED
    BY <1>1, <1>2, <1>3, <2>1, <2>3, <2>4, <2>5, <2>6, <2>7, CountersKept
<1> QED
  BY <1>4, <1>5 DEF Serialize, Go

(* The request's outcome: every item meets the same fate, its losses are   *)
(* to be counted or not, and the reports are delivered or not.             *)
LEMMA SentStep ==
  ASSUME IInv, NEW f \in Fates, wpc = "request",
         wpc' \in {"idle", "reports"}, wpc' = "idle" => job' = Report,
         job' \in {Report, Send({}, {})}, disabled' \subseteq Categories \cup {All},
         fate' = Met(job.items, f), Lose(Worker, job.items) \/ UNCHANGED todo,
         \/ delivered' = delivered \cup Listed(job.report) /\ UNCHANGED spilled
         \/ spilled' = spilled \cup Listed(job.report) /\ UNCHANGED delivered,
         UNCHANGED <<queue, captured, flushState>>, UNCHANGED counters
  PROVE  IInv'
<1> USE DEF IInv
<1>1. /\ todo[Worker] = {} /\ job \in Jobs /\ job.items \in SUBSET Items
      /\ Listed(job.report) \subseteq Loss
      /\ job' \in Jobs /\ job'.items = {} /\ Listed(job'.report) = {}
  <2>1. todo[Worker] = {} /\ job \in Jobs
    BY DEF KindInv, TypeOK
  <2>2. {} \in SUBSET Items /\ {} \in SUBSET Entry
    OBVIOUS
  <2>3. /\ Report \in Jobs /\ Report.items = {} /\ Listed(Report.report) = {}
        /\ Send({}, {}) \in Jobs /\ Send({}, {}).items = {} /\ Listed(Send({}, {}).report) = {}
    BY <2>2, ListedTypes
  <2> QED
    BY <2>1, <2>3, ListedTypes
<1>2. QueueInv' /\ Waiting' = Waiting /\ Queued' = Queued /\ (ReportQueued' <=> ReportQueued)
  BY QueueSame
<1>3. RepInv' /\ Reported' = Reported
  BY <1>1, <1>2 DEF RepInv, Reported
<1>4. /\ fate' \in [Items -> SUBSET Fates]
      /\ \A x \in job.items : fate[x] = {} /\ fate'[x] = {f}
      /\ \A x \in Items \ job.items : fate'[x] = fate[x]
  <2>1. \A x \in job.items : fate[x] = {}
    BY <1>1 DEF FateInv
  <2>2. /\ fate' \in [Items -> SUBSET Fates]
        /\ \A x \in job.items : fate'[x] = fate[x] \cup {f}
        /\ \A x \in Items \ job.items : fate'[x] = fate[x]
    BY <1>1, MetFate
  <2> QED
    BY <2>1, <2>2
<1>5. /\ todo' \in [Actors -> SUBSET Loss] /\ LossInv'
      /\ \A b \in Actors : reg'[b] # None => reg'[b].loss \in todo'[b]
  <2>1. CASE Lose(Worker, job.items)
    <3>1. Worker \in Actors /\ Nothing(Worker)
      BY <1>1 DEF Actors, Nothing
    <3> QED
      BY <1>1, <1>3, <1>4, <2>1, <3>1, LoseCounts DEF counters
  <2>2. CASE UNCHANGED todo
    <3>1. \A x \in Items : fate[x] \subseteq fate'[x]
      BY <1>4
    <3>2. Reported' \subseteq recorded
      BY <1>3 DEF LossInv
    <3>3. LossInv'
      BY <1>3, <2>2, <3>1, <3>2, LossesKept DEF counters
    <3> QED
      BY <2>2, <3>3 DEF TypeOK, counters
  <2> QED
    BY <2>1, <2>2
<1>6. TypeOK'
  <2>1. delivered' \subseteq Loss /\ spilled' \subseteq Loss
    BY <1>1 DEF TypeOK
  <2> QED
    BY <1>1, <1>4, <1>5, <2>1 DEF TypeOK, counters, flushState
<1>7. KindInv' /\ LimitInv'
  BY DEF KindInv, LimitInv
<1>8. FateInv'
  BY <1>1, <1>2, <1>4 DEF FateInv
<1>9. ReportDue => ReportDue'
  BY <1>2 DEF ReportDue
<1> QED
  BY <1>2, <1>3, <1>5, <1>6, <1>7, <1>8, <1>9, CountersKept

LEMMA RequestFailsStep ==
  ASSUME IInv, RequestFails
  PROVE  IInv'
<1>1. /\ wpc = "request" /\ wpc' = "idle" /\ job' = Report /\ fate' = Met(job.items, "lost")
      /\ Lose(Worker, job.items) /\ spilled' = spilled \cup Listed(job.report)
      /\ UNCHANGED <<queue, disabled, captured, delivered, flushState>> /\ UNCHANGED counters
  BY DEF RequestFails, Lose, Finish, Go
<1>2. "lost" \in Fates /\ disabled \subseteq Categories \cup {All}
  BY DEF Fates, IInv, TypeOK
<1> QED
  BY <1>1, <1>2, SentStep

LEMMA RespondStep ==
  ASSUME IInv, NEW status \in {"200", "429", "500"}, NEW header \in Headers,
         Respond(status, header)
  PROVE  IInv'
<1>1. /\ wpc = "request" /\ wpc' = "reports" /\ job' = Send({}, {})
      /\ UNCHANGED <<queue, captured, flushState>> /\ UNCHANGED counters
  BY DEF Respond, Go
<1>2. disabled' \subseteq Categories \cup {All}
  BY HeaderType DEF Respond, Limits, IInv, TypeOK
<1>3. PICK f \in Fates :
        /\ fate' = Met(job.items, f) /\ (Lose(Worker, job.items) \/ UNCHANGED todo)
        /\ \/ delivered' = delivered \cup Listed(job.report) /\ UNCHANGED spilled
           \/ spilled' = spilled \cup Listed(job.report) /\ UNCHANGED delivered
  BY DEF Respond, Lose, Fates
<1> QED
  BY <1>1, <1>2, <1>3, SentStep

-----------------------------------------------------------------------------
(* IInv holds at first, and every step keeps it.                           *)
LEMMA InitIInv == Init => IInv
<1> SUFFICES ASSUME Init PROVE IInv
  OBVIOUS
<1> USE DEF Init
<1>1. Empty \in Dicts /\ Counted(Empty) = {}
  BY DictTypes
<1>2. Report \in Jobs /\ Report.items = {} /\ Listed(Report.report) = {} /\ Report.kind = "report"
  BY ListedTypes
<1>3. queue \in Seq(Jobs) /\ Len(queue) <= QueueSize /\ DOMAIN queue = {}
  BY Bounds
<1>4. TypeOK
  BY <1>1, <1>2, <1>3, Flags, Bounds DEF TypeOK
<1>5. KindInv /\ LimitInv
  BY DEF KindInv, LimitInv, Actors
<1>6. QueueInv /\ Waiting = {} /\ Queued = {} /\ ~ReportQueued
  BY <1>3 DEF QueueInv, Waiting, Queued, ReportQueued
<1>7. FateInv
  BY <1>2, <1>6 DEF FateInv
<1>8. Reported = {}
  BY <1>2, <1>6 DEF Reported
<1>9. LossInv
  BY <1>8 DEF LossInv
<1>10. Current = {} /\ Swapped = {}
  BY <1>1 DEF Current, Swapped, Seen
<1>11. DictInv /\ RepInv /\ FlushInv
  BY <1>2, <1>6, <1>10 DEF DictInv, RepInv, FlushInv
<1> QED
  BY <1>4, <1>5, <1>6, <1>7, <1>9, <1>11 DEF IInv

LEMMA StepIInv == IInv /\ [Next]_vars => IInv'
<1> SUFFICES ASSUME IInv, [Next]_vars PROVE IInv'
  OBVIOUS
<1>1. CASE WorkerStep
  BY <1>1, GetJobStep, PrepareStep, FetchStep, BuildStep, SerializeStep, SubmitReportStep,
     RequestFailsStep, RespondStep DEF WorkerStep
<1>2. ASSUME NEW a \in Actors,
             \/ CountRead(a) \/ CountWrite(a)
             \/ \E l \in todo[a] : CountLoad(a, l) \/ Increment(a, l)
      PROVE  IInv'
  BY <1>2, CountReadStep, CountWriteStep, CountLoadStep, IncrementStep
<1>3. ASSUME NEW a \in Apps,
             \/ Flush(a) \/ FlushReturn(a)
             \/ \E e \in Envelopes : Capture(a, e)
             \/ \E x \in Items : Discard(a, x)
      PROVE  IInv'
  BY <1>3, FlushStep, CaptureStep, DiscardStep
<1>4. ASSUME NEW b \in Categories \cup {All}, Expire(b)
      PROVE  IInv'
  <2>1. b \in disabled
    BY <1>4 DEF Expire
  <2> QED
    BY <1>4, <2>1, ExpireStep
<1>5. CASE UNCHANGED vars
  <2>1. /\ UNCHANGED <<queue, wpc, job, disabled, todo, captured, fate, reports, flushState>>
        /\ UNCHANGED counters
    BY <1>5 DEF vars, workerState
  <2>2. QueueInv' /\ Waiting' = Waiting /\ Queued' = Queued /\ (ReportQueued' <=> ReportQueued)
    BY <2>1, QueueSame DEF IInv
  <2>3. Reported' = Reported
    BY <2>1, <2>2 DEF Reported, reports
  <2>4. TypeOK'
    BY <2>1 DEF IInv, TypeOK, counters, flushState, reports
  <2>5. KindInv' /\ FateInv' /\ LimitInv' /\ RepInv' /\ LossInv'
    BY <2>1, <2>2, <2>3 DEF IInv, KindInv, FateInv, LimitInv, IsDisabled, RepInv, LossInv,
                            counters, reports
  <2>6. ReportDue => ReportDue'
    BY <2>1, <2>2 DEF ReportDue
  <2> QED
    BY <2>1, <2>2, <2>3, <2>4, <2>5, <2>6, CountersKept
<1> QED
  BY <1>1, <1>2, <1>3, <1>4, <1>5 DEF Next

THEOREM Inductive == Spec => []IInv
BY InitIInv, StepIInv, PTL DEF Spec

-----------------------------------------------------------------------------
(* The places of a loss are apart, and the queue is one of them.           *)
LEMMA PlacesApart ==
  ASSUME IInv, NEW l \in Loss
  PROVE  /\ Cardinality(Places(l)) + Cardinality(QueuedReports(l)) <= 1
         /\ l \in Counted(counts) \cup Counted(swapped) \cup Reported =>
              Places(l) # {} \/ QueuedReports(l) # {}
<1> USE DEF IInv
<1>1. /\ Places(l) \subseteq {"counts", "swapped", "job", "delivered", "spilled"}
      /\ "counts" \in Places(l) <=> l \in Counted(counts)
      /\ "swapped" \in Places(l) <=> l \in Counted(swapped)
      /\ "job" \in Places(l) <=> l \in Listed(job.report)
      /\ "delivered" \in Places(l) <=> l \in delivered
      /\ "spilled" \in Places(l) <=> l \in spilled
  BY DEF Places
<1>2. /\ Counted(counts) \cap Counted(swapped) = {}
      /\ (Counted(counts) \cup Counted(swapped)) \cap Reported = {}
      /\ Reported = Listed(job.report) \cup delivered \cup spilled \cup Queued
  BY DEF DictInv, Current, Swapped, Reported
<1>3. /\ delivered \cap spilled = {} /\ Listed(job.report) \cap Queued = {}
      /\ (delivered \cup spilled) \cap (Listed(job.report) \cup Queued) = {}
  BY DEF RepInv
<1>4. l \in Queued <=> QueuedReports(l) # {}
  BY DEF Queued, QueuedReports
<1>5. \A i, k \in QueuedReports(l) : i = k
  BY DEF QueueInv, QueuedReports
<1>6. Cardinality({}) = 0 /\ \A p : Cardinality({p}) = 1
  BY FS_EmptySet, FS_Singleton
<1>7. CASE l \in Queued
  <2>1. PICK i \in QueuedReports(l) : QueuedReports(l) = {i}
    BY <1>4, <1>5, <1>7
  <2>2. Places(l) = {}
    <3>1. \A p \in Places(l) : FALSE
      BY <1>1, <1>2, <1>3, <1>7
    <3> QED
      BY <3>1
  <2>3. Cardinality(QueuedReports(l)) = 1 /\ Cardinality(Places(l)) = 0
    BY <1>6, <2>1, <2>2
  <2>4. QueuedReports(l) # {}
    BY <2>1
  <2> QED
    BY <2>3, <2>4
<1>8. CASE l \notin Queued
  <2>1. QueuedReports(l) = {}
    BY <1>4, <1>8
  <2>2. \A p, q \in Places(l) : p = q
    BY <1>1, <1>2, <1>3
  <2>3. Places(l) = {} \/ \E p \in Places(l) : Places(l) = {p}
    BY <2>2
  <2>4. Cardinality(Places(l)) \in {0, 1}
    BY <1>6, <2>3
  <2>5. l \in Counted(counts) \cup Counted(swapped) \cup Reported => Places(l) # {}
    BY <1>1, <1>2, <1>8
  <2> QED
    BY <1>6, <2>1, <2>4, <2>5
<1> QED
  BY <1>7, <1>8

(* Every loss that was counted is in one dictionary or one report at most, *)
(* however the increments of several threads and the swaps of the worker   *)
(* interleave; and it is in one, if an increment is one step               *)
(* (transport.py:331, 442-463).                                            *)
THEOREM LossesCountedOnce == Spec => []CountedOnce
<1>1. IInv => CountedOnce
  <2> SUFFICES ASSUME IInv PROVE CountedOnce
    OBVIOUS
  <2>1. TypeOK /\ ReportedOnce
    BY PlacesApart DEF IInv, ReportedOnce
  <2>2. ASSUME atomic, NEW l \in recorded
        PROVE  Places(l) # {} \/ QueuedReports(l) # {}
    <3>1. l \in Loss /\ l \in Counted(counts) \cup Counted(swapped) \cup Reported
      BY <2>2 DEF IInv, TypeOK, LossInv
    <3> QED
      BY <3>1, PlacesApart
  <2> QED
    BY <2>1, <2>2 DEF CountedOnce, CountsConserved, LossesCounted
<1> QED
  BY <1>1, Inductive, PTL

(* Every item that was captured is on its way or has one fate, and none is *)
(* sent in a category which is limited (transport.py:338-417, 465-498,     *)
(* 661-716).                                                               *)
THEOREM EveryItemHasOneFate == Spec => []OneRightFate
<1>1. IInv => OneRightFate
  <2> SUFFICES ASSUME IInv PROVE OneRightFate
    OBVIOUS
  <2>1. ASSUME NEW x \in captured
        PROVE  Cardinality(fate[x]) = (IF OnItsWay(x) THEN 0 ELSE 1)
    <3>1. x \in Items
      BY DEF IInv, TypeOK
    <3>2. OnItsWay(x) <=> x \in job.items \cup Waiting
      BY DEF OnItsWay, Waiting
    <3>3. CASE OnItsWay(x)
      <4>1. fate[x] = {}
        BY <3>1, <3>2, <3>3 DEF IInv, FateInv
      <4> QED
        BY <3>3, <4>1, FS_EmptySet
    <3>4. CASE ~OnItsWay(x)
      <4>1. PICK f \in Fates : fate[x] = {f}
        BY <3>1, <3>2, <3>4 DEF IInv, FateInv
      <4> QED
        BY <3>4, <4>1, FS_Singleton
    <3> QED
      BY <3>3, <3>4
  <2>2. RespectsLimits
    BY DEF IInv, LimitInv, RespectsLimits
  <2> QED
    BY <2>1, <2>2 DEF OneRightFate, OneFate
<1> QED
  BY <1>1, Inductive, PTL

(* A flush() that ends with nothing left to do, and whose report job was   *)
(* accepted, leaves nothing in the counters that was counted before it     *)
(* (transport.py:699-702, 718-727).                                        *)
THEOREM FlushReportsAll == Spec => FlushReports
<1>1. ASSUME IInv, NEW a \in Apps, apc[a] = "flush", Drained, asked[a]
      PROVE  before[a] \cap Counted(counts) = {}
  <2>1. DOMAIN queue = {}
    BY <1>1 DEF Drained
  <2>2. ~ReportDue
    BY <1>1, <2>1 DEF ReportDue, ReportQueued, Drained
  <2> QED
    BY <1>1, <2>2 DEF IInv, FlushInv, Current
<1>2. IInv => \A a \in Apps : apc[a] = "flush" /\ apc'[a] = "idle" /\ Drained /\ asked[a]
                               => before[a] \cap Counted(counts) = {}
  BY <1>1
<1> QED
  BY <1>2, Inductive, PTL DEF FlushReports
-----------------------------------------------------------------------------
(***************************************************************************)
(* The headers between services.  Theorems about TracePropagation, of      *)
(* which Requests has an instance T, for any number of services, any       *)
(* organisations, rates and sample_rands, and any configurations of the    *)
(* services, with what T!Constants says of them.  TraceInv says what there *)
(* is at each point of a service's handling of a request, and then, for    *)
(* each property, what of it is on its way in the headers, in the          *)
(* propagation context and in the span.                                    *)
(***************************************************************************)

(* The instance's Cardinality is FiniteSets'.                              *)
LEMMA SameFiniteness ==
  \A X : T!Cardinality(X) = Cardinality(X) /\ (T!IsFiniteSet(X) <=> IsFiniteSet(X))
  BY DEF T!Cardinality, Cardinality, T!IsFiniteSet, IsFiniteSet

(* The interval of a draw that nothing is known of.                        *)
Whole == <<0, One \div Unit>>

DrawsInv == \A i \in DOMAIN draws : i \in Nat \X Nat /\ draws[i] \in T!Rands \cap T!Fresh(i)

(* A rate and a sample_rand explain a decision.                            *)
Explains(rand, rate, sampled) == sampled <=> rand < rate

(* The baggage that a service decides by.                                  *)
Held == IF config.streaming THEN context.bag ELSE span.bag

(* What there is at each point, and who has decided.                       *)
Decisions == [sampled : BOOLEAN, rate : T!Maybe(T!Rates), rand : T!Maybe(T!Rands), by : 1..Services]
PlaceInv ==
  /\ at = "way" => IF service = 0 THEN arrived = None /\ decided = {} ELSE arrived # None
  /\ at = "way" /\ arrived # None =>
       (arrived.bag # None => ~arrived.bag.mutable \/ arrived.bag.rate = None)
  /\ at # "way" => service > 0 /\ config # None /\ context # None
  /\ at = "start" => /\ IF config.streaming THEN span = None ELSE span # None
                     /\ context.bag = None => Held = None
                     /\ Held # None => ~Held.mutable \/ Held.rand # None
  /\ at = "call" => span # None
DecidedInv ==
  /\ decided \subseteq Decisions
  /\ \A d \in decided : /\ d.by <= service /\ (at = "start" => d.by < service)
                        /\ d.rate # None => d.rand # None /\ Explains(d.rand, d.rate, d.sampled)
  /\ at = "call" => \A d \in decided : d.by = service => T!Tracing(config) /\ d = T!Decision(span)
  /\ at = "call" /\ T!Tracing(config) =>
       /\ span.sampled \in BOOLEAN
       /\ span.rate # None => span.rand # None /\ Explains(span.rand, span.rate, span.sampled)

(* OneRand.                                                                *)
Seeded(rand) == rand # None => Whole \in DOMAIN draws /\ rand = draws[Whole]
SeededBag(bag) == bag # None => Seeded(bag.rand)
RandInv ==
  damage \cap {"rand", "early"} = {} =>
    /\ \A d \in decided : Seeded(d.rand)
    /\ at = "way" /\ arrived # None =>
         /\ SeededBag(arrived.bag)
         /\ arrived.bag # None /\ arrived.bag.rand = None
              => None \in {arrived.sampled, arrived.bag.rate}
    /\ at # "way" => SeededBag(context.bag)
    /\ at = "start" => SeededBag(Held) /\ (Held # None => Held.rand # None)
    /\ at = "call" => /\ Seeded(span.rand) /\ SeededBag(span.bag)
                      /\ span.bag # None => span.bag.rand # None

(* WholeOrNothing.                                                         *)
WholeInv ==
  apart = {} =>
    /\ \A d, e \in decided : d.sampled = e.sampled
    /\ \A d \in decided : CASE at = "way" -> arrived.sampled = d.sampled
                            [] at = "start" -> context.sampled = d.sampled
                            [] at = "call" -> T!Tracing(config) => span.sampled = d.sampled

(* OrgsApart.                                                              *)
FirstBag(bag) == IF bag = None THEN config.org = first ELSE bag.org = first
OrgInv ==
  first # None /\ "baggage" \notin damage =>
    /\ orgs \subseteq {first}
    /\ at = "way" /\ arrived # None => arrived.bag # None /\ arrived.bag.org = first
    /\ at # "way" => FirstBag(context.bag)
    /\ at = "start" => FirstBag(Held)
    /\ at = "call" => FirstBag(span.bag)

(* HeadersTrue.                                                            *)
TrueBag(sampled, bag) ==
  sampled # None /\ bag # None =>
    (bag.rand # None /\ bag.rate # None => Explains(bag.rand, bag.rate, sampled))
TrueInv ==
  damage \cap {"fine", "stale"} = {} =>
    /\ at = "way" /\ arrived # None => TrueBag(arrived.sampled, arrived.bag)
    /\ at = "start" => TrueBag(context.sampled, Held)
    /\ at = "call" /\ T!Tracing(config) => TrueBag(span.sampled, T!OfSpan)

(* Nested: what the next service is told of a decision by a rate.          *)
Trivial(d) == d.rate \in {0, One}
Carries(bag, d) ==
  Trivial(d) \/ /\ bag.rate = d.rate
                /\ bag.rand # None => Explains(bag.rand, d.rate, d.sampled)
Reaches(bag, d) == Trivial(d) \/ /\ bag # None
                                 /\ bag.rand # None /\ Explains(bag.rand, d.rate, d.sampled)
Rated == {d \in decided : d.rate # None}
LastInv ==
  damage \subseteq {"rand"} /\ "outside" \notin apart =>
    /\ \A d, e \in Rated : d.by + 1 = e.by => Explains(e.rand, d.rate, d.sampled)
    /\ at = "way" => \A d \in Rated : d.by = service =>
                       /\ arrived.sampled = d.sampled
                       /\ arrived.bag # None /\ Carries(arrived.bag, d)
    /\ at = "start" => \A d \in Rated : d.by + 1 = service => Reaches(Held, d)
    /\ at = "call" => \A d \in Rated : d.by = service => Carries(T!OfSpan, d)

TraceInv == /\ T!TypeOK /\ DrawsInv /\ PlaceInv /\ DecidedInv
            /\ RandInv /\ WholeInv /\ OrgInv /\ TrueInv /\ LastInv

LEMMA Remainders ==
  ASSUME NEW a \in Nat, NEW b \in Nat \ {0}
  PROVE  a \div b \in Nat /\ a % b \in 0..(b - 1) /\ a = b * (a \div b) + (a % b)
OBVIOUS

LEMMA Multiples ==
  ASSUME NEW a \in Nat, NEW b \in Nat, NEW u \in Nat, a <= b
  PROVE  u * a \in Nat /\ u * b \in Nat /\ u * a <= u * b
OBVIOUS

(* The largest sample_rand is less than the rate 1.                        *)
LEMMA Steps ==
  ASSUME T!Constants
  PROVE  /\ One \in Nat /\ Unit \in Nat /\ One > 0 /\ Unit > 0
         /\ One \div Unit \in Nat /\ One \div Unit > 0 /\ One = Unit * (One \div Unit)
         /\ 0 \div Unit = 0
<1>1. One \in Nat \ {0} /\ Unit \in Nat \ {0} /\ One % Unit = 0
  BY DEF T!Constants
<1>2. One \div Unit \in Nat /\ One = Unit * (One \div Unit)
  BY <1>1, Remainders
<1>3. One \div Unit # 0
  BY <1>1, <1>2
<1>4. 0 \div Unit = 0
  BY <1>1
<1> QED
  BY <1>1, <1>2, <1>3, <1>4

LEMMA RandsBelow == ASSUME T!Constants, NEW r \in T!Rands PROVE r \in Nat /\ r < One
<1> DEFINE k == One \div Unit
<1>1. One \in Nat /\ Unit \in Nat /\ Unit > 0 /\ k \in Nat /\ One = Unit * k
  BY Steps
<1> HIDE DEF k
<1>2. PICK n \in 0..(k - 1) : r = Unit * n
  BY DEF T!Rands, k
<1>3. n \in Nat /\ k - 1 \in Nat /\ n <= k - 1
  BY <1>1, <1>2
<1>4. Unit * n \in Nat /\ Unit * n <= Unit * (k - 1)
  BY <1>1, <1>3, Multiples
<1>5. Unit * (k - 1) = One - Unit
  BY <1>1
<1> QED
  BY <1>1, <1>2, <1>4, <1>5

(* What is drawn below a rate is less, and above one, if that is not finer *)
(* than a sample_rand, is not.                                             *)
LEMMA FreshBelow ==
  ASSUME T!Constants, NEW high \in T!Rates, high > 0, NEW r \in T!Fresh(<<0, high \div Unit>>)
  PROVE  r < high
<1> DEFINE k == high \div Unit
<1>1. /\ high \in Nat /\ Unit \in Nat /\ Unit > 0
      /\ k \in Nat /\ high = Unit * k + (high % Unit) /\ high % Unit \in Nat
  <2>1. high \in Nat /\ Unit \in Nat \ {0}
    BY Steps DEF T!Rates
  <2>2. k \in Nat /\ high % Unit \in 0..(Unit - 1) /\ high = Unit * k + (high % Unit)
    BY <2>1, Remainders
  <2> QED
    BY <2>1, <2>2
<1> HIDE DEF k
<1>2. r \in IF 0 >= k THEN {Unit * 0} ELSE {Unit * n : n \in 0..(k - 1)}
  BY DEF T!Fresh, k
<1>3. CASE k = 0
  BY <1>1, <1>2, <1>3
<1>4. CASE k # 0
  <2>1. PICK n \in 0..(k - 1) : r = Unit * n
    BY <1>1, <1>2, <1>4
  <2>2. n \in Nat /\ k - 1 \in Nat /\ n <= k - 1
    BY <1>1, <2>1
  <2>3. Unit * n \in Nat /\ Unit * n <= Unit * (k - 1)
    BY <1>1, <2>2, Multiples
  <2>4. Unit * (k - 1) = Unit * k - Unit /\ Unit * k \in Nat
    BY <1>1
  <2> QED
    BY <1>1, <2>1, <2>3, <2>4
<1> QED
  BY <1>3, <1>4

LEMMA FreshAbove ==
  ASSUME T!Constants, NEW low \in T!Rates, low < One, low % Unit = 0,
         NEW r \in T!Fresh(<<low \div Unit, One \div Unit>>)
  PROVE  r >= low
<1> DEFINE k == low \div Unit
           m == One \div Unit
<1>1. low \in Nat /\ Unit \in Nat /\ k \in Nat /\ m \in Nat /\ low = Unit * k
  <2>1. low \in Nat /\ Unit \in Nat \ {0} /\ m \in Nat
    BY Steps DEF T!Rates
  <2>2. k \in Nat /\ low = Unit * k + (low % Unit)
    BY <2>1, Remainders
  <2> QED
    BY <2>1, <2>2
<1> HIDE DEF k, m
<1>2. r \in IF k >= m THEN {Unit * k} ELSE {Unit * n : n \in k..(m - 1)}
  BY DEF T!Fresh, k, m
<1>3. CASE r = Unit * k
  BY <1>1, <1>3
<1>4. CASE r # Unit * k
  <2>1. PICK n \in k..(m - 1) : r = Unit * n
    BY <1>1, <1>2, <1>4
  <2>2. n \in Nat /\ k <= n
    BY <1>1, <2>1
  <2>3. Unit * k <= Unit * n /\ Unit * n \in Nat /\ Unit * k \in Nat
    BY <1>1, <2>2, Multiples
  <2> QED
    BY <1>1, <2>1, <2>3
<1> QED
  BY <1>3, <1>4

(* A draw is from its interval, and the same as an earlier one.            *)
LEMMA Drawing ==
  ASSUME T!Constants, DrawsInv, NEW low \in T!Rates, NEW high \in T!Rates, NEW rand \in T!Rands,
         T!Draw(low, high, rand)
  PROVE  /\ DrawsInv' /\ rand \in T!Fresh(<<low \div Unit, high \div Unit>>)
         /\ \A i \in DOMAIN draws : i \in DOMAIN draws' /\ draws'[i] = draws[i]
         /\ <<low \div Unit, high \div Unit>> \in DOMAIN draws'
         /\ rand = draws'[<<low \div Unit, high \div Unit>>]
<1> DEFINE interval == <<low \div Unit, high \div Unit>>
<1>1. interval \in Nat \X Nat
  <2>1. low \in Nat /\ high \in Nat /\ Unit \in Nat \ {0}
    BY Steps DEF T!Rates
  <2>2. low \div Unit \in Nat /\ high \div Unit \in Nat
    BY <2>1, Remainders
  <2> QED
    BY <2>2
<1>2. /\ rand \in T!Drawn(interval)
      /\ draws' = [i \in DOMAIN draws \cup {interval} |-> IF i = interval THEN rand ELSE draws[i]]
  BY DEF T!Draw
<1> HIDE DEF interval
<1>3. rand \in T!Fresh(interval) /\ (interval \in DOMAIN draws => rand = draws[interval])
  BY <1>2 DEF T!Drawn, DrawsInv
<1>4. /\ DOMAIN draws' = DOMAIN draws \cup {interval} /\ draws'[interval] = rand
      /\ \A i \in DOMAIN draws : draws'[i] = draws[i]
  BY <1>2, <1>3
<1>5. \A i : T!Fresh(i)' = T!Fresh(i)
  BY DEF T!Fresh
<1>6. DrawsInv'
  BY <1>1, <1>3, <1>4, <1>5 DEF DrawsInv, T!Fresh, T!Rands
<1> QED
  BY <1>3, <1>4, <1>6 DEF interval

(* The rate to sample at is a rate, unless the sampler failed.             *)
LEMMA Rating ==
  ASSUME T!Constants, config \in Configs, context \in T!TraceHeaders, T!Tracing(config),
         T!Given # Fails
  PROVE  /\ T!Given \in T!Rates /\ T!Lowered(T!Given) \in T!Rates
         /\ config.divisor <= 1 => T!Lowered(T!Given) = T!Given
<1>1. config \in T!AllConfigs
  BY DEF T!Constants
<1>2. One \in T!Rates /\ 0 \in T!Rates
  BY Steps DEF T!Rates
<1>3. T!Given \in T!Rates
  <2>1. CASE config.sampler # None
    BY <1>1, <2>1 DEF T!Given, T!AllConfigs, T!Maybe
  <2>2. CASE config.sampler = None
    BY <1>1, <1>2, <2>2 DEF T!Given, T!AllConfigs, T!Maybe, T!Tracing
  <2> QED
    BY <2>1, <2>2
<1>4. T!Given \in Nat /\ T!Given <= One /\ One \in Nat /\ config.divisor \in Nat \ {0}
  BY <1>1, <1>3, Steps DEF T!Rates, T!AllConfigs
<1> DEFINE rate == T!Given
           divisor == config.divisor
<1> HIDE DEF rate, divisor
<1>5. rate \div divisor \in Nat /\ rate \div divisor <= rate
      /\ (divisor <= 1 => rate \div divisor = rate)
  <2>1. rate \in Nat /\ divisor \in Nat \ {0}
    BY <1>4 DEF rate, divisor
  <2> DEFINE quotient == rate \div divisor
  <2>2. /\ quotient \in Nat /\ rate % divisor \in 0..(divisor - 1)
        /\ rate = divisor * quotient + (rate % divisor)
    BY <2>1, Remainders
  <2> HIDE DEF quotient
  <2>3. quotient * 1 <= quotient * divisor
    BY <2>1, <2>2, Multiples
  <2>4. quotient <= rate
    BY <2>1, <2>2, <2>3
  <2>5. divisor <= 1 => quotient = rate
    BY <2>1, <2>2
  <2> QED
    BY <2>2, <2>4, <2>5 DEF quotient
<1> QED
  BY <1>3, <1>4, <1>5 DEF T!Lowered, T!Rates, rate, divisor

(* What a decision comes to.                                               *)
Decides(outcome) ==
  /\ outcome.sampled \in T!Maybe(BOOLEAN) /\ outcome.rate \in T!Maybe(T!Rates)
  /\ T!Tracing(config) =>
       /\ outcome.sampled \in BOOLEAN
       /\ outcome.rate # None =>
            outcome.rand # None /\ Explains(outcome.rand, outcome.rate, outcome.sampled)

LEMMA Transactions ==
  ASSUME T!Constants, config \in Configs, context \in T!TraceHeaders,
         NEW rand \in T!Rands, NEW forced \in T!Maybe(BOOLEAN)
  PROVE  LET outcome == T!OfTransaction(rand, forced)
         IN /\ Decides(outcome) /\ outcome.rand = rand
            /\ T!Tracing(config) /\ forced # None => outcome.rate \in {0, One}
            /\ T!Tracing(config) /\ forced = None => outcome.rate \in {None, T!Lowered(T!Given)}
            /\ T!Tracing(config) /\ T!Given # Fails => outcome.rate # None
            /\ ~T!Tracing(config) => outcome.rate = None
<1> DEFINE outcome == T!OfTransaction(rand, forced)
<1>1. /\ rand \in Nat /\ rand < One /\ rand # None
      /\ One \in Nat /\ One \in T!Rates /\ 0 \in T!Rates /\ One # None /\ 0 # None
  BY RandsBelow, Steps DEF T!Rates, T!Constants
<1>2. CASE ~T!Tracing(config)
  BY <1>1, <1>2 DEF T!OfTransaction, T!Outcome, Decides, T!Maybe
<1>3. CASE T!Tracing(config) /\ forced # None
  <2>1. forced \in BOOLEAN
    BY <1>3 DEF T!Maybe
  <2>2. outcome = T!Outcome(forced, IF forced THEN One ELSE 0, rand)
    BY <1>3 DEF T!OfTransaction
  <2> HIDE DEF outcome
  <2>3. CASE forced = TRUE
    <3>1. outcome = T!Outcome(TRUE, One, rand)
      BY <2>2, <2>3
    <3>2. outcome.sampled = TRUE /\ outcome.rate = One /\ outcome.rand = rand
      BY <3>1 DEF T!Outcome
    <3>3. Decides(outcome)
      BY <1>1, <3>2 DEF Decides, Explains, T!Maybe
    <3> QED
      BY <1>1, <1>3, <3>2, <3>3 DEF outcome
  <2>4. CASE forced = FALSE
    <3>1. outcome = T!Outcome(FALSE, 0, rand)
      BY <2>2, <2>4
    <3>2. /\ outcome.sampled \in BOOLEAN /\ ~outcome.sampled
          /\ outcome.rate = 0 /\ outcome.rand = rand
      BY <3>1 DEF T!Outcome
    <3>3. Decides(outcome)
      BY <1>1, <3>2 DEF Decides, Explains, T!Maybe
    <3> QED
      BY <1>1, <1>3, <3>2, <3>3 DEF outcome
  <2> QED
    BY <2>1, <2>3, <2>4
<1>4. CASE T!Tracing(config) /\ forced = None /\ T!Given = Fails
  BY <1>1, <1>4 DEF T!OfTransaction, T!Outcome, Decides, T!Maybe
<1>5. CASE T!Tracing(config) /\ forced = None /\ T!Given # Fails
  <2>1. T!Lowered(T!Given) \in T!Rates
    BY <1>5, Rating
  <2>2. T!Lowered(T!Given) # None
    BY <2>1, Steps DEF T!Rates, T!Constants
  <2>3. outcome = T!Outcome(rand < T!Lowered(T!Given), T!Lowered(T!Given), rand)
    BY <1>5 DEF T!OfTransaction
  <2> HIDE DEF outcome
  <2>4. /\ outcome.sampled = (rand < T!Lowered(T!Given))
        /\ outcome.rate = T!Lowered(T!Given) /\ outcome.rand = rand
    BY <2>3 DEF T!Outcome
  <2>5. outcome.sampled \in BOOLEAN
    BY <2>4
  <2>6. outcome.sampled <=> rand < T!Lowered(T!Given)
    BY <2>4
  <2>7. Decides(outcome)
    BY <1>1, <2>1, <2>4, <2>5, <2>6 DEF Decides, Explains, T!Maybe
  <2> QED
    BY <1>5, <2>2, <2>4, <2>7 DEF outcome
<1> QED
  BY <1>2, <1>3, <1>4, <1>5

LEMMA Segments ==
  ASSUME T!Constants, config \in Configs, context \in T!TraceHeaders, NEW rand \in T!Rands
  PROVE  LET outcome == T!OfSegment(rand)
         IN /\ Decides(outcome) /\ outcome.rand \in {None, rand}
            /\ T!Tracing(config) => outcome.rate \in {None, T!Lowered(T!Given)}
            /\ T!Tracing(config) /\ T!Given # Fails => outcome.rate # None /\ outcome.rand = rand
            /\ ~T!Tracing(config) => outcome.rate = None
<1> DEFINE outcome == T!OfSegment(rand)
<1>1. rand \in Nat /\ rand < One /\ rand # None
  BY RandsBelow DEF T!Constants
<1>2. CASE ~T!Tracing(config)
  BY <1>1, <1>2 DEF T!OfSegment, T!Outcome, Decides, T!Maybe, T!TraceHeaders
<1>3. CASE T!Tracing(config) /\ T!Given = Fails
  BY <1>1, <1>3 DEF T!OfSegment, T!Outcome, Decides, T!Maybe
<1>4. CASE T!Tracing(config) /\ T!Given # Fails
  <2>1. T!Lowered(T!Given) \in T!Rates
    BY <1>4, Rating
  <2>2. T!Lowered(T!Given) # None
    BY <2>1, Steps DEF T!Rates, T!Constants
  <2>3. outcome = T!Outcome(rand < T!Lowered(T!Given), T!Lowered(T!Given), rand)
    BY <1>4 DEF T!OfSegment
  <2> HIDE DEF outcome
  <2>4. /\ outcome.sampled = (rand < T!Lowered(T!Given))
        /\ outcome.rate = T!Lowered(T!Given) /\ outcome.rand = rand
    BY <2>3 DEF T!Outcome
  <2>5. outcome.sampled \in BOOLEAN
    BY <2>4
  <2>6. outcome.sampled <=> rand < T!Lowered(T!Given)
    BY <2>4
  <2>7. Decides(outcome)
    BY <1>1, <2>1, <2>4, <2>5, <2>6 DEF Decides, Explains, T!Maybe
  <2> QED
    BY <1>4, <2>2, <2>4, <2>7 DEF outcome
<1> QED
  BY <1>2, <1>3, <1>4

(* A draw only adds to what is known.                                      *)
Remembers == \A i \in DOMAIN draws : i \in DOMAIN draws' /\ draws'[i] = draws[i]

LEMMA StaySeeded == ASSUME Remembers, NEW r, Seeded(r) PROVE Seeded(r)'
BY DEF Remembers, Seeded

(* A sample_rand that is filled in explains the decision in the headers,   *)
(* unless nothing can.                                                     *)
Told(bag) == arrived.sampled # None /\ bag.rate # None
Hopeless(bag) == IF arrived.sampled THEN bag.rate = 0 ELSE bag.rate = One

FilledWith(bag) ==
  /\ context' = [arrived EXCEPT !.bag = bag] /\ bag \in T!Bags
  /\ bag.rate = arrived.bag.rate /\ bag.org = arrived.bag.org
  /\ bag.mutable = arrived.bag.mutable
  /\ arrived.bag.rand # None => bag.rand = arrived.bag.rand
  /\ arrived.bag.rand = None /\ ~Told(bag) => bag.rand # None /\ Seeded(bag.rand)'
  /\ arrived.bag.rand = None /\ Told(bag) =>
       \/ /\ bag.rand # None
          /\ "fine" \notin damage' => Explains(bag.rand, bag.rate, arrived.sampled)
       \/ bag.rand = None /\ Hopeless(bag)

LEMMA Filling ==
  ASSUME T!Constants, TraceInv, arrived # None, arrived.bag # None, T!FillSampleRand
  PROVE  /\ \E bag : FilledWith(bag)
         /\ DrawsInv' /\ Remembers
         /\ damage \subseteq damage' /\ damage' \subseteq damage \cup {"fine"}
         /\ orgs' = orgs \cup ({config'.org} \ {None})
         /\ UNCHANGED <<decided, apart, first>>
<1> DEFINE bag == arrived.bag
           low == T!Lower(arrived.sampled, bag.rate)
           high == T!Upper(arrived.sampled, bag.rate)
<1>1. arrived \in T!TraceHeaders /\ bag \in T!Bags
  BY DEF TraceInv, T!TypeOK, T!Maybe, T!TraceHeaders
<1>2. /\ arrived.sampled \in {None, TRUE, FALSE}
      /\ bag.rate \in T!Maybe(T!Rates) /\ bag.rand \in T!Maybe(T!Rands)
  BY <1>1 DEF T!TraceHeaders, T!Bags, T!Maybe
<1>3. One \in T!Rates /\ 0 \in T!Rates /\ One > 0 /\ \A r \in T!Rates : r \in Nat /\ r <= One
  BY Steps DEF T!Rates
<1>4. TRUE # FALSE /\ None \notin BOOLEAN
  BY DEF T!Constants
<1>5. low \in T!Rates /\ high \in T!Rates
  BY <1>2, <1>3 DEF T!Lower, T!Upper, T!Maybe
<1>6. CASE bag.rand # None \/ low >= high
  <2>1. T!ContinueFrom(bag) /\ UNCHANGED <<draws, damage>>
    BY <1>6 DEF T!FillSampleRand
  <2>2. DrawsInv'
    BY <2>1 DEF TraceInv, DrawsInv, T!Fresh
  <2>3. bag.rand = None => Told(bag) /\ Hopeless(bag)
    <3> SUFFICES ASSUME bag.rand = None PROVE Told(bag) /\ Hopeless(bag)
      OBVIOUS
    <3>1. low >= high
      BY <1>6
    <3>2. CASE arrived.sampled = None \/ bag.rate = None
      <4>1. low = 0 /\ high = One
        BY <1>4, <3>2 DEF T!Lower, T!Upper
      <4> QED
        BY <1>3, <3>1, <4>1
    <3>3. CASE arrived.sampled = TRUE /\ bag.rate # None
      <4>1. low = 0 /\ high = bag.rate /\ bag.rate \in Nat
        BY <1>2, <1>3, <1>4, <3>3 DEF T!Lower, T!Upper, T!Maybe
      <4>2. bag.rate = 0
        BY <3>1, <4>1
      <4>3. Told(bag)
        BY <1>4, <3>3 DEF Told
      <4> QED
        BY <1>4, <3>3, <4>2, <4>3 DEF Hopeless
    <3>4. CASE arrived.sampled = FALSE /\ bag.rate # None
      <4>1. low = bag.rate /\ high = One /\ bag.rate \in Nat /\ bag.rate <= One /\ One \in Nat
        BY <1>2, <1>3, <1>4, <3>4 DEF T!Lower, T!Upper, T!Maybe
      <4>2. bag.rate = One
        BY <3>1, <4>1
      <4>3. Told(bag)
        BY <1>4, <3>4 DEF Told
      <4> QED
        BY <1>4, <3>4, <4>2, <4>3 DEF Hopeless
    <3> QED
      BY <1>2, <3>2, <3>3, <3>4
  <2>4. FilledWith(bag)
    BY <1>1, <2>1, <2>3 DEF FilledWith, T!ContinueFrom
  <2> QED
    BY <2>1, <2>2, <2>4 DEF T!ContinueFrom, Remembers
<1>7. CASE ~(bag.rand # None \/ low >= high)
  <2>1. PICK rand \in T!Rands :
          /\ T!Draw(low, high, rand)
          /\ T!ContinueFrom([bag EXCEPT !.rand = rand])
          /\ damage' = damage \cup IF low % Unit # 0 THEN {"fine"} ELSE {}
    BY <1>7 DEF T!FillSampleRand
  <2> DEFINE filled == [bag EXCEPT !.rand = rand]
  <2>2. /\ filled \in T!Bags /\ filled.rate = bag.rate /\ filled.org = bag.org /\ filled.rand = rand
        /\ filled.mutable = bag.mutable
    BY <1>1 DEF T!Bags, T!Maybe
  <2>3. /\ DrawsInv' /\ rand \in T!Fresh(<<low \div Unit, high \div Unit>>) /\ Remembers
        /\ <<low \div Unit, high \div Unit>> \in DOMAIN draws'
        /\ rand = draws'[<<low \div Unit, high \div Unit>>]
    BY <1>5, <2>1, Drawing DEF TraceInv, Remembers
  <2> HIDE DEF filled
  <2>4. rand # None /\ rand \in Nat
    BY RandsBelow DEF T!Constants
  <2>5. ~Told(filled) => Seeded(rand)'
    <3>1. ~Told(filled) => low = 0 /\ high = One
      BY <1>4, <2>2 DEF Told, T!Lower, T!Upper
    <3> QED
      BY <2>3, <3>1, Steps DEF Seeded, Whole
  <2>6. Told(filled) /\ "fine" \notin damage' => Explains(rand, filled.rate, arrived.sampled)
    <3> SUFFICES ASSUME Told(filled), "fine" \notin damage'
                 PROVE  Explains(rand, bag.rate, arrived.sampled)
      BY <2>2
    <3>1. bag.rate \in T!Rates /\ bag.rate \in Nat
      BY <1>2, <1>3, <2>2 DEF Told, T!Maybe
    <3>2. CASE arrived.sampled = TRUE
      <4>1. low = 0 /\ high = bag.rate
        BY <1>4, <2>2, <3>2 DEF Told, T!Lower, T!Upper
      <4>2. rand < high
        BY <1>3, <1>5, <1>7, <2>3, <4>1, Steps, FreshBelow
      <4> QED
        BY <3>2, <4>1, <4>2 DEF Explains
    <3>3. CASE arrived.sampled = FALSE
      <4>1. low = bag.rate /\ high = One
        BY <1>4, <2>2, <3>3 DEF Told, T!Lower, T!Upper
      <4>2. low % Unit = 0
        BY <2>1
      <4>3. rand >= low
        BY <1>3, <1>5, <1>7, <2>3, <4>1, <4>2, FreshAbove
      <4> QED
        BY <2>4, <3>1, <3>3, <4>1, <4>3 DEF Explains
    <3> QED
      BY <1>2, <3>2, <3>3, <2>2 DEF Told
  <2>7. FilledWith(filled)
    BY <1>7, <2>1, <2>2, <2>4, <2>5, <2>6 DEF FilledWith, T!ContinueFrom, filled
  <2> QED
    BY <2>1, <2>3, <2>7 DEF T!ContinueFrom
<1> QED
  BY <1>6, <1>7

-----------------------------------------------------------------------------
(* Headers arrive.                                                         *)
LEMMA HeldAtStart ==
  ASSUME T!Constants, NEW c \in Configs, config' = c, NEW bag \in T!Maybe(T!Bags),
         context'.bag = bag, span' = T!Unstarted(c, bag)
  PROVE  /\ Held' = bag
         /\ span' \in T!Maybe(T!Spans) /\ (IF c.streaming THEN span' = None ELSE span' # None)
<1>1. c \in T!AllConfigs /\ None \notin T!Spans
  BY DEF T!Constants
<1>2. CASE c.streaming
  BY <1>1, <1>2 DEF Held, T!Unstarted, T!Maybe
<1>3. CASE ~c.streaming
  <2>1. span' = [sampled |-> None, rate |-> None, rand |-> None, bag |-> bag]
    BY <1>3 DEF T!Unstarted
  <2>2. span' \in T!Spans /\ span'.bag = bag
    BY <2>1 DEF T!Spans, T!Maybe
  <2> QED
    BY <1>1, <1>3, <2>2 DEF Held, T!Maybe
<1> QED
  BY <1>2, <1>3

Continued(bag) ==
  /\ bag \in T!Maybe(T!Bags)
  /\ context' = [arrived EXCEPT !.bag = bag]
  /\ IF arrived.bag = None THEN bag = None ELSE bag # None /\ FilledWith(bag)

LEMMA Continuing ==
  ASSUME T!Constants, TraceInv, NEW c \in Configs, T!Continue(c)
  PROVE  /\ \E bag : Continued(bag)
         /\ DrawsInv' /\ Remembers
         /\ damage \subseteq damage' /\ damage' \subseteq damage \cup {"fine"}
         /\ orgs' = orgs \cup ({config'.org} \ {None})
         /\ UNCHANGED <<decided, apart, first>>
<1>1. arrived # None
  BY DEF T!Continue, T!Continues
<1>2. CASE arrived.bag = None
  <2>1. T!ContinueFrom(None) /\ UNCHANGED <<draws, damage>>
    BY <1>2 DEF T!Continue
  <2>2. DrawsInv'
    BY <2>1 DEF TraceInv, DrawsInv, T!Fresh
  <2>3. Continued(None)
    BY <1>2, <2>1 DEF Continued, T!ContinueFrom, T!Maybe
  <2> QED
    BY <2>1, <2>2, <2>3 DEF T!ContinueFrom, Remembers
<1>3. CASE arrived.bag # None
  <2>1. T!FillSampleRand
    BY <1>3 DEF T!Continue
  <2>2. \A bag : FilledWith(bag) => Continued(bag)
    BY <1>3 DEF FilledWith, Continued, T!Maybe, T!Constants
  <2> QED
    BY <1>1, <1>3, <2>1, <2>2, Filling
<1> QED
  BY <1>2, <1>3

LEMMA StepContinue ==
  ASSUME T!Constants, TraceInv, NEW c \in Configs, T!Continue(c)
  PROVE  TraceInv'
<1>1. /\ at = "way" /\ service < Services /\ arrived # None /\ T!ShouldContinue(c)
      /\ config' = c /\ service' = service + 1 /\ at' = "start" /\ arrived' = None
      /\ span' = T!Unstarted(c, context'.bag)
  BY DEF T!Continue, T!Continues
<1>2. PICK bag : Continued(bag)
  BY Continuing
<1>3. /\ DrawsInv' /\ Remembers
      /\ damage \subseteq damage' /\ damage' \subseteq damage \cup {"fine"}
      /\ orgs' = orgs \cup ({c.org} \ {None})
      /\ decided' = decided /\ apart' = apart /\ first' = first
  BY <1>1, Continuing
<1>4. /\ arrived \in T!TraceHeaders /\ service \in 0..Services /\ Services \in Nat
      /\ c \in T!AllConfigs
  BY <1>1 DEF TraceInv, T!TypeOK, T!Maybe, T!Constants
<1>5. /\ context' \in T!TraceHeaders /\ context'.bag = bag /\ context'.sampled = arrived.sampled
      /\ context' # None
  BY <1>2, <1>4 DEF Continued, T!TraceHeaders, T!Constants
<1>6. /\ Held' = bag
      /\ span' \in T!Maybe(T!Spans) /\ (IF c.streaming THEN span' = None ELSE span' # None)
  BY <1>1, <1>2, <1>5, HeldAtStart DEF Continued
<1>7. service > 0
  BY <1>1, <1>4 DEF TraceInv, PlaceInv
<1>8. \A d \in decided : d.by \in Nat /\ d.by <= service /\ d.sampled \in BOOLEAN
  BY <1>4 DEF TraceInv, DecidedInv, Decisions
<1>9. T!TypeOK'
  <2>1. orgs' \subseteq Orgs
    BY <1>3, <1>4 DEF TraceInv, T!TypeOK, T!AllConfigs, T!Maybe
  <2> QED
    BY <1>1, <1>3, <1>4, <1>5, <1>6, <2>1 DEF TraceInv, T!TypeOK, T!Maybe
<1>10. PlaceInv'
  <2>1. bag # None => ~bag.mutable \/ bag.rand # None
    BY <1>1, <1>2 DEF TraceInv, PlaceInv, Continued, FilledWith, Told
  <2> QED
    BY <1>1, <1>2, <1>4, <1>5, <1>6, <1>7, <2>1 DEF PlaceInv, T!Constants
<1>11. DecidedInv'
  BY <1>1, <1>3, <1>4, <1>8 DEF TraceInv, DecidedInv
<1>12. RandInv'
  <2> SUFFICES ASSUME damage \cap {"rand", "early"} = {}
               PROVE  /\ \A d \in decided : Seeded(d.rand)'
                      /\ bag # None => Seeded(bag.rand)' /\ bag.rand # None
    BY <1>1, <1>3, <1>5, <1>6 DEF RandInv, SeededBag
  <2>1. \A d \in decided : Seeded(d.rand)'
    BY <1>3, StaySeeded DEF TraceInv, RandInv
  <2>2. CASE bag # None
    <3>1. /\ arrived.bag # None /\ FilledWith(bag) /\ Seeded(arrived.bag.rand)
          /\ (arrived.bag.rand = None => None \in {arrived.sampled, arrived.bag.rate})
      BY <1>1, <1>2, <2>2 DEF TraceInv, RandInv, SeededBag, Continued
    <3>2. CASE arrived.bag.rand # None
      <4>1. bag.rand = arrived.bag.rand /\ Seeded(bag.rand)
        BY <3>1, <3>2 DEF FilledWith
      <4> QED
        BY <1>3, <2>1, <3>2, <4>1, StaySeeded
    <3>3. CASE arrived.bag.rand = None
      BY <2>1, <3>1, <3>3 DEF FilledWith, Told
    <3> QED
      BY <2>1, <3>2, <3>3
  <2> QED
    BY <2>1, <2>2
<1>13. WholeInv'
  BY <1>1, <1>3, <1>5 DEF TraceInv, WholeInv
<1>14. OrgInv'
  <2> SUFFICES ASSUME first # None, "baggage" \notin damage
               PROVE  /\ orgs' \subseteq {first}
                      /\ bag # None /\ bag.org = first
    BY <1>1, <1>3, <1>5, <1>6 DEF OrgInv, FirstBag
  <2>1. /\ orgs \subseteq {first} /\ arrived.bag # None /\ arrived.bag.org = first
    BY <1>1 DEF TraceInv, OrgInv
  <2>2. bag # None /\ bag.org = first
    BY <1>2, <2>1 DEF Continued, FilledWith
  <2>3. c.org \in {None, first}
    BY <1>1, <2>1 DEF T!ShouldContinue
  <2> QED
    BY <1>3, <2>1, <2>2, <2>3
<1>15. TrueInv'
  <2> SUFFICES ASSUME damage' \cap {"fine", "stale"} = {}
               PROVE  TrueBag(arrived.sampled, bag)
    BY <1>1, <1>5, <1>6 DEF TrueInv
  <2> SUFFICES ASSUME arrived.sampled # None, bag # None, bag.rand # None, bag.rate # None
               PROVE  Explains(bag.rand, bag.rate, arrived.sampled)
    BY DEF TrueBag
  <2>1. arrived.bag # None /\ FilledWith(bag) /\ TrueBag(arrived.sampled, arrived.bag)
    BY <1>1, <1>2, <1>3 DEF TraceInv, TrueInv, Continued
  <2>2. CASE arrived.bag.rand # None
    BY <2>1, <2>2 DEF FilledWith, TrueBag
  <2>3. CASE arrived.bag.rand = None
    BY <2>1, <2>3 DEF FilledWith, Told
  <2> QED
    BY <2>2, <2>3
<1>16. LastInv'
  <2> SUFFICES ASSUME damage' \subseteq {"rand"}, "outside" \notin apart
               PROVE  /\ \A d, e \in Rated : d.by + 1 = e.by =>
                                               Explains(e.rand, d.rate, d.sampled)
                      /\ \A d \in Rated : d.by = service => Reaches(bag, d)
    BY <1>1, <1>3, <1>4, <1>6, <1>8 DEF LastInv, Rated, Reaches, Trivial
  <2>1. damage \subseteq {"rand"} /\ "fine" \notin damage'
    BY <1>3
  <2>2. \A d, e \in Rated : d.by + 1 = e.by => Explains(e.rand, d.rate, d.sampled)
    BY <2>1 DEF TraceInv, LastInv
  <2>3. ASSUME NEW d \in Rated, d.by = service, ~Trivial(d) PROVE Reaches(bag, d)
    <3>1. /\ arrived.sampled = d.sampled /\ arrived.bag # None
          /\ arrived.bag.rate = d.rate /\ d.rate # None
          /\ arrived.bag.rand # None => Explains(arrived.bag.rand, d.rate, d.sampled)
      BY <1>1, <2>1, <2>3 DEF TraceInv, LastInv, Carries, Rated
    <3>2. bag # None /\ FilledWith(bag) /\ bag.rate = d.rate
      BY <1>2, <3>1 DEF Continued, FilledWith
    <3>3. d.sampled # None
      BY <1>8, <2>3 DEF Rated, T!Constants
    <3>4. Told(bag) /\ ~Hopeless(bag)
      BY <2>3, <3>1, <3>2, <3>3 DEF Told, Hopeless, Trivial
    <3> QED
      BY <2>1, <3>1, <3>2, <3>4 DEF FilledWith, Reaches
  <2> QED
    BY <2>2, <2>3 DEF Reaches
<1> QED
  BY <1>3, <1>9, <1>10, <1>11, <1>12, <1>13, <1>14, <1>15, <1>16 DEF TraceInv

LEMMA StepNewTrace ==
  ASSUME T!Constants, TraceInv, NEW c \in Configs, T!NewTrace(c)
  PROVE  TraceInv'
<1>1. /\ at = "way" /\ service < Services
      /\ config' = c /\ service' = service + 1 /\ at' = "start" /\ arrived' = None
      /\ context' = [trace |-> service + 1, sampled |-> None, bag |-> None]
      /\ span' = T!Unstarted(c, None) /\ draws' = <<>>
      /\ decided' = {} /\ apart' = {} /\ damage' = {}
      /\ orgs' = {c.org} \ {None} /\ first' = c.org
  BY DEF T!NewTrace, T!Begin
<1>2. service \in 0..Services /\ Services \in Nat /\ c \in T!AllConfigs
  BY DEF TraceInv, T!TypeOK, T!Constants
<1>3. /\ context' \in T!TraceHeaders /\ context'.bag = None /\ context' # None
  BY <1>1, <1>2 DEF T!TraceHeaders, T!Maybe, T!Constants
<1>4. /\ Held' = None
      /\ span' \in T!Maybe(T!Spans) /\ (IF c.streaming THEN span' = None ELSE span' # None)
  BY <1>1, <1>3, HeldAtStart DEF T!Maybe
<1>5. T!TypeOK'
  BY <1>1, <1>2, <1>3, <1>4 DEF T!TypeOK, T!AllConfigs, T!Maybe
<1>6. PlaceInv' /\ DecidedInv' /\ DrawsInv'
  BY <1>1, <1>2, <1>3, <1>4 DEF PlaceInv, DecidedInv, DrawsInv, T!Constants
<1>7. RandInv' /\ WholeInv' /\ TrueInv'
  BY <1>1, <1>3, <1>4 DEF RandInv, WholeInv, TrueInv, SeededBag, TrueBag
<1>8. OrgInv'
  BY <1>1, <1>3, <1>4 DEF OrgInv, FirstBag
<1>9. LastInv'
  BY <1>1 DEF LastInv, Rated
<1> QED
  BY <1>5, <1>6, <1>7, <1>8, <1>9 DEF TraceInv

(* The context's own baggage.                                              *)
LEMMA ContextsBag ==
  ASSUME T!Constants, TraceInv, at # "way"
  PROVE  /\ T!OfContext \in T!Bags /\ T!OfContext # None
         /\ context.bag # None => T!OfContext = context.bag
         /\ context.bag = None => /\ T!OfContext.rand = None /\ T!OfContext.org = config.org
                                  /\ ~T!OfContext.mutable
<1>1. context \in T!TraceHeaders /\ config \in T!AllConfigs
  BY DEF TraceInv, T!TypeOK, PlaceInv, T!Maybe, T!Constants
<1>2. CASE context.bag # None
  BY <1>1, <1>2 DEF T!OfContext, T!TraceHeaders, T!Maybe
<1>3. CASE context.bag = None
  <2>1. T!OfContext = [rand |-> None, rate |-> IF config.rate = 0 THEN None ELSE config.rate,
                     sampled |-> None, org |-> config.org, mutable |-> FALSE]
    BY <1>3 DEF T!OfContext
  <2>2. T!OfContext \in T!Bags
    BY <1>1, <2>1 DEF T!Bags, T!AllConfigs, T!Maybe
  <2> QED
    BY <1>3, <2>1, <2>2 DEF T!Constants
<1> QED
  BY <1>2, <1>3

LEMMA StepEarly ==
  ASSUME T!Constants, TraceInv, T!Early
  PROVE  TraceInv'
<1>1. /\ at = "start" /\ context.bag = None
      /\ context' = [context EXCEPT !.bag = T!OfContext]
      /\ damage' = damage \cup IF config.streaming THEN {"early"} ELSE {}
      /\ at' = "start" /\ UNCHANGED <<service, config, arrived, span, draws, decided,
                                      apart, orgs, first>>
  BY DEF T!Early
<1>2. /\ context \in T!TraceHeaders /\ context # None /\ config \in T!AllConfigs
  BY <1>1 DEF TraceInv, T!TypeOK, PlaceInv, T!Maybe, T!Constants
<1>3. /\ T!OfContext \in T!Bags /\ T!OfContext.rand = None /\ T!OfContext.org = config.org
      /\ T!OfContext # None /\ ~T!OfContext.mutable
  BY <1>1, ContextsBag
<1>4. /\ context' \in T!TraceHeaders /\ context' # None
      /\ context'.bag = T!OfContext /\ context'.sampled = context.sampled
  BY <1>1, <1>2, <1>3 DEF T!TraceHeaders, T!Maybe, T!Constants
<1>5. Held' = IF config.streaming THEN T!OfContext ELSE Held
  BY <1>1, <1>4 DEF Held
<1>6. T!TypeOK' /\ PlaceInv' /\ DecidedInv' /\ DrawsInv'
  <2>1. T!TypeOK'
    BY <1>1, <1>4 DEF TraceInv, T!TypeOK, T!Maybe
  <2>2. PlaceInv'
    BY <1>1, <1>3, <1>4, <1>5 DEF TraceInv, PlaceInv
  <2>3. DecidedInv'
    BY <1>1 DEF TraceInv, DecidedInv
  <2>4. DrawsInv'
    BY <1>1 DEF TraceInv, DrawsInv, T!Fresh
  <2> QED
    BY <2>1, <2>2, <2>3, <2>4
<1>7. RandInv'
  <2> SUFFICES ASSUME damage' \cap {"rand", "early"} = {}
               PROVE  /\ \A d \in decided : Seeded(d.rand)'
                      /\ SeededBag(context.bag)'
                      /\ SeededBag(Held)' /\ (Held' # None => Held'.rand # None)
    BY <1>1 DEF RandInv
  <2>1. ~config.streaming
    BY <1>1
  <2>2. /\ \A d \in decided : Seeded(d.rand)
        /\ SeededBag(Held) /\ (Held # None => Held.rand # None)
    BY <1>1, <2>1 DEF TraceInv, RandInv
  <2>3. Held' = Held
    BY <1>5, <2>1
  <2>4. context'.bag.rand = None
    BY <1>3, <1>4
  <2> QED
    BY <1>1, <2>2, <2>3, <2>4 DEF Seeded, SeededBag
<1>8. WholeInv'
  BY <1>1, <1>4 DEF TraceInv, WholeInv
<1>9. OrgInv'
  <2> SUFFICES ASSUME first # None, "baggage" \notin damage
               PROVE  /\ orgs \subseteq {first}
                      /\ FirstBag(context.bag)' /\ FirstBag(Held)'
    BY <1>1 DEF OrgInv
  <2>1. orgs \subseteq {first} /\ FirstBag(context.bag) /\ FirstBag(Held)
    BY <1>1 DEF TraceInv, OrgInv
  <2>2. config.org = first
    BY <1>1, <2>1 DEF FirstBag
  <2> QED
    BY <1>1, <1>3, <1>4, <1>5, <2>1, <2>2 DEF FirstBag
<1>10. TrueInv'
  <2> SUFFICES ASSUME damage' \cap {"fine", "stale"} = {}
               PROVE  TrueBag(context.sampled, Held')
    BY <1>1, <1>4 DEF TrueInv
  <2>1. TrueBag(context.sampled, Held)
    BY <1>1 DEF TraceInv, TrueInv
  <2> QED
    BY <1>3, <1>5, <2>1 DEF TrueBag
<1>11. LastInv'
  <2> SUFFICES ASSUME damage' \subseteq {"rand"}, "outside" \notin apart
               PROVE  /\ \A d, e \in Rated : d.by + 1 = e.by =>
                                               Explains(e.rand, d.rate, d.sampled)
                      /\ \A d \in Rated : d.by + 1 = service => Reaches(Held', d)
    BY <1>1 DEF LastInv, Rated, Reaches, Trivial
  <2>1. damage \subseteq {"rand"} /\ ~config.streaming
    BY <1>1
  <2> QED
    BY <1>1, <1>5, <2>1 DEF TraceInv, LastInv
<1> QED
  BY <1>6, <1>7, <1>8, <1>9, <1>10, <1>11 DEF TraceInv

-----------------------------------------------------------------------------
(* A decision is taken, and the next service called.                       *)
SentFrom(s, org) ==
  IF s.bag = None
  THEN [rand |-> s.rand, rate |-> s.rate, sampled |-> s.sampled, org |-> org, mutable |-> FALSE]
  ELSE IF ~s.bag.mutable THEN s.bag
  ELSE [rand |-> T!Kept(s.bag.rand, s.rand), rate |-> T!Kept(s.bag.rate, s.rate),
        sampled |-> T!Kept(s.bag.sampled, s.sampled),
        org |-> T!Kept(s.bag.org, org), mutable |-> FALSE]

LEMMA Sending ==
  ASSUME T!Constants, NEW s \in T!Spans, NEW org \in T!Maybe(Orgs)
  PROVE  /\ SentFrom(s, org) \in T!Bags
         /\ s.bag = None => /\ SentFrom(s, org).rand = s.rand /\ SentFrom(s, org).rate = s.rate
                            /\ SentFrom(s, org).org = org
         /\ s.bag # None =>
              /\ SentFrom(s, org).rand \in {s.bag.rand, T!Kept(s.bag.rand, s.rand)}
              /\ SentFrom(s, org).rate \in {s.bag.rate, T!Kept(s.bag.rate, s.rate)}
              /\ SentFrom(s, org).org \in {s.bag.org, T!Kept(s.bag.org, org)}
              /\ ~s.bag.mutable => SentFrom(s, org) = s.bag
<1>1. CASE s.bag = None
  BY <1>1 DEF SentFrom, T!Spans, T!Bags, T!Maybe
<1>2. CASE s.bag # None
  <2>1. s.bag \in T!Bags
    BY <1>2 DEF T!Spans, T!Maybe
  <2>2. CASE ~s.bag.mutable
    BY <1>2, <2>1, <2>2 DEF SentFrom
  <2>3. CASE s.bag.mutable
    <3>1. SentFrom(s, org) =
            [rand |-> T!Kept(s.bag.rand, s.rand), rate |-> T!Kept(s.bag.rate, s.rate),
             sampled |-> T!Kept(s.bag.sampled, s.sampled),
             org |-> T!Kept(s.bag.org, org), mutable |-> FALSE]
      BY <1>2, <2>3 DEF SentFrom
    <3>2. /\ T!Kept(s.bag.rand, s.rand) \in T!Maybe(T!Rands)
          /\ T!Kept(s.bag.rate, s.rate) \in T!Maybe(T!Rates)
          /\ T!Kept(s.bag.sampled, s.sampled) \in T!Maybe(BOOLEAN)
          /\ T!Kept(s.bag.org, org) \in T!Maybe(Orgs)
      BY <2>1 DEF T!Kept, T!Spans, T!Bags
    <3> QED
      BY <1>2, <2>3, <3>1, <3>2 DEF T!Bags
  <2> QED
    BY <2>2, <2>3
<1> QED
  BY <1>1, <1>2

Follows == IF context.sampled THEN One ELSE 0

(* What the three ways to decide have in common.                           *)
Decided(o, forced, ignored, bag, own) ==
  /\ Decides(o) /\ o.rand \in T!Maybe(T!Rands)
  /\ bag \in T!Maybe(T!Bags) /\ own \in T!Maybe(T!Bags)
  /\ IF Held = None THEN bag = None
     ELSE bag # None /\ bag.rand = Held.rand /\ bag.org = Held.org /\ bag.mutable = Held.mutable
  /\ IF context.bag = None THEN own = None
     ELSE own # None /\ own.rand = context.bag.rand /\ own.org = context.bag.org
  /\ o.rand # None => IF Held # None /\ Held.rand # None THEN o.rand = Held.rand
                      ELSE Seeded(o.rand)'
  /\ T!Tracing(config) /\ Held # None /\ o.rate # None =>
       \/ bag.rate = o.rate
       \/ bag.rate = None /\ T!Untold
       \/ T!Keeps /\ forced = None /\ bag.rate = Held.rate
  /\ T!Tracing(config) /\ context.sampled # None /\ config.sampler = None
     /\ forced = None /\ ~ignored /\ config.divisor <= 1 => o.rate = Follows

LEMMA Deciding ==
  ASSUME T!Constants, TraceInv, at = "start", DrawsInv', Remembers,
         NEW o, NEW forced, NEW ignored, NEW bag, NEW own,
         Decided(o, forced, ignored, bag, own), ignored => o.rate = None,
         span' = T!SpanOf(o, bag), context' = [context EXCEPT !.bag = own],
         T!Decide(o, forced, ignored)
  PROVE  TraceInv'
<1>1. /\ decided' = IF T!Tracing(config) THEN decided \cup {T!Decision(o)} ELSE decided
      /\ apart' = IF context.sampled = None THEN apart
                  ELSE apart \cup (IF config.sampler # None THEN {"sampler"} ELSE {})
                             \cup (IF forced # None THEN {"forced"} ELSE {})
                             \cup (IF ignored THEN {"ignored"} ELSE {})
                             \cup (IF config.divisor > 1 THEN {"backpressure"} ELSE {})
      /\ damage' = damage \cup (IF T!Stale(o, forced) THEN {"stale"} ELSE {})
                          \cup (IF T!Untold THEN {"untold"} ELSE {})
      /\ at' = "call" /\ service' = service /\ config' = config /\ arrived' = arrived
      /\ orgs' = orgs /\ first' = first
  BY DEF T!Decide
<1>2. /\ context \in T!TraceHeaders /\ config \in Configs /\ config \in T!AllConfigs
      /\ service \in 1..Services /\ Services \in Nat
  BY DEF TraceInv, T!TypeOK, PlaceInv, T!Maybe, T!Constants
<1>3. /\ context' \in T!TraceHeaders /\ context' # None
      /\ context'.bag = own /\ context'.sampled = context.sampled
  BY <1>2 DEF Decided, T!TraceHeaders, T!Constants
<1>4. /\ span' \in T!Spans /\ span' # None
      /\ span'.sampled = o.sampled /\ span'.rate = o.rate /\ span'.rand = o.rand /\ span'.bag = bag
  BY DEF T!SpanOf, Decided, Decides, T!Spans, T!Constants
<1>5. /\ T!Tracing(config)' = T!Tracing(config)
      /\ T!Tracing(config) => o.sampled \in BOOLEAN /\ T!Decision(o) \in Decisions
  BY <1>1, <1>2 DEF T!Tracing, Decided, Decides, T!Decision, Decisions
<1>6. /\ T!Decision(span)' = T!Decision(o)
      /\ T!Decision(o).by = service /\ T!Decision(o).sampled = o.sampled
      /\ T!Decision(o).rate = o.rate /\ T!Decision(o).rand = o.rand
  BY <1>1, <1>4 DEF T!Decision
<1>7. \A d \in decided : d \in Decisions /\ d.by \in Nat /\ d.by < service
  BY <1>2 DEF TraceInv, DecidedInv, Decisions
<1>8. T!TypeOK' /\ PlaceInv'
  <2>1. T!TypeOK'
    BY <1>1, <1>2, <1>3, <1>4 DEF TraceInv, T!TypeOK, T!Maybe
  <2>2. PlaceInv'
    BY <1>1, <1>2, <1>3, <1>4 DEF TraceInv, PlaceInv
  <2> QED
    BY <2>1, <2>2
<1>9. DecidedInv'
  <2>1. \A d \in decided' : \/ d \in decided
                            \/ d = T!Decision(o) /\ T!Tracing(config)
    BY <1>1
  <2>2. \A d \in decided' : d \in Decisions /\ d.by <= service
    BY <1>2, <1>5, <1>6, <1>7, <2>1
  <2>3. \A d \in decided' : d.rate # None => d.rand # None /\ Explains(d.rand, d.rate, d.sampled)
    BY <1>6, <2>1 DEF TraceInv, DecidedInv, Decided, Decides
  <2>4. \A d \in decided' : d.by = service => T!Tracing(config) /\ d = T!Decision(o)
    BY <1>7, <2>1
  <2>5. T!Tracing(config) => /\ span'.sampled \in BOOLEAN
                             /\ span'.rate # None => span'.rand # None
                                  /\ Explains(span'.rand, span'.rate, span'.sampled)
    BY <1>4 DEF Decided, Decides
  <2> QED
    BY <1>1, <1>5, <1>6, <2>2, <2>3, <2>4, <2>5 DEF DecidedInv, Explains
<1>10. RandInv'
  <2> SUFFICES ASSUME damage \cap {"rand", "early"} = {}
               PROVE  /\ \A d \in decided' : Seeded(d.rand)'
                      /\ SeededBag(own)' /\ Seeded(o.rand)' /\ SeededBag(bag)'
                      /\ bag # None => bag.rand # None
    BY <1>1, <1>3, <1>4 DEF RandInv, SeededBag, Seeded
  <2>1. /\ \A d \in decided : Seeded(d.rand)
        /\ SeededBag(context.bag)
        /\ SeededBag(Held) /\ (Held # None => Held.rand # None)
    BY DEF TraceInv, RandInv
  <2>2. bag # None => Seeded(bag.rand) /\ bag.rand # None
    BY <2>1 DEF Decided, SeededBag
  <2>3. own # None => Seeded(own.rand)
    <3>1. own # None => context.bag # None /\ own.rand = context.bag.rand
      BY DEF Decided
    <3> QED
      BY <2>1, <3>1 DEF SeededBag
  <2>4. SeededBag(bag)' /\ SeededBag(own)'
    BY <2>2, <2>3, StaySeeded DEF SeededBag
  <2>5. Seeded(o.rand)'
    <3>1. CASE o.rand = None
      BY <3>1 DEF Seeded
    <3>2. CASE o.rand # None /\ Held # None
      <4>1. o.rand = Held.rand /\ Seeded(o.rand)
        BY <2>1, <3>2 DEF Decided, SeededBag
      <4> QED
        BY <4>1, StaySeeded
    <3>3. CASE o.rand # None /\ Held = None
      BY <3>3 DEF Decided
    <3> QED
      BY <3>1, <3>2, <3>3
  <2>6. \A d \in decided' : Seeded(d.rand)'
    BY <1>1, <1>6, <2>1, <2>5, StaySeeded
  <2> QED
    BY <2>2, <2>4, <2>5, <2>6

<1>11. WholeInv'
  <2> SUFFICES ASSUME apart' = {}
               PROVE  /\ \A d, e \in decided' : d.sampled = e.sampled
                      /\ T!Tracing(config) => \A d \in decided' : o.sampled = d.sampled
    BY <1>1, <1>4, <1>5 DEF WholeInv
  <2>1. /\ apart = {}
        /\ context.sampled # None => config.sampler = None /\ forced = None /\ ~ignored
                                     /\ config.divisor <= 1
    <3>1. config.divisor \in Nat
      BY <1>2 DEF T!AllConfigs
    <3> QED
      BY <1>1, <3>1
  <2>2. \A d \in decided : d.sampled = context.sampled /\ d.sampled # None
    BY <1>7, <2>1 DEF TraceInv, WholeInv, Decisions, T!Constants
  <2>3. CASE T!Tracing(config) /\ decided # {}
    <3>1. context.sampled \in BOOLEAN /\ context.sampled # None
      BY <1>7, <2>2, <2>3 DEF Decisions
    <3>2. o.rate = Follows
      BY <2>1, <2>3, <3>1 DEF Decided
    <3>3. /\ o.rate # None /\ o.rand \in T!Rands
          /\ o.sampled \in BOOLEAN /\ (o.sampled <=> o.rand < o.rate)
      BY <2>3, <3>2, Steps DEF Follows, T!Constants, Decided, Decides, Explains, T!Maybe
    <3>4. o.rand \in Nat /\ o.rand < One
      BY <3>3, RandsBelow
    <3>5. o.sampled = context.sampled
      BY <3>1, <3>2, <3>3, <3>4 DEF Follows
    <3> QED
      BY <1>1, <1>6, <2>2, <3>5
  <2>4. CASE T!Tracing(config) /\ decided = {}
    BY <1>1, <1>6, <2>4
  <2>5. CASE ~T!Tracing(config)
    BY <1>1, <2>2, <2>5
  <2> QED
    BY <2>3, <2>4, <2>5
<1>12. OrgInv'
  <2> SUFFICES ASSUME first # None, "baggage" \notin damage
               PROVE  /\ orgs \subseteq {first}
                      /\ FirstBag(own)' /\ FirstBag(bag)'
    BY <1>1, <1>3, <1>4 DEF OrgInv, FirstBag
  <2>1. orgs \subseteq {first} /\ FirstBag(context.bag) /\ FirstBag(Held)
    BY DEF TraceInv, OrgInv
  <2> QED
    BY <1>1, <2>1 DEF FirstBag, Decided
<1>13. T!OfSpan' = SentFrom(span', config.org)
  BY <1>1 DEF T!OfSpan, SentFrom
<1>14. /\ T!OfSpan' \in T!Bags
       /\ bag = None => T!OfSpan'.rand = o.rand /\ T!OfSpan'.rate = o.rate
       /\ bag # None => /\ T!OfSpan'.rand \in {bag.rand, T!Kept(bag.rand, o.rand)}
                        /\ T!OfSpan'.rate \in {bag.rate, T!Kept(bag.rate, o.rate)}
                        /\ ~bag.mutable => T!OfSpan' = bag
  BY <1>2, <1>4, <1>13, Sending DEF T!AllConfigs
<1>15. T!OfSpan'.rand # None /\ o.rand # None => T!OfSpan'.rand = o.rand
  BY <1>14 DEF Decided, T!Kept
<1>16. TrueInv'
  <2> SUFFICES ASSUME damage' \cap {"fine", "stale"} = {}, T!Tracing(config)
               PROVE  TrueBag(o.sampled, T!OfSpan')
    BY <1>1, <1>4, <1>5 DEF TrueInv
  <2> SUFFICES ASSUME T!OfSpan'.rand # None, T!OfSpan'.rate # None
               PROVE  Explains(T!OfSpan'.rand, T!OfSpan'.rate, o.sampled)
    BY DEF TrueBag
  <2>1. damage \cap {"fine", "stale"} = {} /\ ~T!Stale(o, forced)
    BY <1>1
  <2>2. TrueBag(context.sampled, Held)
    BY <2>1 DEF TraceInv, TrueInv
  <2>3. o.rate # None => Explains(o.rand, o.rate, o.sampled) /\ o.rand # None
    BY DEF Decided, Decides
  <2>4. CASE bag = None
    BY <1>14, <2>3, <2>4
  <2>5. CASE bag # None
    <3>1. Held # None /\ context.bag # None
      BY <2>5 DEF TraceInv, PlaceInv, Decided
    <3>2. o.rate # None /\ ~(T!Keeps /\ forced = None /\ config.divisor > 1)
      BY <2>1, <3>1 DEF T!Stale
    <3>3. T!OfSpan'.rand = o.rand
      BY <1>15, <2>3, <3>2
    <3>4. CASE T!OfSpan'.rate = o.rate
      BY <2>3, <3>2, <3>3, <3>4
    <3>5. CASE T!OfSpan'.rate # o.rate
      <4>1. bag.rate # o.rate /\ bag.rate # None /\ T!OfSpan'.rate = bag.rate
        BY <1>14, <2>5, <3>5 DEF T!Kept
      <4>2. T!Keeps /\ forced = None /\ bag.rate = Held.rate
        BY <3>1, <3>2, <4>1 DEF Decided
      <4>3. o.rate = Follows /\ context.sampled \in BOOLEAN
        <5>1. config.divisor \in Nat
          BY <1>2 DEF T!AllConfigs
        <5>2. ~ignored /\ config.divisor <= 1
          BY <3>2, <4>2, <5>1
        <5>3. context.sampled \in BOOLEAN /\ context.sampled # None /\ config.sampler = None
          BY <1>2, <4>2 DEF T!Keeps, T!TraceHeaders, T!Maybe
        <5> QED
          BY <4>2, <5>2, <5>3 DEF Decided
      <4>4. o.rand \in Nat /\ o.rand < One
        BY <2>3, <3>2, RandsBelow DEF Decided, T!Maybe
      <4>5. o.sampled <=> context.sampled
        BY <2>3, <3>2, <4>3, <4>4, Steps DEF Follows, Explains
      <4>6. bag.rand # None /\ bag.rand = Held.rand /\ T!OfSpan'.rand = bag.rand
        <5>1. bag.rand = Held.rand
          BY <3>1 DEF Decided
        <5>2. bag.rand # None
          BY <1>14, <2>5, <3>1, <5>1 DEF TraceInv, PlaceInv, Decided
        <5> QED
          BY <1>14, <2>5, <5>1, <5>2 DEF T!Kept
      <4>7. Explains(Held.rand, Held.rate, context.sampled)
        BY <2>2, <3>1, <4>1, <4>2, <4>6 DEF TrueBag, T!Keeps
      <4> QED
        BY <4>1, <4>2, <4>5, <4>6, <4>7 DEF Explains
    <3> QED
      BY <3>4, <3>5
  <2> QED
    BY <2>4, <2>5
<1>17. LastInv'
  <2> SUFFICES ASSUME damage' \subseteq {"rand"}, "outside" \notin apart'
               PROVE  /\ \A d, e \in Rated' : d.by + 1 = e.by =>
                                                Explains(e.rand, d.rate, d.sampled)
                      /\ \A d \in Rated' : d.by = service => Carries(T!OfSpan', d)
    BY <1>1 DEF LastInv, Carries, Trivial
  <2>1. damage \subseteq {"rand"} /\ "outside" \notin apart /\ ~T!Stale(o, forced) /\ ~T!Untold
    BY <1>1
  <2>2. \A d \in Rated' : \/ d \in Rated
                          \/ d = T!Decision(o) /\ T!Tracing(config) /\ o.rate # None
    BY <1>1, <1>6 DEF Rated
  <2>3. ASSUME NEW d \in Rated', d.by = service PROVE Carries(T!OfSpan', d)
    <3>1. d = T!Decision(o) /\ T!Tracing(config) /\ o.rate # None
      BY <1>7, <2>2, <2>3 DEF Rated
    <3>2. Explains(o.rand, o.rate, o.sampled) /\ o.rand # None
      BY <3>1 DEF Decided, Decides
    <3>3. T!OfSpan'.rand # None => Explains(T!OfSpan'.rand, d.rate, d.sampled)
      BY <1>6, <1>15, <3>1, <3>2
    <3>4. Trivial(d) \/ T!OfSpan'.rate = d.rate
      <4>1. CASE bag = None \/ bag.rate = o.rate
        BY <1>6, <1>14, <3>1, <4>1 DEF T!Kept
      <4>2. CASE bag # None /\ bag.rate # o.rate
        <5>1. Held # None /\ context.bag # None
          BY <4>2 DEF TraceInv, PlaceInv, Decided
        <5>2. T!Keeps /\ forced = None
          BY <2>1, <3>1, <4>2, <5>1 DEF Decided
        <5>3. config.divisor <= 1
          <6>1. config.divisor \in Nat
            BY <1>2 DEF T!AllConfigs
          <6> QED
            BY <2>1, <3>1, <5>1, <5>2, <6>1 DEF T!Stale
        <5>4. o.rate = Follows
          BY <3>1, <5>2, <5>3 DEF Decided, T!Keeps
        <5> QED
          BY <1>6, <3>1, <5>4 DEF Trivial, Follows
      <4> QED
        BY <4>1, <4>2
    <3> QED
      BY <3>3, <3>4 DEF Carries
  <2>4. ASSUME NEW d \in Rated', NEW e \in Rated', d.by + 1 = e.by
        PROVE  Explains(e.rand, d.rate, d.sampled)
    <3>1. d \in Rated
      BY <1>2, <1>6, <1>7, <2>2, <2>4 DEF Rated
    <3>2. CASE e \in Rated
      BY <2>1, <2>4, <3>1, <3>2 DEF TraceInv, LastInv
    <3>3. CASE e = T!Decision(o) /\ o.rate # None /\ T!Tracing(config)
      <4>1. Reaches(Held, d) /\ o.rand # None /\ e.rand = o.rand
        BY <1>6, <2>1, <2>4, <3>1, <3>3 DEF TraceInv, LastInv, Decided, Decides
      <4>2. CASE Trivial(d)
        <5>1. o.rand \in Nat /\ o.rand < One /\ ~(o.rand < 0)
          BY <4>1, RandsBelow DEF Decided, T!Maybe
        <5>2. d.rand \in Nat /\ d.rand < One /\ Explains(d.rand, d.rate, d.sampled)
          BY <1>7, <3>1, RandsBelow DEF TraceInv, DecidedInv, Rated, Decisions, T!Maybe
        <5> QED
          BY <4>1, <4>2, <5>1, <5>2 DEF Trivial, Explains
      <4>3. CASE ~Trivial(d)
        BY <4>1, <4>3 DEF Reaches, Decided
      <4> QED
        BY <4>2, <4>3
    <3> QED
      BY <2>2, <3>2, <3>3
  <2> QED
    BY <2>3, <2>4
<1> QED
  BY <1>8, <1>9, <1>10, <1>11, <1>12, <1>16, <1>17 DEF TraceInv

LEMMA Seeding ==
  ASSUME T!Constants, TraceInv, NEW bag, NEW rand \in T!Rands, T!SampleRand(bag, rand)
  PROVE  /\ DrawsInv' /\ Remembers
         /\ IF bag # None /\ bag.rand # None THEN rand = bag.rand ELSE Seeded(rand)'
<1>1. CASE bag # None /\ bag.rand # None
  BY <1>1 DEF T!SampleRand, TraceInv, DrawsInv, T!Fresh, Remembers
<1>2. CASE ~(bag # None /\ bag.rand # None)
  <2>1. T!Draw(0, One, rand) /\ 0 \in T!Rates /\ One \in T!Rates
    BY <1>2, Steps DEF T!SampleRand, T!Rates
  <2> QED
    BY <1>2, <2>1, Drawing, Steps DEF TraceInv, Remembers, Seeded, Whole
<1> QED
  BY <1>1, <1>2

LEMMA Rerating ==
  ASSUME NEW bag \in T!Maybe(T!Bags), T!Constants, NEW rate \in T!Maybe(T!Rates)
  PROVE  /\ T!WithRate(bag, rate) \in T!Maybe(T!Bags)
         /\ IF bag = None THEN T!WithRate(bag, rate) = None
            ELSE /\ T!WithRate(bag, rate) # None /\ T!WithRate(bag, rate).rate = rate
                 /\ T!WithRate(bag, rate).rand = bag.rand /\ T!WithRate(bag, rate).org = bag.org
                 /\ T!WithRate(bag, rate).mutable = bag.mutable
<1>1. CASE bag = None
  BY <1>1 DEF T!WithRate, T!Maybe
<1>2. CASE bag # None
  <2>1. bag \in T!Bags /\ T!WithRate(bag, rate) = [bag EXCEPT !.rate = rate]
    BY <1>2 DEF T!WithRate, T!Maybe
  <2>2. T!WithRate(bag, rate) \in T!Bags
    BY <2>1 DEF T!Bags
  <2> QED
    BY <1>2, <2>1, <2>2 DEF T!Bags, T!Maybe, T!Constants
<1> QED
  BY <1>1, <1>2

(* A parent's decision, followed, is a decision by the rate 1 or 0.        *)
LEMMA Following ==
  ASSUME T!Constants, config \in Configs, context \in T!TraceHeaders, T!Tracing(config),
         config.sampler = None, context.sampled # None
  PROVE  T!Given = Follows /\ T!Given # Fails
BY Steps DEF T!Given, Follows, T!Constants, T!Maybe

LEMMA StepTransaction ==
  ASSUME T!Constants, TraceInv, NEW forced \in T!Maybe(BOOLEAN), T!StartTransaction(forced)
  PROVE  TraceInv'
<1>1. at = "start" /\ ~config.streaming
  BY DEF T!StartTransaction
<1>2. /\ context \in T!TraceHeaders /\ config \in Configs /\ span \in T!Spans /\ Held = span.bag
      /\ config \in T!AllConfigs
  BY <1>1 DEF TraceInv, T!TypeOK, PlaceInv, T!Maybe, Held, T!Constants
<1> DEFINE Updates(o) == o.rate # None /\ ~(T!Keeps /\ forced = None)
           Bag(o, b)  == IF Updates(o) THEN T!WithRate(b, o.rate) ELSE b
<1>3. PICK rand \in T!Rands :
        /\ T!SampleRand(span.bag, rand)
        /\ span' = T!SpanOf(T!OfTransaction(rand, forced),
                          Bag(T!OfTransaction(rand, forced), span.bag))
        /\ context' = [context EXCEPT !.bag = Bag(T!OfTransaction(rand, forced), context.bag)]
        /\ T!Decide(T!OfTransaction(rand, forced), forced, FALSE)
  BY DEF T!StartTransaction
<1>4. PICK o : o = T!OfTransaction(rand, forced)
  OBVIOUS
<1>5. PICK bag : bag = Bag(o, span.bag)
  OBVIOUS
<1>6. PICK own : own = Bag(o, context.bag)
  OBVIOUS
<1>7. /\ span' = T!SpanOf(o, bag) /\ context' = [context EXCEPT !.bag = own]
      /\ T!Decide(o, forced, FALSE)
  BY <1>3, <1>4, <1>5, <1>6
<1>8. /\ DrawsInv' /\ Remembers
      /\ IF span.bag # None /\ span.bag.rand # None THEN rand = span.bag.rand ELSE Seeded(rand)'
  <2>1. PICK held : held = span.bag
    OBVIOUS
  <2> QED
    BY <1>3, <2>1, Seeding
<1>9. /\ Decides(o) /\ o.rand = rand
      /\ T!Tracing(config) /\ forced # None => o.rate \in {0, One}
      /\ T!Tracing(config) /\ forced = None => o.rate \in {None, T!Lowered(T!Given)}
      /\ T!Tracing(config) /\ T!Given # Fails => o.rate # None
      /\ ~T!Tracing(config) => o.rate = None
  BY <1>2, <1>4, Transactions
<1>10. /\ o.rate \in T!Maybe(T!Rates) /\ o.rand \in T!Maybe(T!Rands)
       /\ span.bag \in T!Maybe(T!Bags) /\ context.bag \in T!Maybe(T!Bags)
  BY <1>2, <1>9 DEF Decides, T!Maybe, T!Spans, T!TraceHeaders
<1> HIDE DEF Bag
<1>11. /\ bag \in T!Maybe(T!Bags)
       /\ IF Held = None THEN bag = None
          ELSE /\ bag # None /\ bag.mutable = Held.mutable
               /\ bag.rand = Held.rand /\ bag.org = Held.org
       /\ Held # None => bag.rate = IF Updates(o) THEN o.rate ELSE Held.rate
  BY <1>2, <1>5, <1>10, Rerating DEF Bag
<1>12. /\ own \in T!Maybe(T!Bags)
       /\ IF context.bag = None THEN own = None
          ELSE own # None /\ own.rand = context.bag.rand /\ own.org = context.bag.org
  BY <1>6, <1>10, Rerating DEF Bag
<1>13. T!Tracing(config) /\ context.sampled # None /\ config.sampler = None
       /\ forced = None /\ config.divisor <= 1 => o.rate = Follows
  BY <1>2, <1>9, Following, Rating
<1>14. Decided(o, forced, FALSE, bag, own)
  BY <1>2, <1>8, <1>9, <1>10, <1>11, <1>12, <1>13 DEF Decided
<1> QED
  BY <1>1, <1>7, <1>8, <1>14, Deciding

LEMMA StepSegment ==
  ASSUME T!Constants, TraceInv, T!StartSegment
  PROVE  TraceInv'
<1>1. at = "start" /\ config.streaming
  BY DEF T!StartSegment
<1>2. /\ context \in T!TraceHeaders /\ config \in Configs /\ Held = context.bag
      /\ config \in T!AllConfigs
  BY <1>1 DEF TraceInv, T!TypeOK, PlaceInv, T!Maybe, Held, T!Constants
<1> DEFINE Updates(o) == o.rate # None /\ ~T!Keeps /\ context.bag # None /\ context.bag.rate # None
           Bag(o)     == IF Updates(o) THEN T!WithRate(context.bag, o.rate) ELSE context.bag
<1>3. PICK rand \in T!Rands :
        /\ T!SampleRand(context.bag, rand)
        /\ span' = T!SpanOf(T!OfSegment(rand), Bag(T!OfSegment(rand)))
        /\ context' = [context EXCEPT !.bag = Bag(T!OfSegment(rand))]
        /\ T!Decide(T!OfSegment(rand), None, FALSE)
  BY DEF T!StartSegment
<1>4. PICK o : o = T!OfSegment(rand)
  OBVIOUS
<1>5. PICK bag : bag = Bag(o)
  OBVIOUS
<1>6. /\ span' = T!SpanOf(o, bag) /\ context' = [context EXCEPT !.bag = bag]
      /\ T!Decide(o, None, FALSE)
  BY <1>3, <1>4, <1>5
<1>7. /\ DrawsInv' /\ Remembers
      /\ IF context.bag # None /\ context.bag.rand # None THEN rand = context.bag.rand
         ELSE Seeded(rand)'
  <2>1. PICK held : held = context.bag
    OBVIOUS
  <2> QED
    BY <1>3, <2>1, Seeding
<1>8. /\ Decides(o) /\ o.rand \in {None, rand}
      /\ T!Tracing(config) => o.rate \in {None, T!Lowered(T!Given)}
      /\ T!Tracing(config) /\ T!Given # Fails => o.rate # None /\ o.rand = rand
      /\ ~T!Tracing(config) => o.rate = None
  BY <1>2, <1>4, Segments
<1>9. /\ o.rate \in T!Maybe(T!Rates) /\ o.rand \in T!Maybe(T!Rands)
      /\ context.bag \in T!Maybe(T!Bags)
  BY <1>2, <1>8 DEF Decides, T!Maybe, T!TraceHeaders
<1> HIDE DEF Bag
<1>10. /\ bag \in T!Maybe(T!Bags)
       /\ IF Held = None THEN bag = None
          ELSE /\ bag # None /\ bag.mutable = Held.mutable
               /\ bag.rand = Held.rand /\ bag.org = Held.org
       /\ Held # None => bag.rate = IF Updates(o) THEN o.rate ELSE Held.rate
  BY <1>2, <1>5, <1>9, Rerating DEF Bag
<1>11. T!Tracing(config) /\ context.sampled # None /\ config.sampler = None
       /\ config.divisor <= 1 => o.rate = Follows
  BY <1>2, <1>8, Following, Rating
<1>12. T!Tracing(config) /\ Held # None /\ o.rate # None =>
         \/ bag.rate = o.rate
         \/ bag.rate = None /\ T!Untold
         \/ T!Keeps /\ bag.rate = Held.rate
  BY <1>1, <1>2, <1>10 DEF T!Untold
<1>13. Decided(o, None, FALSE, bag, bag)
  BY <1>2, <1>7, <1>8, <1>9, <1>10, <1>11, <1>12 DEF Decided
<1> QED
  BY <1>1, <1>6, <1>7, <1>13, Deciding

LEMMA StepIgnore ==
  ASSUME T!Constants, TraceInv, T!IgnoreSegment
  PROVE  TraceInv'
<1>1. /\ at = "start" /\ config.streaming
      /\ span' = T!SpanOf(T!Outcome(FALSE, None, None), context.bag)
      /\ T!Decide(T!Outcome(FALSE, None, None), None, TRUE)
      /\ UNCHANGED <<context, draws>>
  BY DEF T!IgnoreSegment
<1>2. /\ context \in T!TraceHeaders /\ Held = context.bag
  BY <1>1 DEF TraceInv, T!TypeOK, PlaceInv, T!Maybe, Held, T!Constants
<1>3. PICK o : o = T!Outcome(FALSE, None, None)
  BY Zenon
<1>4. PICK bag : bag = context.bag
  OBVIOUS
<1>5. o.sampled \in BOOLEAN /\ o.rate = None /\ o.rand = None
  BY <1>3 DEF T!Outcome
<1>6. context' = [context EXCEPT !.bag = bag] /\ bag \in T!Maybe(T!Bags)
  BY <1>1, <1>2, <1>4 DEF T!TraceHeaders
<1>7. DrawsInv' /\ Remembers
  BY <1>1 DEF TraceInv, DrawsInv, T!Fresh, Remembers
<1>8. Decided(o, None, TRUE, bag, bag)
  BY <1>2, <1>4, <1>5, <1>6 DEF Decided, Decides, T!Maybe
<1>9. span' = T!SpanOf(o, bag) /\ T!Decide(o, None, TRUE)
  BY <1>1, <1>3, <1>4, Zenon
<1> QED
  BY <1>1, <1>5, <1>6, <1>7, <1>8, <1>9, Deciding, Zenon

LEMMA Sent ==
  ASSUME T!Constants, TraceInv, at = "call", NEW sampled \in T!Maybe(BOOLEAN), NEW bag \in T!Bags,
         T!Send(sampled, bag)
  PROVE  /\ arrived' \in T!TraceHeaders /\ arrived' # None
         /\ arrived'.sampled = sampled /\ arrived'.bag # None
         /\ arrived'.bag.rand = bag.rand /\ arrived'.bag.rate = bag.rate
         /\ arrived'.bag.org = bag.org /\ ~arrived'.bag.mutable
         /\ at' = "way" /\ config' = None /\ context' = None /\ span' = None
         /\ UNCHANGED <<service, draws, decided, damage, orgs, first>>
<1>1. /\ arrived' = [trace |-> context.trace, sampled |-> sampled,
                     bag |-> [bag EXCEPT !.mutable = FALSE]]
      /\ at' = "way" /\ config' = None /\ context' = None /\ span' = None
      /\ UNCHANGED <<service, draws, decided, damage, orgs, first>>
  BY DEF T!Send
<1>2. context.trace \in 1..Services
  BY DEF TraceInv, T!TypeOK, PlaceInv, T!Maybe, T!TraceHeaders
<1> DEFINE sent == [bag EXCEPT !.mutable = FALSE]
<1>3. /\ sent \in T!Bags /\ sent.rand = bag.rand /\ sent.rate = bag.rate /\ sent.org = bag.org
      /\ sent.mutable = FALSE
  BY DEF T!Bags
<1>4. sent # None
  BY <1>3 DEF T!Constants
<1> HIDE DEF sent
<1>5. arrived' = [trace |-> context.trace, sampled |-> sampled, bag |-> sent]
  BY <1>1 DEF sent
<1>6. arrived' \in T!TraceHeaders
  BY <1>2, <1>3, <1>5 DEF T!TraceHeaders, T!Maybe
<1>7. arrived' # None
  BY <1>6 DEF T!Constants
<1>8. arrived'.sampled = sampled /\ arrived'.bag = sent
  BY <1>5
<1> QED
  BY <1>1, <1>3, <1>4, <1>6, <1>7, <1>8

LEMMA AtCall ==
  ASSUME T!Constants, TraceInv, at = "call"
  PROVE  /\ service \in 1..Services /\ Services \in Nat
         /\ span \in T!Spans /\ config \in T!AllConfigs /\ context \in T!TraceHeaders
         /\ \A d \in decided : d.by \in Nat /\ d.by <= service
BY DEF TraceInv, T!TypeOK, PlaceInv, DecidedInv, Decisions, T!Maybe, T!Constants

(* Types and places after a call, whoever makes it.                        *)
LEMMA OnTheWay ==
  ASSUME T!Constants, TraceInv, at = "call", NEW sampled \in T!Maybe(BOOLEAN), NEW bag \in T!Bags,
         T!Send(sampled, bag),
         apart' \subseteq {"sampler", "forced", "ignored", "backpressure", "off", "outside"}
  PROVE  T!TypeOK' /\ DrawsInv' /\ PlaceInv' /\ DecidedInv'
<1>1. /\ arrived' \in T!TraceHeaders /\ arrived' # None /\ ~arrived'.bag.mutable
      /\ at' = "way" /\ config' = None /\ context' = None /\ span' = None
      /\ service' = service /\ draws' = draws /\ decided' = decided
      /\ damage' = damage /\ orgs' = orgs /\ first' = first
  BY Sent
<1>2. service \in 1..Services /\ Services \in Nat
  BY AtCall
<1>3. T!TypeOK'
  BY <1>1 DEF TraceInv, T!TypeOK, T!Maybe
<1>4. DrawsInv'
  BY <1>1 DEF TraceInv, DrawsInv, T!Fresh
<1>5. PlaceInv'
  BY <1>1, <1>2 DEF PlaceInv
<1>6. DecidedInv'
  BY <1>1 DEF TraceInv, DecidedInv
<1> QED
  BY <1>3, <1>4, <1>5, <1>6

LEMMA StepInside ==
  ASSUME T!Constants, TraceInv, T!CallInside
  PROVE  TraceInv'
<1>1. at = "call" /\ T!Tracing(config) /\ T!Send(span.sampled, T!OfSpan) /\ apart' = apart
  BY DEF T!CallInside
<1>2. /\ service \in 1..Services /\ Services \in Nat
      /\ span \in T!Spans /\ config \in T!AllConfigs /\ context \in T!TraceHeaders
      /\ \A d \in decided : d.by \in Nat /\ d.by <= service
  BY <1>1, AtCall
<1>3. PICK bag : bag = T!OfSpan
  BY Zenon
<1>4. PICK sampled : sampled = span.sampled
  OBVIOUS
<1>5. sampled \in T!Maybe(BOOLEAN) /\ T!Send(sampled, bag)
  BY <1>1, <1>2, <1>3, <1>4 DEF T!Spans
<1>6. T!OfSpan = SentFrom(span, config.org)
  BY DEF T!OfSpan, SentFrom
<1>7. /\ bag \in T!Bags
      /\ span.bag = None => /\ bag.rand = span.rand /\ bag.rate = span.rate
                            /\ bag.org = config.org
      /\ span.bag # None => /\ bag.rand \in {span.bag.rand, T!Kept(span.bag.rand, span.rand)}
                            /\ bag.org \in {span.bag.org, T!Kept(span.bag.org, config.org)}
  <2>1. PICK s : s = span
    OBVIOUS
  <2>2. PICK org : org = config.org
    OBVIOUS
  <2>3. s \in T!Spans /\ org \in T!Maybe(Orgs) /\ bag = SentFrom(s, org)
    BY <1>2, <1>3, <1>6, <2>1, <2>2 DEF T!AllConfigs
  <2> QED
    BY <2>1, <2>2, <2>3, Sending
<1>8. /\ arrived' # None /\ arrived'.sampled = sampled /\ arrived'.bag # None
      /\ arrived'.bag.rand = bag.rand /\ arrived'.bag.rate = bag.rate
      /\ arrived'.bag.org = bag.org
      /\ at' = "way" /\ service' = service /\ draws' = draws /\ decided' = decided
      /\ damage' = damage /\ orgs' = orgs /\ first' = first
  BY <1>1, <1>5, <1>7, Sent
<1>9. T!TypeOK' /\ DrawsInv' /\ PlaceInv' /\ DecidedInv'
  BY <1>1, <1>5, <1>7, OnTheWay DEF TraceInv, T!TypeOK
<1>10. RandInv'
  <2> SUFFICES ASSUME damage \cap {"rand", "early"} = {}
               PROVE  /\ \A d \in decided : Seeded(d.rand)'
                      /\ Seeded(bag.rand)'
                      /\ bag.rand = None => None \in {sampled, bag.rate}
    BY <1>8 DEF RandInv, SeededBag, Seeded
  <2>1. /\ \A d \in decided : Seeded(d.rand)
        /\ Seeded(span.rand) /\ SeededBag(span.bag)
        /\ span.bag # None => span.bag.rand # None
    BY <1>1 DEF TraceInv, RandInv
  <2>2. Seeded(bag.rand) /\ (bag.rand = None => span.rand = None /\ span.bag = None)
    BY <1>7, <2>1 DEF SeededBag, Seeded, T!Kept
  <2>3. bag.rand = None => bag.rate = None
    BY <1>1, <1>7, <2>2 DEF TraceInv, DecidedInv
  <2> QED
    BY <1>8, <2>1, <2>2, <2>3 DEF Seeded
<1>11. WholeInv'
  BY <1>1, <1>4, <1>8 DEF TraceInv, WholeInv
<1>12. OrgInv'
  <2> SUFFICES ASSUME first # None, "baggage" \notin damage
               PROVE  orgs \subseteq {first} /\ bag.org = first
    BY <1>8 DEF OrgInv
  <2>1. orgs \subseteq {first} /\ FirstBag(span.bag)
    BY <1>1 DEF TraceInv, OrgInv
  <2> QED
    BY <1>7, <2>1 DEF FirstBag, T!Kept
<1>13. TrueInv'
  <2> SUFFICES ASSUME damage \cap {"fine", "stale"} = {}
               PROVE  TrueBag(sampled, arrived'.bag)
    BY <1>8 DEF TrueInv
  <2>1. TrueBag(sampled, bag)
    BY <1>1, <1>3, <1>4 DEF TraceInv, TrueInv
  <2>2. bag # None
    BY <1>7 DEF T!Constants
  <2> QED
    BY <1>8, <2>1, <2>2 DEF TrueBag
<1>14. LastInv'
  <2> SUFFICES ASSUME damage \subseteq {"rand"}, "outside" \notin apart
               PROVE  /\ \A d, e \in Rated : d.by + 1 = e.by =>
                                               Explains(e.rand, d.rate, d.sampled)
                      /\ \A d \in Rated : d.by = service => sampled = d.sampled /\ Carries(bag, d)
    BY <1>1, <1>8 DEF LastInv, Rated, Carries, Trivial
  <2>1. /\ \A d, e \in Rated : d.by + 1 = e.by => Explains(e.rand, d.rate, d.sampled)
        /\ \A d \in Rated : d.by = service => Carries(bag, d)
    BY <1>1, <1>3 DEF TraceInv, LastInv
  <2>2. \A d \in decided : d.by = service => d.sampled = span.sampled
    BY <1>1 DEF TraceInv, DecidedInv, T!Decision
  <2> QED
    BY <1>4, <2>1, <2>2 DEF Rated
<1> QED
  BY <1>9, <1>10, <1>11, <1>12, <1>13, <1>14 DEF TraceInv

LEMMA StepOutside ==
  ASSUME T!Constants, TraceInv, T!CallOutside
  PROVE  TraceInv'
<1>1. /\ at = "call" /\ T!Send(None, T!OfContext)
      /\ apart' = IF decided = {} THEN apart
                  ELSE apart \cup {IF T!Tracing(config) THEN "outside" ELSE "off"}
  BY DEF T!CallOutside
<1>2. /\ service \in 1..Services /\ Services \in Nat
      /\ span \in T!Spans /\ config \in T!AllConfigs /\ context \in T!TraceHeaders
      /\ \A d \in decided : d.by \in Nat /\ d.by <= service
  BY <1>1, AtCall
<1>3. PICK bag : bag = T!OfContext
  BY Zenon
<1>4. /\ bag \in T!Bags
      /\ context.bag # None => bag = context.bag
      /\ context.bag = None => bag.rand = None /\ bag.org = config.org
  BY <1>1, <1>3, ContextsBag
<1>5. T!Send(None, bag) /\ None \in T!Maybe(BOOLEAN)
  BY <1>1, <1>3 DEF T!Maybe
<1>6. /\ arrived' # None /\ arrived'.sampled = None /\ arrived'.bag # None
      /\ arrived'.bag.rand = bag.rand /\ arrived'.bag.rate = bag.rate
      /\ arrived'.bag.org = bag.org
      /\ at' = "way" /\ service' = service /\ draws' = draws /\ decided' = decided
      /\ damage' = damage /\ orgs' = orgs /\ first' = first
  BY <1>1, <1>4, <1>5, Sent
<1>7. T!TypeOK' /\ DrawsInv' /\ PlaceInv' /\ DecidedInv'
  <2>1. apart' \subseteq {"sampler", "forced", "ignored", "backpressure", "off", "outside"}
    BY <1>1 DEF TraceInv, T!TypeOK
  <2> QED
    BY <1>1, <1>4, <1>5, <2>1, OnTheWay
<1>8. RandInv'
  <2> SUFFICES ASSUME damage \cap {"rand", "early"} = {}
               PROVE  (\A d \in decided : Seeded(d.rand)') /\ Seeded(bag.rand)'
    BY <1>6 DEF RandInv, SeededBag, Seeded
  <2>1. (\A d \in decided : Seeded(d.rand)) /\ SeededBag(context.bag)
    BY <1>1 DEF TraceInv, RandInv
  <2> QED
    BY <1>4, <1>6, <2>1 DEF SeededBag, Seeded
<1>9. WholeInv'
  BY <1>1, <1>6 DEF TraceInv, WholeInv
<1>10. OrgInv'
  <2> SUFFICES ASSUME first # None, "baggage" \notin damage
               PROVE  orgs \subseteq {first} /\ bag.org = first
    BY <1>6 DEF OrgInv
  <2>1. orgs \subseteq {first} /\ FirstBag(context.bag)
    BY <1>1 DEF TraceInv, OrgInv
  <2> QED
    BY <1>4, <2>1 DEF FirstBag
<1>11. TrueInv'
  BY <1>6 DEF TrueInv, TrueBag
<1>12. LastInv'
  <2> SUFFICES ASSUME damage \subseteq {"rand"}, "outside" \notin apart'
               PROVE  /\ \A d, e \in Rated : d.by + 1 = e.by =>
                                               Explains(e.rand, d.rate, d.sampled)
                      /\ \A d \in Rated : d.by # service
    BY <1>6 DEF LastInv, Rated, Carries, Trivial
  <2>1. "outside" \notin apart /\ (decided # {} => ~T!Tracing(config))
    BY <1>1
  <2>2. \A d \in decided : d.by # service
    BY <1>1, <2>1 DEF TraceInv, DecidedInv
  <2> QED
    BY <2>1, <2>2 DEF TraceInv, LastInv, Rated
<1> QED
  BY <1>7, <1>8, <1>9, <1>10, <1>11, <1>12 DEF TraceInv


LEMMA StepLose ==
  ASSUME T!Constants, TraceInv, T!LoseBaggage \/ T!LoseRand
  PROVE  TraceInv'
<1>1. PICK bag, what :
        /\ at = "way" /\ service \in 1..Services - 1 /\ arrived.bag # None
        /\ arrived' = [arrived EXCEPT !.bag = bag] /\ damage' = damage \cup {what}
        /\ UNCHANGED <<service, at, config, context, span, decided, apart, orgs, first>>
        /\ \/ what = "baggage" /\ bag \in {None, T!ThirdParty} /\ draws' = draws
           \/ what = "rand" /\ bag = [arrived.bag EXCEPT !.rand = None] /\ draws' = <<>>
  BY DEF T!LoseBaggage, T!LoseRand, T!Lose
<1>2. /\ arrived # None /\ arrived \in T!TraceHeaders /\ arrived.bag \in T!Bags
      /\ ~arrived.bag.mutable \/ arrived.bag.rate = None
  <2>1. service # 0
    BY <1>1
  <2> QED
    BY <1>1, <2>1 DEF TraceInv, T!TypeOK, PlaceInv, T!Maybe, T!TraceHeaders
<1>3. /\ T!ThirdParty \in T!Bags /\ T!ThirdParty.rand = None /\ T!ThirdParty.rate = None
      /\ T!ThirdParty # None
  <2>1. T!ThirdParty \in T!Bags /\ T!ThirdParty.rand = None /\ T!ThirdParty.rate = None
    BY DEF T!ThirdParty, T!Bags, T!Maybe
  <2> QED
    BY <2>1 DEF T!Constants
<1> DEFINE randless == [arrived.bag EXCEPT !.rand = None]
<1>4. /\ randless \in T!Bags /\ randless.rand = None /\ randless.rate = arrived.bag.rate
      /\ randless.org = arrived.bag.org /\ randless.mutable = arrived.bag.mutable
      /\ randless # None
  <2>1. /\ randless \in T!Bags /\ randless.rand = None /\ randless.rate = arrived.bag.rate
        /\ randless.org = arrived.bag.org /\ randless.mutable = arrived.bag.mutable
    BY <1>2 DEF T!Bags, T!Maybe
  <2> QED
    BY <2>1 DEF T!Constants
<1> HIDE DEF randless
<1>5. /\ bag \in T!Maybe(T!Bags)
      /\ bag # None => bag.rand = None /\ (~bag.mutable \/ bag.rate = None)
      /\ \/ what = "baggage" /\ draws' = draws /\ (bag # None => bag.rate = None)
         \/ /\ what = "rand" /\ draws' = <<>>
            /\ bag # None /\ bag.rate = arrived.bag.rate /\ bag.org = arrived.bag.org
  BY <1>1, <1>2, <1>3, <1>4 DEF T!Maybe, randless
<1>6. /\ arrived' \in T!TraceHeaders /\ arrived' # None
      /\ arrived'.bag = bag /\ arrived'.sampled = arrived.sampled
  BY <1>1, <1>2, <1>5 DEF T!TraceHeaders, T!Constants
<1>7. T!TypeOK' /\ DrawsInv' /\ PlaceInv' /\ DecidedInv'
  <2>1. T!TypeOK'
    BY <1>1, <1>5, <1>6 DEF TraceInv, T!TypeOK, T!Maybe
  <2>2. DrawsInv'
    BY <1>5 DEF TraceInv, DrawsInv, T!Fresh
  <2>3. PlaceInv'
    BY <1>1, <1>5, <1>6 DEF PlaceInv
  <2>4. DecidedInv'
    BY <1>1 DEF TraceInv, DecidedInv
  <2> QED
    BY <2>1, <2>2, <2>3, <2>4
<1>8. RandInv'
  <2> SUFFICES ASSUME damage' \cap {"rand", "early"} = {}
               PROVE  /\ \A d \in decided : Seeded(d.rand)'
                      /\ bag # None => /\ Seeded(bag.rand)'
                                       /\ bag.rand = None => bag.rate = None
    BY <1>1, <1>6 DEF RandInv, SeededBag
  <2>1. what = "baggage" /\ draws' = draws /\ (bag # None => bag.rate = None)
    BY <1>1, <1>5
  <2>2. \A d \in decided : Seeded(d.rand)
    BY <1>1 DEF TraceInv, RandInv
  <2> QED
    BY <1>5, <2>1, <2>2 DEF Seeded
<1>9. WholeInv'
  BY <1>1, <1>6 DEF TraceInv, WholeInv
<1>10. OrgInv'
  BY <1>1, <1>2, <1>5, <1>6 DEF TraceInv, OrgInv
<1>11. TrueInv'
  BY <1>1, <1>5, <1>6 DEF TrueInv, TrueBag
<1>12. LastInv'
  <2> SUFFICES ASSUME damage' \subseteq {"rand"}, "outside" \notin apart
               PROVE  /\ \A d, e \in Rated : d.by + 1 = e.by =>
                                               Explains(e.rand, d.rate, d.sampled)
                      /\ \A d \in Rated : d.by = service =>
                           /\ arrived.sampled = d.sampled
                           /\ bag # None /\ Carries(bag, d)
    BY <1>1, <1>6 DEF LastInv, Rated, Carries, Trivial
  <2>1. damage \subseteq {"rand"} /\ what = "rand"
    BY <1>1, <1>5
  <2> QED
    BY <1>1, <1>5, <2>1 DEF TraceInv, LastInv, Carries
<1> QED
  BY <1>7, <1>8, <1>9, <1>10, <1>11, <1>12 DEF TraceInv

LEMMA InitTraceInv == ASSUME T!Constants, T!Init PROVE TraceInv
<1> USE DEF T!Init
<1>1. T!TypeOK
  BY DEF T!TypeOK, T!Maybe, T!Constants
<1>2. DrawsInv /\ PlaceInv /\ DecidedInv
  BY DEF DrawsInv, PlaceInv, DecidedInv
<1>3. RandInv /\ WholeInv /\ OrgInv /\ TrueInv
  BY DEF RandInv, WholeInv, OrgInv, TrueInv
<1>4. LastInv
  BY DEF LastInv, Rated
<1> QED
  BY <1>1, <1>2, <1>3, <1>4 DEF TraceInv

LEMMA StepTraceInv == ASSUME T!Constants, TraceInv, [T!Next]_T!vars PROVE TraceInv'
<1>1. ASSUME NEW c \in Configs, T!NewTrace(c) PROVE TraceInv'
  BY <1>1, StepNewTrace
<1>2. ASSUME NEW c \in Configs, T!Continue(c) PROVE TraceInv'
  BY <1>2, StepContinue
<1>3. ASSUME NEW forced \in T!Maybe(BOOLEAN), T!StartTransaction(forced) PROVE TraceInv'
  BY <1>3, StepTransaction
<1>4. CASE T!Early \/ T!StartSegment \/ T!IgnoreSegment
  BY <1>4, StepEarly, StepSegment, StepIgnore
<1>5. CASE T!CallInside \/ T!CallOutside \/ T!LoseBaggage \/ T!LoseRand
  BY <1>5, StepInside, StepOutside, StepLose
<1>6. CASE UNCHANGED T!vars
  <2> USE <1>6 DEF T!vars, T!history, TraceInv
  <2>1. T!TypeOK' /\ DrawsInv'
    BY DEF T!TypeOK, DrawsInv, T!Fresh
  <2>2. PlaceInv' /\ DecidedInv'
    BY DEF PlaceInv, Held, DecidedInv, T!Tracing, T!Decision
  <2>3. RandInv' /\ WholeInv'
    <3>1. RandInv'
      BY DEF RandInv, Seeded, SeededBag, Held
    <3>2. WholeInv'
      BY DEF WholeInv, T!Tracing
    <3> QED
      BY <3>1, <3>2
  <2>4. OrgInv'
    BY DEF OrgInv, FirstBag, Held
  <2>5. TrueInv'
    BY DEF TrueInv, TrueBag, Held, T!OfSpan, T!Tracing
  <2>6. LastInv'
    <3>1. T!OfSpan' = T!OfSpan /\ Held' = Held /\ Rated' = Rated
      BY DEF T!OfSpan, Held, Rated
    <3> QED
      BY <3>1 DEF LastInv, Carries, Reaches, Trivial
  <2> QED
    BY <2>1, <2>2, <2>3, <2>4, <2>5, <2>6
<1> QED
  BY <1>1, <1>2, <1>3, <1>4, <1>5, <1>6 DEF T!Next

LEMMA TraceInductive == ASSUME T!Constants PROVE T!Spec => []TraceInv
BY InitTraceInv, StepTraceInv, PTL DEF T!Spec

(* The parts of TraceWhole.                                                *)
LEMMA RandIsOne == ASSUME T!Constants, TraceInv PROVE T!OneRand
<1> SUFFICES ASSUME damage \cap {"rand", "early"} = {}
             PROVE  Cardinality({d.rand : d \in decided} \ {None}) <= 1
  BY SameFiniteness DEF T!OneRand
<1> DEFINE rands == {d.rand : d \in decided} \ {None}
<1>1. rands \subseteq {draws[Whole]}
  BY DEF TraceInv, RandInv, Seeded
<1>2. IsFiniteSet({draws[Whole]}) /\ Cardinality({draws[Whole]}) = 1
  BY FS_Singleton
<1> HIDE DEF rands
<1>3. Cardinality(rands) <= 1
  BY <1>1, <1>2, FS_Subset
<1> QED
  BY <1>3 DEF rands

LEMMA DecisionsFit == ASSUME T!Constants, TraceInv PROVE T!Nested
<1> SUFFICES ASSUME "early" \notin damage, NEW d \in Rated, NEW e \in Rated,
                    d.by < e.by, T!InARow(d, e)
             PROVE  T!Fits(d, e) /\ T!Fits(e, d)
  BY DEF T!Nested, Rated
<1>1. /\ d \in decided /\ e \in decided /\ d \in Decisions /\ e \in Decisions
      /\ d.rate # None /\ e.rate # None
  BY DEF Rated, TraceInv, DecidedInv
<1>2. /\ d.rand # None /\ Explains(d.rand, d.rate, d.sampled)
      /\ e.rand # None /\ Explains(e.rand, e.rate, e.sampled)
  BY <1>1 DEF TraceInv, DecidedInv
<1>3. /\ d.rate \in Nat /\ e.rate \in Nat /\ d.rand \in Nat /\ e.rand \in Nat
      /\ d.sampled \in BOOLEAN /\ e.sampled \in BOOLEAN
  BY <1>1, <1>2, RandsBelow DEF Decisions, T!Maybe, T!Rates
<1>4. Explains(e.rand, d.rate, d.sampled)
  <2>1. CASE "rand" \in damage
    <3>1. damage = {"rand"} /\ "outside" \notin apart /\ d.by + 1 = e.by
      BY <2>1 DEF T!InARow
    <3> QED
      BY <3>1 DEF TraceInv, LastInv
  <2>2. CASE "rand" \notin damage
    <3>1. Seeded(d.rand) /\ Seeded(e.rand)
      BY <1>1, <2>2 DEF TraceInv, RandInv
    <3>2. d.rand = e.rand
      BY <1>2, <3>1 DEF Seeded
    <3> QED
      BY <1>2, <3>2 DEF Explains
  <2> QED
    BY <2>1, <2>2
<1> QED
  BY <1>2, <1>3, <1>4 DEF T!Fits, Explains

LEMMA AllOrNothing == ASSUME T!Constants, TraceInv PROVE T!WholeOrNothing
<1> SUFFICES ASSUME apart = {} PROVE Cardinality({d.sampled : d \in decided}) <= 1
  BY SameFiniteness DEF T!WholeOrNothing
<1> DEFINE answers == {d.sampled : d \in decided}
<1>1. \A x, y \in answers : x = y
  BY DEF TraceInv, WholeInv
<1>2. CASE answers = {}
  BY <1>2, FS_EmptySet
<1>3. CASE answers # {}
  <2>1. PICK x : x \in answers
    BY <1>3
  <2> HIDE DEF answers
  <2>2. answers = {x}
    BY <1>1, <2>1
  <2>3. Cardinality({x}) = 1
    BY FS_Singleton
  <2> QED
    BY <2>2, <2>3 DEF answers
<1> QED
  BY <1>2, <1>3

(* What holds of the traces holds of the behaviours of Requests: those     *)
(* that have traces are behaviours of T, too.                              *)
LEMMA TracesOf == Both => T!Spec
<1>1. BothInit => T!Init
  BY DEF BothInit
<1>2. [EitherNext]_<<vars, traceVars>> => [T!Next]_T!vars
  BY DEF EitherNext, traceVars, T!vars, T!history
<1> QED
  BY <1>1, <1>2, PTL DEF Both, T!Spec

(* However services are configured, whatever happens to headers on their   *)
(* way, and however fine the sample_rands: one of them decides for a whole *)
(* trace, decisions by rates are nested, they differ only for a reason,    *)
(* and a trace stays within its organisation (tracing.py:1266,             *)
(* tracing_utils.py:563, 681-726, 1579-1612, 1729).                        *)
THEOREM TracesAreWhole == T!Spec => []TraceWhole
<1>1. TraceInv => TraceWhole
  BY TraceConstants, RandIsOne, DecisionsFit, AllOrNothing
     DEF TraceWhole, T!TraceWhole, T!OrgsApart, TraceInv, OrgInv
<1> QED
  BY <1>1, TraceConstants, TraceInductive, PTL

(* The decision that headers tell is the one that their rate and their     *)
(* sample_rand make, but for the cases the property names (scope.py:       *)
(* 1200-1212, 1348-1426, tracing_utils.py:681-726, 846-943).               *)
THEOREM HeadersAreTrue == T!Spec => []HeadersTrue
<1>1. TraceInv => HeadersTrue
  <2> SUFFICES ASSUME TraceInv, at = "way", arrived # None, arrived.sampled # None,
                      arrived.bag # None, arrived.bag.rand # None, arrived.bag.rate # None,
                      damage \cap {"fine", "stale"} = {}
               PROVE  arrived.sampled = (arrived.bag.rand < arrived.bag.rate)
    BY DEF HeadersTrue, T!HeadersTrue
  <2>1. arrived.sampled <=> arrived.bag.rand < arrived.bag.rate
    BY DEF TraceInv, TrueInv, TrueBag, Explains
  <2>2. arrived.sampled \in BOOLEAN
    BY DEF TraceInv, T!TypeOK, T!TraceHeaders, T!Maybe
  <2> QED
    BY <2>1, <2>2
<1> QED
  BY <1>1, TraceConstants, TraceInductive, PTL
=============================================================================

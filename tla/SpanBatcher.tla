------------------------------ MODULE SpanBatcher ------------------------------
(***************************************************************************)
(* sentry_sdk/_span_batcher.py: spans wait in one bucket per trace, since  *)
(* an envelope has one trace header.  add() marks a bucket as pending when *)
(* its segment has ended or it is large; the flusher thread sends pending  *)
(* buckets when it is woken, and all of them from time to time.            *)
(*                                                                         *)
(* What is done under _lock is one step, except that add() sets the event  *)
(* and _flush() captures after they have let go of it.  Starting the       *)
(* flusher thread is inherited from Batcher, where the races in it are     *)
(* modelled; it is one step here, and so is kill().                        *)
(***************************************************************************)
EXTENDS Naturals, Sequences, FiniteSets

CONSTANTS Threads,          \* application threads
          Flusher,          \* the flusher thread of the process
          Spans,            \* what is added, each span once
          TraceOf,          \* their traces
          Segments,         \* the spans with is_segment
          SizeOf,           \* _estimate_size
          Poison,           \* the spans that _to_transport_format raises on
          MaxBeforeFlush, MaxBeforeDrop, MaxBytesBeforeFlush, MaxEnvelopeSize,
          None, MaxForks,
          CaptureMayFail,   \* can _capture_func raise?
          StartMayFail      \* can Thread.start() raise RuntimeError?

Traces == {TraceOf[x] : x \in Spans}

ASSUME SpanTypes == /\ IsFiniteSet(Spans) /\ DOMAIN TraceOf = Spans
                    /\ SizeOf \in [Spans -> Nat]
                    /\ Segments \subseteq Spans /\ Poison \subseteq Spans
ASSUME Thresholds == /\ MaxBeforeFlush \in Nat \ {0} /\ MaxBeforeDrop \in Nat
                     /\ MaxBeforeFlush <= MaxBeforeDrop
                     /\ MaxBytesBeforeFlush \in Nat /\ MaxEnvelopeSize \in Nat \ {0}
ASSUME Apart == Flusher \notin Threads /\ None \notin Spans
ASSUME Flags == MaxForks \in Nat /\ {CaptureMayFail, StartMayFail} \subseteq BOOLEAN

Actors == Threads \cup {Flusher}

VARIABLES
  bucket,       \* _span_buffer, <<>> for a key that is not there
  older,        \* of each key of _span_buffer, the keys that come before it
  size,         \* _running_size
  pending,      \* _pending_flush
  event,        \* _flush_event.is_set()
  running,      \* _running
  due,          \* has FLUSH_WAIT_TIME passed since _last_full_flush?
  pid,          \* os.getpid(), as the number of forks before it
  pc,           \* where each thread is; "none": no flusher in this process
  span,         \* the span a thread is adding
  envelopes,    \* the envelopes a thread has built and not captured
  outcome,      \* what became of each span, in this process
  left,         \* buckets that a failed flush left, no longer pending
  added,        \* the spans add() was called with
  inherited     \* those it was called with before the last fork

data == <<bucket, older, size, pending, left>>
past == <<added, inherited>>
vars == <<data, event, running, due, pid, pc, span, envelopes, outcome, past>>

Outcomes == {"captured",   \* in an envelope given to the transport
             "lost",       \* dropped, and reported as queue_overflow
             "ignored",    \* add() returned without a trace of it: there is no
                           \* flusher, or this thread is in the batcher
             "vanished"}   \* with an envelope that an exception kept back

TypeOK ==
  /\ bucket \in [Traces -> Seq(Spans)] /\ size \in [Traces -> Nat]
  /\ older \in [Traces -> SUBSET Traces]
  /\ \A tr \in Traces : Len(bucket[tr]) <= MaxBeforeDrop
  /\ pending \subseteq Traces /\ left \subseteq Traces
  /\ event \in BOOLEAN /\ running \in BOOLEAN /\ due \in BOOLEAN
  /\ pid \in 0..MaxForks
  /\ pc \in [Actors -> {"idle", "gone", "append", "notify", "flush", "capture", "none",
                        "wait", "clear", "pending", "sendpending", "full", "dead"}]
  /\ span \in [Actors -> Spans \cup {None}]
  /\ envelopes \in [Actors -> SUBSET SUBSET Spans]
  /\ outcome \in [Spans -> SUBSET Outcomes] 
  /\ added \subseteq Spans /\ inherited \subseteq added

NoSpans == [tr \in Traces |-> <<>>]
NoSizes == [tr \in Traces |-> 0]
NoOlder == [tr \in Traces |-> {}]

Init ==
  /\ bucket = NoSpans /\ older = NoOlder /\ size = NoSizes
  /\ pending = {} /\ left = {} /\ event = FALSE /\ running = TRUE /\ due = FALSE
  /\ pid = 0
  /\ pc = [t \in Actors |-> IF t = Flusher THEN "none" ELSE "idle"]
  /\ span = [t \in Actors |-> None] /\ envelopes = [t \in Actors |-> {}]
  /\ outcome = [x \in Spans |-> {}] /\ added = {} /\ inherited = {}

Goto(t, point) == pc' = [pc EXCEPT ![t] = point]
Meet(xs, o) == outcome' = [x \in Spans |-> IF x \in xs THEN outcome[x] \cup {o}
                                           ELSE outcome[x]]
Members(s) == {s[i] : i \in DOMAIN s}
Buffered == UNION {Members(bucket[tr]) : tr \in Traces}
Keys == {tr \in Traces : bucket[tr] # <<>>}

-----------------------------------------------------------------------------
(* add() up to the lock: a thread that is in the batcher's code already    *)
(* (_active.flag) returns, as when it logs there; then _ensure_thread.     *)
InBatcher(t) == pc[t] \notin {"idle", "gone", "none", "dead"}
Add(t, x) ==
  /\ x \notin added /\ added' = added \cup {x}
  /\ \/ /\ pc[t] = "idle" /\ running
        /\ span' = [span EXCEPT ![t] = x]
        /\ pc' = [pc EXCEPT ![t] = "append",
                            ![Flusher] = IF @ = "none" THEN "wait" ELSE @]
        /\ UNCHANGED <<running, outcome>>
     \/ /\ InBatcher(t) \/ (pc[t] = "idle" /\ ~running)
        /\ Meet({x}, "ignored")
        /\ UNCHANGED <<span, running, pc>>
     \/ /\ pc[t] = "idle" /\ running /\ pc[Flusher] = "none" /\ StartMayFail
        /\ running' = FALSE
        /\ Meet({x}, "ignored")
        /\ UNCHANGED <<span, pc>>
  /\ UNCHANGED <<data, event, due, pid, envelopes, inherited>>

(* What makes a bucket worth an envelope of its own.                       *)
Enough(spans, bytes, x) ==
  x \in Segments \/ Len(spans) >= MaxBeforeFlush \/ bytes >= MaxBytesBeforeFlush

(* add() with the lock.                                                    *)
AppendUpTo(t, limit) ==
  /\ pc[t] = "append"
  /\ LET x == span[t]
         tr == TraceOf[x]
         bytes == size[tr] + SizeOf[x]
         spans == Append(bucket[tr], x)
         room == Len(bucket[tr]) < limit
     IN \/ /\ room
           /\ bucket' = [bucket EXCEPT ![tr] = spans]
           /\ older' = IF tr \in Keys THEN older ELSE [older EXCEPT ![tr] = Keys]
           /\ size' = [size EXCEPT ![tr] = bytes]
           /\ pending' = IF Enough(spans, bytes, x) THEN pending \cup {tr} ELSE pending
           /\ left' = IF Enough(spans, bytes, x) THEN left \ {tr} ELSE left
           /\ Goto(t, IF Enough(spans, bytes, x) THEN "notify" ELSE "idle")
           /\ UNCHANGED outcome
        \/ /\ ~room
           /\ Meet({x}, "lost")
           /\ Goto(t, "idle")
           /\ UNCHANGED data
  /\ span' = [span EXCEPT ![t] = None]
  /\ UNCHANGED <<event, running, due, pid, envelopes, past>>

AppendTooMany(t) == AppendUpTo(t, MaxBeforeDrop + 1)   \* seeded bug
AppendSpan(t) == AppendUpTo(t, MaxBeforeDrop)

(* _flush_event.set(), after the lock.                                     *)
Notify(t) ==
  /\ pc[t] = "notify"
  /\ event' = TRUE
  /\ Goto(t, "idle")
  /\ UNCHANGED <<data, running, due, pid, span, envelopes, outcome, past>>

-----------------------------------------------------------------------------
Flush(t) ==
  /\ t \in Threads /\ pc[t] = "idle"
  /\ Goto(t, "flush")
  /\ UNCHANGED <<data, event, running, due, pid, span, envelopes, outcome, past>>

(* Slices of a bucket, MaxEnvelopeSize spans at most.                      *)
SlicesOf(spans, most) ==
  {{spans[j] : j \in {k \in DOMAIN spans : k > start /\ k <= start + most}} :
     start \in {s \in 0..Len(spans) - 1 : s % MaxEnvelopeSize = 0}}
SlicesOverlap(spans) == SlicesOf(spans, MaxEnvelopeSize + 1)   \* seeded bug
Slices(spans) == SlicesOf(spans, MaxEnvelopeSize)

Bad == {tr \in Traces : Members(bucket[tr]) \cap Poison # {}}

(* The buckets that may be serialized and deleted before one that raises:  *)
(* pending ones come in the order of a set, all of them in that of a dict. *)
Deletable(ids) ==
  IF ids \cap Bad = {} THEN {ids} ELSE SUBSET (ids \ Bad)
Preceding == {tr \in Keys \ Bad : older[tr] \cap Bad = {}}

Zeroed(deleted) == [tr \in Traces |-> IF tr \in deleted THEN 0 ELSE size[tr]]

(* _flush with the lock.  An exception leaves this bucket and the rest     *)
(* where they are, and the envelopes built so far go nowhere.              *)
FlushTo(t, deleted, failed, point, stillPending, sizes) ==
  /\ bucket' = [tr \in Traces |-> IF tr \in deleted THEN <<>> ELSE bucket[tr]]
  /\ size' = sizes
  /\ older' = [tr \in Traces |-> IF tr \in deleted THEN {} ELSE older[tr] \ deleted]
  /\ left' = IF failed THEN (left \cup pending) \ deleted ELSE left \ deleted
  /\ pending' = stillPending
  /\ \/ /\ ~failed
        /\ envelopes' = [envelopes EXCEPT ![t] =
                           UNION {Slices(bucket[tr]) : tr \in deleted}]
        /\ Goto(t, point)
        /\ UNCHANGED outcome
     \/ /\ failed
        /\ Meet(UNION {Members(bucket[tr]) : tr \in deleted}, "vanished")
        /\ Goto(t, IF t = Flusher THEN "wait" ELSE "idle")
        /\ UNCHANGED envelopes
  /\ UNCHANGED <<event, running, due, pid, span, past>>

FlushKeepsSizes(t, deleted, failed, point) ==          \* seeded bug
  FlushTo(t, deleted, failed, point, {}, size)
FlushBuckets(t, deleted, failed, point) ==
  FlushTo(t, deleted, failed, point, {}, Zeroed(deleted))

FlushAll(t) == FlushBuckets(t, Preceding, Preceding # Keys, "capture")

FlushFromThread(t) == pc[t] = "flush" /\ FlushAll(t)

(* _capture_func, one envelope after the other.  If it raises, the others  *)
(* are forgotten with it.                                                  *)
CaptureAt(t, point, next, failure, stillDue) ==
  /\ pc[t] = point
  /\ \/ /\ envelopes[t] = {}
        /\ Goto(t, next)
        /\ due' = stillDue
        /\ UNCHANGED <<envelopes, outcome>>
     \/ \E e \in envelopes[t] :
          /\ envelopes' = [envelopes EXCEPT ![t] = @ \ {e}]
          /\ Meet(e, "captured")
          /\ UNCHANGED <<pc, due>>
     \/ /\ envelopes[t] # {} /\ CaptureMayFail
        /\ Meet(UNION envelopes[t], "vanished")
        /\ envelopes' = [envelopes EXCEPT ![t] = {}]
        /\ Goto(t, failure)
        /\ UNCHANGED due
  /\ UNCHANGED <<data, event, running, pid, span, past>>

CaptureFromThread(t) ==
  t \in Threads /\ CaptureAt(t, "capture", "idle", "idle", due)

-----------------------------------------------------------------------------
(* _flush_loop, whose wait() may end at any moment.                        *)
WaitUntil(over) ==
  /\ pc[Flusher] = "wait" /\ over
  /\ Goto(Flusher, IF running THEN "clear" ELSE "dead")
  /\ UNCHANGED <<data, event, running, due, pid, span, envelopes, outcome, past>>

WaitForEvent == WaitUntil(event)                       \* seeded bug
Wait == WaitUntil(TRUE)

Clear ==
  /\ pc[Flusher] = "clear"
  /\ event' = FALSE
  /\ Goto(Flusher, "pending")
  /\ UNCHANGED <<data, running, due, pid, span, envelopes, outcome, past>>

FlushPendingFrom(ids, stillPending) ==
  /\ pc[Flusher] = "pending"
  /\ \E deleted \in Deletable(ids) :
       FlushTo(Flusher, deleted, ids \cap Bad # {}, "sendpending", stillPending,
               Zeroed(deleted))

FlushPendingKeeps == FlushPendingFrom(pending, pending \cap Bad)   \* seeded bug
FlushPendingOne ==                                     \* seeded bug
  IF pending = {} THEN FlushPendingFrom({}, {})
  ELSE \E tr \in pending : FlushPendingFrom({tr}, {})
FlushPending ==
  /\ pc[Flusher] = "pending"
  /\ \E deleted \in Deletable(pending) :
       FlushBuckets(Flusher, deleted, pending \cap Bad # {}, "sendpending")

(* The capture of pending buckets, and then the test of the time.          *)
CapturePending ==
  CaptureAt(Flusher, "sendpending", IF due THEN "full" ELSE "wait", "wait", due)

FlushFull == pc[Flusher] = "full" /\ FlushAll(Flusher)

(* _last_full_flush is set only if nothing raised.                         *)
CaptureFull == CaptureAt(Flusher, "capture", "wait", "wait", FALSE)

Tick ==
  /\ ~due /\ due' = TRUE
  /\ UNCHANGED <<data, event, running, pid, pc, span, envelopes, outcome, past>>

-----------------------------------------------------------------------------
Kill(t) ==
  /\ t \in Threads /\ pc[t] = "idle"
  /\ running /\ pc[Flusher] \notin {"none"}
  /\ running' = FALSE /\ event' = TRUE
  /\ UNCHANGED <<data, due, pid, pc, span, envelopes, outcome, past>>

(* os.fork() in t, and _reset_thread_state in the child.                   *)
ForkKeeping(t, b, o, s) ==
  /\ t \in Threads /\ pc[t] = "idle"
  /\ pid < MaxForks /\ pid' = pid + 1
  /\ inherited' = added
  /\ bucket' = b /\ older' = o /\ size' = s
  /\ pending' = {} /\ left' = {} /\ event' = FALSE /\ running' = TRUE /\ due' = FALSE
  /\ pc' = [u \in Actors |-> IF u = t THEN "idle" ELSE IF u = Flusher THEN "none" ELSE "gone"]
  /\ span' = [u \in Actors |-> None] /\ envelopes' = [u \in Actors |-> {}]
  /\ outcome' = [x \in Spans |-> {}]
  /\ UNCHANGED added

ForkKeepsSpans(t) == ForkKeeping(t, bucket, older, size)   \* seeded bug
Fork(t) == ForkKeeping(t, NoSpans, NoOlder, NoSizes)

ThreadStep(t) ==
  AppendSpan(t) \/ Notify(t) \/ FlushFromThread(t) \/ CaptureFromThread(t)
FlusherStep ==
  Wait \/ Clear \/ FlushPending \/ CapturePending \/ FlushFull \/ CaptureFull

Next ==
  \/ \E t \in Threads : ThreadStep(t) \/ Flush(t) \/ Kill(t) \/ Fork(t)
  \/ \E t \in Actors, x \in Spans : Add(t, x)
  \/ FlusherStep
  \/ Tick

Spec == Init /\ [][Next]_vars

(* Threads run, and time passes.  Calls are not fair.                      *)
Fairness == /\ \A t \in Threads : WF_vars(ThreadStep(t))
            /\ WF_vars(FlusherStep) /\ WF_vars(Tick)

FairSpec == Spec /\ Fairness

-----------------------------------------------------------------------------
(* Every span is in one place or has met one outcome: none is in two       *)
(* envelopes, or sent and reported as lost; those that an exception took   *)
(* have vanished (_span_batcher.py:127-151, 185-244).                      *)
Places(x) ==
  Cardinality({tr \in Traces : x \in Members(bucket[tr])})
    + Cardinality({t \in Actors : span[t] = x})
    + Cardinality(UNION {{<<t, e>> : e \in {f \in envelopes[t] : x \in f}} : t \in Actors})
Conservation ==
  \A x \in added \ inherited : Places(x) + Cardinality(outcome[x]) = 1

(* "Spans from different traces cannot be emitted in the same envelope",   *)
(* "Max per envelope is 1000" (_span_batcher.py:45-48, 207-210).           *)
EnvelopesFit ==
  \A t \in Actors : \A e \in envelopes[t] :
    /\ Cardinality(e) \in 1..MaxEnvelopeSize
    /\ Cardinality({TraceOf[x] : x \in e}) = 1

(* The running size that triggers a flush is that of the spans in the      *)
(* bucket, however buckets come and go (_span_batcher.py:138-144, 240-241).*)
Bytes(spans) ==
  LET upTo[n \in 0..Len(spans)] == IF n = 0 THEN 0 ELSE upTo[n - 1] + SizeOf[spans[n]]
  IN upTo[Len(spans)]
SizesExact == \A tr \in Traces : size[tr] = Bytes(bucket[tr])

(* What is measured fits: buckets their sizes, envelopes their limit       *)
(* (_span_batcher.py:138-144, 207-210, 240-241).                           *)
SizesFit == EnvelopesFit /\ SizesExact

(* A bucket that has its segment or is large enough is to be flushed by    *)
(* the next wake-up, except one that a failed flush has left: its mark was *)
(* cleared before (_span_batcher.py:140-146, 186-193).                     *)
Triggered(tr) ==
  \/ Members(bucket[tr]) \cap Segments # {}
  \/ Len(bucket[tr]) >= MaxBeforeFlush
  \/ size[tr] >= MaxBytesBeforeFlush /\ bucket[tr] # <<>>
TriggeredPending == \A tr \in Traces : Triggered(tr) => tr \in pending \cup left

(* A pending bucket does not wait for the flusher's timeout: the event is  *)
(* set, or about to be, or the flusher is on its way, although the mark is *)
(* made under the lock and the event set after it (_span_batcher.py:95-    *)
(* 103, 146-152).                                                          *)
PendingWakes ==
  running /\ pending # {} =>
    event \/ \E t \in Actors : pc[t] \in {"notify", "clear", "pending"}

(* A bucket that has reached a limit is marked, and the mark is seen       *)
(* (_span_batcher.py:95-103, 140-152).                                     *)
FullBucketWakes == TriggeredPending /\ PendingWakes

(* A child process never delivers what its parent had buffered or was      *)
(* about to send (_span_batcher.py:76-89).                                 *)
NotDeliveredTwice == \A x \in inherited : outcome[x] = {}

(* Every span is accounted for once, in the process it belongs to          *)
(* (_span_batcher.py:76-89, 127-151, 185-244).                             *)
SpansConserved == TypeOK /\ Conservation /\ NotDeliveredTwice

(* While the batcher runs, every span leaves the buffer, also one that     *)
(* triggers nothing (_span_batcher.py:91-110); unless a bucket cannot be   *)
(* serialized, which no full flush gets past.                              *)
SpansDrain ==
  \A x \in Spans : x \in Buffered ~> x \notin Buffered \/ ~running \/ Bad # {}
=============================================================================

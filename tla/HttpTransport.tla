----------------------------- MODULE HttpTransport -----------------------------
(***************************************************************************)
(* sentry_sdk/transport.py, BaseHttpTransport: envelopes are captured by   *)
(* application threads, sent by the worker thread, and dropped when the    *)
(* queue is full, a rate limit applies or the request fails.  What is      *)
(* dropped is counted in _discarded_events; from time to time the worker   *)
(* swaps that dictionary for an empty one and sends what it held as a      *)
(* client report, attached to an envelope or in an envelope of its own.    *)
(*                                                                         *)
(* A counter is the set of the losses counted in it, so that one which is  *)
(* overwritten, or counted twice, can be told.  "counter += n" is not      *)
(* locked: an interpreter may run it as one step, or not.  Reports that    *)
(* are dropped are counted too, in a category of their own, which is left  *)
(* out.  The queue and its worker thread are those of BackgroundWorker     *)
(* while nobody kills it.                                                  *)
(***************************************************************************)
EXTENDS Naturals, Sequences, FiniteSets

CONSTANTS Apps,           \* application threads
          Worker,         \* the worker thread
          Items,          \* envelope items, and events dropped before they are one
          Envelopes,      \* sets of items
          Categories,     \* data categories
          All,            \* the None key of _disabled_until: every category
          Category,       \* the data category of an item
          CountedAs,      \* the categories its loss is counted in
          Headers,        \* the sets of keys that a response can limit
          QueueSize,
          MaxFlushes,
          None,
          AtomicCount,    \* can "counter += n" be one step?  a set of answers
          SendMayFail     \* can serializing an envelope raise?

Loss == UNION {{<<x, c>> : c \in CountedAs[x]} : x \in Items}

ASSUME ItemTypes == /\ Category \in [Items -> Categories]
                    /\ CountedAs \in [Items -> SUBSET Categories]
                    /\ IsFiniteSet(Items) /\ IsFiniteSet(Categories)
ASSUME Disjoint == /\ Envelopes \subseteq SUBSET Items /\ {} \notin Envelopes
                   /\ \A e, f \in Envelopes : e = f \/ e \cap f = {}
ASSUME Apart == All \notin Categories /\ Worker \notin Apps
ASSUME HeaderType == Headers \subseteq SUBSET (Categories \cup {All})
ASSUME Bounds == QueueSize \in Nat \ {0} /\ MaxFlushes \in Nat
ASSUME Flags == AtomicCount \subseteq BOOLEAN /\ SendMayFail \in BOOLEAN

Actors == Apps \cup {Worker}

(* A client report lists categories and what was counted in each.  What    *)
(* the worker is asked to do: send an envelope of items and of the entries *)
(* of its client reports, or fetch a report.                               *)
Entry == Categories \X SUBSET Loss
Jobs == [kind : {"send", "report"}, items : SUBSET Items, report : SUBSET Entry]
Send(xs, entries) == [kind |-> "send", items |-> xs, report |-> entries]
Report == [kind |-> "report", items |-> {}, report |-> {}]

(* A thread in the middle of an increment: what it counts, in which of the *)
(* dictionaries, and the value it has read.                                *)
Regs == [loss : Loss, dict : {"current", "swapped", "gone"}, seen : {None} \cup SUBSET Loss]
Dicts == UNION {[D -> SUBSET Loss] : D \in SUBSET Categories}

ASSUME NoneIsNone == None \notin Regs /\ \A seen \in SUBSET Loss : seen # None

VARIABLES
  queue,      \* the worker's queue
  wpc,        \* where the worker thread is in its job
  job,        \* that job
  disabled,   \* the keys of _disabled_until whose time has not come
  atomic,     \* is "counter += n" one step?
  counts,     \* _discarded_events: for its keys, the losses counted
  swapped,    \* the dictionary that the worker makes a report of
  todo,       \* per thread, the losses it has yet to count
  reg,        \* per thread, the increment it is in the middle of
  apc,        \* application threads in flush()
  captured,   \* the items captured or discarded so far
  fate,       \* per item, what became of it
  recorded,   \* losses that were counted
  delivered,  \* losses in reports that reached the server
  spilled,    \* losses in reports that did not
  before,     \* per thread in flush(), the losses counted before the call
  asked,      \* was its report job accepted?
  flushes     \* calls so far

workerState == <<wpc, job>>
counters    == <<atomic, counts, swapped, reg, recorded>>
flushState  == <<apc, before, asked, flushes>>
reports     == <<delivered, spilled>>
vars == <<queue, workerState, disabled, counters, todo, flushState, captured, fate, reports>>

Fates == {"accepted",   \* by the server
          "refused",    \* with 429: the server counts it
          "lost",       \* counted here
          "vanished"}   \* an exception ended the job

TypeOK ==
  /\ queue \in Seq(Jobs) /\ Len(queue) <= QueueSize
  /\ wpc \in {"idle", "prepare", "attach", "build", "serialize", "request",
              "reports", "submit"}
  /\ job \in Jobs
  /\ disabled \subseteq Categories \cup {All}
  /\ atomic \in BOOLEAN
  /\ counts \in Dicts /\ swapped \in Dicts
  /\ todo \in [Actors -> SUBSET Loss]
  /\ reg \in [Actors -> Regs \cup {None}]
  /\ \A a \in Actors : reg[a] # None => reg[a].loss \in todo[a]
  /\ apc \in [Apps -> {"idle", "flush"}]
  /\ captured \subseteq Items /\ fate \in [Items -> SUBSET Fates]
  /\ recorded \subseteq Loss /\ delivered \subseteq Loss /\ spilled \subseteq Loss
  /\ before \in [Apps -> SUBSET Loss] /\ asked \in [Apps -> BOOLEAN]
  /\ flushes \in 0..MaxFlushes

Empty == [c \in {} |-> {}]

Init ==
  /\ queue = <<>> /\ wpc = "idle" /\ job = Report
  /\ disabled = {}
  /\ atomic \in AtomicCount
  /\ counts = Empty /\ swapped = Empty
  /\ todo = [a \in Actors |-> {}] /\ reg = [a \in Actors |-> None]
  /\ apc = [a \in Apps |-> "idle"]
  /\ captured = {} /\ fate = [x \in Items |-> {}]
  /\ recorded = {} /\ delivered = {} /\ spilled = {}
  /\ before = [a \in Apps |-> {}] /\ asked = [a \in Apps |-> FALSE]
  /\ flushes = 0

Room == Len(queue) < QueueSize
LossesOf(xs) == {l \in Loss : l[1] \in xs}
Value(dict, c) == IF c \in DOMAIN dict THEN dict[c] ELSE {}
Put(dict, c, v) == [k \in DOMAIN dict \cup {c} |-> IF k = c THEN v ELSE dict[k]]
Counted(dict) == UNION {dict[c] : c \in DOMAIN dict}
Entries(dict) == {<<c, dict[c]>> : c \in DOMAIN dict}
Listed(report) == UNION {entry[2] : entry \in report}
Met(xs, f) == [x \in Items |-> IF x \in xs THEN fate[x] \cup {f} ELSE fate[x]]

-----------------------------------------------------------------------------
(* record_lost_event: `xs` are lost, and a will count them, one counter    *)
(* after the other.                                                        *)
Lose(a, xs) ==
  /\ todo' = [todo EXCEPT ![a] = LossesOf(xs)]
  /\ fate' = Met(xs, "lost")

Nothing(a) == todo[a] = {}

(* "self._discarded_events[data_category, reason] += quantity" loads the   *)
(* dictionary ...                                                          *)
CountLoad(a, l) ==
  /\ ~atomic
  /\ l \in todo[a] /\ reg[a] = None
  /\ reg' = [reg EXCEPT ![a] = [loss |-> l, dict |-> "current", seen |-> None]]
  /\ UNCHANGED <<queue, workerState, disabled, atomic, counts, swapped, recorded,
                 todo, flushState, captured, fate, reports>>

(* One step on the dictionary that was loaded: by now it may be the one    *)
(* that a report is made of, or no longer in use.                          *)
Update(a, c, v) ==
  /\ counts'  = IF reg[a].dict = "current" THEN Put(counts, c, v) ELSE counts
  /\ swapped' = IF reg[a].dict = "swapped" THEN Put(swapped, c, v) ELSE swapped

(* ... reads the counter, which adds a missing key with a 0 ...            *)
CountRead(a) ==
  /\ reg[a] # None /\ reg[a].seen = None
  /\ LET c == reg[a].loss[2]
         v == CASE reg[a].dict = "current" -> Value(counts, c)
                [] reg[a].dict = "swapped" -> Value(swapped, c)
                [] reg[a].dict = "gone"    -> {}
     IN Update(a, c, v) /\ reg' = [reg EXCEPT ![a].seen = v]
  /\ UNCHANGED <<queue, workerState, disabled, atomic, recorded, todo, flushState,
                 captured, fate, reports>>

(* ... and writes it back.                                                 *)
CountWrite(a) ==
  /\ reg[a] # None /\ reg[a].seen # None
  /\ Update(a, reg[a].loss[2], reg[a].seen \cup {reg[a].loss})
  /\ recorded' = recorded \cup {reg[a].loss}
  /\ todo' = [todo EXCEPT ![a] = @ \ {reg[a].loss}]
  /\ reg' = [reg EXCEPT ![a] = None]
  /\ UNCHANGED <<queue, workerState, disabled, atomic, flushState, captured, fate, reports>>

Increment(a, l) ==
  /\ atomic
  /\ l \in todo[a]
  /\ counts' = Put(counts, l[2], Value(counts, l[2]) \cup {l})
  /\ recorded' = recorded \cup {l}
  /\ todo' = [todo EXCEPT ![a] = @ \ {l}]
  /\ UNCHANGED <<queue, workerState, disabled, atomic, swapped, reg, flushState,
                 captured, fate, reports>>

-----------------------------------------------------------------------------
(* Seeded bug: the queue is not bounded.                                   *)
CaptureUnbounded(a, e) ==
  /\ apc[a] = "idle" /\ Nothing(a)
  /\ e \cap captured = {} /\ captured' = captured \cup e
  /\ queue' = Append(queue, Send(e, {}))
  /\ UNCHANGED <<workerState, disabled, counters, todo, fate, flushState, reports>>

(* capture_envelope(): submit(), or count every item as queue_overflow.    *)
Capture(a, e) ==
  /\ apc[a] = "idle" /\ Nothing(a)
  /\ e \cap captured = {} /\ captured' = captured \cup e
  /\ \/ /\ Room
        /\ queue' = Append(queue, Send(e, {}))
        /\ UNCHANGED <<todo, fate>>
     \/ /\ ~Room
        /\ Lose(a, e)
        /\ UNCHANGED queue
  /\ UNCHANGED <<workerState, disabled, counters, flushState, reports>>

(* An event that is not to be sent (sampled out, say) is counted at once.  *)
Discard(a, x) ==
  /\ apc[a] = "idle" /\ Nothing(a)
  /\ x \notin captured \cup UNION Envelopes /\ captured' = captured \cup {x}
  /\ Lose(a, {x})
  /\ UNCHANGED <<queue, workerState, disabled, counters, flushState, reports>>

(* flush(): a job that fetches a report whatever the interval, if there is *)
(* room for it, and the worker's flush().                                  *)
Flush(a) ==
  /\ apc[a] = "idle" /\ Nothing(a)
  /\ flushes < MaxFlushes /\ flushes' = flushes + 1
  /\ queue' = IF Room THEN Append(queue, Report) ELSE queue
  /\ asked' = [asked EXCEPT ![a] = Room]
  /\ before' = [before EXCEPT ![a] = recorded]
  /\ apc' = [apc EXCEPT ![a] = "flush"]
  /\ UNCHANGED <<workerState, disabled, counters, todo, captured, fate, reports>>

Drained == queue = <<>> /\ wpc = "idle" /\ Nothing(Worker)

(* The worker's flush ends because nothing is left, or by its timeout.     *)
FlushReturn(a) ==
  /\ apc[a] = "flush"
  /\ apc' = [apc EXCEPT ![a] = "idle"]
  /\ before' = [before EXCEPT ![a] = {}] /\ asked' = [asked EXCEPT ![a] = FALSE]
  /\ UNCHANGED <<queue, workerState, disabled, counters, todo, captured, fate, reports,
                 flushes>>

-----------------------------------------------------------------------------
(* The worker between two things it does: nothing left to count.           *)
AtWork(point) == wpc = point /\ Nothing(Worker)
Go(point) == wpc' = point

GetJob ==
  /\ AtWork("idle") /\ queue # <<>>
  /\ job' = Head(queue) /\ queue' = Tail(queue)
  /\ Go(IF Head(queue).kind = "send" THEN "prepare" ELSE "reports")
  /\ UNCHANGED <<disabled, counters, todo, flushState, captured, fate, reports>>

Finish == Go("idle") /\ job' = Report

(* An exception on the way: swallowed by capture_internal_exceptions or by *)
(* _target, and the items and reports of the job go with it.               *)
Abandon ==
  /\ Finish
  /\ fate' = Met(job.items, "vanished")

(* Seeded bug: the limit on every category is not looked up.               *)
IsDisabledAlone(c) == c \in disabled

IsDisabled(c) == {c, All} \cap disabled # {}

(* Seeded bug: items over quota are counted, and sent.                     *)
PrepareKeeps ==
  /\ AtWork("prepare")
  /\ Lose(Worker, {x \in job.items : IsDisabled(Category[x])})
  /\ Go("attach")
  /\ UNCHANGED <<queue, job, disabled, counters, flushState, captured, reports>>

(* _prepare_envelope: items over quota are counted as ratelimit_backoff.   *)
(* A client report has a category of its own, which only All disables.     *)
Prepare ==
  /\ AtWork("prepare")
  /\ LET over == {x \in job.items : IsDisabled(Category[x])}
         kept == Send(job.items \ over, IF All \in disabled THEN {} ELSE job.report)
     IN /\ Lose(Worker, over)
        /\ spilled' = spilled \cup Listed(job.report \ kept.report)
        /\ IF kept = Send({}, {}) THEN job' = Send({}, {}) /\ Go("reports")
           ELSE job' = kept /\ Go("attach")
  /\ UNCHANGED <<queue, disabled, counters, flushState, captured, delivered>>

(* Seeded bug: the dictionary is copied and cleared.                       *)
SwapInPlace ==
  /\ swapped' = counts /\ counts' = Empty
  /\ UNCHANGED <<atomic, reg, recorded>>

(* Seeded bug: the new dictionary is taken for the old one.                *)
SwapLate ==
  /\ swapped' = Empty /\ counts' = Empty
  /\ UNCHANGED <<atomic, reg, recorded>>

(* _fetch_pending_client_report puts an empty dictionary in place of the   *)
(* one there is, unless the interval has not passed and force is not set.  *)
Swap ==
  /\ swapped' = counts /\ counts' = Empty
  /\ reg' = [a \in Actors |-> IF reg[a] # None /\ reg[a].dict = "current"
                              THEN [reg[a] EXCEPT !.dict = "swapped"] ELSE reg[a]]
  /\ UNCHANGED <<atomic, recorded>>

(* The worker is done with it; what is written to it later is lost.        *)
Detach ==
  /\ swapped' = Empty
  /\ reg' = [a \in Actors |-> IF reg[a] # None /\ reg[a].dict = "swapped"
                              THEN [reg[a] EXCEPT !.dict = "gone"] ELSE reg[a]]
  /\ UNCHANGED <<atomic, counts, recorded>>

(* The fetch in _prepare_envelope, for the envelope at hand.               *)
Attach ==
  /\ AtWork("attach")
  /\ \/ /\ Swap
        /\ Go("build")
     \/ /\ Go("serialize")
        /\ UNCHANGED counters
  /\ UNCHANGED <<queue, job, disabled, todo, flushState, captured, fate, reports>>

(* Seeded bug: flush() does not force the report.                          *)
FetchReportUnforced ==
  /\ AtWork("reports")
  /\ \/ /\ Swap
        /\ job' = [job EXCEPT !.kind = "report"]
        /\ Go("build")
     \/ /\ Finish
        /\ UNCHANGED counters
  /\ UNCHANGED <<queue, disabled, todo, flushState, captured, fate, reports>>

(* The fetch in _flush_client_reports, after an envelope was sent, or      *)
(* forced by flush().                                                      *)
FetchReport ==
  /\ AtWork("reports")
  /\ \/ /\ Swap
        /\ job' = [job EXCEPT !.kind = "report"]
        /\ Go("build")
     \/ /\ job.kind = "send"
        /\ Finish
        /\ UNCHANGED counters
  /\ UNCHANGED <<queue, disabled, todo, flushState, captured, fate, reports>>

(* A key that another thread adds to the dictionary while the worker       *)
(* iterates over it makes the iteration raise.                             *)
IteratedWhileGrowing ==
  /\ swapped # Empty
  /\ \E a \in Apps : /\ reg[a] # None /\ reg[a].dict = "swapped" /\ reg[a].seen = None
                     /\ reg[a].loss[2] \notin DOMAIN swapped

(* The report is a list made of the dictionary, or None if that is empty.  *)
Build ==
  /\ wpc = "build"
  /\ Detach
  /\ \/ /\ job.kind = "send"
        /\ job' = [job EXCEPT !.report = @ \cup Entries(swapped)]
        /\ Go("serialize")
        /\ UNCHANGED <<spilled, fate>>
     \/ /\ job.kind = "report"
        /\ IF swapped = Empty THEN Finish
           ELSE Go("submit") /\ job' = [job EXCEPT !.report = Entries(swapped)]
        /\ UNCHANGED <<spilled, fate>>
     \/ /\ IteratedWhileGrowing
        /\ spilled' = spilled \cup Counted(swapped) \cup Listed(job.report)
        /\ Abandon
  /\ UNCHANGED <<queue, disabled, todo, flushState, captured, delivered>>

(* capture_envelope() by the worker, of an envelope with just the report.  *)
SubmitReport ==
  /\ wpc = "submit"
  /\ \/ /\ Room
        /\ queue' = Append(queue, Send({}, job.report))
        /\ UNCHANGED spilled
     \/ /\ ~Room
        /\ spilled' = spilled \cup Listed(job.report)
        /\ UNCHANGED queue
  /\ Finish
  /\ UNCHANGED <<disabled, counters, todo, flushState, captured, fate, delivered>>

Serialize ==
  /\ wpc = "serialize"
  /\ \/ /\ Go("request")
        /\ UNCHANGED <<job, spilled, fate>>
     \/ /\ SendMayFail
        /\ spilled' = spilled \cup Listed(job.report)
        /\ Abandon
  /\ UNCHANGED <<queue, disabled, counters, todo, flushState, captured, delivered>>

(* The request raises, perhaps after the server has got the envelope:      *)
(* network_error for every item, and the exception ends the job.           *)
RequestFails ==
  /\ wpc = "request"
  /\ Lose(Worker, job.items)
  /\ spilled' = spilled \cup Listed(job.report)
  /\ Finish
  /\ UNCHANGED <<queue, disabled, counters, flushState, captured, delivered>>

(* _update_rate_limits: a header with limits, of whatever status, or else  *)
(* a global limit with a 429.                                              *)
Limits(status, header) ==
  disabled' = disabled \cup (IF header # {} THEN header
                            ELSE IF status = "429" THEN {All} ELSE {})

(* _handle_response.  413 and the other errors count the items as lost; a  *)
(* 429 does not, since the server has counted them.                        *)
Respond(status, header) ==
  /\ wpc = "request"
  /\ Limits(status, header)
  /\ \/ /\ status = "200"
        /\ fate' = Met(job.items, "accepted")
        /\ delivered' = delivered \cup Listed(job.report)
        /\ UNCHANGED <<todo, spilled>>
     \/ /\ status = "429"
        /\ fate' = Met(job.items, "refused")
        /\ spilled' = spilled \cup Listed(job.report)
        /\ UNCHANGED <<todo, delivered>>
     \/ /\ status = "500"
        /\ Lose(Worker, job.items)
        /\ spilled' = spilled \cup Listed(job.report)
        /\ UNCHANGED delivered
  /\ job' = Send({}, {})
  /\ Go("reports")
  /\ UNCHANGED <<queue, counters, flushState, captured>>

(* The time of a limit comes.                                              *)
Expire(b) ==
  /\ b \in disabled
  /\ disabled' = disabled \ {b}
  /\ UNCHANGED <<queue, workerState, counters, todo, flushState, captured, fate, reports>>

WorkerStep ==
  \/ GetJob    \/ Prepare      \/ Attach    \/ FetchReport  \/ Build
  \/ Serialize \/ SubmitReport \/ RequestFails
  \/ \E status \in {"200", "429", "500"}, header \in Headers :
       Respond(status, header)

Next ==
  \/ WorkerStep
  \/ \E a \in Actors : \/ CountRead(a) \/ CountWrite(a)
                       \/ \E l \in todo[a] : CountLoad(a, l) \/ Increment(a, l)
  \/ \E a \in Apps : \/ Flush(a) \/ FlushReturn(a)
                     \/ \E e \in Envelopes : Capture(a, e)
                     \/ \E x \in Items : Discard(a, x)
  \/ \E b \in Categories \cup {All} : Expire(b)

Spec == Init /\ [][Next]_vars

-----------------------------------------------------------------------------
(* Where a counted loss is: still counted, in a report, or past one.       *)
Places(l) ==
  {p \in {"counts", "swapped", "job", "delivered", "spilled"} :
     l \in CASE p = "counts"    -> Counted(counts)
            [] p = "swapped"   -> Counted(swapped)
            [] p = "job"       -> Listed(job.report)
            [] p = "delivered" -> delivered
            [] p = "spilled"   -> spilled}
QueuedReports(l) == {i \in DOMAIN queue : l \in Listed(queue[i].report)}

(* A loss is reported once at most, although counters are written back     *)
(* late, into dictionaries that have been swapped (transport.py:331,       *)
(* 442-463).                                                               *)
ReportedOnce == \A l \in Loss : Cardinality(Places(l)) + Cardinality(QueuedReports(l)) <= 1

(* "This increments a counter for event loss by reason and data category"  *)
(* (transport.py:176): a loss that was counted stays counted until it is   *)
(* put into a report, and is in that report until this is sent or lost.    *)
LossesCounted == \A l \in recorded : Places(l) # {} \/ QueuedReports(l) # {}

(* Where an increment is one step, that holds (transport.py:331, 442-463). *)
CountsConserved == atomic => LossesCounted

(* Every counted loss is in one place, or has been reported or given up    *)
(* with its report, and where increments are atomic in no fewer            *)
(* (transport.py:331, 442-463).                                            *)
CountedOnce == TypeOK /\ ReportedOnce /\ CountsConserved

(* An item that was captured is on its way or has one fate: nothing counts *)
(* an item as lost that the server accepted or has counted itself, or that *)
(* will still be sent, and none disappears without an exception            *)
(* (transport.py:363-417, 483-498, 661-716).                               *)
OnItsWay(x) ==
  x \in job.items \/ \E i \in DOMAIN queue : x \in queue[i].items
OneFate ==
  \A x \in captured : Cardinality(fate[x]) = (IF OnItsWay(x) THEN 0 ELSE 1)

(* No item leaves in a category that a response has disabled, and nothing  *)
(* leaves while every category is (transport.py:338-361, 465-498).         *)
RespectsLimits ==
  wpc = "request" => /\ \A x \in job.items : ~IsDisabled(Category[x])
                     /\ All \notin disabled

(* An item has one fate, and it is not sent against a limit                *)
(* (transport.py:338-417, 465-498, 661-716).                               *)
OneRightFate == OneFate /\ RespectsLimits

(* flush() that ends because nothing is left, its job accepted, leaves     *)
(* nothing in the counters that was counted before it (transport.py:699-   *)
(* 702, 718-727).                                                          *)
FlushReports ==
  [][\A a \in Apps :
       apc[a] = "flush" /\ apc'[a] = "idle" /\ Drained /\ asked[a]
         => before[a] \cap Counted(counts) = {}]_vars
=============================================================================

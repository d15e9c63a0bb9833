---------------------------- MODULE EventPipeline ----------------------------
(***************************************************************************)
(* From a capture call to the envelope: sentry_sdk/scope.py (capture_event,*)
(* apply_to_event and the processors), client.py (capture_event,           *)
(* _prepare_event, _capture_telemetry), tracing.py (the transaction, which *)
(* becomes an event when it is finished) and integrations/dedupe.py.       *)
(*                                                                         *)
(* An item goes through the stages one by one, in the thread that captured *)
(* it.  A stage that runs a callback of the user may drop the item, change *)
(* the number of a transaction's spans, or capture another item: then the  *)
(* thread has two on its stack.  Other threads start and finish the spans  *)
(* of a transaction meanwhile, or close the client; the recorder of these  *)
(* spans has no lock.  An item is either given to the transport or a       *)
(* batcher, or reported lost to the transport.                             *)
(***************************************************************************)
EXTENDS Naturals, FiniteSets, Sequences

CONSTANTS Threads, Items,
          Exceptions,    \* the exceptions that can be captured
          MaxSpans,      \* max_spans, of the recorder of a transaction
          MaxStarted,    \* spans that are started in a transaction
          MaxTransactions,
          MaxDepth,      \* captures inside of captures
          None

Kinds == {"error", "transaction", "check_in", "log", "span"}
Stages == {"new", "unsampled", "recording", "counted", "errors", "dedupe", "events",
           "before_send", "session", "sampler", "send", "use", "done"}
Fates == {"ignored", "unsampled", "status", "processor", "duplicate", "before_send",
          "sampler", "sent", "nowhere", "raised"}

ASSUME ThreadsFinite == IsFiniteSet(Threads) /\ Threads # {}
ASSUME NoneIsNone == None \notin Exceptions \cup Kinds \cup Fates
ASSUME Bounds == /\ {MaxSpans, MaxStarted, MaxTransactions} \subseteq Nat
                 /\ MaxDepth \in Nat \ {0}

VARIABLES
  kind, exc,     \* of an item, None before the call
  at,            \* the stage it has reached
  fate,          \* and how it ended there
  stack,         \* the items a thread is capturing, the innermost first
  spans,         \* those of a transaction, see NoSpans
  adding,        \* where a thread is in _SpanRecorder.add(), see Adding
  lost,          \* what was reported of an item: events, and spans
  lastSeen,      \* DedupeIntegration._last_seen, a ContextVar
  counted,       \* items that have been counted by a session
  transport      \* is client.transport set?

vars == <<kind, exc, at, fate, stack, spans, adding, lost, lastSeen, counted, transport>>

(* Of the spans in the recorder some are open and some finished; it was    *)
(* full for those over its maximum, and has counted that many as dropped,  *)
(* "raced" if two threads were counting at once; late ones came when it    *)
(* had been read.  The event has "sent" of them; callbacks have added some.*)
NoSpans == [open |-> 0, finished |-> 0, over |-> 0, dropped |-> 0, raced |-> FALSE,
            late |-> 0, sent |-> 0, added |-> 0]
SpanCounts == [open : Nat, finished : Nat, over : Nat, dropped : Nat, raced : BOOLEAN,
               late : Nat, sent : Nat, added : Nat]
Started(s) == s.open + s.finished + s.over + s.late

(* add() has tested the length: a span is to be appended to the recorder   *)
(* of an item, or its counter to be read; or it was read, and is to be set.*)
Adding == [step : {"append", "read", "write"}, to : Items, seen : Nat]
Idle == [step |-> "idle"]
IsAdding(t, e, steps) == adding[t].step \in steps /\ adding[t].to = e
Writers(e) == {t \in Threads : IsAdding(t, e, {"write"})}
Adders(e) == {t \in Threads : IsAdding(t, e, {"append", "read", "write"})}

TypeItems ==
  /\ kind \in [Items -> Kinds \cup {None}] /\ exc \in [Items -> Exceptions \cup {None}]
  /\ at \in [Items -> Stages] /\ fate \in [Items -> Fates \cup {None}]
  /\ stack \in [Threads -> Seq(Items)] /\ \A t \in Threads : Len(stack[t]) <= MaxDepth
  /\ spans \in [Items -> SpanCounts] /\ lost \in [Items -> [event : Nat, span : Nat]]
  /\ lastSeen \in [Threads -> Exceptions \cup {None}]
  /\ counted \subseteq Items /\ transport \in BOOLEAN
TypeOK == TypeItems /\ adding \in [Threads -> Adding \cup {Idle}]

Init ==
  /\ kind = [e \in Items |-> None] /\ exc = [e \in Items |-> None]
  /\ at = [e \in Items |-> "new"] /\ fate = [e \in Items |-> None]
  /\ stack = [t \in Threads |-> <<>>]
  /\ spans = [e \in Items |-> NoSpans] /\ adding = [t \in Threads |-> Idle]
  /\ lost = [e \in Items |-> [event |-> 0, span |-> 0]]
  /\ lastSeen = [t \in Threads |-> None]
  /\ counted = {} /\ transport = TRUE

-----------------------------------------------------------------------------
(* The user's code runs in a thread that captures nothing, and in a        *)
(* callback of the item it captures; in neither while it is in add().      *)
Callbacks == {"errors", "events", "before_send", "sampler"}
RunsUserCode(t) ==
  /\ adding[t] = Idle
  /\ IF stack[t] = <<>> THEN TRUE
     ELSE at[Head(stack[t])] \in Callbacks /\ Len(stack[t]) < MaxDepth

Capturing(t, e, stage) ==
  adding[t] = Idle /\ stack[t] # <<>> /\ Head(stack[t]) = e /\ at[e] = stage
Goto(e, stage) == at' = [at EXCEPT ![e] = stage] /\ UNCHANGED <<fate, stack>>
Push(t, e, stage) ==
  at' = [at EXCEPT ![e] = stage] /\ stack' = [stack EXCEPT ![t] = <<e>> \o @] /\ UNCHANGED fate
End(e, f) ==
  /\ at' = [at EXCEPT ![e] = "done"] /\ fate' = [fate EXCEPT ![e] = f]
  /\ stack' = [t \in Threads |-> IF stack[t] # <<>> /\ Head(stack[t]) = e
                                 THEN Tail(stack[t]) ELSE stack[t]]

(* record_lost_event(), for an event and a number of spans.                *)
Lose(e, events, n) ==
  lost' = IF transport
          THEN [lost EXCEPT ![e] = [event |-> @.event + events, span |-> @.span + n]]
          ELSE lost

IsTransaction(e) == kind[e] = "transaction"

-----------------------------------------------------------------------------
(* capture_exception(), capture_message(), capture_checkin(), and a log, a *)
(* metric or a streamed span: check-ins have no processors, and what goes  *)
(* to a batcher neither; what has no exception has no error processors.    *)
(* An error is ignored if an option or a context variable says so, and so  *)
(* is every event from a __repr__ that runs while another is serialized.   *)
FirstStage(k, x) ==
  IF k # "error" THEN "before_send" ELSE IF x = None THEN "events" ELSE "errors"
MayBeIgnored(k) == k \in {"error", "check_in"}

Capture(t, e, k, x) ==
  /\ RunsUserCode(t) /\ at[e] = "new" /\ k # "transaction"
  /\ k # "error" => x = None
  /\ kind' = [kind EXCEPT ![e] = k] /\ exc' = [exc EXCEPT ![e] = x]
  /\ \/ Push(t, e, FirstStage(k, x))
     \/ MayBeIgnored(k) /\ End(e, "ignored")
  /\ UNCHANGED <<spans, adding, lost, lastSeen, counted, transport>>

(* start_transaction(): only a sampled one records spans.                  *)
SamplingDecision(e) == Goto(e, "recording") \/ Goto(e, "unsampled")
StartTransaction(t, e) ==
  /\ RunsUserCode(t) /\ at[e] = "new"
  /\ Cardinality({f \in Items : IsTransaction(f)}) < MaxTransactions
  /\ kind' = [kind EXCEPT ![e] = "transaction"]
  /\ SamplingDecision(e)
  /\ UNCHANGED <<exc, spans, adding, lost, lastSeen, counted, transport>>

(* start_child(), in any thread: _SpanRecorder.add() tests the length, ... *)
StartSpanUpTo(t, e, max) ==
  /\ RunsUserCode(t) /\ at[e] \in {"recording", "counted"}
  /\ Started(spans[e]) + Cardinality(Adders(e)) < MaxStarted
  /\ LET full == spans[e].open + spans[e].finished >= max
     IN adding' = [adding EXCEPT
          ![t] = [step |-> IF full THEN "read" ELSE "append", to |-> e, seen |-> 0]]
  /\ UNCHANGED <<kind, exc, at, fate, stack, spans, lost, lastSeen, counted, transport>>

StartSpanTooMany(t, e) == StartSpanUpTo(t, e, MaxSpans + 1)   \* seeded bug
StartSpan(t, e) == StartSpanUpTo(t, e, MaxSpans)

(* ... then appends the span, which is too late for the event if it has    *)
(* been counted, ...                                                       *)
AppendSpan(t, e) ==
  /\ IsAdding(t, e, {"append"})
  /\ spans' = IF at[e] = "recording"
              THEN [spans EXCEPT ![e].open = spans[e].open + 1]
              ELSE [spans EXCEPT ![e].late = spans[e].late + 1]
  /\ adding' = [adding EXCEPT ![t] = Idle]
  /\ UNCHANGED <<kind, exc, at, fate, stack, lost, lastSeen, counted, transport>>

(* ... or adds one to dropped_spans: a read, and a write that may undo     *)
(* those of other threads.                                                 *)
ReadDropped(t, e) ==
  /\ IsAdding(t, e, {"read"})
  /\ adding' = [adding EXCEPT
       ![t] = [step |-> "write", to |-> e, seen |-> spans[e].dropped]]
  /\ spans' = [spans EXCEPT ![e].raced = spans[e].raced \/ Writers(e) # {}]
  /\ UNCHANGED <<kind, exc, at, fate, stack, lost, lastSeen, counted, transport>>

WriteDropped(t, e) ==
  /\ IsAdding(t, e, {"write"})
  /\ spans' = IF at[e] = "recording"
              THEN [spans EXCEPT ![e].over = spans[e].over + 1,
                                 ![e].dropped = adding[t].seen + 1]
              ELSE [spans EXCEPT ![e].late = spans[e].late + 1]
  /\ adding' = [adding EXCEPT ![t] = Idle]
  /\ UNCHANGED <<kind, exc, at, fate, stack, lost, lastSeen, counted, transport>>

(* Span.finish().                                                          *)
FinishSpan(t, e) ==
  /\ RunsUserCode(t) /\ at[e] = "recording" /\ spans[e].open > 0
  /\ spans' = [spans EXCEPT ![e].open = spans[e].open - 1,
                            ![e].finished = spans[e].finished + 1]
  /\ UNCHANGED <<kind, exc, at, fate, stack, adding, lost, lastSeen, counted, transport>>

(* Transaction.finish(): an unsampled one is reported, and is not marked   *)
(* as finished; ...                                                        *)
FinishUnsampled(t, e) ==
  /\ RunsUserCode(t) /\ at[e] = "unsampled" /\ lost[e].event < 2
  /\ Lose(e, 1, 1)
  /\ fate' = [fate EXCEPT ![e] = "unsampled"]
  /\ UNCHANGED <<kind, exc, at, stack, spans, adding, lastSeen, counted, transport>>

(* ... one whose status is to be ignored is reported with its spans; ...   *)
FinishIgnored(t, e) ==
  /\ RunsUserCode(t) /\ at[e] = "recording"
  /\ Lose(e, 1, spans[e].open + spans[e].finished + 1)
  /\ End(e, "status")
  /\ UNCHANGED <<kind, exc, spans, adding, lastSeen, counted, transport>>

(* ... the others are made into events, of their finished spans, and then  *)
(* the recorder is detached.  The event of one that is finished in a       *)
(* __repr__ is ignored as well.                                            *)
FinishTransaction(t, e) ==
  /\ RunsUserCode(t) /\ at[e] = "recording"
  /\ spans' = [spans EXCEPT ![e].sent = spans[e].finished]
  /\ Push(t, e, "counted")
  /\ UNCHANGED <<kind, exc, adding, lost, lastSeen, counted, transport>>

Detach(t, e) ==
  /\ Capturing(t, e, "counted")
  /\ Goto(e, "events") \/ End(e, "ignored")
  /\ UNCHANGED <<kind, exc, spans, adding, lost, lastSeen, counted, transport>>

-----------------------------------------------------------------------------
(* The error processors, which run before the dedupe integration ...       *)
ErrorProcessors(t, e) ==
  /\ Capturing(t, e, "errors")
  /\ \/ Goto(e, "dedupe") /\ UNCHANGED lost
     \/ End(e, "processor") /\ Lose(e, 1, 0)
  /\ UNCHANGED <<kind, exc, spans, adding, lastSeen, counted, transport>>

(* ... drops what this context has seen last, and the event processors,    *)
(* which run after it.                                                     *)
DedupeBy(t, e, seen) ==
  /\ Capturing(t, e, "dedupe")
  /\ IF exc[e] \in seen
     THEN End(e, "duplicate") /\ Lose(e, 1, 0) /\ UNCHANGED lastSeen
     ELSE /\ Goto(e, "events")
          /\ lastSeen' = [lastSeen EXCEPT ![t] = exc[e]]
          /\ UNCHANGED lost
  /\ UNCHANGED <<kind, exc, spans, adding, counted, transport>>

DedupeAll(t, e) == DedupeBy(t, e, {lastSeen[u] : u \in Threads})   \* seeded bug
Dedupe(t, e) == DedupeBy(t, e, {lastSeen[t]})

(* A callback that leaves a transaction with n spans: what it took away is *)
(* lost, and with it "more".                                               *)
Changed(e, n, more) ==
  LET s    == spans[e]
      gain == IF n > s.sent THEN n - s.sent ELSE 0
      loss == IF n < s.sent THEN s.sent - n ELSE 0
  IN /\ spans' = [spans EXCEPT ![e] = [s EXCEPT !.sent = n, !.added = s.added + gain]]
     /\ Lose(e, 0, more + loss)

EventProcessorsReporting(t, e, dropped) ==
  /\ Capturing(t, e, "events")
  /\ \/ /\ End(e, "processor")
        /\ Lose(e, 1, IF IsTransaction(e) THEN spans[e].sent + 1 ELSE 0)
        /\ UNCHANGED spans
     \/ /\ Goto(e, "before_send")
        /\ IF IsTransaction(e)
           THEN \E n \in 0..(spans[e].sent + 1) : Changed(e, n, dropped)
           ELSE UNCHANGED <<spans, lost>>
  /\ UNCHANGED <<kind, exc, adding, lastSeen, counted, transport>>

EventProcessorsUnfinished(t, e) == EventProcessorsReporting(t, e, spans[e].open) \* seeded bug
EventProcessors(t, e) == EventProcessorsReporting(t, e, spans[e].open + spans[e].dropped)

(* before_send and its like.  Streamed spans cannot be dropped.  If it     *)
(* drops an exception, the next event of it is not a duplicate.            *)
Batched(e) == kind[e] \in {"log", "span"}
MayBeDropped(e) == kind[e] # "span"

BeforeSendForgetting(t, e, forgotten) ==
  /\ Capturing(t, e, "before_send")
  /\ \/ /\ IF Batched(e) THEN End(e, "sent") ELSE Goto(e, "session")
        /\ IF IsTransaction(e)
           THEN \E n \in 0..(spans[e].sent + 1) : Changed(e, n, 0)
           ELSE UNCHANGED <<spans, lost>>
        /\ UNCHANGED lastSeen
     \/ /\ MayBeDropped(e)
        /\ End(e, "before_send")
        /\ Lose(e, 1, IF IsTransaction(e) THEN spans[e].sent + 1 ELSE 0)
        /\ lastSeen' = IF exc[e] = None THEN lastSeen
                       ELSE [lastSeen EXCEPT ![t] = forgotten]
        /\ UNCHANGED spans
  /\ UNCHANGED <<kind, exc, adding, counted, transport>>

BeforeSendKeeping(t, e) == BeforeSendForgetting(t, e, lastSeen[t])   \* seeded bug
BeforeSend(t, e) == BeforeSendForgetting(t, e, None)

(* The session is updated before the error is sampled.                     *)
SessionThen(t, e, updated) ==
  /\ Capturing(t, e, "session")
  /\ counted' = counted \cup updated
  /\ Goto(e, IF kind[e] = "error" THEN "sampler" ELSE "send")
  /\ UNCHANGED <<kind, exc, spans, adding, lost, lastSeen, transport>>

SessionOfMessage(t, e) == SessionThen(t, e, {e})                     \* seeded bug
Session(t, e) == SessionThen(t, e, IF exc[e] # None THEN {e} ELSE {})

SampleErrorReporting(t, e, events) ==
  /\ Capturing(t, e, "sampler")
  /\ \/ Goto(e, "send") /\ UNCHANGED lost
     \/ End(e, "sampler") /\ Lose(e, events, 0)
  /\ UNCHANGED <<kind, exc, spans, adding, lastSeen, counted, transport>>

SampleSilently(t, e) == SampleErrorReporting(t, e, 0)                \* seeded bug
SampleError(t, e) == SampleErrorReporting(t, e, 1)

(* The transport is tested, and then read again.                           *)
Test(t, e) ==
  /\ Capturing(t, e, "send")
  /\ IF transport THEN Goto(e, "use") ELSE End(e, "nowhere")
  /\ UNCHANGED <<kind, exc, spans, adding, lost, lastSeen, counted, transport>>

CaptureEnvelope(t, e) ==
  /\ Capturing(t, e, "use")
  /\ End(e, IF transport THEN "sent" ELSE "raised")
  /\ UNCHANGED <<kind, exc, spans, adding, lost, lastSeen, counted, transport>>

Close(t) ==
  /\ stack[t] = <<>> /\ adding[t] = Idle /\ transport
  /\ transport' = FALSE
  /\ UNCHANGED <<kind, exc, at, fate, stack, spans, adding, lost, lastSeen, counted>>

Step(t, e) ==
  \/ Detach(t, e) \/ ErrorProcessors(t, e) \/ Dedupe(t, e) \/ EventProcessors(t, e)
  \/ BeforeSend(t, e) \/ Session(t, e) \/ SampleError(t, e) \/ Test(t, e)
  \/ CaptureEnvelope(t, e)

Call(t, e) ==
  \/ \E k \in Kinds, x \in Exceptions \cup {None} : Capture(t, e, k, x)
  \/ StartTransaction(t, e) \/ FinishUnsampled(t, e) \/ FinishIgnored(t, e)
  \/ FinishTransaction(t, e) \/ FinishSpan(t, e)

Add(t, e) == StartSpan(t, e) \/ AppendSpan(t, e) \/ ReadDropped(t, e) \/ WriteDropped(t, e)

Next ==
  \/ \E t \in Threads, e \in Items : Call(t, e) \/ Step(t, e) \/ Add(t, e)
  \/ \E t \in Threads : Close(t)

Spec == Init /\ [][Next]_vars

-----------------------------------------------------------------------------
(* Until the client is closed, an item that is not sent is reported lost   *)
(* once, unless the application asked for it to be ignored (client.py:     *)
(* 811-1045, 1067-1113, 1153-1387).                                        *)
LostOnce ==
  transport => \A e \in Items : at[e] = "done" =>
    lost[e].event = IF fate[e] \in {"sent", "ignored"} THEN 0 ELSE 1

(* And every span of a finished transaction is sent or is reported, as the *)
(* transaction itself is, except: those of which the recorder knew, if an  *)
(* event processor dropped the transaction; those over its maximum, if the *)
(* transaction had a status to ignore; all of them, if its event was       *)
(* ignored; those that another thread added after the recorder had been    *)
(* read; and, if two threads counted spans over the maximum at the same    *)
(* time, some of these, but never all (tracing.py:217-222, 953-1112,       *)
(* client.py:811-855, 975-1035).                                           *)
Unreported(e) ==
  LET s == spans[e]
  IN s.late + (CASE fate[e] = "processor" -> s.open + s.over [] fate[e] = "status" -> s.over
                 [] fate[e] = "ignored" -> s.open + s.over + s.sent + 1 [] OTHER -> 0)
AllSpans(e) == Started(spans[e]) + spans[e].added + (IF fate[e] = "sent" THEN 0 ELSE 1)
KnownSpans(e) ==
  lost[e].span + (IF fate[e] = "sent" THEN spans[e].sent ELSE 0) + Unreported(e)
SpansCounted ==
  transport => \A e \in Items : IsTransaction(e) /\ at[e] = "done" =>
    /\ KnownSpans(e) <= AllSpans(e)
    /\ KnownSpans(e) # AllSpans(e) =>
         spans[e].raced /\ AllSpans(e) - KnownSpans(e) < spans[e].over

(* The recorder "limits the number of spans recorded in a transaction"     *)
(* (tracing.py:203).  Threads that have passed the test may append one     *)
(* each after it has become full, and no more than that (217-222).         *)
RecorderLimits ==
  \A e \in Items :
    spans[e].open + spans[e].finished < MaxSpans + Cardinality(Threads)

(* So much can threads do to a recorder without a lock: it keeps at most   *)
(* one span too many for every other thread, and those that it does not    *)
(* keep are known, but for increments that raced (tracing.py:217-222,      *)
(* 1055-1073).                                                             *)
SpansAccounted == SpansCounted /\ RecorderLimits

(* An exception is dropped as a duplicate only of one that its own context *)
(* has captured and that before_send has not dropped, so that the same     *)
(* exception can be sent the next time (client.py:966-972, dedupe.py:      *)
(* 20-50).                                                                 *)
Duplicates ==
  [][\A e \in Items : fate'[e] = "duplicate" /\ fate[e] # "duplicate" =>
       \E t \in Threads, f \in Items \ {e} :
         /\ stack[t] # <<>> /\ Head(stack[t]) = e
         /\ exc[f] = exc[e] /\ lastSeen[t] = exc[e]
         /\ fate[f] \notin {"before_send", "ignored"}]_vars

(* A session counts the exceptions that before_send lets through, those    *)
(* that the sampling drops included, and nothing else (client.py:          *)
(* 1188-1205).                                                             *)
SessionCounts ==
  \A e \in Items : at[e] = "done" =>
    (e \in counted <=> exc[e] # None /\ fate[e] \in {"sampler", "sent", "nowhere", "raised"})

(* Every captured item is accounted for: with the server, with the client  *)
(* report, and with its session (client.py:811-1205).                      *)
ItemsAccounted == TypeOK /\ LostOnce /\ SessionCounts
=============================================================================

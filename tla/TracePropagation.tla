--------------------------- MODULE TracePropagation ---------------------------
(***************************************************************************)
(* A trace on its way through a chain of services, each of which has this  *)
(* SDK: it continues the trace of the headers it gets (tracing_utils.py,   *)
(* PropagationContext and Baggage), decides whether to sample (tracing.py, *)
(* or tracing_utils.py if spans are streamed), and calls the next service  *)
(* with headers of its own.  On the way, a header may lose its baggage, or *)
(* the sample_rand in it, which older SDKs do not know.                    *)
(*                                                                         *)
(* Rates and sample_rands are whole numbers, One stands for the rate 1,    *)
(* and Unit for 10^-6, the precision of a sample_rand, not of a rate.      *)
(***************************************************************************)
EXTENDS Naturals, FiniteSets

CONSTANTS Services,     \* the length of the chain
          One, Unit,
          Configs,      \* how a service may be configured
          Orgs, None,
          Fails         \* what a sampler does that raises, or returns no rate

Maybe(S) == S \cup {None}
Rates == 0..One
Rands == {Unit * n : n \in 0..(One \div Unit) - 1}

(* enabled is enable_tracing; a sampler returns a rate, or fails; under    *)
(* backpressure, rates are divided: divisor is 2 to the factor.            *)
AllConfigs == [streaming : BOOLEAN, enabled : BOOLEAN, rate : Maybe(Rates),
               divisor : Nat \ {0}, sampler : Maybe(Rates \cup {Fails}),
               org : Maybe(Orgs), strict : BOOLEAN]

VARIABLES
  service,   \* the one that handles the request, a trace being named after its first
  at,        \* what it is about to do, or "way" once it has called the next one
  config,
  arrived,   \* the headers of a request on its way, or None
  context,   \* the propagation context of the scope: such headers, too
  span,      \* the transaction or segment
  draws,     \* what the generator has returned for the trace and an interval
  decided,   \* the decisions on this trace
  apart,     \* why a later one may differ from an earlier one
  damage,    \* what has happened to this trace's headers
  orgs,      \* the organisations on this trace
  first      \* and that of its first service

history == <<decided, apart, damage, orgs, first>>
vars == <<service, at, config, arrived, context, span, draws, history>>

(* sentry_items and mutable, of a Baggage; the headers of a request.       *)
Bags == [rand : Maybe(Rands), rate : Maybe(Rates), sampled : Maybe(BOOLEAN),
         org : Maybe(Orgs), mutable : BOOLEAN]
TraceHeaders == [trace : 1..Services, sampled : Maybe(BOOLEAN), bag : Maybe(Bags)]
Spans == [sampled : Maybe(BOOLEAN), rate : Maybe(Rates), rand : Maybe(Rands),
          bag : Maybe(Bags)]
ThirdParty == [rand |-> None, rate |-> None, sampled |-> None, org |-> None, mutable |-> TRUE]

(* What an instance assumes of its parameters.                             *)
Constants ==
  /\ {Services, One, Unit} \subseteq Nat \ {0} /\ One % Unit = 0
  /\ Configs \subseteq AllConfigs
  /\ None \notin Nat \cup BOOLEAN \cup Orgs \cup AllConfigs \cup Bags \cup TraceHeaders \cup Spans
  /\ Fails \notin Maybe(Nat)

TypeOK ==
  /\ service \in 0..Services /\ at \in {"start", "call", "way"}
  /\ config \in Maybe(Configs) /\ {arrived, context} \subseteq Maybe(TraceHeaders)
  /\ span \in Maybe(Spans)
  /\ apart \subseteq {"sampler", "forced", "ignored", "backpressure", "off", "outside"}
  /\ damage \subseteq {"baggage", "rand", "early", "fine", "stale", "untold"}
  /\ orgs \subseteq Orgs /\ first \in Maybe(Orgs)

Init ==
  /\ service = 0 /\ at = "way"
  /\ config = None /\ arrived = None /\ context = None /\ span = None
  /\ draws = <<>>
  /\ decided = {} /\ apart = {} /\ damage = {} /\ orgs = {} /\ first = None

-----------------------------------------------------------------------------
Tracing(c) == c.enabled /\ (c.rate # None \/ c.sampler # None)

(* _generate_sample_rand(): the same for the same trace and interval; the  *)
(* lower bound if the interval is narrower than the precision.             *)
Fresh(interval) ==
  IF interval[1] >= interval[2] THEN {Unit * interval[1]}
  ELSE {Unit * n : n \in interval[1]..interval[2] - 1}
Drawn(interval) ==
  IF interval \in DOMAIN draws THEN {draws[interval]} ELSE Fresh(interval)

Draw(low, high, rand) ==
  LET interval == <<low \div Unit, high \div Unit>>
  IN /\ rand \in Drawn(interval)
     /\ draws' = [i \in DOMAIN draws \cup {interval} |-> IF i = interval THEN rand ELSE draws[i]]

(* _sample_rand_range()                                                    *)
LowerZero(sampled, rate) == 0                                      \* seeded bug
Lower(sampled, rate) == IF sampled = FALSE /\ rate # None THEN rate ELSE 0
Upper(sampled, rate) == IF sampled = TRUE /\ rate # None THEN rate ELSE One

(* _should_continue_trace()                                                *)
ShouldContinue(c) ==
  LET there == IF arrived.bag = None THEN None ELSE arrived.bag.org
  IN there # c.org => None \in {there, c.org} /\ ~c.strict
Continues(c) == IF arrived = None THEN FALSE ELSE ShouldContinue(c)

(* What the decisions of a new trace are held against.                     *)
Begin(c) == /\ decided' = {} /\ apart' = {} /\ damage' = {}
            /\ orgs' = {c.org} \ {None} /\ first' = c.org

(* The transaction that Scope.continue_trace() returns has the baggage of   *)
(* that moment.                                                            *)
Unstarted(c, bag) ==
  IF c.streaming THEN None
  ELSE [sampled |-> None, rate |-> None, rand |-> None, bag |-> bag]

(* continue_trace() with headers to continue from, whose baggage may lack  *)
(* a sample_rand, ...                                                      *)
ContinueFrom(bag) ==
  /\ context' = [arrived EXCEPT !.bag = bag]
  /\ orgs' = orgs \cup ({config'.org} \ {None})
  /\ UNCHANGED <<decided, apart, first>>

FillSampleRand ==
  LET bag  == arrived.bag
      low  == Lower(arrived.sampled, bag.rate)
      high == Upper(arrived.sampled, bag.rate)
  IN IF bag.rand # None \/ low >= high
     THEN ContinueFrom(bag) /\ UNCHANGED <<draws, damage>>
     ELSE \E rand \in Rands :
            /\ Draw(low, high, rand)
            /\ ContinueFrom([bag EXCEPT !.rand = rand])
            /\ damage' = damage \cup IF low % Unit # 0 THEN {"fine"} ELSE {}

Continue(c) ==
  /\ at = "way" /\ service < Services /\ Continues(c)
  /\ config' = c
  /\ IF arrived.bag # None THEN FillSampleRand
     ELSE ContinueFrom(None) /\ UNCHANGED <<draws, damage>>
  /\ span' = Unstarted(c, context'.bag)
  /\ service' = service + 1 /\ at' = "start" /\ arrived' = None

(* ... and without.                                                        *)
NewTrace(c) ==
  /\ at = "way" /\ service < Services /\ ~Continues(c)
  /\ config' = c
  /\ context' = [trace |-> service + 1, sampled |-> None, bag |-> None]
  /\ Begin(c) /\ draws' = <<>>
  /\ span' = Unstarted(c, None)
  /\ service' = service + 1 /\ at' = "start" /\ arrived' = None

(* PropagationContext.get_baggage()                                        *)
OfContext ==
  IF context.bag # None THEN context.bag
  ELSE [rand |-> None, rate |-> IF config.rate = 0 THEN None ELSE config.rate,
        sampled |-> None, org |-> config.org, mutable |-> FALSE]

(* Something before the span asks for the baggage, say an error event.     *)
Early ==
  /\ at = "start" /\ context.bag = None
  /\ context' = [context EXCEPT !.bag = OfContext]
  /\ damage' = damage \cup IF config.streaming THEN {"early"} ELSE {}
  /\ UNCHANGED <<service, at, config, arrived, span, draws, decided, apart, orgs, first>>

-----------------------------------------------------------------------------
(* The rate to sample at: the sampler's, or else the parent's decision, or *)
(* else the option's; and what backpressure leaves of it.                  *)
Given ==
  IF config.sampler # None THEN config.sampler
  ELSE IF context.sampled = None THEN config.rate
  ELSE IF context.sampled THEN One ELSE 0
Lowered(rate) == rate \div config.divisor

SampleRand(bag, rand) ==
  IF bag # None /\ bag.rand # None
  THEN rand = bag.rand /\ UNCHANGED draws
  ELSE Draw(0, One, rand)

Outcome(sampled, rate, rand) == [sampled |-> sampled, rate |-> rate, rand |-> rand]
Decision(outcome) == [sampled |-> outcome.sampled, rate |-> outcome.rate,
                      rand |-> outcome.rand, by |-> service]
SpanOf(outcome, bag) == [sampled |-> outcome.sampled, rate |-> outcome.rate,
                         rand |-> outcome.rand, bag |-> bag]

(* Transaction._set_initial_sampling_decision()                            *)
OfTransaction(rand, forced) ==
  IF ~Tracing(config) THEN Outcome(FALSE, None, rand)
  ELSE IF forced # None THEN Outcome(forced, IF forced THEN One ELSE 0, rand)
  ELSE IF Given = Fails THEN Outcome(FALSE, None, rand)
  ELSE Outcome(rand < Lowered(Given), Lowered(Given), rand)

(* _make_sampling_decision()                                               *)
OfSegment(rand) ==
  IF ~Tracing(config) THEN Outcome(context.sampled, None, None)
  ELSE IF Given = Fails THEN Outcome(FALSE, None, None)
  ELSE Outcome(rand < Lowered(Given), Lowered(Given), rand)

(* The rate of the baggage is the parent's as long as its decision is      *)
(* followed.                                                               *)
Keeps == context.sampled # None /\ config.sampler = None
WithRateForgotten(bag, rate) == bag                                \* seeded bug
WithRate(bag, rate) == IF bag = None THEN None ELSE [bag EXCEPT !.rate = rate]

(* The headers are stale if the rate in them is not the one that decided.  *)
(* They leave it untold if they had none and are not a transaction's.      *)
Stale(outcome, forced) ==
  Tracing(config) /\ context.bag # None
  /\ (outcome.rate = None \/ (Keeps /\ forced = None /\ config.divisor > 1))
Untold ==
  IF context.bag = None THEN FALSE
  ELSE Tracing(config) /\ config.streaming /\ context.bag.rate = None

Decide(outcome, forced, ignored) ==
  /\ decided' = IF Tracing(config) THEN decided \cup {Decision(outcome)} ELSE decided
  /\ apart' = IF context.sampled = None THEN apart
              ELSE apart \cup (IF config.sampler # None THEN {"sampler"} ELSE {})
                         \cup (IF forced # None THEN {"forced"} ELSE {})
                         \cup (IF ignored THEN {"ignored"} ELSE {})
                         \cup (IF config.divisor > 1 THEN {"backpressure"} ELSE {})
  /\ damage' = damage \cup (IF Stale(outcome, forced) THEN {"stale"} ELSE {})
                      \cup (IF Untold THEN {"untold"} ELSE {})
  /\ at' = "call"
  /\ UNCHANGED <<service, config, arrived, orgs, first>>

(* start_transaction(), with or without a "sampled" of the application.    *)
StartTransaction(forced) ==
  /\ at = "start" /\ ~config.streaming
  /\ \E rand \in Rands :
       LET outcome == OfTransaction(rand, forced)
           bag(b) == IF outcome.rate # None /\ ~(Keeps /\ forced = None)
                     THEN WithRate(b, outcome.rate) ELSE b
       IN /\ SampleRand(span.bag, rand)
          /\ span' = SpanOf(outcome, bag(span.bag))
          /\ context' = [context EXCEPT !.bag = bag(context.bag)]
          /\ Decide(outcome, forced, FALSE)

(* start_span() of a segment; NoOpStreamedSpan if it is not sampled.       *)
StartSegment ==
  /\ at = "start" /\ config.streaming
  /\ \E rand \in Rands :
       LET outcome == OfSegment(rand)
           bag == IF outcome.rate # None /\ ~Keeps /\ context.bag # None /\ context.bag.rate # None
                  THEN WithRate(context.bag, outcome.rate) ELSE context.bag
       IN /\ SampleRand(context.bag, rand)
          /\ span' = SpanOf(outcome, bag)
          /\ context' = [context EXCEPT !.bag = bag]
          /\ Decide(outcome, None, FALSE)

(* A segment that ignore_spans names is not sampled, whoever decides.      *)
IgnoreSegment ==
  /\ at = "start" /\ config.streaming
  /\ span' = SpanOf(Outcome(FALSE, None, None), context.bag)
  /\ Decide(Outcome(FALSE, None, None), None, TRUE)
  /\ UNCHANGED <<context, draws>>

(* Baggage.populate_from_transaction(), populate_from_segment(): the items *)
(* that are there already take precedence.                                 *)
Kept(there, own) == IF there # None THEN there ELSE own
OfSpan ==
  LET own == [rand |-> span.rand, rate |-> span.rate, sampled |-> span.sampled,
              org |-> config.org, mutable |-> FALSE]
  IN IF span.bag = None THEN own
     ELSE IF ~span.bag.mutable THEN span.bag
     ELSE [rand |-> Kept(span.bag.rand, own.rand), rate |-> Kept(span.bag.rate, own.rate),
           sampled |-> Kept(span.bag.sampled, own.sampled),
           org |-> Kept(span.bag.org, own.org), mutable |-> FALSE]

(* A request within the span has its headers; one outside of it, or        *)
(* without tracing, those of the context, and no decision.  Whoever gets   *)
(* such items does not change them any more.                               *)
Send(sampled, bag) ==
  /\ arrived' = [trace |-> context.trace, sampled |-> sampled,
                 bag |-> [bag EXCEPT !.mutable = FALSE]]
  /\ at' = "way" /\ config' = None /\ context' = None /\ span' = None
  /\ UNCHANGED <<service, draws, decided, damage, orgs, first>>

CallInside ==
  /\ at = "call" /\ Tracing(config)
  /\ Send(span.sampled, OfSpan)
  /\ UNCHANGED apart

CallOutside ==
  /\ at = "call"
  /\ Send(None, OfContext)
  /\ apart' = IF decided = {} THEN apart
              ELSE apart \cup {IF Tracing(config) THEN "outside" ELSE "off"}

-----------------------------------------------------------------------------
(* A proxy may drop all items of a baggage header; another SDK, or an      *)
(* older one, sends no sample_rand: it has a generator of its own, so what *)
(* ours would have returned for the trace is not known any more.           *)
Lose(bag, what) ==
  /\ at = "way" /\ service \in 1..Services - 1 /\ arrived.bag # None
  /\ \E i \in {"rate", "sampled", "org"} : arrived.bag[i] # None
  /\ arrived' = [arrived EXCEPT !.bag = bag]
  /\ damage' = damage \cup {what}
  /\ UNCHANGED <<service, at, config, context, span, decided, apart, orgs, first>>

LoseBaggage == /\ \E bag \in {None, ThirdParty} : Lose(bag, "baggage")
               /\ UNCHANGED draws
LoseRand == Lose([arrived.bag EXCEPT !.rand = None], "rand") /\ draws' = <<>>

Next ==
  \/ \E c \in Configs : NewTrace(c) \/ Continue(c)
  \/ Early
  \/ \E forced \in Maybe(BOOLEAN) : StartTransaction(forced)
  \/ StartSegment \/ IgnoreSegment
  \/ CallInside \/ CallOutside
  \/ LoseBaggage \/ LoseRand

Spec == Init /\ [][Next]_vars

-----------------------------------------------------------------------------
(* One sample_rand decides for the whole trace, also in a service that got *)
(* no baggage, unless only the sample_rand was lost, or a segment took the *)
(* baggage that something before it had asked for (tracing_utils.py:       *)
(* 681-726, 1267-1295).                                                    *)
OneRand == damage \cap {"rand", "early"} = {} =>
             Cardinality({d.rand : d \in decided} \ {None}) <= 1

(* So a service that samples at no less a rate than another that has       *)
(* sampled, samples too (tracing.py:1266, tracing_utils.py:1729).  If only *)
(* the sample_rand was lost, that still holds of two services in a row, as *)
(* the later one makes one up that explains the decision of the earlier:   *)
(* if it is told, with the rate that it was taken by (695-726), which a    *)
(* segment does not tell if it continues headers without (scope.py:1426).  *)
Fits(d, e) == d.sampled /\ d.rate <= e.rate => e.sampled
InARow(d, e) == "rand" \in damage =>
  damage = {"rand"} /\ "outside" \notin apart /\ d.by + 1 = e.by
Nested == "early" \notin damage =>
  \A d, e \in {x \in decided : x.rate # None} :
    d.by < e.by /\ InARow(d, e) => Fits(d, e) /\ Fits(e, d)

(* "we want to sample the whole trace, or nothing from the trace":         *)
(* decisions differ only for one of the reasons (tracing_utils.py:563).    *)
WholeOrNothing == apart = {} => Cardinality({d.sampled : d \in decided}) <= 1

(* Unless its baggage got lost, a trace stays within the organisation of   *)
(* its first service, if that is known (tracing_utils.py:1579-1612).       *)
OrgsApart == first # None /\ "baggage" \notin damage => orgs \subseteq {first}

(* Whatever services, proxies and configurations a trace meets, its        *)
(* decisions belong together, and so do those who take them.               *)
TraceWhole == TypeOK /\ OneRand /\ Nested /\ WholeOrNothing /\ OrgsApart

(* The decision that headers tell is explained by the rate and the         *)
(* sample_rand in them, through all services that keep, update or make up  *)
(* the one or the other, unless a sampler that failed, ignore_spans, or    *)
(* backpressure on a decision that is followed left the earlier rate, or   *)
(* that rate is finer than a sample_rand (scope.py:1200-1212, 1348-1426,   *)
(* tracing_utils.py:681-726, 846-943).                                     *)
HeadersTrue ==
  at = "way" /\ arrived # None /\ arrived.sampled # None /\ arrived.bag # None
  /\ arrived.bag.rand # None /\ arrived.bag.rate # None
  /\ damage \cap {"fine", "stale"} = {}
    => arrived.sampled = (arrived.bag.rand < arrived.bag.rate)
=============================================================================

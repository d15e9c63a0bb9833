------------------------------- MODULE Requests -------------------------------
(***************************************************************************)
(* The requests of the SDK: those to Sentry, of HttpTransport, and those   *)
(* between services, whose headers it adds and reads, of TracePropagation. *)
(* The two share no state, so that the interleavings of one with the other *)
(* would add nothing: a behaviour is one of either, while the other has    *)
(* not begun.  The traces do without the other value of "atomic".          *)
(***************************************************************************)
EXTENDS HttpTransport

CONSTANTS Services, One, Unit, Configs, Orgs, Fails

VARIABLES service, at, config, arrived, context, span, draws,
          decided, apart, damage, orgs, first

traceVars == <<service, at, config, arrived, context, span, draws,
               decided, apart, damage, orgs, first>>

T == INSTANCE TracePropagation

ASSUME TraceConstants == T!Constants

BothInit == Init /\ T!Init
EitherNext ==
  \/ T!Init /\ Next /\ UNCHANGED traceVars
  \/ Init /\ atomic /\ T!Next /\ UNCHANGED vars
Both == BothInit /\ [][EitherNext]_<<vars, traceVars>>

(* What the headers of services promise, in one place for TLC's run.       *)
TraceWhole == T!TraceWhole
HeadersTrue == T!HeadersTrue
=============================================================================

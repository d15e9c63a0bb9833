------------------------------ MODULE MCRequests ------------------------------
(***************************************************************************)
(* TLC's instances of the two modules about requests.  A service decides   *)
(* by the parent or a rate, with and without streamed spans and            *)
(* backpressure, by a sampler, by one that fails, or does no tracing; it   *)
(* may belong to another organisation, or to none, or insist on its own.   *)
(***************************************************************************)
EXTENDS MCHttpTransport, Requests

Own == CHOOSE o \in Orgs : TRUE
Config(enabled, rate, sampler, divisor, streaming) ==
  [enabled |-> enabled, rate |-> rate, sampler |-> sampler, divisor |-> divisor,
   streaming |-> streaming, strict |-> FALSE, org |-> Own]
Plain == Config(TRUE, 4, None, 1, FALSE)

MCConfigs ==
  {Plain, Config(TRUE, 4, None, 1, TRUE), Config(FALSE, None, None, 1, FALSE),
   Config(TRUE, 4, None, 2, TRUE),
   Config(TRUE, None, 8, 2, FALSE), Config(TRUE, 4, Fails, 1, TRUE)}
  \cup {[Plain EXCEPT !.org = None]}
  \cup {[Plain EXCEPT !.strict = TRUE, !.org = o] : o \in Orgs \ {Own}}
=============================================================================

--------------------------- MODULE CircuitBreaker ---------------------------
(***************************************************************************)
(* CircuitBreaker (app/gateway/resilience.py) together with the two places *)
(* that consult it: the choice of a backend (services/routing.py) and the  *)
(* upstream call (services/completions.py).                                *)
(*                                                                         *)
(* allow() both answers and takes a probe slot, so who calls it, how often *)
(* and on which paths an outcome is reported afterwards is what decides    *)
(* whether a circuit opens and closes as it should.  A step ends where the *)
(* request awaits something: its health score or the upstream.             *)
(***************************************************************************)
EXTENDS Naturals, FiniteSets

CONSTANTS
    Req,         \* requests; one that is over may come again
    Backend,     \* the upstream models
    Threshold,   \* GATEWAY_CIRCUIT_FAILURE_THRESHOLD
    MaxProbes,   \* GATEWAY_CIRCUIT_HALF_OPEN_PROBES
    Streams,     \* the requests that ask for a stream
    CostAware,   \* those whose route has a routing policy
    None         \* no backend

ASSUME CircuitAssumption ==
    /\ IsFiniteSet(Req)
    /\ Threshold \in Nat \ {0}
    /\ MaxProbes \in Nat \ {0}
    /\ Streams \subseteq Req
    /\ CostAware \subseteq Req
    /\ None \notin Backend

VARIABLES
    circuit,   \* the breaker's books of each backend
    pc,        \* where each request is
    target,    \* the backend it is trying or calling
    fallback   \* the one it may still turn to

\* History: the failures recorded since the last success, and the plain calls
\* that were let out while their circuit was, and still is, half open.
VARIABLES streak, probing

vars == <<circuit, pc, target, fallback, streak, probing>>

\* As in BudgetGuard, a definition whose name starts with Bug is a plausible
\* error in the definition that follows; no action uses it.

Places == {"idle", "scoring", "calling", "streaming"}

\* `opened` stands for _opened_at: missing, set less than recovery_seconds ago,
\* or longer ago.
Circuit ==
    [state : {"CLOSED", "OPEN", "HALF_OPEN"}, failures : Nat, probes : Nat,
     opened : {"never", "cooling", "cooled"}]

-----------------------------------------------------------------------------
(* The breaker: what allow() answers and leaves, what an outcome leaves    *)

BugAllows(cs, b) == cs[b].state # "OPEN" \/ cs[b].opened # "cooling"
BugAllowsHot(cs, b) ==
    \/ cs[b].state \in {"CLOSED", "OPEN"}
    \/ cs[b].state = "HALF_OPEN" /\ cs[b].probes < MaxProbes

Allows(cs, b) ==
    \/ cs[b].state = "CLOSED"
    \/ cs[b].state = "OPEN" /\ cs[b].opened # "cooling"
    \/ cs[b].state = "HALF_OPEN" /\ cs[b].probes < MaxProbes

\* The books after allow() answered yes.
Taken(cs, b) ==
    CASE cs[b].state = "OPEN" /\ cs[b].opened = "cooled" ->
            [cs EXCEPT ![b].state = "HALF_OPEN", ![b].probes = 1]
      [] cs[b].state = "HALF_OPEN" -> [cs EXCEPT ![b].probes = @ + 1]
      [] OTHER -> cs

BugSucceeded(cs, b) == [cs EXCEPT ![b].state = "CLOSED", ![b].opened = "never", ![b].probes = 0]

\* record_success()
Succeeded(cs, b) ==
    [cs EXCEPT ![b] = [state |-> "CLOSED", failures |-> 0, probes |-> 0, opened |-> "never"]]

Opened(cs, b, failures) ==
    [cs EXCEPT ![b] = [state |-> "OPEN", failures |-> failures, probes |-> 0,
                       opened |-> "cooling"]]

\* record_failure(): a half-open circuit opens again at once; another opens (or
\* starts its cool-down anew) at the threshold.
Failed(cs, b) ==
    LET n == cs[b].failures + 1
    IN  CASE cs[b].state = "HALF_OPEN" -> Opened(cs, b, Threshold)
          [] cs[b].state # "HALF_OPEN" /\ n >= Threshold -> Opened(cs, b, n)
          [] OTHER -> [cs EXCEPT ![b].failures = n]

-----------------------------------------------------------------------------
(* What a request does next                                                *)

Move(r, place, b, other) ==
    /\ pc' = [pc EXCEPT ![r] = place]
    /\ target' = [target EXCEPT ![r] = b]
    /\ fallback' = [fallback EXCEPT ![r] = other]

End(r) == Move(r, "idle", None, None)

\* The probes among the calls, `sent` being a request that was let out just now.
Probing(sent) ==
    probing' = {r \in probing \cup sent :
                    pc'[r] = "calling" /\ circuit'[target'[r]].state = "HALF_OPEN"}

\* Nothing is sent: 503 or 502.
GiveUp(r, cs) == circuit' = cs /\ End(r) /\ Probing({})

Send(r, cs, b, other) ==
    /\ circuit' = Taken(cs, b)
    /\ Move(r, "calling", b, other)
    /\ Probing({r})

Usable(cs, b) == b # None /\ Allows(cs, b)

\* The second attempt of post_completion_with_fallback, if there is one.  The
\* retry budget is asked after the circuit.
Retry(r, cs, b) ==
    \/ Usable(cs, b) /\ Send(r, cs, b, None)
    \/ Usable(cs, b) /\ GiveUp(r, Taken(cs, b))
    \/ ~ Usable(cs, b) /\ GiveUp(r, cs)

\* The first attempt.  A stream is sent without asking the breaker.
Post(r, cs, b, other) ==
    \/ r \in Streams /\ circuit' = cs /\ Move(r, "streaming", b, other) /\ Probing({})
    \/ r \notin Streams /\ Allows(cs, b) /\ Send(r, cs, b, other)
    \/ r \notin Streams /\ ~ Allows(cs, b) /\ Retry(r, cs, other)

Score(r, cs, b, other) ==
    circuit' = Taken(cs, b) /\ Move(r, "scoring", b, other) /\ Probing({})

-----------------------------------------------------------------------------
(* Routing                                                                 *)

\* The fallback, once the primary is refused by its circuit or its score.
TryFallback(r, b) ==
    \/ Usable(circuit, b) /\ Score(r, circuit, b, None)
    \/ ~ Usable(circuit, b) /\ GiveUp(r, circuit)

\* select_health_aware_backend up to the wait for the score.  A route without a
\* fallback asks for none, and goes on to the call at once.
Route(r) ==
    /\ pc[r] = "idle" /\ r \notin CostAware
    /\ \E b \in Backend, other \in Backend \cup {None} :
          /\ other # b
          /\ \/ Allows(circuit, b) /\ other # None /\ Score(r, circuit, b, other)
             \/ Allows(circuit, b) /\ other = None /\ Post(r, Taken(circuit, b), b, None)
             \/ ~ Allows(circuit, b) /\ TryFallback(r, other)
    /\ UNCHANGED streak

\* The score is good enough, or the route asks for none.
ScoreMet(r) ==
    /\ pc[r] = "scoring"
    /\ Post(r, circuit, target[r], fallback[r])
    /\ UNCHANGED streak

ScoreTooLow(r) ==
    /\ pc[r] = "scoring"
    /\ TryFallback(r, fallback[r])
    /\ UNCHANGED streak

\* select_cost_aware_backend does not ask the breaker; rerouted to the
\* fallback, a request has no other.
RouteByCost(r) ==
    /\ pc[r] = "idle" /\ r \in CostAware
    /\ \E b \in Backend, other \in Backend \cup {None} :
          other # b /\ Post(r, circuit, b, other)
    /\ UNCHANGED streak

-----------------------------------------------------------------------------
(* Outcomes                                                                *)

CallSucceeds(r) ==
    /\ pc[r] = "calling"
    /\ streak' = [streak EXCEPT ![target[r]] = 0]
    /\ GiveUp(r, Succeeded(circuit, target[r]))

\* The history stops counting at the threshold.
CallFails(r) ==
    /\ pc[r] = "calling"
    /\ streak' = [streak EXCEPT ![target[r]] = IF @ < Threshold THEN @ + 1 ELSE @]
    /\ LET cs == Failed(circuit, target[r])
       IN  \/ Retry(r, cs, fallback[r])
           \/ GiveUp(r, cs)  \* a status below 500

\* A 5xx before the first byte: the fallback is called, without asking.
StreamFallsBack(r) ==
    /\ pc[r] = "streaming" /\ fallback[r] # None
    /\ Move(r, "streaming", fallback[r], None)
    /\ UNCHANGED <<circuit, streak, probing>>

\* A stream reports no outcome.
StreamEnds(r) ==
    /\ pc[r] = "streaming"
    /\ End(r)
    /\ UNCHANGED <<circuit, streak, probing>>

CoolDown(b) ==
    /\ circuit[b].opened = "cooling"
    /\ circuit' = [circuit EXCEPT ![b].opened = "cooled"]
    /\ UNCHANGED <<pc, target, fallback, streak, probing>>

-----------------------------------------------------------------------------
Init ==
    /\ circuit = [b \in Backend |->
                    [state |-> "CLOSED", failures |-> 0, probes |-> 0, opened |-> "never"]]
    /\ pc = [r \in Req |-> "idle"]
    /\ target = [r \in Req |-> None]
    /\ fallback = [r \in Req |-> None]
    /\ streak = [b \in Backend |-> 0]
    /\ probing = {}

Next ==
    \/ \E r \in Req :
          \/ Route(r) \/ RouteByCost(r) \/ ScoreMet(r) \/ ScoreTooLow(r)
          \/ CallSucceeds(r) \/ CallFails(r)
          \/ StreamFallsBack(r) \/ StreamEnds(r)
    \/ \E b \in Backend : CoolDown(b)

Spec == Init /\ [][Next]_vars

-----------------------------------------------------------------------------
(* Properties                                                              *)

\* The breaker's four dictionaries and the requests hold what their readers expect.
TypeOK ==
    /\ circuit \in [Backend -> Circuit]
    /\ pc \in [Req -> Places]
    /\ target \in [Req -> Backend \cup {None}]
    /\ fallback \in [Req -> Backend \cup {None}]
    /\ streak \in [Backend -> 0..Threshold]
    /\ probing \subseteq Req

\* A circuit is closed exactly while fewer than Threshold failures in a row were
\* recorded: late answers of calls sent long ago, in whatever order they come,
\* neither hide a run of failures nor open a circuit that had a success.
ClosedIffShortRun ==
    \A b \in Backend : circuit[b].state = "CLOSED" <=> streak[b] < Threshold

\* While a circuit is half open, no more plain calls than it has probes on its
\* books are out on trial, and never more than it may have.
ProbesBounded ==
    \A b \in Backend : circuit[b].state = "HALF_OPEN" =>
        /\ Cardinality({r \in probing : target[r] = b}) <= circuit[b].probes
        /\ circuit[b].probes <= MaxProbes

\* No plain call, first attempt or retry, is sent to a backend whose circuit is
\* open, even if it was chosen while the circuit was closed.
NoCallWhileOpen ==
    [][\A r \in Req :
          pc'[r] = "calling" /\ (pc[r] # "calling" \/ target'[r] # target[r]) =>
              circuit'[target'[r]].state # "OPEN"]_vars

\* resilience.py, in allow(): "HALF_OPEN: admit up to N concurrent probes".  The
\* slots are those of probes that are under way: a half-open circuit is waiting
\* for the answer of somebody.
HalfOpenIsProbed ==
    \A b \in Backend : circuit[b].state = "HALF_OPEN" => \E r \in Req : target[r] = b
=============================================================================

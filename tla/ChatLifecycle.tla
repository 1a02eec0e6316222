---------------------------- MODULE ChatLifecycle ----------------------------
(***************************************************************************)
(* The life of POST /v1/chat/completions (app/gateway/routers/chat.py and  *)
(* services/completions.py): what a request acquires on its way to the     *)
(* upstream model, on which path each thing is given back, and what its    *)
(* budget reservation is settled for.                                      *)
(*                                                                         *)
(* The global permit is shared with the other requests of the process: its *)
(* variables and actions are those of GlobalAdmission.  The tenant lease   *)
(* and the budget reservation are handles of the request, in the states    *)
(* that chat.py tells apart.  A step ends where the handler awaits         *)
(* something whose outcome, or whose effect on other requests, matters;    *)
(* at each of these awaits its task may be cancelled, and no clean-up of   *)
(* chat.py is in an `except` that sees a cancellation.                     *)
(***************************************************************************)
EXTENDS GlobalAdmission

CONSTANTS
    Streams,                 \* the requests that ask for a stream
    WithFallback,            \* those whose route has a fallback target
    RenderMayFail,           \* whether an upstream answer may parse and yet
                             \* not be rendered (json reads NaN, JSONResponse
                             \* refuses to write it)
    BodyMayNotStart,         \* whether a client may go before the body of a
                             \* streaming response is started
    CutAt                    \* the stages in which a task may be cancelled

\* Where a handler that has its permit awaits something.  In "settling" and
\* "closing" it is the settlement of the outer handler and of the `finally` of a
\* stream, in "unleasing" and "releasing" the end of the lease, in a clean-up and
\* on the way to an answer.  The rest of a clean-up does not suspend.
Awaiting == {"permit", "lease", "reserved", "calling", "upstream_error", "answered", "settled",
             "settling", "closing", "unleasing", "releasing"}

\* "lost" is a response whose body nobody will ever ask for, "cut" a handler that
\* a cancellation ended.
Stages == Awaiting \cup {"new", "released", "stream_ready", "streaming", "failed",
                         "done", "lost", "cut"}

ASSUME ChatAssumption ==
    /\ Streams \subseteq Req
    /\ WithFallback \subseteq Req
    /\ RenderMayFail \in BOOLEAN
    /\ BodyMayNotStart \in BOOLEAN
    /\ CutAt \subseteq Awaiting

VARIABLES
    pc,        \* where the handler of each request is
    lease,     \* whether it holds an AdmissionLease that is not released
    budget,    \* its BudgetReservation: none, held or settled
    executed,  \* the flag mark_executed() sets
    charge,    \* what the reservation was settled for
    attempt,   \* the upstream attempt: 1 the selected target, 2 the fallback
    error,     \* the class of the last upstream error
    draining   \* DrainState.draining

\* History: an attempt reached a model and may have run there.
VARIABLE ran

chat == <<pc, lease, budget, executed, charge, attempt, error, ran>>
vars == <<admission, chat, draining>>

Go(r, stage) == pc' = [pc EXCEPT ![r] = stage]

\* As in BudgetGuard, a definition whose name starts with Bug is a plausible
\* error in the definition that follows; no action uses it.

-----------------------------------------------------------------------------
(* The budget handle                                                       *)

BugSettle(r, what) ==
    /\ budget' = [budget EXCEPT ![r] = IF budget[r] = "none" THEN "none" ELSE "settled"]
    /\ charge' = [charge EXCEPT ![r] = IF budget[r] = "none" THEN "none" ELSE what]

\* BudgetReservation.settle() and release(): the first one counts.
Settle(r, what) ==
    IF budget[r] = "held"
    THEN budget' = [budget EXCEPT ![r] = "settled"] /\ charge' = [charge EXCEPT ![r] = what]
    ELSE UNCHANGED <<budget, charge>>

BugAbandon(r) == UNCHANGED <<budget, charge>>
BugAbandonCharged(r) == Settle(r, "estimate")

\* abandon()
Abandon(r) == Settle(r, IF executed[r] THEN "estimate" ELSE "zero")

-----------------------------------------------------------------------------
(* Admission                                                               *)

\* The drain check comes first, then the global limit.
Arrive(r) ==
    /\ pc[r] = "new"
    /\ \/ draining /\ Go(r, "done") /\ UNCHANGED admission
       \/ ~ draining /\ Shed(r) /\ Go(r, "done")
       \/ ~ draining /\ (Enter(r) \/ Wait(r)) /\ Go(r, "permit")
    /\ UNCHANGED <<lease, budget, executed, charge, attempt, error, ran, draining>>

GetPermit(r) == Resume(r) /\ UNCHANGED <<chat, draining>>

\* A request that is cancelled while it waits has nothing to give back.
CancelWait(r) == Cancel(r) /\ UNCHANGED <<chat, draining>>

UnwindWait(r) ==
    /\ Unwind(r)
    /\ Go(r, "done")
    /\ UNCHANGED <<lease, budget, executed, charge, attempt, error, ran, draining>>


\* Giving the permit back does not look at who holds one.
GivePermit(r) ==
    /\ where' = [where EXCEPT ![r] = "out"]
    /\ Release

TakeLease(r) ==
    /\ pc[r] = "permit" /\ where[r] = "in"
    /\ lease' = [lease EXCEPT ![r] = TRUE]
    /\ Go(r, "lease")
    /\ UNCHANGED <<admission, budget, executed, charge, attempt, error, ran, draining>>

BugLeaseRefused(r) ==
    /\ pc[r] = "permit" /\ where[r] = "in"
    /\ GivePermit(r)
    /\ Go(r, "failed")
    /\ UNCHANGED <<lease, budget, executed, charge, attempt, error, ran, draining>>

\* The tenant is over its limit, or its lease store is unavailable.
LeaseRefused(r) ==
    /\ pc[r] = "permit" /\ where[r] = "in"
    /\ GivePermit(r)
    /\ Go(r, "done")
    /\ UNCHANGED <<lease, budget, executed, charge, attempt, error, ran, draining>>

ReserveBudget(r) ==
    /\ pc[r] = "lease"
    /\ \/ budget' = [budget EXCEPT ![r] = "held"] /\ Go(r, "reserved")
       \/ UNCHANGED budget /\ Go(r, "failed")
    /\ UNCHANGED <<admission, lease, executed, charge, attempt, error, ran, draining>>

\* The quota store fails: the reservation is left to the outer handler.
QuotaFails(r) ==
    /\ pc[r] = "reserved"
    /\ Go(r, "failed")
    /\ UNCHANGED <<admission, lease, budget, executed, charge, attempt, error, ran, draining>>

\* Governance denies, no backend is healthy, or the model is unknown.
RoutingFails(r) ==
    /\ pc[r] = "reserved"
    /\ Settle(r, "zero")
    /\ Go(r, "settling")
    /\ UNCHANGED <<admission, lease, executed, attempt, error, ran, draining>>

StartCall(r) ==
    /\ pc[r] = "reserved"
    /\ executed' = [executed EXCEPT ![r] = TRUE]
    /\ attempt' = [attempt EXCEPT ![r] = 1]
    /\ Go(r, "calling")
    /\ UNCHANGED <<admission, lease, budget, charge, error, ran, draining>>

-----------------------------------------------------------------------------
(* The upstream call                                                       *)

LastAttempt(r) == attempt[r] = 2 \/ r \notin WithFallback

\* The ways an attempt fails, and whether the model may have run then:
\* the connection was refused, the upstream answered with an error status, or
\* the answer was lost (read timeout, dropped body).
MayHaveRun == [connect |-> FALSE, status |-> FALSE, other |-> TRUE]

Raise(r, kind) ==
    /\ error' = [error EXCEPT ![r] = kind]
    /\ Go(r, "upstream_error")
    /\ UNCHANGED attempt

TryFallback(r) ==
    /\ attempt' = [attempt EXCEPT ![r] = @ + 1]
    /\ UNCHANGED <<pc, error>>

\* Plain request: every retryable failure of the first target is retried on the
\* fallback, except a status below 500.
AttemptFails(r) ==
    /\ pc[r] = "calling" /\ r \notin Streams
    /\ \E kind \in DOMAIN MayHaveRun :
          /\ ran' = [ran EXCEPT ![r] = @ \/ MayHaveRun[kind]]
          /\ \/ (LastAttempt(r) \/ kind = "status") /\ Raise(r, kind)
             \/ ~ LastAttempt(r) /\ TryFallback(r)
    /\ UNCHANGED <<admission, lease, budget, executed, charge, draining>>

\* The circuit is open for the target, or the retry budget is used up: nothing
\* is sent, and the last of these is raised as a RequestError.
AttemptRefused(r) ==
    /\ pc[r] = "calling" /\ r \notin Streams
    /\ \/ LastAttempt(r) /\ Raise(r, "other")
       \/ ~ LastAttempt(r) /\ TryFallback(r)
    /\ UNCHANGED <<admission, lease, budget, executed, charge, ran, draining>>

AttemptAnswered(r) ==
    /\ pc[r] = "calling" /\ r \notin Streams
    /\ ran' = [ran EXCEPT ![r] = TRUE]
    /\ Go(r, "answered")
    /\ UNCHANGED <<admission, lease, budget, executed, charge, attempt, error, draining>>

\* Streaming request: only an error status of 500 and above is retried.
StreamFails(r) ==
    /\ pc[r] = "calling" /\ r \in Streams
    /\ \E kind \in DOMAIN MayHaveRun :
          /\ ran' = [ran EXCEPT ![r] = @ \/ MayHaveRun[kind]]
          /\ \/ Raise(r, kind)
             \/ kind = "status" /\ ~ LastAttempt(r) /\ TryFallback(r)
    /\ UNCHANGED <<admission, lease, budget, executed, charge, draining>>

BugStreamReady(r) ==
    /\ pc[r] = "calling" /\ r \in Streams
    /\ ran' = [ran EXCEPT ![r] = TRUE]
    /\ lease' = [lease EXCEPT ![r] = FALSE]
    /\ Go(r, "stream_ready")
    /\ UNCHANGED <<admission, budget, executed, charge, attempt, error, draining>>

\* The StreamingResponse is returned; its body is not started yet.
StreamReady(r) ==
    /\ pc[r] = "calling" /\ r \in Streams
    /\ ran' = [ran EXCEPT ![r] = TRUE]
    /\ Go(r, "stream_ready")
    /\ UNCHANGED <<admission, lease, budget, executed, charge, attempt, error, draining>>

-----------------------------------------------------------------------------
(* After the call                                                          *)

\* The last error says that the backend refused the request.
Refunds(r) == error[r] \in {"connect", "status"}

\* except httpx.HTTPError: settle by the class of the last error, and raise 502.
HandleUpstreamError(r) ==
    /\ pc[r] = "upstream_error"
    /\ Settle(r, IF Refunds(r) THEN "zero" ELSE "estimate")
    /\ Go(r, "settling")
    /\ UNCHANGED <<admission, lease, executed, attempt, error, ran, draining>>

\* The health store, the answer's body, the decision store, the quota store or
\* the usage queue raises: the outer handler cleans up.
BookkeepingFails(r) ==
    /\ pc[r] \in {"calling", "upstream_error", "answered", "settled"}
    /\ Go(r, "failed")
    /\ UNCHANGED <<admission, lease, budget, executed, charge, attempt, error, ran, draining>>

\* An answer without a price is settled at the estimate.
SettleAnswer(r) ==
    /\ pc[r] = "answered"
    /\ \E what \in {"actual", "estimate"} : Settle(r, what)
    /\ Go(r, "settled")
    /\ UNCHANGED <<admission, lease, executed, attempt, error, ran, draining>>

\* AdmissionLease.release(): the handle is released before the call to the store
\* is awaited.  The clean-ups come here after the settlement; a lease that was
\* released before is left alone.
ReleaseLease(r) ==
    /\ \/ pc[r] = "settled" /\ Go(r, "releasing")
       \/ pc[r] \in {"settling", "closing"} /\ Go(r, "unleasing")
    /\ lease' = [lease EXCEPT ![r] = FALSE]
    /\ UNCHANGED <<admission, budget, executed, charge, attempt, error, ran, draining>>

\* The permit comes last.  The clean-up does not know whether it was given back
\* already.
ReleasePermit(r) ==
    /\ \/ pc[r] = "releasing" /\ Go(r, "released")
       \/ pc[r] = "unleasing" /\ Go(r, "done")
    /\ GivePermit(r)
    /\ UNCHANGED <<lease, budget, executed, charge, attempt, error, ran, draining>>

\* JSONResponse(...) is the last expression of the try block.
Respond(r) ==
    /\ pc[r] = "released"
    /\ \/ Go(r, "done")
       \/ RenderMayFail /\ Go(r, "failed")
    /\ UNCHANGED <<admission, lease, budget, executed, charge, attempt, error, ran, draining>>

\* The outer handler begins with the reservation; abandoning one that is settled
\* does nothing.
Fail(r) ==
    /\ pc[r] = "failed"
    /\ Abandon(r)
    /\ Go(r, "settling")
    /\ UNCHANGED <<admission, lease, executed, attempt, error, ran, draining>>

StartBody(r) ==
    /\ pc[r] = "stream_ready"
    /\ Go(r, "streaming")
    /\ UNCHANGED <<admission, lease, budget, executed, charge, attempt, error, ran, draining>>

\* A body that is never iterated never reaches its `finally`.
ClientGone(r) ==
    /\ BodyMayNotStart
    /\ pc[r] = "stream_ready"
    /\ Go(r, "lost")
    /\ UNCHANGED <<admission, lease, budget, executed, charge, attempt, error, ran, draining>>

\* The stream ends, breaks or is closed by the client: _finalize_stream settles
\* the priced usage, or the estimate when there is none.  Whether what follows
\* fails or is cancelled, its `finally` has nothing more to settle.
FinalizeStream(r) ==
    /\ pc[r] = "streaming"
    /\ \E what \in {"actual", "estimate"} : Settle(r, what)
    /\ lease' = [lease EXCEPT ![r] = FALSE]
    /\ Go(r, "unleasing")
    /\ UNCHANGED <<admission, executed, attempt, error, ran, draining>>

\* The bookkeeping fails or is cancelled before the settlement, which is left to
\* the `finally`.
FinalizeFails(r) ==
    /\ pc[r] = "streaming"
    /\ Settle(r, "estimate")
    /\ Go(r, "closing")
    /\ UNCHANGED <<admission, lease, executed, attempt, error, ran, draining>>

\* CancelledError at an await: of a plain handler when its task is cancelled, of a
\* stream's `finally` because a client that disconnected cancels every await of its
\* task that suspends.  What the handler still holds, it keeps.  A clean-up that
\* finds everything given back does not suspend; one without a reservation may be
\* cut only a moment earlier, which leaves the same behind.
Cut(r) ==
    /\ pc[r] \in CutAt
    /\ where[r] = "in"
    /\ Go(r, "cut")
    /\ UNCHANGED <<admission, lease, budget, executed, charge, attempt, error, ran, draining>>

StartDrain ==
    /\ ~ draining
    /\ draining' = TRUE
    /\ UNCHANGED <<admission, chat>>

-----------------------------------------------------------------------------
Init ==
    /\ AdmissionInit
    /\ pc = [r \in Req |-> "new"]
    /\ lease = [r \in Req |-> FALSE]
    /\ budget = [r \in Req |-> "none"]
    /\ executed = [r \in Req |-> FALSE]
    /\ charge = [r \in Req |-> "none"]
    /\ attempt = [r \in Req |-> 0]
    /\ error = [r \in Req |-> "none"]
    /\ ran = [r \in Req |-> FALSE]
    /\ draining = FALSE

\* The steps the event loop takes once a request has come.
Serve(r) ==
    \/ GetPermit(r) \/ UnwindWait(r)
    \/ TakeLease(r) \/ LeaseRefused(r)
    \/ ReserveBudget(r) \/ QuotaFails(r) \/ RoutingFails(r) \/ StartCall(r)
    \/ AttemptFails(r) \/ AttemptRefused(r) \/ AttemptAnswered(r)
    \/ StreamFails(r) \/ StreamReady(r)
    \/ HandleUpstreamError(r) \/ BookkeepingFails(r) \/ SettleAnswer(r)
    \/ ReleaseLease(r) \/ ReleasePermit(r) \/ Respond(r) \/ Fail(r)
    \/ StartBody(r) \/ ClientGone(r) \/ FinalizeStream(r) \/ FinalizeFails(r)

Next ==
    \/ \E r \in Req : Arrive(r) \/ CancelWait(r) \/ Cut(r) \/ Serve(r)
    \/ StartDrain

\* A handler that can go on does: the upstream client, the stores and the stream
\* have timeouts or end.  Nobody has to come, to be cancelled or to drain.
Fairness == \A r \in Req : WF_vars(Serve(r))

Spec == Init /\ [][Next]_vars /\ Fairness

-----------------------------------------------------------------------------
(* Properties                                                              *)

\* The semaphore's own variables have the types of GlobalAdmission.
TypeOK ==
    /\ where \in [Req -> Places]
    /\ pc \in [Req -> Stages]
    /\ lease \in [Req -> BOOLEAN]
    /\ budget \in [Req -> {"none", "held", "settled"}]
    /\ executed \in [Req -> BOOLEAN]
    /\ charge \in [Req -> {"none", "zero", "estimate", "actual"}]
    /\ attempt \in [Req -> 0..2]
    /\ error \in [Req -> {"none", "connect", "status", "other"}]
    /\ ran \in [Req -> BOOLEAN]
    /\ draining \in BOOLEAN

\* While a request is with the model, from the first attempt to the last byte,
\* it holds its permit, its lease and its reservation: nothing it was admitted
\* by has been given to somebody else.
BackedWhileRunning ==
    \A r \in Req : pc[r] \in {"calling", "answered", "stream_ready", "streaming"} =>
        where[r] = "in" /\ lease[r] /\ budget[r] = "held"

\* A request whose handler ran to its end has given everything back, whatever path
\* it took, the double pass through the outer handler included.  Only two leave
\* something behind: a body that is never started keeps all it was admitted by, and
\* a cancelled handler what it had not come to give back, in the order reservation,
\* lease, permit.
LeaksExplained ==
    \A r \in Req :
        /\ pc[r] = "done" => where[r] # "in" /\ ~ lease[r] /\ budget[r] # "held"
        /\ pc[r] = "cut" => where[r] = "in" /\ (budget[r] = "held" => lease[r])
        /\ pc[r] = "lost" => where[r] = "in" /\ lease[r] /\ budget[r] = "held"

\* A request that failed before the call is never charged, one that the client was
\* answered is never free, and one that may have run at the model is free only if
\* it then failed over to a second target, which refused it: the handler looks at
\* the last error.
ChargeFits ==
    \A r \in Req :
        /\ ~ executed[r] => charge[r] \in {"none", "zero"}
        /\ pc[r] \in {"settled", "releasing", "released"} => charge[r] \in {"estimate", "actual"}
        /\ r \in Streams /\ error[r] = "none" /\ executed[r] => charge[r] # "zero"
        /\ ran[r] /\ charge[r] = "zero" => attempt[r] = 2 /\ Refunds(r)

\* A reservation is settled once: no later error path changes what it was for.
SettledOnce == [][\A r \in Req : charge[r] # "none" => charge'[r] = charge[r]]_vars

\* The handlers use the global admission controller as it is meant to be used:
\* every step of theirs is one of its steps.  In particular a permit is given back
\* by a request that holds one, with a single exception: an answer that cannot be
\* rendered, after the permit was given back.
UsesAdmission ==
    /\ AdmissionInit
    /\ [][AdmissionNext \/ \E r \in Req : pc[r] = "unleasing" /\ charge[r] # "none"
                                    /\ where[r] = "out" /\ ReleasePermit(r)]_admission

\* Once the gateway drains, every request that was inside ends.  The permits of
\* streams nobody started and of handlers that were cancelled do not come back, and
\* when those are all there are, whoever waits for one waits for ever.
Leaked == {r \in Req : pc[r] \in {"lost", "cut"}}

\* docs/resilience.md on GATEWAY_MAX_INFLIGHT: "Max concurrent chat requests per
\* process".
InflightBounded == Cardinality({r \in Req : where[r] = "in"}) <= MaxInflight
=============================================================================

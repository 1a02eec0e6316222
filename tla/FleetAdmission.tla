--------------------------- MODULE FleetAdmission ---------------------------
(***************************************************************************)
(* Tenant admission (app/gateway/admission.py), one tenant and model: a    *)
(* concurrency limit that the gateways of a fleet share through leases in  *)
(* Redis, and what each gateway does when Redis does not answer.           *)
(*                                                                         *)
(* The Lua scripts run atomically, each with the wall clock of its caller. *)
(* A call may fail before or after its script ran, a caller may be         *)
(* cancelled wherever it waits, a gateway may stop, and a renewal may be   *)
(* on its way while its request ends.  Time is kept as what is left of     *)
(* each lease, so the model needs no clock: the fencing token of a lease   *)
(* id is written once, with the id, and comparing it is asking whether the *)
(* id is still there.                                                      *)
(***************************************************************************)
EXTENDS Integers, FiniteSets

CONSTANTS
    Req, Gateway,
    Home,       \* the gateway of each request
    Limit,      \* max_concurrent_requests
    MaxQueued,  \* max_queued_requests
    Ttl,        \* life of a lease
    Interval,   \* the longest time between two writes of a lease by a renewal
                \* that works: the sleep, the wait for the lock and the call
    Lag         \* how far a caller's clock reading may be behind when its
                \* script runs

ASSUME FleetAssumption ==
    /\ IsFiniteSet(Req)
    /\ Home \in [Req -> Gateway]
    /\ Limit \in Nat \ {0}
    /\ MaxQueued \in Nat
    /\ Ttl \in Nat /\ Interval \in Nat /\ Lag \in Nat
    /\ Interval + Lag < Ttl

VARIABLES
    policy,    \* redisUnavailablePolicy of the tenant, "local" when the fleet
               \* has no Redis at all; it never changes
    leases,    \* the members of the zset
    left,      \* what is left of each lease, 0 for the others
    phase,     \* where acquire_lease() or release() of each request is
    mode,      \* the mode of its lease; "local" is degraded too
    renewal,   \* its renewal task
    age,       \* time since its lease was written, while it is kept up
    queued, inflight, permits  \* of each gateway; permits is its semaphore

store == <<leases, left>>
counters == <<queued, inflight, permits>>
vars == <<policy, store, phase, mode, renewal, age, counters>>

Policies == {"fail_closed", "degraded", "fail_open", "local"}
Phases == {"new", "probing", "waiting", "leased", "leaving", "failed", "fallback", "local",
           "permitted", "running", "orphaned", "releasing", "undoing", "unreleased", "ended",
           "refused", "ticket_left", "permit_left", "dead"}

\* Somebody has the lease: its handler, or nobody any more but the renewal task.
Held == {"running", "orphaned"}

\* These wait for the lock of the process to count what they got or gave back.
AtLock == {"leaving", "failed", "leased", "permitted", "undoing"}

\* A definition whose name starts with Bug is a plausible error in the
\* definition that follows it; no action uses it.

At(g, stages) == {r \in Req : Home[r] = g /\ phase[r] \in stages}

\* The probe is made with the lock of the process held.
LockFree(r) == At(Home[r], {"probing"}) = {}

\* Another caller has the lock, or waits for it too.
Contended(r) == At(Home[r], AtLock \cup {"probing"}) \ {r} # {}

Go(r, stage) == phase' = [phase EXCEPT ![r] = stage]
Raise(f, r) == [f EXCEPT ![Home[r]] = @ + 1]

\* max(0, n - 1)
Lower(f, r) == [f EXCEPT ![Home[r]] = IF @ > 0 THEN @ - 1 ELSE 0]

Renewing == {r \in Req : phase[r] \in Held /\ renewal[r] \in {"asleep", "sent"}}

-----------------------------------------------------------------------------
(* The scripts.  d says how far behind the clock of the caller is.         *)

BugExpired(d) == {r \in leases : left[r] <= Lag + 1 - d}

BugNotExpired(d) == {}

\* ZRANGEBYSCORE -inf now
Expired(d) == {r \in leases : left[r] <= -d}

Keep(S) ==
    /\ leases' = S
    /\ left' = [q \in Req |-> IF q \in S THEN left[q] ELSE 0]

Purge(d) == Keep(leases \ Expired(d))

BugFull(d) == Cardinality(leases \ Expired(d)) > Limit

Full(d) == Cardinality(leases \ Expired(d)) >= Limit

\* The acquire script, when it grants.
Write(r, d) ==
    /\ ~ Full(d)
    /\ leases' = (leases \ Expired(d)) \cup {r}
    /\ left' = [q \in Req |-> IF q = r THEN Ttl - d
                              ELSE IF q \in Expired(d) THEN 0 ELSE left[q]]

BugExtend(r, d) ==
    /\ leases' = leases \cup {r}
    /\ left' = [left EXCEPT ![r] = Ttl - d]

BugExtendNX(r, d) == UNCHANGED store

\* The renew script: a lease that was purged or released stays gone.
Extend(r, d) ==
    /\ leases' = leases
    /\ left' = [left EXCEPT ![r] = IF r \in leases THEN Ttl - d ELSE @]

-----------------------------------------------------------------------------
(* _acquire_redis                                                          *)

Begin(r) ==
    /\ phase[r] = "new"
    /\ policy # "local"
    /\ LockFree(r)
    /\ Go(r, "probing")
    /\ UNCHANGED <<policy, store, mode, renewal, age, counters>>

Probe(r, d) ==
    /\ phase[r] = "probing"
    /\ Purge(d)
    /\ \/ /\ Full(d) /\ queued[Home[r]] >= MaxQueued
          /\ Go(r, "refused")
          /\ UNCHANGED counters
       \/ /\ ~ (Full(d) /\ queued[Home[r]] >= MaxQueued)
          /\ Go(r, "waiting")
          /\ queued' = Raise(queued, r)
          /\ UNCHANGED <<inflight, permits>>
    /\ UNCHANGED <<policy, mode, renewal, age>>

\* The call fails, or its caller is cancelled.
ProbeFails(r) ==
    /\ phase[r] = "probing"
    /\ Go(r, "fallback") \/ Go(r, "refused")
    /\ UNCHANGED <<policy, store, mode, renewal, age, counters>>

Grant(r, d) ==
    /\ phase[r] = "waiting"
    /\ Write(r, d)
    /\ Go(r, "leased")
    /\ UNCHANGED <<policy, mode, renewal, age, counters>>

\* Without a queue the caller is refused, otherwise it polls again.
Lose(r, d) ==
    /\ phase[r] = "waiting"
    /\ Full(d)
    /\ Purge(d)
    /\ IF MaxQueued = 0 THEN Go(r, "leaving") ELSE UNCHANGED phase
    /\ UNCHANGED <<policy, mode, renewal, age, counters>>

\* A call fails ("failed") or its caller is cancelled ("leaving"), and the
\* script may have run: the lease it wrote belongs to nobody.
GiveUp(r) ==
    /\ phase[r] = "waiting"
    /\ Go(r, "leaving") \/ Go(r, "failed")
    /\ UNCHANGED store \/ \E d \in 0..Lag : Write(r, d)
    /\ UNCHANGED <<policy, mode, renewal, age, counters>>

BugLeave(r) ==
    /\ phase[r] \in {"leaving", "failed"}
    /\ LockFree(r)
    /\ Go(r, IF phase[r] = "failed" THEN "fallback" ELSE "refused")
    /\ UNCHANGED <<policy, store, mode, renewal, age, counters>>

\* The `finally` of both acquires, for a caller that did not get in.
Leave(r) ==
    /\ phase[r] \in {"leaving", "failed"}
    /\ LockFree(r)
    /\ Go(r, IF phase[r] = "failed" THEN "fallback" ELSE "refused")
    /\ queued' = Lower(queued, r)
    /\ UNCHANGED <<policy, store, mode, renewal, age, inflight, permits>>

\* The same for one that did; a Redis lease starts its renewal.
Enter(r) ==
    /\ phase[r] \in {"leased", "permitted"}
    /\ LockFree(r)
    /\ Go(r, "running")
    /\ queued' = Lower(queued, r)
    /\ inflight' = Raise(inflight, r)
    /\ IF phase[r] = "leased"
       THEN /\ mode' = [mode EXCEPT ![r] = "redis"]
            /\ renewal' = [renewal EXCEPT ![r] = "asleep"]
       ELSE /\ mode' = [mode EXCEPT ![r] = "local"]
            /\ UNCHANGED renewal
    /\ UNCHANGED <<policy, store, age, permits>>

GoesLocal(r) ==
    \/ phase[r] = "fallback" /\ policy = "degraded"
    \/ phase[r] = "new" /\ policy = "local"

\* A caller is cancelled while it waits for the lock, and never counts: the ticket
\* it had stays in `_queued`, a permit with it; a lease runs out, and what release()
\* gave back stays in `_inflight`.  On its way in it had nothing yet.
CutOff(r) ==
    /\ Contended(r)
    /\ \/ (phase[r] = "new" \/ GoesLocal(r)) /\ Go(r, "refused")
       \/ phase[r] \in {"leaving", "failed", "leased"} /\ Go(r, "ticket_left")
       \/ phase[r] = "permitted" /\ Go(r, "permit_left")
       \/ phase[r] = "undoing" /\ Go(r, "unreleased")
    /\ age' = [age EXCEPT ![r] = 0]
    /\ UNCHANGED <<policy, store, mode, renewal, counters>>

-----------------------------------------------------------------------------
(* _acquire_unavailable and _acquire_local                                 *)

Unavailable(r) ==
    /\ phase[r] = "fallback"
    /\ \/ policy = "fail_closed" /\ Go(r, "refused") /\ UNCHANGED mode
       \/ /\ policy = "fail_open"
          /\ Go(r, "running")
          /\ mode' = [mode EXCEPT ![r] = "fail_open"]
    /\ UNCHANGED <<policy, store, renewal, age, counters>>

LocalTicket(r) ==
    /\ GoesLocal(r)
    /\ LockFree(r)
    /\ IF inflight[Home[r]] >= Limit /\ queued[Home[r]] >= MaxQueued
       THEN Go(r, "refused") /\ UNCHANGED queued
       ELSE Go(r, "local") /\ queued' = Raise(queued, r)
    /\ UNCHANGED <<policy, store, mode, renewal, age, inflight, permits>>

Permit(r) ==
    /\ phase[r] = "local"
    /\ permits[Home[r]] > 0
    /\ Go(r, "permitted")
    /\ permits' = [permits EXCEPT ![Home[r]] = @ - 1]
    /\ UNCHANGED <<policy, store, mode, renewal, age, queued, inflight>>

CancelLocal(r) ==
    /\ phase[r] = "local"
    /\ Go(r, "leaving")
    /\ UNCHANGED <<policy, store, mode, renewal, age, counters>>

-----------------------------------------------------------------------------
(* _renew_loop and release                                                 *)

SendRenewal(r) ==
    /\ phase[r] \in Held
    /\ renewal[r] = "asleep"
    /\ renewal' = [renewal EXCEPT ![r] = "sent"]
    /\ UNCHANGED <<policy, store, phase, mode, age, counters>>

\* The script runs.  A task that was cancelled by release() is not there to
\* read the answer; one that is sleeps again, or ends when the lease is gone.
Renew(r, d) ==
    /\ renewal[r] = "sent"
    /\ Extend(r, d)
    /\ renewal' = [renewal EXCEPT ![r] =
                      IF phase[r] \notin Held THEN "none"
                      ELSE IF r \in leases THEN "asleep" ELSE "stopped"]
    /\ age' = [age EXCEPT ![r] = 0]
    /\ UNCHANGED <<policy, phase, mode, counters>>

\* The call fails, before or after the script ran: the task ends for good.
RenewFails(r) ==
    /\ renewal[r] = "sent"
    /\ UNCHANGED store \/ \E d \in 0..Lag : Extend(r, d)
    /\ renewal' = [renewal EXCEPT ![r] = IF phase[r] \in Held THEN "stopped" ELSE "none"]
    /\ age' = [age EXCEPT ![r] = 0]
    /\ UNCHANGED <<policy, phase, mode, counters>>

\* The handler ends without release(), as a cancelled one does (ChatLifecycle): the
\* renewal task knows nothing of it and goes on.
Abandon(r) ==
    /\ phase[r] = "running"
    /\ Go(r, "orphaned")
    /\ UNCHANGED <<policy, store, mode, renewal, age, counters>>

\* release() cancels the task; a renewal that was sent stays on its way.
Release(r) ==
    /\ phase[r] = "running"
    /\ renewal' = [renewal EXCEPT ![r] = IF @ = "sent" THEN "sent" ELSE "none"]
    /\ age' = [age EXCEPT ![r] = 0]
    /\ \/ mode[r] = "redis" /\ Go(r, "releasing") /\ UNCHANGED permits
       \/ mode[r] = "local" /\ Go(r, "undoing") /\ permits' = Raise(permits, r)
       \/ mode[r] = "fail_open" /\ Go(r, "ended") /\ UNCHANGED permits
    /\ UNCHANGED <<policy, store, mode, queued, inflight>>

\* The release script.  With its answer the local counter is lowered.
Free(r) ==
    /\ phase[r] = "releasing"
    /\ Keep(leases \ {r})
    /\ Go(r, "undoing")
    /\ UNCHANGED <<policy, mode, renewal, age, counters>>

\* The call fails or its caller is cancelled, before or after the script ran: the
\* exception skips the local counter.
FreeFails(r) ==
    /\ phase[r] = "releasing"
    /\ UNCHANGED store \/ Keep(leases \ {r})
    /\ Go(r, "unreleased")
    /\ UNCHANGED <<policy, mode, renewal, age, counters>>

Undo(r) ==
    /\ phase[r] = "undoing"
    /\ LockFree(r)
    /\ inflight' = Lower(inflight, r)
    /\ Go(r, "ended")
    /\ UNCHANGED <<policy, store, mode, renewal, age, queued, permits>>

-----------------------------------------------------------------------------
(* The world                                                               *)

\* inflight_count(), and the keys' own expiry after four times the TTL, which
\* drops only leases that expired.
Count(d) ==
    /\ Purge(d)
    /\ UNCHANGED <<policy, phase, mode, renewal, age, counters>>

\* A gateway stops and starts again; a call it sent may still arrive.
Crash(g) ==
    LET lost == At(g, Phases \ {"new", "ended", "refused", "dead"}) IN
    /\ lost # {}
    /\ phase' = [r \in Req |-> IF r \in lost THEN "dead" ELSE phase[r]]
    /\ renewal' = [r \in Req |-> IF r \in lost /\ renewal[r] # "sent" THEN "none" ELSE renewal[r]]
    /\ age' = [r \in Req |-> IF r \in lost THEN 0 ELSE age[r]]
    /\ queued' = [queued EXCEPT ![g] = 0]
    /\ inflight' = [inflight EXCEPT ![g] = 0]
    /\ permits' = [permits EXCEPT ![g] = Limit]
    /\ UNCHANGED <<policy, store, mode>>

\* Those whose lease is being kept up.
Kept == Renewing \cup {r \in Req : phase[r] = "leased"}

\* A renewal that works is in time; a lease that expired longer than Lag ago
\* is expired for every caller.
Tick ==
    /\ \A r \in Kept : age[r] < Interval
    /\ age' = [r \in Req |-> IF r \in Kept THEN age[r] + 1 ELSE age[r]]
    /\ left' = [r \in Req |-> IF r \in leases /\ left[r] > -Lag THEN left[r] - 1 ELSE left[r]]
    /\ UNCHANGED <<policy, leases, phase, mode, renewal, counters>>

-----------------------------------------------------------------------------
Init ==
    /\ policy \in Policies
    /\ leases = {}
    /\ left = [r \in Req |-> 0]
    /\ phase = [r \in Req |-> "new"]
    /\ mode = [r \in Req |-> "none"]
    /\ renewal = [r \in Req |-> "none"]
    /\ age = [r \in Req |-> 0]
    /\ queued = [g \in Gateway |-> 0]
    /\ inflight = [g \in Gateway |-> 0]
    /\ permits = [g \in Gateway |-> Limit]

Scripted(r, d) == Probe(r, d) \/ Grant(r, d) \/ Lose(r, d) \/ Renew(r, d)

Stepped(r) ==
    \/ Begin(r) \/ ProbeFails(r) \/ GiveUp(r) \/ Leave(r) \/ Enter(r) \/ CutOff(r)
    \/ Unavailable(r) \/ LocalTicket(r) \/ Permit(r) \/ CancelLocal(r)
    \/ SendRenewal(r) \/ RenewFails(r) \/ Abandon(r)
    \/ Release(r) \/ Free(r) \/ FreeFails(r) \/ Undo(r)

Next ==
    \/ \E r \in Req : Stepped(r)
    \/ \E r \in Req, d \in 0..Lag : Scripted(r, d)
    \/ \E d \in 0..Lag : Count(d)
    \/ \E g \in Gateway : Crash(g)
    \/ Tick

\* Time passes, gateways run the tasks that can run, a call is answered or
\* fails, polling goes on, and a request that runs ends (its upstream call
\* has a timeout).  Nothing makes a request come, be cancelled or a gateway
\* stop.
Fairness ==
    /\ WF_vars(Tick)
    /\ \A r \in Req :
        /\ WF_vars(\E d \in 0..Lag : Probe(r, d)) /\ WF_vars(\E d \in 0..Lag : Grant(r, d))
        /\ WF_vars(Leave(r)) /\ WF_vars(Enter(r))
        /\ WF_vars(Unavailable(r)) /\ WF_vars(LocalTicket(r)) /\ WF_vars(Permit(r))
        /\ WF_vars(SendRenewal(r)) /\ WF_vars(\E d \in 0..Lag : Renew(r, d))
        /\ WF_vars(Release(r)) /\ WF_vars(Free(r)) /\ WF_vars(Undo(r))

Spec == Init /\ [][Next]_vars /\ Fairness

-----------------------------------------------------------------------------
(* Properties                                                              *)

\* Types.
TypeOK ==
    /\ policy \in Policies
    /\ leases \subseteq Req
    /\ left \in [Req -> -Lag..Ttl]
    /\ phase \in [Req -> Phases]
    /\ mode \in [Req -> {"none", "redis", "local", "fail_open"}]
    /\ renewal \in [Req -> {"none", "asleep", "sent", "stopped"}]
    /\ age \in [Req -> 0..Interval]
    /\ queued \in [Gateway -> Nat]
    /\ inflight \in [Gateway -> Nat]
    /\ permits \in [Gateway -> Nat]

\* However the clocks of the callers differ, and whatever arrives late, the
\* store never holds more leases than the tenant's limit.
LeasesBounded == Cardinality(leases) <= Limit

\* Nobody takes away the lease of a running request while its renewal works:
\* a request that lost its place in the fleet is one whose renewal stopped.
HeldWhileRenewing == \A r \in Renewing : mode[r] = "redis" => r \in leases

\* The requests that run on a lease are within the limit of the fleet, but
\* for those whose renewal has stopped.
RunsOnLease == {r \in Req : phase[r] = "running" /\ mode[r] = "redis"}
FleetWithinExcess ==
    Cardinality(RunsOnLease) <= Limit + Cardinality({r \in RunsOnLease : renewal[r] = "stopped"})

\* The counters and the semaphore of a gateway count the requests that hold a
\* ticket, an admission or a permit, and besides exactly those that were cut off
\* from giving theirs back: by a release that failed, by a cancellation at the lock,
\* or by a handler that never called release().
CountersExact ==
    \A g \in Gateway :
        /\ queued[g] = Cardinality(At(g, {"waiting", "leased", "leaving", "failed", "local",
                                          "permitted", "ticket_left", "permit_left"}))
        /\ inflight[g] = Cardinality(At(g, {"unreleased", "undoing"}))
                         + Cardinality({r \in At(g, Held \cup {"releasing"}) :
                                           mode[r] # "fail_open"})
        /\ permits[g] + Cardinality(At(g, {"permitted", "permit_left"}))
                      + Cardinality({r \in At(g, Held) : mode[r] = "local"}) = Limit

\* A lease that was released, purged or never taken is not brought back by a
\* renewal or a release that comes late: only its own acquire writes it.
OnlyAcquireWrites == [][\A r \in leases' \ leases : phase[r] = "waiting"]_vars

\* A caller that waits for a slot gets one or gives up, also when the slots are held
\* by gateways that stopped: their leases run out.  It waits for ever only when the
\* renewals of handlers that never came to release() keep every slot taken.
Orphans == {r \in Renewing : phase[r] = "orphaned" /\ mode[r] = "redis"}
WaiterLeaves ==
    \/ \A r \in Req : []<>(phase[r] # "waiting")
    \/ <>[](Cardinality(Orphans) >= Limit)
=============================================================================

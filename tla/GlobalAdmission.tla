--------------------------- MODULE GlobalAdmission ---------------------------
(***************************************************************************)
(* GlobalAdmissionController (app/gateway/resilience.py): the process-wide *)
(* limit on chat requests.  A request is shed, or it takes a permit of an  *)
(* asyncio.Semaphore, waiting for one in FIFO order.                       *)
(*                                                                         *)
(* The event loop runs one task until it suspends.  The bodies guarded by  *)
(* `_lock` never suspend, so the lock is always free and acquire() is      *)
(* atomic up to the wait for a permit; the step from a permit that was     *)
(* handed over to the waiter that resumes with it is a step of its own,    *)
(* and everybody else may run in between.                                  *)
(***************************************************************************)
EXTENDS Integers, FiniteSets, SequencesExt

CONSTANTS
    Req,          \* the callers
    MaxInflight,  \* GATEWAY_MAX_INFLIGHT
    MaxQueued     \* GATEWAY_MAX_QUEUED

ASSUME LimitsAssumption ==
    /\ IsFiniteSet(Req)
    /\ MaxInflight \in Nat \ {0}
    /\ MaxQueued \in Nat

VARIABLES
    value,     \* the free permits of the semaphore
    waiters,   \* its waiters, in order; one leaves when it resumes
    granted,   \* the waiters that were handed a permit and did not resume yet
    queued,    \* _queued
    inflight,  \* _inflight
    where      \* where each caller is

admission == <<value, waiters, granted, queued, inflight, where>>

\* As in BudgetGuard, a definition whose name starts with Bug is a plausible
\* error in the definition that follows; no action uses it.

Places == {"out", "shed", "waiting", "cancelled", "in"}
At(place) == {r \in Req : where[r] = place}

-----------------------------------------------------------------------------
(* acquire()                                                               *)

BugFull == inflight + queued >= MaxInflight

\* Load shedding.
Full == inflight >= MaxInflight /\ queued >= MaxQueued

Shed(r) ==
    /\ where[r] = "out"
    /\ Full
    /\ where' = [where EXCEPT ![r] = "shed"]
    /\ UNCHANGED <<value, waiters, granted, queued, inflight>>

BugLocked == value = 0

\* Semaphore.locked(): no permit, or somebody is waiting already.
Locked == value = 0 \/ waiters # <<>>

\* A free permit: the ticket in `_queued` is taken and given back at once.
Enter(r) ==
    /\ where[r] = "out"
    /\ ~ Full /\ ~ Locked
    /\ value' = value - 1
    /\ inflight' = inflight + 1
    /\ where' = [where EXCEPT ![r] = "in"]
    /\ UNCHANGED <<waiters, granted, queued>>

Wait(r) ==
    /\ where[r] = "out"
    /\ ~ Full /\ Locked
    /\ waiters' = Append(waiters, r)
    /\ queued' = queued + 1
    /\ where' = [where EXCEPT ![r] = "waiting"]
    /\ UNCHANGED <<value, granted, inflight>>

\* The callers of a queue that hold no permit of `out`.
Idle(queue, out) == {r \in Req \ out : r \in ToSet(queue)}

Before(queue, q, r) == \E i, j \in 1..Len(queue) : i < j /\ queue[i] = q /\ queue[j] = r

\* The first n of them get a permit.
Hand(queue, out, n) ==
    \E S \in SUBSET Idle(queue, out) :
        /\ Cardinality(S) = n
        /\ \A q \in S, r \in Idle(queue, out) \ S : Before(queue, q, r)
        /\ granted' = out \cup S

\* The loop at the end of Semaphore.acquire(): those who arrived while a permit
\* was on its way had to wait even if others were free, and get these now.
HandOut(queue, out, free) ==
    LET idle == Cardinality(Idle(queue, out))
        n == IF free < idle THEN free ELSE idle
    IN  Hand(queue, out, n) /\ value' = free - n

BugTicketKept == queued

TicketGivenBack == IF queued > 0 THEN queued - 1 ELSE 0

\* The waiter runs again with the permit it was handed.
Resume(r) ==
    /\ where[r] = "waiting" /\ r \in granted
    /\ waiters' = RemoveFirst(waiters, r)
    /\ HandOut(waiters', granted \ {r}, value)
    /\ queued' = TicketGivenBack
    /\ inflight' = inflight + 1
    /\ where' = [where EXCEPT ![r] = "in"]

-----------------------------------------------------------------------------
(* release()                                                               *)

BugGiveBack == value' = value + 1 /\ UNCHANGED granted

\* Semaphore.release(): the permit goes to the first waiter without one.
GiveBack ==
    \/ Idle(waiters, granted) = {} /\ value' = value + 1 /\ UNCHANGED granted
    \/ Idle(waiters, granted) # {} /\ Hand(waiters, granted, 1) /\ UNCHANGED value

\* release() does not know who calls it, nor that its caller holds a permit.
Release ==
    /\ GiveBack
    /\ inflight' = IF inflight > 0 THEN inflight - 1 ELSE 0
    /\ UNCHANGED <<waiters, queued>>

Leave(r) ==
    /\ where[r] = "in"
    /\ where' = [where EXCEPT ![r] = "out"]
    /\ Release

-----------------------------------------------------------------------------
(* Cancellation of a waiter                                                *)

\* The task of a waiter is cancelled: one without a permit is out of the queue
\* at once, one that was handed a permit still has it.
Cancel(r) ==
    /\ where[r] = "waiting"
    /\ waiters' = IF r \in granted THEN waiters ELSE RemoveFirst(waiters, r)
    /\ where' = [where EXCEPT ![r] = "cancelled"]
    /\ UNCHANGED <<value, granted, queued, inflight>>

BugUnusedPermit(r) == 0

\* What a cancelled waiter puts back.
UnusedPermit(r) == IF r \in granted THEN 1 ELSE 0

\* It runs again to unwind: its permit goes to the next in line.
Unwind(r) ==
    /\ where[r] = "cancelled"
    /\ waiters' = RemoveFirst(waiters, r)
    /\ HandOut(waiters', granted \ {r}, value + UnusedPermit(r))
    /\ queued' = TicketGivenBack
    /\ where' = [where EXCEPT ![r] = "out"]
    /\ UNCHANGED inflight

\* A caller that was shed may come again.
Retry(r) ==
    /\ where[r] = "shed"
    /\ where' = [where EXCEPT ![r] = "out"]
    /\ UNCHANGED <<value, waiters, granted, queued, inflight>>

-----------------------------------------------------------------------------
AdmissionInit ==
    /\ value = MaxInflight
    /\ waiters = <<>>
    /\ granted = {}
    /\ queued = 0
    /\ inflight = 0
    /\ where = [r \in Req |-> "out"]

AdmissionNext ==
    \E r \in Req :
        \/ Shed(r) \/ Enter(r) \/ Wait(r) \/ Resume(r)
        \/ Leave(r) \/ Cancel(r) \/ Unwind(r) \/ Retry(r)

\* A task that can run is run by the event loop, and a request ends (upstream
\* calls have a timeout).  Nobody has to come, come again, or be cancelled.
AdmissionFairness ==
    \A r \in Req : WF_admission(Resume(r)) /\ WF_admission(Unwind(r)) /\ WF_admission(Leave(r))

AdmissionSpec == AdmissionInit /\ [][AdmissionNext]_admission /\ AdmissionFairness

-----------------------------------------------------------------------------
(* Properties                                                              *)

AdmissionTypeOK ==
    /\ value \in 0..MaxInflight
    /\ waiters \in Seq(Req)
    /\ granted \subseteq Req
    /\ queued \in 0..Cardinality(Req)
    /\ inflight \in 0..MaxInflight
    /\ where \in [Req -> Places]

\* The queue holds whoever waits, and a cancelled caller as long as it has a
\* permit to pass on; nobody is in it twice.
QueueExact ==
    /\ ToSet(waiters) = At("waiting") \cup granted
    /\ granted \subseteq At("waiting") \cup At("cancelled")
    /\ \A i, j \in 1..Len(waiters) : waiters[i] = waiters[j] => i = j

\* No permit is lost or made, through any interleaving of releases, hand-overs
\* and cancelled waits: each is free, on its way to a waiter, or in use.  Nor
\* does a free one lie beside a waiter unnoticed: a caller with a permit on its
\* way is still to resume or unwind, and hands out the others when it does.
PermitsConserved ==
    /\ value + Cardinality(granted) + Cardinality(At("in")) = MaxInflight
    /\ value > 0 /\ Idle(waiters, granted) # {} => granted # {}

\* The two counters that decide about shedding are the truth about the callers,
\* although they are updated in other steps than the semaphore.
CountersExact ==
    /\ inflight = Cardinality(At("in"))
    /\ queued = Cardinality(At("waiting")) + Cardinality(At("cancelled"))

\* A caller is shed only if every permit is in use and the queue is full.
ShedJustified ==
    [][\A r \in Req : where[r] = "out" /\ where'[r] = "shed" =>
          /\ Cardinality(At("in")) = MaxInflight
          /\ Cardinality(At("waiting")) + Cardinality(At("cancelled")) >= MaxQueued]_admission

\* Permits go out in the order of arrival: nobody who arrives takes one while
\* others wait for one, and a waiter that is handed one came before all that are
\* left without, whoever was cancelled in between.
NoOvertaking ==
    [][/\ \A r \in Req : where[r] = "out" /\ where'[r] = "in" => waiters = <<>>
       /\ \A r \in granted' \ granted, q \in Idle(waiters', granted') :
             Before(waiters', r, q)]_admission

\* A waiter does not wait for ever.
WaiterServed == \A r \in Req : where[r] = "waiting" ~> where[r] # "waiting"
=============================================================================

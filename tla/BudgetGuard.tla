----------------------------- MODULE BudgetGuard -----------------------------
(***************************************************************************)
(* The inference budget guard (app/gateway/budget_guard.py), one scope:    *)
(* each request reserves its estimated cost before the upstream model is   *)
(* called, and settles what it really cost afterwards.                     *)
(*                                                                         *)
(* In Redis the three Lua scripts (reserve, settle, purge) run atomically, *)
(* so each is one action.  Around them the calls of many gateway processes *)
(* interleave: every script carries the wall clock of its caller, read     *)
(* before the call was sent, a call may be lost or its answer may be lost  *)
(* (the store timeout), a gateway may stop and never settle, and the keys  *)
(* of an idle scope expire.  A gateway without Redis does the same in its  *)
(* own memory, in a section that awaits nothing and with its own clock; it *)
(* never drops the scope, but forgets each tombstone after a time.         *)
(***************************************************************************)
EXTENDS Integers, Totals

CONSTANTS
    Req,        \* the requests of the scope; each has one reservation id
    Estimate,   \* what each request reserves
    MaxCharge,  \* bound: no estimate and no real cost is above it
    Budget,     \* the cap of the scope
    Window,     \* length of the spend window
    Ttl,        \* life of a reservation
    PurgeLife,  \* life of a tombstone that a purge in memory leaves: 4 hours,
                \* whatever the window
    Lag,        \* how far a caller's clock reading may be behind the store's
                \* when its script runs (clock skew and time on the wire)
    MaxClock    \* bound: the time at which the model stops its clock

ASSUME ConstantsAssumption ==
    /\ IsFiniteSet(Req)
    /\ MaxCharge \in Nat
    /\ Estimate \in [Req -> 0..MaxCharge]
    /\ Budget \in Nat \ {0}
    /\ Window \in Nat \ {0}
    /\ Ttl \in Nat \ {0}
    /\ PurgeLife \in Nat \ {0}
    /\ Lag \in Nat
    /\ MaxClock \in Nat

VARIABLES
    clock,        \* the store's clock
    backend,      \* "redis" or "memory", fixed when the gateway starts
    windowStart,  \* window hash: 0 when no window was opened
    committed,    \* window hash: settled spend of the window
    reserved,     \* window hash: the sum of the live reservations
    expiry,       \* the zset: id -> expiry, 0 when the id is not a member
    amounts,      \* the amounts hash: "live" stands for the estimate of the
                  \* request, "tomb" for the same amount marked with an x
    deadline,     \* when Redis drops the three keys, 0 when there are none
    forget,       \* memory: when each tombstone is forgotten, 0 if there is none
    handle,       \* the BudgetReservation object of each request
    executed      \* its `executed` flag

store == <<windowStart, committed, reserved, expiry, amounts, deadline, forget>>

\* History, kept for the properties only; no guard reads it.
VARIABLES
    reservedAt,   \* the store's clock when a reservation was written, 0 when
                  \* it was settled
    bill,         \* what each request committed in the current window
    uncovered     \* the part of its bill that was not held when it settled

history == <<reservedAt, bill, uncovered>>
vars == <<clock, backend, store, handle, executed, history>>

HandleStates == {"new", "held", "over_budget", "unavailable", "settled"}

\* The definitions whose name starts with Bug are plausible errors in the
\* definition that follows each of them.  No action uses them.

Monus(a, b) == IF a > b THEN a - b ELSE 0
Longest == IF Window > Ttl THEN Window ELSE Ttl
KeysTtl == 4 * Longest
Nothing == [r \in Req |-> 0]
Sum(f, S) == Total(f, S, MaxCharge)

-----------------------------------------------------------------------------
(* What the scripts share                                                  *)

\* The clock readings a call that runs now may carry.
Stamps ==
    IF backend = "memory" THEN {clock} ELSE {t \in 1..clock : t + Lag >= clock}

BugExpiredEarly(now) == {r \in Req : expiry[r] # 0 /\ expiry[r] <= now + Lag + 1}
BugExpiredLate(now)  == {r \in Req : expiry[r] # 0 /\ expiry[r] < now}

\* ZRANGEBYSCORE -inf now
Expired(now) == {r \in Req : expiry[r] # 0 /\ expiry[r] <= now}

\* The tombstones that _expire_memory() forgets.
Stale(now) == {r \in Req : forget[r] # 0 /\ forget[r] <= now}

BugForget(now) == [r \in Req |-> IF r \in Expired(now) THEN "none" ELSE amounts[r]]

\* expire(): a reservation whose time passed leaves a tombstone, leaves the
\* zset, and its amount leaves `reserved`.
AmountsAfter(now) ==
    [r \in Req |-> IF r \in Expired(now) THEN "tomb"
                   ELSE IF r \in Stale(now) THEN "none" ELSE amounts[r]]

ExpiryAfter(now)   == [r \in Req |-> IF r \in Expired(now) THEN 0 ELSE expiry[r]]
ReservedAfter(now) == Monus(reserved, Sum(Estimate, Expired(now)))
ForgetAfter(now, life) ==
    [r \in Req |-> IF r \in Stale(now) THEN 0
                   ELSE IF backend = "memory" /\ r \in Expired(now) THEN now + life
                   ELSE forget[r]]

\* PEXPIRE
DeadlineAfter == IF backend = "memory" THEN 0 ELSE clock + KeysTtl

Rolls(now) == windowStart = 0 \/ now - windowStart >= Window
WindowAt(now)    == IF Rolls(now) THEN now ELSE windowStart

BugNoReset(now)  == committed

\* A new window starts with nothing committed; what is reserved carries over.
CommittedAt(now) == IF Rolls(now) THEN 0 ELSE committed

\* History follows the window.
Kept(f, now) == IF Rolls(now) THEN Nothing ELSE f

BugFits(r, now) == CommittedAt(now) + ReservedAfter(now) <= Budget

Fits(r, now) == CommittedAt(now) + ReservedAfter(now) + Estimate[r] <= Budget

-----------------------------------------------------------------------------
(* Reserve                                                                 *)

\* The reserve script, or _reserve_memory(), granting r.
Grant(r, now) ==
    /\ Fits(r, now)
    /\ windowStart' = WindowAt(now)
    /\ committed' = CommittedAt(now)
    /\ reserved' = ReservedAfter(now) + Estimate[r]
    /\ expiry' = [ExpiryAfter(now) EXCEPT ![r] = now + Ttl]
    /\ amounts' = [AmountsAfter(now) EXCEPT ![r] = "live"]
    /\ deadline' = DeadlineAfter
    /\ forget' = ForgetAfter(now, KeysTtl)
    /\ reservedAt' = [reservedAt EXCEPT ![r] = clock]
    /\ bill' = Kept(bill, now)
    /\ uncovered' = Kept(uncovered, now)

\* The same, refusing r: what it expired and rolled over is saved.
Refuse(r, now) ==
    /\ ~ Fits(r, now)
    /\ windowStart' = WindowAt(now)
    /\ committed' = CommittedAt(now)
    /\ reserved' = ReservedAfter(now)
    /\ expiry' = ExpiryAfter(now)
    /\ amounts' = AmountsAfter(now)
    /\ deadline' = DeadlineAfter
    /\ forget' = ForgetAfter(now, KeysTtl)
    /\ bill' = Kept(bill, now)
    /\ uncovered' = Kept(uncovered, now)
    /\ UNCHANGED reservedAt

Answer(r, state) ==
    /\ handle[r] = "new"
    /\ handle' = [handle EXCEPT ![r] = state]
    /\ UNCHANGED <<clock, backend, executed>>

ReserveAllow(r) == Answer(r, "held") /\ \E now \in Stamps : Grant(r, now)

ReserveDeny(r) == Answer(r, "over_budget") /\ \E now \in Stamps : Refuse(r, now)

\* The script ran but its caller gave up waiting (store_timeout): the request
\* is denied and nobody will ever settle its reservation.
ReserveOrphaned(r) ==
    backend = "redis" /\ Answer(r, "unavailable") /\ \E now \in Stamps : Grant(r, now)

\* The store was not reached: fail closed.
ReserveUnreached(r) ==
    backend = "redis" /\ Answer(r, "unavailable") /\ UNCHANGED <<store, history>>

-----------------------------------------------------------------------------
(* Settle                                                                  *)

BugFreedAgain(r) == Monus(reserved, Estimate[r])

\* `reserved` without r; the amount of a tombstone was given back already.
ReservedWithout(r) ==
    IF amounts[r] = "live" THEN Monus(reserved, Estimate[r]) ELSE reserved

\* Settling an id that is known.  It expires nothing and leaves the deadline of
\* the keys alone.
Book(r, cost, now) ==
    /\ amounts[r] # "none"
    /\ windowStart' = WindowAt(now)
    /\ committed' = CommittedAt(now) + cost
    /\ reserved' = ReservedWithout(r)
    /\ expiry' = [expiry EXCEPT ![r] = 0]
    /\ amounts' = [amounts EXCEPT ![r] = "none"]
    /\ forget' = [forget EXCEPT ![r] = 0]
    /\ bill' = [Kept(bill, now) EXCEPT ![r] = cost]
    /\ uncovered' = [Kept(uncovered, now) EXCEPT
                        ![r] = IF amounts[r] = "live" THEN Monus(cost, Estimate[r]) ELSE cost]
    /\ reservedAt' = [reservedAt EXCEPT ![r] = 0]
    /\ UNCHANGED deadline

\* An unknown id is a no-op, and so is a call that does not reach the store:
\* _settle() swallows the exception and the cost is never booked.
Miss == UNCHANGED <<store, history>>

\* The handle is settled before the call is sent, so it is settled only once.
Settle(r, cost) ==
    /\ handle[r] = "held"
    /\ handle' = [handle EXCEPT ![r] = "settled"]
    /\ UNCHANGED <<clock, backend, executed>>
    /\ \/ \E now \in Stamps : Book(r, cost, now)
       \/ (backend = "redis" \/ amounts[r] = "none") /\ Miss

\* The upstream model is about to be called.
MarkExecuted(r) ==
    /\ handle[r] = "held"
    /\ ~ executed[r]
    /\ executed' = [executed EXCEPT ![r] = TRUE]
    /\ UNCHANGED <<clock, backend, store, handle, history>>

\* settle(actual); chat.py prices the answer of a model it called.
SettleActual(r) == executed[r] /\ \E cost \in 0..MaxCharge : Settle(r, cost)

\* settle(None), and abandon() after the call: charged at the estimate.
SettleUnknown(r) == executed[r] /\ Settle(r, Estimate[r])

\* release(), and abandon() before the call.
Release(r) == Settle(r, 0)

-----------------------------------------------------------------------------
(* Purge, time                                                             *)

\* purge_expired() and snapshot_micros()
Purge ==
    \E now \in Stamps :
        /\ Expired(now) \cup Stale(now) # {}
        /\ reserved' = ReservedAfter(now)
        /\ expiry' = ExpiryAfter(now)
        /\ amounts' = AmountsAfter(now)
        /\ forget' = ForgetAfter(now, PurgeLife)
        /\ UNCHANGED <<clock, backend, windowStart, committed, deadline, handle, executed,
                       history>>

Tick ==
    /\ clock < MaxClock
    /\ deadline # 0 => clock + 1 < deadline
    /\ clock' = clock + 1
    /\ UNCHANGED <<backend, store, handle, executed, history>>

\* PEXPIRE: the three keys of a scope that admitted nobody for KeysTtl go.
DropKeys ==
    /\ clock < MaxClock
    /\ deadline # 0 /\ clock + 1 >= deadline
    /\ clock' = clock + 1
    /\ windowStart' = 0 /\ committed' = 0 /\ reserved' = 0 /\ deadline' = 0
    /\ expiry' = Nothing /\ forget' = Nothing
    /\ amounts' = [r \in Req |-> "none"]
    /\ bill' = Nothing /\ uncovered' = Nothing
    /\ UNCHANGED <<backend, reservedAt, handle, executed>>

-----------------------------------------------------------------------------
Init ==
    /\ clock = 1
    /\ backend \in {"redis", "memory"}
    /\ windowStart = 0 /\ committed = 0 /\ reserved = 0 /\ deadline = 0
    /\ expiry = Nothing /\ forget = Nothing
    /\ amounts = [r \in Req |-> "none"]
    /\ handle = [r \in Req |-> "new"]
    /\ executed = [r \in Req |-> FALSE]
    /\ reservedAt = Nothing
    /\ bill = Nothing /\ uncovered = Nothing

RequestStep(r) ==
    \/ ReserveAllow(r) \/ ReserveDeny(r) \/ ReserveOrphaned(r) \/ ReserveUnreached(r)
    \/ MarkExecuted(r)
    \/ SettleActual(r) \/ SettleUnknown(r) \/ Release(r)

Next ==
    \/ \E r \in Req : RequestStep(r)
    \/ Purge
    \/ Tick
    \/ DropKeys

Spec == Init /\ [][Next]_vars

-----------------------------------------------------------------------------
(* Properties                                                              *)

Live == {r \in Req : amounts[r] = "live"}
Tombs == {r \in Req : amounts[r] = "tomb"}

\* Every variable has its type; in particular `reserved` never goes below 0,
\* the case expire() and the settle script clamp.
TypeOK ==
    /\ clock \in Nat \ {0}
    /\ windowStart \in Nat /\ committed \in Nat /\ reserved \in Nat /\ deadline \in Nat
    /\ backend \in {"redis", "memory"}
    /\ expiry \in [Req -> Nat] /\ forget \in [Req -> Nat]
    /\ amounts \in [Req -> {"none", "live", "tomb"}]
    /\ handle \in [Req -> HandleStates]
    /\ executed \in [Req -> BOOLEAN]
    /\ reservedAt \in [Req -> Nat]
    /\ bill \in [Req -> 0..MaxCharge]
    /\ uncovered \in [Req -> 0..MaxCharge]

\* The `reserved` counter, kept by increments and decrements in three scripts,
\* is at all times the sum of the reservations that are live in the other two
\* keys: no settle, expiry, purge, rollover or orphan makes it drift, so room
\* is neither leaked nor given out twice.
ReservedIsHeld == reserved = Sum(Estimate, Live)

\* The ledger closes: `committed` is the sum of what each request of the window
\* was billed, through rollovers made by any script with any clock reading.
BooksMatchBills == committed = Sum(bill, Req)

\* The cap.  Spend and holds together pass the budget only by the part of the
\* bills that nobody held room for: cost above the estimate, and the whole of
\* a bill that came after its reservation expired.
CapWithinExcess == committed + reserved <= Budget + Sum(uncovered, Req)

\* A request that is still running keeps its room for the life of its
\* reservation, whatever clocks other gateways read, up to the Lag.
HoldKept ==
    \A r \in Req :
        handle[r] = "held" /\ clock + Lag < reservedAt[r] + Ttl => amounts[r] = "live"

\* How long a record is found: as long as the keys, but in memory a purge leaves
\* tombstones that may live shorter.
RecordLife ==
    IF backend = "memory" /\ Ttl + PurgeLife < KeysTtl THEN Ttl + PurgeLife ELSE KeysTtl

\* Its record outlives the reservation: for RecordLife a settle finds the id, live
\* or as a tombstone, so that a late answer is billed and not forgotten.
RecordKept ==
    \A r \in Req :
        handle[r] = "held" /\ clock < reservedAt[r] + RecordLife => amounts[r] # "none"

\* A refusal (429) is never the fault of stale data: when it is given, the spend
\* it counted belongs to a window that is still open, every hold it counted is
\* younger than its life (both up to the Lag), and these leave no room.
RefusalJustified ==
    [][\A r \in Req : handle[r] = "new" /\ handle'[r] = "over_budget" =>
          /\ committed' + Sum(Estimate, Live') + Estimate[r] > Budget
          /\ clock < windowStart' + Window + Lag
          /\ \A q \in Live' : clock < reservedAt[q] + Ttl + Lag]_vars

\* The ledger that the keys of the scope stand for: a request that was granted
\* and told so may be charged, every other one that was answered is over.
LedgerStatus ==
    [r \in Req |-> IF handle[r] = "new" THEN "asking"
                   ELSE IF handle[r] = "held" THEN "holding" ELSE "over"]

Ledger == INSTANCE BudgetLedger WITH
    status <- LedgerStatus, held <- Live, lapsed <- Tombs, bill <- bill

\* Both backends, with counters that three operations update, clocks that disagree,
\* lost calls and records that expire, do what a ledger would do that adds up its
\* entries every time it is asked: admit only where there is room, refuse only
\* where there is none, charge a request once and for its own hold.
ImplementsLedger == Ledger!Spec
=============================================================================

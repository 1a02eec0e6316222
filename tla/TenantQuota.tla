----------------------------- MODULE TenantQuota -----------------------------
(***************************************************************************)
(* The quota counters of one tenant (app/gateway/tenant.py): requests of   *)
(* the last minute, and tokens and spend of the day.  A request counts its *)
(* estimate before it is governed, takes it back when governance refuses   *)
(* it, and is corrected to its real usage when it was answered.            *)
(*                                                                         *)
(* Tokens and spend are kept side by side by the same code, so one amount  *)
(* stands for both.  On the Redis backend each Lua script is one action    *)
(* and carries the time and the day its caller read before the call; the   *)
(* in-memory backend of a single process reads its own clock.              *)
(***************************************************************************)
EXTENDS Integers, Totals

CONSTANTS
    Req,        \* the requests of the tenant; each has one member id
    Estimate,   \* what each request counts before it runs
    MaxCharge,  \* bound: no estimate and no real usage is above it
    Day,        \* length of a day
    Window,     \* WINDOW_SECONDS
    Lag,        \* how far a caller's clock may be behind the store's
    MaxClock    \* bound: the time at which the model stops its clock

ASSUME QuotaAssumption ==
    /\ IsFiniteSet(Req)
    /\ MaxCharge \in Nat
    /\ Estimate \in [Req -> 0..MaxCharge]
    /\ Day \in Nat \ {0}
    /\ Window \in Nat \ {0}
    /\ Lag \in Nat
    /\ MaxClock \in Nat

VARIABLES
    clock,    \* the clock of the store
    backend,  \* "redis" or "memory", fixed when the gateway starts
    rate,     \* the minute: the stamp of each member, 0 when it has none
    day,      \* the day the amount belongs to, 0 when nothing was counted yet
    amount    \* tokens_today (and spend_usd)

\* History, kept for the properties only; no guard reads it.
VARIABLES
    countedAt,  \* the store's clock when a request was counted, 0 when it was
                \* not, or was taken back
    share,      \* what each request stands for in the amount since its reset
    fresh,      \* the requests that were counted since that reset
    over, under \* what the others, counted before it, added to the amount or
                \* took off it

counters == <<rate, day, amount>>
drift == <<share, fresh, over, under>>
quotaVars == <<clock, backend, counters, countedAt, drift>>

Monus(a, b) == IF a > b THEN a - b ELSE 0
Nothing == [r \in Req |-> 0]
Sum(f) == Total(f, Req, MaxCharge)

-----------------------------------------------------------------------------
(* What the operations share                                               *)

\* The clock readings a call that runs now may carry.
Stamps ==
    IF backend = "memory" THEN {clock} ELSE {t \in 1..clock : t + Lag >= clock}

\* _today(), counted from 1.
Today(now) == (now \div Day) + 1

BugInWindow(now) == {r \in Req : rate[r] # 0 /\ rate[r] + Lag > now}

\* What ZREMRANGEBYSCORE, or _prune_window(), leaves: the first drops a stamp
\* that is exactly a window old, the second keeps it.
InWindow(now) ==
    {r \in Req : /\ rate[r] # 0
                 /\ \/ rate[r] + Window > now
                    \/ backend = "memory" /\ rate[r] + Window = now}

Pruned(now) == [r \in Req |-> IF r \in InWindow(now) THEN rate[r] ELSE 0]

BugAmountAt(now) == amount

\* A new day starts at 0; so does a day that a caller with a slow clock makes
\* current again.
Rolls(now) == day # Today(now)
AmountAt(now) == IF Rolls(now) THEN 0 ELSE amount

\* History follows the reset.
Kept(f, now) == IF Rolls(now) THEN Nothing ELSE f
FreshAt(now) == IF Rolls(now) THEN {} ELSE fresh

-----------------------------------------------------------------------------
(* The operations                                                          *)

\* reserve_request()
Count(r) ==
    \E now \in Stamps :
        /\ rate' = [Pruned(now) EXCEPT ![r] = now]
        /\ day' = Today(now)
        /\ amount' = AmountAt(now) + Estimate[r]
        /\ countedAt' = [countedAt EXCEPT ![r] = clock]
        /\ share' = [Kept(share, now) EXCEPT ![r] = Estimate[r]]
        /\ fresh' = FreshAt(now) \cup {r}
        /\ over' = Kept(over, now) /\ under' = Kept(under, now)
        /\ UNCHANGED <<clock, backend>>

\* What r changes in the amount it is no part of any more, or still is.
Stands(r, now, usage) ==
    IF r \in FreshAt(now)
    THEN /\ share' = [Kept(share, now) EXCEPT ![r] = usage]
         /\ over' = Kept(over, now) /\ under' = Kept(under, now)
    ELSE /\ share' = Kept(share, now)
         /\ over' = [Kept(over, now) EXCEPT ![r] = Monus(usage, Estimate[r])]
         /\ under' = [Kept(under, now) EXCEPT ![r] = Monus(Estimate[r], usage)]

\* refund_reservation() in memory: _get() prunes the minute and opens the day,
\* and the estimate leaves today's amount, whichever day it was counted on.
RefundMemory(r, now) ==
    /\ rate' = [Pruned(now) EXCEPT ![r] = 0]
    /\ day' = Today(now)
    /\ amount' = Monus(AmountAt(now), Estimate[r])
    /\ Stands(r, now, 0)
    /\ fresh' = FreshAt(now)

\* The refund script: it changes the amount only while its caller and the hash
\* agree on the day, and never opens one.
RefundRedis(r, now) ==
    /\ rate' = [rate EXCEPT ![r] = 0]
    /\ IF Rolls(now)
       THEN UNCHANGED <<amount, share, over, under>>
       ELSE /\ amount' = Monus(amount, Estimate[r])
            /\ Stands(r, now, 0)
    /\ UNCHANGED <<day, fresh>>

Refund(r) ==
    /\ \E now \in Stamps :
          IF backend = "memory" THEN RefundMemory(r, now) ELSE RefundRedis(r, now)
    /\ countedAt' = [countedAt EXCEPT ![r] = 0]
    /\ UNCHANGED <<clock, backend>>

\* reconcile_usage(): the difference between the usage and the estimate goes to
\* today's amount, whichever day the estimate was counted on.
Reconcile(r, usage) ==
    \E now \in Stamps :
        /\ rate' = IF backend = "memory" THEN Pruned(now) ELSE rate
        /\ day' = Today(now)
        /\ amount' = Monus(AmountAt(now) + usage, Estimate[r])
        /\ Stands(r, now, usage)
        /\ fresh' = FreshAt(now)
        /\ UNCHANGED <<clock, backend, countedAt>>

Tick ==
    /\ clock < MaxClock
    /\ clock' = clock + 1
    /\ UNCHANGED <<backend, counters, countedAt, drift>>

-----------------------------------------------------------------------------
QuotaInit ==
    /\ clock = 1
    /\ backend \in {"redis", "memory"}
    /\ rate = Nothing /\ day = 0 /\ amount = 0
    /\ countedAt = Nothing
    /\ share = Nothing /\ fresh = {} /\ over = Nothing /\ under = Nothing

\* Whatever a caller does with its requests.
QuotaNext ==
    \/ \E r \in Req :
          \/ Count(r) \/ Refund(r)
          \/ \E usage \in 0..MaxCharge : Reconcile(r, usage)
    \/ Tick

QuotaSpec == QuotaInit /\ [][QuotaNext]_quotaVars

-----------------------------------------------------------------------------
(* Properties                                                              *)

\* Every variable has its type.
QuotaTypeOK ==
    /\ clock \in Nat \ {0}
    /\ backend \in {"redis", "memory"}
    /\ rate \in [Req -> Nat] /\ day \in Nat /\ amount \in Nat
    /\ countedAt \in [Req -> Nat]
    /\ share \in [Req -> 0..MaxCharge] /\ fresh \subseteq Req
    /\ over \in [Req -> 0..MaxCharge] /\ under \in [Req -> 0..MaxCharge]

\* The amount that governance is shown, and that clamps and resets by several
\* callers keep changing, is what the requests counted since its reset stand
\* for: their estimates, their real usage once it is known, nothing once they
\* were taken back.  It is off only by the corrections of requests that were
\* counted before the reset, which go to the wrong day.
QuotaWithinDrift ==
    /\ amount <= Sum(share) + Sum(over)
    /\ Sum(share) <= amount + Sum(under)

\* The requests of the last minute that a new one is shown are those that were
\* counted within the window and not taken back, up to the lag of the clocks of
\* the replicas that prune for each other.
RateSeen ==
    [][\A r \in Req : rate[r] # rate'[r] /\ rate'[r] # 0 =>
          \A q \in Req \ {r} :
             /\ countedAt[q] # 0 /\ countedAt[q] + Window > clock + Lag => rate'[q] # 0
             /\ rate'[q] # 0 => countedAt[q] # 0 /\ countedAt[q] + Window + Lag >= clock
      ]_quotaVars
=============================================================================

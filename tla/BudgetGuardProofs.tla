-------------------------- MODULE BudgetGuardProofs --------------------------
(***************************************************************************)
(* Theorems of BudgetGuard, for both backends and every set of requests,   *)
(* estimate, budget, window, lives of reservations and tombstones, and     *)
(* clock lag; the last one is that the guard implements its ledger.        *)
(***************************************************************************)
EXTENDS BudgetGuard, DataLemmas

-----------------------------------------------------------------------------
(* Types                                                                   *)

\* A sum of estimates or bills is a natural number.
LEMMA SumType ==
    ASSUME NEW f, NEW S \in SUBSET Req
    PROVE  IsFiniteSet(S) /\ Sum(f, S) \in Nat
<1>1. IsFiniteSet(S) /\ MaxCharge \in Nat
  BY ConstantsAssumption, FS_Subset DEF ConstantsAssumption
<1> QED
  BY <1>1, TotalType DEF Sum

\* What a script computes before it decides has the types of what it read.
LEMMA ScriptTypes ==
    ASSUME TypeOK, NEW now \in Stamps
    PROVE  /\ now \in Nat /\ now # 0 /\ now <= clock /\ clock <= now + Lag
           /\ Expired(now) \in SUBSET Req
           /\ ReservedAfter(now) \in Nat
           /\ CommittedAt(now) \in Nat
           /\ WindowAt(now) \in Nat
           /\ ExpiryAfter(now) \in [Req -> Nat]
           /\ AmountsAfter(now) \in [Req -> {"none", "live", "tomb"}]
           /\ \A life \in Nat : ForgetAfter(now, life) \in [Req -> Nat]
           /\ Kept(bill, now) \in [Req -> 0..MaxCharge]
           /\ Kept(uncovered, now) \in [Req -> 0..MaxCharge]
<1>1. now \in Nat /\ now # 0 /\ now <= clock /\ clock <= now + Lag
  BY ConstantsAssumption DEF Stamps, TypeOK, ConstantsAssumption
<1>2. Expired(now) \in SUBSET Req
  BY DEF Expired
<1>3. ReservedAfter(now) \in Nat
  <2>1. Sum(Estimate, Expired(now)) \in Nat
    BY <1>2, SumType
  <2> QED
    BY <2>1 DEF ReservedAfter, Monus, TypeOK
<1>4. CommittedAt(now) \in Nat /\ WindowAt(now) \in Nat
  BY <1>1 DEF CommittedAt, WindowAt, TypeOK
<1>5. /\ ExpiryAfter(now) \in [Req -> Nat]
      /\ AmountsAfter(now) \in [Req -> {"none", "live", "tomb"}]
  BY DEF ExpiryAfter, AmountsAfter, TypeOK
<1>6. Nothing \in [Req -> 0..MaxCharge]
  BY ConstantsAssumption DEF Nothing, ConstantsAssumption
<1>7. /\ Kept(bill, now) \in [Req -> 0..MaxCharge]
      /\ Kept(uncovered, now) \in [Req -> 0..MaxCharge]
  BY <1>6 DEF Kept, TypeOK
<1>8. \A life \in Nat : ForgetAfter(now, life) \in [Req -> Nat]
  BY <1>1 DEF ForgetAfter, TypeOK
<1> QED
  BY <1>1, <1>2, <1>3, <1>4, <1>5, <1>7, <1>8

\* The life of the keys is longer than that of a reservation.
LEMMA KeysTtlType ==
    /\ KeysTtl \in Nat /\ KeysTtl > Ttl /\ KeysTtl > 1
    /\ RecordLife \in Nat /\ RecordLife > 1
    /\ RecordLife <= KeysTtl /\ (backend = "redis" => RecordLife = KeysTtl)
    /\ backend = "memory" => RecordLife <= Ttl + PurgeLife
<1>1. KeysTtl \in Nat /\ KeysTtl > Ttl /\ KeysTtl > 1 /\ Ttl \in Nat \ {0} /\ PurgeLife \in Nat \ {0}
  BY ConstantsAssumption DEF KeysTtl, Longest, ConstantsAssumption
<1> QED
  BY <1>1 DEF RecordLife

\* The reserve script, granting or refusing, preserves the types.
LEMMA ReserveTypes ==
    ASSUME TypeOK, NEW r \in Req, NEW now \in Stamps, NEW state \in HandleStates,
           Answer(r, state), Grant(r, now) \/ Refuse(r, now)
    PROVE  TypeOK'
<1>1. /\ clock' \in Nat \ {0}
      /\ backend' \in {"redis", "memory"}
      /\ executed' \in [Req -> BOOLEAN]
      /\ handle' \in [Req -> HandleStates]
  BY DEF Answer, TypeOK
<1>2. now + Ttl \in Nat /\ DeadlineAfter \in Nat /\ Estimate[r] \in Nat
  BY ScriptTypes, KeysTtlType, ConstantsAssumption DEF DeadlineAfter, TypeOK, ConstantsAssumption
<1>3. CASE Grant(r, now)
  <2>1. /\ windowStart' \in Nat /\ committed' \in Nat
        /\ reserved' \in Nat /\ deadline' \in Nat
    BY <1>2, <1>3, ScriptTypes DEF Grant
  <2>2. /\ expiry' \in [Req -> Nat] /\ amounts' \in [Req -> {"none", "live", "tomb"}]
        /\ forget' \in [Req -> Nat]
    BY <1>2, <1>3, ScriptTypes, KeysTtlType DEF Grant
  <2>3. reservedAt' \in [Req -> Nat]
    BY <1>3 DEF Grant, TypeOK
  <2>4. /\ bill' \in [Req -> 0..MaxCharge]
        /\ uncovered' \in [Req -> 0..MaxCharge]
    BY <1>3, ScriptTypes DEF Grant
  <2> QED
    BY <1>1, <2>1, <2>2, <2>3, <2>4 DEF TypeOK
<1>4. CASE Refuse(r, now)
  <2>1. /\ windowStart' \in Nat /\ committed' \in Nat
        /\ reserved' \in Nat /\ deadline' \in Nat
    BY <1>2, <1>4, ScriptTypes DEF Refuse
  <2>2. /\ expiry' \in [Req -> Nat] /\ amounts' \in [Req -> {"none", "live", "tomb"}]
        /\ reservedAt' \in [Req -> Nat] /\ forget' \in [Req -> Nat]
    BY <1>4, ScriptTypes, KeysTtlType DEF Refuse, TypeOK
  <2>3. /\ bill' \in [Req -> 0..MaxCharge]
        /\ uncovered' \in [Req -> 0..MaxCharge]
    BY <1>4, ScriptTypes DEF Refuse
  <2> QED
    BY <1>1, <2>1, <2>2, <2>3 DEF TypeOK
<1> QED
  BY <1>3, <1>4

\* Settling, whether it is booked or missed, preserves the types.
LEMMA SettleTypes ==
    ASSUME TypeOK, NEW r \in Req, NEW cost \in 0..MaxCharge, Settle(r, cost)
    PROVE  TypeOK'
<1>1. /\ clock' \in Nat \ {0}
      /\ backend' \in {"redis", "memory"}
      /\ executed' \in [Req -> BOOLEAN]
      /\ handle' \in [Req -> HandleStates]
  BY DEF Settle, TypeOK, HandleStates
<1>2. ASSUME NEW now \in Stamps, Book(r, cost, now)
      PROVE  TypeOK'
  <2>1. Estimate[r] \in 0..MaxCharge /\ cost \in Nat /\ MaxCharge \in Nat
    BY ConstantsAssumption DEF ConstantsAssumption
  <2>2. /\ windowStart' \in Nat /\ committed' \in Nat /\ deadline' \in Nat
    BY <1>2, <2>1, ScriptTypes DEF Book, TypeOK
  <2>3. reserved' \in Nat
    BY <1>2, <2>1 DEF Book, ReservedWithout, Monus, TypeOK
  <2>4. /\ expiry' \in [Req -> Nat] /\ amounts' \in [Req -> {"none", "live", "tomb"}]
        /\ reservedAt' \in [Req -> Nat] /\ forget' \in [Req -> Nat]
    BY <1>2 DEF Book, TypeOK
  <2>5. Monus(cost, Estimate[r]) \in 0..MaxCharge
    BY <2>1 DEF Monus
  <2>6. /\ bill' \in [Req -> 0..MaxCharge]
        /\ uncovered' \in [Req -> 0..MaxCharge]
    BY <1>2, <2>5, ScriptTypes DEF Book
  <2> QED
    BY <1>1, <2>2, <2>3, <2>4, <2>6 DEF TypeOK
<1>3. CASE Miss
  BY <1>1, <1>3 DEF Miss, store, history, TypeOK
<1> QED
  BY <1>2, <1>3 DEF Settle

\* Type correctness, one step of the specification at a time.
LEMMA TypeStep ==
    TypeOK /\ [Next]_vars => TypeOK'
<1> SUFFICES ASSUME TypeOK, [Next]_vars PROVE TypeOK'
  OBVIOUS
<1> USE DEF HandleStates
<1>1. ASSUME NEW r \in Req, ReserveAllow(r) PROVE TypeOK'
  BY <1>1, ReserveTypes DEF ReserveAllow
<1>2. ASSUME NEW r \in Req, ReserveDeny(r) PROVE TypeOK'
  BY <1>2, ReserveTypes DEF ReserveDeny
<1>3. ASSUME NEW r \in Req, ReserveOrphaned(r) PROVE TypeOK'
  BY <1>3, ReserveTypes DEF ReserveOrphaned
<1>4. ASSUME NEW r \in Req, ReserveUnreached(r) PROVE TypeOK'
  BY <1>4 DEF ReserveUnreached, Answer, store, history, TypeOK
<1>5. ASSUME NEW r \in Req, MarkExecuted(r) PROVE TypeOK'
  BY <1>5 DEF MarkExecuted, store, history, TypeOK
<1>6. ASSUME NEW r \in Req, SettleActual(r) PROVE TypeOK'
  BY <1>6, SettleTypes DEF SettleActual
<1>7. ASSUME NEW r \in Req, SettleUnknown(r) PROVE TypeOK'
  <2>1. Estimate[r] \in 0..MaxCharge
    BY ConstantsAssumption DEF ConstantsAssumption
  <2> QED
    BY <1>7, <2>1, SettleTypes DEF SettleUnknown
<1>8. ASSUME NEW r \in Req, Release(r) PROVE TypeOK'
  <2>1. 0 \in 0..MaxCharge
    BY ConstantsAssumption DEF ConstantsAssumption
  <2> QED
    BY <1>8, <2>1, SettleTypes DEF Release
<1>9. CASE Purge
  BY <1>9, ScriptTypes, ConstantsAssumption DEF Purge, history, TypeOK, ConstantsAssumption
<1>10. CASE Tick
  BY <1>10 DEF Tick, store, history, TypeOK
<1>11. CASE DropKeys
  BY <1>11, ConstantsAssumption DEF DropKeys, Nothing, TypeOK, ConstantsAssumption
<1>12. CASE UNCHANGED vars
  BY <1>12 DEF vars, store, history, TypeOK
<1> QED
  BY <1>1, <1>2, <1>3, <1>4, <1>5, <1>6, <1>7, <1>8, <1>9, <1>10, <1>11, <1>12
  DEF Next, RequestStep

\* Every variable always has its type: `reserved` never goes below 0.
THEOREM TypeCorrect == Spec => []TypeOK
<1>1. Init => TypeOK
  BY ConstantsAssumption DEF Init, Nothing, HandleStates, TypeOK, ConstantsAssumption
<1> QED
  BY <1>1, TypeStep, PTL DEF Spec

-----------------------------------------------------------------------------
(* The reserved counter                                                    *)

\* The zset and the amounts hash agree: the live reservations are the members
\* of the zset, so a tombstone is never expired a second time.
ZsetIsLive == \A r \in Req : expiry[r] # 0 <=> amounts[r] = "live"

\* Only tombstones are ever forgotten, so a live reservation is not.
ForgetsTombs == \A r \in Req : forget[r] # 0 => amounts[r] = "tomb"

\* A request that was not answered yet has left no trace in the store.
NewHasNoRecord == \A r \in Req : handle[r] = "new" => amounts[r] = "none"

HeldInv == ZsetIsLive /\ ForgetsTombs /\ NewHasNoRecord /\ ReservedIsHeld

\* expire() takes out of `reserved` exactly the reservations it expires.
LEMMA ExpireSum ==
    ASSUME TypeOK, HeldInv, NEW now \in Stamps
    PROVE  /\ Expired(now) \in SUBSET Live
           /\ ReservedAfter(now) = Sum(Estimate, Live \ Expired(now))
           /\ ReservedAfter(now) <= reserved
<1>1. Expired(now) \in SUBSET Live
  BY DEF Expired, Live, HeldInv, ZsetIsLive
<1>2. Live \in SUBSET Req /\ Live \ Expired(now) \in SUBSET Req
  BY DEF Live
<1>3. IsFiniteSet(Live) /\ MaxCharge \in Nat
  BY <1>2, SumType, ConstantsAssumption DEF ConstantsAssumption
<1>4. Sum(Estimate, Live) = Sum(Estimate, Expired(now)) + Sum(Estimate, Live \ Expired(now))
  BY <1>1, <1>3, TotalSplit DEF Sum
<1>5. Sum(Estimate, Expired(now)) \in Nat /\ Sum(Estimate, Live \ Expired(now)) \in Nat
  BY <1>1, <1>2, SumType
<1>6. reserved = Sum(Estimate, Live)
  BY DEF HeldInv, ReservedIsHeld
<1> QED
  BY <1>1, <1>4, <1>5, <1>6 DEF ReservedAfter, Monus

\* After expire() the live reservations are those it left.
LEMMA ExpireLive ==
    ASSUME TypeOK, HeldInv, NEW now \in Stamps
    PROVE  /\ {q \in Req : AmountsAfter(now)[q] = "live"} = Live \ Expired(now)
           /\ \A q \in Req : ExpiryAfter(now)[q] # 0 <=> AmountsAfter(now)[q] = "live"
           /\ \A q \in Req : amounts[q] = "none" => AmountsAfter(now)[q] = "none"
           /\ \A q \in Req : \A life : ForgetAfter(now, life)[q] # 0 => AmountsAfter(now)[q] = "tomb"
<1>1. Expired(now) \in SUBSET Live
  BY ExpireSum
<1>2. \A q \in Req : /\ expiry[q] # 0 <=> amounts[q] = "live"
                     /\ forget[q] # 0 => amounts[q] = "tomb"
  BY DEF HeldInv, ZsetIsLive, ForgetsTombs
<1> QED
  BY <1>1, <1>2 DEF AmountsAfter, ExpiryAfter, ForgetAfter, Stale, Live

\* Granting a request adds its estimate to the counter and it to the live ones.
LEMMA GrantHeld ==
    ASSUME TypeOK, HeldInv, NEW r \in Req, NEW now \in Stamps, NEW state \in {"held", "unavailable"},
           Answer(r, state), Grant(r, now)
    PROVE  /\ HeldInv'
           /\ Live' = (Live \ Expired(now)) \cup {r}
           /\ r \notin Live
<1>1. amounts[r] = "none"
  BY DEF Answer, HeldInv, NewHasNoRecord
<1>2. now + Ttl # 0 /\ now + Ttl \in Nat
  BY ScriptTypes, ConstantsAssumption DEF ConstantsAssumption
<1>3. r \notin Live
  BY <1>1 DEF Live
<1>4. /\ amounts' = [AmountsAfter(now) EXCEPT ![r] = "live"]
      /\ expiry' = [ExpiryAfter(now) EXCEPT ![r] = now + Ttl]
      /\ forget' = ForgetAfter(now, KeysTtl)
      /\ AmountsAfter(now) \in [Req -> {"none", "live", "tomb"}]
      /\ ExpiryAfter(now) \in [Req -> Nat]
  BY ScriptTypes DEF Grant
<1>5. Live' = (Live \ Expired(now)) \cup {r}
  BY <1>4, ExpireLive DEF Live
<1>6. ZsetIsLive'
  BY <1>2, <1>4, ExpireLive DEF ZsetIsLive
<1>61. ForgetsTombs'
  <2>1. AmountsAfter(now)[r] = "none"
    BY <1>1, ExpireLive
  <2> QED
    BY <1>4, <2>1, ExpireLive DEF ForgetsTombs
<1>7. NewHasNoRecord'
  <2> SUFFICES ASSUME NEW q \in Req, handle'[q] = "new" PROVE amounts'[q] = "none"
    BY DEF NewHasNoRecord
  <2>1. q # r /\ handle[q] = "new"
    BY DEF Answer, TypeOK
  <2>2. amounts[q] = "none"
    BY <2>1 DEF HeldInv, NewHasNoRecord
  <2> QED
    BY <1>4, <2>1, <2>2, ExpireLive
<1>8. ReservedIsHeld'
  <2> DEFINE Left == Live \ Expired(now)
  <2>1. Left \in SUBSET Req /\ Left \cup {r} \in SUBSET Req /\ r \notin Left
    BY <1>3 DEF Live
  <2>2. IsFiniteSet(Left \cup {r}) /\ Sum(Estimate, Left) \in Nat
    BY <2>1, SumType
  <2>3. Estimate[r] \in 0..MaxCharge /\ MaxCharge \in Nat
    BY ConstantsAssumption DEF ConstantsAssumption
  <2>4. (Left \cup {r}) \ {r} = Left /\ r \in Left \cup {r}
    BY <2>1
  <2> HIDE DEF Left
  <2>5. Sum(Estimate, Left \cup {r}) = Sum(Estimate, Left) + Estimate[r]
    BY <2>2, <2>3, <2>4, TotalWithout DEF Sum
  <2>6. reserved' = Sum(Estimate, Left) + Estimate[r]
    BY ExpireSum DEF Grant, Left
  <2> QED
    BY <1>5, <2>5, <2>6 DEF ReservedIsHeld, Left
<1> QED
  BY <1>3, <1>5, <1>6, <1>61, <1>7, <1>8 DEF HeldInv

\* A script that only expires (a refusal, a purge) keeps the counter exact.
LEMMA ExpireHeld ==
    ASSUME TypeOK, HeldInv, NEW now \in Stamps, NEW life,
           amounts' = AmountsAfter(now), expiry' = ExpiryAfter(now), reserved' = ReservedAfter(now),
           forget' = ForgetAfter(now, life),
           \A q \in Req : handle'[q] = "new" => handle[q] = "new"
    PROVE  HeldInv' /\ Live' = Live \ Expired(now)
<1>1. Live' = Live \ Expired(now)
  BY ExpireLive DEF Live
<1>2. ZsetIsLive' /\ ForgetsTombs' /\ NewHasNoRecord'
  BY ExpireLive DEF ZsetIsLive, ForgetsTombs, NewHasNoRecord, HeldInv
<1>3. ReservedIsHeld'
  BY <1>1, ExpireSum DEF ReservedIsHeld
<1> QED
  BY <1>1, <1>2, <1>3 DEF HeldInv

\* Booking a settle takes a live reservation out of both, and a tombstone of
\* neither.
LEMMA BookHeld ==
    ASSUME TypeOK, HeldInv, NEW r \in Req, NEW cost \in 0..MaxCharge, NEW now \in Stamps,
           Book(r, cost, now), handle' = [handle EXCEPT ![r] = "settled"]
    PROVE  /\ HeldInv'
           /\ amounts[r] = "live" => reserved = reserved' + Estimate[r]
           /\ amounts[r] # "live" => reserved' = reserved
<1>1. /\ amounts' = [amounts EXCEPT ![r] = "none"]
      /\ expiry' = [expiry EXCEPT ![r] = 0] /\ forget' = [forget EXCEPT ![r] = 0]
      /\ reserved' = ReservedWithout(r)
  BY DEF Book
<1>2. Live' = Live \ {r}
  BY <1>1 DEF Live, TypeOK
<1>3. ZsetIsLive' /\ ForgetsTombs' /\ NewHasNoRecord'
  BY <1>1 DEF ZsetIsLive, ForgetsTombs, NewHasNoRecord, HeldInv, TypeOK
<1>4. Live \in SUBSET Req /\ Live \ {r} \in SUBSET Req
  BY DEF Live
<1>5. IsFiniteSet(Live) /\ Sum(Estimate, Live \ {r}) \in Nat
  BY <1>4, SumType
<1>6. Estimate[r] \in 0..MaxCharge /\ MaxCharge \in Nat
  BY ConstantsAssumption DEF ConstantsAssumption
<1>7. reserved = Sum(Estimate, Live)
  BY DEF HeldInv, ReservedIsHeld
<1>8. CASE amounts[r] = "live"
  <2>1. r \in Live
    BY <1>8 DEF Live
  <2>2. Sum(Estimate, Live) = Sum(Estimate, Live \ {r}) + Estimate[r]
    BY <1>5, <1>6, <2>1, TotalWithout DEF Sum
  <2>3. reserved' = Sum(Estimate, Live \ {r})
    BY <1>1, <1>5, <1>6, <1>7, <1>8, <2>2 DEF ReservedWithout, Monus
  <2>4. reserved = reserved' + Estimate[r]
    BY <1>7, <2>2, <2>3
  <2> QED
    BY <1>2, <1>3, <1>8, <2>3, <2>4 DEF HeldInv, ReservedIsHeld
<1>9. CASE amounts[r] # "live"
  <2>1. Live' = Live
    BY <1>2, <1>9 DEF Live
  <2>2. reserved' = reserved
    BY <1>1, <1>9 DEF ReservedWithout
  <2> QED
    BY <1>3, <1>7, <1>9, <2>1, <2>2 DEF HeldInv, ReservedIsHeld
<1> QED
  BY <1>8, <1>9

\* Nothing the counter depends on changed.
LEMMA SameHeld ==
    ASSUME HeldInv, UNCHANGED <<reserved, amounts, expiry, forget>>,
           \A q \in Req : handle'[q] = "new" => handle[q] = "new"
    PROVE  HeldInv'
<1>1. Live' = Live
  BY DEF Live
<1> QED
  BY <1>1 DEF HeldInv, ZsetIsLive, ForgetsTombs, NewHasNoRecord, ReservedIsHeld

\* When the keys are dropped there is nothing left to hold.
LEMMA DropHeld ==
    ASSUME DropKeys
    PROVE  HeldInv' /\ Live' = {}
<1>1. /\ amounts' = [r \in Req |-> "none"] /\ expiry' = [r \in Req |-> 0]
      /\ reserved' = 0 /\ forget' = [r \in Req |-> 0]
  BY DEF DropKeys, Nothing
<1>2. Live' = {}
  BY <1>1 DEF Live
<1>3. Sum(Estimate, {}) = 0
  BY TotalNothing, ConstantsAssumption DEF Sum, ConstantsAssumption
<1> QED
  BY <1>1, <1>2, <1>3 DEF HeldInv, ZsetIsLive, ForgetsTombs, NewHasNoRecord, ReservedIsHeld

\* The counter and the zset stay exact, one step at a time.
LEMMA HeldStep ==
    TypeOK /\ HeldInv /\ [Next]_vars => HeldInv'
<1> SUFFICES ASSUME TypeOK, HeldInv, [Next]_vars PROVE HeldInv'
  OBVIOUS
<1>1. ASSUME NEW r \in Req, ReserveAllow(r) PROVE HeldInv'
  BY <1>1, GrantHeld DEF ReserveAllow
<1>2. ASSUME NEW r \in Req, ReserveDeny(r) PROVE HeldInv'
  <2>1. PICK now \in Stamps : Refuse(r, now)
    BY <1>2 DEF ReserveDeny
  <2>2. \A q \in Req : handle'[q] = "new" => handle[q] = "new"
    BY <1>2 DEF ReserveDeny, Answer, TypeOK
  <2> QED
    BY <2>1, <2>2, ExpireHeld DEF Refuse
<1>3. ASSUME NEW r \in Req, ReserveOrphaned(r) PROVE HeldInv'
  BY <1>3, GrantHeld DEF ReserveOrphaned
<1>4. ASSUME NEW r \in Req, ReserveUnreached(r) PROVE HeldInv'
  BY <1>4, SameHeld DEF ReserveUnreached, Answer, store, TypeOK
<1>5. ASSUME NEW r \in Req, MarkExecuted(r) PROVE HeldInv'
  BY <1>5, SameHeld DEF MarkExecuted, store
<1>6. ASSUME NEW r \in Req, NEW cost \in 0..MaxCharge, Settle(r, cost) PROVE HeldInv'
  <2>1. handle' = [handle EXCEPT ![r] = "settled"]
    BY <1>6 DEF Settle
  <2>2. ASSUME NEW now \in Stamps, Book(r, cost, now) PROVE HeldInv'
    BY <2>1, <2>2, BookHeld
  <2>3. CASE Miss
    BY <2>1, <2>3, SameHeld DEF Miss, store, history, TypeOK
  <2> QED
    BY <1>6, <2>2, <2>3 DEF Settle
<1>7. ASSUME NEW r \in Req, SettleActual(r) \/ SettleUnknown(r) \/ Release(r) PROVE HeldInv'
  <2>1. Estimate[r] \in 0..MaxCharge /\ 0 \in 0..MaxCharge
    BY ConstantsAssumption DEF ConstantsAssumption
  <2> QED
    BY <1>6, <1>7, <2>1 DEF SettleActual, SettleUnknown, Release
<1>8. CASE Purge
  <2>1. PICK now \in Stamps : /\ reserved' = ReservedAfter(now)
                              /\ expiry' = ExpiryAfter(now)
                              /\ amounts' = AmountsAfter(now)
                              /\ forget' = ForgetAfter(now, PurgeLife)
                              /\ handle' = handle
    BY <1>8 DEF Purge
  <2> QED
    BY <2>1, ExpireHeld
<1>9. CASE Tick
  BY <1>9, SameHeld DEF Tick, store
<1>10. CASE DropKeys
  BY <1>10, DropHeld
<1>11. CASE UNCHANGED vars
  BY <1>11, SameHeld DEF vars, store
<1> QED
  BY <1>1, <1>2, <1>3, <1>4, <1>5, <1>7, <1>8, <1>9, <1>10, <1>11 DEF Next, RequestStep

\* The reserved counter is always the sum of the live reservations.
THEOREM ReservedIsExact == Spec => []ReservedIsHeld
<1>1. Init => HeldInv
  <2> SUFFICES ASSUME Init PROVE HeldInv
    OBVIOUS
  <2>1. Live = {}
    BY DEF Init, Live
  <2>2. Sum(Estimate, {}) = 0
    BY TotalNothing, ConstantsAssumption DEF Sum, ConstantsAssumption
  <2> QED
    BY <2>1, <2>2 DEF Init, Nothing, HeldInv, ZsetIsLive, ForgetsTombs, NewHasNoRecord,
       ReservedIsHeld
<1>2. HeldInv => ReservedIsHeld
  BY DEF HeldInv
<1> QED
  BY <1>1, <1>2, HeldStep, TypeCorrect, PTL DEF Spec

-----------------------------------------------------------------------------
(* The books and the cap                                                   *)

\* Only a settled request has a bill, so each has at most one.
OnlySettledBilled ==
    \A r \in Req : handle[r] # "settled" => bill[r] = 0 /\ uncovered[r] = 0

\* The holds alone never pass the budget: what a new window inherits fits it.
ReservedFits == reserved <= Budget

MoneyInv == OnlySettledBilled /\ ReservedFits /\ BooksMatchBills /\ CapWithinExcess

\* The sums the invariant speaks of are natural numbers.
LEMMA MoneyTypes ==
    /\ IsFiniteSet(Req) /\ MaxCharge \in Nat /\ Budget \in Nat
    /\ \A r \in Req : Estimate[r] \in 0..MaxCharge
    /\ \A f : Sum(f, Req) \in Nat
    /\ Sum(Nothing, Req) = 0
<1>1. IsFiniteSet(Req) /\ MaxCharge \in Nat /\ Budget \in Nat
      /\ \A r \in Req : Estimate[r] \in 0..MaxCharge
  BY ConstantsAssumption DEF ConstantsAssumption
<1>2. \A f : Sum(f, Req) \in Nat
  BY SumType
<1>3. Sum(Nothing, Req) = 0
  BY <1>1, TotalNothing DEF Sum, Nothing
<1> QED
  BY <1>1, <1>2, <1>3

\* A first bill is added to the sum of the bills.
LEMMA SumFirst ==
    ASSUME NEW f \in [Req -> 0..MaxCharge], NEW r \in Req, f[r] = 0, NEW v \in 0..MaxCharge
    PROVE  Sum([f EXCEPT ![r] = v], Req) = Sum(f, Req) + v
<1> DEFINE g == [f EXCEPT ![r] = v]
<1>1. IsFiniteSet(Req) /\ MaxCharge \in Nat
  BY MoneyTypes
<1>2. g[r] = v /\ \A q \in Req \ {r} : g[q] = f[q]
  OBVIOUS
<1> HIDE DEF g
<1>3. Total(g, Req, MaxCharge) = Total(f, Req, MaxCharge) + g[r]
  BY <1>1, <1>2, TotalFirst
<1> QED
  BY <1>2, <1>3 DEF Sum, g

\* A script that rolls the window over closes its books; one that does not
\* leaves them as they were.
LEMMA KeptBooks ==
    ASSUME TypeOK, HeldInv, MoneyInv, NEW now \in Stamps
    PROVE  /\ CommittedAt(now) = Sum(Kept(bill, now), Req)
           /\ CommittedAt(now) + reserved <= Budget + Sum(Kept(uncovered, now), Req)
           /\ \A r \in Req : handle[r] # "settled" =>
                 Kept(bill, now)[r] = 0 /\ Kept(uncovered, now)[r] = 0
<1>1. CASE Rolls(now)
  <2>1. /\ CommittedAt(now) = 0
        /\ Kept(bill, now) = Nothing /\ Kept(uncovered, now) = Nothing
    BY <1>1 DEF CommittedAt, Kept
  <2> QED
    BY <2>1, MoneyTypes DEF MoneyInv, ReservedFits, Nothing, TypeOK
<1>2. CASE ~ Rolls(now)
  <2>1. /\ CommittedAt(now) = committed
        /\ Kept(bill, now) = bill /\ Kept(uncovered, now) = uncovered
    BY <1>2 DEF CommittedAt, Kept
  <2> QED
    BY <2>1 DEF MoneyInv, BooksMatchBills, CapWithinExcess, OnlySettledBilled
<1> QED
  BY <1>1, <1>2

\* The check of the reserve script keeps spend and holds within the budget.
LEMMA GrantMoney ==
    ASSUME TypeOK, HeldInv, MoneyInv, NEW r \in Req, NEW now \in Stamps,
           NEW state \in {"held", "unavailable"}, Answer(r, state), Grant(r, now)
    PROVE  MoneyInv'
<1>1. /\ committed' = CommittedAt(now)
      /\ reserved' = ReservedAfter(now) + Estimate[r]
      /\ bill' = Kept(bill, now) /\ uncovered' = Kept(uncovered, now)
      /\ committed' + reserved' <= Budget
  BY ScriptTypes, MoneyTypes DEF Grant, Fits
<1>2. committed' \in Nat /\ reserved' \in Nat
  BY <1>1, ScriptTypes, MoneyTypes
<1>3. ReservedFits' /\ BooksMatchBills'
  BY <1>1, <1>2, KeptBooks, MoneyTypes DEF ReservedFits, BooksMatchBills
<1>4. CapWithinExcess'
  <2>1. Sum(uncovered', Req) \in Nat
    BY MoneyTypes
  <2> QED
    BY <1>1, <1>2, <2>1, MoneyTypes DEF CapWithinExcess
<1>5. OnlySettledBilled'
  BY <1>1, KeptBooks DEF OnlySettledBilled, Answer, TypeOK
<1> QED
  BY <1>3, <1>4, <1>5 DEF MoneyInv

\* A refusal frees what expired and may open a window; it adds nothing.
LEMMA RefuseMoney ==
    ASSUME TypeOK, HeldInv, MoneyInv, NEW r \in Req, NEW now \in Stamps,
           Answer(r, "over_budget"), Refuse(r, now)
    PROVE  MoneyInv'
<1>1. /\ committed' = CommittedAt(now)
      /\ reserved' = ReservedAfter(now)
      /\ bill' = Kept(bill, now) /\ uncovered' = Kept(uncovered, now)
  BY DEF Refuse
<1>2. committed' \in Nat /\ reserved' \in Nat /\ reserved \in Nat /\ reserved' <= reserved
  BY <1>1, ScriptTypes, ExpireSum DEF TypeOK
<1>3. ReservedFits' /\ BooksMatchBills'
  BY <1>1, <1>2, KeptBooks, MoneyTypes DEF ReservedFits, BooksMatchBills, MoneyInv
<1>4. CapWithinExcess'
  <2>1. Sum(uncovered', Req) \in Nat
    BY MoneyTypes
  <2>2. committed' + reserved <= Budget + Sum(uncovered', Req)
    BY <1>1, KeptBooks
  <2> QED
    BY <1>2, <2>1, <2>2, MoneyTypes DEF CapWithinExcess
<1>5. OnlySettledBilled'
  BY <1>1, KeptBooks DEF OnlySettledBilled, Answer, TypeOK
<1> QED
  BY <1>3, <1>4, <1>5 DEF MoneyInv

\* A bill adds its cost to the books; what passes the hold it gives back is
\* what `uncovered` records.
LEMMA BookMoney ==
    ASSUME TypeOK, HeldInv, MoneyInv, NEW r \in Req, NEW cost \in 0..MaxCharge,
           NEW now \in Stamps, handle[r] = "held", handle' = [handle EXCEPT ![r] = "settled"],
           Book(r, cost, now)
    PROVE  MoneyInv'
<1> DEFINE oldBill == Kept(bill, now)
           oldUncovered == Kept(uncovered, now)
           over == IF amounts[r] = "live" THEN Monus(cost, Estimate[r]) ELSE cost
<1>1. /\ committed' = CommittedAt(now) + cost
      /\ bill' = [oldBill EXCEPT ![r] = cost]
      /\ uncovered' = [oldUncovered EXCEPT ![r] = over]
  BY DEF Book
<1>2. over \in 0..MaxCharge
  BY MoneyTypes DEF Monus
<1>3. /\ oldBill \in [Req -> 0..MaxCharge] /\ oldUncovered \in [Req -> 0..MaxCharge]
      /\ CommittedAt(now) \in Nat
  BY ScriptTypes
<1>4. /\ CommittedAt(now) = Sum(oldBill, Req)
      /\ CommittedAt(now) + reserved <= Budget + Sum(oldUncovered, Req)
      /\ \A q \in Req : handle[q] # "settled" => oldBill[q] = 0 /\ oldUncovered[q] = 0
  BY KeptBooks
<1>41. oldBill[r] = 0 /\ oldUncovered[r] = 0
  <2> HIDE DEF oldBill, oldUncovered
  <2> QED
    BY <1>4
<1>5. /\ reserved \in Nat /\ reserved' \in Nat
      /\ amounts[r] = "live" => reserved = reserved' + Estimate[r]
      /\ amounts[r] # "live" => reserved' = reserved
  <2>1. reserved \in Nat /\ reserved' \in Nat
    BY MoneyTypes DEF Book, ReservedWithout, Monus, TypeOK
  <2> QED
    BY <2>1, BookHeld
<1> HIDE DEF oldBill, oldUncovered
<1>6. Sum(bill', Req) = Sum(oldBill, Req) + cost
  BY <1>1, <1>3, <1>41, SumFirst
<1>7. Sum(uncovered', Req) = Sum(oldUncovered, Req) + over
  <2> HIDE DEF over
  <2> QED
    BY <1>1, <1>2, <1>3, <1>41, SumFirst
<1>8. Sum(oldUncovered, Req) \in Nat
  BY MoneyTypes
<1>9. BooksMatchBills'
  BY <1>1, <1>4, <1>6 DEF BooksMatchBills
<1>10. ReservedFits'
  BY <1>5, MoneyTypes DEF ReservedFits, MoneyInv
<1>11. CapWithinExcess'
  <2>1. CASE amounts[r] = "live"
    BY <1>1, <1>3, <1>4, <1>5, <1>7, <1>8, <2>1, MoneyTypes DEF CapWithinExcess, Monus
  <2>2. CASE amounts[r] # "live"
    BY <1>1, <1>3, <1>4, <1>5, <1>7, <1>8, <2>2, MoneyTypes DEF CapWithinExcess
  <2> QED
    BY <2>1, <2>2
<1>12. OnlySettledBilled'
  BY <1>1, <1>3, <1>4 DEF OnlySettledBilled, TypeOK
<1> QED
  BY <1>9, <1>10, <1>11, <1>12 DEF MoneyInv

\* Nothing the books depend on changed, but holds that were given back.
LEMMA SameMoney ==
    ASSUME MoneyInv, UNCHANGED <<committed, bill, uncovered>>,
           reserved \in Nat, reserved' \in Nat, reserved' <= reserved, committed \in Nat,
           \A q \in Req : handle'[q] # "settled" => handle[q] # "settled"
    PROVE  MoneyInv'
<1>1. ReservedFits' /\ OnlySettledBilled' /\ BooksMatchBills'
  BY MoneyTypes DEF MoneyInv, ReservedFits, OnlySettledBilled, BooksMatchBills
<1>2. CapWithinExcess'
  BY MoneyTypes DEF MoneyInv, CapWithinExcess
<1> QED
  BY <1>1, <1>2 DEF MoneyInv

\* The books and the cap, one step at a time.
LEMMA MoneyStep ==
    TypeOK /\ HeldInv /\ MoneyInv /\ [Next]_vars => MoneyInv'
<1> SUFFICES ASSUME TypeOK, HeldInv, MoneyInv, [Next]_vars PROVE MoneyInv'
  OBVIOUS
<1>0. reserved \in Nat /\ committed \in Nat /\ handle \in [Req -> HandleStates]
  BY DEF TypeOK
<1>1. ASSUME NEW r \in Req, ReserveAllow(r) PROVE MoneyInv'
  BY <1>1, GrantMoney DEF ReserveAllow
<1>2. ASSUME NEW r \in Req, ReserveDeny(r) PROVE MoneyInv'
  BY <1>2, RefuseMoney DEF ReserveDeny
<1>3. ASSUME NEW r \in Req, ReserveOrphaned(r) PROVE MoneyInv'
  BY <1>3, GrantMoney DEF ReserveOrphaned
<1>4. ASSUME NEW r \in Req, ReserveUnreached(r) PROVE MoneyInv'
  BY <1>0, <1>4, SameMoney DEF ReserveUnreached, Answer, store, history
<1>5. ASSUME NEW r \in Req, MarkExecuted(r) PROVE MoneyInv'
  BY <1>0, <1>5, SameMoney DEF MarkExecuted, store, history
<1>6. ASSUME NEW r \in Req, NEW cost \in 0..MaxCharge, Settle(r, cost) PROVE MoneyInv'
  <2>1. handle[r] = "held" /\ handle' = [handle EXCEPT ![r] = "settled"]
    BY <1>6 DEF Settle
  <2>2. ASSUME NEW now \in Stamps, Book(r, cost, now) PROVE MoneyInv'
    BY <2>1, <2>2, BookMoney
  <2>3. CASE Miss
    BY <1>0, <2>1, <2>3, SameMoney DEF Miss, store, history
  <2> QED
    BY <1>6, <2>2, <2>3 DEF Settle
<1>7. ASSUME NEW r \in Req, SettleActual(r) \/ SettleUnknown(r) \/ Release(r) PROVE MoneyInv'
  <2>1. Estimate[r] \in 0..MaxCharge /\ 0 \in 0..MaxCharge
    BY MoneyTypes
  <2> QED
    BY <1>6, <1>7, <2>1 DEF SettleActual, SettleUnknown, Release
<1>8. CASE Purge
  <2>1. PICK now \in Stamps : reserved' = ReservedAfter(now)
    BY <1>8 DEF Purge
  <2>2. reserved' \in Nat /\ reserved' <= reserved
    BY <2>1, ScriptTypes, ExpireSum
  <2>3. UNCHANGED <<committed, bill, uncovered, handle>>
    BY <1>8 DEF Purge, history
  <2> QED
    BY <1>0, <2>2, <2>3, SameMoney
<1>9. CASE Tick
  BY <1>0, <1>9, SameMoney DEF Tick, store, history
<1>10. CASE DropKeys
  <2>1. committed' = 0 /\ reserved' = 0 /\ bill' = Nothing /\ uncovered' = Nothing
    BY <1>10 DEF DropKeys
  <2> QED
    BY <2>1, MoneyTypes DEF MoneyInv, OnlySettledBilled, ReservedFits, BooksMatchBills,
       CapWithinExcess, Nothing
<1>11. CASE UNCHANGED vars
  BY <1>0, <1>11, SameMoney DEF vars, store, history
<1> QED
  BY <1>1, <1>2, <1>3, <1>4, <1>5, <1>7, <1>8, <1>9, <1>10, <1>11 DEF Next, RequestStep

LEMMA MoneyInvariant == Spec => []MoneyInv
<1>1. Init => HeldInv /\ MoneyInv
  <2> SUFFICES ASSUME Init PROVE HeldInv /\ MoneyInv
    OBVIOUS
  <2>1. Live = {} /\ Sum(Estimate, {}) = 0
    BY TotalNothing, ConstantsAssumption DEF Init, Live, Sum, ConstantsAssumption
  <2>2. HeldInv
    BY <2>1 DEF Init, Nothing, HeldInv, ZsetIsLive, ForgetsTombs, NewHasNoRecord,
       ReservedIsHeld
  <2>3. MoneyInv
    BY MoneyTypes DEF Init, Nothing, MoneyInv, OnlySettledBilled, ReservedFits,
       BooksMatchBills, CapWithinExcess
  <2> QED
    BY <2>2, <2>3
<1> QED
  BY <1>1, HeldStep, MoneyStep, TypeCorrect, PTL DEF Spec

\* Committed spend is always the sum of the bills of the window.
THEOREM BooksAreExact == Spec => []BooksMatchBills
<1>1. MoneyInv => BooksMatchBills
  BY DEF MoneyInv
<1> QED
  BY <1>1, MoneyInvariant, PTL

\* The cap: spend and holds pass the budget only by what nobody held room for.
THEOREM CapIsKept == Spec => []CapWithinExcess
<1>1. MoneyInv => CapWithinExcess
  BY DEF MoneyInv
<1> QED
  BY <1>1, MoneyInvariant, PTL

-----------------------------------------------------------------------------
(* Clocks: lives of reservations and of their records                      *)

\* A reservation lives Ttl from the moment it was written, up to the Lag of
\* the caller's clock.
LifeOfHold ==
    \A r \in Req : expiry[r] # 0 =>
        /\ reservedAt[r] + Ttl <= expiry[r] + Lag
        /\ expiry[r] <= reservedAt[r] + Ttl
        /\ backend = "memory" => expiry[r] = reservedAt[r] + Ttl

WrittenInThePast == \A r \in Req : reservedAt[r] <= clock

\* The keys outlive every record in them; in memory they are never dropped.
KeysOutlive ==
    /\ backend = "memory" => deadline = 0
    /\ backend = "redis" => \A r \in Req : amounts[r] # "none" =>
          deadline # 0 /\ reservedAt[r] + KeysTtl <= deadline

\* A tombstone in memory is kept for the life of a record.
TombsOutlive == \A r \in Req : forget[r] # 0 => reservedAt[r] + RecordLife <= forget[r]

ClockInv ==
    /\ LifeOfHold /\ WrittenInThePast /\ KeysOutlive /\ TombsOutlive
    /\ HoldKept /\ RecordKept

\* What a reservation that an expiring script took away can still rely on.
LEMMA ExpireClock ==
    ASSUME TypeOK, HeldInv, ClockInv, NEW now \in Stamps, NEW q \in Req
    PROVE  /\ q \in Expired(now) => reservedAt[q] + Ttl <= clock + Lag
           /\ q \in Stale(now) => amounts[q] = "tomb" /\ reservedAt[q] + RecordLife <= clock
           /\ ExpiryAfter(now)[q] # 0 => ExpiryAfter(now)[q] = expiry[q] /\ now < expiry[q]
           /\ AmountsAfter(now)[q] # "none" => amounts[q] # "none"
           /\ amounts[q] # "none" /\ q \notin Stale(now) => AmountsAfter(now)[q] # "none"
           /\ amounts[q] = "live" /\ q \notin Expired(now) => AmountsAfter(now)[q] = "live"
           /\ \A life \in {KeysTtl, PurgeLife} : ForgetAfter(now, life)[q] # 0 =>
                 reservedAt[q] + RecordLife <= ForgetAfter(now, life)[q]
<1>1. /\ now \in Nat /\ now <= clock /\ expiry[q] \in Nat /\ reservedAt[q] \in Nat /\ clock \in Nat
      /\ forget[q] \in Nat /\ backend \in {"redis", "memory"}
      /\ Lag \in Nat /\ Ttl \in Nat /\ PurgeLife \in Nat
  BY ScriptTypes, ConstantsAssumption DEF TypeOK, ConstantsAssumption
<1>2. q \in Expired(now) => reservedAt[q] + Ttl <= clock + Lag
  BY <1>1 DEF ClockInv, LifeOfHold, Expired
<1>3. ExpiryAfter(now)[q] # 0 => ExpiryAfter(now)[q] = expiry[q] /\ now < expiry[q]
  BY <1>1 DEF ExpiryAfter, Expired
<1>4. /\ q \in Expired(now) => amounts[q] = "live"
      /\ q \in Stale(now) => amounts[q] = "tomb"
  BY ExpireSum DEF Live, Stale, HeldInv, ForgetsTombs
<1>5. q \in Stale(now) => reservedAt[q] + RecordLife <= clock
  BY <1>1, KeysTtlType DEF Stale, ClockInv, TombsOutlive
<1>6. ASSUME NEW life \in {KeysTtl, PurgeLife}, ForgetAfter(now, life)[q] # 0
      PROVE  reservedAt[q] + RecordLife <= ForgetAfter(now, life)[q]
  <2>1. CASE q \in Expired(now) /\ backend = "memory"
    <3>1. ForgetAfter(now, life)[q] = now + life
      BY <1>6, <2>1 DEF ForgetAfter
    <3>2. reservedAt[q] + Ttl <= now
      BY <1>1, <2>1 DEF Expired, ClockInv, LifeOfHold
    <3> QED
      BY <1>1, <2>1, <3>1, <3>2, KeysTtlType
  <2>2. CASE ~ (q \in Expired(now) /\ backend = "memory")
    <3>1. ForgetAfter(now, life)[q] = forget[q]
      BY <1>6, <2>2 DEF ForgetAfter
    <3> QED
      BY <1>6, <3>1 DEF ClockInv, TombsOutlive
  <2> QED
    BY <2>1, <2>2
<1> QED
  BY <1>2, <1>3, <1>4, <1>5, <1>6 DEF AmountsAfter

\* The next deadline of the keys is far enough.
LEMMA DeadlineReached ==
    ASSUME TypeOK, ClockInv, NEW q \in Req
    PROVE  /\ backend = "memory" => DeadlineAfter = 0
           /\ backend = "redis" => DeadlineAfter # 0 /\ reservedAt[q] + KeysTtl <= DeadlineAfter
                                  /\ clock + KeysTtl <= DeadlineAfter
<1>1. clock \in Nat /\ reservedAt[q] \in Nat /\ reservedAt[q] <= clock
  BY DEF TypeOK, ClockInv, WrittenInThePast
<1> QED
  BY <1>1, KeysTtlType DEF DeadlineAfter

\* The reserve script starts a life and prolongs the keys.
LEMMA GrantClock ==
    ASSUME TypeOK, HeldInv, ClockInv, NEW r \in Req, NEW now \in Stamps,
           NEW state \in {"held", "unavailable"}, Answer(r, state), Grant(r, now)
    PROVE  ClockInv'
<1>1. /\ expiry' = [ExpiryAfter(now) EXCEPT ![r] = now + Ttl]
      /\ amounts' = [AmountsAfter(now) EXCEPT ![r] = "live"]
      /\ forget' = ForgetAfter(now, KeysTtl)
      /\ reservedAt' = [reservedAt EXCEPT ![r] = clock]
      /\ deadline' = DeadlineAfter
      /\ clock' = clock /\ backend' = backend /\ RecordLife' = RecordLife
      /\ handle' = [handle EXCEPT ![r] = state]
  BY DEF Grant, Answer, RecordLife
<1>2. /\ clock \in Nat /\ reservedAt \in [Req -> Nat] /\ handle \in [Req -> HandleStates]
      /\ now \in Nat /\ now <= clock /\ clock <= now + Lag
      /\ backend = "memory" => now = clock
      /\ ExpiryAfter(now) \in [Req -> Nat]
      /\ AmountsAfter(now) \in [Req -> {"none", "live", "tomb"}]
      /\ Ttl \in Nat /\ Lag \in Nat /\ RecordLife \in Nat /\ RecordLife > 1
  BY ScriptTypes, KeysTtlType, ConstantsAssumption DEF Stamps, TypeOK, ConstantsAssumption
<1>3. /\ expiry'[r] = now + Ttl /\ amounts'[r] = "live" /\ reservedAt'[r] = clock
      /\ \A q \in Req \ {r} : /\ expiry'[q] = ExpiryAfter(now)[q]
                              /\ amounts'[q] = AmountsAfter(now)[q]
                              /\ reservedAt'[q] = reservedAt[q]
                              /\ handle'[q] = handle[q]
  BY <1>1, <1>2
<1>4. LifeOfHold'
  BY <1>1, <1>2, <1>3, ExpireClock DEF LifeOfHold, ClockInv
<1>5. WrittenInThePast'
  BY <1>1, <1>2, <1>3 DEF WrittenInThePast, ClockInv
<1>6. KeysOutlive'
  <2>1. \A q \in Req : backend = "redis" =>
           deadline' # 0 /\ reservedAt'[q] + KeysTtl <= deadline'
    BY <1>1, <1>3, DeadlineReached
  <2> QED
    BY <1>1, <2>1 DEF KeysOutlive, DeadlineAfter
<1>61. TombsOutlive'
  <2>1. forget[r] = 0 /\ r \notin Expired(now)
    BY ExpireSum DEF Answer, HeldInv, ForgetsTombs, NewHasNoRecord, Live
  <2>2. forget'[r] = 0
    BY <1>1, <2>1 DEF ForgetAfter
  <2> QED
    BY <1>1, <1>3, <2>2, ExpireClock DEF TombsOutlive
<1>7. HoldKept'
  BY <1>1, <1>2, <1>3, ExpireClock DEF HoldKept, ClockInv
<1>8. RecordKept'
  BY <1>1, <1>2, <1>3, ExpireClock DEF RecordKept, ClockInv
<1> QED
  BY <1>4, <1>5, <1>6, <1>61, <1>7, <1>8 DEF ClockInv

\* A script that only expires ends no life early.
LEMMA ExpireOnlyClock ==
    ASSUME TypeOK, HeldInv, ClockInv, NEW now \in Stamps, NEW life \in {KeysTtl, PurgeLife},
           amounts' = AmountsAfter(now), expiry' = ExpiryAfter(now),
           forget' = ForgetAfter(now, life),
           UNCHANGED <<clock, backend, reservedAt>>,
           deadline' = deadline \/ deadline' = DeadlineAfter,
           \A q \in Req : handle'[q] = "held" => handle[q] = "held"
    PROVE  ClockInv'
<1>1. /\ clock \in Nat /\ reservedAt \in [Req -> Nat]
      /\ Ttl \in Nat /\ Lag \in Nat /\ RecordLife \in Nat
      /\ RecordLife' = RecordLife
  BY KeysTtlType, ConstantsAssumption DEF TypeOK, ConstantsAssumption, RecordLife
<1>2. LifeOfHold' /\ WrittenInThePast'
  BY <1>1, ExpireClock DEF LifeOfHold, WrittenInThePast, ClockInv
<1>3. KeysOutlive'
  <2>1. \A q \in Req : amounts'[q] # "none" => amounts[q] # "none"
    BY ExpireClock
  <2>2. \A q \in Req : backend = "redis" =>
           DeadlineAfter # 0 /\ reservedAt[q] + KeysTtl <= DeadlineAfter
    BY DeadlineReached
  <2> QED
    BY <2>1, <2>2 DEF KeysOutlive, DeadlineAfter, ClockInv
<1>4. TombsOutlive'
  BY <1>1, ExpireClock DEF TombsOutlive
<1>5. HoldKept'
  BY <1>1, ExpireClock DEF HoldKept, ClockInv
<1>6. RecordKept'
  BY <1>1, ExpireClock DEF RecordKept, ClockInv
<1> QED
  BY <1>2, <1>3, <1>4, <1>5, <1>6 DEF ClockInv

\* Booking r ends the life of r and of no other request.
LEMMA BookClock ==
    ASSUME TypeOK, ClockInv, NEW r \in Req, NEW cost, NEW now \in Stamps,
           Book(r, cost, now), handle' = [handle EXCEPT ![r] = "settled"],
           clock' = clock, backend' = backend
    PROVE  ClockInv'
<1>1. /\ expiry' = [expiry EXCEPT ![r] = 0]
      /\ amounts' = [amounts EXCEPT ![r] = "none"]
      /\ forget' = [forget EXCEPT ![r] = 0]
      /\ reservedAt' = [reservedAt EXCEPT ![r] = 0]
      /\ deadline' = deadline
      /\ RecordLife' = RecordLife
  BY DEF Book, RecordLife
<1>2. /\ clock \in Nat /\ reservedAt \in [Req -> Nat] /\ deadline \in Nat
      /\ expiry \in [Req -> Nat] /\ amounts \in [Req -> {"none", "live", "tomb"}]
      /\ forget \in [Req -> Nat] /\ handle \in [Req -> HandleStates]
  BY DEF TypeOK
<1>3. LifeOfHold' /\ WrittenInThePast' /\ KeysOutlive' /\ TombsOutlive'
  BY <1>1, <1>2 DEF LifeOfHold, WrittenInThePast, KeysOutlive, TombsOutlive, ClockInv
<1>4. HoldKept' /\ RecordKept'
  BY <1>1, <1>2 DEF HoldKept, RecordKept, ClockInv
<1> QED
  BY <1>3, <1>4 DEF ClockInv

\* Nothing the clocks are about changed.
LEMMA SameClock ==
    ASSUME ClockInv, UNCHANGED <<clock, backend, expiry, amounts, forget, deadline, reservedAt>>,
           \A q \in Req : handle'[q] = "held" => handle[q] = "held"
    PROVE  ClockInv'
<1>1. RecordLife' = RecordLife
  BY DEF RecordLife
<1> QED
  BY <1>1 DEF ClockInv, LifeOfHold, WrittenInThePast, KeysOutlive, TombsOutlive, HoldKept, RecordKept

\* Lives and records, one step at a time.
LEMMA ClockStep ==
    TypeOK /\ HeldInv /\ ClockInv /\ [Next]_vars => ClockInv'
<1> SUFFICES ASSUME TypeOK, HeldInv, ClockInv, [Next]_vars PROVE ClockInv'
  OBVIOUS
<1>1. ASSUME NEW r \in Req, ReserveAllow(r) PROVE ClockInv'
  BY <1>1, GrantClock DEF ReserveAllow
<1>2. ASSUME NEW r \in Req, ReserveDeny(r) PROVE ClockInv'
  <2>1. PICK now \in Stamps : Refuse(r, now)
    BY <1>2 DEF ReserveDeny
  <2>2. /\ UNCHANGED <<clock, backend>>
        /\ \A q \in Req : handle'[q] = "held" => handle[q] = "held"
    BY <1>2 DEF ReserveDeny, Answer, TypeOK
  <2>3. /\ amounts' = AmountsAfter(now) /\ expiry' = ExpiryAfter(now)
        /\ forget' = ForgetAfter(now, KeysTtl)
        /\ reservedAt' = reservedAt /\ deadline' = DeadlineAfter
    BY <2>1 DEF Refuse
  <2> QED
    BY <2>2, <2>3, ExpireOnlyClock
<1>3. ASSUME NEW r \in Req, ReserveOrphaned(r) PROVE ClockInv'
  BY <1>3, GrantClock DEF ReserveOrphaned
<1>4. ASSUME NEW r \in Req, ReserveUnreached(r) PROVE ClockInv'
  BY <1>4, SameClock DEF ReserveUnreached, Answer, store, history, TypeOK
<1>5. ASSUME NEW r \in Req, MarkExecuted(r) PROVE ClockInv'
  BY <1>5, SameClock DEF MarkExecuted, store, history
<1>6. ASSUME NEW r \in Req, NEW cost \in 0..MaxCharge, Settle(r, cost) PROVE ClockInv'
  <2>1. UNCHANGED <<clock, backend>> /\ handle' = [handle EXCEPT ![r] = "settled"]
    BY <1>6 DEF Settle
  <2>2. ASSUME NEW now \in Stamps, Book(r, cost, now) PROVE ClockInv'
    BY <2>1, <2>2, BookClock
  <2>3. CASE Miss
    BY <2>1, <2>3, SameClock DEF Miss, store, history, TypeOK
  <2> QED
    BY <1>6, <2>2, <2>3 DEF Settle
<1>7. ASSUME NEW r \in Req, SettleActual(r) \/ SettleUnknown(r) \/ Release(r) PROVE ClockInv'
  <2>1. Estimate[r] \in 0..MaxCharge /\ 0 \in 0..MaxCharge
    BY MoneyTypes
  <2> QED
    BY <1>6, <1>7, <2>1 DEF SettleActual, SettleUnknown, Release
<1>8. CASE Purge
  <2>1. PICK now \in Stamps : /\ expiry' = ExpiryAfter(now) /\ amounts' = AmountsAfter(now)
                              /\ forget' = ForgetAfter(now, PurgeLife)
    BY <1>8 DEF Purge
  <2>2. UNCHANGED <<clock, backend, reservedAt, deadline, handle>>
    BY <1>8 DEF Purge, history
  <2> QED
    BY <2>1, <2>2, ExpireOnlyClock
<1>9. CASE Tick
  <2>1. /\ clock' = clock + 1
        /\ UNCHANGED <<backend, expiry, amounts, forget, deadline, reservedAt, handle>>
        /\ RecordLife' = RecordLife
    BY <1>9 DEF Tick, store, history, RecordLife
  <2>2. /\ clock \in Nat /\ reservedAt \in [Req -> Nat]
        /\ Lag \in Nat /\ Ttl \in Nat /\ RecordLife \in Nat
    BY KeysTtlType, ConstantsAssumption DEF TypeOK, ConstantsAssumption
  <2>3. LifeOfHold' /\ WrittenInThePast' /\ KeysOutlive' /\ TombsOutlive'
    BY <2>1, <2>2 DEF ClockInv, LifeOfHold, WrittenInThePast, KeysOutlive, TombsOutlive
  <2>4. HoldKept' /\ RecordKept'
    BY <2>1, <2>2 DEF ClockInv, HoldKept, RecordKept
  <2> QED
    BY <2>3, <2>4 DEF ClockInv
<1>10. CASE DropKeys
  <2>1. /\ clock' = clock + 1 /\ deadline # 0 /\ deadline <= clock + 1
        /\ expiry' = [r \in Req |-> 0] /\ amounts' = [r \in Req |-> "none"]
        /\ forget' = [r \in Req |-> 0]
        /\ deadline' = 0
        /\ UNCHANGED <<backend, reservedAt, handle>>
        /\ RecordLife' = RecordLife
    BY <1>10 DEF DropKeys, Nothing, TypeOK, RecordLife
  <2>2. /\ clock \in Nat /\ deadline \in Nat /\ reservedAt \in [Req -> Nat]
        /\ Lag \in Nat /\ Ttl \in Nat /\ KeysTtl \in Nat /\ KeysTtl > Ttl
    BY KeysTtlType, ConstantsAssumption DEF TypeOK, ConstantsAssumption
  <2>3. LifeOfHold' /\ WrittenInThePast' /\ KeysOutlive' /\ TombsOutlive'
    BY <2>1, <2>2 DEF ClockInv, LifeOfHold, WrittenInThePast, KeysOutlive, TombsOutlive
  <2>4. backend = "redis" /\ RecordLife = KeysTtl
    BY <2>1, KeysTtlType DEF ClockInv, KeysOutlive, TypeOK
  <2>5. \A r \in Req : handle[r] = "held" => reservedAt[r] + KeysTtl <= clock + 1
    BY <2>1, <2>2, <2>4 DEF ClockInv, KeysOutlive, RecordKept
  <2> QED
    BY <2>1, <2>2, <2>3, <2>4, <2>5 DEF ClockInv, HoldKept, RecordKept
<1>11. CASE UNCHANGED vars
  BY <1>11, SameClock DEF vars, store, history
<1> QED
  BY <1>1, <1>2, <1>3, <1>4, <1>5, <1>7, <1>8, <1>9, <1>10, <1>11 DEF Next, RequestStep

LEMMA ClockInvariant == Spec => [](HeldInv /\ ClockInv)
<1>1. Init => HeldInv /\ ClockInv
  <2> SUFFICES ASSUME Init PROVE HeldInv /\ ClockInv
    OBVIOUS
  <2>1. Live = {} /\ Sum(Estimate, {}) = 0
    BY TotalNothing, ConstantsAssumption DEF Init, Live, Sum, ConstantsAssumption
  <2>2. HeldInv
    BY <2>1 DEF Init, Nothing, HeldInv, ZsetIsLive, ForgetsTombs, NewHasNoRecord,
       ReservedIsHeld
  <2>3. ClockInv
    BY KeysTtlType DEF Init, Nothing, ClockInv, LifeOfHold, WrittenInThePast, KeysOutlive,
       TombsOutlive, HoldKept, RecordKept
  <2> QED
    BY <2>2, <2>3
<1> QED
  BY <1>1, HeldStep, ClockStep, TypeCorrect, PTL DEF Spec

\* A running request keeps its room for the life of its reservation.
THEOREM HoldIsKept == Spec => []HoldKept
<1>1. ClockInv => HoldKept
  BY DEF ClockInv
<1> QED
  BY <1>1, ClockInvariant, PTL

\* For RecordLife after the reservation, a settle finds a record to bill.
THEOREM RecordIsKept == Spec => []RecordKept
<1>1. ClockInv => RecordKept
  BY DEF ClockInv
<1> QED
  BY <1>1, ClockInvariant, PTL

-----------------------------------------------------------------------------
(* Refusals                                                                *)

\* What a refusal counted is what it should count.
LEMMA RefusalStep ==
    ASSUME TypeOK, HeldInv, ClockInv, [Next]_vars, NEW r \in Req,
           handle[r] = "new", handle'[r] = "over_budget"
    PROVE  /\ committed' + Sum(Estimate, Live') + Estimate[r] > Budget
           /\ clock < windowStart' + Window + Lag
           /\ \A q \in Live' : clock < reservedAt[q] + Ttl + Lag
<1>1. ReserveDeny(r)
  <2>1. ASSUME NEW p \in Req, RequestStep(p) PROVE ReserveDeny(r)
    BY <2>1 DEF RequestStep, ReserveAllow, ReserveDeny, ReserveOrphaned, ReserveUnreached, Answer,
       MarkExecuted, SettleActual, SettleUnknown, Release, Settle, TypeOK
  <2>2. ~ Purge /\ ~ Tick /\ ~ DropKeys /\ ~ UNCHANGED vars
    BY DEF Purge, Tick, DropKeys, vars
  <2> QED
    BY <2>1, <2>2 DEF Next
<1>2. PICK now \in Stamps : Refuse(r, now)
  BY <1>1 DEF ReserveDeny
<1>3. /\ now \in Nat /\ now <= clock /\ clock <= now + Lag /\ clock \in Nat
      /\ windowStart \in Nat /\ Window \in Nat \ {0} /\ Lag \in Nat /\ Ttl \in Nat
      /\ Budget \in Nat /\ Estimate[r] \in Nat
      /\ reservedAt \in [Req -> Nat] /\ expiry \in [Req -> Nat]
      /\ CommittedAt(now) \in Nat /\ ReservedAfter(now) \in Nat
  BY ScriptTypes, ConstantsAssumption DEF TypeOK, ConstantsAssumption
<1>4. /\ amounts' = AmountsAfter(now) /\ expiry' = ExpiryAfter(now)
      /\ reserved' = ReservedAfter(now) /\ forget' = ForgetAfter(now, KeysTtl)
      /\ handle' = [handle EXCEPT ![r] = "over_budget"]
  BY <1>1, <1>2 DEF Refuse, ReserveDeny, Answer
<1>5. HeldInv' /\ Live' = Live \ Expired(now)
  <2>1. \A q \in Req : handle'[q] = "new" => handle[q] = "new"
    BY <1>4 DEF TypeOK
  <2> QED
    BY <1>4, <2>1, ExpireHeld
<1>6. committed' + Sum(Estimate, Live') + Estimate[r] > Budget
  BY <1>2, <1>3, <1>5, ExpireSum DEF Refuse, Fits
<1>7. clock < windowStart' + Window + Lag
  BY <1>2, <1>3 DEF Refuse, WindowAt, Rolls
<1>8. ASSUME NEW q \in Live' PROVE clock < reservedAt[q] + Ttl + Lag
  <2>1. q \in Req /\ q \in Live /\ q \notin Expired(now)
    BY <1>5, <1>8 DEF Live
  <2>2. expiry[q] # 0
    BY <2>1 DEF Live, HeldInv, ZsetIsLive
  <2>3. now < expiry[q]
    BY <1>3, <2>1, <2>2 DEF Expired
  <2>4. expiry[q] <= reservedAt[q] + Ttl
    BY <2>1, <2>2 DEF ClockInv, LifeOfHold
  <2> QED
    BY <1>3, <2>1, <2>3, <2>4
<1> QED
  BY <1>6, <1>7, <1>8

\* A refusal is never the fault of stale data.
THEOREM RefusalsAreJustified == Spec => RefusalJustified
<1>1. TypeOK /\ HeldInv /\ ClockInv /\ [Next]_vars =>
        [\A r \in Req : handle[r] = "new" /\ handle'[r] = "over_budget" =>
            /\ committed' + Sum(Estimate, Live') + Estimate[r] > Budget
            /\ clock < windowStart' + Window + Lag
            /\ \A q \in Live' : clock < reservedAt[q] + Ttl + Lag]_vars
  BY RefusalStep
<1> QED
  BY <1>1, TypeCorrect, ClockInvariant, PTL DEF Spec, RefusalJustified

-----------------------------------------------------------------------------
(* The refinement: every script maps to a step of the ledger, and what the *)
(* scripts read off their counters is what the ledger adds up.             *)

\* What a script with clock reading `now` finds due, in the ledger's words.
LEMMA DueInLedger ==
    ASSUME TypeOK, HeldInv, MoneyInv, NEW now \in Stamps, NEW r \in Req
    PROVE  /\ Expired(now) \in SUBSET Live /\ Stale(now) \in SUBSET Tombs
           /\ Kept(bill, now) \in {bill, Ledger!NoBill}
           /\ Fits(r, now) <=> Ledger!Fits(r, Expired(now), Kept(bill, now))
<1>1. /\ Expired(now) \in SUBSET Live
      /\ ReservedAfter(now) = Sum(Estimate, Live \ Expired(now))
  BY ExpireSum
<1>2. CommittedAt(now) = Sum(Kept(bill, now), Req)
  BY KeptBooks
<1>3. Kept(bill, now) \in {bill, Ledger!NoBill}
  BY DEF Kept, Nothing, Ledger!NoBill
<1>4. Fits(r, now) <=> Ledger!Fits(r, Expired(now), Kept(bill, now))
  BY <1>1, <1>2 DEF Fits, Ledger!Fits
<1>5. Stale(now) \in SUBSET Tombs
  BY DEF Stale, Tombs, HeldInv, ForgetsTombs
<1> QED
  BY <1>1, <1>3, <1>4, <1>5

\* What a script that expires reservations does to the two sets of holds.
LEMMA LapsedInLedger ==
    ASSUME TypeOK, HeldInv, NEW now \in Stamps, amounts' = AmountsAfter(now)
    PROVE  /\ Expired(now) \in SUBSET Live /\ Stale(now) \in SUBSET Tombs
           /\ Live' = Live \ Expired(now)
           /\ Tombs' = (Tombs \ Stale(now)) \cup Expired(now)
<1>1. Expired(now) \in SUBSET Live
  BY ExpireSum
<1>2. Stale(now) \in SUBSET Tombs
  BY DEF Stale, Tombs, HeldInv, ForgetsTombs
<1> QED
  BY <1>1, <1>2 DEF AmountsAfter, Live, Tombs

\* An answer moves the status of its request alone.
LEMMA StatusMoves ==
    ASSUME TypeOK, NEW r \in Req, NEW state \in HandleStates,
           handle' = [handle EXCEPT ![r] = state]
    PROVE  LedgerStatus' = [LedgerStatus EXCEPT
                ![r] = IF state = "new" THEN "asking"
                       ELSE IF state = "held" THEN "holding" ELSE "over"]
BY DEF LedgerStatus, TypeOK

\* A reserve script that grants is the ledger's Admit, whether or not its caller
\* learns of it.
LEMMA GrantAdmits ==
    ASSUME TypeOK, HeldInv, MoneyInv, NEW r \in Req, NEW now \in Stamps,
           NEW state \in {"held", "unavailable"}, Answer(r, state), Grant(r, now)
    PROVE  Ledger!Admit(r)
<1>1. \E to \in {"holding", "over"} : Ledger!Move(r, "asking", to)
  <2>1. LedgerStatus[r] = "asking"
    BY DEF Answer, LedgerStatus
  <2>2. LedgerStatus' = [LedgerStatus EXCEPT ![r] = IF state = "held" THEN "holding" ELSE "over"]
    BY StatusMoves DEF Answer, HandleStates
  <2> QED
    BY <2>1, <2>2 DEF Ledger!Move
<1>2. /\ Expired(now) \in SUBSET Live /\ Stale(now) \in SUBSET Tombs
      /\ Kept(bill, now) \in {bill, Ledger!NoBill}
      /\ Ledger!Fits(r, Expired(now), Kept(bill, now))
  BY DueInLedger DEF Grant
<1>3. /\ Live' = (Live \ Expired(now)) \cup {r}
      /\ Tombs' = (Tombs \ Stale(now)) \cup Expired(now)
      /\ bill' = Kept(bill, now)
  <2>1. amounts' = [AmountsAfter(now) EXCEPT ![r] = "live"]
    BY DEF Grant
  <2>2. amounts[r] = "none"
    BY DEF Answer, HeldInv, NewHasNoRecord
  <2>3. r \notin Expired(now) /\ r \notin Tombs
    BY <1>2, <2>2 DEF Live, Tombs
  <2>4. bill' = Kept(bill, now)
    BY DEF Grant
  <2> QED
    BY <1>2, <2>1, <2>2, <2>3, <2>4 DEF AmountsAfter, Live, Tombs
<1> QED
  BY <1>1, <1>2, <1>3 DEF Ledger!Admit

\* One that refuses is its Deny.
LEMMA RefusalDenies ==
    ASSUME TypeOK, HeldInv, MoneyInv, NEW r \in Req, ReserveDeny(r)
    PROVE  Ledger!Deny(r)
<1>1. PICK now \in Stamps : Refuse(r, now)
  BY DEF ReserveDeny
<1>2. Ledger!Move(r, "asking", "over")
  <2>1. LedgerStatus[r] = "asking"
    BY DEF ReserveDeny, Answer, LedgerStatus
  <2>2. LedgerStatus' = [LedgerStatus EXCEPT ![r] = "over"]
    BY StatusMoves DEF ReserveDeny, Answer, HandleStates
  <2> QED
    BY <2>1, <2>2 DEF Ledger!Move
<1>3. /\ Expired(now) \in SUBSET Live /\ Stale(now) \in SUBSET Tombs
      /\ Kept(bill, now) \in {bill, Ledger!NoBill}
      /\ ~ Ledger!Fits(r, Expired(now), Kept(bill, now))
  BY <1>1, DueInLedger DEF Refuse
<1>4. /\ Live' = Live \ Expired(now) /\ Tombs' = (Tombs \ Stale(now)) \cup Expired(now)
      /\ bill' = Kept(bill, now)
  BY <1>1, LapsedInLedger DEF Refuse
<1> QED
  BY <1>2, <1>3, <1>4 DEF Ledger!Deny

\* Settling, at whatever cost, is its Charge.
LEMMA SettlingCharges ==
    ASSUME TypeOK, HeldInv, NEW r \in Req, NEW cost \in 0..MaxCharge, Settle(r, cost)
    PROVE  Ledger!Charge(r)
<1>1. Ledger!Move(r, "holding", "over")
  <2>1. LedgerStatus[r] = "holding"
    BY DEF Settle, LedgerStatus
  <2>2. LedgerStatus' = [LedgerStatus EXCEPT ![r] = "over"]
    BY StatusMoves DEF Settle, HandleStates
  <2> QED
    BY <2>1, <2>2 DEF Ledger!Move
<1>2. ASSUME NEW now \in Stamps, Book(r, cost, now)
      PROVE  /\ r \in Live \cup Tombs
             /\ Live' = Live \ {r} /\ Tombs' = Tombs \ {r}
             /\ \E books \in {bill, Ledger!NoBill} : bill' = [books EXCEPT ![r] = cost]
  <2>1. r \in Live \cup Tombs
    BY <1>2 DEF Book, TypeOK, Live, Tombs
  <2>2. Live' = Live \ {r} /\ Tombs' = Tombs \ {r}
    BY <1>2 DEF Book, TypeOK, Live, Tombs
  <2>3. Kept(bill, now) \in {bill, Ledger!NoBill}
    BY DEF Kept, Nothing, Ledger!NoBill
  <2>4. bill' = [Kept(bill, now) EXCEPT ![r] = cost]
    BY <1>2 DEF Book
  <2> QED
    BY <2>1, <2>2, <2>3, <2>4
<1>3. CASE Miss
  <2>1. UNCHANGED <<Live, Tombs, bill>>
    BY <1>3 DEF Miss, store, history, Live, Tombs
  <2> QED
    BY <1>1, <2>1 DEF Ledger!Charge
<1>4. CASE \E now \in Stamps : Book(r, cost, now)
  BY <1>1, <1>2, <1>4 DEF Ledger!Charge
<1> QED
  BY <1>3, <1>4 DEF Settle

\* Nothing the ledger sees has changed.
LEMMA LedgerStutters ==
    ASSUME UNCHANGED <<handle, amounts, bill>>
    PROVE  UNCHANGED Ledger!ledger
BY DEF Ledger!ledger, LedgerStatus, Live, Tombs

\* Every step of the guard is a step of the ledger, or one it does not see.
LEMMA LedgerStep ==
    TypeOK /\ HeldInv /\ MoneyInv /\ [Next]_vars => [Ledger!Next]_(Ledger!ledger)
<1> SUFFICES ASSUME TypeOK, HeldInv, MoneyInv, [Next]_vars
             PROVE  [Ledger!Next]_(Ledger!ledger)
  OBVIOUS
<1>1. ASSUME NEW r \in Req, ReserveAllow(r) \/ ReserveOrphaned(r) PROVE Ledger!Next
  BY <1>1, GrantAdmits DEF ReserveAllow, ReserveOrphaned, Ledger!Next
<1>2. ASSUME NEW r \in Req, ReserveDeny(r) PROVE Ledger!Next
  BY <1>2, RefusalDenies DEF Ledger!Next
<1>3. ASSUME NEW r \in Req, ReserveUnreached(r) PROVE Ledger!Next
  <2>1. LedgerStatus[r] = "asking"
    BY <1>3 DEF ReserveUnreached, Answer, LedgerStatus
  <2>2. LedgerStatus' = [LedgerStatus EXCEPT ![r] = "over"]
    BY <1>3, StatusMoves DEF ReserveUnreached, Answer, HandleStates
  <2>3. UNCHANGED <<Live, Tombs, bill>>
    BY <1>3 DEF ReserveUnreached, store, history, Live, Tombs
  <2>4. Ledger!Fail(r)
    BY <2>1, <2>2, <2>3 DEF Ledger!Fail, Ledger!Move
  <2> QED
    BY <2>4 DEF Ledger!Next
<1>4. ASSUME NEW r \in Req, MarkExecuted(r) PROVE UNCHANGED Ledger!ledger
  BY <1>4, LedgerStutters DEF MarkExecuted, store, history
<1>5. ASSUME NEW r \in Req, SettleActual(r) \/ SettleUnknown(r) \/ Release(r) PROVE Ledger!Next
  <2>1. Estimate[r] \in 0..MaxCharge /\ 0 \in 0..MaxCharge
    BY ConstantsAssumption DEF ConstantsAssumption
  <2> QED
    BY <1>5, <2>1, SettlingCharges DEF SettleActual, SettleUnknown, Release, Ledger!Next
<1>6. ASSUME Purge PROVE Ledger!Next
  <2>1. PICK now \in Stamps : /\ amounts' = AmountsAfter(now)
                              /\ handle' = handle /\ bill' = bill
    BY <1>6 DEF Purge, history
  <2>2. /\ Expired(now) \in SUBSET Live /\ Stale(now) \in SUBSET Tombs
        /\ Live' = Live \ Expired(now) /\ Tombs' = (Tombs \ Stale(now)) \cup Expired(now)
    BY <2>1, LapsedInLedger
  <2>3. LedgerStatus' = LedgerStatus
    BY <2>1 DEF LedgerStatus
  <2> QED
    BY <2>1, <2>2, <2>3 DEF Ledger!Next, Ledger!Lapse
<1>7. ASSUME Tick PROVE UNCHANGED Ledger!ledger
  BY <1>7, LedgerStutters DEF Tick, store, history
<1>8. ASSUME DropKeys PROVE Ledger!Next
  <2>1. Live' = {} /\ Tombs' = {}
    BY <1>8 DEF DropKeys, Live, Tombs
  <2>2. LedgerStatus' = LedgerStatus /\ bill' = Ledger!NoBill
    BY <1>8 DEF DropKeys, LedgerStatus, Nothing, Ledger!NoBill
  <2> QED
    BY <2>1, <2>2 DEF Ledger!Next, Ledger!Forget
<1>9. ASSUME UNCHANGED vars PROVE UNCHANGED Ledger!ledger
  BY <1>9, LedgerStutters DEF vars, store, history
<1> QED
  BY <1>1, <1>2, <1>3, <1>4, <1>5, <1>6, <1>7, <1>8, <1>9 DEF Next, RequestStep

\* The scripts of the budget guard do what the ledger promises: room is given only
\* where the entries leave some, refused only where they leave none, and a request
\* is charged once and for its own hold.
THEOREM GuardImplementsLedger == Spec => ImplementsLedger
<1>1. Init => Ledger!Init
  BY DEF Init, Nothing, Ledger!Init, Ledger!NoBill, LedgerStatus, Live, Tombs
<1>2. Spec => [](TypeOK /\ HeldInv /\ MoneyInv)
  BY TypeCorrect, ClockInvariant, MoneyInvariant, PTL
<1> QED
  BY <1>1, <1>2, LedgerStep, PTL DEF Spec, ImplementsLedger, Ledger!Spec
=============================================================================

-------------------------- MODULE GovernedChatProofs --------------------------
(***************************************************************************)
(* Theorems of GovernedChat and of the quota and the replay cache it is    *)
(* built from, for every set of requests and decisions, every estimate,    *)
(* expiry, day length, window and clock lag.                               *)
(***************************************************************************)
EXTENDS GovernedChat, DataLemmas

-----------------------------------------------------------------------------
(* Types                                                                   *)

\* What the operations of the quota compute from a clock reading.
LEMMA QuotaTypes ==
    ASSUME QuotaTypeOK, NEW now \in Stamps
    PROVE  /\ now \in Nat /\ now # 0 /\ now <= clock
           /\ Today(now) \in Nat
           /\ AmountAt(now) \in Nat
           /\ Pruned(now) \in [Req -> Nat]
           /\ Nothing \in [Req -> 0..MaxCharge]
           /\ Kept(share, now) \in [Req -> 0..MaxCharge]
           /\ Kept(over, now) \in [Req -> 0..MaxCharge]
           /\ Kept(under, now) \in [Req -> 0..MaxCharge]
           /\ FreshAt(now) \in SUBSET Req
<1>1. now \in Nat /\ now # 0 /\ now <= clock
  BY QuotaAssumption DEF Stamps, QuotaTypeOK, QuotaAssumption
<1>2. Today(now) \in Nat
  BY <1>1, QuotaAssumption DEF Today, QuotaAssumption
<1>3. AmountAt(now) \in Nat /\ Pruned(now) \in [Req -> Nat]
  BY DEF AmountAt, Pruned, QuotaTypeOK
<1>4. Nothing \in [Req -> 0..MaxCharge]
  BY QuotaAssumption DEF Nothing, QuotaAssumption
<1>5. /\ Kept(share, now) \in [Req -> 0..MaxCharge]
      /\ Kept(over, now) \in [Req -> 0..MaxCharge]
      /\ Kept(under, now) \in [Req -> 0..MaxCharge]
      /\ FreshAt(now) \in SUBSET Req
  BY <1>4 DEF Kept, FreshAt, QuotaTypeOK
<1> QED
  BY <1>1, <1>2, <1>3, <1>4, <1>5

LEMMA MonusType ==
    ASSUME NEW a \in Nat, NEW b \in Nat
    PROVE  Monus(a, b) \in Nat /\ Monus(a, b) <= a
BY DEF Monus

\* The history of a correction keeps its types.
LEMMA StandsTypes ==
    ASSUME QuotaTypeOK, NEW r \in Req, NEW now \in Stamps, NEW usage \in 0..MaxCharge,
           Stands(r, now, usage)
    PROVE  /\ share' \in [Req -> 0..MaxCharge]
           /\ over' \in [Req -> 0..MaxCharge] /\ under' \in [Req -> 0..MaxCharge]
<1>1. /\ MaxCharge \in Nat /\ Estimate[r] \in 0..MaxCharge
  BY QuotaAssumption DEF QuotaAssumption
<1>2. Monus(usage, Estimate[r]) \in 0..MaxCharge /\ Monus(Estimate[r], usage) \in 0..MaxCharge
  BY <1>1 DEF Monus
<1> QED
  BY <1>2, QuotaTypes DEF Stands

\* Each operation of the quota preserves its types.
LEMMA CountTypes ==
    ASSUME QuotaTypeOK, NEW r \in Req, Count(r)
    PROVE  QuotaTypeOK'
<1>1. PICK now \in Stamps :
        /\ rate' = [Pruned(now) EXCEPT ![r] = now]
        /\ day' = Today(now)
        /\ amount' = AmountAt(now) + Estimate[r]
        /\ countedAt' = [countedAt EXCEPT ![r] = clock]
        /\ share' = [Kept(share, now) EXCEPT ![r] = Estimate[r]]
        /\ fresh' = FreshAt(now) \cup {r}
        /\ over' = Kept(over, now) /\ under' = Kept(under, now)
        /\ clock' = clock /\ backend' = backend
  BY DEF Count
<1>2. MaxCharge \in Nat /\ Estimate[r] \in 0..MaxCharge /\ Estimate[r] \in Nat
  BY QuotaAssumption DEF QuotaAssumption
<1>3. /\ rate' \in [Req -> Nat] /\ day' \in Nat /\ amount' \in Nat
      /\ fresh' \subseteq Req
  BY <1>1, <1>2, QuotaTypes
<1>4. countedAt' \in [Req -> Nat]
  BY <1>1 DEF QuotaTypeOK
<1>5. /\ share' \in [Req -> 0..MaxCharge]
      /\ over' \in [Req -> 0..MaxCharge] /\ under' \in [Req -> 0..MaxCharge]
  BY <1>1, <1>2, QuotaTypes
<1> QED
  BY <1>1, <1>3, <1>4, <1>5 DEF QuotaTypeOK

LEMMA RefundTypes ==
    ASSUME QuotaTypeOK, NEW r \in Req, Refund(r)
    PROVE  QuotaTypeOK'
<1>1. /\ MaxCharge \in Nat /\ Estimate[r] \in Nat /\ 0 \in 0..MaxCharge
  BY QuotaAssumption DEF QuotaAssumption
<1>2. /\ countedAt' \in [Req -> Nat]
      /\ clock' = clock /\ backend' = backend
  BY DEF Refund, QuotaTypeOK
<1>3. PICK now \in Stamps :
        IF backend = "memory" THEN RefundMemory(r, now) ELSE RefundRedis(r, now)
  BY DEF Refund
<1>4. ASSUME RefundMemory(r, now) PROVE QuotaTypeOK'
  <2>1. rate' \in [Req -> Nat] /\ day' \in Nat /\ fresh' \subseteq Req
    BY <1>4, QuotaTypes DEF RefundMemory
  <2>2. amount' \in Nat
    BY <1>1, <1>4, QuotaTypes, MonusType DEF RefundMemory
  <2> QED
    BY <1>1, <1>2, <1>4, <2>1, <2>2, StandsTypes DEF RefundMemory, QuotaTypeOK
<1>5. ASSUME RefundRedis(r, now) PROVE QuotaTypeOK'
  <2>1. rate' \in [Req -> Nat] /\ day' \in Nat /\ fresh' \subseteq Req
    BY <1>5 DEF RefundRedis, QuotaTypeOK
  <2>2. CASE Rolls(now)
    BY <1>2, <1>5, <2>1, <2>2 DEF RefundRedis, QuotaTypeOK
  <2>3. CASE ~ Rolls(now)
    <3>1. amount' \in Nat
      BY <1>1, <1>5, <2>3, MonusType DEF RefundRedis, QuotaTypeOK
    <3> QED
      BY <1>1, <1>2, <1>5, <2>1, <2>3, <3>1, StandsTypes DEF RefundRedis, QuotaTypeOK
  <2> QED
    BY <2>2, <2>3
<1> QED
  BY <1>3, <1>4, <1>5

LEMMA ReconcileTypes ==
    ASSUME QuotaTypeOK, NEW r \in Req, NEW usage \in 0..MaxCharge, Reconcile(r, usage)
    PROVE  QuotaTypeOK'
<1>1. PICK now \in Stamps :
        /\ rate' = IF backend = "memory" THEN Pruned(now) ELSE rate
        /\ day' = Today(now)
        /\ amount' = Monus(AmountAt(now) + usage, Estimate[r])
        /\ Stands(r, now, usage)
        /\ fresh' = FreshAt(now)
        /\ clock' = clock /\ backend' = backend /\ countedAt' = countedAt
  BY DEF Reconcile
<1>2. Estimate[r] \in Nat /\ AmountAt(now) + usage \in Nat
  BY QuotaTypes, QuotaAssumption DEF QuotaAssumption
<1>3. rate' \in [Req -> Nat] /\ day' \in Nat /\ fresh' \subseteq Req
  BY <1>1, QuotaTypes DEF QuotaTypeOK
<1>4. amount' \in Nat
  BY <1>1, <1>2, MonusType
<1> QED
  BY <1>1, <1>3, <1>4, StandsTypes DEF QuotaTypeOK

\* A step that only moves a request on.
LEMMA GoesTypes ==
    ASSUME TypeOK, NEW r \in Req, NEW from, NEW to \in PCs, Goes(r, from, to)
    PROVE  pc' \in [Req -> PCs]
BY DEF Goes, TypeOK

\* The entry that consume() makes.
LEMMA ConsumeTypes ==
    ASSUME TypeOK, NEW t \in Token, NEW now \in Stamps, Replay!Consume(t, now)
    PROVE  until' \in [Token -> Nat]
<1>1. now \in Nat /\ clock \in Nat /\ Exp[t] \in Nat
  BY QuotaTypes, TokenAssumption DEF TypeOK, QuotaTypeOK, TokenAssumption
<1>2. clock + Replay!Ttl(t, now) \in Nat
  BY <1>1 DEF Replay!Ttl
<1> QED
  BY <1>2 DEF Replay!Consume, TypeOK

\* A request whose decision was verified has one.
VerifiedHasToken == \A r \in Req : pc[r] = "verified" => answer[r].token \in Token

LEMMA VerifiedStep ==
    TypeOK /\ VerifiedHasToken /\ [Next]_vars => VerifiedHasToken'
<1> SUFFICES ASSUME TypeOK, VerifiedHasToken, [Next]_vars PROVE VerifiedHasToken'
  OBVIOUS
<1>1. ASSUME NEW r \in Req, VerifyToken(r) PROVE VerifiedHasToken'
  <2>1. answer[r].token \in Token
    BY <1>1 DEF VerifyToken, TypeOK
  <2> QED
    BY <1>1, <2>1 DEF VerifyToken, Goes, TypeOK, VerifiedHasToken
<1>2. ASSUME NEW r \in Req, ControlPlaneAnswers(r) PROVE VerifiedHasToken'
  BY <1>2 DEF ControlPlaneAnswers, Goes, TypeOK, VerifiedHasToken
<1>3. ASSUME NEW r \in Req, NEW from, NEW to, to # "verified", Goes(r, from, to), answer' = answer
      PROVE  VerifiedHasToken'
  BY <1>3 DEF Goes, TypeOK, VerifiedHasToken
<1>4. ASSUME NEW r \in Req, RequestStep(r), ~ VerifyToken(r), ~ ControlPlaneAnswers(r)
      PROVE  VerifiedHasToken'
  BY <1>3, <1>4 DEF RequestStep, Govern, CountQuota, CountFails, Ungoverned, Misconfigured,
     ControlPlaneFails, Unsigned, TokenRefused, ConsumeToken, Replayed, ConsumeFails, Enforced,
     RefundQuota, ReconcileQuota, KeepEstimate
<1>5. ASSUME UNCHANGED <<pc, answer>> PROVE VerifiedHasToken'
  BY <1>5 DEF VerifiedHasToken
<1> QED
  BY <1>1, <1>2, <1>4, <1>5 DEF Next, TimePasses, vars

\* Type correctness, one step of the specification at a time.
LEMMA TypeStep ==
    TypeOK /\ VerifiedHasToken /\ [Next]_vars => TypeOK'
<1> SUFFICES ASSUME TypeOK, VerifiedHasToken, [Next]_vars PROVE TypeOK'
  OBVIOUS
<1> USE DEF PCs
<1>0. QuotaTypeOK
  BY DEF TypeOK
<1>1. ASSUME UNCHANGED quotaVars PROVE QuotaTypeOK'
  BY <1>0, <1>1 DEF quotaVars, counters, drift, QuotaTypeOK
<1>2. ASSUME NEW r \in Req, CountQuota(r) \/ CountFails(r) PROVE TypeOK'
  <2>1. QuotaTypeOK'
    BY <1>0, <1>1, <1>2, CountTypes DEF CountQuota, CountFails
  <2>2. pc' \in [Req -> PCs]
    BY <1>2, GoesTypes DEF CountQuota, CountFails
  <2> QED
    BY <1>2, <2>1, <2>2 DEF CountQuota, CountFails, TypeOK
<1>3. ASSUME NEW r \in Req, Ungoverned(r) \/ Misconfigured(r) \/ ControlPlaneFails(r) PROVE TypeOK'
  <2>1. QuotaTypeOK'
    BY <1>1, <1>3 DEF Ungoverned, Misconfigured, ControlPlaneFails
  <2>2. pc' \in [Req -> PCs]
    BY <1>3, GoesTypes DEF Ungoverned, Misconfigured, ControlPlaneFails
  <2> QED
    BY <1>3, <2>1, <2>2 DEF Ungoverned, Misconfigured, ControlPlaneFails, TypeOK
<1>4. ASSUME NEW r \in Req, ControlPlaneAnswers(r) PROVE TypeOK'
  <2>1. QuotaTypeOK'
    BY <1>1, <1>4 DEF ControlPlaneAnswers
  <2>2. pc' \in [Req -> PCs]
    BY <1>4, GoesTypes DEF ControlPlaneAnswers
  <2>3. answer' \in [Req -> [token : Token \cup {NoToken}, verdict : Verdicts]]
    BY <1>4 DEF ControlPlaneAnswers, TypeOK
  <2> QED
    BY <1>4, <2>1, <2>2, <2>3 DEF ControlPlaneAnswers, TypeOK
<1>5. ASSUME NEW r \in Req, Unsigned(r) \/ VerifyToken(r) \/ TokenRefused(r) \/ Replayed(r)
      PROVE  TypeOK'
  <2>1. QuotaTypeOK'
    BY <1>1, <1>5 DEF Unsigned, VerifyToken, TokenRefused, Replayed
  <2>2. pc' \in [Req -> PCs]
    BY <1>5, GoesTypes DEF Unsigned, VerifyToken, TokenRefused, Replayed, Enforced
  <2> QED
    BY <1>5, <2>1, <2>2 DEF Unsigned, VerifyToken, TokenRefused, Replayed, TypeOK
<1>6. ASSUME NEW r \in Req, ConsumeToken(r) \/ ConsumeFails(r) PROVE TypeOK'
  <2>1. QuotaTypeOK'
    BY <1>1, <1>6 DEF ConsumeToken, ConsumeFails
  <2>2. pc' \in [Req -> PCs]
    BY <1>6, GoesTypes DEF ConsumeToken, ConsumeFails, Enforced
  <2>3. answer[r].token \in Token
    BY <1>6 DEF ConsumeToken, ConsumeFails, Goes, VerifiedHasToken
  <2>4. until' \in [Token -> Nat]
    BY <1>6, <2>3, ConsumeTypes DEF ConsumeToken, ConsumeFails, TypeOK
  <2>5. ran' \subseteq Token \X Req \X Nat
    BY <1>6, <2>3 DEF ConsumeToken, ConsumeFails, TypeOK, QuotaTypeOK
  <2> QED
    BY <1>6, <2>1, <2>2, <2>4, <2>5 DEF ConsumeToken, ConsumeFails, TypeOK
<1>7. ASSUME NEW r \in Req, RefundQuota(r) \/ ReconcileQuota(r) \/ KeepEstimate(r) PROVE TypeOK'
  <2>1. QuotaTypeOK'
    BY <1>0, <1>1, <1>7, RefundTypes, ReconcileTypes DEF RefundQuota, ReconcileQuota, KeepEstimate
  <2>2. pc' \in [Req -> PCs]
    BY <1>7, GoesTypes DEF RefundQuota, ReconcileQuota, KeepEstimate
  <2> QED
    BY <1>7, <2>1, <2>2 DEF RefundQuota, ReconcileQuota, KeepEstimate, TypeOK
<1>8. CASE TimePasses
  <2>1. QuotaTypeOK'
    BY <1>0, <1>8 DEF TimePasses, Tick, counters, drift, QuotaTypeOK
  <2> QED
    BY <1>8, <2>1 DEF TimePasses, TypeOK
<1>9. CASE UNCHANGED vars
  <2>1. QuotaTypeOK'
    BY <1>1, <1>9 DEF vars
  <2> QED
    BY <1>9, <2>1 DEF vars, TypeOK
<1> QED
  BY <1>2, <1>3, <1>4, <1>5, <1>6, <1>7, <1>8, <1>9 DEF Next, RequestStep, Govern

\* The types, and that a verified answer carries a decision, are kept together.
LEMMA TypeInvariant == Spec => [](TypeOK /\ VerifiedHasToken)
<1>1. Init => TypeOK /\ VerifiedHasToken
  <2> SUFFICES ASSUME Init PROVE TypeOK /\ VerifiedHasToken
    OBVIOUS
  <2>1. QuotaTypeOK
    BY QuotaAssumption DEF Init, QuotaInit, QuotaTypeOK, Nothing, QuotaAssumption
  <2> QED
    BY <2>1 DEF Init, TypeOK, PCs, Verdicts, Replay!Init, VerifiedHasToken
<1> QED
  BY <1>1, TypeStep, VerifiedStep, PTL DEF Spec

\* Every variable of a governed request (routers/chat.py), its quota and the cache
\* of consumed decisions has its type: no refund takes an amount below zero.
THEOREM TypeCorrect == Spec => []TypeOK
BY TypeInvariant, PTL

-----------------------------------------------------------------------------
(* Decisions                                                               *)

\* A decision that let a request run stays in the cache until it expires.
KeptWhileValid == \A x \in ran : until[x[1]] >= Exp[x[1]]

\* An entry of the cache covers what is left of its decision's life, whatever the
\* clock of the replica that asked for it.
LEMMA ConsumeKeeps ==
    ASSUME TypeOK, NEW t \in Token, NEW now \in Stamps, Replay!Consume(t, now)
    PROVE  /\ until'[t] >= Exp[t]
           /\ \A u \in Token \ {t} : until'[u] = until[u]
<1>1. now \in Nat /\ now <= clock /\ clock \in Nat /\ Exp[t] \in Nat
  BY QuotaTypes, TokenAssumption DEF TypeOK, QuotaTypeOK, TokenAssumption
<1>2. clock + Replay!Ttl(t, now) >= Exp[t]
  BY <1>1 DEF Replay!Ttl
<1> QED
  BY <1>2 DEF Replay!Consume, TypeOK

\* No step lets a second request run on a decision that has not expired.
LEMMA DecisionStep ==
    TypeOK /\ VerifiedHasToken /\ KeptWhileValid /\ UsedOnceWhileValid /\ [Next]_vars
        => KeptWhileValid' /\ UsedOnceWhileValid'
<1> SUFFICES ASSUME TypeOK, VerifiedHasToken, KeptWhileValid, UsedOnceWhileValid, [Next]_vars
             PROVE  KeptWhileValid' /\ UsedOnceWhileValid'
  OBVIOUS
<1>1. ASSUME UNCHANGED <<until, ran>> PROVE KeptWhileValid' /\ UsedOnceWhileValid'
  BY <1>1 DEF KeptWhileValid, UsedOnceWhileValid
<1>2. \A x \in ran : x[1] \in Token
  BY DEF TypeOK
<1>3. ASSUME NEW r \in Req, ConsumeToken(r) PROVE KeptWhileValid' /\ UsedOnceWhileValid'
  <2> DEFINE t == answer[r].token
  <2>1. t \in Token
    BY <1>3 DEF ConsumeToken, Goes, VerifiedHasToken
  <2>2. PICK now \in Stamps : Replay!Consume(t, now)
    BY <1>3 DEF ConsumeToken
  <2>3. ran' = ran \/ ran' = ran \cup {<<t, r, clock>>}
    BY <1>3 DEF ConsumeToken
  <2>4. until[t] <= clock
    BY <1>3, <2>1 DEF ConsumeToken, Replay!Used, TypeOK, QuotaTypeOK
  <2>5. until[t] \in Nat /\ clock \in Nat /\ Exp[t] \in Nat
    BY <2>1, TokenAssumption DEF TypeOK, QuotaTypeOK, TokenAssumption
  <2> HIDE DEF t
  <2>6. KeptWhileValid'
    <3>1. /\ until'[t] >= Exp[t]
          /\ \A u \in Token \ {t} : until'[u] = until[u]
      BY <2>1, <2>2, ConsumeKeeps
    <3> QED
      BY <1>2, <2>3, <3>1 DEF KeptWhileValid
  <2>7. \A x \in ran : x[1] = t => clock >= Exp[t]
    BY <2>4, <2>5 DEF KeptWhileValid
  <2>8. UsedOnceWhileValid'
    <3> SUFFICES ASSUME NEW x \in ran', NEW y \in ran', x[1] = y[1], x[2] # y[2]
                 PROVE  x[3] >= Exp[x[1]] \/ y[3] >= Exp[x[1]]
      BY DEF UsedOnceWhileValid
    <3>1. CASE x \in ran /\ y \in ran
      BY <3>1 DEF UsedOnceWhileValid
    <3>2. CASE x = <<t, r, clock>> /\ y \in ran
      BY <2>7, <3>2
    <3>3. CASE x \in ran /\ y = <<t, r, clock>>
      BY <2>7, <3>3
    <3> QED
      BY <2>3, <3>1, <3>2, <3>3
  <2> QED
    BY <2>6, <2>8
<1>4. ASSUME NEW r \in Req, ConsumeFails(r) PROVE KeptWhileValid' /\ UsedOnceWhileValid'
  <2> DEFINE t == answer[r].token
  <2>1. t \in Token
    BY <1>4 DEF ConsumeFails, Goes, VerifiedHasToken
  <2>2. ran' = ran
    BY <1>4 DEF ConsumeFails
  <2>3. ASSUME NEW now \in Stamps, Replay!Consume(t, now) PROVE KeptWhileValid'
    <3>1. /\ until'[t] >= Exp[t]
          /\ \A u \in Token \ {t} : until'[u] = until[u]
      BY <2>1, <2>3, ConsumeKeeps
    <3> HIDE DEF t
    <3> QED
      BY <1>2, <2>2, <3>1 DEF KeptWhileValid
  <2> QED
    BY <1>1, <1>4, <2>2, <2>3 DEF ConsumeFails, UsedOnceWhileValid
<1>5. ASSUME NEW r \in Req, RequestStep(r), ~ ConsumeToken(r), ~ ConsumeFails(r)
      PROVE  UNCHANGED <<until, ran>>
  BY <1>5 DEF RequestStep, Govern, CountQuota, CountFails, Ungoverned, Misconfigured,
     ControlPlaneFails, ControlPlaneAnswers, Unsigned, VerifyToken, TokenRefused, Replayed,
     RefundQuota, ReconcileQuota, KeepEstimate
<1> QED
  BY <1>1, <1>3, <1>4, <1>5 DEF Next, TimePasses, vars

\* A signed decision lets one request run, unless a second one was verified in time
\* and came to the cache after the decision had expired.
THEOREM DecisionsAreUsedOnce == Spec => []UsedOnceWhileValid
<1>1. Init => KeptWhileValid /\ UsedOnceWhileValid
  BY DEF Init, KeptWhileValid, UsedOnceWhileValid
<1> QED
  BY <1>1, DecisionStep, TypeInvariant, PTL DEF Spec

-----------------------------------------------------------------------------
(* The quota                                                               *)

\* A sum of what the requests stand for is a natural number.
LEMMA QuotaSumType ==
    ASSUME NEW f
    PROVE  Sum(f) \in Nat
BY QuotaAssumption, TotalType DEF Sum, QuotaAssumption

\* Changing the part of one request changes the sum by as much.
LEMMA SumReplaced ==
    ASSUME NEW f \in [Req -> 0..MaxCharge], NEW r \in Req, NEW v \in 0..MaxCharge
    PROVE  Sum([f EXCEPT ![r] = v]) + f[r] = Sum(f) + v
<1> DEFINE g == [f EXCEPT ![r] = v]
<1>1. IsFiniteSet(Req) /\ MaxCharge \in Nat /\ IsFiniteSet(Req \ {r})
  BY QuotaAssumption, FS_Difference DEF QuotaAssumption
<1>2. g[r] = v /\ \A q \in Req \ {r} : g[q] = f[q]
  OBVIOUS
<1> HIDE DEF g
<1>3. Total(f, Req, MaxCharge) = Total(f, Req \ {r}, MaxCharge) + f[r]
  BY <1>1, TotalWithout
<1>4. Total(g, Req, MaxCharge) = Total(g, Req \ {r}, MaxCharge) + g[r]
  BY <1>1, <1>2, TotalWithout
<1>5. Total(g, Req \ {r}, MaxCharge) = Total(f, Req \ {r}, MaxCharge)
  BY <1>1, <1>2, TotalSame
<1>6. Total(f, Req \ {r}, MaxCharge) \in Nat /\ f[r] \in Nat /\ v \in Nat
  BY <1>1, TotalType
<1>7. Sum(g) + f[r] = Sum(f) + v
  BY <1>2, <1>3, <1>4, <1>5, <1>6 DEF Sum
<1> QED
  BY <1>7 DEF g

\* Where every request is on its way through a quota operation, the history of its
\* part is known: nothing before it is counted, its estimate afterwards unless the
\* amount was reset in between, and no correction before its own.
PartKnown(r) ==
    /\ pc[r] = "new" => r \notin fresh
    /\ pc[r] # "over" => /\ over[r] = 0 /\ under[r] = 0
                         /\ share[r] = IF r \in fresh THEN Estimate[r] ELSE 0

PartsKnown == \A r \in Req : PartKnown(r)

\* What a script that may reset the amount starts from.
LEMMA ResetDrift ==
    ASSUME QuotaTypeOK, QuotaWithinDrift, PartsKnown, NEW now \in Stamps
    PROVE  /\ AmountAt(now) <= Sum(Kept(share, now)) + Sum(Kept(over, now))
           /\ Sum(Kept(share, now)) <= AmountAt(now) + Sum(Kept(under, now))
           /\ \A r \in Req :
                 /\ pc[r] = "new" => r \notin FreshAt(now)
                 /\ pc[r] # "over" =>
                      /\ Kept(over, now)[r] = 0 /\ Kept(under, now)[r] = 0
                      /\ Kept(share, now)[r] = IF r \in FreshAt(now) THEN Estimate[r] ELSE 0
<1>1. CASE Rolls(now)
  <2>1. MaxCharge \in Nat /\ \A r \in Req : Nothing[r] = 0
    BY QuotaAssumption DEF Nothing, QuotaAssumption
  <2>2. Sum(Nothing) = 0
    BY <2>1, TotalNothing DEF Sum
  <2> QED
    BY <1>1, <2>1, <2>2 DEF Kept, AmountAt, FreshAt
<1>2. CASE ~ Rolls(now)
  BY <1>2 DEF Kept, AmountAt, FreshAt, QuotaWithinDrift, PartsKnown, PartKnown
<1> QED
  BY <1>1, <1>2

\* A request that is counted adds its estimate to the amount and to the parts.
LEMMA CountDrift ==
    ASSUME TypeOK, QuotaWithinDrift, PartsKnown, NEW r \in Req, NEW to \in PCs \ {"new"},
           Goes(r, "new", to), Count(r)
    PROVE  QuotaWithinDrift' /\ PartsKnown'
<1>0. QuotaTypeOK
  BY DEF TypeOK
<1>1. PICK now \in Stamps :
        /\ amount' = AmountAt(now) + Estimate[r]
        /\ share' = [Kept(share, now) EXCEPT ![r] = Estimate[r]]
        /\ fresh' = FreshAt(now) \cup {r}
        /\ over' = Kept(over, now) /\ under' = Kept(under, now)
  BY DEF Count
<1>2. /\ AmountAt(now) <= Sum(Kept(share, now)) + Sum(Kept(over, now))
      /\ Sum(Kept(share, now)) <= AmountAt(now) + Sum(Kept(under, now))
      /\ \A q \in Req :
            /\ pc[q] = "new" => q \notin FreshAt(now)
            /\ pc[q] # "over" =>
                 /\ Kept(over, now)[q] = 0 /\ Kept(under, now)[q] = 0
                 /\ Kept(share, now)[q] = IF q \in FreshAt(now) THEN Estimate[q] ELSE 0
  BY <1>0, ResetDrift
<1>3. Kept(share, now)[r] = 0
  BY <1>2 DEF Goes
<1>4. /\ Estimate[r] \in 0..MaxCharge /\ Estimate[r] \in Nat
      /\ Kept(share, now) \in [Req -> 0..MaxCharge]
      /\ AmountAt(now) \in Nat
  BY <1>0, QuotaTypes, QuotaAssumption DEF QuotaAssumption
<1>5. Sum(share') + 0 = Sum(Kept(share, now)) + Estimate[r]
  BY <1>1, <1>3, <1>4, SumReplaced
<1>6. /\ Sum(share') \in Nat /\ Sum(Kept(share, now)) \in Nat
      /\ Sum(over') \in Nat /\ Sum(under') \in Nat
  BY QuotaSumType
<1>7. Sum(over') = Sum(Kept(over, now)) /\ Sum(under') = Sum(Kept(under, now))
  BY <1>1
<1>8. QuotaWithinDrift'
  BY <1>1, <1>2, <1>4, <1>5, <1>6, <1>7 DEF QuotaWithinDrift
<1>9. PartsKnown'
  <2> SUFFICES ASSUME NEW q \in Req PROVE PartKnown(q)'
    BY DEF PartsKnown
  <2>1. pc[r] = "new" /\ pc'[r] = to /\ to # "new" /\ (q # r => pc'[q] = pc[q])
    BY DEF Goes, TypeOK
  <2>2. CASE q = r
    BY <1>1, <1>2, <1>4, <2>1, <2>2 DEF PartKnown
  <2>3. CASE q # r
    BY <1>1, <1>2, <1>4, <2>1, <2>3 DEF PartKnown
  <2> QED
    BY <2>2, <2>3
<1> QED
  BY <1>8, <1>9

\* A correction to `usage` moves the amount and the parts alike: the request's own
\* part if it was counted since the reset, and otherwise the drift.
LEMMA StandsDrift ==
    ASSUME TypeOK, QuotaWithinDrift, PartsKnown, NEW r \in Req, NEW from \in PCs \ {"over"},
           Goes(r, from, "over"), NEW now \in Stamps, NEW usage \in 0..MaxCharge,
           amount' = Monus(AmountAt(now) + usage, Estimate[r]),
           Stands(r, now, usage), fresh' = FreshAt(now)
    PROVE  QuotaWithinDrift' /\ PartsKnown'
<1>0. QuotaTypeOK
  BY DEF TypeOK
<1>1. /\ AmountAt(now) <= Sum(Kept(share, now)) + Sum(Kept(over, now))
      /\ Sum(Kept(share, now)) <= AmountAt(now) + Sum(Kept(under, now))
      /\ \A q \in Req :
            /\ pc[q] = "new" => q \notin FreshAt(now)
            /\ pc[q] # "over" =>
                 /\ Kept(over, now)[q] = 0 /\ Kept(under, now)[q] = 0
                 /\ Kept(share, now)[q] = IF q \in FreshAt(now) THEN Estimate[q] ELSE 0
  BY <1>0, ResetDrift
<1>2. /\ MaxCharge \in Nat /\ Estimate[r] \in 0..MaxCharge /\ Estimate[r] \in Nat
      /\ usage \in Nat /\ AmountAt(now) \in Nat
      /\ Kept(share, now) \in [Req -> 0..MaxCharge]
      /\ Kept(over, now) \in [Req -> 0..MaxCharge]
      /\ Kept(under, now) \in [Req -> 0..MaxCharge]
  BY <1>0, QuotaTypes, QuotaAssumption DEF QuotaAssumption
<1>3. pc[r] # "over"
  BY DEF Goes
<1>4. /\ Sum(share') \in Nat /\ Sum(over') \in Nat /\ Sum(under') \in Nat
      /\ Sum(Kept(share, now)) \in Nat /\ Sum(Kept(over, now)) \in Nat
      /\ Sum(Kept(under, now)) \in Nat
  BY QuotaSumType
<1>5. CASE r \in FreshAt(now)
  <2>1. /\ share' = [Kept(share, now) EXCEPT ![r] = usage]
        /\ over' = Kept(over, now) /\ under' = Kept(under, now)
    BY <1>5 DEF Stands
  <2>2. Kept(share, now)[r] = Estimate[r]
    BY <1>1, <1>3, <1>5
  <2>3. Sum(share') + Estimate[r] = Sum(Kept(share, now)) + usage
    <3>1. Sum([Kept(share, now) EXCEPT ![r] = usage]) + Kept(share, now)[r]
            = Sum(Kept(share, now)) + usage
      BY <1>2, SumReplaced
    <3> QED
      BY <2>1, <2>2, <3>1
  <2>4. QuotaWithinDrift'
    <3>1. Sum(over') = Sum(Kept(over, now)) /\ Sum(under') = Sum(Kept(under, now))
      BY <2>1
    <3> QED
      BY <1>1, <1>2, <1>4, <2>3, <3>1 DEF QuotaWithinDrift, Monus
  <2>5. PartsKnown'
    <3> SUFFICES ASSUME NEW q \in Req PROVE PartKnown(q)'
      BY DEF PartsKnown
    <3>1. pc'[r] = "over" /\ (q # r => pc'[q] = pc[q])
      BY DEF Goes, TypeOK
    <3>2. CASE q = r
      BY <3>1, <3>2 DEF PartKnown
    <3>3. CASE q # r
      BY <1>1, <1>2, <2>1, <3>1, <3>3 DEF PartKnown
    <3> QED
      BY <3>2, <3>3
  <2> QED
    BY <2>4, <2>5
<1>6. CASE r \notin FreshAt(now)
  <2>1. /\ share' = Kept(share, now)
        /\ over' = [Kept(over, now) EXCEPT ![r] = Monus(usage, Estimate[r])]
        /\ under' = [Kept(under, now) EXCEPT ![r] = Monus(Estimate[r], usage)]
    BY <1>6 DEF Stands
  <2>2. Kept(over, now)[r] = 0 /\ Kept(under, now)[r] = 0
    BY <1>1, <1>3
  <2>3. Monus(usage, Estimate[r]) \in 0..MaxCharge /\ Monus(Estimate[r], usage) \in 0..MaxCharge
    BY <1>2 DEF Monus
  <2>4. /\ Sum(over') + 0 = Sum(Kept(over, now)) + Monus(usage, Estimate[r])
        /\ Sum(under') + 0 = Sum(Kept(under, now)) + Monus(Estimate[r], usage)
    <3>1. /\ Sum([Kept(over, now) EXCEPT ![r] = Monus(usage, Estimate[r])]) + Kept(over, now)[r]
               = Sum(Kept(over, now)) + Monus(usage, Estimate[r])
          /\ Sum([Kept(under, now) EXCEPT ![r] = Monus(Estimate[r], usage)]) + Kept(under, now)[r]
               = Sum(Kept(under, now)) + Monus(Estimate[r], usage)
      BY <1>2, <2>3, SumReplaced
    <3> QED
      BY <2>1, <2>2, <3>1
  <2>5. QuotaWithinDrift'
    <3>1. Sum(share') = Sum(Kept(share, now))
      BY <2>1
    <3> QED
      BY <1>1, <1>2, <1>4, <2>4, <3>1 DEF QuotaWithinDrift, Monus
  <2>6. PartsKnown'
    <3> SUFFICES ASSUME NEW q \in Req PROVE PartKnown(q)'
      BY DEF PartsKnown
    <3>1. pc'[r] = "over" /\ (q # r => pc'[q] = pc[q])
      BY DEF Goes, TypeOK
    <3>2. CASE q = r
      BY <3>1, <3>2 DEF PartKnown
    <3>3. CASE q # r
      BY <1>1, <1>2, <2>1, <3>1, <3>3 DEF PartKnown
    <3> QED
      BY <3>2, <3>3
  <2> QED
    BY <2>5, <2>6
<1> QED
  BY <1>5, <1>6

\* A step that leaves the counters and their history alone.
LEMMA SameDrift ==
    ASSUME TypeOK, QuotaWithinDrift, PartsKnown, UNCHANGED <<amount, drift>>,
           \A q \in Req : /\ pc'[q] = "new" => pc[q] = "new"
                          /\ pc'[q] # "over" => pc[q] # "over"
    PROVE  QuotaWithinDrift' /\ PartsKnown'
BY DEF drift, QuotaWithinDrift, PartsKnown, PartKnown

LEMMA DriftStep ==
    TypeOK /\ QuotaWithinDrift /\ PartsKnown /\ [Next]_vars => QuotaWithinDrift' /\ PartsKnown'
<1> SUFFICES ASSUME TypeOK, QuotaWithinDrift, PartsKnown, [Next]_vars
             PROVE  QuotaWithinDrift' /\ PartsKnown'
  OBVIOUS
<1> USE DEF PCs
<1>0. QuotaTypeOK
  BY DEF TypeOK
<1>1. ASSUME NEW r \in Req, NEW from \in PCs \ {"over"}, NEW to \in PCs \ {"new"},
             Goes(r, from, to), UNCHANGED quotaVars
      PROVE  QuotaWithinDrift' /\ PartsKnown'
  <2>1. \A q \in Req : /\ pc'[q] = "new" => pc[q] = "new"
                       /\ pc'[q] # "over" => pc[q] # "over"
    BY <1>1 DEF Goes, TypeOK
  <2>2. UNCHANGED <<amount, drift>>
    BY <1>1 DEF quotaVars, counters
  <2> QED
    BY <2>1, <2>2, SameDrift
<1>2. ASSUME NEW r \in Req, CountQuota(r) \/ CountFails(r) PROVE QuotaWithinDrift' /\ PartsKnown'
  BY <1>1, <1>2, CountDrift DEF CountQuota, CountFails
<1>3. ASSUME NEW r \in Req, Govern(r) PROVE QuotaWithinDrift' /\ PartsKnown'
  BY <1>1, <1>3 DEF Govern, Ungoverned, Misconfigured, ControlPlaneFails, ControlPlaneAnswers,
     Unsigned, VerifyToken, TokenRefused, ConsumeToken, Replayed, ConsumeFails, Enforced
<1>4. ASSUME NEW r \in Req, ReconcileQuota(r) PROVE QuotaWithinDrift' /\ PartsKnown'
  <2>1. PICK usage \in 0..MaxCharge : Reconcile(r, usage)
    BY <1>4 DEF ReconcileQuota
  <2>2. PICK now \in Stamps : /\ amount' = Monus(AmountAt(now) + usage, Estimate[r])
                              /\ Stands(r, now, usage) /\ fresh' = FreshAt(now)
    BY <2>1 DEF Reconcile
  <2> QED
    BY <1>4, <2>2, StandsDrift DEF ReconcileQuota
<1>5. ASSUME NEW r \in Req, Goes(r, "refunding", "over"), Refund(r)
      PROVE  QuotaWithinDrift' /\ PartsKnown'
  <2>0. 0 \in 0..MaxCharge
    BY QuotaAssumption DEF QuotaAssumption
  <2>1. PICK now \in Stamps :
          IF backend = "memory" THEN RefundMemory(r, now) ELSE RefundRedis(r, now)
    BY <1>5 DEF Refund
  <2>2. AmountAt(now) + 0 = AmountAt(now)
    BY <1>0, QuotaTypes
  <2>3. CASE RefundMemory(r, now)
    BY <1>5, <2>0, <2>2, <2>3, StandsDrift DEF RefundMemory
  <2>4. CASE RefundRedis(r, now) /\ Rolls(now)
    <3>1. UNCHANGED <<amount, drift>>
      BY <2>4 DEF RefundRedis, drift
    <3>2. \A q \in Req : /\ pc'[q] = "new" => pc[q] = "new"
                         /\ pc'[q] # "over" => pc[q] # "over"
      BY <1>5 DEF Goes, TypeOK
    <3> QED
      BY <3>1, <3>2, SameDrift
  <2>5. CASE RefundRedis(r, now) /\ ~ Rolls(now)
    <3>1. amount' = Monus(AmountAt(now) + 0, Estimate[r]) /\ fresh' = FreshAt(now)
      BY <2>2, <2>5 DEF RefundRedis, AmountAt, FreshAt
    <3>2. Stands(r, now, 0)
      BY <2>5 DEF RefundRedis
    <3> QED
      BY <1>5, <2>0, <3>1, <3>2, StandsDrift
  <2> QED
    BY <2>1, <2>3, <2>4, <2>5
<1>6. ASSUME NEW r \in Req, RefundQuota(r) \/ KeepEstimate(r) PROVE QuotaWithinDrift' /\ PartsKnown'
  BY <1>1, <1>5, <1>6 DEF RefundQuota, KeepEstimate
<1>7. CASE TimePasses
  BY <1>7, SameDrift DEF TimePasses, Tick, counters
<1>8. CASE UNCHANGED vars
  BY <1>8, SameDrift DEF vars, quotaVars, counters
<1> QED
  BY <1>2, <1>3, <1>4, <1>6, <1>7, <1>8 DEF Next, RequestStep

\* The amount of the day is what the requests counted since its reset stand for, up
\* to the corrections of those that were counted before it.
THEOREM QuotaIsWithinDrift == Spec => []QuotaWithinDrift
<1>1. Init => QuotaWithinDrift /\ PartsKnown
  <2> SUFFICES ASSUME Init PROVE QuotaWithinDrift /\ PartsKnown
    OBVIOUS
  <2>1. MaxCharge \in Nat /\ \A r \in Req : Nothing[r] = 0
    BY QuotaAssumption DEF Nothing, QuotaAssumption
  <2>2. Sum(Nothing) = 0
    BY <2>1, TotalNothing DEF Sum
  <2> QED
    BY <2>1, <2>2 DEF Init, QuotaInit, QuotaWithinDrift, PartsKnown, PartKnown
<1> QED
  BY <1>1, DriftStep, TypeInvariant, PTL DEF Spec

-----------------------------------------------------------------------------
(* The minute                                                              *)

\* A stamp is behind the time its request was counted at by no more than the lag,
\* and one that was pruned was a window old for whoever pruned it.
RateInv ==
    \A q \in Req :
        /\ countedAt[q] <= clock
        /\ rate[q] # 0 => /\ countedAt[q] # 0
                          /\ rate[q] <= countedAt[q] /\ countedAt[q] <= rate[q] + Lag
        /\ rate[q] = 0 /\ countedAt[q] # 0 => countedAt[q] + Window <= clock + Lag

\* A stamp is within the lag of the store's clock.
LEMMA StampLag ==
    ASSUME QuotaTypeOK, NEW now \in Stamps
    PROVE  now \in Nat /\ now # 0 /\ now <= clock /\ clock <= now + Lag
BY QuotaAssumption, QuotaTypes DEF Stamps, QuotaTypeOK, QuotaAssumption

\* What a prune leaves of the stamp of a request.
LEMMA PruneKeeps ==
    ASSUME QuotaTypeOK, RateInv, NEW now \in Stamps, NEW q \in Req
    PROVE  /\ Pruned(now)[q] \in {0, rate[q]}
           /\ rate[q] # 0 /\ Pruned(now)[q] = 0 => countedAt[q] + Window <= clock + Lag
           /\ Pruned(now)[q] # 0 => rate[q] + Window >= now
<1>1. /\ now \in Nat /\ now <= clock /\ clock \in Nat /\ Window \in Nat /\ Lag \in Nat
      /\ rate[q] \in Nat /\ countedAt[q] \in Nat
  BY StampLag, QuotaAssumption DEF QuotaTypeOK, QuotaAssumption
<1>2. Pruned(now)[q] = IF q \in InWindow(now) THEN rate[q] ELSE 0
  BY DEF Pruned
<1>3. rate[q] # 0 /\ q \notin InWindow(now) => rate[q] + Window <= now
  BY <1>1 DEF InWindow
<1>4. q \in InWindow(now) => rate[q] # 0 /\ rate[q] + Window >= now
  BY <1>1 DEF InWindow
<1>5. rate[q] # 0 => countedAt[q] <= rate[q] + Lag
  BY DEF RateInv
<1> QED
  BY <1>1, <1>2, <1>3, <1>4, <1>5

\* A step of the quota that writes stamps of nobody but r, prunes at most, and
\* takes what it removes of r out of the count.
LEMMA RateStays ==
    ASSUME QuotaTypeOK, RateInv, NEW r \in Req,
           Refund(r) \/ \E usage \in 0..MaxCharge : Reconcile(r, usage)
    PROVE  RateInv' /\ \A q \in Req : rate'[q] \in {0, rate[q]}
<1>1. PICK now \in Stamps :
        /\ \/ countedAt' = countedAt /\ rate' \in {rate, Pruned(now)}
           \/ /\ countedAt' = [countedAt EXCEPT ![r] = 0]
              /\ rate' \in {[rate EXCEPT ![r] = 0], [Pruned(now) EXCEPT ![r] = 0]}
        /\ clock' = clock
  BY DEF Refund, RefundMemory, RefundRedis, Reconcile
<1>2. \A q \in Req : /\ rate'[q] \in {0, rate[q], Pruned(now)[q]}
                     /\ q # r => countedAt'[q] = countedAt[q] /\ rate'[q] \in {rate[q], Pruned(now)[q]}
                     /\ \/ countedAt'[q] = countedAt[q] /\ rate'[q] \in {rate[q], Pruned(now)[q]}
                        \/ countedAt'[q] = 0 /\ rate'[q] = 0
  BY <1>1 DEF Pruned, QuotaTypeOK
<1>3. \A q \in Req : rate'[q] \in {0, rate[q]}
  BY <1>2, PruneKeeps
<1>4. RateInv'
  <2> SUFFICES ASSUME NEW q \in Req
               PROVE  /\ countedAt'[q] <= clock
                      /\ rate'[q] # 0 => /\ countedAt'[q] # 0
                                         /\ rate'[q] <= countedAt'[q]
                                         /\ countedAt'[q] <= rate'[q] + Lag
                      /\ rate'[q] = 0 /\ countedAt'[q] # 0 => countedAt'[q] + Window <= clock + Lag
    BY <1>1 DEF RateInv
  <2>1. clock \in Nat /\ countedAt[q] \in Nat /\ rate[q] \in Nat
    BY DEF QuotaTypeOK
  <2>2. CASE countedAt'[q] = 0 /\ rate'[q] = 0
    BY <2>1, <2>2
  <2>3. CASE countedAt'[q] = countedAt[q] /\ rate'[q] \in {rate[q], Pruned(now)[q]}
    BY <2>1, <2>3, PruneKeeps DEF RateInv
  <2> QED
    BY <1>2, <2>2, <2>3
<1> QED
  BY <1>3, <1>4

\* A request is counted: the others are pruned.
LEMMA RateCounts ==
    ASSUME QuotaTypeOK, RateInv, NEW r \in Req, Count(r)
    PROVE  /\ RateInv'
           /\ \A q \in Req \ {r} :
                 /\ rate'[q] \in {0, rate[q]}
                 /\ countedAt[q] # 0 /\ countedAt[q] + Window > clock + Lag => rate'[q] # 0
                 /\ rate'[q] # 0 => countedAt[q] # 0 /\ countedAt[q] + Window + Lag >= clock
<1>1. PICK now \in Stamps :
        /\ rate' = [Pruned(now) EXCEPT ![r] = now]
        /\ countedAt' = [countedAt EXCEPT ![r] = clock]
        /\ clock' = clock
  BY DEF Count
<1>2. /\ now \in Nat /\ now # 0 /\ now <= clock /\ clock <= now + Lag
      /\ clock \in Nat /\ Window \in Nat /\ Lag \in Nat
  BY StampLag, QuotaAssumption DEF QuotaTypeOK, QuotaAssumption
<1>3. /\ rate'[r] = now /\ countedAt'[r] = clock
      /\ \A q \in Req \ {r} : rate'[q] = Pruned(now)[q] /\ countedAt'[q] = countedAt[q]
  BY <1>1 DEF Pruned, QuotaTypeOK
<1>4. ASSUME NEW q \in Req \ {r}
      PROVE  /\ rate'[q] \in {0, rate[q]} /\ rate[q] \in Nat /\ countedAt[q] \in Nat
             /\ rate[q] # 0 /\ rate'[q] = 0 => countedAt[q] + Window <= clock + Lag
             /\ rate'[q] # 0 => rate[q] + Window >= now
             /\ countedAt[q] <= clock
             /\ rate[q] # 0 => /\ countedAt[q] # 0
                               /\ rate[q] <= countedAt[q] /\ countedAt[q] <= rate[q] + Lag
             /\ rate[q] = 0 /\ countedAt[q] # 0 => countedAt[q] + Window <= clock + Lag
  BY <1>3, PruneKeeps DEF RateInv, QuotaTypeOK
<1>5. RateInv'
  <2> SUFFICES ASSUME NEW q \in Req
               PROVE  /\ countedAt'[q] <= clock
                      /\ rate'[q] # 0 => /\ countedAt'[q] # 0
                                         /\ rate'[q] <= countedAt'[q]
                                         /\ countedAt'[q] <= rate'[q] + Lag
                      /\ rate'[q] = 0 /\ countedAt'[q] # 0 => countedAt'[q] + Window <= clock + Lag
    BY <1>1 DEF RateInv
  <2>1. CASE q = r
    BY <1>2, <1>3, <2>1
  <2>2. CASE q # r
    BY <1>2, <1>3, <1>4, <2>2
  <2> QED
    BY <2>1, <2>2
<1> QED
  BY <1>2, <1>4, <1>5

\* Time only helps.
LEMMA RateTick ==
    ASSUME QuotaTypeOK, RateInv, clock' \in {clock, clock + 1}, UNCHANGED <<rate, countedAt>>
    PROVE  RateInv'
BY QuotaAssumption DEF RateInv, QuotaTypeOK, QuotaAssumption

\* What a step of a request does to the quota.
LEMMA QuotaSteps ==
    ASSUME [Next]_vars
    PROVE  \/ \E r \in Req : Count(r) \/ Refund(r) \/ \E usage \in 0..MaxCharge : Reconcile(r, usage)
           \/ clock' \in {clock, clock + 1} /\ UNCHANGED <<rate, countedAt>>
BY DEF Next, RequestStep, Govern, CountQuota, CountFails, Ungoverned, Misconfigured,
   ControlPlaneFails, ControlPlaneAnswers, Unsigned, VerifyToken, TokenRefused, ConsumeToken,
   Replayed, ConsumeFails, RefundQuota, ReconcileQuota, KeepEstimate, TimePasses, Tick, vars,
   quotaVars, counters

\* Who is counted finds in the minute those that belong there, whatever the clocks
\* of the replicas that pruned it.
THEOREM RateIsRight == Spec => RateSeen
<1>1. Init => RateInv
  BY QuotaAssumption DEF Init, QuotaInit, Nothing, RateInv, QuotaAssumption
<1>2. TypeOK /\ RateInv /\ [Next]_vars => RateInv'
  BY QuotaSteps, RateCounts, RateStays, RateTick DEF TypeOK
<1>3. TypeOK /\ RateInv /\ [Next]_vars =>
        [\A r \in Req : rate[r] # rate'[r] /\ rate'[r] # 0 =>
          \A q \in Req \ {r} :
             /\ countedAt[q] # 0 /\ countedAt[q] + Window > clock + Lag => rate'[q] # 0
             /\ rate'[q] # 0 => countedAt[q] # 0 /\ countedAt[q] + Window + Lag >= clock
        ]_quotaVars
  <2> SUFFICES ASSUME TypeOK, RateInv, [Next]_vars, NEW r \in Req, rate[r] # rate'[r], rate'[r] # 0
               PROVE  \A q \in Req \ {r} :
                 /\ countedAt[q] # 0 /\ countedAt[q] + Window > clock + Lag => rate'[q] # 0
                 /\ rate'[q] # 0 => countedAt[q] # 0 /\ countedAt[q] + Window + Lag >= clock
    OBVIOUS
  <2>1. PICK s \in Req : Count(s)
    BY QuotaSteps, RateStays DEF TypeOK
  <2>2. s = r
    BY <2>1, RateCounts DEF TypeOK
  <2> QED
    BY <2>1, <2>2, RateCounts DEF TypeOK
<1> QED
  BY <1>1, <1>2, <1>3, TypeInvariant, PTL DEF Spec, RateSeen
=============================================================================

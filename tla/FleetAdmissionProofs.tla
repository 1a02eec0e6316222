------------------------ MODULE FleetAdmissionProofs ------------------------
(***************************************************************************)
(* Proofs about FleetAdmission for every value of its constants: the store *)
(* never holds more leases than the limit, a renewal that works keeps its  *)
(* lease, nothing that comes late brings a lease back, and the counters of *)
(* every gateway are exact.                                                *)
(***************************************************************************)
EXTENDS FleetAdmission, FiniteSetTheorems, TLAPS

\* A clock reading is no more than Lag behind, and a lease is longer than that.
LEMMA Delays ==
    ASSUME NEW d \in 0..Lag
    PROVE  /\ -d \in Int /\ -d <= 0 /\ -Lag <= -d
           /\ Ttl - d \in -Lag..Ttl /\ Ttl - d >= Ttl - Lag
           /\ 0 \in -Lag..Ttl
           /\ Ttl \in Nat /\ Interval \in Nat /\ Lag \in Nat /\ Interval + Lag < Ttl
  BY FleetAssumption DEF FleetAssumption

-----------------------------------------------------------------------------
(* Types                                                                   *)

StoreOK == leases \subseteq Req /\ left \in [Req -> -Lag..Ttl]

\* Each way in which the zset changes keeps its type.
LEMMA StoreTypes ==
    ASSUME StoreOK
    PROVE  /\ \A S \in SUBSET leases : Keep(S) => StoreOK'
           /\ \A r \in Req, d \in 0..Lag : Write(r, d) \/ Extend(r, d) => StoreOK'
           /\ \A d \in 0..Lag : Purge(d) => StoreOK'
<1>1. ASSUME NEW S \in SUBSET leases, Keep(S) PROVE StoreOK'
  BY <1>1, FleetAssumption DEF Keep, StoreOK, FleetAssumption
<1>2. ASSUME NEW r \in Req, NEW d \in 0..Lag, Write(r, d) PROVE StoreOK'
  BY <1>2, Delays DEF Write, Expired, StoreOK
<1>3. ASSUME NEW r \in Req, NEW d \in 0..Lag, Extend(r, d) PROVE StoreOK'
  BY <1>3, Delays DEF Extend, StoreOK
<1>4. ASSUME NEW d \in 0..Lag, Purge(d) PROVE StoreOK'
  BY <1>1, <1>4 DEF Purge
<1> QED
  BY <1>1, <1>2, <1>3, <1>4

\* Raising and lowering a counter of a gateway keeps it a natural number.
LEMMA CounterTypes ==
    ASSUME NEW f \in [Gateway -> Nat], NEW r \in Req
    PROVE  Raise(f, r) \in [Gateway -> Nat] /\ Lower(f, r) \in [Gateway -> Nat]
<1>1. Home[r] \in Gateway /\ f[Home[r]] \in Nat
  BY FleetAssumption DEF FleetAssumption
<1> QED
  BY <1>1 DEF Raise, Lower

TasksOK ==
    /\ policy \in Policies
    /\ phase \in [Req -> Phases]
    /\ mode \in [Req -> {"none", "redis", "local", "fail_open"}]
    /\ renewal \in [Req -> {"none", "asleep", "sent", "stopped"}]
    /\ age \in [Req -> 0..Interval]

CountersOK ==
    /\ queued \in [Gateway -> Nat]
    /\ inflight \in [Gateway -> Nat]
    /\ permits \in [Gateway -> Nat]

\* The types, in the three parts that steps change.
LEMMA TypeParts == TypeOK <=> StoreOK /\ TasksOK /\ CountersOK
  BY DEF TypeOK, StoreOK, TasksOK, CountersOK

\* Every step of one request keeps the types.
LEMMA SteppedTypes ==
    ASSUME TypeOK, NEW r \in Req, Stepped(r)
    PROVE  TypeOK'
<1> USE DEF store, counters
<1>0. StoreOK /\ TasksOK /\ CountersOK /\ 0 \in 0..Interval
  BY TypeParts, FleetAssumption DEF FleetAssumption
<1>1. StoreOK'
  <2>1. UNCHANGED store => StoreOK'
    BY <1>0 DEF StoreOK
  <2>2. CASE GiveUp(r)
    BY <2>1, <2>2, <1>0, StoreTypes DEF GiveUp
  <2>3. CASE RenewFails(r)
    BY <2>1, <2>3, <1>0, StoreTypes DEF RenewFails
  <2>4. CASE Free(r) \/ FreeFails(r)
    <3>1. leases \ {r} \in SUBSET leases
      OBVIOUS
    <3> QED
      BY <2>1, <2>4, <3>1, <1>0, StoreTypes DEF Free, FreeFails
  <2>5. CASE ~ (GiveUp(r) \/ RenewFails(r) \/ Free(r) \/ FreeFails(r))
    BY <2>1, <2>5 DEF Stepped, Begin, ProbeFails, Leave, Enter, CutOff, Unavailable, LocalTicket,
                      Permit, CancelLocal, SendRenewal, Abandon, Release, Undo
  <2> QED
    BY <2>2, <2>3, <2>4, <2>5
<1>2. TasksOK'
  <2> USE <1>0 DEF TasksOK, Go, Phases
  <2>1. CASE Begin(r) \/ ProbeFails(r) \/ GiveUp(r) \/ Leave(r) \/ CancelLocal(r)
    BY <2>1 DEF Begin, ProbeFails, GiveUp, Leave, CancelLocal
  <2>2. CASE Enter(r) \/ Unavailable(r)
    BY <2>2 DEF Enter, Unavailable
  <2>3. CASE LocalTicket(r) \/ Permit(r)
    BY <2>3 DEF LocalTicket, Permit
  <2>4. CASE SendRenewal(r) \/ RenewFails(r)
    BY <2>4 DEF SendRenewal, RenewFails
  <2>5. CASE Release(r)
    BY <2>5 DEF Release
  <2>6. CASE Free(r) \/ FreeFails(r) \/ Undo(r)
    BY <2>6 DEF Free, FreeFails, Undo
  <2>7. CASE CutOff(r) \/ Abandon(r)
    BY <2>7 DEF CutOff, Abandon
  <2> QED
    BY <2>1, <2>2, <2>3, <2>4, <2>5, <2>6, <2>7 DEF Stepped
<1>3. CountersOK'
  <2>1. /\ \A f \in [Gateway -> Nat] :
              Raise(f, r) \in [Gateway -> Nat] /\ Lower(f, r) \in [Gateway -> Nat]
        /\ Home[r] \in Gateway
    BY CounterTypes, FleetAssumption DEF FleetAssumption
  <2>2. UNCHANGED counters => CountersOK'
    BY <1>0 DEF CountersOK
  <2>3. CASE Leave(r) \/ Enter(r)
    BY <2>1, <2>3, <1>0 DEF Leave, Enter, CountersOK
  <2>4. CASE LocalTicket(r)
    BY <2>1, <2>4, <1>0 DEF LocalTicket, CountersOK
  <2>5. CASE Permit(r)
    BY <2>1, <2>5, <1>0 DEF Permit, CountersOK
  <2>6. CASE Release(r) \/ Undo(r)
    BY <2>1, <2>6, <1>0 DEF Release, Undo, CountersOK
  <2>7. CASE ~ (Leave(r) \/ Enter(r) \/ LocalTicket(r) \/ Permit(r) \/ Release(r) \/ Undo(r))
    BY <2>2, <2>7 DEF Stepped, Begin, ProbeFails, GiveUp, CutOff, Unavailable, CancelLocal,
                      SendRenewal, RenewFails, Abandon, Free, FreeFails
  <2> QED
    BY <2>3, <2>4, <2>5, <2>6, <2>7
<1> QED
  BY <1>1, <1>2, <1>3, TypeParts DEF TypeOK, StoreOK, TasksOK, CountersOK

\* Every step that runs a script for a request keeps the types.
LEMMA ScriptedTypes ==
    ASSUME TypeOK, NEW r \in Req, NEW d \in 0..Lag, Scripted(r, d)
    PROVE  TypeOK'
<1> USE DEF store, counters
<1>0. StoreOK /\ TasksOK /\ CountersOK /\ 0 \in 0..Interval
  BY TypeParts, FleetAssumption DEF FleetAssumption
<1>1. StoreOK'
  BY <1>0, StoreTypes DEF Scripted, Probe, Grant, Lose, Renew
<1>2. TasksOK'
  BY <1>0 DEF Scripted, Probe, Grant, Lose, Renew, Go, Phases, TasksOK
<1>3. CountersOK'
  BY <1>0, CounterTypes DEF Scripted, Probe, Grant, Lose, Renew, CountersOK
<1> QED
  BY <1>1, <1>2, <1>3 DEF TypeOK, StoreOK, TasksOK, CountersOK

\* So do the steps of the world.
LEMMA WorldTypes ==
    ASSUME TypeOK, \/ \E d \in 0..Lag : Count(d)
                   \/ \E g \in Gateway : Crash(g)
                   \/ Tick
    PROVE  TypeOK'
<1> USE DEF store, counters
<1>0. StoreOK /\ TasksOK /\ CountersOK /\ 0 \in 0..Interval /\ Limit \in Nat
  BY TypeParts, FleetAssumption DEF FleetAssumption
<1>1. ASSUME NEW d \in 0..Lag, Count(d) PROVE TypeOK'
  <2>1. StoreOK'
    BY <1>0, <1>1, StoreTypes DEF Count
  <2> QED
    BY <1>0, <1>1, <2>1 DEF Count, TypeOK, StoreOK, TasksOK, CountersOK
<1>2. ASSUME NEW g \in Gateway, Crash(g) PROVE TypeOK'
  <2>1. StoreOK'
    BY <1>0, <1>2 DEF Crash, StoreOK
  <2>2. TasksOK'
    BY <1>0, <1>2 DEF Crash, TasksOK, Phases
  <2>3. CountersOK'
    BY <1>0, <1>2 DEF Crash, CountersOK
  <2> QED
    BY <2>1, <2>2, <2>3 DEF TypeOK, StoreOK, TasksOK, CountersOK
<1>3. CASE Tick
  <2>1. StoreOK'
    BY <1>0, <1>3, FleetAssumption DEF Tick, StoreOK, FleetAssumption
  <2>2. TasksOK'
    BY <1>0, <1>3, FleetAssumption DEF Tick, TasksOK, Kept, FleetAssumption
  <2> QED
    BY <1>0, <1>3, <2>1, <2>2 DEF Tick, TypeOK, StoreOK, TasksOK, CountersOK
<1> QED
  BY <1>1, <1>2, <1>3

\* The variables of Redis, of the tasks and of the counters keep their types.
THEOREM TypeCorrect == Spec => []TypeOK
<1>1. Init => TypeOK
  BY FleetAssumption DEF Init, TypeOK, Phases, FleetAssumption
<1>2. TypeOK /\ [Next]_vars => TypeOK'
  <2> SUFFICES ASSUME TypeOK, [Next]_vars PROVE TypeOK'
    OBVIOUS
  <2>1. CASE UNCHANGED vars
    BY <2>1 DEF vars, store, counters, TypeOK
  <2>2. ASSUME NEW r \in Req, Stepped(r) PROVE TypeOK'
    BY <2>2, SteppedTypes
  <2>3. ASSUME NEW r \in Req, NEW d \in 0..Lag, Scripted(r, d) PROVE TypeOK'
    BY <2>3, ScriptedTypes
  <2> QED
    BY <2>1, <2>2, <2>3, WorldTypes DEF Next
<1> QED
  BY <1>1, <1>2, PTL DEF Spec

-----------------------------------------------------------------------------
(* The limit                                                               *)

\* The lease set is finite, and so is each set the steps below take from it.
LEMMA LeasesFinite ==
    ASSUME StoreOK
    PROVE  /\ IsFiniteSet(leases) /\ Cardinality(leases) \in Nat
           /\ \A S \in SUBSET leases : IsFiniteSet(S) /\ Cardinality(S) \in Nat
                                       /\ Cardinality(S) <= Cardinality(leases)
           /\ Limit \in Nat
<1>1. IsFiniteSet(leases)
  BY FS_Subset, FleetAssumption DEF StoreOK, FleetAssumption
<1> QED
  BY <1>1, FS_Subset, FS_CardinalityType, FleetAssumption DEF FleetAssumption

\* What each way of changing the zset does to the number of its members.
LEMMA StoreBounded ==
    ASSUME StoreOK, LeasesBounded
    PROVE  /\ \A S \in SUBSET leases : Keep(S) => LeasesBounded'
           /\ \A r \in Req, d \in 0..Lag : Write(r, d) \/ Extend(r, d) => LeasesBounded'
           /\ \A d \in 0..Lag : Purge(d) => LeasesBounded'
           /\ UNCHANGED store => LeasesBounded'
<1>1. ASSUME NEW S \in SUBSET leases, leases' = S PROVE LeasesBounded'
  BY <1>1, LeasesFinite DEF LeasesBounded
<1>2. ASSUME NEW r \in Req, NEW d \in 0..Lag, Write(r, d) PROVE LeasesBounded'
  <2> DEFINE S == leases \ Expired(d)
  <2>1. IsFiniteSet(S) /\ Cardinality(S) \in Nat /\ Limit \in Nat
    BY LeasesFinite
  <2>2. Cardinality(S) < Limit /\ leases' = S \cup {r}
    BY <1>2, <2>1 DEF Write, Full
  <2> HIDE DEF S
  <2>3. Cardinality(S \cup {r}) = IF r \in S THEN Cardinality(S) ELSE Cardinality(S) + 1
    BY <2>1, FS_AddElement
  <2> QED
    BY <2>1, <2>2, <2>3 DEF LeasesBounded
<1>3. ASSUME NEW r \in Req, NEW d \in 0..Lag, Extend(r, d) PROVE LeasesBounded'
  BY <1>3 DEF Extend, LeasesBounded
<1> QED
  BY <1>1, <1>2, <1>3 DEF Keep, Purge, store, LeasesBounded

\* No step exceeds the limit: only acquire adds a member, and it counts first.
LEMMA BoundStep ==
    ASSUME TypeOK, LeasesBounded, [Next]_vars
    PROVE  LeasesBounded'
<1>0. StoreOK
  BY TypeParts
<1>1. ASSUME NEW r \in Req, Stepped(r) PROVE LeasesBounded'
  <2>1. leases \ {r} \in SUBSET leases
    OBVIOUS
  <2>2. CASE GiveUp(r) \/ RenewFails(r) \/ Free(r) \/ FreeFails(r)
    BY <2>1, <2>2, <1>0, StoreBounded DEF GiveUp, RenewFails, Free, FreeFails
  <2>3. CASE ~ (GiveUp(r) \/ RenewFails(r) \/ Free(r) \/ FreeFails(r))
    <3>1. UNCHANGED store
      BY <1>1, <2>3 DEF Stepped, Begin, ProbeFails, Leave, Enter, CutOff, Unavailable,
                        LocalTicket, Permit, CancelLocal, SendRenewal, Abandon, Release, Undo
    <3> QED
      BY <3>1, <1>0, StoreBounded
  <2> QED
    BY <2>2, <2>3
<1>2. ASSUME NEW r \in Req, NEW d \in 0..Lag, Scripted(r, d) PROVE LeasesBounded'
  BY <1>0, <1>2, StoreBounded DEF Scripted, Probe, Grant, Lose, Renew
<1>3. ASSUME NEW d \in 0..Lag, Count(d) PROVE LeasesBounded'
  BY <1>0, <1>3, StoreBounded DEF Count
<1>4. ASSUME NEW g \in Gateway, Crash(g) PROVE LeasesBounded'
  BY <1>0, <1>4, StoreBounded DEF Crash
<1>5. CASE Tick \/ UNCHANGED vars
  BY <1>5 DEF Tick, vars, store, LeasesBounded
<1> QED
  BY <1>1, <1>2, <1>3, <1>4, <1>5 DEF Next

\* The store never holds more leases than the limit of the tenant.
THEOREM FleetLimit == Spec => []LeasesBounded
<1>1. Init => LeasesBounded
  BY FS_EmptySet, FleetAssumption DEF Init, LeasesBounded, FleetAssumption
<1>2. TypeOK /\ LeasesBounded /\ [Next]_vars => LeasesBounded'
  BY BoundStep
<1> QED
  BY <1>1, <1>2, TypeCorrect, PTL DEF Spec

-----------------------------------------------------------------------------
(* The leases that are kept up                                             *)

\* A request that never ran has no renewal.
Before == {"new", "probing", "waiting", "leased", "leaving", "failed", "fallback", "local",
           "permitted"}

\* The time since the last write of a lease bounds how much of it is used up.
KeptInv ==
    \A r \in Req :
        /\ r \in Kept => r \in leases /\ left[r] >= Ttl - Lag - age[r]
        /\ r \notin Kept => age[r] = 0
        /\ phase[r] \in Before => renewal[r] = "none"
        /\ phase[r] = "running" /\ mode[r] = "redis" => renewal[r] # "none"

\* A lease that is kept up has not expired on any caller's clock.
LEMMA KeptAlive ==
    ASSUME TypeOK, KeptInv
    PROVE  \A r \in Kept, d \in 0..Lag : r \in leases /\ r \notin Expired(d)
<1> SUFFICES ASSUME NEW r \in Kept, NEW d \in 0..Lag
             PROVE  r \in leases /\ r \notin Expired(d)
  OBVIOUS
<1>1. r \in Req
  BY DEF Kept, Renewing
<1>2. r \in leases /\ left[r] >= Ttl - Lag - age[r] /\ age[r] \in 0..Interval /\ left[r] \in Int
  BY <1>1, FleetAssumption DEF KeptInv, TypeOK, FleetAssumption
<1>3. left[r] > 0
  BY <1>2, Delays
<1> QED
  BY <1>2, <1>3, Delays DEF Expired

\* No script that runs for another request touches a lease that is kept up.
LEMMA StoreKeeps ==
    ASSUME TypeOK, KeptInv, NEW q \in Kept
    PROVE  LET same == q \in leases' /\ left'[q] = left[q] IN
           /\ \A d \in 0..Lag : Purge(d) => same
           /\ \A r \in Req \ {q}, d \in 0..Lag : Write(r, d) \/ Extend(r, d) => same
           /\ \A r \in Req \ {q} : Keep(leases \ {r}) => same
           /\ UNCHANGED store => same
<1>1. q \in Req /\ q \in leases
  BY KeptAlive, FleetAssumption DEF Kept, Renewing, KeptInv
<1>2. \A d \in 0..Lag : q \notin Expired(d)
  BY KeptAlive
<1>3. left \in [Req -> -Lag..Ttl]
  BY DEF TypeOK
<1>4. ASSUME NEW d \in 0..Lag, Purge(d) PROVE q \in leases' /\ left'[q] = left[q]
  BY <1>1, <1>2, <1>4 DEF Purge, Keep
<1>5. ASSUME NEW r \in Req \ {q}, NEW d \in 0..Lag, Write(r, d)
      PROVE  q \in leases' /\ left'[q] = left[q]
  BY <1>1, <1>2, <1>5 DEF Write
<1>6. ASSUME NEW r \in Req \ {q}, NEW d \in 0..Lag, Extend(r, d)
      PROVE  q \in leases' /\ left'[q] = left[q]
  BY <1>1, <1>3, <1>6 DEF Extend
<1>7. ASSUME NEW r \in Req \ {q}, Keep(leases \ {r}) PROVE q \in leases' /\ left'[q] = left[q]
  BY <1>1, <1>7 DEF Keep
<1> QED
  BY <1>1, <1>4, <1>5, <1>6, <1>7 DEF store

\* A step of r that leaves the tasks of the others alone and keeps the leases
\* of the others.
OthersAlone(r) ==
    \A q \in Req \ {r} :
        /\ phase'[q] = phase[q] /\ mode'[q] = mode[q]
        /\ renewal'[q] = renewal[q] /\ age'[q] = age[q]
        /\ q \in Kept => q \in leases' /\ left'[q] = left[q]

\* What KeptInv says of r after its step.
RightAfter(r) ==
    /\ r \in Kept' => r \in leases' /\ left'[r] >= Ttl - Lag - age'[r]
    /\ r \notin Kept' => age'[r] = 0
    /\ phase'[r] \in Before => renewal'[r] = "none"
    /\ phase'[r] = "running" /\ mode'[r] = "redis" => renewal'[r] # "none"

\* Taking part in the admission, up to and including the moment it runs.
LEMMA AcquireKept ==
    ASSUME TypeOK, KeptInv, NEW r \in Req,
           \/ Begin(r) \/ ProbeFails(r) \/ GiveUp(r) \/ Leave(r) \/ Enter(r)
           \/ Unavailable(r) \/ LocalTicket(r) \/ Permit(r) \/ CancelLocal(r)
           \/ CutOff(r) /\ phase[r] # "undoing"
           \/ \E d \in 0..Lag : Probe(r, d) \/ Grant(r, d) \/ Lose(r, d)
    PROVE  OthersAlone(r) /\ RightAfter(r)
<1>0. TasksOK /\ left \in [Req -> -Lag..Ttl]
  BY DEF TypeOK, TasksOK
<1>1. phase[r] \in Before /\ renewal[r] = "none"
  BY <1>0 DEF KeptInv, Before, Begin, ProbeFails, GiveUp, Leave, Enter, Unavailable, LocalTicket,
              GoesLocal, CutOff, Permit, CancelLocal, Probe, Grant, Lose
<1>2. \A q \in Req \ {r} :
          /\ phase'[q] = phase[q] /\ mode'[q] = mode[q]
          /\ renewal'[q] = renewal[q] /\ age'[q] = age[q]
  <2>1. CASE Enter(r) \/ Unavailable(r) \/ LocalTicket(r) \/ Leave(r)
    BY <2>1, <1>0 DEF TasksOK, Go, Enter, Unavailable, LocalTicket, Leave
  <2>2. CASE Begin(r) \/ ProbeFails(r) \/ GiveUp(r) \/ CutOff(r) \/ Permit(r) \/ CancelLocal(r)
    BY <2>2, <1>0 DEF TasksOK, Go, Begin, ProbeFails, GiveUp, CutOff, Permit, CancelLocal
  <2>3. CASE \E d \in 0..Lag : Probe(r, d) \/ Grant(r, d) \/ Lose(r, d)
    BY <2>3, <1>0 DEF TasksOK, Go, Probe, Grant, Lose
  <2> QED
    BY <2>1, <2>2, <2>3
<1>3. \A q \in Req \ {r} : q \in Kept => q \in leases' /\ left'[q] = left[q]
  <2> SUFFICES ASSUME NEW q \in Req \ {r}, q \in Kept
               PROVE  q \in leases' /\ left'[q] = left[q]
    OBVIOUS
  <2>0. r \in Req \ {q}
    OBVIOUS
  <2>1. CASE GiveUp(r)
    BY <2>0, <2>1, StoreKeeps DEF GiveUp
  <2>2. CASE \E d \in 0..Lag : Probe(r, d) \/ Grant(r, d) \/ Lose(r, d)
    BY <2>0, <2>2, StoreKeeps DEF Probe, Grant, Lose
  <2>3. CASE Begin(r) \/ ProbeFails(r) \/ Leave(r) \/ Enter(r) \/ CutOff(r) \/ Unavailable(r)
             \/ LocalTicket(r) \/ Permit(r) \/ CancelLocal(r)
    <3>1. UNCHANGED store
      BY <2>3 DEF Begin, ProbeFails, Leave, Enter, CutOff, Unavailable, LocalTicket, Permit,
                  CancelLocal, store
    <3> QED
      BY <3>1, StoreKeeps
  <2> QED
    BY <2>1, <2>2, <2>3
<1>4. RightAfter(r)
  <2>1. CASE \E d \in 0..Lag : Grant(r, d)
    <3>1. PICK d \in 0..Lag : Grant(r, d)
      BY <2>1
    <3>2. r \in leases' /\ left'[r] = Ttl - d /\ phase'[r] = "leased"
      BY <3>1, <1>0 DEF Grant, Write, Go, TasksOK
    <3>3. age'[r] = 0 /\ renewal'[r] = "none"
      BY <3>1, <1>1, <1>0 DEF Grant, KeptInv, Kept, Renewing
    <3> QED
      BY <3>2, <3>3, Delays DEF RightAfter, Kept, Before
  <2>2. CASE Enter(r)
    <3>1. phase'[r] = "running" /\ leases' = leases /\ left' = left /\ age' = age
      BY <2>2, <1>0 DEF Enter, Go, TasksOK, store
    <3>2. CASE phase[r] = "leased"
      <4>1. mode'[r] = "redis" /\ renewal'[r] = "asleep" /\ r \in Kept
        BY <2>2, <3>2, <1>0 DEF Enter, TasksOK, Kept
      <4> QED
        BY <3>1, <4>1 DEF RightAfter, Kept, Renewing, Held, KeptInv, Before
    <3>3. CASE phase[r] # "leased"
      <4>1. mode'[r] = "local" /\ renewal'[r] = "none" /\ r \notin Kept
        BY <2>2, <3>3, <1>0, <1>1 DEF Enter, TasksOK, Kept, Renewing
      <4> QED
        BY <3>1, <4>1 DEF RightAfter, Kept, Renewing, KeptInv, Before
    <3> QED
      BY <3>2, <3>3
  <2>3. CASE CutOff(r)
    <3>1. age'[r] = 0 /\ renewal'[r] = "none"
      BY <2>3, <1>0, <1>1 DEF TasksOK, CutOff
    <3>2. phase'[r] \in {"refused", "ticket_left", "permit_left"}
      BY <2>3, <1>0, <1>1 DEF TasksOK, Go, CutOff, Before
    <3> QED
      BY <3>1, <3>2 DEF RightAfter, Kept, Renewing, Held
  <2>4. CASE ~ (Enter(r) \/ CutOff(r) \/ \E d \in 0..Lag : Grant(r, d))
    <3>1. phase[r] # "leased" /\ phase'[r] # "leased" /\ renewal'[r] = "none" /\ age' = age
      BY <2>4, <1>0, <1>1 DEF TasksOK, Go, Begin, ProbeFails, GiveUp, Leave, Unavailable,
                              LocalTicket, GoesLocal, Permit, CancelLocal, Probe, Lose
    <3>2. ~ (phase'[r] = "running" /\ mode'[r] = "redis")
      BY <2>4, <1>0 DEF TasksOK, Go, Begin, ProbeFails, GiveUp, Leave, Unavailable,
                        LocalTicket, Permit, CancelLocal, Probe, Lose
    <3> QED
      BY <3>1, <3>2, <1>1 DEF RightAfter, Kept, Renewing, KeptInv
  <2> QED
    BY <2>1, <2>2, <2>3, <2>4
<1> QED
  BY <1>2, <1>3, <1>4 DEF OthersAlone

\* Renewing, running and giving back, and stopping on the way.
LEMMA RunKept ==
    ASSUME TypeOK, KeptInv, NEW r \in Req,
           \/ SendRenewal(r) \/ RenewFails(r) \/ Abandon(r)
           \/ CutOff(r) /\ phase[r] = "undoing"
           \/ Release(r) \/ Free(r) \/ FreeFails(r) \/ Undo(r)
           \/ \E d \in 0..Lag : Renew(r, d)
    PROVE  OthersAlone(r) /\ RightAfter(r)
<1>0. TasksOK /\ left \in [Req -> -Lag..Ttl]
  BY DEF TypeOK, TasksOK
<1>1. \A q \in Req \ {r} :
          /\ phase'[q] = phase[q] /\ mode'[q] = mode[q]
          /\ renewal'[q] = renewal[q] /\ age'[q] = age[q]
  <2>1. CASE SendRenewal(r) \/ RenewFails(r) \/ \E d \in 0..Lag : Renew(r, d)
    BY <2>1, <1>0 DEF TasksOK, SendRenewal, RenewFails, Renew
  <2>2. CASE Abandon(r) \/ CutOff(r) \/ Release(r) \/ Free(r) \/ FreeFails(r) \/ Undo(r)
    BY <2>2, <1>0 DEF TasksOK, Go, Abandon, CutOff, Release, Free, FreeFails, Undo
  <2> QED
    BY <2>1, <2>2
<1>2. \A q \in Req \ {r} : q \in Kept => q \in leases' /\ left'[q] = left[q]
  <2> SUFFICES ASSUME NEW q \in Req \ {r}, q \in Kept
               PROVE  q \in leases' /\ left'[q] = left[q]
    OBVIOUS
  <2>0. r \in Req \ {q}
    OBVIOUS
  <2>1. CASE RenewFails(r) \/ \E d \in 0..Lag : Renew(r, d)
    BY <2>0, <2>1, StoreKeeps DEF RenewFails, Renew
  <2>2. CASE Free(r) \/ FreeFails(r)
    BY <2>0, <2>2, StoreKeeps DEF Free, FreeFails
  <2>3. CASE SendRenewal(r) \/ Abandon(r) \/ CutOff(r) \/ Release(r) \/ Undo(r)
    <3>1. UNCHANGED store
      BY <2>3 DEF SendRenewal, Abandon, CutOff, Release, Undo, store
    <3> QED
      BY <3>1, StoreKeeps
  <2> QED
    BY <2>1, <2>2, <2>3
<1>3. RightAfter(r)
  <2>1. CASE SendRenewal(r)
    BY <2>1, <1>0 DEF SendRenewal, TasksOK, RightAfter, Kept, Renewing, Held, KeptInv,
                      Before, store
  <2>2. ASSUME NEW d \in 0..Lag, Renew(r, d) PROVE RightAfter(r)
    <3>1. phase' = phase /\ age'[r] = 0 /\ phase[r] \notin Before /\ renewal[r] = "sent"
      BY <2>2, <1>0 DEF Renew, TasksOK, KeptInv
    <3>2. CASE phase[r] \in Held /\ r \in leases
      <4>1. r \in leases' /\ left'[r] = Ttl - d /\ renewal'[r] = "asleep"
        BY <2>2, <3>2, <1>0 DEF Renew, Extend, TasksOK
      <4> QED
        BY <3>1, <4>1, Delays DEF RightAfter, Before
    <3>3. CASE phase[r] \notin Held
      BY <2>2, <3>1, <3>3, <1>0 DEF Renew, TasksOK, RightAfter, Kept, Renewing, Held, Before
    <3>4. CASE phase[r] \in Held /\ r \notin leases
      BY <2>2, <3>1, <3>4, <1>0 DEF Renew, TasksOK, RightAfter, Kept, Renewing, Before
    <3> QED
      BY <3>2, <3>3, <3>4
  <2>3. CASE RenewFails(r)
    <3>1. phase' = phase /\ age'[r] = 0 /\ phase[r] \notin Before
      BY <2>3, <1>0 DEF RenewFails, TasksOK, KeptInv
    <3>2. renewal'[r] = IF phase[r] \in Held THEN "stopped" ELSE "none"
      BY <2>3, <1>0 DEF RenewFails, TasksOK
    <3> QED
      BY <3>1, <3>2 DEF RightAfter, Kept, Renewing, Held, Before
  <2>4. CASE Release(r)
    BY <2>4, <1>0 DEF Release, Go, TasksOK, RightAfter, Kept, Renewing, Held, Before
  <2>5. CASE Free(r) \/ FreeFails(r) \/ Undo(r)
    <3>1. /\ phase[r] \in {"releasing", "undoing"} /\ age' = age
          /\ phase'[r] \in {"undoing", "unreleased", "ended"}
      BY <2>5, <1>0 DEF Free, FreeFails, Undo, Go, TasksOK
    <3> QED
      BY <3>1 DEF RightAfter, Kept, Renewing, Held, Before, KeptInv
  <2>6. CASE CutOff(r) /\ phase[r] = "undoing"
    <3>1. age'[r] = 0 /\ phase'[r] = "unreleased"
      BY <2>6, <1>0 DEF CutOff, GoesLocal, Go, TasksOK
    <3> QED
      BY <3>1 DEF RightAfter, Kept, Renewing, Held, Before
  <2>7. CASE Abandon(r)
    <3>1. /\ phase[r] = "running" /\ phase'[r] = "orphaned"
          /\ UNCHANGED <<leases, left, renewal, age>>
      BY <2>7, <1>0 DEF Abandon, Go, TasksOK, store
    <3> QED
      BY <3>1 DEF RightAfter, Kept, Renewing, Held, Before, KeptInv
  <2> QED
    BY <2>1, <2>2, <2>3, <2>4, <2>5, <2>6, <2>7
<1> QED
  BY <1>1, <1>2, <1>3 DEF OthersAlone

\* Time, gateways that stop and callers that only count.
LEMMA WorldKept ==
    ASSUME TypeOK, KeptInv, \/ \E d \in 0..Lag : Count(d)
                            \/ \E g \in Gateway : Crash(g)
                            \/ Tick
                            \/ UNCHANGED vars
    PROVE  KeptInv'
<1>0. TasksOK /\ left \in [Req -> -Lag..Ttl]
  BY DEF TypeOK, TasksOK
<1>1. ASSUME NEW d \in 0..Lag, Count(d) PROVE KeptInv'
  <2>1. \A q \in Kept : q \in leases' /\ left'[q] = left[q]
    BY <1>1, StoreKeeps DEF Count
  <2>2. Kept' = Kept /\ phase' = phase /\ mode' = mode /\ renewal' = renewal /\ age' = age
    BY <1>1 DEF Count, Kept, Renewing
  <2> QED
    BY <2>1, <2>2 DEF KeptInv
<1>2. ASSUME NEW g \in Gateway, Crash(g) PROVE KeptInv'
  <2>1. /\ \A r \in Req : \/ /\ phase'[r] = phase[r] /\ renewal'[r] = renewal[r]
                             /\ age'[r] = age[r]
                          \/ phase'[r] = "dead" /\ age'[r] = 0
        /\ mode' = mode /\ leases' = leases /\ left' = left
    BY <1>2, <1>0 DEF Crash, TasksOK, store
  <2> QED
    BY <2>1 DEF KeptInv, Kept, Renewing, Held, Before
<1>3. CASE Tick
  <2>1. Kept' = Kept /\ phase' = phase /\ mode' = mode /\ renewal' = renewal /\ leases' = leases
    BY <1>3 DEF Tick, Kept, Renewing
  <2>2. ASSUME NEW r \in Kept PROVE left'[r] >= Ttl - Lag - age'[r]
    <3>1. r \in Req /\ age[r] \in Nat /\ left[r] \in Int
      BY <1>0, FleetAssumption DEF Kept, Renewing, TasksOK, FleetAssumption
    <3>2. age'[r] = age[r] + 1 /\ left'[r] \in {left[r], left[r] - 1}
      BY <1>3, <3>1, <1>0 DEF Tick, TasksOK
    <3> QED
      BY <3>1, <3>2, FleetAssumption DEF KeptInv, FleetAssumption
  <2>3. \A r \in Req \ Kept : age'[r] = age[r]
    BY <1>3, <1>0 DEF Tick, TasksOK
  <2> QED
    BY <2>1, <2>2, <2>3 DEF KeptInv
<1>4. CASE UNCHANGED vars
  BY <1>4 DEF vars, store, KeptInv, Kept, Renewing
<1> QED
  BY <1>1, <1>2, <1>3, <1>4

\* The lease of a request whose renewal works is there, with enough time left.
THEOREM KeptInvariant == Spec => []KeptInv
<1>1. Init => KeptInv
  BY DEF Init, KeptInv, Kept, Renewing, Held
<1>2. TypeOK /\ KeptInv /\ [Next]_vars => KeptInv'
  <2> SUFFICES ASSUME TypeOK, KeptInv, [Next]_vars PROVE KeptInv'
    OBVIOUS
  <2>1. ASSUME NEW r \in Req, OthersAlone(r), RightAfter(r) PROVE KeptInv'
    BY <2>1 DEF OthersAlone, RightAfter, KeptInv, Kept, Renewing
  <2>2. ASSUME NEW r \in Req, Stepped(r) \/ \E d \in 0..Lag : Scripted(r, d)
        PROVE  OthersAlone(r) /\ RightAfter(r)
    BY <2>2, AcquireKept, RunKept DEF Stepped, Scripted
  <2> QED
    BY <2>1, <2>2, WorldKept DEF Next
<1> QED
  BY <1>1, <1>2, TypeCorrect, PTL DEF Spec

\* Nobody takes away the lease of a request whose renewal works.
THEOREM LeaseIsHeld == Spec => []HeldWhileRenewing
<1>1. KeptInv => HeldWhileRenewing
  BY DEF KeptInv, HeldWhileRenewing, Kept, Renewing
<1> QED
  BY <1>1, KeptInvariant, PTL

\* What runs beyond the limit of the fleet has lost its renewal.
THEOREM FleetExcess == Spec => []FleetWithinExcess
<1>1. TypeOK /\ LeasesBounded /\ KeptInv => FleetWithinExcess
  <2> SUFFICES ASSUME TypeOK, LeasesBounded, KeptInv PROVE FleetWithinExcess
    OBVIOUS
  <2> DEFINE stopped == {r \in RunsOnLease : renewal[r] = "stopped"}
             rest == RunsOnLease \ stopped
  <2>1. stopped \in SUBSET Req /\ rest \in SUBSET Req /\ RunsOnLease = rest \cup stopped
    BY DEF RunsOnLease
  <2>2. rest \in SUBSET leases
    BY DEF RunsOnLease, KeptInv, Kept, Renewing, Held, TypeOK
  <2>3. IsFiniteSet(rest) /\ IsFiniteSet(stopped)
    BY <2>1, FS_Subset, FleetAssumption DEF FleetAssumption
  <2>4. Cardinality(rest) <= Cardinality(leases) /\ Cardinality(leases) \in Nat /\ Limit \in Nat
    BY <2>2, LeasesFinite DEF StoreOK, TypeOK
  <2>5. rest \cap stopped = {}
    OBVIOUS
  <2> HIDE DEF stopped, rest
  <2>6. Cardinality(rest \cup stopped) =
            Cardinality(rest) + Cardinality(stopped) - Cardinality(rest \cap stopped)
    BY <2>3, FS_Union
  <2>7. Cardinality(rest \cap stopped) = 0
    BY <2>5, FS_EmptySet
  <2>8. Cardinality(rest) \in Nat /\ Cardinality(stopped) \in Nat
    BY <2>3, FS_CardinalityType
  <2>9. Cardinality(rest \cup stopped) = Cardinality(rest) + Cardinality(stopped)
    BY <2>6, <2>8, <2>7
  <2>10. Cardinality(RunsOnLease) <= Limit + Cardinality(stopped)
    BY <2>1, <2>4, <2>8, <2>9 DEF LeasesBounded
  <2> QED
    BY <2>10 DEF FleetWithinExcess, stopped
<1> QED
  BY <1>1, TypeCorrect, FleetLimit, KeptInvariant, PTL

\* A lease appears only when its own request takes it.
THEOREM OnlyAcquire == Spec => OnlyAcquireWrites
<1>1. TypeOK /\ [Next]_vars => [\A r \in leases' \ leases : phase[r] = "waiting"]_vars
  <2> SUFFICES ASSUME TypeOK, Next, NEW q \in leases' \ leases PROVE phase[q] = "waiting"
    OBVIOUS
  <2>1. ASSUME NEW r \in Req, Stepped(r) PROVE phase[q] = "waiting"
    BY <2>1 DEF Stepped, Begin, ProbeFails, GiveUp, Leave, Enter, CutOff, Unavailable, LocalTicket,
                Permit, CancelLocal, SendRenewal, RenewFails, Abandon, Release, Free, FreeFails,
                Undo, store, Write, Extend, Keep
  <2>2. ASSUME NEW r \in Req, NEW d \in 0..Lag, Scripted(r, d) PROVE phase[q] = "waiting"
    BY <2>2 DEF Scripted, Probe, Grant, Lose, Renew, Write, Extend, Keep, Purge
  <2>3. (\E d \in 0..Lag : Count(d)) \/ (\E g \in Gateway : Crash(g)) \/ Tick => FALSE
    BY DEF Count, Crash, Tick, Purge, Keep, store
  <2> QED
    BY <2>1, <2>2, <2>3 DEF Next
<1> QED
  BY <1>1, TypeCorrect, PTL DEF Spec, OnlyAcquireWrites

-----------------------------------------------------------------------------
(* The counters                                                            *)

\* What a request is counted by: the queue, the number of those inside, and the
\* permits of its gateway.  One that was cut off is counted on.
Queues(r) ==
    phase[r] \in {"waiting", "leased", "leaving", "failed", "local", "permitted",
                  "ticket_left", "permit_left"}
Inside(r) ==
    \/ phase[r] \in {"unreleased", "undoing"}
    \/ phase[r] \in Held \cup {"releasing"} /\ mode[r] # "fail_open"
HasPermit(r) ==
    phase[r] \in {"permitted", "permit_left"} \/ (phase[r] \in Held /\ mode[r] = "local")

Queue(g) == {r \in Req : Home[r] = g /\ Queues(r)}
Insiders(g) == {r \in Req : Home[r] = g /\ Inside(r)}
Holders(g) == {r \in Req : Home[r] = g /\ HasPermit(r)}

Counted ==
    \A g \in Gateway :
        /\ queued[g] = Cardinality(Queue(g))
        /\ inflight[g] = Cardinality(Insiders(g))
        /\ permits[g] + Cardinality(Holders(g)) = Limit

\* The property adds up disjoint sets where Counted has their union.
LEMMA CountedIsExact ==
    ASSUME TypeOK, Counted
    PROVE  CountersExact
<1> SUFFICES ASSUME NEW g \in Gateway
             PROVE  /\ queued[g] = Cardinality(At(g, {"waiting", "leased", "leaving", "failed",
                                                       "local", "permitted", "ticket_left",
                                                       "permit_left"}))
                    /\ inflight[g] = Cardinality(At(g, {"unreleased", "undoing"}))
                                     + Cardinality({r \in At(g, Held \cup {"releasing"}) :
                                                       mode[r] # "fail_open"})
                    /\ permits[g] + Cardinality(At(g, {"permitted", "permit_left"}))
                                  + Cardinality({r \in At(g, Held) : mode[r] = "local"})
                           = Limit
  BY DEF CountersExact
<1>1. ASSUME NEW S \in SUBSET Req, NEW T \in SUBSET Req, S \cap T = {}
      PROVE  /\ Cardinality(S) \in Nat /\ Cardinality(T) \in Nat
             /\ Cardinality(S \cup T) = Cardinality(S) + Cardinality(T)
  <2>1. IsFiniteSet(S) /\ IsFiniteSet(T)
    BY FS_Subset, FleetAssumption DEF FleetAssumption
  <2>2. Cardinality(S) \in Nat /\ Cardinality(T) \in Nat
    BY <2>1, FS_CardinalityType
  <2>3. Cardinality(S \cup T) = Cardinality(S) + Cardinality(T) - Cardinality(S \cap T)
    BY <2>1, FS_Union
  <2>4. Cardinality(S \cap T) = 0
    BY <1>1, FS_EmptySet
  <2> QED
    BY <2>2, <2>3, <2>4
<1> DEFINE late == At(g, {"unreleased", "undoing"})
           running == {r \in At(g, Held \cup {"releasing"}) : mode[r] # "fail_open"}
           fresh == At(g, {"permitted", "permit_left"})
           local == {r \in At(g, Held) : mode[r] = "local"}
<1>2. /\ Queue(g) = At(g, {"waiting", "leased", "leaving", "failed", "local", "permitted",
                           "ticket_left", "permit_left"})
      /\ Insiders(g) = late \cup running /\ late \cap running = {}
      /\ Holders(g) = fresh \cup local /\ fresh \cap local = {}
  BY DEF Queue, Insiders, Holders, Queues, Inside, HasPermit, At, Held
<1>3. late \in SUBSET Req /\ running \in SUBSET Req /\ fresh \in SUBSET Req /\ local \in SUBSET Req
  BY DEF At
<1>4. /\ queued[g] = Cardinality(Queue(g))
      /\ inflight[g] = Cardinality(Insiders(g))
      /\ permits[g] + Cardinality(Holders(g)) = Limit
  BY DEF Counted
<1> HIDE DEF late, running, fresh, local
<1>5. Cardinality(Insiders(g)) = Cardinality(late) + Cardinality(running)
  BY <1>1, <1>2, <1>3
<1>6. /\ Cardinality(Holders(g)) = Cardinality(fresh) + Cardinality(local)
      /\ Cardinality(fresh) \in Nat /\ Cardinality(local) \in Nat
  BY <1>1, <1>2, <1>3
<1>7. permits[g] + Cardinality(fresh) + Cardinality(local) = Limit
  <2>1. permits[g] \in Nat
    BY DEF TypeOK
  <2> QED
    BY <1>4, <1>6, <2>1
<1> QED
  BY <1>2, <1>4, <1>5, <1>7 DEF late, running, fresh, local

One(b) == IF b THEN 1 ELSE 0

\* A set of requests and what it is after one of them moved.
LEMMA SetMoves ==
    ASSUME NEW S \in SUBSET Req, NEW T \in SUBSET Req, NEW r \in Req, T \ {r} = S \ {r}
    PROVE  /\ Cardinality(S) \in Nat /\ Cardinality(T) \in Nat
           /\ Cardinality(T) + One(r \in S) = Cardinality(S) + One(r \in T)
           /\ r \in S => Cardinality(S) > 0
<1>1. IsFiniteSet(S) /\ IsFiniteSet(T)
  BY FS_Subset, FleetAssumption DEF FleetAssumption
<1>2. Cardinality(S) \in Nat /\ Cardinality(T) \in Nat
  BY <1>1, FS_CardinalityType
<1>3. /\ Cardinality(S \ {r}) = IF r \in S THEN Cardinality(S) - 1 ELSE Cardinality(S)
      /\ Cardinality(T \ {r}) = IF r \in T THEN Cardinality(T) - 1 ELSE Cardinality(T)
  BY <1>1, FS_RemoveElement
<1>4. r \in S => Cardinality(S) # 0
  BY <1>1, FS_EmptySet
<1> QED
  BY <1>2, <1>3, <1>4 DEF One

\* The step of one request leaves the others where they are, and the counters of
\* the other gateways alone.
OnlyMoves(r) ==
    /\ \A x \in Req \ {r} : phase'[x] = phase[x] /\ mode'[x] = mode[x]
    /\ \A g \in Gateway \ {Home[r]} :
          queued'[g] = queued[g] /\ inflight'[g] = inflight[g] /\ permits'[g] = permits[g]

\* Its own gateway counts what becomes of it.
Recounts(r) ==
    LET h == Home[r] IN
    /\ queued'[h] + One(Queues(r)) = queued[h] + One(Queues(r)')
    /\ inflight'[h] + One(Inside(r)) = inflight[h] + One(Inside(r)')
    /\ permits'[h] + One(HasPermit(r)') = permits[h] + One(HasPermit(r))

\* Then the books are kept.
LEMMA CountedMoves ==
    ASSUME TypeOK, TypeOK', Counted, NEW r \in Req, OnlyMoves(r), Recounts(r)
    PROVE  Counted'
<1> SUFFICES ASSUME NEW g \in Gateway
             PROVE  /\ queued'[g] = Cardinality(Queue(g)')
                    /\ inflight'[g] = Cardinality(Insiders(g)')
                    /\ permits'[g] + Cardinality(Holders(g)') = Limit
  BY DEF Counted
<1>1. /\ queued[g] = Cardinality(Queue(g))
      /\ inflight[g] = Cardinality(Insiders(g))
      /\ permits[g] + Cardinality(Holders(g)) = Limit
  BY DEF Counted
<1>2. /\ queued[g] \in Nat /\ inflight[g] \in Nat /\ permits[g] \in Nat
      /\ queued'[g] \in Nat /\ inflight'[g] \in Nat /\ permits'[g] \in Nat
      /\ Limit \in Nat
  BY FleetAssumption DEF TypeOK, FleetAssumption
<1>3. /\ Queue(g) \in SUBSET Req /\ Queue(g)' \in SUBSET Req
      /\ Insiders(g) \in SUBSET Req /\ Insiders(g)' \in SUBSET Req
      /\ Holders(g) \in SUBSET Req /\ Holders(g)' \in SUBSET Req
  BY DEF Queue, Insiders, Holders
<1>4. /\ Queue(g)' \ {r} = Queue(g) \ {r}
      /\ Insiders(g)' \ {r} = Insiders(g) \ {r}
      /\ Holders(g)' \ {r} = Holders(g) \ {r}
  BY DEF OnlyMoves, Queue, Insiders, Holders, Queues, Inside, HasPermit
<1>5. CASE g = Home[r]
  <2>1. /\ r \in Queue(g) <=> Queues(r)
        /\ r \in Queue(g)' <=> Queues(r)'
        /\ r \in Insiders(g) <=> Inside(r)
        /\ r \in Insiders(g)' <=> Inside(r)'
        /\ r \in Holders(g) <=> HasPermit(r)
        /\ r \in Holders(g)' <=> HasPermit(r)'
    BY <1>5 DEF Queue, Insiders, Holders
  <2>2. /\ queued'[g] + One(Queues(r)) = queued[g] + One(Queues(r)')
        /\ inflight'[g] + One(Inside(r)) = inflight[g] + One(Inside(r)')
        /\ permits'[g] + One(HasPermit(r)') = permits[g] + One(HasPermit(r))
    BY <1>5 DEF Recounts
  <2>3. /\ Cardinality(Queue(g)') \in Nat
        /\ Cardinality(Queue(g)') + One(Queues(r)) = Cardinality(Queue(g)) + One(Queues(r)')
    BY <1>3, <1>4, <2>1, SetMoves DEF One
  <2>4. /\ Cardinality(Insiders(g)') \in Nat
        /\ Cardinality(Insiders(g)') + One(Inside(r)) =
              Cardinality(Insiders(g)) + One(Inside(r)')
    BY <1>3, <1>4, <2>1, SetMoves DEF One
  <2>5. /\ Cardinality(Holders(g)') \in Nat /\ Cardinality(Holders(g)) \in Nat
        /\ Cardinality(Holders(g)') + One(HasPermit(r)) =
              Cardinality(Holders(g)) + One(HasPermit(r)')
    BY <1>3, <1>4, <2>1, SetMoves DEF One
  <2> QED
    BY <1>1, <1>2, <2>2, <2>3, <2>4, <2>5 DEF One
<1>6. CASE g # Home[r]
  <2>1. /\ r \notin Queue(g) \cup Insiders(g) \cup Holders(g)
        /\ r \notin Queue(g)' \cup Insiders(g)' \cup Holders(g)'
    BY <1>6 DEF Queue, Insiders, Holders
  <2>2. Queue(g)' = Queue(g) /\ Insiders(g)' = Insiders(g) /\ Holders(g)' = Holders(g)
    BY <1>4, <2>1
  <2>3. queued'[g] = queued[g] /\ inflight'[g] = inflight[g] /\ permits'[g] = permits[g]
    BY <1>6 DEF OnlyMoves
  <2> QED
    BY <1>1, <2>2, <2>3
<1> QED
  BY <1>5, <1>6

\* What a request is counted by can be taken off.
LEMMA CountersPositive ==
    ASSUME TypeOK, Counted, NEW r \in Req
    PROVE  /\ Home[r] \in Gateway
           /\ Queues(r) => queued[Home[r]] > 0
           /\ Inside(r) => inflight[Home[r]] > 0
<1>1. Home[r] \in Gateway
  BY FleetAssumption DEF FleetAssumption
<1>2. Queue(Home[r]) \in SUBSET Req /\ Insiders(Home[r]) \in SUBSET Req
  BY DEF Queue, Insiders
<1>3. /\ r \in Queue(Home[r]) => Cardinality(Queue(Home[r])) > 0
      /\ r \in Insiders(Home[r]) => Cardinality(Insiders(Home[r])) > 0
  BY <1>2, SetMoves
<1> QED
  BY <1>1, <1>3 DEF Counted, Queue, Insiders

\* Only a lease of Redis is released by a call that is waited for.
ReleasesRedis == \A r \in Req : phase[r] = "releasing" => mode[r] = "redis"

LEMMA ReleasesInvariant == Spec => []ReleasesRedis
<1> USE DEF ReleasesRedis
<1>1. Init => ReleasesRedis
  BY DEF Init
<1>2. TypeOK /\ ReleasesRedis /\ [Next]_vars => ReleasesRedis'
  <2> SUFFICES ASSUME TypeOK, ReleasesRedis, [Next]_vars PROVE ReleasesRedis'
    OBVIOUS
  <2> USE DEF TypeOK, Go
  <2>1. ASSUME NEW r \in Req, Stepped(r) PROVE ReleasesRedis'
    <3>1. CASE \/ Begin(r) \/ ProbeFails(r) \/ GiveUp(r) \/ CancelLocal(r) \/ Leave(r)
               \/ LocalTicket(r) \/ Permit(r) \/ SendRenewal(r) \/ RenewFails(r)
      BY <3>1 DEF Begin, ProbeFails, GiveUp, CancelLocal, Leave, LocalTicket, Permit, SendRenewal,
                  RenewFails
    <3>2. CASE Enter(r) \/ Unavailable(r) \/ Release(r) \/ Free(r) \/ FreeFails(r) \/ Undo(r)
      BY <3>2 DEF Enter, Unavailable, Release, Free, FreeFails, Undo
    <3>3. CASE CutOff(r) \/ Abandon(r)
      BY <3>3 DEF CutOff, Abandon
    <3> QED
      BY <2>1, <3>1, <3>2, <3>3 DEF Stepped
  <2>2. ASSUME NEW r \in Req, NEW d \in 0..Lag, Scripted(r, d) PROVE ReleasesRedis'
    BY <2>2 DEF Scripted, Probe, Grant, Lose, Renew
  <2>3. CASE (\E d \in 0..Lag : Count(d)) \/ (\E g \in Gateway : Crash(g)) \/ Tick
    BY <2>3 DEF Count, Crash, Tick
  <2>4. CASE UNCHANGED vars
    BY <2>4 DEF vars
  <2> QED
    BY <2>1, <2>2, <2>3, <2>4 DEF Next
<1> QED
  BY <1>1, <1>2, TypeCorrect, PTL DEF Spec

\* Every step of one request moves it, or leaves it, as the counters say.
LEMMA SteppedCounts ==
    ASSUME TypeOK, ReleasesRedis, Counted, NEW r \in Req, Stepped(r)
    PROVE  OnlyMoves(r) /\ Recounts(r)
<1> USE DEF OnlyMoves, Recounts, Queues, Inside, HasPermit, Held, One, Go, counters
<1>0. /\ phase \in [Req -> Phases] /\ mode \in [Req -> {"none", "redis", "local", "fail_open"}]
      /\ queued \in [Gateway -> Nat] /\ inflight \in [Gateway -> Nat]
      /\ permits \in [Gateway -> Nat]
      /\ Home[r] \in Gateway
      /\ Queues(r) => queued[Home[r]] > 0
      /\ Inside(r) => inflight[Home[r]] > 0
  BY CountersPositive DEF TypeOK
<1>1. CASE Begin(r) \/ ProbeFails(r) \/ GiveUp(r) \/ CancelLocal(r)
  BY <1>0, <1>1 DEF Begin, ProbeFails, GiveUp, CancelLocal
<1>2. CASE Leave(r)
  BY <1>0, <1>2 DEF Leave, Lower
<1>3. CASE Enter(r)
  BY <1>0, <1>3 DEF Enter, Lower, Raise
<1>4. CASE Unavailable(r)
  BY <1>0, <1>4 DEF Unavailable
<1>5. CASE LocalTicket(r)
  BY <1>0, <1>5 DEF LocalTicket, GoesLocal, Raise
<1>6. CASE Permit(r)
  BY <1>0, <1>6 DEF Permit
<1>7. CASE SendRenewal(r) \/ RenewFails(r)
  BY <1>0, <1>7 DEF SendRenewal, RenewFails
<1>8. CASE Release(r)
  BY <1>0, <1>8 DEF Release, Raise
<1>9. CASE Free(r) \/ FreeFails(r)
  BY <1>0, <1>9 DEF Free, FreeFails, ReleasesRedis
<1>10. CASE Undo(r)
  BY <1>0, <1>10 DEF Undo, Lower
<1>11. CASE CutOff(r)
  BY <1>0, <1>11 DEF CutOff, GoesLocal
<1>12. CASE Abandon(r)
  BY <1>0, <1>12 DEF Abandon
<1> QED
  BY <1>1, <1>2, <1>3, <1>4, <1>5, <1>6, <1>7, <1>8, <1>9, <1>10, <1>11, <1>12 DEF Stepped

\* So does every step that runs a script for one.
LEMMA ScriptedCounts ==
    ASSUME TypeOK, NEW r \in Req, NEW d \in 0..Lag, Scripted(r, d)
    PROVE  OnlyMoves(r) /\ Recounts(r)
<1> USE DEF OnlyMoves, Recounts, Queues, Inside, HasPermit, Held, One, Go, counters
<1>0. /\ phase \in [Req -> Phases] /\ mode \in [Req -> {"none", "redis", "local", "fail_open"}]
      /\ queued \in [Gateway -> Nat] /\ inflight \in [Gateway -> Nat]
      /\ permits \in [Gateway -> Nat]
      /\ Home[r] \in Gateway
  BY FleetAssumption DEF TypeOK, FleetAssumption
<1>1. CASE Probe(r, d)
  BY <1>0, <1>1 DEF Probe, Raise
<1>2. CASE Grant(r, d) \/ Lose(r, d) \/ Renew(r, d)
  BY <1>0, <1>2 DEF Grant, Lose, Renew
<1> QED
  BY <1>1, <1>2 DEF Scripted

\* A gateway that starts again counts nobody, and has nobody.
LEMMA CrashCounts ==
    ASSUME TypeOK, Counted, NEW g \in Gateway, Crash(g)
    PROVE  Counted'
<1> DEFINE lost == At(g, Phases \ {"new", "ended", "refused", "dead"})
<1>1. /\ phase' = [r \in Req |-> IF r \in lost THEN "dead" ELSE phase[r]]
      /\ mode' = mode
      /\ queued' = [queued EXCEPT ![g] = 0]
      /\ inflight' = [inflight EXCEPT ![g] = 0]
      /\ permits' = [permits EXCEPT ![g] = Limit]
  BY DEF Crash
<1>2. Cardinality({}) = 0 /\ Limit \in Nat
  BY FS_EmptySet, FleetAssumption DEF FleetAssumption
<1>3. Queue(g)' = {} /\ Insiders(g)' = {} /\ Holders(g)' = {}
  <2> SUFFICES ASSUME NEW r \in Req, Home[r] = g
               PROVE  ~ Queues(r)' /\ ~ Inside(r)' /\ ~ HasPermit(r)'
    BY DEF Queue, Insiders, Holders
  <2>1. phase'[r] \in {"new", "ended", "refused", "dead"}
    BY <1>1 DEF TypeOK, At
  <2> QED
    BY <2>1 DEF Queues, Inside, HasPermit, Held
<1>4. ASSUME NEW x \in Gateway, x # g
      PROVE  Queue(x)' = Queue(x) /\ Insiders(x)' = Insiders(x) /\ Holders(x)' = Holders(x)
  <2>1. \A r \in Req : Home[r] = x => phase'[r] = phase[r] /\ mode'[r] = mode[r]
    BY <1>1, <1>4 DEF At
  <2> QED
    BY <2>1 DEF Queue, Insiders, Holders, Queues, Inside, HasPermit
<1>5. ASSUME NEW x \in Gateway
      PROVE  /\ queued'[x] = Cardinality(Queue(x)')
             /\ inflight'[x] = Cardinality(Insiders(x)')
             /\ permits'[x] + Cardinality(Holders(x)') = Limit
  <2>1. CASE x = g
    <3>1. queued'[g] = 0 /\ inflight'[g] = 0 /\ permits'[g] = Limit
      BY <1>1 DEF TypeOK
    <3> QED
      BY <2>1, <3>1, <1>2, <1>3
  <2>2. CASE x # g
    <3>1. queued'[x] = queued[x] /\ inflight'[x] = inflight[x] /\ permits'[x] = permits[x]
      BY <2>2, <1>1 DEF TypeOK
    <3> QED
      BY <2>2, <3>1, <1>4 DEF Counted
  <2> QED
    BY <2>1, <2>2
<1> QED
  BY <1>5 DEF Counted

\* The counters and the semaphore of each gateway count the requests that hold
\* something and those that were cut off from giving it back, no others and none
\* twice, although a request changes them in several steps, waits for the lock of
\* the process in between, and may be cancelled there (_acquire_redis,
\* _acquire_local and release).
THEOREM CountersAreExact == Spec => []CountersExact
<1>1. Init => Counted
  <2> SUFFICES ASSUME Init, NEW g \in Gateway
               PROVE  /\ queued[g] = Cardinality(Queue(g))
                      /\ inflight[g] = Cardinality(Insiders(g))
                      /\ permits[g] + Cardinality(Holders(g)) = Limit
    BY DEF Counted
  <2>1. Queue(g) = {} /\ Insiders(g) = {} /\ Holders(g) = {}
    BY DEF Init, Queue, Insiders, Holders, Queues, Inside, HasPermit, Held
  <2> QED
    BY <2>1, FS_EmptySet, FleetAssumption DEF Init, FleetAssumption
<1>2. TypeOK /\ TypeOK' /\ ReleasesRedis /\ Counted /\ [Next]_vars => Counted'
  <2> SUFFICES ASSUME TypeOK, TypeOK', ReleasesRedis, Counted, [Next]_vars PROVE Counted'
    OBVIOUS
  <2>1. ASSUME UNCHANGED <<phase, mode, counters>> PROVE Counted'
    <3>1. \A g \in Gateway :
              Queue(g)' = Queue(g) /\ Insiders(g)' = Insiders(g) /\ Holders(g)' = Holders(g)
      BY <2>1 DEF Queue, Insiders, Holders, Queues, Inside, HasPermit
    <3> QED
      BY <2>1, <3>1 DEF counters, Counted
  <2>2. ASSUME NEW r \in Req, Stepped(r) PROVE Counted'
    BY <2>2, SteppedCounts, CountedMoves
  <2>3. ASSUME NEW r \in Req, NEW d \in 0..Lag, Scripted(r, d) PROVE Counted'
    BY <2>3, ScriptedCounts, CountedMoves
  <2>4. ASSUME NEW g \in Gateway, Crash(g) PROVE Counted'
    BY <2>4, CrashCounts
  <2>5. CASE (\E d \in 0..Lag : Count(d)) \/ Tick
    BY <2>1, <2>5 DEF Count, Tick
  <2>6. CASE UNCHANGED vars
    BY <2>1, <2>6 DEF vars
  <2> QED
    BY <2>2, <2>3, <2>4, <2>5, <2>6 DEF Next
<1>3. Spec => []Counted
  BY <1>1, <1>2, TypeCorrect, ReleasesInvariant, PTL DEF Spec
<1> QED
  BY <1>3, TypeCorrect, CountedIsExact, PTL
=============================================================================

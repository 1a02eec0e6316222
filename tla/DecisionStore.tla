---------------------------- MODULE DecisionStore ----------------------------
(***************************************************************************)
(* The store of routing decisions (app/gateway/decisions.py), which a      *)
(* request writes when it is over and its shadow task patches with the     *)
(* outcome of the mirrored call (services/completions.py).                 *)
(*                                                                         *)
(* The shadow task is started before the decision is put -- in a stream,   *)
(* long before -- so either may come first.  In Redis a record is a hash   *)
(* under the tenant's key, found through an index by request id; a patch   *)
(* reads the index, writes the hash and renews its life in three calls.    *)
(***************************************************************************)
EXTENDS StoreBackend, Integers, SequencesExt

CONSTANTS
    Id, Tenant,  \* the request id each carries, and its tenant
    Legacy,      \* stands for the tenant of an unscoped key
    Nobody,      \* no call
    MaxEntries,  \* capacity of the in-memory store
    Ttl,         \* life of a record and of its index entry
    MaxClock     \* bound: the time at which the model stops its clock

\* A request without a tenant is filed under "platform": no key of a request is
\* unscoped.
ASSUME DecisionAssumption ==
    /\ Nobody \notin Call
    /\ \A c \in Call : Tenant[c] # Legacy
    /\ MaxEntries \in Nat /\ Ttl \in Nat \ {0} /\ MaxClock \in Nat

Ids == {Id[c] : c \in Call}
Key == ({Tenant[c] : c \in Call} \cup {Legacy}) \X Ids
KeyOf(c) == <<Tenant[c], Id[c]>>

VARIABLES
    clock,     \* the clock of the store
    decision,  \* whose decision a record holds; Nobody if it has none
    shadow,    \* whose shadow outcome it holds; Nobody if it has none
    until,     \* Redis: when a record expires, 0 when there is none
    order,     \* memory: the keys, oldest first
    index,     \* Redis: the tenant an id is indexed under, and until when
    stage,     \* where each request is
    patch,     \* where its shadow task is
    target     \* the key its patch found

\* History, kept for the properties only.
VARIABLES
    early,     \* the requests whose patch looked for a record that was not
               \* there yet, or not any more
    missed     \* the patches that wrote to a record after it was gone

records == <<decision, shadow, until, order, index>>
tasks == <<stage, patch, target>>
decisionVars == <<backend, clock, records, tasks, early, missed>>

\* A hash that HSET made and EXPIRE has not reached yet lives for ever.
Forever == MaxClock + Ttl + 1

Present(k) == IF backend = "memory" THEN k \in ToSet(order) ELSE until[k] > clock
Indexed(i) == index[i][2] > clock

-----------------------------------------------------------------------------
(* The request                                                             *)

\* schedule_shadow_traffic()
Schedule(c) ==
    /\ stage[c] = "running"
    /\ stage' = [stage EXCEPT ![c] = "scheduled"]
    /\ patch' = [patch EXCEPT ![c] = "sent"]
    /\ UNCHANGED <<backend, clock, records, target, early, missed>>

\* put() in memory: a key that is there keeps its place, and the oldest go.
Evict(s) == IF Len(s) > MaxEntries THEN Tail(s) ELSE s

PutMemory(k) ==
    /\ order' = IF k \in ToSet(order) THEN order ELSE Evict(Append(order, k))
    /\ UNCHANGED <<until, index>>

\* put() in Redis: one transaction for the hash, its life and the index.
PutRedis(c, k) ==
    /\ until' = [until EXCEPT ![k] = clock + Ttl]
    /\ index' = [index EXCEPT ![Id[c]] = <<Tenant[c], clock + Ttl>>]
    /\ UNCHANGED order

\* record_decision().  Every field is written, the shadow outcome as empty.
Put(c) ==
    LET k == KeyOf(c) IN
    /\ stage[c] = "scheduled"
    /\ stage' = [stage EXCEPT ![c] = "stored"]
    /\ decision' = [decision EXCEPT ![k] = c]
    /\ shadow' = [shadow EXCEPT ![k] = Nobody]
    /\ IF backend = "memory" THEN PutMemory(k) ELSE PutRedis(c, k)
    /\ early' = IF patch[c] = "sent" THEN early ELSE early \cup {c}
    /\ UNCHANGED <<backend, clock, patch, target, missed>>

\* Redis fails, or something before the put does.
PutFails(c) ==
    /\ stage[c] = "scheduled"
    /\ stage' = [stage EXCEPT ![c] = "failed"]
    /\ UNCHANGED <<backend, clock, records, patch, target, early, missed>>

-----------------------------------------------------------------------------
(* The shadow task                                                         *)

Named(i) == {n \in DOMAIN order : order[n][2] = i}
FirstNamed(i) == CHOOSE n \in Named(i) : \A m \in Named(i) : n <= m

\* patch_shadow() in memory: the first record with the id, or none.
PatchMemory(c) ==
    /\ backend = "memory"
    /\ patch[c] = "sent"
    /\ patch' = [patch EXCEPT ![c] = "done"]
    /\ IF Named(Id[c]) = {}
       THEN UNCHANGED shadow
       ELSE shadow' = [shadow EXCEPT ![order[FirstNamed(Id[c])]] = c]
    /\ UNCHANGED <<backend, clock, decision, until, order, index, stage, target, early, missed>>

BugTarget(c) == <<Legacy, Id[c]>>

Target(c) ==
    IF Indexed(Id[c]) THEN <<index[Id[c]][1], Id[c]>> ELSE <<Legacy, Id[c]>>

\* GET of the index: without an entry the patch goes to the unscoped key.
FindRecord(c) ==
    /\ backend = "redis"
    /\ patch[c] = "sent"
    /\ patch' = [patch EXCEPT ![c] = "found"]
    /\ target' = [target EXCEPT ![c] = Target(c)]
    /\ early' = IF Indexed(Id[c]) THEN early ELSE early \cup {c}
    /\ UNCHANGED <<backend, clock, records, stage, missed>>

\* HSET: it makes the hash if there is none, with the two shadow fields alone.
WriteShadow(c) ==
    LET k == target[c] IN
    /\ patch[c] = "found"
    /\ patch' = [patch EXCEPT ![c] = "written"]
    /\ shadow' = [shadow EXCEPT ![k] = c]
    /\ IF Present(k)
       THEN UNCHANGED <<decision, until>>
       ELSE /\ decision' = [decision EXCEPT ![k] = Nobody]
            /\ until' = [until EXCEPT ![k] = Forever]
    /\ missed' = IF Present(k) THEN missed ELSE missed \cup {c}
    /\ UNCHANGED <<backend, clock, order, index, stage, target, early>>

\* EXPIRE
RenewRecord(c) ==
    LET k == target[c] IN
    /\ patch[c] = "written"
    /\ patch' = [patch EXCEPT ![c] = "done"]
    /\ until' = IF Present(k) THEN [until EXCEPT ![k] = clock + Ttl] ELSE until
    /\ UNCHANGED <<backend, clock, decision, shadow, order, index, stage, target, early, missed>>

\* Redis fails at one of the three calls, and the task ends there.
PatchFails(c) ==
    /\ backend = "redis"
    /\ patch[c] \in {"sent", "found", "written"}
    /\ patch' = [patch EXCEPT ![c] = "failed"]
    /\ UNCHANGED <<backend, clock, records, stage, target, early, missed>>

Tick ==
    /\ backend = "redis"
    /\ clock < MaxClock
    /\ clock' = clock + 1
    /\ UNCHANGED <<backend, records, tasks, early, missed>>

-----------------------------------------------------------------------------
DecisionInit ==
    /\ clock = 1
    /\ decision = [k \in Key |-> Nobody] /\ shadow = [k \in Key |-> Nobody]
    /\ until = [k \in Key |-> 0] /\ order = <<>>
    /\ index = [i \in Ids |-> <<Legacy, 0>>]
    /\ stage = [c \in Call |-> "running"]
    /\ patch = [c \in Call |-> "none"]
    /\ target = [c \in Call |-> KeyOf(c)]
    /\ early = {} /\ missed = {}

DecisionStep(c) ==
    \/ Schedule(c) \/ Put(c) \/ PutFails(c)
    \/ PatchMemory(c) \/ FindRecord(c) \/ WriteShadow(c) \/ RenewRecord(c) \/ PatchFails(c)

DecisionNext == (\E c \in Call : DecisionStep(c)) \/ Tick

-----------------------------------------------------------------------------
(* Properties                                                              *)

\* Every variable has its type, and the in-memory store keeps its capacity.
DecisionTypeOK ==
    /\ clock \in Nat
    /\ decision \in [Key -> Call \cup {Nobody}] /\ shadow \in [Key -> Call \cup {Nobody}]
    /\ until \in [Key -> Nat]
    /\ order \in Seq(Key) /\ Len(order) <= MaxEntries
    /\ index \in [Ids -> ({Tenant[c] : c \in Call} \cup {Legacy}) \X Nat]
    /\ stage \in [Call -> {"running", "scheduled", "stored", "failed"}]
    /\ patch \in [Call -> {"none", "sent", "found", "written", "done", "failed"}]
    /\ target \in [Call -> Key]
    /\ early \subseteq Call /\ missed \subseteq Call

\* Both stores find the record of a patch by its request id alone, and the id is
\* the client's: it may be on record for another tenant too.
Alone(c) == \A d \in Call : stage[d] = "stored" /\ Id[d] = Id[c] => Tenant[d] = Tenant[c]

\* Whoever reads the decision of a request whose shadow task is over sees a
\* shadow outcome with it, also when a retry with the same id put its own
\* decision over it in between -- unless the task asked for the record before it
\* was put, or after it expired, or another tenant used the id: then the outcome
\* is lost to the readers.
ShadowVisible ==
    \A c \in Call :
        stage[c] = "stored" /\ patch[c] = "done" /\ c \notin early /\ Alone(c)
        /\ Present(KeyOf(c)) /\ decision[KeyOf(c)] = c
            => shadow[KeyOf(c)] # Nobody

\* A record that get() cannot decode, one with a shadow outcome and no decision,
\* comes from a patch that found no index entry, or whose record expired between
\* two of its calls.
HalfRecordsExplained ==
    \A k \in Key : Present(k) /\ decision[k] = Nobody =>
        \E c \in missed : target[c] = k /\ (k[1] = Legacy => c \in early)
=============================================================================

----------------------------- MODULE HealthStore -----------------------------
(***************************************************************************)
(* The health record of one backend (app/gateway/stores/health.py) and the *)
(* route that reads it (services/routing.py).  Every call of the backend   *)
(* reports its outcome; every replica probes the backend in a loop.        *)
(*                                                                         *)
(* In Redis a report reads the hash, computes, and writes it back, with    *)
(* others in between; the in-memory store does the same under a lock that  *)
(* is never contended.  A probe writes fields no report writes.            *)
(*                                                                         *)
(* The backend is the primary of a health-aware route.  Its threshold is   *)
(* above 20, the score of three failures in a row, and low enough that     *)
(* fewer failures and the latency do not reach it.                         *)
(***************************************************************************)
EXTENDS StoreBackend, Integers, FiniteSets

CONSTANTS
    Replica,   \* the gateways that probe it
    Cap        \* consecutive_failures at which the score is capped (3)

ASSUME HealthAssumption ==
    /\ IsFiniteSet(Call)
    /\ Cap \in Nat \ {0}

VARIABLES
    up,         \* the real state of the backend
    available,  \* what the last probe stored, "unknown" before the first
    count,      \* request_count
    streak,     \* consecutive_failures, Cap standing for Cap and more
    call,       \* where each call is
    ok,         \* its outcome
    copy,       \* what its report read: <<count, streak>>
    probe,      \* where the loop of each replica is
    seen        \* what its probe saw

\* History, kept for the properties only.
VARIABLES
    recorded,   \* the calls that wrote their report
    overlapped  \* those that did while another report had read and not written

healthRecord == <<available, count, streak>>
calls == <<call, ok, copy>>
probes == <<probe, seen>>
healthVars == <<backend, up, healthRecord, calls, probes, recorded, overlapped>>

-----------------------------------------------------------------------------
(* The backend                                                             *)

Fails   == up /\ up' = FALSE /\ UNCHANGED <<backend, healthRecord, calls, probes, recorded, overlapped>>
Recovers == ~ up /\ up' = TRUE /\ UNCHANGED <<backend, healthRecord, calls, probes, recorded, overlapped>>

-----------------------------------------------------------------------------
(* Routing, and the report of a call                                       *)

\* score() against the threshold of the route
MeetsScore == available # "no" /\ streak < Cap

\* select_health_aware_backend(): the primary, or else the fallback or nobody.
Choose(c) ==
    /\ call[c] = "new"
    /\ call' = [call EXCEPT ![c] = IF MeetsScore THEN "sent" ELSE "elsewhere"]
    /\ UNCHANGED <<backend, up, healthRecord, ok, copy, probes, recorded, overlapped>>

Answer(c) ==
    /\ call[c] = "sent"
    /\ call' = [call EXCEPT ![c] = "answered"]
    /\ ok' = [ok EXCEPT ![c] = up]
    /\ UNCHANGED <<backend, up, healthRecord, copy, probes, recorded, overlapped>>

\* _apply_request_signal()
StreakAfter(c, n) == IF ok[c] THEN 0 ELSE IF n < Cap THEN n + 1 ELSE Cap

Reading == {c \in Call : call[c] = "read"}

BugRead(c) ==
    /\ backend = "redis"
    /\ call[c] = "answered"
    /\ call' = [call EXCEPT ![c] = "read"]
    /\ copy' = [copy EXCEPT ![c] = <<0, streak>>]
    /\ UNCHANGED <<backend, up, healthRecord, ok, probes, recorded, overlapped>>

\* hgetall, the first half of record_request() in Redis
Read(c) ==
    /\ backend = "redis"
    /\ call[c] = "answered"
    /\ call' = [call EXCEPT ![c] = "read"]
    /\ copy' = [copy EXCEPT ![c] = <<count, streak>>]
    /\ UNCHANGED <<backend, up, healthRecord, ok, probes, recorded, overlapped>>

\* The local variables of a report that is over.
Forget(c) ==
    /\ ok' = [ok EXCEPT ![c] = FALSE]
    /\ copy' = [copy EXCEPT ![c] = <<0, 0>>]

Reported(c) ==
    /\ call' = [call EXCEPT ![c] = IF ok[c] THEN "served" ELSE "failed"]
    /\ recorded' = recorded \cup {c}
    /\ overlapped' = IF Reading \ {c} # {} THEN overlapped \cup {c} ELSE overlapped
    /\ Forget(c)
    /\ UNCHANGED <<backend, up, available, probes>>

\* hset, the second half: what others wrote since the read is overwritten.
Write(c) ==
    /\ call[c] = "read"
    /\ count' = copy[c][1] + 1
    /\ streak' = StreakAfter(c, copy[c][2])
    /\ Reported(c)

\* record_request() in memory
Record(c) ==
    /\ backend = "memory"
    /\ call[c] = "answered"
    /\ count' = count + 1
    /\ streak' = StreakAfter(c, streak)
    /\ Reported(c)

\* Redis does not answer: the request fails, and nothing is recorded.
ReportFails(c) ==
    /\ backend = "redis"
    /\ call[c] \in {"answered", "read"}
    /\ call' = [call EXCEPT ![c] = "failed"]
    /\ Forget(c)
    /\ UNCHANGED <<backend, up, healthRecord, probes, recorded, overlapped>>

-----------------------------------------------------------------------------
(* health_probe_loop()                                                     *)

BugSendProbe(g) ==
    /\ probe[g] = "asleep" /\ available # "no"
    /\ probe' = [probe EXCEPT ![g] = "answered"]
    /\ seen' = [seen EXCEPT ![g] = up]
    /\ UNCHANGED <<backend, up, healthRecord, calls, recorded, overlapped>>

\* The backend answers the probe, or does not; the answer is on its way.
SendProbe(g) ==
    /\ probe[g] = "asleep"
    /\ probe' = [probe EXCEPT ![g] = "answered"]
    /\ seen' = [seen EXCEPT ![g] = up]
    /\ UNCHANGED <<backend, up, healthRecord, calls, recorded, overlapped>>

\* _store_probe().  The answer may be older than one another replica stored.
StoreProbe(g) ==
    /\ probe[g] = "answered"
    /\ probe' = [probe EXCEPT ![g] = "asleep"]
    /\ available' = IF seen[g] THEN "yes" ELSE "no"
    /\ UNCHANGED <<backend, up, count, streak, calls, seen, recorded, overlapped>>

\* Redis does not answer.  Nothing in the loop catches the error: the task ends,
\* and nobody starts it again while the gateway lives.
LoopDies(g) ==
    /\ backend = "redis"
    /\ probe[g] = "answered"
    /\ probe' = [probe EXCEPT ![g] = "dead"]
    /\ UNCHANGED <<backend, up, healthRecord, calls, seen, recorded, overlapped>>

-----------------------------------------------------------------------------
HealthInit ==
    /\ backend \in {"redis", "memory"}
    /\ up = TRUE /\ available = "unknown" /\ count = 0 /\ streak = 0
    /\ call = [c \in Call |-> "new"]
    /\ ok = [c \in Call |-> FALSE]
    /\ copy = [c \in Call |-> <<0, 0>>]
    /\ probe = [g \in Replica |-> "asleep"]
    /\ seen = [g \in Replica |-> FALSE]
    /\ recorded = {} /\ overlapped = {}

CallStep(c) ==
    Answer(c) \/ Read(c) \/ Write(c) \/ Record(c) \/ ReportFails(c)

HealthNext ==
    \/ Fails \/ Recovers
    \/ \E c \in Call : Choose(c) \/ CallStep(c)
    \/ \E g \in Replica : SendProbe(g) \/ StoreProbe(g) \/ LoopDies(g)

\* A call that was sent ends and is reported, and a loop that is alive goes on.
\* Nothing obliges anybody to call, the backend to fail or to recover, or Redis
\* to fail.
HealthSpec ==
    /\ HealthInit /\ [][HealthNext]_healthVars
    /\ \A c \in Call : WF_healthVars(CallStep(c))
    /\ \A g \in Replica : WF_healthVars(SendProbe(g) \/ StoreProbe(g))

-----------------------------------------------------------------------------
(* Properties                                                              *)

\* Every variable has its type.
HealthTypeOK ==
    /\ backend \in {"redis", "memory"}
    /\ up \in BOOLEAN /\ available \in {"unknown", "yes", "no"}
    /\ count \in Nat /\ streak \in 0..Cap
    /\ call \in [Call -> {"new", "sent", "elsewhere", "answered", "read", "served", "failed"}]
    /\ ok \in [Call -> BOOLEAN]
    /\ copy \in [Call -> Nat \X (0..Cap)]
    /\ probe \in [Replica -> {"asleep", "answered", "dead"}]
    /\ seen \in [Replica -> BOOLEAN]
    /\ recorded \subseteq Call /\ overlapped \subseteq recorded

\* Replicas that report at the same time overwrite each other.  What that can
\* cost is bounded: the counter misses no report but those that were written
\* while another was half done, and in memory none.
CountWithinOverlap ==
    /\ count <= Cardinality(recorded)
    /\ Cardinality(recorded) <= count + Cardinality(overlapped)
    /\ backend = "memory" => overlapped = {}

\* As long as one replica's loop is alive, a backend that stays up is seen to be
\* up, and one that stays down to be down, also when answers of probes are stored
\* in another order than they were made.
ProbeCatchesUp ==
    (\E g \in Replica : [](probe[g] # "dead")) =>
        /\ (<>[]up) => <>[](available = "yes")
        /\ (<>[](~ up)) => <>[](available = "no")

\* README.md: "a healthy primary remains selected", and health.py on the error
\* rate: "so short outages stop dominating forever".  When the backend is up for
\* good and the probes see it, a request that comes late enough goes to it.
HealthyPrimaryIsChosen ==
    (<>[]up /\ \A g \in Replica : [](probe[g] # "dead")) =>
        \A c \in Call : []<>(call[c] = "new" => MeetsScore)
=============================================================================

----------------------------- MODULE Bookkeeping -----------------------------
(***************************************************************************)
(* What a chat request leaves behind in two stores (routers/chat.py): the  *)
(* outcome of its call in the health record of the backend, and its        *)
(* decision.  The stores share nothing but REDIS_URL, which decides for    *)
(* both, and no step of one reads the other; so a behaviour is one of one  *)
(* store, with the other at rest.                                          *)
(***************************************************************************)
EXTENDS HealthStore, DecisionStore

VARIABLE active  \* the store at work

decisionPart == <<clock, decision, shadow, until, order, index, stage, patch, target, early, missed>>
vars == <<active, healthVars, decisionPart>>

Init == active \in {"health", "decisions"} /\ HealthInit /\ DecisionInit

HealthWorks(A) == active = "health" /\ A /\ UNCHANGED <<active, decisionPart>>

Next ==
    \/ HealthWorks(HealthNext)
    \/ active = "decisions" /\ DecisionNext /\ UNCHANGED <<active, healthVars>>

Spec ==
    /\ Init /\ [][Next]_vars
    /\ \A c \in Call : WF_vars(HealthWorks(CallStep(c)))
    /\ \A g \in Replica : WF_vars(HealthWorks(SendProbe(g) \/ StoreProbe(g)))

-----------------------------------------------------------------------------
(* Properties                                                              *)

\* See HealthStore: what the probes see of a backend is what it is, in the end,
\* as long as one replica's loop is alive.
ProbesCatchUp == active = "health" => ProbeCatchesUp
=============================================================================

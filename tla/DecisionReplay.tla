---------------------------- MODULE DecisionReplay ----------------------------
(***************************************************************************)
(* The replay cache of signed decisions (app/gateway/decision_replay.py):  *)
(* the first request that presents a decision consumes it.  The Redis      *)
(* store is one SET NX EX; the in-memory store does the same within one    *)
(* call and without an await, so both are one action on `until`.           *)
(***************************************************************************)
EXTENDS Integers

CONSTANTS
    Token,  \* the decisions; derive_jti() gives each its own jti
    Exp     \* the exp claim of each

VARIABLES
    clock,  \* the clock of the store
    until   \* when the entry of a decision expires, 0 when it was never made

\* What the caller asks for: the life the decision has left, at least 1.
Ttl(t, now) == IF Exp[t] - now > 1 THEN Exp[t] - now ELSE 1

Used(t) == until[t] > clock

BugConsume(t, now) == until' = [until EXCEPT ![t] = clock + 1]

\* consume() makes the entry and answers yes; an entry that is there stays as it
\* is, and the answer is no.
Consume(t, now) == until' = [until EXCEPT ![t] = clock + Ttl(t, now)]

Init == until = [t \in Token |-> 0]
=============================================================================

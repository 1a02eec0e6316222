-------------------------- MODULE MCCircuitBreaker --------------------------
(***************************************************************************)
(* Two backends; two plain requests on a health-aware route, a stream on   *)
(* one, and a plain request on a cost-aware route.                         *)
(***************************************************************************)
EXTENDS CircuitBreaker, TLC

CONSTANTS p, q, s, c, b1, b2
MCReq == {p, q, s, c}
MCStreams == {s}
MCCostAware == {c}
MCBackend == {b1, b2}
MCSymmetry == Permutations({p, q}) \cup Permutations(MCBackend)
=============================================================================

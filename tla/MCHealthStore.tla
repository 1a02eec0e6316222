---------------------------- MODULE MCHealthStore ----------------------------
(***************************************************************************)
(* A small instance of HealthStore: three calls that may fail in a row, a  *)
(* fourth that comes later, and one replica.                               *)
(***************************************************************************)
EXTENDS HealthStore

CONSTANTS a, b, c, d, g

MCCall == {a, b, c, d}
MCReplica == {g}
=============================================================================

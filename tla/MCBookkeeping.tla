---------------------------- MODULE MCBookkeeping ----------------------------
(***************************************************************************)
(* A small instance of Bookkeeping: a request, its retry under the same    *)
(* id, and one of another tenant that carries that id too, on two          *)
(* replicas; the in-memory store of decisions has room for one record.     *)
(***************************************************************************)
EXTENDS Bookkeeping

CONSTANTS a, b, c, g, h, t, u

MCCall == {a, b, c}
MCReplica == {g, h}
MCId == [r \in MCCall |-> "id"]
MCTenant == [r \in MCCall |-> IF r = c THEN u ELSE t]
=============================================================================

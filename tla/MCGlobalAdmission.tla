-------------------------- MODULE MCGlobalAdmission --------------------------
(***************************************************************************)
(* Five callers of a gateway with two permits and room for one waiter:     *)
(* with permits in use and the queue full there are still two to shed.     *)
(***************************************************************************)
EXTENDS GlobalAdmission

CONSTANTS a, b, c, d, e
MCReq == {a, b, c, d, e}
=============================================================================

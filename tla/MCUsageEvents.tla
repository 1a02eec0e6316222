---------------------------- MODULE MCUsageEvents ----------------------------
(***************************************************************************)
(* A small instance of UsageEvents: four events for a buffer of two, so    *)
(* that new events and retries push each other out, and two attempts.      *)
(***************************************************************************)
EXTENDS UsageEvents

CONSTANTS e1, e2, e3, e4

MCEvent == {e1, e2, e3, e4}
=============================================================================

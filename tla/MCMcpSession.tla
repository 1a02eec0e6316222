----------------------------- MODULE MCMcpSession -----------------------------
(***************************************************************************)
(* A small instance of McpSession: two tool calls, an operator who       *)
(* forces a new session and one who cancels; a server that hands out three *)
(* identifiers and may change its capabilities.                            *)
(***************************************************************************)
EXTENDS McpSession, TLC

CONSTANTS t1, t2, op, cancel, old, new

MCTool == {t1, t2}
MCOpener == {op}
MCCanceller == {cancel}
MCOffers == {old, new}
MCSymmetry == Permutations(MCTool)
=============================================================================

---------------------------- MODULE MCGovernedChat ----------------------------
(***************************************************************************)
(* A small instance of GovernedChat: two requests that one decision fits,  *)
(* and days short enough for one of them to end while they run.            *)
(***************************************************************************)
EXTENDS GovernedChat, TLC

CONSTANTS a, b, tok, MCCost, MCExp

MCReq == {a, b}
MCToken == {tok}
MCEstimate == [r \in MCReq |-> MCCost]
MCTokenExp == [k \in MCToken |-> MCExp]
MCBound == [k \in MCToken |-> MCReq]
MCSymmetry == Permutations(MCReq)
=============================================================================

--------------------------- MODULE MCChatLifecycle ---------------------------
(***************************************************************************)
(* Three requests of a gateway with one permit: a stream and a plain one   *)
(* with a fallback target, and a plain one without.                        *)
(***************************************************************************)
EXTENDS ChatLifecycle

CONSTANTS a, b, c
MCReq == {a, b, c}
MCStreams == {a}
MCWithFallback == {a, b}

\* Cancellations: at every await, and none.
MCEverywhere == Awaiting
MCNowhere == {}
=============================================================================

--------------------------- MODULE MCFleetAdmission ---------------------------
\* Two gateways, the first with two requests, for TLC.
EXTENDS FleetAdmission, TLC

CONSTANTS a, b, c, g, h

MCReq == {a, b, c}
MCGateway == {g, h}
MCHome == a :> g @@ b :> g @@ c :> h
=============================================================================

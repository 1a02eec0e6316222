---------------------------- MODULE StoreBackend ----------------------------
(***************************************************************************)
(* What the stores of a request share: the requests that write to them,    *)
(* and REDIS_URL, which decides for all of them whether they are in Redis  *)
(* or in the memory of the gateway (app/gateway/main.py).                  *)
(***************************************************************************)
CONSTANT Call      \* the requests

VARIABLE backend   \* "redis" or "memory", fixed when the gateway starts
=============================================================================

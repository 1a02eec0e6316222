----------------------------- MODULE GovernedChat -----------------------------
(***************************************************************************)
(* What stands between a chat request and the model apart from admission   *)
(* and budget: it counts against the tenant's quota, asks the control      *)
(* plane, checks the signed decision and consumes it                       *)
(* (app/gateway/governance.py, decision_token.py, and the calls of         *)
(* routers/chat.py), runs, and reconciles its quota.                       *)
(*                                                                         *)
(* Each await is a point where other requests run: the call to the control *)
(* plane, the signature check in a thread, and each call of a store.  The  *)
(* control plane is external: it answers any verdict with any decision or  *)
(* none, and may answer two requests with the same decision.               *)
(***************************************************************************)
EXTENDS TenantQuota

CONSTANTS
    Token, Exp,  \* see DecisionReplay
    NoToken,     \* the control plane signed nothing
    Bound        \* Bound[t]: the requests that the digest, tenant, subject and
                 \* model claims of decision t fit

ASSUME TokenAssumption ==
    /\ NoToken \notin Token
    /\ Exp \in [Token -> Nat]
    /\ Bound \in [Token -> SUBSET Req]

Verdicts == {"allow", "block", "approval_required"}
Config == [mode : {"off", "misconfigured", "enforce"}, failOpen : BOOLEAN, requireSigned : BOOLEAN]

VARIABLES
    config,   \* GovernanceConfig; "off" is mode disabled, or not enabled
    pc,       \* where each request is
    answer,   \* what the control plane answered it
    until     \* the entries of the replay cache

\* History, kept for the properties only.
VARIABLE
    ran       \* when each decision let a request run: a set of <<token,
              \* request, the store's clock>>

vars == <<quotaVars, config, pc, answer, until, ran>>

Replay == INSTANCE DecisionReplay

Goes(r, from, to) == pc[r] = from /\ pc' = [pc EXCEPT ![r] = to]

-----------------------------------------------------------------------------
(* The quota, before governance                                            *)

CountQuota(r) == Goes(r, "new", "counted") /\ Count(r) /\ UNCHANGED <<config, answer, until, ran>>

\* The call to Redis fails, and may have been executed all the same.  It is
\* outside the handler that refunds, so what it counted stays.
CountFails(r) ==
    /\ backend = "redis"
    /\ Goes(r, "new", "over")
    /\ Count(r) \/ UNCHANGED quotaVars
    /\ UNCHANGED <<config, answer, until, ran>>

-----------------------------------------------------------------------------
(* enforce_governance()                                                    *)

Ungoverned(r) ==
    /\ config.mode = "off"
    /\ Goes(r, "counted", "running")
    /\ UNCHANGED <<quotaVars, config, answer, until, ran>>

Misconfigured(r) ==
    /\ config.mode = "misconfigured"
    /\ Goes(r, "counted", "refunding")
    /\ UNCHANGED <<quotaVars, config, answer, until, ran>>

\* A refused connection, a timeout or an error status lets the request pass if
\* the configuration says so; a body that is not JSON never does.
ControlPlaneFails(r) ==
    /\ config.mode = "enforce"
    /\ \/ Goes(r, "counted", "refunding")
       \/ config.failOpen /\ Goes(r, "counted", "running")
    /\ UNCHANGED <<quotaVars, config, answer, until, ran>>

ControlPlaneAnswers(r) ==
    /\ config.mode = "enforce"
    /\ Goes(r, "counted", "answered")
    /\ \E t \in Token \cup {NoToken}, v \in Verdicts :
          answer' = [answer EXCEPT ![r] = [token |-> t, verdict |-> v]]
    /\ UNCHANGED <<quotaVars, config, until, ran>>

\* The verdict is looked at last, after the decision was consumed.
Enforced(r) == IF answer[r].verdict = "allow" THEN "running" ELSE "refunding"

Unsigned(r) ==
    /\ answer[r].token = NoToken
    /\ Goes(r, "answered", IF config.requireSigned THEN "refunding" ELSE Enforced(r))
    /\ UNCHANGED <<quotaVars, config, answer, until, ran>>

NotExpired(t, now) == now < Exp[t]

\* verify_decision_token() and the comparison of the claims.
VerifyToken(r) ==
    /\ Goes(r, "answered", "verified")
    /\ answer[r].token # NoToken
    /\ \E now \in Stamps : NotExpired(answer[r].token, now)
    /\ r \in Bound[answer[r].token]
    /\ UNCHANGED <<quotaVars, config, answer, until, ran>>

\* Expired for its reader, not bound to this request, a bad signature, or a
\* verdict other than the answer's.
TokenRefused(r) ==
    /\ answer[r].token # NoToken
    /\ Goes(r, "answered", "refunding")
    /\ UNCHANGED <<quotaVars, config, answer, until, ran>>

ConsumeToken(r) ==
    LET t == answer[r].token IN
    /\ Goes(r, "verified", Enforced(r))
    /\ ~ Replay!Used(t)
    /\ \E now \in Stamps : Replay!Consume(t, now)
    /\ ran' = IF Enforced(r) = "running" THEN ran \cup {<<t, r, clock>>} ELSE ran
    /\ UNCHANGED <<quotaVars, config, answer>>

Replayed(r) ==
    /\ Goes(r, "verified", "refunding")
    /\ Replay!Used(answer[r].token)
    /\ UNCHANGED <<quotaVars, config, answer, until, ran>>

\* The call to the replay store fails, after it was executed or not.
ConsumeFails(r) ==
    LET t == answer[r].token IN
    /\ backend = "redis"
    /\ Goes(r, "verified", "refunding")
    /\ \/ ~ Replay!Used(t) /\ \E now \in Stamps : Replay!Consume(t, now)
       \/ UNCHANGED until
    /\ UNCHANGED <<quotaVars, config, answer, ran>>

-----------------------------------------------------------------------------
(* The end of a request                                                    *)

\* Any exception of the above takes the quota back, if that call succeeds.
RefundQuota(r) ==
    /\ Goes(r, "refunding", "over")
    /\ Refund(r) \/ (backend = "redis" /\ UNCHANGED quotaVars)
    /\ UNCHANGED <<config, answer, until, ran>>

\* The usage is known, and the call to the store succeeds.
ReconcileQuota(r) ==
    /\ Goes(r, "running", "over")
    /\ \E usage \in 0..MaxCharge : Reconcile(r, usage)
    /\ UNCHANGED <<config, answer, until, ran>>

\* No route, no backend, a failed call, an answer without usage, a store that
\* fails: the estimate stays.
KeepEstimate(r) ==
    /\ Goes(r, "running", "over")
    /\ UNCHANGED <<quotaVars, config, answer, until, ran>>

-----------------------------------------------------------------------------
Init ==
    /\ QuotaInit
    /\ config \in Config
    /\ pc = [r \in Req |-> "new"]
    /\ answer = [r \in Req |-> [token |-> NoToken, verdict |-> "block"]]
    /\ Replay!Init
    /\ ran = {}

Govern(r) ==
    \/ Ungoverned(r) \/ Misconfigured(r) \/ ControlPlaneFails(r) \/ ControlPlaneAnswers(r)
    \/ Unsigned(r) \/ VerifyToken(r) \/ TokenRefused(r)
    \/ ConsumeToken(r) \/ Replayed(r) \/ ConsumeFails(r)

RequestStep(r) ==
    \/ CountQuota(r) \/ CountFails(r)
    \/ Govern(r)
    \/ RefundQuota(r) \/ ReconcileQuota(r) \/ KeepEstimate(r)

TimePasses == Tick /\ UNCHANGED <<config, pc, answer, until, ran>>

Next == (\E r \in Req : RequestStep(r)) \/ TimePasses

Spec == Init /\ [][Next]_vars

-----------------------------------------------------------------------------
(* Properties                                                              *)

PCs == {"new", "counted", "answered", "verified", "running", "refunding", "over"}

\* Every variable has its type.
TypeOK ==
    /\ QuotaTypeOK
    /\ config \in Config
    /\ pc \in [Req -> PCs]
    /\ answer \in [Req -> [token : Token \cup {NoToken}, verdict : Verdicts]]
    /\ until \in [Token -> Nat]
    /\ ran \subseteq Token \X Req \X Nat

\* A decision lets one request run.  The cache forgets it no earlier than it
\* expires, whatever the clock of the replica that consumed it; a second request
\* can run on it only if it was verified in time and reached the cache late.
UsedOnceWhileValid ==
    \A x, y \in ran : x[1] = y[1] /\ x[2] # y[2] => x[3] >= Exp[x[1]] \/ y[3] >= Exp[x[1]]
=============================================================================

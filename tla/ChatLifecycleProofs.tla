------------------------- MODULE ChatLifecycleProofs -------------------------
(***************************************************************************)
(* For every number of requests, whatever each of them asks for, whichever *)
(* store fails, wherever the client goes away and at whichever await a     *)
(* handler is cancelled: a running request is backed by what admitted it,  *)
(* one whose handler ran to its end holds nothing, a cancelled one holds   *)
(* what it had not come to give back, what each was charged fits what      *)
(* happened, and the global admission is used as its specification says.   *)
(*                                                                         *)
(* The requests share the permits only.  The first invariant is one table, *)
(* read per request, of what it holds at each stage, and does not say how  *)
(* many permits are free.  The second is about the controller alone, for   *)
(* any callers, AdmissionSpec, and has two halves.  The books say how many *)
(* permits there are, whoever has them: none is lost or made, and the      *)
(* counters are the truth.  The queue says who has them: it holds whoever  *)
(* waits, those with a permit on its way are its first, and no permit is   *)
(* free beside a waiter unless one is on its way.  At the end the handlers *)
(* are shown to implement the controller, and inherit what it promises.    *)
(***************************************************************************)
EXTENDS ChatLifecycle, DataLemmas

\* The permit and the lease.
Admitted(r) ==
    /\ pc[r] = "new" => where[r] = "out" /\ ~ lease[r]
    /\ pc[r] = "permit" => where[r] \in {"waiting", "cancelled", "in"} /\ ~ lease[r]
    /\ pc[r] \in {"lease", "reserved", "calling", "upstream_error", "answered", "settled",
                  "closing", "stream_ready", "streaming", "lost"} =>
          where[r] = "in" /\ lease[r]
    /\ pc[r] = "releasing" => where[r] = "in" /\ ~ lease[r]
    /\ pc[r] = "released" => where[r] = "out" /\ ~ lease[r]
    /\ pc[r] \in {"failed", "settling"} =>
          \/ where[r] = "in" /\ lease[r]
          \/ where[r] = "out" /\ ~ lease[r] /\ charge[r] # "none"
    /\ pc[r] = "unleasing" => /\ where[r] = "in" \/ (where[r] = "out" /\ charge[r] # "none")
                              /\ ~ lease[r]
    /\ pc[r] = "cut" => where[r] = "in" /\ (budget[r] = "held" => lease[r])
    /\ pc[r] = "done" => where[r] \in {"out", "shed"} /\ ~ lease[r]

\* The reservation and the flag of mark_executed().
Reserved(r) ==
    /\ charge[r] = "none" <=> budget[r] # "settled"
    /\ pc[r] \in {"new", "permit", "lease"} => budget[r] = "none"
    /\ pc[r] \in {"new", "permit", "lease", "reserved"} => ~ executed[r]
    /\ pc[r] = "reserved" => budget[r] = "held"
    /\ pc[r] \in {"calling", "upstream_error", "answered", "stream_ready", "streaming", "lost"} =>
          budget[r] = "held" /\ executed[r]
    /\ pc[r] \in {"settled", "releasing", "released"} =>
          charge[r] \in {"estimate", "actual"} /\ executed[r]
    /\ pc[r] = "failed" /\ executed[r] => budget[r] # "none"
    /\ pc[r] \in {"settling", "closing", "unleasing", "done"} => budget[r] # "held"

\* What the charge says of the attempts.
Charged(r) ==
    /\ charge[r] \in {"estimate", "actual"} => executed[r]
    /\ ran[r] => executed[r]
    /\ charge[r] = "zero" => ~ executed[r] \/ Refunds(r)
    /\ pc[r] = "calling" => attempt[r] \in {1, 2} /\ (ran[r] => attempt[r] = 2)
    /\ pc[r] = "upstream_error" /\ ran[r] /\ Refunds(r) => attempt[r] = 2
    /\ ran[r] /\ charge[r] = "zero" => attempt[r] = 2 /\ Refunds(r)

Inv == TypeOK /\ \A r \in Req : Admitted(r) /\ Reserved(r) /\ Charged(r)

\* The step of one request leaves the rows of the others alone.
Only(r) ==
    \A x \in Req \ {r} :
        /\ where'[x] = where[x] /\ pc'[x] = pc[x] /\ lease'[x] = lease[x]
        /\ budget'[x] = budget[x] /\ executed'[x] = executed[x] /\ charge'[x] = charge[x]
        /\ attempt'[x] = attempt[x] /\ error'[x] = error[x] /\ ran'[x] = ran[x]

\* Nothing was settled before, or nothing is settled now.
Once(r) == charge[r] # "none" => charge'[r] = charge[r]

\* The step is one of the admission, or the second release that the property
\* UsesAdmission allows.
Uses ==
    \/ AdmissionNext
    \/ \E r \in Req : pc[r] = "unleasing" /\ charge[r] # "none" /\ where[r] = "out" /\ ReleasePermit(r)
    \/ UNCHANGED admission

Kept(r) == TypeOK' /\ Only(r) /\ Admitted(r)' /\ Reserved(r)' /\ Charged(r)' /\ Once(r) /\ Uses

-----------------------------------------------------------------------------
LEMMA RowsKept ==
    ASSUME Inv, NEW r \in Req, Kept(r)
    PROVE  Inv' /\ \A x \in Req : Once(x)
<1>1. ASSUME NEW x \in Req, x # r PROVE Admitted(x)' /\ Reserved(x)' /\ Charged(x)' /\ Once(x)
  <2>1. /\ where'[x] = where[x] /\ pc'[x] = pc[x] /\ lease'[x] = lease[x]
        /\ budget'[x] = budget[x] /\ executed'[x] = executed[x] /\ charge'[x] = charge[x]
        /\ attempt'[x] = attempt[x] /\ error'[x] = error[x] /\ ran'[x] = ran[x]
    BY <1>1 DEF Kept, Only
  <2>2. Admitted(x)'
    BY <2>1 DEF Inv, Admitted
  <2>3. Reserved(x)'
    BY <2>1 DEF Inv, Reserved
  <2>4. Charged(x)'
    BY <2>1 DEF Inv, Charged, Refunds
  <2> QED BY <2>1, <2>2, <2>3, <2>4 DEF Once
<1> QED BY <1>1 DEF Inv, Kept

\* A step that goes on by itself, and changes nothing that is shared.
LEMMA Alone ==
    ASSUME Inv, NEW r \in Req, UNCHANGED admission,
           \/ TakeLease(r) \/ ReserveBudget(r) \/ QuotaFails(r) \/ RoutingFails(r)
           \/ StartCall(r) \/ BookkeepingFails(r) \/ SettleAnswer(r) \/ Respond(r)
           \/ StartBody(r) \/ ClientGone(r) \/ HandleUpstreamError(r)
           \/ ReleaseLease(r) \/ Fail(r) \/ FinalizeStream(r) \/ FinalizeFails(r) \/ Cut(r)
    PROVE  Kept(r)
<1>0. TypeOK /\ Admitted(r) /\ Reserved(r) /\ Charged(r) /\ UNCHANGED where /\ Uses
  BY DEF Inv, admission, Uses
<1> USE DEF Go, TypeOK, Places, Only, Admitted, Reserved, Charged, Once, Stages, Awaiting, Refunds
<1>1. CASE TakeLease(r)
  <2>1. TypeOK' /\ Only(r) /\ Once(r)
    BY <1>0, <1>1 DEF TakeLease
  <2>2. Admitted(r)' /\ Reserved(r)'
    BY <1>0, <1>1 DEF TakeLease
  <2>3. Charged(r)'
    BY <1>0, <1>1 DEF TakeLease
  <2> QED BY <1>0, <2>1, <2>2, <2>3 DEF Kept
<1>2. CASE ReserveBudget(r)
  <2>1. TypeOK' /\ Only(r) /\ Once(r)
    BY <1>0, <1>2 DEF ReserveBudget
  <2>2. Admitted(r)' /\ Reserved(r)'
    BY <1>0, <1>2 DEF ReserveBudget
  <2>3. Charged(r)'
    BY <1>0, <1>2 DEF ReserveBudget
  <2> QED BY <1>0, <2>1, <2>2, <2>3 DEF Kept
<1>3. CASE QuotaFails(r)
  <2>1. TypeOK' /\ Only(r) /\ Once(r)
    BY <1>0, <1>3 DEF QuotaFails
  <2>2. Admitted(r)' /\ Reserved(r)'
    BY <1>0, <1>3 DEF QuotaFails
  <2>3. Charged(r)'
    BY <1>0, <1>3 DEF QuotaFails
  <2> QED BY <1>0, <2>1, <2>2, <2>3 DEF Kept
<1>4. CASE RoutingFails(r)
  <2>1. TypeOK' /\ Only(r) /\ Once(r)
    BY <1>0, <1>4 DEF RoutingFails, Settle
  <2>2. Admitted(r)' /\ Reserved(r)'
    BY <1>0, <1>4 DEF RoutingFails, Settle
  <2>3. Charged(r)'
    BY <1>0, <1>4 DEF RoutingFails, Settle
  <2> QED BY <1>0, <2>1, <2>2, <2>3 DEF Kept
<1>5. CASE StartCall(r)
  <2>1. TypeOK' /\ Only(r) /\ Once(r)
    BY <1>0, <1>5 DEF StartCall
  <2>2. Admitted(r)' /\ Reserved(r)'
    BY <1>0, <1>5 DEF StartCall
  <2>3. Charged(r)'
    BY <1>0, <1>5 DEF StartCall
  <2> QED BY <1>0, <2>1, <2>2, <2>3 DEF Kept
<1>6. CASE BookkeepingFails(r)
  <2>1. TypeOK' /\ Only(r) /\ Once(r)
    BY <1>0, <1>6 DEF BookkeepingFails
  <2>2. Admitted(r)' /\ Reserved(r)'
    BY <1>0, <1>6 DEF BookkeepingFails
  <2>3. Charged(r)'
    BY <1>0, <1>6 DEF BookkeepingFails
  <2> QED BY <1>0, <2>1, <2>2, <2>3 DEF Kept
<1>7. CASE SettleAnswer(r)
  <2>1. TypeOK' /\ Only(r) /\ Once(r)
    BY <1>0, <1>7 DEF SettleAnswer, Settle
  <2>2. Admitted(r)' /\ Reserved(r)'
    BY <1>0, <1>7 DEF SettleAnswer, Settle
  <2>3. Charged(r)'
    BY <1>0, <1>7 DEF SettleAnswer, Settle
  <2> QED BY <1>0, <2>1, <2>2, <2>3 DEF Kept
<1>8. CASE Respond(r)
  <2>1. /\ TypeOK' /\ Only(r) /\ pc[r] = "released" /\ pc'[r] \in {"done", "failed"}
        /\ UNCHANGED <<where, lease, budget, executed, charge, attempt, error, ran>>
    BY <1>0, <1>8 DEF Respond
  <2>2. Admitted(r)' /\ Reserved(r)' /\ Once(r)
    BY <1>0, <2>1
  <2>3. Charged(r)'
    BY <1>0, <2>1
  <2> QED BY <1>0, <2>1, <2>2, <2>3 DEF Kept
<1>9. CASE StartBody(r) \/ ClientGone(r)
  BY <1>0, <1>9 DEF Kept, StartBody, ClientGone
<1>10. CASE HandleUpstreamError(r)
  <2>1. TypeOK' /\ Only(r)
    BY <1>0, <1>10 DEF HandleUpstreamError, Settle
  <2>2. Admitted(r)' /\ Reserved(r)' /\ Once(r)
    BY <1>0, <1>10 DEF HandleUpstreamError, Settle
  <2>3. Charged(r)'
    BY <1>0, <1>10 DEF HandleUpstreamError, Settle
  <2> QED BY <1>0, <2>1, <2>2, <2>3 DEF Kept
<1>11. CASE ReleaseLease(r)
  <2>1. TypeOK' /\ Only(r) /\ Once(r)
    BY <1>0, <1>11 DEF ReleaseLease
  <2>2. Admitted(r)'
    BY <1>0, <1>11 DEF ReleaseLease
  <2>3. Reserved(r)' /\ Charged(r)'
    BY <1>0, <1>11 DEF ReleaseLease
  <2> QED BY <1>0, <2>1, <2>2, <2>3 DEF Kept
<1>12. CASE Fail(r)
  <2>1. TypeOK' /\ Only(r) /\ Once(r)
    BY <1>0, <1>12 DEF Fail, Abandon, Settle
  <2>2. Admitted(r)' /\ Reserved(r)'
    BY <1>0, <1>12 DEF Fail, Abandon, Settle
  <2>3. Charged(r)'
    BY <1>0, <1>12 DEF Fail, Abandon, Settle
  <2> QED BY <1>0, <2>1, <2>2, <2>3 DEF Kept
<1>13. CASE FinalizeStream(r)
  <2>1. TypeOK' /\ Only(r) /\ Once(r)
    BY <1>0, <1>13 DEF FinalizeStream, Settle
  <2>2. Admitted(r)' /\ Reserved(r)'
    BY <1>0, <1>13 DEF FinalizeStream, Settle
  <2>3. Charged(r)'
    BY <1>0, <1>13 DEF FinalizeStream, Settle
  <2> QED BY <1>0, <2>1, <2>2, <2>3 DEF Kept
<1>14. CASE FinalizeFails(r)
  <2>1. TypeOK' /\ Only(r) /\ Once(r)
    BY <1>0, <1>14 DEF FinalizeFails, Settle
  <2>2. Admitted(r)' /\ Reserved(r)'
    BY <1>0, <1>14 DEF FinalizeFails, Settle
  <2>3. Charged(r)'
    BY <1>0, <1>14 DEF FinalizeFails, Settle
  <2> QED BY <1>0, <2>1, <2>2, <2>3 DEF Kept
<1>15. CASE Cut(r)
  <2>1. pc[r] \in Awaiting /\ where[r] = "in"
    BY <1>15, ChatAssumption DEF Cut, ChatAssumption
  <2>2. TypeOK' /\ Only(r) /\ Once(r) /\ pc'[r] = "cut"
        /\ UNCHANGED <<where, lease, budget, executed, charge, attempt, error, ran>>
    BY <1>0, <1>15 DEF Cut
  <2>3. Admitted(r)'
    BY <1>0, <2>1, <2>2
  <2>4. Reserved(r)' /\ Charged(r)'
    BY <1>0, <2>1, <2>2
  <2> QED BY <1>0, <2>2, <2>3, <2>4 DEF Kept
<1> QED BY <1>1, <1>2, <1>3, <1>4, <1>5, <1>6, <1>7, <1>8, <1>9, <1>10,
           <1>11, <1>12, <1>13, <1>14, <1>15

\* A failed attempt at the upstream raises its error or goes to the fallback.
FailsWith(r, kind) ==
    /\ pc[r] = "calling"
    /\ ran' = [ran EXCEPT ![r] = @ \/ MayHaveRun[kind]]
    /\ UNCHANGED <<where, lease, budget, executed, charge, draining>>
    /\ Raise(r, kind) \/ (~ LastAttempt(r) /\ TryFallback(r))

LEMMA Failed ==
    ASSUME Inv, NEW r \in Req, NEW kind \in DOMAIN MayHaveRun, FailsWith(r, kind)
    PROVE  /\ TypeOK' /\ Only(r)
           /\ \/ /\ pc'[r] = "calling" /\ attempt'[r] = 2
              \/ /\ pc'[r] = "upstream_error"
                 /\ attempt'[r] = attempt[r]
                 /\ error'[r] = "other" \/ ran'[r] = ran[r]
<1>0. /\ TypeOK /\ attempt[r] \in {1, 2} /\ pc[r] = "calling"
      /\ ran' = [ran EXCEPT ![r] = @ \/ MayHaveRun[kind]]
      /\ UNCHANGED <<where, lease, budget, executed, charge, draining>>
  BY DEF Inv, Charged, FailsWith
<1>1. /\ kind \in {"connect", "status", "other"}
      /\ MayHaveRun[kind] \in BOOLEAN
      /\ kind # "other" => MayHaveRun[kind] = FALSE
  <2>1. /\ DOMAIN MayHaveRun = {"connect", "status", "other"}
        /\ MayHaveRun["other"] = TRUE
        /\ MayHaveRun["connect"] = FALSE /\ MayHaveRun["status"] = FALSE
    BY DEF MayHaveRun
  <2> QED BY <2>1
<1>2. ran[r] \in BOOLEAN /\ ran \in [Req -> BOOLEAN]
  BY <1>0 DEF TypeOK
<1>3. /\ ran' \in [Req -> BOOLEAN]
      /\ \A x \in Req \ {r} : ran'[x] = ran[x]
  BY <1>0, <1>1, <1>2
<1>4. kind = "other" \/ ran'[r] = ran[r]
  BY <1>0, <1>1, <1>2
<1>5. CASE Raise(r, kind)
  <2>1. /\ pc' = [pc EXCEPT ![r] = "upstream_error"] /\ error' = [error EXCEPT ![r] = kind]
        /\ attempt' = attempt
    BY <1>5 DEF Raise, Go
  <2>2. /\ pc' \in [Req -> Stages] /\ error' \in [Req -> {"none", "connect", "status", "other"}]
        /\ pc'[r] = "upstream_error" /\ error'[r] = kind
        /\ \A x \in Req \ {r} : pc'[x] = pc[x] /\ error'[x] = error[x]
    BY <1>0, <1>1, <2>1 DEF TypeOK, Stages, Awaiting
  <2>3. TypeOK'
    BY <1>0, <1>3, <2>1, <2>2 DEF TypeOK
  <2>4. Only(r)
    BY <1>0, <1>3, <2>1, <2>2 DEF Only
  <2> QED BY <1>4, <2>1, <2>2, <2>3, <2>4
<1>6. CASE ~ LastAttempt(r) /\ TryFallback(r)
  <2>1. attempt' = [attempt EXCEPT ![r] = @ + 1] /\ pc' = pc /\ error' = error /\ attempt[r] = 1
    BY <1>0, <1>6 DEF TryFallback, LastAttempt
  <2>2. /\ attempt' \in [Req -> 0..2] /\ attempt'[r] = 2
        /\ \A x \in Req \ {r} : attempt'[x] = attempt[x]
    BY <1>0, <2>1 DEF TypeOK
  <2>3. TypeOK' /\ Only(r)
    BY <1>0, <1>3, <2>1, <2>2 DEF TypeOK, Only
  <2> QED BY <1>0, <2>1, <2>2, <2>3
<1> QED BY <1>5, <1>6 DEF FailsWith

\* An attempt at the upstream.
LEMMA Attempted ==
    ASSUME Inv, NEW r \in Req,
           \/ AttemptFails(r) \/ AttemptRefused(r) \/ AttemptAnswered(r)
           \/ StreamFails(r) \/ StreamReady(r)
    PROVE  Kept(r)
<1>0. TypeOK /\ Admitted(r) /\ Reserved(r) /\ Charged(r)
  BY DEF Inv
<1>1. /\ pc[r] = "calling"
      /\ UNCHANGED <<admission, where, lease, budget, executed, charge, draining>>
  BY DEF AttemptFails, AttemptRefused, AttemptAnswered, StreamFails, StreamReady, admission
<1>2. /\ TypeOK' /\ Only(r)
      /\ \/ /\ pc'[r] = "calling" /\ attempt'[r] = 2
         \/ /\ pc'[r] = "upstream_error"
            /\ attempt'[r] = attempt[r]
            /\ error'[r] = "other" \/ ran'[r] = ran[r]
         \/ pc'[r] \in {"answered", "stream_ready"}
  <2>1. CASE AttemptFails(r) \/ StreamFails(r)
    <3>1. PICK kind \in DOMAIN MayHaveRun : FailsWith(r, kind)
      BY <1>1, <2>1 DEF AttemptFails, StreamFails, FailsWith
    <3> QED BY <3>1, Failed
  <2>2. CASE AttemptRefused(r)
    BY <1>0, <1>1, <2>2 DEF AttemptRefused, Raise, TryFallback, LastAttempt, Go, TypeOK, Places, Only, Stages, Awaiting, Charged
  <2>3. CASE AttemptAnswered(r)
    BY <1>0, <1>1, <2>3 DEF AttemptAnswered, Go, TypeOK, Only, Stages, Awaiting
  <2>4. CASE StreamReady(r)
    BY <1>0, <1>1, <2>4 DEF StreamReady, Go, TypeOK, Only, Stages, Awaiting
  <2> QED BY <2>1, <2>2, <2>3, <2>4
<1>3. Admitted(r)' /\ Reserved(r)' /\ Once(r)
  BY <1>0, <1>1, <1>2 DEF Admitted, Reserved, Once
<1>4. charge'[r] = "none" /\ executed'[r]
  BY <1>0, <1>1 DEF Reserved, TypeOK, Places
<1>5. Charged(r)'
  BY <1>0, <1>1, <1>2, <1>4 DEF Charged, Refunds, TypeOK, Places
<1> QED BY <1>1, <1>2, <1>3, <1>5 DEF Kept, Uses

\* A step of the admission: arriving, waiting, and going away while waiting.
LEMMA Waited ==
    ASSUME Inv, NEW r \in Req,
           Arrive(r) \/ GetPermit(r) \/ CancelWait(r) \/ UnwindWait(r)
    PROVE  Kept(r)
<1>0. TypeOK /\ Admitted(r) /\ Reserved(r) /\ Charged(r)
  BY DEF Inv
<1>1. UNCHANGED <<lease, budget, executed, charge, attempt, error, ran>>
  BY DEF Arrive, GetPermit, CancelWait, UnwindWait, chat
<1>2. /\ Only(r) /\ TypeOK' /\ Uses
      /\ \/ /\ pc[r] = "new" /\ pc'[r] = "done" /\ where'[r] \in {"out", "shed"}
         \/ /\ pc[r] = "new" /\ pc'[r] = "permit" /\ where'[r] \in {"waiting", "in"}
         \/ /\ pc'[r] = "done" /\ where[r] = "cancelled" /\ where'[r] = "out"
         \/ /\ pc'[r] = pc[r] /\ where[r] = "waiting" /\ where'[r] \in {"cancelled", "in"}
  <2>1. CASE Arrive(r)
    BY <1>0, <1>1, <2>1 DEF Arrive, Shed, Enter, Wait, AdmissionNext, Uses, admission, Go,
                            TypeOK, Places, Only, Admitted, Stages, Awaiting
  <2>2. CASE GetPermit(r) \/ CancelWait(r)
    BY <1>0, <1>1, <2>2 DEF GetPermit, CancelWait, Resume, Cancel, AdmissionNext, Uses, chat,
                            TypeOK, Places, Only, Admitted, Stages, Awaiting
  <2>3. CASE UnwindWait(r)
    BY <1>0, <1>1, <2>3 DEF UnwindWait, Unwind, AdmissionNext, Uses, Go, TypeOK, Places, Only, Admitted, Stages, Awaiting
  <2> QED BY <2>1, <2>2, <2>3
<1>3. pc[r] \in {"new", "permit"} /\ (pc[r] # "new" => pc[r] = "permit")
  BY <1>0, <1>2 DEF Admitted, TypeOK, Places, Stages, Awaiting
<1>4. Admitted(r)' /\ Reserved(r)' /\ Charged(r)' /\ Once(r)
  BY <1>0, <1>1, <1>2, <1>3 DEF Admitted, Reserved, Charged, Refunds, Once, TypeOK, Places
<1> QED BY <1>2, <1>4 DEF Kept

\* The end of a request: its permit is given back.
LEMMA GivenBack ==
    ASSUME Inv, NEW r \in Req, LeaseRefused(r) \/ ReleasePermit(r)
    PROVE  Kept(r)
<1>0. TypeOK /\ Admitted(r) /\ Reserved(r) /\ Charged(r)
  BY DEF Inv
<1>1. /\ GivePermit(r) /\ where' = [where EXCEPT ![r] = "out"]
      /\ UNCHANGED <<lease, budget, executed, charge, attempt, error, ran>>
  BY DEF LeaseRefused, ReleasePermit, GivePermit
<1>2. where[r] = "in" => Leave(r)
  BY <1>1 DEF GivePermit, Leave
<1>3. Uses
  <2>1. CASE where[r] = "in"
    BY <1>2, <2>1 DEF Uses, AdmissionNext
  <2>2. CASE where[r] # "in"
    <3>1. ReleasePermit(r) /\ pc[r] = "unleasing"
      BY <1>0, <2>2 DEF LeaseRefused, ReleasePermit, Admitted
    <3> QED BY <1>0, <2>2, <3>1 DEF Uses, Admitted
  <2> QED BY <2>1, <2>2
<1>4. CASE LeaseRefused(r)
  BY <1>0, <1>1, <1>3, <1>4 DEF Kept, LeaseRefused, Go, TypeOK, Places, Only, Admitted, Reserved, Charged,
                                Once, Stages, Awaiting, Refunds
<1>5. CASE ReleasePermit(r)
  <2>1. TypeOK' /\ Only(r) /\ Admitted(r)'
    BY <1>0, <1>1, <1>5 DEF ReleasePermit, Go, TypeOK, Places, Only, Admitted, Stages, Awaiting
  <2>2. Reserved(r)' /\ Charged(r)' /\ Once(r)
    BY <1>0, <1>1, <1>5 DEF ReleasePermit, Go, TypeOK, Places, Reserved, Charged, Once, Refunds
  <2> QED BY <1>3, <2>1, <2>2 DEF Kept
<1> QED BY <1>4, <1>5

-----------------------------------------------------------------------------
(* The invariant                                                           *)

LEMMA InitOK == Init => Inv /\ AdmissionInit
<1> SUFFICES ASSUME Init PROVE Inv /\ AdmissionInit
  OBVIOUS
<1>1. AdmissionInit
  BY DEF Init
<1>3. TypeOK
  <2>1. where \in [Req -> Places]
    BY <1>1 DEF AdmissionInit, Places
  <2>2. /\ lease \in [Req -> BOOLEAN] /\ executed \in [Req -> BOOLEAN]
        /\ ran \in [Req -> BOOLEAN] /\ draining \in BOOLEAN
    BY DEF Init
  <2> QED BY <2>1, <2>2 DEF Init, TypeOK, Stages, Awaiting
<1>2. ASSUME NEW r \in Req PROVE Admitted(r) /\ Reserved(r) /\ Charged(r)
  BY <1>2 DEF Init, AdmissionInit, Admitted, Reserved, Charged, Refunds
<1> QED BY <1>1, <1>3, <1>2 DEF Inv

\* A step of one request keeps its row, and the others'.
LEMMA RowKept ==
    ASSUME Inv, NEW r \in Req, Arrive(r) \/ CancelWait(r) \/ Cut(r) \/ Serve(r)
    PROVE  Kept(r)
<1>1. CASE Arrive(r) \/ CancelWait(r) \/ GetPermit(r) \/ UnwindWait(r)
  BY <1>1, Waited
<1>2. CASE LeaseRefused(r) \/ ReleasePermit(r)
  BY <1>2, GivenBack
<1>3. CASE \/ AttemptFails(r) \/ AttemptRefused(r) \/ AttemptAnswered(r)
           \/ StreamFails(r) \/ StreamReady(r)
  BY <1>3, Attempted
<1>4. CASE \/ TakeLease(r) \/ ReserveBudget(r) \/ QuotaFails(r) \/ RoutingFails(r)
           \/ StartCall(r) \/ BookkeepingFails(r) \/ SettleAnswer(r) \/ Respond(r)
           \/ StartBody(r) \/ ClientGone(r) \/ HandleUpstreamError(r)
           \/ ReleaseLease(r) \/ Fail(r) \/ FinalizeStream(r) \/ FinalizeFails(r) \/ Cut(r)
  <2>1. UNCHANGED admission
    BY <1>4 DEF TakeLease, ReserveBudget, QuotaFails, RoutingFails, StartCall, BookkeepingFails,
                SettleAnswer, Respond, StartBody, ClientGone, HandleUpstreamError,
                ReleaseLease, Fail, FinalizeStream, FinalizeFails, Cut
  <2> QED BY <1>4, <2>1, Alone
<1> QED BY <1>1, <1>2, <1>3, <1>4 DEF Serve

LEMMA StepOK == Inv /\ [Next]_vars => Inv' /\ (\A x \in Req : Once(x)) /\ Uses
<1> SUFFICES ASSUME Inv, [Next]_vars PROVE Inv' /\ (\A x \in Req : Once(x)) /\ Uses
  OBVIOUS
<1>1. ASSUME NEW r \in Req, Arrive(r) \/ CancelWait(r) \/ Cut(r) \/ Serve(r)
      PROVE  Inv' /\ (\A x \in Req : Once(x)) /\ Uses
  BY <1>1, RowKept, RowsKept DEF Kept
<1>2. CASE StartDrain \/ UNCHANGED vars
  <2>1. UNCHANGED <<admission, chat>> /\ (draining' = draining \/ draining')
    BY <1>2 DEF StartDrain, vars
  <2>2. TypeOK'
    BY <2>1 DEF Inv, TypeOK, admission, chat
  <2>3. ASSUME NEW x \in Req PROVE Admitted(x)' /\ Reserved(x)' /\ Charged(x)' /\ Once(x)
    <3>1. Admitted(x) /\ Reserved(x) /\ Charged(x)
      BY DEF Inv
    <3>2. Admitted(x)' /\ Once(x)
      BY <2>1, <3>1 DEF Admitted, Once, admission, chat
    <3>3. Reserved(x)'
      BY <2>1, <3>1 DEF Reserved, chat
    <3>4. Charged(x)'
      BY <2>1, <3>1 DEF Charged, Refunds, chat
    <3> QED BY <3>2, <3>3, <3>4
  <2> QED BY <2>1, <2>2, <2>3 DEF Inv, Uses
<1> QED BY <1>1, <1>2 DEF Next

LEMMA InvIsInvariant == Spec => []Inv
BY InitOK, StepOK, PTL DEF Spec

-----------------------------------------------------------------------------
(* The properties                                                          *)

LEMMA InvImplies == Inv => BackedWhileRunning /\ LeaksExplained /\ ChargeFits
<1> SUFFICES ASSUME Inv PROVE BackedWhileRunning /\ LeaksExplained /\ ChargeFits
  OBVIOUS
<1>0. \A r \in Req : Admitted(r) /\ Reserved(r) /\ Charged(r)
  BY DEF Inv
<1>1. BackedWhileRunning
  BY <1>0 DEF BackedWhileRunning, Admitted, Reserved
<1>2. LeaksExplained
  BY <1>0 DEF LeaksExplained, Admitted, Reserved
<1>3. ChargeFits
  BY <1>0 DEF Inv, TypeOK, Places, ChargeFits, Reserved, Charged, Refunds
<1> QED BY <1>1, <1>2, <1>3

\* Every variable of the handlers keeps its type.
THEOREM TypeCorrect == Spec => []TypeOK
BY InvIsInvariant, PTL DEF Inv

\* A request that is with the model, from the first attempt to the last byte, holds
\* its permit, its lease and its reservation (chat_completions).
THEOREM RunningIsBacked == Spec => []BackedWhileRunning
BY InvIsInvariant, InvImplies, PTL

\* On every path through the handler, failures of any store and the double pass
\* through the outer handler included, a request whose handler ran to its end holds
\* nothing.  Wherever it was cancelled instead, it has given back what comes first
\* and keeps the rest, its permit in any case: nothing cleans up after it.
THEOREM LeaksAreExplained == Spec => []LeaksExplained
BY InvIsInvariant, InvImplies, PTL

\* What a reservation is settled for fits what the attempts did, as far as the
\* handler, which looks at the last error, can know.
THEOREM ChargesFit == Spec => []ChargeFits
BY InvIsInvariant, InvImplies, PTL

\* No later error path changes what a reservation was settled for.
THEOREM SettlementIsFinal == Spec => SettledOnce
<1>1. Inv /\ [Next]_vars => [\A r \in Req : charge[r] # "none" => charge'[r] = charge[r]]_vars
  BY StepOK DEF Once
<1> QED BY <1>1, InvIsInvariant, PTL DEF Spec, SettledOnce

\* The chat handlers implement the global admission, up to the second release of an
\* answer that cannot be rendered: every step of theirs is a step of GlobalAdmission
\* on the variables they share, or none.
THEOREM HandlersUseAdmission == Spec => UsesAdmission
<1>1. Inv /\ [Next]_vars =>
        [AdmissionNext \/ \E r \in Req : pc[r] = "unleasing" /\ charge[r] # "none"
                                   /\ where[r] = "out" /\ ReleasePermit(r)]_admission
  BY StepOK DEF Uses
<1>2. Init => AdmissionInit
  BY InitOK
<1> QED BY <1>1, <1>2, InvIsInvariant, PTL DEF Spec, UsesAdmission

-----------------------------------------------------------------------------
(* The permits                                                             *)

One(b) == IF b THEN 1 ELSE 0

\* A set of callers and what it is after one of them moved.
LEMMA SetMoves ==
    ASSUME NEW S \in SUBSET Req, NEW T \in SUBSET Req, NEW r \in Req, T \ {r} = S \ {r}
    PROVE  /\ Cardinality(S) \in Nat /\ Cardinality(T) \in Nat
           /\ Cardinality(T) + One(r \in S) = Cardinality(S) + One(r \in T)
           /\ r \in S => Cardinality(S) > 0
<1>1. IsFiniteSet(S) /\ IsFiniteSet(T)
  BY FS_Subset, LimitsAssumption DEF LimitsAssumption
<1>2. Cardinality(S) \in Nat /\ Cardinality(T) \in Nat
  BY <1>1, FS_CardinalityType
<1>3. /\ Cardinality(S \ {r}) = IF r \in S THEN Cardinality(S) - 1 ELSE Cardinality(S)
      /\ Cardinality(T \ {r}) = IF r \in T THEN Cardinality(T) - 1 ELSE Cardinality(T)
  BY <1>1, FS_RemoveElement
<1>4. r \in S => Cardinality(S) # 0
  BY <1>1, FS_EmptySet
<1> QED
  BY <1>2, <1>3, <1>4 DEF One

-----------------------------------------------------------------------------
(* The permits                                                             *)

\* Handing permits out to n callers adds as many to those who have one.
LEMMA HandAdds ==
    ASSUME NEW queue, NEW out \in SUBSET Req, NEW n \in Nat, Hand(queue, out, n)
    PROVE  /\ granted' \in SUBSET Req
           /\ Cardinality(out) \in Nat
           /\ Cardinality(granted') = Cardinality(out) + n
<1>1. PICK S \in SUBSET Idle(queue, out) : Cardinality(S) = n /\ granted' = out \cup S
  BY DEF Hand
<1>2. S \in SUBSET Req /\ out \cap S = {}
  BY DEF Idle
<1>3. IsFiniteSet(S) /\ IsFiniteSet(out)
  BY <1>2, FS_Subset, LimitsAssumption DEF LimitsAssumption
<1>4. Cardinality(out) \in Nat /\ Cardinality(S) \in Nat
  BY <1>3, FS_CardinalityType
<1>5. Cardinality(out \cup S) = Cardinality(out) + Cardinality(S) - Cardinality(out \cap S)
  BY <1>3, FS_Union
<1>6. Cardinality(out \cap S) = 0
  BY <1>2, FS_EmptySet
<1> QED
  BY <1>1, <1>2, <1>4, <1>5, <1>6

\* The loop hands out no more than is free.
LEMMA HandOutKeeps ==
    ASSUME NEW queue, NEW out \in SUBSET Req, NEW free \in Nat, HandOut(queue, out, free)
    PROVE  /\ granted' \in SUBSET Req /\ value' \in Nat
           /\ Cardinality(out) \in Nat /\ Cardinality(granted') \in Nat
           /\ value' + Cardinality(granted') = free + Cardinality(out)
<1> DEFINE idle == Cardinality(Idle(queue, out))
           n == IF free < idle THEN free ELSE idle
<1>1. idle \in Nat
  <2>1. IsFiniteSet(Idle(queue, out))
    BY FS_Subset, LimitsAssumption DEF LimitsAssumption, Idle
  <2> QED
    BY <2>1, FS_CardinalityType
<1>2. Hand(queue, out, n) /\ value' = free - n
  BY DEF HandOut
<1> HIDE DEF idle
<1>3. n \in Nat /\ n <= free
  BY <1>1
<1> HIDE DEF n
<1>4. granted' \in SUBSET Req /\ Cardinality(out) \in Nat /\ Cardinality(granted') = Cardinality(out) + n
  BY <1>2, <1>3, HandAdds
<1> QED
  BY <1>2, <1>3, <1>4

\* A release hands out one, or adds one.
LEMMA GiveBackKeeps ==
    ASSUME value \in Nat, granted \in SUBSET Req, GiveBack
    PROVE  /\ granted' \in SUBSET Req /\ value' \in Nat
           /\ Cardinality(granted) \in Nat /\ Cardinality(granted') \in Nat
           /\ value' + Cardinality(granted') = value + Cardinality(granted) + 1
<1>1. Cardinality(granted) \in Nat
  BY FS_Subset, FS_CardinalityType, LimitsAssumption DEF LimitsAssumption
<1>2. CASE value' = value + 1 /\ UNCHANGED granted
  BY <1>1, <1>2
<1>3. CASE Hand(waiters, granted, 1) /\ UNCHANGED value
  BY <1>3, HandAdds
<1> QED
  BY <1>2, <1>3 DEF GiveBack

-----------------------------------------------------------------------------
(* The books                                                               *)

PermitTypes ==
    /\ value \in Nat
    /\ granted \in SUBSET Req
    /\ queued \in Nat
    /\ inflight \in Nat
    /\ where \in [Req -> Places]

Inside == At("in")
InQueue == At("waiting") \cup At("cancelled")

Books ==
    /\ value + Cardinality(granted) + Cardinality(Inside) = MaxInflight
    /\ inflight = Cardinality(Inside)
    /\ queued = Cardinality(InQueue)

BooksKept == PermitTypes /\ Books

\* The property adds up what Books has as one set.
LEMMA BooksImply ==
    ASSUME BooksKept
    PROVE  /\ value + Cardinality(granted) + Cardinality(At("in")) = MaxInflight
           /\ CountersExact
<1>1. IsFiniteSet(At("waiting")) /\ IsFiniteSet(At("cancelled"))
  BY FS_Subset, LimitsAssumption DEF LimitsAssumption, At
<1>2. Cardinality(At("waiting")) \in Nat /\ Cardinality(At("cancelled")) \in Nat
  BY <1>1, FS_CardinalityType
<1>3. Cardinality(InQueue) = Cardinality(At("waiting")) + Cardinality(At("cancelled"))
                             - Cardinality(At("waiting") \cap At("cancelled"))
  BY <1>1, FS_Union DEF InQueue
<1>4. At("waiting") \cap At("cancelled") = {}
  BY DEF At
<1>5. Cardinality(At("waiting") \cap At("cancelled")) = 0
  BY <1>4, FS_EmptySet
<1> QED
  BY <1>2, <1>3, <1>5 DEF BooksKept, Books, CountersExact, Inside

\* What a caller at a place counts for in each.
InUse(place) == IF place = "in" THEN 1 ELSE 0
Ticket(place) == IF place \in {"waiting", "cancelled"} THEN 1 ELSE 0

\* A caller that moves changes the two sets by itself.
LEMMA CallerMoves ==
    ASSUME PermitTypes, NEW r \in Req, NEW place \in Places, where' = [where EXCEPT ![r] = place]
    PROVE  /\ where' \in [Req -> Places]
           /\ Cardinality(Inside) \in Nat /\ Cardinality(Inside') \in Nat
           /\ Cardinality(InQueue) \in Nat /\ Cardinality(InQueue') \in Nat
           /\ Cardinality(Inside') + InUse(where[r]) = Cardinality(Inside) + InUse(place)
           /\ Cardinality(InQueue') + Ticket(where[r]) =
                  Cardinality(InQueue) + Ticket(place)
<1>1. where \in [Req -> Places] /\ where' \in [Req -> Places] /\ where'[r] = place
      /\ \A x \in Req \ {r} : where'[x] = where[x]
  BY DEF PermitTypes
<1>2. /\ Inside \in SUBSET Req /\ Inside' \in SUBSET Req
      /\ InQueue \in SUBSET Req /\ InQueue' \in SUBSET Req
      /\ r \in Inside <=> where[r] = "in"
      /\ r \in Inside' <=> place = "in"
      /\ r \in InQueue <=> where[r] \in {"waiting", "cancelled"}
      /\ r \in InQueue' <=> place \in {"waiting", "cancelled"}
  BY <1>1 DEF Inside, InQueue, At
<1>3. Inside' \ {r} = Inside \ {r} /\ InQueue' \ {r} = InQueue \ {r}
  BY <1>1 DEF Inside, InQueue, At
<1>4. /\ Cardinality(Inside) \in Nat /\ Cardinality(Inside') \in Nat
      /\ Cardinality(Inside') + One(r \in Inside) = Cardinality(Inside) + One(r \in Inside')
  BY <1>2, <1>3, SetMoves
<1>5. /\ Cardinality(InQueue) \in Nat /\ Cardinality(InQueue') \in Nat
      /\ Cardinality(InQueue') + One(r \in InQueue) = Cardinality(InQueue) + One(r \in InQueue')
  BY <1>2, <1>3, SetMoves
<1> QED
  BY <1>1, <1>2, <1>4, <1>5 DEF One, InUse, Ticket

\* A caller that is there was counted, so no decrement stops at zero.
LEMMA WasCounted ==
    ASSUME BooksKept, NEW r \in Req
    PROVE  /\ where[r] = "in" => inflight > 0
           /\ where[r] \in {"waiting", "cancelled"} => queued > 0
<1>1. /\ Inside \in SUBSET Req /\ InQueue \in SUBSET Req
      /\ r \in Inside <=> where[r] = "in"
      /\ r \in InQueue <=> where[r] \in {"waiting", "cancelled"}
  BY DEF Inside, InQueue, At
<1>2. /\ r \in Inside => Cardinality(Inside) > 0
      /\ r \in InQueue => Cardinality(InQueue) > 0
  BY <1>1, SetMoves
<1> QED
  BY <1>1, <1>2 DEF BooksKept, Books

\* What a step does to the books is what it does for one caller.
LEMMA Balances ==
    ASSUME BooksKept, NEW r \in Req, NEW place \in Places, where' = [where EXCEPT ![r] = place],
           value' \in Nat, granted' \in SUBSET Req,
           value' + Cardinality(granted') + InUse(place) =
               value + Cardinality(granted) + InUse(where[r]),
           inflight' + InUse(where[r]) = inflight + InUse(place),
           inflight' \in Nat,
           queued' + Ticket(where[r]) =
               queued + Ticket(place),
           queued' \in Nat
    PROVE  BooksKept'
<1> DEFINE was == InUse(where[r])
           is == InUse(place)
           wasQ == Ticket(where[r])
           isQ == Ticket(place)
<1>1. /\ was \in Nat /\ is \in Nat /\ wasQ \in Nat /\ isQ \in Nat
  BY DEF InUse, Ticket
<1>2. /\ where' \in [Req -> Places]
      /\ Cardinality(Inside) \in Nat /\ Cardinality(Inside') \in Nat
      /\ Cardinality(InQueue) \in Nat /\ Cardinality(InQueue') \in Nat
      /\ Cardinality(Inside') + was = Cardinality(Inside) + is
      /\ Cardinality(InQueue') + wasQ = Cardinality(InQueue) + isQ
  BY CallerMoves DEF BooksKept
<1>3. /\ Cardinality(granted) \in Nat /\ Cardinality(granted') \in Nat
  BY FS_Subset, FS_CardinalityType, LimitsAssumption DEF LimitsAssumption, BooksKept, PermitTypes
<1>4. /\ value' + Cardinality(granted') + is = value + Cardinality(granted) + was
      /\ inflight' + was = inflight + is
      /\ queued' + wasQ = queued + isQ
  OBVIOUS
<1> HIDE DEF was, is, wasQ, isQ
<1>5. PermitTypes'
  BY <1>2 DEF PermitTypes
<1>6. /\ value \in Nat /\ inflight \in Nat /\ queued \in Nat /\ MaxInflight \in Nat
      /\ value + Cardinality(granted) + Cardinality(Inside) = MaxInflight
      /\ inflight = Cardinality(Inside)
      /\ queued = Cardinality(InQueue)
  BY LimitsAssumption DEF LimitsAssumption, BooksKept, PermitTypes, Books
<1>7. /\ value' + Cardinality(granted') + Cardinality(Inside') = MaxInflight
      /\ inflight' = Cardinality(Inside')
      /\ queued' = Cardinality(InQueue')
  BY <1>1, <1>2, <1>3, <1>4, <1>6
<1> QED
  BY <1>5, <1>7 DEF BooksKept, Books

\* Every step keeps the books.
LEMMA AdmissionStep ==
    ASSUME BooksKept, NEW r \in Req,
           \/ Shed(r) \/ Enter(r) \/ Wait(r) \/ Resume(r)
           \/ Leave(r) \/ Cancel(r) \/ Unwind(r) \/ Retry(r)
    PROVE  BooksKept'
<1>0. /\ value \in Nat /\ granted \in SUBSET Req /\ queued \in Nat /\ inflight \in Nat
      /\ Cardinality(granted) \in Nat
  BY FS_Subset, FS_CardinalityType, LimitsAssumption DEF LimitsAssumption, BooksKept, PermitTypes
<1>p. /\ "out" \in Places /\ InUse("out") = 0 /\ Ticket("out") = 0
      /\ "shed" \in Places /\ InUse("shed") = 0 /\ Ticket("shed") = 0
      /\ "in" \in Places /\ InUse("in") = 1 /\ Ticket("in") = 0
      /\ "waiting" \in Places /\ InUse("waiting") = 0 /\ Ticket("waiting") = 1
      /\ "cancelled" \in Places /\ InUse("cancelled") = 0 /\ Ticket("cancelled") = 1
  BY DEF Places, InUse, Ticket
<1>1. CASE Shed(r)
  BY <1>0, <1>p, <1>1, Balances DEF Shed
<1>2. CASE Enter(r)
  <2>1. /\ where' = [where EXCEPT ![r] = "in"] /\ where[r] = "out" /\ value > 0
        /\ value' = value - 1 /\ inflight' = inflight + 1 /\ UNCHANGED <<granted, queued>>
    BY <1>0, <1>2 DEF Enter, Locked
  <2>2. /\ value' \in Nat /\ granted' \in SUBSET Req
        /\ value' + Cardinality(granted') + InUse("in") =
               value + Cardinality(granted) + InUse("out")
        /\ inflight' + InUse("out") = inflight + InUse("in") /\ inflight' \in Nat
        /\ queued' + Ticket("out") = queued + Ticket("in") /\ queued' \in Nat
    BY <1>0, <1>p, <2>1
  <2> QED
    BY <1>0, <1>p, <2>1, <2>2, Balances
<1>3. CASE Wait(r)
  <2>1. /\ where' = [where EXCEPT ![r] = "waiting"] /\ where[r] = "out"
        /\ queued' = queued + 1 /\ UNCHANGED <<value, granted, inflight>>
    BY <1>3 DEF Wait
  <2>2. /\ value' + Cardinality(granted') + InUse("waiting") =
               value + Cardinality(granted) + InUse("out")
        /\ inflight' + InUse("out") = inflight + InUse("waiting") /\ inflight' \in Nat
        /\ queued' + Ticket("out") = queued + Ticket("waiting") /\ queued' \in Nat
    BY <1>0, <1>p, <2>1
  <2> QED
    BY <1>0, <1>p, <2>1, <2>2, Balances
<1>4. CASE Resume(r)
  <2>1. /\ granted \ {r} \in SUBSET Req
        /\ Cardinality(granted \ {r}) = Cardinality(granted) - 1
    BY <1>0, <1>4, FS_Subset, FS_RemoveElement, LimitsAssumption
       DEF Resume, LimitsAssumption
  <2>2. /\ granted' \in SUBSET Req /\ value' \in Nat /\ Cardinality(granted') \in Nat
        /\ value' + Cardinality(granted') = value + Cardinality(granted \ {r})
    BY <1>0, <1>4, <2>1, HandOutKeeps DEF Resume
  <2>3. /\ where' = [where EXCEPT ![r] = "in"] /\ where[r] = "waiting"
        /\ queued' = queued - 1 /\ queued > 0 /\ inflight' = inflight + 1
    BY <1>4, WasCounted DEF Resume, TicketGivenBack
  <2>4. /\ value' + Cardinality(granted') + InUse("in") =
               value + Cardinality(granted) + InUse("waiting")
        /\ inflight' + InUse("waiting") = inflight + InUse("in") /\ inflight' \in Nat
        /\ queued' + Ticket("waiting") = queued + Ticket("in") /\ queued' \in Nat
    BY <1>0, <1>p, <2>1, <2>2, <2>3
  <2> QED
    BY <1>0, <1>p, <2>2, <2>3, <2>4, Balances
<1>5. CASE Leave(r)
  <2>1. /\ granted' \in SUBSET Req /\ value' \in Nat /\ Cardinality(granted') \in Nat
        /\ value' + Cardinality(granted') = value + Cardinality(granted) + 1
    BY <1>0, <1>5, GiveBackKeeps DEF Leave, Release
  <2>2. /\ where' = [where EXCEPT ![r] = "out"] /\ where[r] = "in"
        /\ queued' = queued /\ inflight' = inflight - 1 /\ inflight > 0
    BY <1>5, WasCounted DEF Leave, Release
  <2>3. /\ value' + Cardinality(granted') + InUse("out") =
               value + Cardinality(granted) + InUse("in")
        /\ inflight' + InUse("in") = inflight + InUse("out") /\ inflight' \in Nat
        /\ queued' + Ticket("in") = queued + Ticket("out") /\ queued' \in Nat
    BY <1>0, <1>p, <2>1, <2>2
  <2> QED
    BY <1>0, <1>p, <2>1, <2>2, <2>3, Balances
<1>6. CASE Cancel(r)
  BY <1>0, <1>p, <1>6, Balances DEF Cancel
<1>7. CASE Unwind(r)
  <2>1. /\ granted \ {r} \in SUBSET Req /\ UnusedPermit(r) \in Nat
        /\ Cardinality(granted \ {r}) \in Nat
        /\ Cardinality(granted \ {r}) = Cardinality(granted) - UnusedPermit(r)
    BY <1>0, FS_Subset, FS_RemoveElement, FS_CardinalityType, LimitsAssumption
       DEF UnusedPermit, LimitsAssumption
  <2>2. /\ granted' \in SUBSET Req /\ value' \in Nat /\ Cardinality(granted') \in Nat
        /\ value' + Cardinality(granted') = value + UnusedPermit(r) + Cardinality(granted \ {r})
    BY <1>0, <1>7, <2>1, HandOutKeeps DEF Unwind
  <2>3. /\ where' = [where EXCEPT ![r] = "out"] /\ where[r] = "cancelled"
        /\ queued' = queued - 1 /\ queued > 0 /\ inflight' = inflight
    BY <1>7, WasCounted DEF Unwind, TicketGivenBack
  <2>4. value' + Cardinality(granted') = value + Cardinality(granted)
    BY <1>0, <2>1, <2>2
  <2>5. /\ value' + Cardinality(granted') + InUse("out") =
               value + Cardinality(granted) + InUse("cancelled")
        /\ inflight' + InUse("cancelled") = inflight + InUse("out") /\ inflight' \in Nat
        /\ queued' + Ticket("cancelled") = queued + Ticket("out") /\ queued' \in Nat
    BY <1>0, <1>p, <2>2, <2>3, <2>4
  <2> QED
    BY <1>0, <1>p, <2>2, <2>3, <2>5, Balances
<1>8. CASE Retry(r)
  BY <1>0, <1>p, <1>8, Balances DEF Retry
<1> QED
  BY <1>1, <1>2, <1>3, <1>4, <1>5, <1>6, <1>7, <1>8

LEMMA BooksInit == AdmissionInit => BooksKept
<1> SUFFICES ASSUME AdmissionInit PROVE BooksKept
  OBVIOUS
<1>1. Inside = {} /\ InQueue = {}
  BY DEF AdmissionInit, Inside, InQueue, At
<1> QED
  BY <1>1, FS_EmptySet, LimitsAssumption
     DEF AdmissionInit, BooksKept, PermitTypes, Books, LimitsAssumption, Places

LEMMA BooksStep == BooksKept /\ [AdmissionNext]_admission => BooksKept'
<1> SUFFICES ASSUME BooksKept, [AdmissionNext]_admission PROVE BooksKept'
  OBVIOUS
<1>1. CASE UNCHANGED admission
  BY <1>1 DEF admission, BooksKept, PermitTypes, Books, Inside, InQueue, At
<1> QED
  BY <1>1, AdmissionStep DEF AdmissionNext

-----------------------------------------------------------------------------
(* The queue                                                               *)

\* Whoever has a permit on its way came before all that have none.
InLine == \A q \in Idle(waiters, granted), r \in granted : ~ Before(waiters, q, r)

QueueInv ==
    /\ waiters \in Seq(Req)
    /\ QueueExact
    /\ InLine
    /\ value > 0 /\ Idle(waiters, granted) # {} => granted # {}

\* The step keeps the order of arrival.
InTurn ==
    \A r \in granted' \ granted, q \in Idle(waiters', granted') : Before(waiters', r, q)

LEMMA QueueTerms ==
    ASSUME NEW s \in Seq(Req)
    PROVE  /\ ToSet(s) = Members(s) /\ ToSet(s) \subseteq Req
           /\ s # <<>> => ToSet(s) # {}
           /\ \A x, y : Before(s, x, y) <=> Ahead(s, x, y)
<1>1. DOMAIN s = 1..Len(s) /\ Len(s) \in Nat
  BY LenProperties
<1>2. ToSet(s) = Members(s) /\ ToSet(s) \subseteq Req
  BY <1>1, QueueElements DEF ToSet, Members
<1>3. ASSUME s # <<>> PROVE s[1] \in Members(s)
  <2>1. Len(s) # 0
    BY <1>3, EmptySeq
  <2> QED BY <1>1, <2>1 DEF Members
<1>4. \A x, y : Before(s, x, y) <=> Ahead(s, x, y)
  BY DEF Before, Ahead
<1> QED BY <1>2, <1>3, <1>4

\* What deque.remove() leaves.
LEMMA WaiterGone ==
    ASSUME NEW s \in Seq(Req), Distinct(s), NEW r
    PROVE  /\ RemoveFirst(s, r) \in Seq(Req)
           /\ Distinct(RemoveFirst(s, r))
           /\ ToSet(RemoveFirst(s, r)) = ToSet(s) \ {r}
           /\ \A x, y : Before(RemoveFirst(s, r), x, y) => Before(s, x, y)
<1>1. /\ Len(s) \in Nat /\ ToSet(s) = Members(s)
      /\ \A x : x \in Members(s) <=> \E i \in 1..Len(s) : s[i] = x
  BY QueueElements, QueueTerms
<1>2. CASE r \notin ToSet(s)
  <2>1. RemoveFirst(s, r) = s
    BY <1>1, <1>2 DEF RemoveFirst
  <2> QED BY <1>2, <2>1
<1>3. CASE r \in ToSet(s)
  <2>1. PICK i \in 1..Len(s) : s[i] = r
    BY <1>1, <1>3
  <2>2. RemoveFirst(s, r) = Without(s, i)
    <3>1. {j \in 1..Len(s) : s[j] = r} = {i}
      BY <2>1 DEF Distinct
    <3>2. Min({i}) = i
      BY <1>1 DEF Min
    <3>3. SelectInSeq(s, LAMBDA v : v = r) = i
      BY <3>1, <3>2 DEF SelectInSeq
    <3>4. RemoveFirst(s, r) = RemoveAt(s, i)
      BY <2>1, <3>3 DEF RemoveFirst
    <3> QED BY <3>4 DEF RemoveAt, Without
  <2>3. /\ Without(s, i) \in Seq(Req)
        /\ Distinct(Without(s, i))
        /\ Members(Without(s, i)) = Members(s) \ {s[i]}
        /\ \A x, y : Ahead(Without(s, i), x, y) => Ahead(s, x, y)
    BY Departed
  <2>4. /\ ToSet(Without(s, i)) = Members(Without(s, i))
        /\ \A x, y : Before(Without(s, i), x, y) <=> Ahead(Without(s, i), x, y)
    BY <2>3, QueueTerms
  <2>5. \A x, y : Before(s, x, y) <=> Ahead(s, x, y)
    BY QueueTerms
  <2> QED BY <1>1, <2>1, <2>2, <2>3, <2>4, <2>5
<1> QED BY <1>2, <1>3

\* The callers a hand-over chooses, of a queue in which those with a permit come first.
LEMMA Handed ==
    ASSUME NEW s \in Seq(Req), Distinct(s), NEW out \in SUBSET Req, NEW n \in Nat,
           Hand(s, out, n),
           \A q \in Idle(s, out), r \in out : ~ Before(s, q, r)
    PROVE  /\ out \subseteq granted' /\ granted' \subseteq out \cup ToSet(s)
           /\ \A q \in Idle(s, granted'), r \in granted' : ~ Before(s, q, r)
           /\ \A r \in granted' \ out, q \in Idle(s, granted') : Before(s, r, q)
           /\ n > 0 => granted' # {}
           /\ n = Cardinality(Idle(s, out)) => Idle(s, granted') = {}
<1>1. PICK T \in SUBSET Idle(s, out) :
         /\ Cardinality(T) = n /\ granted' = out \cup T
         /\ \A r \in T, q \in Idle(s, out) \ T : Before(s, r, q)
  BY DEF Hand
<1>2. /\ IsFiniteSet(Idle(s, out)) /\ IsFiniteSet(T)
  BY FS_Subset, LimitsAssumption DEF LimitsAssumption, Idle
<1>3. Idle(s, granted') = Idle(s, out) \ T
  BY <1>1 DEF Idle
<1>4. T \subseteq ToSet(s) /\ T \cap out = {}
  BY DEF Idle
<1>5. \A r \in granted' \ out, q \in Idle(s, granted') : Before(s, r, q)
  BY <1>1, <1>3
<1>6. ASSUME NEW q \in Idle(s, granted'), NEW r \in granted'
      PROVE  ~ Before(s, q, r)
  <2>1. CASE r \in out
    BY <1>3, <2>1
  <2>2. CASE r \in T
    <3>1. Before(s, r, q)
      BY <1>1, <1>3, <2>2
    <3>2. Ahead(s, r, q) /\ (Before(s, q, r) <=> Ahead(s, q, r))
      BY <3>1, QueueTerms
    <3> QED BY <3>2, AheadIsStrict
  <2> QED BY <1>1, <2>1, <2>2
<1>7. n > 0 => granted' # {}
  <2>1. Cardinality(T) = n
    BY <1>1
  <2>2. T = {} => n = 0
    BY <2>1, FS_EmptySet
  <2> QED BY <1>1, <2>2
<1>8. n = Cardinality(Idle(s, out)) => Idle(s, granted') = {}
  <2>1. n = Cardinality(Idle(s, out)) => T = Idle(s, out)
    BY <1>1, <1>2, FS_Subset
  <2> QED BY <1>3, <2>1
<1>9. out \subseteq granted' /\ granted' \subseteq out \cup ToSet(s)
  BY <1>1, <1>4
<1> QED BY <1>5, <1>6, <1>7, <1>8, <1>9

\* The loop stops with permits left only when nobody is left to hand them to.
LEMMA HandedOut ==
    ASSUME NEW s \in Seq(Req), Distinct(s), NEW out \in SUBSET Req, NEW free \in Nat,
           HandOut(s, out, free),
           \A q \in Idle(s, out), r \in out : ~ Before(s, q, r)
    PROVE  /\ out \subseteq granted' /\ granted' \subseteq out \cup ToSet(s)
           /\ \A q \in Idle(s, granted'), r \in granted' : ~ Before(s, q, r)
           /\ \A r \in granted' \ out, q \in Idle(s, granted') : Before(s, r, q)
           /\ value' > 0 => Idle(s, granted') = {}
<1> DEFINE idle == Cardinality(Idle(s, out))
           n == IF free < idle THEN free ELSE idle
<1>1. idle \in Nat
  BY FS_Subset, FS_CardinalityType, LimitsAssumption DEF LimitsAssumption, Idle
<1>2. Hand(s, out, n) /\ value' = free - n
  BY DEF HandOut
<1> HIDE DEF idle
<1>3. n \in Nat /\ (free - n > 0 => n = idle)
  BY <1>1
<1> HIDE DEF n
<1>4. /\ out \subseteq granted' /\ granted' \subseteq out \cup ToSet(s)
      /\ \A q \in Idle(s, granted'), r \in granted' : ~ Before(s, q, r)
      /\ \A r \in granted' \ out, q \in Idle(s, granted') : Before(s, r, q)
      /\ n = idle => Idle(s, granted') = {}
  BY <1>2, <1>3, Handed DEF idle
<1> QED BY <1>2, <1>3, <1>4

\* The steps that hand permits out: a waiter resumes or unwinds, and is gone.
LEMMA QueueAfterHandOut ==
    ASSUME PermitTypes, QueueInv, NEW r \in Req, NEW free \in Nat,
           waiters' = RemoveFirst(waiters, r),
           HandOut(waiters', granted \ {r}, free),
           where[r] \in {"waiting", "cancelled"},
           \E place \in {"in", "out"} : where' = [where EXCEPT ![r] = place]
    PROVE  QueueInv' /\ InTurn
<1> DEFINE out == granted \ {r}
<1>0. /\ waiters \in Seq(Req) /\ Distinct(waiters) /\ granted \in SUBSET Req
      /\ ToSet(waiters) = At("waiting") \cup granted
      /\ granted \subseteq At("waiting") \cup At("cancelled")
  BY DEF QueueInv, QueueExact, Distinct, PermitTypes
<1>1. /\ waiters' \in Seq(Req) /\ Distinct(waiters')
      /\ ToSet(waiters') = ToSet(waiters) \ {r}
      /\ \A x, y : Before(waiters', x, y) => Before(waiters, x, y)
  BY <1>0, WaiterGone
<1>2. /\ At("waiting")' = At("waiting") \ {r} /\ At("cancelled")' = At("cancelled") \ {r}
  BY DEF PermitTypes, At
<1>3. Idle(waiters', out) \subseteq Idle(waiters, granted)
  BY <1>1 DEF Idle
<1>4. \A q \in Idle(waiters', out), x \in out : ~ Before(waiters', q, x)
  BY <1>1, <1>3 DEF QueueInv, InLine
<1>5. /\ out \subseteq granted' /\ granted' \subseteq out \cup ToSet(waiters')
      /\ \A q \in Idle(waiters', granted'), x \in granted' : ~ Before(waiters', q, x)
      /\ \A x \in granted' \ out, q \in Idle(waiters', granted') : Before(waiters', x, q)
      /\ value' > 0 => Idle(waiters', granted') = {}
  BY <1>0, <1>1, <1>4, HandedOut
<1>6. QueueExact'
  <2>1. ToSet(waiters') = At("waiting")' \cup granted'
    BY <1>0, <1>1, <1>2, <1>5
  <2>2. granted' \subseteq At("waiting")' \cup At("cancelled")'
    BY <1>0, <1>1, <1>2, <1>5
  <2> QED BY <1>1, <2>1, <2>2 DEF QueueExact, Distinct
<1>7. InLine'
  BY <1>5 DEF InLine
<1>8. value' > 0 /\ Idle(waiters, granted)' # {} => granted' # {}
  BY <1>5
<1>9. InTurn
  BY <1>5 DEF InTurn
<1> QED BY <1>1, <1>6, <1>7, <1>8, <1>9 DEF QueueInv

LEMMA QueueStep ==
    ASSUME PermitTypes, QueueInv, NEW r \in Req,
           \/ Shed(r) \/ Enter(r) \/ Wait(r) \/ Resume(r)
           \/ Leave(r) \/ Cancel(r) \/ Unwind(r) \/ Retry(r)
    PROVE  QueueInv' /\ InTurn
<1>0. /\ waiters \in Seq(Req) /\ Distinct(waiters) /\ granted \in SUBSET Req /\ value \in Nat
      /\ ToSet(waiters) = At("waiting") \cup granted
      /\ granted \subseteq At("waiting") \cup At("cancelled")
      /\ where \in [Req -> Places]
  BY DEF QueueInv, QueueExact, Distinct, PermitTypes
<1>1. CASE Shed(r) \/ Enter(r) \/ Retry(r)
  <2>1. UNCHANGED <<waiters, granted>> /\ value' \in Int /\ value' <= value
    BY <1>0, <1>1 DEF Shed, Enter, Retry
  <2>2. At("waiting")' = At("waiting") /\ At("cancelled")' = At("cancelled")
    BY <1>0, <1>1 DEF Shed, Enter, Retry, At
  <2>3. QueueExact'
    BY <2>1, <2>2 DEF QueueInv, QueueExact
  <2>4. value' > 0 /\ Idle(waiters, granted)' # {} => granted' # {}
    BY <1>0, <2>1 DEF QueueInv, Idle
  <2>5. InLine' /\ InTurn
    BY <2>1 DEF QueueInv, InLine, InTurn, Idle, Before
  <2> QED BY <1>0, <2>1, <2>3, <2>4, <2>5 DEF QueueInv
<1>2. CASE Wait(r)
  <2>1. /\ waiters' = Append(waiters, r) /\ UNCHANGED <<value, granted>>
        /\ where[r] = "out" /\ where' = [where EXCEPT ![r] = "waiting"]
        /\ value = 0 \/ waiters # <<>>
    BY <1>2 DEF Wait, Locked
  <2>2. r \notin ToSet(waiters) /\ r \notin granted
    BY <1>0, <2>1 DEF At
  <2>3. /\ waiters' \in Seq(Req) /\ Distinct(waiters')
        /\ ToSet(waiters') = ToSet(waiters) \cup {r}
        /\ \A x, y : Before(waiters', x, y) => x # r /\ (y = r \/ Before(waiters, x, y))
    <3>1. ToSet(waiters) = Members(waiters) /\ \A x, y : Before(waiters, x, y) <=> Ahead(waiters, x, y)
      BY <1>0, QueueTerms
    <3>2. /\ waiters' \in Seq(Req) /\ Distinct(waiters')
          /\ Members(waiters') = Members(waiters) \cup {r}
          /\ \A x, y : Ahead(waiters', x, y) => x # r /\ (y = r \/ Ahead(waiters, x, y))
      BY <1>0, <2>1, <2>2, <3>1, Joined
    <3>3. ToSet(waiters') = Members(waiters') /\ \A x, y : Before(waiters', x, y) <=> Ahead(waiters', x, y)
      BY <3>2, QueueTerms
    <3> QED BY <3>1, <3>2, <3>3
  <2>4. At("waiting")' = At("waiting") \cup {r} /\ At("cancelled")' = At("cancelled")
    BY <1>0, <2>1 DEF At
  <2>5. QueueExact'
    <3>1. ToSet(waiters') = At("waiting")' \cup granted'
      BY <1>0, <2>1, <2>3, <2>4
    <3>2. granted' \subseteq At("waiting")' \cup At("cancelled")'
      BY <1>0, <2>1, <2>4
    <3> QED BY <2>3, <3>1, <3>2 DEF QueueExact, Distinct
  <2>6. Idle(waiters', granted') \subseteq Idle(waiters, granted) \cup {r}
    BY <2>1, <2>3 DEF Idle
  <2>7. InLine'
    <3> SUFFICES ASSUME NEW q \in Idle(waiters', granted'), NEW x \in granted', Before(waiters', q, x)
                 PROVE  FALSE
      BY DEF InLine
    <3>1. q # r /\ x # r /\ Before(waiters, q, x) /\ x \in granted
      BY <2>1, <2>2, <2>3
    <3> QED BY <2>6, <3>1 DEF QueueInv, InLine
  <2>8. value' > 0 /\ Idle(waiters, granted)' # {} => granted' # {}
    <3>1. ASSUME value > 0, granted = {} PROVE FALSE
      <4>1. ToSet(waiters) # {}
        BY <1>0, <2>1, <3>1, QueueTerms
      <4>2. Idle(waiters, granted) # {}
        BY <1>0, <3>1, <4>1, QueueTerms DEF Idle
      <4> QED BY <3>1, <4>2 DEF QueueInv
    <3> QED BY <2>1, <3>1
  <2>9. InTurn
    BY <2>1 DEF InTurn
  <2> QED BY <2>3, <2>5, <2>7, <2>8, <2>9 DEF QueueInv
<1>3. CASE Resume(r)
  <2>1. /\ waiters' = RemoveFirst(waiters, r) /\ HandOut(waiters', granted \ {r}, value)
        /\ where[r] = "waiting" /\ where' = [where EXCEPT ![r] = "in"]
    BY <1>3 DEF Resume
  <2> QED BY <1>0, <2>1, QueueAfterHandOut
<1>4. CASE Unwind(r)
  <2>1. /\ waiters' = RemoveFirst(waiters, r)
        /\ HandOut(waiters', granted \ {r}, value + UnusedPermit(r))
        /\ where[r] = "cancelled" /\ where' = [where EXCEPT ![r] = "out"]
    BY <1>4 DEF Unwind
  <2>2. value + UnusedPermit(r) \in Nat
    BY <1>0 DEF UnusedPermit
  <2> QED BY <1>0, <2>1, <2>2, QueueAfterHandOut
<1>5. CASE Leave(r)
  <2>1. /\ where[r] = "in" /\ where' = [where EXCEPT ![r] = "out"]
        /\ waiters' = waiters /\ GiveBack
    BY <1>5 DEF Leave, Release
  <2>2. At("waiting")' = At("waiting") /\ At("cancelled")' = At("cancelled")
    BY <1>0, <2>1 DEF At
  <2>3. CASE Idle(waiters, granted) = {} /\ UNCHANGED granted
    <3>1. QueueExact'
      BY <2>1, <2>2, <2>3 DEF QueueInv, QueueExact
    <3>2. Idle(waiters', granted') = {}
      BY <2>1, <2>3
    <3>3. InLine' /\ InTurn
      BY <3>2 DEF InLine, InTurn
    <3> QED BY <1>0, <2>1, <3>1, <3>2, <3>3 DEF QueueInv
  <2>4. CASE Hand(waiters, granted, 1) /\ UNCHANGED value
    <3>1. /\ granted \subseteq granted' /\ granted' \subseteq granted \cup ToSet(waiters)
          /\ \A q \in Idle(waiters, granted'), x \in granted' : ~ Before(waiters, q, x)
          /\ \A x \in granted' \ granted, q \in Idle(waiters, granted') : Before(waiters, x, q)
          /\ granted' # {}
      <4>1. \A q \in Idle(waiters, granted), x \in granted : ~ Before(waiters, q, x)
        BY DEF QueueInv, InLine
      <4>2. 1 \in Nat /\ 1 > 0
        OBVIOUS
      <4> QED BY <1>0, <2>4, <4>1, <4>2, Handed
    <3>2. QueueExact'
      <4>1. ToSet(waiters') = At("waiting")' \cup granted'
        BY <1>0, <2>1, <2>2, <3>1
      <4>2. granted' \subseteq At("waiting")' \cup At("cancelled")'
        BY <1>0, <2>2, <3>1
      <4> QED BY <1>0, <2>1, <4>1, <4>2 DEF QueueExact, Distinct
    <3>3. InLine' /\ InTurn
      BY <2>1, <3>1 DEF InLine, InTurn
    <3> QED BY <1>0, <2>1, <3>1, <3>2, <3>3 DEF QueueInv
  <2> QED BY <2>1, <2>3, <2>4 DEF GiveBack
<1>6. CASE Cancel(r)
  <2>1. /\ where[r] = "waiting" /\ where' = [where EXCEPT ![r] = "cancelled"]
        /\ waiters' = IF r \in granted THEN waiters ELSE RemoveFirst(waiters, r)
        /\ UNCHANGED <<value, granted>>
    BY <1>6 DEF Cancel
  <2>2. /\ At("waiting")' = At("waiting") \ {r} /\ At("cancelled")' = At("cancelled") \cup {r}
    BY <1>0, <2>1 DEF At
  <2>3. /\ waiters' \in Seq(Req) /\ Distinct(waiters')
        /\ ToSet(waiters') = IF r \in granted THEN ToSet(waiters) ELSE ToSet(waiters) \ {r}
        /\ \A x, y : Before(waiters', x, y) => Before(waiters, x, y)
    BY <1>0, <2>1, WaiterGone
  <2>4. QueueExact'
    <3>1. ToSet(waiters') = At("waiting")' \cup granted'
      BY <1>0, <2>1, <2>2, <2>3
    <3>2. granted' \subseteq At("waiting")' \cup At("cancelled")'
      BY <1>0, <2>1, <2>2
    <3> QED BY <2>3, <3>1, <3>2 DEF QueueExact, Distinct
  <2>5. Idle(waiters', granted') \subseteq Idle(waiters, granted)
    BY <2>1, <2>3 DEF Idle
  <2>6. InLine' /\ InTurn
    BY <2>1, <2>3, <2>5 DEF QueueInv, InLine, InTurn
  <2>7. value' > 0 /\ Idle(waiters, granted)' # {} => granted' # {}
    BY <2>1, <2>5 DEF QueueInv
  <2> QED BY <2>3, <2>4, <2>6, <2>7 DEF QueueInv
<1> QED BY <1>1, <1>2, <1>3, <1>4, <1>5, <1>6

-----------------------------------------------------------------------------
(* The controller                                                          *)

AdmissionInv == BooksKept /\ QueueInv

\* The specification without its fairness, which safety does not need.
AdmissionSafety == AdmissionInit /\ [][AdmissionNext]_admission

LEMMA AdmissionStarts == AdmissionInit => AdmissionInv
<1> SUFFICES ASSUME AdmissionInit PROVE QueueInv
  BY BooksInit DEF AdmissionInv
<1>1. waiters = <<>> /\ granted = {} /\ At("waiting") = {}
  BY DEF AdmissionInit, At
<1>2. waiters \in Seq(Req) /\ Len(waiters) = 0
  BY <1>1, EmptySeq
<1>3. ToSet(waiters) = {} /\ \A i : i \notin 1..Len(waiters)
  <2>1. \A i : i \notin 1..Len(waiters)
    BY <1>2
  <2>2. Members(waiters) = {}
    BY <2>1 DEF Members
  <2> QED BY <1>2, <2>1, <2>2, QueueTerms
<1>4. QueueExact
  BY <1>1, <1>3 DEF QueueExact
<1>5. Idle(waiters, granted) = {}
  BY <1>3 DEF Idle
<1> QED BY <1>1, <1>2, <1>4, <1>5 DEF QueueInv, InLine

LEMMA AdmissionGoesOn == AdmissionInv /\ [AdmissionNext]_admission => AdmissionInv' /\ InTurn
<1> SUFFICES ASSUME AdmissionInv, [AdmissionNext]_admission PROVE QueueInv' /\ InTurn
  BY BooksStep DEF AdmissionInv
<1>1. CASE UNCHANGED admission
  <2>1. UNCHANGED <<value, waiters, granted, where>>
    BY <1>1 DEF admission
  <2>2. QueueExact' /\ InLine'
    BY <2>1 DEF AdmissionInv, QueueInv, QueueExact, InLine, At, Idle, Before
  <2>3. value' > 0 /\ Idle(waiters, granted)' # {} => granted' # {}
    BY <2>1 DEF AdmissionInv, QueueInv, Idle
  <2> QED BY <2>1, <2>2, <2>3 DEF AdmissionInv, QueueInv, InTurn
<1>2. CASE AdmissionNext
  BY <1>2, QueueStep DEF AdmissionNext, AdmissionInv, BooksKept
<1> QED BY <1>1, <1>2

LEMMA AdmissionHolds == AdmissionSafety => []AdmissionInv
BY AdmissionStarts, AdmissionGoesOn, PTL DEF AdmissionSafety

LEMMA SpecIsSafe == AdmissionSpec => AdmissionSafety
BY PTL DEF AdmissionSpec, AdmissionSafety

LEMMA AdmissionTypes == AdmissionInv => AdmissionTypeOK
<1> SUFFICES ASSUME AdmissionInv PROVE AdmissionTypeOK
  OBVIOUS
<1>1. /\ value \in Nat /\ granted \in SUBSET Req /\ queued \in Nat /\ inflight \in Nat
      /\ where \in [Req -> Places] /\ waiters \in Seq(Req)
      /\ value + Cardinality(granted) + Cardinality(Inside) = MaxInflight
      /\ inflight = Cardinality(Inside) /\ queued = Cardinality(InQueue)
  BY DEF AdmissionInv, BooksKept, PermitTypes, Books, QueueInv
<1>2. Inside \in SUBSET Req /\ InQueue \in SUBSET Req
  BY DEF Inside, InQueue, At
<1>3. /\ Cardinality(granted) \in Nat /\ Cardinality(Inside) \in Nat /\ Cardinality(Req) \in Nat
      /\ Cardinality(InQueue) <= Cardinality(Req)
  BY <1>1, <1>2, FS_Subset, FS_CardinalityType, LimitsAssumption DEF LimitsAssumption
<1>4. MaxInflight \in Nat
  BY LimitsAssumption DEF LimitsAssumption
<1>5. value \in 0..MaxInflight /\ inflight \in 0..MaxInflight
  BY <1>1, <1>3, <1>4
<1>6. queued \in 0..Cardinality(Req)
  BY <1>1, <1>3
<1> QED BY <1>1, <1>5, <1>6 DEF AdmissionTypeOK

LEMMA AdmissionImplies == AdmissionInv => PermitsConserved /\ CountersExact /\ QueueExact
BY BooksImply DEF AdmissionInv, QueueInv, PermitsConserved

\* Every variable of the controller has its type, the queue of waiters included.
THEOREM AdmissionTypeCorrect == AdmissionSpec => []AdmissionTypeOK
  BY SpecIsSafe, AdmissionHolds, AdmissionTypes, PTL

\* The queue holds exactly whoever waits or has a permit to pass on, each of them once.
THEOREM QueueIsExact == AdmissionSpec => []QueueExact
  BY SpecIsSafe, AdmissionHolds, AdmissionImplies, PTL

\* Each permit is free, on its way to a waiter, or in use, through releases,
\* hand-overs and cancelled waits; and a free one does not lie beside a waiter
\* unless somebody is on his way to hand it out.
THEOREM NoPermitIsLost == AdmissionSpec => []PermitsConserved
  BY SpecIsSafe, AdmissionHolds, AdmissionImplies, PTL

\* The counters that decide about shedding are the truth about the callers.
THEOREM CountersAreExact == AdmissionSpec => []CountersExact
  BY SpecIsSafe, AdmissionHolds, AdmissionImplies, PTL

LEMMA SheddingIsJust == AdmissionSafety => ShedJustified
<1>1. AdmissionInv /\ [AdmissionNext]_admission =>
          [\A r \in Req : where[r] = "out" /\ where'[r] = "shed" =>
              /\ Cardinality(At("in")) = MaxInflight
              /\ Cardinality(At("waiting")) + Cardinality(At("cancelled")) >= MaxQueued]_admission
  <2> SUFFICES ASSUME AdmissionInv, [AdmissionNext]_admission,
                      NEW r \in Req, where[r] = "out", where'[r] = "shed"
               PROVE  /\ Cardinality(At("in")) = MaxInflight
                      /\ Cardinality(At("waiting")) + Cardinality(At("cancelled")) >= MaxQueued
    OBVIOUS
  <2>0. BooksKept
    BY DEF AdmissionInv
  <2>1. Full
    BY <2>0 DEF AdmissionNext, admission, Shed, Enter, Wait, Resume, Leave, Cancel, Unwind,
                Retry, BooksKept, PermitTypes
  <2>2. /\ value + Cardinality(granted) + Cardinality(At("in")) = MaxInflight
        /\ inflight = Cardinality(At("in"))
        /\ queued = Cardinality(At("waiting")) + Cardinality(At("cancelled"))
    BY AdmissionImplies DEF PermitsConserved, CountersExact
  <2>3. Cardinality(granted) \in Nat /\ value \in Nat
    BY <2>0, FS_Subset, FS_CardinalityType, LimitsAssumption DEF LimitsAssumption, BooksKept, PermitTypes
  <2> QED
    BY <2>0, <2>1, <2>2, <2>3, LimitsAssumption DEF Full, LimitsAssumption, BooksKept, PermitTypes
<1> QED
  BY <1>1, AdmissionHolds, PTL DEF AdmissionSafety, ShedJustified

LEMMA PermitsGoInTurn == AdmissionSafety => NoOvertaking
<1>1. AdmissionInv /\ [AdmissionNext]_admission =>
          [/\ \A r \in Req : where[r] = "out" /\ where'[r] = "in" => waiters = <<>>
           /\ \A r \in granted' \ granted, q \in Idle(waiters', granted') :
                 Before(waiters', r, q)]_admission
  <2> SUFFICES ASSUME AdmissionInv, [AdmissionNext]_admission
               PROVE  /\ \A r \in Req : where[r] = "out" /\ where'[r] = "in" => waiters = <<>>
                      /\ InTurn
    BY DEF InTurn
  <2>1. ASSUME NEW r \in Req, where[r] = "out", where'[r] = "in"
        PROVE  waiters = <<>>
    BY <2>1 DEF AdmissionNext, admission, Shed, Enter, Wait, Resume, Leave, Cancel, Unwind,
                Retry, Locked, AdmissionInv, BooksKept, PermitTypes
  <2> QED BY <2>1, AdmissionGoesOn
<1> QED
  BY <1>1, AdmissionHolds, PTL DEF AdmissionSafety, NoOvertaking

\* Who is shed finds every permit in use and the queue full: the counters say
\* so, and no more permits can be in use than there are.
THEOREM NobodyIsShedInVain == AdmissionSpec => ShedJustified
  BY SpecIsSafe, SheddingIsJust, PTL

\* Who arrives takes a permit only when nobody waits for one, and the waiters
\* are handed theirs in the order they came.
THEOREM NobodyIsOvertaken == AdmissionSpec => NoOvertaking
  BY SpecIsSafe, PermitsGoInTurn, PTL

-----------------------------------------------------------------------------
(* What the handlers may conclude from the controller                      *)

\* Without answers that cannot be rendered, the outer handler finds the permit
\* still there.
FailedInside == \A r \in Req : pc[r] \in {"failed", "settling", "unleasing"} => where[r] = "in"

\* So the exception of Uses does not arise.
LEMMA FailedStaysInside ==
    ASSUME ~ RenderMayFail, Inv, FailedInside, [Next]_vars
    PROVE  FailedInside' /\ [AdmissionNext]_admission
<1>1. ASSUME NEW r \in Req, Arrive(r) \/ CancelWait(r) \/ Cut(r) \/ Serve(r)
      PROVE  FailedInside'
  <2>1. Only(r) /\ Admitted(r)'
    BY <1>1, RowKept DEF Kept
  <2>2. Inv => Admitted(r) /\ TypeOK
    BY DEF Inv
  <2>3. pc'[r] \in {"failed", "settling", "unleasing"} => where'[r] = "in"
    <3>1. CASE Arrive(r) \/ CancelWait(r) \/ GetPermit(r) \/ UnwindWait(r)
      BY <2>2, <3>1 DEF Arrive, CancelWait, GetPermit, UnwindWait, Cancel, Resume, Unwind,
                        Go, chat, TypeOK, Admitted, FailedInside
    <3>2. CASE LeaseRefused(r) \/ ReleasePermit(r)
      BY <2>2, <3>2 DEF LeaseRefused, ReleasePermit, Go, TypeOK
    <3>3. CASE \/ AttemptFails(r) \/ AttemptRefused(r) \/ AttemptAnswered(r)
               \/ StreamFails(r) \/ StreamReady(r)
      BY <2>2, <3>3 DEF AttemptFails, AttemptRefused, AttemptAnswered, StreamFails, StreamReady,
                        Raise, TryFallback, Go, TypeOK
    <3>4. CASE \/ TakeLease(r) \/ ReserveBudget(r) \/ QuotaFails(r) \/ RoutingFails(r)
               \/ StartCall(r) \/ BookkeepingFails(r) \/ SettleAnswer(r) \/ Respond(r)
               \/ StartBody(r) \/ ClientGone(r) \/ HandleUpstreamError(r)
               \/ ReleaseLease(r) \/ Fail(r) \/ FinalizeStream(r) \/ FinalizeFails(r) \/ Cut(r)
      <4>1. where' = where
        BY <3>4 DEF TakeLease, ReserveBudget, QuotaFails, RoutingFails, StartCall,
                    BookkeepingFails, SettleAnswer, Respond, StartBody, ClientGone,
                    HandleUpstreamError, ReleaseLease, Fail, FinalizeStream, FinalizeFails, Cut,
                    admission
      <4>2. pc'[r] \in {"failed", "settling", "unleasing"} =>
                pc[r] \in {"lease", "reserved", "calling", "upstream_error", "answered", "settled",
                           "closing", "streaming", "failed", "settling"}
        BY <2>2, <3>4 DEF TakeLease, ReserveBudget, QuotaFails, RoutingFails, StartCall,
                          BookkeepingFails, SettleAnswer, Respond, StartBody, ClientGone,
                          HandleUpstreamError, ReleaseLease, Fail, FinalizeStream, FinalizeFails,
                          Cut, Go, TypeOK
      <4> QED BY <2>2, <4>1, <4>2 DEF Admitted, FailedInside
    <3> QED BY <1>1, <3>1, <3>2, <3>3, <3>4 DEF Serve
  <2> QED BY <2>1, <2>3 DEF Only, FailedInside
<1>2. ASSUME StartDrain \/ UNCHANGED vars
      PROVE  FailedInside'
  BY <1>2 DEF StartDrain, vars, admission, chat, FailedInside
<1>3. [AdmissionNext]_admission
  BY StepOK DEF Uses, FailedInside, admission
<1> QED BY <1>1, <1>2, <1>3 DEF Next

LEMMA BooksBoundInside == BooksKept => InflightBounded
<1> SUFFICES ASSUME BooksKept PROVE InflightBounded
  OBVIOUS
<1>1. Inside = {r \in Req : where[r] = "in"}
  BY DEF Inside, At
<1>2. Cardinality(granted) \in Nat /\ Cardinality(Inside) \in Nat /\ value \in Nat
  BY FS_Subset, FS_CardinalityType, LimitsAssumption
     DEF LimitsAssumption, BooksKept, PermitTypes, Inside, At
<1>3. value + Cardinality(granted) + Cardinality(Inside) = MaxInflight
  BY DEF BooksKept, Books
<1> QED BY <1>1, <1>2, <1>3, LimitsAssumption DEF LimitsAssumption, InflightBounded

\* The chat handlers implement the controller as long as every answer can be
\* rendered: without the second release, each step of theirs is one of its own
\* or leaves it alone.
THEOREM HandlersImplementAdmission ==
    ASSUME ~ RenderMayFail
    PROVE  Spec => AdmissionInit /\ [][AdmissionNext]_admission
<1>1. Init => Inv /\ FailedInside /\ AdmissionInit
  BY InitOK DEF Init, FailedInside
<1>2. Inv /\ FailedInside /\ [Next]_vars => Inv' /\ FailedInside' /\ [AdmissionNext]_admission
  BY StepOK, FailedStaysInside
<1> QED BY <1>1, <1>2, PTL DEF Spec

LEMMA HandlersAreSafe ==
    ASSUME ~ RenderMayFail
    PROVE  Spec => AdmissionSafety
BY HandlersImplementAdmission DEF AdmissionSafety

\* So what the controller promises holds of the chat handlers: however requests
\* fail, are cancelled or stream, each permit is free, on its way to a waiter, or
\* with a handler that was given it, and the counters and the queue are right.  A
\* handler that was cut off counts as one that has its permit (LeaksAreExplained).
THEOREM HandlersKeepPermits ==
    ASSUME ~ RenderMayFail
    PROVE  Spec => [](PermitsConserved /\ CountersExact /\ QueueExact)
BY HandlersAreSafe, AdmissionHolds, AdmissionImplies, PTL

\* And nobody is shed or overtaken without cause.
THEOREM HandlersAreFair ==
    ASSUME ~ RenderMayFail
    PROVE  Spec => ShedJustified /\ NoOvertaking
BY HandlersAreSafe, SheddingIsJust, PermitsGoInTurn, PTL

\* docs/resilience.md on GATEWAY_MAX_INFLIGHT: "Max concurrent chat requests per
\* process".  The answer that cannot be rendered is its only exception.
THEOREM ChatIsBounded ==
    ASSUME ~ RenderMayFail
    PROVE  Spec => []InflightBounded
<1>1. AdmissionInv => InflightBounded
  BY BooksBoundInside DEF AdmissionInv
<1> QED BY <1>1, HandlersAreSafe, AdmissionHolds, PTL
=============================================================================

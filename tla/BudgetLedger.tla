----------------------------- MODULE BudgetLedger -----------------------------
(***************************************************************************)
(* What the budget guard promises of a scope, without its keys, counters,  *)
(* clocks and scripts: a ledger of the holds that stand, the holds that    *)
(* lapsed, and the bills of the open books.  Every decision is taken on    *)
(* the sums of what the ledger says, computed anew each time.  BudgetGuard *)
(* keeps these sums in counters, and implements this specification.        *)
(***************************************************************************)
EXTENDS Integers

CONSTANTS
    Req, Estimate, MaxCharge, Budget,
    Sum(_, _)  \* Sum(f, S) is the sum of f[r] over the r in S

VARIABLES
    status,  \* of each request: asking, holding (it may still be charged), over
    held,    \* the requests whose hold stands
    lapsed,  \* those whose hold lapsed, and who can still be charged
    bill     \* what each request was charged in these books

ledger == <<status, held, lapsed, bill>>

NoBill == [r \in Req |-> 0]

Move(r, from, to) == status[r] = from /\ status' = [status EXCEPT ![r] = to]

\* What any operation may find is due: the holds in H lapse, lapsed ones in F are
\* forgotten, and the books are closed.  `books` are the bills that count from here
\* on.
Fits(r, H, books) == Sum(books, Req) + Sum(Estimate, held \ H) + Estimate[r] <= Budget

\* Room is given only if there is room.  The holder may never learn of it.
Admit(r) ==
    /\ \E to \in {"holding", "over"} : Move(r, "asking", to)
    /\ \E H \in SUBSET held, F \in SUBSET lapsed, books \in {bill, NoBill} :
          /\ Fits(r, H, books)
          /\ held' = (held \ H) \cup {r}
          /\ lapsed' = (lapsed \ F) \cup H
          /\ bill' = books

\* Room is refused only if there is none.
Deny(r) ==
    /\ Move(r, "asking", "over")
    /\ \E H \in SUBSET held, F \in SUBSET lapsed, books \in {bill, NoBill} :
          /\ ~ Fits(r, H, books)
          /\ held' = held \ H
          /\ lapsed' = (lapsed \ F) \cup H
          /\ bill' = books

\* The ledger could not be asked.
Fail(r) == Move(r, "asking", "over") /\ UNCHANGED <<held, lapsed, bill>>

\* A request is charged once, for a hold that stands or lapsed.
Charge(r) ==
    /\ Move(r, "holding", "over")
    /\ \/ /\ r \in held \cup lapsed
          /\ held' = held \ {r}
          /\ lapsed' = lapsed \ {r}
          /\ \E cost \in 0..MaxCharge, books \in {bill, NoBill} :
                bill' = [books EXCEPT ![r] = cost]
       \/ UNCHANGED <<held, lapsed, bill>>

Lapse ==
    /\ \E H \in SUBSET held, F \in SUBSET lapsed :
          held' = held \ H /\ lapsed' = (lapsed \ F) \cup H
    /\ UNCHANGED <<status, bill>>

\* The ledger of an idle scope is thrown away.
Forget ==
    /\ held' = {} /\ lapsed' = {} /\ bill' = NoBill
    /\ UNCHANGED status

Init ==
    /\ status = [r \in Req |-> "asking"]
    /\ held = {} /\ lapsed = {}
    /\ bill = NoBill

Next ==
    \/ \E r \in Req : Admit(r) \/ Deny(r) \/ Fail(r) \/ Charge(r)
    \/ Lapse
    \/ Forget

Spec == Init /\ [][Next]_ledger
=============================================================================

--------------------------- MODULE McpSessionProofs ---------------------------
(***************************************************************************)
(* Theorems of McpSession, for every number of tool calls, operators and   *)
(* cancellations, and of identifiers and capabilities of the server.       *)
(***************************************************************************)
EXTENDS McpSession, TLAPS

Known == 1..issued

-----------------------------------------------------------------------------
(* The inductive invariant                                                 *)

\* Every identifier handed out names a session that was opened.
RootsKnown == \A id \in Known : root[id] \in Known

\* The session in an object has the expected capabilities.
ObjectsPinned ==
    \A o \in Actor : object[o] # Absent =>
        object[o] \in Known /\ opened[root[object[o]]] = Expected

\* The store, and a handler that holds one, have an object that was filled.
RefsFilled ==
    /\ stored # None => object[stored] # Absent
    /\ \A a \in Actor : ref[a] # None => object[ref[a]] # Absent

\* A handler that has not read its answer to initialize made no object.
NotYetMade ==
    \A a \in Actor : pc[a] \in {"new", "opening", "opened"} =>
        object[a] = Absent /\ sent[a] = Absent /\ reported[a] = Absent

\* A call was sent in the session of the object it holds, whatever that session is
\* called by now.
SentInRef ==
    \A a \in Tool : sent[a] # Absent =>
        /\ sent[a] \in Known
        /\ ref[a] # None
        /\ root[object[ref[a]]] = root[sent[a]]

\* What is on its way from the server.
AnswerFits ==
    \A a \in Actor :
        /\ pc[a] = "opened" => header[a] \in Known /\ root[header[a]] = header[a]
        /\ pc[a] = "notifying" => ref[a] # None /\ sent[a] = Absent /\ reported[a] = Absent
        /\ pc[a] \in {"calling", "answered"} =>
              a \in Tool /\ sent[a] # Absent /\ ref[a] # None
        /\ pc[a] = "answered" /\ header[a] # Absent =>
              header[a] \in Known /\ root[header[a]] = root[sent[a]]

ReportedKnown ==
    \A a \in Tool : reported[a] # Absent =>
        /\ reported[a] \in Known
        /\ sent[a] # Absent
        /\ root[reported[a]] = root[sent[a]]

SessionInv ==
    /\ TypeOK /\ RootsKnown /\ ObjectsPinned /\ RefsFilled /\ NotYetMade
    /\ SentInRef /\ AnswerFits /\ ReportedKnown

-----------------------------------------------------------------------------
(* The steps                                                               *)

LEMMA ConstantTypes ==
    /\ None \notin Actor /\ Expected \in Offers /\ MaxIds \in Nat
    /\ Tool \in SUBSET Actor /\ Absent = 0
    /\ \A a \in Tool : a \notin Opener /\ a \notin Canceller
BY McpAssumption DEF McpAssumption, Actor, Absent

\* A handler that only ends, or starts to wait for initialize.
LEMMA QuietStep ==
    ASSUME SessionInv, NEW a \in Actor,
           Refuse(a) \/ Initialize(a) \/ InitializeFails(a) \/ CallFails(a) \/ CancelAnswered(a)
    PROVE  SessionInv'
<1>1. /\ UNCHANGED <<gateway, answer, server, history>>
      /\ \E stage \in {"failed", "opening", "done", "deleting"} :
            /\ pc' = [pc EXCEPT ![a] = stage]
            /\ stage = "opening" => pc[a] = "new"
  BY DEF Refuse, Initialize, InitializeFails, CallFails, CancelAnswered, Go
<1> QED
  BY <1>1 DEF SessionInv, TypeOK, Stages, gateway, answer, server, history, RootsKnown,
     ObjectsPinned, RefsFilled, NotYetMade, SentInRef, AnswerFits, ReportedKnown, Known

\* A call is sent in the session of the object it holds.
LEMMA SendStep ==
    ASSUME SessionInv, NEW a \in Tool, NEW o \in Actor, SendTool(a, o),
           object[o] # Absent, reported[a] = Absent,
           UNCHANGED <<stored, object, answer, server, told, reported>>
    PROVE  SessionInv'
<1> USE ConstantTypes
<1>1. TypeOK'
  BY DEF SessionInv, TypeOK, SendTool, Go, Stages, answer, server, Ids, Absent
<1>2. RootsKnown' /\ ObjectsPinned' /\ RefsFilled' /\ NotYetMade'
  BY DEF SessionInv, TypeOK, SendTool, Go, answer, server, RootsKnown, ObjectsPinned, RefsFilled,
     NotYetMade, Known
<1>3. SentInRef' /\ AnswerFits' /\ ReportedKnown'
  BY DEF SessionInv, TypeOK, SendTool, Go, answer, server, ObjectsPinned,
     SentInRef, AnswerFits, ReportedKnown, Known
<1> QED
  BY <1>1, <1>2, <1>3 DEF SessionInv

LEMMA ReadInitializeStep ==
    ASSUME SessionInv, NEW a \in Actor, ReadInitialize(a)
    PROVE  SessionInv'
<1> USE ConstantTypes
<1>1. CASE Mismatch(header[a])
  BY <1>1 DEF SessionInv, TypeOK, ReadInitialize, Go, Stages, gateway, answer, server, history,
     RootsKnown, ObjectsPinned, RefsFilled, NotYetMade, SentInRef, AnswerFits, ReportedKnown, Known
<1>2. CASE ~ Mismatch(header[a])
  <2>1. /\ pc[a] = "opened" /\ pc' = [pc EXCEPT ![a] = "notifying"]
        /\ object' = [object EXCEPT ![a] = header[a]]
        /\ stored' = a /\ ref' = [ref EXCEPT ![a] = a]
        /\ UNCHANGED <<answer, server, history>>
    BY <1>2 DEF ReadInitialize, Go
  <2>2. /\ header[a] \in Known /\ root[header[a]] = header[a]
        /\ object[a] = Absent /\ sent[a] = Absent /\ reported[a] = Absent
    BY <2>1 DEF SessionInv, AnswerFits, NotYetMade
  <2>3. opened[root[header[a]]] = Expected /\ header[a] # Absent
    BY <1>2, <2>2 DEF Mismatch, Known, SessionInv, TypeOK
  <2>4. TypeOK'
    BY <2>1 DEF SessionInv, TypeOK, Stages, answer, server, history
  <2>5. RootsKnown' /\ ObjectsPinned' /\ RefsFilled' /\ NotYetMade'
    BY <2>1, <2>2, <2>3 DEF SessionInv, TypeOK, answer, server, history, RootsKnown,
       ObjectsPinned, RefsFilled, NotYetMade, Known
  <2>6. SentInRef' /\ AnswerFits' /\ ReportedKnown'
    BY <2>1, <2>2, <2>3 DEF SessionInv, TypeOK, answer, server, history, RefsFilled,
       SentInRef, AnswerFits, ReportedKnown, Known
  <2> QED
    BY <2>4, <2>5, <2>6 DEF SessionInv
<1> QED
  BY <1>1, <1>2

LEMMA NotifiedStep ==
    ASSUME SessionInv, NEW a \in Actor, Notified(a)
    PROVE  SessionInv'
<1> USE ConstantTypes
<1>1. CASE a \in Tool /\ SendTool(a, ref[a])
  <2>1. ref[a] \in Actor /\ object[ref[a]] # Absent /\ reported[a] = Absent
    BY DEF Notified, SessionInv, TypeOK, AnswerFits, RefsFilled
  <2>2. UNCHANGED <<stored, object, answer, server, told, reported>>
    BY DEF Notified
  <2> QED
    BY <1>1, <2>1, <2>2, SendStep
<1>2. CASE ~ (a \in Tool /\ SendTool(a, ref[a]))
  <2>1. /\ pc' = [pc EXCEPT ![a] = "done"]
        /\ UNCHANGED <<gateway, answer, server, history>>
    BY <1>2 DEF Notified, Go, gateway, history
  <2> QED
    BY <2>1 DEF SessionInv, TypeOK, Stages, gateway, answer, server, history, RootsKnown,
       ObjectsPinned, RefsFilled, NotYetMade, SentInRef, AnswerFits, ReportedKnown, Known
<1> QED
  BY <1>1, <1>2

\* Reading an answer may rename the session of the object the call holds; the
\* session stays the same.
LEMMA ReadAnswerStep ==
    ASSUME SessionInv, NEW a \in Actor, ReadAnswer(a)
    PROVE  SessionInv'
<1> USE ConstantTypes
<1>1. /\ pc[a] = "answered" /\ a \in Tool /\ sent[a] # Absent /\ sent[a] \in Known
      /\ ref[a] \in Actor /\ object[ref[a]] # Absent
      /\ root[object[ref[a]]] = root[sent[a]]
      /\ header[a] # Absent => header[a] \in Known /\ root[header[a]] = root[sent[a]]
  BY DEF ReadAnswer, SessionInv, TypeOK, AnswerFits, SentInRef, RefsFilled
<1> DEFINE id == IF Refreshes(a) THEN header[a] ELSE object[ref[a]]
<1>2. /\ id \in Known /\ id # Absent /\ root[id] = root[sent[a]]
      /\ opened[root[id]] = Expected
  BY <1>1 DEF Refreshes, SessionInv, ObjectsPinned
<1>3. object' = [object EXCEPT ![ref[a]] = id]
  BY <1>1 DEF ReadAnswer, Refreshes, Refresh, SessionInv, TypeOK
<1>4. /\ stored' = stored \/ stored' = ref[a]
      /\ UNCHANGED <<ref, answer, server, sent>>
      /\ told' = told \/ told' = told \cup {sent[a]}
      /\ \/ /\ reported' = [reported EXCEPT ![a] = id] /\ pc' = [pc EXCEPT ![a] = "done"]
         \/ reported' = reported /\ pc' = [pc EXCEPT ![a] = "failed"]
  BY <1>1, <1>3 DEF ReadAnswer, Refresh, Go, SessionInv, TypeOK
<1>5. \A o \in Actor : object'[o] = IF o = ref[a] THEN id ELSE object[o]
  BY <1>3 DEF SessionInv, TypeOK
<1> HIDE DEF id
<1>6. Known' = Known /\ Known \subseteq Ids
  BY <1>4 DEF Known, server, Ids, SessionInv, TypeOK
<1>7. TypeOK'
  BY <1>1, <1>2, <1>3, <1>4, <1>6 DEF SessionInv, TypeOK, Stages, answer, server
<1>8. RootsKnown' /\ ObjectsPinned' /\ RefsFilled' /\ NotYetMade'
  <2>1. RootsKnown'
    BY <1>4, <1>6 DEF SessionInv, RootsKnown, server
  <2>2. ObjectsPinned'
    BY <1>2, <1>4, <1>5, <1>6 DEF SessionInv, ObjectsPinned, server
  <2>3. RefsFilled'
    BY <1>1, <1>2, <1>4, <1>5 DEF SessionInv, RefsFilled, TypeOK
  <2>4. NotYetMade'
    <3>1. ASSUME NEW b \in Actor, pc'[b] \in {"new", "opening", "opened"}
          PROVE  object'[b] = Absent /\ sent'[b] = Absent /\ reported'[b] = Absent
      <4>1. b # a /\ pc[b] \in {"new", "opening", "opened"}
        BY <1>4, <3>1 DEF SessionInv, TypeOK
      <4>2. object[b] = Absent /\ sent[b] = Absent /\ reported[b] = Absent
        BY <4>1 DEF SessionInv, NotYetMade
      <4>3. b # ref[a]
        BY <1>1, <4>2
      <4> QED
        BY <1>4, <1>5, <4>1, <4>2, <4>3 DEF SessionInv, TypeOK
    <3> QED
      BY <3>1 DEF NotYetMade
  <2> QED
    BY <2>1, <2>2, <2>3, <2>4
<1>9. SentInRef'
  <2>1. ASSUME NEW b \in Tool, sent'[b] # Absent
        PROVE  /\ sent'[b] \in Known' /\ ref'[b] # None
               /\ root'[object'[ref'[b]]] = root'[sent'[b]]
    <3>1. /\ sent[b] \in Known /\ ref[b] \in Actor
          /\ root[object[ref[b]]] = root[sent[b]]
      BY <1>4, <2>1 DEF SessionInv, SentInRef, TypeOK
    <3> QED
      BY <1>1, <1>2, <1>4, <1>5, <1>6, <3>1 DEF server
  <2> QED
    BY <2>1 DEF SentInRef
<1>10. AnswerFits' /\ ReportedKnown'
  BY <1>1, <1>2, <1>4, <1>6 DEF SessionInv, TypeOK, AnswerFits, ReportedKnown, answer, server
<1> QED
  BY <1>7, <1>8, <1>9, <1>10 DEF SessionInv

LEMMA CancelStep ==
    ASSUME SessionInv, NEW a \in Actor, Cancel(a)
    PROVE  SessionInv'
<1> USE ConstantTypes
<1>1. /\ a \notin Tool /\ pc[a] = "new" /\ pc' = [pc EXCEPT ![a] = "cancelling"]
      /\ UNCHANGED <<gateway, answer, server, told, reported>>
      /\ \A b \in Tool : sent'[b] = sent[b]
      /\ \A b \in Actor \ {a} : sent'[b] = sent[b]
  BY DEF Cancel, Go, SessionInv, TypeOK
<1>2. TypeOK'
  <2>1. sent' \in [Actor -> {Absent} \cup Ids]
    BY DEF Cancel, SessionInv, TypeOK
  <2> QED
    BY <1>1, <2>1 DEF SessionInv, TypeOK, Stages, gateway, answer, server
<1>3. RootsKnown' /\ ObjectsPinned' /\ RefsFilled' /\ NotYetMade'
  BY <1>1 DEF SessionInv, TypeOK, gateway, answer, server, RootsKnown, ObjectsPinned,
     RefsFilled, NotYetMade, Known
<1>4. SentInRef' /\ AnswerFits' /\ ReportedKnown'
  BY <1>1 DEF SessionInv, TypeOK, gateway, answer, server, SentInRef, AnswerFits,
     ReportedKnown, Known
<1> QED
  BY <1>2, <1>3, <1>4 DEF SessionInv

\* Deleting, forgetting and upgrading change nothing the identifiers stand for.
LEMMA ServerStep ==
    ASSUME SessionInv,
           UNCHANGED <<gateway, answer, issued, root, opened, history>>,
           live' \subseteq live, offer' \in Offers,
           \/ pc' = pc
           \/ \E a \in Actor, stage \in {"done", "failed"} : pc' = [pc EXCEPT ![a] = stage]
    PROVE  SessionInv'
BY DEF SessionInv, TypeOK, Stages, gateway, answer, history, RootsKnown, ObjectsPinned, RefsFilled,
   NotYetMade, SentInRef, AnswerFits, ReportedKnown, Known

\* What the server does with a call it does not rename the session for.
LEMMA ServerReplies ==
    ASSUME SessionInv, NEW a \in Actor, ServerAnswers(a) \/ ServerRefuses(a)
    PROVE  SessionInv'
<1> USE ConstantTypes
<1>1. /\ pc[a] = "calling"
      /\ \/ header' = header /\ outcome' = outcome /\ pc' = [pc EXCEPT ![a] = "refused"]
         \/ /\ \E id \in {Absent, sent[a]} : header' = [header EXCEPT ![a] = id]
            /\ outcome' \in [Actor -> Outcomes]
            /\ pc' = [pc EXCEPT ![a] = "answered"]
      /\ UNCHANGED <<gateway, server, history>>
  BY DEF ServerAnswers, ServerRefuses, Go, answer, SessionInv, TypeOK
<1>2. a \in Tool /\ sent[a] # Absent /\ sent[a] \in Known /\ ref[a] # None
  BY <1>1 DEF SessionInv, AnswerFits, SentInRef
<1>3. TypeOK'
  BY <1>1 DEF SessionInv, TypeOK, Stages, gateway, server, history
<1>4. RootsKnown' /\ ObjectsPinned' /\ RefsFilled' /\ NotYetMade' /\ SentInRef' /\ ReportedKnown'
  BY <1>1 DEF SessionInv, TypeOK, gateway, server, history, RootsKnown, ObjectsPinned, RefsFilled,
     NotYetMade, SentInRef, ReportedKnown, Known
<1>5. AnswerFits'
  BY <1>1, <1>2 DEF SessionInv, TypeOK, gateway, server, history, AnswerFits, Known
<1> QED
  BY <1>3, <1>4, <1>5 DEF SessionInv

\* Handing out an identifier leaves the earlier ones as they are.
LEMMA IssueStep ==
    ASSUME SessionInv, NEW a \in Actor, NEW from \in {"opening", "calling"},
           NEW to \in {"opened", "answered"}, NEW what \in Offers, NEW base \in {Fresh, root[sent[a]]},
           pc[a] = from, pc' = [pc EXCEPT ![a] = to],
           from = "opening" => to = "opened" /\ base = Fresh,
           from = "calling" => to = "answered" /\ base = root[sent[a]],
           CanIssue, issued' = Fresh, live' \subseteq live \cup {Fresh},
           root' = [root EXCEPT ![Fresh] = base],
           opened' = [opened EXCEPT ![Fresh] = what],
           header' = [header EXCEPT ![a] = Fresh],
           outcome' \in [Actor -> Outcomes],
           UNCHANGED <<gateway, offer, history>>
    PROVE  SessionInv'
<1> USE ConstantTypes
<1>1. /\ Fresh \in Ids /\ Fresh \notin Known /\ Known' = Known \cup {Fresh}
      /\ Fresh # Absent /\ issued \in Nat /\ Known \subseteq Ids
  BY DEF Fresh, CanIssue, Ids, Known, SessionInv, TypeOK
<1>2. \A id \in Known : root[id] \in Known
  BY DEF SessionInv, RootsKnown
<1>3. \A id \in Known : /\ root'[id] = root[id]
                        /\ opened'[root'[id]] = opened[root[id]]
  BY <1>1, <1>2 DEF SessionInv, TypeOK
<1>4. from = "calling" => /\ a \in Tool /\ sent[a] # Absent /\ ref[a] # None
                          /\ sent[a] \in Known /\ base \in Known
  BY <1>2 DEF SessionInv, AnswerFits, SentInRef
<1>5. root'[Fresh] = base /\ base \in Known'
  BY <1>1, <1>4 DEF SessionInv, TypeOK
<1>6. TypeOK'
  <2>1. live' \subseteq 1..issued' /\ issued' \in 0..MaxIds
    BY <1>1 DEF SessionInv, TypeOK, Fresh, CanIssue
  <2>2. root' \in [Ids -> {Absent} \cup Ids]
    BY <1>1, <1>4 DEF SessionInv, TypeOK
  <2>3. pc' \in [Actor -> Stages]
    BY DEF SessionInv, TypeOK, Stages
  <2> QED
    BY <1>1, <2>1, <2>2, <2>3 DEF SessionInv, TypeOK, gateway, history
<1>7. RootsKnown'
  BY <1>1, <1>2, <1>3, <1>5 DEF RootsKnown
<1>8. ObjectsPinned'
  BY <1>1, <1>3 DEF SessionInv, ObjectsPinned, gateway
<1>9. RefsFilled' /\ NotYetMade'
  BY DEF SessionInv, TypeOK, RefsFilled, NotYetMade, gateway, history
<1>10. SentInRef'
  <2>1. \A b \in Tool : sent[b] # Absent => ref[b] \in Actor /\ object[ref[b]] # Absent
    BY DEF SessionInv, SentInRef, RefsFilled, TypeOK
  <2>2. \A b \in Tool : sent[b] # Absent => sent[b] \in Known /\ object[ref[b]] \in Known
    BY <2>1 DEF SessionInv, SentInRef, ObjectsPinned
  <2> QED
    BY <1>1, <1>3, <2>2 DEF SessionInv, SentInRef, gateway, history
<1>11. AnswerFits'
  <2> SUFFICES ASSUME NEW b \in Actor
               PROVE  /\ pc'[b] = "opened" => header'[b] \in Known' /\ root'[header'[b]] = header'[b]
                      /\ pc'[b] = "notifying" => ref[b] # None /\ sent[b] = Absent
                                                 /\ reported[b] = Absent
                      /\ pc'[b] \in {"calling", "answered"} =>
                            b \in Tool /\ sent[b] # Absent /\ ref[b] # None
                      /\ pc'[b] = "answered" /\ header'[b] # Absent =>
                            header'[b] \in Known' /\ root'[header'[b]] = root'[sent[b]]
    BY DEF AnswerFits, gateway, history
  <2>1. CASE b = a
    BY <1>1, <1>3, <1>4, <1>5, <2>1 DEF SessionInv, TypeOK
  <2>2. CASE b # a
    <3>1. pc'[b] = pc[b] /\ header'[b] = header[b]
      BY <2>2 DEF SessionInv, TypeOK
    <3>2. pc[b] = "answered" => sent[b] \in Known
      BY DEF SessionInv, AnswerFits, SentInRef
    <3> QED
      BY <1>1, <1>3, <3>1, <3>2 DEF SessionInv, AnswerFits
  <2> QED
    BY <2>1, <2>2
<1>12. ReportedKnown'
  <2>1. \A b \in Tool : reported[b] # Absent => sent[b] \in Known
    BY DEF SessionInv, ReportedKnown, SentInRef
  <2> QED
    BY <1>1, <1>3, <2>1 DEF SessionInv, ReportedKnown, history
<1> QED
  BY <1>6, <1>7, <1>8, <1>9, <1>10, <1>11, <1>12 DEF SessionInv

LEMMA SessionStep ==
    SessionInv /\ [Next]_vars => SessionInv'
<1> SUFFICES ASSUME SessionInv, [Next]_vars PROVE SessionInv'
  OBVIOUS
<1> USE ConstantTypes
<1>1. ASSUME NEW a \in Actor, CallInSession(a) PROVE SessionInv'
  <2>1. /\ a \in Tool /\ stored \in Actor /\ object[stored] # Absent /\ reported[a] = Absent
        /\ SendTool(a, stored)
        /\ UNCHANGED <<stored, object, answer, server, told, reported>>
    BY <1>1 DEF CallInSession, SessionInv, TypeOK, RefsFilled, NotYetMade
  <2> QED
    BY <2>1, SendStep
<1>2. ASSUME NEW a \in Actor, Delete(a) PROVE SessionInv'
  BY <1>2, ServerStep DEF Delete, Go, SessionInv, TypeOK
<1>3. ASSUME NEW a \in Actor, ServerOpens(a) PROVE SessionInv'
  <2>1. offer \in Offers /\ outcome' \in [Actor -> Outcomes]
    BY <1>3 DEF ServerOpens, SessionInv, TypeOK
  <2> QED
    BY <1>3, <2>1, IssueStep DEF ServerOpens, Go
<1>4. ASSUME NEW a \in Actor, ServerRenames(a) PROVE SessionInv'
  <2>1. /\ outcome' \in [Actor -> Outcomes]
        /\ live' \subseteq live \cup {Fresh}
    BY <1>4 DEF ServerRenames, SessionInv, TypeOK
  <2>2. Fresh \in Ids
    BY <1>4 DEF ServerRenames, CanIssue, Fresh, Ids, SessionInv, TypeOK
  <2>3. opened' = [opened EXCEPT ![Fresh] = opened[Fresh]] /\ opened[Fresh] \in Offers
    BY <1>4, <2>2 DEF ServerRenames, SessionInv, TypeOK
  <2> QED
    BY <1>4, <2>1, <2>3, IssueStep DEF ServerRenames, Go
<1>5. ASSUME NEW a \in Actor, Handle(a) PROVE SessionInv'
  BY <1>1, <1>2, <1>5, QuietStep, ReadInitializeStep, NotifiedStep, ReadAnswerStep, CancelStep
  DEF Handle
<1>6. ASSUME NEW a \in Actor, Serve(a) PROVE SessionInv'
  BY <1>3, <1>4, <1>6, ServerReplies DEF Serve
<1>7. ASSUME NEW id \in Ids, ServerForgets(id) PROVE SessionInv'
  BY <1>7, ServerStep DEF ServerForgets, SessionInv, TypeOK
<1>8. CASE ServerChanges
  BY <1>8, ServerStep DEF ServerChanges
<1>9. CASE UNCHANGED vars
  BY <1>9, ServerStep DEF vars, server, SessionInv, TypeOK
<1> QED
  BY <1>5, <1>6, <1>7, <1>8, <1>9 DEF Next

LEMMA SessionInvariant == Spec => []SessionInv
<1>1. Init => SessionInv
  BY ConstantTypes DEF Init, SessionInv, TypeOK, Stages, Outcomes, Ids, RootsKnown, ObjectsPinned,
     RefsFilled, NotYetMade, SentInRef, AnswerFits, ReportedKnown, Known
<1> QED
  BY <1>1, SessionStep, PTL DEF Spec

-----------------------------------------------------------------------------
(* The theorems                                                            *)

\* The objects, identifiers and handlers of the sessions (McpSessionStore) keep
\* their types through every rotation and cancellation.
THEOREM TypeCorrect == Spec => []TypeOK
BY SessionInvariant, PTL DEF SessionInv

\* No tool runs in a session whose capabilities differ from the configured digest.
THEOREM SessionsArePinned == Spec => []PinnedSession
<1>1. SessionInv => PinnedSession
  <2> SUFFICES ASSUME SessionInv, NEW a \in Tool, sent[a] # Absent
               PROVE  opened[root[sent[a]]] = Expected
    BY DEF PinnedSession
  <2>1. /\ ref[a] \in Actor /\ object[ref[a]] # Absent
        /\ root[object[ref[a]]] = root[sent[a]]
    BY ConstantTypes DEF SessionInv, SentInRef, RefsFilled, TypeOK
  <2> QED
    BY <2>1 DEF SessionInv, ObjectsPinned
<1> QED
  BY <1>1, SessionInvariant, PTL

\* The session that is reported and audited is the one the tool ran in.
THEOREM ReportsAreTrue == Spec => []ReportedSession
<1>1. SessionInv => ReportedSession
  BY DEF SessionInv, ReportedKnown, ReportedSession
<1> QED
  BY <1>1, SessionInvariant, PTL

-----------------------------------------------------------------------------
(* The names of a session                                                  *)

Over(a) == pc[a] \in {"done", "failed"}

\* The answer on its way to a handler has a name nobody has seen.
Introduces(a) ==
    \/ pc[a] = "opened"
    \/ pc[a] = "answered" /\ header[a] \notin {Absent, sent[a]}

NamesKnown == told \subseteq Known /\ \A a \in Actor : sent[a] \in {Absent} \cup Known

NewNamesUnused ==
    \A a \in Actor : Introduces(a) =>
        /\ header[a] \notin told
        /\ \A b \in Actor :
              /\ object[b] # header[a] /\ sent[b] # header[a]
              /\ b # a /\ Introduces(b) => header[b] # header[a]

NewRootsUnused ==
    \A a \in Actor : pc[a] = "opened" =>
        \A o \in Actor : object[o] # Absent => root[object[o]] # header[a]

\* A session, under whatever name, is in one object.
OneObject ==
    \A o, p \in Actor :
        object[o] # Absent /\ object[p] # Absent /\ root[object[o]] = root[object[p]] => o = p

\* Whose answer replaced a name, and whose brought it back.
Replaced == \A id \in told : \E b \in Tool : Over(b) /\ sent[b] = id /\ header[b] \notin {Absent, id}
BroughtBack ==
    \A o \in Actor : object[o] \in told =>
        \E b \in Tool : Over(b) /\ sent[b] = object[o] /\ header[b] = object[o]

NameInv == /\ NamesKnown /\ NewNamesUnused /\ NewRootsUnused /\ OneObject
           /\ Replaced /\ BroughtBack

\* What SessionInv says of the names.
LEMMA NameTypes ==
    ASSUME SessionInv
    PROVE  /\ pc \in [Actor -> Stages] /\ header \in [Actor -> {Absent} \cup Ids]
           /\ object \in [Actor -> {Absent} \cup Ids] /\ sent \in [Actor -> {Absent} \cup Ids]
           /\ issued \in Nat /\ Absent \notin Known /\ Known \subseteq Ids /\ Tool \subseteq Actor
           /\ root \in [Ids -> {Absent} \cup Ids]
           /\ \A id \in Known : root[id] \in Known
           /\ \A o \in Actor : object[o] # Absent => object[o] \in Known
           /\ \A a \in Actor : Introduces(a) => header[a] \in Known
<1> USE ConstantTypes
<1>1. \A a \in Actor : Introduces(a) => header[a] \in Known
  BY DEF SessionInv, AnswerFits, Introduces
<1>2. issued \in Nat /\ Absent \notin Known /\ Known \subseteq Ids
  BY DEF SessionInv, TypeOK, Known, Ids
<1> QED
  BY <1>1, <1>2 DEF SessionInv, TypeOK, RootsKnown, ObjectsPinned

\* A handler goes on, and may send a request in the session of some object.
LEMMA QuietNames ==
    ASSUME SessionInv, NameInv, NEW a \in Actor, ~ Over(a),
           NEW stage \in Stages \ {"opened", "answered"}, pc' = [pc EXCEPT ![a] = stage],
           \/ sent' = sent
           \/ \E id \in {Absent} \cup {object[o] : o \in Actor} : sent' = [sent EXCEPT ![a] = id],
           UNCHANGED <<object, header, told, root, issued>>
    PROVE  NameInv'
<1> USE NameTypes
<1>1. /\ \A b \in Actor \ {a} : pc'[b] = pc[b] /\ sent'[b] = sent[b]
      /\ pc'[a] = stage
      /\ sent'[a] \in {Absent, sent[a]} \cup {object[o] : o \in Actor}
  OBVIOUS
<1>2. \A b \in Actor : Introduces(b)' => b # a /\ Introduces(b)
  BY <1>1 DEF Introduces
<1>3. \A b \in Actor : Over(b) => Over(b)' /\ sent'[b] = sent[b]
  BY <1>1 DEF Over
<1>4. NamesKnown'
  BY <1>1 DEF NameInv, NamesKnown, Known
<1>5. NewNamesUnused'
  BY <1>1, <1>2 DEF NameInv, NewNamesUnused
<1>6. NewRootsUnused' /\ OneObject'
  BY <1>1 DEF NameInv, NewRootsUnused, OneObject
<1>7. Replaced' /\ BroughtBack'
  BY <1>3 DEF NameInv, Replaced, BroughtBack
<1> QED
  BY <1>4, <1>5, <1>6, <1>7 DEF NameInv

\* A session is opened, and its object made.
LEMMA OpenedNames ==
    ASSUME SessionInv, NameInv, NEW a \in Actor, ReadInitialize(a), ~ Mismatch(header[a])
    PROVE  NameInv'
<1> USE NameTypes
<1>1. /\ pc[a] = "opened" /\ pc' = [pc EXCEPT ![a] = "notifying"]
      /\ object' = [object EXCEPT ![a] = header[a]]
      /\ UNCHANGED <<header, root, issued, sent, told>>
      /\ header[a] \in Known /\ root[header[a]] = header[a] /\ Introduces(a)
  BY DEF ReadInitialize, Go, answer, server, history, Introduces, SessionInv, AnswerFits
<1>2. \A b \in Actor : /\ pc'[b] = IF b = a THEN "notifying" ELSE pc[b]
                       /\ object'[b] = IF b = a THEN header[a] ELSE object[b]
  BY <1>1
<1>3. \A b \in Actor : Introduces(b)' => b # a /\ Introduces(b)
  BY <1>1, <1>2 DEF Introduces
<1>4. \A b \in Actor : Over(b) => Over(b)'
  BY <1>1, <1>2 DEF Over
<1>5. NamesKnown'
  BY <1>1 DEF NameInv, NamesKnown, Known
<1>6. NewNamesUnused'
  BY <1>1, <1>2, <1>3 DEF NameInv, NewNamesUnused
<1>7. NewRootsUnused'
  <2> SUFFICES ASSUME NEW b \in Actor, NEW o \in Actor, pc'[b] = "opened", object'[o] # Absent
               PROVE  root[object'[o]] # header[b]
    BY <1>1 DEF NewRootsUnused
  <2>1. b # a /\ pc[b] = "opened" /\ Introduces(b)
    BY <1>2 DEF Introduces
  <2> QED
    BY <1>1, <1>2, <2>1 DEF NameInv, NewRootsUnused, NewNamesUnused
<1>8. OneObject'
  BY <1>1, <1>2 DEF NameInv, NewRootsUnused, OneObject
<1>9. Replaced' /\ BroughtBack'
  BY <1>1, <1>2, <1>4 DEF NameInv, Replaced, BroughtBack, NewNamesUnused
<1> QED
  BY <1>5, <1>6, <1>7, <1>8, <1>9 DEF NameInv

\* An answer is read: it renames the session of the one object that has it, brings
\* back the name it was sent with, or says nothing.
LEMMA AnsweredNames ==
    ASSUME SessionInv, NameInv, NEW a \in Actor, ReadAnswer(a)
    PROVE  NameInv'
<1> USE NameTypes
<1>1. /\ pc[a] = "answered" /\ a \in Tool /\ sent[a] # Absent /\ sent[a] \in Known
      /\ ref[a] \in Actor /\ object[ref[a]] # Absent
      /\ root[object[ref[a]]] = root[sent[a]]
      /\ header[a] # Absent => header[a] \in Known /\ root[header[a]] = root[sent[a]]
  BY ConstantTypes DEF ReadAnswer, SessionInv, TypeOK, AnswerFits, SentInRef, RefsFilled
<1>2. /\ UNCHANGED <<header, root, issued, sent>>
      /\ \E stage \in {"done", "failed"} : pc' = [pc EXCEPT ![a] = stage]
  BY DEF ReadAnswer, Go, answer, server
<1>3. /\ \A b \in Actor \ {a} : pc'[b] = pc[b]
      /\ Over(a)' /\ ~ Over(a) /\ ~ Introduces(a)'
  BY <1>1, <1>2 DEF Over, Introduces
<1>4. /\ \A b \in Actor : Introduces(b)' => b # a /\ Introduces(b)
      /\ \A b \in Actor : Over(b) => Over(b)'
      /\ NamesKnown'
  <2>1. \A b \in Actor : Introduces(b)' => b # a /\ Introduces(b)
    BY <1>2, <1>3 DEF Introduces
  <2>2. \A b \in Actor : Over(b) => Over(b)'
    BY <1>3 DEF Over
  <2>3. NamesKnown'
    BY <1>1, <1>2 DEF ReadAnswer, NameInv, NamesKnown, Known
  <2> QED
    BY <2>1, <2>2, <2>3
<1>5. \A b \in Actor : pc'[b] = "opened" => pc[b] = "opened" /\ Introduces(b)
  BY <1>1, <1>2 DEF Introduces
\* The object keeps its session, so the other objects have other sessions.
<1>6. ASSUME NEW id \in Known, object' = [object EXCEPT ![ref[a]] = id], root[id] = root[sent[a]]
      PROVE  NewRootsUnused' /\ OneObject'
  <2>1. \A o \in Actor : /\ object'[o] = Absent <=> object[o] = Absent
                         /\ object'[o] # Absent => root[object'[o]] = root[object[o]]
    BY <1>1, <1>6
  <2> QED
    BY <1>2, <1>5, <2>1 DEF NameInv, NewRootsUnused, OneObject
<1>7. CASE UNCHANGED <<object, told>>
  <2>1. NewNamesUnused'
    BY <1>2, <1>4, <1>7 DEF NameInv, NewNamesUnused
  <2>2. NewRootsUnused' /\ OneObject'
    BY <1>2, <1>5, <1>7 DEF NameInv, NewRootsUnused, OneObject
  <2>3. Replaced' /\ BroughtBack'
    BY <1>2, <1>4, <1>7 DEF NameInv, Replaced, BroughtBack
  <2> QED
    BY <1>4, <2>1, <2>2, <2>3 DEF NameInv
<1>8. CASE object' = [object EXCEPT ![ref[a]] = header[a]] /\ header[a] = sent[a] /\ told' = told
  <2>1. \A o \in Actor : object'[o] = IF o = ref[a] THEN sent[a] ELSE object[o]
    BY <1>8
  <2>2. NewNamesUnused'
    BY <1>2, <1>4, <1>8, <2>1 DEF NameInv, NewNamesUnused
  <2>3. NewRootsUnused' /\ OneObject'
    BY <1>1, <1>6, <1>8
  <2>4. Replaced'
    BY <1>2, <1>4, <1>8 DEF NameInv, Replaced
  <2>5. BroughtBack'
    BY <1>1, <1>2, <1>3, <1>4, <1>8, <2>1 DEF NameInv, BroughtBack
  <2> QED
    BY <1>4, <2>2, <2>3, <2>4, <2>5 DEF NameInv
<1>9. CASE /\ object' = [object EXCEPT ![ref[a]] = header[a]]
           /\ header[a] \notin {Absent, sent[a]}
           /\ told' = told \cup {sent[a]}
  <2>1. \A o \in Actor : object'[o] = IF o = ref[a] THEN header[a] ELSE object[o]
    BY <1>9
  <2>2. Introduces(a)
    BY <1>1, <1>9 DEF Introduces
  <2>3. \A b \in Actor : Introduces(b)' => header[b] # sent[a] /\ header[b] # header[a]
    BY <1>4, <2>2 DEF NameInv, NewNamesUnused
  <2>4. NewNamesUnused'
    BY <1>2, <1>4, <1>9, <2>1, <2>3 DEF NameInv, NewNamesUnused
  <2>5. NewRootsUnused' /\ OneObject'
    BY <1>1, <1>6, <1>9
  <2>6. Replaced'
    BY <1>1, <1>2, <1>3, <1>4, <1>9 DEF NameInv, Replaced
  <2>7. BroughtBack'
    <3> SUFFICES ASSUME NEW o \in Actor, object'[o] \in told'
                 PROVE  \E b \in Tool : Over(b)' /\ sent[b] = object'[o] /\ header[b] = object'[o]
      BY <1>2 DEF BroughtBack
    <3>1. o # ref[a]
      BY <1>9, <2>1, <2>2 DEF NameInv, NewNamesUnused
    <3>2. object[o] # sent[a]
      BY <1>1, <3>1 DEF NameInv, OneObject
    <3>3. object'[o] = object[o] /\ object[o] \in told
      BY <1>9, <2>1, <3>1, <3>2
    <3> QED
      BY <1>4, <3>3 DEF NameInv, BroughtBack
  <2> QED
    BY <1>4, <2>4, <2>5, <2>6, <2>7 DEF NameInv
<1> QED
  BY <1>1, <1>7, <1>8, <1>9 DEF ReadAnswer, Refreshes, Refresh

\* The server opens a session or gives one another name.
LEMMA IssuedNames ==
    ASSUME SessionInv, NameInv, NEW a \in Actor, ~ Over(a), CanIssue, NEW base \in Ids,
           \/ pc' = [pc EXCEPT ![a] = "opened"]
           \/ pc' = [pc EXCEPT ![a] = "answered"],
           issued' = Fresh, root' = [root EXCEPT ![Fresh] = base],
           header' = [header EXCEPT ![a] = Fresh],
           UNCHANGED <<object, sent, told>>
    PROVE  NameInv'
<1> USE NameTypes
<1>1. /\ Fresh \notin Known /\ Fresh # Absent /\ Known' = Known \cup {Fresh}
      /\ \A id \in Known : root'[id] = root[id]
  BY ConstantTypes DEF Fresh, CanIssue, Known, Ids
<1>2. /\ \A b \in Actor \ {a} : pc'[b] = pc[b] /\ header'[b] = header[b]
      /\ header'[a] = Fresh
  OBVIOUS
<1>3. \A b \in Actor \ {a} : /\ Introduces(b)' <=> Introduces(b)
                             /\ Introduces(b) => header[b] # Fresh
  BY <1>1, <1>2 DEF Introduces
<1>4. NamesKnown'
  BY <1>1 DEF NameInv, NamesKnown
<1>5. NewNamesUnused'
  BY <1>1, <1>2, <1>3 DEF NameInv, NewNamesUnused, NamesKnown
<1>6. NewRootsUnused'
  <2> SUFFICES ASSUME NEW b \in Actor, NEW o \in Actor, pc'[b] = "opened", object[o] # Absent
               PROVE  root'[object[o]] # header'[b]
    BY DEF NewRootsUnused
  <2>1. object[o] \in Known /\ root'[object[o]] = root[object[o]] /\ root[object[o]] \in Known
    BY <1>1
  <2> QED
    BY <1>1, <1>2, <2>1 DEF NameInv, NewRootsUnused
<1>7. OneObject'
  BY <1>1 DEF NameInv, OneObject
<1>8. \A b \in Actor : Over(b) => b # a /\ Over(b)' /\ header'[b] = header[b]
  BY <1>2 DEF Over
<1>9. Replaced' /\ BroughtBack'
  BY <1>8 DEF NameInv, Replaced, BroughtBack
<1> QED
  BY <1>4, <1>5, <1>6, <1>7, <1>9 DEF NameInv

\* The server answers a call under the name it knows.
LEMMA RepliedNames ==
    ASSUME SessionInv, NameInv, NEW a \in Actor, ServerAnswers(a)
    PROVE  NameInv'
<1> USE NameTypes
<1>1. /\ pc[a] = "calling" /\ pc' = [pc EXCEPT ![a] = "answered"]
      /\ header'[a] \in {Absent, sent[a]}
      /\ \A b \in Actor \ {a} : header'[b] = header[b] /\ pc'[b] = pc[b]
      /\ UNCHANGED <<object, sent, told, root, issued>>
  BY DEF ServerAnswers, Go, gateway, server, history
<1>2. /\ \A b \in Actor : Introduces(b)' => b # a /\ Introduces(b)
      /\ \A b \in Actor : Over(b) => b # a /\ Over(b)' /\ header'[b] = header[b]
  BY <1>1 DEF Introduces, Over
<1>3. NamesKnown' /\ OneObject'
  BY <1>1 DEF NameInv, NamesKnown, OneObject, Known
<1>4. NewNamesUnused'
  BY <1>1, <1>2 DEF NameInv, NewNamesUnused
<1>5. NewRootsUnused'
  BY <1>1 DEF NameInv, NewRootsUnused
<1>6. Replaced' /\ BroughtBack'
  BY <1>1, <1>2 DEF NameInv, Replaced, BroughtBack
<1> QED
  BY <1>3, <1>4, <1>5, <1>6 DEF NameInv

LEMMA NameStep == SessionInv /\ NameInv /\ [Next]_vars => NameInv'
<1> SUFFICES ASSUME SessionInv, NameInv, [Next]_vars PROVE NameInv'
  OBVIOUS
<1> USE ConstantTypes
<1>1. ASSUME NEW a \in Actor,
             Refuse(a) \/ Initialize(a) \/ InitializeFails(a) \/ CallFails(a) \/ CancelAnswered(a)
             \/ Delete(a) \/ ServerRefuses(a)
      PROVE  NameInv'
  <2>1. /\ ~ Over(a)
        /\ \E stage \in Stages \ {"opened", "answered"} : pc' = [pc EXCEPT ![a] = stage]
        /\ UNCHANGED <<object, header, told, root, issued, sent>>
    BY <1>1 DEF Refuse, Initialize, InitializeFails, CallFails, CancelAnswered, Delete,
       ServerRefuses, Go, Over, Stages, gateway, answer, server, history
  <2> QED
    BY <2>1, QuietNames
<1>2. ASSUME NEW a \in Actor, CallInSession(a) \/ Notified(a) \/ Cancel(a)
      PROVE  NameInv'
  <2>1. /\ ~ Over(a)
        /\ \E stage \in Stages \ {"opened", "answered"} : pc' = [pc EXCEPT ![a] = stage]
        /\ UNCHANGED <<object, header, told, root, issued>>
    BY <1>2 DEF CallInSession, Notified, Cancel, SendTool, Go, Over, Stages, gateway, answer, server
  <2>2. \/ sent' = sent
        \/ \E id \in {Absent} \cup {object[o] : o \in Actor} : sent' = [sent EXCEPT ![a] = id]
    <3>1. CASE CallInSession(a)
      BY <3>1 DEF CallInSession, SendTool, SessionInv, TypeOK
    <3>2. CASE Notified(a)
      <4>1. pc[a] = "notifying" => ref[a] \in Actor
        BY DEF SessionInv, AnswerFits, TypeOK
      <4> QED
        BY <3>2, <4>1 DEF Notified, SendTool
    <3>3. CASE Cancel(a)
      BY <3>3 DEF Cancel, SessionInv, TypeOK
    <3> QED
      BY <1>2, <3>1, <3>2, <3>3
  <2> QED
    BY <2>1, <2>2, QuietNames
<1>3. ASSUME NEW a \in Actor, ReadInitialize(a) PROVE NameInv'
  <2>1. CASE Mismatch(header[a])
    <3>1. /\ ~ Over(a) /\ pc' = [pc EXCEPT ![a] = "failed"]
          /\ "failed" \in Stages \ {"opened", "answered"}
          /\ UNCHANGED <<object, header, told, root, issued, sent>>
      BY <1>3, <2>1 DEF ReadInitialize, Go, Over, Stages, gateway, answer, server, history
    <3> QED
      BY <3>1, QuietNames
  <2> QED
    BY <1>3, <2>1, OpenedNames
<1>4. ASSUME NEW a \in Actor, ServerOpens(a) PROVE NameInv'
  <2>1. ~ Over(a) /\ Fresh \in Ids
    BY <1>4 DEF ServerOpens, CanIssue, Fresh, Ids, Over, SessionInv, TypeOK
  <2> QED
    BY <1>4, <2>1, IssuedNames DEF ServerOpens, Go, gateway, history
<1>5. ASSUME NEW a \in Actor, ServerRenames(a) PROVE NameInv'
  <2>1. ~ Over(a) /\ sent[a] \in Known
    BY <1>5 DEF ServerRenames, Over, SessionInv, TypeOK, Known
  <2>2. root[sent[a]] \in Ids
    BY <2>1, NameTypes
  <2> QED
    BY <1>5, <2>1, <2>2, IssuedNames DEF ServerRenames, Go, gateway, history
<1>6. CASE UNCHANGED <<pc, object, header, told, root, issued, sent>>
  BY <1>6 DEF NameInv, NamesKnown, NewNamesUnused, NewRootsUnused, OneObject, Replaced,
     BroughtBack, Over, Introduces, Known
<1>7. ASSUME NEW a \in Actor, Handle(a) \/ Serve(a) PROVE NameInv'
  BY <1>1, <1>2, <1>3, <1>4, <1>5, <1>7, AnsweredNames, RepliedNames DEF Handle, Serve
<1>8. CASE UNCHANGED vars \/ ServerChanges \/ \E id \in Ids : ServerForgets(id)
  BY <1>6, <1>8 DEF vars, ServerChanges, ServerForgets, gateway, answer, server, history
<1> QED
  BY <1>7, <1>8 DEF Next

\* An old name is in an object only when the answer that brought it back was read
\* after another had replaced it.
THEOREM NamesAreFollowed == Spec => []FollowsRenaming
<1>1. Init => NameInv
  BY ConstantTypes DEF Init, NameInv, NamesKnown, NewNamesUnused, NewRootsUnused, OneObject,
     Replaced, BroughtBack, Over, Introduces, Known
<1>2. SessionInv /\ NameInv => FollowsRenaming
  BY ConstantTypes DEF NameInv, Replaced, BroughtBack, FollowsRenaming
<1> QED
  BY <1>1, <1>2, NameStep, SessionInvariant, PTL DEF Spec
=============================================================================

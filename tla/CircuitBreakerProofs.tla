------------------------ MODULE CircuitBreakerProofs ------------------------
(***************************************************************************)
(* For every number of requests, backends and probes and every threshold:  *)
(* a circuit is closed exactly while the run of failures is short, the     *)
(* calls on trial are bounded, and no plain call goes to an open circuit.  *)
(*                                                                         *)
(* A step of the model changes the books several times in a row: an        *)
(* outcome is recorded, then allow() is asked for the next backend.  So    *)
(* the invariant of the books is stated of any books `cs` (Sound), with    *)
(* what they may be relative to those before the step (Follows); each      *)
(* method of the breaker keeps both, and each step ends in one of two      *)
(* ways, with a call sent or without.                                      *)
(***************************************************************************)
EXTENDS CircuitBreaker, FiniteSetTheorems, TLAPS

\* The books of one backend against its history.
Book(c, run) ==
    /\ c.state = "CLOSED" => c.failures = run /\ run < Threshold
    /\ c.state # "CLOSED" => run = Threshold /\ c.opened # "never"
    /\ c.state = "HALF_OPEN" => c.probes <= MaxProbes

Sound(cs, runs) == cs \in [Backend -> Circuit] /\ \A b \in Backend : Book(cs[b], runs[b])

\* Books a step may reach: a circuit that was half open and still is has no fewer
\* probes, and one that was and is open now has its cool-down before it.
Follows(cs) ==
    \A b \in Backend : circuit[b].state = "HALF_OPEN" =>
        /\ cs[b].state = "HALF_OPEN" => cs[b].probes >= circuit[b].probes
        /\ cs[b].state = "OPEN" => cs[b].opened = "cooling"

Requests ==
    /\ pc \in [Req -> Places]
    /\ target \in [Req -> Backend \cup {None}]
    /\ fallback \in [Req -> Backend \cup {None}]
    /\ \A r \in Req : pc[r] # "idle" => target[r] \in Backend

Trial(b) == {r \in probing : target[r] = b}

Trials ==
    /\ probing \subseteq Req
    /\ \A r \in probing : pc[r] = "calling" /\ circuit[target[r]].state = "HALF_OPEN"
    /\ \A b \in Backend : circuit[b].state = "HALF_OPEN" =>
          Cardinality(Trial(b)) <= circuit[b].probes

Inv ==
    /\ Sound(circuit, streak)
    /\ streak \in [Backend -> 0..Threshold]
    /\ Requests
    /\ Trials

\* What NoCallWhileOpen says of a step.
Guarded ==
    \A r \in Req :
        pc'[r] = "calling" /\ (pc[r] # "calling" \/ target'[r] # target[r]) =>
            circuit'[target'[r]].state # "OPEN"

-----------------------------------------------------------------------------
(* The methods of the breaker                                              *)

LEMMA TakenFollows ==
    ASSUME NEW cs, NEW runs, NEW b \in Backend,
           circuit \in [Backend -> Circuit], Sound(cs, runs), Allows(cs, b), Follows(cs)
    PROVE  Sound(Taken(cs, b), runs) /\ Follows(Taken(cs, b))
<1>1. CASE cs[b].state = "OPEN" /\ cs[b].opened = "cooled"
  <2>1. Taken(cs, b) = [cs EXCEPT ![b].state = "HALF_OPEN", ![b].probes = 1]
    BY <1>1 DEF Taken
  <2>2. cs[b] \in Circuit /\ Book(cs[b], runs[b]) /\ cs \in [Backend -> Circuit]
    BY DEF Sound
  <2> DEFINE c == [cs[b] EXCEPT !.state = "HALF_OPEN", !.probes = 1]
  <2>3. c \in Circuit /\ Book(c, runs[b]) /\ c.state = "HALF_OPEN"
    <3>1. c.state = "HALF_OPEN" /\ c.probes = 1 /\ c.opened = "cooled" /\ c.failures = cs[b].failures
      BY <1>1, <2>2 DEF Circuit
    <3>2. c \in Circuit
      BY <2>2 DEF Circuit
    <3>3. runs[b] = Threshold /\ 1 <= MaxProbes
      BY <1>1, <2>2, CircuitAssumption DEF Book
    <3> QED BY <3>1, <3>2, <3>3 DEF Book
  <2>4. circuit[b].state # "HALF_OPEN"
    BY <1>1 DEF Follows
  <2>5. Taken(cs, b) = [cs EXCEPT ![b] = c]
    BY <2>1, <2>2
  <2> HIDE DEF c
  <2> QED BY <2>2, <2>3, <2>4, <2>5 DEF Sound, Follows
<1>2. CASE cs[b].state = "HALF_OPEN"
  <2>1. Taken(cs, b) = [cs EXCEPT ![b].probes = @ + 1]
    BY <1>2 DEF Taken
  <2>2. /\ cs[b].probes < MaxProbes
        /\ cs[b] \in Circuit /\ Book(cs[b], runs[b]) /\ cs \in [Backend -> Circuit]
    BY <1>2 DEF Allows, Sound
  <2> DEFINE c == [cs[b] EXCEPT !.probes = @ + 1]
  <2>3. c \in Circuit /\ Book(c, runs[b]) /\ c.state = "HALF_OPEN" /\ c.probes = cs[b].probes + 1
    BY <1>2, <2>2, CircuitAssumption DEF Book, Circuit
  <2>4. circuit[b].state = "HALF_OPEN" => cs[b].probes >= circuit[b].probes
    BY <1>2 DEF Follows
  <2>5. circuit[b].state = "HALF_OPEN" => c.probes >= circuit[b].probes
    <3>1. cs[b].probes \in Nat /\ circuit[b].probes \in Nat
      BY <2>2 DEF Circuit
    <3> QED BY <2>3, <2>4, <3>1
  <2>6. Taken(cs, b) = [cs EXCEPT ![b] = c]
    BY <2>1, <2>2
  <2> HIDE DEF c
  <2> QED BY <2>2, <2>3, <2>5, <2>6 DEF Sound, Follows
<1>3. CASE ~ (cs[b].state = "OPEN" /\ cs[b].opened = "cooled") /\ cs[b].state # "HALF_OPEN"
  BY <1>3 DEF Taken
<1> QED BY <1>1, <1>2, <1>3

\* A backend that may be called is not open afterwards, and a half-open one has
\* the call on its books.
LEMMA TakenCounts ==
    ASSUME NEW cs, NEW runs, NEW b \in Backend,
           circuit \in [Backend -> Circuit], Sound(cs, runs), Allows(cs, b), Follows(cs)
    PROVE  /\ Taken(cs, b)[b].state # "OPEN"
           /\ Taken(cs, b)[b].state = "HALF_OPEN" =>
                 /\ circuit[b].state = "HALF_OPEN" => Taken(cs, b)[b].probes >= circuit[b].probes + 1
                 /\ Taken(cs, b)[b].probes >= 1
<1>1. CASE cs[b].state = "OPEN" /\ cs[b].opened = "cooled"
  <2>1. Taken(cs, b) = [cs EXCEPT ![b].state = "HALF_OPEN", ![b].probes = 1]
    BY <1>1 DEF Taken
  <2>2. circuit[b].state # "HALF_OPEN"
    BY <1>1 DEF Follows
  <2> QED BY <2>1, <2>2 DEF Sound, Circuit
<1>2. CASE cs[b].state = "HALF_OPEN"
  <2>1. Taken(cs, b) = [cs EXCEPT ![b].probes = @ + 1]
    BY <1>2 DEF Taken
  <2> QED BY <1>2, <2>1 DEF Sound, Follows, Circuit
<1>3. CASE cs[b].state = "CLOSED"
  BY <1>3 DEF Taken
<1>4. cs[b].state = "OPEN" => cs[b].opened = "cooled"
  BY DEF Allows, Sound, Book, Circuit
<1> QED BY <1>1, <1>2, <1>3, <1>4 DEF Sound, Circuit

LEMMA Unchanged == ASSUME Inv PROVE Sound(circuit, streak) /\ Follows(circuit)
BY DEF Inv, Sound, Circuit, Follows

LEMMA SucceededFollows ==
    ASSUME Inv, NEW b \in Backend
    PROVE  /\ Sound(Succeeded(circuit, b), [streak EXCEPT ![b] = 0])
           /\ Follows(Succeeded(circuit, b))
BY CircuitAssumption DEF Inv, Succeeded, Sound, Book, Follows, Circuit

LEMMA FailedFollows ==
    ASSUME Inv, NEW b \in Backend, NEW runs,
           runs = [streak EXCEPT ![b] = IF @ < Threshold THEN @ + 1 ELSE @]
    PROVE  Sound(Failed(circuit, b), runs) /\ Follows(Failed(circuit, b))
<1> DEFINE n == circuit[b].failures + 1
<1>0. /\ circuit[b] \in Circuit /\ Book(circuit[b], streak[b]) /\ n \in Nat /\ streak[b] \in 0..Threshold
      /\ runs[b] = IF streak[b] < Threshold THEN streak[b] + 1 ELSE streak[b]
      /\ \A o \in Backend : o # b => runs[o] = streak[o]
  BY DEF Inv, Sound, Circuit
<1>1. CASE circuit[b].state = "HALF_OPEN"
  <2>1. Failed(circuit, b) = Opened(circuit, b, Threshold)
    BY <1>1 DEF Failed
  <2> QED BY <1>0, <1>1, <2>1, CircuitAssumption DEF Inv, Sound, Book, Follows, Opened, Circuit
<1>2. CASE circuit[b].state # "HALF_OPEN" /\ n >= Threshold
  <2>1. Failed(circuit, b) = Opened(circuit, b, n)
    BY <1>2 DEF Failed
  <2>2. runs[b] = Threshold
    BY <1>0, <1>2, CircuitAssumption DEF Book
  <2> QED BY <1>0, <1>2, <2>1, <2>2, CircuitAssumption DEF Inv, Sound, Book, Follows, Opened, Circuit
<1>3. CASE circuit[b].state # "HALF_OPEN" /\ ~ (n >= Threshold)
  <2>1. Failed(circuit, b) = [circuit EXCEPT ![b].failures = n]
    BY <1>3 DEF Failed
  <2>2. Book([circuit[b] EXCEPT !.failures = n], runs[b])
    BY <1>0, <1>3, CircuitAssumption DEF Book, Circuit
  <2> QED BY <1>0, <1>3, <2>1, <2>2, CircuitAssumption DEF Inv, Sound, Book, Follows, Circuit
<1> QED BY <1>1, <1>2, <1>3

-----------------------------------------------------------------------------
(* The two ends of a step                                                  *)

\* The step leaves its request without a call: at rest, waiting for a score, or
\* streaming.
LEMMA NothingSent ==
    ASSUME Inv, NEW r \in Req, NEW place \in Places \ {"calling"},
           NEW b \in Backend \cup {None}, NEW other \in Backend \cup {None},
           place # "idle" => b \in Backend,
           Sound(circuit, streak)', Follows(circuit'),
           streak' \in [Backend -> 0..Threshold],
           Move(r, place, b, other), Probing({})
    PROVE  Inv' /\ Guarded
<1>1. Requests'
  BY DEF Inv, Requests, Move
<1>2. /\ \A x \in Req : x # r => pc'[x] = pc[x] /\ target'[x] = target[x]
      /\ pc'[r] # "calling"
  BY DEF Inv, Requests, Move
<1>3. Trials'
  <2>1. probing' \subseteq probing /\ r \notin probing'
    BY <1>2 DEF Probing
  <2>2. /\ probing' \subseteq Req
        /\ \A x \in probing' : pc'[x] = "calling" /\ circuit'[target'[x]].state = "HALF_OPEN"
    BY <2>1 DEF Inv, Trials, Probing
  <2>3. ASSUME NEW o \in Backend, circuit'[o].state = "HALF_OPEN"
        PROVE  Cardinality(Trial(o)') <= circuit'[o].probes
    <3>1. Trial(o)' \subseteq Trial(o)
      BY <1>2, <2>1 DEF Inv, Trials, Trial
    <3>2. IsFiniteSet(Trial(o))
      BY CircuitAssumption, FS_Subset DEF Inv, Trials, Trial
    <3>3. Cardinality(Trial(o)') <= Cardinality(Trial(o)) /\ Cardinality(Trial(o)') \in Nat
          /\ Cardinality(Trial(o)) \in Nat
      BY <3>1, <3>2, FS_Subset, FS_CardinalityType
    <3>4. circuit'[o].probes \in Nat /\ circuit[o].probes \in Nat
      BY DEF Inv, Sound, Circuit
    <3>5. CASE circuit[o].state = "HALF_OPEN"
      BY <2>3, <3>3, <3>4, <3>5 DEF Inv, Trials, Follows
    <3>6. CASE circuit[o].state # "HALF_OPEN"
      <4>1. Trial(o) = {}
        BY <3>6 DEF Inv, Trials, Trial
      <4>2. Trial(o)' = {}
        BY <3>1, <4>1
      <4> QED BY <4>2, <3>4, FS_EmptySet
    <3> QED BY <3>5, <3>6
  <2> QED BY <2>2, <2>3 DEF Trials
<1>4. Guarded
  BY <1>2 DEF Guarded
<1> QED BY <1>1, <1>3, <1>4 DEF Inv

\* The step sends a call to a backend whose circuit lets it.
LEMMA CallSent ==
    ASSUME Inv, NEW r \in Req, NEW cs, NEW b \in Backend, NEW other \in Backend \cup {None},
           Sound(cs, streak'), Follows(cs), Allows(cs, b),
           streak' \in [Backend -> 0..Threshold],
           Send(r, cs, b, other)
    PROVE  Inv' /\ Guarded
<1>0. circuit' = Taken(cs, b)
  BY DEF Send
<1>1. Sound(circuit', streak') /\ Follows(circuit')
  BY <1>0, TakenFollows DEF Inv, Sound
<1>2. Requests'
  BY DEF Inv, Requests, Send, Move, Places
<1>3. /\ \A x \in Req : x # r => pc'[x] = pc[x] /\ target'[x] = target[x]
      /\ pc'[r] = "calling" /\ target'[r] = b
  BY DEF Inv, Requests, Send, Move
<1>4. /\ circuit'[b].state # "OPEN"
      /\ circuit'[b].state = "HALF_OPEN" =>
            /\ circuit[b].state = "HALF_OPEN" => circuit'[b].probes >= circuit[b].probes + 1
            /\ circuit'[b].probes >= 1
  BY <1>0, TakenCounts DEF Inv, Sound
<1>5. Trials'
  <2>1. probing' \subseteq probing \cup {r}
    BY DEF Send, Probing
  <2>2. /\ probing' \subseteq Req
        /\ \A x \in probing' : pc'[x] = "calling" /\ circuit'[target'[x]].state = "HALF_OPEN"
    BY <2>1 DEF Inv, Trials, Send, Probing
  <2>3. ASSUME NEW o \in Backend, circuit'[o].state = "HALF_OPEN"
        PROVE  Cardinality(Trial(o)') <= circuit'[o].probes
    <3>2. IsFiniteSet(Trial(o))
      BY CircuitAssumption, FS_Subset DEF Inv, Trials, Trial
    <3>3. circuit'[o].probes \in Nat /\ circuit[o].probes \in Nat /\ Cardinality(Trial(o)) \in Nat
      BY <1>1, <3>2, FS_CardinalityType DEF Inv, Sound, Circuit
    <3>4. Trial(o) # {} => circuit[o].state = "HALF_OPEN"
      BY DEF Inv, Trials, Trial
    <3>5. CASE o # b
      <4>1. Trial(o)' \subseteq Trial(o)
        BY <1>3, <2>1, <3>5 DEF Inv, Trials, Trial
      <4>2. Cardinality(Trial(o)') <= Cardinality(Trial(o)) /\ Cardinality(Trial(o)') \in Nat
        BY <4>1, <3>2, FS_Subset, FS_CardinalityType
      <4>3. Trial(o) = {} => Cardinality(Trial(o)) = 0
        BY FS_EmptySet
      <4>4. circuit[o].state = "HALF_OPEN" =>
              Cardinality(Trial(o)) <= circuit[o].probes /\ circuit'[o].probes >= circuit[o].probes
        BY <1>1, <2>3 DEF Inv, Trials, Follows
      <4> QED BY <3>3, <3>4, <4>2, <4>3, <4>4
    <3>6. CASE o = b
      <4>1. Trial(o)' \subseteq Trial(o) \cup {r}
        BY <1>3, <2>1 DEF Inv, Trials, Trial
      <4>2. IsFiniteSet(Trial(o) \cup {r}) /\ Cardinality(Trial(o) \cup {r}) <= Cardinality(Trial(o)) + 1
        <5> HIDE DEF Trial
        <5>1. /\ IsFiniteSet(Trial(o) \cup {r})
              /\ Cardinality(Trial(o) \cup {r}) =
                    IF r \in Trial(o) THEN Cardinality(Trial(o)) ELSE Cardinality(Trial(o)) + 1
          BY <3>2, FS_AddElement
        <5> QED BY <5>1, <3>3
      <4>3. Cardinality(Trial(o)') <= Cardinality(Trial(o) \cup {r}) /\ Cardinality(Trial(o)') \in Nat
        BY <4>1, <4>2, FS_Subset, FS_CardinalityType
      <4>4. Cardinality(Trial(o) \cup {r}) \in Nat
        BY <4>2, FS_CardinalityType
      <4>5. Trial(o) = {} => Cardinality(Trial(o)) = 0
        BY FS_EmptySet
      <4>6. circuit[o].state = "HALF_OPEN" => Cardinality(Trial(o)) <= circuit[o].probes
        BY DEF Inv, Trials
      <4> QED BY <1>4, <2>3, <3>3, <3>4, <3>6, <4>2, <4>3, <4>4, <4>5, <4>6
    <3> QED BY <3>5, <3>6
  <2> QED BY <2>2, <2>3 DEF Trials
<1>6. Guarded
  BY <1>3, <1>4 DEF Guarded
<1> QED BY <1>1, <1>2, <1>5, <1>6 DEF Inv, Sound

-----------------------------------------------------------------------------
(* What the steps are made of                                              *)

LEMMA GiveUpKeeps ==
    ASSUME Inv, NEW r \in Req, NEW cs,
           Sound(cs, streak'), Follows(cs), streak' \in [Backend -> 0..Threshold],
           GiveUp(r, cs)
    PROVE  Inv' /\ Guarded
<1>1. Move(r, "idle", None, None) /\ Probing({}) /\ circuit' = cs
  BY DEF GiveUp, End
<1>2. Sound(circuit, streak)' /\ Follows(circuit')
  BY <1>1 DEF Sound
<1> QED BY <1>1, <1>2, NothingSent DEF Places

LEMMA RetryKeeps ==
    ASSUME Inv, NEW r \in Req, NEW cs, NEW b \in Backend \cup {None},
           Sound(cs, streak'), Follows(cs), streak' \in [Backend -> 0..Threshold],
           Retry(r, cs, b)
    PROVE  Inv' /\ Guarded
<1>1. CASE Usable(cs, b) /\ Send(r, cs, b, None)
  BY <1>1, CallSent DEF Usable
<1>2. CASE Usable(cs, b) /\ GiveUp(r, Taken(cs, b))
  <2>1. Sound(Taken(cs, b), streak') /\ Follows(Taken(cs, b))
    BY <1>2, TakenFollows DEF Usable, Inv, Sound
  <2> QED BY <1>2, <2>1, GiveUpKeeps
<1>3. CASE GiveUp(r, cs)
  BY <1>3, GiveUpKeeps
<1> QED BY <1>1, <1>2, <1>3 DEF Retry

LEMMA PostKeeps ==
    ASSUME Inv, NEW r \in Req, NEW cs, NEW b \in Backend, NEW other \in Backend \cup {None},
           Sound(cs, streak), Follows(cs), UNCHANGED streak,
           Post(r, cs, b, other)
    PROVE  Inv' /\ Guarded
<1>1. Sound(cs, streak') /\ streak' \in [Backend -> 0..Threshold]
  BY DEF Inv
<1>2. CASE circuit' = cs /\ Move(r, "streaming", b, other) /\ Probing({})
  <2>1. Sound(circuit, streak)' /\ Follows(circuit')
    BY <1>1, <1>2 DEF Sound
  <2> QED BY <1>1, <1>2, <2>1, NothingSent DEF Places
<1>3. CASE Allows(cs, b) /\ Send(r, cs, b, other)
  BY <1>1, <1>3, CallSent
<1>4. CASE Retry(r, cs, other)
  BY <1>1, <1>4, RetryKeeps
<1> QED BY <1>2, <1>3, <1>4 DEF Post

LEMMA ScoreKeeps ==
    ASSUME Inv, NEW r \in Req, NEW b \in Backend, NEW other \in Backend \cup {None},
           Allows(circuit, b), UNCHANGED streak, Score(r, circuit, b, other)
    PROVE  Inv' /\ Guarded
<1>1. circuit' = Taken(circuit, b) /\ Move(r, "scoring", b, other) /\ Probing({})
  BY DEF Score
<1>2. Sound(Taken(circuit, b), streak) /\ Follows(Taken(circuit, b))
  BY Unchanged, TakenFollows DEF Inv, Sound
<1>3. Sound(circuit, streak)' /\ Follows(circuit') /\ streak' \in [Backend -> 0..Threshold]
  BY <1>1, <1>2 DEF Sound, Inv
<1> QED BY <1>1, <1>3, NothingSent DEF Places

LEMMA TryFallbackKeeps ==
    ASSUME Inv, NEW r \in Req, NEW b \in Backend \cup {None},
           UNCHANGED streak, TryFallback(r, b)
    PROVE  Inv' /\ Guarded
<1>1. CASE Usable(circuit, b) /\ Score(r, circuit, b, None)
  BY <1>1, ScoreKeeps DEF Usable
<1>2. CASE GiveUp(r, circuit)
  <2>1. Sound(circuit, streak') /\ streak' \in [Backend -> 0..Threshold]
    BY DEF Inv
  <2> QED BY <1>2, <2>1, Unchanged, GiveUpKeeps
<1> QED BY <1>1, <1>2 DEF TryFallback

-----------------------------------------------------------------------------
(* The invariant                                                           *)

LEMMA InitOK == Init => Inv
<1> SUFFICES ASSUME Init PROVE Inv
  OBVIOUS
<1>1. Sound(circuit, streak) /\ streak \in [Backend -> 0..Threshold]
  BY CircuitAssumption DEF Init, Sound, Book, Circuit
<1>2. Requests
  BY DEF Init, Requests, Places
<1>3. Trials
  BY DEF Init, Trials
<1> QED BY <1>1, <1>2, <1>3 DEF Inv

LEMMA StepOK == Inv /\ [Next]_vars => Inv' /\ Guarded
<1> SUFFICES ASSUME Inv, [Next]_vars PROVE Inv' /\ Guarded
  OBVIOUS
<1>0. /\ Requests /\ Sound(circuit, streak) /\ Follows(circuit)
      /\ streak \in [Backend -> 0..Threshold]
  BY Unchanged DEF Inv
<1>1. ASSUME NEW r \in Req, Route(r) PROVE Inv' /\ Guarded
  <2>1. PICK b \in Backend, other \in Backend \cup {None} :
          \/ Allows(circuit, b) /\ other # None /\ Score(r, circuit, b, other)
          \/ Allows(circuit, b) /\ other = None /\ Post(r, Taken(circuit, b), b, None)
          \/ ~ Allows(circuit, b) /\ TryFallback(r, other)
    BY <1>1 DEF Route
  <2>2. UNCHANGED streak
    BY <1>1 DEF Route
  <2>3. CASE Allows(circuit, b) /\ Score(r, circuit, b, other)
    BY <2>2, <2>3, ScoreKeeps
  <2>4. CASE Allows(circuit, b) /\ Post(r, Taken(circuit, b), b, None)
    <3>1. Sound(Taken(circuit, b), streak) /\ Follows(Taken(circuit, b))
      BY <1>0, <2>4, TakenFollows DEF Sound
    <3> QED BY <2>2, <2>4, <3>1, PostKeeps
  <2>5. CASE TryFallback(r, other)
    BY <2>2, <2>5, TryFallbackKeeps
  <2> QED BY <2>1, <2>3, <2>4, <2>5
<1>2. ASSUME NEW r \in Req, RouteByCost(r) PROVE Inv' /\ Guarded
  BY <1>0, <1>2, PostKeeps DEF RouteByCost
<1>3. ASSUME NEW r \in Req, ScoreMet(r) PROVE Inv' /\ Guarded
  <2>1. target[r] \in Backend /\ fallback[r] \in Backend \cup {None}
    BY <1>0, <1>3 DEF ScoreMet, Requests
  <2> QED BY <1>0, <1>3, <2>1, PostKeeps DEF ScoreMet
<1>4. ASSUME NEW r \in Req, ScoreTooLow(r) PROVE Inv' /\ Guarded
  <2>1. fallback[r] \in Backend \cup {None}
    BY <1>0, <1>4 DEF ScoreTooLow, Requests
  <2> QED BY <1>4, <2>1, TryFallbackKeeps DEF ScoreTooLow
<1>5. ASSUME NEW r \in Req, CallSucceeds(r) PROVE Inv' /\ Guarded
  <2>1. target[r] \in Backend
    BY <1>0, <1>5 DEF CallSucceeds, Requests
  <2>2. streak' = [streak EXCEPT ![target[r]] = 0] /\ GiveUp(r, Succeeded(circuit, target[r]))
    BY <1>5 DEF CallSucceeds
  <2>3. streak' \in [Backend -> 0..Threshold]
    BY <1>0, <2>1, <2>2, CircuitAssumption
  <2>4. Sound(Succeeded(circuit, target[r]), streak') /\ Follows(Succeeded(circuit, target[r]))
    BY <2>1, <2>2, SucceededFollows
  <2> QED BY <2>2, <2>3, <2>4, GiveUpKeeps
<1>6. ASSUME NEW r \in Req, CallFails(r) PROVE Inv' /\ Guarded
  <2>1. target[r] \in Backend /\ fallback[r] \in Backend \cup {None}
    BY <1>0, <1>6 DEF CallFails, Requests
  <2> DEFINE cs == Failed(circuit, target[r])
  <2>2. /\ streak' = [streak EXCEPT ![target[r]] = IF @ < Threshold THEN @ + 1 ELSE @]
        /\ Retry(r, cs, fallback[r]) \/ GiveUp(r, cs)
    BY <1>6 DEF CallFails
  <2>3. streak' \in [Backend -> 0..Threshold]
    BY <1>0, <2>1, <2>2, CircuitAssumption
  <2>4. Sound(cs, streak') /\ Follows(cs)
    BY <2>1, <2>2, FailedFollows
  <2> HIDE DEF cs
  <2> QED BY <2>1, <2>2, <2>3, <2>4, RetryKeeps, GiveUpKeeps
<1>7. ASSUME NEW r \in Req, StreamFallsBack(r) \/ StreamEnds(r) PROVE Inv' /\ Guarded
  <2>1. /\ pc[r] = "streaming" /\ UNCHANGED <<circuit, streak, probing>>
        /\ \E place \in {"idle", "streaming"}, b \in Backend \cup {None} :
              Move(r, place, b, None) /\ (place # "idle" => b \in Backend)
    BY <1>0, <1>7 DEF StreamFallsBack, StreamEnds, End, Requests
  <2>2. Sound(circuit, streak)' /\ streak' \in [Backend -> 0..Threshold]
    BY <1>0, <2>1 DEF Sound
  <2>3. Requests' /\ Guarded /\ \A x \in Req : x # r => pc'[x] = pc[x] /\ target'[x] = target[x]
    BY <1>0, <2>1 DEF Requests, Move, Guarded, Places
  <2>4. Trials'
    <3>1. r \notin probing /\ probing' = probing /\ circuit' = circuit
      BY <2>1 DEF Inv, Trials
    <3>2. \A b \in Backend : Trial(b)' = Trial(b)
      BY <2>3, <3>1 DEF Inv, Trials, Trial
    <3> QED BY <2>3, <3>1, <3>2 DEF Inv, Trials
  <2> QED BY <2>2, <2>3, <2>4 DEF Inv
<1>8. ASSUME NEW b \in Backend, CoolDown(b) PROVE Inv' /\ Guarded
  <2>1. /\ circuit' = [circuit EXCEPT ![b].opened = "cooled"]
        /\ UNCHANGED <<pc, target, fallback, streak, probing>>
    BY <1>8 DEF CoolDown
  <2>2. /\ circuit' \in [Backend -> Circuit]
        /\ \A o \in Backend : /\ circuit'[o].state = circuit[o].state
                              /\ circuit'[o].failures = circuit[o].failures
                              /\ circuit'[o].probes = circuit[o].probes
                              /\ circuit'[o].opened = circuit[o].opened \/ circuit'[o].opened = "cooled"
    BY <1>0, <2>1 DEF Sound, Circuit
  <2>3. Sound(circuit, streak)'
    BY <1>0, <2>1, <2>2 DEF Sound, Book
  <2>4. Requests' /\ Guarded
    BY <1>0, <2>1 DEF Requests, Guarded
  <2>5. Trials'
    <3>1. \A o \in Backend : Trial(o)' = Trial(o)
      BY <2>1 DEF Trial
    <3>2. \A x \in probing : target[x] \in Backend
      BY <1>0 DEF Inv, Trials, Requests
    <3> QED BY <2>1, <2>2, <3>1, <3>2 DEF Inv, Trials
  <2> QED BY <1>0, <2>1, <2>3, <2>4, <2>5 DEF Inv
<1>9. CASE UNCHANGED vars
  <2>1. Inv'
    BY <1>9 DEF vars, Inv, Sound, Requests, Trials, Trial
  <2>2. Guarded
    BY <1>9 DEF vars, Guarded
  <2> QED BY <2>1, <2>2
<1> QED BY <1>1, <1>2, <1>3, <1>4, <1>5, <1>6, <1>7, <1>8, <1>9 DEF Next

LEMMA InvIsInvariant == Spec => []Inv
BY InitOK, StepOK, PTL DEF Spec

-----------------------------------------------------------------------------
(* The properties                                                          *)

LEMMA InvImplies == Inv => ClosedIffShortRun /\ ProbesBounded
<1> SUFFICES ASSUME Inv, NEW b \in Backend
             PROVE  /\ circuit[b].state = "CLOSED" <=> streak[b] < Threshold
                    /\ circuit[b].state = "HALF_OPEN" =>
                          /\ Cardinality({r \in probing : target[r] = b}) <= circuit[b].probes
                          /\ circuit[b].probes <= MaxProbes
  BY DEF ClosedIffShortRun, ProbesBounded
<1>1. Book(circuit[b], streak[b]) /\ streak[b] \in 0..Threshold
  BY DEF Inv, Sound
<1>2. circuit[b].state = "CLOSED" <=> streak[b] < Threshold
  BY <1>1, CircuitAssumption DEF Book
<1> QED BY <1>1, <1>2 DEF Book, Inv, Trials, Trial

\* Every variable keeps its type.
THEOREM TypeCorrect == Spec => []TypeOK
<1>1. Inv => TypeOK
  BY DEF Inv, Sound, Requests, Trials, TypeOK
<1> QED BY <1>1, InvIsInvariant, PTL

\* For every threshold and however answers and retries of any number of requests
\* interleave, a circuit is closed exactly while the last failures in a row are
\* fewer than the threshold (record_failure, record_success).
THEOREM CircuitIsJust == Spec => []ClosedIffShortRun
BY InvIsInvariant, InvImplies, PTL

\* The calls that are out on trial never pass the probes on the books, and these
\* never pass GATEWAY_CIRCUIT_HALF_OPEN_PROBES.
THEOREM TrialsAreBounded == Spec => []ProbesBounded
BY InvIsInvariant, InvImplies, PTL

\* No first attempt and no retry of a plain request is sent to a backend whose
\* circuit is open.
THEOREM OpenIsRespected == Spec => NoCallWhileOpen
<1>1. Inv /\ [Next]_vars =>
        [\A r \in Req : pc'[r] = "calling" /\ (pc[r] # "calling" \/ target'[r] # target[r]) =>
            circuit'[target'[r]].state # "OPEN"]_vars
  BY StepOK DEF Guarded
<1> QED BY <1>1, InvIsInvariant, PTL DEF Spec, NoCallWhileOpen
=============================================================================

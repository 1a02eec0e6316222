-------------------------- MODULE BookkeepingProofs --------------------------
(***************************************************************************)
(* Theorems of what a chat request leaves behind: its outcome in the       *)
(* health record, its decision with the outcome of its shadow call         *)
(* (Bookkeeping), and its usage event (UsageEvents).  The three share      *)
(* nothing, so each has an inductive invariant of its own.                 *)
(***************************************************************************)
EXTENDS Bookkeeping, UsageEvents, DataLemmas

-----------------------------------------------------------------------------
(* The inductive invariant of the usage events                             *)

\* No event is twice in the deque.
NoTwins == \A i, j \in 1..Len(pending) : pending[i] = pending[j] => i = j

\* An event that the emitter still has is neither confirmed nor lost, and the one
\* in the worker's hands is not in the deque.
Pristine(e) == e \in emitted /\ e \notin acked /\ e \notin lost

StillHeld ==
    /\ \A i \in 1..Len(pending) : Pristine(pending[i]) /\ pending[i] # item
    /\ item # NoEvent => Pristine(item)
    /\ acked \cup lost \subseteq emitted

\* The posts and the failures of an event, by where it is.
Tries ==
    /\ \A e \in Event \ emitted : posts[e] = 0 /\ attempts[e] = 0
    /\ \A i \in 1..Len(pending) :
          posts[pending[i]] = attempts[pending[i]] /\ attempts[pending[i]] < MaxAttempts
    /\ item # NoEvent => posts[item] = attempts[item] + 1 /\ posts[item] <= MaxAttempts

\* The worker and the deque after the end.
Closed ==
    /\ closing = "closed" <=> worker = "cancelled"
    /\ closing = "closed" => pending = <<>>

EmitterInv == EmitterTypeOK /\ NoTwins /\ StillHeld /\ Tries /\ Closed /\ Accounted

-----------------------------------------------------------------------------
(* The books                                                               *)

\* The events that left the deque for the webhook, and those that wait in it or
\* were dropped: the two sides of Accounted, so that each step changes one or
\* moves one event from the one to the other.
Sent == Cardinality(acked) + Cardinality(InFlight) + Cardinality(lost)
Unsent == Len(pending) + Drops

Books ==
    /\ Cardinality(emitted) \in Nat /\ Cardinality(acked) \in Nat /\ Cardinality(lost) \in Nat
    /\ Cardinality(InFlight) \in Nat /\ Drops \in Nat /\ Len(pending) \in Nat
    /\ Sent \in Nat /\ Unsent \in Nat
    /\ Accounted <=> /\ Cardinality(emitted) = Sent + Unsent
                     /\ Cardinality(lost) <= 1
                     /\ lost # {} => closing = "closed"

LEMMA CountOne ==
    \A it : Cardinality(IF it = NoEvent THEN {} ELSE {it}) = IF it = NoEvent THEN 0 ELSE 1
BY FS_EmptySet, FS_Singleton

LEMMA BooksKept == EmitterTypeOK => Books
<1> SUFFICES ASSUME EmitterTypeOK PROVE Books
  OBVIOUS
<1> DEFINE all == Cardinality(emitted)
           a == Cardinality(acked)
           l == Cardinality(lost)
           h == Cardinality(InFlight)
           d == Drops
           p == Len(pending)
<1>1. IsFiniteSet(emitted) /\ IsFiniteSet(acked) /\ IsFiniteSet(lost)
  BY FS_Subset, UsageAssumption DEF UsageAssumption, EmitterTypeOK
<1>2. all \in Nat /\ a \in Nat /\ l \in Nat
  BY <1>1, FS_CardinalityType
<1>3. h \in Nat
  BY CountOne DEF InFlight
<1>4. p \in Nat
  BY LenProperties DEF EmitterTypeOK
<1>5. d \in Nat
  BY DEF EmitterTypeOK, Drops, Reasons
<1>6. Sent = a + h + l /\ Unsent = p + d
  BY DEF Sent, Unsent
<1>7. Accounted <=> all = a + d + p + h + l /\ Cardinality(lost) <= 1 /\ (lost # {} => closing = "closed")
  BY DEF Accounted
<1> HIDE DEF all, a, l, h, d, p
<1>8. a + h + l \in Nat /\ p + d \in Nat /\ a + d + p + h + l = (a + h + l) + (p + d)
  BY <1>2, <1>3, <1>4, <1>5
<1> QED BY <1>2, <1>3, <1>4, <1>5, <1>6, <1>7, <1>8 DEF Books, all, a, l, h, d, p

LEMMA BooksAfter == EmitterTypeOK' => Books'
BY BooksKept, PTL

-----------------------------------------------------------------------------
(* The deque                                                               *)

\* The counter grows by what is counted.
LEMMA DropsGrow ==
    ASSUME dropped \in [Reasons -> Nat], NEW reason \in Reasons, NEW n \in Nat, Dropped(reason, n)
    PROVE  dropped' \in [Reasons -> Nat] /\ Drops' = Drops + n
<1>1. \A r \in Reasons : dropped[r] \in Nat
  OBVIOUS
<1>2. dropped' \in [Reasons -> Nat] /\ dropped'[reason] = dropped[reason] + n
      /\ \A r \in Reasons \ {reason} : dropped'[r] = dropped[r]
  BY <1>1 DEF Dropped
<1>3. Drops' = Drops + n
  BY <1>1, <1>2 DEF Drops, Reasons
<1> QED BY <1>2, <1>3

\* An event joins the deque, which may push another out.
LEMMA EnqueueKeeps ==
    ASSUME EmitterTypeOK, NoTwins, NEW e \in Event, Enqueue(e),
           \A i \in 1..Len(pending) : pending[i] # e
    PROVE  /\ pending' \in Seq(Event) /\ Len(pending') <= BufferMax
           /\ dropped' \in [Reasons -> Nat]
           /\ NoTwins'
           /\ \A i \in 1..Len(pending') :
                 pending'[i] = e \/ \E j \in 1..Len(pending) : pending'[i] = pending[j]
           /\ Unsent' = Unsent + 1
<1>0. /\ pending \in Seq(Event) /\ Len(pending) \in Nat /\ Len(pending) <= BufferMax
      /\ BufferMax \in Nat \ {0}
      /\ dropped \in [Reasons -> Nat] /\ Drops \in Nat
  BY UsageAssumption, LenProperties DEF EmitterTypeOK, UsageAssumption, Drops, Reasons
<1>1. CASE Full
  <2> DEFINE rest == Tail(pending)
  <2>0. pending # <<>> /\ Len(pending) = BufferMax
    BY <1>0, <1>1, EmptySeq DEF Full
  <2>1. /\ rest \in Seq(Event) /\ Len(rest) = Len(pending) - 1
        /\ \A i \in 1..Len(rest) : rest[i] = pending[i + 1]
    BY <1>0, <2>0, HeadTailProperties
  <2> HIDE DEF rest
  <2>2. pending' = Append(rest, e) /\ Dropped("buffer_overflow", 1)
    BY <1>1 DEF Enqueue, rest
  <2>3. /\ pending' \in Seq(Event) /\ Len(pending') = Len(pending)
        /\ pending'[Len(pending)] = e
        /\ \A i \in 1..(Len(pending) - 1) : pending'[i] = pending[i + 1]
    BY <1>0, <2>1, <2>2, AppendProperties
  <2>4. dropped' \in [Reasons -> Nat] /\ Drops' = Drops + 1
    BY <1>0, <2>2, DropsGrow DEF Reasons
  <2>5. \A i \in 1..Len(pending) : i = Len(pending) \/ (i \in 1..(Len(pending) - 1) /\ i + 1 \in 1..Len(pending))
    BY <1>0
  <2>6. NoTwins'
    <3> SUFFICES ASSUME NEW i \in 1..Len(pending), NEW j \in 1..Len(pending), pending'[i] = pending'[j]
                 PROVE  i = j
      BY <2>3 DEF NoTwins
    <3>1. CASE i = Len(pending) \/ j = Len(pending)
      BY <2>3, <2>5, <3>1
    <3>2. CASE i \in 1..(Len(pending) - 1) /\ j \in 1..(Len(pending) - 1)
      <4>1. i + 1 \in 1..Len(pending) /\ j + 1 \in 1..Len(pending) /\ pending[i + 1] = pending[j + 1]
        BY <1>0, <2>3, <3>2
      <4>2. i + 1 = j + 1
        BY <4>1 DEF NoTwins
      <4> QED BY <4>2
    <3> QED BY <2>5, <3>1, <3>2
  <2>7. \A i \in 1..Len(pending) : pending'[i] = e \/ \E j \in 1..Len(pending) : pending'[i] = pending[j]
    BY <2>3, <2>5
  <2>8. Unsent' = Unsent + 1 /\ Len(pending') <= BufferMax
    BY <1>0, <2>3, <2>4 DEF Unsent
  <2> QED BY <2>3, <2>4, <2>6, <2>7, <2>8
<1>2. CASE ~ Full
  <2>1. pending' = Append(pending, e) /\ UNCHANGED dropped /\ Len(pending) < BufferMax
    BY <1>0, <1>2 DEF Enqueue, Full
  <2>2. /\ pending' \in Seq(Event) /\ Len(pending') = Len(pending) + 1
        /\ pending'[Len(pending) + 1] = e
        /\ \A i \in 1..Len(pending) : pending'[i] = pending[i]
    BY <1>0, <2>1, AppendProperties
  <2>3. \A i \in 1..(Len(pending) + 1) : i = Len(pending) + 1 \/ i \in 1..Len(pending)
    BY <1>0
  <2>4. NoTwins'
    BY <2>2, <2>3 DEF NoTwins
  <2>5. Drops' = Drops
    BY <2>1 DEF Drops
  <2>6. Unsent' = Unsent + 1
    BY <1>0, <2>2, <2>5 DEF Unsent
  <2>7. \A i \in 1..Len(pending') : pending'[i] = e \/ \E j \in 1..Len(pending) : pending'[i] = pending[j]
    BY <2>2, <2>3
  <2>8. Len(pending') <= BufferMax
    BY <1>0, <2>1, <2>2
  <2> QED BY <1>0, <2>1, <2>2, <2>4, <2>6, <2>7, <2>8
<1> QED BY <1>1, <1>2
-----------------------------------------------------------------------------
(* One step                                                                *)

LEMMA Joins ==
    ASSUME NEW S \in SUBSET Event, NEW e \in Event, e \notin S
    PROVE  Cardinality(S) \in Nat /\ Cardinality(S \cup {e}) = Cardinality(S) + 1
<1>1. IsFiniteSet(S)
  BY FS_Subset, UsageAssumption DEF UsageAssumption
<1> QED BY <1>1, FS_AddElement, FS_CardinalityType

\* What every step starts from.
LEMMA Basics ==
    ASSUME EmitterTypeOK
    PROVE  /\ pending \in Seq(Event) /\ Len(pending) \in Nat
           /\ \A i \in 1..Len(pending) : pending[i] \in Event
           /\ Cardinality(emitted) \in Nat /\ Cardinality(acked) \in Nat /\ Cardinality(lost) \in Nat
           /\ Cardinality(InFlight) = IF item = NoEvent THEN 0 ELSE 1
           /\ Drops \in Nat
           /\ NoEvent \notin Event /\ MaxAttempts \in Nat \ {0} /\ BufferMax \in Nat \ {0}
<1>1. IsFiniteSet(emitted) /\ IsFiniteSet(acked) /\ IsFiniteSet(lost)
  BY FS_Subset, UsageAssumption DEF UsageAssumption, EmitterTypeOK
<1>2. Cardinality(emitted) \in Nat /\ Cardinality(acked) \in Nat /\ Cardinality(lost) \in Nat
  BY <1>1, FS_CardinalityType
<1>3. Cardinality(InFlight) = IF item = NoEvent THEN 0 ELSE 1
  BY CountOne DEF InFlight
<1>4. pending \in Seq(Event) /\ Len(pending) \in Nat /\ \A i \in 1..Len(pending) : pending[i] \in Event
  BY ElementOfSeq, LenProperties DEF EmitterTypeOK
<1>5. Drops \in Nat
  BY DEF EmitterTypeOK, Drops, Reasons
<1> QED BY <1>2, <1>3, <1>4, <1>5, UsageAssumption DEF UsageAssumption

LEMMA EmitKeeps ==
    ASSUME EmitterInv, NEW e \in Event, Emit(e)
    PROVE  EmitterInv'
<1>0. EmitterTypeOK /\ NoTwins /\ StillHeld /\ Tries /\ Closed /\ Accounted
  BY DEF EmitterInv
<1>1. /\ e \notin emitted /\ emitted' = emitted \cup {e}
      /\ UNCHANGED <<backoff, attempts, item, worker, closing, posts, acked, lost>>
  BY DEF Emit
<1>2. Cardinality(emitted') = Cardinality(emitted) + 1
  BY <1>0, <1>1, Joins DEF EmitterTypeOK
<1>3. e # item /\ \A i \in 1..Len(pending) : pending[i] # e
  BY <1>0, <1>1, Basics DEF StillHeld, Pristine
<1>4. Cardinality(InFlight') = Cardinality(InFlight)
  BY <1>1 DEF InFlight
<1>5. CASE closing = "no"
  <2>1. Enqueue(e) /\ wake' = TRUE
    BY <1>5 DEF Emit
  <2>2. /\ pending' \in Seq(Event) /\ Len(pending') <= BufferMax
        /\ dropped' \in [Reasons -> Nat]
        /\ NoTwins'
        /\ \A i \in 1..Len(pending') :
              pending'[i] = e \/ \E j \in 1..Len(pending) : pending'[i] = pending[j]
        /\ Unsent' = Unsent + 1
    BY <1>0, <1>3, <2>1, EnqueueKeeps
  <2>3. EmitterTypeOK'
    BY <1>0, <1>1, <2>1, <2>2 DEF EmitterTypeOK
  <2>4. StillHeld'
    BY <1>0, <1>1, <1>3, <2>2 DEF StillHeld, Pristine
  <2>5. Tries'
    <3>1. posts' = posts /\ attempts' = attempts /\ item' = item /\ emitted \subseteq emitted'
      BY <1>1
    <3>2. /\ posts[e] = attempts[e] /\ attempts[e] < MaxAttempts
      BY <1>0, <1>1, Basics DEF Tries
    <3>3. \A i \in 1..Len(pending') :
             posts[pending'[i]] = attempts[pending'[i]] /\ attempts[pending'[i]] < MaxAttempts
      BY <1>0, <2>2, <3>2 DEF Tries
    <3> QED BY <1>0, <3>1, <3>3 DEF Tries
  <2>6. Accounted'
    <3>1. Books /\ Books'
      BY <1>0, <2>3, BooksKept, BooksAfter
    <3>2. Sent' = Sent
      BY <1>1 DEF Sent, InFlight
    <3>3. Cardinality(emitted') = Sent' + Unsent'
      BY <1>0, <1>2, <2>2, <3>1, <3>2 DEF Books
    <3> QED BY <1>0, <1>1, <3>1, <3>3 DEF Books
  <2> QED BY <1>0, <1>1, <1>5, <2>2, <2>3, <2>4, <2>5, <2>6 DEF EmitterInv, Closed
<1>6. CASE closing # "no"
  <2>1. Dropped("not_accepting", 1) /\ UNCHANGED <<pending, wake>>
    BY <1>6 DEF Emit
  <2>2. dropped' \in [Reasons -> Nat] /\ Drops' = Drops + 1
    BY <1>0, <2>1, DropsGrow DEF EmitterTypeOK, Reasons
  <2>3. EmitterTypeOK' /\ NoTwins'
    BY <1>0, <1>1, <2>1, <2>2 DEF EmitterTypeOK, NoTwins
  <2>4. StillHeld' /\ Tries'
    BY <1>0, <1>1, <1>3, <2>1 DEF StillHeld, Pristine, Tries
  <2>5. Accounted'
    <3>1. Books /\ Books'
      BY <1>0, <2>3, BooksKept, BooksAfter
    <3>2. Sent' = Sent
      BY <1>1 DEF Sent, InFlight
    <3>3. Unsent' = Unsent + 1
      BY <2>1, <2>2, <3>1 DEF Unsent, Books
    <3>4. Cardinality(emitted') = Sent' + Unsent'
      BY <1>0, <1>2, <3>1, <3>2, <3>3 DEF Books
    <3> QED BY <1>0, <1>1, <3>1, <3>4 DEF Books
  <2> QED BY <1>0, <1>1, <2>1, <2>3, <2>4, <2>5 DEF EmitterInv, Closed
<1> QED BY <1>5, <1>6

LEMMA TakeKeeps ==
    ASSUME EmitterInv, Take
    PROVE  /\ EmitterInv'
           /\ \A e \in Event : posts'[e] # posts[e] =>
                 posts'[e] <= MaxAttempts /\ e \notin acked /\ closing # "closed"
<1>0. EmitterTypeOK /\ NoTwins /\ StillHeld /\ Tries /\ Closed /\ Accounted
  BY DEF EmitterInv
<1> DEFINE i == FirstDue
<1>1. i \in 1..Len(pending)
  <2>1. Due \in SUBSET Nat /\ Due # {} /\ Due \subseteq 1..Len(pending)
    BY <1>0, Basics, LenProperties DEF Take, Due
  <2>2. FirstDue \in Due
    BY <2>1, FirstExists DEF FirstDue
  <2> QED BY <2>1, <2>2
<1>2. /\ item = NoEvent /\ worker = "scanning" /\ worker' = "posting"
      /\ item' = pending[i] /\ pending' = RemoveAt(pending, i)
      /\ posts' = [posts EXCEPT ![pending[i]] = @ + 1]
      /\ UNCHANGED <<backoff, attempts, wake, closing, dropped, emitted, acked, lost>>
  BY <1>0 DEF Take, EmitterTypeOK
<1> HIDE DEF i
<1>3. /\ pending' \in Seq(Event) /\ Len(pending') = Len(pending) - 1
      /\ \A j \in 1..(Len(pending) - 1) : pending'[j] = IF j < i THEN pending[j] ELSE pending[j + 1]
  <2>1. pending' = Without(pending, i)
    BY <1>2 DEF RemoveAt, Without
  <2> QED BY <1>0, <1>1, <2>1, Basics, Removed
<1>4. \A j \in 1..Len(pending') : \E k \in 1..Len(pending) :
         k # i /\ pending'[j] = pending[k] /\ k = IF j < i THEN j ELSE j + 1
  <2> SUFFICES ASSUME NEW j \in 1..Len(pending')
               PROVE  \E k \in 1..Len(pending) :
                         k # i /\ pending'[j] = pending[k] /\ k = IF j < i THEN j ELSE j + 1
    OBVIOUS
  <2>1. Len(pending) \in Nat /\ i \in Nat /\ i <= Len(pending) /\ j \in 1..(Len(pending) - 1)
    BY <1>0, <1>1, <1>3, Basics
  <2>2. pending'[j] = IF j < i THEN pending[j] ELSE pending[j + 1]
    BY <1>3, <2>1
  <2>3. CASE j < i
    <3>1. j \in 1..Len(pending) /\ j # i
      BY <2>1, <2>3
    <3> QED BY <2>2, <2>3, <3>1
  <2>4. CASE ~ (j < i)
    <3>1. j + 1 \in 1..Len(pending) /\ j + 1 # i
      BY <2>1, <2>4
    <3> QED BY <2>2, <2>4, <3>1
  <2> QED BY <2>3, <2>4
<1>5. pending[i] \in Event /\ Pristine(pending[i]) /\ pending[i] # NoEvent
      /\ posts[pending[i]] = attempts[pending[i]] /\ attempts[pending[i]] < MaxAttempts
      /\ posts[pending[i]] \in Nat /\ attempts[pending[i]] \in Nat
  BY <1>0, <1>1, Basics DEF StillHeld, Tries, EmitterTypeOK
<1>6. EmitterTypeOK'
  <2>1. posts' \in [Event -> Nat]
    BY <1>0, <1>2, <1>5 DEF EmitterTypeOK
  <2>2. Len(pending') <= BufferMax
    <3>1. Len(pending) \in Nat /\ BufferMax \in Nat
      BY <1>0, Basics
    <3>2. Len(pending) <= BufferMax
      BY <1>0 DEF EmitterTypeOK
    <3>3. Len(pending') = Len(pending) - 1
      BY <1>3
    <3> QED BY <3>1, <3>2, <3>3
  <2>3. item' \in Event \cup {NoEvent} /\ (worker' = "posting" <=> item' # NoEvent)
    BY <1>2, <1>5
  <2>4. worker' \in WorkerStates
    BY <1>2 DEF WorkerStates
  <2> QED BY <1>0, <1>2, <1>3, <2>1, <2>2, <2>3, <2>4 DEF EmitterTypeOK
<1>7. NoTwins'
  <2> SUFFICES ASSUME NEW j \in 1..Len(pending'), NEW k \in 1..Len(pending'), pending'[j] = pending'[k]
               PROVE  j = k
    BY DEF NoTwins
  <2>1. PICK p \in 1..Len(pending) : pending'[j] = pending[p] /\ p = IF j < i THEN j ELSE j + 1
    BY <1>4
  <2>2. PICK q \in 1..Len(pending) : pending'[k] = pending[q] /\ q = IF k < i THEN k ELSE k + 1
    BY <1>4
  <2>3. p = q
    BY <1>0, <2>1, <2>2 DEF NoTwins
  <2> QED BY <1>1, <2>1, <2>2, <2>3
<1>8. \A j \in 1..Len(pending') : pending'[j] # item' /\ \E k \in 1..Len(pending) : pending'[j] = pending[k]
  BY <1>0, <1>1, <1>2, <1>4 DEF NoTwins
<1>9. StillHeld'
  BY <1>0, <1>2, <1>5, <1>8 DEF StillHeld, Pristine
<1>10. Tries'
  <2>1. /\ posts' \in [Event -> Nat] /\ posts'[pending[i]] = posts[pending[i]] + 1
        /\ \A e \in Event \ {pending[i]} : posts'[e] = posts[e]
    BY <1>0, <1>2, <1>5 DEF EmitterTypeOK
  <2>2. \A e \in Event \ emitted' : posts'[e] = 0 /\ attempts'[e] = 0
    BY <1>0, <1>2, <1>5, <2>1 DEF Tries, Pristine
  <2>3. \A j \in 1..Len(pending') :
           posts'[pending'[j]] = attempts'[pending'[j]] /\ attempts'[pending'[j]] < MaxAttempts
    BY <1>0, <1>2, <1>8, <2>1, Basics DEF Tries
  <2>4. posts'[item'] = attempts'[item'] + 1 /\ posts'[item'] <= MaxAttempts
    BY <1>0, <1>2, <1>5, <2>1, Basics
  <2> QED BY <2>2, <2>3, <2>4 DEF Tries
<1>11. Accounted'
  <2>1. Cardinality(InFlight') = 1 /\ Cardinality(InFlight) = 0
    BY <1>0, <1>2, <1>5, <1>6, Basics, CountOne DEF InFlight
  <2>2. Drops' = Drops
    BY <1>2 DEF Drops
  <2>3. Books /\ Books'
    BY <1>0, <1>6, BooksKept, BooksAfter
  <2>4. Sent' = Sent + 1
    BY <1>2, <2>1, <2>3 DEF Sent, Books
  <2>5. Unsent' = Unsent - 1
    <3>1. Len(pending') = Len(pending) - 1 /\ Len(pending) \in Nat /\ Drops \in Nat
      BY <1>3, <2>3 DEF Books
    <3>2. Unsent = Len(pending) + Drops /\ Unsent' = Len(pending') + Drops
      BY <2>2 DEF Unsent
    <3> QED BY <3>1, <3>2
  <2>6. Cardinality(emitted') = Sent' + Unsent'
    BY <1>0, <1>2, <2>3, <2>4, <2>5 DEF Books
  <2> QED BY <1>0, <1>2, <2>3, <2>6 DEF Books
<1>12. Closed' /\ closing # "closed"
  BY <1>0, <1>2 DEF Closed
<1>13. ASSUME NEW e \in Event, posts'[e] # posts[e]
       PROVE  posts'[e] <= MaxAttempts /\ e \notin acked /\ closing # "closed"
  <2>1. e = pending[i] /\ posts'[e] = posts[e] + 1
    BY <1>0, <1>2, <1>13 DEF EmitterTypeOK
  <2> QED BY <1>0, <1>5, <1>12, <2>1, Basics DEF Pristine
<1> QED BY <1>6, <1>7, <1>9, <1>10, <1>11, <1>12, <1>13 DEF EmitterInv

LEMMA PostSucceedsKeeps ==
    ASSUME EmitterInv, PostSucceeds
    PROVE  EmitterInv'
<1>0. EmitterTypeOK /\ NoTwins /\ StillHeld /\ Tries /\ Closed /\ Accounted
  BY DEF EmitterInv
<1>1. /\ item \in Event /\ item # NoEvent /\ item' = NoEvent /\ Pristine(item)
      /\ acked' = acked \cup {item} /\ worker = "posting" /\ worker' = "scanning"
      /\ UNCHANGED <<queue, wake, closing, dropped, emitted, posts, lost>>
  BY <1>0, Basics DEF PostSucceeds, EmitterTypeOK, StillHeld
<1>2. EmitterTypeOK'
  BY <1>0, <1>1 DEF EmitterTypeOK, queue, WorkerStates
<1>3. NoTwins'
  BY <1>0, <1>1 DEF NoTwins, queue
<1>4. StillHeld'
  BY <1>0, <1>1, Basics DEF StillHeld, Pristine, queue
<1>5. Tries'
  BY <1>0, <1>1 DEF Tries, queue
<1>6. Accounted'
  <2>1. Cardinality(acked') = Cardinality(acked) + 1
    BY <1>0, <1>1, Joins DEF Pristine, EmitterTypeOK
  <2>2. Cardinality(InFlight') = 0 /\ Cardinality(InFlight) = 1 /\ Drops' = Drops
    BY <1>0, <1>1, Basics, CountOne DEF InFlight, Drops
  <2>3. Books /\ Books'
    BY <1>0, <1>2, BooksKept, BooksAfter
  <2>4. Sent' = Sent
    BY <1>1, <2>1, <2>2, <2>3 DEF Sent, Books
  <2>5. Unsent' = Unsent
    BY <1>1, <2>2 DEF Unsent, queue
  <2>6. Cardinality(emitted') = Sent' + Unsent'
    BY <1>0, <1>1, <2>3, <2>4, <2>5 DEF Books
  <2> QED BY <1>0, <1>1, <2>3, <2>6 DEF Books
<1> QED BY <1>0, <1>1, <1>2, <1>3, <1>4, <1>5, <1>6 DEF EmitterInv, Closed, queue

LEMMA PostFailsKeeps ==
    ASSUME EmitterInv, PostFails
    PROVE  EmitterInv'
<1>0. EmitterTypeOK /\ NoTwins /\ StillHeld /\ Tries /\ Closed /\ Accounted
  BY DEF EmitterInv
<1>1. /\ item \in Event /\ item # NoEvent /\ item' = NoEvent /\ Pristine(item)
      /\ attempts' = [attempts EXCEPT ![item] = @ + 1]
      /\ worker = "posting" /\ worker' = "scanning"
      /\ UNCHANGED <<wake, closing, emitted, posts, acked, lost>>
  BY <1>0, Basics DEF PostFails, EmitterTypeOK, StillHeld, history
<1>2. /\ attempts' \in [Event -> Nat] /\ attempts'[item] = posts[item]
      /\ attempts'[item] = attempts[item] + 1
      /\ \A e \in Event \ {item} : attempts'[e] = attempts[e]
      /\ item \in emitted /\ posts[item] \in Nat /\ attempts[item] \in Nat
  BY <1>0, <1>1 DEF EmitterTypeOK, Tries, Pristine
<1>3. Cardinality(InFlight') = 0 /\ Cardinality(InFlight) = 1
  BY <1>0, <1>1, Basics, CountOne DEF InFlight
<1>4. \A i \in 1..Len(pending) : pending[i] # item
  BY <1>0, <1>1 DEF StillHeld
<1>5. Closed'
  <2>1. closing # "closed"
    BY <1>0, <1>1 DEF Closed
  <2> QED BY <1>1, <2>1 DEF Closed
<1>6. \A e \in Event \ emitted' : posts'[e] = 0 /\ attempts'[e] = 0
  BY <1>0, <1>1, <1>2 DEF Tries
<1>7. CASE GivesUp(item)
  <2>1. Dropped("max_attempts", 1) /\ UNCHANGED <<pending, backoff>>
    BY <1>7 DEF PostFails
  <2>2. dropped' \in [Reasons -> Nat] /\ Drops' = Drops + 1
    BY <1>0, <2>1, DropsGrow DEF EmitterTypeOK, Reasons
  <2>3. EmitterTypeOK' /\ NoTwins'
    BY <1>0, <1>1, <1>2, <2>1, <2>2 DEF EmitterTypeOK, NoTwins, WorkerStates
  <2>4. StillHeld'
    BY <1>0, <1>1, <2>1, Basics DEF StillHeld, Pristine
  <2>5. Tries'
    BY <1>0, <1>1, <1>2, <1>4, <1>6, <2>1, Basics DEF Tries
  <2>6. Accounted'
    <3>1. Books /\ Books'
      BY <1>0, <2>3, BooksKept, BooksAfter
    <3>2. Sent' = Sent - 1
      BY <1>1, <1>3, <3>1 DEF Sent, Books
    <3>3. Unsent' = Unsent + 1
      BY <2>1, <2>2, <3>1 DEF Unsent, Books
    <3>4. Cardinality(emitted') = Sent' + Unsent'
      BY <1>0, <1>1, <3>1, <3>2, <3>3 DEF Books
    <3> QED BY <1>0, <1>1, <3>1, <3>4 DEF Books
  <2> QED BY <1>5, <2>3, <2>4, <2>5, <2>6 DEF EmitterInv
<1>8. CASE ~ GivesUp(item)
  <2>1. Enqueue(item) /\ backoff' = backoff \cup {item}
    BY <1>8 DEF PostFails
  <2>2. /\ pending' \in Seq(Event) /\ Len(pending') <= BufferMax
        /\ dropped' \in [Reasons -> Nat]
        /\ NoTwins'
        /\ \A i \in 1..Len(pending') :
              pending'[i] = item \/ \E j \in 1..Len(pending) : pending'[i] = pending[j]
        /\ Unsent' = Unsent + 1
    BY <1>0, <1>1, <1>4, <2>1, EnqueueKeeps
  <2>3. attempts'[item] < MaxAttempts
    BY <1>2, <1>8, Basics, <1>0 DEF GivesUp
  <2>4. EmitterTypeOK'
    BY <1>0, <1>1, <1>2, <2>1, <2>2 DEF EmitterTypeOK, WorkerStates
  <2>5. StillHeld'
    <3>1. \A i \in 1..Len(pending') : Pristine(pending'[i])
      BY <1>0, <1>1, <2>2 DEF StillHeld
    <3>2. \A i \in 1..Len(pending') : pending'[i] # NoEvent
      BY <2>4, Basics, <1>0, ElementOfSeq DEF EmitterTypeOK
    <3> QED BY <1>0, <1>1, <3>1, <3>2 DEF StillHeld, Pristine
  <2>6. Tries'
    <3>1. \A i \in 1..Len(pending') :
             posts'[pending'[i]] = attempts'[pending'[i]] /\ attempts'[pending'[i]] < MaxAttempts
      <4> SUFFICES ASSUME NEW i \in 1..Len(pending')
                   PROVE  posts[pending'[i]] = attempts'[pending'[i]] /\ attempts'[pending'[i]] < MaxAttempts
        BY <1>1
      <4>1. CASE pending'[i] = item
        BY <1>2, <2>3, <4>1
      <4>2. CASE \E j \in 1..Len(pending) : pending'[i] = pending[j]
        BY <1>0, <1>2, <1>4, <4>2, Basics DEF Tries
      <4> QED BY <2>2, <4>1, <4>2
    <3> QED BY <1>1, <1>6, <3>1 DEF Tries
  <2>7. Accounted'
    <3>1. Books /\ Books'
      BY <1>0, <2>4, BooksKept, BooksAfter
    <3>2. Sent' = Sent - 1
      BY <1>1, <1>3, <3>1 DEF Sent, Books
    <3>3. Cardinality(emitted') = Sent' + Unsent'
      BY <1>0, <1>1, <2>2, <3>1, <3>2 DEF Books
    <3> QED BY <1>0, <1>1, <3>1, <3>3 DEF Books
  <2> QED BY <1>5, <2>2, <2>4, <2>5, <2>6, <2>7 DEF EmitterInv
<1> QED BY <1>7, <1>8

LEMMA CancelKeeps ==
    ASSUME EmitterInv, DrainDone \/ DrainTimeout
    PROVE  EmitterInv'
<1>0. EmitterTypeOK /\ NoTwins /\ StillHeld /\ Tries /\ Closed /\ Accounted
  BY DEF EmitterInv
<1>1. /\ closing = "draining" /\ closing' = "closed" /\ worker' = "cancelled"
      /\ lost' = IF item = NoEvent THEN lost ELSE lost \cup {item}
      /\ item' = NoEvent /\ pending' = <<>>
      /\ UNCHANGED <<backoff, attempts, wake, emitted, posts, acked>>
  BY DEF DrainDone, DrainTimeout, CancelWorker, Clear, queue
<1>2. Len(pending') = 0
  BY <1>1, EmptySeq
<1>3. dropped' \in [Reasons -> Nat] /\ Drops' = Drops + Len(pending)
  <2>1. CASE DrainDone
    <3>1. dropped' = dropped /\ Len(pending) = 0
      BY <2>1, EmptySeq DEF DrainDone, queue
    <3> QED BY <1>0, <3>1, Basics DEF Drops, EmitterTypeOK
  <2>2. CASE DrainTimeout
    <3>1. Dropped("shutdown_timeout", Len(pending))
      BY <2>2 DEF DrainTimeout, Clear
    <3> QED BY <1>0, <3>1, Basics, DropsGrow DEF EmitterTypeOK, Reasons
  <2> QED BY <2>1, <2>2
<1>4. /\ Cardinality(InFlight') = 0 /\ lost' \subseteq Event
      /\ Cardinality(lost') = Cardinality(lost) + Cardinality(InFlight)
  <2>1. lost = {} /\ Cardinality(lost) = 0
    BY <1>0, <1>1, FS_EmptySet DEF Accounted
  <2>2. Cardinality(lost') = IF item = NoEvent THEN 0 ELSE 1
    BY <1>1, <2>1, FS_Singleton
  <2> QED BY <1>0, <1>1, <2>1, <2>2, Basics, CountOne DEF InFlight, EmitterTypeOK
<1>5. EmitterTypeOK' /\ NoTwins' /\ Closed'
  <2>1. pending' \in Seq(Event) /\ Len(pending') <= BufferMax
    BY <1>1, <1>2, Basics, <1>0, EmptySeq
  <2> QED BY <1>0, <1>1, <1>2, <1>3, <1>4, <2>1 DEF EmitterTypeOK, NoTwins, Closed, WorkerStates
<1>6. StillHeld' /\ Tries'
  BY <1>0, <1>1, <1>2 DEF StillHeld, Tries, Pristine
<1>7. Accounted'
  <2>1. Cardinality(lost') <= 1
    <3>1. lost = {} /\ Cardinality(lost) = 0
      BY <1>0, <1>1, FS_EmptySet DEF Accounted
    <3> QED BY <1>0, <1>4, <3>1, Basics
  <2>2. Books /\ Books'
    BY <1>0, <1>5, BooksKept, BooksAfter
  <2>3. Sent' = Sent
    BY <1>1, <1>4, <2>2 DEF Sent, Books
  <2>4. Unsent' = Unsent
    BY <1>2, <1>3, <2>2 DEF Unsent, Books
  <2>5. Cardinality(emitted') = Sent' + Unsent'
    BY <1>0, <1>1, <2>2, <2>3, <2>4 DEF Books
  <2> QED BY <1>1, <2>1, <2>2, <2>5 DEF Books
<1> QED BY <1>5, <1>6, <1>7 DEF EmitterInv

\* The steps that touch no event.
LEMMA OthersKeep ==
    ASSUME EmitterInv,
           \/ FallAsleep \/ WakeUp \/ StartClose \/ DrainPoll
           \/ (\E e \in Event : BackoffEnds(e))
           \/ UNCHANGED emitterVars
    PROVE  EmitterInv'
<1>0. EmitterTypeOK /\ NoTwins /\ StillHeld /\ Tries /\ Closed /\ Accounted
  BY DEF EmitterInv
<1>1. /\ UNCHANGED <<pending, attempts, item, dropped, emitted, posts, acked, lost>>
      /\ backoff' \subseteq Event /\ wake' \in BOOLEAN
      /\ \/ UNCHANGED <<worker, closing>>
         \/ UNCHANGED closing /\ worker \in {"scanning", "asleep"} /\ worker' \in {"scanning", "asleep"}
         \/ UNCHANGED worker /\ closing = "no" /\ closing' = "draining"
  BY <1>0 DEF FallAsleep, WakeUp, StartClose, DrainPoll, BackoffEnds, emitterVars, queue, history,
              EmitterTypeOK
<1>2. EmitterTypeOK' /\ Closed'
  BY <1>0, <1>1 DEF EmitterTypeOK, Closed, WorkerStates
<1>3. NoTwins' /\ StillHeld' /\ Tries'
  BY <1>0, <1>1 DEF NoTwins, StillHeld, Pristine, Tries
<1>4. Accounted'
  BY <1>0, <1>1 DEF Accounted, InFlight, Drops
<1> QED BY <1>2, <1>3, <1>4 DEF EmitterInv

-----------------------------------------------------------------------------
LEMMA EmitterStarts == EmitterInit => EmitterInv
<1> SUFFICES ASSUME EmitterInit PROVE EmitterInv
  OBVIOUS
<1>1. pending \in Seq(Event) /\ Len(pending) = 0
  BY EmptySeq DEF EmitterInit
<1>2. EmitterTypeOK
  <2>1. Len(pending) <= BufferMax
    BY <1>1, UsageAssumption DEF UsageAssumption
  <2>2. /\ attempts \in [Event -> Nat] /\ posts \in [Event -> Nat] /\ dropped \in [Reasons -> Nat]
    BY DEF EmitterInit
  <2>3. /\ backoff \subseteq Event /\ emitted \subseteq Event /\ acked \subseteq Event
        /\ lost \subseteq Event /\ wake \in BOOLEAN
        /\ item = NoEvent /\ worker = "scanning" /\ closing = "no"
    BY DEF EmitterInit
  <2> QED BY <1>1, <2>1, <2>2, <2>3 DEF EmitterTypeOK, WorkerStates
<1>5. NoTwins /\ StillHeld /\ Tries /\ Closed
  BY <1>1 DEF EmitterInit, NoTwins, StillHeld, Tries, Closed
<1>3. InFlight = {} /\ Drops = 0
  BY DEF EmitterInit, InFlight, Drops, Reasons
<1>4. Accounted
  BY <1>1, <1>3, FS_EmptySet DEF EmitterInit, Accounted
<1> QED BY <1>2, <1>4, <1>5 DEF EmitterInv

\* The step of PostedWithinAttempts.
PostAllowed ==
    \A e \in Event : posts'[e] # posts[e] =>
        posts'[e] <= MaxAttempts /\ e \notin acked /\ closing # "closed"

LEMMA EmitterStep == EmitterInv /\ [EmitterNext]_emitterVars => EmitterInv' /\ PostAllowed
<1> SUFFICES ASSUME EmitterInv, [EmitterNext]_emitterVars PROVE EmitterInv' /\ PostAllowed
  OBVIOUS
<1>1. CASE \E e \in Event : Emit(e)
  BY <1>1, EmitKeeps DEF Emit, PostAllowed
<1>2. CASE Take
  BY <1>2, TakeKeeps DEF PostAllowed
<1>3. CASE PostSucceeds
  BY <1>3, PostSucceedsKeeps DEF PostSucceeds, PostAllowed
<1>4. CASE PostFails
  BY <1>4, PostFailsKeeps DEF PostFails, history, PostAllowed
<1>5. CASE DrainDone \/ DrainTimeout
  BY <1>5, CancelKeeps DEF DrainDone, DrainTimeout, PostAllowed
<1>6. CASE \/ FallAsleep \/ WakeUp \/ StartClose \/ DrainPoll
           \/ (\E e \in Event : BackoffEnds(e))
           \/ UNCHANGED emitterVars
  <2>1. posts' = posts
    BY <1>6 DEF FallAsleep, WakeUp, StartClose, DrainPoll, BackoffEnds, emitterVars, history
  <2> QED BY <1>6, <2>1, OthersKeep DEF PostAllowed
<1> QED BY <1>1, <1>2, <1>3, <1>4, <1>5, <1>6 DEF EmitterNext, Worker

LEMMA EmitterInvHolds == EmitterSpec => []EmitterInv
BY EmitterStarts, EmitterStep, PTL DEF EmitterSpec

\* The deque keeps its limit and the worker holds an event exactly while it posts.
THEOREM EmitterTypeCorrect == EmitterSpec => []EmitterTypeOK
BY EmitterInvHolds, PTL DEF EmitterInv

\* However overflows, retries and the drain come together, every event that was
\* handed to emit() is confirmed, queued, being posted, counted as dropped, or the
\* one the shutdown took out of the worker's hands (UsageEventEmitter).
THEOREM NoEventVanishes == EmitterSpec => []Accounted
BY EmitterInvHolds, PTL DEF EmitterInv

\* The webhook sees no event more often than configured, and none again after it
\* was confirmed or the gateway closed (_deliver and the requeue).
THEOREM PostsAreBounded == EmitterSpec => PostedWithinAttempts
<1>1. EmitterInv /\ [EmitterNext]_emitterVars =>
        [\A e \in Event : posts'[e] # posts[e] =>
            /\ posts'[e] <= MaxAttempts
            /\ e \notin acked
            /\ closing # "closed"]_emitterVars
  BY EmitterStep DEF PostAllowed
<1> QED BY <1>1, EmitterInvHolds, PTL DEF EmitterSpec, PostedWithinAttempts

\* A step leaves in the deque and in the worker's hands only what was there, or
\* the event that is emitted by it.
NothingReturns ==
    \A e \in emitted : e \in (ToSet(pending) \cup InFlight)' => e \in ToSet(pending) \cup InFlight

\* What it means that the emitter has an event.
HeldTerms ==
    /\ \A e : e \in ToSet(pending) <=> \E i \in 1..Len(pending) : pending[i] = e
    /\ \A e \in Event : e \in InFlight <=> e = item

LEMMA HeldMeans == EmitterTypeOK => HeldTerms
<1> SUFFICES ASSUME EmitterTypeOK PROVE HeldTerms
  OBVIOUS
<1>1. DOMAIN pending = 1..Len(pending)
  BY LenProperties DEF EmitterTypeOK
<1> QED BY <1>1, UsageAssumption DEF HeldTerms, ToSet, InFlight, UsageAssumption

LEMMA HeldMeansAfter == EmitterTypeOK' => HeldTerms'
BY HeldMeans, PTL

LEMMA SettledStays ==
    ASSUME EmitterInv, [EmitterNext]_emitterVars
    PROVE  NothingReturns
<1>0. EmitterTypeOK /\ NoTwins /\ StillHeld /\ EmitterTypeOK'
  BY EmitterStep DEF EmitterInv
<1> SUFFICES ASSUME NEW e \in emitted, e \in (ToSet(pending) \cup InFlight)'
             PROVE  e \in ToSet(pending) \cup InFlight
  BY DEF NothingReturns
<1>1. e \in Event
  BY <1>0 DEF EmitterTypeOK
<1>2. (\E i \in 1..Len(pending') : pending'[i] = e) \/ e = item'
  BY <1>0, <1>1, HeldMeansAfter DEF HeldTerms
<1>3. SUFFICES (\E i \in 1..Len(pending) : pending[i] = e) \/ e = item
  BY <1>0, <1>1, HeldMeans DEF HeldTerms
<1>4. ASSUME NEW x \in Event, Enqueue(x), x = item \/ x \notin emitted,
             \A i \in 1..Len(pending) : pending[i] # x,
             NEW i \in 1..Len(pending'), pending'[i] = e
      PROVE  (\E j \in 1..Len(pending) : pending[j] = e) \/ e = item
  <2>1. pending'[i] = x \/ \E j \in 1..Len(pending) : pending'[i] = pending[j]
    BY <1>0, <1>4, EnqueueKeeps
  <2> QED BY <1>4, <2>1
<1>5. CASE \E x \in Event : Emit(x)
  <2>1. PICK x \in Event : Emit(x)
    BY <1>5
  <2>2. x \notin emitted /\ item' = item /\ \A i \in 1..Len(pending) : pending[i] # x
    BY <1>0, <2>1 DEF Emit, StillHeld, Pristine
  <2>3. Enqueue(x) \/ pending' = pending
    BY <2>1 DEF Emit
  <2> QED BY <1>2, <1>4, <2>2, <2>3
<1>6. CASE Take
  <2>1. FirstDue \in 1..Len(pending)
    <3>1. Due \in SUBSET Nat /\ Due # {} /\ Due \subseteq 1..Len(pending)
      BY <1>0, <1>6, Basics, LenProperties DEF Take, Due
    <3>2. FirstDue \in Due
      BY <3>1, FirstExists DEF FirstDue
    <3> QED BY <3>1, <3>2
  <2>2. pending' = Without(pending, FirstDue) /\ item' = pending[FirstDue]
    BY <1>6 DEF Take, RemoveAt, Without
  <2>3. Members(pending') \subseteq Members(pending)
    BY <1>0, <2>1, <2>2, Departed, Basics DEF NoTwins, Distinct
  <2>4. ASSUME NEW i \in 1..Len(pending'), pending'[i] = e
        PROVE  \E j \in 1..Len(pending) : pending[j] = e
    BY <1>0, <2>3, <2>4, QueueElements DEF EmitterTypeOK
  <2> QED BY <1>2, <2>1, <2>2, <2>4
<1>7. CASE PostFails
  <2>1. /\ item \in Event /\ item' = NoEvent /\ NoEvent \notin Event
        /\ \A i \in 1..Len(pending) : pending[i] # item
    BY <1>0, <1>7, Basics DEF PostFails, EmitterTypeOK, StillHeld
  <2>2. Enqueue(item) \/ pending' = pending
    BY <1>7 DEF PostFails
  <2> QED BY <1>1, <1>2, <1>4, <2>1, <2>2
<1>8. CASE DrainDone \/ DrainTimeout
  <2>1. pending' = <<>> /\ Len(pending') = 0 /\ item' = NoEvent
    BY <1>8, EmptySeq DEF DrainDone, DrainTimeout, CancelWorker, Clear, queue
  <2> QED BY <1>1, <1>2, <2>1, UsageAssumption DEF UsageAssumption
<1>9. CASE PostSucceeds
  <2>1. pending' = pending /\ item' = NoEvent
    BY <1>9 DEF PostSucceeds, queue
  <2> QED BY <1>1, <1>2, <2>1, UsageAssumption DEF UsageAssumption
<1>10. CASE \/ FallAsleep \/ WakeUp \/ StartClose \/ DrainPoll
            \/ (\E x \in Event : BackoffEnds(x))
            \/ UNCHANGED emitterVars
  <2>1. pending' = pending /\ item' = item
    BY <1>10 DEF FallAsleep, WakeUp, StartClose, DrainPoll, BackoffEnds, emitterVars, queue
  <2> QED BY <1>2, <2>1
<1> QED BY <1>5, <1>6, <1>7, <1>8, <1>9, <1>10 DEF EmitterNext, Worker

\* An event that was confirmed, dropped or lost is never queued or posted again:
\* the part of EventSettles that is a matter of safety.
THEOREM SettledIsFinal == EmitterSpec => NeverReturns
<1>1. EmitterInv /\ [EmitterNext]_emitterVars =>
        [\A e \in emitted : e \notin ToSet(pending) \cup InFlight =>
                             e \notin (ToSet(pending) \cup InFlight)']_emitterVars
  BY SettledStays DEF NothingReturns
<1> QED BY <1>1, EmitterInvHolds, PTL DEF EmitterSpec, NeverReturns

-----------------------------------------------------------------------------
(* The inductive invariant of the health record                            *)

\* A report that has read is not written yet, and what it read is behind the
\* reports by no more than the overlapped ones.
HalfDone ==
    \A c \in Reading :
        /\ backend = "redis"
        /\ copy[c][1] <= Cardinality(recorded)
        /\ Cardinality(recorded) <= copy[c][1] + Cardinality(overlapped)

\* The calls that have reported are over.
ReportsAreLast == \A c \in recorded : call[c] \in {"served", "failed"}

HealthInv == HealthTypeOK /\ HalfDone /\ ReportsAreLast /\ CountWithinOverlap

-----------------------------------------------------------------------------
(* The inductive invariant of the decisions                                *)

\* The keys in memory are those of stored requests, and hold a decision.
Filed ==
    /\ \A n \in 1..Len(order) :
          /\ \E c \in Call : stage[c] = "stored" /\ order[n] = KeyOf(c)
          /\ decision[order[n]] # Nobody
    /\ backend = "redis" => order = <<>>
    /\ backend = "memory" => \A c \in Call : patch[c] \in {"none", "sent", "done"}

\* The index names the tenant of a stored request with that id.
IndexNames ==
    \A i \in Ids : index[i][2] # 0 =>
        \E c \in Call : stage[c] = "stored" /\ Id[c] = i /\ index[i][1] = Tenant[c]

\* A patch that looked after its request was stored has found its record, and one
\* that was sent to an unscoped key came too early.
Targets ==
    \A c \in Call :
        /\ stage[c] = "running" => patch[c] = "none"
        /\ backend = "redis" /\ patch[c] \in {"found", "written", "done"} =>
              /\ (stage[c] = "stored" /\ c \notin early /\ Alone(c)) => target[c] = KeyOf(c)
              /\ target[c][1] = Legacy => c \in early
        /\ c \in missed =>
              /\ patch[c] \in {"written", "done", "failed"}
              /\ target[c][1] = Legacy => c \in early

\* ShadowVisible, from the patch's write on and whether or not the record of
\* Redis lives.
Shown(c) ==
    /\ stage[c] = "stored" /\ patch[c] \in {"written", "done"}
    /\ c \notin early /\ Alone(c) /\ decision[KeyOf(c)] = c
    /\ backend = "redis" \/ KeyOf(c) \in ToSet(order)

ShadowWritten == \A c \in Call : Shown(c) => shadow[KeyOf(c)] # Nobody

\* HalfRecordsExplained, whether or not the record of Redis lives.
HalfRecords ==
    \A k \in Key : backend = "redis" /\ until[k] # 0 /\ decision[k] = Nobody =>
        \E c \in missed : target[c] = k /\ (k[1] = Legacy => c \in early)

DecisionInv ==
    /\ backend \in {"redis", "memory"} /\ DecisionTypeOK
    /\ Filed /\ IndexNames /\ Targets /\ ShadowWritten /\ HalfRecords

-----------------------------------------------------------------------------
(* One step of the health record                                           *)

LEMMA Reports ==
    ASSUME NEW S \in SUBSET Call
    PROVE  /\ Cardinality(S) \in Nat
           /\ \A c \in Call \ S : Cardinality(S \cup {c}) = Cardinality(S) + 1
           /\ \A c \in S : S \cup {c} = S
<1>1. IsFiniteSet(S)
  BY FS_Subset, HealthAssumption DEF HealthAssumption
<1> QED BY <1>1, FS_AddElement, FS_CardinalityType

LEMMA HealthStarts ==
    ASSUME HealthInit
    PROVE  HealthInv
<1>1. Cardinality({}) = 0
  BY FS_EmptySet
<1>2. HealthTypeOK
  BY HealthAssumption DEF HealthInit, HealthTypeOK, HealthAssumption
<1>3. Reading = {}
  BY DEF HealthInit, Reading
<1> QED BY <1>1, <1>2, <1>3 DEF HealthInv, HalfDone, ReportsAreLast, CountWithinOverlap, HealthInit

\* A step that writes no report and lets no report read.
LEMMA NoReport ==
    ASSUME HealthInv, HealthTypeOK',
           UNCHANGED <<backend, count, recorded, overlapped>>,
           \A c \in Reading' : c \in Reading /\ copy'[c] = copy[c],
           \A c \in recorded : call'[c] = call[c]
    PROVE  HealthInv'
<1>1. HalfDone'
  BY DEF HealthInv, HalfDone
<1>2. ReportsAreLast' /\ CountWithinOverlap'
  BY DEF HealthInv, ReportsAreLast, CountWithinOverlap
<1> QED BY <1>1, <1>2 DEF HealthInv

LEMMA ReadKeeps ==
    ASSUME HealthInv, NEW c \in Call, Read(c)
    PROVE  HealthInv'
<1>1. /\ backend = "redis" /\ call[c] = "answered"
      /\ call' = [call EXCEPT ![c] = "read"]
      /\ copy' = [copy EXCEPT ![c] = <<count, streak>>]
      /\ UNCHANGED <<backend, count, streak, recorded, overlapped>>
  BY DEF Read, healthRecord
<1>2. HealthTypeOK'
  BY DEF HealthInv, HealthTypeOK, Read, healthRecord, probes
<1>3. HalfDone'
  <2> SUFFICES ASSUME NEW d \in Reading'
               PROVE  /\ backend' = "redis"
                      /\ copy'[d][1] <= Cardinality(recorded')
                      /\ Cardinality(recorded') <= copy'[d][1] + Cardinality(overlapped')
    BY DEF HalfDone
  <2>1. d \in Call /\ call'[d] = "read"
    BY DEF Reading
  <2>2. CASE d = c
    <3>1. copy'[d][1] = count
      BY <1>1, <2>2 DEF HealthInv, HealthTypeOK
    <3> QED BY <1>1, <3>1 DEF HealthInv, CountWithinOverlap
  <2>3. CASE d # c
    <3>1. d \in Reading /\ copy'[d] = copy[d]
      BY <1>1, <2>1, <2>3 DEF HealthInv, HealthTypeOK, Reading
    <3> QED BY <1>1, <3>1 DEF HealthInv, HalfDone
  <2> QED BY <2>2, <2>3
<1>4. ReportsAreLast'
  <2>1. c \notin recorded
    BY <1>1 DEF HealthInv, ReportsAreLast
  <2> QED BY <1>1, <2>1 DEF HealthInv, ReportsAreLast, HealthTypeOK
<1>5. CountWithinOverlap'
  BY <1>1 DEF HealthInv, CountWithinOverlap
<1> QED BY <1>2, <1>3, <1>4, <1>5 DEF HealthInv

\* The step that ends a report, in either store: what it writes is at most one
\* behind what it missed.
LEMMA ReportedKeeps ==
    ASSUME HealthInv, NEW c \in Call, Reported(c), HealthTypeOK',
           call[c] \in {"answered", "read"},
           NEW base \in Nat, count' = base + 1,
           base <= Cardinality(recorded), Cardinality(recorded) <= base + Cardinality(overlapped),
           backend = "memory" \/ backend = "redis"
    PROVE  HealthInv'
<1>1. /\ call' = [call EXCEPT ![c] = IF ok[c] THEN "served" ELSE "failed"]
      /\ recorded' = recorded \cup {c}
      /\ overlapped' = IF Reading \ {c} # {} THEN overlapped \cup {c} ELSE overlapped
      /\ copy' = [copy EXCEPT ![c] = <<0, 0>>]
      /\ backend' = backend
  BY DEF Reported, Forget
<1>2. c \notin recorded /\ c \notin overlapped /\ recorded \subseteq Call /\ overlapped \subseteq Call
  BY DEF HealthInv, HealthTypeOK, ReportsAreLast
<1>3. /\ Cardinality(recorded) \in Nat /\ Cardinality(overlapped) \in Nat
      /\ Cardinality(recorded') = Cardinality(recorded) + 1
      /\ Cardinality(overlapped') = IF Reading \ {c} # {} THEN Cardinality(overlapped) + 1
                                    ELSE Cardinality(overlapped)
  BY <1>1, <1>2, Reports
<1>4. HalfDone'
  <2> SUFFICES ASSUME NEW d \in Reading'
               PROVE  /\ backend' = "redis"
                      /\ copy'[d][1] <= Cardinality(recorded')
                      /\ Cardinality(recorded') <= copy'[d][1] + Cardinality(overlapped')
    BY DEF HalfDone
  <2>1. d \in Reading /\ d # c /\ copy'[d] = copy[d]
    BY <1>1 DEF HealthInv, HealthTypeOK, Reading
  <2>2. copy[d][1] \in Nat
    BY <2>1 DEF HealthInv, HealthTypeOK, Reading
  <2>3. /\ backend = "redis"
        /\ copy[d][1] <= Cardinality(recorded)
        /\ Cardinality(recorded) <= copy[d][1] + Cardinality(overlapped)
    BY <2>1 DEF HealthInv, HalfDone
  <2>4. Cardinality(overlapped') = Cardinality(overlapped) + 1
    BY <1>3, <2>1
  <2> QED BY <1>1, <1>3, <2>1, <2>2, <2>3, <2>4
<1>5. ReportsAreLast'
  <2> SUFFICES ASSUME NEW d \in recorded'
               PROVE  call'[d] \in {"served", "failed"}
    BY DEF ReportsAreLast
  <2> QED BY <1>1, <1>2 DEF HealthInv, HealthTypeOK, ReportsAreLast
<1>6. CountWithinOverlap'
  <2>1. count' <= Cardinality(recorded') /\ Cardinality(recorded') <= count' + Cardinality(overlapped')
    BY <1>3
  <2>2. backend = "memory" => Reading = {} /\ overlapped = {}
    BY DEF HealthInv, HalfDone, CountWithinOverlap
  <2> QED BY <1>1, <2>1, <2>2 DEF CountWithinOverlap
<1> QED BY <1>4, <1>5, <1>6 DEF HealthInv

LEMMA StreakInRange ==
    ASSUME HealthTypeOK, NEW c \in Call, NEW n \in 0..Cap
    PROVE  StreakAfter(c, n) \in 0..Cap
BY HealthAssumption DEF HealthAssumption, HealthTypeOK, StreakAfter

LEMMA ReportTypes ==
    ASSUME HealthTypeOK, NEW c \in Call, Reported(c), count' \in Nat, streak' \in 0..Cap
    PROVE  HealthTypeOK'
<1>1. <<0, 0>> \in Nat \X (0..Cap)
  BY HealthAssumption DEF HealthAssumption
<1>2. copy' \in [Call -> Nat \X (0..Cap)] /\ ok' \in [Call -> BOOLEAN]
  BY <1>1 DEF HealthTypeOK, Reported, Forget
<1>3. recorded' \subseteq Call /\ overlapped' \subseteq recorded'
  BY DEF HealthTypeOK, Reported
<1>4. call' \in [Call -> {"new", "sent", "elsewhere", "answered", "read", "served", "failed"}]
  BY DEF HealthTypeOK, Reported
<1> QED BY <1>2, <1>3, <1>4 DEF HealthTypeOK, Reported, probes

LEMMA WriteKeeps ==
    ASSUME HealthInv, NEW c \in Call, Write(c)
    PROVE  HealthInv'
<1>1. copy[c][1] \in Nat /\ copy[c][2] \in 0..Cap /\ c \in Reading /\ HealthTypeOK
  BY DEF HealthInv, HealthTypeOK, Write, Reading
<1>2. HealthTypeOK'
  <2>1. count' \in Nat /\ streak' \in 0..Cap
    BY <1>1, StreakInRange DEF Write
  <2>2. Reported(c)
    BY DEF Write
  <2> QED BY <1>1, <2>1, <2>2, ReportTypes
<1>3. /\ backend = "redis"
      /\ copy[c][1] <= Cardinality(recorded)
      /\ Cardinality(recorded) <= copy[c][1] + Cardinality(overlapped)
  BY <1>1 DEF HealthInv, HalfDone
<1> QED BY <1>1, <1>2, <1>3, ReportedKeeps DEF Write

LEMMA RecordKeeps ==
    ASSUME HealthInv, NEW c \in Call, Record(c)
    PROVE  HealthInv'
<1>1. count \in Nat /\ streak \in 0..Cap /\ HealthTypeOK
  BY DEF HealthInv, HealthTypeOK
<1>2. HealthTypeOK'
  <2>1. count' \in Nat /\ streak' \in 0..Cap
    BY <1>1, StreakInRange DEF Record
  <2>2. Reported(c)
    BY DEF Record
  <2> QED BY <1>1, <2>1, <2>2, ReportTypes
<1>3. count <= Cardinality(recorded) /\ Cardinality(recorded) <= count + Cardinality(overlapped)
  BY DEF HealthInv, CountWithinOverlap
<1> QED BY <1>1, <1>2, <1>3, ReportedKeeps DEF Record

LEMMA HealthStep ==
    ASSUME HealthInv, HealthNext
    PROVE  HealthInv'
<1> USE DEF healthRecord, calls, probes
<1>0. HealthTypeOK /\ ReportsAreLast
  BY DEF HealthInv
<1>1. CASE Fails \/ Recovers
  <2>1. HealthTypeOK'
    BY <1>0, <1>1 DEF Fails, Recovers, HealthTypeOK
  <2> QED BY <1>1, <2>1, NoReport DEF Fails, Recovers, Reading
<1>2. ASSUME NEW c \in Call, Choose(c)
      PROVE  HealthInv'
  <2>1. HealthTypeOK'
    BY <1>0, <1>2 DEF Choose, HealthTypeOK
  <2>2. \A d \in Reading' : d \in Reading /\ copy'[d] = copy[d]
    BY <1>0, <1>2 DEF Choose, HealthTypeOK, Reading
  <2>3. \A d \in recorded : call'[d] = call[d]
    BY <1>0, <1>2 DEF Choose, HealthTypeOK, ReportsAreLast
  <2> QED BY <1>2, <2>1, <2>2, <2>3, NoReport DEF Choose
<1>3. ASSUME NEW c \in Call, Answer(c)
      PROVE  HealthInv'
  <2>1. HealthTypeOK'
    BY <1>0, <1>3 DEF Answer, HealthTypeOK
  <2>2. \A d \in Reading' : d \in Reading /\ copy'[d] = copy[d]
    BY <1>0, <1>3 DEF Answer, HealthTypeOK, Reading
  <2>3. \A d \in recorded : call'[d] = call[d]
    BY <1>0, <1>3 DEF Answer, HealthTypeOK, ReportsAreLast
  <2> QED BY <1>3, <2>1, <2>2, <2>3, NoReport DEF Answer
<1>4. ASSUME NEW c \in Call, ReportFails(c)
      PROVE  HealthInv'
  <2>1. HealthTypeOK'
    BY <1>0, <1>4, HealthAssumption DEF HealthAssumption, ReportFails, Forget, HealthTypeOK
  <2>2. \A d \in Reading' : d \in Reading /\ copy'[d] = copy[d]
    BY <1>0, <1>4 DEF ReportFails, Forget, HealthTypeOK, Reading
  <2>3. \A d \in recorded : call'[d] = call[d]
    BY <1>0, <1>4 DEF ReportFails, HealthTypeOK, ReportsAreLast
  <2> QED BY <1>4, <2>1, <2>2, <2>3, NoReport DEF ReportFails
<1>5. ASSUME NEW g \in Replica, SendProbe(g) \/ StoreProbe(g) \/ LoopDies(g)
      PROVE  HealthInv'
  <2>1. HealthTypeOK'
    <3>1. CASE SendProbe(g)
      BY <1>0, <3>1 DEF SendProbe, HealthTypeOK
    <3>2. CASE StoreProbe(g)
      BY <1>0, <3>2 DEF StoreProbe, HealthTypeOK
    <3>3. CASE LoopDies(g)
      BY <1>0, <3>3 DEF LoopDies, HealthTypeOK
    <3> QED BY <1>5, <3>1, <3>2, <3>3
  <2>2. UNCHANGED <<backend, count, calls, recorded, overlapped>>
    BY <1>5 DEF SendProbe, StoreProbe, LoopDies
  <2> QED BY <2>1, <2>2, NoReport DEF Reading
<1> QED BY <1>1, <1>2, <1>3, <1>4, <1>5, ReadKeeps, WriteKeeps, RecordKeeps
        DEF HealthNext, CallStep

LEMMA HealthRests ==
    ASSUME HealthInv, UNCHANGED healthVars
    PROVE  HealthInv'
BY DEF HealthInv, HealthTypeOK, HalfDone, Reading, ReportsAreLast, CountWithinOverlap,
       healthVars, healthRecord, calls, probes

-----------------------------------------------------------------------------
(* One step of the decisions                                               *)

LEMMA Keys ==
    ASSUME NEW c \in Call
    PROVE  /\ KeyOf(c) \in Key /\ KeyOf(c)[1] = Tenant[c] /\ KeyOf(c)[2] = Id[c]
           /\ Tenant[c] # Legacy /\ c # Nobody
           /\ Id[c] \in Ids /\ <<Legacy, Id[c]>> \in Key
BY DecisionAssumption DEF DecisionAssumption, KeyOf, Key, Ids

LEMMA Listed ==
    ASSUME NEW S, NEW s \in Seq(S), NEW x
    PROVE  x \in ToSet(s) <=> \E n \in 1..Len(s) : s[n] = x
BY LenProperties DEF ToSet

\* The record a patch finds in memory is the first with its id.
LEMMA NamedFirst ==
    ASSUME NEW i, order \in Seq(Key), Named(i) # {}
    PROVE  FirstNamed(i) \in 1..Len(order) /\ order[FirstNamed(i)][2] = i
<1>1. Named(i) \in SUBSET Nat /\ Named(i) \subseteq 1..Len(order)
  BY LenProperties DEF Named
<1>2. FirstNamed(i) \in Named(i)
  BY <1>1, FirstExists DEF FirstNamed
<1> QED BY <1>1, <1>2 DEF Named

\* What put() does to the order: nothing is in it that was not, but the key.
LEMMA Ordered ==
    ASSUME order \in Seq(Key), Len(order) <= MaxEntries, NEW k \in Key, PutMemory(k)
    PROVE  /\ order' \in Seq(Key) /\ Len(order') <= MaxEntries
           /\ \A n \in 1..Len(order') : order'[n] = k \/ \E m \in 1..Len(order) : order'[n] = order[m]
<1>0. Len(order) \in Nat /\ MaxEntries \in Nat
  BY LenProperties, DecisionAssumption DEF DecisionAssumption
<1>1. CASE order' = order
  BY <1>1
<1>2. CASE order' = Evict(Append(order, k))
  <2> DEFINE s == Append(order, k)
  <2>1. /\ s \in Seq(Key) /\ Len(s) = Len(order) + 1
        /\ \A n \in 1..Len(order) : s[n] = order[n]
        /\ s[Len(order) + 1] = k
    BY AppendProperties
  <2> HIDE DEF s
  <2>2. CASE Len(s) > MaxEntries
    <3>1. order' = Tail(s)
      BY <1>2, <2>2 DEF Evict, s
    <3>2. s # <<>> /\ Tail(s) \in Seq(Key) /\ Len(Tail(s)) = Len(order)
          /\ \A n \in 1..Len(Tail(s)) : Tail(s)[n] = s[n + 1]
      BY <1>0, <2>1, EmptySeq, HeadTailProperties
    <3>3. \A n \in 1..Len(order) : n + 1 = Len(order) + 1 \/ n + 1 \in 1..Len(order)
      BY <1>0
    <3> QED BY <1>0, <2>1, <3>1, <3>2, <3>3
  <2>3. CASE ~(Len(s) > MaxEntries)
    <3>1. order' = s
      BY <1>2, <2>3 DEF Evict, s
    <3>2. \A n \in 1..Len(s) : n = Len(order) + 1 \/ n \in 1..Len(order)
      BY <1>0, <2>1
    <3> QED BY <1>0, <2>1, <2>3, <3>1, <3>2
  <2> QED BY <2>2, <2>3
<1> QED BY <1>1, <1>2 DEF PutMemory

LEMMA DecisionStarts ==
    ASSUME DecisionInit, backend \in {"redis", "memory"}
    PROVE  DecisionInv
<1>1. Len(<<>>) = 0 /\ <<>> \in Seq(Key)
  BY EmptySeq
<1>2. \A c \in Call : KeyOf(c) \in Key
  BY Keys
<1>3. DecisionTypeOK
  BY <1>1, <1>2, DecisionAssumption DEF DecisionInit, DecisionTypeOK, DecisionAssumption
<1>4. Filed
  BY <1>1 DEF DecisionInit, Filed
<1>5. IndexNames /\ HalfRecords
  BY DEF DecisionInit, IndexNames, HalfRecords
<1>6. Targets /\ ShadowWritten
  BY DEF DecisionInit, Targets, ShadowWritten, Shown
<1> QED BY <1>3, <1>4, <1>5, <1>6 DEF DecisionInv

\* A step of one request that stores nothing and looks for nothing.
LEMMA Waiting ==
    ASSUME DecisionInv, NEW c \in Call,
           Schedule(c) \/ PutFails(c) \/ PatchFails(c)
    PROVE  DecisionInv'
<1>1. /\ DecisionTypeOK /\ Filed /\ IndexNames /\ Targets /\ ShadowWritten /\ HalfRecords
      /\ backend \in {"redis", "memory"}
  BY DEF DecisionInv
<1>2. /\ UNCHANGED <<backend, clock, decision, shadow, until, order, index, target, early, missed>>
      /\ \A d \in Call \ {c} : stage'[d] = stage[d] /\ patch'[d] = patch[d]
  BY <1>1 DEF DecisionTypeOK, Schedule, PutFails, PatchFails, records
<1>3. stage'[c] = "stored" <=> stage[c] = "stored"
  BY <1>1 DEF DecisionTypeOK, Schedule, PutFails, PatchFails
<1>4. /\ patch'[c] = patch[c] \/ patch'[c] = "sent" \/ (patch'[c] = "failed" /\ backend = "redis")
      /\ stage'[c] = "running" => patch'[c] = "none"
      /\ c \in missed => patch'[c] \in {"written", "done", "failed"}
  BY <1>1 DEF DecisionTypeOK, Targets, Schedule, PutFails, PatchFails
<1>5. DecisionTypeOK'
  <2>1. CASE Schedule(c)
    BY <1>1, <2>1 DEF DecisionTypeOK, Schedule, records
  <2>2. CASE PutFails(c)
    BY <1>1, <2>2 DEF DecisionTypeOK, PutFails, records
  <2>3. CASE PatchFails(c)
    BY <1>1, <2>3 DEF DecisionTypeOK, PatchFails, records
  <2> QED BY <2>1, <2>2, <2>3
<1>6. Filed'
  BY <1>1, <1>2, <1>3, <1>4 DEF Filed, KeyOf
<1>7. IndexNames' /\ HalfRecords'
  BY <1>1, <1>2, <1>3 DEF IndexNames, HalfRecords
<1>8. \A d \in Call : Alone(d)' <=> Alone(d)
  BY <1>2, <1>3 DEF Alone
<1>9. Targets'
  BY <1>1, <1>2, <1>3, <1>4, <1>8 DEF Targets, KeyOf
<1>10. ShadowWritten'
  <2> SUFFICES ASSUME NEW d \in Call, Shown(d)'
               PROVE  shadow[KeyOf(d)] # Nobody
    BY <1>2 DEF ShadowWritten, KeyOf
  <2>1. Shown(d)
    BY <1>2, <1>3, <1>4, <1>8 DEF Shown, KeyOf
  <2> QED BY <1>1, <2>1 DEF ShadowWritten
<1> QED BY <1>1, <1>2, <1>5, <1>6, <1>7, <1>9, <1>10 DEF DecisionInv

LEMMA PutKeeps ==
    ASSUME DecisionInv, NEW c \in Call, Put(c)
    PROVE  DecisionInv'
<1> DEFINE k == KeyOf(c)
<1>1. /\ DecisionTypeOK /\ Filed /\ IndexNames /\ Targets /\ ShadowWritten /\ HalfRecords
      /\ backend \in {"redis", "memory"}
  BY DEF DecisionInv
<1>2. /\ k \in Key /\ c # Nobody /\ Id[c] \in Ids /\ Nobody \notin Call
  BY Keys, DecisionAssumption DEF DecisionAssumption
<1>3. /\ stage[c] = "scheduled" /\ stage' = [stage EXCEPT ![c] = "stored"]
      /\ decision' = [decision EXCEPT ![k] = c] /\ shadow' = [shadow EXCEPT ![k] = Nobody]
      /\ early' = IF patch[c] = "sent" THEN early ELSE early \cup {c}
      /\ UNCHANGED <<backend, clock, patch, target, missed>>
  BY DEF Put
<1>4. /\ backend = "memory" => PutMemory(k)
      /\ backend = "redis" => PutRedis(c, k)
  BY DEF Put
<1> HIDE DEF k
<1>5. /\ order' \in Seq(Key) /\ Len(order') <= MaxEntries
      /\ \A n \in 1..Len(order') : order'[n] = k \/ \E m \in 1..Len(order) : order'[n] = order[m]
      /\ backend = "redis" => order' = order
  <2>1. CASE backend = "memory"
    BY <1>1, <1>2, <1>4, <2>1, Ordered DEF DecisionTypeOK
  <2>2. CASE backend = "redis"
    BY <1>1, <1>4, <2>2 DEF PutRedis, DecisionTypeOK
  <2> QED BY <1>1, <2>1, <2>2
<1>6. /\ until' \in [Key -> Nat]
      /\ \A j \in Key \ {k} : until'[j] = until[j]
      /\ index' \in [Ids -> ({Tenant[d] : d \in Call} \cup {Legacy}) \X Nat]
      /\ \A i \in Ids : index'[i] = index[i] \/ (i = Id[c] /\ index'[i][1] = Tenant[c])
  <2>1. CASE backend = "memory"
    BY <1>1, <1>4, <2>1 DEF PutMemory, DecisionTypeOK
  <2>2. CASE backend = "redis"
    <3>1. /\ until' = [until EXCEPT ![k] = clock + Ttl]
          /\ index' = [index EXCEPT ![Id[c]] = <<Tenant[c], clock + Ttl>>]
      BY <1>4, <2>2 DEF PutRedis
    <3>2. clock + Ttl \in Nat
      BY <1>1, DecisionAssumption DEF DecisionAssumption, DecisionTypeOK
    <3> QED BY <1>1, <1>2, <3>1, <3>2 DEF DecisionTypeOK
  <2> QED BY <1>1, <2>1, <2>2
<1>7. DecisionTypeOK'
  BY <1>1, <1>2, <1>3, <1>5, <1>6 DEF DecisionTypeOK
<1>8. /\ \A d \in Call : stage[d] = "stored" => stage'[d] = "stored"
      /\ stage'[c] = "stored"
      /\ \A d \in Call \ {c} : stage'[d] = stage[d]
      /\ \A d \in Call : Alone(d)' => Alone(d)
      /\ early \subseteq early'
  BY <1>1, <1>3 DEF DecisionTypeOK, Alone
<1>9. /\ decision'[k] = c
      /\ \A j \in Key \ {k} : decision'[j] = decision[j] /\ shadow'[j] = shadow[j]
  BY <1>1, <1>2, <1>3 DEF DecisionTypeOK
<1>10. Filed'
  <2>1. ASSUME NEW n \in 1..Len(order')
        PROVE  /\ \E d \in Call : stage'[d] = "stored" /\ order'[n] = KeyOf(d)
               /\ decision'[order'[n]] # Nobody
    <3>1. CASE order'[n] = k
      BY <1>2, <1>8, <1>9, <3>1 DEF k
    <3>2. CASE order'[n] # k
      <4>1. PICK m \in 1..Len(order) : order'[n] = order[m]
        BY <1>5, <3>2
      <4>2. order[m] \in Key
        BY <1>1, ElementOfSeq DEF DecisionTypeOK
      <4> QED BY <1>1, <1>8, <1>9, <3>2, <4>1, <4>2 DEF Filed
    <3> QED BY <3>1, <3>2
  <2> QED BY <1>1, <1>3, <1>5, <2>1 DEF Filed, KeyOf
<1>11. IndexNames'
  BY <1>1, <1>6, <1>8 DEF IndexNames
<1>12. Targets'
  <2> SUFFICES ASSUME NEW d \in Call
               PROVE  /\ stage'[d] = "running" => patch'[d] = "none"
                      /\ backend' = "redis" /\ patch'[d] \in {"found", "written", "done"} =>
                            /\ (stage'[d] = "stored" /\ d \notin early' /\ Alone(d)') =>
                                  target'[d] = KeyOf(d)
                            /\ target'[d][1] = Legacy => d \in early'
                      /\ d \in missed' =>
                            /\ patch'[d] \in {"written", "done", "failed"}
                            /\ target'[d][1] = Legacy => d \in early'
    BY DEF Targets, KeyOf
  <2>1. CASE d = c
    BY <1>1, <1>3, <1>8, <2>1 DEF Targets
  <2>2. CASE d # c
    BY <1>1, <1>3, <1>8, <2>2 DEF Targets
  <2> QED BY <2>1, <2>2
<1>13. ShadowWritten'
  <2> SUFFICES ASSUME NEW d \in Call, Shown(d)'
               PROVE  shadow'[KeyOf(d)] # Nobody
    BY DEF ShadowWritten, KeyOf
  <2>1. /\ stage'[d] = "stored" /\ patch[d] \in {"written", "done"} /\ d \notin early'
        /\ Alone(d)' /\ decision'[KeyOf(d)] = d
        /\ backend = "redis" \/ KeyOf(d) \in ToSet(order')
    BY <1>3 DEF Shown, KeyOf
  <2>2. d # c
    BY <1>3, <2>1
  <2>3. KeyOf(d) \in Key /\ KeyOf(d) # k
    BY <1>9, <2>1, <2>2, Keys
  <2>4. backend = "redis" \/ KeyOf(d) \in ToSet(order)
    <3>1. SUFFICES ASSUME KeyOf(d) \in ToSet(order')
                   PROVE  KeyOf(d) \in ToSet(order)
      BY <2>1
    <3>2. PICK n \in 1..Len(order') : order'[n] = KeyOf(d)
      BY <1>5, <3>1, Listed
    <3>3. PICK m \in 1..Len(order) : KeyOf(d) = order[m]
      BY <1>5, <2>3, <3>2
    <3>4. order \in Seq(Key)
      BY <1>1 DEF DecisionTypeOK
    <3> QED BY <3>3, <3>4, Listed
  <2>5. Shown(d)
    BY <1>8, <1>9, <2>1, <2>2, <2>3, <2>4 DEF Shown
  <2> QED BY <1>1, <1>9, <2>3, <2>5 DEF ShadowWritten
<1>14. HalfRecords'
  BY <1>1, <1>2, <1>3, <1>6, <1>8, <1>9 DEF HalfRecords
<1> QED BY <1>1, <1>3, <1>7, <1>10, <1>11, <1>12, <1>13, <1>14 DEF DecisionInv

LEMMA PatchMemoryKeeps ==
    ASSUME DecisionInv, NEW c \in Call, PatchMemory(c)
    PROVE  DecisionInv'
<1>1. /\ DecisionTypeOK /\ Filed /\ IndexNames /\ Targets /\ ShadowWritten /\ HalfRecords
  BY DEF DecisionInv
<1>2. /\ backend = "memory" /\ patch[c] = "sent" /\ patch' = [patch EXCEPT ![c] = "done"]
      /\ UNCHANGED <<backend, clock, decision, until, order, index, stage, target, early, missed>>
  BY DEF PatchMemory
<1>3. order \in Seq(Key) /\ \A n \in 1..Len(order) : order[n] \in Key
  BY <1>1, ElementOfSeq DEF DecisionTypeOK
<1>4. /\ shadow' \in [Key -> Call \cup {Nobody}]
      /\ \A j \in Key : shadow[j] # Nobody => shadow'[j] # Nobody
  <2>1. CASE Named(Id[c]) = {}
    BY <1>1, <2>1 DEF PatchMemory, DecisionTypeOK
  <2>2. CASE Named(Id[c]) # {}
    <3> DEFINE n == FirstNamed(Id[c])
    <3>1. order[n] \in Key
      BY <1>3, <2>2, NamedFirst
    <3>2. shadow' = [shadow EXCEPT ![order[n]] = c]
      BY <2>2 DEF PatchMemory
    <3> HIDE DEF n
    <3> QED BY <1>1, <3>1, <3>2, Keys DEF DecisionTypeOK
  <2> QED BY <2>1, <2>2
<1>5. DecisionTypeOK'
  BY <1>1, <1>2, <1>4 DEF DecisionTypeOK
<1>6. Filed'
  BY <1>1, <1>2 DEF Filed, KeyOf, DecisionTypeOK
<1>7. IndexNames' /\ HalfRecords'
  BY <1>1, <1>2 DEF IndexNames, HalfRecords
<1>8. Targets'
  BY <1>1, <1>2 DEF Targets, KeyOf, DecisionTypeOK
<1>9. ShadowWritten'
  <2> SUFFICES ASSUME NEW d \in Call, Shown(d)'
               PROVE  shadow'[KeyOf(d)] # Nobody
    BY DEF ShadowWritten, KeyOf
  <2>1. /\ stage[d] = "stored" /\ patch'[d] \in {"written", "done"} /\ d \notin early
        /\ Alone(d) /\ decision[KeyOf(d)] = d /\ KeyOf(d) \in ToSet(order)
    BY <1>2 DEF Shown, Alone, KeyOf
  <2>2. CASE d # c
    <3>1. Shown(d)
      BY <1>1, <1>2, <2>1, <2>2 DEF Shown, DecisionTypeOK
    <3> QED BY <1>1, <1>4, <3>1, Keys DEF ShadowWritten
  <2>3. CASE d = c
    <3> DEFINE n == FirstNamed(Id[c])
    <3>1. Named(Id[c]) # {}
      <4>1. PICK m \in 1..Len(order) : order[m] = KeyOf(c)
        BY <1>3, <2>1, <2>3, Listed
      <4>2. DOMAIN order = 1..Len(order)
        BY <1>3, LenProperties
      <4>3. order[m][2] = Id[c]
        BY <4>1, Keys
      <4> QED BY <4>2, <4>3 DEF Named
    <3>2. n \in 1..Len(order) /\ order[n][2] = Id[c]
      BY <1>3, <3>1, NamedFirst
    <3>3. shadow' = [shadow EXCEPT ![order[n]] = c]
      BY <3>1 DEF PatchMemory
    <3> HIDE DEF n
    <3>4. PICK e \in Call : stage[e] = "stored" /\ order[n] = KeyOf(e)
      BY <1>1, <3>2 DEF Filed
    <3>5. Id[e] = Id[c]
      BY <3>2, <3>4, Keys
    <3>6. KeyOf(e) = KeyOf(c)
      BY <2>1, <2>3, <3>4, <3>5 DEF Alone, KeyOf
    <3> QED BY <1>1, <2>3, <3>3, <3>4, <3>6, Keys DEF DecisionTypeOK
  <2> QED BY <2>2, <2>3
<1> QED BY <1>2, <1>5, <1>6, <1>7, <1>8, <1>9 DEF DecisionInv

LEMMA FindRecordKeeps ==
    ASSUME DecisionInv, NEW c \in Call, FindRecord(c)
    PROVE  DecisionInv'
<1> DEFINE i == Id[c]
<1>1. /\ DecisionTypeOK /\ Filed /\ IndexNames /\ Targets /\ ShadowWritten /\ HalfRecords
  BY DEF DecisionInv
<1>2. /\ backend = "redis" /\ patch[c] = "sent" /\ patch' = [patch EXCEPT ![c] = "found"]
      /\ target' = [target EXCEPT ![c] = Target(c)]
      /\ early' = IF Indexed(i) THEN early ELSE early \cup {c}
      /\ UNCHANGED <<backend, clock, decision, shadow, until, order, index, stage, missed>>
  BY DEF FindRecord, records
<1>3. i \in Ids /\ index[i][2] \in Nat /\ clock \in Nat
  BY <1>1, Keys DEF DecisionTypeOK
<1>4. /\ Target(c) \in Key
      /\ c \notin early' /\ Alone(c) => Target(c) = KeyOf(c)
      /\ Target(c)[1] = Legacy => c \in early'
  <2>1. CASE Indexed(i)
    <3>1. PICK d \in Call : stage[d] = "stored" /\ Id[d] = i /\ index[i][1] = Tenant[d]
      BY <1>1, <1>3, <2>1 DEF IndexNames, Indexed
    <3>2. Target(c) = KeyOf(d)
      BY <2>1, <3>1 DEF Target, KeyOf
    <3>3. Alone(c) => KeyOf(d) = KeyOf(c)
      BY <3>1 DEF Alone, KeyOf
    <3>4. KeyOf(d) \in Key /\ KeyOf(d)[1] # Legacy
      BY Keys
    <3> QED BY <3>2, <3>3, <3>4
  <2>2. CASE ~ Indexed(i)
    <3>1. Target(c) = <<Legacy, i>> /\ c \in early'
      BY <1>2, <2>2 DEF Target
    <3> QED BY <3>1, Keys
  <2> QED BY <2>1, <2>2
<1> HIDE DEF i
<1>5. DecisionTypeOK'
  BY <1>1, <1>2, <1>4 DEF DecisionTypeOK
<1>6. Filed' /\ IndexNames'
  BY <1>1, <1>2 DEF Filed, IndexNames, KeyOf
<1>7. \A d \in Call : Alone(d)' <=> Alone(d)
  BY <1>2 DEF Alone
<1>8. c \notin missed /\ stage[c] # "running"
  BY <1>1, <1>2 DEF Targets
<1>9. HalfRecords'
  BY <1>1, <1>2, <1>8 DEF HalfRecords, DecisionTypeOK
<1>10. Targets'
  <2> SUFFICES ASSUME NEW d \in Call
               PROVE  /\ stage'[d] = "running" => patch'[d] = "none"
                      /\ backend' = "redis" /\ patch'[d] \in {"found", "written", "done"} =>
                            /\ (stage'[d] = "stored" /\ d \notin early' /\ Alone(d)') =>
                                  target'[d] = KeyOf(d)
                            /\ target'[d][1] = Legacy => d \in early'
                      /\ d \in missed' =>
                            /\ patch'[d] \in {"written", "done", "failed"}
                            /\ target'[d][1] = Legacy => d \in early'
    BY DEF Targets, KeyOf
  <2>1. CASE d = c
    BY <1>1, <1>2, <1>4, <1>7, <1>8, <2>1 DEF DecisionTypeOK
  <2>2. CASE d # c
    BY <1>1, <1>2, <1>7, <2>2 DEF Targets, DecisionTypeOK
  <2> QED BY <2>1, <2>2
<1>11. ShadowWritten'
  <2> SUFFICES ASSUME NEW d \in Call, Shown(d)'
               PROVE  shadow[KeyOf(d)] # Nobody
    BY <1>2 DEF ShadowWritten, KeyOf
  <2>1. Shown(d)
    BY <1>1, <1>2, <1>7 DEF Shown, KeyOf, DecisionTypeOK
  <2> QED BY <1>1, <2>1 DEF ShadowWritten
<1> QED BY <1>2, <1>5, <1>6, <1>9, <1>10, <1>11 DEF DecisionInv

LEMMA WriteShadowKeeps ==
    ASSUME DecisionInv, NEW c \in Call, WriteShadow(c)
    PROVE  DecisionInv'
<1> DEFINE k == target[c]
<1>1. /\ DecisionTypeOK /\ Filed /\ IndexNames /\ Targets /\ ShadowWritten /\ HalfRecords
      /\ backend \in {"redis", "memory"}
  BY DEF DecisionInv
<1>2. /\ patch[c] = "found" /\ patch' = [patch EXCEPT ![c] = "written"]
      /\ shadow' = [shadow EXCEPT ![k] = c]
      /\ UNCHANGED <<backend, clock, order, index, stage, target, early>>
      /\ Present(k) => UNCHANGED <<decision, until, missed>>
      /\ ~ Present(k) => /\ decision' = [decision EXCEPT ![k] = Nobody]
                         /\ until' = [until EXCEPT ![k] = Forever]
                         /\ missed' = missed \cup {c}
  BY DEF WriteShadow
<1>3. backend = "redis" /\ order = <<>> /\ k \in Key /\ c # Nobody
  BY <1>1, <1>2, Keys DEF Filed, DecisionTypeOK
<1>4. Forever \in Nat
  BY DecisionAssumption DEF DecisionAssumption, Forever
<1>5. DecisionTypeOK'
  BY <1>1, <1>2, <1>3, <1>4 DEF DecisionTypeOK
<1>6. Filed'
  <2>1. Len(order') = 0
    BY <1>2, <1>3
  <2> QED BY <1>2, <1>3, <2>1 DEF Filed
<1>7. IndexNames'
  BY <1>1, <1>2 DEF IndexNames
<1>8. \A d \in Call : Alone(d)' <=> Alone(d)
  BY <1>2 DEF Alone
<1>9. Targets'
  BY <1>1, <1>2, <1>3, <1>8 DEF Targets, KeyOf, DecisionTypeOK
<1>10. \A j \in Key : decision'[j] # Nobody => decision'[j] = decision[j]
  BY <1>1, <1>2 DEF DecisionTypeOK
<1>11. ShadowWritten'
  <2> SUFFICES ASSUME NEW d \in Call, Shown(d)'
               PROVE  shadow'[KeyOf(d)] # Nobody
    BY DEF ShadowWritten, KeyOf
  <2>1. /\ stage[d] = "stored" /\ patch'[d] \in {"written", "done"} /\ d \notin early
        /\ Alone(d) /\ decision'[KeyOf(d)] = d /\ KeyOf(d) \in Key /\ d # Nobody
    BY <1>2, <1>8, Keys DEF Shown, KeyOf
  <2>2. CASE d # c
    <3>1. Shown(d)
      BY <1>1, <1>2, <1>3, <1>10, <2>1, <2>2 DEF Shown, DecisionTypeOK
    <3> QED BY <1>1, <1>2, <1>3, <2>1, <3>1 DEF ShadowWritten, DecisionTypeOK
  <2>3. CASE d = c
    <3>1. k = KeyOf(c)
      BY <1>1, <1>2, <1>3, <2>1, <2>3 DEF Targets
    <3> QED BY <1>1, <1>2, <1>3, <2>3, <3>1 DEF DecisionTypeOK
  <2> QED BY <2>2, <2>3
<1>12. HalfRecords'
  <2> SUFFICES ASSUME NEW j \in Key, until'[j] # 0, decision'[j] = Nobody
               PROVE  \E d \in missed' : target[d] = j /\ (j[1] = Legacy => d \in early)
    BY <1>2 DEF HalfRecords
  <2>1. CASE j = k /\ ~ Present(k)
    BY <1>1, <1>2, <1>3, <2>1 DEF Targets
  <2>2. CASE ~(j = k /\ ~ Present(k))
    <3>1. until'[j] = until[j] /\ decision'[j] = decision[j]
      BY <1>1, <1>2, <2>2 DEF DecisionTypeOK
    <3>2. missed \subseteq missed'
      BY <1>2
    <3> QED BY <1>1, <1>3, <3>1, <3>2 DEF HalfRecords
  <2> QED BY <2>1, <2>2
<1> QED BY <1>1, <1>2, <1>5, <1>6, <1>7, <1>9, <1>11, <1>12 DEF DecisionInv

LEMMA RenewRecordKeeps ==
    ASSUME DecisionInv, NEW c \in Call, RenewRecord(c)
    PROVE  DecisionInv'
<1> DEFINE k == target[c]
<1>1. /\ DecisionTypeOK /\ Filed /\ IndexNames /\ Targets /\ ShadowWritten /\ HalfRecords
      /\ backend \in {"redis", "memory"}
  BY DEF DecisionInv
<1>2. /\ patch[c] = "written" /\ patch' = [patch EXCEPT ![c] = "done"]
      /\ until' = IF Present(k) THEN [until EXCEPT ![k] = clock + Ttl] ELSE until
      /\ UNCHANGED <<backend, clock, decision, shadow, order, index, stage, target, early, missed>>
  BY DEF RenewRecord
<1>3. backend = "redis" /\ k \in Key
  BY <1>1, <1>2 DEF Filed, DecisionTypeOK
<1>4. clock + Ttl \in Nat /\ clock \in Nat
  BY <1>1, DecisionAssumption DEF DecisionAssumption, DecisionTypeOK
<1>5. \A j \in Key : until'[j] # 0 => until[j] # 0
  BY <1>1, <1>2, <1>3, <1>4 DEF DecisionTypeOK, Present
<1>6. DecisionTypeOK'
  BY <1>1, <1>2, <1>4 DEF DecisionTypeOK
<1>7. Filed' /\ IndexNames'
  BY <1>1, <1>2 DEF Filed, IndexNames, KeyOf, DecisionTypeOK
<1>8. \A d \in Call : Alone(d)' <=> Alone(d)
  BY <1>2 DEF Alone
<1>9. Targets'
  BY <1>1, <1>2, <1>8 DEF Targets, KeyOf, DecisionTypeOK
<1>10. HalfRecords'
  BY <1>1, <1>2, <1>5 DEF HalfRecords
<1>11. ShadowWritten'
  <2> SUFFICES ASSUME NEW d \in Call, Shown(d)'
               PROVE  shadow[KeyOf(d)] # Nobody
    BY <1>2 DEF ShadowWritten, KeyOf
  <2>1. Shown(d)
    BY <1>1, <1>2, <1>8 DEF Shown, KeyOf, DecisionTypeOK
  <2> QED BY <1>1, <2>1 DEF ShadowWritten
<1> QED BY <1>1, <1>2, <1>6, <1>7, <1>9, <1>10, <1>11 DEF DecisionInv

\* Nothing but the clock of the store moves.
LEMMA DecisionRests ==
    ASSUME DecisionInv,
           UNCHANGED <<backend, decision, shadow, until, order, index, stage, patch, target, early, missed>>,
           clock' \in Nat
    PROVE  DecisionInv'
<1>1. DecisionTypeOK' /\ Filed' /\ IndexNames' /\ HalfRecords'
  BY DEF DecisionInv, DecisionTypeOK, Filed, IndexNames, HalfRecords, KeyOf
<1>2. \A d \in Call : Alone(d)' <=> Alone(d)
  BY DEF Alone
<1>3. Targets'
  BY <1>2 DEF DecisionInv, Targets, KeyOf
<1>4. ShadowWritten'
  <2>1. \A d \in Call : Shown(d)' <=> Shown(d)
    BY <1>2 DEF Shown, KeyOf
  <2> QED BY <2>1 DEF DecisionInv, ShadowWritten, KeyOf
<1> QED BY <1>1, <1>3, <1>4 DEF DecisionInv

LEMMA DecisionMoves ==
    ASSUME DecisionInv, DecisionNext
    PROVE  DecisionInv'
<1>1. CASE Tick
  <2>1. clock' \in Nat
    BY <1>1 DEF Tick, DecisionInv, DecisionTypeOK
  <2> QED BY <1>1, <2>1, DecisionRests DEF Tick, records, tasks
<1>2. ASSUME NEW c \in Call, DecisionStep(c)
      PROVE  DecisionInv'
  BY <1>2, Waiting, PutKeeps, PatchMemoryKeeps, FindRecordKeeps, WriteShadowKeeps, RenewRecordKeeps
     DEF DecisionStep
<1> QED BY <1>1, <1>2 DEF DecisionNext

-----------------------------------------------------------------------------
(* What a request leaves behind                                            *)

BookkeepingInv == HealthInv /\ DecisionInv

LEMMA BooksStart ==
    ASSUME Init
    PROVE  BookkeepingInv
<1>1. backend \in {"redis", "memory"}
  BY DEF Init, HealthInit
<1> QED BY <1>1, HealthStarts, DecisionStarts DEF Init, BookkeepingInv

LEMMA BooksStep ==
    ASSUME BookkeepingInv, [Next]_vars
    PROVE  BookkeepingInv'
<1> USE DEF BookkeepingInv
<1>1. DecisionTypeOK /\ HealthTypeOK
  BY DEF DecisionInv, HealthInv
<1>2. CASE HealthWorks(HealthNext)
  <2>1. UNCHANGED backend
    BY <1>2 DEF HealthWorks, HealthNext, CallStep, Fails, Recovers, Choose, Answer, Read, Write,
                Record, Reported, ReportFails, SendProbe, StoreProbe, LoopDies
  <2>2. DecisionInv'
    BY <1>1, <1>2, <2>1, DecisionRests DEF HealthWorks, decisionPart, DecisionTypeOK
  <2> QED BY <1>2, <2>2, HealthStep DEF HealthWorks
<1>3. CASE active = "decisions" /\ DecisionNext /\ UNCHANGED <<active, healthVars>>
  BY <1>3, DecisionMoves, HealthRests
<1>4. CASE UNCHANGED vars
  <2>1. DecisionInv'
    BY <1>1, <1>4, DecisionRests DEF vars, healthVars, decisionPart, DecisionTypeOK
  <2> QED BY <1>4, <2>1, HealthRests DEF vars
<1> QED BY <1>2, <1>3, <1>4 DEF Next

LEMMA BooksInv == Spec => []BookkeepingInv
<1> QED BY BooksStart, BooksStep, PTL DEF Spec

\* Every variable of the two stores has its type, and the in-memory store of the
\* decisions keeps its capacity.
THEOREM BooksTypeCorrect == Spec => [](HealthTypeOK /\ DecisionTypeOK)
<1>1. BookkeepingInv => HealthTypeOK /\ DecisionTypeOK
  BY DEF BookkeepingInv, HealthInv, DecisionInv
<1> QED BY <1>1, BooksInv, PTL

\* Any number of replicas may overwrite each other's reports: the counter of the
\* health record (RedisHealthStore.record_request) loses at most those that were
\* written while another was half done, and in memory none.
THEOREM ReportsAreCounted == Spec => []CountWithinOverlap
<1>1. BookkeepingInv => CountWithinOverlap
  BY DEF BookkeepingInv, HealthInv
<1> QED BY <1>1, BooksInv, PTL

\* A shadow outcome is shown with the decision it belongs to, in both stores and
\* under any interleaving of requests, retries, patches and expiries, but for the
\* exceptions ShadowVisible names.
THEOREM OutcomesAreShown == Spec => []ShadowVisible
<1>1. BookkeepingInv => ShadowVisible
  <2> SUFFICES ASSUME BookkeepingInv, NEW c \in Call,
                      stage[c] = "stored", patch[c] = "done", c \notin early, Alone(c),
                      Present(KeyOf(c)), decision[KeyOf(c)] = c
               PROVE  shadow[KeyOf(c)] # Nobody
    BY DEF ShadowVisible
  <2>1. backend = "redis" \/ KeyOf(c) \in ToSet(order)
    BY DEF BookkeepingInv, DecisionInv, Present
  <2> QED BY <2>1 DEF BookkeepingInv, DecisionInv, ShadowWritten, Shown
<1> QED BY <1>1, BooksInv, PTL

\* A record without a decision (RedisDecisionStore.patch_shadow makes one when the
\* hash is gone) is always the work of a patch that found no index entry or whose
\* record expired under it; memory has none.
THEOREM HalfRecordsHaveACause == Spec => []HalfRecordsExplained
<1>1. BookkeepingInv => HalfRecordsExplained
  <2> SUFFICES ASSUME BookkeepingInv, NEW k \in Key, Present(k), decision[k] = Nobody
               PROVE  \E c \in missed : target[c] = k /\ (k[1] = Legacy => c \in early)
    BY DEF HalfRecordsExplained
  <2>0. DecisionTypeOK /\ Filed /\ HalfRecords /\ backend \in {"redis", "memory"}
    BY DEF BookkeepingInv, DecisionInv
  <2>1. CASE backend = "redis"
    <3>1. until[k] > clock /\ clock \in Nat /\ until[k] \in Nat
      BY <2>0, <2>1 DEF Present, DecisionTypeOK
    <3> QED BY <2>0, <2>1, <3>1 DEF HalfRecords
  <2>2. CASE backend = "memory"
    <3>1. order \in Seq(Key) /\ k \in ToSet(order)
      BY <2>0, <2>2 DEF Present, DecisionTypeOK
    <3>2. PICK n \in 1..Len(order) : order[n] = k
      BY <3>1, Listed
    <3> QED BY <2>0, <3>2 DEF Filed
  <2> QED BY <2>0, <2>1, <2>2
<1> QED BY <1>1, BooksInv, PTL
=============================================================================

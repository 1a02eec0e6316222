----------------------------- MODULE DataLemmas -----------------------------
(***************************************************************************)
(* What the proofs of the components need to know about their data: the    *)
(* algebra of Total, in place of an induction over the set that is summed, *)
(* and what happens to a queue, a sequence without twins, when an element  *)
(* joins it, leaves it from anywhere, or is looked for.                    *)
(***************************************************************************)
EXTENDS Totals, Integers, Sequences, FiniteSetTheorems, SequenceTheorems,
        WellFoundedInduction, TLAPS

-----------------------------------------------------------------------------
(* Totals                                                                  *)

\* A sum over a finite set is a natural number, because it counts a finite set.
LEMMA TotalType ==
    ASSUME NEW S, IsFiniteSet(S), NEW most \in Nat, NEW f
    PROVE  IsFiniteSet(Units(f, S, most)) /\ Total(f, S, most) \in Nat
<1>1. IsFiniteSet(1..most)
  BY FS_Interval
<1>2. IsFiniteSet(S \X (1..most))
  BY <1>1, FS_Product
<1>3. Units(f, S, most) \in SUBSET (S \X (1..most))
  BY DEF Units
<1>4. IsFiniteSet(Units(f, S, most))
  BY <1>2, <1>3, FS_Subset
<1> QED
  BY <1>4, FS_CardinalityType DEF Total

\* A sum depends only on the amounts of the elements it is taken over.
LEMMA TotalSame ==
    ASSUME NEW S, NEW most \in Nat, NEW f, NEW g, \A x \in S : f[x] = g[x]
    PROVE  Total(f, S, most) = Total(g, S, most)
<1>1. Units(f, S, most) = Units(g, S, most)
  BY DEF Units
<1> QED
  BY <1>1 DEF Total

\* Nothing to count: every amount is 0.
LEMMA TotalNothing ==
    ASSUME NEW S, NEW most \in Nat, NEW f, \A x \in S : f[x] = 0
    PROVE  Total(f, S, most) = 0
<1>1. Units(f, S, most) = {}
  BY DEF Units
<1> QED
  BY <1>1, FS_EmptySet DEF Total

\* A sum is the sum over a part and the sum over the rest.
LEMMA TotalSplit ==
    ASSUME NEW S, IsFiniteSet(S), NEW T \in SUBSET S, NEW most \in Nat, NEW f
    PROVE  Total(f, S, most) = Total(f, T, most) + Total(f, S \ T, most)
<1> DEFINE A == Units(f, T, most)
           B == Units(f, S \ T, most)
<1>1. IsFiniteSet(T) /\ IsFiniteSet(S \ T)
  BY FS_Subset, FS_Difference
<1>2. /\ IsFiniteSet(A) /\ Cardinality(A) \in Nat
      /\ IsFiniteSet(B) /\ Cardinality(B) \in Nat
  BY <1>1, TotalType DEF Total
<1>3. A \cap B = {}
  BY DEF Units
<1>4. A \cup B = Units(f, S, most)
  BY DEF Units
<1>5. Cardinality(A \cap B) = 0
  BY <1>3, FS_EmptySet
<1>6. Cardinality(A \cup B) = Cardinality(A) + Cardinality(B) - Cardinality(A \cap B)
  BY <1>2, FS_Union
<1>7. /\ Total(f, S, most) = Cardinality(A \cup B)
      /\ Total(f, T, most) = Cardinality(A)
      /\ Total(f, S \ T, most) = Cardinality(B)
  BY <1>4 DEF Total
<1> HIDE DEF A, B
<1> QED
  BY <1>2, <1>5, <1>6, <1>7

\* The sum over one element is its amount.
LEMMA TotalOne ==
    ASSUME NEW x, NEW most \in Nat, NEW f, f[x] \in 0..most
    PROVE  Total(f, {x}, most) = f[x]
<1> DEFINE v == f[x]
<1>0. v \in Nat
  OBVIOUS
<1>1. Units(f, {x}, most) = {x} \X (1..v)
  BY DEF Units
<1> HIDE DEF v
<1>2. IsFiniteSet({x}) /\ Cardinality({x}) = 1
  BY FS_Singleton
<1>3. IsFiniteSet(1..v) /\ Cardinality(1..v) = v
  <2>1. 1 \in Int /\ v \in Int
    BY <1>0
  <2>2. IsFiniteSet(1..v) /\ Cardinality(1..v) = IF 1 > v THEN 0 ELSE v - 1 + 1
    BY <2>1, FS_Interval, Zenon
  <2> QED
    BY <1>0, <2>2
<1>4. Cardinality({x} \X (1..v)) = Cardinality({x}) * Cardinality(1..v)
  BY <1>2, <1>3, FS_Product
<1>5. Total(f, {x}, most) = Cardinality({x}) * Cardinality(1..v)
  BY <1>1, <1>4, Zenon DEF Total
<1> QED
  BY <1>0, <1>2, <1>3, <1>5 DEF v

\* Taking one element out of a sum.
LEMMA TotalWithout ==
    ASSUME NEW S, IsFiniteSet(S), NEW x \in S, NEW most \in Nat, NEW f, f[x] \in 0..most
    PROVE  Total(f, S, most) = Total(f, S \ {x}, most) + f[x]
<1>1. Total(f, {x}, most) = f[x]
  BY TotalOne
<1>2. Total(f, S, most) = Total(f, {x}, most) + Total(f, S \ {x}, most)
  BY TotalSplit
<1>3. IsFiniteSet(S \ {x})
  BY FS_Difference
<1>4. Total(f, S \ {x}, most) \in Nat
  BY <1>3, TotalType
<1> QED
  BY <1>1, <1>2, <1>4

\* Giving a first amount to an element that had none.
LEMMA TotalFirst ==
    ASSUME NEW S, IsFiniteSet(S), NEW x \in S, NEW most \in Nat,
           NEW f, f[x] = 0, NEW g, g[x] \in 0..most, \A y \in S \ {x} : g[y] = f[y]
    PROVE  Total(g, S, most) = Total(f, S, most) + g[x]
<1>1. Total(g, S, most) = Total(g, S \ {x}, most) + g[x]
  BY TotalWithout
<1>2. Total(f, S, most) = Total(f, S \ {x}, most) + 0
  BY TotalWithout
<1>3. Total(g, S \ {x}, most) = Total(f, S \ {x}, most)
  BY TotalSame
<1>4. IsFiniteSet(S \ {x})
  BY FS_Difference
<1>5. Total(f, S \ {x}, most) \in Nat
  BY <1>4, TotalType
<1> QED
  BY <1>1, <1>2, <1>3, <1>5

-----------------------------------------------------------------------------
(* First elements                                                          *)

\* A set of positions that is not empty has a first.
LEMMA FirstExists ==
    ASSUME NEW S \in SUBSET Nat, S # {}
    PROVE  \E x \in S : \A y \in S : x <= y
<1>1. IsWellFoundedOn(OpToRel(<,Nat), Nat)
  BY NatLessThanWellFounded
<1>2. PICK x \in S : \A y \in S : ~ (<<y, x>> \in OpToRel(<,Nat))
  BY <1>1, WFMin
<1>3. \A y \in S : ~ (y < x)
  BY <1>2 DEF OpToRel
<1>4. \A y \in S : x <= y
  BY <1>3
<1> QED BY <1>4

-----------------------------------------------------------------------------
(* Queues                                                                  *)

\* The queue without its element at i (RemoveAt of the community modules).
Without(s, i) == SubSeq(s, 1, i - 1) \o SubSeq(s, i + 1, Len(s))

Members(s) == {s[i] : i \in 1..Len(s)}

\* What a sequence is without its element at i.
LEMMA Removed ==
    ASSUME NEW S, NEW s \in Seq(S), NEW i \in 1..Len(s)
    PROVE  /\ Without(s, i) \in Seq(S)
           /\ Len(Without(s, i)) = Len(s) - 1
           /\ \A j \in 1..(Len(s) - 1) : Without(s, i)[j] = IF j < i THEN s[j] ELSE s[j + 1]
<1> DEFINE front == SubSeq(s, 1, i - 1)
           back == SubSeq(s, i + 1, Len(s))
<1>0. Len(s) \in Nat /\ i \in Nat /\ i - 1 \in Int /\ i + 1 \in Int /\ \A j \in 1..Len(s) : s[j] \in S
  BY ElementOfSeq, LenProperties
<1>1. /\ front \in Seq(S) /\ Len(front) = i - 1
      /\ \A j \in 1..(i - 1) : front[j] = s[j]
  <2>1. \A j \in 1..(i - 1) : s[j] \in S
    BY <1>0
  <2>2. /\ front \in Seq(S)
        /\ Len(front) = IF 1 <= i - 1 THEN (i - 1) - 1 + 1 ELSE 0
        /\ \A j \in 1..((i - 1) - 1 + 1) : front[j] = s[1 + j - 1]
    BY <1>0, <2>1, SubSeqProperties
  <2> QED BY <1>0, <2>2
<1>2. /\ back \in Seq(S) /\ Len(back) = Len(s) - i
      /\ \A j \in 1..(Len(s) - i) : back[j] = s[i + j]
  <2>1. \A j \in (i + 1)..Len(s) : s[j] \in S
    BY <1>0
  <2>2. /\ back \in Seq(S)
        /\ Len(back) = IF i + 1 <= Len(s) THEN Len(s) - (i + 1) + 1 ELSE 0
        /\ \A j \in 1..(Len(s) - (i + 1) + 1) : back[j] = s[(i + 1) + j - 1]
    BY <1>0, <2>1, SubSeqProperties
  <2> QED BY <1>0, <2>2
<1> HIDE DEF front, back
<1>3. /\ front \o back \in Seq(S)
      /\ Len(front \o back) = Len(front) + Len(back)
      /\ \A j \in 1..(Len(front) + Len(back)) :
            (front \o back)[j] = IF j <= Len(front) THEN front[j] ELSE back[j - Len(front)]
  BY <1>1, <1>2, ConcatProperties
<1>4. Without(s, i) = front \o back
  BY DEF Without, front, back
<1>5. ASSUME NEW j \in 1..(Len(s) - 1)
      PROVE  (front \o back)[j] = IF j < i THEN s[j] ELSE s[j + 1]
  <2>1. CASE j < i
    <3>1. j \in 1..(i - 1) /\ j <= Len(front) /\ j \in 1..(Len(front) + Len(back))
      BY <1>0, <1>1, <1>2, <2>1
    <3> QED BY <1>1, <1>3, <2>1, <3>1
  <2>2. CASE ~ (j < i)
    <3>1. /\ j - (i - 1) \in 1..(Len(s) - i) /\ ~ (j <= Len(front))
          /\ j \in 1..(Len(front) + Len(back))
      <4>1. j \in Int /\ i <= j /\ j <= Len(s) - 1
        BY <1>0, <2>2
      <4>2. j - (i - 1) \in 1..(Len(s) - i)
        BY <1>0, <4>1
      <4>3. Len(front) + Len(back) = Len(s) - 1 /\ j > i - 1
        BY <1>0, <1>1, <1>2, <4>1
      <4> QED BY <1>1, <4>1, <4>2, <4>3
    <3>2. (front \o back)[j] = back[j - (i - 1)]
      BY <1>1, <1>3, <3>1
    <3>3. back[j - (i - 1)] = s[i + (j - (i - 1))] /\ i + (j - (i - 1)) = j + 1
      BY <1>0, <1>2, <3>1
    <3> QED BY <2>2, <3>2, <3>3
  <2> QED BY <2>1, <2>2
<1>6. Len(front) + Len(back) = Len(s) - 1
  BY <1>0, <1>1, <1>2
<1> QED BY <1>3, <1>4, <1>5, <1>6

\* No element is in the queue twice.
Distinct(s) == \A i, j \in 1..Len(s) : s[i] = s[j] => i = j

\* x is in the queue before y.
Ahead(s, x, y) == \E i, j \in 1..Len(s) : i < j /\ s[i] = x /\ s[j] = y

LEMMA QueueElements ==
    ASSUME NEW S, NEW s \in Seq(S)
    PROVE  /\ Len(s) \in Nat
           /\ Members(s) \subseteq S
           /\ \A x : x \in Members(s) <=> \E i \in 1..Len(s) : s[i] = x
<1>1. Len(s) \in Nat /\ \A i \in 1..Len(s) : s[i] \in S
  BY ElementOfSeq, LenProperties
<1> QED BY <1>1 DEF Members

LEMMA AheadIsStrict ==
    ASSUME NEW S, NEW s \in Seq(S), Distinct(s), NEW x, NEW y, Ahead(s, x, y)
    PROVE  ~ Ahead(s, y, x) /\ x \in Members(s) /\ y \in Members(s)
<1>0. Len(s) \in Nat
  BY QueueElements
<1>1. PICK i, j \in 1..Len(s) : i < j /\ s[i] = x /\ s[j] = y
  BY DEF Ahead
<1>2. x \in Members(s) /\ y \in Members(s)
  BY <1>1, QueueElements
<1>3. ASSUME NEW k \in 1..Len(s), NEW l \in 1..Len(s), k < l, s[k] = y, s[l] = x
      PROVE  FALSE
  <2>1. k = j /\ l = i
    BY <1>1, <1>3 DEF Distinct
  <2> QED BY <1>0, <1>1, <1>3, <2>1
<1> QED BY <1>2, <1>3 DEF Ahead

\* An element joins the queue: it comes after all others.
LEMMA Joined ==
    ASSUME NEW S, NEW s \in Seq(S), Distinct(s), NEW e \in S, e \notin Members(s)
    PROVE  /\ Append(s, e) \in Seq(S)
           /\ Distinct(Append(s, e))
           /\ Members(Append(s, e)) = Members(s) \cup {e}
           /\ \A x, y : Ahead(Append(s, e), x, y) => x # e /\ (y = e \/ Ahead(s, x, y))
<1> DEFINE t == Append(s, e)
           n == Len(s)
<1>0. n \in Nat /\ \A i \in 1..n : s[i] # e
  BY QueueElements
<1>1. /\ t \in Seq(S) /\ Len(t) = n + 1 /\ t[n + 1] = e
      /\ \A i \in 1..n : t[i] = s[i]
  BY AppendProperties
<1> HIDE DEF t
<1>2. \A i : i \in 1..(n + 1) <=> i \in 1..n \/ i = n + 1
  BY <1>0
<1>3. Distinct(t)
  BY <1>0, <1>1, <1>2 DEF Distinct
<1>4. Members(t) = Members(s) \cup {e}
  <2>1. \A x : x \in Members(t) <=> \E i \in 1..(n + 1) : t[i] = x
    BY <1>1, QueueElements
  <2>2. \A x : x \in Members(s) <=> \E i \in 1..n : s[i] = x
    BY QueueElements
  <2> QED BY <1>1, <1>2, <2>1, <2>2
<1>5. ASSUME NEW x, NEW y, Ahead(t, x, y)
      PROVE  x # e /\ (y = e \/ Ahead(s, x, y))
  <2>1. PICK i, j \in 1..(n + 1) : i < j /\ t[i] = x /\ t[j] = y
    BY <1>1, <1>5 DEF Ahead
  <2>2. i \in 1..n
    BY <1>0, <2>1
  <2>3. x = s[i] /\ x # e
    BY <1>0, <1>1, <2>1, <2>2
  <2>4. CASE j = n + 1
    BY <1>1, <2>1, <2>3, <2>4
  <2>5. CASE j \in 1..n
    BY <1>1, <2>1, <2>2, <2>3, <2>5 DEF Ahead
  <2> QED BY <1>2, <2>4, <2>5
<1> QED BY <1>1, <1>3, <1>4, <1>5 DEF t

\* An element leaves the queue, from wherever it is: the others stay in order.
LEMMA Departed ==
    ASSUME NEW S, NEW s \in Seq(S), Distinct(s), NEW i \in 1..Len(s)
    PROVE  /\ Without(s, i) \in Seq(S)
           /\ Distinct(Without(s, i))
           /\ Members(Without(s, i)) = Members(s) \ {s[i]}
           /\ \A x, y : Ahead(Without(s, i), x, y) => Ahead(s, x, y)
<1> DEFINE t == Without(s, i)
           m == Len(s) - 1
           from(j) == IF j < i THEN j ELSE j + 1
<1>1. Len(s) \in Nat /\ \A x : x \in Members(s) <=> \E l \in 1..Len(s) : s[l] = x
  BY QueueElements
<1>2. /\ t \in Seq(S) /\ Len(t) = m
      /\ \A j \in 1..m : t[j] = IF j < i THEN s[j] ELSE s[j + 1]
  BY Removed
<1> HIDE DEF t
<1>3. m \in Nat /\ i \in Nat /\ i <= m + 1 /\ Len(s) = m + 1
  BY <1>1
<1> HIDE DEF m
<1>4. \A j \in 1..m : from(j) \in 1..Len(s) /\ from(j) # i /\ t[j] = s[from(j)]
  <2> SUFFICES ASSUME NEW j \in 1..m
               PROVE  from(j) \in 1..Len(s) /\ from(j) # i /\ t[j] = s[from(j)]
    OBVIOUS
  <2>1. CASE j < i
    BY <1>2, <1>3, <2>1
  <2>2. CASE ~ (j < i)
    BY <1>2, <1>3, <2>2
  <2> QED BY <2>1, <2>2
<1>5. \A j, k \in 1..m : (j < k => from(j) < from(k)) /\ (from(j) = from(k) => j = k)
  BY <1>3
<1>6. \A l \in 1..Len(s) : l # i => \E j \in 1..m : from(j) = l
  <2> SUFFICES ASSUME NEW l \in 1..Len(s), l # i PROVE \E j \in 1..m : from(j) = l
    OBVIOUS
  <2>1. CASE l < i
    <3>1. l \in 1..m /\ from(l) = l
      BY <1>3, <2>1
    <3> QED BY <3>1
  <2>2. CASE ~ (l < i)
    <3>1. l - 1 \in 1..m /\ from(l - 1) = l
      BY <1>3, <2>2
    <3> QED BY <3>1
  <2> QED BY <2>1, <2>2
<1> HIDE DEF from
<1>7. Distinct(t)
  BY <1>2, <1>4, <1>5 DEF Distinct
<1>8. Members(t) = Members(s) \ {s[i]}
  <2>1. \A x : x \in Members(t) <=> \E j \in 1..m : t[j] = x
    BY <1>2, QueueElements
  <2>2. ASSUME NEW x \in Members(t) PROVE x \in Members(s) \ {s[i]}
    <3>1. PICK j \in 1..m : t[j] = x
      BY <2>1, <2>2
    <3>2. from(j) \in 1..Len(s) /\ s[from(j)] = x /\ from(j) # i
      BY <1>4, <3>1
    <3> QED BY <1>1, <3>2 DEF Distinct
  <2>3. ASSUME NEW x \in Members(s), x # s[i] PROVE x \in Members(t)
    <3>1. PICK l \in 1..Len(s) : s[l] = x
      BY <1>1, <2>3
    <3>2. PICK j \in 1..m : from(j) = l
      BY <1>6, <2>3, <3>1
    <3> QED BY <1>4, <2>1, <3>1, <3>2
  <2> QED BY <2>2, <2>3
<1>9. ASSUME NEW x, NEW y, Ahead(t, x, y) PROVE Ahead(s, x, y)
  <2>1. PICK j, k \in 1..m : j < k /\ t[j] = x /\ t[k] = y
    BY <1>2, <1>9 DEF Ahead
  <2> QED BY <1>4, <1>5, <2>1 DEF Ahead
<1> QED BY <1>2, <1>7, <1>8, <1>9 DEF t
=============================================================================

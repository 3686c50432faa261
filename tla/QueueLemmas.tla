----------------------------- MODULE QueueLemmas -----------------------------
(***************************************************************************)
(* What the queues of events are made of: appending at the end, dropping    *)
(* the head, and the set of what is queued; and induction over the numbers, *)
(* for a property that is the membership of a set.                          *)
(***************************************************************************)
EXTENDS Integers, Sequences, SequencesExt, SequenceTheorems, WellFoundedInduction, TLAPS

LEMMA InAppend ==
    ASSUME NEW S, NEW q \in Seq(S), NEW e \in S, NEW x
    PROVE  x \in ToSet(Append(q, e)) <=> x \in ToSet(q) \/ x = e
<1>1. Append(q, e) \in Seq(S) /\ Len(Append(q, e)) = Len(q) + 1 /\ Append(q, e)[Len(q) + 1] = e
  OBVIOUS
<1>2. \A i \in 1..Len(q) : Append(q, e)[i] = q[i]
  OBVIOUS
<1>3. DOMAIN q = 1..Len(q) /\ DOMAIN Append(q, e) = 1..Len(q) + 1
  OBVIOUS
<1>4. ASSUME x \in ToSet(Append(q, e))  PROVE x \in ToSet(q) \/ x = e
  BY <1>1, <1>2, <1>3, <1>4 DEF ToSet
<1>5. ASSUME x \in ToSet(q) \/ x = e  PROVE x \in ToSet(Append(q, e))
  BY <1>1, <1>2, <1>3, <1>5 DEF ToSet
<1> QED BY <1>4, <1>5

LEMMA InTail ==
    ASSUME NEW S, NEW q \in Seq(S), q # <<>>, NEW x
    PROVE  x \in ToSet(q) <=> x \in ToSet(Tail(q)) \/ x = Head(q)
<1>0. DOMAIN Tail(q) = 1..Len(Tail(q)) /\ DOMAIN q = 1..Len(q)
  <2>1. Tail(q) \in Seq(S)
    OBVIOUS
  <2> QED BY <2>1
<1>1. ASSUME x \in ToSet(q), x # Head(q)  PROVE x \in ToSet(Tail(q))
  <2>1. PICK i \in 1..Len(q) : q[i] = x
    BY <1>0, <1>1 DEF ToSet
  <2>2. i - 1 \in 1..Len(Tail(q)) /\ Tail(q)[i - 1] = x
    BY <1>1, <2>1
  <2> QED BY <1>0, <2>2 DEF ToSet
<1>2. ASSUME x \in ToSet(Tail(q))  PROVE x \in ToSet(q)
  <2>1. PICK i \in 1..Len(Tail(q)) : Tail(q)[i] = x
    BY <1>0, <1>2 DEF ToSet
  <2>2. i + 1 \in 1..Len(q) /\ q[i + 1] = x
    BY <2>1
  <2> QED BY <1>0, <2>2 DEF ToSet
<1>3. Head(q) \in ToSet(q)
  BY <1>0 DEF ToSet
<1> QED BY <1>1, <1>2, <1>3

\* The three facts every queue needs.
LEMMA EmptySet == ToSet(<<>>) = {}
  BY DEF ToSet

LEMMA AppendSet ==
    ASSUME NEW S, NEW q \in Seq(S), NEW e \in S
    PROVE  /\ Append(q, e) \in Seq(S) /\ Append(q, e) # <<>>
           /\ Len(Append(q, e)) = Len(q) + 1
           /\ ToSet(Append(q, e)) = ToSet(q) \cup {e}
<1>1. ToSet(Append(q, e)) = ToSet(q) \cup {e}
  BY InAppend
<1>2. Append(q, e) \in Seq(S) /\ Append(q, e) # <<>> /\ Len(Append(q, e)) = Len(q) + 1
  BY AppendProperties
<1> QED BY <1>1, <1>2

LEMMA TailSet ==
    ASSUME NEW S, NEW q \in Seq(S), q # <<>>
    PROVE  /\ Tail(q) \in Seq(S)
           /\ Len(Tail(q)) = Len(q) - 1 /\ Len(q) > 0
           /\ Head(q) \in S
           /\ ToSet(q) = ToSet(Tail(q)) \cup {Head(q)}
<1>1. ToSet(q) = ToSet(Tail(q)) \cup {Head(q)}
  BY InTail
<1>2. Tail(q) \in Seq(S) /\ Len(Tail(q)) = Len(q) - 1 /\ Len(q) > 0 /\ Head(q) \in S
  OBVIOUS
<1> QED BY <1>1, <1>2

LEMMA SetOfSeq ==
    ASSUME NEW S, NEW q \in Seq(S)
    PROVE  ToSet(q) \subseteq S /\ (q = <<>> <=> ToSet(q) = {})
<1>1. DOMAIN q = 1..Len(q)
  OBVIOUS
<1>2. ToSet(q) \subseteq S
  BY <1>1 DEF ToSet
<1>3. q # <<>> => 1 \in 1..Len(q)
  OBVIOUS
<1>4. q # <<>> => ToSet(q) # {}
  BY <1>1, <1>3 DEF ToSet
<1>5. q = <<>> => ToSet(q) = {}
  BY <1>1 DEF ToSet
<1> QED BY <1>2, <1>4, <1>5

-----------------------------------------------------------------------------
(* Induction over the numbers.                                              *)

LEMMA NumberInduction ==
    ASSUME NEW S, 0 \in S, \A n \in Nat : n \in S => n + 1 \in S
    PROVE  Nat \subseteq S
<1> DEFINE R == OpToRel(<, Nat)
           T == Nat \ S
<1>1. IsWellFoundedOn(R, Nat)
  BY NatLessThanWellFounded
<1>2. \A x, y \in Nat : <<x, y>> \in R <=> x < y
  BY DEF OpToRel
<1> HIDE DEF R
<1> SUFFICES ASSUME T # {} PROVE FALSE
  OBVIOUS
<1>3. PICK x \in T : \A y \in T : <<y, x>> \notin R
  BY <1>1, WFMin
<1>4. x \in Nat \ {0}
  OBVIOUS
<1>5. x - 1 \in S
  <2>1. x - 1 \in Nat /\ x - 1 < x
    BY <1>4
  <2>2. <<x - 1, x>> \in R
    BY <1>2, <1>4, <2>1
  <2> QED BY <1>3, <2>1, <2>2
<1> QED BY <1>3, <1>4, <1>5

-----------------------------------------------------------------------------
(* Searching and removing: the operators of SequencesExt.                   *)

LEMMA LeastIndex ==
    ASSUME NEW n \in Nat, NEW I \in SUBSET (1..n), I # {}
    PROVE  Min(I) \in I /\ \A j \in I : Min(I) <= j
<1>1. \E x \in I : \A y \in I : x <= y
  <2>1. I \subseteq Nat
    OBVIOUS
  <2> DEFINE R == OpToRel(<, Nat)
  <2>2. IsWellFoundedOn(R, Nat)
    BY NatLessThanWellFounded
  <2>3. \A x, y \in Nat : <<x, y>> \in R <=> x < y
    BY DEF OpToRel
  <2> HIDE DEF R
  <2>4. PICK x \in I : \A y \in I : <<y, x>> \notin R
    BY <2>1, <2>2, WFMin
  <2>5. ASSUME NEW y \in I PROVE x <= y
    <3>1. x \in Nat /\ y \in Nat /\ ~(y < x)
      BY <2>1, <2>3, <2>4
    <3> QED BY <3>1
  <2> QED BY <2>5
<1> QED BY <1>1 DEF Min

\* An element taken out: what is before and behind it stays, in order.
LEMMA Removed ==
    ASSUME NEW S, NEW q \in Seq(S), NEW k \in 1..Len(q)
    PROVE  /\ RemoveAt(q, k) \in Seq(S) /\ Len(RemoveAt(q, k)) = Len(q) - 1
           /\ \A i \in 1..Len(q) - 1 : RemoveAt(q, k)[i] = IF i < k THEN q[i] ELSE q[i + 1]
<1> DEFINE a == SubSeq(q, 1, k - 1)
           b == SubSeq(q, k + 1, Len(q))
<1>1. a \in Seq(S) /\ Len(a) = k - 1 /\ \A i \in 1..k - 1 : a[i] = q[i]
  <2>1. \A i \in 1..k - 1 : q[i] \in S
    OBVIOUS
  <2> QED BY <2>1, SubSeqProperties
<1>2. b \in Seq(S) /\ Len(b) = Len(q) - k /\ \A i \in 1..Len(q) - k : b[i] = q[k + i]
  <2>1. \A i \in k + 1..Len(q) : q[i] \in S
    OBVIOUS
  <2> QED BY <2>1, SubSeqProperties
<1> HIDE DEF a, b
<1>3. /\ a \o b \in Seq(S) /\ Len(a \o b) = Len(q) - 1
      /\ \A i \in 1..Len(q) - 1 : (a \o b)[i] = IF i <= k - 1 THEN a[i] ELSE b[i - (k - 1)]
  BY <1>1, <1>2, ConcatProperties
<1>4. RemoveAt(q, k) = a \o b
  BY DEF RemoveAt, a, b
<1>5. ASSUME NEW i \in 1..Len(q) - 1  PROVE (a \o b)[i] = IF i < k THEN q[i] ELSE q[i + 1]
  BY <1>1, <1>2, <1>3
<1> QED BY <1>3, <1>4, <1>5

LEMMA RemovedFirst ==
    ASSUME NEW S, NEW q \in Seq(S), NEW e
    PROVE  RemoveFirst(q, e) \in Seq(S)
<1> DEFINE I == {i \in 1..Len(q) : q[i] = e}
<1>1. CASE I = {}
  BY <1>1 DEF RemoveFirst
<1>2. CASE I # {}
  <2>1. Min(I) \in 1..Len(q)
    <3>1. Len(q) \in Nat /\ I \in SUBSET (1..Len(q))
      OBVIOUS
    <3> HIDE DEF I
    <3> QED BY <1>2, <3>1, LeastIndex
  <2>2. RemoveFirst(q, e) = RemoveAt(q, SelectInSeq(q, LAMBDA v : v = e))
    BY <1>2 DEF RemoveFirst
  <2>3. SelectInSeq(q, LAMBDA v : v = e) = Min(I)
    BY <1>2 DEF SelectInSeq
  <2> QED BY <2>1, <2>2, <2>3, Removed
<1> QED BY <1>1, <1>2
==============================================================================

----------------------------- MODULE Etimer_proofs -----------------------------
(***************************************************************************)
(* The two lists of wsnos_etimer.c stay sound, every armed timer stays on   *)
(* them, a delay wakes its thread once and by its own event, and the tick   *)
(* counts each armed timer exactly once: for any number of timers and any   *)
(* calls between the ticks, as long as no thread that was exited while it   *)
(* waits is created again (Restarted; the run etimer_reuse shows what       *)
(* happens otherwise).                                                      *)
(*                                                                         *)
(* The argument: the links never meet, and nothing points to the heads of   *)
(* the two lists.  Hence neither list turns back into itself or the other,  *)
(* a timer put in front, a join of the lists and a timer taken off keep     *)
(* that, and what lies ahead of the walk loses one timer a step.            *)
(***************************************************************************)
EXTENDS Etimer, QueueLemmas, FiniteSetTheorems

-----------------------------------------------------------------------------
(* What a list of links reaches.                                            *)

Links == [Timer \cup {First} -> Timer \cup {Null}]
Steps == Cardinality(Timer) + 1

\* The walk After takes, for any links m.
Follows(at, m, p) ==
    at = [k \in 0..Steps |-> IF k = 0 THEN p ELSE IF at[k - 1] = Null THEN Null ELSE m[at[k - 1]]]

\* Timers that the links lead no further out of, and where a list begins.
Closed(m, S) == \A x \in S : m[x] \in S \cup {Null}
Enters(m, p, S) == IF p = First THEN m[First] \in S \cup {Null} ELSE p \in S \cup {Null}

Places == Timer \cup {First, Null}

LEMMA TimersFinite ==
    /\ IsFiniteSet(Timer) /\ Cardinality(Timer) \in Nat /\ Steps = Cardinality(Timer) + 1
    /\ First \notin Timer \cup {Null} /\ Null \notin Timer /\ Idle \notin Timer \cup {First, Null}
<1>1. First # Null /\ Idle # First /\ Idle # Null
  BY DEF First, Null, Idle
<1> QED BY <1>1, TimerAssumption, FS_CardinalityType DEF Steps

LEMMA FollowsExists ==
    ASSUME NEW m \in Links, NEW p \in Places
    PROVE  \E at : Follows(at, m, p)
<1> DEFINE Then(x) == IF x = Null THEN Null ELSE m[x]
           Upto(k) == {g \in [0..k -> Places] : g[0] = p /\ \A n \in 1..k : g[n] = Then(g[n - 1])}
           S == {k \in Nat : Upto(k) # {}}
<1>1. 0 \in S
  <2>1. [n \in 0..0 |-> p] \in Upto(0)
    OBVIOUS
  <2> QED BY <2>1
<1>2. ASSUME NEW k \in Nat, k \in S PROVE k + 1 \in S
  <2>1. PICK g \in [0..k -> Places] : g[0] = p /\ \A n \in 1..k : g[n] = Then(g[n - 1])
    BY <1>2
  <2> DEFINE h == [n \in 0..k + 1 |-> IF n = k + 1 THEN Then(g[k]) ELSE g[n]]
  <2>2. Then(g[k]) \in Places
    BY <2>1 DEF Links, Places
  <2>3. h \in [0..k + 1 -> Places]
    BY <2>1, <2>2
  <2>4. h[0] = p
    BY <2>1
  <2>5. ASSUME NEW n \in 1..k + 1 PROVE h[n] = Then(h[n - 1])
    <3>1. n - 1 \in 0..k /\ h[n - 1] = g[n - 1]
      OBVIOUS
    <3>2. CASE n = k + 1
      BY <3>1, <3>2
    <3>3. CASE n # k + 1
      BY <2>1, <3>1, <3>3
    <3> QED BY <3>2, <3>3
  <2> HIDE DEF h
  <2> QED BY <2>3, <2>4, <2>5
<1>3. Steps \in S
  <2>1. Steps \in Nat
    BY TimersFinite
  <2> HIDE DEF S
  <2> QED BY <1>1, <1>2, <2>1, NumberInduction
<1>4. PICK g \in [0..Steps -> Places] : g[0] = p /\ \A n \in 1..Steps : g[n] = Then(g[n - 1])
  BY <1>3
<1>5. Follows(g, m, p)
  <2>1. \A n \in 0..Steps : g[n] = IF n = 0 THEN p ELSE Then(g[n - 1])
    BY <1>4, TimersFinite
  <2> QED BY <1>4, <2>1 DEF Follows
<1> QED BY <1>5

\* The timers reached, by where they stand.
Walk(at, m, p) ==
    /\ at \in [0..Steps -> Places] /\ at[0] = p
    /\ \A n \in 0..Steps - 1 : at[n + 1] = IF at[n] = Null THEN Null ELSE m[at[n]]
    /\ \A n \in 1..Steps : at[n] \in Timer \cup {Null}
    /\ After(m, p) = {q \in Timer : \E n \in 0..Steps : at[n] = q}

LEMMA Standing ==
    ASSUME NEW m \in Links, NEW p \in Places
    PROVE  \E at : Walk(at, m, p)
<1> DEFINE at == CHOOSE g : Follows(g, m, p)
<1>1. Follows(at, m, p)
  BY FollowsExists
<1>2. After(m, p) = Range(at) \ {Null, First}
  BY DEF After, Follows, Steps
<1> HIDE DEF at
<1>3. /\ DOMAIN at = 0..Steps /\ at = [n \in 0..Steps |-> at[n]] /\ at[0] = p
      /\ \A n \in 1..Steps : at[n] = IF at[n - 1] = Null THEN Null ELSE m[at[n - 1]]
  BY <1>1, TimersFinite DEF Follows
<1>4. \A n \in 0..Steps - 1 : at[n + 1] = IF at[n] = Null THEN Null ELSE m[at[n]]
  <2>1. \A n \in 0..Steps - 1 : n + 1 \in 1..Steps /\ (n + 1) - 1 = n
    BY TimersFinite
  <2> QED BY <1>3, <2>1
<1>5. \A n \in 0..Steps : at[n] \in Places
  <2> DEFINE S == {n \in Nat : n <= Steps => at[n] \in Places}
  <2>1. 0 \in S
    BY <1>3
  <2>2. ASSUME NEW n \in Nat, n \in S PROVE n + 1 \in S
    <3>1. n + 1 <= Steps => n \in 0..Steps - 1 /\ n <= Steps
      BY TimersFinite
    <3>2. n + 1 <= Steps => at[n + 1] = IF at[n] = Null THEN Null ELSE m[at[n]]
      BY <1>4, <3>1
    <3> QED BY <2>2, <3>1, <3>2 DEF Links, Places
  <2>3. Nat \subseteq S
    <3> HIDE DEF S
    <3> QED BY <2>1, <2>2, NumberInduction
  <2> QED BY <2>3, TimersFinite
<1>6. \A n \in 1..Steps : at[n] \in Timer \cup {Null}
  <2> SUFFICES ASSUME NEW n \in 1..Steps PROVE at[n] \in Timer \cup {Null}
    OBVIOUS
  <2>1. n - 1 \in 0..Steps
    BY TimersFinite
  <2>a. at[n] = IF at[n - 1] = Null THEN Null ELSE m[at[n - 1]]
    BY <1>3
  <2>2. at[n - 1] \in Places
    BY <1>5, <2>1
  <2>3. at[n - 1] # Null => m[at[n - 1]] \in Timer \cup {Null}
    BY <2>2 DEF Links, Places
  <2> QED BY <2>a, <2>3
<1>7. After(m, p) = {q \in Timer : \E n \in 0..Steps : at[n] = q}
  <2>1. Range(at) = {at[n] : n \in 0..Steps}
    BY <1>3 DEF Range
  <2>2. ASSUME NEW q \in After(m, p) PROVE q \in Timer /\ \E n \in 0..Steps : at[n] = q
    BY <1>2, <1>5, <2>1, <2>2 DEF Places
  <2>3. ASSUME NEW n \in 0..Steps, at[n] \in Timer PROVE at[n] \in After(m, p)
    BY <1>2, <2>1, <2>3, TimersFinite
  <2> QED BY <2>2, <2>3
<1>8. at \in [0..Steps -> Places]
  BY <1>3, <1>5
<1>9. Walk(at, m, p)
  BY <1>3, <1>4, <1>6, <1>7, <1>8 DEF Walk
<1> QED BY <1>9

LEMMA AfterLeast ==
    ASSUME NEW m \in Links, NEW p \in Places, NEW S \in SUBSET Timer,
           Enters(m, p, S), Closed(m, S)
    PROVE  After(m, p) \subseteq S
<1>1. PICK at : Walk(at, m, p)
  BY Standing
<1> DEFINE In == {n \in Nat : n <= Steps => at[n] \in S \cup {Null} \/ n = 0}
<1>2. 0 \in In
  OBVIOUS
<1>3. ASSUME NEW n \in Nat, n \in In PROVE n + 1 \in In
  <2> SUFFICES ASSUME n + 1 <= Steps PROVE at[n + 1] \in S \cup {Null}
    OBVIOUS
  <2>1. n \in 0..Steps - 1
    BY TimersFinite
  <2>2. at[n + 1] = IF at[n] = Null THEN Null ELSE m[at[n]]
    BY <1>1, <2>1 DEF Walk
  <2>3. CASE n = 0 /\ p = First
    BY <1>1, <2>2, <2>3, TimersFinite DEF Walk, Enters
  <2>4. CASE n = 0 /\ p # First
    BY <1>1, <2>2, <2>4 DEF Walk, Enters, Closed
  <2>5. CASE n # 0
    BY <1>3, <2>1, <2>2, <2>5, TimersFinite DEF Closed
  <2> QED BY <2>3, <2>4, <2>5
<1>4. Nat \subseteq In
  <2> HIDE DEF In
  <2> QED BY <1>2, <1>3, NumberInduction
<1>5. ASSUME NEW q \in After(m, p) PROVE q \in S
  <2>1. PICK n \in 0..Steps : at[n] = q /\ q \in Timer
    BY <1>1, <1>5 DEF Walk
  <2>2. CASE n = 0
    BY <1>1, <2>1, <2>2, TimersFinite DEF Walk, Enters
  <2>3. CASE n # 0
    BY <1>4, <2>1, <2>3, TimersFinite
  <2> QED BY <2>2, <2>3
<1> QED BY <1>5

\* Of more timers than there are two are the same: the ones passed are all.
LEMMA AfterClosed ==
    ASSUME NEW m \in Links, NEW p \in Places
    PROVE  Enters(m, p, After(m, p)) /\ Closed(m, After(m, p)) /\ After(m, p) \in SUBSET Timer
<1>1. PICK at : Walk(at, m, p)
  BY Standing
<1> DEFINE R == After(m, p)
<1>2. \A n \in 0..Steps : at[n] \in R \cup {Null, First}
  BY <1>1 DEF Walk, Places
<1>3. Enters(m, p, R)
  <2>1. 0 \in 0..Steps /\ 0 \in 0..Steps - 1 /\ 1 \in 1..Steps /\ 1 \in 0..Steps
    BY TimersFinite
  <2>2. p = First => at[1] = m[First]
    BY <1>1, <2>1, TimersFinite DEF Walk
  <2>3. at[1] \in Timer \cup {Null}
    BY <1>1, <2>1 DEF Walk
  <2> QED BY <1>1, <1>2, <2>1, <2>2, <2>3, TimersFinite DEF Walk, Enters
<1>4. \E k \in 1..Steps : at[k] = Null \/ at[k] \in {at[j] : j \in 1..k - 1}
  <2> SUFFICES ASSUME \A k \in 1..Steps : at[k] # Null
               PROVE  \E k \in 1..Steps : at[k] \in {at[j] : j \in 1..k - 1}
    OBVIOUS
  <2> DEFINE g == [n \in 1..Steps |-> at[n]]
  <2>1. g \in [1..Steps -> Timer]
    BY <1>1 DEF Walk
  <2>2. IsFiniteSet(1..Steps) /\ Cardinality(1..Steps) = Steps
    BY FS_Interval, TimersFinite
  <2>3. PICK i, j \in 1..Steps : i # j /\ g[i] = g[j]
    <3> HIDE DEF g
    <3> QED BY <2>1, <2>2, FS_PigeonHole, TimersFinite
  <2>4. at[i] = at[j] /\ i \in Int /\ j \in Int
    BY <2>3, TimersFinite
  <2>5. CASE i < j
    <3>1. i \in 1..j - 1
      BY <2>3, <2>5, TimersFinite
    <3> QED BY <2>4, <3>1
  <2>6. CASE j < i
    <3>1. j \in 1..i - 1
      BY <2>3, <2>6, TimersFinite
    <3> QED BY <2>4, <3>1
  <2> QED BY <2>3, <2>4, <2>5, <2>6
<1>5. PICK k \in 1..Steps : at[k] = Null \/ at[k] \in {at[j] : j \in 1..k - 1}
  BY <1>4
<1> DEFINE V == {at[j] : j \in 0..k - 1} \cap Timer
<1>6. \A j \in 0..k - 1 : j \in 0..Steps - 1 /\ j + 1 \in 1..Steps /\ (j + 1 \in 1..k - 1 \/ j + 1 = k)
  BY TimersFinite
<1>7. \A j \in 1..k - 1 : j \in 0..k - 1 /\ j \in 1..Steps
  BY TimersFinite
<1>8. \A j \in 1..k : at[j] \in V \cup {Null}
  <2>1. \A j \in 1..k - 1 : at[j] \in V \cup {Null}
    BY <1>1, <1>7 DEF Walk
  <2>2. at[k] \in V \cup {Null}
    BY <1>5, <2>1
  <2> QED BY <2>1, <2>2, TimersFinite
<1>9. Closed(m, V)
  <2> SUFFICES ASSUME NEW j \in 0..k - 1, at[j] \in Timer PROVE m[at[j]] \in V \cup {Null}
    BY DEF Closed
  <2>1. at[j + 1] = m[at[j]]
    BY <1>1, <1>6, TimersFinite DEF Walk
  <2>2. j + 1 \in 1..k
    BY <1>6, TimersFinite
  <2> QED BY <1>8, <2>1, <2>2
<1>10. Enters(m, p, V)
  <2>1. 0 \in 0..k - 1 /\ 0 \in 0..Steps - 1 /\ 1 \in 1..k
    BY TimersFinite
  <2>2. p = First => at[1] = m[First]
    BY <1>1, <2>1, TimersFinite DEF Walk
  <2>3. at[0] = p
    BY <1>1 DEF Walk
  <2>4. p # First => p \in V \cup {Null}
    BY <2>1, <2>3 DEF Places
  <2> QED BY <1>8, <2>1, <2>2, <2>4 DEF Enters
<1>11. R \subseteq V
  <2>1. V \in SUBSET Timer
    OBVIOUS
  <2> HIDE DEF V
  <2> QED BY <1>9, <1>10, <2>1, AfterLeast
<1>12. V \subseteq R
  BY <1>1, <1>6, TimersFinite DEF Walk
<1>13. R = V
  BY <1>11, <1>12
<1>14. R \in SUBSET Timer
  BY <1>13
<1> QED BY <1>3, <1>9, <1>13, <1>14

\* Links that nobody reached uses do not matter.
LEMMA Agree ==
    ASSUME NEW m \in Links, NEW n \in Links, NEW p \in Timer \cup {Null},
           \A x \in After(m, p) : n[x] = m[x]
    PROVE  After(n, p) = After(m, p)
<1> DEFINE A == After(m, p)
           B == After(n, p)
<1>1. /\ Enters(m, p, A) /\ Closed(m, A) /\ A \in SUBSET Timer
      /\ Enters(n, p, B) /\ Closed(n, B) /\ B \in SUBSET Timer /\ p # First /\ p \in Places
  BY AfterClosed, TimersFinite DEF Places
<1>2. Enters(n, p, A) /\ Closed(n, A)
  BY <1>1 DEF Enters, Closed
<1>3. Enters(m, p, A \cap B) /\ Closed(m, A \cap B) /\ A \cap B \in SUBSET Timer
  BY <1>1 DEF Enters, Closed
<1>4. B \subseteq A
  BY <1>1, <1>2, AfterLeast
<1>5. A \subseteq A \cap B
  BY <1>1, <1>3, AfterLeast
<1> QED BY <1>4, <1>5

\* A timer and what follows it.
LEMMA AfterStep ==
    ASSUME NEW m \in Links, NEW p \in Timer \cup {First}
    PROVE  /\ After(m, p) = ({p} \ {First}) \cup After(m, m[p])
           /\ m[p] \in Timer \cup {Null} /\ m[p] \in After(m, m[p]) \cup {Null}
<1> DEFINE A == After(m, p)
           B == After(m, m[p])
           C == ({p} \ {First}) \cup B
<1>1. m[p] \in Timer \cup {Null} /\ m[p] # First /\ p # Null /\ p \in Places /\ m[p] \in Places
  BY TimersFinite DEF Links, Places
<1>2. /\ Enters(m, p, A) /\ Closed(m, A) /\ A \in SUBSET Timer
      /\ m[p] \in B \cup {Null} /\ Closed(m, B) /\ B \in SUBSET Timer
  BY <1>1, AfterClosed DEF Enters
<1>3. Enters(m, p, C) /\ Closed(m, C) /\ C \in SUBSET Timer
  BY <1>1, <1>2 DEF Enters, Closed
<1>4. A \subseteq C
  BY <1>1, <1>3, AfterLeast
<1>5. p # First => p \in A
  BY <1>1, <1>2 DEF Enters
<1>6. Enters(m, m[p], A)
  BY <1>1, <1>2, <1>5 DEF Enters, Closed
<1>7. B \subseteq A
  BY <1>1, <1>2, <1>6, AfterLeast
<1> QED BY <1>1, <1>2, <1>4, <1>5, <1>7

LEMMA AfterNull == ASSUME NEW m \in Links PROVE After(m, Null) = {}
<1>1. Enters(m, Null, {}) /\ Closed(m, {}) /\ Null \in Places
  BY TimersFinite DEF Enters, Closed, Places
<1> QED BY <1>1, AfterLeast

\* Every timer on a list but the one it begins with has another before it.
LEMMA HasPrevious ==
    ASSUME NEW m \in Links, NEW p \in Timer \cup {First}, NEW q \in After(m, m[p])
    PROVE  \E x \in After(m, m[p]) \cup {p} : m[x] = q
<1> DEFINE R == After(m, m[p])
           S == {y \in R : \E x \in R \cup {p} : m[x] = y}
<1>1. /\ m[p] \in Timer \cup {Null} /\ m[p] \in R \cup {Null} /\ Closed(m, R) /\ R \in SUBSET Timer
      /\ m[p] \in Places /\ m[p] # First
  BY AfterStep, AfterClosed, TimersFinite DEF Links, Places
<1>2. Enters(m, m[p], S) /\ Closed(m, S) /\ S \in SUBSET Timer
  BY <1>1 DEF Enters, Closed
<1>3. R \subseteq S
  <2> HIDE DEF S
  <2> QED BY <1>1, <1>2, AfterLeast
<1> QED BY <1>3

-----------------------------------------------------------------------------
(* The two lists.                                                           *)

Main(m)    == After(m, First)
Side(m, a) == After(m, a)

\* The links of the linked timers never meet, nothing leads to the heads, and
\* every linked timer is on one of the lists.
Sound(m, a, L) ==
    /\ L \subseteq Timer /\ a \in L \cup {Null}
    /\ \A x \in L \cup {First} : m[x] \in L \cup {Null}
    /\ \A x, y \in L \cup {First} : m[x] = m[y] /\ m[x] # Null => x = y
    /\ a # Null => \A x \in L \cup {First} : m[x] # a
    /\ L \subseteq Main(m) \cup Side(m, a)

LEMMA MainFirst ==
    ASSUME NEW m \in Links
    PROVE  Main(m) = After(m, m[First]) /\ m[First] \in Main(m) \cup {Null} /\ m[First] \in Timer \cup {Null}
  BY AfterStep DEF Main

LEMMA MainAgrees ==
    ASSUME NEW m \in Links, NEW n \in Links, n[First] = m[First], \A x \in Main(m) : n[x] = m[x]
    PROVE  Main(n) = Main(m)
<1>1. /\ Main(m) = After(m, m[First]) /\ Main(n) = After(n, n[First]) /\ m[First] \in Timer \cup {Null}
  BY MainFirst
<1>2. \A x \in After(m, m[First]) : n[x] = m[x]
  BY <1>1
<1>3. After(n, m[First]) = After(m, m[First])
  BY <1>1, <1>2, Agree
<1> QED BY <1>1, <1>3

\* A list taken from any place of the main one is part of it, and does not come
\* back to that place.
LEMMA NoCircle ==
    ASSUME NEW m \in Links, NEW a, NEW L, Sound(m, a, L), NEW p \in Main(m) \cup {First}, Main(m) \subseteq L
    PROVE  p \notin After(m, m[p]) /\ After(m, m[p]) \subseteq Main(m)
<1> DEFINE M == Main(m)
           R == After(m, m[p])
<1>1. /\ M \subseteq Timer /\ Closed(m, M) /\ m[First] \in M \cup {Null} /\ p \in Timer \cup {First} /\ First \in Places
  BY AfterClosed, MainFirst DEF Main, Places
<1>2. /\ m[p] \in Timer \cup {Null} /\ m[p] \in R \cup {Null} /\ Closed(m, R) /\ R \in SUBSET Timer
      /\ m[p] \in Places /\ m[p] # First
  BY <1>1, AfterStep, AfterClosed, TimersFinite DEF Places
<1>3. m[p] \in M \cup {Null}
  BY <1>1 DEF Closed
<1> HIDE DEF M, R
<1>4. R \subseteq M
  <2>1. Enters(m, m[p], M)
    BY <1>2, <1>3 DEF Enters
  <2> QED BY <1>1, <1>2, <2>1, AfterLeast DEF R
<1>5. ASSUME p \in R PROVE FALSE
  <2>1. \A q \in R : \E x \in R : m[x] = q
    BY <1>1, <1>5, HasPrevious DEF R
  <2>2. \A x \in M \cup {First} : m[x] \in R => x \in R
    <3> SUFFICES ASSUME NEW x \in M \cup {First}, m[x] \in R PROVE x \in R
      OBVIOUS
    <3>1. PICK y \in R : m[y] = m[x]
      BY <2>1
    <3>2. x \in L \cup {First} /\ y \in L \cup {First} /\ m[x] # Null
      BY <1>2, <1>4, TimersFinite DEF M
    <3> QED BY <3>1, <3>2 DEF Sound
  <2>3. First \notin R
    BY <1>2, TimersFinite
  <2> DEFINE S == M \ R
  <2>4. Enters(m, First, S)
    BY <1>1, <2>2, <2>3 DEF Enters
  <2>5. Closed(m, S)
    BY <1>1, <2>2 DEF Closed
  <2>6. S \in SUBSET Timer
    BY <1>1
  <2> HIDE DEF S
  <2>7. M \subseteq S
    BY <1>1, <2>4, <2>5, <2>6, AfterLeast DEF M, Main
  <2> QED BY <1>4, <1>5, <2>7 DEF S
<1> QED BY <1>4, <1>5 DEF M, R

\* Together the lists are the linked timers; they have none in common.
LEMMA TwoLists ==
    ASSUME NEW m \in Links, NEW a, NEW L, Sound(m, a, L)
    PROVE  /\ Main(m) \cup Side(m, a) = L /\ Main(m) \cap Side(m, a) = {} /\ a \in Side(m, a) \cup {Null}
           /\ Main(m) \subseteq Timer /\ Side(m, a) \subseteq Timer
           /\ Closed(m, Main(m)) /\ Closed(m, Side(m, a))
           /\ m[First] \in Main(m) \cup {Null} /\ a \in Timer \cup {Null}
<1> DEFINE M == Main(m)
           B == Side(m, a)
<1>1. L \subseteq Timer /\ a \in L \cup {Null} /\ a \in Timer \cup {Null} /\ a # First /\ a \in Places /\ First \in Places
  BY TimersFinite DEF Sound, Places
<1>2. /\ m[First] \in M \cup {Null} /\ Closed(m, M) /\ M \in SUBSET Timer
      /\ a \in B \cup {Null} /\ Closed(m, B) /\ B \in SUBSET Timer
  BY <1>1, AfterClosed, MainFirst DEF Main, Side, Enters
<1>3. Enters(m, First, L) /\ Enters(m, a, L) /\ Closed(m, L)
  BY <1>1 DEF Sound, Enters, Closed
<1>4. M \subseteq L /\ B \subseteq L
  BY <1>1, <1>3, AfterLeast DEF Main, Side
<1> HIDE DEF M, B
<1>5. \A x \in L : m[x] \in M => x \in M
  <2> SUFFICES ASSUME NEW x \in L, m[x] \in M PROVE x \in M
    OBVIOUS
  <2>1. PICK y \in M \cup {First} : m[y] = m[x]
    BY MainFirst, HasPrevious DEF M
  <2>2. y \in L \cup {First} /\ x \in L \cup {First} /\ m[x] # Null
    BY <1>2, <1>4, TimersFinite
  <2>3. x = y
    BY <2>1, <2>2 DEF Sound
  <2> QED BY <1>1, <2>1, <2>3, TimersFinite
<1>6. a \notin M
  <2> SUFFICES ASSUME a \in M PROVE FALSE
    OBVIOUS
  <2>1. PICK y \in M \cup {First} : m[y] = a
    BY MainFirst, HasPrevious DEF M
  <2> QED BY <1>2, <1>4, <2>1, TimersFinite DEF Sound
<1> DEFINE S == B \ M
<1>7. Enters(m, a, S) /\ Closed(m, S) /\ S \in SUBSET Timer
  BY <1>1, <1>2, <1>4, <1>5, <1>6 DEF Enters, Closed
<1>8. B \subseteq S
  <2> HIDE DEF S
  <2> QED BY <1>1, <1>7, AfterLeast DEF B, Side
<1>9. L \subseteq M \cup B
  BY DEF Sound, M, B
<1> QED BY <1>1, <1>2, <1>4, <1>8, <1>9 DEF M, B

\* The main list ends: of finitely many places one leads nowhere.
LEMMA MainEnds ==
    ASSUME NEW m \in Links, NEW a, NEW L, Sound(m, a, L)
    PROVE  \E p \in Main(m) \cup {First} : m[p] = Null
<1> DEFINE M == Main(m)
<1>1. /\ M \subseteq L /\ M \subseteq Timer /\ Closed(m, M) /\ m[First] \in M \cup {Null}
  BY TwoLists
<1> HIDE DEF M
<1>2. SUFFICES ASSUME \A p \in M \cup {First} : m[p] # Null PROVE FALSE
  BY DEF M
<1> DEFINE P == M \cup {First}
           f == [p \in P |-> m[p]]
<1>3. f \in [P -> M]
  BY <1>1, <1>2 DEF Closed
<1>4. IsFiniteSet(M) /\ First \notin M
  BY <1>1, TimersFinite, FS_Subset
<1>5. IsFiniteSet(P) /\ Cardinality(P) = Cardinality(M) + 1 /\ Cardinality(M) \in Nat
  BY <1>4, FS_AddElement, FS_CardinalityType
<1>6. PICK x, y \in P : x # y /\ f[x] = f[y]
  <2>1. Cardinality(M) < Cardinality(P)
    BY <1>5
  <2> HIDE DEF P, f
  <2> QED BY <1>3, <1>4, <1>5, <2>1, FS_PigeonHole
<1>7. x \in L \cup {First} /\ y \in L \cup {First} /\ m[x] = m[y] /\ m[x] # Null
  BY <1>1, <1>2, <1>6
<1> QED BY <1>6, <1>7 DEF Sound

-----------------------------------------------------------------------------
(* What arm, the constructor, the join and the walk do to the lists.        *)

\* A timer put in front of `act`: osel_etimer_arm.
LEMMA PutInFront ==
    ASSUME NEW m \in Links, NEW a, NEW L, Sound(m, a, L), NEW t \in Timer, t \notin L,
           NEW n, n = [m EXCEPT ![t] = a]
    PROVE  n \in Links /\ Sound(n, t, L \cup {t})
<1>1. /\ Main(m) \cup Side(m, a) = L /\ Main(m) \subseteq Timer /\ Side(m, a) \subseteq Timer
      /\ a \in Timer \cup {Null}
  BY TwoLists
<1>2. n \in Links /\ n[t] = a /\ \A x \in Timer \cup {First} : x # t => n[x] = m[x]
  BY <1>1 DEF Links
<1>3. /\ L \subseteq Timer /\ a \in L \cup {Null} /\ t # First /\ t # Null
      /\ \A x \in L \cup {First} : m[x] \in L \cup {Null} /\ n[x] = m[x]
  BY <1>2, TimersFinite DEF Sound
<1>4. After(n, a) = After(m, a)
  <2>1. \A x \in After(m, a) : n[x] = m[x]
    BY <1>1, <1>3 DEF Side
  <2> QED BY <1>1, <1>2, <2>1, Agree DEF Side
<1>5. Main(n) = Main(m)
  <2>1. n[First] = m[First] /\ \A x \in Main(m) : n[x] = m[x]
    BY <1>1, <1>3
  <2> QED BY <1>2, <2>1, MainAgrees
<1>6. Side(n, t) = {t} \cup Side(m, a)
  <2>1. After(n, t) = ({t} \ {First}) \cup After(n, n[t])
    BY <1>2, AfterStep
  <2> QED BY <1>2, <1>3, <1>4, <2>1 DEF Side
<1>7. L \cup {t} \subseteq Timer /\ t \in (L \cup {t}) \cup {Null}
  BY <1>3
<1>8. \A x \in (L \cup {t}) \cup {First} : n[x] \in (L \cup {t}) \cup {Null} /\ n[x] # t
  BY <1>2, <1>3
<1>9. \A x, y \in (L \cup {t}) \cup {First} : n[x] = n[y] /\ n[x] # Null => x = y
  <2> SUFFICES ASSUME NEW x \in (L \cup {t}) \cup {First}, NEW y \in (L \cup {t}) \cup {First},
                      n[x] = n[y], n[x] # Null, x # y
               PROVE  FALSE
    OBVIOUS
  <2>1. CASE x = t
    BY <1>2, <1>3, <2>1 DEF Sound
  <2>2. CASE y = t
    BY <1>2, <1>3, <2>2 DEF Sound
  <2>3. CASE x # t /\ y # t
    BY <1>3, <2>3 DEF Sound
  <2> QED BY <2>1, <2>2, <2>3
<1>10. L \cup {t} \subseteq Main(n) \cup Side(n, t)
  BY <1>1, <1>5, <1>6
<1> QED BY <1>2, <1>7, <1>8, <1>9, <1>10 DEF Sound

\* A timer built anew while it is on no list: OSEL_ETIMER_CTOR.
LEMMA BuiltAnew ==
    ASSUME NEW m \in Links, NEW a, NEW L, Sound(m, a, L), NEW t \in Timer, t \notin L,
           NEW n, n = [m EXCEPT ![t] = Null]
    PROVE  n \in Links /\ Sound(n, a, L \ {t})
<1>1. /\ Main(m) \cup Side(m, a) = L /\ Main(m) \subseteq Timer /\ Side(m, a) \subseteq Timer
      /\ a \in Timer \cup {Null}
  BY TwoLists
<1>2. n \in Links /\ (\A x \in Timer \cup {First} : x # t => n[x] = m[x]) /\ t # First /\ L \ {t} = L
  BY TimersFinite DEF Links
<1>3. L \subseteq Timer /\ \A x \in L \cup {First} : n[x] = m[x]
  BY <1>2, TimersFinite DEF Sound
<1>4. Side(n, a) = Side(m, a)
  <2>1. \A x \in After(m, a) : n[x] = m[x]
    BY <1>1, <1>3 DEF Side
  <2> QED BY <1>1, <1>2, <2>1, Agree DEF Side
<1>5. Main(n) = Main(m)
  <2>1. n[First] = m[First] /\ \A x \in Main(m) : n[x] = m[x]
    BY <1>1, <1>3
  <2> QED BY <1>2, <2>1, MainAgrees
<1> QED BY <1>2, <1>3, <1>4, <1>5 DEF Sound

JoinAt(m, p, a) == [m EXCEPT ![p] = a]
Without(m, p)   == [m EXCEPT ![p] = m[m[p]]]

\* `act` taken in where the main list ends: wsnos_ticks, osel_etimer_disarm.
LEMMA TakenIn ==
    ASSUME NEW m \in Links, NEW a, NEW L, Sound(m, a, L), NEW p \in Main(m) \cup {First}, m[p] = Null,
           NEW n, n = JoinAt(m, p, a)
    PROVE  n \in Links /\ Sound(n, Null, L) /\ Main(n) = L /\ After(n, n[p]) = After(m, a)
<1> DEFINE M == Main(m)
           B == Side(m, a)
<1>1. /\ M \cup B = L /\ M \cap B = {} /\ a \in B \cup {Null} /\ M \subseteq Timer /\ B \subseteq Timer
      /\ Closed(m, M) /\ Closed(m, B) /\ m[First] \in M \cup {Null} /\ a \in Timer \cup {Null}
  BY TwoLists
<1>2. /\ n \in Links /\ n[p] = a /\ p \in Timer \cup {First} /\ p \in L \cup {First}
      /\ \A x \in Timer \cup {First} : x # p => n[x] = m[x]
  BY <1>1 DEF Links, JoinAt
<1>3. p \notin B
  BY <1>1, TimersFinite
<1>4. After(n, a) = B
  <2>1. \A x \in B : n[x] = m[x]
    BY <1>1, <1>2, <1>3
  <2> QED BY <1>1, <1>2, <2>1, Agree DEF Side
<1> DEFINE N == Main(n)
<1>5. Closed(n, N) /\ N \subseteq Timer /\ n[First] \in N \cup {Null} /\ First \in Places
  BY <1>2, AfterClosed, MainFirst DEF Main, Places
<1> HIDE DEF M, B, N
<1>6. M \subseteq N
  <2> DEFINE S == M \cap N
  <2>1. m[First] \in S \cup {Null}
    <3>1. CASE p = First
      BY <3>1
    <3>2. CASE p # First
      BY <1>1, <1>2, <1>5, <3>2
    <3> QED BY <3>1, <3>2
  <2>2. Closed(m, S)
    <3> SUFFICES ASSUME NEW x \in S PROVE m[x] \in S \cup {Null}
      BY DEF Closed
    <3>1. CASE x = p
      BY <3>1
    <3>2. CASE x # p
      BY <1>1, <1>2, <1>5, <3>2 DEF Closed
    <3> QED BY <3>1, <3>2
  <2>3. Enters(m, First, S) /\ S \in SUBSET Timer
    BY <1>1, <2>1 DEF Enters
  <2> HIDE DEF S
  <2>4. M \subseteq S
    BY <1>5, <2>2, <2>3, AfterLeast DEF M, Main
  <2> QED BY <2>4 DEF S
<1>7. B \subseteq N
  <2>1. a \in N \cup {Null}
    BY <1>2, <1>5, <1>6 DEF Closed, M
  <2>2. Enters(n, a, N) /\ a \in Places
    BY <1>1, <2>1, TimersFinite DEF Enters, Places
  <2>3. After(n, a) \subseteq N
    BY <1>2, <1>5, <2>2, AfterLeast
  <2> QED BY <1>4, <2>3
<1>8. N \subseteq L
  <2>1. L \subseteq Timer /\ Enters(n, First, L) /\ Closed(n, L)
    <3>1. \A x \in L \cup {First} : n[x] \in L \cup {Null}
      <4> SUFFICES ASSUME NEW x \in L \cup {First} PROVE n[x] \in L \cup {Null}
        OBVIOUS
      <4>1. x \in Timer \cup {First}
        BY <1>1
      <4> QED BY <1>1, <1>2, <4>1 DEF Sound
    <3> QED BY <1>1, <3>1 DEF Enters, Closed
  <2> QED BY <1>2, <1>5, <2>1, AfterLeast DEF N, Main
<1>9. N = L
  BY <1>1, <1>6, <1>7, <1>8
<1>10. \A x \in L \cup {First} : n[x] \in L \cup {Null}
  BY <1>5, <1>9 DEF Closed
<1>11. \A x, y \in L \cup {First} : n[x] = n[y] /\ n[x] # Null => x = y
  <2> SUFFICES ASSUME NEW x \in L \cup {First}, NEW y \in L \cup {First}, n[x] = n[y], n[x] # Null, x # y
               PROVE  FALSE
    OBVIOUS
  <2>1. x \in Timer \cup {First} /\ y \in Timer \cup {First}
    BY <1>1
  <2>2. CASE x = p
    BY <1>2, <2>1, <2>2 DEF Sound
  <2>3. CASE y = p
    BY <1>2, <2>1, <2>3 DEF Sound
  <2>4. CASE x # p /\ y # p
    BY <1>2, <2>1, <2>4 DEF Sound
  <2> QED BY <2>2, <2>3, <2>4
<1>12. Sound(n, Null, L)
  BY <1>1, <1>9, <1>10, <1>11 DEF Sound, N
<1> QED BY <1>2, <1>4, <1>9, <1>12 DEF N, B, Side

\* The timer behind a place of the main list taken off.
LEMMA TakenOff ==
    ASSUME NEW m \in Links, NEW a, NEW L, Sound(m, a, L), NEW p \in Main(m) \cup {First}, m[p] # Null,
           NEW t, t = m[p], NEW n, n = Without(m, p)
    PROVE  /\ n \in Links /\ Sound(n, a, L \ {t}) /\ t \in Main(m) /\ t # p
           /\ p \in Main(n) \cup {First} /\ n[p] = m[t] /\ p \notin Side(m, a)
<1> DEFINE M == Main(m)
           B == Side(m, a)
<1>1. /\ M \cup B = L /\ M \cap B = {} /\ a \in B \cup {Null} /\ M \subseteq Timer /\ B \subseteq Timer
      /\ Closed(m, M) /\ Closed(m, B) /\ m[First] \in M \cup {Null} /\ a \in Timer \cup {Null}
  BY TwoLists
<1>2. t \in M /\ t \in Timer /\ p \in Timer \cup {First} /\ p \in L \cup {First}
  BY <1>1 DEF Closed
<1>3. p \notin After(m, t)
  <2>1. Main(m) \subseteq L
    BY <1>1
  <2> QED BY <2>1, NoCircle
<1>4. t # p
  BY <1>2, <1>3, AfterStep
<1>5. /\ n \in Links /\ n[p] = m[t] /\ m[t] \in M \cup {Null}
      /\ \A x \in Timer \cup {First} : x # p => n[x] = m[x]
  BY <1>1, <1>2 DEF Links, Closed, Without
<1>6. p \notin B /\ t \notin B
  BY <1>1, <1>2, TimersFinite
<1>7. Side(n, a) = B
  <2>1. \A x \in B : n[x] = m[x]
    BY <1>1, <1>5, <1>6
  <2> QED BY <1>1, <1>5, <2>1, Agree DEF Side
<1>8. m[t] # t
  <2>1. Main(m) \subseteq L
    BY <1>1
  <2>2. t \notin After(m, m[t])
    BY <1>2, <2>1, NoCircle
  <2> QED BY <1>2, <2>2, AfterStep, TimersFinite
<1>o. \A x \in L \cup {First} : m[x] = t => x = p
  BY <1>2, TimersFinite DEF Sound
<1> DEFINE N == Main(n)
<1>9. Closed(n, N) /\ N \subseteq Timer /\ n[First] \in N \cup {Null} /\ First \in Places
  BY <1>5, AfterClosed, MainFirst DEF Main, Places
<1> HIDE DEF M, B, N
<1>10. M \ {t} \subseteq N
  <2> DEFINE S == {x \in M : x \in N \/ (x = t /\ m[t] \in N \cup {Null})}
  <2>1. \A x \in (S \cup {First}) \cap (N \cup {First}) : m[x] \in S \cup {Null}
    <3> SUFFICES ASSUME NEW x \in (M \cap N) \cup {First} PROVE m[x] \in S \cup {Null}
      OBVIOUS
    <3>1. n[x] \in N \cup {Null} /\ m[x] \in M \cup {Null} /\ x \in Timer \cup {First}
      BY <1>1, <1>9 DEF Closed
    <3>2. CASE x = p
      BY <1>2, <1>5, <3>1, <3>2
    <3>3. CASE x # p
      BY <1>5, <3>1, <3>3
    <3> QED BY <3>2, <3>3
  <2>2. Closed(m, S)
    <3> SUFFICES ASSUME NEW x \in S PROVE m[x] \in S \cup {Null}
      BY DEF Closed
    <3>1. CASE x \in N
      BY <2>1, <3>1
    <3>2. CASE x = t /\ m[t] \in N \cup {Null}
      BY <1>5, <3>2
    <3> QED BY <3>1, <3>2
  <2>3. Enters(m, First, S) /\ S \in SUBSET Timer
    BY <1>1, <2>1 DEF Enters
  <2> HIDE DEF S
  <2>4. M \subseteq S
    BY <1>9, <2>2, <2>3, AfterLeast DEF M, Main
  <2> QED BY <2>4 DEF S
<1>11. /\ L \ {t} \subseteq Timer /\ L \ {t} \subseteq N \cup B
       /\ a \in (L \ {t}) \cup {Null} /\ p \in N \cup {First}
  BY <1>1, <1>2, <1>4, <1>6, <1>10 DEF M
<1>12. \A x \in (L \ {t}) \cup {First} : n[x] \in (L \ {t}) \cup {Null} /\ n[x] # t
  <2> SUFFICES ASSUME NEW x \in (L \ {t}) \cup {First} PROVE n[x] \in (L \ {t}) \cup {Null} /\ n[x] # t
    OBVIOUS
  <2>1. x \in Timer \cup {First} /\ m[x] \in L \cup {Null} /\ x \in L \cup {First}
    BY <1>1 DEF Sound
  <2>2. CASE x = p
    BY <1>1, <1>2, <1>5, <1>8, <2>2, TimersFinite
  <2>3. CASE x # p
    BY <1>o, <1>2, <1>5, <2>1, <2>3, TimersFinite
  <2> QED BY <2>2, <2>3
<1>13. \A x, y \in (L \ {t}) \cup {First} : n[x] = n[y] /\ n[x] # Null => x = y
  <2> SUFFICES ASSUME NEW x \in (L \ {t}) \cup {First}, NEW y \in (L \ {t}) \cup {First},
                      n[x] = n[y], n[x] # Null, x # y
               PROVE  FALSE
    OBVIOUS
  <2>1. x \in Timer \cup {First} /\ y \in Timer \cup {First} /\ x # t /\ y # t /\ t \in L
    BY <1>1, <1>2, TimersFinite
  <2>2. CASE x = p
    BY <1>5, <2>1, <2>2 DEF Sound
  <2>3. CASE y = p
    BY <1>5, <2>1, <2>3 DEF Sound
  <2>4. CASE x # p /\ y # p
    BY <1>5, <2>1, <2>4 DEF Sound
  <2> QED BY <2>2, <2>3, <2>4
<1>14. a # Null => \A x \in (L \ {t}) \cup {First} : n[x] # a
  <2> SUFFICES ASSUME a # Null, NEW x \in (L \ {t}) \cup {First} PROVE n[x] # a
    OBVIOUS
  <2>1. x \in Timer \cup {First} /\ t \in L
    BY <1>1, <1>2
  <2> QED BY <1>5, <2>1 DEF Sound
<1>15. Sound(n, a, L \ {t})
  BY <1>7, <1>11, <1>12, <1>13, <1>14 DEF Sound, N
<1> QED BY <1>2, <1>4, <1>5, <1>6, <1>11, <1>15 DEF N, M, B

\* What a walk at p has still to come to.
AheadOf(m, a, p) == (After(m, p) \cup After(m, a)) \ {p}

LEMMA Remains ==
    ASSUME NEW m \in Links, NEW a, NEW L, Sound(m, a, L), NEW p \in Main(m) \cup {First}
    PROVE  AheadOf(m, a, p) = After(m, m[p]) \cup Side(m, a)
<1>1. /\ Main(m) \subseteq L /\ Main(m) \cap Side(m, a) = {} /\ Main(m) \subseteq Timer /\ Side(m, a) \subseteq Timer
  BY TwoLists
<1>2. After(m, p) = ({p} \ {First}) \cup After(m, m[p])
  BY <1>1, AfterStep
<1>3. p \notin After(m, m[p])
  BY <1>1, NoCircle
<1>4. p \notin Side(m, a)
  BY <1>1, TimersFinite
<1> QED BY <1>2, <1>3, <1>4 DEF AheadOf, Side

LEMMA AheadTakenIn ==
    ASSUME NEW m \in Links, NEW a, NEW L, Sound(m, a, L), NEW p \in Main(m) \cup {First}, m[p] = Null,
           NEW n, n = JoinAt(m, p, a)
    PROVE  AheadOf(n, Null, p) = AheadOf(m, a, p)
<1>1. n \in Links /\ Sound(n, Null, L) /\ Main(n) = L /\ After(n, n[p]) = After(m, a)
  BY TakenIn
<1>a. p \in Main(n) \cup {First}
  BY <1>1, TwoLists
<1>2. AheadOf(n, Null, p) = After(n, n[p]) \cup Side(n, Null)
  BY <1>1, <1>a, Remains
<1>3. AheadOf(m, a, p) = After(m, m[p]) \cup Side(m, a)
  BY Remains
<1>4. After(m, Null) = {} /\ After(n, Null) = {}
  BY <1>1, AfterNull
<1> QED BY <1>1, <1>2, <1>3, <1>4 DEF Side

\* One timer less, whether the walk goes past it or takes it off.
LEMMA AheadStep ==
    ASSUME NEW m \in Links, NEW a, NEW L, Sound(m, a, L), NEW p \in Main(m) \cup {First}, m[p] # Null,
           NEW t, t = m[p], NEW n, n = Without(m, p)
    PROVE  /\ t \in Main(m) /\ t \in AheadOf(m, a, p)
           /\ AheadOf(m, a, t) = AheadOf(m, a, p) \ {t}
           /\ AheadOf(n, a, p) = AheadOf(m, a, p) \ {t}
<1>1. /\ n \in Links /\ Sound(n, a, L \ {t}) /\ t \in Main(m)
      /\ p \in Main(n) \cup {First} /\ n[p] = m[t] /\ p \notin Side(m, a)
  BY TakenOff
<1>2. /\ Main(m) \subseteq L /\ Main(m) \cap Side(m, a) = {} /\ Main(m) \subseteq Timer /\ a \in Timer \cup {Null}
      /\ Side(m, a) \subseteq Timer
  BY TwoLists
<1>3. AheadOf(m, a, p) = After(m, t) \cup Side(m, a) /\ AheadOf(m, a, t) = After(m, m[t]) \cup Side(m, a)
  BY <1>1, Remains
<1>4. AheadOf(n, a, p) = After(n, m[t]) \cup Side(n, a)
  BY <1>1, Remains
<1>5. After(m, t) = {t} \cup After(m, m[t]) /\ m[t] \in Timer \cup {Null}
  <2>1. After(m, t) = ({t} \ {First}) \cup After(m, m[t]) /\ m[t] \in Timer \cup {Null}
    BY <1>1, <1>2, AfterStep
  <2> QED BY <1>1, <1>2, <2>1, TimersFinite
<1>6. t \notin After(m, m[t]) /\ p \notin After(m, t) /\ After(m, m[t]) \subseteq Main(m)
  BY <1>1, <1>2, NoCircle
<1>7. After(n, m[t]) = After(m, m[t])
  <2>1. \A x \in After(m, m[t]) : n[x] = m[x]
    BY <1>2, <1>5, <1>6 DEF Links, Without
  <2> QED BY <1>1, <1>5, <2>1, Agree
<1>8. After(n, a) = After(m, a)
  <2>1. \A x \in After(m, a) : n[x] = m[x]
    BY <1>1, <1>2 DEF Links, Side, Without
  <2> QED BY <1>1, <1>2, <2>1, Agree
<1>9. t \notin Side(m, a)
  BY <1>1, <1>2
<1> QED BY <1>1, <1>3, <1>4, <1>5, <1>6, <1>7, <1>8, <1>9 DEF Side

-----------------------------------------------------------------------------
(* The invariant.                                                           *)

Once(q, t) == \A i, j \in DOMAIN q : q[i] = t /\ q[j] = t => i = j

\* The walk is on the main list, and a timer that counts is on one of the two.
Shape == /\ TypeOK /\ Sound(next, act, linked)
         /\ prev \in Main(next) \cup {First, Idle}
         /\ \A t \in Timer : ctr[t] > 0 => t \in linked

\* The timer of a delay runs once: until it is armed nothing is left of an
\* earlier delay, and its event is queued when it has left the list.
Delays == \A t \in Delayed :
    /\ interval[t] = 0
    /\ thread[t] \in {"none", "built"} => t \notin linked /\ t \notin Range(queue)
    /\ thread[t] = "waiting" /\ t \in Range(queue) => t \notin linked /\ Once(queue, t)

EInv == Shape /\ Delays

LEMMA Counters == CtrMod \in Nat /\ 1 < CtrMod /\ MaxTicks \in Nat /\ EVENT_MAX \in Nat
  BY TicksFit, TimerAssumption

\* No delay asked for is cut off by the 16 bits of the counter.
LEMMA Fits == \A n \in 0..MaxTicks : n % CtrMod = n /\ n % CtrMod \in 0..CtrMod - 1
  BY TicksFit

LEMMA LinksTyped ==
    /\ TypeOK => next \in Links
    /\ TypeOK' => next' \in Links
  BY DEF TypeOK, Links

\* Between ticks nothing is left for the tick to count.
LEMMA NothingAhead == (prev = Idle => Ahead = {}) /\ (prev' = Idle => Ahead' = {})
  BY DEF Ahead

LEMMA AheadIs ==
    /\ prev # Idle => Ahead = {t \in AheadOf(next, act, prev) : ctr[t] > 0}
    /\ prev' # Idle => Ahead' = {t \in AheadOf(next', act', prev') : ctr'[t] > 0}
  BY DEF Ahead, AheadOf

-----------------------------------------------------------------------------
(* The calls of the task.                                                   *)

\* What any of them makes of the lists and the counters.
Setting(t) ==
    /\ next' \in Links /\ Sound(next', act', linked') /\ linked' \subseteq linked \cup {t} /\ linked \subseteq linked' \cup {t}
    /\ \E n \in 0..CtrMod - 1 : ctr' = [ctr EXCEPT ![t] = n] /\ (n > 0 => t \in linked')
    /\ \E i \in 0..CtrMod - 1 : interval' = [interval EXCEPT ![t] = i]

LEMMA LinkSets ==
    ASSUME Shape, NEW t \in Timer, Link(t)
    PROVE  next' \in Links /\ Sound(next', act', linked') /\ linked' = linked \cup {t}
<1>1. next \in Links /\ Sound(next, act, linked)
  BY LinksTyped DEF Shape
<1>2. CASE t \in linked
  BY <1>1, <1>2 DEF Link, lists
<1>3. CASE t \notin linked
  <2>1. linked' = linked \cup {t} /\ next' = [next EXCEPT ![t] = act] /\ act' = t
    BY <1>3 DEF Link
  <2>2. [next EXCEPT ![t] = act] \in Links /\ Sound([next EXCEPT ![t] = act], t, linked \cup {t})
    BY <1>1, <1>3, PutInFront
  <2> QED BY <2>1, <2>2
<1> QED BY <1>2, <1>3

LEMMA ArmSets ==
    ASSUME Shape, NEW t \in Timer, NEW n \in 0..MaxTicks, NEW i \in 0..MaxTicks, Arm(t, n, i)
    PROVE  Setting(t) /\ interval' = [interval EXCEPT ![t] = i]
<1>1. next' \in Links /\ Sound(next', act', linked') /\ linked' = linked \cup {t}
  BY LinkSets DEF Arm
<1>2. n % CtrMod \in 0..CtrMod - 1 /\ i % CtrMod = i /\ i % CtrMod \in 0..CtrMod - 1
  BY Fits
<1>3. ctr' = [ctr EXCEPT ![t] = n % CtrMod] /\ interval' = [interval EXCEPT ![t] = i % CtrMod]
  BY DEF Arm
<1>4. \E k \in 0..CtrMod - 1 : ctr' = [ctr EXCEPT ![t] = k] /\ (k > 0 => t \in linked')
  BY <1>1, <1>2, <1>3
<1>5. \E k \in 0..CtrMod - 1 : interval' = [interval EXCEPT ![t] = k]
  BY <1>2, <1>3
<1> QED BY <1>1, <1>2, <1>3, <1>4, <1>5 DEF Setting

LEMMA CtorSets ==
    ASSUME Shape, NEW t \in Timer, t \notin linked, Ctor(t)
    PROVE  Setting(t) /\ linked' = linked
<1>1. next \in Links /\ Sound(next, act, linked)
  BY LinksTyped DEF Shape
<1>2. /\ next' = [next EXCEPT ![t] = Null] /\ act' = act /\ linked' = linked \ {t} /\ linked' = linked
      /\ ctr' = [ctr EXCEPT ![t] = 0] /\ interval' = [interval EXCEPT ![t] = 0]
  BY DEF Ctor
<1>3. [next EXCEPT ![t] = Null] \in Links /\ Sound([next EXCEPT ![t] = Null], act, linked \ {t})
  BY <1>1, BuiltAnew
<1>4. 0 \in 0..CtrMod - 1 /\ ~(0 > 0)
  BY Counters
<1> QED BY <1>2, <1>3, <1>4 DEF Setting

LEMMA RearmSets ==
    ASSUME Shape, NEW t \in Timer, NEW n \in 0..MaxTicks, Rearm(t, n)
    PROVE  Setting(t)
<1>1. next \in Links /\ Sound(next, act, linked) /\ ctr \in [Timer -> 0..CtrMod - 1] /\ interval \in [Timer -> 0..CtrMod - 1]
  BY LinksTyped DEF Shape, TypeOK
<1>2. next' \in Links /\ Sound(next', act', linked') /\ linked' = linked \cup {t}
  <2>1. CASE ctr[t] = 0
    BY <2>1, LinkSets DEF Rearm
  <2>2. CASE ctr[t] # 0
    <3>1. ctr[t] > 0
      BY <1>1, <2>2, Counters
    <3>2. t \in linked
      BY <3>1 DEF Shape
    <3> QED BY <1>1, <2>2, <3>2 DEF Rearm, lists
  <2> QED BY <2>1, <2>2
<1>3. n % CtrMod \in 0..CtrMod - 1 /\ 0 \in 0..CtrMod - 1
  BY Fits, Counters
<1>4. \E k \in 0..CtrMod - 1 : ctr' = [ctr EXCEPT ![t] = k] /\ (k > 0 => t \in linked')
  BY <1>2, <1>3 DEF Rearm
<1>5. \E k \in 0..CtrMod - 1 : interval' = [interval EXCEPT ![t] = k]
  <2>1. interval' = [interval EXCEPT ![t] = IF interval[t] # 0 THEN n % CtrMod ELSE 0]
    BY <1>1 DEF Rearm
  <2> QED BY <1>3, <2>1
<1> QED BY <1>2, <1>4, <1>5 DEF Setting

LEMMA DisarmSets ==
    ASSUME Shape, NEW t \in Timer, Disarm(t)
    PROVE  Setting(t) /\ linked' \subseteq linked /\ interval' = interval
<1>1. next \in Links /\ Sound(next, act, linked) /\ ctr \in [Timer -> 0..CtrMod - 1] /\ interval \in [Timer -> 0..CtrMod - 1]
  BY LinksTyped DEF Shape, TypeOK
<1>2. \E i \in 0..CtrMod - 1 : interval = [interval EXCEPT ![t] = i]
  <2>1. interval = [interval EXCEPT ![t] = interval[t]] /\ interval[t] \in 0..CtrMod - 1
    BY <1>1
  <2> QED BY <2>1
<1>3. CASE ctr[t] = 0
  <2>1. UNCHANGED <<next, act, ctr, interval, linked>>
    BY <1>3 DEF Disarm
  <2>2. \E n \in 0..CtrMod - 1 : ctr = [ctr EXCEPT ![t] = n] /\ (n > 0 => t \in linked)
    <3>1. ctr = [ctr EXCEPT ![t] = ctr[t]] /\ ctr[t] \in 0..CtrMod - 1 /\ ~(ctr[t] > 0)
      BY <1>1, <1>3
    <3> QED BY <3>1
  <2> QED BY <1>1, <1>2, <2>1, <2>2 DEF Setting
<1>4. CASE ctr[t] # 0
  <2>1. t \in linked
    <3>1. ctr[t] > 0
      BY <1>1, <1>4, Counters
    <3> QED BY <3>1 DEF Shape
  <2> DEFINE listed == t \in Main(next)
             end    == CHOOSE p \in Main(next) \cup {First} : next[p] = Null
             links  == IF listed THEN next ELSE Joined(end)
             b      == IF listed THEN act ELSE Null
  <2>2. /\ ctr' = [ctr EXCEPT ![t] = 0] /\ interval' = interval /\ act' = b
        /\ IF t \in Main(links)
           THEN LET p == CHOOSE p \in Main(links) \cup {First} : links[p] = t
                IN  next' = [links EXCEPT ![p] = links[t]] /\ linked' = linked \ {t}
           ELSE next' = links /\ UNCHANGED linked
    BY <1>4 DEF Disarm, Main
  <2>3. links \in Links /\ Sound(links, b, linked) /\ t \in Main(links)
    <3>1. CASE listed
      BY <1>1, <3>1
    <3>2. CASE ~listed
      <4>1. end \in Main(next) \cup {First} /\ next[end] = Null
        BY <1>1, MainEnds
      <4>2. links = JoinAt(next, end, act) /\ b = Null
        BY <3>2, <4>1 DEF Joined, JoinAt
      <4> HIDE DEF end, links, b
      <4>3. links \in Links /\ Sound(links, Null, linked) /\ Main(links) = linked
        BY <1>1, <4>1, <4>2, TakenIn
      <4> QED BY <2>1, <4>2, <4>3
    <3> QED BY <3>1, <3>2
  <2> DEFINE p == CHOOSE p \in Main(links) \cup {First} : links[p] = t
  <2>4. next' = [links EXCEPT ![p] = links[t]] /\ linked' = linked \ {t}
    BY <2>2, <2>3
  <2> HIDE DEF links, b, listed
  <2>5. p \in Main(links) \cup {First} /\ links[p] = t
    <3>1. Main(links) = After(links, links[First])
      BY <2>3, MainFirst
    <3>2. \E x \in Main(links) \cup {First} : links[x] = t
      BY <2>3, <3>1, HasPrevious
    <3> QED BY <3>2
  <2>6. next' = Without(links, p)
    BY <2>4, <2>5 DEF Without
  <2> HIDE DEF p
  <2>7. next' \in Links /\ Sound(next', b, linked \ {t})
    BY <2>1, <2>3, <2>5, <2>6, TakenOff, TimersFinite
  <2>8. \E n \in 0..CtrMod - 1 : ctr' = [ctr EXCEPT ![t] = n] /\ (n > 0 => t \in linked')
    <3>1. ctr' = [ctr EXCEPT ![t] = 0]
      BY <2>2
    <3>2. 0 \in 0..CtrMod - 1 /\ ~(0 > 0)
      BY Counters
    <3> QED BY <3>1, <3>2
  <2> QED BY <1>2, <2>1, <2>2, <2>4, <2>7, <2>8 DEF Setting
<1> QED BY <1>3, <1>4

\* A call between ticks keeps the lists and is one of those TimerService allows.
LEMMA SettingKeeps ==
    ASSUME Shape, NEW t \in Timer, Setting(t), prev = Idle, prev' = prev,
           queue' \in Seq(Timer), Len(queue') <= EVENT_MAX,
           thread' \in [Delayed -> {"none", "built", "waiting", "dead"}]
    PROVE  Shape' /\ (queue' = queue => Service!Set(t))
<1>1. /\ Sound(next', act', linked') /\ next' \in Links /\ linked \subseteq linked' \cup {t}
      /\ ctr \in [Timer -> 0..CtrMod - 1] /\ interval \in [Timer -> 0..CtrMod - 1]
  BY DEF Setting, Shape, TypeOK
<1>2. PICK n \in 0..CtrMod - 1 : ctr' = [ctr EXCEPT ![t] = n] /\ (n > 0 => t \in linked')
  BY DEF Setting
<1>3. PICK i \in 0..CtrMod - 1 : interval' = [interval EXCEPT ![t] = i]
  BY DEF Setting
<1>4. linked' \subseteq Timer /\ act' \in Timer \cup {Null}
  BY <1>1 DEF Sound
<1>5. ctr' \in [Timer -> 0..CtrMod - 1] /\ interval' \in [Timer -> 0..CtrMod - 1]
  BY <1>1, <1>2, <1>3
<1>6. \A x \in Timer : ctr'[x] > 0 => x \in linked'
  <2> SUFFICES ASSUME NEW x \in Timer, ctr'[x] > 0 PROVE x \in linked'
    OBVIOUS
  <2>1. CASE x = t
    BY <1>1, <1>2, <2>1
  <2>2. CASE x # t
    <3>1. ctr[x] > 0
      BY <1>1, <1>2, <2>2
    <3> QED BY <1>1, <2>2, <3>1 DEF Shape
  <2> QED BY <2>1, <2>2
<1>7. TypeOK'
  BY <1>1, <1>4, <1>5 DEF TypeOK, Links
<1>8. Shape'
  BY <1>1, <1>6, <1>7 DEF Shape
<1>9. ASSUME queue' = queue PROVE Service!Set(t)
  <2>1. Ahead = {} /\ Ahead' = {}
    BY NothingAhead
  <2> QED BY <1>2, <1>3, <1>9, <2>1 DEF Service!Set
<1> QED BY <1>8, <1>9

LEMMA UsersApart == (\A t \in Plain : t \in Timer /\ t \notin Delayed) /\ Delayed \subseteq Timer
  BY TimersUsed DEF Timer

\* Counters and lists of the other timers are not touched.
LEMMA SettingLeaves ==
    ASSUME Shape, NEW t \in Timer, Setting(t), NEW x \in Timer, x # t
    PROVE  interval'[x] = interval[x] /\ (x \in linked' <=> x \in linked)
<1>1. interval \in [Timer -> 0..CtrMod - 1]
  BY DEF Shape, TypeOK
<1> QED BY <1>1 DEF Setting

LEMMA PlainCalls ==
    ASSUME EInv, CallArm \/ CallDisarm \/ CallRearm
    PROVE  EInv' /\ \E t \in Timer : Service!Set(t)
<1>1. PICK t \in Plain : Setting(t)
  <2>1. CASE CallArm
    <3>1. PICK t \in Plain, n \in 0..MaxTicks, i \in 0..MaxTicks : Arm(t, n, i)
      BY <2>1 DEF CallArm
    <3> QED BY <3>1, ArmSets, UsersApart DEF EInv
  <2>2. CASE CallDisarm
    BY <2>2, DisarmSets, UsersApart DEF CallDisarm, EInv
  <2>3. CASE CallRearm
    BY <2>3, RearmSets, UsersApart DEF CallRearm, EInv
  <2> QED BY <2>1, <2>2, <2>3
<1>2. /\ t \in Timer /\ t \notin Delayed /\ Delayed \subseteq Timer
      /\ prev = Idle /\ prev' = prev /\ queue' = queue /\ thread' = thread
  BY UsersApart DEF CallArm, CallDisarm, CallRearm, Between, TaskRuns
<1>3. Shape' /\ Service!Set(t)
  <2>1. queue' \in Seq(Timer) /\ Len(queue') <= EVENT_MAX /\ thread' \in [Delayed -> {"none", "built", "waiting", "dead"}]
    BY <1>2 DEF EInv, Shape, TypeOK
  <2> QED BY <1>1, <1>2, <2>1, SettingKeeps DEF EInv
<1>4. Delays'
  <2> SUFFICES ASSUME NEW x \in Delayed
               PROVE  /\ interval'[x] = 0
                      /\ thread'[x] \in {"none", "built"} => x \notin linked' /\ x \notin Range(queue')
                      /\ thread'[x] = "waiting" /\ x \in Range(queue') => x \notin linked' /\ Once(queue', x)
    BY DEF Delays, Once
  <2>1. interval'[x] = interval[x] /\ (x \in linked' <=> x \in linked)
    BY <1>1, <1>2, SettingLeaves DEF EInv
  <2> QED BY <1>2, <2>1 DEF EInv, Delays
<1> QED BY <1>2, <1>3, <1>4 DEF EInv

LEMMA OnceBehind ==
    ASSUME NEW q \in Seq(Timer), q # <<>>, NEW x
    PROVE  /\ x \in Range(Tail(q)) => x \in Range(q)
           /\ Once(q, x) => Once(Tail(q), x)
           /\ Once(q, x) /\ Head(q) = x => x \notin Range(Tail(q))
<1>1. /\ DOMAIN q = 1..Len(q) /\ DOMAIN Tail(q) = 1..Len(q) - 1 /\ Len(q) \in Nat \ {0} /\ Head(q) = q[1]
      /\ \A i \in 1..Len(q) - 1 : Tail(q)[i] = q[i + 1] /\ i + 1 \in 1..Len(q) /\ i \in Nat
  <2>1. Tail(q) \in Seq(Timer) /\ Len(Tail(q)) = Len(q) - 1
    OBVIOUS
  <2> QED BY <2>1
<1>2. ASSUME NEW i \in DOMAIN Tail(q), Tail(q)[i] = x PROVE i + 1 \in DOMAIN q /\ q[i + 1] = x /\ i \in Nat \ {0}
  BY <1>1, <1>2
<1>3. ASSUME Once(q, x) PROVE Once(Tail(q), x)
  <2> SUFFICES ASSUME NEW i \in DOMAIN Tail(q), NEW j \in DOMAIN Tail(q), Tail(q)[i] = x, Tail(q)[j] = x PROVE i = j
    BY DEF Once
  <2>1. i + 1 = j + 1
    BY <1>2, <1>3 DEF Once
  <2> QED BY <1>2, <2>1
<1>4. ASSUME Once(q, x), Head(q) = x, NEW i \in DOMAIN Tail(q), Tail(q)[i] = x PROVE FALSE
  <2>1. i + 1 = 1
    BY <1>1, <1>2, <1>4 DEF Once
  <2> QED BY <1>2, <1>4, <2>1
<1>5. x \in Range(Tail(q)) => x \in Range(q)
  BY <1>2 DEF Range
<1> QED BY <1>3, <1>4, <1>5 DEF Range

LEMMA OnceAppended ==
    ASSUME NEW q \in Seq(Timer), NEW t \in Timer
    PROVE  /\ Append(q, t) \in Seq(Timer) /\ Len(Append(q, t)) = Len(q) + 1
           /\ \A x : x \in Range(Append(q, t)) <=> x \in Range(q) \/ x = t
           /\ \A x : x # t /\ Once(q, x) => Once(Append(q, t), x)
           /\ t \notin Range(q) => Once(Append(q, t), t)
<1> DEFINE r == Append(q, t)
<1>1. /\ r \in Seq(Timer) /\ Len(r) = Len(q) + 1 /\ r[Len(q) + 1] = t /\ \A i \in 1..Len(q) : r[i] = q[i]
      /\ Len(q) \in Nat /\ DOMAIN q = 1..Len(q)
  OBVIOUS
<1>2. DOMAIN r = DOMAIN q \cup {Len(q) + 1} /\ Len(q) + 1 \notin DOMAIN q
  BY <1>1
<1> HIDE DEF r
<1>3. \A x : x \in Range(r) <=> x \in Range(q) \/ x = t
  BY <1>1, <1>2 DEF Range
<1>4. ASSUME NEW x, x # t, Once(q, x) PROVE Once(r, x)
  BY <1>1, <1>2, <1>4 DEF Once
<1>5. ASSUME t \notin Range(q) PROVE Once(r, t)
  BY <1>1, <1>2, <1>5 DEF Once, Range
<1> QED BY <1>1, <1>3, <1>4, <1>5 DEF r

LEMMA ThreadCalls ==
    ASSUME Restarted = {}, EInv, Create \/ Delay \/ Exit
    PROVE  EInv' /\ (UNCHANGED Service!vars \/ \E t \in Timer : Service!Set(t))
<1>1. /\ prev = Idle /\ prev' = prev /\ queue' = queue /\ Delayed \subseteq Timer
      /\ thread \in [Delayed -> {"none", "built", "waiting", "dead"}]
      /\ queue \in Seq(Timer) /\ Len(queue) <= EVENT_MAX /\ interval \in [Timer -> 0..CtrMod - 1]
      /\ Shape /\ Delays
  BY UsersApart DEF Create, Delay, Exit, Between, TaskRuns, EInv, Shape, TypeOK
<1>2. ASSUME NEW t \in Delayed, Setting(t), interval'[t] = 0,
             NEW s \in {"built", "waiting", "dead"}, thread' = [thread EXCEPT ![t] = s],
             s = "built" => t \notin linked' /\ t \notin Range(queue),
             s = "waiting" => t \notin Range(queue)
      PROVE  EInv' /\ Service!Set(t)
  <2>1. Shape' /\ Service!Set(t)
    <3>1. thread' \in [Delayed -> {"none", "built", "waiting", "dead"}]
      BY <1>1, <1>2
    <3> QED BY <1>1, <1>2, <3>1, SettingKeeps
  <2>2. Delays'
    <3> SUFFICES ASSUME NEW x \in Delayed
                 PROVE  /\ interval'[x] = 0
                        /\ thread'[x] \in {"none", "built"} => x \notin linked' /\ x \notin Range(queue')
                        /\ thread'[x] = "waiting" /\ x \in Range(queue') => x \notin linked' /\ Once(queue', x)
      BY DEF Delays, Once
    <3>1. CASE x = t
      BY <1>1, <1>2, <3>1
    <3>2. CASE x # t
      <4>1. interval'[x] = interval[x] /\ (x \in linked' <=> x \in linked) /\ thread'[x] = thread[x]
        BY <1>1, <1>2, <3>2, SettingLeaves
      <4> QED BY <1>1, <4>1 DEF Delays
    <3> QED BY <3>1, <3>2
  <2> QED BY <2>1, <2>2 DEF EInv
<1>3. CASE Create
  <2>1. PICK t \in Delayed : thread[t] = "none" /\ Ctor(t) /\ thread' = [thread EXCEPT ![t] = "built"]
    BY <1>3 DEF Create
  <2>2. t \notin linked /\ t \notin Range(queue) /\ t \in Timer
    BY <1>1, <2>1 DEF Delays
  <2>3. Setting(t) /\ linked' = linked
    BY <1>1, <2>1, <2>2, CtorSets
  <2>4. interval'[t] = 0
    BY <1>1, <2>1, <2>2 DEF Ctor
  <2> QED BY <1>1, <1>2, <2>1, <2>2, <2>3, <2>4
<1>4. CASE Delay
  <2>1. PICK t \in Delayed, n \in 0..MaxTicks :
            thread[t] = "built" /\ Arm(t, n, 0) /\ thread' = [thread EXCEPT ![t] = "waiting"]
    BY <1>4 DEF Delay
  <2>2. t \notin Range(queue) /\ t \in Timer /\ 0 \in 0..MaxTicks
    BY <1>1, <2>1, Counters DEF Delays
  <2>3. Setting(t) /\ interval' = [interval EXCEPT ![t] = 0]
    BY <1>1, <2>1, <2>2, ArmSets
  <2>4. interval'[t] = 0
    BY <1>1, <2>2, <2>3
  <2> QED BY <1>1, <1>2, <2>1, <2>2, <2>3, <2>4
<1>5. CASE Exit
  <2>1. PICK t \in Delayed :
            /\ thread' = [thread EXCEPT ![t] = "dead"]
            /\ Disarm(t) \/ UNCHANGED <<next, act, ctr, interval, linked>>
    BY <1>5 DEF Exit
  <2>2. interval[t] = 0 /\ t \in Timer
    BY <1>1 DEF Delays
  <2>3. CASE Disarm(t)
    <3>1. Setting(t) /\ interval' = interval
      BY <1>1, <2>2, <2>3, DisarmSets
    <3> QED BY <1>1, <1>2, <2>1, <2>2, <3>1
  <2>4. CASE UNCHANGED <<next, act, ctr, interval, linked>>
    <3>1. thread' \in [Delayed -> {"none", "built", "waiting", "dead"}]
      BY <1>1, <2>1
    <3>2. Shape'
      BY <1>1, <2>4, <3>1 DEF Shape, TypeOK
    <3>3. Delays'
      <4> SUFFICES ASSUME NEW x \in Delayed
                   PROVE  /\ interval'[x] = 0
                          /\ thread'[x] \in {"none", "built"} => x \notin linked' /\ x \notin Range(queue')
                          /\ thread'[x] = "waiting" /\ x \in Range(queue') => x \notin linked' /\ Once(queue', x)
        BY DEF Delays, Once
      <4>1. thread'[x] = thread[x] \/ thread'[x] = "dead"
        BY <1>1, <2>1
      <4> QED BY <1>1, <2>4, <4>1 DEF Delays
    <3>4. UNCHANGED Service!vars
      BY <1>1, <2>4, NothingAhead DEF Service!vars
    <3> QED BY <3>2, <3>3, <3>4 DEF EInv
  <2> QED BY <2>1, <2>3, <2>4
<1> QED BY <1>3, <1>4, <1>5

\* The task takes an event of its queue.
LEMMA TakeKeeps ==
    ASSUME Restarted = {}, EInv, Take
    PROVE  EInv' /\ Service!Take
<1>1. /\ prev = Idle /\ prev' = prev /\ Delayed \subseteq Timer
      /\ thread \in [Delayed -> {"none", "built", "waiting", "dead"}]
      /\ queue \in Seq(Timer) /\ queue # <<>> /\ Len(queue) <= EVENT_MAX /\ queue' = Tail(queue)
      /\ interval \in [Timer -> 0..CtrMod - 1] /\ Shape /\ Delays
  BY UsersApart DEF Take, Between, TaskRuns, EInv, Shape, TypeOK
<1> DEFINE t == Head(queue)
<1>2. t \in Timer /\ queue' \in Seq(Timer) /\ Len(queue') <= EVENT_MAX /\ t \in Range(queue)
  <2>1. t = queue[1] /\ 1 \in DOMAIN queue /\ t \in Timer
    BY <1>1
  <2>2. Tail(queue) \in Seq(Timer) /\ Len(Tail(queue)) = Len(queue) - 1 /\ Len(queue) \in Nat
    BY <1>1
  <2>3. t \in Range(queue)
    BY <2>1 DEF Range
  <2> QED BY <1>1, <2>1, <2>2, <2>3, Counters
<1>3. \A x : /\ x \in Range(queue') => x \in Range(queue)
             /\ Once(queue, x) => Once(queue', x)
             /\ Once(queue, x) /\ t = x => x \notin Range(queue')
  BY <1>1, OnceBehind
<1>4. Ahead = {} /\ Ahead' = {}
  BY <1>1, NothingAhead
<1>5. CASE Waits(t) /\ Ctor(t) /\ thread' = [thread EXCEPT ![t] = "built"]
  <2>1. t \in Delayed /\ t \notin linked /\ Once(queue, t)
    BY <1>1, <1>2, <1>5 DEF Waits, Delays
  <2>2. Setting(t) /\ linked' = linked /\ interval' = [interval EXCEPT ![t] = 0] /\ ctr' = [ctr EXCEPT ![t] = 0]
    BY <1>1, <1>2, <1>5, <2>1, CtorSets DEF Ctor
  <2>3. Shape'
    <3>1. thread' \in [Delayed -> {"none", "built", "waiting", "dead"}]
      BY <1>1, <1>5
    <3> QED BY <1>1, <1>2, <2>2, <3>1, SettingKeeps
  <2>4. Delays'
    <3> SUFFICES ASSUME NEW x \in Delayed
                 PROVE  /\ interval'[x] = 0
                        /\ thread'[x] \in {"none", "built"} => x \notin linked' /\ x \notin Range(queue')
                        /\ thread'[x] = "waiting" /\ x \in Range(queue') => x \notin linked' /\ Once(queue', x)
      BY DEF Delays, Once
    <3>1. CASE x = t
      BY <1>1, <1>2, <1>3, <1>5, <2>1, <2>2, <3>1
    <3>2. CASE x # t
      <4>1. interval'[x] = interval[x] /\ thread'[x] = thread[x]
        BY <1>1, <1>5, <2>2, <3>2
      <4> QED BY <1>1, <1>3, <2>2, <4>1 DEF Delays
    <3> QED BY <3>1, <3>2
  <2>5. Service!Take
    BY <1>1, <1>4, <2>2 DEF Service!Take
  <2> QED BY <2>3, <2>4, <2>5 DEF EInv
<1>6. CASE /\ UNCHANGED <<next, act, ctr, interval, linked>>
           /\ thread' = thread \/ (Waits(t) /\ thread' = [thread EXCEPT ![t] = "dead"])
  <2>1. thread' \in [Delayed -> {"none", "built", "waiting", "dead"}]
    BY <1>1, <1>6
  <2>2. Shape'
    BY <1>1, <1>2, <1>6, <2>1 DEF Shape, TypeOK
  <2>3. Delays'
    <3> SUFFICES ASSUME NEW x \in Delayed
                 PROVE  /\ interval'[x] = 0
                        /\ thread'[x] \in {"none", "built"} => x \notin linked' /\ x \notin Range(queue')
                        /\ thread'[x] = "waiting" /\ x \in Range(queue') => x \notin linked' /\ Once(queue', x)
      BY DEF Delays, Once
    <3>1. thread'[x] = thread[x] \/ thread'[x] = "dead"
      BY <1>1, <1>6
    <3> QED BY <1>1, <1>3, <1>6, <3>1 DEF Delays
  <2>4. Service!Take
    BY <1>1, <1>4, <1>6 DEF Service!Take
  <2> QED BY <2>2, <2>3, <2>4 DEF EInv
<1> QED BY <1>5, <1>6 DEF Take

-----------------------------------------------------------------------------
(* The tick.                                                                *)

LEMMA TickBegins ==
    ASSUME EInv, TickStart
    PROVE  EInv' /\ Service!Tick
<1>1. /\ prev = Idle /\ prev' = First /\ UNCHANGED <<next, act, ctr, interval, linked, queue, thread>>
      /\ Shape /\ Delays /\ next \in Links
  BY LinksTyped DEF TickStart, EInv, Shape
<1>2. TypeOK'
  BY <1>1 DEF Shape, TypeOK
<1>3. Shape'
  BY <1>1, <1>2 DEF Shape
<1>4. Delays'
  BY <1>1 DEF Delays, Once
<1>5. Ahead = {} /\ Ahead' = {t \in Timer : ctr[t] > 0}
  <2>1. Ahead' = {t \in AheadOf(next, act, First) : ctr[t] > 0}
    BY <1>1, AheadIs, TimersFinite
  <2>2. Main(next) \cup Side(next, act) = linked /\ linked \subseteq Timer
    BY <1>1, TwoLists DEF Shape
  <2>3. AheadOf(next, act, First) = linked
    BY <2>2, TimersFinite DEF AheadOf, Main, Side
  <2>4. \A t \in Timer : ctr[t] > 0 => t \in linked
    BY <1>1 DEF Shape
  <2> QED BY <1>1, <2>1, <2>2, <2>3, <2>4, NothingAhead
<1>6. Service!Tick
  BY <1>1, <1>5 DEF Service!Tick
<1> QED BY <1>3, <1>4, <1>6 DEF EInv

LEMMA TickStops ==
    ASSUME EInv, TickEnd
    PROVE  EInv' /\ UNCHANGED Service!vars
<1>1. /\ prev # Idle /\ prev' = Idle /\ UNCHANGED <<next, act, ctr, interval, linked, queue, thread>>
      /\ Joined(prev)[prev] = Null
      /\ Shape /\ Delays /\ next \in Links /\ prev \in Main(next) \cup {First}
      /\ Sound(next, act, linked)
  BY LinksTyped DEF TickEnd, EInv, Shape
<1>2. TypeOK'
  BY <1>1 DEF Shape, TypeOK
<1>3. Shape'
  BY <1>1, <1>2 DEF Shape
<1>4. Delays'
  BY <1>1 DEF Delays, Once
<1>5. prev \in Timer \cup {First}
  BY <1>1, TwoLists
<1>6. next[prev] = Null /\ act = Null
  BY <1>1, <1>5 DEF Joined, Links
<1>7. AheadOf(next, act, prev) = {}
  <2>1. AheadOf(next, act, prev) = After(next, next[prev]) \cup Side(next, act)
    BY <1>1, Remains
  <2> QED BY <1>1, <1>6, <2>1, AfterNull DEF Side
<1>8. Ahead = {} /\ Ahead' = {}
  BY <1>1, <1>7, AheadIs, NothingAhead
<1> QED BY <1>1, <1>3, <1>4, <1>8 DEF EInv, Service!vars

LEMMA PostKeeps ==
    ASSUME queue \in Seq(Timer), Len(queue) <= EVENT_MAX, NEW t \in Timer, Post(t)
    PROVE  /\ queue' \in Seq(Timer) /\ Len(queue') <= EVENT_MAX
           /\ \A x : x # t => (x \in Range(queue') <=> x \in Range(queue)) /\ (Once(queue, x) => Once(queue', x))
           /\ t \notin Range(queue) /\ t \in Range(queue') => Once(queue', t)
           /\ queue' = IF Len(queue) < EVENT_MAX THEN Append(queue, t) ELSE queue
<1>1. CASE Len(queue) < EVENT_MAX
  <2>1. queue' = Append(queue, t) /\ Len(queue) + 1 <= EVENT_MAX
    BY <1>1, Counters DEF Post
  <2> QED BY <1>1, <2>1, OnceAppended
<1>2. CASE ~(Len(queue) < EVENT_MAX)
  BY <1>2 DEF Post
<1> QED BY <1>1, <1>2

\* Once the list has been joined, if it had to be.
LEMMA Arrives ==
    ASSUME Shape, prev # Idle, NEW m, m = Joined(prev), NEW a, a = ActAfter(prev)
    PROVE  /\ m \in Links /\ Sound(m, a, linked) /\ prev \in Main(m) \cup {First}
           /\ AheadOf(m, a, prev) = AheadOf(next, act, prev)
<1>1. next \in Links /\ Sound(next, act, linked) /\ prev \in Main(next) \cup {First}
  BY LinksTyped DEF Shape
<1>2. CASE next[prev] = Null
  <2>1. m = JoinAt(next, prev, act) /\ a = Null
    BY <1>2 DEF Joined, ActAfter, JoinAt
  <2>2. m \in Links /\ Sound(m, Null, linked) /\ Main(m) = linked
    BY <1>1, <1>2, <2>1, TakenIn
  <2>3. AheadOf(m, Null, prev) = AheadOf(next, act, prev)
    BY <1>1, <1>2, <2>1, AheadTakenIn
  <2>4. prev \in linked \cup {First}
    BY <1>1, TwoLists
  <2> QED BY <2>1, <2>2, <2>3, <2>4
<1>3. CASE next[prev] # Null
  BY <1>1, <1>3 DEF Joined, ActAfter
<1> QED BY <1>2, <1>3

LEMMA TickCounts ==
    ASSUME EInv, TickStep
    PROVE  EInv' /\ (UNCHANGED Service!vars \/ \E t \in Timer : Service!Count(t) \/ Service!Expire(t))
<1> DEFINE m == Joined(prev)
           a == ActAfter(prev)
           t == m[prev]
           n == Without(m, prev)
<1>1. /\ prev # Idle /\ t # Null /\ Step(t, m) /\ act' = a /\ interval' = interval /\ thread' = thread
      /\ Shape /\ Delays
      /\ ctr \in [Timer -> 0..CtrMod - 1] /\ interval \in [Timer -> 0..CtrMod - 1]
      /\ queue \in Seq(Timer) /\ Len(queue) <= EVENT_MAX
  BY DEF TickStep, EInv, Shape, TypeOK
<1>2. /\ m \in Links /\ Sound(m, a, linked) /\ prev \in Main(m) \cup {First}
      /\ AheadOf(m, a, prev) = AheadOf(next, act, prev)
  BY <1>1, Arrives
<1>3. n = [m EXCEPT ![prev] = m[t]]
  BY DEF Without
<1> HIDE DEF m, a, n
<1> DEFINE Rest == AheadOf(next, act, prev)
<1>4. /\ n \in Links /\ Sound(n, a, linked \ {t}) /\ t \in Main(m) /\ prev \in Main(n) \cup {First}
      /\ t \in Rest /\ AheadOf(m, a, t) = Rest \ {t} /\ AheadOf(n, a, prev) = Rest \ {t}
  <2>1. m[prev] # Null /\ n = Without(m, prev)
    BY <1>1 DEF n
  <2>2. n \in Links /\ Sound(n, a, linked \ {t}) /\ t \in Main(m) /\ prev \in Main(n) \cup {First}
    BY <1>2, <2>1, TakenOff
  <2>3. /\ t \in AheadOf(m, a, prev) /\ AheadOf(m, a, t) = AheadOf(m, a, prev) \ {t}
        /\ AheadOf(n, a, prev) = AheadOf(m, a, prev) \ {t}
    BY <1>2, <2>1, AheadStep
  <2> QED BY <1>2, <2>2, <2>3
<1>5. t \in linked /\ t \in Timer /\ linked \subseteq Timer /\ ctr[t] \in Nat /\ interval[t] \in 0..CtrMod - 1
  <2>1. t \in linked /\ linked \subseteq Timer
    BY <1>2, <1>4, TwoLists DEF Sound
  <2> QED BY <1>1, <2>1, Counters
<1> HIDE DEF t
\* What the walk leaves behind, by the way the step takes.
<1> DEFINE Off  == next' = n /\ linked' = linked \ {t} /\ prev' = prev
           Past == next' = m /\ linked' = linked /\ prev' = t
<1>6. ASSUME Off \/ Past
      PROVE  /\ next' \in Links /\ Sound(next', act', linked') /\ prev' \in Main(next') \cup {First, Idle}
             /\ prev' # Idle /\ AheadOf(next', act', prev') = Rest \ {t} /\ linked' \subseteq linked
             /\ linked \subseteq linked' \cup {t}
  <2>1. t # Idle
    BY <1>5, TimersFinite
  <2> QED BY <1>1, <1>2, <1>4, <1>5, <1>6, <2>1
<1>7. Ahead = {x \in Rest : ctr[x] > 0}
  BY <1>1, AheadIs
<1> HIDE DEF Rest
\* The counter and the queue.
<1>8. ASSUME Off \/ Past, NEW k \in 0..CtrMod - 1, ctr' = [ctr EXCEPT ![t] = k], k > 0 => t \in linked',
             queue' \in Seq(Timer), Len(queue') <= EVENT_MAX
      PROVE  Shape' /\ Ahead' = Ahead \ {t}
  <2>1. ctr' \in [Timer -> 0..CtrMod - 1] /\ (\A x \in Timer : x # t => ctr'[x] = ctr[x]) /\ ctr'[t] = k
    BY <1>1, <1>5, <1>8
  <2>2. linked' \subseteq Timer /\ act' \in Timer \cup {Null} /\ prev' \in Timer \cup {First, Idle}
    <3>1. Main(next') \subseteq Timer /\ act' \in Timer \cup {Null}
      BY <1>6, <1>8, TwoLists
    <3> QED BY <1>5, <1>6, <1>8, <3>1
  <2>3. TypeOK'
    BY <1>1, <1>6, <1>8, <2>1, <2>2 DEF TypeOK, Shape, Links
  <2>4. \A x \in Timer : ctr'[x] > 0 => x \in linked'
    <3>1. \A x \in Timer : ctr[x] > 0 => x \in linked
      BY <1>1 DEF Shape
    <3> QED BY <1>6, <1>8, <2>1, <3>1
  <2>5. Shape'
    BY <1>6, <1>8, <2>3, <2>4 DEF Shape
  <2>6. Ahead' = {x \in Rest \ {t} : ctr'[x] > 0}
    BY <1>6, <1>8, AheadIs
  <2>7. \A x \in Rest \ {t} : ctr'[x] = ctr[x]
    BY <1>1, <1>5, <1>8
  <2> QED BY <1>7, <2>5, <2>6, <2>7
<1>9. ASSUME Off \/ Past,
             queue' = queue \/ (Post(t) /\ (interval[t] = 0 => t \notin linked'))
      PROVE  Delays'
  <2> SUFFICES ASSUME NEW x \in Delayed
               PROVE  /\ interval'[x] = 0
                      /\ thread'[x] \in {"none", "built"} => x \notin linked' /\ x \notin Range(queue')
                      /\ thread'[x] = "waiting" /\ x \in Range(queue') => x \notin linked' /\ Once(queue', x)
    BY DEF Delays, Once
  <2>1. /\ interval[x] = 0 /\ interval'[x] = 0 /\ thread'[x] = thread[x] /\ linked' \subseteq linked
        /\ thread[x] \in {"none", "built"} => x \notin linked /\ x \notin Range(queue)
        /\ thread[x] = "waiting" /\ x \in Range(queue) => x \notin linked /\ Once(queue, x)
    BY <1>1, <1>6, <1>9 DEF Delays
  <2>2. CASE queue' = queue
    BY <2>1, <2>2
  <2>3. CASE Post(t) /\ x # t
    BY <1>1, <1>5, <2>1, <2>3, PostKeeps
  <2>4. CASE Post(t) /\ x = t /\ queue' # queue
    BY <1>1, <1>5, <1>9, <2>1, <2>4, PostKeeps
  <2> QED BY <1>9, <2>2, <2>3, <2>4
<1>10. CASE ctr[t] = 0
  <2>1. Off /\ ctr' = ctr /\ queue' = queue
    BY <1>1, <1>3, <1>10, Counters DEF Step
  <2>2. ctr' = [ctr EXCEPT ![t] = 0] /\ 0 \in 0..CtrMod - 1 /\ ~(0 > 0)
    BY <1>1, <1>5, <1>10, <2>1, Counters
  <2>3. Shape' /\ Ahead' = Ahead \ {t}
    BY <1>1, <1>8, <2>1, <2>2
  <2>4. Ahead' = Ahead
    BY <1>7, <1>10, <2>3
  <2>5. Delays'
    BY <1>9, <2>1
  <2> QED BY <1>1, <2>1, <2>3, <2>4, <2>5 DEF EInv, Service!vars
<1>11. CASE ctr[t] = 1
  <2>1. /\ Post(t) /\ ctr' = [ctr EXCEPT ![t] = interval[t]]
        /\ IF interval[t] # 0 THEN Past ELSE Off
    BY <1>1, <1>3, <1>11 DEF Step
  <2>2. /\ Off \/ Past
        /\ interval[t] > 0 => t \in linked'
        /\ interval[t] = 0 => t \notin linked'
    BY <1>5, <2>1
  <2>3. Shape' /\ Ahead' = Ahead \ {t}
    <3>1. queue' \in Seq(Timer) /\ Len(queue') <= EVENT_MAX
      BY <1>1, <1>5, <2>1, PostKeeps
    <3> QED BY <1>5, <1>8, <2>1, <2>2, <3>1
  <2>4. Delays'
    BY <1>9, <2>1, <2>2
  <2>5. Service!Expire(t)
    <3>1. t \in Ahead
      BY <1>4, <1>7, <1>11 DEF Rest
    <3>2. queue' = IF Len(queue) < EVENT_MAX THEN Append(queue, t) ELSE queue
      BY <2>1 DEF Post
    <3> QED BY <1>1, <1>11, <2>1, <2>3, <3>1, <3>2 DEF Service!Expire
  <2> QED BY <1>5, <2>3, <2>4, <2>5 DEF EInv
<1>12. CASE ctr[t] > 1
  <2>1. Past /\ queue' = queue /\ ctr' = [ctr EXCEPT ![t] = ctr[t] - 1]
    BY <1>1, <1>3, <1>12 DEF Step
  <2>2. ctr[t] - 1 \in 0..CtrMod - 1 /\ t \in linked'
    BY <1>1, <1>5, <1>12, <2>1, Counters
  <2>3. Shape' /\ Ahead' = Ahead \ {t}
    BY <1>1, <1>8, <2>1, <2>2
  <2>4. Delays'
    BY <1>9, <2>1
  <2>5. Service!Count(t)
    <3>1. t \in Ahead
      BY <1>4, <1>5, <1>7, <1>12 DEF Rest
    <3>2. ctr' = [ctr EXCEPT ![t] = ctr[t] - 1] /\ queue' = queue /\ interval' = interval
      BY <1>1, <2>1
    <3>3. Ahead' = Ahead \ {t}
      BY <2>3
    <3> QED BY <1>12, <3>1, <3>2, <3>3 DEF Service!Count
  <2> QED BY <1>5, <2>3, <2>4, <2>5 DEF EInv
<1>13. ctr[t] = 0 \/ ctr[t] = 1 \/ ctr[t] > 1
  <2>1. \A k \in Nat : k = 0 \/ k = 1 \/ k > 1
    OBVIOUS
  <2> QED BY <1>5, <2>1
<1> QED BY <1>10, <1>11, <1>12, <1>13

-----------------------------------------------------------------------------
(* What the runs check.                                                     *)

LEMMA InitE == Init => EInv /\ Service!Init
<1> SUFFICES ASSUME Init PROVE EInv /\ Service!Init
  OBVIOUS
<1>1. /\ next \in Links /\ act = Null /\ linked = {} /\ prev = Idle /\ queue = <<>>
      /\ next[First] = Null /\ (\A x \in Timer \cup {First} : next[x] = Null)
      /\ ctr \in [Timer -> 0..CtrMod - 1] /\ interval \in [Timer -> 0..CtrMod - 1]
      /\ (\A t \in Timer : ctr[t] = 0 /\ interval[t] = 0)
      /\ thread \in [Delayed -> {"none", "built", "waiting", "dead"}]
      /\ (\A t \in Delayed : thread[t] = "none")
  BY Counters DEF Init, Links
<1>2. TypeOK
  <2>1. queue \in Seq(Timer) /\ Len(queue) = 0
    BY <1>1
  <2> QED BY <1>1, <2>1, Counters DEF TypeOK, Links
<1>3. Sound(next, act, linked)
  BY <1>1, TimersFinite DEF Sound
<1>4. Shape
  BY <1>1, <1>2, <1>3, Counters DEF Shape
<1>5. Delays
  <2>1. Range(queue) = {}
    BY <1>1 DEF Range
  <2> QED BY <1>1, <2>1, UsersApart DEF Delays
<1>6. Service!Init
  BY <1>1, NothingAhead DEF Init, Service!Init
<1> QED BY <1>4, <1>5, <1>6 DEF EInv

LEMMA StepE ==
    ASSUME Restarted = {}, EInv, [Next]_vars
    PROVE  EInv' /\ [Service!Next]_(Service!vars)
<1>1. CASE TickStart \/ TickStep \/ TickEnd
  BY <1>1, TickBegins, TickCounts, TickStops DEF Service!Next
<1>2. CASE CallArm \/ CallDisarm \/ CallRearm
  BY <1>2, PlainCalls DEF Service!Next
<1>3. CASE Create \/ Delay \/ Exit
  BY <1>3, ThreadCalls DEF Service!Next
<1>4. CASE Take
  BY <1>4, TakeKeeps DEF Service!Next
<1>5. CASE UNCHANGED vars
  <2>1. UNCHANGED <<next, act, ctr, interval, linked, prev, queue, thread>>
    BY <1>5 DEF vars
  <2>2. TypeOK'
    BY <2>1 DEF EInv, Shape, TypeOK
  <2>3. EInv'
    BY <2>1, <2>2 DEF EInv, Shape, Delays, Once
  <2>4. Ahead' = Ahead
    BY <2>1, AheadIs, NothingAhead
  <2> QED BY <2>1, <2>3, <2>4 DEF Service!vars
<1> QED BY <1>1, <1>2, <1>3, <1>4, <1>5 DEF Next

\* These facts hold together whatever is armed, disarmed, expired or exited
\* (wsnos_etimer.c), unless a thread is created again while its timer runs.
THEOREM EtimerInvariant == ASSUME Restarted = {} PROVE Spec => []EInv
<1>1. EInv /\ [Next]_vars => EInv'
  BY StepE
<1> QED BY <1>1, InitE, PTL DEF Spec

\* The lists hold each timer with the linked bit once and nothing else: what
\* osel_etimer_arm and _disarm conclude from the bit is true.
THEOREM TimerListsSound == ASSUME Restarted = {} PROVE Spec => []ListsSound
<1>1. EInv => ListsSound
  <2> SUFFICES ASSUME EInv PROVE ListsSound
    OBVIOUS
  <2>1. Sound(next, act, linked) /\ next \in Links
    BY LinksTyped DEF EInv, Shape
  <2>2. Listed = linked
    BY <2>1, TwoLists DEF Listed, Main, Side
  <2> QED BY <2>1, <2>2 DEF ListsSound, Sound
<1> QED BY <1>1, EtimerInvariant, PTL

\* A timer that has been armed is where wsnos_ticks finds it.
THEOREM ArmedTimersListed == ASSUME Restarted = {} PROVE Spec => []ArmedIsListed
<1>1. EInv => ArmedIsListed
  <2> SUFFICES ASSUME EInv PROVE ArmedIsListed
    OBVIOUS
  <2>1. Listed = linked
    BY TwoLists, LinksTyped DEF EInv, Shape, Listed, Main, Side
  <2> QED BY <2>1 DEF EInv, Shape, ArmedIsListed
<1> QED BY <1>1, EtimerInvariant, PTL

\* The event that ends an OSEL_ETIMER_DELAY is that of the delay itself.
THEOREM DelaysWakeOnTime == ASSUME Restarted = {} PROVE Spec => []WakesOnTime
<1>1. EInv => WakesOnTime
  <2> SUFFICES ASSUME EInv, NEW t \in Delayed, thread[t] = "waiting", t \in Range(queue)
               PROVE  ctr[t] = 0 /\ Cardinality({i \in DOMAIN queue : queue[i] = t}) = 1
    BY DEF WakesOnTime
  <2>1. t \notin linked /\ Once(queue, t) /\ t \in Timer
    BY UsersApart DEF EInv, Delays
  <2>2. ctr[t] = 0
    <3>1. ctr[t] \in 0..CtrMod - 1 /\ ~(ctr[t] > 0)
      BY <2>1 DEF EInv, Shape, TypeOK
    <3> QED BY <3>1, Counters
  <2>3. PICK i \in DOMAIN queue : queue[i] = t
    BY DEF Range
  <2>4. {j \in DOMAIN queue : queue[j] = t} = {i}
    BY <2>1, <2>3 DEF Once
  <2> QED BY <2>2, <2>4, FS_Singleton
<1> QED BY <1>1, EtimerInvariant, PTL

\* wsnos_ticks counts every armed timer exactly once a tick and no other, however
\* the lists are joined and shortened while it walks them: Etimer implements
\* TimerService.
THEOREM EtimerImplementsService == ASSUME Restarted = {} PROVE Spec => ImplementsService
<1>1. EInv /\ [Next]_vars => EInv' /\ [Service!Next]_(Service!vars)
  BY StepE
<1>2. Init => Service!Init
  BY InitE
<1> QED BY <1>1, <1>2, InitE, PTL DEF Spec, ImplementsService, Service!Spec
-----------------------------------------------------------------------------
(* Types alone do not need sound lists.                                     *)

SettingTyped == /\ next \in Links /\ act \in Timer \cup {Null} /\ linked \subseteq Timer
                /\ ctr \in [Timer -> 0 .. CtrMod - 1] /\ interval \in [Timer -> 0 .. CtrMod - 1]

LEMMA CutLinks ==
    ASSUME NEW m \in Links, NEW p, NEW v \in Timer \cup {Null}
    PROVE  [m EXCEPT ![p] = v] \in Links
BY DEF Links

LEMMA JoinedTyped ==
    ASSUME next \in Links, act \in Timer \cup {Null}, NEW p
    PROVE  Joined(p) \in Links
BY CutLinks DEF Joined

LEMMA LinkTyped ==
    ASSUME SettingTyped, NEW t \in Timer, Link(t)
    PROVE  next' \in Links /\ act' \in Timer \cup {Null} /\ linked' \subseteq Timer
<1>1. CASE t \in linked
  BY <1>1 DEF Link, SettingTyped, lists
<1>2. CASE t \notin linked
  <2>1. [next EXCEPT ![t] = act] \in Links
    BY DEF SettingTyped, Links
  <2> QED BY <1>2, <2>1 DEF Link, SettingTyped
<1> QED BY <1>1, <1>2

LEMMA ArmTyped ==
    ASSUME SettingTyped, NEW t \in Timer, NEW n \in 0..MaxTicks, NEW i \in 0..MaxTicks, Arm(t, n, i)
    PROVE  SettingTyped'
<1>1. n % CtrMod \in 0..CtrMod - 1 /\ i % CtrMod \in 0..CtrMod - 1
  BY Counters
<1> QED BY <1>1, LinkTyped DEF Arm, SettingTyped, Links

LEMMA CtorTyped ==
    ASSUME SettingTyped, NEW t \in Timer, Ctor(t)
    PROVE  SettingTyped'
<1>1. 0 \in 0..CtrMod - 1
  BY Counters
<1> QED BY <1>1, CutLinks DEF Ctor, SettingTyped

LEMMA RearmTyped ==
    ASSUME SettingTyped, NEW t \in Timer, NEW n \in 0..MaxTicks, Rearm(t, n)
    PROVE  SettingTyped'
<1>1. n % CtrMod \in 0..CtrMod - 1 /\ 0 \in 0..CtrMod - 1
  BY Counters
<1>2. next' \in Links /\ act' \in Timer \cup {Null} /\ linked' \subseteq Timer
  <2>1. CASE ctr[t] = 0
    BY <2>1, LinkTyped DEF Rearm
  <2>2. CASE ctr[t] # 0
    BY <2>2 DEF Rearm, SettingTyped, lists
  <2> QED BY <2>1, <2>2
<1> QED BY <1>1, <1>2 DEF Rearm, SettingTyped

LEMMA DisarmTyped ==
    ASSUME SettingTyped, NEW t \in Timer, Disarm(t)
    PROVE  SettingTyped'
<1>1. CASE ctr[t] = 0
  BY <1>1 DEF Disarm, SettingTyped
<1>2. CASE ctr[t] # 0
  <2> DEFINE end   == CHOOSE p \in After(next, First) \cup {First} : next[p] = Null
             links == IF t \in After(next, First) THEN next ELSE Joined(end)
             q     == CHOOSE p \in After(links, First) \cup {First} : links[p] = t
  <2>1. /\ ctr' = [ctr EXCEPT ![t] = 0] /\ interval' = interval
        /\ act' = IF t \in After(next, First) THEN act ELSE Null
        /\ \/ next' = [links EXCEPT ![q] = links[t]] /\ linked' = linked \ {t}
           \/ next' = links /\ linked' = linked
    BY <1>2 DEF Disarm
  <2>2. links \in Links
    BY JoinedTyped DEF SettingTyped
  <2> HIDE DEF links, q
  <2>3. links[t] \in Timer \cup {Null}
    BY <2>2 DEF Links
  <2>4. next' \in Links
    <3>1. [links EXCEPT ![q] = links[t]] \in Links
      BY <2>2, <2>3 DEF Links
    <3> QED BY <2>1, <2>2, <3>1
  <2>5. 0 \in 0..CtrMod - 1
    BY Counters
  <2> QED BY <2>1, <2>4, <2>5 DEF SettingTyped
<1> QED BY <1>1, <1>2

LEMMA StepTyped ==
    ASSUME TypeOK, TickStep
    PROVE  TypeOK'
<1> DEFINE links == Joined(prev)  t == links[prev]
<1>1. links \in Links /\ prev \in Timer \cup {First}
  BY JoinedTyped DEF TypeOK, TickStep, Links
<1>2. Step(t, links) /\ t # Null /\ act' = ActAfter(prev) /\ UNCHANGED <<interval, thread>>
  BY DEF TickStep
<1> HIDE DEF links
<1>3. t \in Timer
  BY <1>1, <1>2 DEF Links
<1>4. links[t] \in Timer \cup {Null}
  BY <1>1, <1>3 DEF Links
<1>5. [links EXCEPT ![prev] = links[t]] \in Links
  BY <1>1, <1>4, CutLinks
<1> HIDE DEF t
<1>6. act' \in Timer \cup {Null}
  BY <1>2 DEF ActAfter, TypeOK
<1>7. /\ ctr[t] \in 0..CtrMod - 1 /\ interval[t] \in 0..CtrMod - 1 /\ CtrMod \in Nat
      /\ (ctr[t] > 1 => ctr[t] - 1 \in 0..CtrMod - 1)
  BY <1>3, Counters DEF TypeOK
<1>8. next' \in Links /\ linked' \subseteq Timer /\ prev' \in Timer \cup {First, Idle}
  BY <1>1, <1>2, <1>3, <1>5 DEF Step, TypeOK
<1>9. ctr' \in [Timer -> 0..CtrMod - 1]
  BY <1>2, <1>7 DEF Step, TypeOK
<1>10. queue' \in Seq(Timer) /\ Len(queue') <= EVENT_MAX
  <2>1. CASE UNCHANGED queue
    BY <2>1 DEF TypeOK
  <2>2. CASE Post(t)
    BY <1>3, <2>2, PostKeeps DEF TypeOK
  <2> QED BY <1>2, <2>1, <2>2 DEF Step
<1> QED BY <1>2, <1>6, <1>8, <1>9, <1>10 DEF TypeOK, Links

LEMMA TypeStep == TypeOK /\ [Next]_vars => TypeOK'
<1> SUFFICES ASSUME TypeOK, [Next]_vars PROVE TypeOK'
  OBVIOUS
<1>0. SettingTyped /\ \A t \in Plain \cup Delayed : t \in Timer
  BY DEF TypeOK, SettingTyped, Links, Timer
<1>1. CASE TickStart \/ TickEnd
  BY <1>1 DEF TickStart, TickEnd, TypeOK
<1>2. CASE TickStep
  BY <1>2, StepTyped
<1>3. ASSUME SettingTyped', UNCHANGED <<prev, queue>>,
             thread' \in [Delayed -> {"none", "built", "waiting", "dead"}]
      PROVE  TypeOK'
  BY <1>3 DEF SettingTyped, TypeOK, Links
<1>4. thread \in [Delayed -> {"none", "built", "waiting", "dead"}]
  BY DEF TypeOK
<1>5. CASE CallArm
  <2>1. SettingTyped'
    BY <1>0, <1>5, ArmTyped DEF CallArm
  <2> QED BY <1>3, <1>4, <1>5, <2>1 DEF CallArm
<1>6. CASE CallDisarm
  <2>1. SettingTyped'
    BY <1>0, <1>6, DisarmTyped DEF CallDisarm
  <2> QED BY <1>3, <1>4, <1>6, <2>1 DEF CallDisarm
<1>7. CASE CallRearm
  <2>1. SettingTyped'
    BY <1>0, <1>7, RearmTyped DEF CallRearm
  <2> QED BY <1>3, <1>4, <1>7, <2>1 DEF CallRearm
<1>8. CASE Create
  <2>1. SettingTyped'
    BY <1>0, <1>8, CtorTyped DEF Create
  <2> QED BY <1>3, <1>4, <1>8, <2>1 DEF Create
<1>9. CASE Delay
  <2>1. SettingTyped'
    <3>1. 0 \in 0..MaxTicks
      BY Counters
    <3> QED BY <1>0, <1>9, <3>1, ArmTyped DEF Delay
  <2> QED BY <1>3, <1>4, <1>9, <2>1 DEF Delay
<1>10. CASE Exit
  <2>1. SettingTyped'
    <3>1. CASE UNCHANGED <<next, act, ctr, interval, linked>>
      BY <1>0, <3>1 DEF SettingTyped
    <3>2. ASSUME NEW t \in Delayed, Disarm(t) PROVE SettingTyped'
      BY <1>0, <3>2, DisarmTyped
    <3> QED BY <1>10, <3>1, <3>2 DEF Exit
  <2> QED BY <1>3, <1>4, <1>10, <2>1 DEF Exit
<1>11. CASE Take
  <2>1. queue' \in Seq(Timer) /\ Len(queue') <= EVENT_MAX /\ prev' = prev
    <3>1. queue # <<>> /\ queue' = Tail(queue) /\ queue \in Seq(Timer) /\ Len(queue) <= EVENT_MAX /\ EVENT_MAX \in Nat
      BY <1>11, Counters DEF Take, TypeOK
    <3>2. queue' \in Seq(Timer) /\ Len(queue') = Len(queue) - 1 /\ Len(queue) \in Nat
      BY <3>1
    <3> QED BY <1>11, <3>1, <3>2 DEF Take
  <2>2. SettingTyped' /\ thread' \in [Delayed -> {"none", "built", "waiting", "dead"}]
    <3> DEFINE h == Head(queue)
    <3>1. CASE Waits(h) /\ Ctor(h) /\ thread' = [thread EXCEPT ![h] = "built"]
      BY <1>0, <1>4, <3>1, CtorTyped DEF Waits
    <3>2. CASE UNCHANGED <<next, act, ctr, interval, linked>>
               /\ thread' \in {thread, [thread EXCEPT ![h] = "dead"]}
      BY <1>0, <1>4, <3>2 DEF SettingTyped
    <3> QED BY <1>11, <3>1, <3>2 DEF Take
  <2> QED BY <2>1, <2>2 DEF SettingTyped, TypeOK, Links
<1>12. CASE UNCHANGED vars
  BY <1>12 DEF vars, TypeOK
<1> QED BY <1>1, <1>2, <1>5, <1>6, <1>7, <1>8, <1>9, <1>10, <1>11, <1>12 DEF Next

\* Links, counters and the queue keep their types, and the queue its length, even
\* where an exited thread is created again and the lists are cut.
THEOREM EtimerTyped == Spec => []TypeOK
<1>1. Init => TypeOK
  BY InitE DEF EInv, Shape
<1> QED BY <1>1, TypeStep, PTL DEF Spec
===============================================================================

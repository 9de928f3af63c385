------------------------------ MODULE Counters ------------------------------
(***************************************************************************)
(* What the proofs about queues and loops need of numbers: induction,      *)
(* recursion of a given length, and counters that never wrap, of which an  *)
(* index is the remainder and a phase bit the parity of the laps.          *)
(***************************************************************************)
EXTENDS Naturals, FiniteSetTheorems, WellFoundedInduction, TLAPS

-----------------------------------------------------------------------------
(* Induction, for sets of numbers *)

LEMMA LeastNumber ==
  ASSUME NEW S \in SUBSET Nat, S # {}
  PROVE  \E n \in S : \A m \in S : n <= m
<1> DEFINE T == {0 .. n : n \in S}
<1>1. T # {} /\ T \subseteq FiniteSubsetsOf(Nat)
  <2>1. \A n \in S : 0 .. n \in SUBSET Nat /\ IsFiniteSet(0 .. n)
    BY FS_Interval
  <2>2. \A n \in S : 0 .. n \in FiniteSubsetsOf(Nat)
    BY <2>1 DEF FiniteSubsetsOf
  <2> QED
    BY <2>2
<1>2. \E x \in T : \A y \in T : ~ (<<y, x>> \in StrictSubsetOrdering(Nat))
  <2> HIDE DEF T
  <2> QED
  BY <1>1, FS_StrictSubsetOrderingWellFounded, WFMin
<1>3. PICK n \in S : \A m \in S : ~ (<<0 .. m, 0 .. n>> \in StrictSubsetOrdering(Nat))
  BY <1>2
<1>4. ASSUME NEW m \in S, m < n PROVE FALSE
  <2>1. 0 .. m \subseteq 0 .. n /\ n \in 0 .. n /\ n \notin 0 .. m
    BY <1>4
  <2>2. 0 .. m \in SUBSET Nat /\ 0 .. n \in SUBSET Nat
    OBVIOUS
  <2> QED
    BY <1>3, <2>1, <2>2 DEF StrictSubsetOrdering
<1> QED
  BY <1>4

LEMMA NatSetInduction ==
  ASSUME NEW S, 0 \in S, \A n \in Nat : n \in S => n + 1 \in S
  PROVE  Nat \subseteq S
<1> DEFINE T == Nat \ S
<1>1. SUFFICES ASSUME T # {} PROVE FALSE
  OBVIOUS
<1>2. PICK n \in T : \A m \in T : n <= m
  BY <1>1, LeastNumber
<1>3. n # 0 /\ n - 1 \in Nat /\ n - 1 \notin T
  BY <1>2
<1> QED
  BY <1>2, <1>3

(* g goes from c in n steps: step[x, i] is what the i-th makes of x. *)
Iterates(g, c, step, n, S) ==
  /\ g \in [0 .. n -> S]
  /\ g[0] = c
  /\ \A i \in 1 .. n : g[i] = step[<<g[i - 1], i>>]

LEMMA IterationExtends ==
  ASSUME NEW S, NEW c, NEW step, NEW m \in Nat, NEW g, Iterates(g, c, step, m, S),
         step[<<g[m], m + 1>>] \in S
  PROVE  \E h : Iterates(h, c, step, m + 1, S)
<1> DEFINE h == [i \in 0 .. m + 1 |-> IF i = m + 1 THEN step[<<g[m], m + 1>>] ELSE g[i]]
<1>1. \A i \in 0 .. m + 1 : i # m + 1 => i \in 0 .. m
  OBVIOUS
<1>2. h \in [0 .. m + 1 -> S]
  BY <1>1 DEF Iterates
<1>3. h[m + 1] = step[<<g[m], m + 1>>] /\ \A i \in 0 .. m : h[i] = g[i]
  BY <1>1
<1> HIDE DEF h
<1>4. h[0] = c
  BY <1>3 DEF Iterates
<1>5. ASSUME NEW i \in 1 .. m + 1 PROVE h[i] = step[<<h[i - 1], i>>]
  <2>1. CASE i = m + 1
    <3>1. i - 1 = m /\ h[m] = g[m]
      BY <1>3, <2>1
    <3> QED
      BY <1>3, <2>1, <3>1
  <2>2. CASE i # m + 1
    <3>1. i \in 1 .. m /\ i \in 0 .. m /\ i - 1 \in 0 .. m
      BY <2>2
    <3> QED
      BY <1>3, <3>1 DEF Iterates
  <2> QED
    BY <2>1, <2>2
<1> QED
  BY <1>2, <1>4, <1>5 DEF Iterates

LEMMA IterationExists ==
  ASSUME NEW S, NEW c \in S, NEW n \in Nat, NEW step, \A x \in S, i \in 1 .. n : step[<<x, i>>] \in S
  PROVE  \E g : Iterates(g, c, step, n, S)
<1> DEFINE T == {m \in Nat : m <= n => \E g : Iterates(g, c, step, m, S)}
<1>1. 0 \in T
  <2>1. PICK g : g = [i \in 0 .. 0 |-> c]
    OBVIOUS
  <2>2. g \in [0 .. 0 -> S] /\ g[0] = c
    BY <2>1
  <2>3. Iterates(g, c, step, 0, S)
    BY <2>2 DEF Iterates
  <2> QED
    BY <2>3
<1>2. ASSUME NEW m \in Nat, m \in T PROVE m + 1 \in T
  <2>1. CASE m + 1 <= n
    <3>1. PICK g : Iterates(g, c, step, m, S)
      BY <1>2, <2>1
    <3>2. g[m] \in S /\ m + 1 \in 1 .. n
      BY <2>1, <3>1 DEF Iterates
    <3>3. step[<<g[m], m + 1>>] \in S
      BY <3>2
    <3>4. \E h : Iterates(h, c, step, m + 1, S)
      BY <3>1, <3>3, IterationExtends
    <3> QED
      BY <3>4
  <2> QED
    BY <2>1
<1>3. Nat \subseteq T
  <2> HIDE DEF T
  <2> QED
    BY <1>1, <1>2, NatSetInduction
<1> QED
  BY <1>3

(* What holds at the start and is kept by every step, for a set S of       *)
(* values.                                                                 *)
LEMMA StepsStay ==
  ASSUME NEW n \in Nat, NEW g, NEW S, g[0] \in S, \A i \in 1 .. n : g[i - 1] \in S => g[i] \in S
  PROVE  \A i \in 0 .. n : g[i] \in S
<1> DEFINE T == {m \in Nat : m <= n => g[m] \in S}
<1>1. 0 \in T
  OBVIOUS
<1>2. ASSUME NEW m \in Nat, m \in T PROVE m + 1 \in T
  <2>1. CASE m + 1 <= n
    <3>1. PICK j : j = m + 1
      OBVIOUS
    <3>2. j \in 1 .. n /\ j - 1 = m /\ m <= n
      BY <2>1, <3>1
    <3> QED BY <1>2, <3>1, <3>2
  <2> QED BY <2>1
<1>3. Nat \subseteq T
  <2> HIDE DEF T
  <2> QED BY <1>1, <1>2, NatSetInduction
<1> QED BY <1>3

-----------------------------------------------------------------------------
(* Number k (from 0) in a circular queue of a size: its place, and the     *)
(* phase that is 1 in the first lap, 0 in the second, and so on.           *)

Place(k, size) == k % size
PhaseOf(k, size) == IF (k \div size) % 2 = 0 THEN 1 ELSE 0

(* The length of n laps; kept folded, for the solver to match. *)
Laps(n, size) == size * n

LEMMA LapsAdd ==
  ASSUME NEW size \in Nat, NEW n \in Nat, NEW m \in Nat
  PROVE  Laps(n, size) \in Nat /\ Laps(n + m, size) = Laps(n, size) + Laps(m, size)
  BY DEF Laps

LEMMA LapsFew ==
  ASSUME NEW size \in Nat
  PROVE  Laps(0, size) = 0 /\ Laps(1, size) = size
  BY DEF Laps

(* A lap more is at least the size more. *)
LEMMA LapsGrow ==
  ASSUME NEW size \in Nat, NEW n \in Nat, NEW m \in Nat, m < n
  PROVE  Laps(m, size) \in Nat /\ Laps(n, size) \in Nat /\ Laps(m, size) + size <= Laps(n, size)
<1>1. PICK d \in Nat : n = (m + 1) + d
  OBVIOUS
<1>2. Laps(n, size) = Laps(m + 1, size) + Laps(d, size) /\ Laps(d, size) \in Nat
  BY <1>1, LapsAdd
<1>3. Laps(m + 1, size) = Laps(m, size) + Laps(1, size) /\ Laps(m, size) \in Nat
  BY LapsAdd
<1> QED BY <1>2, <1>3, LapsFew

LEMMA Quotient ==
  ASSUME NEW size \in Nat \ {0}, NEW k \in Nat
  PROVE  /\ Place(k, size) \in 0 .. size - 1
         /\ k \div size \in Nat
         /\ k = Laps(k \div size, size) + Place(k, size)
  BY DEF Place, Laps

(* Quotient and remainder are unique. *)
LEMMA QuotientUnique ==
  ASSUME NEW size \in Nat \ {0}, NEW k \in Nat, NEW n \in Nat, NEW r \in 0 .. size - 1, k = Laps(n, size) + r
  PROVE  Place(k, size) = r /\ k \div size = n
<1> DEFINE m == k \div size
<1>1. m \in Nat /\ Place(k, size) \in 0 .. size - 1 /\ k = Laps(m, size) + Place(k, size)
  BY Quotient
<1> HIDE DEF m
<1>2. ~ (m < n)
  BY <1>1, LapsGrow
<1>3. ~ (n < m)
  BY <1>1, LapsGrow
<1>4. m = n
  BY <1>1, <1>2, <1>3
<1>5. Place(k, size) = r
  <2>1. Laps(n, size) \in Nat
    BY LapsAdd
  <2> QED BY <1>1, <1>4, <2>1
<1> QED BY <1>4, <1>5 DEF m

LEMMA PhaseType ==
  ASSUME NEW size \in Nat \ {0}, NEW k \in Nat
  PROVE  PhaseOf(k, size) \in {0, 1}
  BY DEF PhaseOf

(* The phase in lap n *)
LEMMA PhaseInLap ==
  ASSUME NEW n \in Nat
  PROVE  (IF (n + 1) % 2 = 0 THEN 1 ELSE 0) = 1 - (IF n % 2 = 0 THEN 1 ELSE 0)
  OBVIOUS

LEMMA PlaceNext ==
  ASSUME NEW size \in Nat \ {0}, NEW k \in Nat
  PROVE  /\ (Place(k, size) + 1) % size = Place(k + 1, size)
         /\ PhaseOf(k + 1, size) = IF Place(k + 1, size) = 0 THEN 1 - PhaseOf(k, size) ELSE PhaseOf(k, size)
<1> DEFINE n == k \div size
<1> DEFINE r == Place(k, size)
<1>1. n \in Nat /\ r \in 0 .. size - 1 /\ k = Laps(n, size) + r /\ Laps(n, size) \in Nat
  BY Quotient, LapsAdd
<1>2. PhaseOf(k, size) = IF n % 2 = 0 THEN 1 ELSE 0
  BY DEF PhaseOf
<1> HIDE DEF n, r
<1>3. PICK i : i = k + 1
  OBVIOUS
<1>4. CASE r + 1 < size
  <2>1. PICK x : x = r + 1
    OBVIOUS
  <2>2. x \in 0 .. size - 1 /\ i \in Nat /\ i = Laps(n, size) + x
    BY <1>1, <1>3, <1>4, <2>1
  <2>3. Place(i, size) = x /\ i \div size = n
    BY <1>1, <2>2, QuotientUnique
  <2>4. (r + 1) % size = r + 1
    BY <1>1, <1>4
  <2>5. PhaseOf(i, size) = PhaseOf(k, size)
    BY <1>2, <2>3 DEF PhaseOf
  <2> QED BY <1>1, <1>3, <2>1, <2>3, <2>4, <2>5 DEF r
<1>5. CASE r + 1 = size
  <2>1. PICK m : m = n + 1
    OBVIOUS
  <2>2. m \in Nat /\ i \in Nat /\ i = Laps(m, size) + 0
    <3>1. Laps(m, size) = Laps(n, size) + size
      BY <1>1, <2>1, LapsAdd, LapsFew
    <3> QED BY <1>1, <1>3, <1>5, <2>1, <3>1
  <2>3. Place(i, size) = 0 /\ i \div size = m
    BY <2>2, QuotientUnique
  <2>4. (r + 1) % size = 0
    BY <1>1, <1>5
  <2>5. PhaseOf(i, size) = IF (n + 1) % 2 = 0 THEN 1 ELSE 0
    BY <2>1, <2>3 DEF PhaseOf
  <2>6. PhaseOf(i, size) = 1 - PhaseOf(k, size)
    BY <1>1, <1>2, <2>5, PhaseInLap
  <2> QED BY <1>3, <2>3, <2>4, <2>6 DEF r
<1> QED BY <1>1, <1>4, <1>5

(* One lap later the place is the same and the phase the other one. *)
LEMMA PlaceLap ==
  ASSUME NEW size \in Nat \ {0}, NEW k \in Nat
  PROVE  Place(k + size, size) = Place(k, size) /\ PhaseOf(k + size, size) = 1 - PhaseOf(k, size)
<1> DEFINE n == k \div size
<1> DEFINE r == Place(k, size)
<1>1. n \in Nat /\ r \in 0 .. size - 1 /\ k = Laps(n, size) + r /\ Laps(n, size) \in Nat
  BY Quotient, LapsAdd
<1>2. PhaseOf(k, size) = IF n % 2 = 0 THEN 1 ELSE 0
  BY DEF PhaseOf
<1> HIDE DEF n, r
<1>3. PICK i, m : i = k + size /\ m = n + 1
  OBVIOUS
<1>4. m \in Nat /\ i \in Nat /\ i = Laps(m, size) + r
  <2>1. Laps(m, size) = Laps(n, size) + size
    BY <1>1, <1>3, LapsAdd, LapsFew
  <2> QED BY <1>1, <1>3, <2>1
<1>5. Place(i, size) = r /\ i \div size = m
  BY <1>1, <1>4, QuotientUnique
<1>6. PhaseOf(i, size) = IF (n + 1) % 2 = 0 THEN 1 ELSE 0
  BY <1>3, <1>5 DEF PhaseOf
<1>7. PhaseOf(i, size) = 1 - PhaseOf(k, size)
  BY <1>1, <1>2, <1>6, PhaseInLap
<1> QED BY <1>3, <1>5, <1>7 DEF r

(* Numbers less than a lap apart have different places. *)
LEMMA PlaceInjective ==
  ASSUME NEW size \in Nat \ {0}, NEW j \in Nat, NEW k \in Nat, j <= k, k < j + size, Place(j, size) = Place(k, size)
  PROVE  j = k
<1> DEFINE m == j \div size
<1> DEFINE n == k \div size
<1>1. m \in Nat /\ Place(j, size) \in 0 .. size - 1 /\ j = Laps(m, size) + Place(j, size)
  BY Quotient
<1>2. n \in Nat /\ k = Laps(n, size) + Place(k, size)
  BY Quotient
<1> HIDE DEF m, n
<1>3. ~ (m < n)
  BY <1>1, <1>2, LapsGrow
<1>4. ~ (n < m)
  BY <1>1, <1>2, LapsGrow
<1> QED BY <1>1, <1>2, <1>3, <1>4

(* The first lap *)
LEMMA PlaceInFirstLap ==
  ASSUME NEW size \in Nat \ {0}, NEW k \in 0 .. size - 1
  PROVE  k \in Nat /\ Place(k, size) = k /\ PhaseOf(k, size) = 1
<1>1. k \in Nat /\ k = Laps(0, size) + k
  BY LapsFew
<1>2. Place(k, size) = k /\ k \div size = 0
  BY <1>1, QuotientUnique
<1> QED BY <1>1, <1>2 DEF PhaseOf

(* An offset may be added before or after the remainder is taken. *)
LEMMA PlaceAdd ==
  ASSUME NEW size \in Nat \ {0}, NEW k \in Nat, NEW i \in Nat
  PROVE  Place(Place(k, size) + i, size) = Place(k + i, size)
<1> DEFINE n == k \div size
<1> DEFINE r == Place(k, size)
<1>1. n \in Nat /\ r \in 0 .. size - 1 /\ k = Laps(n, size) + r
  BY Quotient
<1> HIDE DEF n, r
<1>2. PICK z : z = r + i
  OBVIOUS
<1>3. z \in Nat
  BY <1>1, <1>2
<1> DEFINE m == z \div size
<1> DEFINE p == Place(z, size)
<1>4. m \in Nat /\ p \in 0 .. size - 1 /\ z = Laps(m, size) + p
  BY <1>3, Quotient
<1> HIDE DEF m, p
<1>5. PICK x, y : x = k + i /\ y = n + m
  OBVIOUS
<1>6. Laps(y, size) = Laps(n, size) + Laps(m, size) /\ Laps(n, size) \in Nat /\ Laps(m, size) \in Nat
  BY <1>1, <1>4, <1>5, LapsAdd
<1>7. x \in Nat /\ y \in Nat /\ x = Laps(y, size) + p
  BY <1>1, <1>2, <1>4, <1>5, <1>6
<1>8. Place(x, size) = p
  BY <1>4, <1>7, QuotientUnique
<1> QED BY <1>2, <1>5, <1>8 DEF r, p

(* The distance of two places is that of the counters. *)
LEMMA PlaceDistance ==
  ASSUME NEW size \in Nat \ {0}, NEW j \in Nat, NEW k \in Nat, j <= k, k < j + size
  PROVE  (Place(k, size) + size - Place(j, size)) % size = k - j
<1> DEFINE a == Place(j, size)
<1> DEFINE c == Place(k, size)
<1>1. PICK d \in Nat : k = j + d /\ d < size
  <2>1. k - j \in Nat /\ k = j + (k - j) /\ k - j < size
    OBVIOUS
  <2> QED BY <2>1
<1>2. a \in 0 .. size - 1 /\ c \in 0 .. size - 1
  BY Quotient
<1>3. c = Place(a + d, size)
  BY <1>1, PlaceAdd
<1> HIDE DEF a, c
<1>4. a + d = c \/ a + d = c + size
  <2>1. PICK x : x = a + d
    OBVIOUS
  <2>2. x \in Nat /\ x < size + size
    BY <1>1, <1>2, <2>1
  <2>3. CASE x < size
    BY <1>3, <2>1, <2>2, <2>3, PlaceInFirstLap
  <2>4. CASE size <= x
    <3>1. PICK y : y = x - size
      OBVIOUS
    <3>2. y \in 0 .. size - 1 /\ y \in Nat /\ x = y + size
      BY <2>2, <2>4, <3>1
    <3>3. Place(x, size) = y
      BY <3>2, PlaceLap, PlaceInFirstLap
    <3> QED BY <1>2, <1>3, <2>1, <2>2, <3>2, <3>3
  <2> QED BY <2>2, <2>3, <2>4
<1>5. d \in 0 .. size - 1 /\ Place(d, size) = d /\ Place(d + size, size) = d
  BY <1>1, PlaceInFirstLap, PlaceLap
<1>6. PICK z : z = c + size - a
  OBVIOUS
<1>7. z = d \/ z = d + size
  BY <1>1, <1>2, <1>4, <1>6
<1>8. z % size = d
  BY <1>5, <1>7 DEF Place
<1> QED BY <1>1, <1>6, <1>8 DEF a, c
=============================================================================

----------------------------- MODULE Iteration -----------------------------
(***************************************************************************)
(* Facts about numbers, recursive functions and folds that the proofs of   *)
(* this project share.  Each takes sets and functions as parameters, never *)
(* an operator, so that it can be cited: an invariant of a recursion is a  *)
(* set X that the recursion does not leave.                                *)
(***************************************************************************)
EXTENDS Integers, Sequences, SequencesExt, WellFoundedInduction, TLAPS

\* A set of natural numbers that is not empty has a least element.
LEMMA LeastNumber ==
    ASSUME NEW T, T \subseteq Nat, T # {}
    PROVE  \E x \in T : \A y \in T : x <= y
  <1> DEFINE R == OpToRel(<, Nat)
  <1>1. IsWellFoundedOn(R, Nat)
    BY NatLessThanWellFounded
  <1>2. PICK x \in T : \A y \in T : ~(<<y, x>> \in R)
    <2> HIDE DEF R
    <2> QED BY <1>1, WFMin
  <1>3. ASSUME NEW y \in T PROVE ~(y < x)
    <2>1. <<y, x>> \in Nat \X Nat
      BY <1>2
    <2> QED BY <1>2, <2>1 DEF OpToRel
  <1>4. x \in Nat /\ \A y \in T : y \in Nat
    OBVIOUS
  <1> HIDE DEF R
  <1>5. \A y \in T : x <= y
    BY <1>3, <1>4
  <1> QED BY <1>5

\* A set that holds 0 and the successors of its numbers holds every number.
LEMMA SetInduction ==
    ASSUME NEW S, 0 \in S, \A n \in Nat : n \in S => n + 1 \in S
    PROVE  Nat \subseteq S
  <1> SUFFICES ASSUME Nat \ S # {} PROVE FALSE
    OBVIOUS
  <1>1. PICK x \in Nat \ S : \A y \in Nat \ S : x <= y
    BY LeastNumber
  <1>2. x - 1 \in Nat /\ x - 1 \in S
    BY <1>1
  <1> QED BY <1>1, <1>2

\* The same for the numbers up to n.
LEMMA BoundedInduction ==
    ASSUME NEW S, NEW n \in Nat, 0 \in S, \A k \in 1..n : k - 1 \in S => k \in S
    PROVE  \A k \in 0..n : k \in S
  <1> DEFINE T == {k \in Nat : k <= n => k \in S}
  <1>1. 0 \in T
    OBVIOUS
  <1>2. \A k \in Nat : k \in T => k + 1 \in T
    <2> SUFFICES ASSUME NEW k \in Nat, k \in T, k + 1 <= n PROVE k + 1 \in S
      OBVIOUS
    <2>1. k + 1 \in 1..n /\ (k + 1) - 1 = k /\ k \in S
      OBVIOUS
    <2> QED BY <2>1
  <1> HIDE DEF T
  <1>3. Nat \subseteq T
    BY <1>1, <1>2, SetInduction
  <1> QED BY <1>3 DEF T

-----------------------------------------------------------------------------
(* Recursive functions.                                                    *)

\* h follows the recursion on a..n: the value at a place in B is that of u, at
\* any other place m it is computed by g from the one at d[m].
Follows(h, a, n, B, u, d, g) ==
    \A m \in a..n : h[m] = IF m \in B THEN u[m] ELSE g[<<h[d[m]], m>>]

\* There is a function that follows a recursion to smaller places, with values
\* in any set that the recursion does not leave.
LEMMA RecursionExists ==
    ASSUME NEW X, NEW a \in Nat, NEW n \in Nat, NEW B, NEW u, NEW d, NEW g,
           \A m \in a..n : m \in B => u[m] \in X,
           \A m \in a..n : m \notin B => d[m] \in a..(m - 1),
           \A m \in a..n, v \in X : m \notin B => g[<<v, m>>] \in X
    PROVE  \E h \in [a..n -> X] : Follows(h, a, n, B, u, d, g)
  <1> DEFINE Good(j) == \E h \in [a..j -> X] : Follows(h, a, j, B, u, d, g)
             S == {j \in Nat : a + j <= n + 1 => Good(a + j - 1)}
  <1>1. 0 \in S
    <2>1. a..(a + 0 - 1) = {}
      OBVIOUS
    <2>2. [i \in {} |-> 0] \in [a..(a + 0 - 1) -> X]
      BY <2>1
    <2>3. Follows([i \in {} |-> 0], a, a + 0 - 1, B, u, d, g)
      BY <2>1 DEF Follows
    <2> QED BY <2>2, <2>3
  <1>2. \A j \in Nat : j \in S => j + 1 \in S
    <2> SUFFICES ASSUME NEW j \in Nat, j \in S, a + (j + 1) <= n + 1
                 PROVE  Good(a + (j + 1) - 1)
      OBVIOUS
    <2>1. PICK h \in [a..(a + j - 1) -> X] : Follows(h, a, a + j - 1, B, u, d, g)
      OBVIOUS
    <2> DEFINE e == a + j
               w == IF e \in B THEN u[e] ELSE g[<<h[d[e]], e>>]
               k == [m \in a..e |-> IF m = e THEN w ELSE h[m]]
    <2>2. e \in a..n /\ a + (j + 1) - 1 = e /\ a + j - 1 = e - 1
      OBVIOUS
    <2>3. e \notin B => d[e] \in a..(e - 1)
      BY <2>2
    <2>4. w \in X
      <3>1. CASE e \in B
        BY <2>2, <3>1
      <3>2. CASE e \notin B
        <4>1. h[d[e]] \in X
          BY <2>1, <2>2, <2>3, <3>2
        <4> QED BY <2>2, <3>2, <4>1
      <3> QED BY <3>1, <3>2
    <2>5. k \in [a..e -> X]
      <3> HIDE DEF w
      <3>1. \A m \in a..e : m # e => m \in a..(a + j - 1)
        BY <2>2
      <3> QED BY <2>1, <2>4, <3>1
    <2>6. Follows(k, a, e, B, u, d, g)
      <3> SUFFICES ASSUME NEW m \in a..e
                   PROVE  k[m] = IF m \in B THEN u[m] ELSE g[<<k[d[m]], m>>]
        BY DEF Follows
      <3>1. m \in a..n /\ (m \notin B => d[m] \in a..(m - 1))
        BY <2>2
      <3>2. m \notin B => k[d[m]] = h[d[m]]
        <4> HIDE DEF w
        <4> QED BY <2>2, <3>1
      <3>3. CASE m = e
        BY <3>2, <3>3
      <3>4. CASE m # e
        <4>1. m \in a..(a + j - 1) /\ k[m] = h[m]
          BY <3>4, <2>2
        <4>2. h[m] = IF m \in B THEN u[m] ELSE g[<<h[d[m]], m>>]
          BY <2>1, <4>1 DEF Follows
        <4> HIDE DEF k, w
        <4> QED BY <3>2, <4>1, <4>2
      <3> QED BY <3>3, <3>4
    <2> HIDE DEF k
    <2> QED BY <2>2, <2>5, <2>6
  <1> HIDE DEF S
  <1>3. n + 1 - a \in Nat \/ n + 1 < a
    OBVIOUS
  <1>4. CASE n + 1 - a \in Nat
    <2>1. n + 1 - a \in S /\ a + (n + 1 - a) - 1 = n
      BY <1>1, <1>2, <1>4, SetInduction
    <2> QED BY <2>1 DEF S
  <1>5. CASE n + 1 < a
    <2>1. a..n = {}
      BY <1>5
    <2>2. [i \in {} |-> 0] \in [a..n -> X]
      BY <2>1
    <2>3. Follows([i \in {} |-> 0], a, n, B, u, d, g)
      BY <2>1 DEF Follows
    <2> QED BY <2>2, <2>3
  <1> QED BY <1>3, <1>4, <1>5

-----------------------------------------------------------------------------
(* Folds of sequences, as SequencesExt defines them: a function of the set *)
(* of places that are folded already.                                      *)

\* Two functions that follow the same recursion agree where both do.
LEMMA FollowsOnce ==
    ASSUME NEW a \in Nat, NEW n \in Nat, NEW N \in Nat, n <= N, NEW B, NEW u, NEW d, NEW g,
           NEW h, Follows(h, a, n, B, u, d, g), NEW k, Follows(k, a, N, B, u, d, g),
           \A m \in a..n : m \notin B => d[m] \in a..(m - 1)
    PROVE  \A m \in a..n : h[m] = k[m]
  <1> DEFINE T == {m \in a..n : h[m] # k[m]}
  <1> SUFFICES ASSUME T # {} PROVE FALSE
    OBVIOUS
  <1>1. T \subseteq Nat
    OBVIOUS
  <1>2. PICK m \in T : \A j \in T : m <= j
    <2> HIDE DEF T
    <2> QED BY <1>1, LeastNumber
  <1>3. m \in a..n /\ m \in a..N /\ h[m] # k[m]
    OBVIOUS
  <1>4. /\ h[m] = IF m \in B THEN u[m] ELSE g[<<h[d[m]], m>>]
        /\ k[m] = IF m \in B THEN u[m] ELSE g[<<k[d[m]], m>>]
    BY <1>3 DEF Follows
  <1>5. m \notin B /\ d[m] \in a..(m - 1)
    BY <1>3, <1>4
  <1>6. d[m] \in a..n /\ d[m] \notin T
    BY <1>2, <1>3, <1>5
  <1>7. h[d[m]] = k[d[m]]
    BY <1>6
  <1> QED BY <1>3, <1>4, <1>7

\* it folds the places 1..n with g, starting with x.
IsFold(it, x, n, g) ==
    it = [s \in SUBSET (1..n) |-> IF s = {} THEN x ELSE g[<<it[s \ {Max(s)}], Max(s)>>]]

\* The greatest place of a set.
LEMMA MaxOfPlaces ==
    ASSUME NEW n \in Nat, NEW s \in SUBSET (1..n), n \in s
    PROVE  Max(s) = n
  <1>1. n \in s /\ \A y \in s : n >= y
    OBVIOUS
  <1>2. Max(s) \in s /\ \A y \in s : Max(s) >= y
    BY <1>1 DEF Max
  <1>3. Max(s) \in 1..n /\ Max(s) >= n
    BY <1>2
  <1> QED BY <1>3

\* Of a set of places that is not empty, the greatest one is in it.
LEMMA MaxIsPlace ==
    ASSUME NEW n \in Nat, NEW s \in SUBSET (1..n), s # {}
    PROVE  Max(s) \in s
  <1> DEFINE T == {n - i : i \in s}
  <1>1. T \subseteq Nat /\ T # {}
    <2>1. \A i \in s : i \in 1..n /\ n - i \in Nat /\ n - i \in T
      OBVIOUS
    <2> QED BY <2>1
  <1>2. PICK t \in T : \A y \in T : t <= y
    BY <1>1, LeastNumber
  <1>3. PICK i \in s : t = n - i
    OBVIOUS
  <1>4. \A y \in s : n - y \in T /\ y \in 1..n /\ i \in 1..n
    OBVIOUS
  <1>5. \A y \in s : i >= y
    BY <1>2, <1>3, <1>4
  <1> QED BY <1>5 DEF Max

\* There is a fold, with values in any set that g does not leave.
LEMMA FoldExists ==
    ASSUME NEW X, NEW x \in X, NEW n \in Nat, NEW g,
           \A v \in X, i \in 1..n : g[<<v, i>>] \in X
    PROVE  \E it \in [SUBSET (1..n) -> X] : IsFold(it, x, n, g)
  <1> DEFINE Good(k) == \E it \in [SUBSET (1..k) -> X] : IsFold(it, x, k, g)
             S == {k \in Nat : k <= n => Good(k)}
  <1>1. 0 \in S
    <2> DEFINE it == [s \in SUBSET (1..0) |-> x]
    <2>1. 1..0 = {} /\ \A s \in SUBSET (1..0) : s = {}
      OBVIOUS
    <2>2. it \in [SUBSET (1..0) -> X] /\ IsFold(it, x, 0, g)
      BY <2>1 DEF IsFold
    <2>3. Good(0)
      BY <2>2
    <2> HIDE DEF Good
    <2> QED BY <2>3
  <1>2. \A k \in Nat : k \in S => k + 1 \in S
    <2> SUFFICES ASSUME NEW k \in Nat, Good(k), k + 1 <= n
                 PROVE  Good(k + 1)
      <3> HIDE DEF Good
      <3> QED OBVIOUS
    <2>1. PICK it \in [SUBSET (1..k) -> X] : IsFold(it, x, k, g)
      OBVIOUS
    <2> DEFINE e == k + 1
               jt == [s \in SUBSET (1..e) |->
                        IF e \in s THEN g[<<it[s \ {e}], e>>] ELSE it[s]]
    <2>2. e \in Nat /\ e \in 1..n
      OBVIOUS
    <2>3. \A s \in SUBSET (1..e) : /\ s \ {e} \in SUBSET (1..k)
                                   /\ e \notin s => s \in SUBSET (1..k)
                                   /\ e \notin s \ {e}
      OBVIOUS
    <2>4. jt \in [SUBSET (1..e) -> X]
      <3> SUFFICES ASSUME NEW s \in SUBSET (1..e)
                   PROVE  (IF e \in s THEN g[<<it[s \ {e}], e>>] ELSE it[s]) \in X
        OBVIOUS
      <3>1. it[s \ {e}] \in X /\ (e \notin s => it[s] \in X)
        BY <2>1, <2>3
      <3> HIDE DEF e
      <3> QED BY <2>2, <3>1
    <2>5. ASSUME NEW s \in SUBSET (1..e)
          PROVE  jt[s] = IF s = {} THEN x ELSE g[<<jt[s \ {Max(s)}], Max(s)>>]
      <3>1. CASE e \in s
        <4>1. Max(s) = e
          BY <2>2, <3>1, MaxOfPlaces
        <4>2. jt[s \ {e}] = it[s \ {e}]
          BY <2>3
        <4> HIDE DEF e
        <4> QED BY <3>1, <4>1, <4>2
      <3>2. CASE e \notin s
        <4>1. s \in SUBSET (1..k) /\ jt[s] = it[s]
          BY <2>3, <3>2
        <4>2. it[s] = IF s = {} THEN x ELSE g[<<it[s \ {Max(s)}], Max(s)>>]
          BY <2>1, <4>1 DEF IsFold
        <4>3. s \ {Max(s)} \in SUBSET (1..e) /\ e \notin s \ {Max(s)}
          BY <3>2
        <4>4. jt[s \ {Max(s)}] = it[s \ {Max(s)}]
          BY <4>3
        <4> HIDE DEF jt
        <4> QED BY <4>1, <4>2, <4>4
      <3> QED BY <3>1, <3>2
    <2>6. jt = [s \in SUBSET (1..e) |-> jt[s]]
      OBVIOUS
    <2> HIDE DEF jt
    <2>7. IsFold(jt, x, e, g)
      BY <2>5, <2>6 DEF IsFold
    <2> QED BY <2>4, <2>7
  <1> HIDE DEF S
  <1>3. n \in S
    BY <1>1, <1>2, SetInduction
  <1>4. Good(n)
    <2> HIDE DEF Good
    <2> QED BY <1>3 DEF S
  <1> QED BY <1>4

\* A fold whose steps do not leave X stays in X.
LEMMA FoldStays ==
    ASSUME NEW X, NEW n \in Nat, NEW it, it[{}] \in X,
           \A k \in 1..n : it[1..(k - 1)] \in X => it[1..k] \in X
    PROVE  \A k \in 0..n : it[1..k] \in X
  <1> DEFINE S == {k \in 0..n : it[1..k] \in X}
  <1>1. 0 \in S
    <2>1. 1..0 = {}
      OBVIOUS
    <2> QED BY <2>1
  <1>2. \A k \in 1..n : k - 1 \in S => k \in S
    OBVIOUS
  <1> HIDE DEF S
  <1>3. \A k \in 0..n : k \in S
    BY <1>1, <1>2, BoundedInduction
  <1> QED BY <1>3 DEF S

\* The set of places that are folded before place k.
LEMMA FoldPlaces ==
    ASSUME NEW n \in Nat, NEW k \in 1..n
    PROVE  /\ 1..k \in SUBSET (1..n) /\ 1..k # {} /\ Max(1..k) = k
           /\ (1..k) \ {Max(1..k)} = 1..(k - 1)
  <1>1. k \in Nat /\ k \in 1..k /\ 1..k \in SUBSET (1..k)
    OBVIOUS
  <1>2. Max(1..k) = k
    BY <1>1, MaxOfPlaces
  <1> QED BY <1>1, <1>2

-----------------------------------------------------------------------------
(* Division.                                                               *)

\* A multiple of b that is not 0 is at least b away from 0.
LEMMA Multiples ==
    ASSUME NEW b \in Nat \ {0}, NEW k \in Int
    PROVE  /\ k >= 1 => b * k >= b
           /\ k <= -1 => b * k <= -b
  OBVIOUS

\* Quotient and remainder are unique.
LEMMA DivUnique ==
    ASSUME NEW a \in Int, NEW b \in Nat \ {0}, NEW q \in Int, NEW r \in 0..(b - 1),
           a = b * q + r
    PROVE  a \div b = q /\ a % b = r
  <1> DEFINE d == a \div b
             m == a % b
  <1>1. d \in Int /\ m \in 0..(b - 1) /\ a = b * d + m
    OBVIOUS
  <1> HIDE DEF d, m
  <1>2. b * (q - d) = m - r
    BY <1>1
  <1>3. q - d \in Int /\ m - r < b /\ m - r > -b
    BY <1>1
  <1>4. q - d = 0
    BY <1>2, <1>3, Multiples
  <1> QED BY <1>1, <1>4 DEF d, m
=============================================================================

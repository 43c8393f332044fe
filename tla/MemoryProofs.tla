---------------------------- MODULE MemoryProofs ----------------------------
(***************************************************************************)
(* Proofs about Boot and Memory: from the start of the kernel on, whatever *)
(* programs run, every page has one use.                                   *)
(***************************************************************************)
EXTENDS Memory, Iteration, FiniteSetTheorems, SequenceTheorems

\* The constants are numbers.
LEMMA Constants ==
    /\ PT \in Nat \ {0} /\ BITS \in Nat /\ BPP \in Nat \ {0} /\ PHYSBASE \in Nat
    /\ PHYSFREE \in Nat /\ VIDEO \in Nat /\ PT <= BPP
    /\ PHYSFREE + 9 < PT * PT
  <1>1. /\ PT \in Nat /\ BITS \in Nat /\ BPP \in Nat /\ PHYSBASE \in Nat
        /\ PHYSFREE \in Nat /\ VIDEO \in Nat
    BY BootAssumption, Zenon
  <1>2. 0 < PT /\ PT <= BPP /\ PHYSFREE + 9 < PT * PT
    BY BootAssumption
  <1> QED BY <1>1, <1>2

(***************************************************************************)
(* Pages.                                                                  *)
(***************************************************************************)

\* The free pages that get_firstpage can find.
Found(F) == {p \in F : p < BITS}

\* There are finitely many of them.
LEMMA FoundFinite ==
    ASSUME NEW F \in SUBSET Nat
    PROVE  IsFiniteSet(Found(F)) /\ Cardinality(Found(F)) \in Nat
  <1>0. \A p \in Found(F) : p \in Nat /\ p < BITS
    BY DEF Found
  <1>1. Found(F) \in SUBSET Nat /\ \A p \in Found(F) : p <= BITS
    BY <1>0, Constants
  <1>2. IsFiniteSet(Found(F))
    BY <1>1, Constants, FS_BoundedSetOfNaturals
  <1> QED BY <1>2, FS_CardinalityType

\* If there is a page to be found from k on, get_firstpage finds the first one.
LEMMA FirstPageIs ==
    ASSUME NEW F \in SUBSET Nat, NEW k \in Nat, \E p \in Found(F) : k <= p
    PROVE  /\ FirstPage(F, k) \in Found(F) /\ k <= FirstPage(F, k)
           /\ \A q \in F : k <= q => FirstPage(F, k) <= q
  <1> DEFINE T == {p \in Found(F) : k <= p}
  <1>1. T \subseteq Nat /\ T # {} /\ \A p \in T : p \in F /\ p < BITS /\ k <= p
    BY DEF Found
  <1>2. PICK p \in T : \A q \in T : p <= q
    <2> HIDE DEF T
    <2> QED BY <1>1, LeastNumber
  <1>3. \A q \in k..(p - 1) : q \notin F
    <2> SUFFICES ASSUME NEW q \in k..(p - 1), q \in F PROVE FALSE
      OBVIOUS
    <2>1. q \in T
      BY <1>1, Constants DEF Found
    <2> QED BY <1>1, <1>2, <2>1
  <1>4. p \in k..(BITS - 1)
    BY <1>1, Constants
  <1> DEFINE f == FirstPage(F, k)
  <1>5. f \in k..(BITS - 1) /\ f \in F /\ \A q \in k..(f - 1) : q \notin F
    BY <1>1, <1>3, <1>4 DEF FirstPage
  <1> HIDE DEF f
  <1>6. f \in Found(F)
    BY <1>5, Constants DEF Found
  <1>7. ASSUME NEW q \in F, k <= q PROVE f <= q
    BY <1>5, <1>7, Constants
  <1> QED BY <1>5, <1>6, <1>7, Constants DEF f

\* The pages that are taken one after the other, without a sequence that is
\* long enough: what the recursion in Allocated says of them.
Successive(a, F, n) ==
    a = [i \in 1..n |-> FirstPage(F, IF i = 1 THEN 0 ELSE a[i - 1] + 1)]

\* a takes the first n pages that are free, in ascending order.
Ascending(a, F, n) ==
    /\ a \in [1..n -> Found(F)]
    /\ \A i \in 1..n, j \in 1..n : i < j => a[i] < a[j]
    /\ \A i \in 1..n : \A q \in F : q <= a[i] => \E j \in 1..i : q = a[j]

\* Of at least n pages there is one behind the first m < n.
LEMMA OneMore ==
    ASSUME NEW F \in SUBSET Nat, NEW n \in Nat, Cardinality(Found(F)) >= n,
           NEW m \in Nat, m < n, NEW a, Ascending(a, F, m)
    PROVE  \E p \in Found(F) : \A i \in 1..m : a[i] < p
  <1> DEFINE T == {a[i] : i \in 1..m}
             f == [i \in 1..m |-> a[i]]
  <1>1. f \in Surjection(1..m, T)
    BY DEF Surjection
  <1>2. IsFiniteSet(1..m) /\ Cardinality(1..m) = m
    BY FS_Interval
  <1>3. IsFiniteSet(T) /\ Cardinality(T) <= m
    BY <1>1, <1>2, FS_Surjection
  <1>4. Cardinality(T) \in Nat /\ Cardinality(Found(F)) \in Nat
    BY <1>3, FS_CardinalityType, FoundFinite
  <1>5. ~(Found(F) \subseteq T)
    <2> SUFFICES ASSUME Found(F) \subseteq T PROVE FALSE
      OBVIOUS
    <2>1. Cardinality(Found(F)) <= Cardinality(T)
      BY <1>3, FS_Subset
    <2> QED BY <1>3, <1>4, <2>1
  <1>6. PICK p \in Found(F) : p \notin T
    BY <1>5
  <1>7. p \in F /\ p \in Nat
    BY <1>6 DEF Found
  <1>8. ASSUME NEW i \in 1..m PROVE a[i] < p
    <2>1. a[i] \in Nat
      BY DEF Ascending, Found
    <2>2. p <= a[i] => \E j \in 1..i : p = a[j]
      BY <1>7 DEF Ascending
    <2>3. \A j \in 1..i : p # a[j]
      BY <1>6
    <2> QED BY <1>7, <2>1, <2>2, <2>3
  <1> QED BY <1>8

\* One page more.
LEMMA AscendingStep ==
    ASSUME NEW F \in SUBSET Nat, NEW n \in Nat, Cardinality(Found(F)) >= n,
           NEW m \in Nat, m < n, NEW a, NEW b, Ascending(a, F, m),
           b \in [1..(m + 1) -> Nat], \A i \in 1..m : b[i] = a[i],
           b[m + 1] = FirstPage(F, IF m + 1 = 1 THEN 0 ELSE a[m] + 1)
    PROVE  Ascending(b, F, m + 1)
  <1> DEFINE k == IF m + 1 = 1 THEN 0 ELSE a[m] + 1
             f == FirstPage(F, k)
  <1>0. \A i \in 1..m : a[i] \in Found(F) /\ a[i] \in Nat
    BY DEF Ascending, Found
  <1>1. \A i \in 1..m : a[i] < k
    <2>1. ASSUME NEW i \in 1..m PROVE a[i] <= a[m]
      BY <1>0 DEF Ascending
    <2> QED BY <1>0, <2>1
  <1>2. k \in Nat
    BY <1>0
  <1>3. \E p \in Found(F) : k <= p
    <2>1. PICK p \in Found(F) : \A i \in 1..m : a[i] < p
      BY OneMore
    <2>2. p \in Nat
      BY DEF Found
    <2> QED BY <1>0, <2>1, <2>2
  <1>4. f \in Found(F) /\ k <= f /\ \A q \in F : k <= q => f <= q
    <2> HIDE DEF k
    <2> QED BY <1>2, <1>3, FirstPageIs
  <1> HIDE DEF f
  <1>5. b[m + 1] = f
    BY DEF f
  <1>6. f \in Nat
    BY <1>4 DEF Found
  <1>7. b \in [1..(m + 1) -> Found(F)]
    <2>1. \A i \in 1..(m + 1) : i = m + 1 \/ i \in 1..m
      OBVIOUS
    <2>2. \A i \in 1..(m + 1) : b[i] \in Found(F)
      BY <1>0, <1>4, <1>5, <2>1
    <2> QED BY <2>2
  <1>8. ASSUME NEW i \in 1..(m + 1), NEW j \in 1..(m + 1), i < j PROVE b[i] < b[j]
    <2>1. i \in 1..m /\ b[i] = a[i] /\ a[i] \in Nat
      BY <1>0, <1>8
    <2>2. CASE j = m + 1
      BY <1>1, <1>2, <1>4, <1>5, <1>6, <2>1, <2>2
    <2>3. CASE j \in 1..m
      BY <1>8, <2>1, <2>3 DEF Ascending
    <2> QED BY <2>2, <2>3
  <1>9. ASSUME NEW i \in 1..(m + 1), NEW q \in F, q <= b[i]
        PROVE  \E j \in 1..i : q = b[j]
    <2>0. q \in Nat
      OBVIOUS
    <2>1. CASE i \in 1..m
      <3>1. PICK j \in 1..i : q = a[j]
        BY <1>9, <2>1 DEF Ascending
      <3> QED BY <2>1, <3>1
    <2>2. CASE i = m + 1 /\ k <= q
      BY <1>4, <1>5, <1>6, <1>9, <2>0, <2>2
    <2>3. CASE i = m + 1 /\ ~(k <= q)
      <3>1. m \in 1..m /\ q <= a[m]
        BY <1>0, <2>0, <2>3
      <3>2. PICK j \in 1..m : q = a[j]
        BY <3>1 DEF Ascending
      <3> QED BY <2>3, <3>2
    <2> QED BY <2>1, <2>2, <2>3
  <1> QED BY <1>7, <1>8, <1>9 DEF Ascending

\* The recursion has a solution, and every solution takes the first pages: there
\* are enough of them, so that get_firstpage never looks in vain.
LEMMA SuccessiveExists ==
    ASSUME NEW F \in SUBSET Nat, NEW n \in Nat, Cardinality(Found(F)) >= n
    PROVE  \E h : Successive(h, F, n)
  <1> DEFINE B == {1}
             k(m, v) == IF m = 1 THEN 0 ELSE v + 1
             Pick(m, v) == IF \E p \in Found(F) : k(m, v) <= p THEN FirstPage(F, k(m, v)) ELSE 0
             u == [m \in 1..n |-> Pick(m, 0)]
             d == [m \in 1..n |-> m - 1]
             g == [x \in Nat \X (1..n) |-> Pick(x[2], x[1])]
  <1>1. ASSUME NEW m \in 1..n, NEW v \in Nat PROVE Pick(m, v) \in Nat
    <2>1. k(m, v) \in Nat
      OBVIOUS
    <2> HIDE DEF k
    <2>2. CASE \E p \in Found(F) : k(m, v) <= p
      <3>1. FirstPage(F, k(m, v)) \in Found(F)
        BY <2>1, <2>2, FirstPageIs
      <3> QED BY <2>2, <3>1 DEF Found
    <2>3. CASE ~\E p \in Found(F) : k(m, v) <= p
      BY <2>3
    <2> QED BY <2>2, <2>3
  <1> HIDE DEF Pick
  <1>2. /\ \A m \in 1..n : m \in B => u[m] \in Nat
        /\ \A m \in 1..n : m \notin B => d[m] \in 1..(m - 1)
        /\ \A m \in 1..n, v \in Nat : m \notin B => g[<<v, m>>] \in Nat
    BY <1>1
  <1>3. \A m \in 1..n, v \in Nat : g[<<v, m>>] = Pick(m, v)
    OBVIOUS
  <1> HIDE DEF g
  <1>4. PICK h \in [1..n -> Nat] : Follows(h, 1, n, B, u, d, g)
    <2> HIDE DEF B, u, d
    <2> QED BY <1>2, RecursionExists
  <1>5. ASSUME NEW m \in 1..n
        PROVE  h[m] = Pick(m, IF m = 1 THEN 0 ELSE h[m - 1])
    <2>1. h[m] = IF m \in B THEN u[m] ELSE g[<<h[d[m]], m>>]
      BY <1>4 DEF Follows
    <2>2. CASE m = 1
      BY <2>1, <2>2
    <2>3. CASE m # 1
      <3>1. m \notin B /\ d[m] = m - 1 /\ m - 1 \in 1..n
        BY <2>3
      <3>2. h[m - 1] \in Nat
        BY <1>4, <3>1
      <3> QED BY <1>3, <2>1, <2>3, <3>1, <3>2
    <2> QED BY <2>2, <2>3
  <1> DEFINE part(m) == [i \in 1..m |-> h[i]]
             S == {m \in 0..n : Ascending(part(m), F, m)}
             at(m) == IF m = 1 THEN 0 ELSE h[m - 1] + 1
  <1>6. ASSUME NEW m \in 1..n, m - 1 \in S
        PROVE  m \in S /\ h[m] = FirstPage(F, at(m))
    <2> DEFINE a == part(m - 1)
    <2>0. m - 1 \in Nat /\ m - 1 < n /\ Ascending(a, F, m - 1)
      BY <1>6
    <2>1. \A i \in 1..(m - 1) : a[i] = h[i] /\ h[i] \in Nat
      BY <1>4
    <2>2. PICK p \in Found(F) : \A i \in 1..(m - 1) : a[i] < p
      <3> HIDE DEF a
      <3> QED BY <2>0, OneMore
    <2>3. p \in Nat
      BY DEF Found
    <2>4. k(m, IF m = 1 THEN 0 ELSE h[m - 1]) = at(m)
      OBVIOUS
    <2>5. at(m) <= p
      BY <2>1, <2>2, <2>3
    <2>6. h[m] = FirstPage(F, at(m))
      <3> HIDE DEF at, k
      <3> QED BY <1>5, <2>4, <2>5 DEF Pick
    <2>7. at(m) = IF (m - 1) + 1 = 1 THEN 0 ELSE a[m - 1] + 1
      BY <2>1
    <2>8. part(m) \in [1..((m - 1) + 1) -> Nat] /\ part(m)[(m - 1) + 1] = h[m]
          /\ \A i \in 1..(m - 1) : part(m)[i] = a[i]
      BY <1>4, <2>1
    <2>9. Ascending(part(m), F, (m - 1) + 1)
      <3> HIDE DEF a, part, at
      <3> QED BY <2>0, <2>6, <2>7, <2>8, AscendingStep
    <2>10. Ascending(part(m), F, m)
      BY <2>9
    <2> HIDE DEF part, at
    <2> QED BY <2>6, <2>10
  <1>7. 0 \in S
    BY DEF Ascending
  <1>8. \A m \in 0..n : m \in S
    <2> HIDE DEF S
    <2> QED BY <1>6, <1>7, BoundedInduction
  <1>9. \A m \in 1..n : h[m] = FirstPage(F, at(m))
    <2> HIDE DEF S, at
    <2>1. \A m \in 1..n : m - 1 \in 0..n
      OBVIOUS
    <2> QED BY <1>6, <1>8, <2>1
  <1>10. h = [i \in 1..n |-> FirstPage(F, at(i))]
    BY <1>4, <1>9
  <1> QED BY <1>10 DEF Successive

\* n calls of allocate_page take the first n free pages, in ascending order.
LEMMA AllocatedIs ==
    ASSUME NEW F \in SUBSET Nat, NEW n \in Nat, Cardinality(Found(F)) >= n
    PROVE  Ascending(Allocated(F, n), F, n)
  <1> DEFINE A == CHOOSE a : a = [i \in 1..n |-> FirstPage(F, IF i = 1 THEN 0 ELSE a[i - 1] + 1)]
  <1>1. Allocated(F, n) = A
    BY DEF Allocated
  <1>2. A = [i \in 1..n |-> FirstPage(F, IF i = 1 THEN 0 ELSE A[i - 1] + 1)]
    BY SuccessiveExists DEF Successive
  <1> HIDE DEF A
  <1> DEFINE part(m) == [i \in 1..m |-> A[i]]
             S == {m \in 0..n : Ascending(part(m), F, m)}
  <1>3. 0 \in S
    BY DEF Ascending
  <1>4. ASSUME NEW m \in 1..n, m - 1 \in S PROVE m \in S
    <2> DEFINE a == part(m - 1)
               k == IF (m - 1) + 1 = 1 THEN 0 ELSE a[m - 1] + 1
    <2>0. m - 1 \in Nat /\ m - 1 < n /\ Ascending(a, F, m - 1)
      BY <1>4
    <2>1. \A i \in 1..(m - 1) : a[i] \in Found(F) /\ a[i] \in Nat /\ a[i] = A[i]
      BY <2>0 DEF Ascending, Found
    <2>2. PICK p \in Found(F) : \A i \in 1..(m - 1) : a[i] < p
      <3> HIDE DEF a
      <3> QED BY <2>0, OneMore
    <2>3. p \in Nat
      BY DEF Found
    <2>4. k \in Nat /\ k <= p
      BY <2>1, <2>2, <2>3
    <2>5. A[m] = FirstPage(F, k)
      <3>1. k = IF m = 1 THEN 0 ELSE A[m - 1] + 1
        BY <2>1
      <3> HIDE DEF k
      <3> QED BY <1>2, <3>1
    <2>6. A[m] \in Nat
      <3> HIDE DEF k
      <3>1. FirstPage(F, k) \in Found(F)
        BY <2>4, FirstPageIs
      <3> QED BY <2>5, <3>1 DEF Found
    <2>7. part(m) \in [1..((m - 1) + 1) -> Nat] /\ part(m)[(m - 1) + 1] = A[m]
          /\ \A i \in 1..(m - 1) : part(m)[i] = a[i]
      BY <2>1, <2>6
    <2>8. Ascending(part(m), F, (m - 1) + 1)
      <3> HIDE DEF a, part
      <3> QED BY <2>0, <2>5, <2>7, AscendingStep
    <2>9. Ascending(part(m), F, m)
      BY <2>8
    <2> HIDE DEF part
    <2> QED BY <2>9
  <1>5. n \in S
    <2> HIDE DEF S
    <2> QED BY <1>3, <1>4, BoundedInduction
  <1>6. Ascending(part(n), F, n)
    BY <1>5
  <1>7. part(n) = A
    BY <1>2
  <1> HIDE DEF part
  <1> QED BY <1>1, <1>6, <1>7

\* From an interval a run of pages is taken.
LEMMA AllocatedRun ==
    ASSUME NEW k \in Nat, NEW e \in Nat, NEW n \in Nat, k + n <= e, k + n <= BITS
    PROVE  /\ Allocated(k..(e - 1), n) = [i \in 1..n |-> (k - 1) + i]
           /\ ToSet(Allocated(k..(e - 1), n)) = k..(k + n - 1)
           /\ Ascending(Allocated(k..(e - 1), n), k..(e - 1), n)
  <1> DEFINE F == k..(e - 1)
             a == Allocated(F, n)
  <1>1. F \in SUBSET Nat
    OBVIOUS
  <1>2. Cardinality(Found(F)) >= n
    <2>1. k..(k + n - 1) \in SUBSET Found(F)
      BY Constants DEF Found
    <2>2. Cardinality(k..(k + n - 1)) = n
      BY FS_Interval
    <2>3. Cardinality(k..(k + n - 1)) <= Cardinality(Found(F))
      <3> HIDE DEF F
      <3> QED BY <1>1, <2>1, FoundFinite, FS_Subset
    <2> QED BY <2>2, <2>3
  <1>3. Ascending(a, F, n)
    <2> HIDE DEF F
    <2> QED BY <1>1, <1>2, AllocatedIs
  <1> HIDE DEF a
  <1>4. \A i \in 1..n : a[i] \in F /\ a[i] \in Nat
    <2>1. \A i \in 1..n : a[i] \in F
      BY <1>3 DEF Ascending, Found
    <2> QED BY <1>1, <2>1
  <1> DEFINE S == {m \in 0..n : \A i \in 1..m : a[i] = (k - 1) + i}
  <1>5. ASSUME NEW m \in 1..n, m - 1 \in S PROVE m \in S
    <2> DEFINE q == (k - 1) + m
    <2>1. q \in F
      OBVIOUS
    <2>2. a[m] >= q
      <3>1. a[m] >= k
        BY <1>4
      <3>2. CASE m = 1
        BY <3>1, <3>2
      <3>3. CASE m # 1
        <4>1. a[m - 1] < a[m] /\ a[m - 1] = (k - 1) + (m - 1)
          BY <1>3, <1>5, <3>3 DEF Ascending
        <4> QED BY <1>4, <4>1
      <3> QED BY <3>2, <3>3
    <2>3. q <= a[m] => \E j \in 1..m : q = a[j]
      BY <1>3, <2>1 DEF Ascending
    <2>4. \A j \in 1..(m - 1) : a[j] = (k - 1) + j
      BY <1>5
    <2>5. a[m] = q
      BY <1>4, <2>2, <2>3, <2>4
    <2> QED BY <2>4, <2>5
  <1>6. 0 \in S
    OBVIOUS
  <1>7. n \in S
    <2> HIDE DEF S
    <2> QED BY <1>5, <1>6, BoundedInduction
  <1>8. \A i \in 1..n : a[i] = (k - 1) + i
    BY <1>7
  <1>9. a = [i \in 1..n |-> (k - 1) + i]
    BY <1>3, <1>8 DEF Ascending
  <1>10. ToSet(a) = k..(k + n - 1)
    <2>1. ToSet(a) = {a[i] : i \in 1..n}
      BY <1>9 DEF ToSet
    <2>2. \A q \in k..(k + n - 1) : (q - k) + 1 \in 1..n /\ a[(q - k) + 1] = q
      BY <1>8
    <2>3. \A i \in 1..n : a[i] \in k..(k + n - 1)
      BY <1>8
    <2> QED BY <2>1, <2>2, <2>3
  <1> QED BY <1>3, <1>9, <1>10 DEF a

\* The page behind one that is not the last of those taken is taken, too, or was
\* not free.
LEMMA BehindTaken ==
    ASSUME NEW F \in SUBSET Nat, NEW n \in Nat, NEW a, Ascending(a, F, n),
           NEW i \in 1..(n - 1)
    PROVE  a[i] + 1 \notin F \ ToSet(a)
  <1> SUFFICES ASSUME a[i] + 1 \in F PROVE a[i] + 1 \in ToSet(a)
    OBVIOUS
  <1>1. i \in 1..n /\ i + 1 \in 1..n /\ i < i + 1 /\ DOMAIN a = 1..n
    BY DEF Ascending
  <1>2. a[i] \in Nat /\ a[i + 1] \in Nat
    BY <1>1 DEF Ascending, Found
  <1>3. a[i] < a[i + 1]
    BY <1>1 DEF Ascending
  <1>4. a[i] + 1 <= a[i + 1]
    BY <1>2, <1>3
  <1>5. PICK j \in 1..(i + 1) : a[i] + 1 = a[j]
    BY <1>1, <1>4 DEF Ascending
  <1>6. j \in 1..n
    BY <1>1
  <1> QED BY <1>1, <1>5, <1>6 DEF ToSet

-----------------------------------------------------------------------------
(* The memory map.                                                         *)

\* Of the usable parts one is the longest, and of those the first.
LEMMA LongestExists ==
    ASSUME NEW s \in Seq(Parts), Usable(s) # {}
    PROVE  \E k \in Usable(s) :
             \A j \in Usable(s) : \/ s[j].length < s[k].length
                                  \/ s[j].length = s[k].length /\ k <= j
  <1> DEFINE U(m) == {k \in Usable(s) : k <= m}
             Best(k, j) == \/ s[j].length < s[k].length
                           \/ s[j].length = s[k].length /\ k <= j
             Has(m) == U(m) # {} => \E k \in U(m) : \A j \in U(m) : Best(k, j)
             S == {m \in 0..Len(s) : Has(m)}
  <1>1. \A k \in Usable(s) : k \in 1..Len(s) /\ s[k].length \in Nat
    <2>1. \A k \in Usable(s) : k \in 1..Len(s)
      BY DEF Usable
    <2>2. \A k \in 1..Len(s) : s[k] \in Parts
      OBVIOUS
    <2>3. \A k \in 1..Len(s) : s[k].length \in Nat
      BY <2>2 DEF Parts
    <2> QED BY <2>1, <2>3
  <1>2. 0 \in S
    <2>1. U(0) = {}
      BY <1>1
    <2> QED BY <2>1
  <1>3. ASSUME NEW m \in 1..Len(s), m - 1 \in S PROVE m \in S
    <2> SUFFICES Has(m)
      BY SMT
    <2>0. Has(m - 1)
      BY <1>3
    <2>1. CASE m \notin Usable(s)
      <3>1. U(m) = U(m - 1)
        BY <1>1, <2>1
      <3> HIDE DEF U
      <3> QED BY <2>0, <3>1
    <2>2. CASE m \in Usable(s) /\ U(m - 1) = {}
      <3>1. U(m) = {m}
        BY <1>1, <2>2
      <3>2. Best(m, m)
        BY <1>1, <2>2
      <3> HIDE DEF U, Best
      <3> QED BY <3>1, <3>2
    <2>3. CASE m \in Usable(s) /\ U(m - 1) # {}
      <3>1. PICK b \in U(m - 1) : \A j \in U(m - 1) : Best(b, j)
        BY <2>0, <2>3
      <3>2. \A j \in U(m) : j = m \/ j \in U(m - 1)
        BY <1>1
      <3>0. b \in Usable(s) /\ b <= m - 1 /\ m \in Usable(s)
        BY <2>3
      <3>4. /\ m \in Usable(s) /\ b \in Usable(s) /\ b <= m /\ b \in Nat /\ m \in Nat
            /\ s[m].length \in Nat /\ s[b].length \in Nat
        <4>1. b \in 1..Len(s) /\ s[b].length \in Nat
          BY <1>1, <3>0
        <4>2. m \in 1..Len(s) /\ s[m].length \in Nat
          BY <1>1, <3>0
        <4> QED BY <3>0, <4>1, <4>2
      <3>3. b \in U(m) /\ m \in U(m)
        BY <3>4
      <3>5. CASE s[m].length <= s[b].length
        <4>1. Best(b, m)
          BY <3>4, <3>5
        <4> HIDE DEF U, Best
        <4> QED BY <3>1, <3>2, <3>3, <4>1
      <3>6. CASE ~(s[m].length <= s[b].length)
        <4>1. Best(m, m)
          BY <3>4
        <4>2. ASSUME NEW j \in U(m - 1) PROVE Best(m, j)
          <5>1. Best(b, j)
            BY <3>1
          <5>2. j \in Usable(s) /\ s[j].length \in Nat
            BY <1>1
          <5> QED BY <3>4, <3>6, <5>1, <5>2
        <4> HIDE DEF U, Best
        <4> QED BY <3>2, <3>3, <4>1, <4>2
      <3> QED BY <3>5, <3>6
    <2> QED BY <2>1, <2>2, <2>3
  <1> HIDE DEF S
  <1>4. \A m \in 0..Len(s) : m \in S
    <2>1. Len(s) \in Nat
      OBVIOUS
    <2>2. \A m \in 1..Len(s) : m - 1 \in S => m \in S
      BY <1>3
    <2> QED BY <1>2, <2>1, <2>2, BoundedInduction
  <1>5. U(Len(s)) = Usable(s)
    BY <1>1
  <1> HIDE DEF U, Best
  <1>6. \E k \in Usable(s) : \A j \in Usable(s) : Best(k, j)
    <2>1. Len(s) \in S
      BY <1>4
    <2> QED BY <1>5, <2>1 DEF S
  <1> QED BY <1>6 DEF Best

\* start finds a part with room for the tables.
LEMMA LargestIs ==
    ASSUME smap \in Smaps
    PROVE  /\ smap[Largest].base \in Nat /\ smap[Largest].length \in Nat
           /\ Room(smap[Largest].base + smap[Largest].length)
  <1>1. smap \in Seq(Parts) /\ Usable(smap) # {}
    BY SmapsAssumption
  <1>2. \E k \in Usable(smap) :
             \A j \in Usable(smap) : \/ smap[j].length < smap[k].length
                                     \/ smap[j].length = smap[k].length /\ k <= j
    BY <1>1, LongestExists
  <1>3. /\ Largest \in Usable(smap)
        /\ \A j \in Usable(smap) : \/ smap[j].length < smap[Largest].length
                                   \/ smap[j].length = smap[Largest].length /\ Largest <= j
    BY <1>2 DEF Largest
  <1>4. \A k \in Usable(smap) : k \in 1..Len(smap) /\ smap[k] \in Parts
    BY <1>1 DEF Usable
  <1>5. \A k \in Usable(smap) : smap[k].base \in Nat /\ smap[k].length \in Nat
    BY <1>4 DEF Parts
  <1>6. \A j \in Usable(smap) : smap[j].length <= smap[Largest].length
    BY <1>3, <1>5
  <1>7. Room(smap[Largest].base + smap[Largest].length)
    BY <1>3, <1>6, SmapsAssumption
  <1> QED BY <1>3, <1>5, <1>7

-----------------------------------------------------------------------------
(* The kernel's tables.                                                    *)

\* The pages of the tables follow one another, and those behind them, up to e,
\* are free; d is the last page that bits may be left in.
Stacked(t, e, d) ==
    /\ t.kernel \in Seq(Nat) /\ \A i \in 1..Len(t.kernel) : t.kernel[i] = PHYSFREE + i
    /\ t.free = (PHYSFREE + Len(t.kernel) + 1)..(e - 1)
    /\ t.dirty \subseteq (PHYSFREE + Len(t.kernel) + 1)..d

\* t has the four parts of Tables.
IsTables(t) == t = [free |-> t.free, dirty |-> t.dirty, pt |-> t.pt, kernel |-> t.kernel]

\* The next pages are taken, and no bits are left in them.
LEMMA TakeStacks ==
    ASSUME NEW t, IsTables(t), NEW e \in Nat, NEW d \in Int, Stacked(t, e, d), NEW n \in Nat,
           PHYSFREE + Len(t.kernel) + n < e, PHYSFREE + Len(t.kernel) + n < BITS
    PROVE  /\ IsTables(Take(t, n)) /\ Stacked(Take(t, n), e, d)
           /\ Len(Take(t, n).kernel) = Len(t.kernel) + n
           /\ Take(t, n).pt = t.pt
  <1> DEFINE f == t.free
             dd == t.dirty
             p == t.pt
             k == t.kernel
             L == Len(k)
             b == PHYSFREE + L + 1
             a == Allocated(t.free, n)
  <1>0. k \in Seq(Nat) /\ L \in Nat /\ (\A i \in 1..L : k[i] = PHYSFREE + i) /\ L = Len(k)
    BY DEF Stacked
  <1>1. b \in Nat /\ b + n <= e /\ b + n <= BITS /\ t.free = b..(e - 1)
    BY <1>0, Constants DEF Stacked
  <1>2. a = [i \in 1..n |-> (b - 1) + i] /\ ToSet(a) = b..(b + n - 1)
    <2>1. /\ Allocated(b..(e - 1), n) = [i \in 1..n |-> (b - 1) + i]
          /\ ToSet(Allocated(b..(e - 1), n)) = b..(b + n - 1)
      <3> HIDE DEF b
      <3> QED BY <1>1, AllocatedRun
    <2> QED BY <1>1, <2>1
  <1>3. Take(t, n) = [free |-> f \ ToSet(a), dirty |-> dd \ ToSet(a), pt |-> p, kernel |-> k \o a]
    <2>1. Take(t, n) = [t EXCEPT !.free = @ \ ToSet(a), !.dirty = @ \ ToSet(a), !.kernel = @ \o a]
      BY DEF Take, Cleared
    <2>2. t = [free |-> f, dirty |-> dd, pt |-> p, kernel |-> k]
      BY DEF IsTables
    <2> HIDE DEF a, f, dd, p, k
    <2> QED BY <2>1, <2>2
  <1>d. f = b..(e - 1) /\ dd \subseteq b..d
    BY <1>1 DEF Stacked
  <1> DEFINE T == Take(t, n)
  <1> HIDE DEF a, f, dd, p, k, L, T
  <1>4. a \in Seq(Nat) /\ Len(a) = n
    BY <1>1, <1>2
  <1>5. k \o a \in Seq(Nat) /\ Len(k \o a) = L + n
    <2>1. k \in Seq(Nat) /\ Len(k) = L
      BY <1>0 DEF L
    <2>2. k \o a \in Seq(Nat) /\ Len(k \o a) = Len(k) + Len(a)
      BY <1>4, <2>1, ConcatProperties
    <2> QED BY <1>4, <2>1, <2>2
  <1>6. ASSUME NEW i \in 1..(L + n) PROVE (k \o a)[i] = PHYSFREE + i
    <2>1. CASE i \in 1..L
      <3>1. (k \o a)[i] = k[i]
        BY <1>0, <1>4, <2>1
      <3>2. k[i] = PHYSFREE + i
        BY <1>0, <2>1
      <3> QED BY <3>1, <3>2
    <2>2. CASE i \notin 1..L
      <3>1. i - L \in 1..n /\ (k \o a)[i] = a[i - L]
        BY <1>0, <1>4, <2>2
      <3>2. a[i - L] = (b - 1) + (i - L)
        BY <1>2, <3>1
      <3> QED BY <1>0, <3>1, <3>2, Constants
    <2> QED BY <2>1, <2>2
  <1>p. PHYSFREE \in Nat
    BY Constants
  <1>q. b + n = PHYSFREE + (L + n) + 1
    BY <1>0, <1>p
  <1>7. f \ ToSet(a) = (PHYSFREE + (L + n) + 1)..(e - 1)
    <2> HIDE DEF b
    <2>1. \A q \in b..(e - 1) : q \notin b..(b + n - 1) <=> q \in (b + n)..(e - 1)
      BY <1>1
    <2>2. (b + n)..(e - 1) \subseteq b..(e - 1)
      BY <1>1
    <2>3. f \ ToSet(a) = (b..(e - 1)) \ (b..(b + n - 1))
      BY <1>2, <1>d
    <2>4. (b..(e - 1)) \ (b..(b + n - 1)) = (b + n)..(e - 1)
      BY <2>1, <2>2
    <2> QED BY <1>q, <2>3, <2>4
  <1>8. dd \ ToSet(a) \subseteq (PHYSFREE + (L + n) + 1)..d
    <2>2. \A q \in b..d : q \notin b..(b + n - 1) => q \in (PHYSFREE + (L + n) + 1)..d
      BY <1>0, Constants
    <2> QED BY <1>2, <1>d, <2>2
  <1>9. T.free = f \ ToSet(a) /\ T.dirty = dd \ ToSet(a) /\ T.pt = p /\ T.kernel = k \o a
    BY <1>3 DEF T
  <1>10. IsTables(T)
    BY <1>3, <1>9 DEF IsTables, T
  <1> HIDE DEF b
  <1>11. Stacked(T, e, d)
    BY <1>5, <1>6, <1>7, <1>8, <1>9 DEF Stacked
  <1> QED BY <1>0, <1>5, <1>9, <1>10, <1>11 DEF T, p, k

\* The tables are not more than the pages taken for them.
Counted(t) == IsFiniteSet(DOMAIN t.pt) /\ Cardinality(DOMAIN t.pt) <= Len(t.kernel)

\* The tables that pages belong to.
TablesOf(P) == {p \div PT : p \in P}

\* The tables with the pages P entered.
Entered(t, P) ==
    [i \in DOMAIN t.pt \cup TablesOf(P) |->
       Enter(IF i \in DOMAIN t.pt THEN t.pt[i] ELSE <<>>, {p \in P : p \div PT = i})]

\* The pds that have to be added for the pages P.
NewDirectories(t, P) == Directories(TablesOf(P)) \ Directories(DOMAIN t.pt)

\* map_virt_to_phys_addr takes a page for every table and every pd that is missing.
LEMMA MapPagesStacks ==
    ASSUME NEW t, IsTables(t), NEW e \in Nat, NEW d \in Int, Stacked(t, e, d), Counted(t),
           NEW P, NEW a \in Nat, NEW b \in Nat, NEW c \in Nat, c = a + b,
           IsFiniteSet(TablesOf(P)), Cardinality(TablesOf(P)) <= a,
           IsFiniteSet(NewDirectories(t, P)), Cardinality(NewDirectories(t, P)) <= b,
           PHYSFREE + Len(t.kernel) + c < e, PHYSFREE + Len(t.kernel) + c < BITS
    PROVE  /\ IsTables(MapPages(t, P)) /\ Stacked(MapPages(t, P), e, d) /\ Counted(MapPages(t, P))
           /\ Len(MapPages(t, P).kernel) <= Len(t.kernel) + c
           /\ Len(MapPages(t, P).kernel) >= Len(t.kernel)
           /\ MapPages(t, P).pt = Entered(t, P)
  <1> DEFINE k == t.kernel
             x == t.pt
             there == DOMAIN x
             all == there \cup TablesOf(P)
             new == all \ there
             w == Cardinality(new)
             v == Cardinality(NewDirectories(t, P))
             n == w + v
             T == Take(t, n)
             y == [i \in all |-> Enter(IF i \in there THEN x[i] ELSE <<>>, {p \in P : p \div PT = i})]
             m == MapPages(t, P)
  <1>0. k \in Seq(Nat) /\ Len(k) \in Nat
    BY DEF Stacked
  <1>1. IsFiniteSet(there) /\ Cardinality(there) <= Len(k) /\ Cardinality(there) \in Nat
    BY <1>0, FS_CardinalityType DEF Counted
  <1>2. IsFiniteSet(new) /\ w \in Nat /\ n \in Nat /\ w <= n /\ n <= c
    <2>1. new \in SUBSET TablesOf(P)
      OBVIOUS
    <2>2. IsFiniteSet(new) /\ w <= Cardinality(TablesOf(P))
      BY <2>1, FS_Subset
    <2>3. w \in Nat /\ Cardinality(TablesOf(P)) \in Nat /\ v \in Nat
      BY <2>2, FS_CardinalityType
    <2> HIDE DEF w, v, new
    <2> QED BY <2>2, <2>3 DEF v
  <1>3. IsFiniteSet(all) /\ Cardinality(all) = Cardinality(there) + w
    <2>1. there \cap new = {} /\ there \cup new = all
      OBVIOUS
    <2>2. IsFiniteSet(there \cup new)
          /\ Cardinality(there \cup new) = Cardinality(there) + w - Cardinality(there \cap new)
      <3> HIDE DEF new, there
      <3> QED BY <1>1, <1>2, FS_Union
    <2>3. Cardinality(there \cap new) = 0
      BY <2>1, FS_EmptySet
    <2>4. IsFiniteSet(all) /\ Cardinality(all) = Cardinality(there) + w - 0
      BY <2>1, <2>2, <2>3
    <2> HIDE DEF new, there, w, all
    <2> QED BY <1>1, <1>2, <2>4
  <1>4. PHYSFREE + Len(k) + n < e /\ PHYSFREE + Len(k) + n < BITS
    <2>1. PHYSFREE \in Nat /\ BITS \in Nat
      BY Constants
    <2> HIDE DEF n
    <2>2. n \in Nat /\ n <= c
      BY <1>2
    <2>3. Len(k) \in Nat /\ PHYSFREE + Len(k) + c < e /\ PHYSFREE + Len(k) + c < BITS
      BY <1>0
    <2> HIDE DEF k
    <2> QED BY <2>1, <2>2, <2>3
  <1>5. /\ IsTables(T) /\ Stacked(T, e, d) /\ Len(T.kernel) = Len(k) + n
    <2> HIDE DEF n
    <2> QED BY <1>2, <1>4, TakeStacks
  <1>6. m = [T EXCEPT !.pt = y]
    <2>1. Directories(all) \ Directories(there) = NewDirectories(t, P)
      BY DEF Directories, NewDirectories
    <2>2. m = [Take(t, w + Cardinality(Directories(all) \ Directories(there))) EXCEPT !.pt = y]
      BY DEF MapPages, TablesOf
    <2> HIDE DEF y, w, all, there
    <2> QED BY <2>1, <2>2
  <1> HIDE DEF m, T, y
  <1>7. /\ m.free = T.free /\ m.dirty = T.dirty /\ m.kernel = T.kernel /\ m.pt = y
        /\ IsTables(m)
    BY <1>5, <1>6 DEF IsTables
  <1>8. Stacked(m, e, d)
    BY <1>5, <1>7 DEF Stacked
  <1>9. DOMAIN y = all
    BY DEF y
  <1> HIDE DEF n, w, all, there, x, k
  <1>10. Counted(m)
    BY <1>0, <1>1, <1>2, <1>3, <1>5, <1>7, <1>9 DEF Counted
  <1>11. Len(m.kernel) <= Len(k) + c /\ Len(m.kernel) >= Len(k)
    BY <1>0, <1>2, <1>5, <1>7
  <1> QED BY <1>7, <1>8, <1>10, <1>11 DEF m, y, all, there, x, k, Entered

\* There are at most three tables for three pages.
LEMMA ThreeTables ==
    ASSUME NEW a, NEW b, NEW c
    PROVE  IsFiniteSet(TablesOf({a, b, c})) /\ Cardinality(TablesOf({a, b, c})) <= 3
  <1> DEFINE g == [i \in 1..3 |-> CASE i = 1 -> a \div PT [] i = 2 -> b \div PT [] OTHER -> c \div PT]
             T == TablesOf({a, b, c})
  <1>1. T = {a \div PT, b \div PT, c \div PT}
    BY DEF TablesOf
  <1>2. g[1] = a \div PT /\ g[2] = b \div PT /\ g[3] = c \div PT
    OBVIOUS
  <1>3. \A i \in 1..3 : i = 1 \/ i = 2 \/ i = 3
    OBVIOUS
  <1>4. g \in [1..3 -> T] /\ \A y \in T : \E i \in 1..3 : g[i] = y
    <2>1. \A i \in 1..3 : g[i] \in T
      BY <1>1, <1>2, <1>3
    <2>2. g = [i \in 1..3 |-> g[i]]
      OBVIOUS
    <2> HIDE DEF g, T
    <2>3. 1 \in 1..3 /\ 2 \in 1..3 /\ 3 \in 1..3
      OBVIOUS
    <2> QED BY <1>1, <1>2, <2>1, <2>2, <2>3
  <1> HIDE DEF g, T
  <1>5. g \in Surjection(1..3, T)
    BY <1>4 DEF Surjection
  <1>6. IsFiniteSet(1..3) /\ Cardinality(1..3) = 3
    <2>1. \A j \in Nat : IsFiniteSet(1..j) /\ Cardinality(1..j) = j
      <3> TAKE j \in Nat
      <3> QED BY FS_Interval
    <2> QED BY <2>1
  <1> QED BY <1>5, <1>6, FS_Surjection DEF T

\* The first pd, which is there, is the one for all tables of pages below 1 GB.
LEMMA LowDirectories ==
    ASSUME NEW t, 0 \in DOMAIN t.pt, NEW P, \A p \in P : p \in Nat /\ p < PT * PT
    PROVE  NewDirectories(t, P) = {} /\ IsFiniteSet({}) /\ Cardinality({}) = 0
  <1>1. ASSUME NEW p \in P PROVE (p \div PT) \div PT = 0
    <2> DEFINE q == p \div PT
    <2>1. p \in Nat /\ p < PT * PT /\ PT \in Nat \ {0}
      BY Constants
    <2>2. q \in Nat /\ PT * q <= p
      BY <2>1
    <2> HIDE DEF q
    <2>3. q < PT
      <3>1. q >= PT => PT * (q - PT) >= 0
        BY <2>1, <2>2
      <3>2. PT * (q - PT) = PT * q - PT * PT
        BY <2>1, <2>2
      <3>3. PT * (q - PT) < 0
        BY <2>1, <2>2, <3>2
      <3> QED BY <2>1, <2>2, <3>1, <3>3
    <2>4. q = PT * 0 + q /\ q \in 0..(PT - 1)
      BY <2>1, <2>2, <2>3
    <2>5. q \div PT = 0
      BY <2>1, <2>2, <2>4, DivUnique
    <2> QED BY <2>5 DEF q
  <1>2. Directories(TablesOf(P)) \subseteq {0}
    BY <1>1 DEF Directories, TablesOf
  <1>3. 0 \div PT = 0
    <2>1. 0 = PT * 0 + 0 /\ 0 \in 0..(PT - 1) /\ PT \in Nat \ {0}
      BY Constants
    <2> QED BY <2>1, DivUnique
  <1>4. 0 \in Directories(DOMAIN t.pt)
    BY <1>3 DEF Directories
  <1> QED BY <1>2, <1>4, FS_EmptySet DEF NewDirectories

\* The tables of a machine with e pages.
LEMMA MachineTables ==
    ASSUME NEW e \in Nat, e > 0
    PROVE  /\ TablesOf(0..(e - 1)) = 0..((e - 1) \div PT)
           /\ IsFiniteSet(TablesOf(0..(e - 1)))
           /\ Cardinality(TablesOf(0..(e - 1))) = (e - 1) \div PT + 1
           /\ (e - 1) \div PT \in Nat
  <1> DEFINE z == (e - 1) \div PT
  <1>1. z \in Nat /\ PT * z <= e - 1
    BY Constants
  <1>2. \A p \in 0..(e - 1) : p \div PT \in 0..z
    BY Constants
  <1>3. ASSUME NEW q \in 0..z PROVE PT * q \in 0..(e - 1) /\ (PT * q) \div PT = q
    <2>1. PT * q \in Nat /\ PT * q <= PT * z
      BY <1>1, Constants
    <2>2. PT * q <= e - 1
      BY <1>1, <2>1, Constants
    <2>3. (PT * q) \div PT = q
      BY <2>1, DivUnique, Constants
    <2> QED BY <2>1, <2>2, <2>3
  <1> HIDE DEF z
  <1>4. TablesOf(0..(e - 1)) = 0..z
    BY <1>2, <1>3 DEF TablesOf
  <1>5. IsFiniteSet(0..z) /\ Cardinality(0..z) = z + 1
    BY <1>1, FS_Interval
  <1> QED BY <1>1, <1>4, <1>5 DEF z

\* The pds that a machine with e pages needs besides the first one.
LEMMA MachineDirectories ==
    ASSUME NEW t, 0 \in DOMAIN t.pt, NEW e \in Nat, e > 0, NEW x \in Nat, x = (e - 1) \div PT
    PROVE  /\ IsFiniteSet(NewDirectories(t, 0..(e - 1)))
           /\ Cardinality(NewDirectories(t, 0..(e - 1))) <= x \div PT
           /\ x \div PT \in Nat
  <1>1. TablesOf(0..(e - 1)) = 0..x
    BY MachineTables
  <1>2. x + 1 \in Nat /\ x + 1 > 0 /\ (x + 1) - 1 = x
    OBVIOUS
  <1>3. TablesOf(0..x) = 0..(x \div PT) /\ x \div PT \in Nat
    BY <1>2, MachineTables
  <1>4. Directories(0..x) = 0..(x \div PT)
    BY <1>3 DEF Directories, TablesOf
  <1>5. 0 \in Directories(DOMAIN t.pt)
    <2>1. 0 = PT * 0 + 0 /\ 0 \in 0..(PT - 1) /\ PT \in Nat \ {0}
      BY Constants
    <2>2. 0 \div PT = 0
      BY <2>1, DivUnique
    <2> QED BY <2>2 DEF Directories
  <1>6. NewDirectories(t, 0..(e - 1)) \in SUBSET (1..(x \div PT))
    BY <1>1, <1>3, <1>4, <1>5 DEF NewDirectories
  <1>7. IsFiniteSet(1..(x \div PT)) /\ Cardinality(1..(x \div PT)) = x \div PT
    BY <1>3, FS_Interval
  <1> QED BY <1>3, <1>6, <1>7, FS_Subset

\* A number is its quotient and its remainder.
LEMMA DivMod ==
    ASSUME NEW a \in Int, NEW b \in Nat \ {0}
    PROVE  a = b * (a \div b) + (a % b)
  OBVIOUS

\* Once set_identity_paging has entered page p it stays where it belongs.
LEMMA EnterIs ==
    ASSUME NEW e \in Nat, NEW p \in 0..(e - 1), NEW table
    PROVE  LET t == Enter(table, {q \in 0..(e - 1) : q \div PT = p \div PT})
           IN  p % PT \in DOMAIN t /\ t[p % PT] = p
  <1> DEFINE Q == {q \in 0..(e - 1) : q \div PT = p \div PT}
             f == [j \in {q % PT : q \in Q} |-> Max({q \in Q : q % PT = j})]
             t == Over(f, table)
  <1>1. p \in Q
    OBVIOUS
  <1>2. ASSUME NEW q \in Q, q % PT = p % PT PROVE q = p
    <2>0. p \in Int /\ q \in Int /\ q \div PT = p \div PT /\ PT \in Nat \ {0}
      BY Constants
    <2> HIDE DEF Q
    <2>1. q = PT * (q \div PT) + (q % PT)
      BY <2>0, DivMod
    <2>2. p = PT * (p \div PT) + (p % PT)
      BY <2>0, DivMod
    <2> QED BY <1>2, <2>0, <2>1, <2>2
  <1>3. {q \in Q : q % PT = p % PT} = {p}
    BY <1>1, <1>2
  <1>4. Max({p}) = p
    <2>1. p \in {p} /\ \A y \in {p} : p >= y
      OBVIOUS
    <2>2. Max({p}) \in {p}
      BY <2>1 DEF Max
    <2> QED BY <2>2
  <1>5. p % PT \in DOMAIN f /\ f[p % PT] = p
    BY <1>1, <1>3, <1>4
  <1>6. Enter(table, Q) = t
    BY DEF Enter
  <1> HIDE DEF f
  <1>7. p % PT \in DOMAIN t /\ t[p % PT] = p
    BY <1>5 DEF Over
  <1> QED BY <1>6, <1>7

-----------------------------------------------------------------------------
(* The start of the kernel.                                                *)

\* The last page that init_paging writes bits to.
LastBit == PHYSFREE + (End - 1) \div BPP

\* start has found a part of the memory that has room for the tables.
Sized == region.base \in Nat /\ region.length \in Nat /\ Room(End)

Nothing == free = {} /\ dirty = {} /\ pt = <<>> /\ kernel = <<>>

\* What holds at each stage: until CR3 is loaded the kernel's tables are the pages
\* behind free_map, bits are left only in the pages behind the tables, and there
\* are not more tables than pages that were taken.
StageInv ==
    \/ stage = "smap" /\ Nothing
    \/ stage = "paging" /\ Nothing /\ Sized
    \/ stage = "tables" /\ Sized /\ Stacked(Tables, End, LastBit) /\ kernel = <<>>
    \/ stage = "identity" /\ Sized /\ Stacked(Tables, End, LastBit) /\ Counted(Tables)
                          /\ Len(kernel) <= 9 /\ 0 \in DOMAIN pt
    \/ stage = "up" /\ IdentityComplete /\ BitsCleared

BootInv ==
    /\ smap \in Smaps
    /\ kernel \in Seq(Nat) /\ \A i \in 1..Len(kernel) : kernel[i] = PHYSFREE + i
    /\ free \in SUBSET Nat /\ \A p \in free : p > PHYSFREE + Len(kernel)
    /\ StageInv

\* No tables yet.
LEMMA EmptyTable == <<>> \in Seq(Nat) /\ Len(<<>>) = 0
  OBVIOUS

\* What the room on a machine means for its tables and for the bits in free_map.
LEMMA RoomIs ==
    ASSUME Sized
    PROVE  /\ End \in Nat /\ End > 0 /\ LastBit \in Int
           /\ (End - 1) \div PT \in Nat /\ (End - 1) \div BPP \in Nat
           /\ (End - 1) \div BPP <= (End - 1) \div PT
           /\ ((End - 1) \div PT) \div PT \in Nat
           /\ PHYSFREE + 9 + ((End - 1) \div PT + 1) + ((End - 1) \div PT) \div PT < End
           /\ PHYSFREE + 9 + ((End - 1) \div PT + 1) + ((End - 1) \div PT) \div PT < BITS
  <1> DEFINE e == End
             x == (e - 1) \div PT
             z == x \div PT
             y == (e - 1) \div BPP
  <1>1. e \in Nat
    BY DEF Sized, End
  <1>2. PHYSFREE + 9 + (x + 1) + z < e /\ PHYSFREE + 9 + (x + 1) + z < BITS
    BY DEF Sized, Room
  <1>3. e > 0
    <2>1. CASE e = 0
      <3>1. x \in Int /\ PT * x <= -1 /\ -1 < PT * x + PT
        BY <2>1, Constants
      <3>2. x = -1
        BY <3>1, Constants
      <3>3. -1 = PT * (-1) + (PT - 1) /\ PT - 1 \in 0..(PT - 1) /\ PT \in Nat \ {0}
        BY Constants
      <3>4. z = -1
        BY <3>2, <3>3, DivUnique
      <3> HIDE DEF x, z
      <3> QED BY <1>2, <2>1, <3>2, <3>4, Constants
    <2> QED BY <1>1, <2>1
  <1>4. x \in Nat /\ y \in Nat
    BY <1>1, <1>3, Constants
  <1>z. z \in Nat
    <2> HIDE DEF x
    <2> QED BY <1>4, Constants
  <1>5. BPP * y <= e - 1 /\ e - 1 < PT * x + PT
    BY <1>1, <1>3, Constants
  <1>6. y <= x
    <2> HIDE DEF x, y, e
    <2>1. PT * y <= BPP * y
      BY <1>4, Constants
    <2>2. PT * y < PT * (x + 1)
      BY <1>1, <1>4, <1>5, <2>1, Constants
    <2>3. ~(y >= x + 1)
      <3> SUFFICES ASSUME y >= x + 1 PROVE FALSE
        OBVIOUS
      <3>1. PT * (y - (x + 1)) >= 0
        BY <1>4, Constants
      <3> QED BY <1>4, <2>2, <3>1, Constants
    <2> QED BY <1>4, <2>3
  <1>7. LastBit \in Int
    BY <1>4, Constants DEF LastBit
  <1> QED BY <1>1, <1>2, <1>3, <1>4, <1>6, <1>7, <1>z

\* Before start has looked at the memory map nothing is free.
LEMMA BootInitInv == BootInit => BootInv
  BY DEF BootInit, BootInv, StageInv, Nothing

\* start chooses a part of the memory that has room for the tables.
LEMMA ScanSmapInv == BootInv /\ ScanSmap => BootInv'
  <1> SUFFICES ASSUME BootInv, ScanSmap PROVE BootInv'
    OBVIOUS
  <1>1. stage = "smap" /\ Nothing /\ smap \in Smaps
    BY DEF BootInv, StageInv, ScanSmap
  <1>2. /\ smap[Largest].base \in Nat /\ smap[Largest].length \in Nat
        /\ Room(smap[Largest].base + smap[Largest].length)
    BY <1>1, LargestIs
  <1>3. region' = [base |-> smap[Largest].base, length |-> smap[Largest].length]
    BY DEF ScanSmap
  <1>4. region'.base = smap[Largest].base /\ region'.length = smap[Largest].length
    BY <1>3
  <1>5. Sized'
    BY <1>2, <1>4 DEF Sized, End
  <1>6. Nothing' /\ stage' = "paging" /\ smap' = smap
    BY <1>1 DEF ScanSmap, Nothing
  <1>7. StageInv'
    BY <1>5, <1>6 DEF StageInv
  <1>8. kernel' = <<>> /\ free' = {}
    BY <1>6 DEF Nothing
  <1> QED BY <1>1, <1>6, <1>7, <1>8, EmptyTable DEF BootInv

\* init_paging marks the pages behind free_map as free, and what it writes behind
\* free_map lies below the page that the last of the tables gets.
LEMMA InitPagingInv == BootInv /\ InitPaging => BootInv'
  <1> SUFFICES ASSUME BootInv, InitPaging PROVE BootInv'
    OBVIOUS
  <1>1. stage = "paging" /\ Nothing /\ Sized /\ smap \in Smaps
    BY DEF BootInv, StageInv, InitPaging
  <1>2. /\ free' = (PHYSFREE + 1)..(End - 1) /\ dirty' = {PHYSFREE + p \div BPP : p \in free'} \ {PHYSFREE}
        /\ stage' = "tables" /\ smap' = smap /\ region' = region /\ pt' = pt /\ kernel' = kernel
    BY DEF InitPaging, FirstFree
  <1>3. kernel' = <<>>
    BY <1>1, <1>2 DEF Nothing
  <1>4. Sized' /\ End' = End /\ LastBit' = LastBit
    BY <1>1, <1>2 DEF Sized, End, LastBit
  <1>5. End \in Nat /\ End > 0
    BY <1>1, RoomIs
  <1>6. dirty' \subseteq (PHYSFREE + 1)..LastBit
    <2> SUFFICES ASSUME NEW q \in dirty' PROVE q \in (PHYSFREE + 1)..LastBit
      OBVIOUS
    <2>0. PICK p \in free' : q = PHYSFREE + p \div BPP
      BY <1>2
    <2>1. p \in Nat /\ p <= End - 1
      BY <1>2, <1>5, Constants
    <2>2. p \div BPP \in Nat /\ p \div BPP <= (End - 1) \div BPP /\ (End - 1) \div BPP \in Nat
      BY <1>5, <2>1, Constants
    <2>3. q # PHYSFREE
      BY <1>2
    <2> QED BY <2>0, <2>2, <2>3, Constants DEF LastBit
  <1>7. Stacked(Tables, End, LastBit)'
    <2>1. Tables'.kernel = <<>> /\ Tables'.free = free' /\ Tables'.dirty = dirty'
      BY <1>3 DEF Tables
    <2>2. Len(Tables'.kernel) = 0 /\ Tables'.kernel \in Seq(Nat)
      BY <2>1, EmptyTable
    <2>3. PHYSFREE + 0 + 1 = PHYSFREE + 1
      BY Constants
    <2> QED BY <1>2, <1>4, <1>6, <2>1, <2>2, <2>3 DEF Stacked
  <1>8. StageInv'
    BY <1>2, <1>3, <1>4, <1>7 DEF StageInv
  <1>9. free' \in SUBSET Nat /\ \A p \in free' : p > PHYSFREE + 0
    BY <1>2, <1>5, Constants
  <1> QED BY <1>1, <1>2, <1>3, <1>8, <1>9, EmptyTable DEF BootInv

\* What Stacked says of the variables.
LEMMA StackedBoot ==
    ASSUME NEW e \in Nat, NEW d \in Int, NEW t, Stacked(t, e, d)
    PROVE  /\ t.kernel \in Seq(Nat) /\ \A i \in 1..Len(t.kernel) : t.kernel[i] = PHYSFREE + i
           /\ t.free \in SUBSET Nat /\ \A p \in t.free : p > PHYSFREE + Len(t.kernel)
  <1>1. t.kernel \in Seq(Nat) /\ Len(t.kernel) \in Nat
    BY DEF Stacked
  <1> DEFINE b == PHYSFREE + Len(t.kernel) + 1
  <1>2. t.free = b..(e - 1) /\ b \in Nat
    BY <1>1, Constants DEF Stacked
  <1>3. \A p \in b..(e - 1) : p \in Nat /\ p > PHYSFREE + Len(t.kernel)
    BY <1>1, Constants
  <1> HIDE DEF b
  <1> QED BY <1>1, <1>2, <1>3 DEF Stacked

\* setup_page_tables takes five pages and at most four more.
LEMMA SetupPageTablesInv == BootInv /\ SetupPageTables => BootInv'
  <1> SUFFICES ASSUME BootInv, SetupPageTables PROVE BootInv'
    OBVIOUS
  <1> DEFINE e == End
             d == LastBit
             T == Take(Tables, 5)
             t == SetupTables(Tables)
             Q == {t.kernel[1], t.kernel[2], t.kernel[3]}
             u == MapPages(t, Q)
             own == IF t.kernel[3] \div PT = PHYSBASE \div PT THEN u.kernel[4] ELSE Last(u.kernel)
             P == {own}
             m == MapPages(u, P)
  <1>1. stage = "tables" /\ Sized /\ Stacked(Tables, e, d) /\ kernel = <<>> /\ smap \in Smaps
    BY DEF BootInv, StageInv, SetupPageTables
  <1>2. /\ e \in Nat /\ d \in Int /\ PHYSFREE + 9 < e /\ PHYSFREE + 9 < BITS
    <2>1. PICK x \in Nat, z \in Nat : x = (e - 1) \div PT /\ z = x \div PT
      BY <1>1, RoomIs
    <2>2. /\ e \in Nat /\ d \in Int
          /\ PHYSFREE + 9 + (x + 1) + z < e /\ PHYSFREE + 9 + (x + 1) + z < BITS
      BY <1>1, <2>1, RoomIs
    <2> HIDE DEF e
    <2> QED BY <2>2, Constants
  <1> HIDE DEF e, d
  <1>3. IsTables(Tables) /\ Tables.kernel = <<>> /\ Len(Tables.kernel) = 0
    BY <1>1 DEF Tables, IsTables
  <1>4. IsTables(T) /\ Stacked(T, e, d) /\ Len(T.kernel) = 5
    <2>1. PHYSFREE + Len(Tables.kernel) + 5 < e /\ PHYSFREE + Len(Tables.kernel) + 5 < BITS
      BY <1>2, <1>3, Constants
    <2>2. IsTables(T) /\ Stacked(T, e, d) /\ Len(T.kernel) = Len(Tables.kernel) + 5
      BY <1>1, <1>2, <1>3, <2>1, TakeStacks
    <2> QED BY <1>3, <2>2
  <1> HIDE DEF T
  <1>5. /\ t.free = T.free /\ t.dirty = T.dirty /\ t.kernel = T.kernel /\ IsTables(t)
        /\ DOMAIN t.pt = {PHYSBASE \div PT, 0}
    <2> DEFINE y == [i \in {PHYSBASE \div PT, 0} |-> Enter(<<>>, IF i = 0 THEN {VIDEO} ELSE PHYSBASE..PHYSFREE)]
    <2>1. t = [T EXCEPT !.pt = y]
      BY DEF SetupTables, T
    <2>2. DOMAIN y = {PHYSBASE \div PT, 0}
      OBVIOUS
    <2> HIDE DEF y, t
    <2> QED BY <1>4, <2>1, <2>2 DEF IsTables
  <1> HIDE DEF t
  <1>6. Stacked(t, e, d) /\ Len(t.kernel) = 5
    BY <1>4, <1>5 DEF Stacked
  <1>7. Counted(t)
    <2> DEFINE z == PHYSBASE \div PT
    <2>1. IsFiniteSet({z}) /\ Cardinality({z}) = 1
      BY FS_Singleton
    <2>2. IsFiniteSet({z} \cup {0}) /\ Cardinality({z} \cup {0}) = IF 0 \in {z} THEN 1 ELSE 1 + 1
      BY <2>1, FS_AddElement
    <2>3. {z} \cup {0} = {z, 0}
      OBVIOUS
    <2> HIDE DEF z
    <2>4. IsFiniteSet({z, 0}) /\ Cardinality({z, 0}) <= 5
      BY <2>2, <2>3
    <2> QED BY <1>5, <1>6, <2>4 DEF Counted, z
  <1>8. t.kernel \in Seq(Nat) /\ \A i \in 1..5 : t.kernel[i] = PHYSFREE + i
    BY <1>6 DEF Stacked
  <1>9. /\ IsTables(u) /\ Stacked(u, e, d) /\ Counted(u) /\ Len(u.kernel) <= 8
        /\ Len(u.kernel) \in Nat /\ Len(u.kernel) >= 5 /\ 0 \in DOMAIN u.pt
    <2>1. IsFiniteSet(TablesOf(Q)) /\ Cardinality(TablesOf(Q)) <= 3
      BY ThreeTables
    <2>2. \A p \in Q : p \in Nat /\ p < PT * PT
      <3>1. 1 \in 1..5 /\ 2 \in 1..5 /\ 3 \in 1..5
        OBVIOUS
      <3>2. \A p \in Q : p = PHYSFREE + 1 \/ p = PHYSFREE + 2 \/ p = PHYSFREE + 3
        BY <1>8, <3>1
      <3> QED BY <3>2, Constants
    <2>3. IsFiniteSet(NewDirectories(t, Q)) /\ Cardinality(NewDirectories(t, Q)) <= 0
      <3>1. NewDirectories(t, Q) = {} /\ IsFiniteSet({}) /\ Cardinality({}) = 0
        <4> HIDE DEF Q
        <4> QED BY <1>5, <2>2, LowDirectories
      <3> HIDE DEF Q
      <3> QED BY <3>1
    <2>4. PHYSFREE + Len(t.kernel) + 3 < e /\ PHYSFREE + Len(t.kernel) + 3 < BITS
      BY <1>2, <1>6, Constants
    <2> HIDE DEF Q
    <2>5. 3 \in Nat /\ 0 \in Nat /\ 3 = 3 + 0
      OBVIOUS
    <2>6. /\ IsTables(u) /\ Stacked(u, e, d) /\ Counted(u) /\ Len(u.kernel) <= Len(t.kernel) + 3
          /\ Len(u.kernel) >= Len(t.kernel) /\ u.pt = Entered(t, Q)
      BY <1>2, <1>5, <1>6, <1>7, <2>1, <2>3, <2>4, <2>5, MapPagesStacks
    <2>7. 0 \in DOMAIN u.pt
      BY <1>5, <2>6 DEF Entered
    <2>8. Len(u.kernel) \in Nat /\ Len(u.kernel) >= 5
      BY <1>6, <2>6 DEF Stacked
    <2> QED BY <1>6, <2>6, <2>7, <2>8
  <1> HIDE DEF Q, u
  <1>10. /\ IsTables(m) /\ Stacked(m, e, d) /\ Counted(m) /\ Len(m.kernel) <= 9 /\ 0 \in DOMAIN m.pt
    <2>1. own \in Nat /\ own < PT * PT
      <3>1. u.kernel \in Seq(Nat) /\ \A i \in 1..Len(u.kernel) : u.kernel[i] = PHYSFREE + i
        BY <1>9 DEF Stacked
      <3>2. 4 \in 1..Len(u.kernel) /\ Len(u.kernel) \in 1..Len(u.kernel)
        BY <1>9
      <3>3. Last(u.kernel) = u.kernel[Len(u.kernel)]
        BY DEF Last
      <3>4. own \in {u.kernel[4], u.kernel[Len(u.kernel)]}
        BY <3>3
      <3>5. PICK i \in 1..Len(u.kernel) : own = u.kernel[i]
        BY <3>2, <3>4
      <3> HIDE DEF own
      <3>6. own = PHYSFREE + i
        BY <3>1, <3>5
      <3> QED BY <1>9, <3>6, Constants
    <2> HIDE DEF own
    <2>2. IsFiniteSet(TablesOf(P)) /\ Cardinality(TablesOf(P)) <= 1
      <3>1. TablesOf(P) = {own \div PT}
        BY DEF TablesOf
      <3> DEFINE i == own \div PT
      <3> HIDE DEF i
      <3>2. IsFiniteSet({i}) /\ Cardinality({i}) = 1
        BY FS_Singleton
      <3>3. TablesOf(P) = {i}
        BY <3>1 DEF i
      <3> HIDE DEF P
      <3> QED BY <3>2, <3>3
    <2>3. IsFiniteSet(NewDirectories(u, P)) /\ Cardinality(NewDirectories(u, P)) <= 0
      <3>0. \A p \in P : p \in Nat /\ p < PT * PT
        BY <2>1
      <3>1. NewDirectories(u, P) = {} /\ IsFiniteSet({}) /\ Cardinality({}) = 0
        <4> HIDE DEF P
        <4> QED BY <1>9, <3>0, LowDirectories
      <3> HIDE DEF P
      <3> QED BY <3>1
    <2>4. PHYSFREE + Len(u.kernel) + 1 < e /\ PHYSFREE + Len(u.kernel) + 1 < BITS
      BY <1>2, <1>9, Constants
    <2> HIDE DEF P
    <2>5. 1 \in Nat /\ 0 \in Nat /\ 1 = 1 + 0
      OBVIOUS
    <2>6. /\ IsTables(m) /\ Stacked(m, e, d) /\ Counted(m) /\ Len(m.kernel) <= Len(u.kernel) + 1
          /\ m.pt = Entered(u, P)
      BY <1>2, <1>9, <2>2, <2>3, <2>4, <2>5, MapPagesStacks
    <2>7. 0 \in DOMAIN m.pt
      BY <1>9, <2>6 DEF Entered
    <2>8. Len(m.kernel) \in Nat
      BY <2>6 DEF Stacked
    <2> QED BY <1>9, <2>6, <2>7, <2>8
  <1> HIDE DEF P, own
  <1>11. /\ free' = m.free /\ dirty' = m.dirty /\ pt' = m.pt /\ kernel' = m.kernel
         /\ stage' = "identity" /\ smap' = smap /\ region' = region
    BY DEF SetupPageTables, Become, P, own, u, Q, t
  <1> HIDE DEF m
  <1>12. Tables' = m
    BY <1>10, <1>11 DEF Tables, IsTables
  <1>13. End' = e /\ LastBit' = d /\ Sized'
    BY <1>1, <1>11 DEF Sized, End, LastBit, e, d
  <1>14. Stacked(Tables, End, LastBit)' /\ Counted(Tables)' /\ 0 \in DOMAIN pt'
    BY <1>10, <1>11, <1>12, <1>13 DEF Stacked, Counted
  <1>15. Len(kernel') <= 9
    BY <1>10, <1>11
  <1>16. StageInv'
    BY <1>11, <1>13, <1>14, <1>15 DEF StageInv
  <1>17. /\ m.kernel \in Seq(Nat) /\ \A i \in 1..Len(m.kernel) : m.kernel[i] = PHYSFREE + i
         /\ m.free \in SUBSET Nat /\ \A p \in m.free : p > PHYSFREE + Len(m.kernel)
    BY <1>2, <1>10, StackedBoot
  <1> QED BY <1>1, <1>11, <1>16, <1>17 DEF BootInv

\* set_identity_paging takes a page for every table that is missing, all pages that
\* bits were written to among them, and enters every page of the machine.
LEMMA SetIdentityPagingInv == BootInv /\ SetIdentityPaging => BootInv'
  <1> SUFFICES ASSUME BootInv, SetIdentityPaging PROVE BootInv'
    OBVIOUS
  <1> DEFINE e == End
             d == LastBit
             P == 0..(e - 1)
             x == (e - 1) \div PT
             z == x \div PT
             m == MapPages(Tables, P)
  <1>1. /\ stage = "identity" /\ Sized /\ Stacked(Tables, e, d) /\ Counted(Tables)
        /\ Len(kernel) <= 9 /\ smap \in Smaps /\ 0 \in DOMAIN pt
    BY DEF BootInv, StageInv, SetIdentityPaging
  <1>2. /\ e \in Nat /\ e > 0 /\ d \in Int /\ x \in Nat /\ z \in Nat
        /\ (e - 1) \div BPP \in Nat /\ (e - 1) \div BPP <= x
        /\ PHYSFREE + 9 + (x + 1) + z < e /\ PHYSFREE + 9 + (x + 1) + z < BITS
    BY <1>1, RoomIs
  <1>3. /\ free' = m.free /\ dirty' = m.dirty /\ pt' = m.pt /\ kernel' = m.kernel
        /\ stage' = "up" /\ smap' = smap /\ region' = region
    BY DEF SetIdentityPaging, Become, IdentityEnd
  <1>4. IsTables(Tables) /\ Tables.kernel = kernel /\ Len(kernel) \in Nat
    BY <1>1 DEF Tables, IsTables, BootInv
  <1>5. End' = e
    BY <1>3 DEF End
  <1>d. d = PHYSFREE + (e - 1) \div BPP
    BY DEF LastBit
  <1> HIDE DEF e, d
  <1>6. IsFiniteSet(TablesOf(P)) /\ Cardinality(TablesOf(P)) = x + 1 /\ TablesOf(P) = 0..x
    BY <1>2, MachineTables
  <1>p. IsFiniteSet(NewDirectories(Tables, P)) /\ Cardinality(NewDirectories(Tables, P)) <= z
    <2>1. 0 \in DOMAIN Tables.pt
      BY <1>1 DEF Tables
    <2> QED BY <1>2, <2>1, MachineDirectories
  <1> HIDE DEF x, z
  <1>7. /\ PHYSFREE + Len(Tables.kernel) + ((x + 1) + z) < e
        /\ PHYSFREE + Len(Tables.kernel) + ((x + 1) + z) < BITS
    BY <1>1, <1>2, <1>4, Constants
  <1>8. IsTables(m) /\ Stacked(m, e, d) /\ Counted(m) /\ m.pt = Entered(Tables, P)
    <2> DEFINE a == x + 1
               c == (x + 1) + z
    <2>1. /\ a \in Nat /\ c \in Nat /\ Cardinality(TablesOf(P)) <= a /\ c = a + z
          /\ PHYSFREE + Len(Tables.kernel) + c < e /\ PHYSFREE + Len(Tables.kernel) + c < BITS
      BY <1>2, <1>6, <1>7
    <2> HIDE DEF P, a, c
    <2> QED BY <1>1, <1>2, <1>4, <1>6, <1>p, <2>1, MapPagesStacks
  <1> HIDE DEF m
  <1>9. dirty' = {}
    <2>1. TablesOf(P) \in SUBSET DOMAIN m.pt
      <3> HIDE DEF P
      <3> QED BY <1>8 DEF Entered
    <2>2. Cardinality(TablesOf(P)) <= Cardinality(DOMAIN m.pt) /\ Cardinality(DOMAIN m.pt) \in Nat
      BY <1>8, <2>1, FS_Subset, FS_CardinalityType DEF Counted
    <2>3. Len(m.kernel) >= x + 1 /\ Len(m.kernel) \in Nat
      <3>1. Len(m.kernel) \in Nat /\ Cardinality(DOMAIN m.pt) <= Len(m.kernel)
        BY <1>8 DEF Stacked, Counted
      <3> QED BY <1>2, <1>6, <2>2, <3>1
    <2>4. m.dirty \subseteq (PHYSFREE + Len(m.kernel) + 1)..d
      BY <1>8 DEF Stacked
    <2>5. d < PHYSFREE + Len(m.kernel) + 1
      BY <1>2, <1>d, <2>3, Constants
    <2>6. (PHYSFREE + Len(m.kernel) + 1)..d = {}
      BY <1>2, <2>3, <2>5, Constants
    <2> QED BY <1>3, <2>4, <2>6
  <1>10. IdentityComplete'
    <2> SUFFICES ASSUME NEW p \in 0..(e - 1)
                 PROVE  /\ p \div PT \in DOMAIN m.pt
                        /\ p % PT \in DOMAIN m.pt[p \div PT]
                        /\ m.pt[p \div PT][p % PT] = p
      BY <1>3, <1>5 DEF IdentityComplete
    <2> DEFINE i == p \div PT
               table == IF i \in DOMAIN Tables.pt THEN Tables.pt[i] ELSE <<>>
    <2>1. i \in TablesOf(P)
      BY DEF TablesOf
    <2>2. i \in DOMAIN m.pt /\ m.pt[i] = Enter(table, {q \in P : q \div PT = i})
      <3> HIDE DEF P
      <3> QED BY <1>8, <2>1 DEF Entered
    <2>3. LET t == Enter(table, {q \in 0..(e - 1) : q \div PT = p \div PT})
          IN  p % PT \in DOMAIN t /\ t[p % PT] = p
      <3> HIDE DEF table
      <3> QED BY <1>2, EnterIs
    <2> HIDE DEF table
    <2> QED BY <2>2, <2>3
  <1>11. StageInv'
    BY <1>3, <1>9, <1>10 DEF StageInv, BitsCleared
  <1>12. /\ m.kernel \in Seq(Nat) /\ \A i \in 1..Len(m.kernel) : m.kernel[i] = PHYSFREE + i
         /\ m.free \in SUBSET Nat /\ \A p \in m.free : p > PHYSFREE + Len(m.kernel)
    BY <1>2, <1>8, StackedBoot
  <1> QED BY <1>1, <1>3, <1>11, <1>12 DEF BootInv

\* The tables, the image and free_map lie apart, and no page of them is free.
LEMMA BootInvApart == BootInv => KernelPagesApart
  <1> SUFFICES ASSUME BootInv PROVE KernelPagesApart
    OBVIOUS
  <1> DEFINE L == Len(kernel)
  <1>1. /\ kernel \in Seq(Nat) /\ \A i \in 1..L : kernel[i] = PHYSFREE + i
        /\ free \in SUBSET Nat /\ \A p \in free : p > PHYSFREE + L
    BY DEF BootInv
  <1>2. L \in Nat /\ DOMAIN kernel = 1..L
    BY <1>1
  <1> HIDE DEF L
  <1>3. ToSet(kernel) = (PHYSFREE + 1)..(PHYSFREE + L)
    <2>1. ToSet(kernel) = {kernel[i] : i \in 1..L}
      BY <1>2 DEF ToSet
    <2>2. \A q \in (PHYSFREE + 1)..(PHYSFREE + L) : q - PHYSFREE \in 1..L /\ kernel[q - PHYSFREE] = q
      BY <1>1, <1>2, Constants
    <2>3. \A i \in 1..L : kernel[i] \in (PHYSFREE + 1)..(PHYSFREE + L)
      BY <1>1, <1>2, Constants
    <2> QED BY <2>1, <2>2, <2>3
  <1>4. Cardinality((PHYSFREE + 1)..(PHYSFREE + L)) = L
    <2>1. PHYSFREE + 1 \in Int /\ PHYSFREE + L \in Int
      BY <1>2, Constants
    <2>2. Cardinality((PHYSFREE + 1)..(PHYSFREE + L)) =
            IF PHYSFREE + 1 > PHYSFREE + L THEN 0 ELSE (PHYSFREE + L) - (PHYSFREE + 1) + 1
      BY <2>1, FS_Interval
    <2> QED BY <1>2, <2>2, Constants
  <1>5. ToSet(kernel) \cap (free \cup 0..PHYSFREE) = {} /\ free \cap 0..PHYSFREE = {}
    BY <1>1, <1>2, <1>3, Constants
  <1> QED BY <1>3, <1>4, <1>5 DEF KernelPagesApart, L


-----------------------------------------------------------------------------
(* Sequences of processes.                                                 *)

\* The last element of a sequence and the others.
LEMMA FrontIs ==
    ASSUME NEW S, NEW s \in Seq(S), s # <<>>
    PROVE  /\ Len(s) \in Nat /\ Len(s) >= 1 /\ Last(s) = s[Len(s)] /\ Last(s) \in S
           /\ Front(s) \in Seq(S) /\ Len(Front(s)) = Len(s) - 1
           /\ \A i \in 1..(Len(s) - 1) : Front(s)[i] = s[i]
           /\ ToSet(s) = ToSet(Front(s)) \cup {Last(s)}
  <1>1. Len(s) \in Nat /\ Len(s) >= 1 /\ Last(s) = s[Len(s)] /\ Last(s) \in S
    BY DEF Last
  <1>2. /\ Front(s) \in Seq(S) /\ Len(Front(s)) = Len(s) - 1
        /\ \A i \in 1..(Len(s) - 1) : Front(s)[i] = s[i]
    <2> DEFINE m == Len(s) - 1
    <2>1. 1 \in 1..(Len(s) + 1) /\ m \in 0..Len(s) /\ m \in Nat
      BY <1>1
    <2>2. /\ SubSeq(s, 1, m) \in Seq(S)
          /\ Len(SubSeq(s, 1, m)) = IF 1 <= m THEN m - 1 + 1 ELSE 0
          /\ \A i \in 1..(m - 1 + 1) : SubSeq(s, 1, m)[i] = s[1 + i - 1]
      BY <2>1, SubSeqProperties
    <2>3. Len(SubSeq(s, 1, m)) = m /\ \A i \in 1..m : SubSeq(s, 1, m)[i] = s[i]
      <3> HIDE DEF m
      <3> QED BY <2>1, <2>2
    <2> QED BY <2>2, <2>3 DEF Front
  <1>3. ToSet(s) = {s[i] : i \in 1..Len(s)}
    BY <1>1 DEF ToSet
  <1>4. ToSet(Front(s)) = {Front(s)[i] : i \in 1..(Len(s) - 1)}
    BY <1>1, <1>2 DEF ToSet
  <1>5. ToSet(Front(s)) = {s[i] : i \in 1..(Len(s) - 1)}
    BY <1>2, <1>4
  <1>6. \A i \in 1..Len(s) : i = Len(s) \/ i \in 1..(Len(s) - 1)
    BY <1>1
  <1>7. \A i \in 1..(Len(s) - 1) : i \in 1..Len(s)
    BY <1>1
  <1>8. Len(s) \in 1..Len(s)
    BY <1>1
  <1>9. ToSet(s) = {s[i] : i \in 1..(Len(s) - 1)} \cup {s[Len(s)]}
    BY <1>3, <1>6, <1>7, <1>8, Zenon
  <1> QED BY <1>1, <1>2, <1>5, <1>9

\* One element more.
LEMMA OneMoreIs ==
    ASSUME NEW S, NEW s \in Seq(S), NEW x \in S
    PROVE  /\ s \o <<x>> \in Seq(S) /\ Len(s \o <<x>>) = Len(s) + 1
           /\ \A i \in 1..Len(s) : (s \o <<x>>)[i] = s[i]
           /\ (s \o <<x>>)[Len(s) + 1] = x
           /\ ToSet(s \o <<x>>) = ToSet(s) \cup {x}
  <1> DEFINE t == s \o <<x>>
  <1>1. /\ t \in Seq(S) /\ Len(t) = Len(s) + 1 /\ \A i \in 1..Len(s) : t[i] = s[i]
        /\ t[Len(s) + 1] = x /\ Len(s) \in Nat
    OBVIOUS
  <1>2. ToSet(t) = {t[i] : i \in 1..(Len(s) + 1)}
    BY <1>1 DEF ToSet
  <1>3. ToSet(s) = {s[i] : i \in 1..Len(s)}
    BY DEF ToSet
  <1> HIDE DEF t
  <1>4. ToSet(t) = ToSet(s) \cup {x}
    <2>1. \A y \in ToSet(t) : y \in ToSet(s) \cup {x}
      <3> TAKE y \in ToSet(t)
      <3>1. PICK i \in 1..(Len(s) + 1) : y = t[i]
        BY <1>2
      <3>2. i = Len(s) + 1 \/ i \in 1..Len(s)
        BY <1>1
      <3> QED BY <1>1, <1>3, <3>1, <3>2
    <2>2. \A y \in ToSet(s) : y \in ToSet(t)
      <3> TAKE y \in ToSet(s)
      <3>1. PICK i \in 1..Len(s) : y = s[i]
        BY <1>3
      <3>2. i \in 1..(Len(s) + 1) /\ t[i] = y
        BY <1>1, <3>1
      <3> QED BY <1>2, <3>2
    <2>3. x \in ToSet(t)
      <3>1. Len(s) + 1 \in 1..(Len(s) + 1)
        BY <1>1
      <3> QED BY <1>1, <1>2, <3>1
    <2> QED BY <2>1, <2>2, <2>3
  <1> QED BY <1>1, <1>4 DEF t

\* The sequences of a sequence, one after the other.
LEMMA FlattenSeqType ==
    ASSUME NEW S, NEW s \in Seq(Seq(S))
    PROVE  FlattenSeq(s) \in Seq(S)
  <1> DEFINE n == Len(s)
             F == CHOOSE f : f = [i \in 1..n |-> IF i = 1 THEN s[i] ELSE f[i - 1] \o s[i]]
  <1>1. n \in Nat /\ \A i \in 1..n : s[i] \in Seq(S)
    OBVIOUS
  <1>2. CASE n = 0
    <2>1. s = <<>>
      BY <1>2
    <2>2. FlattenSeq(s) = <<>>
      BY <1>2, <2>1 DEF FlattenSeq
    <2>3. <<>> \in Seq(S)
      OBVIOUS
    <2> QED BY <2>2, <2>3
  <1>3. CASE n # 0
    <2>1. FlattenSeq(s) = F[n]
      BY <1>3 DEF FlattenSeq
    <2> DEFINE X == Seq(S)
               B == {1}
               u == s
               d == [m \in 1..n |-> m - 1]
               g == [x \in X \X (1..n) |-> x[1] \o s[x[2]]]
    <2>2. ASSUME NEW v \in X, NEW m \in 1..n PROVE g[<<v, m>>] = v \o s[m] /\ v \o s[m] \in X
      <3>1. s[m] \in X
        BY <1>1
      <3>2. v \o s[m] \in X
        BY <3>1
      <3>3. <<v, m>> \in X \X (1..n)
        OBVIOUS
      <3> HIDE DEF X
      <3>4. g[<<v, m>>] = v \o s[m]
        BY <3>3
      <3> QED BY <3>2, <3>4
    <2>3. /\ \A m \in 1..n : m \in B => u[m] \in X
          /\ \A m \in 1..n : m \notin B => d[m] \in 1..(m - 1) /\ d[m] = m - 1
      BY <1>1
    <2>4. PICK h \in [1..n -> X] : Follows(h, 1, n, B, u, d, g)
      <3> HIDE DEF B, u, d, g, X, n
      <3>1. /\ \A m \in 1..n : m \in B => u[m] \in X
            /\ \A m \in 1..n : m \notin B => d[m] \in 1..(m - 1)
            /\ \A m \in 1..n, v \in X : m \notin B => g[<<v, m>>] \in X
        BY <2>2, <2>3
      <3> QED BY <1>1, <3>1, RecursionExists
    <2> HIDE DEF g, X
    <2>5. \A m \in 1..n : h[m] = IF m = 1 THEN s[m] ELSE h[m - 1] \o s[m]
      <3> TAKE m \in 1..n
      <3>1. h[m] = IF m \in B THEN u[m] ELSE g[<<h[d[m]], m>>]
        BY <2>4 DEF Follows
      <3>2. CASE m = 1
        BY <3>1, <3>2
      <3>3. CASE m # 1
        <4>1. d[m] = m - 1 /\ m - 1 \in 1..n /\ m \notin B
          BY <1>1, <3>3
        <4>2. h[m - 1] \in X
          BY <2>4, <4>1
        <4> QED BY <2>2, <3>1, <3>3, <4>1, <4>2
      <3> QED BY <3>2, <3>3
    <2>6. h = [i \in 1..n |-> IF i = 1 THEN s[i] ELSE h[i - 1] \o s[i]]
      BY <2>4, <2>5
    <2>7. F = [i \in 1..n |-> IF i = 1 THEN s[i] ELSE F[i - 1] \o s[i]]
      BY <2>6
    <2> HIDE DEF F, n
    <2> DEFINE T == {m \in 0..n : m = 0 \/ F[m] \in X}
    <2>8. ASSUME NEW m \in 1..n, m - 1 \in T PROVE m \in T
      <3>1. F[m] = IF m = 1 THEN s[m] ELSE F[m - 1] \o s[m]
        BY <2>7
      <3>2. s[m] \in X
        BY <1>1 DEF X
      <3>3. CASE m = 1
        BY <1>1, <3>1, <3>2, <3>3
      <3>4. CASE m # 1
        <4>1. F[m - 1] \in X
          BY <2>8, <3>4
        <4>2. F[m - 1] \o s[m] \in X
          BY <2>2, <4>1
        <4>3. F[m] = F[m - 1] \o s[m]
          BY <3>1, <3>4
        <4>4. F[m] \in X
          BY <4>2, <4>3
        <4>5. m \in 0..n
          BY <1>1
        <4> QED BY <4>4, <4>5
      <3> QED BY <3>3, <3>4
    <2>9. \A m \in 0..n : m \in T
      <3>1. 0 \in T
        BY <1>1
      <3> HIDE DEF T
      <3> QED BY <1>1, <2>8, <3>1, BoundedInduction
    <2>10. n \in 0..n
      BY <1>1
    <2>11. F[n] \in X
      BY <1>3, <2>9, <2>10
    <2> QED BY <2>1, <2>11 DEF X
  <1> QED BY <1>2, <1>3

-----------------------------------------------------------------------------
(* What pages are taken for.                                               *)

Names == UserAreas \cup {"vma", "file", "spare", "table", "copied", "pcb", "second", "pml4", "mm"}

Roles == Names \X Nat

\* The names that occur in roles.
LEMMA NamesAre ==
    /\ "vma" \in Names /\ "file" \in Names /\ "spare" \in Names /\ "table" \in Names
    /\ "copied" \in Names /\ "pcb" \in Names /\ "second" \in Names /\ "pml4" \in Names
    /\ "mm" \in Names /\ "stack" \in Names /\ "heap" \in Names /\ "text" \in Names
    /\ "data" \in Names
  BY DEF Names, UserAreas

\* Pages of one name.
LEMMA OfIs ==
    ASSUME NEW name \in Names, NEW n \in Nat
    PROVE  /\ Of(name, n) \in Seq(Roles) /\ Len(Of(name, n)) = n
           /\ \A i \in 1..n : Of(name, n)[i] = <<name, 0>>
  <1>1. Of(name, n) = [i \in 1..n |-> <<name, 0>>]
    BY DEF Of
  <1>2. <<name, 0>> \in Roles
    BY DEF Roles
  <1>3. Of(name, n) \in Seq(Roles) /\ Len(Of(name, n)) = n
    BY <1>1, <1>2
  <1>4. \A i \in 1..n : Of(name, n)[i] = <<name, 0>>
    BY <1>1
  <1> QED BY <1>3, <1>4

\* Roles behind roles.
LEMMA JoinIs ==
    ASSUME NEW s \in Seq(Roles), NEW t \in Seq(Roles)
    PROVE  /\ s \o t \in Seq(Roles) /\ Len(s \o t) = Len(s) + Len(t)
           /\ Len(s) \in Nat /\ Len(t) \in Nat
  OBVIOUS

\* The roles of the first sequence come first,
LEMMA JoinFirst ==
    ASSUME NEW s \in Seq(Roles), NEW t \in Seq(Roles), NEW i \in 1..Len(s)
    PROVE  (s \o t)[i] = s[i]
  OBVIOUS

\* and those of the second one behind them.
LEMMA JoinSecond ==
    ASSUME NEW s \in Seq(Roles), NEW t \in Seq(Roles), NEW i \in 1..Len(t)
    PROVE  (s \o t)[Len(s) + i] = t[i]
  <1>1. Len(s) \in Nat /\ Len(t) \in Nat
    OBVIOUS
  <1> QED BY <1>1

\* map_phys_to_user_virt_addr begins with the page that is copied.
LEMMA MapUserIs ==
    ASSUME NEW n \in Nat, NEW page \in Roles
    PROVE  /\ MapUser(n, page) \in Seq(Roles)
           /\ Len(MapUser(n, page)) >= 1 /\ MapUser(n, page)[1] = <<"spare", 0>>
  <1> DEFINE x == Of("spare", 1)
             y == Of("table", n)
  <1>1. x \in Seq(Roles) /\ Len(x) = 1 /\ x[1] = <<"spare", 0>>
    <2>1. \A k \in Nat : /\ Of("spare", k) \in Seq(Roles) /\ Len(Of("spare", k)) = k
                         /\ \A i \in 1..k : Of("spare", k)[i] = <<"spare", 0>>
      BY OfIs, NamesAre
    <2>2. 1 \in Nat /\ 1 \in 1..1
      OBVIOUS
    <2>3. x \in Seq(Roles) /\ Len(x) = 1
      BY <2>1, <2>2
    <2>4. x[1] = <<"spare", 0>>
      BY <2>1, <2>2
    <2> QED BY <2>3, <2>4
  <1>2. y \in Seq(Roles) /\ Len(y) \in Nat
    BY OfIs, NamesAre
  <1>3. MapUser(n, page) = (x \o y) \o <<page>>
    BY DEF MapUser
  <1> HIDE DEF x, y
  <1>4. x \o y \in Seq(Roles) /\ Len(x \o y) >= 1 /\ (x \o y)[1] = x[1]
    <2>1. x \o y \in Seq(Roles) /\ Len(x \o y) = Len(x) + Len(y)
      BY <1>1, <1>2, JoinIs
    <2>2. 1 \in 1..Len(x)
      BY <1>1
    <2>3. (x \o y)[1] = x[1]
      BY <1>1, <1>2, <2>2, JoinFirst
    <2> QED BY <1>1, <1>2, <2>1, <2>3
  <1> DEFINE z == x \o y
  <1> HIDE DEF z
  <1>5. z \o <<page>> \in Seq(Roles) /\ Len(z \o <<page>>) >= 1 /\ (z \o <<page>>)[1] = z[1]
    BY <1>4 DEF z
  <1> QED BY <1>1, <1>3, <1>4, <1>5 DEF z

\* A segment of a program.
LEMMA SegmentsAre ==
    ASSUME NEW m \in Nat, NEW n \in Nat
    PROVE  Segment(m, n, TextPage) \in Seq(Roles) /\ Segment(m, n, DataPage) \in Seq(Roles)
  <1> DEFINE T == [i \in 1..m |-> MapUser(IF i = 1 THEN n ELSE 0, TextPage(i))]
             D == [i \in 1..m |-> MapUser(IF i = 1 THEN n ELSE 0, DataPage(i))]
  <1>1. ASSUME NEW i \in 1..m PROVE TextPage(i) \in Roles /\ DataPage(i) \in Roles
    <2>1. i \in Nat /\ "text" \in Names /\ "data" \in Names
      BY NamesAre
    <2>2. TextPage(i) = <<"text", i>> /\ DataPage(i) = <<"data", i>>
      BY DEF TextPage, DataPage
    <2> QED BY <2>1, <2>2 DEF Roles
  <1>2. \A i \in 1..m, page \in Roles : MapUser(IF i = 1 THEN n ELSE 0, page) \in Seq(Roles)
    BY MapUserIs
  <1>3. T \in Seq(Seq(Roles)) /\ D \in Seq(Seq(Roles))
    <2>1. \A i \in 1..m : /\ MapUser(IF i = 1 THEN n ELSE 0, TextPage(i)) \in Seq(Roles)
                          /\ MapUser(IF i = 1 THEN n ELSE 0, DataPage(i)) \in Seq(Roles)
      BY <1>1, <1>2
    <2>2. T \in [1..m -> Seq(Roles)] /\ D \in [1..m -> Seq(Roles)]
      BY <2>1
    <2> HIDE DEF T, D
    <2> QED BY <2>2
  <1>4. FlattenSeq(T) \in Seq(Roles) /\ FlattenSeq(D) \in Seq(Roles)
    <2> HIDE DEF T, D
    <2> QED BY <1>3, FlattenSeqType
  <1>5. /\ Segment(m, n, TextPage) = Of("vma", 1) \o FlattenSeq(T) \o Of("file", 1)
        /\ Segment(m, n, DataPage) = Of("vma", 1) \o FlattenSeq(D) \o Of("file", 1)
    BY DEF Segment
  <1>6. Of("vma", 1) \in Seq(Roles) /\ Of("file", 1) \in Seq(Roles)
    BY OfIs, NamesAre
  <1> HIDE DEF T, D
  <1> QED BY <1>4, <1>5, <1>6, JoinIs


\* s has at least n roles, and x is the k-th.
Has(s, n, k, x) == s \in Seq(Roles) /\ Len(s) \in Nat /\ n <= Len(s) /\ s[k] = x

\* It still has when others follow.
LEMMA HasMore ==
    ASSUME NEW s, NEW n \in Nat, NEW k \in 1..n, NEW x, Has(s, n, k, x), NEW t \in Seq(Roles)
    PROVE  Has(s \o t, n, k, x)
  <1>1. s \in Seq(Roles) /\ k \in 1..Len(s) /\ Len(s) \in Nat /\ Len(t) \in Nat /\ n <= Len(s)
        /\ s[k] = x
    BY DEF Has
  <1>2. s \o t \in Seq(Roles) /\ Len(s \o t) = Len(s) + Len(t) /\ (s \o t)[k] = s[k]
    BY <1>1, JoinIs, JoinFirst
  <1> QED BY <1>1, <1>2 DEF Has

\* Behind others it comes later.
LEMMA HasLater ==
    ASSUME NEW s \in Seq(Roles), NEW t, NEW x, Has(t, 1, 1, x), NEW m \in Nat, Len(s) = m
    PROVE  Has(s \o t, m + 1, m + 1, x)
  <1>1. t \in Seq(Roles) /\ 1 \in 1..Len(t) /\ Len(t) \in Nat /\ t[1] = x
    BY DEF Has
  <1>2. s \o t \in Seq(Roles) /\ Len(s \o t) = Len(s) + Len(t)
    BY <1>1, JoinIs
  <1>3. (s \o t)[Len(s) + 1] = t[1]
    BY <1>1, JoinSecond
  <1> QED BY <1>1, <1>2, <1>3 DEF Has

\* Roles of one name.
LEMMA OfHas ==
    ASSUME NEW name \in Names, NEW n \in Nat
    PROVE  /\ Of(name, n) \in Seq(Roles) /\ Len(Of(name, n)) = n
           /\ n >= 1 => Has(Of(name, n), 1, 1, <<name, 0>>)
  <1>1. /\ Of(name, n) \in Seq(Roles) /\ Len(Of(name, n)) = n
        /\ \A i \in 1..n : Of(name, n)[i] = <<name, 0>>
    BY OfIs
  <1>2. n >= 1 => Of(name, n)[1] = <<name, 0>>
    BY <1>1
  <1> QED BY <1>1, <1>2 DEF Has

\* kmalloc takes the first two pages for the PCB.
LEMMA PcbIs ==
    /\ Pcb \in Seq(Roles) /\ Len(Pcb) = 3
    /\ Has(Pcb, 1, 1, <<"pcb", 0>>) /\ Has(Pcb, 2, 2, <<"second", 0>>)
  <1> DEFINE x == Of("pcb", 1)
             y == Of("second", 1)
             z == Of("pml4", 1)
  <1>1. /\ x \in Seq(Roles) /\ Len(x) = 1 /\ Has(x, 1, 1, <<"pcb", 0>>)
        /\ y \in Seq(Roles) /\ Len(y) = 1 /\ Has(y, 1, 1, <<"second", 0>>)
        /\ z \in Seq(Roles) /\ Len(z) = 1
    <2>1. 1 \in Nat /\ 1 >= 1
      OBVIOUS
    <2> QED BY <2>1, OfHas, NamesAre
  <1>2. Pcb = (x \o y) \o z
    BY DEF Pcb
  <1> HIDE DEF x, y, z
  <1>3. x \o y \in Seq(Roles) /\ Len(x \o y) = 2
    <2>1. x \o y \in Seq(Roles) /\ Len(x \o y) = Len(x) + Len(y)
      BY <1>1, JoinIs
    <2> QED BY <1>1, <2>1
  <1>4. (x \o y) \o z \in Seq(Roles) /\ Len((x \o y) \o z) = 3
    <2> DEFINE u == x \o y
    <2>1. u \in Seq(Roles) /\ Len(u) = 2
      BY <1>3
    <2> HIDE DEF u
    <2>2. u \o z \in Seq(Roles) /\ Len(u \o z) = Len(u) + Len(z)
      BY <1>1, <2>1, JoinIs
    <2>3. u \o z \in Seq(Roles) /\ Len(u \o z) = 3
      BY <1>1, <2>1, <2>2
    <2> QED BY <2>3 DEF u
  <1>5. 1 \in Nat /\ 1 \in 1..1
    OBVIOUS
  <1>6. Has(x \o y, 1, 1, <<"pcb", 0>>)
    BY <1>1, <1>5, HasMore
  <1>7. Has((x \o y) \o z, 1, 1, <<"pcb", 0>>)
    BY <1>1, <1>5, <1>6, HasMore
  <1>8. Has(x \o y, 2, 2, <<"second", 0>>)
    <2>1. 1 + 1 = 2
      OBVIOUS
    <2>2. Has(x \o y, 1 + 1, 1 + 1, <<"second", 0>>)
      BY <1>1, <1>5, HasLater
    <2> QED BY <2>1, <2>2
  <1>9. Has((x \o y) \o z, 2, 2, <<"second", 0>>)
    <2>1. 2 \in Nat /\ 2 \in 1..2
      OBVIOUS
    <2> QED BY <1>1, <1>8, <2>1, HasMore
  <1> QED BY <1>2, <1>4, <1>7, <1>9

\* The areas and the heap page of a program, behind the page that is copied.
LEMMA LoadedIs ==
    ASSUME NEW g \in Programs
    PROVE  Has(Loaded(g), 1, 1, <<"spare", 0>>)
  <1> DEFINE s == MapUser(3, Stack)
             t == Of("mm", 1)
             u == Segment(g.text, 3, TextPage)
             v == Segment(g.data, 1, DataPage)
             w == Of("vma", 2)
             x == MapUser(2, HeapPage(0))
             H(a) == Has(a, 1, 1, <<"spare", 0>>)
  <1>1. g.text \in Nat /\ g.data \in Nat /\ 1 \in Nat /\ 2 \in Nat /\ 3 \in Nat /\ 1 \in 1..1
    BY MemoryAssumption
  <1>2. Stack \in Roles /\ HeapPage(0) \in Roles
    BY NamesAre DEF Stack, HeapPage, Roles
  <1>3. H(s)
    <2>1. \A n \in Nat, page \in Roles :
            /\ MapUser(n, page) \in Seq(Roles)
            /\ Len(MapUser(n, page)) >= 1 /\ MapUser(n, page)[1] = <<"spare", 0>>
      BY MapUserIs
    <2>2. s \in Seq(Roles) /\ Len(s) >= 1 /\ s[1] = <<"spare", 0>>
      BY <1>1, <1>2, <2>1
    <2> HIDE DEF s
    <2>3. Len(s) \in Nat
      BY <2>2
    <2> QED BY <2>2, <2>3 DEF Has
  <1>4. x \in Seq(Roles)
    BY <1>1, <1>2, MapUserIs
  <1>5. t \in Seq(Roles) /\ w \in Seq(Roles)
    BY <1>1, OfIs, NamesAre
  <1>6. u \in Seq(Roles) /\ v \in Seq(Roles)
    BY <1>1, SegmentsAre
  <1>7. Loaded(g) = ((((s \o t) \o u) \o v) \o w) \o x
    BY DEF Loaded
  <1> HIDE DEF s, t, u, v, w, x
  <1>8. ASSUME NEW a, NEW b \in Seq(Roles), H(a) PROVE H(a \o b)
    BY <1>1, <1>8, HasMore
  <1> HIDE DEF H
  <1>9. H(s \o t)
    BY <1>3, <1>5, <1>8
  <1>10. H((s \o t) \o u)
    BY <1>6, <1>8, <1>9
  <1>11. H(((s \o t) \o u) \o v)
    BY <1>6, <1>8, <1>10
  <1>12. H((((s \o t) \o u) \o v) \o w)
    BY <1>5, <1>8, <1>11
  <1>13. H(((((s \o t) \o u) \o v) \o w) \o x)
    BY <1>4, <1>8, <1>12
  <1> QED BY <1>7, <1>13 DEF H

\* A new program: the pages of its PCB come first, and the page that is copied to the new
\* stack is the fourth.
LEMMA LoadRolesAre ==
    ASSUME NEW g \in Programs
    PROVE  /\ Has(LoadRoles(g), 4, 4, <<"spare", 0>>)
           /\ Has(LoadRoles(g), 1, 1, <<"pcb", 0>>) /\ Has(LoadRoles(g), 2, 2, <<"second", 0>>)
  <1> DEFINE t == Loaded(g)
  <1>1. /\ Pcb \in Seq(Roles) /\ Len(Pcb) = 3
        /\ Has(Pcb, 1, 1, <<"pcb", 0>>) /\ Has(Pcb, 2, 2, <<"second", 0>>)
    BY PcbIs
  <1>2. Has(t, 1, 1, <<"spare", 0>>)
    BY LoadedIs
  <1>3. LoadRoles(g) = Pcb \o t
    BY DEF LoadRoles
  <1> HIDE DEF t
  <1>4. 3 \in Nat /\ 3 + 1 = 4 /\ 1 \in Nat /\ 1 \in 1..1 /\ 2 \in Nat /\ 2 \in 1..2
    OBVIOUS
  <1>5. Has(Pcb \o t, 3 + 1, 3 + 1, <<"spare", 0>>)
    BY <1>1, <1>2, <1>4, HasLater
  <1>6. t \in Seq(Roles)
    BY <1>2 DEF Has
  <1>7. Has(Pcb \o t, 1, 1, <<"pcb", 0>>) /\ Has(Pcb \o t, 2, 2, <<"second", 0>>)
    BY <1>1, <1>4, <1>6, HasMore
  <1> QED BY <1>3, <1>4, <1>5, <1>7

\* The first process: behind the two pages of another PCB.
LEMMA KernelRolesAre ==
    /\ Has(KernelRoles(InitProgram), 5, 3, <<"pcb", 0>>)
    /\ Has(KernelRoles(InitProgram), 5, 4, <<"second", 0>>)
  <1> DEFINE l == Loaded(InitProgram)
             a == Of("pcb", 1)
             b == Of("second", 1)
             c == Of("spare", 1)
             d == Of("table", 3)
             e == Tail(l)
  <1>1. e \in Seq(Roles)
    <2>1. Has(l, 1, 1, <<"spare", 0>>)
      BY LoadedIs, MemoryAssumption
    <2> HIDE DEF l
    <2>2. l \in Seq(Roles) /\ l # <<>>
      BY <2>1 DEF Has
    <2> QED BY <2>2
  <1>2. /\ a \in Seq(Roles) /\ b \in Seq(Roles) /\ c \in Seq(Roles) /\ d \in Seq(Roles)
        /\ Len(a) = 1 /\ Len(b) = 1
    <2>1. 1 \in Nat /\ 3 \in Nat
      OBVIOUS
    <2> QED BY <2>1, OfIs, NamesAre
  <1>3. /\ Pcb \in Seq(Roles) /\ Len(Pcb) = 3
        /\ Has(Pcb, 1, 1, <<"pcb", 0>>) /\ Has(Pcb, 2, 2, <<"second", 0>>)
    BY PcbIs
  <1>4. KernelRoles(InitProgram) = ((((a \o b) \o Pcb) \o c) \o d) \o e
    BY DEF KernelRoles
  <1> HIDE DEF a, b, c, d, e, l
  <1>5. /\ 2 \in Nat /\ 2 + 1 = 3 /\ 3 \in 1..3 /\ 5 \in Nat /\ 3 \in 1..5 /\ 4 \in 1..5
    OBVIOUS
  <1>0. a \o b \in Seq(Roles) /\ Len(a \o b) = 2
    <2>1. a \o b \in Seq(Roles) /\ Len(a \o b) = Len(a) + Len(b)
      BY <1>2, JoinIs
    <2> QED BY <1>2, <2>1
  <1> DEFINE x == a \o b
  <1> HIDE DEF x
  <1>6. Has(x \o Pcb, 2 + 1, 2 + 1, <<"pcb", 0>>)
    BY <1>0, <1>3, <1>5, HasLater DEF x
  <1>7. Len(x \o Pcb) = 5
    <2>1. x \in Seq(Roles) /\ Len(x) = 2
      BY <1>0 DEF x
    <2>2. Len(x \o Pcb) = Len(x) + Len(Pcb)
      BY <1>3, <2>1, JoinIs
    <2> QED BY <1>3, <2>1, <2>2
  <1>8. Has(x \o Pcb, 5, 3, <<"pcb", 0>>) /\ Has(x \o Pcb, 5, 4, <<"second", 0>>)
    <2>1. x \in Seq(Roles) /\ Len(x) = 2
      BY <1>0 DEF x
    <2>2. \A i \in 1..Len(Pcb) : (x \o Pcb)[Len(x) + i] = Pcb[i]
      BY <1>3, <2>1, JoinSecond
    <2>3. 2 \in 1..Len(Pcb) /\ Len(x) + 2 = 4
      BY <1>3, <2>1
    <2>4. (x \o Pcb)[Len(x) + 2] = Pcb[2]
      BY <2>2, <2>3
    <2>5. (x \o Pcb)[4] = <<"second", 0>>
      BY <1>3, <2>3, <2>4 DEF Has
    <2> QED BY <1>5, <1>6, <1>7, <2>5 DEF Has
  <1> DEFINE H(u) == Has(u, 5, 3, <<"pcb", 0>>) /\ Has(u, 5, 4, <<"second", 0>>)
  <1>9. ASSUME NEW u, NEW v \in Seq(Roles), H(u) PROVE H(u \o v)
    BY <1>5, <1>9, HasMore
  <1>10. H(x \o Pcb)
    BY <1>8
  <1> HIDE DEF H
  <1>11. H((x \o Pcb) \o c)
    BY <1>2, <1>9, <1>10
  <1>12. H(((x \o Pcb) \o c) \o d)
    BY <1>2, <1>9, <1>11
  <1>13. H((((x \o Pcb) \o c) \o d) \o e)
    BY <1>1, <1>9, <1>12
  <1> QED BY <1>4, <1>13 DEF x, H

\* A child: the pages of its PCB come first.
LEMMA ForkRolesAre == Has(ForkRoles, 2, 1, <<"pcb", 0>>) /\ Has(ForkRoles, 2, 2, <<"second", 0>>)
  <1> DEFINE a == Of("table", 9)
             b == Of("mm", 1)
             c == Of("vma", 1)
             d == Of("file", 1)
             e == Of("vma", 2)
             H(s) == Has(s, 2, 1, <<"pcb", 0>>) /\ Has(s, 2, 2, <<"second", 0>>)
  <1>1. /\ a \in Seq(Roles) /\ b \in Seq(Roles) /\ c \in Seq(Roles) /\ d \in Seq(Roles)
        /\ e \in Seq(Roles)
    <2>1. 1 \in Nat /\ 2 \in Nat /\ 9 \in Nat
      OBVIOUS
    <2> QED BY <2>1, OfIs, NamesAre
  <1>2. H(Pcb)
    BY PcbIs DEF Has
  <1>3. ForkRoles = ((((((Pcb \o a) \o b) \o c) \o d) \o c) \o d) \o e
    BY DEF ForkRoles
  <1>4. 2 \in Nat /\ 1 \in 1..2 /\ 2 \in 1..2
    OBVIOUS
  <1> HIDE DEF a, b, c, d, e
  <1>5. ASSUME NEW s, NEW t \in Seq(Roles), H(s) PROVE H(s \o t)
    BY <1>4, <1>5, HasMore
  <1> HIDE DEF H
  <1>6. H((Pcb \o a) \o b)
    BY <1>1, <1>2, <1>5
  <1>7. H((((Pcb \o a) \o b) \o c) \o d)
    BY <1>1, <1>5, <1>6
  <1>8. H((((((Pcb \o a) \o b) \o c) \o d) \o c) \o d)
    BY <1>1, <1>5, <1>7
  <1>9. H(ForkRoles)
    BY <1>1, <1>3, <1>5, <1>8
  <1> QED BY <1>9 DEF H

\* A page that is copied.
LEMMA FaultRolesAre ==
    ASSUME NEW v \in Roles
    PROVE  /\ FaultRoles(v) \in Seq(Roles) /\ Len(FaultRoles(v)) = 2
           /\ FaultRoles(v)[1] = <<"copied", 0>> /\ FaultRoles(v)[2] = v
  <1> DEFINE x == Of("copied", 1)
             y == <<v>>
  <1>1. \A k \in Nat : /\ Of("copied", k) \in Seq(Roles) /\ Len(Of("copied", k)) = k
                       /\ \A i \in 1..k : Of("copied", k)[i] = <<"copied", 0>>
    BY OfIs, NamesAre
  <1>2. 1 \in Nat /\ 1 \in 1..1
    OBVIOUS
  <1>3. x \in Seq(Roles) /\ Len(x) = 1 /\ x[1] = <<"copied", 0>>
    BY <1>1, <1>2
  <1>4. y \in Seq(Roles) /\ Len(y) = 1 /\ y[1] = v
    OBVIOUS
  <1>5. FaultRoles(v) = x \o y
    BY DEF FaultRoles
  <1> HIDE DEF x, y
  <1>6. x \o y \in Seq(Roles) /\ Len(x \o y) = Len(x) + Len(y)
    BY <1>3, <1>4, JoinIs
  <1>7. \A i \in 1..Len(x) : (x \o y)[i] = x[i]
    BY <1>3, <1>4, JoinFirst
  <1>8. \A i \in 1..Len(y) : (x \o y)[Len(x) + i] = y[i]
    BY <1>3, <1>4, JoinSecond
  <1>9. (x \o y)[1] = x[1] /\ (x \o y)[1 + 1] = y[1]
    BY <1>2, <1>3, <1>4, <1>7, <1>8
  <1> QED BY <1>3, <1>4, <1>5, <1>6, <1>9

\* What a child and its parent take.
LEMMA ForkTakes ==
    ASSUME NEW n, n = Len(ForkRoles),
           NEW r, r = ForkRoles \o FaultRoles(Stack) \o FaultRoles(Stack)
    PROVE  /\ n \in Nat /\ n >= 2 /\ r \in Seq(Roles) /\ Len(r) = n + 4
           /\ SubSeq(r, 1, n) \in Seq(Roles) /\ Len(SubSeq(r, 1, n)) = n
           /\ SubSeq(r, 1, n)[1] = <<"pcb", 0>> /\ SubSeq(r, 1, n)[2] = <<"second", 0>>
  <1> DEFINE s == ForkRoles
             x == FaultRoles(Stack)
             y == s \o x
             f == SubSeq(r, 1, n)
  <1>1. /\ s \in Seq(Roles) /\ n \in Nat /\ n >= 2 /\ Len(s) = n
        /\ Has(s, 2, 1, <<"pcb", 0>>) /\ Has(s, 2, 2, <<"second", 0>>)
    BY ForkRolesAre DEF Has
  <1>2. x \in Seq(Roles) /\ Len(x) = 2
    <2>1. Stack \in Roles
      BY NamesAre DEF Stack, Roles
    <2> QED BY <2>1, FaultRolesAre
  <1> HIDE DEF s, x
  <1>3. y \in Seq(Roles) /\ Len(y) = n + 2
    BY <1>1, <1>2, JoinIs
  <1>4. r = y \o x
    BY DEF s, x
  <1>5. r \in Seq(Roles) /\ Len(r) = (n + 2) + 2
    <2> HIDE DEF y
    <2> QED BY <1>2, <1>3, <1>4, JoinIs
  <1>6. 2 \in Nat /\ 1 \in 1..2 /\ 2 \in 1..2
    OBVIOUS
  <1>7. Has(y, 2, 1, <<"pcb", 0>>) /\ Has(y, 2, 2, <<"second", 0>>)
    BY <1>1, <1>2, <1>6, HasMore
  <1>8. Has(r, 2, 1, <<"pcb", 0>>) /\ Has(r, 2, 2, <<"second", 0>>)
    <2> HIDE DEF y
    <2> QED BY <1>2, <1>4, <1>6, <1>7, HasMore
  <1>9. f \in Seq(Roles) /\ Len(f) = n /\ f[1] = r[1] /\ f[2] = r[2]
    <2>1. \A i \in 1..n : r[i] \in Roles
      BY <1>1, <1>5
    <2>2. /\ f \in Seq(Roles) /\ Len(f) = IF 1 <= n THEN n - 1 + 1 ELSE 0
          /\ \A i \in 1..(n - 1 + 1) : f[i] = r[1 + i - 1]
      BY <1>1, <2>1, SubSeqProperties
    <2>3. 1 \in 1..(n - 1 + 1) /\ 1 + 1 - 1 = 1 /\ 2 \in 1..(n - 1 + 1) /\ 1 + 2 - 1 = 2
      BY <1>1
    <2> HIDE DEF f
    <2>4. Len(f) = n
      BY <1>1, <2>2
    <2>5. f[1] = r[1] /\ f[2] = r[2]
      BY <2>2, <2>3
    <2> QED BY <2>2, <2>4, <2>5
  <1> QED BY <1>1, <1>5, <1>8, <1>9 DEF Has


-----------------------------------------------------------------------------
(* Processes.                                                              *)

PageEntries == [page : Nat, cow : BOOLEAN]

PageMaps == UNION {[D -> PageEntries] : D \in SUBSET Roles}

Processes == [program : Programs, exec : BOOLEAN, base : Nat, second : Nat, pages : PageMaps,
              objects : SUBSET Nat]

\* The pages of a process that hold its program.
PageSet(f) == {f[v].page : v \in DOMAIN f}

\* A process has two pages for its PCB, and no page of its program holds a kernel object.
Sound(p) ==
    /\ p \in Processes /\ p.base \in p.objects /\ p.second \in p.objects
    /\ p.objects \cap PageSet(p.pages) = {}

\* What a process has for its own it holds.
LEMMA HeldIs ==
    ASSUME NEW p
    PROVE  /\ Held(p) = p.objects \cup PageSet(p.pages)
           /\ Own(p) \subseteq Held(p) /\ p.objects \subseteq Own(p)
           /\ \A v \in DOMAIN p.pages : /\ p.pages[v].page \in Held(p)
                                        /\ ~p.pages[v].cow => p.pages[v].page \in Own(p)
  BY DEF Held, Own, PageSet

\* The pages of a process have numbers.
LEMMA PageMapIs ==
    ASSUME NEW f \in PageMaps
    PROVE  /\ DOMAIN f \in SUBSET Roles /\ f \in [DOMAIN f -> PageEntries]
           /\ \A v \in DOMAIN f : f[v] \in PageEntries /\ f[v].page \in Nat /\ f[v].cow \in BOOLEAN
           /\ PageSet(f) \subseteq Nat
  <1>1. PICK D \in SUBSET Roles : f \in [D -> PageEntries]
    BY DEF PageMaps
  <1>2. DOMAIN f = D
    BY <1>1
  <1>3. \A v \in D : f[v] \in PageEntries
    BY <1>1
  <1>4. \A v \in D : f[v].page \in Nat /\ f[v].cow \in BOOLEAN
    BY <1>3 DEF PageEntries
  <1> QED BY <1>1, <1>2, <1>3, <1>4 DEF PageSet

\* Entries for areas are the pages of a process.
LEMMA IsPageMap ==
    ASSUME NEW D \in SUBSET Roles, NEW f \in [D -> PageEntries]
    PROVE  f \in PageMaps /\ DOMAIN f = D
  BY DEF PageMaps

\* The fields of a process.
LEMMA ProcessType ==
    ASSUME NEW p \in Processes
    PROVE  /\ p.program \in Programs /\ p.exec \in BOOLEAN /\ p.base \in Nat
           /\ p.second \in Nat /\ p.pages \in PageMaps /\ p.objects \in SUBSET Nat
  BY DEF Processes

\* Other pages for a process.
LEMMA NewPages ==
    ASSUME NEW p \in Processes, NEW f \in PageMaps
    PROVE  LET q == [p EXCEPT !.pages = f]
           IN  /\ q \in Processes /\ q.pages = f /\ q.objects = p.objects
               /\ q.base = p.base /\ q.second = p.second
  BY DEF Processes

\* Every role has its page among those that are taken.
LEMMA AmongTaken ==
    ASSUME NEW r \in Seq(Roles), NEW F \in SUBSET Nat, NEW n \in Nat, NEW a, Ascending(a, F, n),
           Len(r) <= n, NEW j \in 1..Len(r)
    PROVE  j \in 1..n /\ a[j] \in Nat
  <1>1. j \in 1..n
    BY LenProperties
  <1>2. a[j] \in Found(F)
    BY <1>1 DEF Ascending
  <1> QED BY <1>1, <1>2 DEF Found

\* f has private pages of areas, which are among the pages taken.
OfAreas(f, r, a) ==
    /\ f \in PageMaps
    /\ \A v \in DOMAIN f :
         /\ f[v].cow = FALSE
         /\ \E j \in 1..Len(r) : r[j][1] \in UserAreas /\ r[j] = v /\ f[v].page = a[j]

\* The pages of the areas of a program are private and were taken for it.
LEMMA PagesAre ==
    ASSUME NEW r \in Seq(Roles), NEW F \in SUBSET Nat, NEW n \in Nat, NEW a, Ascending(a, F, n),
           Len(r) <= n
    PROVE  OfAreas(Pages(r, a), r, a)
  <1> DEFINE D == {r[k] : k \in {j \in DOMAIN r : r[j][1] \in UserAreas}}
             at(v) == CHOOSE k \in DOMAIN r : r[k] = v
             f == Pages(r, a)
  <1>1. DOMAIN r = 1..Len(r) /\ Len(r) \in Nat /\ \A j \in 1..Len(r) : r[j] \in Roles
    OBVIOUS
  <1>2. D \in SUBSET Roles
    BY <1>1
  <1>3. ASSUME NEW j \in 1..Len(r) PROVE j \in 1..n /\ a[j] \in Nat
    BY AmongTaken
  <1>4. f = [v \in D |-> [page |-> a[at(v)], cow |-> FALSE]]
    BY DEF Pages
  <1>5. ASSUME NEW v \in D PROVE at(v) \in DOMAIN r /\ r[at(v)] = v /\ v[1] \in UserAreas
    BY <1>1
  <1> HIDE DEF at
  <1>6. \A v \in D : [page |-> a[at(v)], cow |-> FALSE] \in PageEntries
    BY <1>1, <1>3, <1>5 DEF PageEntries
  <1> HIDE DEF D, f
  <1>7. f \in [D -> PageEntries]
    BY <1>4, <1>6
  <1>8. f \in PageMaps /\ DOMAIN f = D
    BY <1>2, <1>7, IsPageMap
  <1>9. ASSUME NEW v \in D
        PROVE  f[v].cow = FALSE /\ f[v].page = a[at(v)]
    BY <1>4
  <1>10. ASSUME NEW v \in D
         PROVE  \E j \in 1..Len(r) : r[j][1] \in UserAreas /\ r[j] = v /\ f[v].page = a[j]
    BY <1>1, <1>5, <1>9
  <1>11. OfAreas(f, r, a)
    BY <1>8, <1>9, <1>10 DEF OfAreas
  <1> QED BY <1>11 DEF f

\* A new process, whose kernel objects are among the pages taken, with the pages f.
Fresh(p, k, r, a, f) ==
    /\ p \in Processes /\ p.base = a[k] /\ p.pages = f
    /\ p.base \in p.objects /\ p.second \in p.objects
    /\ \A x \in p.objects :
         \E j \in 1..Len(r) : x = a[j] /\ r[j][1] \notin UserAreas \cup {"spare", "copied"}

\* create_user_process, fork and execve make such a process.
LEMMA NewProcess ==
    ASSUME NEW g \in Programs, NEW exec \in BOOLEAN, NEW r \in Seq(Roles), NEW F \in SUBSET Nat,
           NEW n \in Nat, NEW a, Ascending(a, F, n), Len(r) <= n,
           NEW k \in 1..(Len(r) - 1), r[k] = <<"pcb", 0>>, r[k + 1] = <<"second", 0>>,
           NEW f \in PageMaps
    PROVE  Fresh(Process(g, exec, k, r, a, f), k, r, a, f)
  <1> DEFINE O == {a[j] : j \in {i \in DOMAIN r : r[i][1] \notin UserAreas \cup {"spare", "copied"}}}
             p == Process(g, exec, k, r, a, f)
  <1>1. DOMAIN r = 1..Len(r) /\ Len(r) \in Nat /\ k \in 1..Len(r) /\ k + 1 \in 1..Len(r)
    OBVIOUS
  <1>2. ASSUME NEW j \in 1..Len(r) PROVE j \in 1..n /\ a[j] \in Nat
    BY AmongTaken
  <1>3. p = [program |-> g, exec |-> exec, base |-> a[k], second |-> a[k + 1], pages |-> f,
             objects |-> O]
    BY DEF Process
  <1>4. \A x \in O : \E j \in 1..Len(r) : x = a[j] /\ r[j][1] \notin UserAreas \cup {"spare", "copied"}
    BY <1>1
  <1>5. O \in SUBSET Nat
    BY <1>2, <1>4
  <1>6. a[k] \in O /\ a[k + 1] \in O
    <2>1. r[k][1] = "pcb" /\ "pcb" \notin UserAreas \cup {"spare", "copied"}
      BY DEF UserAreas
    <2>2. r[k + 1][1] = "second" /\ "second" \notin UserAreas \cup {"spare", "copied"}
      BY DEF UserAreas
    <2> QED BY <1>1, <2>1, <2>2
  <1> HIDE DEF O, p
  <1>7. p \in Processes
    BY <1>1, <1>2, <1>3, <1>5 DEF Processes
  <1>8. p.base = a[k] /\ p.second = a[k + 1] /\ p.pages = f /\ p.objects = O
    BY <1>3
  <1>9. Fresh(p, k, r, a, f)
    BY <1>4, <1>6, <1>7, <1>8 DEF Fresh
  <1> QED BY <1>9 DEF p

\* A program that starts has pages of its own; the page that is copied to its
\* stack, and any other spare page, is not one of them.
LEMMA NewProgram ==
    ASSUME NEW g \in Programs, NEW r \in Seq(Roles), NEW F \in SUBSET Nat,
           NEW n \in Nat, NEW a, Ascending(a, F, n), Len(r) <= n,
           NEW k \in 1..(Len(r) - 1), r[k] = <<"pcb", 0>>, r[k + 1] = <<"second", 0>>
    PROVE  LET p == Process(g, TRUE, k, r, a, Pages(r, a))
           IN  /\ Sound(p) /\ p.base = a[k] /\ Held(p) \subseteq ToSet(a)
               /\ \A j \in 1..Len(r) : r[j] = <<"spare", 0>> => a[j] \notin Held(p)
  <1> DEFINE f == Pages(r, a)
             p == Process(g, TRUE, k, r, a, f)
  <1>0. \A j \in 1..Len(r) : j \in 1..n
    BY AmongTaken
  <1>1. OfAreas(f, r, a)
    BY PagesAre
  <1> HIDE DEF f
  <1>2. Fresh(p, k, r, a, f)
    <2>1. f \in PageMaps /\ TRUE \in BOOLEAN
      BY <1>1 DEF OfAreas
    <2> QED BY <2>1, NewProcess
  <1> HIDE DEF p
  <1>3. \A x \in PageSet(f) : \E j \in 1..n : x = a[j] /\ r[j][1] \in UserAreas
    BY <1>0, <1>1 DEF PageSet, OfAreas
  <1>4. \A x \in p.objects : \E j \in 1..n : x = a[j] /\ r[j][1] \notin UserAreas \cup {"spare", "copied"}
    BY <1>0, <1>2 DEF Fresh
  <1>5. \A i \in 1..n, j \in 1..n : a[i] = a[j] => i = j
    <2> SUFFICES ASSUME NEW i \in 1..n, NEW j \in 1..n, a[i] = a[j], i # j PROVE FALSE
      OBVIOUS
    <2>1. a[i] \in Nat /\ a[j] \in Nat /\ (i < j => a[i] < a[j]) /\ (j < i => a[j] < a[i])
      BY DEF Ascending, Found
    <2> QED BY <2>1
  <1>6. p.objects \cap PageSet(p.pages) = {}
    <2> SUFFICES ASSUME NEW x \in p.objects, x \in PageSet(f) PROVE FALSE
      BY <1>2 DEF Fresh
    <2>1. PICK i \in 1..n : x = a[i] /\ r[i][1] \in UserAreas
      BY <1>3
    <2>2. PICK j \in 1..n : x = a[j] /\ r[j][1] \notin UserAreas \cup {"spare", "copied"}
      BY <1>4
    <2> QED BY <1>5, <2>1, <2>2
  <1>7. Held(p) = p.objects \cup PageSet(f)
    BY <1>2, HeldIs DEF Fresh
  <1>8. DOMAIN a = 1..n
    BY DEF Ascending
  <1>9. Held(p) \subseteq ToSet(a)
    BY <1>3, <1>4, <1>7, <1>8 DEF ToSet
  <1>10. ASSUME NEW j \in 1..Len(r), r[j] = <<"spare", 0>> PROVE a[j] \notin Held(p)
    <2> SUFFICES ASSUME a[j] \in Held(p) PROVE FALSE
      OBVIOUS
    <2>1. r[j][1] = "spare" /\ "spare" \notin UserAreas
      BY <1>10 DEF UserAreas
    <2>2. CASE a[j] \in PageSet(f)
      <3>1. PICK i \in 1..n : a[j] = a[i] /\ r[i][1] \in UserAreas
        BY <1>3, <2>2
      <3> QED BY <1>0, <1>5, <2>1, <3>1
    <2>3. CASE a[j] \in p.objects
      <3>1. PICK i \in 1..n : a[j] = a[i] /\ r[i][1] \notin UserAreas \cup {"spare", "copied"}
        BY <1>4, <2>3
      <3> QED BY <1>0, <1>5, <2>1, <3>1
    <2> QED BY <1>7, <2>2, <2>3
  <1> QED BY <1>2, <1>6, <1>9, <1>10 DEF Sound, Fresh, p, f

-----------------------------------------------------------------------------
(* Several processes.                                                      *)

\* What one process of a set has for its own no other one holds.
Apart(K) == \A p \in K, q \in K : p # q => Own(p) \cap Held(q) = {}

\* c is replaced by processes that have, beside pages of c, new ones.
LEMMA ApartStep ==
    ASSUME NEW R, NEW c, NEW N, NEW A, Apart(R \cup {c}), c \notin R,
           \A p \in R \cup {c} : Held(p) \cap A = {},
           \A x \in N : Own(x) \subseteq Own(c) \cup A /\ Held(x) \subseteq Held(c) \cup A,
           \A x \in N, y \in N : x # y => Own(x) \cap Held(y) = {}
    PROVE  Apart(R \cup N)
  <1> SUFFICES ASSUME NEW p \in R \cup N, NEW q \in R \cup N, p # q
               PROVE  Own(p) \cap Held(q) = {}
    BY DEF Apart
  <1>0. \A s : Own(s) \subseteq Held(s)
    BY HeldIs
  <1>1. CASE p \in R /\ q \in R
    BY <1>1 DEF Apart
  <1>2. CASE p \in R /\ q \in N
    <2>1. Own(p) \cap Held(c) = {} /\ Own(p) \cap A = {}
      BY <1>0, <1>2 DEF Apart
    <2> QED BY <1>2, <2>1
  <1>3. CASE p \in N /\ q \in R
    <2>1. Own(c) \cap Held(q) = {} /\ A \cap Held(q) = {}
      BY <1>3 DEF Apart
    <2> QED BY <1>3, <2>1
  <1>4. CASE p \in N /\ q \in N
    BY <1>4
  <1> QED BY <1>1, <1>2, <1>3, <1>4

\* The PCBs on the chain are different ones, and none is on another list.
Distinct(c, Q) ==
    /\ \A i \in 1..Len(c), j \in 1..Len(c) : i # j => c[i].base # c[j].base
    /\ \A p \in ToSet(c), q \in Q : p.base # q.base

\* So it is without the last process, whose PCB is another one, too.
LEMMA DistinctFront ==
    ASSUME NEW c \in Seq(Processes), c # <<>>, NEW Q, Distinct(c, Q)
    PROVE  /\ Distinct(Front(c), Q)
           /\ \A p \in ToSet(Front(c)) \cup Q : p.base # Last(c).base
  <1>1. /\ Len(c) \in Nat /\ Len(c) >= 1 /\ Last(c) = c[Len(c)]
        /\ Front(c) \in Seq(Processes) /\ Len(Front(c)) = Len(c) - 1
        /\ \A i \in 1..(Len(c) - 1) : Front(c)[i] = c[i]
        /\ ToSet(c) = ToSet(Front(c)) \cup {Last(c)}
    BY FrontIs
  <1>2. Distinct(Front(c), Q)
    <2>1. \A i \in 1..(Len(c) - 1) : i \in 1..Len(c)
      BY <1>1
    <2> QED BY <1>1, <2>1 DEF Distinct
  <1>3. ASSUME NEW p \in ToSet(Front(c)) PROVE p.base # Last(c).base
    <2>1. PICK i \in 1..(Len(c) - 1) : p = Front(c)[i]
      BY <1>1 DEF ToSet
    <2>2. i \in 1..Len(c) /\ Len(c) \in 1..Len(c) /\ i # Len(c) /\ p = c[i]
      BY <1>1, <2>1
    <2> QED BY <1>1, <2>2 DEF Distinct
  <1>4. ASSUME NEW p \in Q PROVE p.base # Last(c).base
    BY <1>1 DEF Distinct
  <1> QED BY <1>2, <1>3, <1>4

\* So it is with one more process that has another PCB.
LEMMA DistinctMore ==
    ASSUME NEW c \in Seq(Processes), NEW x \in Processes, NEW Q, Distinct(c, Q),
           \A p \in ToSet(c) \cup Q : p.base # x.base
    PROVE  Distinct(c \o <<x>>, Q)
  <1> DEFINE d == c \o <<x>>
  <1>1. /\ d \in Seq(Processes) /\ Len(d) = Len(c) + 1
        /\ \A i \in 1..Len(c) : d[i] = c[i]
        /\ d[Len(c) + 1] = x
        /\ ToSet(d) = ToSet(c) \cup {x}
    BY OneMoreIs
  <1> HIDE DEF d
  <1>2. Len(c) \in Nat /\ \A i \in 1..Len(c) : c[i] \in ToSet(c)
    BY DEF ToSet
  <1>3. ASSUME NEW i \in 1..Len(d), NEW j \in 1..Len(d), i # j PROVE d[i].base # d[j].base
    <2>1. (i = Len(c) + 1 \/ i \in 1..Len(c)) /\ (j = Len(c) + 1 \/ j \in 1..Len(c))
      BY <1>1, <1>2
    <2>2. CASE i \in 1..Len(c) /\ j \in 1..Len(c)
      BY <1>1, <1>3, <2>2 DEF Distinct
    <2>3. CASE i \in 1..Len(c) /\ j = Len(c) + 1
      BY <1>1, <1>2, <2>3
    <2>4. CASE i = Len(c) + 1 /\ j \in 1..Len(c)
      BY <1>1, <1>2, <2>4
    <2> QED BY <1>3, <2>1, <2>2, <2>3, <2>4
  <1>4. \A p \in ToSet(d), q \in Q : p.base # q.base
    BY <1>1 DEF Distinct
  <1> QED BY <1>3, <1>4 DEF Distinct, d


\* Two processes are appended one by one.
LEMMA TwoMore ==
    ASSUME NEW c \in Seq(Processes), NEW x \in Processes, NEW y \in Processes
    PROVE  c \o <<x, y>> = (c \o <<x>>) \o <<y>>
  <1> DEFINE u == <<x>>
             v == <<y>>
             w == <<x, y>>
  <1>1. /\ u \in Seq(Processes) /\ Len(u) = 1 /\ u[1] = x
        /\ v \in Seq(Processes) /\ Len(v) = 1 /\ v[1] = y
        /\ w \in Seq(Processes) /\ Len(w) = 2 /\ w[1] = x /\ w[2] = y
    OBVIOUS
  <1> HIDE DEF u, v, w
  <1>2. /\ u \o v \in Seq(Processes) /\ Len(u \o v) = 2
        /\ (u \o v)[1] = x /\ (u \o v)[2] = y
    <2>1. /\ u \o v \in Seq(Processes) /\ Len(u \o v) = Len(u) + 1
          /\ \A i \in 1..Len(u) : (u \o v)[i] = u[i]
          /\ (u \o v)[Len(u) + 1] = y
      <3>1. /\ u \o <<y>> \in Seq(Processes) /\ Len(u \o <<y>>) = Len(u) + 1
            /\ \A i \in 1..Len(u) : (u \o <<y>>)[i] = u[i]
            /\ (u \o <<y>>)[Len(u) + 1] = y
        <4>1. u \in Seq(Processes) /\ y \in Processes
          BY <1>1
        <4> QED BY <4>1, OneMoreIs
      <3> QED BY <3>1 DEF v
    <2>2. 1 \in 1..Len(u) /\ Len(u) + 1 = 2
      BY <1>1
    <2>3. (u \o v)[1] = u[1]
      BY <2>1, <2>2
    <2> QED BY <1>1, <2>1, <2>2, <2>3
  <1>3. w = u \o v
    <2>1. \A i \in 1..2 : i = 1 \/ i = 2
      OBVIOUS
    <2>2. \A i \in 1..Len(w) : w[i] = (u \o v)[i]
      BY <1>1, <1>2, <2>1
    <2> QED BY <1>1, <1>2, <2>2, SeqEqual
  <1>4. (c \o u) \o v = c \o (u \o v)
    <2>1. u \in Seq(Processes) /\ v \in Seq(Processes)
      BY <1>1
    <2>2. \A t1 \in Seq(Processes), t2 \in Seq(Processes), t3 \in Seq(Processes) :
            (t1 \o t2) \o t3 = t1 \o (t2 \o t3)
      BY ConcatAssociative, SMTT(40)
    <2> QED BY <2>1, <2>2
  <1> QED BY <1>3, <1>4 DEF u, v, w

\* Two lists one behind the other.
LEMMA AllOf ==
    ASSUME NEW S, NEW s \in Seq(S), NEW t \in Seq(S)
    PROVE  ToSet(s \o t) = ToSet(s) \cup ToSet(t)
  <1> DEFINE u == s \o t
  <1>1. u \in Seq(S) /\ Len(u) = Len(s) + Len(t) /\ Len(s) \in Nat /\ Len(t) \in Nat
    OBVIOUS
  <1>2. \A i \in 1..Len(s) : u[i] = s[i] /\ i \in 1..Len(u)
    BY <1>1
  <1>3. \A i \in 1..Len(t) : u[Len(s) + i] = t[i] /\ Len(s) + i \in 1..Len(u)
    BY <1>1
  <1> HIDE DEF u
  <1>0. /\ ToSet(s) = {s[i] : i \in 1..Len(s)} /\ ToSet(t) = {t[i] : i \in 1..Len(t)}
        /\ ToSet(u) = {u[i] : i \in 1..Len(u)}
    <2>1. DOMAIN s = 1..Len(s) /\ DOMAIN t = 1..Len(t) /\ DOMAIN u = 1..Len(u)
      BY <1>1
    <2> QED BY <2>1 DEF ToSet
  <1>4. ASSUME NEW i \in 1..Len(u), i \notin 1..Len(s) PROVE \E j \in 1..Len(t) : i = Len(s) + j
    <2>1. i - Len(s) \in 1..Len(t) /\ i = Len(s) + (i - Len(s))
      BY <1>1, <1>4
    <2> QED BY <2>1
  <1>5. ASSUME NEW i \in 1..Len(u) PROVE u[i] \in ToSet(s) \cup ToSet(t)
    BY <1>0, <1>2, <1>3, <1>4
  <1>6. ASSUME NEW i \in 1..Len(s) PROVE s[i] \in ToSet(u)
    BY <1>0, <1>2
  <1>7. ASSUME NEW i \in 1..Len(t) PROVE t[i] \in ToSet(u)
    BY <1>0, <1>3
  <1> QED BY <1>0, <1>5, <1>6, <1>7 DEF u

\* The processes of the set K are as they should be while the pages of F are free
\* and the kernel has l tables.
Clean(K, F, l) ==
    /\ \A p \in K : Sound(p) /\ \A x \in Held(p) : x \notin F /\ x > PHYSFREE + l
    /\ Apart(K)

\* c is replaced by N, and pages are taken for it.
LEMMA Replaced ==
    ASSUME NEW R, NEW c, NEW N, NEW F, NEW l, NEW A \in SUBSET F,
           \A x \in F : x > PHYSFREE + l,
           Clean(R \cup {c}, F, l), c \notin R,
           \A x \in N : /\ Sound(x)
                        /\ Own(x) \subseteq Own(c) \cup A /\ Held(x) \subseteq Held(c) \cup A,
           \A x \in N, y \in N : x # y => Own(x) \cap Held(y) = {}
    PROVE  Clean(R \cup N, F \ A, l)
  <1>1. Apart(R \cup {c}) /\ \A p \in R \cup {c} : Held(p) \cap A = {}
    BY DEF Clean
  <1>2. Apart(R \cup N)
    BY <1>1, ApartStep
  <1>3. ASSUME NEW p \in R \cup N
        PROVE  Sound(p) /\ \A x \in Held(p) : x \notin F \ A /\ x > PHYSFREE + l
    <2>1. CASE p \in R
      BY <2>1 DEF Clean
    <2>2. CASE p \in N
      <3>1. Sound(p) /\ Held(p) \subseteq Held(c) \cup A
        BY <2>2
      <3>2. \A x \in Held(c) : x \notin F /\ x > PHYSFREE + l
        BY DEF Clean
      <3> QED BY <3>1, <3>2
    <2> QED BY <2>1, <2>2
  <1> QED BY <1>2, <1>3 DEF Clean

\* A process alone, in pages that were free.
LEMMA Alone ==
    ASSUME NEW x, NEW F, NEW l, NEW A \in SUBSET F, \A y \in F : y > PHYSFREE + l,
           Sound(x), Held(x) \subseteq A
    PROVE  Clean({x}, F \ A, l)
  BY DEF Clean, Apart

-----------------------------------------------------------------------------
(* The invariant.                                                          *)

Lists == ToSet(forked) \cup ToSet(stopped)

\* What Boot keeps up; processes exist from the time CR3 is loaded, and what is on
\* the lists came from the chain; every process on them has its pages, which are not
\* free, lie behind the kernel's and are kept apart, and no PCB is there twice.
MemoryInv ==
    /\ BootInv
    /\ chain \in Seq(Processes) /\ forked \in Seq(Processes) /\ stopped \in Seq(Processes)
    /\ stage # "up" => chain = <<>>
    /\ chain = <<>> => forked = <<>> /\ stopped = <<>>
    /\ Clean(Known, free, Len(kernel))
    /\ Distinct(chain, Lists)

\* Three lists one behind the other.
LEMMA AllThree ==
    ASSUME NEW s \in Seq(Processes), NEW t \in Seq(Processes), NEW u \in Seq(Processes)
    PROVE  ToSet(s \o t \o u) = ToSet(s) \cup (ToSet(t) \cup ToSet(u))
  <1> DEFINE v == s \o t
  <1>1. v \in Seq(Processes)
    BY ConcatProperties
  <1>2. ToSet(v) = ToSet(s) \cup ToSet(t)
    BY AllOf
  <1> HIDE DEF v
  <1>3. ToSet(v \o u) = ToSet(v) \cup ToSet(u)
    BY <1>1, AllOf
  <1>4. ToSet(v \o u) = ToSet(s) \cup (ToSet(t) \cup ToSet(u))
    BY <1>2, <1>3
  <1> QED BY <1>4 DEF v

\* The processes on the chain and on the lists.
LEMMA KnownIs ==
    ASSUME chain \in Seq(Processes), forked \in Seq(Processes), stopped \in Seq(Processes)
    PROVE  Known = ToSet(chain) \cup Lists
  BY AllThree DEF Known, Lists

\* No process.
LEMMA NoneKnown == ToSet(<<>>) = {}
  BY DEF ToSet

\* One process.
LEMMA OneKnown ==
    ASSUME NEW x
    PROVE  ToSet(<<x>>) = {x}
  BY DEF ToSet

\* The process that runs and the others.
LEMMA CurrentIs ==
    ASSUME MemoryInv, chain # <<>>
    PROVE  LET R == ToSet(Front(chain)) \cup Lists
           IN  /\ stage = "up" /\ BootInv /\ Current \in Processes /\ Sound(Current)
               /\ Known = R \cup {Current} /\ Current \notin R
               /\ Front(chain) \in Seq(Processes) /\ Len(Front(chain)) = Len(chain) - 1
               /\ ToSet(chain) = ToSet(Front(chain)) \cup {Current}
               /\ Distinct(Front(chain), Lists)
               /\ \A p \in R : p.base # Current.base
               /\ Clean(R \cup {Current}, free, Len(kernel))
               /\ forked \in Seq(Processes) /\ stopped \in Seq(Processes)
  <1>1. /\ chain \in Seq(Processes) /\ forked \in Seq(Processes) /\ stopped \in Seq(Processes)
        /\ Distinct(chain, Lists) /\ stage = "up" /\ BootInv /\ Clean(Known, free, Len(kernel))
    BY DEF MemoryInv
  <1>2. /\ Current \in Processes /\ Front(chain) \in Seq(Processes)
        /\ ToSet(chain) = ToSet(Front(chain)) \cup {Current}
        /\ Len(Front(chain)) = Len(chain) - 1
    BY <1>1, FrontIs DEF Current
  <1>3. Distinct(Front(chain), Lists) /\ \A p \in ToSet(Front(chain)) \cup Lists : p.base # Current.base
    BY <1>1, DistinctFront DEF Current
  <1>4. Known = (ToSet(Front(chain)) \cup Lists) \cup {Current}
    BY <1>1, <1>2, KnownIs
  <1>5. Sound(Current)
    BY <1>1, <1>4 DEF Clean
  <1> QED BY <1>1, <1>2, <1>3, <1>4, <1>5

\* The pages that are taken were free, and no process held them.
LEMMA TakenIs ==
    ASSUME MemoryInv, NEW r \in Seq(Roles), Enough(r)
    PROVE  LET a == Allocated(free, Len(r))
           IN  /\ Ascending(a, free, Len(r)) /\ free \in SUBSET Nat
               /\ \A x \in free : x > PHYSFREE + Len(kernel)
               /\ ToSet(a) \in SUBSET free
               /\ \A j \in 1..Len(r) : a[j] \in ToSet(a) /\ a[j] \in Nat
               /\ \A i \in 1..Len(r), j \in 1..Len(r) : i # j => a[i] # a[j]
  <1> DEFINE n == Len(r)
             a == Allocated(free, n)
  <1>0. n \in Nat
    OBVIOUS
  <1>1. free \in SUBSET Nat /\ \A x \in free : x > PHYSFREE + Len(kernel)
    BY DEF MemoryInv, BootInv
  <1>2. Cardinality(Found(free)) >= n
    <2>1. Cardinality(Found(free)) \in Nat
      BY <1>1, FoundFinite
    <2> QED BY <1>0, <2>1 DEF Enough, Found
  <1> HIDE DEF n
  <1>3. Ascending(Allocated(free, n), free, n)
    BY <1>0, <1>1, <1>2, AllocatedIs
  <1> HIDE DEF a
  <1>4. Ascending(a, free, n)
    BY <1>3 DEF a
  <1>5. DOMAIN a = 1..n /\ \A j \in 1..n : a[j] \in free /\ a[j] \in ToSet(a)
    BY <1>4 DEF Ascending, Found, ToSet
  <1>6. ToSet(a) \in SUBSET free
    BY <1>5 DEF ToSet
  <1>7. ASSUME NEW i \in 1..n, NEW j \in 1..n, i # j PROVE a[i] # a[j]
    <2>1. (i < j => a[i] < a[j]) /\ (j < i => a[j] < a[i])
      BY <1>4 DEF Ascending
    <2>2. i < j \/ j < i
      BY <1>0, <1>7
    <2>3. a[i] \in Nat /\ a[j] \in Nat
      BY <1>1, <1>5
    <2> QED BY <2>1, <2>2, <2>3
  <1> QED BY <1>1, <1>4, <1>5, <1>6, <1>7 DEF a, n

\* Taking pages leaves what Boot has built alone; the page behind one that is
\* taken is not free any more, so that no bits are left in a free page.
LEMMA TakeForBoot ==
    ASSUME BootInv, stage = "up", NEW r, NEW n \in Nat, NEW a, Ascending(a, free, n),
           DOMAIN r = 1..n, NEW B, \A b \in B : \E i \in 1..(n - 1) : b = a[i],
           TakeFor(r, a, B)
    PROVE  /\ BootInv' /\ stage' = "up" /\ kernel' = kernel /\ free' = free \ ToSet(a)
  <1> DEFINE L == Len(kernel)
             A == ToSet(a)
  <1>1. /\ smap \in Smaps /\ kernel \in Seq(Nat) /\ \A i \in 1..L : kernel[i] = PHYSFREE + i
        /\ free \in SUBSET Nat /\ \A p \in free : p > PHYSFREE + L
        /\ IdentityComplete /\ BitsCleared
    BY DEF BootInv, StageInv
  <1>2. /\ free' = free \ A /\ dirty' = dirty \cup Written(r, a) \cup {Fields(b) : b \in B}
        /\ stage' = stage /\ smap' = smap /\ region' = region /\ pt' = pt /\ kernel' = kernel
    BY DEF TakeFor
  <1>3. IdentityComplete'
    BY <1>1, <1>2 DEF IdentityComplete, End
  <1>4. L \in Nat /\ \A x \in ToSet(kernel) : x \in Nat /\ x <= PHYSFREE + L
    <2>1. L \in Nat /\ DOMAIN kernel = 1..L
      BY <1>1
    <2>2. \A x \in ToSet(kernel) : \E i \in 1..L : x = kernel[i]
      BY <2>1 DEF ToSet
    <2> QED BY <1>1, <2>1, <2>2, Constants
  <1>5. DOMAIN a = 1..n /\ \A j \in 1..n : a[j] \in A /\ a[j] \in free /\ a[j] \in Nat
                                           /\ a[j] > PHYSFREE + L
    BY <1>1 DEF Ascending, Found, ToSet
  <1>6. dirty \cap (free \cup ToSet(kernel)) = {}
    BY <1>1 DEF BitsCleared
  <1>7. ASSUME NEW x \in Written(r, a) PROVE x \notin (free \ A) \cup ToSet(kernel)
    <2>1. x \in A /\ x > PHYSFREE + L /\ x \in Nat
      BY <1>5 DEF Written
    <2> HIDE DEF L, A
    <2> QED BY <1>4, <2>1, Constants DEF L
  <1>8. ASSUME NEW b \in B PROVE Fields(b) \notin (free \ A) \cup ToSet(kernel)
    <2>1. PICK i \in 1..(n - 1) : b = a[i]
      OBVIOUS
    <2>2. a[i] + 1 \notin free \ A
      BY <1>1, <2>1, BehindTaken
    <2>3. i \in 1..n
      OBVIOUS
    <2>4. a[i] \in Nat /\ a[i] > PHYSFREE + L
      BY <1>5, <2>3
    <2>5. a[i] + 1 \notin ToSet(kernel)
      <3> HIDE DEF L, A
      <3> QED BY <1>4, <2>4, Constants
    <2> QED BY <2>1, <2>2, <2>5 DEF Fields
  <1>9. BitsCleared'
    <2> SUFFICES ASSUME NEW x \in dirty', x \in free' \cup ToSet(kernel') PROVE FALSE
      BY DEF BitsCleared
    <2>1. x \in (free \ A) \cup ToSet(kernel) /\ (x \in dirty \/ x \in Written(r, a) \/ \E b \in B : x = Fields(b))
      BY <1>2
    <2> HIDE DEF A, L
    <2> QED BY <1>6, <1>7, <1>8, <2>1
  <1>10. StageInv'
    BY <1>2, <1>3, <1>9 DEF StageInv
  <1> QED BY <1>1, <1>2, <1>10 DEF BootInv


\* The pages of g, which are shared, and a stack x for its own.
OwnStack(f, g, x) ==
    /\ f \in PageMaps /\ PageSet(f) \subseteq PageSet(g) \cup {x}
    /\ \A v \in DOMAIN f : ~f[v].cow => f[v].page = x

\* fork makes the pages shared, and the first store gives each process its own stack.
LEMMA SharedStack ==
    ASSUME NEW f \in PageMaps, NEW x \in Nat
    PROVE  OwnStack([Shared(f) EXCEPT ![Stack] = [page |-> x, cow |-> FALSE]], f, x)
  <1> DEFINE D == DOMAIN f
             s == Shared(f)
             e == [page |-> x, cow |-> FALSE]
             g == [s EXCEPT ![Stack] = e]
  <1>1. /\ D \in SUBSET Roles
        /\ \A v \in D : f[v] \in PageEntries /\ f[v].page \in Nat
    BY PageMapIs
  <1>2. s = [v \in D |-> [f[v] EXCEPT !.cow = TRUE]]
    BY DEF Shared
  <1>3. \A v \in D : s[v] \in PageEntries /\ s[v].page = f[v].page /\ s[v].cow = TRUE
    BY <1>1, <1>2 DEF PageEntries
  <1>4. e \in PageEntries /\ e.page = x
    BY DEF PageEntries
  <1>5. DOMAIN s = D
    BY <1>2
  <1>6. g = [v \in D |-> IF v = Stack THEN e ELSE s[v]]
    BY <1>5
  <1> HIDE DEF s, g, e, D
  <1>7. g \in [D -> PageEntries]
    BY <1>3, <1>4, <1>6
  <1>8. g \in PageMaps /\ DOMAIN g = D
    BY <1>1, <1>7, IsPageMap
  <1>9. \A v \in D : (g[v].page = x \/ (g[v].page = f[v].page /\ g[v].cow = TRUE))
    BY <1>3, <1>4, <1>6
  <1>10. PageSet(g) \subseteq PageSet(f) \cup {x}
    BY <1>8, <1>9 DEF PageSet, D
  <1>11. OwnStack(g, f, x)
    BY <1>8, <1>9, <1>10 DEF OwnStack
  <1> QED BY <1>11 DEF g, s, e

\* The pages of a process, and those that it was given in a page fault.
LEMMA OverPages ==
    ASSUME NEW f \in PageMaps, NEW h \in PageMaps, NEW x, \A v \in DOMAIN f : f[v].page = x
    PROVE  LET g == Over(f, h)
           IN  /\ g \in PageMaps /\ PageSet(g) \subseteq PageSet(h) \cup {x}
               /\ \A v \in DOMAIN g : ~g[v].cow => \/ g[v].page = x
                                                   \/ v \in DOMAIN h /\ ~h[v].cow /\ g[v].page = h[v].page
  <1> DEFINE D == DOMAIN f \cup DOMAIN h
             g == Over(f, h)
  <1>1. /\ D \in SUBSET Roles
        /\ \A v \in DOMAIN f : f[v] \in PageEntries
        /\ \A v \in DOMAIN h : h[v] \in PageEntries
    BY PageMapIs
  <1>2. g = [v \in D |-> IF v \in DOMAIN f THEN f[v] ELSE h[v]]
    BY DEF Over
  <1> HIDE DEF g
  <1>3. \A v \in D : \/ v \in DOMAIN f /\ g[v] = f[v]
                     \/ v \in DOMAIN h /\ g[v] = h[v]
    BY <1>2
  <1>4. \A v \in D : g[v] \in PageEntries
    BY <1>1, <1>3
  <1>5. g \in [D -> PageEntries]
    <2> HIDE DEF D
    <2> QED BY <1>2, <1>4
  <1>6. g \in PageMaps /\ DOMAIN g = D
    BY <1>1, <1>5, IsPageMap
  <1>7. PageSet(g) \subseteq PageSet(h) \cup {x}
    BY <1>3, <1>6 DEF PageSet
  <1>8. \A v \in D : ~g[v].cow => \/ g[v].page = x
                                  \/ v \in DOMAIN h /\ ~h[v].cow /\ g[v].page = h[v].page
    BY <1>3
  <1> QED BY <1>6, <1>7, <1>8 DEF g

\* q is p with a page x in the place of one of its pages.
OtherPages(p, q, x) ==
    /\ q \in Processes /\ q.objects = p.objects /\ q.base = p.base /\ q.second = p.second
    /\ PageSet(q.pages) \subseteq PageSet(p.pages) \cup {x}
    /\ \A v \in DOMAIN q.pages :
         ~q.pages[v].cow => \/ q.pages[v].page = x
                            \/ v \in DOMAIN p.pages /\ ~p.pages[v].cow
                               /\ q.pages[v].page = p.pages[v].page

\* execve replaces the stack of the process that goes to forked_process.
LEMMA OtherStack ==
    ASSUME NEW p \in Processes, NEW x \in Nat, NEW o, o = [p EXCEPT !.pages[Stack].page = x]
    PROVE  OtherPages(p, o, x)
  <1> DEFINE f == p.pages
             D == DOMAIN f
             h == [f EXCEPT ![Stack].page = x]
             q == [p EXCEPT !.pages = h]
  <1>1. f \in PageMaps
    BY ProcessType
  <1>2. D \in SUBSET Roles /\ \A v \in D : f[v] \in PageEntries
    BY <1>1, PageMapIs
  <1>3. h = [v \in D |-> IF v = Stack THEN [f[v] EXCEPT !.page = x] ELSE f[v]]
    OBVIOUS
  <1>4. \A v \in D : LET e == [f[v] EXCEPT !.page = x]
                     IN  e \in PageEntries /\ e.page = x
    BY <1>2 DEF PageEntries
  <1>0. o = q
    OBVIOUS
  <1> HIDE DEF h
  <1>5. \A v \in D : /\ h[v] \in PageEntries
                     /\ h[v].page = x \/ h[v] = f[v]
    BY <1>2, <1>3, <1>4
  <1>6. h \in [D -> PageEntries]
    <2> HIDE DEF D
    <2> QED BY <1>3, <1>5
  <1>7. h \in PageMaps /\ DOMAIN h = D
    BY <1>2, <1>6, IsPageMap
  <1>8. /\ q \in Processes /\ q.pages = h /\ q.objects = p.objects
        /\ q.base = p.base /\ q.second = p.second
    BY <1>7, NewPages
  <1> HIDE DEF q, f
  <1>9. PageSet(h) \subseteq PageSet(f) \cup {x}
    BY <1>5, <1>7 DEF PageSet
  <1>10. \A v \in D : ~h[v].cow => h[v].page = x \/ (~f[v].cow /\ h[v].page = f[v].page)
    BY <1>5
  <1>11. DOMAIN q.pages = D /\ D = DOMAIN p.pages
    BY <1>7, <1>8 DEF f
  <1>12. OtherPages(p, q, x)
    BY <1>8, <1>9, <1>10, <1>11 DEF OtherPages, f
  <1> QED BY <1>0, <1>12

\* A process after it was given a page x that nobody has.
LEMMA Given ==
    ASSUME NEW c \in Processes, Sound(c), NEW q, NEW x, OtherPages(c, q, x), x \notin Held(c)
    PROVE  /\ Sound(q) /\ Own(q) \subseteq Own(c) \cup {x} /\ Held(q) \subseteq Held(c) \cup {x}
  <1>0. /\ q \in Processes /\ q.objects = c.objects /\ q.base = c.base /\ q.second = c.second
        /\ PageSet(q.pages) \subseteq PageSet(c.pages) \cup {x}
        /\ \A v \in DOMAIN q.pages :
             ~q.pages[v].cow => \/ q.pages[v].page = x
                                \/ v \in DOMAIN c.pages /\ ~c.pages[v].cow
                                   /\ q.pages[v].page = c.pages[v].page
    BY DEF OtherPages
  <1>1. Held(c) = c.objects \cup PageSet(c.pages) /\ Held(q) = c.objects \cup PageSet(q.pages)
    BY <1>0, HeldIs
  <1>2. c.base \in c.objects /\ c.second \in c.objects /\ c.objects \cap PageSet(c.pages) = {}
    BY DEF Sound
  <1>3. Sound(q)
    BY <1>0, <1>1, <1>2 DEF Sound
  <1>4. Own(q) \subseteq Own(c) \cup {x}
    <2> SUFFICES ASSUME NEW y \in Own(q) PROVE y \in Own(c) \cup {x}
      OBVIOUS
    <2>1. CASE y \in c.objects
      BY <2>1, HeldIs
    <2>2. CASE \E v \in DOMAIN q.pages : ~q.pages[v].cow /\ y = q.pages[v].page
      <3>1. PICK v \in DOMAIN q.pages : ~q.pages[v].cow /\ y = q.pages[v].page
        BY <2>2
      <3>2. y = x \/ (v \in DOMAIN c.pages /\ ~c.pages[v].cow /\ y = c.pages[v].page)
        BY <1>0, <3>1
      <3> QED BY <3>2, HeldIs
    <2> QED BY <1>0, <2>1, <2>2 DEF Own
  <1> QED BY <1>0, <1>1, <1>3, <1>4

-----------------------------------------------------------------------------

\* It holds before start runs.
LEMMA MemoryInit == Init => MemoryInv
  <1> SUFFICES ASSUME Init PROVE MemoryInv
    OBVIOUS
  <1>1. BootInv /\ stage # "up"
    BY BootInitInv DEF Init, BootInit
  <1>2. chain = <<>> /\ forked = <<>> /\ stopped = <<>>
    BY DEF Init
  <1>3. chain \in Seq(Processes) /\ forked \in Seq(Processes) /\ stopped \in Seq(Processes)
    BY <1>2
  <1>4. Known = {}
    BY <1>2, <1>3, KnownIs, NoneKnown DEF Lists
  <1>5. Clean({}, free, Len(kernel)) /\ Distinct(<<>>, Lists)
    BY NoneKnown DEF Clean, Apart, Distinct
  <1> QED BY <1>1, <1>2, <1>3, <1>4, <1>5 DEF MemoryInv

\* Up to the load of CR3 there is no process.
LEMMA BootStepInv == MemoryInv /\ BootNext /\ UNCHANGED <<chain, forked, stopped>> => MemoryInv'
  <1> SUFFICES ASSUME MemoryInv, BootNext, UNCHANGED <<chain, forked, stopped>> PROVE MemoryInv'
    OBVIOUS
  <1>1. BootInv'
    BY ScanSmapInv, InitPagingInv, SetupPageTablesInv, SetIdentityPagingInv DEF BootNext, MemoryInv
  <1>2. stage # "up"
    BY DEF BootNext, ScanSmap, InitPaging, SetupPageTables, SetIdentityPaging
  <1>3. chain = <<>> /\ forked = <<>> /\ stopped = <<>>
    BY <1>2 DEF MemoryInv
  <1>4. chain' = <<>> /\ forked' = <<>> /\ stopped' = <<>>
    BY <1>3
  <1>5. chain' \in Seq(Processes) /\ forked' \in Seq(Processes) /\ stopped' \in Seq(Processes)
    BY <1>4
  <1>6. Lists' = {} /\ Known' = {}
    <2>1. Lists' = {}
      BY <1>4, NoneKnown DEF Lists
    <2>2. Known' = ToSet(<<>>) \cup Lists'
      <3>1. chain \in Seq(Processes) /\ forked \in Seq(Processes) /\ stopped \in Seq(Processes)
        BY DEF MemoryInv
      <3>2. Known = ToSet(chain) \cup Lists
        BY <3>1, KnownIs
      <3>3. Known' = Known /\ Lists' = Lists
        BY DEF Known, Lists
      <3> QED BY <1>3, <3>2, <3>3
    <2> QED BY <2>1, <2>2, NoneKnown
  <1>7. Clean({}, free', Len(kernel')) /\ Distinct(<<>>, {})
    BY NoneKnown DEF Clean, Apart, Distinct
  <1> QED BY <1>1, <1>4, <1>5, <1>6, <1>7 DEF MemoryInv


\* The first process has pages that were free and lie behind the tables.
LEMMA CreateKernelThreadInv == MemoryInv /\ CreateKernelThread => MemoryInv'
  <1> SUFFICES ASSUME MemoryInv, CreateKernelThread PROVE MemoryInv'
    OBVIOUS
  <1> DEFINE r == KernelRoles(InitProgram)
             n == Len(r)
             a == Allocated(free, n)
             A == ToSet(a)
             x == Process(InitProgram, TRUE, 3, r, a, Pages(r, a))
             l == Len(kernel)
  <1>1. /\ stage = "up" /\ chain = <<>> /\ Enough(r) /\ TakeFor(r, a, {a[1], a[3]})
        /\ chain' = <<x>> /\ forked' = forked /\ stopped' = stopped
    BY DEF CreateKernelThread
  <1>2. r \in Seq(Roles) /\ n \in Nat /\ n >= 5 /\ r[3] = <<"pcb", 0>> /\ r[4] = <<"second", 0>>
    BY KernelRolesAre DEF Has
  <1> HIDE DEF r
  <1>3. /\ Ascending(a, free, n) /\ free \in SUBSET Nat
        /\ \A y \in free : y > PHYSFREE + l
        /\ A \in SUBSET free
    BY <1>1, <1>2, TakenIs
  <1>4. DOMAIN r = 1..n /\ 1 \in 1..(n - 1) /\ 3 \in 1..(n - 1) /\ n <= n /\ 3 + 1 = 4
    BY <1>2
  <1> HIDE DEF n, a, A
  <1>5. \A b \in {a[1], a[3]} : \E i \in 1..(n - 1) : b = a[i]
    BY <1>4
  <1>6. BootInv' /\ stage' = "up" /\ kernel' = kernel /\ free' = free \ A
    <2>1. BootInv
      BY DEF MemoryInv
    <2> QED BY <1>1, <1>2, <1>3, <1>4, <1>5, <2>1, TakeForBoot DEF A
  <1>7. Sound(x) /\ Held(x) \subseteq A
    <2>1. InitProgram \in Programs
      BY MemoryAssumption
    <2>2. Len(r) <= n /\ 3 \in 1..(Len(r) - 1) /\ r[3 + 1] = <<"second", 0>>
      BY <1>2, <1>4 DEF n
    <2>3. Sound(x) /\ Held(x) \subseteq ToSet(a)
      BY <1>2, <1>3, <2>1, <2>2, NewProgram
    <2> QED BY <2>3 DEF A
  <1> HIDE DEF x, l
  <1>8. forked = <<>> /\ stopped = <<>> /\ x \in Processes
    BY <1>1, <1>7 DEF MemoryInv, Sound
  <1>9. chain' = <<x>> /\ forked' = <<>> /\ stopped' = <<>>
    BY <1>1, <1>8
  <1>10. chain' \in Seq(Processes) /\ forked' \in Seq(Processes) /\ stopped' \in Seq(Processes)
         /\ chain' # <<>>
    BY <1>8, <1>9
  <1>11. Lists' = {} /\ ToSet(chain') = {x}
    BY <1>9, NoneKnown, OneKnown DEF Lists
  <1>12. Known' = {x}
    BY <1>10, <1>11, AllThree DEF Known, Lists
  <1>13. Clean({x}, free \ A, l)
    BY <1>3, <1>7, Alone
  <1>14. Clean(Known', free', Len(kernel'))
    BY <1>6, <1>12, <1>13 DEF l
  <1>15. Distinct(chain', Lists')
    <2>1. Len(<<x>>) = 1
      OBVIOUS
    <2>2. \A i \in 1..1, j \in 1..1 : i = j
      OBVIOUS
    <2> QED BY <1>9, <1>11, <2>1, <2>2 DEF Distinct
  <1> QED BY <1>6, <1>10, <1>14, <1>15 DEF MemoryInv

\* A step in which the process that runs is replaced by others.
LEMMA ReplacedInv ==
    ASSUME MemoryInv, chain # <<>>, BootInv', stage' = "up", kernel' = kernel,
           NEW A \in SUBSET free, free' = free \ A, NEW N,
           \A x \in N : /\ Sound(x)
                        /\ Own(x) \subseteq Own(Current) \cup A
                        /\ Held(x) \subseteq Held(Current) \cup A,
           \A x \in N, y \in N : x # y => Own(x) \cap Held(y) = {},
           chain' \in Seq(Processes), forked' \in Seq(Processes), stopped' \in Seq(Processes),
           chain' # <<>>,
           ToSet(chain') \cup Lists' = ToSet(Front(chain)) \cup Lists \cup N,
           Distinct(chain', Lists')
    PROVE  MemoryInv'
  <1> DEFINE R == ToSet(Front(chain)) \cup Lists
             l == Len(kernel)
  <1>1. /\ Current \notin R /\ Clean(R \cup {Current}, free, l)
    BY CurrentIs
  <1>2. \A x \in free : x > PHYSFREE + l
    BY DEF MemoryInv, BootInv
  <1> HIDE DEF R, l
  <1>3. Clean(R \cup N, free \ A, l)
    BY <1>1, <1>2, Replaced
  <1>4. Known' = R \cup N
    BY AllThree DEF Known, Lists, R
  <1>5. Clean(Known', free', Len(kernel'))
    BY <1>3, <1>4 DEF l
  <1> QED BY <1>5 DEF MemoryInv

\* A page that a program writes to has a role.
LEMMA StoresAre ==
    ASSUME NEW p \in Processes, NEW v \in Stores(p)
    PROVE  v \in Roles
  <1>1. p.program \in Programs
    BY ProcessType
  <1>2. p.program.data \in Nat /\ MaxHeap \in Nat
    <2>1. p.program.data \in Nat
      BY <1>1, MemoryAssumption
    <2>2. {FreeLimit, MaxHeap, MaxCommands, MaxDepth} \subseteq Nat
      BY MemoryAssumption
    <2> QED BY <2>1, <2>2
  <1>3. \A i \in Nat : DataPage(i) \in Roles /\ HeapPage(i) \in Roles
    BY NamesAre DEF DataPage, HeapPage, Roles
  <1>4. CASE v \in {DataPage(i) : i \in 1..p.program.data}
    <2>1. PICK i \in 1..p.program.data : v = DataPage(i)
      BY <1>4
    <2>2. i \in Nat
      BY <1>2
    <2> QED BY <1>3, <2>1, <2>2
  <1>5. CASE v \in {HeapPage(i) : i \in 0..(MaxHeap - 1)}
    <2>1. PICK i \in 0..(MaxHeap - 1) : v = HeapPage(i)
      BY <1>5
    <2>2. i \in Nat
      BY <1>2
    <2> QED BY <1>3, <2>1, <2>2
  <1> QED BY <1>4, <1>5 DEF Stores

\* A page fault gives the process a page that was free, in the place of a shared one
\* or of none.
LEMMA FaultInv ==
    ASSUME MemoryInv, chain # <<>>, NEW v \in Stores(Current), Fault(v)
    PROVE  MemoryInv'
  <1> DEFINE r == FaultRoles(v)
             a == Allocated(free, Len(r))
             A == ToSet(a)
             c == Current
             f == Pages(r, a)
             g == Over(f, c.pages)
             q == [c EXCEPT !.pages = g]
             F == Front(chain)
  <1>1. /\ Enough(r) /\ TakeFor(r, a, {}) /\ chain' = F \o <<q>>
        /\ forked' = forked /\ stopped' = stopped
    BY DEF Fault
  <1>2. /\ stage = "up" /\ BootInv /\ c \in Processes /\ Sound(c) /\ F \in Seq(Processes)
        /\ Distinct(F, Lists) /\ \A p \in ToSet(F) \cup Lists : p.base # c.base
        /\ Clean(ToSet(F) \cup Lists \cup {c}, free, Len(kernel))
        /\ forked \in Seq(Processes) /\ stopped \in Seq(Processes)
    BY CurrentIs
  <1>3. /\ v \in Roles /\ r \in Seq(Roles) /\ Len(r) = 2
        /\ r[1] = <<"copied", 0>> /\ r[2] = v
    BY <1>2, StoresAre, FaultRolesAre
  <1> HIDE DEF r, c, F
  <1>4. /\ Ascending(a, free, Len(r)) /\ free \in SUBSET Nat /\ A \in SUBSET free
        /\ \A j \in 1..Len(r) : a[j] \in A
    BY <1>1, <1>3, TakenIs
  <1>5. DOMAIN r = 1..Len(r) /\ Len(r) \in Nat /\ Len(r) <= Len(r) /\ 2 \in 1..Len(r)
    BY <1>3
  <1> HIDE DEF a, A
  <1>6. BootInv' /\ stage' = "up" /\ kernel' = kernel /\ free' = free \ A
    <2>1. \A b \in {} : \E i \in 1..(Len(r) - 1) : b = a[i]
      OBVIOUS
    <2>2. /\ BootInv /\ stage = "up" /\ Len(r) \in Nat /\ DOMAIN r = 1..Len(r)
          /\ Ascending(a, free, Len(r)) /\ TakeFor(r, a, {})
      BY <1>1, <1>2, <1>4, <1>5
    <2> QED BY <2>1, <2>2, TakeForBoot DEF A
  <1>7. f \in PageMaps /\ \A w \in DOMAIN f : f[w].page = a[2]
    <2>1. OfAreas(f, r, a)
      BY <1>3, <1>4, <1>5, PagesAre
    <2> HIDE DEF f
    <2>2. ASSUME NEW w \in DOMAIN f PROVE f[w].page = a[2]
      <3>1. PICK j \in 1..Len(r) : r[j][1] \in UserAreas /\ f[w].page = a[j]
        BY <2>1 DEF OfAreas
      <3>2. r[1][1] = "copied" /\ "copied" \notin UserAreas
        BY <1>3 DEF UserAreas
      <3>3. j = 1 \/ j = 2
        BY <1>3
      <3> QED BY <3>1, <3>2, <3>3
    <2> QED BY <2>1, <2>2 DEF OfAreas
  <1> HIDE DEF f
  <1> DEFINE h == c.pages
             y == a[2]
  <1>8. h \in PageMaps
    BY <1>2, ProcessType
  <1>9. /\ g \in PageMaps /\ PageSet(g) \subseteq PageSet(h) \cup {y}
        /\ \A w \in DOMAIN g : ~g[w].cow => \/ g[w].page = y
                                            \/ w \in DOMAIN h /\ ~h[w].cow /\ g[w].page = h[w].page
    <2> HIDE DEF h, y
    <2>1. \A w \in DOMAIN f : f[w].page = y
      BY <1>7 DEF y
    <2>2. g = Over(f, h)
      BY DEF h
    <2> HIDE DEF g
    <2> QED BY <1>7, <1>8, <2>1, <2>2, OverPages
  <1> HIDE DEF g
  <1>10. /\ q \in Processes /\ q.pages = g /\ q.objects = c.objects
         /\ q.base = c.base /\ q.second = c.second
    BY <1>2, <1>9, NewPages
  <1> HIDE DEF q
  <1>11. a[2] \in A /\ a[2] \notin Held(c)
    <2>1. a[2] \in A
      BY <1>4, <1>5
    <2>2. a[2] \in free
      BY <1>4, <2>1
    <2> QED BY <1>2, <2>1, <2>2 DEF Clean
  <1>12. /\ Sound(q) /\ Own(q) \subseteq Own(c) \cup {y} /\ Held(q) \subseteq Held(c) \cup {y}
    <2>1. y \notin Held(c)
      BY <1>11
    <2> HIDE DEF y
    <2>2. OtherPages(c, q, y)
      BY <1>9, <1>10 DEF OtherPages, h
    <2> QED BY <1>2, <2>1, <2>2, Given
  <1>13. \A x \in {q} : Sound(x) /\ Own(x) \subseteq Own(c) \cup A /\ Held(x) \subseteq Held(c) \cup A
    BY <1>11, <1>12
  <1>14. \A x \in {q}, z \in {q} : x # z => Own(x) \cap Held(z) = {}
    OBVIOUS
  <1>15. chain' \in Seq(Processes) /\ ToSet(chain') = ToSet(F) \cup {q} /\ chain' # <<>>
    <2>1. F \o <<q>> \in Seq(Processes) /\ ToSet(F \o <<q>>) = ToSet(F) \cup {q}
          /\ Len(F \o <<q>>) = Len(F) + 1
      BY <1>2, <1>10, OneMoreIs
    <2>2. ToSet(<<>>) = {} /\ q \in ToSet(F \o <<q>>)
      BY <2>1, NoneKnown
    <2> QED BY <1>1, <2>1, <2>2
  <1>16. Lists' = Lists
    BY <1>1 DEF Lists
  <1>17. Distinct(chain', Lists')
    <2>1. \A p \in ToSet(F) \cup Lists : p.base # q.base
      BY <1>2, <1>10
    <2>2. Distinct(F \o <<q>>, Lists)
      BY <1>2, <1>10, <2>1, DistinctMore
    <2> QED BY <1>1, <1>16, <2>2
  <1>18. ToSet(chain') \cup Lists' = ToSet(F) \cup Lists \cup {q}
    BY <1>15, <1>16
  <1>19. forked' \in Seq(Processes) /\ stopped' \in Seq(Processes)
    BY <1>1, <1>2
  <1>20. A \in SUBSET free
    BY <1>4
  <1> DEFINE N == {q}
  <1>21. /\ \A x \in N : /\ Sound(x)
                        /\ Own(x) \subseteq Own(Current) \cup A
                        /\ Held(x) \subseteq Held(Current) \cup A
         /\ \A x \in N, z \in N : x # z => Own(x) \cap Held(z) = {}
         /\ ToSet(chain') \cup Lists' = ToSet(Front(chain)) \cup Lists \cup N
    BY <1>13, <1>14, <1>18 DEF c, F
  <1> HIDE DEF N
  <1> QED BY <1>6, <1>15, <1>17, <1>19, <1>20, <1>21, ReplacedInv


\* What execve puts on forked_process is not on the chain any more.
LEMMA DistinctOther ==
    ASSUME NEW c, NEW Q, Distinct(c, Q), NEW p, \A q \in ToSet(c) : q.base # p.base
    PROVE  Distinct(c, Q \cup {p})
  BY DEF Distinct

\* execve: the new process gets pages that were free, and the old one one of them for
\* its stack, which the new one does not use.
LEMMA ExecveInv ==
    ASSUME MemoryInv, NEW g \in Programs, Execve(g)
    PROVE  MemoryInv'
  <1> DEFINE r == LoadRoles(g)
             a == Allocated(free, Len(r))
             A == ToSet(a)
             c == Current
             old == [c EXCEPT !.pages[Stack].page = a[4]]
             new == Process(g, TRUE, 1, r, a, Pages(r, a))
             F == Front(chain)
             y == a[4]
             N == {old, new}
  <1>1. /\ Enough(r) /\ TakeFor(r, a, {a[1]}) /\ chain' = F \o <<new>>
        /\ forked' = Append(forked, old) /\ stopped' = stopped /\ Len(chain) > 1
    BY DEF Execve
  <1>0. chain # <<>>
    <2>1. Len(<<>>) = 0
      OBVIOUS
    <2> QED BY <1>1, <2>1
  <1>2. /\ stage = "up" /\ BootInv /\ c \in Processes /\ Sound(c) /\ F \in Seq(Processes)
        /\ Distinct(F, Lists) /\ \A p \in ToSet(F) \cup Lists : p.base # c.base
        /\ Clean(ToSet(F) \cup Lists \cup {c}, free, Len(kernel))
        /\ forked \in Seq(Processes) /\ stopped \in Seq(Processes)
    BY <1>0, CurrentIs
  <1>3. /\ r \in Seq(Roles) /\ Len(r) \in Nat /\ Len(r) >= 4
        /\ r[1] = <<"pcb", 0>> /\ r[2] = <<"second", 0>> /\ r[4] = <<"spare", 0>>
    BY LoadRolesAre DEF Has
  <1> HIDE DEF r, c, F
  <1>4. /\ Ascending(a, free, Len(r)) /\ free \in SUBSET Nat /\ A \in SUBSET free
        /\ \A j \in 1..Len(r) : a[j] \in A /\ a[j] \in Nat
    BY <1>1, <1>3, TakenIs
  <1>5. /\ DOMAIN r = 1..Len(r) /\ Len(r) <= Len(r) /\ 1 \in 1..Len(r) /\ 4 \in 1..Len(r)
        /\ 1 \in 1..(Len(r) - 1) /\ 1 + 1 = 2
    BY <1>3
  <1> HIDE DEF a, A
  <1>6. BootInv' /\ stage' = "up" /\ kernel' = kernel /\ free' = free \ A
    <2>1. \A b \in {a[1]} : \E i \in 1..(Len(r) - 1) : b = a[i]
      BY <1>5
    <2>2. /\ BootInv /\ stage = "up" /\ Len(r) \in Nat /\ DOMAIN r = 1..Len(r)
          /\ Ascending(a, free, Len(r)) /\ TakeFor(r, a, {a[1]})
      BY <1>1, <1>2, <1>3, <1>4, <1>5
    <2> QED BY <2>1, <2>2, TakeForBoot DEF A
  <1>7. /\ Sound(new) /\ new.base = a[1] /\ Held(new) \subseteq A /\ y \notin Held(new)
    <2>1. /\ Sound(new) /\ new.base = a[1] /\ Held(new) \subseteq ToSet(a)
          /\ \A j \in 1..Len(r) : r[j] = <<"spare", 0>> => a[j] \notin Held(new)
      BY <1>3, <1>4, <1>5, NewProgram
    <2> QED BY <1>3, <1>5, <2>1 DEF A
  <1> HIDE DEF new
  <1>8. y \in Nat /\ y \in A /\ a[1] \in A
    BY <1>4, <1>5
  <1>9. \A p \in ToSet(F) \cup Lists \cup {c} :
          /\ Held(p) \cap A = {} /\ p.base # a[1]
    <2> SUFFICES ASSUME NEW p \in ToSet(F) \cup Lists \cup {c} PROVE Held(p) \cap A = {} /\ p.base # a[1]
      OBVIOUS
    <2>1. Sound(p) /\ Held(p) \cap A = {}
      BY <1>2, <1>4 DEF Clean
    <2>2. p.base \in Held(p)
      BY <2>1, HeldIs DEF Sound
    <2> QED BY <1>8, <2>1, <2>2
  <1>10. OtherPages(c, old, y)
    <2> HIDE DEF y, old
    <2>1. old = [c EXCEPT !.pages[Stack].page = y]
      BY DEF y, old
    <2> QED BY <1>2, <1>8, <2>1, OtherStack
  <1> HIDE DEF old, y
  <1>22. old \in Processes /\ old.base = c.base
    BY <1>10 DEF OtherPages
  <1>11. Sound(old) /\ Own(old) \subseteq Own(c) \cup {y} /\ Held(old) \subseteq Held(c) \cup {y}
    <2>1. y \notin Held(c)
      BY <1>8, <1>9
    <2> QED BY <1>2, <1>10, <2>1, Given
  <1>12. Own(c) \subseteq Held(c) /\ Own(new) \subseteq Held(new) /\ Held(c) \cap A = {}
    BY <1>9, HeldIs
  <1>13. \A x \in N : /\ Sound(x) /\ Own(x) \subseteq Own(c) \cup A /\ Held(x) \subseteq Held(c) \cup A
    BY <1>7, <1>8, <1>11, <1>12
  <1>14. \A x \in N, z \in N : x # z => Own(x) \cap Held(z) = {}
    <2>1. Own(old) \cap Held(new) = {} /\ Own(new) \cap Held(old) = {}
      BY <1>7, <1>11, <1>12
    <2> QED BY <2>1
  <1>15. new \in Processes
    BY <1>7 DEF Sound
  <1>16. chain' \in Seq(Processes) /\ ToSet(chain') = ToSet(F) \cup {new} /\ chain' # <<>>
    <2>1. /\ F \o <<new>> \in Seq(Processes) /\ ToSet(F \o <<new>>) = ToSet(F) \cup {new}
      BY <1>2, <1>15, OneMoreIs
    <2>2. ToSet(<<>>) = {} /\ new \in ToSet(F \o <<new>>)
      BY <2>1, NoneKnown
    <2> QED BY <1>1, <2>1, <2>2
  <1>17. forked' \in Seq(Processes) /\ stopped' \in Seq(Processes) /\ Lists' = Lists \cup {old}
    <2>1. /\ forked \o <<old>> \in Seq(Processes)
          /\ ToSet(forked \o <<old>>) = ToSet(forked) \cup {old}
      BY <1>2, <1>22, OneMoreIs
    <2>2. Append(forked, old) = forked \o <<old>>
      BY <1>2, <1>22, AppendIsConcat
    <2>3. forked' = forked \o <<old>>
      BY <1>1, <2>2
    <2>4. Lists' = ToSet(forked') \cup ToSet(stopped')
      BY DEF Lists
    <2> QED BY <1>1, <1>2, <2>1, <2>3, <2>4 DEF Lists
  <1>18. Distinct(chain', Lists')
    <2>1. Distinct(F, Lists \cup {old})
      BY <1>2, <1>22, DistinctOther
    <2>2. \A p \in ToSet(F) \cup (Lists \cup {old}) : p.base # new.base
      BY <1>7, <1>9, <1>22
    <2>3. Distinct(F \o <<new>>, Lists \cup {old})
      BY <1>2, <1>15, <2>1, <2>2, DistinctMore
    <2> QED BY <1>1, <1>17, <2>3
  <1>19. ToSet(chain') \cup Lists' = ToSet(F) \cup Lists \cup N
    BY <1>16, <1>17
  <1> HIDE DEF N
  <1>20. /\ \A x \in N : /\ Sound(x)
                        /\ Own(x) \subseteq Own(Current) \cup A
                        /\ Held(x) \subseteq Held(Current) \cup A
         /\ ToSet(chain') \cup Lists' = ToSet(Front(chain)) \cup Lists \cup N
    BY <1>13, <1>19 DEF c, F
  <1>21. A \in SUBSET free
    BY <1>4
  <1> QED BY <1>0, <1>6, <1>14, <1>16, <1>17, <1>18, <1>20, <1>21, ReplacedInv

\* sys_exit: the processes that are released are not on the chain, so that none that
\* stays uses a page that they had for their own.
LEMMA SysExitInv == MemoryInv /\ SysExit => MemoryInv'
  <1> SUFFICES ASSUME MemoryInv, SysExit PROVE MemoryInv'
    OBVIOUS
  <1> DEFINE back == UNION {Returned(p) : p \in ToSet(stopped \o forked)}
             c == Current
             F == Front(chain)
             l == Len(kernel)
  <1>1. /\ free' \subseteq free \cup back /\ dirty' = dirty \ back
        /\ chain' = F /\ forked' = <<>> /\ stopped' = <<c>> /\ Len(chain) > 2
        /\ stage' = stage /\ smap' = smap /\ region' = region /\ pt' = pt /\ kernel' = kernel
    BY DEF SysExit
  <1>0. chain # <<>>
    <2>1. Len(<<>>) = 0
      OBVIOUS
    <2> QED BY <1>1, <2>1
  <1>2. /\ stage = "up" /\ BootInv /\ c \in Processes /\ Sound(c) /\ F \in Seq(Processes)
        /\ Len(F) = Len(chain) - 1
        /\ Distinct(F, Lists) /\ \A p \in ToSet(F) \cup Lists : p.base # c.base
        /\ Clean(ToSet(F) \cup Lists \cup {c}, free, l)
        /\ forked \in Seq(Processes) /\ stopped \in Seq(Processes)
    BY <1>0, CurrentIs
  <1>3. ToSet(stopped \o forked) = Lists
    BY <1>2, AllOf DEF Lists
  <1>4. \A x \in back : \E p \in Lists : x \in Own(p)
    BY <1>3 DEF Returned, Own
  <1> HIDE DEF back, c, F, l
  <1>5. /\ smap \in Smaps /\ kernel \in Seq(Nat) /\ \A i \in 1..l : kernel[i] = PHYSFREE + i
        /\ free \in SUBSET Nat /\ \A p \in free : p > PHYSFREE + l
        /\ IdentityComplete /\ BitsCleared
    BY <1>2 DEF BootInv, StageInv, l
  <1>6. \A x \in back : x \in Nat /\ x > PHYSFREE + l
    <2> SUFFICES ASSUME NEW x \in back PROVE x \in Nat /\ x > PHYSFREE + l
      OBVIOUS
    <2>1. PICK p \in Lists : x \in Own(p)
      BY <1>4
    <2>2. x \in Held(p) /\ Held(p) = p.objects \cup PageSet(p.pages)
      BY <2>1, HeldIs
    <2>3. Sound(p) /\ x > PHYSFREE + l
      BY <1>2, <2>2 DEF Clean
    <2>4. p \in Processes
      BY <2>3 DEF Sound
    <2>5. p.objects \subseteq Nat /\ PageSet(p.pages) \subseteq Nat
      BY <2>4, ProcessType, PageMapIs
    <2> QED BY <2>2, <2>3, <2>5
  <1>7. free' \in SUBSET Nat /\ \A p \in free' : p > PHYSFREE + l
    BY <1>1, <1>5, <1>6
  <1>8. IdentityComplete'
    BY <1>1, <1>5 DEF IdentityComplete, End
  <1>9. BitsCleared'
    <2>1. \A x \in ToSet(kernel) : \E i \in 1..l : x = kernel[i]
      BY <1>5 DEF ToSet, l
    <2>2. dirty \cap (free \cup ToSet(kernel)) = {}
      BY <1>2, <1>5 DEF BitsCleared
    <2>3. dirty' \cap (free' \cup ToSet(kernel)) = {}
      BY <1>1, <2>2
    <2> QED BY <1>1, <2>3 DEF BitsCleared
  <1>10. BootInv'
    <2>1. StageInv'
      BY <1>1, <1>2, <1>8, <1>9 DEF StageInv
    <2> QED BY <1>1, <1>5, <1>7, <2>1 DEF BootInv, l
  <1>11. /\ chain' \in Seq(Processes) /\ forked' \in Seq(Processes) /\ stopped' \in Seq(Processes)
         /\ chain' # <<>>
    <2>1. F # <<>>
      <3>1. Len(chain) \in Nat
        BY DEF MemoryInv
      <3>2. Len(chain) > 2 /\ Len(F) = Len(chain) - 1
        BY <1>1, <1>2
      <3>3. Len(F) # 0
        BY <3>1, <3>2
      <3>4. Len(<<>>) = 0
        OBVIOUS
      <3> QED BY <3>3, <3>4
    <2> QED BY <1>1, <1>2, <2>1
  <1>12. Lists' = {c} /\ Known' = ToSet(F) \cup {c}
    <2>1. Lists' = {c}
      BY <1>1, NoneKnown, OneKnown DEF Lists
    <2>2. Known' = ToSet(chain') \cup Lists'
      BY <1>11, AllThree DEF Known, Lists
    <2> QED BY <1>1, <2>1, <2>2
  <1>13. ASSUME NEW p \in ToSet(F) \cup {c}
         PROVE  Sound(p) /\ \A x \in Held(p) : x \notin free' /\ x > PHYSFREE + l
    <2>1. Sound(p) /\ \A x \in Held(p) : x \notin free /\ x > PHYSFREE + l
      BY <1>2 DEF Clean
    <2>2. ASSUME NEW x \in Held(p), x \in back PROVE FALSE
      <3>1. PICK q \in Lists : x \in Own(q)
        BY <1>4, <2>2
      <3>2. p.base # q.base
        BY <1>2, <3>1 DEF Distinct
      <3> QED BY <1>2, <2>2, <3>1, <3>2 DEF Clean, Apart
    <2> QED BY <1>1, <2>1, <2>2
  <1>14. Clean(Known', free', Len(kernel'))
    <2>1. Apart(ToSet(F) \cup {c})
      BY <1>2 DEF Clean, Apart
    <2>2. Clean(ToSet(F) \cup {c}, free', l)
      BY <1>13, <2>1 DEF Clean
    <2> QED BY <1>1, <1>12, <2>2 DEF l
  <1>15. Distinct(chain', Lists')
    <2>1. Distinct(F, {c})
      BY <1>2 DEF Distinct
    <2> QED BY <1>1, <1>12, <2>1
  <1> QED BY <1>1, <1>2, <1>10, <1>11, <1>14, <1>15 DEF MemoryInv


\* a has n different pages of A.
Taken(a, n, A) ==
    /\ \A j \in 1..n : a[j] \in A /\ a[j] \in Nat
    /\ \A i \in 1..n, j \in 1..n : i # j => a[i] # a[j]

\* p is c with the pages f.
Remapped(p, c, f) ==
    /\ p \in Processes /\ p.pages = f /\ p.objects = c.objects
    /\ p.base = c.base /\ p.second = c.second

\* c became p and has a child q, with the pages of A.
Forked(c, p, q, A) ==
    /\ p \in Processes /\ p.base = c.base /\ q \in Processes
    /\ \A x \in {p, q} : Sound(x) /\ Own(x) \subseteq Own(c) \cup A /\ Held(x) \subseteq Held(c) \cup A
    /\ \A x \in {p, q}, z \in {p, q} : x # z => Own(x) \cap Held(z) = {}

\* A parent with a stack of its own, and its child.
LEMMA ForkProcesses ==
    ASSUME NEW c \in Processes, Sound(c), NEW r, NEW n \in Nat, Len(r) = n,
           NEW a, NEW A, Taken(a, n + 4, A), Held(c) \cap A = {},
           NEW f, OwnStack(f, c.pages, a[n + 2]), NEW g, OwnStack(g, c.pages, a[n + 4]),
           NEW p, Remapped(p, c, f), NEW q, Fresh(q, 1, r, a, g)
    PROVE  Forked(c, p, q, A)
  <1> DEFINE h == c.pages
             y == a[n + 2]
             w == a[n + 4]
  <1>2. n + 2 \in 1..(n + 4) /\ n + 4 \in 1..(n + 4) /\ 1 \in 1..(n + 4) /\ n + 2 # n + 4
        /\ \A j \in 1..n : j \in 1..(n + 4) /\ j # n + 2 /\ j # n + 4
    OBVIOUS
  <1>3. y \in Nat /\ y \in A /\ w \in Nat /\ w \in A /\ y # w
    BY <1>2 DEF Taken
  <1>4. /\ f \in PageMaps /\ PageSet(f) \subseteq PageSet(h) \cup {y}
        /\ \A v \in DOMAIN f : ~f[v].cow => f[v].page = y
    BY DEF OwnStack
  <1>5. /\ g \in PageMaps /\ PageSet(g) \subseteq PageSet(h) \cup {w}
        /\ \A v \in DOMAIN g : ~g[v].cow => g[v].page = w
    BY DEF OwnStack
  <1>6. /\ p \in Processes /\ p.pages = f /\ p.objects = c.objects
        /\ p.base = c.base /\ p.second = c.second
    BY DEF Remapped
  <1>7. Fresh(q, 1, r, a, g)
    OBVIOUS
  <1> HIDE DEF h, y, w
  <1>8. /\ Held(c) = c.objects \cup PageSet(h) /\ c.objects \cap PageSet(h) = {}
        /\ c.base \in c.objects /\ c.second \in c.objects /\ c.objects \subseteq Own(c)
    BY HeldIs DEF Sound, h
  <1>9. Held(p) \subseteq c.objects \cup PageSet(h) \cup {y} /\ Own(p) \subseteq c.objects \cup {y}
    <2>1. Held(p) = p.objects \cup PageSet(p.pages)
      BY HeldIs
    <2>2. Own(p) \subseteq c.objects \cup {y}
      BY <1>4, <1>6 DEF Own
    <2> QED BY <1>4, <1>6, <2>1, <2>2
  <1>10. /\ q \in Processes /\ q.base = a[1] /\ q.pages = g
         /\ q.base \in q.objects /\ q.second \in q.objects
         /\ \A x \in q.objects : x \in A /\ x # y /\ x # w
    <2>1. \A x \in q.objects : \E j \in 1..n : x = a[j]
      BY <1>7 DEF Fresh
    <2>2. ASSUME NEW x \in q.objects PROVE x \in A /\ x # y /\ x # w
      <3>1. PICK j \in 1..n : x = a[j]
        BY <2>1
      <3> QED BY <1>2, <3>1 DEF Taken, y, w
    <2> QED BY <1>7, <2>2 DEF Fresh
  <1>11. Held(q) \subseteq q.objects \cup PageSet(h) \cup {w} /\ Own(q) \subseteq q.objects \cup {w}
    <2>1. Held(q) = q.objects \cup PageSet(q.pages)
      BY HeldIs
    <2>2. Own(q) \subseteq q.objects \cup {w}
      BY <1>5, <1>10 DEF Own
    <2> QED BY <1>5, <1>10, <2>1, <2>2
  <1>12. Sound(p)
    BY <1>3, <1>4, <1>6, <1>8 DEF Sound
  <1>13. Sound(q)
    <2>1. q.objects \cap PageSet(h) = {}
      BY <1>8, <1>10
    <2>2. w \notin q.objects
      BY <1>10
    <2> QED BY <1>5, <1>10, <2>1, <2>2 DEF Sound
  <1>14. /\ Own(p) \subseteq Own(c) \cup A /\ Held(p) \subseteq Held(c) \cup A
         /\ Own(q) \subseteq Own(c) \cup A /\ Held(q) \subseteq Held(c) \cup A
    BY <1>3, <1>8, <1>9, <1>10, <1>11
  <1>15. Own(p) \cap Held(q) = {}
    <2>1. c.objects \cap Held(q) = {}
      BY <1>3, <1>8, <1>10, <1>11
    <2>2. y \notin Held(q)
      BY <1>3, <1>8, <1>10, <1>11
    <2> QED BY <1>9, <2>1, <2>2
  <1>16. Own(q) \cap Held(p) = {}
    <2>1. q.objects \cap Held(p) = {}
      BY <1>8, <1>9, <1>10
    <2>2. w \notin Held(p)
      BY <1>3, <1>8, <1>9
    <2> QED BY <1>11, <2>1, <2>2
  <1> QED BY <1>6, <1>10, <1>12, <1>13, <1>14, <1>15, <1>16 DEF Forked

\* fork: parent and child share what the parent had, and neither has a page of the
\* other's for its own.
LEMMA ForkInv == MemoryInv /\ Fork => MemoryInv'
  <1> SUFFICES ASSUME MemoryInv, Fork PROVE MemoryInv'
    OBVIOUS
  <1> DEFINE r == ForkRoles \o FaultRoles(Stack) \o FaultRoles(Stack)
             n == Len(ForkRoles)
             a == Allocated(free, Len(r))
             A == ToSet(a)
             c == Current
             F == Front(chain)
             s == SubSeq(r, 1, n)
             f == [Shared(c.pages) EXCEPT ![Stack] = [page |-> a[n + 2], cow |-> FALSE]]
             g == [Shared(c.pages) EXCEPT ![Stack] = [page |-> a[n + 4], cow |-> FALSE]]
             p == [c EXCEPT !.pages = f]
             q == Process(c.program, FALSE, 1, s, a, g)
             N == {p, q}
  <1>1. /\ Enough(r) /\ TakeFor(r, a, {a[1]}) /\ chain # <<>>
        /\ chain' = F \o <<p, q>> /\ forked' = forked /\ stopped' = stopped
    BY DEF Fork
  <1>2. /\ stage = "up" /\ BootInv /\ c \in Processes /\ Sound(c) /\ F \in Seq(Processes)
        /\ Distinct(F, Lists) /\ \A x \in ToSet(F) \cup Lists : x.base # c.base
        /\ Clean(ToSet(F) \cup Lists \cup {c}, free, Len(kernel))
        /\ forked \in Seq(Processes) /\ stopped \in Seq(Processes)
    BY <1>1, CurrentIs
  <1>3. /\ n \in Nat /\ n >= 2 /\ r \in Seq(Roles) /\ Len(r) = n + 4
        /\ s \in Seq(Roles) /\ Len(s) = n /\ s[1] = <<"pcb", 0>> /\ s[2] = <<"second", 0>>
    <2> HIDE DEF r, n
    <2>1. n = Len(ForkRoles) /\ r = ForkRoles \o FaultRoles(Stack) \o FaultRoles(Stack)
      BY DEF r, n
    <2> QED BY <2>1, ForkTakes
  <1> HIDE DEF r, n, s, c, F
  <1>4. /\ Ascending(a, free, Len(r)) /\ free \in SUBSET Nat /\ A \in SUBSET free
        /\ \A j \in 1..Len(r) : a[j] \in A /\ a[j] \in Nat
        /\ \A i \in 1..Len(r), j \in 1..Len(r) : i # j => a[i] # a[j]
    BY <1>1, <1>3, TakenIs
  <1>5. DOMAIN r = 1..Len(r) /\ Len(r) \in Nat /\ 1 \in 1..(Len(r) - 1) /\ 1 \in 1..Len(r)
    BY <1>3
  <1> HIDE DEF a, A
  <1>6. BootInv' /\ stage' = "up" /\ kernel' = kernel /\ free' = free \ A
    <2>1. \A b \in {a[1]} : \E i \in 1..(Len(r) - 1) : b = a[i]
      BY <1>5
    <2>2. /\ BootInv /\ stage = "up" /\ Len(r) \in Nat /\ DOMAIN r = 1..Len(r)
          /\ Ascending(a, free, Len(r)) /\ TakeFor(r, a, {a[1]})
      BY <1>1, <1>2, <1>4, <1>5
    <2> QED BY <2>1, <2>2, TakeForBoot DEF A
  <1>7. a[1] \in A
    BY <1>4, <1>5
  <1>8. \A x \in ToSet(F) \cup Lists \cup {c} : Held(x) \cap A = {} /\ x.base # a[1]
    <2> SUFFICES ASSUME NEW x \in ToSet(F) \cup Lists \cup {c} PROVE Held(x) \cap A = {} /\ x.base # a[1]
      OBVIOUS
    <2>1. Sound(x) /\ Held(x) \cap A = {}
      BY <1>2, <1>4 DEF Clean
    <2>2. x.base \in Held(x)
      BY <2>1, HeldIs DEF Sound
    <2> QED BY <1>7, <2>1, <2>2
  <1> HIDE DEF p, q
  <1>9. /\ p \in Processes /\ p.base = c.base /\ q \in Processes /\ q.base = a[1]
        /\ \A x \in {p, q} : /\ Sound(x)
                             /\ Own(x) \subseteq Own(c) \cup A /\ Held(x) \subseteq Held(c) \cup A
        /\ \A x \in {p, q}, z \in {p, q} : x # z => Own(x) \cap Held(z) = {}
    <2>1. Held(c) \cap A = {}
      BY <1>8
    <2>2. Ascending(a, free, n + 4)
      BY <1>3, <1>4
    <2>3. Taken(a, n + 4, A)
      BY <1>3, <1>4 DEF Taken
    <2>4. c.pages \in PageMaps /\ c.program \in Programs
      BY <1>2, ProcessType
    <2>5. /\ n + 2 \in 1..(n + 4) /\ n + 4 \in 1..(n + 4) /\ n + 4 \in Nat
          /\ Len(s) <= n + 4 /\ 1 \in 1..(Len(s) - 1) /\ 1 + 1 = 2
      BY <1>3
    <2>6. a[n + 2] \in Nat /\ a[n + 4] \in Nat
      BY <2>3, <2>5 DEF Taken
    <2>7. OwnStack(f, c.pages, a[n + 2]) /\ OwnStack(g, c.pages, a[n + 4])
      BY <2>4, <2>6, SharedStack
    <2> HIDE DEF f, g
    <2>8. f \in PageMaps /\ g \in PageMaps
      BY <2>7 DEF OwnStack
    <2>9. Remapped(p, c, f)
      BY <1>2, <2>8, NewPages DEF p, Remapped
    <2>10. Fresh(q, 1, s, a, g)
      <3>1. FALSE \in BOOLEAN
        OBVIOUS
      <3>2. Fresh(Process(c.program, FALSE, 1, s, a, g), 1, s, a, g)
        BY <1>3, <1>4, <2>2, <2>4, <2>5, <2>8, <3>1, NewProcess
      <3> QED BY <3>2 DEF q
    <2>11. Forked(c, p, q, A)
      BY <1>2, <1>3, <2>1, <2>3, <2>7, <2>9, <2>10, ForkProcesses
    <2>12. q.base = a[1]
      BY <2>10 DEF Fresh
    <2> QED BY <2>11, <2>12 DEF Forked
  <1> HIDE DEF f, g
  <1>10. chain' = (F \o <<p>>) \o <<q>>
    BY <1>1, <1>2, <1>9, TwoMore
  <1>11. F \o <<p>> \in Seq(Processes) /\ ToSet(F \o <<p>>) = ToSet(F) \cup {p}
    BY <1>2, <1>9, OneMoreIs
  <1>12. chain' \in Seq(Processes) /\ ToSet(chain') = ToSet(F) \cup {p} \cup {q} /\ chain' # <<>>
    <2> DEFINE t == F \o <<p>>
    <2>1. t \in Seq(Processes) /\ ToSet(t) = ToSet(F) \cup {p}
      BY <1>11
    <2>2. chain' = t \o <<q>>
      BY <1>10
    <2> HIDE DEF t
    <2>3. t \o <<q>> \in Seq(Processes) /\ ToSet(t \o <<q>>) = ToSet(t) \cup {q}
      BY <1>9, <2>1, OneMoreIs
    <2>4. ToSet(<<>>) = {} /\ q \in ToSet(t \o <<q>>)
      BY <2>3, NoneKnown
    <2> QED BY <2>1, <2>2, <2>3, <2>4
  <1>13. Lists' = Lists /\ forked' \in Seq(Processes) /\ stopped' \in Seq(Processes)
    BY <1>1, <1>2 DEF Lists
  <1>14. Distinct(chain', Lists')
    <2> DEFINE t == F \o <<p>>
    <2>1. \A x \in ToSet(F) \cup Lists : x.base # p.base
      BY <1>2, <1>9
    <2>2. Distinct(t, Lists)
      BY <1>2, <1>9, <2>1, DistinctMore
    <2>3. \A x \in ToSet(t) \cup Lists : x.base # q.base
      BY <1>8, <1>9, <1>11
    <2>4. t \in Seq(Processes) /\ chain' = t \o <<q>>
      BY <1>10, <1>11
    <2> HIDE DEF t
    <2>5. Distinct(t \o <<q>>, Lists)
      BY <1>9, <2>2, <2>3, <2>4, DistinctMore
    <2> QED BY <1>13, <2>4, <2>5
  <1>15. ToSet(chain') \cup Lists' = ToSet(F) \cup Lists \cup N
    BY <1>12, <1>13
  <1>16. /\ \A x \in N : /\ Sound(x)
                        /\ Own(x) \subseteq Own(Current) \cup A
                        /\ Held(x) \subseteq Held(Current) \cup A
         /\ \A x \in N, z \in N : x # z => Own(x) \cap Held(z) = {}
         /\ ToSet(chain') \cup Lists' = ToSet(Front(chain)) \cup Lists \cup N
    BY <1>9, <1>15 DEF c, F
  <1>17. A \in SUBSET free
    BY <1>4
  <1> HIDE DEF N
  <1> QED BY <1>1, <1>6, <1>12, <1>13, <1>14, <1>16, <1>17, ReplacedInv

-----------------------------------------------------------------------------

\* Every step keeps it up.
LEMMA MemoryNext == MemoryInv /\ [Next]_vars => MemoryInv'
  <1> SUFFICES ASSUME MemoryInv, [Next]_vars PROVE MemoryInv'
    OBVIOUS
  <1>1. CASE BootNext /\ UNCHANGED <<chain, forked, stopped, exits>>
    <2>1. UNCHANGED <<chain, forked, stopped>>
      BY <1>1
    <2> QED BY <1>1, <2>1, BootStepInv
  <1>2. CASE CreateKernelThread
    BY <1>2, CreateKernelThreadInv
  <1>3. CASE Fork
    BY <1>3, ForkInv
  <1>4. CASE \E g \in Programs : Execve(g)
    BY <1>4, ExecveInv
  <1>5. CASE chain # <<>> /\ \E v \in Stores(Current) : Fault(v)
    BY <1>5, FaultInv
  <1>6. CASE SysExit
    BY <1>6, SysExitInv
  <1>7. CASE UNCHANGED vars
    <2>1. /\ stage' = stage /\ smap' = smap /\ region' = region /\ free' = free /\ dirty' = dirty
          /\ pt' = pt /\ kernel' = kernel /\ chain' = chain /\ forked' = forked /\ stopped' = stopped
      BY <1>7 DEF vars, bootvars
    <2>2. Known' = Known /\ Lists' = Lists
      BY <2>1 DEF Known, Lists
    <2>3. BootInv
      BY DEF MemoryInv
    <2>4. Tables' = Tables /\ Sized' = Sized /\ Nothing' = Nothing /\ End' = End /\ LastBit' = LastBit
      BY <2>1 DEF Tables, Sized, Nothing, End, LastBit
    <2>5. IdentityComplete' = IdentityComplete /\ BitsCleared' = BitsCleared
      BY <2>1, <2>4 DEF IdentityComplete, BitsCleared
    <2>6. StageInv' = StageInv
      BY <2>1, <2>4, <2>5 DEF StageInv
    <2>7. BootInv'
      BY <2>1, <2>3, <2>6 DEF BootInv
    <2> QED BY <2>1, <2>2, <2>7 DEF MemoryInv
  <1> QED BY <1>1, <1>2, <1>3, <1>4, <1>5, <1>6, <1>7 DEF Next

\* From boot on, at any depth of fork, execve and exit, the invariant holds.
THEOREM MemoryInvariant == Spec => []MemoryInv
  <1>1. Init => MemoryInv
    BY MemoryInit
  <1>2. MemoryInv /\ [Next]_vars => MemoryInv'
    BY MemoryNext
  <1> QED BY <1>1, <1>2, PTL DEF Spec

\* set_identity_paging: when CR3 is loaded every page of the machine is mapped where the
\* kernel looks for it, whatever memory the BIOS reports.
THEOREM KernelMapped == Spec => []IdentityComplete
  <1>1. MemoryInv => IdentityComplete
    BY DEF MemoryInv, BootInv, StageInv, IdentityComplete, Nothing
  <1> QED BY <1>1, MemoryInvariant, PTL

\* No page of the kernel's tables is shared, in the image, or ever marked free again.
THEOREM KernelApart == Spec => []KernelPagesApart
  <1>1. MemoryInv => KernelPagesApart
    BY BootInvApart DEF MemoryInv
  <1> QED BY <1>1, MemoryInvariant, PTL

\* The bits that init_paging writes behind free_map are gone from every free page and
\* every table when CR3 is loaded, and no page that exit gives back brings any.
THEOREM NoBitsLeft == Spec => []BitsCleared
  <1>1. MemoryInv => BitsCleared
    BY DEF MemoryInv, BootInv, StageInv, BitsCleared, Nothing
  <1> QED BY <1>1, MemoryInvariant, PTL

\* copy_parent_tables, pagefault_handler, execve and sys_exit: no page that a process
\* uses is marked free or belongs to the kernel, and what one process may write to and
\* will give back no other process uses, for every program, machine and depth.
THEOREM ProcessesApart == Spec => []HeldApart
  <1>1. ASSUME MemoryInv PROVE HeldApart
    <2> DEFINE l == Len(kernel)
    <2>1. Clean(Known, free, l) /\ kernel \in Seq(Nat) /\ \A i \in 1..l : kernel[i] = PHYSFREE + i
      BY <1>1 DEF MemoryInv, BootInv
    <2>2. l \in Nat /\ \A x \in ToSet(kernel) : x \in Nat /\ x <= PHYSFREE + l
      <3>1. l \in Nat /\ DOMAIN kernel = 1..l
        BY <2>1
      <3>2. \A x \in ToSet(kernel) : \E i \in 1..l : x = kernel[i]
        BY <3>1 DEF ToSet
      <3> QED BY <2>1, <3>1, <3>2, Constants
    <2> HIDE DEF l
    <2>3. ASSUME NEW p \in Known
          PROVE  Held(p) \cap (free \cup ToSet(kernel) \cup 0..PHYSFREE) = {}
      <3> SUFFICES ASSUME NEW x \in Held(p) PROVE x \notin free \cup ToSet(kernel) \cup 0..PHYSFREE
        OBVIOUS
      <3>1. Sound(p) /\ x \notin free /\ x > PHYSFREE + l
        BY <2>1 DEF Clean
      <3>2. x \in Nat
        <4>1. p \in Processes
          BY <3>1 DEF Sound
        <4>2. p.objects \subseteq Nat /\ PageSet(p.pages) \subseteq Nat
          BY <4>1, ProcessType, PageMapIs
        <4> QED BY <4>2, HeldIs
      <3>3. x \notin 0..PHYSFREE /\ x \notin ToSet(kernel)
        BY <2>2, <3>1, <3>2, Constants
      <3> QED BY <3>1, <3>3
    <2>4. Apart(Known)
      BY <2>1 DEF Clean
    <2> QED BY <2>3, <2>4 DEF HeldApart, Apart
  <1> QED BY <1>1, MemoryInvariant, PTL

\* Both together: no page has two of the uses it was taken for, whatever the machine,
\* the programs and the order of fork, execve, page faults and exits.
THEOREM PagesStayApart == Spec => []PagesApart
  BY KernelApart, ProcessesApart, PTL DEF PagesApart

\* kmalloc and the PCB: as long as the two pages taken for each PCB follow each other,
\* the page that its fields lie in is not free, none of the kernel's, and no other
\* process uses it.  That they follow each other is all that is missing.
THEOREM FieldsApartInOnePiece == Spec => [](PcbsInOnePiece => FieldsApart)
  <1>1. MemoryInv /\ HeldApart => (PcbsInOnePiece => FieldsApart)
    <2> SUFFICES ASSUME MemoryInv, HeldApart, PcbsInOnePiece PROVE FieldsApart
      OBVIOUS
    <2>1. \A p \in Known : Sound(p) /\ Fields(p.base) = p.second
      BY DEF MemoryInv, Clean, PcbsInOnePiece
    <2>2. \A p \in Known : Fields(p.base) \in Own(p) /\ Fields(p.base) \in Held(p)
      BY <2>1, HeldIs DEF Sound
    <2>3. ASSUME NEW p \in Known PROVE Fields(p.base) \notin free \cup ToSet(kernel)
      BY <2>2 DEF HeldApart
    <2>4. ASSUME NEW p \in Known, NEW q \in Known \ {p}
          PROVE  Fields(p.base) \notin Held(q) \cup {Fields(q.base)}
      BY <2>2 DEF HeldApart
    <2> QED BY <2>3, <2>4 DEF FieldsApart
  <1> QED BY <1>1, MemoryInvariant, ProcessesApart, PTL
=============================================================================

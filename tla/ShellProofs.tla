---------------------------- MODULE ShellProofs ----------------------------
(***************************************************************************)
(* Proofs about the file system and about the shell's commands on it, for  *)
(* every archive as tar writes one, every working directory and any        *)
(* commands and scripts.                                                   *)
(*                                                                         *)
(* The walk: init_tarfs reads the sizes back that tar wrote and goes from  *)
(* header to header (WalkInv).  The descriptors: the first one a process   *)
(* has for a file stands where its reads ended (FdInv, Fresh).  The shell: *)
(* what ls, cat and a script write (ShellInv).                             *)
(***************************************************************************)
EXTENDS Shell, Iteration, FiniteSetTheorems, TLAPS

-----------------------------------------------------------------------------
(* The working directory.                                                  *)

(***************************************************************************)
(* DirectoriesExist is inductive once the tree is known to be one of       *)
(* Trees: `..' is applied to temp_curr_dir, not to curr_dir, so both must  *)
(* be directories.                                                         *)
(***************************************************************************)
IInv == dirs \in Trees /\ DirectoriesExist

\* What .. makes of a directory is a directory.
LEMMA ShorterExists ==
    ASSUME dirs \in Trees, NEW d \in dirs \cup {ROOT}
    PROVE  Shorter(d) \in dirs \cup {ROOT}
  BY TreesAssumption DEF Shorter, ROOT

\* changedir keeps both names directories, if temp is one.
LEMMA ChangedirKeeps ==
    ASSUME IInv, NEW name, NEW temp \in dirs \cup {ROOT}, Changedir(name, temp),
           UNCHANGED dirs
    PROVE  IInv'
  BY DEF IInv, DirectoriesExist, Changedir, Accepts, Exists

\* Every cd command keeps both names directories.
LEMMA ChdirKeeps ==
    ASSUME IInv, NEW a \in Args, Chdir(a)
    PROVE  IInv'
  <1>1. Up \in dirs \cup {ROOT}
    BY ShorterExists DEF IInv, DirectoriesExist, Up
  <1>2. UNCHANGED dirs
    BY DEF Chdir
  <1>3. CASE a.kind = "root"
    BY <1>2, <1>3 DEF Chdir, ChdirRoot, IInv, DirectoriesExist
  <1>4. CASE a.kind = "up"
    BY <1>1, <1>2, <1>4 DEF Chdir, ChdirUp, IInv, DirectoriesExist
  <1>5. CASE a.kind = "abs"
    <2>1. Changedir(a.path, ROOT)
      BY <1>5 DEF Chdir
    <2> QED BY <2>1, <1>2, ChangedirKeeps
  <1>6. CASE a.kind = "upinto"
    <2>1. Changedir(Up \o a.path, Up)
      BY <1>6 DEF Chdir
    <2> QED BY <2>1, <1>1, <1>2, ChangedirKeeps
  <1>7. CASE a.kind = "rel"
    <2>1. Changedir(curr_dir \o a.path, temp_curr_dir)
      BY <1>7 DEF Chdir
    <2>2. temp_curr_dir \in dirs \cup {ROOT}
      BY DEF IInv, DirectoriesExist
    <2> QED BY <2>1, <2>2, <1>2, ChangedirKeeps
  <1> QED BY <1>3, <1>4, <1>5, <1>6, <1>7 DEF Args

\* The invariant is inductive.
LEMMA Inductive == CdSpec => []IInv
  <1>1. CdInit => IInv
    BY DEF CdInit, IInv, DirectoriesExist
  <1>2. IInv /\ [CdNext]_cdvars => IInv'
    <2> SUFFICES ASSUME IInv, [CdNext]_cdvars PROVE IInv'
      OBVIOUS
    <2>1. CASE CdNext
      BY <2>1, ChdirKeeps DEF CdNext
    <2>2. CASE UNCHANGED cdvars
      BY <2>2 DEF cdvars, IInv, DirectoriesExist
    <2> QED BY <2>1, <2>2
  <1> QED BY <1>1, <1>2, PTL DEF CdSpec

\* In every tree of directories, no sequence of cd commands leaves the working
\* directory, or the name that the next .. starts from, outside the tree.
THEOREM WorkingDirExists == CdSpec => []DirectoriesExist
  <1>1. IInv => DirectoriesExist
    BY DEF IInv
  <1> QED BY <1>1, Inductive, PTL

\* In a flat tree every directory lies in the root.
LEMMA FlatFront ==
    ASSUME dirs \in Trees, Flat, NEW d \in dirs
    PROVE  /\ d \in Seq(Names) /\ Len(d) = 1 /\ Front(d) = ROOT
           /\ d # ROOT
  <1>1. d \in Seq(Names) /\ Len(d) = 1 /\ d # <<>>
    BY TreesAssumption DEF Flat
  <1>2. Front(d) = SubSeq(d, 1, 0)
    BY <1>1 DEF Front
  <1>3. SubSeq(d, 1, 0) = <<>>
    BY <1>1
  <1> QED BY <1>1, <1>2, <1>3 DEF ROOT

\* Hence .. leads to the root, from wherever it starts.
LEMMA FlatUp ==
    ASSUME dirs \in Trees, Flat, NEW d \in dirs \cup {ROOT}
    PROVE  Shorter(d) = ROOT
  BY FlatFront DEF Shorter

\* A path that starts in the root is accepted if it is a directory.
LEMMA FlatAccepts ==
    ASSUME dirs \in Trees, Flat, NEW name
    PROVE  Accepts(name, ROOT) <=> name \in dirs
  BY FlatFront DEF Accepts, Exists

\* Facts about sequences.
LEMMA PathFacts ==
    ASSUME NEW path \in Paths
    PROVE  path \in Seq(Names) /\ Len(path) > 0 /\ ROOT \o path = path /\ path # ROOT
  <1>1. path \in Seq(Names) /\ Len(path) > 0
    <2>1. CASE \E b \in Names : path = <<b>>
      BY <2>1
    <2>2. CASE \E b, c \in Names : path = <<b, c>>
      BY <2>2
    <2> QED BY <2>1, <2>2 DEF Paths
  <1>2. <<>> \o path = path
    BY <1>1
  <1> QED BY <1>1, <1>2 DEF ROOT

\* One cd command in a flat tree.
LEMMA FlatChdir ==
    ASSUME IInv, Flat, NEW a \in Args, Chdir(a)
    PROVE  curr_dir' = Resolved(curr_dir, a)
  <1> DEFINE all == dirs \cup {ROOT}
  <1>1. dirs \in Trees /\ curr_dir \in all /\ temp_curr_dir \in all
    BY DEF IInv, DirectoriesExist
  <1>2. Up = ROOT /\ Shorter(curr_dir) = ROOT
    BY <1>1, FlatUp DEF Up
  <1>3. CASE a.kind = "root"
    BY <1>3 DEF Chdir, ChdirRoot, Resolved, Target
  <1>4. CASE a.kind = "up"
    BY <1>2, <1>4 DEF Chdir, ChdirUp, Resolved, Target
  <1>5. CASE a.kind = "abs"
    <2>1. a.path \in Paths
      BY <1>5 DEF Args
    <2>2. curr_dir' = IF a.path \in dirs THEN a.path ELSE curr_dir
      BY <1>1, <1>5, FlatAccepts DEF Chdir, Changedir
    <2> QED BY <2>1, <2>2, <1>5, PathFacts DEF Resolved, Target
  <1>6. CASE a.kind = "upinto"
    <2>1. a.path \in Paths
      BY <1>6 DEF Args
    <2>2. Up \o a.path = a.path /\ Shorter(curr_dir) \o a.path = a.path /\ a.path # ROOT
      BY <2>1, <1>2, PathFacts
    <2>3. curr_dir' = IF a.path \in dirs THEN a.path ELSE curr_dir
      <3>1. Changedir(Up \o a.path, Up)
        BY <1>6 DEF Chdir
      <3> QED BY <3>1, <2>2, <1>1, <1>2, FlatAccepts DEF Changedir
    <2> QED BY <2>2, <2>3, <1>6 DEF Resolved, Target
  <1>7. CASE a.kind = "rel"
    <2>1. a.path \in Paths
      BY <1>7 DEF Args
    <2>2. Changedir(curr_dir \o a.path, temp_curr_dir)
      BY <1>7 DEF Chdir
    <2>3. curr_dir \in Seq(Names) /\ a.path \in Seq(Names) /\ Len(a.path) > 0
      <3>1. ROOT \in Seq(Names)
        BY DEF ROOT
      <3>2. curr_dir \in Seq(Names)
        BY <1>1, <3>1, FlatFront
      <3> QED BY <3>2, <2>1, PathFacts
    <2>4. Len(curr_dir \o a.path) = Len(curr_dir) + Len(a.path)
      BY <2>3
    <2>5. curr_dir \o a.path # ROOT
      BY <2>3, <2>4 DEF ROOT
    <2>6. CASE curr_dir \o a.path \in dirs
      <3>1. Len(curr_dir \o a.path) = 1
        BY <2>6, <1>1, FlatFront
      <3>2. curr_dir = ROOT
        BY <3>1, <2>3, <2>4, <1>1, FlatFront
      <3>3. Accepts(curr_dir \o a.path, temp_curr_dir)
        BY <2>6, <3>1, <3>2 DEF Accepts, Exists
      <3> QED BY <2>2, <2>6, <3>3, <1>7 DEF Changedir, Resolved, Target
    <2>7. CASE curr_dir \o a.path \notin dirs
      BY <2>2, <2>5, <2>7, <1>7 DEF Changedir, Accepts, Exists, Resolved, Target
    <2> QED BY <2>6, <2>7
  <1> QED BY <1>3, <1>4, <1>5, <1>6, <1>7 DEF Args

\* In every archive without nested directories, cd leads where its argument
\* says after any sequence of cd commands, failed ones included.
THEOREM FlatTreesResolve == CdSpec => FlatTreeResolves
  <1>1. IInv /\ [CdNext]_cdvars => [Flat => curr_dir' = Resolved(curr_dir, arg')]_cdvars
    <2> SUFFICES ASSUME IInv, Flat, NEW a \in Args, Chdir(a)
                 PROVE  curr_dir' = Resolved(curr_dir, arg')
      BY DEF CdNext
    <2>1. arg' = a
      BY DEF Chdir
    <2> QED BY <2>1, FlatChdir
  <1> QED BY <1>1, Inductive, PTL DEF CdSpec, FlatTreeResolves

-----------------------------------------------------------------------------
(* The archive.                                                            *)

\* Blocks(n) blocks are what is needed for n bytes, and init_tarfs goes on by
\* a header and these blocks.
LEMMA AdvanceIs ==
    ASSUME NEW n \in Nat
    PROVE  Blocks(n) \in Nat /\ Advance(n) = TARFS_HEADER * (1 + Blocks(n))
  <1> DEFINE H == TARFS_HEADER
             d == n \div H
             m == n % H
  <1>1. H \in Nat \ {0}
    BY TarfsAssumption
  <1>2. d \in Int /\ m \in 0..(H - 1) /\ n = H * d + m
    BY <1>1
  <1> HIDE DEF d, m
  <1>3. d >= 0
    <2>1. d <= -1 => H * d <= -H
      BY <1>1, <1>2, Multiples
    <2> QED BY <1>1, <1>2, <2>1
  <1>4. CASE m = 0
    <2>1. n + H - 1 = H * d + (H - 1) /\ H - 1 \in 0..(H - 1) /\ n + H - 1 \in Int
      BY <1>1, <1>2, <1>4
    <2>2. (n + H - 1) \div H = d
      BY <1>1, <1>2, <2>1, DivUnique
    <2>3. Blocks(n) = d
      BY <2>2 DEF Blocks
    <2>4. Advance(n) = n + H
      <3>1. n = 0 => n + H = H
        BY <1>1
      <3> QED BY <1>4, <3>1 DEF Advance, m
    <2>5. n + H = H * (1 + d)
      BY <1>1, <1>2, <1>4
    <2> QED BY <1>2, <1>3, <2>3, <2>4, <2>5
  <1>5. CASE m # 0
    <2>1. n + H - 1 = H * (d + 1) + (m - 1) /\ m - 1 \in 0..(H - 1) /\ n + H - 1 \in Int
          /\ d + 1 \in Int
      BY <1>1, <1>2, <1>5
    <2>2. (n + H - 1) \div H = d + 1
      BY <1>1, <2>1, DivUnique
    <2>3. Blocks(n) = d + 1
      BY <2>2 DEF Blocks
    <2>4. n # 0
      <3> SUFFICES ASSUME n = 0 PROVE FALSE
        OBVIOUS
      <3>1. n = H * 0 + 0 /\ 0 \in 0..(H - 1)
        BY <1>1
      <3>2. n % H = 0
        BY <1>1, <3>1, DivUnique
      <3> QED BY <1>5, <3>2 DEF m
    <2>5. Advance(n) = (d + 1) * H + H
      BY <1>5, <2>4 DEF Advance, d, m
    <2>6. (d + 1) * H + H = H * (1 + (d + 1))
      BY <1>1, <1>2
    <2> QED BY <1>2, <1>3, <2>3, <2>5, <2>6
  <1> QED BY <1>4, <1>5

\* The offsets of the headers, one entry after the other.
LEMMA HeaderOffsetIs ==
    ASSUME NEW a \in Seq(Entries)
    PROVE  /\ HeaderOffset(a) \in [1..(Len(a) + 1) -> Nat]
           /\ HeaderOffset(a)[1] = 0
           /\ \A k \in 1..Len(a) :
                HeaderOffset(a)[k + 1] = HeaderOffset(a)[k] + Advance(a[k].size)
  <1> DEFINE n == Len(a) + 1
             R(h) == [k \in 1..n |-> IF k = 1 THEN 0
                         ELSE h[k - 1] + TARFS_HEADER * (1 + Blocks(a[k - 1].size))]
             H == CHOOSE h : h = R(h)
             B == {1}
             u == [k \in 1..n |-> 0]
             d == [k \in 1..n |-> k - 1]
             g == [w \in Nat \X (1..n) |->
                     w[1] + TARFS_HEADER * (1 + Blocks(a[w[2] - 1].size))]
  <1>1. HeaderOffset(a) = H
    BY DEF HeaderOffset
  <1>2. n \in Nat /\ 1 \in Nat /\ Len(a) \in Nat
    OBVIOUS
  <1>3. \A k \in 1..n : k \notin B => k - 1 \in 1..Len(a) /\ d[k] = k - 1 /\ d[k] \in 1..(k - 1)
    OBVIOUS
  <1>4. ASSUME NEW k \in 1..n, NEW v \in Nat, k \notin B
        PROVE  /\ g[<<v, k>>] = v + TARFS_HEADER * (1 + Blocks(a[k - 1].size))
               /\ g[<<v, k>>] \in Nat
    <2>1. g[<<v, k>>] = v + TARFS_HEADER * (1 + Blocks(a[k - 1].size))
      OBVIOUS
    <2>2. a[k - 1].size \in Nat
      <3>1. a[k - 1] \in Entries
        BY <1>3, <1>4
      <3> QED BY <3>1 DEF Entries
    <2>3. Blocks(a[k - 1].size) \in Nat /\ TARFS_HEADER \in Nat
      BY <2>2, AdvanceIs, TarfsAssumption
    <2>4. TARFS_HEADER * (1 + Blocks(a[k - 1].size)) \in Nat
      BY <2>3
    <2> QED BY <2>1, <2>4
  <1>5. \A k \in 1..n : k \in B => u[k] = 0
    OBVIOUS
  <1>6. \E h : h = R(h)
    <2> HIDE DEF g, d, u, B, n
    <2>0. /\ \A k \in 1..n : k \in B => u[k] \in Nat
          /\ \A k \in 1..n : k \notin B => d[k] \in 1..(k - 1)
          /\ \A k \in 1..n, v \in Nat : k \notin B => g[<<v, k>>] \in Nat
      BY <1>3, <1>4, <1>5
    <2>1. PICK h \in [1..n -> Nat] : Follows(h, 1, n, B, u, d, g)
      BY <1>2, <2>0, RecursionExists
    <2>2. ASSUME NEW k \in 1..n
          PROVE  h[k] = IF k = 1 THEN 0
                         ELSE h[k - 1] + TARFS_HEADER * (1 + Blocks(a[k - 1].size))
      <3>1. h[k] = IF k \in B THEN u[k] ELSE g[<<h[d[k]], k>>]
        BY <2>1 DEF Follows
      <3>2. CASE k = 1
        BY <1>5, <3>1, <3>2 DEF B
      <3>3. CASE k # 1
        <4>1. k \notin B /\ d[k] = k - 1 /\ k - 1 \in 1..n
          BY <1>2, <1>3, <3>3 DEF B, n
        <4>2. h[k - 1] \in Nat
          BY <2>1, <4>1
        <4> QED BY <1>4, <3>1, <3>3, <4>1, <4>2
      <3> QED BY <3>2, <3>3
    <2>3. h = R(h)
      BY <2>1, <2>2
    <2> HIDE DEF R
    <2> QED BY <2>3
  <1>7. H = R(H)
    BY <1>6
  <1> HIDE DEF H, g
  <1>8. H[1] = 0
    BY <1>2, <1>7
  <1>9. ASSUME NEW k \in 1..Len(a)
        PROVE  /\ H[k + 1] = H[k] + Advance(a[k].size)
               /\ Advance(a[k].size) \in Nat
    <2>1. k + 1 \in 1..n /\ k + 1 # 1 /\ (k + 1) - 1 = k
      BY <1>2
    <2>2. H[k + 1] = H[k] + TARFS_HEADER * (1 + Blocks(a[k].size))
      BY <1>7, <2>1
    <2>3. a[k].size \in Nat
      <3>1. a[k] \in Entries
        OBVIOUS
      <3> QED BY <3>1 DEF Entries
    <2>4. Advance(a[k].size) = TARFS_HEADER * (1 + Blocks(a[k].size))
          /\ Blocks(a[k].size) \in Nat /\ TARFS_HEADER \in Nat
      BY <2>3, AdvanceIs, TarfsAssumption
    <2> QED BY <2>2, <2>4
  <1>10. \A k \in 1..n : H[k] \in Nat
    <2> DEFINE S == {k \in 0..Len(a) : H[k + 1] \in Nat}
    <2>1. 0 \in S
      BY <1>2, <1>8
    <2>2. ASSUME NEW k \in 1..Len(a), k - 1 \in S PROVE k \in S
      <3>1. H[k] \in Nat
        BY <2>2
      <3> QED BY <1>9, <3>1
    <2> HIDE DEF S
    <2>3. \A k \in 0..Len(a) : k \in S
      BY <1>2, <2>1, <2>2, BoundedInduction
    <2>4. \A k \in 1..n : k - 1 \in 0..Len(a) /\ (k - 1) + 1 = k
      BY <1>2
    <2> QED BY <2>3, <2>4 DEF S
  <1>11. H = [k \in 1..n |-> H[k]]
    BY <1>7
  <1>12. H \in [1..n -> Nat]
    BY <1>10, <1>11
  <1> QED BY <1>1, <1>8, <1>9, <1>12

\* atoi, digit by digit.
LEMMA AtoiFold ==
    ASSUME NEW s \in Seq(Nat)
    PROVE  \E v \in [0..Len(s) -> Nat] :
              /\ v[0] = 0 /\ Atoi(s) = v[Len(s)]
              /\ \A k \in 1..Len(s) : v[k] = v[k - 1] * 10 + s[k]
  <1> DEFINE n == Len(s)
             R(it) == [z \in SUBSET (1..n) |->
                         IF z = {} THEN 0 ELSE it[z \ {Max(z)}] * 10 + s[Max(z)]]
             g == [w \in Nat \X (1..n) |-> w[1] * 10 + s[w[2]]]
             iter == CHOOSE it : it = R(it)
  <1>1. n \in Nat /\ DOMAIN s = 1..n /\ \A i \in 1..n : s[i] \in Nat
    OBVIOUS
  <1>2. Atoi(s) = iter[1..n]
    BY <1>1 DEF Atoi, FoldLeft, MapThenFoldSet
  <1>3. \A v \in Nat, i \in 1..n : /\ g[<<v, i>>] = v * 10 + s[i]
                                   /\ g[<<v, i>>] \in Nat
    BY <1>1
  <1>4. \E it : it = R(it)
    <2> HIDE DEF n, g
    <2>1. PICK it \in [SUBSET (1..n) -> Nat] : IsFold(it, 0, n, g)
      BY <1>1, <1>3, FoldExists
    <2>2. ASSUME NEW z \in SUBSET (1..n)
          PROVE  it[z] = IF z = {} THEN 0 ELSE it[z \ {Max(z)}] * 10 + s[Max(z)]
      <3>1. it[z] = IF z = {} THEN 0 ELSE g[<<it[z \ {Max(z)}], Max(z)>>]
        BY <2>1 DEF IsFold
      <3>2. CASE z # {}
        <4>1. Max(z) \in 1..n /\ z \ {Max(z)} \in SUBSET (1..n)
          BY <1>1, <3>2, MaxIsPlace
        <4>2. it[z \ {Max(z)}] \in Nat
          BY <2>1, <4>1
        <4> QED BY <1>3, <3>1, <3>2, <4>1, <4>2
      <3> QED BY <3>1, <3>2
    <2> QED BY <2>1, <2>2
  <1> HIDE DEF g
  <1>5. iter = R(iter)
    BY <1>4
  <1> HIDE DEF iter
  <1>6. iter[{}] = 0
    BY <1>5
  <1>7. ASSUME NEW k \in 1..n PROVE iter[1..k] = iter[1..(k - 1)] * 10 + s[k]
    <2> HIDE DEF n
    <2>1. 1..k \in SUBSET (1..n) /\ 1..k # {} /\ Max(1..k) = k /\ (1..k) \ {k} = 1..(k - 1)
      BY <1>1, FoldPlaces
    <2>2. iter[1..k] = R(iter)[1..k]
      BY <1>5
    <2> QED BY <2>1, <2>2
  <1>8. \A k \in 1..n : iter[1..(k - 1)] \in Nat => iter[1..k] \in Nat
    BY <1>1, <1>7
  <1> HIDE DEF n
  <1>9. \A k \in 0..n : iter[1..k] \in Nat
    <2> DEFINE X == Nat
    <2>1. iter[{}] \in X /\ \A k \in 1..n : iter[1..(k - 1)] \in X => iter[1..k] \in X
      BY <1>6, <1>8
    <2> HIDE DEF X
    <2>2. \A k \in 0..n : iter[1..k] \in X
      BY <1>1, <2>1, FoldStays
    <2> QED BY <2>2 DEF X
  <1> DEFINE v == [k \in 0..n |-> iter[1..k]]
  <1>10. v \in [0..n -> Nat]
    BY <1>9
  <1>11. v[0] = 0 /\ Atoi(s) = v[n]
    <2>1. 1..0 = {} /\ 0 \in 0..n /\ n \in 0..n
      BY <1>1
    <2> QED BY <1>2, <1>6, <2>1
  <1>12. \A k \in 1..n : v[k] = v[k - 1] * 10 + s[k]
    <2> TAKE k \in 1..n
    <2>1. k \in 0..n /\ k - 1 \in 0..n
      BY <1>1
    <2> QED BY <1>7, <2>1
  <1> HIDE DEF v
  <1> QED BY <1>10, <1>11, <1>12 DEF n

\* Another digit.
LEMMA AtoiAppend ==
    ASSUME NEW s \in Seq(Nat), NEW x \in Nat
    PROVE  Atoi(s) \in Nat /\ Atoi(Append(s, x)) = Atoi(s) * 10 + x
  <1> DEFINE t == Append(s, x)
             n == Len(s)
  <1>1. t \in Seq(Nat) /\ Len(t) = n + 1 /\ n \in Nat /\ t[n + 1] = x
        /\ \A k \in 1..n : t[k] = s[k]
    OBVIOUS
  <1> HIDE DEF t, n
  <1>2. PICK v \in [0..n -> Nat] :
              /\ v[0] = 0 /\ Atoi(s) = v[n]
              /\ \A k \in 1..n : v[k] = v[k - 1] * 10 + s[k]
    BY AtoiFold DEF n
  <1>3. PICK w \in [0..(n + 1) -> Nat] :
              /\ w[0] = 0 /\ Atoi(t) = w[n + 1]
              /\ \A k \in 1..(n + 1) : w[k] = w[k - 1] * 10 + t[k]
    <2>1. \E w \in [0..Len(t) -> Nat] :
              /\ w[0] = 0 /\ Atoi(t) = w[Len(t)]
              /\ \A k \in 1..Len(t) : w[k] = w[k - 1] * 10 + t[k]
      BY <1>1, AtoiFold
    <2> QED BY <1>1, <2>1
  <1> DEFINE S == {k \in 0..n : v[k] = w[k]}
  <1>4. 0 \in S
    BY <1>1, <1>2, <1>3
  <1>5. ASSUME NEW k \in 1..n, k - 1 \in S PROVE k \in S
    <2>1. k \in 1..(n + 1) /\ v[k - 1] = w[k - 1] /\ k \in 0..n
      BY <1>1, <1>5
    <2> QED BY <1>1, <1>2, <1>3, <2>1
  <1> HIDE DEF S
  <1>6. \A k \in 0..n : k \in S
    BY <1>1, <1>4, <1>5, BoundedInduction
  <1>7. v[n] = w[n] /\ v[n] \in Nat
    BY <1>1, <1>6 DEF S
  <1>8. w[n + 1] = w[n] * 10 + x
    <2>1. n + 1 \in 1..(n + 1) /\ (n + 1) - 1 = n
      BY <1>1
    <2> QED BY <1>1, <1>3, <2>1
  <1> QED BY <1>2, <1>3, <1>7, <1>8 DEF t

\* One digit.
LEMMA AtoiDigit ==
    ASSUME NEW x \in Nat
    PROVE  Atoi(<<x>>) = x
  <1> DEFINE s == <<x>>
  <1>1. s \in Seq(Nat) /\ Len(s) = 1 /\ s[1] = x
    OBVIOUS
  <1> HIDE DEF s
  <1>2. PICK v \in [0..1 -> Nat] :
              /\ v[0] = 0 /\ Atoi(s) = v[1]
              /\ \A k \in 1..1 : v[k] = v[k - 1] * 10 + s[k]
    BY <1>1, AtoiFold
  <1>3. v[1] = v[1 - 1] * 10 + s[1]
    BY <1>2
  <1>4. v[1 - 1] = 0
    BY <1>2
  <1> QED BY <1>1, <1>2, <1>3, <1>4 DEF s


\* The digits of n, as the function that tar's Octal builds.
Digits(n) == CHOOSE f : f = [m \in 0..n |-> IF m < 8 THEN <<m>> ELSE Append(f[m \div 8], m % 8)]

\* That function exists and follows its recursion.
LEMMA DigitsIs ==
    ASSUME NEW n \in Nat
    PROVE  /\ Octal(n) = Digits(n)[n]
           /\ Digits(n) \in [0..n -> Seq(Nat)]
           /\ \A m \in 0..n : Digits(n)[m] = IF m < 8 THEN <<m>>
                                             ELSE Append(Digits(n)[m \div 8], m % 8)
           /\ Follows(Digits(n), 0, n, 0..7, [m \in Nat |-> <<m>>], [m \in Nat |-> m \div 8],
                      [w \in Seq(Nat) \X Nat |-> Append(w[1], w[2] % 8)])
  <1> DEFINE R(f) == [m \in 0..n |-> IF m < 8 THEN <<m>> ELSE Append(f[m \div 8], m % 8)]
             D == CHOOSE f : f = R(f)
             B == 0..7
             u == [m \in Nat |-> <<m>>]
             d == [m \in Nat |-> m \div 8]
             g == [w \in Seq(Nat) \X Nat |-> Append(w[1], w[2] % 8)]
             X == Seq(Nat)
  <1>1. Octal(n) = D[n] /\ Digits(n) = D
    BY DEF Octal, Digits
  <1>2. \A m \in 0..n : /\ m \in B <=> m < 8
                        /\ m \in B => u[m] = <<m>> /\ u[m] \in X
                        /\ m \notin B => d[m] = m \div 8 /\ d[m] \in 0..(m - 1) /\ m \div 8 \in 0..n
    OBVIOUS
  <1>3. \A m \in 0..n, v \in X : g[<<v, m>>] = Append(v, m % 8) /\ g[<<v, m>>] \in X
    <2> TAKE m \in 0..n, v \in X
    <2>1. m % 8 \in Nat
      OBVIOUS
    <2> QED BY <2>1
  <1> HIDE DEF B, u, d, g, X
  <1>4. PICK h \in [0..n -> X] : Follows(h, 0, n, B, u, d, g)
    BY <1>2, <1>3, RecursionExists
  <1>5. \A m \in 0..n : h[m] = IF m < 8 THEN <<m>> ELSE Append(h[m \div 8], m % 8)
    <2> TAKE m \in 0..n
    <2>1. h[m] = IF m \in B THEN u[m] ELSE g[<<h[d[m]], m>>]
      BY <1>4 DEF Follows
    <2>2. CASE m < 8
      BY <1>2, <2>1, <2>2
    <2>3. CASE ~(m < 8)
      <3>1. m \notin B /\ d[m] = m \div 8 /\ h[m \div 8] \in X
        BY <1>2, <1>4, <2>3
      <3> QED BY <1>3, <2>1, <2>3, <3>1
    <2> QED BY <2>2, <2>3
  <1>6. h = R(h)
    BY <1>4, <1>5
  <1>7. D = R(D)
    BY <1>6
  <1> HIDE DEF D
  <1>8. \A m \in 0..n : D[m] = IF m < 8 THEN <<m>> ELSE Append(D[m \div 8], m % 8)
    BY <1>7
  <1>9. D \in [0..n -> X]
    <2> DEFINE T == {m \in 0..n : D[m] \notin X}
    <2>1. T = {}
      <3> SUFFICES ASSUME T # {} PROVE FALSE
        OBVIOUS
      <3>1. T \subseteq Nat
        OBVIOUS
      <3>2. PICK m \in T : \A j \in T : m <= j
        <4> HIDE DEF T
        <4> QED BY <3>1, LeastNumber
      <3>3. m \in 0..n /\ D[m] \notin X
        OBVIOUS
      <3>4. CASE m < 8
        BY <1>2, <1>8, <3>3, <3>4
      <3>5. CASE ~(m < 8)
        <4>1. m \div 8 \in 0..n /\ m \div 8 \in 0..(m - 1)
          BY <1>2, <3>3, <3>5
        <4>2. D[m \div 8] \in X
          BY <3>2, <4>1
        <4>3. D[m] = Append(D[m \div 8], m % 8)
          BY <1>8, <3>3, <3>5
        <4> QED BY <1>3, <3>3, <4>2, <4>3
      <3> QED BY <3>4, <3>5
    <2>2. D = [m \in 0..n |-> D[m]]
      BY <1>7
    <2> QED BY <2>1, <2>2
  <1>10. Follows(D, 0, n, B, u, d, g)
    <2> SUFFICES ASSUME NEW m \in 0..n
                 PROVE  D[m] = IF m \in B THEN u[m] ELSE g[<<D[d[m]], m>>]
      BY DEF Follows
    <2>1. CASE m < 8
      BY <1>2, <1>8, <2>1
    <2>2. CASE ~(m < 8)
      <3>1. m \notin B /\ d[m] = m \div 8 /\ D[m \div 8] \in X
        BY <1>2, <1>9, <2>2
      <3> QED BY <1>3, <1>8, <2>2, <3>1
    <2> QED BY <2>1, <2>2
  <1> QED BY <1>1, <1>8, <1>9, <1>10 DEF B, u, d, g, X

\* The digits of a number are those of its eighth, and one more.
LEMMA OctalIs ==
    ASSUME NEW n \in Nat
    PROVE  /\ Octal(n) \in Seq(Nat)
           /\ n < 8 => Octal(n) = <<n>>
           /\ n >= 8 => n \div 8 \in Nat /\ n \div 8 < n
                        /\ Octal(n) = Append(Octal(n \div 8), n % 8)
  <1>1. n \in 0..n
    OBVIOUS
  <1>2. Octal(n) \in Seq(Nat) /\ (n < 8 => Octal(n) = <<n>>)
    BY <1>1, DigitsIs
  <1>3. ASSUME n >= 8
        PROVE  n \div 8 \in Nat /\ n \div 8 < n /\ Octal(n) = Append(Octal(n \div 8), n % 8)
    <2> DEFINE k == n \div 8
               u == [m \in Nat |-> <<m>>]
               d == [m \in Nat |-> m \div 8]
               g == [w \in Seq(Nat) \X Nat |-> Append(w[1], w[2] % 8)]
               B == 0..7
    <2>1. k \in Nat /\ k < n /\ k <= n /\ k \in 0..k
      BY <1>3
    <2>2. \A m \in 0..k : m \notin B => d[m] \in 0..(m - 1)
      BY <2>1
    <2>3. Follows(Digits(k), 0, k, B, u, d, g) /\ Octal(k) = Digits(k)[k]
      <3> HIDE DEF k
      <3> QED BY <2>1, DigitsIs
    <2>4. Follows(Digits(n), 0, n, B, u, d, g)
      BY DigitsIs
    <2>5. Octal(n) = Append(Digits(n)[k], n % 8)
      <3>0. ~(n < 8)
        BY <1>3
      <3>1. Octal(n) = Digits(n)[n]
        BY DigitsIs
      <3>2. \A m \in 0..n : Digits(n)[m] = IF m < 8 THEN <<m>>
                                            ELSE Append(Digits(n)[m \div 8], m % 8)
        BY DigitsIs
      <3> QED BY <1>1, <3>0, <3>1, <3>2
    <2> HIDE DEF k, u, d, g, B
    <2>6. \A m \in 0..k : Digits(k)[m] = Digits(n)[m]
      BY <2>1, <2>2, <2>3, <2>4, FollowsOnce
    <2> QED BY <2>1, <2>3, <2>5, <2>6 DEF k
  <1> QED BY <1>2, <1>3

\* The values of the decimal digits of v as octal ones, as oct_to_dec's loop
\* collects them.
Values(n) == CHOOSE f : f = [v \in 0..n |-> IF v = 0 THEN 0 ELSE (v % 10) + 8 * f[v \div 10]]

\* That function exists and follows its recursion.
LEMMA ValuesIs ==
    ASSUME NEW n \in Nat
    PROVE  /\ OctToDec(n) = Values(n)[n]
           /\ \A v \in 0..n : Values(n)[v] = IF v = 0 THEN 0 ELSE (v % 10) + 8 * Values(n)[v \div 10]
           /\ Follows(Values(n), 0, n, {0}, [v \in Nat |-> 0], [v \in Nat |-> v \div 10],
                      [w \in Nat \X Nat |-> (w[2] % 10) + 8 * w[1]])
  <1> DEFINE R(f) == [v \in 0..n |-> IF v = 0 THEN 0 ELSE (v % 10) + 8 * f[v \div 10]]
             D == CHOOSE f : f = R(f)
             B == {0}
             u == [v \in Nat |-> 0]
             d == [v \in Nat |-> v \div 10]
             g == [w \in Nat \X Nat |-> (w[2] % 10) + 8 * w[1]]
             X == Nat
  <1>1. OctToDec(n) = D[n] /\ Values(n) = D
    BY DEF OctToDec, Values
  <1>2. \A v \in 0..n : /\ v \in B <=> v = 0
                        /\ v \in B => u[v] = 0 /\ u[v] \in X
                        /\ v \notin B => d[v] = v \div 10 /\ d[v] \in 0..(v - 1) /\ v \div 10 \in 0..n
    OBVIOUS
  <1>3. \A v \in 0..n, x \in X : g[<<x, v>>] = (v % 10) + 8 * x /\ g[<<x, v>>] \in X
    <2> TAKE v \in 0..n, x \in X
    <2>1. v % 10 \in Nat
      OBVIOUS
    <2>2. (v % 10) + 8 * x \in Nat
      BY <2>1
    <2> QED BY <2>2
  <1> HIDE DEF B, u, d, g, X
  <1>4. PICK h \in [0..n -> X] : Follows(h, 0, n, B, u, d, g)
    BY <1>2, <1>3, RecursionExists
  <1>5. \A v \in 0..n : h[v] = IF v = 0 THEN 0 ELSE (v % 10) + 8 * h[v \div 10]
    <2> TAKE v \in 0..n
    <2>1. h[v] = IF v \in B THEN u[v] ELSE g[<<h[d[v]], v>>]
      BY <1>4 DEF Follows
    <2>2. CASE v = 0
      BY <1>2, <2>1, <2>2
    <2>3. CASE v # 0
      <3>1. v \notin B /\ d[v] = v \div 10 /\ h[v \div 10] \in X
        BY <1>2, <1>4, <2>3
      <3> QED BY <1>3, <2>1, <2>3, <3>1
    <2> QED BY <2>2, <2>3
  <1>6. h = R(h)
    BY <1>4, <1>5
  <1>7. D = R(D)
    BY <1>6
  <1> HIDE DEF D
  <1>8. \A v \in 0..n : D[v] = IF v = 0 THEN 0 ELSE (v % 10) + 8 * D[v \div 10]
    BY <1>7
  <1>9. \A v \in 0..n : D[v] \in X
    <2> DEFINE T == {v \in 0..n : D[v] \notin X}
    <2> SUFFICES ASSUME T # {} PROVE FALSE
      OBVIOUS
    <2>1. T \subseteq Nat
      OBVIOUS
    <2>2. PICK v \in T : \A j \in T : v <= j
      <3> HIDE DEF T
      <3> QED BY <2>1, LeastNumber
    <2>3. v \in 0..n /\ D[v] \notin X
      OBVIOUS
    <2>4. CASE v = 0
      BY <1>2, <1>8, <2>3, <2>4
    <2>5. CASE v # 0
      <3>1. v \div 10 \in 0..n /\ v \div 10 \in 0..(v - 1)
        BY <1>2, <2>3, <2>5
      <3>2. D[v \div 10] \in X
        BY <2>2, <3>1
      <3>3. D[v] = (v % 10) + 8 * D[v \div 10]
        BY <1>8, <2>3, <2>5
      <3> QED BY <1>3, <2>3, <3>2, <3>3
    <2> QED BY <2>4, <2>5
  <1>10. Follows(D, 0, n, B, u, d, g)
    <2> SUFFICES ASSUME NEW v \in 0..n
                 PROVE  D[v] = IF v \in B THEN u[v] ELSE g[<<D[d[v]], v>>]
      BY DEF Follows
    <2>1. CASE v = 0
      BY <1>2, <1>8, <2>1
    <2>2. CASE v # 0
      <3>1. v \notin B /\ d[v] = v \div 10 /\ D[v \div 10] \in X
        BY <1>2, <1>9, <2>2
      <3> QED BY <1>3, <1>8, <2>2, <3>1
    <2> QED BY <2>1, <2>2
  <1> QED BY <1>1, <1>8, <1>10 DEF B, u, d, g

\* oct_to_dec, digit by digit.
LEMMA OctToDecIs ==
    ASSUME NEW v \in Nat
    PROVE  /\ v = 0 => OctToDec(v) = 0
           /\ v # 0 => v \div 10 \in Nat /\ OctToDec(v) = (v % 10) + 8 * OctToDec(v \div 10)
  <1>0. v \in 0..v
    OBVIOUS
  <1>1. OctToDec(v) = Values(v)[v]
    BY ValuesIs
  <1>2. \A w \in 0..v : Values(v)[w] = IF w = 0 THEN 0 ELSE (w % 10) + 8 * Values(v)[w \div 10]
    BY ValuesIs
  <1>3. v = 0 => OctToDec(v) = 0
    BY <1>0, <1>1, <1>2
  <1>4. ASSUME v # 0 PROVE v \div 10 \in Nat /\ OctToDec(v) = (v % 10) + 8 * OctToDec(v \div 10)
    <2> DEFINE k == v \div 10
               u == [w \in Nat |-> 0]
               d == [w \in Nat |-> w \div 10]
               g == [w \in Nat \X Nat |-> (w[2] % 10) + 8 * w[1]]
               B == {0}
    <2>1. k \in Nat /\ k <= v /\ k \in 0..k
      OBVIOUS
    <2>2. \A m \in 0..k : m \notin B => d[m] \in 0..(m - 1)
      BY <2>1
    <2>3. Follows(Values(k), 0, k, B, u, d, g) /\ OctToDec(k) = Values(k)[k]
      <3> HIDE DEF k
      <3> QED BY <2>1, ValuesIs
    <2>4. Follows(Values(v), 0, v, B, u, d, g)
      BY ValuesIs
    <2>5. OctToDec(v) = (v % 10) + 8 * Values(v)[k]
      BY <1>0, <1>1, <1>2, <1>4
    <2> HIDE DEF k, u, d, g, B
    <2>6. \A m \in 0..k : Values(k)[m] = Values(v)[m]
      BY <2>1, <2>2, <2>3, <2>4, FollowsOnce
    <2> QED BY <2>1, <2>3, <2>5, <2>6 DEF k
  <1> QED BY <1>3, <1>4

\* The size that init_tarfs finds in a header is the one that tar wrote there.
LEMMA SizeRead ==
    ASSUME NEW n \in Nat
    PROVE  OctToDec(Atoi(Octal(n))) = n
  <1> DEFINE T == {m \in Nat : OctToDec(Atoi(Octal(m))) # m}
  <1> SUFFICES ASSUME T # {} PROVE FALSE
    OBVIOUS
  <1>1. T \subseteq Nat
    OBVIOUS
  <1>2. PICK m \in T : \A j \in T : m <= j
    <2> HIDE DEF T
    <2> QED BY <1>1, LeastNumber
  <1>3. m \in Nat /\ OctToDec(Atoi(Octal(m))) # m
    OBVIOUS
  <1>4. ASSUME NEW x \in 0..7 PROVE OctToDec(x) = x
    <2>1. CASE x = 0
      BY <2>1, OctToDecIs
    <2>2. CASE x # 0
      <3>1. x \in Nat /\ x \div 10 = 0 /\ x % 10 = x
        OBVIOUS
      <3>2. OctToDec(x) = (x % 10) + 8 * OctToDec(x \div 10) /\ OctToDec(0) = 0
        BY <2>2, <3>1, OctToDecIs
      <3> QED BY <3>1, <3>2
    <2> QED BY <2>1, <2>2
  <1>5. CASE m < 8
    <2>1. Octal(m) = <<m>> /\ Atoi(<<m>>) = m
      BY <1>3, <1>5, OctalIs, AtoiDigit
    <2> QED BY <1>3, <1>4, <1>5, <2>1
  <1>6. CASE m >= 8
    <2> DEFINE k == m \div 8
               x == m % 8
               a == Atoi(Octal(k))
    <2>1. k \in Nat /\ k >= 1 /\ k < m /\ x \in 0..7 /\ m = 8 * k + x
      BY <1>3, <1>6
    <2>2. Octal(m) = Append(Octal(k), x) /\ Octal(k) \in Seq(Nat)
      <3>1. Octal(m) = Append(Octal(k), x)
        BY <1>3, <1>6, OctalIs
      <3> HIDE DEF k
      <3> QED BY <2>1, <3>1, OctalIs
    <2> HIDE DEF k, x
    <2>3. a \in Nat /\ Atoi(Octal(m)) = a * 10 + x
      <3> DEFINE s == Octal(k)
      <3>1. s \in Seq(Nat) /\ Octal(m) = Append(s, x) /\ a = Atoi(s)
        BY <2>2
      <3>2. x \in Nat
        BY <2>1
      <3> HIDE DEF s, a
      <3>3. Atoi(s) \in Nat /\ Atoi(Append(s, x)) = Atoi(s) * 10 + x
        BY <3>1, <3>2, AtoiAppend
      <3> QED BY <3>1, <3>3
    <2>4. OctToDec(a) = k
      BY <1>2, <2>1
    <2> HIDE DEF a
    <2>5. a # 0
      <3>1. a = 0 => OctToDec(a) = 0
        BY <2>3, OctToDecIs
      <3> QED BY <2>1, <2>4, <3>1
    <2> DEFINE v == a * 10 + x
    <2>6. v \in Nat /\ v # 0 /\ v \div 10 = a /\ v % 10 = x
      BY <2>1, <2>3, <2>5
    <2> HIDE DEF v
    <2>7. OctToDec(v) = x + 8 * k
      BY <2>4, <2>6, OctToDecIs
    <2> QED BY <1>3, <2>1, <2>3, <2>7 DEF v
  <1> QED BY <1>3, <1>5, <1>6

(***************************************************************************)
(* The walk.  The table is the archive up to the header that offset has    *)
(* come to.                                                                *)
(***************************************************************************)
Table == [name : Seq(STRING), dir : BOOLEAN, size : Nat, addr : Nat, inode : Nat,
          p_inode : Nat]

\* What init_tarfs makes of entry k.
Describes(k) ==
    /\ global_tarfs[k].name = archive[k].name
    /\ global_tarfs[k].dir = archive[k].dir
    /\ global_tarfs[k].size = archive[k].size
    /\ global_tarfs[k].addr = HeaderOffset(archive)[k] + TARFS_HEADER
    /\ global_tarfs[k].inode = Inode(k)

\* The parent of entry k is directory j if k is a file in it.
Placed(k) ==
    \A j \in DOMAIN archive : archive[j].dir =>
      (global_tarfs[k].p_inode = Inode(j)
         <=> ~archive[k].dir /\ Front(archive[k].name) = archive[j].name)

WalkInv ==
    /\ archive \in Archives
    /\ global_tarfs \in Seq(Table) /\ Len(global_tarfs) <= Len(archive)
    /\ up \in BOOLEAN
    /\ up => Len(global_tarfs) = Len(archive)
    /\ offset = HeaderOffset(archive)[Len(global_tarfs) + 1]
    /\ \A k \in 1..Len(global_tarfs) : Describes(k)
    /\ \A k \in 1..Len(global_tarfs) : Placed(k)


\* The archive as the proofs use it.
LEMMA ArchiveIs ==
    ASSUME archive \in Archives
    PROVE  /\ archive \in Seq(Entries) /\ Len(archive) \in Nat /\ Len(archive) <= 100
           /\ DOMAIN archive = 1..Len(archive)
           /\ \A k \in 1..Len(archive) :
                /\ archive[k] \in Entries
                /\ archive[k].name \in Seq(STRING) /\ archive[k].name # <<>>
                /\ archive[k].dir \in BOOLEAN /\ archive[k].size \in Nat
                /\ archive[k].dir => archive[k].size = 0
                /\ \A j \in 1..Len(archive) : archive[j].name = archive[k].name => j = k
                /\ Front(archive[k].name) = <<>>
                     \/ \E j \in 1..(k - 1) :
                          archive[j].dir /\ archive[j].name = Front(archive[k].name)
  <1>1. archive \in Seq(Entries) /\ Len(archive) <= 100
    BY TarfsAssumption DEF TARFS_FILES
  <1>2. DOMAIN archive = 1..Len(archive) /\ Len(archive) \in Nat
    BY <1>1
  <1>3. \A k \in 1..Len(archive) : archive[k] \in Entries
    BY <1>1, <1>2
  <1>4. \A k \in 1..Len(archive) : archive[k].name \in Seq(STRING) /\ archive[k].dir \in BOOLEAN
                                   /\ archive[k].size \in Nat
    BY <1>3 DEF Entries
  <1> QED BY <1>1, <1>2, <1>3, <1>4, ArchiveAssumption

\* A header lies behind the headers before it.
LEMMA HeadersApart ==
    ASSUME archive \in Archives
    PROVE  /\ HeaderOffset(archive) \in [1..(Len(archive) + 1) -> Nat]
           /\ \A j, k \in 1..(Len(archive) + 1) :
                HeaderOffset(archive)[j] = HeaderOffset(archive)[k] => j = k
  <1> DEFINE h == HeaderOffset(archive)
             n == Len(archive) + 1
  <1>1. archive \in Seq(Entries) /\ n - 1 \in Nat /\ n \in Nat
    BY ArchiveIs
  <1>2. h \in [1..n -> Nat] /\ \A k \in 1..(n - 1) : h[k + 1] = h[k] + Advance(archive[k].size)
    BY <1>1, HeaderOffsetIs
  <1>3. ASSUME NEW k \in 1..(n - 1) PROVE h[k + 1] > h[k]
    <2>1. archive[k].size \in Nat
      BY <1>1, ArchiveIs
    <2> DEFINE b == Blocks(archive[k].size)
    <2>2. b \in Nat /\ Advance(archive[k].size) = TARFS_HEADER * (1 + b)
      BY <2>1, AdvanceIs
    <2>3. TARFS_HEADER \in Nat \ {0}
      BY TarfsAssumption
    <2> HIDE DEF b
    <2>4. TARFS_HEADER * (1 + b) >= TARFS_HEADER /\ TARFS_HEADER * (1 + b) \in Nat
      <3>1. TARFS_HEADER * (1 + b) = TARFS_HEADER + TARFS_HEADER * b
        BY <2>2, <2>3
      <3>2. TARFS_HEADER * b \in Nat
        BY <2>2, <2>3
      <3> QED BY <2>3, <3>1, <3>2
    <2>5. h[k] \in Nat /\ h[k + 1] = h[k] + TARFS_HEADER * (1 + b)
      BY <1>1, <1>2, <2>2, SMTT(20)
    <2> HIDE DEF h
    <2> QED BY <2>3, <2>4, <2>5
  <1> HIDE DEF h, n
  <1>4. ASSUME NEW j \in 1..n
        PROVE  \A k \in 1..n : k > j => h[k] > h[j]
    <2> DEFINE T == {k \in 1..n : k > j /\ ~(h[k] > h[j])}
    <2> SUFFICES ASSUME T # {} PROVE FALSE
      OBVIOUS
    <2>1. T \subseteq Nat
      BY <1>1
    <2>2. PICK k \in T : \A i \in T : k <= i
      <3> HIDE DEF T
      <3> QED BY <2>1, LeastNumber
    <2>3. k \in 1..n /\ k > j /\ ~(h[k] > h[j])
      OBVIOUS
    <2>4. k - 1 \in 1..(n - 1) /\ k - 1 \in 1..n /\ (k - 1) + 1 = k /\ k - 1 >= j
      BY <1>1, <2>3
    <2>5. h[k] > h[k - 1] /\ h[k] \in Nat /\ h[k - 1] \in Nat /\ h[j] \in Nat
      BY <1>2, <1>3, <2>3, <2>4
    <2>6. CASE k - 1 = j
      BY <2>3, <2>5, <2>6
    <2>7. CASE k - 1 > j
      <3>1. k - 1 \notin T
        BY <2>2, <2>3, <1>1
      <3>2. h[k - 1] > h[j]
        BY <2>4, <2>7, <3>1
      <3> QED BY <2>3, <2>5, <3>2
    <2> QED BY <2>4, <2>6, <2>7, <1>1
  <1>5. ASSUME NEW j \in 1..n, NEW k \in 1..n, h[j] = h[k] PROVE j = k
    <2>1. h[j] \in Nat /\ h[k] \in Nat
      BY <1>2
    <2>2. ~(k > j) /\ ~(j > k)
      BY <1>4, <1>5, <2>1
    <2> QED BY <1>1, <2>2
  <1> QED BY <1>2, <1>5 DEF h, n

\* offset is at the header behind the entries that are in the table.
LEMMA HeaderFound ==
    ASSUME WalkInv
    PROVE  /\ HeaderAt(offset) = Len(global_tarfs) + 1
           /\ Len(global_tarfs) \in Nat /\ Len(global_tarfs) + 1 \in 1..(Len(archive) + 1)
  <1>1. archive \in Archives /\ Len(archive) \in Nat /\ Len(global_tarfs) \in Nat
    BY ArchiveIs DEF WalkInv
  <1>2. Len(global_tarfs) + 1 \in 1..(Len(archive) + 1)
    BY <1>1 DEF WalkInv
  <1>3. \A k \in 1..(Len(archive) + 1) : HeaderOffset(archive)[k] = offset
                                           <=> k = Len(global_tarfs) + 1
    BY <1>1, <1>2, HeadersApart DEF WalkInv
  <1> QED BY <1>1, <1>2, <1>3 DEF HeaderAt

\* get_parent_inode finds the directory of a file, and nothing for a directory.
LEMMA ParentFound ==
    ASSUME WalkInv, NEW n \in 1..Len(archive), n = Len(global_tarfs) + 1
    PROVE  /\ ParentInode(global_tarfs, archive[n]) \in Nat
           /\ \A j \in 1..Len(archive) : archive[j].dir =>
                (ParentInode(global_tarfs, archive[n]) = Inode(j)
                   <=> ~archive[n].dir /\ Front(archive[n].name) = archive[j].name)
  <1> DEFINE e == archive[n]
             hits == {k \in DOMAIN global_tarfs :
                        global_tarfs[k].dir /\ global_tarfs[k].name = Enclosing(e)}
             P == ParentInode(global_tarfs, e)
  <1>1. archive \in Archives /\ Len(archive) \in Nat /\ DOMAIN global_tarfs = 1..(n - 1)
        /\ Len(global_tarfs) = n - 1
    BY ArchiveIs DEF WalkInv
  <1>2. hits = {k \in 1..(n - 1) : archive[k].dir /\ archive[k].name = Enclosing(e)}
    BY <1>1 DEF WalkInv, Describes
  <1>3. P = IF Enclosing(e) = <<>> \/ hits = {} THEN 0
            ELSE Inode(CHOOSE k \in hits : \A j \in hits : k <= j)
    BY DEF ParentInode
  <1>4. \A j \in 1..Len(archive) : Inode(j) \in Nat /\ Inode(j) # 0
    BY <1>1 DEF Inode
  <1>5. \A j \in 1..(n - 1) : j \in 1..Len(archive) /\ j # n
    BY <1>1
  <1> HIDE DEF P, hits
  <1>6. CASE archive[n].dir
    <2>1. Enclosing(e) = archive[n].name
      BY <1>6 DEF Enclosing
    <2>2. hits = {}
      BY <1>1, <1>2, <1>5, <2>1, ArchiveIs
    <2>3. P = 0
      BY <1>3, <2>2
    <2> QED BY <1>4, <1>6, <2>3 DEF P
  <1>7. CASE ~archive[n].dir /\ Front(archive[n].name) = <<>>
    <2>1. Enclosing(e) = <<>>
      BY <1>7 DEF Enclosing
    <2>2. P = 0
      BY <1>3, <2>1
    <2>3. \A j \in 1..Len(archive) : Front(archive[n].name) # archive[j].name
      BY <1>1, <1>7, ArchiveIs
    <2> QED BY <1>4, <1>7, <2>2, <2>3 DEF P
  <1>8. CASE ~archive[n].dir /\ Front(archive[n].name) # <<>>
    <2>1. Enclosing(e) = Front(archive[n].name)
      BY <1>8 DEF Enclosing
    <2>2. PICK k \in 1..(n - 1) : archive[k].dir /\ archive[k].name = Front(archive[n].name)
      BY <1>1, <1>8, ArchiveIs
    <2>3. \A j \in 1..Len(archive) : archive[j].name = Front(archive[n].name) <=> j = k
      BY <1>1, <1>5, <2>2, ArchiveIs
    <2>4. hits = {k}
      BY <1>2, <1>5, <2>1, <2>2, <2>3
    <2>5. P = Inode(k)
      <3>1. (CHOOSE i \in {k} : \A j \in {k} : i <= j) = k
        OBVIOUS
      <3> QED BY <1>3, <1>8, <2>1, <2>4, <3>1
    <2>6. \A j \in 1..Len(archive) : Inode(k) = Inode(j) <=> j = k
      BY <1>1, <1>5, <2>2 DEF Inode
    <2> QED BY <1>4, <1>5, <1>8, <2>3, <2>5, <2>6 DEF P
  <1> QED BY <1>6, <1>7, <1>8

\* One round of init_tarfs describes one more entry.
LEMMA AddEntryWalks == ASSUME WalkInv, AddEntry PROVE WalkInv'
  <1> DEFINE n == Len(global_tarfs) + 1
             e == TableEntry(global_tarfs, archive[n], offset)
  <1>1. n \in 1..Len(archive) /\ HeaderAt(offset) = n /\ Len(global_tarfs) = n - 1
        /\ Len(global_tarfs) \in Nat
    <2>1. HeaderAt(offset) = n /\ HeaderAt(offset) <= Len(archive) /\ n \in 1..(Len(archive) + 1)
          /\ Len(global_tarfs) \in Nat
      BY HeaderFound DEF AddEntry
    <2>2. Len(archive) \in Nat
      BY ArchiveIs DEF WalkInv
    <2> QED BY <2>1, <2>2
  <1>2. /\ global_tarfs' = Append(global_tarfs, e)
        /\ offset' = offset + Advance(e.size)
        /\ archive' = archive /\ up' = up /\ ~up
    BY <1>1 DEF AddEntry
  <1>3. archive \in Archives /\ archive[n].size \in Nat /\ archive[n].name \in Seq(STRING)
        /\ archive[n].dir \in BOOLEAN /\ archive \in Seq(Entries)
    BY <1>1, ArchiveIs DEF WalkInv
  <1>4. e = [name |-> archive[n].name, dir |-> archive[n].dir, size |-> archive[n].size,
             addr |-> offset + TARFS_HEADER, inode |-> Inode(n),
             p_inode |-> ParentInode(global_tarfs, archive[n])]
    <2>1. OctToDec(Atoi(Octal(archive[n].size))) = archive[n].size
      BY <1>3, SizeRead
    <2>2. Len(global_tarfs) + 1 = n
      OBVIOUS
    <2> QED BY <2>1, <2>2 DEF TableEntry
  <1>5. ParentInode(global_tarfs, archive[n]) \in Nat
    BY <1>1, ParentFound
  <1>6. offset = HeaderOffset(archive)[n] /\ offset \in Nat
        /\ HeaderOffset(archive)[n + 1] = offset + Advance(archive[n].size)
    <2>1. offset = HeaderOffset(archive)[n]
      BY DEF WalkInv
    <2>2. /\ HeaderOffset(archive) \in [1..(Len(archive) + 1) -> Nat]
          /\ \A k \in 1..Len(archive) :
                HeaderOffset(archive)[k + 1] = HeaderOffset(archive)[k] + Advance(archive[k].size)
      BY <1>3, HeaderOffsetIs
    <2>3. n \in 1..(Len(archive) + 1)
      BY <1>1, <1>3
    <2> HIDE DEF n
    <2> QED BY <1>1, <2>1, <2>2, <2>3
  <1>7. e \in Table
    <2>1. TARFS_HEADER \in Nat
      BY TarfsAssumption
    <2>2. Inode(n) \in Nat /\ offset + TARFS_HEADER \in Nat
      BY <1>1, <1>6, <2>1 DEF Inode
    <2> QED BY <1>3, <1>4, <1>5, <2>2 DEF Table
  <1>8. \A j \in 1..Len(archive) : archive[j].dir =>
          (e.p_inode = Inode(j) <=> ~archive[n].dir /\ Front(archive[n].name) = archive[j].name)
    BY <1>1, <1>4, ParentFound
  <1>9. e.size = archive[n].size /\ e.name = archive[n].name /\ e.dir = archive[n].dir
        /\ e.addr = offset + TARFS_HEADER /\ e.inode = Inode(n)
    BY <1>4
  <1> HIDE DEF e
  <1>10. /\ global_tarfs' \in Seq(Table) /\ Len(global_tarfs') = n
         /\ \A k \in 1..(n - 1) : global_tarfs'[k] = global_tarfs[k]
         /\ global_tarfs'[n] = e
    BY <1>1, <1>2, <1>7 DEF WalkInv
  <1>11. offset' = HeaderOffset(archive)[n + 1]
    BY <1>2, <1>6, <1>9
  <1>12. ASSUME NEW k \in 1..n PROVE Describes(k)' /\ Placed(k)'
    <2>1. CASE k = n
      <3>1. Describes(k)'
        BY <1>2, <1>6, <1>9, <1>10, <2>1 DEF Describes
      <3>2. Placed(k)'
        BY <1>2, <1>3, <1>8, <1>10, <2>1 DEF Placed
      <3> QED BY <3>1, <3>2
    <2>2. CASE k # n
      <3>1. k \in 1..(n - 1) /\ k \in 1..Len(global_tarfs)
        BY <1>1, <2>2
      <3>2. Describes(k) /\ Placed(k) /\ global_tarfs'[k] = global_tarfs[k]
        BY <1>10, <3>1 DEF WalkInv
      <3> QED BY <1>2, <3>2 DEF Describes, Placed
    <2> QED BY <2>1, <2>2
  <1> HIDE DEF n
  <1>13. Len(global_tarfs') <= Len(archive) /\ Len(global_tarfs') + 1 = n + 1
    BY <1>1, <1>10
  <1> QED BY <1>2, <1>3, <1>10, <1>11, <1>12, <1>13 DEF WalkInv

\* Nothing else changes the table.
LEMMA WalkKept ==
    ASSUME WalkInv, UNCHANGED <<archive, offset, global_tarfs>>,
           UNCHANGED up \/ (up' = TRUE /\ Len(global_tarfs) = Len(archive))
    PROVE  WalkInv'
  <1>1. \A k \in 1..Len(global_tarfs) : Describes(k)' /\ Placed(k)'
    BY DEF WalkInv, Describes, Placed
  <1>2. up \in BOOLEAN /\ (up => Len(global_tarfs) = Len(archive))
    BY DEF WalkInv
  <1>3. up' \in BOOLEAN
    BY <1>2
  <1>4. up' => Len(global_tarfs) = Len(archive)
    BY <1>2
  <1> QED BY <1>1, <1>3, <1>4 DEF WalkInv

\* The walk ends at the header behind the last entry.
LEMMA MountedWalks ==
    ASSUME WalkInv, Mounted PROVE WalkInv' /\ Len(global_tarfs) = Len(archive)
  <1>1. Len(global_tarfs) = Len(archive)
    <2>1. HeaderAt(offset) = Len(global_tarfs) + 1 /\ HeaderAt(offset) > Len(archive)
      BY HeaderFound DEF Mounted
    <2>2. Len(archive) \in Nat /\ Len(global_tarfs) \in Nat /\ Len(global_tarfs) <= Len(archive)
      BY ArchiveIs DEF WalkInv
    <2> QED BY <2>1, <2>2
  <1> QED BY <1>1, WalkKept DEF Mounted

\* The walk begins at the first header.
LEMMA WalkStarts == ASSUME FsInit PROVE WalkInv
  <1>1. archive \in Archives /\ offset = 0 /\ global_tarfs = <<>> /\ up = FALSE
    BY DEF FsInit
  <1>2. HeaderOffset(archive)[1] = 0 /\ Len(archive) \in Nat
    <2>1. archive \in Seq(Entries) /\ Len(archive) \in Nat
      BY <1>1, ArchiveIs
    <2> QED BY <2>1, HeaderOffsetIs
  <1>3. Len(global_tarfs) = 0 /\ global_tarfs \in Seq(Table) /\ 0 + 1 = 1
    BY <1>1
  <1>4. 1..0 = {}
    OBVIOUS
  <1>5. offset = HeaderOffset(archive)[Len(global_tarfs) + 1]
    BY <1>1, <1>2, <1>3
  <1>6. \A k \in 1..Len(global_tarfs) : Describes(k) /\ Placed(k)
    BY <1>3, <1>4
  <1>7. up \in BOOLEAN /\ ~up
    BY <1>1
  <1>8. Len(global_tarfs) <= Len(archive)
    BY <1>2, <1>3
  <1> QED BY <1>1, <1>3, <1>5, <1>6, <1>7, <1>8 DEF WalkInv

\* What the invariant says of the walk.
LEMMA WalkTells == ASSUME WalkInv PROVE WalkFindsFiles
  <1>1. \E k \in 1..(Len(archive) + 1) : HeaderOffset(archive)[k] = offset
    BY HeaderFound DEF WalkInv
  <1>2. ASSUME up
        PROVE  /\ Len(global_tarfs) = Len(archive)
               /\ \A k \in DOMAIN archive :
                    /\ global_tarfs[k].name = archive[k].name
                    /\ global_tarfs[k].size = archive[k].size
                    /\ global_tarfs[k].addr = HeaderOffset(archive)[k] + TARFS_HEADER
    <2>1. DOMAIN archive = 1..Len(archive) /\ Len(global_tarfs) = Len(archive)
      BY <1>2, ArchiveIs DEF WalkInv
    <2> QED BY <2>1 DEF WalkInv, Describes
  <1> QED BY <1>1, <1>2 DEF WalkFindsFiles

(***************************************************************************)
(* The descriptors.  The first one that a process has for a file stands    *)
(* where its reads of this file ended.                                     *)
(***************************************************************************)
Inodes == {Inode(k) : k \in 1..Len(global_tarfs)}

Descriptors == [inode : Nat, size : Nat, read_addr : Nat]

FirstFor(p, i) == \A j \in DOMAIN fd[p] : fd[p][j].inode = fd[p][i].inode => i <= j

Follow(p, i) ==
    /\ fd[p][i].inode \in Inodes
    /\ fd[p][i].size = Entry(fd[p][i].inode).size
    /\ FirstFor(p, i) =>
         fd[p][i].read_addr = Entry(fd[p][i].inode).addr + taken[p][fd[p][i].inode]

FdInv ==
    /\ fd \in [Procs -> Seq(Descriptors)]
    /\ ~up => got = NoRead /\ \A p \in Procs : fd[p] = <<>>
    /\ up => taken \in [Procs -> [Inodes -> Nat]]
    /\ \A p \in Procs : \A i \in DOMAIN fd[p] : Follow(p, i)

\* p has taken nothing from files for which it has no descriptor.  This is not
\* so for a PCB that is not in use: only the next fork or execve clears it.
Fresh(p) == up => \A i \in Inodes : With(p, i) = {} => taken[p][i] = 0

\* What stands in the table under an inode.
LEMMA EntryIs ==
    ASSUME WalkInv, NEW i \in Inodes
    PROVE  /\ i \in Nat /\ i # 0 /\ i - 3 \in 1..Len(global_tarfs) /\ i = Inode(i - 3)
           /\ Entry(i) = global_tarfs[i - 3] /\ Entry(i) \in Table
           /\ Entry(i).addr \in Nat /\ Entry(i).size \in Nat /\ Entry(i).inode = i
  <1>1. PICK k \in 1..Len(global_tarfs) : i = Inode(k)
    BY DEF Inodes
  <1>2. global_tarfs \in Seq(Table) /\ Len(global_tarfs) \in Nat
    BY DEF WalkInv
  <1>3. i \in Nat /\ i # 0 /\ i - 3 = k
    BY <1>1, <1>2 DEF Inode
  <1>4. global_tarfs[k] \in Table
    BY <1>2
  <1>5. Describes(k)
    BY DEF WalkInv
  <1> QED BY <1>1, <1>3, <1>4, <1>5 DEF Entry, Table, Describes

\* The descriptor that read uses is the first one for the file.
LEMMA DescriptorIs ==
    ASSUME FdInv, NEW p \in Procs, NEW inode, With(p, inode) # {}
    PROVE  /\ Descriptor(p, inode) \in With(p, inode)
           /\ Descriptor(p, inode) \in DOMAIN fd[p]
           /\ fd[p][Descriptor(p, inode)].inode = inode
           /\ FirstFor(p, Descriptor(p, inode))
           /\ \A j \in With(p, inode) : FirstFor(p, j) => j = Descriptor(p, inode)
  <1> DEFINE W == With(p, inode)
             D == Descriptor(p, inode)
  <1>1. fd[p] \in Seq(Descriptors)
    BY DEF FdInv
  <1>2. W \subseteq Nat /\ W # {} /\ W \subseteq DOMAIN fd[p]
    BY <1>1 DEF With
  <1>3. \A j \in W : fd[p][j].inode = inode
    BY DEF With
  <1>4. \A j \in DOMAIN fd[p] : fd[p][j].inode = inode => j \in W
    BY DEF With
  <1>5. D = CHOOSE i \in W : \A j \in W : i <= j
    BY DEF Descriptor
  <1> HIDE DEF W, D
  <1>6. \E i \in W : \A j \in W : i <= j
    BY <1>2, LeastNumber
  <1>7. D \in W /\ \A j \in W : D <= j
    BY <1>5, <1>6
  <1>8. FirstFor(p, D)
    BY <1>3, <1>4, <1>7 DEF FirstFor
  <1>9. ASSUME NEW j \in W, FirstFor(p, j) PROVE j = D
    <2>1. j <= D /\ D <= j
      BY <1>2, <1>3, <1>7, <1>9 DEF FirstFor
    <2> QED BY <1>2, <1>7, <2>1
  <1> QED BY <1>2, <1>3, <1>7, <1>8, <1>9 DEF W, D

\* A process that a step leaves alone.
LEMMA FollowKept ==
    ASSUME FdInv, NEW q \in Procs, UNCHANGED <<global_tarfs, up>>,
           fd'[q] = fd[q], taken'[q] = taken[q]
    PROVE  (\A i \in DOMAIN fd'[q] : Follow(q, i)') /\ (Fresh(q) => Fresh(q)')
  <1>1. \A i \in DOMAIN fd[q] : Follow(q, i)
    BY DEF FdInv
  <1>2. \A i \in DOMAIN fd[q] : FirstFor(q, i)' <=> FirstFor(q, i)
    BY DEF FirstFor
  <1>3. \A i \in DOMAIN fd[q] : Follow(q, i)'
    BY <1>1, <1>2 DEF Follow, Inodes, Entry
  <1>4. Fresh(q) => Fresh(q)'
    BY DEF Fresh, Inodes, With
  <1> QED BY <1>3, <1>4

\* open adds a descriptor; it is read only if it is the first for the file.
LEMMA OpenFollows ==
    ASSUME WalkInv, FdInv, NEW p \in Procs, Fresh(p), NEW k \in 1..Len(global_tarfs), Open(p, k)
    PROVE  /\ FdInv' /\ \A q \in Procs : Fresh(q) => Fresh(q)'
           /\ Len(fd[p]) \in Nat /\ Len(fd'[p]) = Len(fd[p]) + 1
           /\ fd'[p][Len(fd'[p])].inode = Inode(k)
           /\ FirstFor(p, Len(fd[p]))' => taken'[p][Inode(k)] = 0
  <1> DEFINE inode == Inode(k)
             d == [inode |-> inode, size |-> Entry(inode).size, read_addr |-> Entry(inode).addr]
  <1>1. inode \in Inodes /\ Entry(inode) = global_tarfs[k] /\ global_tarfs[k].inode = inode
    <2>1. inode \in Inodes
      BY DEF Inodes
    <2>2. Entry(inode) = global_tarfs[k]
      BY DEF Entry, Inode, WalkInv
    <2>3. Describes(k)
      BY DEF WalkInv
    <2> QED BY <2>1, <2>2, <2>3 DEF Describes
  <1>2. up /\ up' = up /\ global_tarfs' = global_tarfs /\ taken' = taken
    BY DEF Open
  <1>3. fd' = [fd EXCEPT ![p] = Append(@, d)]
    BY <1>1 DEF Open
  <1>4. d \in Descriptors
    BY <1>1, EntryIs DEF Descriptors
  <1>5. d.inode = inode /\ d.size = Entry(inode).size /\ d.read_addr = Entry(inode).addr
    OBVIOUS
  <1> HIDE DEF d, inode
  <1>0. fd \in [Procs -> Seq(Descriptors)] /\ fd[p] \in Seq(Descriptors)
    BY DEF FdInv
  <1>6. PICK n \in Nat : n = Len(fd[p]) + 1
    BY <1>0
  <1>7. fd' \in [Procs -> Seq(Descriptors)] /\ fd'[p] = Append(fd[p], d)
        /\ \A q \in Procs : q # p => fd'[q] = fd[q]
    BY <1>3, <1>4, <1>0, <1>6
  <1>8. /\ DOMAIN fd'[p] = 1..n /\ DOMAIN fd[p] = 1..(n - 1)
        /\ \A i \in 1..(n - 1) : fd'[p][i] = fd[p][i]
        /\ fd'[p][n] = d /\ Len(fd'[p]) = n
    BY <1>4, <1>0, <1>6, <1>7
  <1>15. ASSUME FirstFor(p, n)' PROVE taken[p][inode] = 0
    <2>1. With(p, inode) = {}
      <3> SUFFICES ASSUME NEW j \in With(p, inode) PROVE FALSE
        OBVIOUS
      <3>1. j \in 1..(n - 1) /\ fd[p][j].inode = inode
        BY <1>8 DEF With
      <3>2. j \in DOMAIN fd'[p] /\ fd'[p][j].inode = fd'[p][n].inode
        BY <1>5, <1>0, <1>6, <1>8, <3>1
      <3>3. n <= j
        BY <1>15, <3>2 DEF FirstFor
      <3> QED BY <1>0, <1>6, <3>1, <3>3
    <2> QED BY <1>1, <1>2, <2>1 DEF Fresh
  <1>9. ASSUME NEW i \in DOMAIN fd'[p] PROVE Follow(p, i)'
    <2>1. CASE i = n
      <3>1. fd'[p][i].inode = inode /\ fd'[p][i].size = Entry(inode).size
        BY <1>5, <1>8, <2>1
      <3>3. inode \in Inodes'
        BY <1>1, <1>2 DEF Inodes
      <3>2. ASSUME FirstFor(p, i)'
            PROVE  fd'[p][i].read_addr = Entry(inode).addr + taken[p][inode]
        <4>2. taken[p][inode] = 0
          BY <1>15, <2>1, <3>2 DEF FirstFor
        <4>3. Entry(inode).addr \in Nat
          BY <1>1, EntryIs
        <4> QED BY <1>5, <1>8, <2>1, <4>2, <4>3
      <3> QED BY <1>2, <3>1, <3>2, <3>3 DEF Follow, Entry
    <2>2. CASE i # n
      <3>1. i \in 1..(n - 1) /\ i \in DOMAIN fd[p] /\ fd'[p][i] = fd[p][i]
        BY <1>0, <1>6, <1>8, <2>2
      <3>2. Follow(p, i)
        BY <3>1 DEF FdInv
      <3>3. FirstFor(p, i)' => FirstFor(p, i)
        <4> SUFFICES ASSUME FirstFor(p, i)', NEW j \in DOMAIN fd[p],
                            fd[p][j].inode = fd[p][i].inode
                     PROVE  i <= j
          BY DEF FirstFor
        <4>1. j \in DOMAIN fd'[p] /\ fd'[p][j].inode = fd'[p][i].inode
          BY <1>0, <1>6, <1>8, <3>1
        <4> QED BY <4>1 DEF FirstFor
      <3> QED BY <1>2, <3>1, <3>2, <3>3 DEF Follow, Inodes, Entry
    <2> QED BY <2>1, <2>2
  <1>10. ASSUME NEW q \in Procs, q # p
         PROVE  (\A i \in DOMAIN fd'[q] : Follow(q, i)') /\ (Fresh(q) => Fresh(q)')
    BY <1>2, <1>7, <1>10, FollowKept
  <1>11. Fresh(p)'
    <2> SUFFICES ASSUME NEW i \in Inodes, With(p, i)' = {} PROVE taken[p][i] = 0
      BY <1>2 DEF Fresh, Inodes
    <2>1. With(p, i) = {}
      <3> SUFFICES ASSUME NEW j \in With(p, i) PROVE FALSE
        OBVIOUS
      <3>1. j \in 1..(n - 1) /\ fd[p][j].inode = i
        BY <1>8 DEF With
      <3>2. j \in DOMAIN fd'[p] /\ fd'[p][j].inode = i
        BY <1>0, <1>6, <1>8, <3>1
      <3> QED BY <3>2 DEF With
    <2> QED BY <1>2, <2>1 DEF Fresh
  <1>12. up' /\ taken' \in [Procs -> [Inodes' -> Nat]]
    BY <1>2 DEF FdInv, Inodes
  <1>13. \A q \in Procs : \A i \in DOMAIN fd'[q] : Follow(q, i)'
    BY <1>9, <1>10
  <1>14. FdInv'
    BY <1>7, <1>12, <1>13 DEF FdInv
  <1>16. fd'[p][Len(fd'[p])].inode = inode /\ Len(fd'[p]) = n
    BY <1>5, <1>8
  <1>17. FirstFor(p, Len(fd[p]))' => taken'[p][inode] = 0
    BY <1>2, <1>8, <1>15 DEF FirstFor
  <1> QED BY <1>0, <1>6, <1>10, <1>11, <1>14, <1>16, <1>17 DEF inode

\* read takes the bytes behind those that were taken before.
LEMMA ReadFollows ==
    ASSUME WalkInv, FdInv, NEW p \in Procs, NEW inode, NEW n \in Nat, Read(p, inode, n)
    PROVE  /\ FdInv' /\ \A q \in Procs : Fresh(q) => Fresh(q)'
           /\ ReadsFollowOn'
           /\ inode \in Inodes
           /\ got'.start = Entry(inode).addr + taken[p][inode]
           /\ fd'[p][Descriptor(p, inode)].read_addr
                = got'.start + Length(Entry(inode).size, n)
           /\ Length(Entry(inode).size, n) \in Nat
  <1> DEFINE D == Descriptor(p, inode)
             len == Length(fd[p][D].size, n)
  <1>1. /\ up /\ up' = up /\ global_tarfs' = global_tarfs /\ With(p, inode) # {}
        /\ fd' = [fd EXCEPT ![p][D].read_addr = @ + len]
        /\ taken' = [taken EXCEPT ![p][inode] = @ + len]
        /\ got' = [inode |-> inode, start |-> fd[p][D].read_addr,
                   before |-> taken[p][inode], first |-> inode \in first[p]]
    BY DEF Read
  <1>2. D \in DOMAIN fd[p] /\ fd[p][D].inode = inode /\ FirstFor(p, D)
        /\ \A j \in With(p, inode) : FirstFor(p, j) => j = D
    BY <1>1, DescriptorIs
  <1>3. Follow(p, D)
    BY <1>2 DEF FdInv
  <1>4. inode \in Inodes /\ fd[p][D].size = Entry(inode).size
        /\ fd[p][D].read_addr = Entry(inode).addr + taken[p][inode]
    BY <1>2, <1>3 DEF Follow
  <1>5. Entry(inode).addr \in Nat /\ Entry(inode).size \in Nat
    BY <1>4, EntryIs
  <1>6. len \in Nat
    BY <1>4, <1>5 DEF Length
  <1>7. taken \in [Procs -> [Inodes -> Nat]] /\ taken[p] \in [Inodes -> Nat]
        /\ taken[p][inode] \in Nat
    BY <1>1, <1>4 DEF FdInv
  <1>8. fd \in [Procs -> Seq(Descriptors)] /\ fd[p] \in Seq(Descriptors)
    BY DEF FdInv
  <1>9. fd[p][D] \in Descriptors /\ fd[p][D].read_addr \in Nat
    <2>1. fd[p][D] \in Descriptors
      <3> HIDE DEF D
      <3> QED BY <1>2, <1>8
    <2> QED BY <2>1 DEF Descriptors
  <1> DEFINE r == fd[p][D].read_addr + len
             d == [fd[p][D] EXCEPT !.read_addr = r]
  <1>10. r \in Nat
    BY <1>6, <1>9
  <1>11. fd' = [fd EXCEPT ![p] = [fd[p] EXCEPT ![D] = d]]
    BY <1>1
  <1>12. taken' = [taken EXCEPT ![p] = [taken[p] EXCEPT ![inode] = @ + len]]
    BY <1>1
  <1> HIDE DEF D, len, r
  <1>13. d \in Descriptors /\ d.inode = inode /\ d.size = fd[p][D].size /\ d.read_addr = r
    BY <1>2, <1>9, <1>10 DEF Descriptors
  <1> HIDE DEF d
  <1>14. /\ fd' \in [Procs -> Seq(Descriptors)] /\ fd'[p] = [fd[p] EXCEPT ![D] = d]
         /\ \A q \in Procs : q # p => fd'[q] = fd[q]
    <2>1. [fd[p] EXCEPT ![D] = d] \in Seq(Descriptors)
      BY <1>2, <1>8, <1>13
    <2> QED BY <1>8, <1>11, <2>1
  <1>15. /\ DOMAIN fd'[p] = DOMAIN fd[p] /\ fd'[p][D] = d
         /\ \A i \in DOMAIN fd[p] : i # D => fd'[p][i] = fd[p][i]
         /\ \A i \in DOMAIN fd[p] : fd'[p][i].inode = fd[p][i].inode
    BY <1>2, <1>8, <1>13, <1>14
  <1>16. /\ taken' \in [Procs -> [Inodes -> Nat]]
         /\ taken'[p][inode] = taken[p][inode] + len
         /\ \A i \in Inodes : i # inode => taken'[p][i] = taken[p][i]
         /\ \A q \in Procs : q # p => taken'[q] = taken[q]
    <2>1. taken[p][inode] + len \in Nat
      BY <1>6, <1>7
    <2> QED BY <1>4, <1>7, <1>12, <2>1
  <1>17. \A i \in DOMAIN fd[p] : FirstFor(p, i)' <=> FirstFor(p, i)
    BY <1>15 DEF FirstFor
  <1>18. ASSUME NEW i \in DOMAIN fd'[p] PROVE Follow(p, i)'
    <2>1. CASE i = D
      <3>1. fd'[p][i].inode = inode /\ fd'[p][i].size = Entry(inode).size
            /\ fd'[p][i].read_addr = r
        BY <1>4, <1>13, <1>15, <2>1
      <3>2. r = Entry(inode).addr + taken'[p][inode]
        BY <1>4, <1>5, <1>6, <1>7, <1>16 DEF r
      <3>3. inode \in Inodes'
        BY <1>1, <1>4 DEF Inodes
      <3> QED BY <1>1, <3>1, <3>2, <3>3 DEF Follow, Entry
    <2>2. CASE i # D
      <3>1. i \in DOMAIN fd[p] /\ fd'[p][i] = fd[p][i]
        BY <1>15, <2>2
      <3>2. Follow(p, i)
        BY <3>1 DEF FdInv
      <3>3. fd[p][i].inode \in Inodes'
        BY <1>1, <3>2 DEF Follow, Inodes
      <3>4. ASSUME FirstFor(p, i)
            PROVE  taken'[p][fd[p][i].inode] = taken[p][fd[p][i].inode]
        <4>1. i \notin With(p, inode)
          BY <1>2, <2>2, <3>4
        <4>2. fd[p][i].inode # inode
          BY <3>1, <4>1 DEF With
        <4> QED BY <1>16, <3>2, <4>2 DEF Follow
      <3> QED BY <1>1, <1>17, <3>1, <3>2, <3>3, <3>4 DEF Follow, Entry
    <2> QED BY <2>1, <2>2
  <1>19. ASSUME NEW q \in Procs, q # p
         PROVE  (\A i \in DOMAIN fd'[q] : Follow(q, i)') /\ (Fresh(q) => Fresh(q)')
    BY <1>1, <1>14, <1>16, <1>19, FollowKept
  <1>20. Fresh(p) => Fresh(p)'
    <2> SUFFICES ASSUME Fresh(p), NEW i \in Inodes, With(p, i)' = {} PROVE taken'[p][i] = 0
      BY <1>1 DEF Fresh, Inodes
    <2>1. With(p, i) = {}
      BY <1>15 DEF With
    <2>2. i # inode
      BY <1>1, <2>1
    <2> QED BY <1>1, <1>16, <2>1, <2>2 DEF Fresh
  <1>21. up' /\ taken' \in [Procs -> [Inodes' -> Nat]]
    BY <1>1, <1>16 DEF Inodes
  <1>22. \A q \in Procs : \A i \in DOMAIN fd'[q] : Follow(q, i)'
    BY <1>18, <1>19
  <1>23. FdInv'
    BY <1>14, <1>21, <1>22 DEF FdInv
  <1>24. got'.start = Entry(inode).addr + taken[p][inode] /\ got'.before = taken[p][inode]
         /\ got'.inode = inode
    BY <1>1, <1>4
  <1>25. ReadsFollowOn'
    BY <1>1, <1>24 DEF ReadsFollowOn, Entry
  <1>26. fd'[p][D].read_addr = got'.start + len
    BY <1>1, <1>13, <1>15 DEF r
  <1>27. len = Length(Entry(inode).size, n)
    BY <1>4 DEF len
  <1> QED BY <1>4, <1>6, <1>19, <1>20, <1>23, <1>24, <1>25, <1>26, <1>27 DEF D

\* fork and execve leave a PCB without descriptors, from which nothing was taken.
LEMMA NewPcbFollows ==
    ASSUME FdInv, NEW p \in Procs, NewPcb(p)
    PROVE  /\ FdInv' /\ \A q \in Procs : Fresh(q) => Fresh(q)'
           /\ Fresh(p)' /\ got' = NoRead
  <1>1. /\ up /\ up' = up /\ global_tarfs' = global_tarfs /\ got' = NoRead
        /\ fd' = [fd EXCEPT ![p] = <<>>]
        /\ taken' = [taken EXCEPT ![p] = [i \in DOMAIN taken[p] |-> 0]]
    BY DEF NewPcb
  <1>2. fd \in [Procs -> Seq(Descriptors)] /\ taken \in [Procs -> [Inodes -> Nat]]
    BY <1>1 DEF FdInv
  <1>3. /\ fd' \in [Procs -> Seq(Descriptors)] /\ fd'[p] = <<>>
        /\ \A q \in Procs : q # p => fd'[q] = fd[q]
    BY <1>1, <1>2
  <1>4. /\ taken' \in [Procs -> [Inodes -> Nat]]
        /\ \A i \in Inodes : taken'[p][i] = 0
        /\ \A q \in Procs : q # p => taken'[q] = taken[q]
    <2>1. DOMAIN taken[p] = Inodes
      BY <1>2
    <2> QED BY <1>1, <1>2, <2>1
  <1>5. ASSUME NEW q \in Procs, q # p
        PROVE  (\A i \in DOMAIN fd'[q] : Follow(q, i)') /\ (Fresh(q) => Fresh(q)')
    BY <1>1, <1>3, <1>4, <1>5, FollowKept
  <1>6. \A i \in DOMAIN fd'[p] : Follow(p, i)'
    BY <1>3
  <1>7. Fresh(p)'
    BY <1>1, <1>4 DEF Fresh, Inodes
  <1>8. taken' \in [Procs -> [Inodes' -> Nat]]
    BY <1>1, <1>4 DEF Inodes
  <1>9. \A q \in Procs : \A i \in DOMAIN fd'[q] : Follow(q, i)'
    BY <1>5, <1>6
  <1>10. FdInv'
    BY <1>1, <1>3, <1>8, <1>9 DEF FdInv
  <1> QED BY <1>1, <1>5, <1>7, <1>10

\* Before init_tarfs has returned nothing is open.
LEMMA BootFollows ==
    ASSUME WalkInv, FdInv, AddEntry \/ Mounted
    PROVE  FdInv' /\ got' = NoRead /\ \A q \in Procs : Fresh(q)'
  <1>1. ~up /\ fd' = fd /\ got' = got
    BY DEF AddEntry, Mounted
  <1>2. got' = NoRead /\ fd' \in [Procs -> Seq(Descriptors)] /\ \A q \in Procs : fd'[q] = <<>>
    BY <1>1 DEF FdInv
  <1>3. \A q \in Procs : \A i \in DOMAIN fd'[q] : Follow(q, i)'
    BY <1>2
  <1>4. CASE AddEntry
    <2>1. ~up'
      BY <1>4 DEF AddEntry
    <2> QED BY <1>2, <1>3, <2>1 DEF FdInv, Fresh
  <1>5. CASE Mounted
    <2>1. up' /\ global_tarfs' = global_tarfs
          /\ taken' = [p \in Procs |-> [i \in {Inode(k) : k \in DOMAIN global_tarfs} |-> 0]]
      BY <1>5 DEF Mounted
    <2>2. {Inode(k) : k \in DOMAIN global_tarfs} = Inodes /\ Inodes' = Inodes
      <3>1. DOMAIN global_tarfs = 1..Len(global_tarfs)
        BY DEF WalkInv
      <3> QED BY <2>1, <3>1 DEF Inodes
    <2>3. taken' = [p \in Procs |-> [i \in Inodes |-> 0]]
      BY <2>1, <2>2
    <2>4. taken' \in [Procs -> [Inodes' -> Nat]]
      BY <2>2, <2>3
    <2>5. \A q \in Procs : Fresh(q)'
      BY <2>2, <2>3 DEF Fresh
    <2> QED BY <1>2, <1>3, <2>1, <2>4, <2>5 DEF FdInv
  <1> QED BY <1>4, <1>5

\* At the start nothing is open.
LEMMA FdStarts == ASSUME FsInit PROVE FdInv /\ ReadsFollowOn /\ \A q \in Procs : Fresh(q)
  <1>1. ~up /\ got = NoRead /\ fd = [p \in Procs |-> <<>>]
    BY DEF FsInit
  <1>2. fd \in [Procs -> Seq(Descriptors)] /\ \A q \in Procs : fd[q] = <<>>
    BY <1>1
  <1>3. \A q \in Procs : \A i \in DOMAIN fd[q] : Follow(q, i)
    BY <1>2
  <1> QED BY <1>1, <1>2, <1>3 DEF FdInv, ReadsFollowOn, Fresh

\* A step that leaves the file system alone.
LEMMA FdKept ==
    ASSUME FdInv, UNCHANGED <<global_tarfs, up, fd, taken, got>>
    PROVE  /\ FdInv' /\ \A q \in Procs : Fresh(q) => Fresh(q)'
           /\ ReadsFollowOn => ReadsFollowOn'
  <1>1. \A q \in Procs : (\A i \in DOMAIN fd'[q] : Follow(q, i)') /\ (Fresh(q) => Fresh(q)')
    BY FollowKept
  <1>2. ReadsFollowOn => ReadsFollowOn'
    BY DEF ReadsFollowOn, Entry
  <1>3. (up' => taken' \in [Procs -> [Inodes' -> Nat]]) /\ fd' \in [Procs -> Seq(Descriptors)]
        /\ (~up' => got' = NoRead /\ \A p \in Procs : fd'[p] = <<>>)
    BY DEF FdInv, Inodes
  <1> QED BY <1>1, <1>2, <1>3 DEF FdInv

(***************************************************************************)
(* The file system on its own, whatever programs open and read.            *)
(***************************************************************************)
FsInv == WalkInv /\ FdInv /\ ReadsFollowOn /\ \A q \in Procs : Fresh(q)

\* The invariant is inductive.
LEMMA FsInductive == FsSpec => []FsInv
  <1>1. FsInit => FsInv
    BY WalkStarts, FdStarts DEF FsInv
  <1>2. FsInv /\ [FsNext]_fsvars => FsInv'
    <2> SUFFICES ASSUME FsInv, [FsNext]_fsvars PROVE FsInv'
      OBVIOUS
    <2>0. WalkInv /\ FdInv /\ ReadsFollowOn /\ \A q \in Procs : Fresh(q)
      BY DEF FsInv
    <2>1. CASE AddEntry \/ Mounted
      <3>1. WalkInv'
        BY <2>0, <2>1, AddEntryWalks, MountedWalks
      <3>2. FdInv' /\ got' = NoRead /\ \A q \in Procs : Fresh(q)'
        BY <2>0, <2>1, BootFollows
      <3> QED BY <3>1, <3>2 DEF FsInv, ReadsFollowOn
    <2>2. ASSUME NEW p \in Procs, NEW k \in DOMAIN global_tarfs, Open(p, k)
          PROVE  FsInv'
      <3>1. k \in 1..Len(global_tarfs)
        BY <2>0 DEF WalkInv
      <3>2. WalkInv' /\ got' = NoRead
        BY <2>0, <2>2, WalkKept DEF Open
      <3>3. FdInv' /\ \A q \in Procs : Fresh(q)'
        BY <2>0, <2>2, <3>1, OpenFollows
      <3> QED BY <3>2, <3>3 DEF FsInv, ReadsFollowOn
    <2>3. ASSUME NEW p \in Procs, NEW k \in DOMAIN global_tarfs, NEW n \in ReadSizes,
                 Read(p, Inode(k), n)
          PROVE  FsInv'
      <3> DEFINE i == Inode(k)
      <3>1. n \in Nat /\ Read(p, i, n)
        BY <2>3, TarfsAssumption
      <3>2. WalkInv'
        BY <2>0, <2>3, WalkKept DEF Read
      <3> HIDE DEF i
      <3>3. FdInv' /\ ReadsFollowOn' /\ \A q \in Procs : Fresh(q)'
        BY <2>0, <3>1, ReadFollows
      <3> QED BY <3>2, <3>3 DEF FsInv
    <2>4. ASSUME NEW p \in Procs, NewPcb(p)
          PROVE  FsInv'
      <3>1. WalkInv'
        BY <2>0, <2>4, WalkKept DEF NewPcb
      <3>2. FdInv' /\ got' = NoRead /\ \A q \in Procs : Fresh(q)'
        BY <2>0, <2>4, NewPcbFollows
      <3> QED BY <3>1, <3>2 DEF FsInv, ReadsFollowOn
    <2>5. CASE UNCHANGED fsvars
      <3>1. WalkInv'
        BY <2>0, <2>5, WalkKept DEF fsvars
      <3>2. FdInv' /\ ReadsFollowOn' /\ \A q \in Procs : Fresh(q)'
        BY <2>0, <2>5, FdKept DEF fsvars
      <3> QED BY <3>1, <3>2 DEF FsInv
    <2> QED BY <2>1, <2>2, <2>3, <2>4, <2>5 DEF FsNext
  <1> QED BY <1>1, <1>2, PTL DEF FsSpec

\* In every archive, whatever the sizes of its files, init_tarfs goes from
\* header to header and describes every entry as tar wrote it.
THEOREM FilesFound == FsSpec => []WalkFindsFiles
  <1>1. FsInv => WalkFindsFiles
    BY WalkTells DEF FsInv
  <1> QED BY <1>1, FsInductive, PTL

\* Whatever programs open and read, in any number of processes, a read goes on
\* where this process's last read of the file ended.
THEOREM ReadsInOrder == FsSpec => []ReadsFollowOn
  <1>1. FsInv => ReadsFollowOn
    BY DEF FsInv
  <1> QED BY <1>1, FsInductive, PTL

(***************************************************************************)
(* The shell and its commands.                                             *)
(***************************************************************************)

\* A file that was opened is read before anything else is done, and the
\* descriptor for it is the last one.
FileInv ==
    file # NoFile =>
      /\ up /\ Len(fd[file.p]) > 0
      /\ file.p = Terminal => prog = "none" /\ script = <<>>
      /\ file.p # Terminal => file.p = Command /\ prog = "cat" /\ names # <<>>
      /\ fd[file.p][Len(fd[file.p])].inode = file.inode
      /\ FirstFor(file.p, Len(fd[file.p])) => taken[file.p][file.inode] = 0

\* ls alone has the working directory as its only name.
LsInv ==
    prog = "ls" /\ asked.args = <<>> /\ names # <<>>
      => names = <<[path |-> curr_dir, slash |-> TRUE]>>

CatCommand(args) == \E c \in Commands : c.prog = "cat" /\ args = c.args

\* Before cat has come to its second name it has read nothing yet.
CatInv ==
    prog = "cat" /\ asked.done = 0 =>
      /\ CatCommand(asked.args)
      /\ text = <<>> /\ names = Arguments(curr_dir, asked.args)
      /\ file = NoFile => fd[Command] = <<>>
      /\ file # NoFile =>
           /\ Len(fd[Command]) = 1
           /\ Named(names[1].path, names[1].slash) # {}
           /\ file.inode = Inode(Min(Named(names[1].path, names[1].slash)))

AskedInv ==
    /\ asked = [prog |-> asked.prog, args |-> asked.args, done |-> asked.done]
    /\ asked.done \in Nat
    /\ line \in Seq(Int)
    /\ prog # "none" => up
    /\ LsInv /\ CatInv

FdsInv == FdInv /\ ReadsFollowOn /\ Fresh(Terminal) /\ (prog # "none" => Fresh(Command))

OutInv == LsListsHere /\ CatShowsFile /\ FirstRunComplete

TreeInv == IInv /\ dirs = Directories

ShellInv == WalkInv /\ FdsInv /\ FileInv /\ AskedInv /\ OutInv /\ TreeInv

\* The least element of a set of numbers.
LEMMA MinIs ==
    ASSUME NEW S \in SUBSET Nat, S # {}
    PROVE  Min(S) \in S /\ \A x \in S : Min(S) <= x
  <1>1. \E x \in S : \A y \in S : x <= y
    BY LeastNumber
  <1> QED BY <1>1 DEF Min

\* The only element of a set.
LEMMA MinOne == ASSUME NEW k \in Nat PROVE Min({k}) = k
  <1>1. {k} \in SUBSET Nat /\ {k} # {}
    OBVIOUS
  <1>2. Min({k}) \in {k}
    BY <1>1, MinIs
  <1> QED BY <1>2

\* The programs that are run.
LEMMA CommandIs ==
    ASSUME NEW c \in Commands
    PROVE  c.prog \in {"ls", "cat", "echo"} /\ c.prog # "none"
  BY DEF Commands

\* cat has one or two names.
LEMMA CatArguments ==
    ASSUME NEW args, CatCommand(args)
    PROVE  /\ args # <<>> /\ DOMAIN args = 1..Len(args) /\ Len(args) \in {1, 2}
           /\ 1 \in DOMAIN args
  <1>1. PICK c \in Commands : c.prog = "cat" /\ args = c.args
    BY DEF CatCommand
  <1>2. c \in [prog : {"ls", "cat"}, args : {<<o>> : o \in Operands} \cup (Operands \X Operands)]
    BY <1>1 DEF Commands
  <1>3. args \in {<<o>> : o \in Operands} \cup (Operands \X Operands)
    BY <1>1, <1>2
  <1>4. CASE args \in {<<o>> : o \in Operands}
    <2>1. PICK o \in Operands : args = <<o>>
      BY <1>4
    <2> QED BY <2>1
  <1>5. CASE args \in Operands \X Operands
    <2>1. PICK o, b \in Operands : args = <<o, b>>
      BY <1>5
    <2> QED BY <2>1
  <1> QED BY <1>3, <1>4, <1>5

\* The first name is put behind the working directory; a slash is added to it
\* only if it is the last one and not in Bare.
LEMMA FirstName ==
    ASSUME NEW args, NEW d, CatCommand(args), ~args[1].slash,
           Len(args) = 2 \/ Last(args[1].path) \in Bare
    PROVE  /\ Arguments(d, args) # <<>>
           /\ Arguments(d, args)[1].path = d \o args[1].path
           /\ Arguments(d, args)[1].slash = FALSE
  <1>1. args # <<>> /\ DOMAIN args = 1..Len(args) /\ Len(args) \in {1, 2} /\ 1 \in DOMAIN args
    BY CatArguments
  <1>2. Slashed(args, 1) = FALSE
    BY <1>1 DEF Slashed
  <1> DEFINE A == [k \in DOMAIN args |->
                     [path  |-> IF k = 1 THEN d \o args[k].path ELSE args[k].path,
                      slash |-> Slashed(args, k)]]
  <1>3. Arguments(d, args) = A
    BY <1>1 DEF Arguments
  <1>4. A[1] = [path |-> d \o args[1].path, slash |-> Slashed(args, 1)]
    BY <1>1
  <1>5. DOMAIN A # {}
    BY <1>1
  <1> HIDE DEF A
  <1>6. A # <<>>
    BY <1>5
  <1> QED BY <1>2, <1>3, <1>4, <1>6

\* Nothing was written.
LEMMA NothingOut == ASSUME out' = Nothing PROVE OutInv'
  <1>1. out'.by = "none"
    BY DEF Nothing
  <1> QED BY <1>1 DEF OutInv, LsListsHere, CatShowsFile, FirstRunComplete

\* A step that leaves what was written.
LEMMA OutKept ==
    ASSUME OutInv, UNCHANGED <<out, asked, curr_dir, archive>>
    PROVE  OutInv'
  <1>1. Inside(curr_dir)' = Inside(curr_dir)
    BY DEF Inside, Children
  <1>2. Bytes(curr_dir \o asked.args[1].path)' = Bytes(curr_dir \o asked.args[1].path)
    <2>1. HeaderOffset(archive)' = HeaderOffset(archive)
      OBVIOUS
    <2> QED BY <2>1 DEF Bytes, Contents
  <1>3. LsListsHere'
    BY <1>1 DEF OutInv, LsListsHere
  <1>4. CatShowsFile'
    BY <1>2 DEF OutInv, CatShowsFile
  <1>5. FirstRunComplete'
    <2>1. Contents(out.inode - 3)' = Contents(out.inode - 3)
      <3>1. HeaderOffset(archive)' = HeaderOffset(archive)
        OBVIOUS
      <3> QED BY <3>1 DEF Contents
    <2> QED BY <2>1 DEF OutInv, FirstRunComplete
  <1> QED BY <1>3, <1>4, <1>5 DEF OutInv

\* Commands other than cd leave the working directory.
LEMMA TreeKept ==
    ASSUME TreeInv, UNCHANGED <<dirs, curr_dir, temp_curr_dir, archive>>
    PROVE  TreeInv'
  BY DEF TreeInv, IInv, DirectoriesExist, Directories

\* Init.
LEMMA ShellStarts == ASSUME Init PROVE ShellInv
  <1>1. FsInit /\ CdInit /\ dirs = Directories
    BY DEF Init
  <1>2. prog = "none" /\ names = <<>> /\ file = NoFile /\ line = <<>> /\ asked = NoCommand
        /\ out = Nothing
    BY DEF Init
  <1>3. WalkInv /\ FdsInv
    BY <1>1, WalkStarts, FdStarts, ShellAssumption DEF FdsInv
  <1>4. FileInv
    BY <1>2 DEF FileInv
  <1>5. AskedInv
    BY <1>2 DEF AskedInv, NoCommand, LsInv, CatInv
  <1>6. out.by = "none"
    BY <1>2 DEF Nothing
  <1>7. OutInv
    BY <1>6 DEF OutInv, LsListsHere, CatShowsFile, FirstRunComplete
  <1>8. TreeInv
    BY <1>1 DEF TreeInv, IInv, CdInit, DirectoriesExist
  <1> QED BY <1>3, <1>4, <1>5, <1>7, <1>8 DEF ShellInv

\* While init_tarfs runs.
LEMMA BootingKeeps == ASSUME ShellInv, Booting PROVE ShellInv'
  <1>1. (AddEntry \/ Mounted) /\ UNCHANGED <<cdvars, shvars>>
    BY DEF Booting
  <1>2. UNCHANGED <<dirs, curr_dir, temp_curr_dir, prog, names, file, text, line, script, asked,
                    out>>
    BY <1>1 DEF cdvars, shvars
  <1>3. ~up /\ archive' = archive /\ fd' = fd
    BY <1>1 DEF AddEntry, Mounted
  <1>4. WalkInv'
    BY <1>1, AddEntryWalks, MountedWalks DEF ShellInv
  <1>5. FdInv' /\ got' = NoRead /\ \A q \in Procs : Fresh(q)'
    BY <1>1, BootFollows DEF ShellInv, FdsInv
  <1>6. FdsInv'
    BY <1>5, ShellAssumption DEF FdsInv, ReadsFollowOn
  <1>7. file = NoFile
    BY <1>3 DEF ShellInv, FileInv
  <1>8. FileInv'
    BY <1>2, <1>7 DEF FileInv
  <1>9. AskedInv'
    BY <1>2, <1>3, <1>7 DEF ShellInv, AskedInv, LsInv, CatInv, CatCommand
  <1>10. OutInv'
    BY <1>2, <1>3, OutKept DEF ShellInv
  <1>11. TreeInv'
    BY <1>2, <1>3, TreeKept DEF ShellInv
  <1> QED BY <1>4, <1>6, <1>8, <1>9, <1>10, <1>11 DEF ShellInv

\* The greater one of two numbers.
LEMMA MaxTwo ==
    ASSUME NEW m \in Nat, NEW n \in Nat
    PROVE  Max({m, n}) = IF m >= n THEN m ELSE n
  <1> DEFINE S == {m, n}
             x == IF m >= n THEN m ELSE n
  <1>1. x \in S /\ \A y \in S : x >= y
    OBVIOUS
  <1>2. \A z \in S : (\A y \in S : z >= y) => z = x
    OBVIOUS
  <1>3. Max(S) = CHOOSE z \in S : \A y \in S : z >= y
    BY DEF Max
  <1> HIDE DEF S, x
  <1>4. Max(S) = x
    BY <1>1, <1>2, <1>3
  <1> QED BY <1>4 DEF S, x

\* The line stays a sequence, whatever is stored in it.
LEMMA PutIs ==
    ASSUME line \in Seq(Int), NEW n \in Nat, NEW z \in Nat
    PROVE  Put(line, n, z) \in Seq(Int)
  <1> DEFINE m == Max({n, Len(line)})
             e(i) == IF i <= n THEN TYPED ELSE IF i <= n + z THEN NUL ELSE line[i]
  <1>1. Len(line) \in Nat /\ DOMAIN line = 1..Len(line)
    OBVIOUS
  <1>2. m = IF n >= Len(line) THEN n ELSE Len(line)
    BY <1>1, MaxTwo
  <1>3. ASSUME NEW i \in 1..m PROVE e(i) \in Int
    <2>1. CASE i <= n + z
      BY <2>1 DEF TYPED, NUL
    <2>2. CASE ~(i <= n + z)
      <3>1. ~(i <= n) /\ i \in 1..Len(line)
        BY <1>1, <1>2, <2>2
      <3> QED BY <2>2, <3>1
    <2> QED BY <2>1, <2>2
  <1>4. m \in Nat
    BY <1>1, <1>2
  <1>5. Put(line, n, z) = [i \in 1..m |-> e(i)]
    BY DEF Put
  <1> HIDE DEF m, e
  <1> QED BY <1>3, <1>4, <1>5

\* What read stores in the line comes first.
LEMMA StoredStarts ==
    ASSUME NEW l \in Seq(Int), NEW start \in Nat, NEW len \in Nat
    PROVE  /\ Stored(l, start, len) \in Seq(Int)
           /\ Len(Stored(l, start, len)) >= len
           /\ \A i \in 1..len : Stored(l, start, len)[i] = start + i - 1
           /\ Len(l) <= len => Len(Stored(l, start, len)) = len
  <1> DEFINE m == Max({len, Len(l)})
             e(i) == IF i <= len THEN start + i - 1 ELSE IF i = 1 THEN NUL ELSE l[i]
  <1>1. Len(l) \in Nat /\ DOMAIN l = 1..Len(l)
    OBVIOUS
  <1>2. m = IF len >= Len(l) THEN len ELSE Len(l)
    BY <1>1, MaxTwo
  <1>3. ASSUME NEW i \in 1..m PROVE e(i) \in Int
    <2>1. CASE i <= len \/ i = 1
      BY <2>1 DEF NUL
    <2>2. CASE ~(i <= len \/ i = 1)
      <3>1. i \in 1..Len(l)
        BY <1>1, <1>2, <2>2
      <3> QED BY <2>2, <3>1
    <2> QED BY <2>1, <2>2
  <1>4. m \in Nat /\ m >= len /\ (Len(l) <= len => m = len)
    BY <1>1, <1>2
  <1>5. \A i \in 1..len : i \in 1..m /\ e(i) = start + i - 1
    BY <1>4
  <1>6. Stored(l, start, len) = [i \in 1..m |-> e(i)]
    BY DEF Stored
  <1> HIDE DEF m, e
  <1> QED BY <1>3, <1>4, <1>5, <1>6

\* cd.
LEMMA CdKeeps == ASSUME ShellInv, NEW a \in Args, NEW n \in LineSizes, Cd(a, n) PROVE ShellInv'
  <1>1. Prompt /\ Chdir(a) /\ out' = Nothing /\ UNCHANGED dirs /\ line' = Put(line, n, 3)
        /\ UNCHANGED <<fsvars, prog, names, file, text, script, asked>>
    BY DEF Cd, Chdir, Typed
  <1>2. UNCHANGED <<archive, offset, global_tarfs, up, fd, taken, got>>
    BY <1>1 DEF fsvars
  <1>3. WalkInv'
    BY <1>2, WalkKept DEF ShellInv
  <1>4. FdsInv'
    BY <1>1, <1>2, FdKept, ShellAssumption DEF ShellInv, FdsInv
  <1>5. file = NoFile /\ prog = "none"
    BY <1>1 DEF Prompt
  <1>6. FileInv'
    BY <1>1, <1>5 DEF FileInv
  <1>7. AskedInv'
    <2>1. line' \in Seq(Int)
      <3>1. n \in Nat
        BY ShellAssumption
      <3> QED BY <1>1, <3>1, PutIs DEF ShellInv, AskedInv
    <2> QED BY <1>1, <1>2, <1>5, <2>1 DEF ShellInv, AskedInv, LsInv, CatInv
  <1>8. OutInv'
    BY <1>1, NothingOut
  <1>9. TreeInv'
    BY <1>1, <1>2, ChdirKeeps DEF ShellInv, TreeInv, Directories
  <1> QED BY <1>3, <1>4, <1>6, <1>7, <1>8, <1>9 DEF ShellInv

\* fork and execve.
LEMMA StartKeeps ==
    ASSUME ShellInv, NEW c \in Commands, Start(c), file = NoFile, line' \in Seq(Int)
    PROVE  ShellInv'
  <1>1. /\ NewPcb(Command) /\ prog' = c.prog /\ text' = <<>>
        /\ names' = IF c.prog = "echo" THEN <<>> ELSE Arguments(curr_dir, c.args)
        /\ asked' = [prog |-> c.prog, args |-> c.args, done |-> 0]
        /\ out' = Nothing /\ UNCHANGED <<dirs, curr_dir, temp_curr_dir, file>>
    BY DEF Start
  <1>2. UNCHANGED <<archive, offset, global_tarfs, up>> /\ fd' = [fd EXCEPT ![Command] = <<>>]
    BY <1>1 DEF NewPcb
  <1>3. Terminal \in Procs /\ Command \in Procs
    BY ShellAssumption
  <1>4. WalkInv'
    BY <1>2, WalkKept DEF ShellInv
  <1>5. FdsInv'
    <2>1. FdInv' /\ Fresh(Command)' /\ got' = NoRead /\ (Fresh(Terminal) => Fresh(Terminal)')
      BY <1>1, <1>3, NewPcbFollows DEF ShellInv, FdsInv
    <2> QED BY <2>1 DEF ShellInv, FdsInv, ReadsFollowOn
  <1>6. FileInv'
    BY <1>1 DEF FileInv, NoFile
  <1>7. asked'.prog = c.prog /\ asked'.args = c.args /\ asked'.done = 0
    BY <1>1
  <1>8. LsInv'
    <2> SUFFICES ASSUME c.prog = "ls", c.args = <<>>
                 PROVE  names' = <<[path |-> curr_dir, slash |-> TRUE]>>
      BY <1>1, <1>7 DEF LsInv
    <2> QED BY <1>1 DEF Arguments
  <1>9. CatInv'
    <2> SUFFICES ASSUME c.prog = "cat" PROVE CatInv'
      BY <1>1 DEF CatInv
    <2>1. CatCommand(asked.args)'
      BY <1>7 DEF CatCommand
    <2>2. names' = Arguments(curr_dir', asked'.args)
      BY <1>1, <1>7
    <2>3. fd'[Command] = <<>>
      <3>1. fd \in [Procs -> Seq(Descriptors)]
        BY DEF ShellInv, FdsInv, FdInv
      <3> QED BY <1>2, <1>3, <3>1
    <2>4. file' = NoFile'
      BY <1>1 DEF NoFile
    <2> QED BY <1>1, <2>1, <2>2, <2>3, <2>4 DEF CatInv
  <1>10. AskedInv'
    <2>1. up'
      BY <1>1, <1>2 DEF NewPcb
    <2> QED BY <1>1, <1>7, <1>8, <1>9, <2>1 DEF AskedInv
  <1>11. OutInv'
    BY <1>1, NothingOut
  <1>12. TreeInv'
    BY <1>1, <1>2, TreeKept DEF ShellInv
  <1> QED BY <1>4, <1>5, <1>6, <1>10, <1>11, <1>12 DEF ShellInv

\* A command that is typed.
LEMMA TypeCommandKeeps ==
    ASSUME ShellInv, NEW c \in Commands, NEW n \in LineSizes, TypeCommand(c, n)
    PROVE  ShellInv'
  <1>1. file = NoFile /\ Start(c) /\ line' = Put(line, n, 3)
    BY DEF TypeCommand, Prompt, Typed
  <1>2. line' \in Seq(Int)
    <2>1. n \in Nat
      BY ShellAssumption
    <2> QED BY <1>1, <2>1, PutIs DEF ShellInv, AskedInv
  <1> QED BY <1>1, <1>2, StartKeeps

\* A command in a script: no file is waiting to be read when it is started.
LEMMA ScriptLineKeeps == ASSUME ShellInv, ScriptLine PROVE ShellInv'
  <1>1. prog = "none" /\ script # <<>> /\ line' = line
    BY DEF ScriptLine
  <1>2. PICK c \in Understood(Line(script)) : Start(c)
    BY DEF ScriptLine
  <1>3. c \in Commands
    <2>1. Understood(Line(script)) \subseteq Commands
      BY DEF Understood
    <2> QED BY <2>1
  <1>4. file = NoFile
    BY <1>1 DEF ShellInv, FileInv
  <1>5. line' \in Seq(Int)
    BY <1>1 DEF ShellInv, AskedInv
  <1> QED BY <1>2, <1>3, <1>4, <1>5, StartKeeps

\* A line of text that the shell does not know.
LEMMA ScriptTextKeeps == ASSUME ShellInv, ScriptText PROVE ShellInv'
  <1>1. /\ prog = "none" /\ script # <<>> /\ out' = Nothing
        /\ UNCHANGED <<fsvars, dirs, curr_dir, temp_curr_dir, prog, names, file, text, line, asked>>
    BY DEF ScriptText
  <1>2. UNCHANGED <<archive, offset, global_tarfs, up, fd, taken, got>>
    BY <1>1 DEF fsvars
  <1>3. WalkInv'
    BY <1>2, WalkKept DEF ShellInv
  <1>4. FdsInv'
    BY <1>1, <1>2, FdKept, ShellAssumption DEF ShellInv, FdsInv
  <1>5. file = NoFile
    BY <1>1 DEF ShellInv, FileInv
  <1>6. FileInv'
    BY <1>1, <1>5 DEF FileInv, NoFile
  <1>7. AskedInv'
    BY <1>1, <1>2 DEF ShellInv, AskedInv, LsInv, CatInv
  <1>8. OutInv'
    BY <1>1, NothingOut
  <1>9. TreeInv'
    BY <1>1, <1>2, TreeKept DEF ShellInv
  <1> QED BY <1>3, <1>4, <1>6, <1>7, <1>8, <1>9 DEF ShellInv

\* The end of a command.
LEMMA FinishKeeps == ASSUME ShellInv, Finish PROVE ShellInv'
  <1>1. /\ file = NoFile /\ prog' = "none" /\ fd' = [fd EXCEPT ![Command] = <<>>]
        /\ got' = NoRead /\ asked' = NoCommand /\ out' = Nothing
        /\ UNCHANGED <<archive, offset, global_tarfs, up, taken, cdvars, names, file, line>>
    BY DEF Finish
  <1>2. Terminal \in Procs /\ Command \in Procs /\ Terminal # Command
        /\ \A q \in Procs : q = Terminal \/ q = Command
    BY ShellAssumption
  <1>3. WalkInv'
    BY <1>1, WalkKept DEF ShellInv
  <1>4. FdInv /\ fd \in [Procs -> Seq(Descriptors)]
    BY DEF ShellInv, FdsInv, FdInv
  <1>5. fd' \in [Procs -> Seq(Descriptors)] /\ fd'[Command] = <<>> /\ fd'[Terminal] = fd[Terminal]
    BY <1>1, <1>2, <1>4
  <1>6. (\A i \in DOMAIN fd'[Terminal] : Follow(Terminal, i)')
        /\ (Fresh(Terminal) => Fresh(Terminal)')
    BY <1>1, <1>2, <1>4, <1>5, FollowKept
  <1>7. \A q \in Procs : \A i \in DOMAIN fd'[q] : Follow(q, i)'
    <2>1. \A i \in DOMAIN fd'[Command] : Follow(Command, i)'
      BY <1>5
    <2> QED BY <1>2, <1>6, <2>1
  <1>8. FdInv'
    <2>1. up' => taken' \in [Procs -> [Inodes' -> Nat]]
      BY <1>1, <1>4 DEF FdInv, Inodes
    <2>2. ~up' => \A p \in Procs : fd'[p] = <<>>
      BY <1>1, <1>2, <1>4, <1>5 DEF FdInv
    <2> QED BY <1>1, <1>5, <1>7, <2>1, <2>2 DEF FdInv
  <1>9. FdsInv'
    BY <1>1, <1>6, <1>8 DEF ShellInv, FdsInv, ReadsFollowOn
  <1>10. FileInv'
    BY <1>1 DEF FileInv, NoFile
  <1>11. AskedInv'
    BY <1>1 DEF ShellInv, AskedInv, NoCommand, LsInv, CatInv
  <1>12. OutInv'
    BY <1>1, NothingOut
  <1>13. TreeInv'
    BY <1>1, TreeKept DEF ShellInv, cdvars
  <1> QED BY <1>3, <1>9, <1>10, <1>11, <1>12, <1>13 DEF ShellInv

\* A name without its last part is empty only if it has one part.
LEMMA FrontIs ==
    ASSUME NEW s \in Seq(STRING), s # <<>>
    PROVE  Front(s) = <<>> <=> Len(s) = 1
  <1>1. Front(s) = SubSeq(s, 1, Len(s) - 1) /\ Len(s) \in Nat /\ Len(s) > 0
    BY DEF Front
  <1> DEFINE m == Len(s) - 1
  <1>2. m \in Nat /\ Front(s) = SubSeq(s, 1, m) /\ (Len(s) = 1 <=> m = 0)
    BY <1>1
  <1>3. m <= Len(s)
    BY <1>1
  <1> HIDE DEF m
  <1>4. CASE m = 0
    <2>1. SubSeq(s, 1, 0) = <<>>
      OBVIOUS
    <2> QED BY <1>2, <1>4, <2>1
  <1>5. CASE m # 0
    <2>1. Len(SubSeq(s, 1, m)) = m
      BY <1>2, <1>3, <1>5
    <2>2. SubSeq(s, 1, m) # <<>>
      BY <1>5, <2>1
    <2> QED BY <1>2, <1>5, <2>2
  <1> QED BY <1>4, <1>5

\* Directories are found, and what lies in them.
LEMMA ListsDirectory ==
    ASSUME WalkInv, TreeInv, up
    PROVE  OpenDir(curr_dir) # NO_DIR /\ ReadDir(OpenDir(curr_dir)) = Inside(curr_dir)
  <1>1. archive \in Archives /\ Len(archive) \in Nat /\ DOMAIN archive = 1..Len(archive)
        /\ DOMAIN global_tarfs = 1..Len(archive) /\ Len(global_tarfs) = Len(archive)
    BY ArchiveIs DEF WalkInv
  <1>2. \A k \in 1..Len(archive) : Describes(k) /\ Placed(k)
    BY <1>1 DEF WalkInv
  <1>3. CASE curr_dir = <<>>
    <2>1. OpenDir(curr_dir) = 0
      BY <1>3 DEF OpenDir
    <2>2. ReadDir(0) = {global_tarfs[k].name :
                          k \in {j \in 1..Len(archive) : Len(global_tarfs[j].name) = 1}}
      BY <1>1 DEF ReadDir
    <2>3. \A k \in 1..Len(archive) :
            /\ global_tarfs[k].name = archive[k].name
            /\ Len(archive[k].name) = 1 <=> Front(archive[k].name) = <<>>
      BY <1>1, <1>2, ArchiveIs, FrontIs DEF Describes
    <2>4. Inside(curr_dir) = {archive[k].name :
                                k \in {j \in 1..Len(archive) : Front(archive[j].name) = <<>>}}
      BY <1>1, <1>3 DEF Inside, Children, ROOT
    <2>5. ReadDir(0) = Inside(curr_dir)
      BY <2>2, <2>3, <2>4
    <2> QED BY <2>1, <2>5 DEF NO_DIR
  <1>4. CASE curr_dir # <<>>
    <2>1. curr_dir \in Directories
      BY <1>4 DEF TreeInv, IInv, DirectoriesExist, ROOT
    <2>2. PICK k \in 1..Len(archive) : archive[k].dir /\ archive[k].name = curr_dir
      BY <1>1, <2>1 DEF Directories
    <2>3. \A j \in 1..Len(archive) : archive[j].name = curr_dir <=> j = k
      BY <1>1, <2>2, ArchiveIs
    <2>4. \A j \in 1..Len(archive) :
            /\ global_tarfs[j].name = archive[j].name
            /\ global_tarfs[j].dir = archive[j].dir
            /\ global_tarfs[j].inode = Inode(j)
      BY <1>2 DEF Describes
    <2>5. archive[k].dir = TRUE
      BY <1>1, <2>2, ArchiveIs
    <2>6. Named(curr_dir, TRUE) = {k}
      BY <1>1, <2>2, <2>3, <2>4, <2>5 DEF Named
    <2>7. Min(Named(curr_dir, TRUE)) = k
      <3>1. k \in Nat
        BY <1>1
      <3> QED BY <2>6, <3>1, MinOne
    <2>8. OpenDir(curr_dir) = Inode(k)
      BY <1>4, <2>4, <2>6, <2>7 DEF OpenDir
    <2>9. Inode(k) # NO_DIR /\ Inode(k) # 0
      <3>1. Len(archive) <= 100
        BY <1>1, ArchiveIs
      <3> QED BY <1>1, <3>1 DEF Inode, NO_DIR
    <2>10. ReadDir(Inode(k)) = {global_tarfs[j].name :
                                  j \in {i \in 1..Len(archive) : global_tarfs[i].p_inode = Inode(k)}}
      BY <1>1, <2>9 DEF ReadDir
    <2>11. \A j \in 1..Len(archive) : global_tarfs[j].p_inode = Inode(k)
             <=> ~archive[j].dir /\ Front(archive[j].name) = curr_dir
      BY <1>1, <1>2, <2>2 DEF Placed
    <2>12. Inside(curr_dir) = {archive[j].name :
              j \in {i \in 1..Len(archive) : Front(archive[i].name) = curr_dir /\ ~archive[i].dir}}
      BY <1>1, <1>4 DEF Inside, Children, ROOT
    <2>13. ReadDir(Inode(k)) = Inside(curr_dir)
      BY <2>4, <2>10, <2>11, <2>12
    <2> QED BY <2>8, <2>9, <2>13
  <1> QED BY <1>3, <1>4

\* ls.
LEMMA LsKeeps == ASSUME ShellInv, Ls PROVE ShellInv'
  <1> DEFINE n == Head(names)
             inode == IF n.slash THEN OpenDir(n.path) ELSE NO_DIR
  <1>1. /\ prog = "ls" /\ names # <<>>
        /\ asked' = [asked EXCEPT !.done = @ + 1]
        /\ UNCHANGED <<fsvars, cdvars, prog, file, text, line, script>>
    BY DEF Ls
  <1>2. IF inode = NO_DIR
        THEN names' = <<>> /\ out' = [by |-> "ls", listed |-> {}]
        ELSE names' = Tail(names) /\ out' = [by |-> "ls", listed |-> ReadDir(inode)]
    BY DEF Ls
  <1>3. UNCHANGED <<archive, offset, global_tarfs, up, fd, taken, got,
                    dirs, curr_dir, temp_curr_dir>>
    BY <1>1 DEF fsvars, cdvars
  <1>4. WalkInv'
    BY <1>3, WalkKept DEF ShellInv
  <1>5. FdsInv'
    BY <1>1, <1>3, FdKept, ShellAssumption DEF ShellInv, FdsInv
  <1>6. file = NoFile
    BY <1>1 DEF ShellInv, FileInv
  <1>7. FileInv'
    BY <1>1, <1>6 DEF FileInv, NoFile
  <1>8. asked' = [prog |-> asked.prog, args |-> asked.args, done |-> asked.done + 1]
        /\ asked.done \in Nat /\ line \in Seq(Int)
    BY <1>1 DEF ShellInv, AskedInv
  <1>9. asked'.prog = asked.prog /\ asked'.args = asked.args /\ asked'.done \in Nat
    BY <1>8
  <1>10. ASSUME asked.args = <<>>
         PROVE  n = [path |-> curr_dir, slash |-> TRUE] /\ Tail(names) = <<>>
    <2>1. names = <<[path |-> curr_dir, slash |-> TRUE]>>
      BY <1>1, <1>10 DEF ShellInv, AskedInv, LsInv
    <2> QED BY <2>1
  <1>11. LsInv'
    <2>1. asked.args = <<>> => names' = <<>>
      BY <1>2, <1>10
    <2> QED BY <1>9, <2>1 DEF LsInv
  <1>12. CatInv'
    BY <1>1 DEF CatInv
  <1>13. up
    BY <1>1 DEF ShellInv, AskedInv
  <1>18. AskedInv'
    BY <1>1, <1>3, <1>8, <1>9, <1>11, <1>12, <1>13 DEF AskedInv
  <1>14. LsListsHere'
    <2> SUFFICES ASSUME asked.args = <<>> PROVE out'.listed = Inside(curr_dir)'
      BY <1>9 DEF LsListsHere
    <2>1. n.slash /\ n.path = curr_dir
      BY <1>10
    <2>2. inode = OpenDir(curr_dir)
      BY <2>1
    <2> HIDE DEF inode
    <2>3. inode # NO_DIR /\ ReadDir(inode) = Inside(curr_dir)
      BY <1>13, <2>2, ListsDirectory DEF ShellInv
    <2>4. Inside(curr_dir)' = Inside(curr_dir)
      BY <1>3 DEF Inside, Children
    <2> QED BY <1>2, <2>3, <2>4
  <1>15. out'.by = "ls"
    BY <1>2
  <1>16. OutInv'
    BY <1>14, <1>15 DEF OutInv, CatShowsFile, FirstRunComplete
  <1>17. TreeInv'
    BY <1>3, TreeKept DEF ShellInv
  <1> QED BY <1>4, <1>5, <1>7, <1>16, <1>17, <1>18 DEF ShellInv

\* The bytes from address start on.
Run(start, len) == [i \in 1..len |-> start + i - 1]

\* The buffer of cat after nothing, and after a first file, was stored in it.
LEMMA StoredIs ==
    ASSUME NEW t, Len(t) = 0, NEW start \in Nat, NEW len \in Nat
    PROVE  Stored(t, start, len) = Run(start, len)
  <1>2. Max({len, 0}) = len
    <2>1. \E x \in {len, 0} : \A y \in {len, 0} : x >= y
      OBVIOUS
    <2>2. \A x \in {len, 0} : (\A y \in {len, 0} : x >= y) => x = len
      OBVIOUS
    <2> QED BY <2>1, <2>2 DEF Max
  <1>3. 1..Max({len, Len(t)}) = 1..len
    BY <1>2
  <1> DEFINE D == 1..Max({len, Len(t)})
             s == [i \in D |->
                     IF i <= len THEN start + i - 1 ELSE IF i = 1 THEN NUL ELSE t[i]]
             r == [i \in 1..len |-> start + i - 1]
  <1>4. Stored(t, start, len) = s
    BY DEF Stored
  <1>8. D = 1..len
    BY <1>3
  <1> HIDE DEF D
  <1>5. DOMAIN s = 1..len /\ DOMAIN r = 1..len
    BY <1>8
  <1>6. \A i \in 1..len : i <= len /\ s[i] = r[i]
    BY <1>8
  <1>7. s = r
    BY <1>5, <1>6
  <1> QED BY <1>4, <1>7 DEF D, Run

\* printf shows all of it if no byte of it ends the string.
LEMMA ShownIs ==
    ASSUME NEW t, \A i \in DOMAIN t : ~EndsString(t[i])
    PROVE  Shown(t) = t
  BY DEF Shown

\* The contents of a file hold no byte that ends a string.
LEMMA ContentsEndless ==
    ASSUME WalkInv, NEW k \in 1..Len(archive), NEW len \in Nat, len <= archive[k].size,
           NEW i \in 1..len
    PROVE  ~EndsString(HeaderOffset(archive)[k] + TARFS_HEADER + i - 1)
  <1> DEFINE h == HeaderOffset(archive)[k]
             a == h + TARFS_HEADER + i - 1
             size == archive[k].size
  <1>1. archive \in Archives /\ DOMAIN archive = 1..Len(archive) /\ size \in Nat
        /\ Len(archive) \in Nat
    BY ArchiveIs DEF WalkInv
  <1>2. h \in Nat
    <2>1. k \in 1..(Len(archive) + 1)
      BY <1>1
    <2>2. HeaderOffset(archive) \in [1..(Len(archive) + 1) -> Nat]
      BY <1>1, HeadersApart
    <2> QED BY <2>1, <2>2
  <1>3. TARFS_HEADER \in Nat \ {0}
    BY TarfsAssumption
  <1>4. len <= size
    OBVIOUS
  <1> HIDE DEF h, size
  <1>5. a # NUL /\ a \in (h + TARFS_HEADER)..(h + TARFS_HEADER + size - 1)
    BY <1>1, <1>2, <1>3, <1>4 DEF NUL
  <1> HIDE DEF a
  <1>6. a \in (HeaderOffset(archive)[k] + TARFS_HEADER)
                ..(HeaderOffset(archive)[k] + TARFS_HEADER + archive[k].size - 1)
    BY <1>5 DEF h, size
  <1>7. ~EndsString(a)
    BY <1>1, <1>5, <1>6 DEF EndsString
  <1> QED BY <1>7 DEF a, h

\* printf shows all of them.
LEMMA ContentsShown ==
    ASSUME WalkInv, NEW k \in 1..Len(archive), NEW len \in Nat, len <= archive[k].size
    PROVE  Shown(Run(HeaderOffset(archive)[k] + TARFS_HEADER, len))
             = Run(HeaderOffset(archive)[k] + TARFS_HEADER, len)
  <1> DEFINE from == HeaderOffset(archive)[k] + TARFS_HEADER
             t == Run(from, len)
  <1>1. \A i \in 1..len : ~EndsString(from + i - 1)
    BY ContentsEndless
  <1> HIDE DEF from
  <1>2. DOMAIN t = 1..len /\ \A i \in DOMAIN t : t[i] = from + i - 1
    BY DEF Run
  <1>3. \A i \in DOMAIN t : ~EndsString(t[i])
    BY <1>1, <1>2
  <1> HIDE DEF t
  <1>4. Shown(t) = t
    BY <1>3, ShownIs
  <1> QED BY <1>4 DEF t, from

\* A string is not cut off before the first byte that ends one.
LEMMA ShownStarts ==
    ASSUME NEW t \in Seq(Int), NEW len \in Nat, len <= Len(t),
           \A i \in 1..len : ~EndsString(t[i])
    PROVE  /\ Shown(t) \in Seq(Int) /\ len <= Len(Shown(t)) /\ Len(Shown(t)) <= Len(t)
           /\ \A i \in 1..len : Shown(t)[i] = t[i]
  <1> DEFINE stops == {i \in DOMAIN t : EndsString(t[i])}
  <1>1. Len(t) \in Nat /\ DOMAIN t = 1..Len(t)
    OBVIOUS
  <1>2. stops \in SUBSET Nat /\ \A i \in stops : i \in 1..Len(t) /\ i > len
    BY <1>1
  <1>3. Shown(t) = IF stops = {} THEN t ELSE SubSeq(t, 1, Min(stops) - 1)
    BY DEF Shown
  <1> HIDE DEF stops
  <1>4. CASE stops = {}
    BY <1>1, <1>3, <1>4
  <1>5. CASE stops # {}
    <2> DEFINE m == Min(stops) - 1
    <2>1. Min(stops) \in stops
      BY <1>2, <1>5, MinIs
    <2>2. m \in Nat /\ m >= len /\ m <= Len(t)
      <3>1. PICK end : end = Min(stops)
        OBVIOUS
      <3>2. end \in 1..Len(t) /\ end > len
        BY <1>2, <2>1, <3>1
      <3>3. end - 1 \in Nat /\ end - 1 >= len /\ end - 1 <= Len(t)
        BY <1>1, <3>2
      <3> QED BY <3>1, <3>3
    <2>3. Shown(t) = SubSeq(t, 1, m)
      BY <1>3, <1>5
    <2> HIDE DEF m
    <2>4. SubSeq(t, 1, m) \in Seq(Int) /\ Len(SubSeq(t, 1, m)) = m
          /\ \A i \in 1..m : SubSeq(t, 1, m)[i] = t[i]
      BY <2>2
    <2> QED BY <2>2, <2>3, <2>4
  <1> QED BY <1>4, <1>5

\* What is in a file.
LEMMA BytesIs ==
    ASSUME WalkInv, NEW k \in 1..Len(archive)
    PROVE  Bytes(archive[k].name)
             = Run(HeaderOffset(archive)[k] + TARFS_HEADER, Length(archive[k].size, TEXT))
  <1> DEFINE hits == {j \in DOMAIN archive : archive[j].name = archive[k].name}
  <1>1. hits = {k} /\ k \in Nat
    BY ArchiveIs DEF WalkInv
  <1>2. hits # {} /\ Min(hits) = k
    BY <1>1, MinOne
  <1> QED BY <1>2 DEF Bytes, Contents, Run

\* A name that is not the name of a file has no contents.
LEMMA BytesNone ==
    ASSUME WalkInv, NEW path, \A k \in 1..Len(archive) : archive[k].name = path => archive[k].dir
    PROVE  Bytes(path) = <<>>
  <1>1. DOMAIN archive = 1..Len(archive)
    BY ArchiveIs DEF WalkInv
  <1>2. CASE \A k \in 1..Len(archive) : archive[k].name # path
    <2>1. {k \in DOMAIN archive : archive[k].name = path} = {}
      BY <1>1, <1>2
    <2> QED BY <2>1 DEF Bytes
  <1>3. ASSUME NEW k \in 1..Len(archive), archive[k].name = path
        PROVE  Bytes(path) = <<>>
    <2>1. archive[k].size = 0
      BY <1>3, ArchiveIs DEF WalkInv
    <2>2. Length(archive[k].size, TEXT) = 0
      BY <2>1, ShellAssumption DEF Length
    <2> DEFINE f == Run(HeaderOffset(archive)[k] + TARFS_HEADER, Length(archive[k].size, TEXT))
    <2>3. DOMAIN f = {}
      BY <2>2 DEF Run
    <2>4. f = <<>>
      BY <2>3 DEF Run
    <2>5. Bytes(archive[k].name) = f
      BY BytesIs
    <2> QED BY <1>3, <2>4, <2>5
  <1> QED BY <1>2, <1>3

\* What open finds under a name.
LEMMA NamedIs ==
    ASSUME WalkInv, NEW path, NEW slash, Named(path, slash) # {}
    PROVE  /\ Min(Named(path, slash)) \in 1..Len(global_tarfs)
           /\ Min(Named(path, slash)) \in 1..Len(archive)
           /\ global_tarfs[Min(Named(path, slash))].inode = Inode(Min(Named(path, slash)))
           /\ archive[Min(Named(path, slash))].name = path
  <1> DEFINE N == Named(path, slash)
             k == Min(N)
  <1>1. DOMAIN global_tarfs = 1..Len(global_tarfs) /\ Len(global_tarfs) \in Nat
        /\ Len(archive) \in Nat /\ Len(global_tarfs) <= Len(archive)
    BY ArchiveIs DEF WalkInv
  <1>2. N \in SUBSET Nat /\ N \subseteq 1..Len(global_tarfs)
        /\ \A j \in N : global_tarfs[j].name = path
    BY <1>1 DEF Named
  <1> HIDE DEF N
  <1>3. k \in N
    BY <1>2, MinIs DEF N
  <1> HIDE DEF k
  <1>4. k \in 1..Len(global_tarfs) /\ k \in 1..Len(archive) /\ global_tarfs[k].name = path
    BY <1>1, <1>2, <1>3
  <1>5. Describes(k)
    BY <1>4 DEF WalkInv
  <1> QED BY <1>4, <1>5 DEF Describes, N, k

\* What a cat step that ends with a name leaves true, apart from the output.
LEMMA CatRound ==
    ASSUME ShellInv, prog = "cat", asked' = [asked EXCEPT !.done = @ + 1],
           UNCHANGED <<prog, line, up>>
    PROVE  /\ AskedInv'
           /\ asked'.args = asked.args /\ asked.done \in Nat /\ asked'.done = asked.done + 1
  <1>1. asked' = [prog |-> asked.prog, args |-> asked.args, done |-> asked.done + 1]
        /\ asked.done \in Nat /\ line \in Seq(Int) /\ up
    BY DEF ShellInv, AskedInv
  <1>2. asked'.prog = asked.prog /\ asked'.args = asked.args /\ asked'.done = asked.done + 1
        /\ asked'.done \in Nat /\ asked'.done # 0
    BY <1>1
  <1>3. LsInv' /\ CatInv'
    BY <1>2 DEF LsInv, CatInv
  <1> QED BY <1>1, <1>2, <1>3 DEF AskedInv

\* The output of cat.
LEMMA CatOut ==
    ASSUME out'.by = "cat", NEW n \in Nat, asked'.done = n + 1, asked'.args = asked.args,
           curr_dir' = curr_dir, archive' = archive,
           n = 0 /\ ~asked.args[1].slash
             /\ (Len(asked.args) = 2 \/ Last(asked.args[1].path) \in Bare)
             => out'.shown = Bytes(curr_dir \o asked.args[1].path)
    PROVE  OutInv'
  <1>1. Bytes(curr_dir \o asked.args[1].path)' = Bytes(curr_dir \o asked.args[1].path)
    <2>1. HeaderOffset(archive)' = HeaderOffset(archive)
      OBVIOUS
    <2> DEFINE S == {k \in DOMAIN archive : archive[k].name = curr_dir \o asked.args[1].path}
    <2>2. S' = S
      OBVIOUS
    <2>3. Bytes(curr_dir \o asked.args[1].path)
            = IF S = {} THEN <<>>
              ELSE [i \in 1..Length(archive[Min(S)].size, TEXT) |->
                      HeaderOffset(archive)[Min(S)] + TARFS_HEADER + i - 1]
      BY DEF Bytes, Contents
    <2>4. Bytes(curr_dir \o asked.args[1].path)'
            = IF S' = {} THEN <<>>
              ELSE [i \in 1..Length(archive'[Min(S')].size, TEXT) |->
                      HeaderOffset(archive')[Min(S')] + TARFS_HEADER + i - 1]
      BY DEF Bytes, Contents
    <2> HIDE DEF S
    <2> QED BY <2>2, <2>3, <2>4
  <1>2. asked'.done = 1 => n = 0
    OBVIOUS
  <1>3. CatShowsFile'
    BY <1>1, <1>2 DEF CatShowsFile
  <1> QED BY <1>3 DEF OutInv, LsListsHere, FirstRunComplete

\* cat of a name under which there is nothing.
LEMMA CatMissingKeeps == ASSUME ShellInv, CatMissing PROVE ShellInv'
  <1>1. /\ prog = "cat" /\ names # <<>> /\ file = NoFile
        /\ Named(Head(names).path, Head(names).slash) = {}
        /\ text' = Stored(text, 0, 0)
        /\ asked' = [asked EXCEPT !.done = @ + 1]
        /\ out' = [by |-> "cat", shown |-> Shown(text')]
        /\ UNCHANGED <<fsvars, cdvars, prog, file, line, script>>
    BY DEF CatMissing
  <1>2. UNCHANGED <<archive, offset, global_tarfs, up, fd, taken, got,
                    dirs, curr_dir, temp_curr_dir>>
    BY <1>1 DEF fsvars, cdvars
  <1>3. WalkInv'
    BY <1>2, WalkKept DEF ShellInv
  <1>4. FdsInv'
    BY <1>1, <1>2, FdKept, ShellAssumption DEF ShellInv, FdsInv
  <1>5. FileInv'
    BY <1>1 DEF FileInv, NoFile
  <1>6. AskedInv' /\ asked'.args = asked.args /\ asked.done \in Nat /\ asked'.done = asked.done + 1
    BY <1>1, <1>2, CatRound
  <1>7. ASSUME asked.done = 0, ~asked.args[1].slash,
               Len(asked.args) = 2 \/ Last(asked.args[1].path) \in Bare
        PROVE  out'.shown = Bytes(curr_dir \o asked.args[1].path)
    <2> DEFINE path == curr_dir \o asked.args[1].path
    <2>1. CatCommand(asked.args) /\ text = <<>> /\ names = Arguments(curr_dir, asked.args)
      BY <1>1, <1>7 DEF ShellInv, AskedInv, CatInv
    <2>2. names[1].path = path /\ names[1].slash = FALSE
      BY <1>7, <2>1, FirstName
    <2>3. Head(names) = names[1]
      OBVIOUS
    <2> HIDE DEF path
    <2>4. Named(path, FALSE) = {}
      BY <1>1, <2>2, <2>3
    <2>5. up
      BY <1>1 DEF ShellInv, AskedInv
    <2>6. DOMAIN global_tarfs = 1..Len(archive) /\ Len(global_tarfs) = Len(archive)
          /\ archive \in Archives
      BY <2>5 DEF ShellInv, WalkInv
    <2>7. ASSUME NEW k \in 1..Len(archive), archive[k].name = path PROVE archive[k].dir
      <3>1. global_tarfs[k].name = path /\ global_tarfs[k].dir = archive[k].dir
        BY <2>6, <2>7 DEF ShellInv, WalkInv, Describes
      <3>2. archive[k].dir # FALSE /\ archive[k].dir \in BOOLEAN
        BY <2>4, <2>6, <3>1, ArchiveIs DEF Named
      <3> QED BY <3>2
    <2>8. Bytes(path) = <<>>
      BY <2>7, BytesNone DEF ShellInv
    <2>9. text' = <<>>
      <3>1. Len(text) = 0 /\ 0 \in Nat
        BY <2>1
      <3> DEFINE r == Run(0, 0)
      <3>2. text' = r
        BY <1>1, <3>1, StoredIs
      <3>3. DOMAIN r = {}
        BY DEF Run
      <3>4. r = <<>>
        BY <3>3 DEF Run
      <3> QED BY <3>2, <3>4
    <2>10. Shown(text') = <<>>
      <3> DEFINE t == <<>>
      <3>1. \A i \in DOMAIN t : ~EndsString(t[i])
        OBVIOUS
      <3>2. Shown(t) = t
        <4> HIDE DEF t
        <4> QED BY <3>1, ShownIs
      <3> QED BY <2>9, <3>2
    <2> QED BY <1>1, <2>8, <2>10 DEF path
  <1>8. OutInv'
    <2>1. out'.by = "cat"
      BY <1>1
    <2>2. PICK n \in Nat : n = asked.done
      BY <1>6
    <2> QED BY <1>2, <1>6, <1>7, <2>1, <2>2, CatOut
  <1>9. TreeInv'
    BY <1>2, TreeKept DEF ShellInv
  <1> QED BY <1>3, <1>4, <1>5, <1>6, <1>8, <1>9 DEF ShellInv

\* cat opens a file.
LEMMA CatOpenKeeps == ASSUME ShellInv, CatOpen PROVE ShellInv'
  <1> DEFINE hits == Named(Head(names).path, Head(names).slash)
  <1>1. /\ prog = "cat" /\ names # <<>> /\ file = NoFile /\ hits # {}
        /\ Open(Command, Min(hits))
        /\ file' = [p |-> Command, inode |-> global_tarfs[Min(hits)].inode]
        /\ out' = Nothing
        /\ UNCHANGED <<cdvars, prog, names, text, line, script, asked>>
    BY DEF CatOpen
  <1>2. UNCHANGED <<archive, offset, global_tarfs, up, taken, dirs, curr_dir, temp_curr_dir>>
        /\ got' = NoRead /\ up
    BY <1>1 DEF Open, cdvars
  <1>3. Terminal \in Procs /\ Command \in Procs /\ Terminal # Command
    BY ShellAssumption
  <1>4. WalkInv /\ FdInv /\ Fresh(Command) /\ Fresh(Terminal)
    BY <1>1 DEF ShellInv, FdsInv
  <1>5. PICK k \in 1..Len(global_tarfs) : k = Min(hits) /\ global_tarfs[k].inode = Inode(k)
    BY <1>1, <1>4, NamedIs
  <1>6. /\ FdInv' /\ \A q \in Procs : Fresh(q) => Fresh(q)'
        /\ Len(fd[Command]) \in Nat /\ Len(fd'[Command]) = Len(fd[Command]) + 1
        /\ fd'[Command][Len(fd'[Command])].inode = Inode(k)
        /\ FirstFor(Command, Len(fd[Command]))' => taken'[Command][Inode(k)] = 0
    BY <1>1, <1>3, <1>4, <1>5, OpenFollows
  <1>7. file'.p = Command /\ file'.inode = Inode(k)
    BY <1>1, <1>5
  <1>8. WalkInv'
    BY <1>2, <1>4, WalkKept
  <1>9. FdsInv'
    BY <1>2, <1>3, <1>4, <1>6 DEF FdsInv, ReadsFollowOn
  <1>10. FileInv'
    <2>1. Len(fd'[Command]) > 0
      BY <1>6
    <2> QED BY <1>1, <1>2, <1>3, <1>6, <1>7, <2>1 DEF FileInv
  <1>11. CatInv'
    <2> SUFFICES ASSUME asked.done = 0 PROVE CatInv'
      BY <1>1 DEF CatInv
    <2>1. CatCommand(asked.args) /\ text = <<>> /\ names = Arguments(curr_dir, asked.args)
          /\ fd[Command] = <<>>
      BY <1>1 DEF ShellInv, AskedInv, CatInv
    <2>2. Len(fd'[Command]) = 1
      BY <1>6, <2>1
    <2>3. Head(names) = names[1]
      OBVIOUS
    <2>4. Named(names[1].path, names[1].slash)' = hits
      BY <1>1, <1>2, <2>3 DEF Named
    <2>5. file'.inode = Inode(Min(hits)) /\ hits # {}
      BY <1>1, <1>5, <1>7
    <2>6. file' # NoFile
      BY <1>3, <1>7 DEF NoFile
    <2> HIDE DEF hits
    <2>7. CatCommand(asked.args)'
      BY <1>1, <2>1 DEF CatCommand
    <2>8. names' = Arguments(curr_dir', asked'.args) /\ text' = <<>>
      BY <1>1, <1>2, <2>1
    <2>9. Named(names[1].path, names[1].slash)' # {}
          /\ file'.inode = Inode(Min(Named(names[1].path, names[1].slash)'))
      BY <2>4, <2>5
    <2> QED BY <2>2, <2>6, <2>7, <2>8, <2>9 DEF CatInv, NoFile
  <1>12. AskedInv'
    BY <1>1, <1>2, <1>11 DEF ShellInv, AskedInv, LsInv
  <1>13. OutInv'
    BY <1>1, NothingOut
  <1>14. TreeInv'
    BY <1>2, TreeKept DEF ShellInv
  <1> QED BY <1>8, <1>9, <1>10, <1>12, <1>13, <1>14 DEF ShellInv

\* cat reads what it has opened and shows it.
LEMMA CatReadKeeps == ASSUME ShellInv, CatRead PROVE ShellInv'
  <1>1. /\ prog = "cat" /\ file # NoFile
        /\ Read(Command, file.inode, TEXT)
        /\ text' = Stored(text, got'.start,
                          fd'[Command][Descriptor(Command, file.inode)].read_addr - got'.start)
        /\ file' = NoFile
        /\ asked' = [asked EXCEPT !.done = @ + 1]
        /\ out' = [by |-> "cat", shown |-> Shown(text')]
        /\ UNCHANGED <<cdvars, prog, line, script>>
    BY DEF CatRead
  <1>2. UNCHANGED <<archive, offset, global_tarfs, up, dirs, curr_dir, temp_curr_dir>> /\ up
    BY <1>1 DEF Read, cdvars
  <1>3. Terminal \in Procs /\ Command \in Procs /\ Terminal # Command /\ TEXT \in Nat
    BY ShellAssumption
  <1>4. WalkInv /\ FdInv /\ Fresh(Command) /\ Fresh(Terminal)
    BY <1>1 DEF ShellInv, FdsInv
  <1>5. PICK inode : inode = file.inode
    OBVIOUS
  <1> DEFINE len == Length(Entry(inode).size, TEXT)
  <1>6. /\ FdInv' /\ \A q \in Procs : Fresh(q) => Fresh(q)'
        /\ ReadsFollowOn' /\ inode \in Inodes
        /\ got'.start = Entry(inode).addr + taken[Command][inode]
        /\ fd'[Command][Descriptor(Command, inode)].read_addr = got'.start + len
        /\ len \in Nat
    <2>1. Read(Command, inode, TEXT)
      BY <1>1, <1>5
    <2> QED BY <1>3, <1>4, <2>1, ReadFollows
  <1>7. WalkInv'
    BY <1>2, <1>4, WalkKept
  <1>8. FdsInv'
    BY <1>3, <1>4, <1>6 DEF FdsInv
  <1>9. FileInv'
    BY <1>1 DEF FileInv, NoFile
  <1>10. AskedInv' /\ asked'.args = asked.args /\ asked.done \in Nat
         /\ asked'.done = asked.done + 1
    BY <1>1, <1>2, CatRound
  <1>11. ASSUME asked.done = 0, ~asked.args[1].slash,
                Len(asked.args) = 2 \/ Last(asked.args[1].path) \in Bare
         PROVE  out'.shown = Bytes(curr_dir \o asked.args[1].path)
    <2> DEFINE path == curr_dir \o asked.args[1].path
    <2>1. CatCommand(asked.args) /\ text = <<>> /\ names = Arguments(curr_dir, asked.args)
          /\ Len(fd[Command]) = 1 /\ Named(names[1].path, names[1].slash) # {}
          /\ file.inode = Inode(Min(Named(names[1].path, names[1].slash)))
      BY <1>1, <1>11 DEF ShellInv, AskedInv, CatInv
    <2>2. names[1].path = path /\ names[1].slash = FALSE
      BY <1>11, <2>1, FirstName
    <2> HIDE DEF path
    <2>3. PICK k \in 1..Len(archive) :
            k = Min(Named(path, FALSE)) /\ k \in 1..Len(global_tarfs) /\ archive[k].name = path
      <3>1. Named(path, FALSE) # {}
        BY <2>1, <2>2
      <3> QED BY <1>4, <3>1, NamedIs
    <2>4. inode = Inode(k) /\ inode - 3 = k
      <3>1. inode = Inode(k)
        BY <1>5, <2>1, <2>2, <2>3
      <3>2. k \in Nat
        BY <1>4 DEF WalkInv
      <3> QED BY <3>1, <3>2 DEF Inode
    <2>5. Entry(inode).size = archive[k].size
          /\ Entry(inode).addr = HeaderOffset(archive)[k] + TARFS_HEADER
      BY <1>4, <2>3, <2>4 DEF Entry, WalkInv, Describes
    <2>6. taken[Command][inode] = 0
      <3>1. file.p = Command
        BY <1>1 DEF ShellInv, FileInv
      <3>2. FirstFor(Command, Len(fd[Command])) => taken[Command][inode] = 0
        BY <1>1, <1>5, <3>1 DEF ShellInv, FileInv
      <3>3. DOMAIN fd[Command] = 1..1
        BY <1>3, <1>4, <2>1 DEF FdInv
      <3>4. FirstFor(Command, Len(fd[Command]))
        BY <2>1, <3>3 DEF FirstFor
      <3> QED BY <3>2, <3>4
    <2> DEFINE from == HeaderOffset(archive)[k] + TARFS_HEADER
               t == Run(from, len)
    <2>7. from \in Nat
      BY <1>4, <1>6, <2>5, EntryIs
    <2>8. got'.start = from
      BY <1>6, <2>5, <2>6, <2>7
    <2>9. fd'[Command][Descriptor(Command, file.inode)].read_addr - got'.start = len
      <3>1. fd'[Command][Descriptor(Command, file.inode)].read_addr = from + len
        BY <1>5, <1>6, <2>8
      <3>2. (from + len) - from = len
        <4> HIDE DEF from, len
        <4> QED BY <1>6, <2>7
      <3> QED BY <2>8, <3>1, <3>2
    <2>10. text' = t
      <3>1. Len(text) = 0
        BY <2>1
      <3>2. text' = Stored(text, from, len)
        BY <1>1, <2>8, <2>9
      <3>4. len \in Nat
        BY <1>6
      <3> HIDE DEF from, len
      <3>3. Stored(text, from, len) = t
        BY <2>7, <3>1, <3>4, StoredIs
      <3> QED BY <3>2, <3>3
    <2>11. len = Length(archive[k].size, TEXT) /\ len <= archive[k].size
      <3>1. len = Length(archive[k].size, TEXT)
        BY <2>5
      <3>2. archive[k].size \in Nat
        BY <1>4, ArchiveIs DEF WalkInv
      <3> HIDE DEF len
      <3> QED BY <1>3, <3>1, <3>2 DEF Length
    <2> HIDE DEF len
    <2>12. Shown(t) = t
      BY <1>4, <1>6, <2>11, ContentsShown
    <2>13. Bytes(path) = t
      <3>1. Bytes(archive[k].name) = t
        BY <1>4, <2>11, BytesIs
      <3> QED BY <2>3, <3>1
    <2> QED BY <1>1, <2>10, <2>12, <2>13 DEF path
  <1>12. OutInv'
    <2>1. out'.by = "cat"
      BY <1>1
    <2>2. PICK n \in Nat : n = asked.done
      BY <1>10
    <2> QED BY <1>2, <1>10, <1>11, <2>1, <2>2, CatOut
  <1>13. TreeInv'
    BY <1>2, TreeKept DEF ShellInv
  <1> QED BY <1>7, <1>8, <1>9, <1>10, <1>12, <1>13 DEF ShellInv

\* The name of a script is put in the line.
LEMMA NameIs ==
    ASSUME ShellInv, NEW path \in Scripts
    PROVE  Name(path) \in Seq(Int)
  <1>1. path \in Seq(STRING)
    BY ShellAssumption
  <1>2. curr_dir \in Seq(STRING)
    <2>1. curr_dir \in Directories \cup {ROOT}
      BY DEF ShellInv, TreeInv, IInv, DirectoriesExist
    <2>2. Directories \subseteq Seq(STRING)
      <3>1. archive \in Archives
        BY DEF ShellInv, WalkInv
      <3>2. \A k \in DOMAIN archive : archive[k].name \in Seq(STRING)
        BY <3>1, ArchiveIs
      <3> QED BY <3>2 DEF Directories
    <2>3. ROOT \in Seq(STRING)
      BY DEF ROOT
    <2> QED BY <2>1, <2>2, <2>3
  <1>3. Len(curr_dir \o path) \in Nat
    BY <1>1, <1>2
  <1> QED BY <1>3, PutIs DEF Name, ShellInv, AskedInv

\* There is no such script.
LEMMA ScriptMissingKeeps ==
    ASSUME ShellInv, NEW path \in Scripts, ScriptMissing(path) PROVE ShellInv'
  <1>1. /\ Prompt /\ out' = Nothing /\ line' = Stored(Name(path), 0, 0)
        /\ UNCHANGED <<fsvars, cdvars, prog, names, file, text, script, asked>>
    BY DEF ScriptMissing
  <1>2. UNCHANGED <<archive, offset, global_tarfs, up, fd, taken, got,
                    dirs, curr_dir, temp_curr_dir>>
    BY <1>1 DEF fsvars, cdvars
  <1>3. file = NoFile /\ prog = "none"
    BY <1>1 DEF Prompt
  <1>4. line' \in Seq(Int)
    <2> DEFINE l == Name(path)
    <2>1. l \in Seq(Int)
      BY NameIs
    <2> HIDE DEF l
    <2>2. Stored(l, 0, 0) \in Seq(Int)
      BY <2>1, StoredStarts
    <2> QED BY <1>1, <2>2 DEF l
  <1>5. WalkInv'
    BY <1>2, WalkKept DEF ShellInv
  <1>6. FdsInv'
    BY <1>1, <1>2, FdKept, ShellAssumption DEF ShellInv, FdsInv
  <1>7. FileInv'
    BY <1>1, <1>3 DEF FileInv, NoFile
  <1>8. AskedInv'
    BY <1>1, <1>2, <1>3, <1>4 DEF ShellInv, AskedInv, LsInv, CatInv
  <1>9. OutInv'
    BY <1>1, NothingOut
  <1>10. TreeInv'
    BY <1>2, TreeKept DEF ShellInv
  <1> QED BY <1>5, <1>6, <1>7, <1>8, <1>9, <1>10 DEF ShellInv

\* The shell opens a script.
LEMMA ScriptOpenKeeps ==
    ASSUME ShellInv, NEW path \in Scripts, ScriptOpen(path) PROVE ShellInv'
  <1> DEFINE hits == Named(curr_dir \o path, FALSE)
  <1>1. /\ Prompt /\ hits # {}
        /\ Open(Terminal, Min(hits))
        /\ file' = [p |-> Terminal, inode |-> global_tarfs[Min(hits)].inode]
        /\ line' = Name(path) /\ out' = Nothing
        /\ UNCHANGED <<dirs, curr_dir, temp_curr_dir, prog, names, text, script, asked>>
    BY DEF ScriptOpen
  <1>2. UNCHANGED <<archive, offset, global_tarfs, up, taken>> /\ got' = NoRead
        /\ up /\ prog = "none" /\ script = <<>>
    BY <1>1 DEF Open, Prompt
  <1>3. Terminal \in Procs
    BY ShellAssumption
  <1>4. WalkInv /\ FdInv /\ Fresh(Terminal)
    BY DEF ShellInv, FdsInv
  <1>5. PICK k \in 1..Len(global_tarfs) : k = Min(hits) /\ global_tarfs[k].inode = Inode(k)
    BY <1>1, <1>4, NamedIs
  <1>6. /\ FdInv' /\ \A q \in Procs : Fresh(q) => Fresh(q)'
        /\ Len(fd[Terminal]) \in Nat /\ Len(fd'[Terminal]) = Len(fd[Terminal]) + 1
        /\ fd'[Terminal][Len(fd'[Terminal])].inode = Inode(k)
        /\ FirstFor(Terminal, Len(fd[Terminal]))' => taken'[Terminal][Inode(k)] = 0
    BY <1>1, <1>3, <1>4, <1>5, OpenFollows
  <1>7. file'.p = Terminal /\ file'.inode = Inode(k)
    BY <1>1, <1>5
  <1>8. WalkInv'
    BY <1>2, <1>4, WalkKept
  <1>9. FdsInv'
    BY <1>1, <1>2, <1>3, <1>4, <1>6 DEF FdsInv, ReadsFollowOn
  <1>10. FileInv'
    <2>1. Len(fd'[Terminal]) > 0
      BY <1>6
    <2> QED BY <1>1, <1>2, <1>6, <1>7, <2>1 DEF FileInv
  <1>11. AskedInv'
    <2>1. line' \in Seq(Int)
      BY <1>1, NameIs
    <2> QED BY <1>1, <1>2, <2>1 DEF ShellInv, AskedInv, LsInv, CatInv
  <1>12. OutInv'
    BY <1>1, NothingOut
  <1>13. TreeInv'
    BY <1>1, <1>2, TreeKept DEF ShellInv
  <1> QED BY <1>8, <1>9, <1>10, <1>11, <1>12, <1>13 DEF ShellInv

\* The shell reads a script.
LEMMA ScriptReadKeeps == ASSUME ShellInv, ScriptRead PROVE ShellInv'
  <1>1. /\ file.p = Terminal /\ file # NoFile
        /\ Read(Terminal, file.inode, TEXT)
        /\ line' = Stored(line, got'.start,
                          fd'[Terminal][Descriptor(Terminal, file.inode)].read_addr - got'.start)
        /\ out' = [by |-> "sh", inode |-> file.inode, walked |-> Shown(line'), full |-> Len(line),
                   again |-> Cardinality(With(Terminal, file.inode)) > 1]
        /\ file' = NoFile
        /\ UNCHANGED <<cdvars, prog, names, text, asked>>
    BY DEF ScriptRead
  <1>2. UNCHANGED <<archive, offset, global_tarfs, up, dirs, curr_dir, temp_curr_dir>> /\ up
    BY <1>1 DEF Read, cdvars
  <1>3. Terminal \in Procs /\ TEXT \in Nat
    BY ShellAssumption
  <1>4. WalkInv /\ FdInv /\ Fresh(Terminal)
    BY DEF ShellInv, FdsInv
  <1>5. PICK inode : inode = file.inode
    OBVIOUS
  <1> DEFINE len == Length(Entry(inode).size, TEXT)
  <1>6. /\ FdInv' /\ \A q \in Procs : Fresh(q) => Fresh(q)'
        /\ ReadsFollowOn' /\ inode \in Inodes
        /\ got'.start = Entry(inode).addr + taken[Terminal][inode]
        /\ fd'[Terminal][Descriptor(Terminal, inode)].read_addr = got'.start + len
        /\ len \in Nat
    <2>1. Read(Terminal, inode, TEXT)
      BY <1>1, <1>5
    <2> QED BY <1>3, <1>4, <2>1, ReadFollows
  <1>7. prog = "none" /\ Len(fd[Terminal]) > 0
        /\ fd[Terminal][Len(fd[Terminal])].inode = inode
        /\ (FirstFor(Terminal, Len(fd[Terminal])) => taken[Terminal][inode] = 0)
    BY <1>1, <1>5 DEF ShellInv, FileInv
  <1>8. WalkInv'
    BY <1>2, <1>4, WalkKept
  <1>9. FdsInv'
    BY <1>1, <1>3, <1>4, <1>6, <1>7 DEF FdsInv
  <1>10. FileInv'
    BY <1>1 DEF FileInv, NoFile
  <1>14. line' = Stored(line, got'.start, len) /\ got'.start \in Nat /\ line \in Seq(Int)
    <2>1. got'.start \in Nat
      <3>1. Entry(inode).addr \in Nat
        BY <1>4, <1>6, EntryIs
      <3>2. taken[Terminal][inode] \in Nat
        BY <1>2, <1>3, <1>4, <1>6 DEF FdInv
      <3> QED BY <1>6, <3>1, <3>2
    <2> HIDE DEF len
    <2>2. fd'[Terminal][Descriptor(Terminal, inode)].read_addr - got'.start = len
      BY <1>6, <2>1
    <2> QED BY <1>1, <1>5, <2>1, <2>2 DEF ShellInv, AskedInv
  <1>11. AskedInv'
    <2>1. line' \in Seq(Int)
      BY <1>6, <1>14, StoredStarts
    <2> QED BY <1>1, <1>2, <1>7, <2>1 DEF ShellInv, AskedInv, LsInv, CatInv
  <1>12. ASSUME ~(Cardinality(With(Terminal, inode)) > 1)
         PROVE  taken[Terminal][inode] = 0
    <2> DEFINE W == With(Terminal, inode)
               n == Len(fd[Terminal])
    <2>1. fd[Terminal] \in Seq(Descriptors)
      BY <1>3, <1>4 DEF FdInv
    <2>2. n \in Nat /\ DOMAIN fd[Terminal] = 1..n /\ n \in 1..n
      BY <1>7, <2>1
    <2>3. n \in W /\ W \subseteq 1..n
      BY <1>7, <2>2 DEF With
    <2>4. IsFiniteSet(W)
      <3>1. IsFiniteSet(1..n)
        BY <2>2, FS_Interval
      <3> HIDE DEF W, n
      <3> QED BY <2>3, <3>1, FS_Subset
    <2>5. \A j \in DOMAIN fd[Terminal] : fd[Terminal][j].inode = inode => j \in W
      BY DEF With
    <2>6. ASSUME NEW j \in W PROVE j = n
      <3> SUFFICES ASSUME j # n PROVE FALSE
        OBVIOUS
      <3> HIDE DEF W, n
      <3>1. IsFiniteSet({j, n}) /\ Cardinality({j, n}) = 2
        <4>1. IsFiniteSet({j}) /\ Cardinality({j}) = 1
          BY FS_Singleton
        <4>2. n \notin {j} /\ {j, n} = {j} \cup {n}
          OBVIOUS
        <4>3. IsFiniteSet({j} \cup {n}) /\ Cardinality({j} \cup {n}) = 1 + 1
          BY <4>1, <4>2, FS_AddElement
        <4> QED BY <4>2, <4>3
      <3>2. {j, n} \subseteq W
        BY <2>3
      <3>3. Cardinality({j, n}) <= Cardinality(W)
        BY <2>4, <3>2, FS_Subset
      <3>4. Cardinality(W) \in Nat
        BY <2>4, FS_CardinalityType
      <3> QED BY <1>12, <3>1, <3>3, <3>4 DEF W
    <2>7. FirstFor(Terminal, n)
      BY <1>7, <2>2, <2>5, <2>6 DEF FirstFor
    <2> QED BY <1>7, <2>7
  <1>13. FirstRunComplete'
    <2> DEFINE k == inode - 3
               from == HeaderOffset(archive)[k] + TARFS_HEADER
               own == Contents(k)
               t == Stored(line, from, len)
    <2>1. k \in 1..Len(global_tarfs) /\ Entry(inode) = global_tarfs[k] /\ Entry(inode).addr \in Nat
      BY <1>4, <1>6, EntryIs
    <2>2. Len(global_tarfs) = Len(archive)
      BY <1>2, <1>4 DEF WalkInv
    <2>3. Entry(inode).addr = from /\ Entry(inode).size = archive[k].size
      BY <1>4, <2>1 DEF WalkInv, Describes
    <2>4. out'.by = "sh" /\ out'.inode = inode /\ out'.walked = Shown(line')
          /\ out'.full = Len(line)
          /\ out'.again = (Cardinality(With(Terminal, inode)) > 1)
      BY <1>1, <1>5
    <2>5. own = Run(from, len) /\ len \in Nat /\ len <= archive[k].size
      <3>1. archive[k].size \in Nat
        BY <1>4, <2>1, <2>2, ArchiveIs DEF WalkInv
      <3> HIDE DEF k
      <3> QED BY <1>3, <1>6, <2>3, <3>1 DEF Contents, Run, Length
    <2> SUFFICES ASSUME ~out'.again
                 PROVE  IsPrefix(own, out'.walked) /\ (Len(line) <= Len(own) => out'.walked = own)
      <3>1. Contents(k)' = Contents(k)
        BY <1>2 DEF Contents
      <3> QED BY <2>4, <3>1 DEF FirstRunComplete
    <2>6. got'.start = from
      <3>1. taken[Terminal][inode] = 0
        BY <1>12, <2>4
      <3>2. got'.start = Entry(inode).addr + 0
        BY <1>6, <3>1
      <3> HIDE DEF from
      <3> QED BY <2>1, <2>3, <3>2
    <2>7. out'.walked = Shown(t)
      BY <1>14, <2>4, <2>6
    <2>8. from \in Nat /\ k \in 1..Len(archive)
      BY <2>1, <2>2, <2>3
    <2>9. \A i \in 1..len : ~EndsString(from + i - 1)
      <3> HIDE DEF k, len
      <3> QED BY <1>4, <2>5, <2>8, ContentsEndless
    <2> HIDE DEF k, from, len, own, t
    <2>10. /\ t \in Seq(Int) /\ len <= Len(t)
           /\ \A i \in 1..len : t[i] = from + i - 1
           /\ Len(line) <= len => Len(t) = len
      <3>1. line \in Seq(Int)
        BY <1>14
      <3>2. from \in Nat /\ len \in Nat
        BY <2>5, <2>8
      <3>3. /\ Stored(line, from, len) \in Seq(Int)
            /\ Len(Stored(line, from, len)) >= len
            /\ \A i \in 1..len : Stored(line, from, len)[i] = from + i - 1
            /\ Len(line) <= len => Len(Stored(line, from, len)) = len
        BY <3>1, <3>2, StoredStarts
      <3>4. Len(t) \in Nat
        BY <3>3 DEF t
      <3>5. Len(t) >= len => len <= Len(t)
        BY <3>2, <3>4
      <3> QED BY <3>3, <3>5 DEF t
    <2>11. /\ Shown(t) \in Seq(Int) /\ len <= Len(Shown(t)) /\ Len(Shown(t)) <= Len(t)
           /\ \A i \in 1..len : Shown(t)[i] = from + i - 1
      <3>1. \A i \in 1..len : ~EndsString(t[i])
        BY <2>9, <2>10
      <3> QED BY <2>5, <2>10, <3>1, ShownStarts
    <2>12. own \in Seq(Int) /\ Len(own) = len /\ \A i \in 1..len : own[i] = from + i - 1
      BY <2>5, <2>8 DEF Run
    <2> DEFINE w == Shown(t)
    <2> HIDE DEF w
    <2>13. w \in Seq(Int) /\ len <= Len(w) /\ Len(w) <= Len(t) /\ out'.walked = w
           /\ \A i \in 1..len : w[i] = own[i]
      BY <2>7, <2>11, <2>12 DEF w
    <2>14. IsPrefix(own, w)
      <3>1. Len(own) <= Len(w)
        BY <2>12, <2>13
      <3>2. SubSeq(own, 1, len) = SubSeq(w, 1, len)
        BY <2>5, <2>12, <2>13
      <3> QED BY <2>12, <3>1, <3>2 DEF IsPrefix
    <2>15. ASSUME Len(line) <= Len(own) PROVE w = own
      <3>1. Len(w) = len
        BY <2>5, <2>10, <2>12, <2>13, <2>15
      <3> QED BY <2>12, <2>13, <3>1
    <2> QED BY <2>13, <2>14, <2>15
  <1>16. OutInv'
    BY <1>1, <1>13 DEF OutInv, LsListsHere, CatShowsFile
  <1>15. TreeInv'
    BY <1>2, TreeKept DEF ShellInv
  <1> QED BY <1>8, <1>9, <1>10, <1>11, <1>15, <1>16 DEF ShellInv

\* A step that changes nothing.
LEMMA ShellStutters == ASSUME ShellInv, UNCHANGED vars PROVE ShellInv'
  <1>1. UNCHANGED <<archive, offset, global_tarfs, up, fd, taken, got, dirs, curr_dir,
                    temp_curr_dir, prog, names, file, text, line, script, asked, out>>
    BY DEF vars, fsvars, cdvars, shvars
  <1>2. WalkInv'
    BY <1>1, WalkKept DEF ShellInv
  <1>3. FdsInv'
    BY <1>1, FdKept, ShellAssumption DEF ShellInv, FdsInv
  <1>4. FileInv'
    BY <1>1 DEF ShellInv, FileInv, NoFile, FirstFor
  <1>5. LsInv' /\ CatInv'
    <2>1. Named(names[1].path, names[1].slash)' = Named(names[1].path, names[1].slash)
      BY <1>1 DEF Named
    <2>2. LsInv'
      BY <1>1 DEF ShellInv, AskedInv, LsInv
    <2>3. CatInv'
      BY <1>1, <2>1 DEF ShellInv, AskedInv, CatInv, CatCommand, NoFile
    <2> QED BY <2>2, <2>3
  <1>6. AskedInv'
    BY <1>1, <1>5 DEF ShellInv, AskedInv
  <1>7. OutInv'
    BY <1>1, OutKept DEF ShellInv
  <1>8. TreeInv'
    BY <1>1, TreeKept DEF ShellInv
  <1> QED BY <1>2, <1>3, <1>4, <1>6, <1>7, <1>8 DEF ShellInv

\* The invariant is inductive.
LEMMA ShellInductive == Spec => []ShellInv
  <1>1. Init => ShellInv
    BY ShellStarts
  <1>2. ShellInv /\ [Next]_vars => ShellInv'
    <2> SUFFICES ASSUME ShellInv, [Next]_vars PROVE ShellInv'
      OBVIOUS
    <2>1. CASE Next
      BY <2>1, BootingKeeps, CdKeeps, TypeCommandKeeps, ScriptLineKeeps, ScriptTextKeeps,
         FinishKeeps, LsKeeps, CatMissingKeeps, CatOpenKeeps, CatReadKeeps, ScriptOpenKeeps,
         ScriptMissingKeeps, ScriptReadKeeps DEF Next
    <2>2. CASE UNCHANGED vars
      BY <2>2, ShellStutters
    <2> QED BY <2>1, <2>2
  <1> QED BY <1>1, <1>2, PTL DEF Spec

\* After any sequence of cd commands in any archive, ls alone lists what lies in
\* the working directory, also as a line of a script.
THEOREM LsIsRight == Spec => []LsListsHere
  <1>1. ShellInv => LsListsHere
    BY DEF ShellInv, OutInv
  <1> QED BY <1>1, ShellInductive, PTL

\* cat shows the file of the working directory that was named, all of it that
\* fits into its buffer and nothing else.
THEOREM CatIsRight == Spec => []CatShowsFile
  <1>1. ShellInv => CatShowsFile
    BY DEF ShellInv, OutInv
  <1> QED BY <1>1, ShellInductive, PTL

\* The first time a shell runs a script it walks through all of it, from its first byte
\* on, and through nothing else unless something longer was in its line before.
THEOREM FirstRunIsRight == Spec => []FirstRunComplete
  <1>1. ShellInv => FirstRunComplete
    BY DEF ShellInv, OutInv
  <1> QED BY <1>1, ShellInductive, PTL

\* What the file system promises to any programs holds with the shell's, where
\* the PCB of a command that has ended is used again.
THEOREM ShellFiles == Spec => [](WalkFindsFiles /\ ReadsFollowOn /\ DirectoriesExist)
  <1>1. ShellInv => WalkFindsFiles /\ ReadsFollowOn /\ DirectoriesExist
    BY WalkTells DEF ShellInv, FdsInv, TreeInv, IInv
  <1> QED BY <1>1, ShellInductive, PTL

\* cd leads where its argument says in every archive without nested directories,
\* also between commands and scripts.
THEOREM ShellResolves == Spec => FlatTreeResolves
  <1>1. ShellInv /\ [Next]_vars => [Flat => curr_dir' = Resolved(curr_dir, arg')]_cdvars
    <2> SUFFICES ASSUME ShellInv, Next, Flat, ~UNCHANGED cdvars
                 PROVE  curr_dir' = Resolved(curr_dir, arg')
      BY DEF vars
    <2>0. IInv
      BY DEF ShellInv, TreeInv
    <2>1. ASSUME NEW a \in Args, NEW n, Cd(a, n) PROVE curr_dir' = Resolved(curr_dir, arg')
      <3>1. Chdir(a) /\ arg' = a
        BY <2>1 DEF Cd, Chdir
      <3> QED BY <2>0, <3>1, FlatChdir
    <2>2. ASSUME curr_dir' = curr_dir, arg' = NoArg
          PROVE  curr_dir' = Resolved(curr_dir, arg')
      <3>1. dirs \in Trees /\ curr_dir \in dirs \cup {ROOT}
        BY <2>0 DEF IInv, DirectoriesExist
      <3>2. curr_dir \in Seq(Names)
        <4>1. ROOT \in Seq(Names)
          BY DEF ROOT
        <4> QED BY <3>1, <4>1, FlatFront
      <3>3. curr_dir \o ROOT = curr_dir
        BY <3>2 DEF ROOT
      <3>4. arg'.kind = "none" /\ arg'.path = ROOT
        BY <2>2 DEF NoArg
      <3>5. Target(curr_dir, arg') = curr_dir
        BY <3>3, <3>4 DEF Target
      <3> QED BY <2>2, <3>1, <3>5 DEF Resolved
    <2>3. ASSUME NEW c, Start(c) PROVE curr_dir' = Resolved(curr_dir, arg')
      BY <2>2, <2>3 DEF Start
    <2>4. ASSUME NEW path, ScriptOpen(path) PROVE curr_dir' = Resolved(curr_dir, arg')
      BY <2>2, <2>4 DEF ScriptOpen
    <2>5. ASSUME ScriptText PROVE curr_dir' = Resolved(curr_dir, arg')
      BY <2>2, <2>5 DEF ScriptText
    <2>6. ~(Booting \/ Finish \/ Ls \/ CatMissing \/ CatOpen \/ CatRead \/ ScriptRead)
          /\ \A path : ~ScriptMissing(path)
      BY DEF Booting, Finish, Ls, CatMissing, CatOpen, CatRead, ScriptRead, ScriptMissing
    <2> QED BY <2>1, <2>3, <2>4, <2>5, <2>6 DEF Next, TypeCommand, ScriptLine
  <1> QED BY <1>1, ShellInductive, PTL DEF Spec, FlatTreeResolves
=============================================================================

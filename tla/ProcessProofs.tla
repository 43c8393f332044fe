--------------------------- MODULE ProcessProofs ---------------------------
(***************************************************************************)
(* Proofs about Process, for any number of PCBs and of pids.  sys_exit,    *)
(* wait and kill look for processes by pid, and when the pids run out      *)
(* get_next_processID gives the same one, -1, to all that come after.  The *)
(* first of them to exit then takes the others along: they leave the ring  *)
(* and are on no list any more, so that every process is accounted for     *)
(* only as long as no pid was refused.                                     *)
(***************************************************************************)
EXTENDS Process, Iteration, FiniteSetTheorems, SequenceTheorems

\* Every process got a pid of its own.
NoneRefused == \A p \in 1..npcb : pid[p] # NoPid

-----------------------------------------------------------------------------
(* The inductive invariant, about three sequences of PCBs: c for the ring, *)
(* s for the stopped_process and t for the forked_process list.            *)

\* f leads from each PCB of c to the next, and from the last one to e.
Linked(f, c, e) ==
    /\ c \in Seq(PCBs)
    /\ \A i, j \in DOMAIN c : c[i] = c[j] => i = j
    /\ \A i \in 1..(Len(c) - 1) : f[c[i]] = c[i + 1]
    /\ c # <<>> => f[c[Len(c)]] = e

\* c is the list that begins at x.
IsList(f, x, c) == Linked(f, c, NULL) /\ x = IF c = <<>> THEN NULL ELSE c[1]

\* c is the ring; the kernel thread alone is not linked to itself at first.
IsRing(f, c) ==
    /\ c # <<>> /\ c[1] = first_process
    /\ Linked(f, c, first_process) \/ (Len(c) = 1 /\ Linked(f, c, NULL))

Types ==
    /\ npcb \in PCBs
    /\ next_proc \in [PCBs -> PCBs \cup {NULL}]
    /\ processID \subseteq Nat
    /\ {pid, ppid, ret} \subseteq [PCBs -> Int]
    /\ prog \in [PCBs -> Programs] /\ pc \in [PCBs -> Labels]
    /\ saved \subseteq PCBs /\ cpu \in {"ok", "null"}

Lists(c, s, t) ==
    /\ IsRing(next_proc, c)
    /\ IsList(next_proc, stopped_process, s)
    /\ IsList(next_proc, forked_process, t)

\* Every PCB that was handed out is in one place at most, and in one while no pid
\* was refused.
Places(c, s, t) ==
    /\ ToSet(c) \cap (ToSet(s) \cup ToSet(t) \cup freed) = {}
    /\ ToSet(s) \cap (ToSet(t) \cup freed) = {} /\ ToSet(t) \cap freed = {}
    /\ ToSet(c) \cup ToSet(s) \cup ToSet(t) \cup freed \subseteq 1..npcb
    /\ NoneRefused => 1..npcb \subseteq ToSet(c) \cup ToSet(s) \cup ToSet(t) \cup freed

\* No two processes of c have the same pid, unless both were refused one, and those
\* that were are the last of c.
Apart(P, c) ==
    /\ \A i, j \in DOMAIN c : P[c[i]] = P[c[j]] => i = j \/ P[c[i]] = NoPid
    /\ \A i, j \in DOMAIN c : i < j /\ P[c[i]] = NoPid => P[c[j]] = NoPid

\* The pids of the ring, and that no pid is given again: neither one that was given
\* nor any after one was refused.
PidInv(c) ==
    /\ pid[first_process] = 1
    /\ \A p \in 1..npcb : IF pid[p] = NoPid THEN NextPid(processID) = NoPid
                                              ELSE pid[p] - 1 \in processID
    /\ Apart(pid, c)

\* A process names as its parent one that comes before it.
ParentInv(c) ==
    \A i \in DOMAIN c : \E j \in DOMAIN c : (j < i \/ j = 1) /\ pid[c[j]] = ppid[c[i]]

\* Who runs: the last of the ring or, from fork to wait, the one before.
RunInv(c) ==
    /\ running = curr_process
    /\ \/ running = c[Len(c)] /\ pc[running] # "forked"
       \/ /\ Len(c) > 2 /\ running = c[Len(c) - 1] /\ pc[running] = "forked"
          /\ ret[running] = pid[c[Len(c)]]
          /\ pc[c[Len(c)]] = "child" /\ prog[c[Len(c)]] = prog[running]

\* The others wait: they can be resumed, and go on with their next command.
WaitInv(c) ==
    /\ prog[first_process] = "kernel" /\ pc[first_process] = "main"
    /\ \A i \in 2..Len(c) : prog[c[i]] \in {"init", "sbush", "command"}
    /\ \A i \in 2..(Len(c) - 1) :
         /\ prog[c[i]] \in {"init", "sbush"}
         /\ c[i] # running => c[i] \in saved /\ pc[c[i]] = "main"
    /\ \A p \in PCBs : p > npcb => pc[p] = "main"

InvOf(c, s, t) ==
    /\ Types /\ Lists(c, s, t) /\ Places(c, s, t) /\ PidInv(c) /\ ParentInv(c)
    /\ RunInv(c) /\ WaitInv(c)

IInv == \E c, s, t : InvOf(c, s, t)

-----------------------------------------------------------------------------
(* Walks.                                                                  *)

Maps == [PCBs -> PCBs \cup {NULL}]

\* The number of PCBs, and NULL is none of them.
LEMMA Numbers == MaxPcb \in Nat \ {0} /\ NULL \notin PCBs /\ first_process \in PCBs
  BY PcbAssumption DEF PCBs, NULL, first_process

\* A walk follows next_proc step by step, and stays at NULL.
LEMMA FollowIs ==
    ASSUME NEW f \in Maps, NEW x \in PCBs \cup {NULL}
    PROVE  /\ Follow(f, x)[0] = x
           /\ \A n \in 1..MaxPcb : Follow(f, x)[n] = IF Follow(f, x)[n - 1] = NULL THEN NULL
                                                     ELSE f[Follow(f, x)[n - 1]]
           /\ \A n \in 0..MaxPcb : Follow(f, x)[n] \in PCBs \cup {NULL}
  <1> DEFINE N == MaxPcb
             X == PCBs \cup {NULL}
             e == [p \in X |-> IF p = NULL THEN NULL ELSE f[p]]
             R(h) == [n \in 0..N |-> IF n = 0 THEN x ELSE e[h[n - 1]]]
             H == CHOOSE h : h = R(h)
             B == {0}
             u == [n \in 0..N |-> x]
             d == [n \in 0..N |-> n - 1]
             g == [w \in X \X (0..N) |-> e[w[1]]]
  <1>1. Follow(f, x) = H
    BY DEF Follow
  <1>2. N \in Nat /\ 0 \in Nat
    BY PcbAssumption
  <1>3. \A p \in X : e[p] \in X /\ e[p] = IF p = NULL THEN NULL ELSE f[p]
    BY DEF Maps
  <1> HIDE DEF X, e
  <1>4. \A n \in 0..N : n \notin B => d[n] = n - 1 /\ d[n] \in 0..(n - 1) /\ n - 1 \in 0..N
    BY <1>2
  <1>5. \A n \in 0..N, v \in X : g[<<v, n>>] = e[v] /\ g[<<v, n>>] \in X
    BY <1>3
  <1>6. \A n \in 0..N : n \in B => u[n] = x /\ u[n] \in X
    BY DEF X
  <1>7. \E h \in [0..N -> X] : h = R(h)
    <2> HIDE DEF g, d, u, B, N
    <2>0. /\ \A n \in 0..N : n \in B => u[n] \in X
          /\ \A n \in 0..N : n \notin B => d[n] \in 0..(n - 1)
          /\ \A n \in 0..N, v \in X : n \notin B => g[<<v, n>>] \in X
      BY <1>4, <1>5, <1>6
    <2>1. PICK h \in [0..N -> X] : Follows(h, 0, N, B, u, d, g)
      BY <1>2, <2>0, RecursionExists
    <2>2. ASSUME NEW n \in 0..N PROVE h[n] = IF n = 0 THEN x ELSE e[h[n - 1]]
      <3>1. h[n] = IF n \in B THEN u[n] ELSE g[<<h[d[n]], n>>]
        BY <2>1 DEF Follows
      <3>2. CASE n = 0
        BY <1>6, <3>1, <3>2 DEF B
      <3>3. CASE n # 0
        <4>1. n \notin B /\ d[n] = n - 1 /\ n - 1 \in 0..N
          BY <1>4, <3>3 DEF B
        <4>2. h[n - 1] \in X
          BY <2>1, <4>1
        <4> QED BY <1>5, <3>1, <3>3, <4>1, <4>2
      <3> QED BY <3>2, <3>3
    <2> QED BY <2>1, <2>2
  <1>8. H = R(H)
    BY <1>7
  <1> HIDE DEF H
  <1>9. H[0] = x /\ \A n \in 1..N : n \in 0..N /\ H[n] = e[H[n - 1]]
    BY <1>2, <1>8
  <1>10. \A n \in 0..N : H[n] \in X
    <2> DEFINE S == {n \in 0..N : H[n] \in X}
    <2>1. 0 \in S
      BY <1>2, <1>9 DEF X
    <2>2. \A n \in 1..N : n - 1 \in S => n \in S
      BY <1>3, <1>9
    <2> HIDE DEF S, N
    <2>3. \A n \in 0..N : n \in S
      BY <1>2, <2>1, <2>2, BoundedInduction
    <2> QED BY <2>3 DEF S
  <1>11. \A n \in 1..N : n - 1 \in 0..N
    BY <1>2
  <1>12. \A n \in 1..N : H[n] = IF H[n - 1] = NULL THEN NULL ELSE f[H[n - 1]]
    BY <1>3, <1>9, <1>10, <1>11
  <1> QED BY <1>1, <1>9, <1>10, <1>12 DEF X

\* Different PCBs are no more than there are.
LEMMA FewPcbs ==
    ASSUME NEW c \in Seq(PCBs), \A i, j \in DOMAIN c : c[i] = c[j] => i = j
    PROVE  Len(c) <= MaxPcb /\ IsFiniteSet(ToSet(c)) /\ Cardinality(ToSet(c)) = Len(c)
  <1> DEFINE n == Len(c)
  <1>1. n \in Nat /\ DOMAIN c = 1..n /\ \A i \in 1..n : c[i] \in PCBs
    OBVIOUS
  <1>2. IsFiniteSet(1..n) /\ Cardinality(1..n) = n
    <2>1. 1 \in Int /\ n \in Int
      BY <1>1
    <2>2. IsFiniteSet(1..n) /\ Cardinality(1..n) = IF 1 > n THEN 0 ELSE n - 1 + 1
      BY <2>1, FS_Interval
    <2> QED BY <1>1, <2>2
  <1>3. IsFiniteSet(PCBs) /\ Cardinality(PCBs) = MaxPcb
    <2>1. 1 \in Int /\ MaxPcb \in Int /\ 1 <= MaxPcb
      BY Numbers
    <2>2. IsFiniteSet(1..MaxPcb) /\ Cardinality(1..MaxPcb) = IF 1 > MaxPcb THEN 0 ELSE MaxPcb - 1 + 1
      BY <2>1, FS_Interval
    <2> QED BY <2>1, <2>2 DEF PCBs
  <1>4. c = [i \in 1..n |-> c[i]] /\ c \in [1..n -> PCBs]
    BY <1>1
  <1>5. ToSet(c) = {c[i] : i \in 1..n} /\ ToSet(c) \subseteq PCBs
    BY <1>1 DEF ToSet
  <1>6. IsFiniteSet(ToSet(c)) /\ Cardinality(ToSet(c)) <= MaxPcb /\ Cardinality(ToSet(c)) \in Nat
    BY <1>3, <1>5, FS_Subset, FS_CardinalityType
  <1>7. c \in Bijection(1..n, ToSet(c))
    BY <1>1, <1>4, <1>5 DEF Bijection, Injection, Surjection, IsInjective
  <1>8. Cardinality(ToSet(c)) = n
    <2>1. ExistsBijection(1..n, ToSet(c))
      BY <1>7 DEF ExistsBijection
    <2> HIDE DEF n
    <2> QED BY <1>2, <2>1, FS_Bijection
  <1> QED BY <1>6, <1>8

\* Of a set of numbers of steps, the least one is the one that is found.
LEMMA FirstHit ==
    ASSUME NEW hits, hits \subseteq 0..MaxPcb, NEW k \in hits, \A n \in hits : k <= n
    PROVE  (CHOOSE n \in hits : \A m \in hits : n <= m) = k
  <1> DEFINE n == CHOOSE n \in hits : \A m \in hits : n <= m
  <1>1. n \in hits /\ \A m \in hits : n <= m
    OBVIOUS
  <1> HIDE DEF n
  <1>2. n <= k /\ k <= n /\ n \in Int /\ k \in Int
    BY <1>1
  <1>3. n = k
    BY <1>2
  <1> QED BY <1>3 DEF n

\* The PCBs of a linked sequence.
LEMMA LinkedIs ==
    ASSUME NEW f, NEW c, NEW e, Linked(f, c, e)
    PROVE  /\ c \in Seq(PCBs) /\ Len(c) \in 0..MaxPcb /\ DOMAIN c = 1..Len(c)
           /\ \A i \in 1..Len(c) : c[i] \in PCBs
           /\ \A p : p \in ToSet(c) <=> \E i \in 1..Len(c) : p = c[i]
           /\ ToSet(c) \subseteq PCBs
           /\ IsFiniteSet(ToSet(c)) /\ Cardinality(ToSet(c)) = Len(c)
           /\ c # <<>> <=> Len(c) > 0
  <1>1. c \in Seq(PCBs) /\ \A i, j \in DOMAIN c : c[i] = c[j] => i = j
    BY DEF Linked
  <1>2. Len(c) <= MaxPcb /\ IsFiniteSet(ToSet(c)) /\ Cardinality(ToSet(c)) = Len(c)
    BY <1>1, FewPcbs
  <1>3. Len(c) \in Nat /\ DOMAIN c = 1..Len(c) /\ \A i \in 1..Len(c) : c[i] \in PCBs
    BY <1>1
  <1>4. \A p : p \in ToSet(c) <=> \E i \in 1..Len(c) : p = c[i]
    BY <1>3 DEF ToSet
  <1>5. c # <<>> <=> Len(c) > 0
    BY <1>1
  <1>6. Len(c) \in 0..MaxPcb
    BY <1>2, <1>3, Numbers
  <1> QED BY <1>1, <1>2, <1>3, <1>4, <1>5, <1>6

\* A walk along a linked sequence, from any place of it.
LEMMA WalkAlong ==
    ASSUME NEW f \in Maps, NEW c, NEW e, Linked(f, c, e), NEW k \in 1..Len(c)
    PROVE  \A n \in 0..(Len(c) - k) : Follow(f, c[k])[n] = c[k + n]
  <1> DEFINE L == Len(c)
             h == Follow(f, c[k])
             m == L - k
             S == {n \in 0..m : h[n] = c[k + n]}
  <1>1. L \in 0..MaxPcb /\ k \in Nat /\ m \in Nat /\ \A i \in 1..L : c[i] \in PCBs
    BY LinkedIs
  <1>2. /\ h[0] = c[k]
        /\ \A n \in 1..MaxPcb : h[n] = IF h[n - 1] = NULL THEN NULL ELSE f[h[n - 1]]
    BY <1>1, FollowIs
  <1>3. 0 \in S
    BY <1>1, <1>2
  <1>4. ASSUME NEW n \in 1..m, n - 1 \in S PROVE n \in S
    <2>0. n \in 0..m /\ h[n - 1] = c[k + (n - 1)]
      BY <1>1, <1>4
    <2> SUFFICES h[n] = c[k + n]
      BY <2>0
    <2>1. /\ n \in 1..MaxPcb /\ k + (n - 1) \in 1..(L - 1) /\ k + (n - 1) \in 1..L
          /\ (k + (n - 1)) + 1 = k + n
      BY <1>1, Numbers
    <2>2. f[c[k + (n - 1)]] = c[(k + (n - 1)) + 1]
      BY <2>1 DEF Linked
    <2>3. c[k + (n - 1)] # NULL
      BY <1>1, <2>1, Numbers
    <2> QED BY <1>2, <2>0, <2>1, <2>2, <2>3
  <1> HIDE DEF S, m
  <1>5. \A n \in 0..m : n \in S
    BY <1>1, <1>3, <1>4, BoundedInduction
  <1> QED BY <1>5 DEF S, m

\* The PCBs that a walk reaches are those of the sequence, if it leads back to one
\* of them or ends.
LEMMA NodesAre ==
    ASSUME NEW f \in Maps, NEW c, NEW e, Linked(f, c, e), c # <<>>,
           e \in ToSet(c) \cup {NULL}
    PROVE  Nodes(f, c[1]) = ToSet(c)
  <1> DEFINE L == Len(c)
             h == Follow(f, c[1])
             S == {n \in 0..MaxPcb : h[n] \in ToSet(c) \cup {NULL}}
  <1>1. /\ L \in 1..MaxPcb /\ 1 \in 1..L /\ \A i \in 1..L : c[i] \in PCBs
        /\ \A p : p \in ToSet(c) <=> \E i \in 1..L : p = c[i]
    BY LinkedIs, Numbers
  <1>2. /\ h[0] = c[1]
        /\ \A n \in 1..MaxPcb : h[n] = IF h[n - 1] = NULL THEN NULL ELSE f[h[n - 1]]
    BY <1>1, FollowIs
  <1>3. \A i \in 1..L : f[c[i]] \in ToSet(c) \cup {NULL}
    <2> SUFFICES ASSUME NEW i \in 1..L PROVE f[c[i]] \in ToSet(c) \cup {NULL}
      OBVIOUS
    <2>1. CASE i = L
      BY <2>1 DEF Linked
    <2>2. CASE i # L
      <3>1. i \in 1..(L - 1) /\ i + 1 \in 1..L
        BY <1>1, <2>2
      <3>2. f[c[i]] = c[i + 1]
        BY <3>1 DEF Linked
      <3> QED BY <1>1, <3>1, <3>2
    <2> QED BY <2>1, <2>2
  <1>4. \A n \in 0..MaxPcb : n \in S
    <2>1. 0 \in S
      BY <1>1, <1>2, Numbers
    <2>2. \A n \in 1..MaxPcb : n - 1 \in S => n \in S
      <3> SUFFICES ASSUME NEW n \in 1..MaxPcb, h[n - 1] \in ToSet(c) \cup {NULL}
                   PROVE  h[n] \in ToSet(c) \cup {NULL}
        BY Numbers
      <3>1. CASE h[n - 1] = NULL
        BY <1>2, <3>1
      <3>2. CASE h[n - 1] # NULL
        BY <1>1, <1>2, <1>3, <3>2
      <3> QED BY <3>1, <3>2
    <2> HIDE DEF S
    <2> QED BY <2>1, <2>2, Numbers, BoundedInduction
  <1>5. Nodes(f, c[1]) \subseteq ToSet(c)
    BY <1>4 DEF Nodes
  <1>6. ASSUME NEW p \in ToSet(c) PROVE p \in Nodes(f, c[1])
    <2>1. PICK i \in 1..L : p = c[i]
      BY <1>1
    <2>2. i - 1 \in 0..(L - 1) /\ i - 1 \in 0..MaxPcb /\ 1 + (i - 1) = i
      <3> HIDE DEF L
      <3> QED BY <1>1, Numbers
    <2>3. h[i - 1] = c[1 + (i - 1)]
      BY <1>1, <2>2, WalkAlong
    <2>4. p # NULL
      BY <1>1, <2>1, Numbers
    <2> QED BY <2>1, <2>2, <2>3, <2>4 DEF Nodes
  <1> QED BY <1>5, <1>6

\* The PCBs of a list.
LEMMA ListNodes ==
    ASSUME NEW f \in Maps, NEW x, NEW c, IsList(f, x, c)
    PROVE  Nodes(f, x) = ToSet(c)
  <1>1. Linked(f, c, NULL)
    BY DEF IsList
  <1>2. CASE c # <<>>
    BY <1>1, <1>2, NodesAre DEF IsList
  <1>3. CASE c = <<>>
    <2>1. x = NULL /\ ToSet(c) = {}
      BY <1>3 DEF IsList, ToSet
    <2> DEFINE h == Follow(f, NULL)
               S == {n \in 0..MaxPcb : h[n] = NULL}
    <2>2. /\ h[0] = NULL
          /\ \A n \in 1..MaxPcb : h[n] = IF h[n - 1] = NULL THEN NULL ELSE f[h[n - 1]]
      BY FollowIs
    <2>3. 0 \in S /\ \A n \in 1..MaxPcb : n - 1 \in S => n \in S
      BY <2>2, Numbers
    <2> HIDE DEF S
    <2>4. \A n \in 0..MaxPcb : n \in S
      BY <2>3, Numbers, BoundedInduction
    <2> QED BY <2>1, <2>4 DEF S, Nodes
  <1> QED BY <1>2, <1>3

\* The PCBs of the ring.
LEMMA RingNodes ==
    ASSUME NEW f \in Maps, NEW c, IsRing(f, c)
    PROVE  Nodes(f, first_process) = ToSet(c)
  <1>1. PICK e \in {first_process, NULL} : Linked(f, c, e)
    BY DEF IsRing
  <1>2. c # <<>> /\ c[1] = first_process
    BY DEF IsRing
  <1>3. first_process \in ToSet(c)
    BY <1>1, <1>2, LinkedIs
  <1> QED BY <1>1, <1>2, <1>3, NodesAre

\* The last PCB of a list is found.
LEMMA FindEnd ==
    ASSUME NEW f \in Maps, NEW x, NEW c, IsList(f, x, c), c # <<>>
    PROVE  Find(f, x, LAMBDA q : f[q] = NULL) = c[Len(c)]
  <1> DEFINE L == Len(c)
             h == Follow(f, x)
             hits == {n \in 0..MaxPcb : h[n] # NULL /\ f[h[n]] = NULL}
  <1>1. Linked(f, c, NULL) /\ x = c[1]
    BY DEF IsList
  <1>2. L \in 1..MaxPcb /\ 1 \in 1..L /\ MaxPcb \in Nat /\ \A i \in 1..L : c[i] \in PCBs /\ c[i] # NULL
    BY <1>1, LinkedIs, Numbers
  <1>3. \A n \in 0..(L - 1) : h[n] = c[1 + n]
    BY <1>1, <1>2, WalkAlong
  <1> HIDE DEF L, h
  <1>4. L - 1 \in hits
    <2>1. L - 1 \in 0..(L - 1) /\ L - 1 \in 0..MaxPcb /\ 1 + (L - 1) = L /\ L \in 1..L
      BY <1>2
    <2>2. h[L - 1] = c[L]
      BY <1>3, <2>1
    <2>3. f[c[L]] = NULL
      BY <1>1 DEF Linked, L
    <2> QED BY <1>2, <2>1, <2>2, <2>3
  <1>5. ASSUME NEW n \in hits, n < L - 1 PROVE FALSE
    <2>1. n \in 0..(L - 1) /\ 1 + n \in 1..(L - 1) /\ (1 + n) + 1 \in 1..L
      BY <1>2, <1>5
    <2>2. f[c[1 + n]] = c[(1 + n) + 1]
      BY <1>1, <2>1 DEF Linked, L
    <2> QED BY <1>2, <1>3, <2>1, <2>2
  <1>6. hits \subseteq 0..MaxPcb /\ \A n \in hits : L - 1 <= n
    <2>1. \A n \in hits : n \in 0..MaxPcb /\ ~(n < L - 1)
      BY <1>5
    <2> QED BY <1>2, <2>1
  <1> DEFINE k == CHOOSE n \in hits : \A m \in hits : n <= m
  <1>7. Find(f, x, LAMBDA q : f[q] = NULL) = h[k]
    BY DEF Find, h
  <1> HIDE DEF hits
  <1>8. k = L - 1
    BY <1>4, <1>6, FirstHit
  <1>9. h[L - 1] = c[L]
    <2>1. L - 1 \in 0..(L - 1) /\ 1 + (L - 1) = L
      BY <1>2
    <2> QED BY <1>3, <2>1
  <1> QED BY <1>7, <1>8, <1>9 DEF L

\* The walk once round, from the last PCB of the ring.
LEMMA WalkRound ==
    ASSUME NEW f \in Maps, NEW c, Linked(f, c, c[1]), c # <<>>
    PROVE  /\ Follow(f, c[Len(c)])[0] = c[Len(c)]
           /\ \A n \in 1..Len(c) : Follow(f, c[Len(c)])[n] = c[n]
  <1> DEFINE L == Len(c)
             h == Follow(f, c[L])
             S == {n \in 0..L : n = 0 \/ h[n] = c[n]}
  <1>1. L \in 1..MaxPcb /\ MaxPcb \in Nat /\ L \in 1..L /\ 1 \in 1..L
        /\ \A i \in 1..L : c[i] \in PCBs /\ c[i] # NULL
    BY LinkedIs, Numbers
  <1>2. /\ h[0] = c[L]
        /\ \A n \in 1..MaxPcb : h[n] = IF h[n - 1] = NULL THEN NULL ELSE f[h[n - 1]]
    <2>1. c[L] \in PCBs \cup {NULL}
      BY <1>1
    <2> HIDE DEF L
    <2> QED BY <2>1, FollowIs
  <1>3. f[c[L]] = c[1]
    BY DEF Linked
  <1>4. \A i \in 1..(L - 1) : f[c[i]] = c[i + 1]
    BY DEF Linked
  <1> HIDE DEF L, h
  <1>5. 0 \in S
    BY <1>1
  <1>6. ASSUME NEW n \in 1..L, n - 1 \in S PROVE n \in S
    <2>1. n \in 0..L /\ n \in 1..MaxPcb
      BY <1>1
    <2>2. CASE n = 1
      <3>1. h[1] = IF h[0] = NULL THEN NULL ELSE f[h[0]]
        BY <1>2, <2>1, <2>2
      <3> QED BY <1>1, <1>2, <1>3, <2>1, <2>2, <3>1
    <2>3. CASE n # 1
      <3>1. n - 1 \in 1..(L - 1) /\ n - 1 \in 1..L /\ (n - 1) + 1 = n /\ n - 1 # 0
        BY <1>1, <2>3
      <3>2. h[n - 1] = c[n - 1]
        BY <1>6, <3>1
      <3>3. f[c[n - 1]] = c[n]
        BY <1>4, <3>1
      <3> QED BY <1>1, <1>2, <2>1, <3>1, <3>2, <3>3
    <2> QED BY <2>2, <2>3
  <1> HIDE DEF S
  <1>7. L \in Nat
    BY <1>1
  <1>8. \A n \in 0..L : n \in S
    BY <1>5, <1>6, <1>7, BoundedInduction
  <1>9. \A n \in 1..L : n \in 0..L /\ n # 0
    BY <1>1
  <1>10. \A n \in 1..L : h[n] = c[n]
    BY <1>8, <1>9 DEF S
  <1> QED BY <1>2, <1>10 DEF L, h

\* What Find returns, by the numbers of steps after which its test holds.
AfterSteps(f, x, hits) == Follow(f, x)[CHOOSE n \in hits : \A m \in hits : n <= m]

\* Steps from x to a PCB that is linked to y; to one that is linked to one with the
\* pid of y; to one with pid v, or to the last of the ring.
StepsBefore(f, x, y) == {n \in 0..MaxPcb : Follow(f, x)[n] # NULL /\ f[Follow(f, x)[n]] = y}
StepsBeforePid(f, x, P, y) ==
    {n \in 0..MaxPcb : Follow(f, x)[n] # NULL /\ P[f[Follow(f, x)[n]]] = P[y]}
StepsToPid(f, x, P, v) ==
    {n \in 0..MaxPcb : Follow(f, x)[n] # NULL
                        /\ (P[Follow(f, x)[n]] = v \/ f[Follow(f, x)[n]] = first_process)}

\* execve finds the PCB before the last one of the ring.
LEMMA FindBefore ==
    ASSUME NEW f \in Maps, NEW c, Linked(f, c, c[1]), Len(c) > 1,
           NEW x, x = c[Len(c)]
    PROVE  AfterSteps(f, x, StepsBefore(f, x, x)) = c[Len(c) - 1]
  <1> DEFINE L == Len(c)
             h == Follow(f, x)
             hits == StepsBefore(f, x, x)
  <1>0. x = c[L]
    OBVIOUS
  <1>1. L \in 1..MaxPcb /\ L > 1 /\ MaxPcb \in Nat /\ c # <<>>
        /\ \A i \in 1..L : c[i] \in PCBs /\ c[i] # NULL
    BY LinkedIs, Numbers
  <1>2. h[0] = c[L] /\ \A n \in 1..L : h[n] = c[n]
    BY <1>0, <1>1, WalkRound
  <1>3. f[c[L]] = c[1] /\ \A i \in 1..(L - 1) : f[c[i]] = c[i + 1]
    BY <1>1 DEF Linked
  <1>4. \A i, j \in 1..L : c[i] = c[j] => i = j
    BY LinkedIs DEF Linked
  <1> HIDE DEF L, h
  <1>5. L - 1 \in hits
    <2>1. L - 1 \in 1..L /\ L - 1 \in 1..(L - 1) /\ L - 1 \in 0..MaxPcb /\ (L - 1) + 1 = L
      BY <1>1
    <2> QED BY <1>0, <1>1, <1>2, <1>3, <2>1 DEF StepsBefore, h
  <1>6. ASSUME NEW n \in hits, n < L - 1 PROVE FALSE
    <2>1. n \in 0..MaxPcb /\ f[h[n]] = c[L]
      BY <1>0 DEF StepsBefore, h
    <2>2. CASE n = 0
      <3>1. c[1] = c[L] /\ 1 \in 1..L /\ L \in 1..L /\ 1 # L
        BY <1>1, <1>2, <1>3, <2>1, <2>2
      <3> QED BY <1>4, <3>1
    <2>3. CASE n # 0
      <3>1. n \in 1..(L - 1) /\ n \in 1..L /\ n + 1 \in 1..L /\ L \in 1..L /\ n + 1 # L
        BY <1>1, <1>6, <2>1, <2>3
      <3>2. c[n + 1] = c[L]
        BY <1>2, <1>3, <2>1, <3>1
      <3> QED BY <1>4, <3>1, <3>2
    <2> QED BY <2>2, <2>3
  <1>7. hits \subseteq 0..MaxPcb /\ \A n \in hits : L - 1 <= n
    <2>1. \A n \in hits : n \in 0..MaxPcb /\ ~(n < L - 1)
      BY <1>6 DEF StepsBefore
    <2> QED BY <1>1, <2>1
  <1> DEFINE k == CHOOSE n \in hits : \A m \in hits : n <= m
  <1>8. AfterSteps(f, x, StepsBefore(f, x, x)) = h[k]
    BY DEF AfterSteps, h
  <1> HIDE DEF hits
  <1>9. k = L - 1
    BY <1>5, <1>7, FirstHit
  <1>10. L - 1 \in 1..L
    BY <1>1
  <1> QED BY <1>2, <1>8, <1>9, <1>10 DEF L

\* sys_exit finds the PCB before the first one with the pid of the last.
LEMMA FindBeforePid ==
    ASSUME NEW f \in Maps, NEW c, Linked(f, c, c[1]), NEW x, x = c[Len(c)],
           NEW P, NEW k \in 1..(Len(c) - 1), P[c[k + 1]] = P[x], \A i \in 1..k : P[c[i]] # P[x]
    PROVE  AfterSteps(f, x, StepsBeforePid(f, x, P, x)) = c[k]
  <1> DEFINE L == Len(c)
             h == Follow(f, x)
             hits == StepsBeforePid(f, x, P, x)
  <1>0. x = c[L]
    OBVIOUS
  <1>1. L \in 1..MaxPcb /\ L > 1 /\ MaxPcb \in Nat /\ c # <<>> /\ \A i \in 1..L : c[i] \in PCBs /\ c[i] # NULL
    <2>1. L \in 0..MaxPcb /\ L > 1
      BY LinkedIs, Numbers
    <2>2. c # <<>>
      BY <2>1
    <2> QED BY <2>1, <2>2, LinkedIs, Numbers
  <1>2. h[0] = c[L] /\ \A n \in 1..L : h[n] = c[n]
    BY <1>0, <1>1, WalkRound
  <1>3. f[c[L]] = c[1] /\ \A i \in 1..(L - 1) : f[c[i]] = c[i + 1]
    BY <1>1 DEF Linked
  <1>4. k \in 1..(L - 1) /\ k \in 1..L /\ k \in 0..MaxPcb
    BY <1>1
  <1> HIDE DEF L, h
  <1>5. k \in hits
    BY <1>1, <1>2, <1>3, <1>4 DEF StepsBeforePid, h
  <1>6. ASSUME NEW n \in hits, n < k PROVE FALSE
    <2>1. n \in 0..MaxPcb /\ P[f[h[n]]] = P[x]
      BY DEF StepsBeforePid, h
    <2>2. CASE n = 0
      <3>1. 1 \in 1..k /\ P[c[1]] = P[x]
        BY <1>2, <1>3, <1>4, <2>1, <2>2
      <3> QED BY <3>1
    <2>3. CASE n # 0
      <3>1. n \in 1..(L - 1) /\ n \in 1..L /\ n + 1 \in 1..k
        BY <1>1, <1>4, <1>6, <2>1, <2>3
      <3>2. P[c[n + 1]] = P[x]
        BY <1>2, <1>3, <2>1, <3>1
      <3> QED BY <3>1, <3>2
    <2> QED BY <2>2, <2>3
  <1>7. hits \subseteq 0..MaxPcb /\ \A n \in hits : k <= n
    <2>1. \A n \in hits : n \in 0..MaxPcb /\ ~(n < k)
      BY <1>6 DEF StepsBeforePid
    <2> QED BY <1>1, <1>4, <2>1
  <1> DEFINE m == CHOOSE n \in hits : \A l \in hits : n <= l
  <1>8. AfterSteps(f, x, StepsBeforePid(f, x, P, x)) = h[m]
    BY DEF AfterSteps, h
  <1> HIDE DEF hits
  <1>9. m = k
    BY <1>5, <1>7, FirstHit
  <1> QED BY <1>2, <1>4, <1>8, <1>9

\* kill finds the process with pid v, if there is one before the last and no other.
LEMMA FindVictim ==
    ASSUME NEW f \in Maps, NEW c, Linked(f, c, first_process), c # <<>>, c[1] = first_process,
           NEW P, NEW i \in 1..(Len(c) - 1), NEW v, v = P[c[i]],
           \A j \in 1..Len(c) : P[c[j]] = v => j = i
    PROVE  AfterSteps(f, first_process, StepsToPid(f, first_process, P, v)) = c[i]
  <1> DEFINE L == Len(c)
             h == Follow(f, first_process)
             hits == StepsToPid(f, first_process, P, v)
  <1>1. L \in 1..MaxPcb /\ MaxPcb \in Nat /\ \A j \in 1..L : c[j] \in PCBs /\ c[j] # NULL
    BY LinkedIs, Numbers
  <1>2. 1 \in 1..L /\ i \in 1..L /\ i - 1 \in 0..(L - 1) /\ i - 1 \in 0..MaxPcb /\ 1 + (i - 1) = i
    BY <1>1
  <1>3. \A n \in 0..(L - 1) : h[n] = c[1 + n]
    BY <1>2, WalkAlong
  <1>4. \A j \in 1..(L - 1) : f[c[j]] = c[j + 1]
    BY DEF Linked
  <1>5. /\ \A j, k \in 1..L : c[j] = c[k] => j = k
        /\ \A j \in 1..L : P[c[j]] = P[c[i]] => j = i
    BY LinkedIs DEF Linked
  <1> HIDE DEF L, h
  <1>6. i - 1 \in hits
    BY <1>1, <1>2, <1>3 DEF StepsToPid, h
  <1>7. ASSUME NEW n \in hits, n < i - 1 PROVE FALSE
    <2>1. n \in 0..(L - 1) /\ 1 + n \in 1..(L - 1) /\ 1 + n \in 1..L /\ (1 + n) + 1 \in 1..L
          /\ (1 + n) + 1 # 1 /\ 1 + n # i
      BY <1>1, <1>2, <1>7 DEF StepsToPid
    <2>2. P[c[1 + n]] = P[c[i]] \/ f[c[1 + n]] = c[1]
      BY <1>3, <2>1 DEF StepsToPid, h
    <2>3. P[c[1 + n]] # P[c[i]]
      BY <1>2, <1>5, <2>1
    <2>4. c[(1 + n) + 1] # c[1]
      BY <1>2, <1>5, <2>1
    <2> QED BY <1>4, <2>1, <2>2, <2>3, <2>4
  <1>8. hits \subseteq 0..MaxPcb /\ \A n \in hits : i - 1 <= n
    <2>1. \A n \in hits : n \in 0..MaxPcb /\ ~(n < i - 1)
      BY <1>7 DEF StepsToPid
    <2> QED BY <1>1, <1>2, <2>1
  <1> DEFINE k == CHOOSE n \in hits : \A m \in hits : n <= m
  <1>9. AfterSteps(f, first_process, StepsToPid(f, first_process, P, v)) = h[k]
    BY DEF AfterSteps, h
  <1> HIDE DEF hits
  <1>10. k = i - 1
    BY <1>6, <1>8, FirstHit
  <1> QED BY <1>2, <1>3, <1>9, <1>10

\* Otherwise it finds the last one.
LEMMA FindNone ==
    ASSUME NEW f \in Maps, NEW c, Linked(f, c, first_process), c # <<>>, c[1] = first_process,
           NEW P, NEW n, \A i \in 1..(Len(c) - 1) : P[c[i]] # n
    PROVE  AfterSteps(f, first_process, StepsToPid(f, first_process, P, n)) = c[Len(c)]
  <1> DEFINE L == Len(c)
             h == Follow(f, first_process)
             hits == StepsToPid(f, first_process, P, n)
  <1>1. L \in 1..MaxPcb /\ MaxPcb \in Nat /\ \A j \in 1..L : c[j] \in PCBs /\ c[j] # NULL
    BY LinkedIs, Numbers
  <1>2. 1 \in 1..L /\ L \in 1..L /\ L - 1 \in 0..(L - 1) /\ L - 1 \in 0..MaxPcb /\ 1 + (L - 1) = L
    BY <1>1
  <1>3. \A m \in 0..(L - 1) : h[m] = c[1 + m]
    BY <1>2, WalkAlong
  <1>4. f[c[L]] = first_process /\ \A j \in 1..(L - 1) : f[c[j]] = c[j + 1]
    BY DEF Linked
  <1>5. \A j, k \in 1..L : c[j] = c[k] => j = k
    BY LinkedIs DEF Linked
  <1> HIDE DEF L, h
  <1>6. L - 1 \in hits
    BY <1>1, <1>2, <1>3, <1>4 DEF StepsToPid, h
  <1>7. ASSUME NEW m \in hits, m < L - 1 PROVE FALSE
    <2>1. m \in 0..(L - 1) /\ 1 + m \in 1..(L - 1) /\ 1 + m \in 1..L /\ (1 + m) + 1 \in 1..L
          /\ (1 + m) + 1 # 1
      BY <1>1, <1>2, <1>7 DEF StepsToPid
    <2>2. P[c[1 + m]] = n \/ f[c[1 + m]] = c[1]
      BY <1>3, <2>1 DEF StepsToPid, h
    <2>3. P[c[1 + m]] # n
      BY <2>1 DEF L
    <2>4. c[(1 + m) + 1] # c[1]
      BY <1>2, <1>5, <2>1
    <2> QED BY <1>4, <2>1, <2>2, <2>3, <2>4
  <1>8. hits \subseteq 0..MaxPcb /\ \A m \in hits : L - 1 <= m
    <2>1. \A m \in hits : m \in 0..MaxPcb /\ ~(m < L - 1)
      BY <1>7 DEF StepsToPid
    <2> QED BY <1>1, <1>2, <2>1
  <1> DEFINE k == CHOOSE m \in hits : \A j \in hits : m <= j
  <1>9. AfterSteps(f, first_process, StepsToPid(f, first_process, P, n)) = h[k]
    BY DEF AfterSteps, h
  <1> HIDE DEF hits
  <1>10. k = L - 1
    BY <1>6, <1>8, FirstHit
  <1> QED BY <1>2, <1>3, <1>9, <1>10 DEF L

\* kill finds the process before the victim.
LEMMA FindBeforeVictim ==
    ASSUME NEW f \in Maps, NEW c, Linked(f, c, first_process), c # <<>>, c[1] = first_process,
           NEW i \in 2..Len(c), NEW v, v = c[i]
    PROVE  AfterSteps(f, first_process, StepsBefore(f, first_process, v)) = c[i - 1]
  <1> DEFINE L == Len(c)
             h == Follow(f, first_process)
             hits == StepsBefore(f, first_process, v)
  <1>1. L \in 1..MaxPcb /\ MaxPcb \in Nat /\ \A j \in 1..L : c[j] \in PCBs /\ c[j] # NULL
    BY LinkedIs, Numbers
  <1>2. /\ 1 \in 1..L /\ i \in 1..L /\ i - 2 \in 0..(L - 1) /\ i - 2 \in 0..MaxPcb
        /\ 1 + (i - 2) = i - 1 /\ i - 1 \in 1..(L - 1) /\ i - 1 \in 1..L /\ (i - 1) + 1 = i
    BY <1>1
  <1>3. \A n \in 0..(L - 1) : h[n] = c[1 + n]
    BY <1>2, WalkAlong
  <1>4. \A j \in 1..(L - 1) : f[c[j]] = c[j + 1]
    BY DEF Linked
  <1>5. \A j, k \in 1..L : c[j] = c[k] => j = k
    BY LinkedIs DEF Linked
  <1> HIDE DEF L, h
  <1>6. i - 2 \in hits
    <2>1. h[i - 2] = c[i - 1] /\ f[c[i - 1]] = c[i]
      BY <1>2, <1>3, <1>4
    <2> QED BY <1>1, <1>2, <2>1 DEF StepsBefore, h
  <1>7. ASSUME NEW n \in hits, n < i - 2 PROVE FALSE
    <2>1. n \in 0..(L - 1) /\ 1 + n \in 1..(L - 1) /\ (1 + n) + 1 \in 1..L /\ (1 + n) + 1 # i
      BY <1>1, <1>2, <1>7 DEF StepsBefore
    <2>2. f[c[1 + n]] = c[i]
      BY <1>3, <2>1 DEF StepsBefore, h
    <2>3. c[(1 + n) + 1] # c[i]
      BY <1>2, <1>5, <2>1
    <2> QED BY <1>4, <2>1, <2>2, <2>3
  <1>8. hits \subseteq 0..MaxPcb /\ \A n \in hits : i - 2 <= n
    <2>1. \A n \in hits : n \in 0..MaxPcb /\ ~(n < i - 2)
      BY <1>7 DEF StepsBefore
    <2> QED BY <1>1, <1>2, <2>1
  <1> DEFINE k == CHOOSE n \in hits : \A m \in hits : n <= m
  <1>9. AfterSteps(f, first_process, StepsBefore(f, first_process, v)) = h[k]
    BY DEF AfterSteps, h
  <1> HIDE DEF hits
  <1>10. k = i - 2
    BY <1>6, <1>8, FirstHit
  <1> QED BY <1>2, <1>3, <1>9, <1>10

-----------------------------------------------------------------------------
(* Changes of the lists.                                                   *)

\* Links elsewhere do not matter.
LEMMA LinkedSame ==
    ASSUME NEW f, NEW g, NEW c, NEW e, Linked(f, c, e), \A p \in ToSet(c) : g[p] = f[p]
    PROVE  Linked(g, c, e)
  <1>1. /\ DOMAIN c = 1..Len(c) /\ Len(c) \in Nat
        /\ \A i \in 1..Len(c) : c[i] \in ToSet(c)
    BY LinkedIs, Numbers
  <1>2. \A i \in 1..(Len(c) - 1) : g[c[i]] = c[i + 1]
    <2> TAKE i \in 1..(Len(c) - 1)
    <2>1. i \in 1..Len(c)
      BY <1>1
    <2>2. f[c[i]] = c[i + 1]
      BY DEF Linked
    <2> QED BY <1>1, <2>1, <2>2
  <1>3. c # <<>> => g[c[Len(c)]] = e
    <2> HAVE c # <<>>
    <2>1. Len(c) \in 1..Len(c)
      BY <1>1, LinkedIs
    <2> QED BY <1>1, <2>1 DEF Linked
  <1> QED BY <1>2, <1>3 DEF Linked

\* Neither do they for a list.
LEMMA ListSame ==
    ASSUME NEW f, NEW g, NEW x, NEW c, IsList(f, x, c), \A p \in ToSet(c) : g[p] = f[p]
    PROVE  IsList(g, x, c)
  BY LinkedSame DEF IsList

\* g leads from the last PCB of c to p, and along c as f does.
Prolongs(g, f, c, p) ==
    /\ \A i \in 1..(Len(c) - 1) : g[c[i]] = f[c[i]]
    /\ c # <<>> => g[c[Len(c)]] = p

\* A PCB behind the last one.
LEMMA LinkedLonger ==
    ASSUME NEW f, NEW g, NEW c, NEW e, Linked(f, c, e), NEW p \in PCBs, p \notin ToSet(c),
           Prolongs(g, f, c, p)
    PROVE  /\ Linked(g, Append(c, p), g[p]) /\ ToSet(Append(c, p)) = ToSet(c) \cup {p}
           /\ Append(c, p) # <<>> /\ Append(c, p)[1] = (IF c = <<>> THEN p ELSE c[1])
           /\ Len(Append(c, p)) = Len(c) + 1 /\ Append(c, p)[Len(c) + 1] = p
           /\ \A i \in 1..Len(c) : Append(c, p)[i] = c[i]
  <1> DEFINE L == Len(c)
             a == Append(c, p)
  <1>1. /\ c \in Seq(PCBs) /\ L \in Nat /\ DOMAIN c = 1..L /\ \A i \in 1..L : c[i] \in PCBs /\ c[i] # p
        /\ \A q : q \in ToSet(c) <=> \E i \in 1..L : q = c[i]
        /\ c # <<>> <=> L > 0
    BY LinkedIs
  <1>2. /\ a \in Seq(PCBs) /\ Len(a) = L + 1 /\ DOMAIN a = 1..(L + 1) /\ a[L + 1] = p
        /\ \A i \in 1..L : a[i] = c[i]
    BY <1>1
  <1>3. \A i, j \in 1..L : c[i] = c[j] => i = j
    BY <1>1 DEF Linked
  <1>4. \A i \in 1..(L - 1) : f[c[i]] = c[i + 1]
    BY DEF Linked
  <1> HIDE DEF L, a
  <1>5. \A i \in 1..(L + 1) : i \in 1..L \/ i = L + 1
    BY <1>1
  <1>6. \A i, j \in DOMAIN a : a[i] = a[j] => i = j
    BY <1>1, <1>2, <1>3, <1>5
  <1>7. ASSUME NEW i \in 1..L PROVE g[a[i]] = a[i + 1]
    <2>1. CASE i = L
      <3>1. c # <<>>
        BY <1>1, <2>1
      <3>2. g[c[L]] = p
        BY <3>1 DEF L, Prolongs
      <3> QED BY <1>2, <2>1, <3>2
    <2>2. CASE i # L
      <3>1. i \in 1..(L - 1) /\ i + 1 \in 1..L
        BY <1>1, <2>2
      <3>2. g[c[i]] = f[c[i]]
        BY <3>1 DEF L, Prolongs
      <3> QED BY <1>2, <1>4, <3>1, <3>2
    <2> QED BY <2>1, <2>2
  <1>8. Len(a) - 1 = L
    BY <1>1, <1>2
  <1>9. Linked(g, a, g[p])
    BY <1>2, <1>6, <1>7, <1>8 DEF Linked
  <1>10. ToSet(a) = ToSet(c) \cup {p}
    <2>1. ToSet(a) = {a[i] : i \in 1..(L + 1)}
      BY <1>2 DEF ToSet
    <2>2. L + 1 \in 1..(L + 1) /\ \A i \in 1..L : i \in 1..(L + 1)
      BY <1>1
    <2>3. ASSUME NEW q PROVE q \in ToSet(a) <=> q \in ToSet(c) \cup {p}
      BY <1>1, <1>2, <1>5, <2>1, <2>2
    <2> QED BY <2>3
  <1>11. a # <<>> /\ a[1] = IF c = <<>> THEN p ELSE c[1]
    <2>0. a # <<>>
      <3>1. Len(a) > 0
        BY <1>1, <1>2
      <3> QED BY <3>1
    <2>1. CASE c = <<>>
      <3>1. L = 0
        BY <1>1, <2>1
      <3> QED BY <1>2, <2>0, <2>1, <3>1
    <2>2. CASE c # <<>>
      <3>1. 1 \in 1..L
        BY <1>1, <2>2
      <3> QED BY <1>2, <2>0, <2>2, <3>1
    <2> QED BY <2>1, <2>2
  <1> QED BY <1>2, <1>9, <1>10, <1>11 DEF L, a

\* AppendNext and AppendHead put a PCB at the end of a list, and change no link
\* of a PCB that is not in it.
LEMMA ListLonger ==
    ASSUME NEW f \in Maps, NEW x, NEW c, IsList(f, x, c), NEW p \in PCBs, p \notin ToSet(c)
    PROVE  /\ AppendNext(f, x, p) \in Maps
           /\ IsList(AppendNext(f, x, p), AppendHead(x, p), Append(c, p))
           /\ \A q \in PCBs : q \notin ToSet(c) \cup {p} => AppendNext(f, x, p)[q] = f[q]
           /\ ToSet(Append(c, p)) = ToSet(c) \cup {p}
  <1> DEFINE g == AppendNext(f, x, p)
             L == Len(c)
  <1>1. /\ Linked(f, c, NULL) /\ x = (IF c = <<>> THEN NULL ELSE c[1]) /\ L \in Nat
        /\ \A i \in 1..L : c[i] \in PCBs /\ c[i] # p /\ c[i] # NULL /\ c[i] \in ToSet(c)
        /\ \A i, j \in 1..L : c[i] = c[j] => i = j
        /\ c # <<>> <=> L > 0
    <2>1. Linked(f, c, NULL) /\ x = (IF c = <<>> THEN NULL ELSE c[1])
      BY DEF IsList
    <2>2. /\ L \in Nat /\ \A i \in 1..L : c[i] \in PCBs /\ c[i] \in ToSet(c)
          /\ c # <<>> <=> L > 0
      BY <2>1, LinkedIs
    <2>3. \A i, j \in 1..L : c[i] = c[j] => i = j
      BY <2>1, LinkedIs DEF Linked
    <2> QED BY <2>1, <2>2, <2>3, Numbers
  <1>2. CASE c = <<>>
    <2>1. x = NULL /\ g = [f EXCEPT ![p] = NULL] /\ AppendHead(x, p) = p
      BY <1>1, <1>2 DEF AppendNext, AppendHead
    <2>2. g \in Maps /\ g[p] = NULL /\ \A q \in PCBs : q # p => g[q] = f[q]
      BY <2>1 DEF Maps
    <2> HIDE DEF g
    <2>3. (\A i \in 1..(L - 1) : g[c[i]] = f[c[i]]) /\ (c # <<>> => g[c[L]] = p)
      BY <1>1, <1>2
    <2>4. /\ Linked(g, Append(c, p), NULL) /\ ToSet(Append(c, p)) = ToSet(c) \cup {p}
          /\ Append(c, p) # <<>> /\ Append(c, p)[1] = p
      <3>1. Linked(f, c, NULL) /\ g[p] = NULL
        BY <1>1, <2>2
      <3>2. /\ Linked(g, Append(c, p), g[p]) /\ ToSet(Append(c, p)) = ToSet(c) \cup {p}
            /\ Append(c, p) # <<>> /\ Append(c, p)[1] = IF c = <<>> THEN p ELSE c[1]
        <4>1. Prolongs(g, f, c, p)
          BY <2>3 DEF Prolongs
        <4> QED BY <3>1, <4>1, LinkedLonger
      <3> QED BY <1>2, <3>1, <3>2
    <2>5. IsList(g, AppendHead(x, p), Append(c, p))
      BY <2>1, <2>4 DEF IsList
    <2> QED BY <2>2, <2>4, <2>5 DEF g
  <1>3. CASE c # <<>>
    <2>1. x = c[1] /\ x # NULL /\ L \in 1..L
      BY <1>1, <1>3
    <2>2. Find(f, x, LAMBDA q : f[q] = NULL) = c[L]
      BY <1>3, FindEnd
    <2>3. g = [[f EXCEPT ![p] = NULL] EXCEPT ![c[L]] = p] /\ AppendHead(x, p) = x
      BY <2>1, <2>2 DEF AppendNext, AppendHead
    <2>4. /\ g \in Maps /\ g[p] = NULL /\ g[c[L]] = p
          /\ \A q \in PCBs : q # p /\ q # c[L] => g[q] = f[q]
      <3>1. c[L] \in PCBs /\ c[L] # p
        BY <1>1, <2>1
      <3> HIDE DEF L
      <3> QED BY <2>3, <3>1 DEF Maps
    <2> HIDE DEF g
    <2>5. \A i \in 1..(L - 1) : g[c[i]] = f[c[i]]
      <3> TAKE i \in 1..(L - 1)
      <3>1. i \in 1..L /\ i # L
        BY <1>1
      <3> QED BY <1>1, <2>1, <2>4, <3>1
    <2>6. /\ Linked(g, Append(c, p), NULL) /\ ToSet(Append(c, p)) = ToSet(c) \cup {p}
          /\ Append(c, p) # <<>> /\ Append(c, p)[1] = c[1]
      <3>1. Linked(f, c, NULL) /\ g[p] = NULL /\ Prolongs(g, f, c, p)
        BY <1>1, <2>4, <2>5 DEF Prolongs
      <3>2. /\ Linked(g, Append(c, p), g[p]) /\ ToSet(Append(c, p)) = ToSet(c) \cup {p}
            /\ Append(c, p) # <<>> /\ Append(c, p)[1] = IF c = <<>> THEN p ELSE c[1]
        BY <3>1, LinkedLonger
      <3> QED BY <1>3, <3>1, <3>2
    <2>7. IsList(g, AppendHead(x, p), Append(c, p))
      BY <2>1, <2>3, <2>6 DEF IsList
    <2>8. \A q \in PCBs : q \notin ToSet(c) \cup {p} => g[q] = f[q]
      BY <1>1, <2>1, <2>4
    <2> QED BY <2>4, <2>6, <2>7, <2>8 DEF g
  <1> QED BY <1>2, <1>3

\* c without its i-th PCB.
Without(c, i) == [j \in 1..(Len(c) - 1) |-> IF j < i THEN c[j] ELSE c[j + 1]]

\* g leads past the i-th PCB of c, and else along c as f does.
Closes(g, f, c, i) ==
    /\ g[c[i - 1]] = f[c[i]]
    /\ \A j \in 1..Len(c) : j # i - 1 /\ j # i => g[c[j]] = f[c[j]]

\* w has the PCBs of c but the i-th.
LeavesOut(w, c, i) ==
    /\ ToSet(w) = ToSet(c) \ {c[i]} /\ w # <<>> /\ w[1] = c[1] /\ Len(w) = Len(c) - 1
    /\ \A j \in 1..(Len(c) - 1) : w[j] = IF j < i THEN c[j] ELSE c[j + 1]

\* The ring without one PCB, closed over the gap.
LEMMA LinkedShorter ==
    ASSUME NEW f, NEW g, NEW c, NEW e, Linked(f, c, e), NEW i \in 2..Len(c),
           Closes(g, f, c, i)
    PROVE  Linked(g, Without(c, i), e) /\ LeavesOut(Without(c, i), c, i)
  <1> DEFINE L == Len(c)
             w == Without(c, i)
  <1>1. /\ c \in Seq(PCBs) /\ L \in Nat /\ DOMAIN c = 1..L /\ \A j \in 1..L : c[j] \in PCBs
        /\ \A q : q \in ToSet(c) <=> \E j \in 1..L : q = c[j]
        /\ i \in 2..L
    BY LinkedIs
  <1>2. \A j, k \in 1..L : c[j] = c[k] => j = k
    BY <1>1 DEF Linked
  <1>3. /\ \A j \in 1..(L - 1) : f[c[j]] = c[j + 1]
        /\ f[c[L]] = e
    BY <1>1 DEF Linked
  <1>4. w = [j \in 1..(L - 1) |-> IF j < i THEN c[j] ELSE c[j + 1]]
    BY DEF Without
  <1>5. g[c[i - 1]] = f[c[i]] /\ \A j \in 1..L : j # i - 1 /\ j # i => g[c[j]] = f[c[j]]
    BY DEF Closes
  <1> HIDE DEF L, w
  <1>6. \A j \in 1..(L - 1) : j \in 1..L /\ j + 1 \in 1..L
    BY <1>1
  <1>7. /\ w \in Seq(PCBs) /\ Len(w) = L - 1 /\ DOMAIN w = 1..(L - 1)
        /\ \A j \in 1..(L - 1) : w[j] = IF j < i THEN c[j] ELSE c[j + 1]
    <2>1. L - 1 \in Nat
      BY <1>1
    <2>2. \A j \in 1..(L - 1) : w[j] = (IF j < i THEN c[j] ELSE c[j + 1]) /\ w[j] \in PCBs
      BY <1>1, <1>4, <1>6
    <2>3. w = [j \in 1..(L - 1) |-> w[j]]
      BY <1>4
    <2>4. w \in Seq(PCBs) /\ Len(w) = L - 1
      BY <2>1, <2>2, <2>3
    <2> QED BY <1>4, <2>2, <2>4
  <1>8. ASSUME NEW j \in 1..(L - 1), NEW k \in 1..(L - 1), w[j] = w[k] PROVE j = k
    <2>1. CASE j < i /\ k < i
      BY <1>2, <1>6, <1>7, <1>8, <2>1
    <2>2. CASE j < i /\ ~(k < i)
      <3>1. c[j] = c[k + 1]
        BY <1>7, <1>8, <2>2
      <3>2. j = k + 1
        BY <1>2, <1>6, <3>1
      <3> QED BY <1>1, <2>2, <3>2
    <2>3. CASE ~(j < i) /\ k < i
      <3>1. c[j + 1] = c[k]
        BY <1>7, <1>8, <2>3
      <3>2. j + 1 = k
        BY <1>2, <1>6, <3>1
      <3> QED BY <1>1, <2>3, <3>2
    <2>4. CASE ~(j < i) /\ ~(k < i)
      <3>1. c[j + 1] = c[k + 1]
        BY <1>7, <1>8, <2>4
      <3>2. j + 1 = k + 1
        BY <1>2, <1>6, <3>1
      <3> QED BY <1>1, <3>2
    <2> QED BY <2>1, <2>2, <2>3, <2>4
  <1>9. ASSUME NEW j \in 1..(L - 1)
        PROVE  g[w[j]] = IF j = L - 1 THEN e ELSE w[j + 1]
    <2>0. j \in 1..L /\ j + 1 \in 1..L /\ (j # L - 1 => j + 1 \in 1..(L - 1)) /\ i \in Int /\ L \in Int
      BY <1>1, <1>6
    <2>1. CASE j < i - 1
      <3>1. w[j] = c[j] /\ j # i - 1 /\ j # i /\ j + 1 < i /\ j # L - 1 /\ j < i
        BY <1>1, <1>7, <2>0, <2>1
      <3>2. w[j + 1] = c[j + 1]
        BY <1>7, <2>0, <3>1
      <3> QED BY <1>3, <1>5, <2>0, <3>1, <3>2
    <2>2. CASE j = i - 1
      <3>1. w[j] = c[j] /\ ~(j + 1 < i) /\ j + 1 = i /\ i \in 1..L
        BY <1>1, <1>7, <2>0, <2>2
      <3>2. g[c[j]] = f[c[i]]
        BY <1>5, <2>2
      <3>3. CASE j = L - 1
        <4>1. i = L
          BY <2>0, <3>1, <3>3
        <4> QED BY <1>3, <3>1, <3>2, <3>3, <4>1
      <3>4. CASE j # L - 1
        <4>1. i \in 1..(L - 1) /\ w[j + 1] = c[i + 1]
          BY <1>7, <2>0, <3>1, <3>4
        <4>2. f[c[i]] = c[i + 1]
          BY <1>3, <4>1
        <4> QED BY <3>1, <3>2, <3>4, <4>1, <4>2
      <3> QED BY <3>3, <3>4
    <2>3. CASE j > i - 1
      <3>1. w[j] = c[j + 1] /\ j + 1 # i - 1 /\ j + 1 # i /\ ~(j + 1 < i) /\ ~(j < i)
        BY <1>1, <1>7, <2>0, <2>3
      <3>2. g[c[j + 1]] = f[c[j + 1]]
        BY <1>5, <2>0, <3>1
      <3>3. CASE j = L - 1
        <4>1. j + 1 = L
          BY <2>0, <3>3
        <4> QED BY <1>3, <3>1, <3>2, <3>3, <4>1
      <3>4. CASE j # L - 1
        <4>1. j + 1 \in 1..(L - 1)
          BY <2>0, <3>4
        <4>2. w[j + 1] = c[(j + 1) + 1]
          BY <1>7, <3>1, <4>1
        <4>3. f[c[j + 1]] = c[(j + 1) + 1]
          BY <1>3, <4>1
        <4> QED BY <3>1, <3>2, <3>4, <4>2, <4>3
      <3> QED BY <3>3, <3>4
    <2> QED BY <2>0, <2>1, <2>2, <2>3
  <1>10. Linked(g, w, e)
    <2>1. \A j \in 1..(Len(w) - 1) : g[w[j]] = w[j + 1]
      <3> TAKE j \in 1..(Len(w) - 1)
      <3>1. j \in 1..(L - 1) /\ j # L - 1
        BY <1>1, <1>7
      <3> QED BY <1>9, <3>1
    <2>2. g[w[Len(w)]] = e
      <3>1. L - 1 \in 1..(L - 1)
        BY <1>1
      <3> QED BY <1>7, <1>9, <3>1
    <2> QED BY <1>7, <1>8, <2>1, <2>2 DEF Linked
  <1>11. ToSet(w) = ToSet(c) \ {c[i]}
    <2>1. ToSet(w) = {w[j] : j \in 1..(L - 1)}
      BY <1>7 DEF ToSet
    <2>2. ASSUME NEW j \in 1..(L - 1) PROVE w[j] \in ToSet(c) \ {c[i]}
      <3>1. j \in 1..L /\ j + 1 \in 1..L /\ i \in 1..L /\ (j < i => j # i) /\ (~(j < i) => j + 1 # i)
        BY <1>1, <1>6
      <3> QED BY <1>1, <1>2, <1>7, <3>1
    <2>3. ASSUME NEW q \in ToSet(c) \ {c[i]} PROVE q \in ToSet(w)
      <3>1. PICK j \in 1..L : q = c[j]
        BY <1>1
      <3>2. CASE j < i
        <4>1. j \in 1..(L - 1) /\ w[j] = c[j]
          BY <1>1, <1>7, <3>2
        <4> QED BY <2>1, <3>1, <4>1
      <3>3. CASE ~(j < i)
        <4>1. j # i
          BY <2>3, <3>1
        <4>2. j - 1 \in 1..(L - 1) /\ ~(j - 1 < i) /\ (j - 1) + 1 = j
          BY <1>1, <3>3, <4>1
        <4>3. w[j - 1] = c[j]
          BY <1>7, <4>2
        <4> QED BY <2>1, <3>1, <4>2, <4>3
      <3> QED BY <3>2, <3>3
    <2> QED BY <2>1, <2>2, <2>3
  <1>12. w # <<>> /\ w[1] = c[1]
    <2>1. 1 \in 1..(L - 1) /\ 1 < i
      BY <1>1
    <2>2. Len(w) > 0
      BY <1>1, <1>7
    <2> QED BY <1>7, <2>1, <2>2
  <1> QED BY <1>7, <1>10, <1>11, <1>12 DEF L, w, LeavesOut

-----------------------------------------------------------------------------
(* What the invariant says.                                                *)

\* The pid that is given next was not given before, and will not be again.
LEMMA NextPidIs ==
    ASSUME NEW bits \in SUBSET Nat, NextPid(bits) # NoPid
    PROVE  /\ NextPid(bits) \in Nat \ {0} /\ NextPid(bits) - 1 \notin bits
           /\ NextPid(bits) - 1 \in TakePid(bits)
           /\ bits \subseteq TakePid(bits) /\ TakePid(bits) \in SUBSET Nat
  <1> DEFINE F == FreeBits(bits)
             i == CHOOSE i \in F : \A j \in F : i <= j
  <1>1. F \subseteq Nat /\ F \cap bits = {}
    BY DEF FreeBits
  <1>2. F # {} /\ NextPid(bits) = 1 + i
    BY DEF NextPid
  <1>3. i \in F
    <2>1. \E k \in F : \A j \in F : k <= j
      <3> HIDE DEF F
      <3> QED BY <1>1, <1>2, LeastNumber
    <2> QED BY <2>1
  <1> HIDE DEF i, F
  <1>4. i \in Nat /\ i \notin bits /\ NextPid(bits) - 1 = i /\ NextPid(bits) \in Nat \ {0}
    BY <1>1, <1>2, <1>3
  <1>5. TakePid(bits) = SetBit(bits, i)
    BY <1>4 DEF TakePid
  <1>6. i \in SetBit(bits, i) /\ bits \subseteq SetBit(bits, i) /\ SetBit(bits, i) \in SUBSET Nat
    BY <1>4, PidAssumption DEF SetBit
  <1> QED BY <1>4, <1>5, <1>6

\* The ring, the lists and the numbers.
LEMMA RingFacts ==
    ASSUME NEW c, NEW s, NEW t, InvOf(c, s, t)
    PROVE  /\ next_proc \in Maps /\ c \in Seq(PCBs)
           /\ Len(c) \in 1..MaxPcb /\ DOMAIN c = 1..Len(c) /\ c # <<>> /\ c[1] = first_process
           /\ \A i \in 1..Len(c) : c[i] \in PCBs /\ c[i] \in 1..npcb /\ c[i] \in ToSet(c)
           /\ \A i, j \in 1..Len(c) : c[i] = c[j] => i = j
           /\ Apart(pid, c)
           /\ \E e \in {first_process, NULL} : Linked(next_proc, c, e)
           /\ Len(c) > 1 => Linked(next_proc, c, first_process)
           /\ IsList(next_proc, stopped_process, s) /\ IsList(next_proc, forked_process, t)
           /\ npcb \in PCBs /\ npcb \in 1..MaxPcb
           /\ ToSet(c) \subseteq 1..npcb /\ ToSet(s) \subseteq 1..npcb
           /\ ToSet(t) \subseteq 1..npcb /\ freed \subseteq 1..npcb
  <1>1. /\ next_proc \in Maps /\ npcb \in PCBs /\ npcb \in 1..MaxPcb
    BY DEF InvOf, Types, Maps, PCBs
  <1>2. /\ IsRing(next_proc, c) /\ IsList(next_proc, stopped_process, s)
        /\ IsList(next_proc, forked_process, t)
    BY DEF InvOf, Lists
  <1>3. PICK e \in {first_process, NULL} : Linked(next_proc, c, e)
    BY <1>2 DEF IsRing
  <1>4. c # <<>> /\ c[1] = first_process /\ (Len(c) > 1 => Linked(next_proc, c, first_process))
    BY <1>2, <1>3, LinkedIs DEF IsRing
  <1>5. /\ c \in Seq(PCBs) /\ Len(c) \in 1..MaxPcb /\ DOMAIN c = 1..Len(c)
        /\ \A i \in 1..Len(c) : c[i] \in PCBs /\ c[i] \in ToSet(c)
    BY <1>3, <1>4, LinkedIs, Numbers
  <1>6. \A i, j \in 1..Len(c) : c[i] = c[j] => i = j
    BY <1>3, <1>5 DEF Linked
  <1>7. Apart(pid, c)
    BY DEF InvOf, PidInv
  <1>8. /\ ToSet(c) \subseteq 1..npcb /\ ToSet(s) \subseteq 1..npcb
        /\ ToSet(t) \subseteq 1..npcb /\ freed \subseteq 1..npcb
    BY DEF InvOf, Places
  <1> QED BY <1>1, <1>2, <1>3, <1>4, <1>5, <1>6, <1>7, <1>8

\* The same for a ring of L processes, two or more.
RingOf(c, s, t, L) ==
    /\ next_proc \in Maps /\ Linked(next_proc, c, first_process) /\ c[1] = first_process
    /\ \A i \in 1..L : c[i] \in PCBs /\ c[i] \in 1..npcb /\ c[i] \in ToSet(c)
    /\ \A i, j \in 1..L : c[i] = c[j] => i = j
    /\ Apart(pid, c)
    /\ DOMAIN c = 1..L /\ ToSet(s) \subseteq 1..npcb /\ ToSet(t) \subseteq 1..npcb

\* What InvOf says of it.
LEMMA LongRing ==
    ASSUME NEW c, NEW s, NEW t, InvOf(c, s, t), NEW L, L = Len(c), L > 1
    PROVE  RingOf(c, s, t, L)
  <1>1. /\ next_proc \in Maps /\ Linked(next_proc, c, first_process) /\ c[1] = first_process
        /\ DOMAIN c = 1..L /\ ToSet(s) \subseteq 1..npcb /\ ToSet(t) \subseteq 1..npcb
    BY RingFacts
  <1>2. /\ \A i \in 1..L : c[i] \in PCBs /\ c[i] \in 1..npcb /\ c[i] \in ToSet(c)
        /\ \A i, j \in 1..L : c[i] = c[j] => i = j
        /\ Apart(pid, c)
    BY RingFacts
  <1> QED BY <1>1, <1>2 DEF RingOf

\* A program at one of its labels, but not between fork and wait, is the last of
\* the ring; the kernel thread is it alone.
LEMMA WhoRuns ==
    ASSUME NEW c, NEW s, NEW t, InvOf(c, s, t), pc[running] # "forked"
    PROVE  /\ running = c[Len(c)] /\ curr_process = running
           /\ prog[running] = "kernel" <=> Len(c) = 1
           /\ running \in PCBs /\ running \in 1..npcb
  <1>1. running = c[Len(c)] /\ curr_process = running
    BY DEF InvOf, RunInv
  <1>2. Len(c) \in 1..MaxPcb /\ Len(c) \in 1..Len(c) /\ c[1] = first_process
    BY RingFacts, Numbers
  <1>3. CASE Len(c) = 1
    BY <1>1, <1>2, <1>3, RingFacts DEF InvOf, WaitInv
  <1>4. CASE Len(c) # 1
    <2>1. Len(c) \in 2..Len(c)
      <3>1. \A n \in 1..MaxPcb : n # 1 => n \in 2..n
        BY Numbers
      <3> QED BY <1>2, <1>4, <3>1
    <2>2. prog[c[Len(c)]] \in {"init", "sbush", "command"}
      BY <2>1 DEF InvOf, WaitInv
    <2> QED BY <1>1, <1>2, <1>4, <2>2, RingFacts
  <1> QED BY <1>3, <1>4

\* What a new PCB changes.
LEMMA NewPcbIs ==
    ASSUME Types, NEW p \in PCBs, NEW parent \in Int, NEW g \in Programs,
           NewPcb(p, parent, g)
    PROVE  /\ p = npcb + 1 /\ npcb' = p /\ p \notin 1..npcb /\ 1..npcb' = (1..npcb) \cup {p}
           /\ {pid', ppid'} \subseteq [PCBs -> Int] /\ prog' \in [PCBs -> Programs]
           /\ \A q \in 1..npcb : q \in PCBs /\ pid'[q] = pid[q] /\ ppid'[q] = ppid[q] /\ prog'[q] = prog[q]
           /\ IF pid'[p] = NoPid THEN processID' = processID
                                 ELSE pid'[p] - 1 \notin processID /\ pid'[p] - 1 \in processID'
           /\ pid'[p] = NextPid(processID) /\ ppid'[p] = parent /\ prog'[p] = g
           /\ processID \subseteq processID' /\ processID' \subseteq Nat
  <1>1. npcb \in Nat /\ p = npcb + 1 /\ npcb' = p /\ p \in Nat /\ MaxPcb \in Nat /\ p <= MaxPcb
    BY Numbers DEF Types, NewPcb, PCBs
  <1>2. p \notin 1..npcb /\ \A q \in 1..npcb : q # p /\ q \in PCBs
    BY <1>1 DEF PCBs
  <1>3. 1..npcb' = (1..npcb) \cup {p}
    <2>1. 1..(npcb + 1) = (1..npcb) \cup {npcb + 1}
      BY <1>1
    <2> QED BY <1>1, <2>1
  <1>4. /\ NextPid(processID) \in Int
        /\ IF NextPid(processID) = NoPid THEN TakePid(processID) = processID
             ELSE /\ NextPid(processID) - 1 \notin processID
                  /\ NextPid(processID) - 1 \in TakePid(processID)
        /\ processID \subseteq TakePid(processID) /\ TakePid(processID) \in SUBSET Nat
    <2>1. processID \in SUBSET Nat
      BY DEF Types
    <2>2. CASE NextPid(processID) = NoPid
      <3>1. TakePid(processID) = processID /\ NoPid \in Int
        BY <2>2 DEF TakePid, NoPid
      <3> QED BY <2>1, <2>2, <3>1
    <2>3. CASE NextPid(processID) # NoPid
      BY <2>1, <2>3, NextPidIs
    <2> QED BY <2>2, <2>3
  <1>5. /\ pid' = [pid EXCEPT ![p] = NextPid(processID)] /\ processID' = TakePid(processID)
        /\ ppid' = [ppid EXCEPT ![p] = parent] /\ prog' = [prog EXCEPT ![p] = g]
    BY DEF NewPcb
  <1>6. pid \in [PCBs -> Int] /\ ppid \in [PCBs -> Int] /\ prog \in [PCBs -> Programs]
    BY DEF Types
  <1>7. /\ pid' \in [PCBs -> Int] /\ ppid' \in [PCBs -> Int] /\ prog' \in [PCBs -> Programs]
        /\ pid'[p] = NextPid(processID) /\ ppid'[p] = parent /\ prog'[p] = g
        /\ \A q \in PCBs : q # p => pid'[q] = pid[q] /\ ppid'[q] = ppid[q] /\ prog'[q] = prog[q]
    BY <1>4, <1>5, <1>6
  <1> QED BY <1>1, <1>2, <1>3, <1>4, <1>5, <1>7

\* Some processes of c, in their order, with the pids they had.
LEMMA ApartStays ==
    ASSUME NEW P, NEW c, Apart(P, c), NEW Q, NEW w, NEW h,
           \A i \in DOMAIN w : h[i] \in DOMAIN c /\ Q[w[i]] = P[c[h[i]]],
           \A i, j \in DOMAIN w : (h[i] = h[j] => i = j) /\ (i < j => h[i] < h[j])
    PROVE  Apart(Q, w)
  <1>1. /\ \A x, y \in DOMAIN c : P[c[x]] = P[c[y]] => x = y \/ P[c[x]] = NoPid
        /\ \A x, y \in DOMAIN c : x < y /\ P[c[x]] = NoPid => P[c[y]] = NoPid
    BY DEF Apart
  <1>2. ASSUME NEW i \in DOMAIN w, NEW j \in DOMAIN w, Q[w[i]] = Q[w[j]]
        PROVE  i = j \/ Q[w[i]] = NoPid
    <2>1. h[i] \in DOMAIN c /\ h[j] \in DOMAIN c /\ P[c[h[i]]] = P[c[h[j]]]
      BY <1>2
    <2>2. h[i] = h[j] \/ P[c[h[i]]] = NoPid
      BY <1>1, <2>1
    <2> QED BY <2>2
  <1>3. ASSUME NEW i \in DOMAIN w, NEW j \in DOMAIN w, i < j, Q[w[i]] = NoPid
        PROVE  Q[w[j]] = NoPid
    <2>1. h[i] \in DOMAIN c /\ h[j] \in DOMAIN c /\ h[i] < h[j] /\ P[c[h[i]]] = NoPid
      BY <1>3
    <2>2. P[c[h[j]]] = NoPid
      BY <1>1, <2>1
    <2> QED BY <2>2
  <1> QED BY <1>2, <1>3 DEF Apart

-----------------------------------------------------------------------------
(* Every action keeps the invariant.                                       *)

\* A new process behind the last one of the ring, the child of one in it.
LEMMA RingGrows ==
    ASSUME NEW c, NEW s, NEW t, InvOf(c, s, t),
           NEW p \in PCBs, p \notin 1..npcb, NEW g \in Maps,
           g[c[Len(c)]] = p, g[p] = first_process,
           \A q \in 1..npcb : q # c[Len(c)] => g[q] = next_proc[q]
    PROVE  /\ Append(c, p) \in Seq(PCBs) /\ IsRing(g, Append(c, p))
           /\ IsList(g, stopped_process, s) /\ IsList(g, forked_process, t)
           /\ ToSet(Append(c, p)) = ToSet(c) \cup {p}
           /\ Len(Append(c, p)) = Len(c) + 1 /\ Append(c, p)[Len(c) + 1] = p
           /\ \A i \in 1..Len(c) : Append(c, p)[i] = c[i]
           /\ DOMAIN Append(c, p) = 1..(Len(c) + 1)
  <1> DEFINE L == Len(c)
             a == Append(c, p)
  <1>1. /\ c \in Seq(PCBs) /\ L \in Nat /\ L \in 1..L /\ c # <<>> /\ c[1] = first_process
        /\ \A i \in 1..L : c[i] \in 1..npcb
        /\ \A i, j \in 1..L : c[i] = c[j] => i = j
        /\ ToSet(c) \subseteq 1..npcb /\ ToSet(s) \subseteq 1..npcb /\ ToSet(t) \subseteq 1..npcb
    BY RingFacts, Numbers
  <1>2. IsList(next_proc, stopped_process, s) /\ IsList(next_proc, forked_process, t)
    BY RingFacts
  <1>3. PICK e \in {first_process, NULL} : Linked(next_proc, c, e)
    BY RingFacts
  <1>4. Prolongs(g, next_proc, c, p)
    <2>1. ASSUME NEW i \in 1..(L - 1) PROVE g[c[i]] = next_proc[c[i]]
      <3>1. i \in 1..L /\ i # L
        BY <1>1
      <3> QED BY <1>1, <3>1
    <2> QED BY <2>1 DEF Prolongs
  <1>5. /\ Linked(g, a, first_process) /\ ToSet(a) = ToSet(c) \cup {p}
        /\ a # <<>> /\ a[1] = first_process /\ Len(a) = L + 1 /\ a[L + 1] = p
        /\ \A i \in 1..L : a[i] = c[i]
    <2>1. p \notin ToSet(c)
      BY <1>1
    <2> QED BY <1>1, <1>3, <1>4, <2>1, LinkedLonger
  <1>6. c[L] \in ToSet(c) /\ ToSet(c) \cap (ToSet(s) \cup ToSet(t)) = {}
    BY RingFacts, <1>1 DEF InvOf, Places
  <1>7. IsList(g, stopped_process, s)
    <2>1. \A q \in ToSet(s) : g[q] = next_proc[q]
      BY <1>1, <1>6
    <2> QED BY <1>2, <2>1, ListSame
  <1>8. IsList(g, forked_process, t)
    <2>1. \A q \in ToSet(t) : g[q] = next_proc[q]
      BY <1>1, <1>6
    <2> QED BY <1>2, <2>1, ListSame
  <1>9. a \in Seq(PCBs) /\ DOMAIN a = 1..(L + 1)
    BY <1>1, <1>5
  <1> QED BY <1>5, <1>7, <1>8, <1>9 DEF IsRing

\* A new process keeps the places, the pids and the parents.
LEMMA NewProcess ==
    ASSUME NEW c, NEW s, NEW t, InvOf(c, s, t),
           NEW p \in PCBs, NEW parent \in Int, NEW g \in Programs,
           NewPcb(p, parent, g),
           next_proc' \in Maps, next_proc'[c[Len(c)]] = p, next_proc'[p] = first_process,
           \A q \in 1..npcb : q # c[Len(c)] => next_proc'[q] = next_proc[q],
           UNCHANGED <<stopped_process, forked_process, freed>>,
           \E j \in 1..Len(c) : parent = pid[c[j]]
    PROVE  /\ Append(c, p) \in Seq(PCBs) /\ Lists(Append(c, p), s, t)'
           /\ Places(Append(c, p), s, t)' /\ PidInv(Append(c, p))' /\ ParentInv(Append(c, p))'
  <1> DEFINE L == Len(c)
             a == Append(c, p)
  <1>1. /\ p = npcb + 1 /\ npcb' = p /\ p \notin 1..npcb /\ 1..npcb' = (1..npcb) \cup {p}
        /\ \A q \in 1..npcb : q \in PCBs /\ pid'[q] = pid[q] /\ ppid'[q] = ppid[q]
        /\ IF pid'[p] = NoPid THEN processID' = processID
                              ELSE pid'[p] - 1 \notin processID /\ pid'[p] - 1 \in processID'
        /\ pid'[p] = NextPid(processID) /\ ppid'[p] = parent /\ processID \subseteq processID'
    BY NewPcbIs DEF InvOf
  <1>2. /\ a \in Seq(PCBs) /\ IsRing(next_proc', a)
        /\ IsList(next_proc', stopped_process, s) /\ IsList(next_proc', forked_process, t)
        /\ ToSet(a) = ToSet(c) \cup {p} /\ Len(a) = L + 1 /\ a[L + 1] = p
        /\ \A i \in 1..L : a[i] = c[i]
        /\ DOMAIN a = 1..(L + 1)
    BY <1>1, RingGrows
  <1>3. /\ L \in Nat /\ L \in 1..L /\ c[1] = first_process /\ DOMAIN c = 1..L
        /\ \A i \in 1..L : c[i] \in 1..npcb
        /\ Apart(pid, c)
    BY RingFacts, Numbers
  <1> HIDE DEF L, a
  <1>4. Lists(a, s, t)'
    BY <1>2 DEF Lists
  <1>5. Places(a, s, t)'
    <2>1. NoneRefused' => NoneRefused
      BY <1>1 DEF NoneRefused
    <2> QED BY <1>1, <1>2, <2>1 DEF InvOf, Places
  <1>6. \A i \in DOMAIN a : (i \in 1..L /\ a[i] = c[i] /\ pid'[a[i]] = pid[c[i]] /\ ppid'[a[i]] = ppid[c[i]])
                             \/ (i = L + 1 /\ a[i] = p)
    <2> TAKE i \in DOMAIN a
    <2>1. i \in 1..L \/ i = L + 1
      BY <1>2, <1>3
    <2> QED BY <1>1, <1>2, <1>3, <2>1
  <1>7. PidInv(a)'
    <2>1. /\ pid[first_process] = 1
          /\ \A q \in 1..npcb : IF pid[q] = NoPid THEN NextPid(processID) = NoPid
                                                   ELSE pid[q] - 1 \in processID
      BY DEF InvOf, PidInv
    <2>2. pid'[first_process] = 1
      BY <1>1, <1>3, <2>1
    <2>3. NextPid(processID) = NoPid => processID' = processID /\ NextPid(processID') = NoPid
      BY <1>1
    <2>4. \A q \in 1..npcb' : IF pid'[q] = NoPid THEN NextPid(processID)' = NoPid
                                                 ELSE pid'[q] - 1 \in processID'
      <3>1. ASSUME NEW q \in 1..npcb
            PROVE  IF pid'[q] = NoPid THEN NextPid(processID') = NoPid ELSE pid'[q] - 1 \in processID'
        BY <1>1, <2>1, <2>3
      <3>2. IF pid'[p] = NoPid THEN NextPid(processID') = NoPid ELSE pid'[p] - 1 \in processID'
        BY <1>1, <2>3
      <3> QED BY <1>1, <3>1, <3>2
    <2>5. \A i \in 1..L : pid'[p] # NoPid => pid[c[i]] # NoPid /\ pid[c[i]] # pid'[p]
      BY <1>1, <1>3, <2>1
    <2>6. ASSUME NEW i \in DOMAIN a, NEW j \in DOMAIN a, pid'[a[i]] = pid'[a[j]], pid'[a[i]] # NoPid
          PROVE  i = j
      BY <1>3, <1>6, <2>5, <2>6 DEF Apart
    <2>7. ASSUME NEW i \in DOMAIN a, NEW j \in DOMAIN a, i < j, pid'[a[i]] = NoPid
          PROVE  pid'[a[j]] = NoPid
      <3>1. i \in 1..L /\ pid[c[i]] = NoPid
        BY <1>2, <1>3, <1>6, <2>7
      <3>2. (j \in 1..L /\ pid'[a[j]] = pid[c[j]]) \/ a[j] = p
        BY <1>6
      <3> QED BY <1>3, <2>5, <2>7, <3>1, <3>2 DEF Apart
    <2>8. Apart(pid', a)
      BY <2>6, <2>7 DEF Apart
    <2> HIDE DEF NextPid, NoPid
    <2> QED BY <2>2, <2>4, <2>8 DEF PidInv
  <1>8. ParentInv(a)'
    <2>1. ASSUME NEW i \in DOMAIN a
          PROVE  \E j \in DOMAIN a : (j < i \/ j = 1) /\ pid'[a[j]] = ppid'[a[i]]
      <3>0. \A j \in 1..L : j \in DOMAIN a /\ j < L + 1 /\ pid'[a[j]] = pid[c[j]]
        BY <1>1, <1>2, <1>3
      <3>1. CASE i \in 1..L /\ ppid'[a[i]] = ppid[c[i]]
        <4>1. PICK j \in DOMAIN c : (j < i \/ j = 1) /\ pid[c[j]] = ppid[c[i]]
          BY <1>3, <3>1 DEF InvOf, ParentInv
        <4> QED BY <1>3, <3>0, <3>1, <4>1
      <3>2. CASE i = L + 1 /\ a[i] = p
        <4>1. PICK j \in 1..L : parent = pid[c[j]]
          BY DEF L
        <4> QED BY <1>1, <3>0, <3>2, <4>1
      <3> QED BY <1>6, <3>1, <3>2
    <2> QED BY <2>1 DEF ParentInv
  <1> QED BY <1>2, <1>4, <1>5, <1>7, <1>8 DEF a

\* The first user process goes behind the kernel thread.
LEMMA CreateKeeps ==
    ASSUME NEW c, NEW s, NEW t, InvOf(c, s, t), CreateUserProcess
    PROVE  \E p \in PCBs : NewPcb(p, 1, "init") /\ running' = p /\ InvOf(Append(c, p), s, t)'
  <1>0. Types
    BY DEF InvOf
  <1>1. PICK p \in PCBs :
           /\ NewPcb(p, 1, "init")
           /\ next_proc' = [next_proc EXCEPT ![curr_process] = p, ![p] = curr_process]
           /\ curr_process' = p /\ running' = p
    BY DEF CreateUserProcess
  <1>3. prog[running] = "kernel" /\ pc[running] = "main"
    BY DEF CreateUserProcess, At
  <1>4. running = c[Len(c)] /\ curr_process = running /\ Len(c) = 1 /\ running \in PCBs /\ running \in 1..npcb
    BY <1>3, WhoRuns
  <1>5. c[1] = first_process /\ curr_process = first_process /\ next_proc \in Maps /\ 1 \in 1..Len(c)
    BY <1>4, RingFacts
  <1>6. 1 \in Int /\ "init" \in Programs
    BY DEF Programs
  <1>7. /\ p = npcb + 1 /\ npcb' = p /\ p \notin 1..npcb /\ 1..npcb' = (1..npcb) \cup {p}
        /\ {pid', ppid'} \subseteq [PCBs -> Int] /\ prog' \in [PCBs -> Programs]
        /\ \A q \in 1..npcb : q \in PCBs /\ prog'[q] = prog[q]
        /\ prog'[p] = "init" /\ processID' \subseteq Nat
    BY <1>0, <1>1, <1>6, NewPcbIs
  <1>8. /\ next_proc' \in Maps /\ next_proc'[first_process] = p /\ next_proc'[p] = first_process
        /\ \A q \in 1..npcb : q # first_process => next_proc'[q] = next_proc[q]
    BY <1>1, <1>4, <1>5, <1>7 DEF Maps
  <1>9. UNCHANGED <<stopped_process, forked_process, saved, freed, pc, ret, cpu>>
    BY DEF CreateUserProcess
  <1> DEFINE a == Append(c, p)
  <1>10. /\ a \in Seq(PCBs) /\ Lists(a, s, t)' /\ Places(a, s, t)' /\ PidInv(a)' /\ ParentInv(a)'
    <2>1. \E j \in 1..Len(c) : 1 = pid[c[j]]
      BY <1>5 DEF InvOf, PidInv
    <2>2. c[Len(c)] = first_process
      BY <1>4, <1>5
    <2>3. NewPcb(p, 1, "init")
      BY <1>1
    <2> QED BY <1>6, <1>8, <1>9, <2>1, <2>2, <2>3, NewProcess
  <1>11. Len(a) = 2 /\ a[1] = first_process /\ a[2] = p
    BY <1>4, <1>5, RingFacts
  <1>12. Types'
    BY <1>0, <1>1, <1>7, <1>8, <1>9 DEF Types, Maps
  <1>13. pc[p] = "main" /\ \A q \in PCBs : q > npcb' => pc[q] = "main"
    <2>1. \A q \in PCBs : q > npcb => pc[q] = "main"
      BY DEF InvOf, WaitInv
    <2>2. npcb \in Nat
      BY <1>0 DEF Types, PCBs
    <2> QED BY <1>7, <2>1, <2>2 DEF PCBs
  <1>14. RunInv(a)'
    BY <1>1, <1>9, <1>11, <1>13 DEF RunInv
  <1>15. WaitInv(a)'
    <2>1. prog[first_process] = "kernel" /\ pc[first_process] = "main"
      BY DEF InvOf, WaitInv
    <2>2. prog'[first_process] = "kernel"
      BY <1>4, <1>5, <1>7, <2>1
    <2>3. \A i \in 2..Len(a) : prog'[a[i]] \in {"init", "sbush", "command"}
      BY <1>7, <1>11
    <2>4. 2..(Len(a) - 1) = {}
      BY <1>11
    <2> QED BY <1>9, <1>13, <2>1, <2>2, <2>3, <2>4 DEF WaitInv
  <1> HIDE DEF a
  <1>16. InvOf(a, s, t)'
    BY <1>10, <1>12, <1>14, <1>15 DEF InvOf
  <1> QED BY <1>1, <1>16 DEF a

\* The child goes behind the process that forks, which waits for it next.
LEMMA ForkKeeps ==
    ASSUME NEW c, NEW s, NEW t, InvOf(c, s, t), ForkChild
    PROVE  \E p \in PCBs : /\ NewPcb(p, pid[curr_process], prog[curr_process])
                          /\ InvOf(Append(c, p), s, t)'
  <1>0. Types
    BY DEF InvOf
  <1>1. PICK p \in PCBs :
           /\ NewPcb(p, pid[curr_process], prog[curr_process])
           /\ next_proc' = [next_proc EXCEPT ![p] = next_proc[curr_process], ![curr_process] = p]
           /\ pc' = [pc EXCEPT ![p] = "child", ![running] = "forked"]
    BY DEF ForkChild
  <1>3. prog[running] \in {"init", "sbush"} /\ pc[running] = "main"
    BY DEF ForkChild, Forks, At
  <1>4. running = c[Len(c)] /\ curr_process = running /\ Len(c) # 1 /\ running \in PCBs /\ running \in 1..npcb
    BY <1>3, WhoRuns
  <1>5. PICK L \in Nat : L = Len(c) /\ L > 1 /\ L \in 1..L
    <2>1. PICK L \in 1..MaxPcb : L = Len(c)
      BY RingFacts
    <2>2. L \in Nat /\ L > 1 /\ L \in 1..L
      BY <1>4, <2>1, Numbers
    <2> QED BY <2>1, <2>2
  <1>6. pid[running] \in Int /\ prog[running] \in Programs
    BY <1>0, <1>4 DEF Types
  <1>7. /\ p = npcb + 1 /\ npcb' = p /\ p \notin 1..npcb /\ 1..npcb' = (1..npcb) \cup {p}
        /\ {pid', ppid'} \subseteq [PCBs -> Int] /\ prog' \in [PCBs -> Programs]
        /\ \A q \in 1..npcb : q \in PCBs /\ pid'[q] = pid[q] /\ prog'[q] = prog[q]
        /\ pid'[p] = NextPid(processID) /\ pid'[p] \in Int
        /\ prog'[p] = prog[running] /\ processID' \subseteq Nat
    BY <1>0, <1>1, <1>4, <1>6, NewPcbIs
  <1>8. next_proc[running] = first_process
    BY <1>4, <1>5, RingFacts DEF Linked
  <1>9. /\ next_proc' \in Maps /\ next_proc'[running] = p /\ next_proc'[p] = first_process
        /\ \A q \in 1..npcb : q # running => next_proc'[q] = next_proc[q]
    BY <1>1, <1>4, <1>7, <1>8, RingFacts, Numbers DEF Maps
  <1>10. UNCHANGED <<curr_process, stopped_process, forked_process, running, saved, freed, cpu>>
    BY DEF ForkChild
  <1> DEFINE a == Append(c, p)
  <1>11. /\ a \in Seq(PCBs) /\ Lists(a, s, t)' /\ Places(a, s, t)' /\ PidInv(a)' /\ ParentInv(a)'
    <2>1. \E j \in 1..Len(c) : pid[running] = pid[c[j]]
      BY <1>4, <1>5
    <2>2. NewPcb(p, pid[running], prog[running])
      BY <1>1, <1>4
    <2> QED BY <1>4, <1>6, <1>9, <1>10, <2>1, <2>2, NewProcess
  <1>12. Len(a) = L + 1 /\ a[L + 1] = p /\ a[L] = running /\ \A i \in 1..L : a[i] = c[i]
    BY <1>4, <1>5, RingFacts
  <1>13. ret' = [ret EXCEPT ![running] = NextPid(processID)]
    BY DEF ForkChild
  <1>14. /\ ret' \in [PCBs -> Int] /\ ret'[running] = pid'[p]
         /\ pc' \in [PCBs -> Labels] /\ pc'[p] = "child" /\ pc'[running] = "forked"
         /\ \A q \in PCBs : q # p /\ q # running => pc'[q] = pc[q]
    <2>1. ret \in [PCBs -> Int] /\ pc \in [PCBs -> Labels] /\ {"child", "forked"} \subseteq Labels
      BY <1>0 DEF Types, Labels
    <2> QED BY <1>1, <1>4, <1>7, <1>13, <2>1
  <1>15. Types'
    <2>1. npcb' \in PCBs /\ next_proc' \in [PCBs -> PCBs \cup {NULL}] /\ processID' \subseteq Nat
      BY <1>7, <1>9 DEF Maps
    <2>2. {pid', ppid', ret'} \subseteq [PCBs -> Int]
      BY <1>7, <1>14
    <2>3. prog' \in [PCBs -> Programs] /\ pc' \in [PCBs -> Labels]
      BY <1>7, <1>14
    <2>4. saved' \subseteq PCBs /\ cpu' \in {"ok", "null"}
      BY <1>0, <1>10 DEF Types
    <2> QED BY <2>1, <2>2, <2>3, <2>4 DEF Types
  <1>16. RunInv(a)'
    <2>1. Len(a) > 2 /\ Len(a) - 1 = L
      BY <1>5, <1>12
    <2> QED BY <1>4, <1>7, <1>10, <1>12, <1>14, <2>1 DEF RunInv
  <1>17. WaitInv(a)'
    <2>1. /\ prog[first_process] = "kernel" /\ pc[first_process] = "main"
          /\ \A i \in 2..L : prog[c[i]] \in {"init", "sbush", "command"}
          /\ \A i \in 2..(L - 1) : prog[c[i]] \in {"init", "sbush"}
                                   /\ (c[i] # running => c[i] \in saved /\ pc[c[i]] = "main")
          /\ \A q \in PCBs : q > npcb => pc[q] = "main"
      BY <1>5 DEF InvOf, WaitInv
    <2>2. first_process \in 1..npcb /\ first_process # running
      BY <1>4, <1>5, RingFacts
    <2>3. prog'[first_process] = "kernel" /\ pc'[first_process] = "main"
      BY <1>7, <1>14, <2>1, <2>2
    <2>4. \A i \in 1..L : a[i] = c[i] /\ c[i] \in PCBs /\ c[i] \in 1..npcb /\ c[i] # p
      BY <1>5, <1>7, <1>12, RingFacts
    <2>5. ASSUME NEW i \in 2..(L + 1) PROVE prog'[a[i]] \in {"init", "sbush", "command"}
      <3>1. (i \in 2..L /\ i \in 1..L) \/ i = L + 1
        BY <1>5
      <3> QED BY <1>3, <1>7, <1>12, <2>1, <2>4, <3>1
    <2>6. ASSUME NEW i \in 2..L
          PROVE  prog'[a[i]] \in {"init", "sbush"} /\ (a[i] # running => a[i] \in saved /\ pc'[a[i]] = "main")
      <3>1. i \in 1..L /\ (i \in 2..(L - 1) \/ i = L)
        BY <1>5
      <3>2. a[i] = c[i] /\ prog'[a[i]] = prog[c[i]] /\ (c[i] # running => pc'[a[i]] = pc[c[i]])
        BY <1>7, <1>14, <2>4, <3>1
      <3>3. CASE i \in 2..(L - 1)
        BY <2>1, <3>2, <3>3
      <3>4. CASE i = L
        BY <1>3, <1>4, <1>5, <3>2, <3>4
      <3> QED BY <3>1, <3>3, <3>4
    <2>7. \A q \in PCBs : q > npcb' => pc'[q] = "main"
      <3>1. npcb \in Nat /\ running \in Nat /\ running <= npcb
        BY <1>0, <1>4 DEF Types, PCBs
      <3>2. ASSUME NEW q \in PCBs, q > npcb + 1 PROVE q # p /\ q # running /\ q > npcb
        BY <1>7, <3>1, <3>2 DEF PCBs
      <3> QED BY <1>7, <1>14, <2>1, <3>2
    <2>8. 2..Len(a) = 2..(L + 1) /\ 2..(Len(a) - 1) = 2..L
      BY <1>5, <1>12
    <2> QED BY <1>10, <2>3, <2>5, <2>6, <2>7, <2>8 DEF WaitInv
  <1> HIDE DEF a
  <1>18. InvOf(a, s, t)'
    BY <1>11, <1>15, <1>16, <1>17 DEF InvOf
  <1> QED BY <1>1, <1>18 DEF a

\* wait finds the child behind its caller, so the CPU follows curr_process.
LEMMA WaitKeeps ==
    ASSUME NEW c, NEW s, NEW t, InvOf(c, s, t), Wait
    PROVE  InvOf(c, s, t)' /\ running = c[Len(c) - 1] /\ running' = c[Len(c)] /\ Len(c) > 2
  <1>0. Types
    BY DEF InvOf
  <1>1. pc[running] = "forked"
    BY DEF Wait, Waits, At
  <1>2. PICK L \in 1..MaxPcb : L = Len(c)
    BY RingFacts
  <1>3. /\ running = curr_process /\ L > 2 /\ running = c[L - 1]
        /\ ret[running] = pid[c[L]] /\ pc[c[L]] = "child"
    BY <1>1, <1>2 DEF InvOf, RunInv
  <1>4. L \in Nat /\ L \in 1..L /\ L - 1 \in 1..(L - 1) /\ L - 1 \in 1..L /\ (L - 1) + 1 = L /\ L > 1
    BY <1>2, <1>3, Numbers
  <1>5. next_proc[curr_process] = c[L]
    BY <1>2, <1>3, <1>4, RingFacts DEF Linked
  <1>6. c[L] \in PCBs /\ running \in PCBs /\ c[L] # running
    BY <1>2, <1>3, <1>4, RingFacts
  <1>7. /\ curr_process' = c[L] /\ running' = c[L] /\ saved' = saved \cup {running}
        /\ pc' = [pc EXCEPT ![running] = "main"]
        /\ UNCHANGED <<npcb, processID, pid, ppid, next_proc, stopped_process,
                       forked_process, freed, prog, ret, cpu>>
    BY <1>3, <1>5 DEF Wait, Blocked
  <1>8. /\ pc' \in [PCBs -> Labels] /\ pc'[running] = "main"
        /\ \A q \in PCBs : q # running => pc'[q] = pc[q]
    BY <1>0, <1>6, <1>7 DEF Types, Labels
  <1>9. Types'
    BY <1>0, <1>6, <1>7, <1>8 DEF Types
  <1>10. Lists(c, s, t)' /\ Places(c, s, t)' /\ PidInv(c)' /\ ParentInv(c)'
    BY <1>7 DEF InvOf, Lists, Places, NoneRefused, PidInv, Apart, ParentInv
  <1>11. RunInv(c)'
    BY <1>2, <1>3, <1>6, <1>7, <1>8 DEF RunInv
  <1>12. WaitInv(c)'
    <2>1. /\ prog[first_process] = "kernel" /\ pc[first_process] = "main"
          /\ \A i \in 2..L : prog[c[i]] \in {"init", "sbush", "command"}
          /\ \A i \in 2..(L - 1) : prog[c[i]] \in {"init", "sbush"}
                                   /\ (c[i] # running => c[i] \in saved /\ pc[c[i]] = "main")
          /\ \A q \in PCBs : q > npcb => pc[q] = "main"
      BY <1>2 DEF InvOf, WaitInv
    <2>2. \A i \in 2..(L - 1) : c[i] \in PCBs
      <3>1. \A i \in 2..(L - 1) : i \in 1..L
        BY <1>4
      <3> QED BY <1>2, <3>1, RingFacts
    <2>3. \A i \in 2..(L - 1) : c[i] \in saved' /\ pc'[c[i]] = "main"
      BY <1>7, <1>8, <2>1, <2>2
    <2>4. pc'[first_process] = "main" /\ \A q \in PCBs : q > npcb => pc'[q] = "main"
      BY <1>8, <2>1, Numbers
    <2> QED BY <1>2, <1>7, <2>1, <2>3, <2>4 DEF WaitInv
  <1>13. InvOf(c, s, t)'
    BY <1>9, <1>10, <1>11, <1>12 DEF InvOf
  <1> QED BY <1>2, <1>3, <1>7, <1>13

\* kill(1) only stops the CPU.
LEMMA KillKernelKeeps ==
    ASSUME NEW c, NEW s, NEW t, InvOf(c, s, t), KillKernel
    PROVE  InvOf(c, s, t)'
  <1>1. Types'
    BY DEF InvOf, Types, KillKernel
  <1>2. Lists(c, s, t)' /\ Places(c, s, t)' /\ PidInv(c)' /\ ParentInv(c)'
    BY DEF InvOf, Lists, Places, NoneRefused, PidInv, Apart, ParentInv, KillKernel
  <1>3. RunInv(c)' /\ WaitInv(c)'
    BY DEF InvOf, RunInv, WaitInv, KillKernel
  <1> QED BY <1>1, <1>2, <1>3 DEF InvOf

\* The ring closed over its i-th process, which nothing else is linked to.
LEMMA RingShrinks ==
    ASSUME NEW c, NEW s, NEW t, InvOf(c, s, t), NEW i \in 2..Len(c), NEW g \in Maps,
           g[c[i - 1]] = next_proc[c[i]],
           \A q \in 1..npcb : q # c[i - 1] /\ q # c[i] => g[q] = next_proc[q]
    PROVE  /\ Without(c, i) \in Seq(PCBs) /\ IsRing(g, Without(c, i))
           /\ Linked(g, Without(c, i), first_process)
           /\ IsList(g, stopped_process, s) /\ IsList(g, forked_process, t)
           /\ ToSet(Without(c, i)) = ToSet(c) \ {c[i]}
           /\ DOMAIN Without(c, i) = 1..(Len(c) - 1) /\ Len(Without(c, i)) = Len(c) - 1
           /\ \A j \in 1..(Len(c) - 1) : Without(c, i)[j] = IF j < i THEN c[j] ELSE c[j + 1]
  <1> DEFINE w == Without(c, i)
  <1>1. PICK L \in Nat : L = Len(c) /\ L > 1 /\ i \in 1..L /\ i - 1 \in 1..L
    <2>1. PICK L \in 1..MaxPcb : L = Len(c)
      BY RingFacts
    <2>2. L \in Nat /\ L > 1 /\ i \in 1..L /\ i - 1 \in 1..L
      BY <2>1, Numbers
    <2> QED BY <2>1, <2>2
  <1>2. /\ Linked(next_proc, c, first_process) /\ c[1] = first_process
        /\ \A j \in 1..L : c[j] \in 1..npcb /\ c[j] \in ToSet(c)
        /\ \A j, k \in 1..L : c[j] = c[k] => j = k
        /\ ToSet(s) \subseteq 1..npcb /\ ToSet(t) \subseteq 1..npcb
        /\ IsList(next_proc, stopped_process, s) /\ IsList(next_proc, forked_process, t)
    BY <1>1, RingFacts
  <1>3. Closes(g, next_proc, c, i)
    BY <1>1, <1>2 DEF Closes
  <1>4. /\ Linked(g, w, first_process) /\ ToSet(w) = ToSet(c) \ {c[i]}
        /\ w # <<>> /\ w[1] = first_process /\ Len(w) = Len(c) - 1
        /\ \A j \in 1..(Len(c) - 1) : w[j] = IF j < i THEN c[j] ELSE c[j + 1]
    <2>1. Linked(g, w, first_process) /\ LeavesOut(w, c, i)
      BY <1>2, <1>3, LinkedShorter
    <2> QED BY <1>2, <2>1 DEF LeavesOut
  <1>5. ToSet(c) \cap (ToSet(s) \cup ToSet(t)) = {}
    BY DEF InvOf, Places
  <1>6. IsList(g, stopped_process, s)
    <2>1. \A q \in ToSet(s) : g[q] = next_proc[q]
      BY <1>1, <1>2, <1>5
    <2> QED BY <1>2, <2>1, ListSame
  <1>7. IsList(g, forked_process, t)
    <2>1. \A q \in ToSet(t) : g[q] = next_proc[q]
      BY <1>1, <1>2, <1>5
    <2> QED BY <1>2, <2>1, ListSame
  <1>8. w \in Seq(PCBs) /\ DOMAIN w = 1..Len(w)
    BY <1>4, LinkedIs
  <1> QED BY <1>4, <1>6, <1>7, <1>8 DEF IsRing

\* The first k PCBs of c.
FirstOf(c, k) == [j \in 1..k |-> c[j]]

\* The ring cut off behind its k-th process.
LEMMA RingCut ==
    ASSUME NEW c, NEW s, NEW t, InvOf(c, s, t), NEW k \in 1..(Len(c) - 1), NEW g \in Maps,
           g[c[k]] = first_process,
           \A q \in 1..npcb : q # c[k] /\ q # c[Len(c)] => g[q] = next_proc[q]
    PROVE  /\ FirstOf(c, k) \in Seq(PCBs) /\ IsRing(g, FirstOf(c, k))
           /\ IsList(g, stopped_process, s) /\ IsList(g, forked_process, t)
           /\ ToSet(FirstOf(c, k)) \subseteq ToSet(c) \ {c[Len(c)]}
           /\ k = Len(c) - 1 => ToSet(c) \ {c[Len(c)]} \subseteq ToSet(FirstOf(c, k))
           /\ DOMAIN FirstOf(c, k) = 1..k /\ Len(FirstOf(c, k)) = k
           /\ \A j \in 1..k : FirstOf(c, k)[j] = c[j]
  <1> DEFINE w == FirstOf(c, k)
  <1>1. PICK L \in Nat : /\ L = Len(c) /\ L > 1 /\ L \in 1..L /\ k \in 1..(L - 1) /\ k \in Nat /\ k < L
                         /\ \A j \in 1..k : j \in 1..L /\ j # L
    <2>1. PICK L \in 1..MaxPcb : L = Len(c)
      BY RingFacts
    <2>2. /\ L \in Nat /\ L > 1 /\ L \in 1..L /\ k \in 1..(L - 1) /\ k \in Nat /\ k < L
          /\ \A j \in 1..k : j \in 1..L /\ j # L
      BY <2>1, Numbers
    <2> QED BY <2>1, <2>2
  <1>2. /\ Linked(next_proc, c, first_process) /\ c[1] = first_process
        /\ \A j \in 1..L : c[j] \in PCBs /\ c[j] \in 1..npcb /\ c[j] \in ToSet(c)
        /\ \A i, j \in 1..L : c[i] = c[j] => i = j
        /\ ToSet(s) \subseteq 1..npcb /\ ToSet(t) \subseteq 1..npcb
        /\ IsList(next_proc, stopped_process, s) /\ IsList(next_proc, forked_process, t)
    BY <1>1, RingFacts
  <1>3. /\ w \in Seq(PCBs) /\ DOMAIN w = 1..k /\ Len(w) = k /\ \A j \in 1..k : w[j] = c[j]
    <2>1. \A j \in 1..k : c[j] \in PCBs
      BY <1>1, <1>2
    <2> QED BY <1>1, <2>1 DEF FirstOf
  <1> HIDE DEF w
  <1>4. Linked(g, w, first_process)
    <2>1. ASSUME NEW j \in 1..(k - 1) PROVE g[w[j]] = w[j + 1]
      <3>1. j \in 1..k /\ j + 1 \in 1..k /\ j \in 1..(L - 1) /\ j # k /\ j \in 1..L /\ j # L /\ k \in 1..L
        BY <1>1
      <3>2. next_proc[c[j]] = c[j + 1]
        BY <1>1, <1>2, <3>1 DEF Linked
      <3>3. c[j] # c[k] /\ c[j] # c[L] /\ c[j] \in 1..npcb
        BY <1>1, <1>2, <3>1
      <3> QED BY <1>1, <1>3, <3>1, <3>2, <3>3
    <2>2. \A i, j \in 1..k : w[i] = w[j] => i = j
      BY <1>1, <1>2, <1>3
    <2>3. g[w[k]] = first_process
      BY <1>1, <1>3
    <2> QED BY <1>3, <2>1, <2>2, <2>3 DEF Linked
  <1>5. IsRing(g, w)
    <2>1. 1 \in 1..k /\ k # 0
      BY <1>1
    <2> QED BY <1>2, <1>3, <1>4, <2>1 DEF IsRing
  <1>6. ToSet(c) \cap (ToSet(s) \cup ToSet(t)) = {} /\ c[k] \in ToSet(c) /\ c[L] \in ToSet(c)
    <2>1. k \in 1..L
      BY <1>1
    <2> QED BY <1>1, <1>2, <2>1 DEF InvOf, Places
  <1>7. IsList(g, stopped_process, s)
    <2>1. \A q \in ToSet(s) : g[q] = next_proc[q]
      BY <1>1, <1>2, <1>6
    <2> QED BY <1>2, <2>1, ListSame
  <1>8. IsList(g, forked_process, t)
    <2>1. \A q \in ToSet(t) : g[q] = next_proc[q]
      BY <1>1, <1>2, <1>6
    <2> QED BY <1>2, <2>1, ListSame
  <1>9. \A p : p \in ToSet(w) <=> \E j \in 1..k : p = c[j]
    <2>1. \A p : p \in ToSet(w) <=> \E j \in 1..k : p = w[j]
      BY <1>3, <1>4, LinkedIs
    <2> QED BY <1>3, <2>1
  <1>10. \A p : p \in ToSet(c) <=> \E j \in 1..L : p = c[j]
    BY <1>1, <1>2, LinkedIs
  <1>11. ToSet(w) \subseteq ToSet(c) \ {c[L]}
    BY <1>1, <1>2, <1>9
  <1>12. k = L - 1 => ToSet(c) \ {c[L]} \subseteq ToSet(w)
    <2> SUFFICES ASSUME k = L - 1, NEW j \in 1..L, c[j] # c[L] PROVE c[j] \in ToSet(w)
      BY <1>10
    <2>1. j \in 1..k
      <3>1. j # L
        OBVIOUS
      <3> QED BY <1>1, <3>1
    <2> QED BY <1>9, <2>1
  <1> QED BY <1>1, <1>3, <1>5, <1>7, <1>8, <1>11, <1>12 DEF w

\* The last process and all from the first with its pid on leave the ring, and the
\* one before these runs on; as long as no pid was refused only the last one leaves.
LEMMA ExitKeeps ==
    ASSUME NEW c, NEW s, NEW t, InvOf(c, s, t), SysExit
    PROVE  \E k \in 1..(Len(c) - 1) : \E u :
              /\ InvOf(FirstOf(c, k), u, <<>>)' /\ Len(c) > 1 /\ running = c[Len(c)]
              /\ running' = c[k] /\ cpu' = "ok"
              /\ NoneRefused => k = Len(c) - 1
  <1> DEFINE prev == Predecessor
             f == [next_proc EXCEPT ![prev] = first_process]
  <1>0. Types
    BY DEF InvOf
  <1>1. prog[running] \in {"sbush", "command"} /\ pc[running] # "forked"
    BY DEF SysExit, Ends, At
  <1>2. running = c[Len(c)] /\ curr_process = running /\ Len(c) # 1 /\ running \in PCBs
    BY <1>1, WhoRuns
  <1>3. PICK L \in Nat : /\ L = Len(c) /\ L > 1 /\ L \in 1..L /\ L \in 2..L
                         /\ L - 1 \in 1..L /\ L - 1 \in 1..(L - 1)
    <2>1. PICK L \in 1..MaxPcb : L = Len(c)
      BY RingFacts
    <2>2. /\ L \in Nat /\ L > 1 /\ L \in 1..L /\ L \in 2..L
          /\ L - 1 \in 1..L /\ L - 1 \in 1..(L - 1)
      BY <1>2, <2>1, Numbers
    <2> QED BY <2>1, <2>2
  <1>4. /\ next_proc \in Maps /\ Linked(next_proc, c, first_process) /\ c[1] = first_process
        /\ \A i \in 1..L : c[i] \in PCBs /\ c[i] \in 1..npcb /\ c[i] \in ToSet(c)
        /\ \A i, j \in 1..L : c[i] = c[j] => i = j
        /\ Apart(pid, c)
        /\ DOMAIN c = 1..L
    <2>1. L = Len(c) /\ L > 1
      BY <1>3
    <2>2. RingOf(c, s, t, L)
      BY <2>1, LongRing
    <2> QED BY <2>2 DEF RingOf
  <1>p. /\ pid[c[1]] = 1
        /\ \A i, j \in 1..L : pid[c[i]] = pid[c[j]] => i = j \/ pid[c[i]] = NoPid
    BY <1>4 DEF InvOf, PidInv, Apart
  <1>k. PICK k \in 1..(L - 1) : pid[c[k + 1]] = pid[c[L]] /\ \A i \in 1..k : pid[c[i]] # pid[c[L]]
    <2> DEFINE H == {i \in 1..L : pid[c[i]] = pid[c[L]]}
    <2>1. H \subseteq Nat /\ L \in H
      BY <1>3
    <2>2. PICK m \in H : \A i \in H : m <= i
      <3> HIDE DEF H
      <3> QED BY <2>1, LeastNumber
    <2>3. m # 1
      <3> SUFFICES ASSUME m = 1 PROVE FALSE
        OBVIOUS
      <3>1. pid[c[L]] = 1 /\ 1 \in 1..L /\ L # 1
        BY <1>3, <1>p, <2>2
      <3> QED BY <1>3, <1>p, <3>1 DEF NoPid
    <2>4. m - 1 \in 1..(L - 1) /\ (m - 1) + 1 = m /\ \A i \in 1..(m - 1) : i \in 1..L /\ ~(m <= i)
      BY <1>3, <2>2, <2>3
    <2> QED BY <2>2, <2>4
  <1>l. k \in 1..L /\ k # L /\ k + 1 \in 1..L /\ k \in 1..(Len(c) - 1)
    BY <1>3
  <1>5. prev = c[k]
    <2>1. AfterSteps(next_proc, curr_process,
                     StepsBeforePid(next_proc, curr_process, pid, curr_process)) = c[k]
      <3>1. /\ next_proc \in Maps /\ Linked(next_proc, c, c[1]) /\ curr_process = c[Len(c)]
            /\ pid[c[k + 1]] = pid[curr_process] /\ \A i \in 1..k : pid[c[i]] # pid[curr_process]
        BY <1>2, <1>3, <1>4, <1>k
      <3> QED BY <1>l, <3>1, FindBeforePid
    <2> QED BY <2>1 DEF Predecessor, Find, AfterSteps, StepsBeforePid
  <1>6. /\ next_proc' = [f EXCEPT ![curr_process] = NULL]
        /\ freed' = freed \cup Release(f)
        /\ stopped_process' = curr_process /\ forked_process' = NULL
        /\ curr_process' = prev /\ running' = prev /\ saved' = saved \ {prev}
        /\ cpu' = IF pid[prev] = 1 \/ prev \in saved THEN "ok" ELSE "stack"
        /\ UNCHANGED <<npcb, processID, pid, ppid, prog, pc, ret>>
    BY DEF SysExit
  <1> HIDE DEF prev
  <1>7. prev \in PCBs /\ prev # running /\ prev \in ToSet(c) /\ prev \in 1..npcb
    BY <1>2, <1>3, <1>4, <1>5, <1>l
  <1>8. /\ f \in Maps /\ f[prev] = first_process /\ \A q \in PCBs : q # prev => f[q] = next_proc[q]
    BY <1>4, <1>7, Numbers DEF Maps
  <1> HIDE DEF f
  <1>9. /\ next_proc' \in Maps /\ next_proc'[running] = NULL /\ next_proc'[prev] = first_process
        /\ \A q \in PCBs : q # prev /\ q # running => next_proc'[q] = next_proc[q]
    BY <1>2, <1>6, <1>7, <1>8 DEF Maps
  <1>11. \A q \in 1..npcb : q \in PCBs
    BY <1>0, Numbers DEF Types, PCBs
  <1> DEFINE w == FirstOf(c, k)
  <1>12. /\ w \in Seq(PCBs) /\ IsRing(next_proc', w) /\ ToSet(w) \subseteq ToSet(c) \ {c[L]}
         /\ k = L - 1 => ToSet(c) \ {c[L]} \subseteq ToSet(w)
         /\ DOMAIN w = 1..k /\ Len(w) = k /\ \A j \in 1..k : w[j] = c[j]
    <2>1. /\ next_proc' \in Maps /\ next_proc'[c[k]] = first_process
          /\ \A q \in 1..npcb : q # c[k] /\ q # c[Len(c)] => next_proc'[q] = next_proc[q]
      BY <1>2, <1>5, <1>9, <1>11
    <2> HIDE DEF w
    <2>2. /\ FirstOf(c, k) \in Seq(PCBs) /\ IsRing(next_proc', FirstOf(c, k))
          /\ ToSet(FirstOf(c, k)) \subseteq ToSet(c) \ {c[Len(c)]}
          /\ k = Len(c) - 1 => ToSet(c) \ {c[Len(c)]} \subseteq ToSet(FirstOf(c, k))
          /\ DOMAIN FirstOf(c, k) = 1..k /\ Len(FirstOf(c, k)) = k
          /\ \A j \in 1..k : FirstOf(c, k)[j] = c[j]
      BY <1>l, <2>1, RingCut
    <2> QED BY <1>3, <2>2 DEF w
  <1>13. Release(f) = ToSet(s) \cup ToSet(t)
    <2>1. f[c[k]] = first_process /\ \A q \in 1..npcb : q # c[k] /\ q # c[Len(c)] => f[q] = next_proc[q]
      BY <1>5, <1>8, <1>11
    <2>2. IsList(f, stopped_process, s) /\ IsList(f, forked_process, t)
      BY <1>l, <1>8, <2>1, RingCut
    <2>3. Nodes(f, stopped_process) = ToSet(s) /\ Nodes(f, forked_process) = ToSet(t)
      BY <1>8, <2>2, ListNodes
    <2> QED BY <2>3 DEF Release
  <1>r. PICK r \in PCBs : r = running
    BY <1>2
  <1>14. /\ <<r>> \in Seq(PCBs) /\ <<>> \in Seq(PCBs)
         /\ ToSet(<<r>>) = {r} /\ ToSet(<<>>) = {}
    BY DEF ToSet
  <1>15. Lists(w, <<r>>, <<>>)'
    <2>1. IsList(next_proc', r, <<r>>)
      BY <1>r, <1>9, <1>14 DEF IsList, Linked
    <2>2. IsList(next_proc', NULL, <<>>)
      BY <1>14 DEF IsList, Linked
    <2> QED BY <1>r, <1>2, <1>6, <1>12, <2>1, <2>2 DEF Lists
  <1>n. NoneRefused => k = L - 1
    <2> SUFFICES ASSUME NoneRefused PROVE k = L - 1
      OBVIOUS
    <2>1. pid[c[k + 1]] # NoPid /\ L \in 1..L
      BY <1>3, <1>4, <1>l DEF NoneRefused
    <2>2. k + 1 = L
      BY <1>k, <1>l, <1>p, <2>1
    <2> QED BY <1>3, <2>2
  <1>16. Places(w, <<r>>, <<>>)'
    <2>1. /\ ToSet(c) \cap (ToSet(s) \cup ToSet(t) \cup freed) = {}
          /\ ToSet(c) \cup ToSet(s) \cup ToSet(t) \cup freed \subseteq 1..npcb
          /\ NoneRefused => 1..npcb \subseteq ToSet(c) \cup ToSet(s) \cup ToSet(t) \cup freed
      BY DEF InvOf, Places
    <2>2. freed' = freed \cup ToSet(s) \cup ToSet(t) /\ npcb' = npcb /\ (NoneRefused' <=> NoneRefused)
      BY <1>6, <1>13 DEF NoneRefused
    <2>3. ToSet(w) \subseteq ToSet(c) \ {r} /\ r \in ToSet(c) /\ (NoneRefused => ToSet(c) \ {r} \subseteq ToSet(w))
      BY <1>n, <1>r, <1>2, <1>3, <1>4, <1>12
    <2> HIDE DEF w
    <2> QED BY <1>14, <2>1, <2>2, <2>3 DEF Places
  <1> HIDE DEF w
  <1>17. \A i \in 1..k : i \in 1..L /\ i # L /\ w[i] = c[i]
    BY <1>3, <1>12
  <1>18. PidInv(w)'
    <2>1. Apart(pid, w)
      <3> DEFINE h == [i \in 1..k |-> i]
      <3>1. \A i \in DOMAIN w : h[i] \in DOMAIN c /\ h[i] = i /\ pid[w[i]] = pid[c[h[i]]]
        BY <1>4, <1>12, <1>17
      <3> HIDE DEF h
      <3> QED BY <1>4, <3>1, ApartStays
    <2>2. pid' = pid /\ npcb' = npcb /\ processID' = processID
      BY <1>6
    <2> QED BY <2>1, <2>2 DEF InvOf, PidInv, Apart
  <1>19. ParentInv(w)'
    <2>1. ASSUME NEW i \in 1..k
          PROVE  \E j \in 1..k : (j < i \/ j = 1) /\ pid[w[j]] = ppid[w[i]]
      <3>1. PICK j \in 1..L : (j < i \/ j = 1) /\ pid[c[j]] = ppid[c[i]]
        BY <1>4, <1>17 DEF InvOf, ParentInv
      <3>2. j \in 1..k
        BY <1>3, <3>1
      <3> QED BY <1>17, <3>1, <3>2
    <2> QED BY <1>6, <1>12, <2>1 DEF ParentInv
  <1>20. /\ prog[first_process] = "kernel" /\ pc[first_process] = "main"
         /\ \A i \in 2..L : prog[c[i]] \in {"init", "sbush", "command"}
         /\ \A i \in 2..(L - 1) : prog[c[i]] \in {"init", "sbush"}
                                  /\ (c[i] # running => c[i] \in saved /\ pc[c[i]] = "main")
         /\ \A q \in PCBs : q > npcb => pc[q] = "main"
    BY <1>3 DEF InvOf, WaitInv
  <1>21. (prev = first_process \/ prev \in saved) /\ pc[prev] = "main"
    <2>1. CASE k = 1
      BY <1>4, <1>5, <1>20, <2>1
    <2>2. CASE k # 1
      <3>1. k \in 2..(L - 1)
        BY <1>3, <2>2
      <3> QED BY <1>5, <1>7, <1>20, <3>1
    <2> QED BY <2>1, <2>2
  <1>22. cpu' = "ok"
    BY <1>6, <1>21 DEF InvOf, PidInv
  <1>23. Types'
    BY <1>0, <1>6, <1>9, <1>22 DEF Types, Maps
  <1>24. RunInv(w)'
    <2>1. w[Len(w)] = prev
      BY <1>3, <1>5, <1>12
    <2> QED BY <1>6, <1>21, <2>1 DEF RunInv
  <1>25. WaitInv(w)'
    <2>1. \A i \in 2..k : i \in 2..L /\ i \in 1..k
      BY <1>3
    <2>2. \A i \in 2..(k - 1) : i \in 2..(L - 1) /\ i # k /\ i \in 1..k /\ k \in 1..L
      BY <1>3
    <2>3. ASSUME NEW i \in 2..(k - 1)
          PROVE  prog[w[i]] \in {"init", "sbush"} /\ w[i] \in saved \ {prev} /\ pc[w[i]] = "main"
      <3>1. c[i] # running /\ c[i] # prev
        BY <1>2, <1>3, <1>4, <1>5, <1>17, <2>2
      <3> QED BY <1>17, <1>20, <2>2, <3>1
    <2>4. \A i \in 2..k : prog[w[i]] \in {"init", "sbush", "command"}
      BY <1>17, <1>20, <2>1
    <2> QED BY <1>6, <1>12, <1>20, <2>3, <2>4 DEF WaitInv
  <1>26. InvOf(w, <<r>>, <<>>)'
    BY <1>15, <1>16, <1>18, <1>19, <1>23, <1>24, <1>25 DEF InvOf
  <1> QED BY <1>l, <1>n, <1>2, <1>3, <1>5, <1>6, <1>22, <1>26 DEF w

\* The new PCB takes the place of the last one of the ring.
LEMMA ExecveKeeps ==
    ASSUME NEW c, NEW s, NEW t, InvOf(c, s, t), NEW g \in {"sbush", "command"}, Execve(g)
    PROVE  \E a, u : /\ InvOf(a, s, u)' /\ Len(a) = Len(c) /\ pid'[running'] = pid[running]
                    /\ \A i \in 1..Len(c) : pid'[a[i]] = pid[c[i]]
  <1> DEFINE prev == Find(next_proc, curr_process, LAMBDA q : next_proc[q] = curr_process)
             new == npcb + 1
             f == [next_proc EXCEPT ![prev] = new, ![new] = next_proc[curr_process]]
             e == [next_proc EXCEPT ![prev] = first_process]
  <1>0. Types
    BY DEF InvOf
  <1>1. prog[running] \in {"init", "sbush"} /\ pc[running] = "child"
    BY DEF Execve, Becomes, At
  <1>2. running = c[Len(c)] /\ curr_process = running /\ Len(c) # 1 /\ running \in PCBs
        /\ running \in 1..npcb
    BY <1>1, WhoRuns
  <1>3. PICK L \in Nat : /\ L = Len(c) /\ L > 1 /\ L \in 1..L /\ L \in 2..L
                         /\ L - 1 \in 1..L /\ L - 1 \in 1..(L - 1)
    <2>1. PICK L \in 1..MaxPcb : L = Len(c)
      BY RingFacts
    <2>2. /\ L \in Nat /\ L > 1 /\ L \in 1..L /\ L \in 2..L
          /\ L - 1 \in 1..L /\ L - 1 \in 1..(L - 1)
      BY <1>2, <2>1, Numbers
    <2> QED BY <2>1, <2>2
  <1>4. /\ next_proc \in Maps /\ Linked(next_proc, c, first_process) /\ c[1] = first_process
        /\ \A i \in 1..L : c[i] \in PCBs /\ c[i] \in 1..npcb /\ c[i] \in ToSet(c)
        /\ \A i, j \in 1..L : c[i] = c[j] => i = j
        /\ Apart(pid, c)
        /\ DOMAIN c = 1..L /\ ToSet(s) \subseteq 1..npcb /\ ToSet(t) \subseteq 1..npcb
    <2>1. L = Len(c) /\ L > 1
      BY <1>3
    <2>2. RingOf(c, s, t, L)
      BY <2>1, LongRing
    <2> QED BY <2>2 DEF RingOf
  <1>5. prev = c[L - 1]
    <2>1. curr_process = c[Len(c)] /\ Len(c) > 1 /\ Linked(next_proc, c, c[1])
      BY <1>2, <1>3, <1>4
    <2>2. AfterSteps(next_proc, curr_process,
                     StepsBefore(next_proc, curr_process, curr_process)) = c[Len(c) - 1]
      BY <1>4, <2>1, FindBefore
    <2> QED BY <1>3, <2>2 DEF Find, AfterSteps, StepsBefore
  <1>6. /\ new \in PCBs /\ npcb' = new
        /\ pid' = [pid EXCEPT ![new] = pid[curr_process]]
        /\ ppid' = [ppid EXCEPT ![new] = ppid[curr_process]]
        /\ prog' = [prog EXCEPT ![new] = g]
        /\ next_proc' = AppendNext(f, forked_process, curr_process)
        /\ forked_process' = AppendHead(forked_process, curr_process)
        /\ curr_process' = new /\ running' = new
        /\ UNCHANGED <<processID, stopped_process, saved, freed, pc, ret, cpu>>
    BY DEF Execve, Replaced
  <1> HIDE DEF prev
  <1>7. prev \in PCBs /\ prev # running /\ prev \in ToSet(c) /\ prev \in 1..npcb
    BY <1>2, <1>3, <1>4, <1>5
  <1>8. npcb \in Nat /\ new \notin 1..npcb /\ 1..new = (1..npcb) \cup {new} /\ \A q \in 1..npcb : q \in PCBs
    BY <1>0, Numbers DEF Types, PCBs
  <1> HIDE DEF new
  <1>9. next_proc[running] = first_process
    BY <1>2, <1>3, <1>4 DEF Linked
  <1>10. /\ f \in Maps /\ f[prev] = new /\ f[new] = first_process
         /\ \A q \in PCBs : q # prev /\ q # new => f[q] = next_proc[q]
    BY <1>2, <1>4, <1>6, <1>7, <1>8, <1>9, Numbers DEF Maps
  <1>11. /\ e \in Maps /\ e[prev] = first_process /\ \A q \in PCBs : q # prev => e[q] = next_proc[q]
    BY <1>4, <1>7, Numbers DEF Maps
  <1> HIDE DEF e, f
  <1>r. PICK r \in PCBs, m \in PCBs : r = running /\ m = new
    BY <1>2, <1>6
  <1> DEFINE w == Without(c, L)
             a == Append(w, m)
             u == Append(t, r)
  <1>12. /\ w \in Seq(PCBs) /\ Linked(e, w, first_process) /\ ToSet(w) = ToSet(c) \ {c[L]}
         /\ Len(w) = L - 1 /\ \A j \in 1..(L - 1) : w[j] = c[j]
    <2>1. L \in 2..Len(c) /\ e[c[L - 1]] = next_proc[c[L]]
      BY <1>2, <1>3, <1>5, <1>9, <1>11
    <2>2. \A q \in 1..npcb : q # c[L - 1] /\ q # c[L] => e[q] = next_proc[q]
      BY <1>5, <1>8, <1>11
    <2>3. /\ w \in Seq(PCBs) /\ Linked(e, w, first_process) /\ ToSet(w) = ToSet(c) \ {c[L]}
          /\ Len(w) = Len(c) - 1
          /\ \A j \in 1..(Len(c) - 1) : w[j] = IF j < L THEN c[j] ELSE c[j + 1]
      BY <1>11, <2>1, <2>2, RingShrinks
    <2>4. \A j \in 1..(L - 1) : j < L
      BY <1>3
    <2> QED BY <1>3, <2>3, <2>4
  <1> HIDE DEF w
  <1>13. /\ a \in Seq(PCBs) /\ Linked(f, a, first_process)
         /\ ToSet(a) = (ToSet(c) \ {r}) \cup {m} /\ Len(a) = L /\ DOMAIN a = 1..L /\ a # <<>>
         /\ a[L] = m /\ \A j \in 1..(L - 1) : a[j] = c[j]
    <2>1. m \notin ToSet(w)
      BY <1>r, <1>4, <1>8, <1>12, RingFacts
    <2>2. Prolongs(f, e, w, m)
      <3>1. \A j \in 1..(Len(w) - 1) : f[w[j]] = e[w[j]]
        <4> TAKE j \in 1..(Len(w) - 1)
        <4>1. j \in 1..(L - 1) /\ j \in 1..L /\ j # L - 1
          BY <1>3, <1>12
        <4>2. w[j] = c[j] /\ c[j] \in PCBs /\ c[j] \in 1..npcb
          BY <1>4, <1>12, <4>1
        <4>3. c[j] # prev
          BY <1>3, <1>4, <1>5, <4>1
        <4>4. c[j] # new
          BY <1>8, <4>2
        <4> QED BY <1>10, <1>11, <4>2, <4>3, <4>4
      <3>2. f[w[Len(w)]] = m
        BY <1>r, <1>3, <1>5, <1>10, <1>12
      <3> QED BY <3>1, <3>2 DEF Prolongs
    <2>3. /\ Linked(f, a, f[m]) /\ ToSet(a) = ToSet(w) \cup {m} /\ a # <<>>
          /\ Len(a) = Len(w) + 1 /\ a[Len(w) + 1] = m
          /\ \A i \in 1..Len(w) : a[i] = w[i]
      <3>1. Linked(e, w, first_process)
        BY <1>12
      <3> HIDE DEF a
      <3>2. /\ Linked(f, Append(w, m), f[m]) /\ ToSet(Append(w, m)) = ToSet(w) \cup {m}
            /\ Append(w, m) # <<>>
            /\ Len(Append(w, m)) = Len(w) + 1 /\ Append(w, m)[Len(w) + 1] = m
            /\ \A i \in 1..Len(w) : Append(w, m)[i] = w[i]
        BY <2>1, <2>2, <3>1, LinkedLonger
      <3> QED BY <3>2 DEF a
    <2>4. L = (L - 1) + 1
      BY <1>3
    <2>5. Len(w) + 1 = L /\ c[L] = r /\ f[m] = first_process
      BY <1>r, <1>2, <1>3, <1>10, <1>12, <2>4
    <2> HIDE DEF a
    <2>6. a \in Seq(PCBs) /\ DOMAIN a = 1..Len(a)
      BY <2>3, LinkedIs
    <2> QED BY <1>12, <2>3, <2>5, <2>6
  <1>14. /\ next_proc' \in Maps /\ IsList(next_proc', AppendHead(forked_process, r), u)
         /\ \A q \in PCBs : q \notin ToSet(t) \cup {r} => next_proc'[q] = f[q]
         /\ ToSet(u) = ToSet(t) \cup {r}
    <2>1. \A q \in ToSet(t) : f[q] = next_proc[q]
      BY <1>4, <1>7, <1>8, <1>10 DEF InvOf, Places
    <2>2. IsList(f, forked_process, t)
      BY <2>1, RingFacts, ListSame
    <2>3. r \notin ToSet(t)
      BY <1>r, <1>2, <1>3, <1>4 DEF InvOf, Places
    <2>4. next_proc' = AppendNext(f, forked_process, r)
      BY <1>r, <1>2, <1>6
    <2> QED BY <1>10, <2>2, <2>3, <2>4, ListLonger
  <1>15. ToSet(c) \cap (ToSet(s) \cup ToSet(t) \cup freed) = {} /\ ToSet(s) \cap (ToSet(t) \cup freed) = {}
         /\ ToSet(t) \cap freed = {} /\ ToSet(c) \cup ToSet(s) \cup ToSet(t) \cup freed \subseteq 1..npcb
         /\ r \in ToSet(c) /\ m \notin 1..npcb /\ r \in 1..npcb /\ prev # r
    BY <1>r, <1>2, <1>3, <1>4, <1>7, <1>8 DEF InvOf, Places
  <1>16. Lists(a, s, u)'
    <2>1. \A q \in ToSet(a) : next_proc'[q] = f[q]
      BY <1>4, <1>8, <1>13, <1>14, <1>15
    <2>2. Linked(next_proc', a, first_process)
      BY <1>13, <2>1, LinkedSame
    <2>3. \A q \in ToSet(s) : next_proc'[q] = next_proc[q]
      BY <1>r, <1>4, <1>7, <1>8, <1>10, <1>14, <1>15
    <2>4. IsList(next_proc', stopped_process, s)
      BY <2>3, RingFacts, ListSame
    <2>5. a[1] = first_process
      <3>1. 1 \in 1..(L - 1)
        BY <1>3
      <3> QED BY <1>4, <1>13, <3>1
    <2>6. IsRing(next_proc', a)
      BY <1>13, <2>2, <2>5 DEF IsRing
    <2>7. forked_process' = AppendHead(forked_process, r)
      BY <1>r, <1>2, <1>6
    <2> HIDE DEF a, u
    <2> QED BY <1>6, <1>14, <2>4, <2>6, <2>7 DEF Lists
  <1>17. /\ pid' \in [PCBs -> Int] /\ ppid' \in [PCBs -> Int] /\ prog' \in [PCBs -> Programs]
         /\ pid'[m] = pid[r] /\ ppid'[m] = ppid[r] /\ prog'[m] = g
         /\ \A q \in 1..npcb : pid'[q] = pid[q] /\ ppid'[q] = ppid[q] /\ prog'[q] = prog[q]
    <2>1. pid \in [PCBs -> Int] /\ ppid \in [PCBs -> Int] /\ prog \in [PCBs -> Programs] /\ g \in Programs
      BY <1>0 DEF Types, Programs
    <2> QED BY <1>r, <1>2, <1>6, <1>8, <2>1
  <1>18. Places(a, s, u)'
    <2>1. /\ 1..npcb' = (1..npcb) \cup {m} /\ freed' = freed
          /\ NoneRefused' => NoneRefused
      BY <1>r, <1>6, <1>8, <1>17 DEF NoneRefused
    <2>2. ToSet(a) = (ToSet(c) \ {r}) \cup {m} /\ ToSet(u) = ToSet(t) \cup {r}
      BY <1>13, <1>14
    <2>3. NoneRefused => 1..npcb \subseteq ToSet(c) \cup ToSet(s) \cup ToSet(t) \cup freed
      BY DEF InvOf, Places
    <2> HIDE DEF a, u
    <2> QED BY <1>15, <2>1, <2>2, <2>3 DEF Places
  <1> HIDE DEF a, u
  <1>19. \A i \in 1..L : pid'[a[i]] = pid[c[i]] /\ ppid'[a[i]] = ppid[c[i]]
    <2> TAKE i \in 1..L
    <2>1. i \in 1..(L - 1) \/ i = L
      BY <1>3
    <2>2. CASE i \in 1..(L - 1)
      BY <1>4, <1>13, <1>17, <2>2
    <2>3. CASE i = L
      <3>1. a[i] = m /\ c[i] = r
        BY <1>r, <1>2, <1>3, <1>13, <2>3
      <3> QED BY <1>17, <3>1
    <2> QED BY <2>1, <2>2, <2>3
  <1>20. PidInv(a)'
    <2>1. /\ pid[first_process] = 1
          /\ \A q \in 1..npcb : IF pid[q] = NoPid THEN NextPid(processID) = NoPid
                                                   ELSE pid[q] - 1 \in processID
      BY DEF InvOf, PidInv
    <2>2. first_process \in 1..npcb
      BY <1>3, <1>4, <1>7, RingFacts
    <2>3. \A q \in 1..npcb' : IF pid'[q] = NoPid THEN NextPid(processID') = NoPid
                                                  ELSE pid'[q] - 1 \in processID'
      <3>1. 1..npcb' = (1..npcb) \cup {m} /\ processID' = processID
        BY <1>r, <1>6, <1>8
      <3>2. \A q \in 1..npcb' : \E o \in 1..npcb : pid'[q] = pid[o]
        BY <1>15, <1>17, <3>1
      <3> QED BY <2>1, <3>1, <3>2
    <2>4. Apart(pid', a)
      <3> DEFINE h == [i \in 1..L |-> i]
      <3>1. \A i \in DOMAIN a : h[i] \in DOMAIN c /\ h[i] = i /\ pid'[a[i]] = pid[c[h[i]]]
        BY <1>4, <1>13, <1>19
      <3> HIDE DEF h
      <3> QED BY <1>4, <3>1, ApartStays
    <2>5. pid'[first_process] = 1
      BY <1>17, <2>1, <2>2
    <2> QED BY <2>3, <2>4, <2>5 DEF PidInv
  <1>21. ParentInv(a)'
    <2>1. ASSUME NEW i \in 1..L
          PROVE  \E j \in 1..L : (j < i \/ j = 1) /\ pid'[a[j]] = ppid'[a[i]]
      <3>1. PICK j \in 1..L : (j < i \/ j = 1) /\ pid[c[j]] = ppid[c[i]]
        BY <1>4 DEF InvOf, ParentInv
      <3>2. pid'[a[j]] = ppid'[a[i]]
        BY <1>19, <3>1
      <3> QED BY <3>1, <3>2
    <2> QED BY <1>13, <2>1 DEF ParentInv
  <1>22. /\ prog[first_process] = "kernel" /\ pc[first_process] = "main"
         /\ \A i \in 2..L : prog[c[i]] \in {"init", "sbush", "command"}
         /\ \A i \in 2..(L - 1) : prog[c[i]] \in {"init", "sbush"}
                                  /\ (c[i] # running => c[i] \in saved /\ pc[c[i]] = "main")
         /\ \A q \in PCBs : q > npcb => pc[q] = "main"
    BY <1>3 DEF InvOf, WaitInv
  <1>23. pc[m] = "main" /\ \A q \in PCBs : q > npcb' => pc[q] = "main"
    BY <1>r, <1>6, <1>8, <1>22 DEF PCBs, new
  <1>24. Types'
    BY <1>0, <1>6, <1>14, <1>17 DEF Types, Maps
  <1>25. RunInv(a)'
    BY <1>r, <1>6, <1>13, <1>23 DEF RunInv
  <1>26. WaitInv(a)'
    <2>1. \A i \in 2..(L - 1) : i \in 1..(L - 1) /\ i \in 1..L /\ i # L
      BY <1>3
    <2>2. ASSUME NEW i \in 2..(L - 1)
          PROVE  prog'[a[i]] \in {"init", "sbush"} /\ a[i] \in saved /\ pc[a[i]] = "main"
      <3>1. c[i] # running /\ a[i] = c[i] /\ c[i] \in 1..npcb
        BY <1>2, <1>3, <1>4, <1>13, <2>1
      <3> QED BY <1>17, <1>22, <3>1
    <2>3. \A i \in 2..L : prog'[a[i]] \in {"init", "sbush", "command"}
      <3> TAKE i \in 2..L
      <3>1. i \in 2..(L - 1) \/ i = L
        BY <1>3
      <3> QED BY <1>13, <1>17, <2>2, <3>1
    <2>4. prog'[first_process] = "kernel"
      <3>1. first_process \in 1..npcb
        BY <1>3, <1>4, RingFacts
      <3> QED BY <1>17, <1>22, <3>1
    <2> QED BY <1>6, <1>13, <1>22, <1>23, <2>2, <2>3, <2>4 DEF WaitInv
  <1>27. InvOf(a, s, u)'
    BY <1>16, <1>18, <1>20, <1>21, <1>24, <1>25, <1>26 DEF InvOf
  <1>28. pid'[running'] = pid[running]
    BY <1>r, <1>6, <1>17
  <1> QED BY <1>3, <1>13, <1>19, <1>27, <1>28

\* kill changes nothing but its caller's label if there is no such process.
LEMMA KillNoneKeeps ==
    ASSUME NEW c, NEW s, NEW t, InvOf(c, s, t), Kills, pc' = [pc EXCEPT ![running] = "end"],
           UNCHANGED <<npcb, processID, pid, ppid, next_proc, curr_process, stopped_process,
                       forked_process, running, saved, freed, prog, ret, cpu>>
    PROVE  InvOf(c, s, t)'
  <1>1. running = c[Len(c)] /\ prog[running] = "command" /\ running \in 1..npcb /\ running \in PCBs
    BY WhoRuns DEF Kills, At
  <1>2. PICK L \in 1..MaxPcb : L = Len(c)
    BY RingFacts
  <1>3. /\ pc' \in [PCBs -> Labels] /\ pc'[running] = "end"
        /\ \A q \in PCBs : q # running => pc'[q] = pc[q]
    BY <1>1 DEF InvOf, Types, Labels
  <1>4. Types'
    BY <1>3 DEF InvOf, Types
  <1>5. Lists(c, s, t)' /\ Places(c, s, t)' /\ PidInv(c)' /\ ParentInv(c)'
    BY DEF InvOf, Lists, Places, NoneRefused, PidInv, Apart, ParentInv
  <1>6. RunInv(c)'
    BY <1>1, <1>3 DEF InvOf, RunInv
  <1>7. WaitInv(c)'
    <2>1. /\ prog[first_process] = "kernel" /\ pc[first_process] = "main"
          /\ \A i \in 2..L : prog[c[i]] \in {"init", "sbush", "command"}
          /\ \A i \in 2..(L - 1) : prog[c[i]] \in {"init", "sbush"}
                                   /\ (c[i] # running => c[i] \in saved /\ pc[c[i]] = "main")
          /\ \A q \in PCBs : q > npcb => pc[q] = "main"
      BY <1>2 DEF InvOf, WaitInv
    <2>2. \A i \in 2..(L - 1) : c[i] \in PCBs
      <3>1. \A i \in 2..(L - 1) : i \in 1..L
        BY <1>2, Numbers
      <3> QED BY <1>2, <3>1, RingFacts
    <2>3. pc'[first_process] = "main" /\ \A i \in 2..(L - 1) : c[i] # running => pc'[c[i]] = "main"
      BY <1>1, <1>3, <2>1, <2>2, Numbers
    <2>4. \A q \in PCBs : q > npcb => pc'[q] = "main"
      <3>1. \A q \in PCBs : q > npcb => q # running
        BY <1>1, Numbers DEF InvOf, Types, PCBs
      <3> QED BY <1>3, <2>1, <3>1
    <2> QED BY <1>2, <2>1, <2>3, <2>4 DEF WaitInv
  <1>8. InvOf(c, s, t)'
    BY <1>4, <1>5, <1>6, <1>7 DEF InvOf
  <1> QED BY <1>8

\* The victim, the i-th process, leaves the ring for the stopped_process list.
LEMMA KillOneKeeps ==
    ASSUME NEW c, NEW s, NEW t, InvOf(c, s, t), Kills, NEW i \in 2..(Len(c) - 1),
           NEW v, v = c[i], NEW n, n = pid[v],
           pc' = [pc EXCEPT ![running] = "end"],
           ppid' = Reparented(n, v), next_proc' = Unlinked(c[i - 1], v),
           stopped_process' = AppendHead(stopped_process, v),
           UNCHANGED <<npcb, processID, pid, curr_process, forked_process, running,
                       saved, freed, prog, ret, cpu>>
    PROVE  \E u : InvOf(Without(c, i), u, t)'
  <1> DEFINE prev == c[i - 1]
             f == [next_proc EXCEPT ![prev] = next_proc[v]]
             w == Without(c, i)
             u == Append(s, v)
  <1>0. Types
    BY DEF InvOf
  <1>1. running = c[Len(c)] /\ curr_process = running /\ prog[running] = "command" /\ running \in PCBs
        /\ running \in 1..npcb
    BY WhoRuns DEF Kills, At
  <1>2. PICK L \in Nat : /\ L = Len(c) /\ L > 2 /\ i \in 2..(L - 1) /\ i \in 2..L /\ i \in 1..L /\ i - 1 \in 1..L
                         /\ L \in 1..L /\ L - 1 \in 1..(L - 1) /\ (L - 1) + 1 = L /\ 1 \in 1..L
    <2>1. PICK L \in 1..MaxPcb : L = Len(c)
      BY RingFacts
    <2>2. /\ L \in Nat /\ L > 2 /\ i \in 2..(L - 1) /\ i \in 2..L /\ i \in 1..L /\ i - 1 \in 1..L
          /\ L \in 1..L /\ L - 1 \in 1..(L - 1) /\ (L - 1) + 1 = L /\ 1 \in 1..L
      BY <2>1, Numbers
    <2> QED BY <2>1, <2>2
  <1>3. /\ next_proc \in Maps /\ Linked(next_proc, c, first_process) /\ c[1] = first_process
        /\ \A j \in 1..L : c[j] \in PCBs /\ c[j] \in 1..npcb /\ c[j] \in ToSet(c)
        /\ \A j, k \in 1..L : c[j] = c[k] => j = k
        /\ Apart(pid, c)
        /\ DOMAIN c = 1..L /\ ToSet(s) \subseteq 1..npcb /\ ToSet(t) \subseteq 1..npcb
    <2>1. L = Len(c) /\ L > 1
      BY <1>2
    <2>2. RingOf(c, s, t, L)
      BY <2>1, LongRing
    <2> QED BY <2>2 DEF RingOf
  <1>4. prev \in PCBs /\ v \in PCBs /\ prev # v /\ prev \in ToSet(c) /\ v \in ToSet(c) /\ v # running
    <2>1. i \in 1..L /\ i - 1 \in 1..L /\ i - 1 # i /\ L \in 1..L /\ i # L
      BY <1>2
    <2>2. running = c[L]
      BY <1>1, <1>2
    <2>3. prev \in PCBs /\ v \in PCBs /\ prev \in ToSet(c) /\ v \in ToSet(c)
      BY <1>3, <2>1
    <2>4. prev # v /\ v # running
      BY <1>3, <2>1, <2>2
    <2> QED BY <2>3, <2>4
  <1>5. /\ f \in Maps /\ f[prev] = next_proc[v] /\ \A q \in PCBs : q # prev => f[q] = next_proc[q]
    BY <1>3, <1>4 DEF Maps
  <1>6. \A q \in 1..npcb : q \in PCBs
    BY <1>0, Numbers DEF Types, PCBs
  <1> HIDE DEF f
  <1>7. /\ w \in Seq(PCBs) /\ Linked(f, w, first_process) /\ IsRing(f, w)
        /\ IsList(f, stopped_process, s) /\ IsList(f, forked_process, t)
        /\ ToSet(w) = ToSet(c) \ {v}
        /\ DOMAIN w = 1..(L - 1) /\ Len(w) = L - 1
        /\ \A j \in 1..(L - 1) : w[j] = IF j < i THEN c[j] ELSE c[j + 1]
    <2>1. i \in 2..Len(c) /\ f[c[i - 1]] = next_proc[c[i]]
      BY <1>2, <1>5
    <2>2. \A q \in 1..npcb : q # c[i - 1] /\ q # c[i] => f[q] = next_proc[q]
      BY <1>5, <1>6
    <2>3. /\ w \in Seq(PCBs) /\ IsRing(f, w) /\ Linked(f, w, first_process)
          /\ IsList(f, stopped_process, s) /\ IsList(f, forked_process, t)
          /\ ToSet(w) = ToSet(c) \ {c[i]}
          /\ DOMAIN w = 1..(Len(c) - 1) /\ Len(w) = Len(c) - 1
          /\ \A j \in 1..(Len(c) - 1) : w[j] = IF j < i THEN c[j] ELSE c[j + 1]
      BY <1>5, <2>1, <2>2, RingShrinks
    <2> HIDE DEF w
    <2>4. L = Len(c)
      BY <1>2
    <2> QED BY <2>3, <2>4
  <1> HIDE DEF w
  <1>8. /\ ToSet(c) \cap (ToSet(s) \cup ToSet(t) \cup freed) = {} /\ ToSet(s) \cap (ToSet(t) \cup freed) = {}
        /\ ToSet(t) \cap freed = {} /\ ToSet(c) \cup ToSet(s) \cup ToSet(t) \cup freed \subseteq 1..npcb
        /\ NoneRefused => 1..npcb \subseteq ToSet(c) \cup ToSet(s) \cup ToSet(t) \cup freed
    BY DEF InvOf, Places
  <1>9. /\ next_proc' \in Maps /\ IsList(next_proc', AppendHead(stopped_process, v), u)
        /\ \A q \in PCBs : q \notin ToSet(s) \cup {v} => next_proc'[q] = f[q]
        /\ ToSet(u) = ToSet(s) \cup {v}
    <2>1. v \notin ToSet(s)
      BY <1>4, <1>8
    <2>2. next_proc' = AppendNext(f, stopped_process, v)
      BY DEF Unlinked, f
    <2> QED BY <1>4, <1>5, <1>7, <2>1, <2>2, ListLonger
  <1> HIDE DEF u
  <1>10. Lists(w, u, t)'
    <2>1. \A q \in ToSet(w) : next_proc'[q] = f[q]
      BY <1>3, <1>6, <1>7, <1>8, <1>9
    <2>2. Linked(next_proc', w, first_process) /\ w # <<>> /\ w[1] = first_process
      BY <1>7, <2>1, LinkedSame DEF IsRing
    <2>3. \A q \in ToSet(t) : next_proc'[q] = f[q]
      BY <1>3, <1>4, <1>6, <1>8, <1>9
    <2>4. IsList(next_proc', forked_process, t)
      BY <1>7, <2>3, ListSame
    <2>5. IsRing(next_proc', w)
      BY <2>2 DEF IsRing
    <2> QED BY <1>9, <2>4, <2>5 DEF Lists
  <1>11. Places(w, u, t)'
    <2>1. npcb' = npcb /\ freed' = freed /\ (NoneRefused' => NoneRefused)
      BY DEF NoneRefused
    <2> QED BY <1>4, <1>7, <1>8, <1>9, <2>1 DEF Places
  <1> DEFINE of(j) == IF j < i THEN j ELSE j + 1
             at(j) == IF j < i THEN j ELSE j - 1
  <1>12. \A j \in 1..(L - 1) : of(j) \in 1..L /\ of(j) # i /\ w[j] = c[of(j)] /\ (of(j) = 1 <=> j = 1)
    BY <1>2, <1>7
  <1>13. \A j \in 1..L : j # i => at(j) \in 1..(L - 1) /\ w[at(j)] = c[j] /\ of(at(j)) = j
    <2> TAKE j \in 1..L
    <2> SUFFICES ASSUME j # i PROVE at(j) \in 1..(L - 1) /\ w[at(j)] = c[j] /\ of(at(j)) = j
      OBVIOUS
    <2>1. at(j) \in 1..(L - 1) /\ of(at(j)) = j
      BY <1>2
    <2> QED BY <1>12, <2>1
  <1>14. \A j, k \in 1..(L - 1) : /\ of(j) = of(k) => j = k
                                  /\ of(j) < of(k) => j < k
                                  /\ j < k => of(j) < of(k)
    BY <1>2
  <1>15. PidInv(w)'
    <2> HIDE DEF of, at
    <2>1. \A j \in 1..(L - 1) : of(j) \in DOMAIN c /\ w[j] = c[of(j)]
      BY <1>3, <1>12
    <2>2. Apart(pid, w)
      <3> DEFINE h == [j \in 1..(L - 1) |-> of(j)]
      <3>1. \A j \in 1..(L - 1) : h[j] = of(j)
        OBVIOUS
      <3> HIDE DEF h
      <3>2. \A j \in DOMAIN w : h[j] \in DOMAIN c /\ pid[w[j]] = pid[c[h[j]]]
        BY <1>7, <2>1, <3>1
      <3>3. \A j, k \in DOMAIN w : (h[j] = h[k] => j = k) /\ (j < k => h[j] < h[k])
        BY <1>7, <1>14, <3>1
      <3>4. Apart(pid, c)
        BY <1>3
      <3> QED BY <3>2, <3>3, <3>4, ApartStays
    <2> QED BY <2>2 DEF InvOf, PidInv, Apart
  <1>16. Ring = ToSet(c)
    BY <1>3, RingNodes DEF Ring, InvOf, Lists
  <1>17. ParentInv(w)'
    <2>1. ASSUME NEW k \in 1..(L - 1)
          PROVE  \E j \in 1..(L - 1) : (j < k \/ j = 1) /\ pid[w[j]] = ppid'[w[k]]
      <3> DEFINE m == of(k)
      <3>1. m \in 1..L /\ m # i /\ w[k] = c[m] /\ c[m] \in PCBs /\ c[m] \in Ring /\ c[m] # v
        BY <1>2, <1>3, <1>12, <1>16
      <3> HIDE DEF m
      <3>2. ppid'[c[m]] = IF next_proc[c[m]] # v /\ ppid[c[m]] = n THEN 1 ELSE ppid[c[m]]
        BY <3>1 DEF Reparented
      <3>3. CASE next_proc[c[m]] # v /\ ppid[c[m]] = n
        <4>1. 1 \in 1..(L - 1) /\ w[1] = first_process /\ pid[first_process] = 1
          BY <1>2, <1>7 DEF IsRing, InvOf, PidInv
        <4> QED BY <3>1, <3>2, <3>3, <4>1
      <3>4. CASE ~(next_proc[c[m]] # v /\ ppid[c[m]] = n)
        <4>1. ppid'[c[m]] = ppid[c[m]]
          BY <3>2, <3>4
        <4>2. PICK j \in 1..L : (j < m \/ j = 1) /\ pid[c[j]] = ppid[c[m]]
          BY <1>3, <3>1 DEF InvOf, ParentInv
        <4>3. CASE j = i
          <5>1. ppid[c[m]] = n /\ next_proc[c[m]] = v
            BY <3>4, <4>2, <4>3
          <5>2. j < m /\ m # 1
            BY <1>2, <4>2, <4>3
          <5>3. CASE m = L
            <6>1. next_proc[c[m]] = c[1] /\ 1 # i
              BY <1>2, <1>3, <5>3 DEF Linked
            <6> QED BY <1>2, <1>3, <5>1, <6>1
          <5>4. CASE m # L
            <6>1. m \in 1..(L - 1) /\ m + 1 \in 1..L /\ m + 1 # i
              BY <1>2, <3>1, <4>3, <5>2, <5>4
            <6>2. next_proc[c[m]] = c[m + 1]
              BY <1>2, <1>3, <6>1 DEF Linked
            <6> QED BY <1>2, <1>3, <5>1, <6>1, <6>2
          <5> QED BY <5>3, <5>4
        <4>4. CASE j # i
          <5>1. at(j) \in 1..(L - 1) /\ w[at(j)] = c[j] /\ of(at(j)) = j
            BY <1>13, <4>4
          <5>2. at(j) < k \/ at(j) = 1
            <6>1. CASE j = 1
              BY <1>2, <6>1
            <6>2. CASE j < m
              <7> HIDE DEF of, at
              <7> QED BY <1>14, <5>1, <6>2 DEF m
            <6> QED BY <4>2, <6>1, <6>2
          <5> HIDE DEF at, of
          <5> QED BY <3>1, <4>1, <4>2, <5>1, <5>2
        <4> QED BY <4>3, <4>4
      <3> QED BY <3>3, <3>4
    <2> QED BY <1>7, <2>1 DEF ParentInv
  <1>18. /\ pc' \in [PCBs -> Labels] /\ pc'[running] = "end"
         /\ \A q \in PCBs : q # running => pc'[q] = pc[q]
    BY <1>0, <1>1 DEF Types, Labels
  <1>19. ppid' \in [PCBs -> Int]
    BY <1>0 DEF Types, Reparented
  <1>20. Types'
    <2>1. {pid, ppid', ret} \subseteq [PCBs -> Int] /\ next_proc' \in [PCBs -> PCBs \cup {NULL}]
      BY <1>0, <1>9, <1>19 DEF Types, Maps
    <2>2. {pid', ppid', ret'} \subseteq [PCBs -> Int]
      BY <2>1
    <2> HIDE DEF of, at
    <2> QED BY <1>0, <1>18, <2>1, <2>2 DEF Types
  <1>21. RunInv(w)'
    <2>1. w[Len(w)] = running
      <3>1. ~(L - 1 < i)
        BY <1>2
      <3> QED BY <1>1, <1>2, <1>7, <3>1
    <2> QED BY <1>1, <1>18, <2>1 DEF RunInv
  <1>22. WaitInv(w)'
    <2>1. /\ prog[first_process] = "kernel" /\ pc[first_process] = "main"
          /\ \A j \in 2..L : prog[c[j]] \in {"init", "sbush", "command"}
          /\ \A j \in 2..(L - 1) : prog[c[j]] \in {"init", "sbush"}
                                   /\ (c[j] # running => c[j] \in saved /\ pc[c[j]] = "main")
          /\ \A q \in PCBs : q > npcb => pc[q] = "main"
      BY <1>2 DEF InvOf, WaitInv
    <2>2. \A j \in 2..(L - 1) : j \in 1..(L - 1) /\ of(j) \in 2..L
      BY <1>2
    <2>3. \A j \in 2..((L - 1) - 1) : j \in 1..(L - 1) /\ of(j) \in 2..(L - 1) /\ of(j) \in 1..L /\ of(j) # L
      BY <1>2
    <2> HIDE DEF of
    <2>4. \A j \in 2..(L - 1) : prog[w[j]] \in {"init", "sbush", "command"}
      BY <1>12, <2>1, <2>2
    <2>5. ASSUME NEW j \in 2..((L - 1) - 1)
          PROVE  prog[w[j]] \in {"init", "sbush"} /\ (w[j] # running => w[j] \in saved /\ pc'[w[j]] = "main")
      <3>1. w[j] = c[of(j)] /\ of(j) \in 2..(L - 1) /\ c[of(j)] \in PCBs
        BY <1>3, <1>12, <2>3
      <3> QED BY <1>18, <2>1, <3>1
    <2>6. pc'[first_process] = "main"
      BY <1>1, <1>18, <2>1, Numbers
    <2>7. \A q \in PCBs : q > npcb => pc'[q] = "main"
      <3>1. \A q \in PCBs : q > npcb => q # running
        BY <1>0, <1>1, Numbers DEF Types, PCBs
      <3> QED BY <1>18, <2>1, <3>1
    <2> QED BY <1>7, <2>1, <2>4, <2>5, <2>6, <2>7 DEF WaitInv
  <1>23. InvOf(w, u, t)'
    BY <1>10, <1>11, <1>15, <1>17, <1>20, <1>21, <1>22 DEF InvOf
  <1> QED BY <1>23 DEF w

\* kill finds the process with the pid and the one before it, or neither.
LEMMA KillKeeps ==
    ASSUME NEW c, NEW s, NEW t, InvOf(c, s, t), NEW n, Kill(n)
    PROVE  /\ running = c[Len(c)] /\ Len(c) > 1
           /\ \/ InvOf(c, s, t)'
              \/ \E i \in 2..(Len(c) - 1) : \E u : n = pid[c[i]] /\ InvOf(Without(c, i), u, t)'
  <1> DEFINE found == Find(next_proc, first_process,
                           LAMBDA q : pid[q] = n \/ next_proc[q] = first_process)
             prev == Find(next_proc, first_process, LAMBDA q : next_proc[q] = found)
  <1>1. /\ Kills /\ n \notin {1, pid[curr_process]}
        /\ pc' = [pc EXCEPT ![running] = "end"]
        /\ \/ /\ pid[found] = n
              /\ ppid' = Reparented(n, found)
              /\ next_proc' = Unlinked(prev, found)
              /\ stopped_process' = AppendHead(stopped_process, found)
           \/ /\ pid[found] # n
              /\ UNCHANGED <<ppid, next_proc, stopped_process>>
        /\ UNCHANGED <<npcb, processID, pid, curr_process, forked_process, running,
                       saved, freed, prog, ret, cpu>>
    BY DEF Kill
  <1>2. running = c[Len(c)] /\ curr_process = running /\ Len(c) # 1
    BY <1>1, WhoRuns DEF Kills, At
  <1>3. PICK L \in Nat : L = Len(c) /\ L > 1
    <2>1. PICK L \in 1..MaxPcb : L = Len(c)
      BY RingFacts
    <2>2. L \in Nat /\ L > 1
      BY <1>2, <2>1, Numbers
    <2> QED BY <2>1, <2>2
  <1>4. /\ next_proc \in Maps /\ Linked(next_proc, c, first_process) /\ c # <<>>
        /\ c[1] = first_process /\ Apart(pid, c) /\ DOMAIN c = 1..L
    BY <1>3, RingFacts
  <1>5. found = AfterSteps(next_proc, first_process, StepsToPid(next_proc, first_process, pid, n))
    BY DEF Find, AfterSteps, StepsToPid
  <1>6. CASE \A i \in 1..(Len(c) - 1) : pid[c[i]] # n
    <2>1. found = c[Len(c)]
      BY <1>4, <1>5, <1>6, FindNone
    <2>2. pid[found] # n
      BY <1>1, <1>2, <2>1
    <2> HIDE DEF found, prev
    <2> QED BY <1>1, <1>2, <1>3, <2>2, KillNoneKeeps
  <1>7. CASE ~(\A i \in 1..(Len(c) - 1) : pid[c[i]] # n)
    <2>1. PICK i \in 1..(Len(c) - 1) : n = pid[c[i]]
      BY <1>7
    <2>2. i # 1 /\ i \in 2..(Len(c) - 1) /\ i \in 2..Len(c)
      <3>1. i # 1
        BY <1>1, <1>4, <2>1 DEF InvOf, PidInv
      <3>2. i \in 1..(L - 1)
        BY <1>3
      <3>3. i \in 2..(L - 1) /\ i \in 2..L
        BY <1>3, <3>1, <3>2
      <3> QED BY <1>3, <3>1, <3>3
    <2>3. found = c[i]
      <3>1. \A j \in 1..Len(c) : pid[c[j]] = n => j = i
        <4>1. i \in DOMAIN c /\ Len(c) \in DOMAIN c /\ i < Len(c)
          BY <1>3, <1>4, <2>2
        <4>2. n = NoPid => pid[c[Len(c)]] = NoPid
          BY <1>4, <2>1, <4>1 DEF Apart
        <4>3. n # NoPid
          BY <1>1, <1>2, <4>2
        <4>4. \A j \in DOMAIN c : pid[c[j]] = pid[c[i]] => j = i
          BY <1>4, <2>1, <4>1, <4>3 DEF Apart
        <4> QED BY <1>3, <1>4, <2>1, <4>4
      <3>2. /\ next_proc \in Maps /\ Linked(next_proc, c, first_process) /\ c # <<>>
            /\ c[1] = first_process
        BY <1>4
      <3>3. AfterSteps(next_proc, first_process, StepsToPid(next_proc, first_process, pid, n)) = c[i]
        BY <2>1, <3>1, <3>2, FindVictim
      <3> HIDE DEF found
      <3> QED BY <1>5, <3>3
    <2> HIDE DEF found
    <2>4. prev = AfterSteps(next_proc, first_process, StepsBefore(next_proc, first_process, found))
      BY DEF Find, AfterSteps, StepsBefore
    <2> HIDE DEF prev
    <2>5. prev = c[i - 1]
      BY <1>4, <2>2, <2>3, <2>4, FindBeforeVictim
    <2>6. PICK v \in PCBs : v = found
      BY <2>3, RingFacts
    <2>7. /\ v = c[i] /\ n = pid[v] /\ ppid' = Reparented(n, v) /\ next_proc' = Unlinked(c[i - 1], v)
          /\ stopped_process' = AppendHead(stopped_process, v)
      BY <1>1, <2>1, <2>3, <2>5, <2>6
    <2>8. \E u : InvOf(Without(c, i), u, t)'
      BY <1>1, <2>2, <2>7, KillOneKeeps
    <2> QED BY <1>2, <1>3, <2>1, <2>2, <2>8
  <1> QED BY <1>6, <1>7

-----------------------------------------------------------------------------
(* The theorems.                                                           *)

\* The kernel thread alone is a ring.
LEMMA InitInv == Init => IInv
  <1> SUFFICES ASSUME Init PROVE IInv
    OBVIOUS
  <1> DEFINE c == <<first_process>>
  <1>1. first_process \in PCBs /\ npcb = first_process /\ 1..npcb = {first_process} /\ 0 \in Nat
    BY Numbers DEF Init, first_process
  <1>2. /\ c \in Seq(PCBs) /\ <<>> \in Seq(PCBs) /\ Len(c) = 1 /\ c[1] = first_process /\ DOMAIN c = {1}
        /\ c # <<>> /\ ToSet(c) = {first_process} /\ ToSet(<<>>) = {} /\ 2..Len(c) = {} /\ 2..(Len(c) - 1) = {}
    BY <1>1 DEF ToSet
  <1> HIDE DEF c
  <1>3. Types
    BY <1>1 DEF Init, Types, Programs, Labels, NULL, first_process
  <1>4. Lists(c, <<>>, <<>>)
    BY <1>1, <1>2 DEF Init, Lists, IsRing, IsList, Linked
  <1>5. Places(c, <<>>, <<>>)
    BY <1>1, <1>2 DEF Init, Places
  <1>6. PidInv(c)
    <2>1. pid[first_process] = 1 /\ \A q \in 1..npcb : pid[q] = 1 /\ pid[q] - 1 \in processID
      BY <1>1 DEF Init
    <2>2. Apart(pid, c)
      BY <1>2 DEF Apart
    <2> HIDE DEF first_process
    <2> QED BY <2>1, <2>2 DEF PidInv, NoPid
  <1>7. ParentInv(c)
    BY <1>1, <1>2 DEF Init, ParentInv
  <1>8. RunInv(c) /\ WaitInv(c)
    BY <1>1, <1>2 DEF Init, RunInv, WaitInv
  <1> QED BY <1>2, <1>3, <1>4, <1>5, <1>6, <1>7, <1>8 DEF IInv, InvOf

\* Every step keeps the invariant.
LEMMA NextInv == IInv /\ [Next]_vars => IInv'
  <1> SUFFICES ASSUME IInv, [Next]_vars PROVE IInv'
    OBVIOUS
  <1>1. CASE Next
    <2>2. PICK c, s, t : InvOf(c, s, t)
      BY DEF IInv
    <2>3. CASE CreateUserProcess
      BY <2>2, <2>3, CreateKeeps DEF IInv
    <2>4. CASE ForkChild
      BY <2>2, <2>4, ForkKeeps DEF IInv
    <2>5. CASE Wait
      BY <2>2, <2>5, WaitKeeps DEF IInv
    <2>6. CASE Execve("sbush")
      BY <2>2, <2>6, ExecveKeeps DEF IInv
    <2>7. CASE Execve("command")
      BY <2>2, <2>7, ExecveKeeps DEF IInv
    <2>8. CASE SysExit
      BY <2>2, <2>8, ExitKeeps DEF IInv
    <2>9. CASE KillKernel
      BY <2>2, <2>9, KillKernelKeeps DEF IInv
    <2>10. CASE \E n \in Pids : Kill(n)
      BY <2>2, <2>10, KillKeeps DEF IInv
    <2> QED BY <1>1, <2>3, <2>4, <2>5, <2>6, <2>7, <2>8, <2>9, <2>10 DEF Next
  <1>2. CASE UNCHANGED vars
    <2> SUFFICES ASSUME NEW c, NEW s, NEW t, InvOf(c, s, t)
                 PROVE  InvOf(c, s, t)'
      BY DEF IInv
    <2>1. Types' /\ Lists(c, s, t)' /\ Places(c, s, t)' /\ PidInv(c)' /\ ParentInv(c)'
      BY <1>2 DEF vars, InvOf, Types, Lists, Places, NoneRefused, PidInv, Apart, ParentInv
    <2>2. RunInv(c)' /\ WaitInv(c)'
      BY <1>2 DEF vars, InvOf, RunInv, WaitInv
    <2> QED BY <2>1, <2>2 DEF InvOf
  <1> QED BY <1>1, <1>2

\* The invariant holds in every reachable state.
LEMMA InvAlways == Spec => []IInv
  BY InitInv, NextInv, PTL DEF Spec

\* The ready processes form one circle through the kernel thread, and the process
\* that curr_process names is the one whose registers the CPU has (fork_child,
\* wait, execve, sys_exit, kill), even when get_next_processID has no pid left.
THEOREM RingStaysIntact == Spec => []RingIntact
  <1>1. IInv => RingIntact
    <2> SUFFICES ASSUME IInv PROVE RingIntact
      OBVIOUS
    <2>1. PICK c, s, t : InvOf(c, s, t)
      BY DEF IInv
    <2>2. next_proc \in Maps /\ IsRing(next_proc, c)
      BY <2>1, RingFacts DEF InvOf, Lists
    <2>3. Ring = ToSet(c)
      BY <2>2, RingNodes DEF Ring
    <2>4. PICK L \in 1..MaxPcb : L = Len(c)
      BY <2>1, RingFacts
    <2>5. /\ c[1] = first_process /\ \A p : p \in ToSet(c) <=> \E i \in 1..L : p = c[i]
          /\ L > 1 => Linked(next_proc, c, first_process)
      BY <2>1, <2>4, RingFacts, LinkedIs
    <2>6. L \in Nat /\ L \in 1..L /\ 1 \in 1..L /\ (L > 1 \/ L = 1)
      BY <2>4, Numbers
    <2>7. \/ Follow(next_proc, first_process)[Cardinality(Ring)] = first_process
          \/ Ring = {first_process}
      <3>1. CASE L = 1
        <4>1. \A i \in 1..L : i = 1
          BY <3>1
        <4> QED BY <2>3, <2>5, <2>6, <4>1
      <3>2. CASE L > 1
        <4> DEFINE h == Follow(next_proc, c[1])
        <4>1. Cardinality(Ring) = L
          BY <2>3, <2>4, <2>5, <3>2, LinkedIs
        <4>2. h[L - 1] = c[L]
          <5>1. \A n \in 0..(Len(c) - 1) : h[n] = c[1 + n]
            BY <2>2, <2>4, <2>5, <2>6, <3>2, WalkAlong
          <5>2. L - 1 \in 0..(L - 1) /\ 1 + (L - 1) = L
            BY <2>6
          <5> QED BY <2>4, <5>1, <5>2
        <4>3. h[L] = IF h[L - 1] = NULL THEN NULL ELSE next_proc[h[L - 1]]
          <5>1. c[1] \in PCBs \cup {NULL}
            BY <2>1, <2>4, <2>6, RingFacts
          <5>2. \A n \in 1..MaxPcb : h[n] = IF h[n - 1] = NULL THEN NULL ELSE next_proc[h[n - 1]]
            BY <2>2, <5>1, FollowIs
          <5> QED BY <2>4, <5>2
        <4>4. c[L] \in PCBs /\ next_proc[c[L]] = first_process
          BY <2>1, <2>4, <2>5, <2>6, <3>2, RingFacts DEF Linked
        <4>5. c[L] # NULL
          BY <4>4 DEF PCBs, NULL
        <4> HIDE DEF h
        <4>6. h[L] = first_process
          BY <4>2, <4>3, <4>4, <4>5
        <4> QED BY <2>5, <4>1, <4>6 DEF h
      <3> QED BY <2>6, <3>1, <3>2
    <2>8. running = curr_process /\ running \in Ring
      <3>1. running = curr_process /\ (running = c[L] \/ (L > 2 /\ running = c[L - 1]))
        BY <2>1, <2>4 DEF InvOf, RunInv
      <3>2. L > 2 => L - 1 \in 1..L
        BY <2>6
      <3> QED BY <2>3, <2>5, <2>6, <3>1, <3>2
    <2> QED BY <2>7, <2>8 DEF RingIntact
  <1> QED BY <1>1, InvAlways, PTL

\* sys_exit resumes only the kernel thread or a process whose stack pointer wait
\* has saved, even when the process it finds by pid is not the one that waits for
\* the process that ends.
THEOREM NeverLostCpu == Spec => []NeverLost
  <1>1. IInv => NeverLost
    BY DEF IInv, InvOf, Types, NeverLost
  <1> QED BY <1>1, InvAlways, PTL

\* kill and sys_exit leave no ready process behind whose parent is not ready.
THEOREM NoneOrphaned == Spec => []NoOrphan
  <1>1. IInv => NoOrphan
    <2> SUFFICES ASSUME IInv PROVE NoOrphan
      OBVIOUS
    <2>1. PICK c, s, t : InvOf(c, s, t)
      BY DEF IInv
    <2>2. next_proc \in Maps /\ IsRing(next_proc, c)
      BY <2>1, RingFacts DEF InvOf, Lists
    <2>3. Ring = ToSet(c)
      BY <2>2, RingNodes DEF Ring
    <2>4. DOMAIN c = 1..Len(c) /\ \A p : p \in ToSet(c) <=> \E i \in 1..Len(c) : p = c[i]
      BY <2>1, RingFacts, LinkedIs
    <2>5. \A i \in DOMAIN c : \E j \in DOMAIN c : pid[c[j]] = ppid[c[i]]
      BY <2>1 DEF InvOf, ParentInv
    <2> QED BY <2>3, <2>4, <2>5 DEF NoOrphan
  <1> QED BY <1>1, InvAlways, PTL

\* No PCB is in two of the places where PCBs are kept.
NoneTwice ==
    LET stopped == Nodes(next_proc, stopped_process)
        forked  == Nodes(next_proc, forked_process)
    IN  /\ Ring \cap (stopped \cup forked \cup freed) = {}
        /\ stopped \cap (forked \cup freed) = {} /\ forked \cap freed = {}

\* sys_exit frees no process that can still run and none for the second time, and
\* kill and execve put none on a list that is in the ring or on the other list,
\* even when get_next_processID has no pid left.
THEOREM NothingFreedTwice == Spec => []NoneTwice
  <1>1. IInv => NoneTwice
    <2> SUFFICES ASSUME IInv PROVE NoneTwice
      OBVIOUS
    <2>1. PICK c, s, t : InvOf(c, s, t)
      BY DEF IInv
    <2>2. /\ next_proc \in Maps /\ IsRing(next_proc, c)
          /\ IsList(next_proc, stopped_process, s) /\ IsList(next_proc, forked_process, t)
      BY <2>1, RingFacts DEF InvOf, Lists
    <2>3. /\ Ring = ToSet(c) /\ Nodes(next_proc, stopped_process) = ToSet(s)
          /\ Nodes(next_proc, forked_process) = ToSet(t)
      BY <2>2, RingNodes, ListNodes DEF Ring
    <2>4. /\ ToSet(c) \cap (ToSet(s) \cup ToSet(t) \cup freed) = {}
          /\ ToSet(s) \cap (ToSet(t) \cup freed) = {} /\ ToSet(t) \cap freed = {}
      BY <2>1 DEF InvOf, Places
    <2> QED BY <2>3, <2>4 DEF NoneTwice
  <1> QED BY <1>1, InvAlways, PTL

\* Sizes of sets without a common element add up.
LEMMA DisjointUnion ==
    ASSUME NEW S, NEW T, IsFiniteSet(S), IsFiniteSet(T), S \cap T = {}
    PROVE  IsFiniteSet(S \cup T) /\ Cardinality(S \cup T) = Cardinality(S) + Cardinality(T)
  <1>1. /\ IsFiniteSet(S \cup T)
        /\ Cardinality(S \cup T) = Cardinality(S) + Cardinality(T) - Cardinality(S \cap T)
    BY FS_Union
  <1>2. Cardinality(S \cap T) = 0 /\ Cardinality(S) \in Nat /\ Cardinality(T) \in Nat
    BY FS_EmptySet, FS_CardinalityType
  <1> QED BY <1>1, <1>2

\* While every process has a pid of its own, each PCB that kmalloc has given is in
\* the ring, on the stopped_process list, on the forked_process list or freed, and
\* in one of them only.
THEOREM EachOnOneList == Spec => [](NoneRefused => OneListEach)
  <1>1. IInv => (NoneRefused => OneListEach)
    <2> SUFFICES ASSUME IInv, NoneRefused PROVE OneListEach
      OBVIOUS
    <2>1. PICK c, s, t : InvOf(c, s, t)
      BY DEF IInv
    <2>2. /\ next_proc \in Maps /\ IsRing(next_proc, c)
          /\ IsList(next_proc, stopped_process, s) /\ IsList(next_proc, forked_process, t)
      BY <2>1, RingFacts DEF InvOf, Lists
    <2> DEFINE A == ToSet(c)
               B == ToSet(s)
               C == ToSet(t)
               D == freed
    <2>3. Ring = A /\ Nodes(next_proc, stopped_process) = B /\ Nodes(next_proc, forked_process) = C
      BY <2>2, RingNodes, ListNodes DEF Ring
    <2>4. /\ A \cap (B \cup C \cup D) = {} /\ B \cap (C \cup D) = {} /\ C \cap D = {}
          /\ A \cup B \cup C \cup D = 1..npcb
      BY <2>1 DEF InvOf, Places
    <2>5. npcb \in Nat /\ 1 \in Int /\ npcb \in Int
      BY <2>1, Numbers DEF InvOf, Types, PCBs
    <2>6. IsFiniteSet(1..npcb) /\ Cardinality(1..npcb) = npcb
      <3>1. IsFiniteSet(1..npcb) /\ Cardinality(1..npcb) = IF 1 > npcb THEN 0 ELSE npcb - 1 + 1
        BY <2>5, FS_Interval
      <3> QED BY <2>5, <3>1
    <2> HIDE DEF A, B, C, D
    <2>7. IsFiniteSet(A) /\ IsFiniteSet(B) /\ IsFiniteSet(C) /\ IsFiniteSet(D)
      BY <2>4, <2>6, FS_Subset
    <2>8. A \cap B = {} /\ (A \cup B) \cap C = {} /\ ((A \cup B) \cup C) \cap D = {}
          /\ ((A \cup B) \cup C) \cup D = 1..npcb
      BY <2>4
    <2>9. IsFiniteSet(A \cup B) /\ Cardinality(A \cup B) = Cardinality(A) + Cardinality(B)
      BY <2>7, <2>8, DisjointUnion
    <2>10. /\ IsFiniteSet((A \cup B) \cup C)
           /\ Cardinality((A \cup B) \cup C) = Cardinality(A \cup B) + Cardinality(C)
      BY <2>7, <2>8, <2>9, DisjointUnion
    <2>11. Cardinality(((A \cup B) \cup C) \cup D) = Cardinality((A \cup B) \cup C) + Cardinality(D)
      BY <2>7, <2>8, <2>10, DisjointUnion
    <2>12. Cardinality(A) + Cardinality(B) + Cardinality(C) + Cardinality(D) = npcb
      BY <2>6, <2>8, <2>9, <2>10, <2>11
    <2> QED BY <2>3, <2>4, <2>12 DEF OneListEach, D
  <1> QED BY <1>1, InvAlways, PTL

-----------------------------------------------------------------------------
(* Process implements JobChain.                                            *)

\* The pids P of the PCBs of c, and of the ring that f makes.
PidsOf(P, c) == [i \in 1..Len(c) |-> P[c[i]]]
RingPids(f, P) ==
    [i \in 1..Cardinality(Nodes(f, first_process)) |-> P[Follow(f, first_process)[i - 1]]]

\* Both are the same.
LEMMA RingPidsAre ==
    ASSUME NEW f \in Maps, NEW c, IsRing(f, c), NEW P
    PROVE  RingPids(f, P) = PidsOf(P, c)
  <1>1. PICK e \in {first_process, NULL} : Linked(f, c, e)
    BY DEF IsRing
  <1>2. PICK L \in 0..MaxPcb : L = Len(c)
    BY <1>1, LinkedIs
  <1>3. c # <<>> /\ c[1] = first_process /\ L \in Nat /\ L > 0 /\ 1 \in 1..L
    BY <1>1, <1>2, LinkedIs, Numbers DEF IsRing
  <1>4. Cardinality(Nodes(f, first_process)) = L
    BY <1>1, <1>2, RingNodes, LinkedIs
  <1>5. \A n \in 0..(L - 1) : Follow(f, first_process)[n] = c[1 + n]
    BY <1>1, <1>2, <1>3, WalkAlong
  <1>6. \A i \in 1..L : i - 1 \in 0..(L - 1) /\ 1 + (i - 1) = i
    BY <1>3
  <1>7. \A i \in 1..L : Follow(f, first_process)[i - 1] = c[i]
    BY <1>5, <1>6
  <1> QED BY <1>2, <1>4, <1>7 DEF RingPids, PidsOf

\* The chain that Process shows is made of the pids of the ring.
LEMMA ChainIs ==
    ASSUME NEW c, NEW s, NEW t, InvOf(c, s, t)
    PROVE  /\ Chain = PidsOf(pid, c) /\ Chain \in Seq(Int) /\ Len(Chain) = Len(c)
           /\ \A i \in 1..Len(c) : Chain[i] = pid[c[i]]
  <1>1. next_proc \in Maps /\ IsRing(next_proc, c) /\ pid \in [PCBs -> Int]
    BY RingFacts DEF InvOf, Lists, Types
  <1>2. Chain = RingPids(next_proc, pid)
    BY DEF Chain, Ring, RingPids
  <1>3. Chain = PidsOf(pid, c)
    BY <1>1, <1>2, RingPidsAre
  <1>4. Len(c) \in Nat /\ \A i \in 1..Len(c) : c[i] \in PCBs
    BY RingFacts
  <1>5. PidsOf(pid, c) \in Seq(Int) /\ Len(PidsOf(pid, c)) = Len(c)
    BY <1>1, <1>4 DEF PidsOf
  <1> QED BY <1>3, <1>5 DEF PidsOf

\* After a step too.
LEMMA ChainWillBe ==
    ASSUME NEW c, NEW s, NEW t, InvOf(c, s, t)'
    PROVE  Chain' = PidsOf(pid', c)
  <1>1. next_proc' \in Maps /\ IsRing(next_proc', c)
    BY DEF InvOf, Lists, Types, Maps
  <1>2. Chain' = RingPids(next_proc', pid')
    BY DEF Chain, Ring, RingPids
  <1> QED BY <1>1, <1>2, RingPidsAre

\* P and Q give the processes of c the same pids.
Agree(P, Q, c) == \A i \in 1..Len(c) : Q[c[i]] = P[c[i]]

\* The pids with one more process at the end.
LEMMA PidsLonger ==
    ASSUME NEW c \in Seq(PCBs), NEW p \in PCBs, NEW P, NEW Q,
           P \in [PCBs -> Int], Q \in [PCBs -> Int], Agree(P, Q, c)
    PROVE  PidsOf(Q, Append(c, p)) = Append(PidsOf(P, c), Q[p])
  <1> DEFINE x == PidsOf(P, c)
             y == PidsOf(Q, Append(c, p))
  <1>1. PICK L \in Nat : L = Len(c)
    OBVIOUS
  <1>2. /\ x \in Seq(Int) /\ Len(x) = L /\ \A i \in 1..L : x[i] = P[c[i]]
    BY <1>1 DEF PidsOf
  <1>3. Len(Append(c, p)) = L + 1 /\ Append(c, p) \in Seq(PCBs) /\ Append(c, p)[L + 1] = p
        /\ \A i \in 1..L : Append(c, p)[i] = c[i]
    BY <1>1
  <1>4. /\ y \in Seq(Int) /\ Len(y) = L + 1 /\ \A i \in 1..(L + 1) : y[i] = Q[Append(c, p)[i]]
    <2>1. L + 1 \in Nat /\ \A i \in 1..(L + 1) : Append(c, p)[i] \in PCBs
      BY <1>3
    <2> QED BY <1>3, <2>1 DEF PidsOf
  <1> HIDE DEF x, y
  <1>5. /\ Append(x, Q[p]) \in Seq(Int) /\ Len(Append(x, Q[p])) = L + 1
        /\ Append(x, Q[p])[L + 1] = Q[p] /\ \A i \in 1..L : Append(x, Q[p])[i] = x[i]
    BY <1>2
  <1>6. \A i \in 1..(L + 1) : y[i] = Append(x, Q[p])[i]
    <2> TAKE i \in 1..(L + 1)
    <2>1. i \in 1..L \/ i = L + 1
      BY <1>1
    <2> QED BY <1>1, <1>2, <1>3, <1>4, <1>5, <2>1 DEF Agree
  <1>7. y = Append(x, Q[p])
    BY <1>4, <1>5, <1>6, SeqEqual
  <1> QED BY <1>7 DEF x, y

\* The pids without the i-th process.
LEMMA PidsShorter ==
    ASSUME NEW c \in Seq(PCBs), NEW P, P \in [PCBs -> Int], NEW i \in 1..Len(c)
    PROVE  /\ PidsOf(P, Without(c, i)) = RemoveAt(PidsOf(P, c), i)
           /\ i = Len(c) => PidsOf(P, Without(c, i)) = Front(PidsOf(P, c))
  <1> DEFINE x == PidsOf(P, c)
             y == PidsOf(P, Without(c, i))
             a == SubSeq(x, 1, i - 1)
             b == SubSeq(x, i + 1, Len(x))
  <1>1. PICK L \in Nat : L = Len(c) /\ i \in 1..L /\ L - 1 \in Nat /\ i \in Int
    OBVIOUS
  <1>2. x \in Seq(Int) /\ Len(x) = L /\ \A j \in 1..L : x[j] = P[c[j]] /\ x[j] \in Int
    BY <1>1 DEF PidsOf
  <1>3. /\ Without(c, i) \in Seq(PCBs) /\ Len(Without(c, i)) = L - 1
        /\ \A j \in 1..(L - 1) : Without(c, i)[j] = IF j < i THEN c[j] ELSE c[j + 1]
    <2>1. \A j \in 1..(L - 1) : c[j] \in PCBs /\ c[j + 1] \in PCBs
      BY <1>1
    <2> QED BY <1>1, <2>1 DEF Without
  <1>4. /\ y \in Seq(Int) /\ Len(y) = L - 1
        /\ \A j \in 1..(L - 1) : y[j] = P[Without(c, i)[j]]
    <2>1. \A j \in 1..(L - 1) : Without(c, i)[j] \in PCBs
      BY <1>1, <1>3
    <2> QED BY <1>1, <1>3, <2>1 DEF PidsOf
  <1> HIDE DEF x, y
  <1>5. \A j \in 1..(L - 1) : y[j] = IF j < i THEN x[j] ELSE x[j + 1]
    <2> TAKE j \in 1..(L - 1)
    <2>1. j \in 1..L /\ j + 1 \in 1..L
      BY <1>1
    <2>2. y[j] = P[IF j < i THEN c[j] ELSE c[j + 1]] /\ x[j] = P[c[j]] /\ x[j + 1] = P[c[j + 1]]
      BY <1>2, <1>3, <1>4, <2>1
    <2>3. CASE j < i
      BY <2>2, <2>3
    <2>4. CASE ~(j < i)
      BY <2>2, <2>4
    <2> QED BY <2>3, <2>4
  <1>6. /\ a \in Seq(Int) /\ Len(a) = i - 1 /\ \A j \in 1..(i - 1) : a[j] = x[j]
    <2>1. \A j \in 1..(i - 1) : x[j] \in Int
      BY <1>1, <1>2
    <2>2. 1 \in Int /\ i - 1 \in Int
      BY <1>1
    <2>3. /\ a \in Seq(Int) /\ Len(a) = IF 1 <= i - 1 THEN (i - 1) - 1 + 1 ELSE 0
          /\ \A j \in 1..((i - 1) - 1 + 1) : a[j] = x[1 + j - 1]
      BY <2>1, <2>2, SubSeqProperties
    <2>4. Len(a) = i - 1
      BY <1>1, <2>3
    <2>5. \A j \in 1..(i - 1) : j \in 1..((i - 1) - 1 + 1) /\ 1 + j - 1 = j
      BY <1>1
    <2> QED BY <2>3, <2>4, <2>5
  <1>7. /\ b \in Seq(Int) /\ Len(b) = L - i /\ \A j \in 1..(L - i) : b[j] = x[i + j]
    <2>1. \A j \in (i + 1)..L : x[j] \in Int
      BY <1>1, <1>2
    <2>2. i + 1 \in Int /\ L \in Int
      BY <1>1
    <2>3. /\ SubSeq(x, i + 1, L) \in Seq(Int)
          /\ Len(SubSeq(x, i + 1, L)) = IF i + 1 <= L THEN L - (i + 1) + 1 ELSE 0
          /\ \A j \in 1..(L - (i + 1) + 1) : SubSeq(x, i + 1, L)[j] = x[(i + 1) + j - 1]
      BY <2>1, <2>2, SubSeqProperties
    <2>4. (IF i + 1 <= L THEN L - (i + 1) + 1 ELSE 0) = L - i
      BY <1>1
    <2>5. \A j \in 1..(L - i) : j \in 1..(L - (i + 1) + 1) /\ (i + 1) + j - 1 = i + j
      BY <1>1
    <2> QED BY <1>2, <2>3, <2>4, <2>5
  <1> HIDE DEF a, b
  <1>8. /\ a \o b \in Seq(Int) /\ Len(a \o b) = L - 1
        /\ \A j \in 1..(L - 1) : (a \o b)[j] = IF j < i THEN x[j] ELSE x[j + 1]
    <2>1. /\ a \o b \in Seq(Int) /\ Len(a \o b) = Len(a) + Len(b)
          /\ \A j \in 1..(Len(a) + Len(b)) :
               (a \o b)[j] = IF j <= Len(a) THEN a[j] ELSE b[j - Len(a)]
      BY <1>6, <1>7, ConcatProperties
    <2>2. Len(a) + Len(b) = L - 1
      BY <1>1, <1>6, <1>7
    <2>3. ASSUME NEW j \in 1..(L - 1) PROVE (a \o b)[j] = IF j < i THEN x[j] ELSE x[j + 1]
      <3>1. (a \o b)[j] = IF j <= i - 1 THEN a[j] ELSE b[j - (i - 1)]
        BY <1>6, <2>1, <2>2
      <3>2. CASE j < i
        <4>1. j <= i - 1 /\ j \in 1..(i - 1)
          BY <1>1, <3>2
        <4> QED BY <1>6, <3>1, <3>2, <4>1
      <3>3. CASE ~(j < i)
        <4>1. ~(j <= i - 1) /\ j - (i - 1) \in 1..(L - i) /\ i + (j - (i - 1)) = j + 1
          BY <1>1, <3>3
        <4> QED BY <1>7, <3>1, <3>3, <4>1
      <3> QED BY <3>2, <3>3
    <2> QED BY <2>1, <2>2, <2>3
  <1>9. y = a \o b
    <2>1. \A j \in 1..(L - 1) : y[j] = (a \o b)[j]
      BY <1>5, <1>8
    <2> QED BY <1>4, <1>8, <2>1, SeqEqual
  <1>10. i = L => y = a
    <2> SUFFICES ASSUME i = L PROVE y = a
      OBVIOUS
    <2>1. \A j \in 1..(L - 1) : j < L
      BY <1>1
    <2>2. \A j \in 1..(L - 1) : y[j] = a[j]
      BY <1>5, <1>6, <2>1
    <2> QED BY <1>4, <1>6, <2>2, SeqEqual
  <1> QED BY <1>1, <1>2, <1>9, <1>10 DEF RemoveAt, Front, a, b, x, y

\* What JobChain says of the ring: the kernel thread comes first, the others have
\* other pids.
LEMMA ChainFacts ==
    ASSUME NEW c, NEW s, NEW t, InvOf(c, s, t)
    PROVE  /\ Chain \in Seq(Int) /\ Len(Chain) = Len(c) /\ Len(c) \in Nat /\ Len(c) > 0
           /\ \A i \in 1..Len(c) : Chain[i] = pid[c[i]] /\ (pid[c[i]] = 1 => i = 1)
           /\ Last(Chain) = pid[c[Len(c)]] /\ c \in Seq(PCBs) /\ pid \in [PCBs -> Int]
           /\ Chain = PidsOf(pid, c)
  <1>1. /\ Chain \in Seq(Int) /\ Len(Chain) = Len(c) /\ Chain = PidsOf(pid, c)
        /\ \A i \in 1..Len(c) : Chain[i] = pid[c[i]]
    BY ChainIs
  <1>2. PICK L \in 1..MaxPcb : L = Len(c)
    BY RingFacts
  <1>3. L \in Nat /\ L > 0 /\ L \in 1..L /\ 1 \in 1..L
    BY <1>2, Numbers
  <1>4. c[1] = first_process /\ c \in Seq(PCBs) /\ DOMAIN c = 1..L /\ Apart(pid, c)
    BY <1>2, RingFacts
  <1>5. pid[first_process] = 1 /\ pid \in [PCBs -> Int]
    BY DEF InvOf, PidInv, Types
  <1>6. \A i \in 1..L : pid[c[i]] = 1 => i = 1
    BY <1>3, <1>4, <1>5 DEF Apart, NoPid
  <1> QED BY <1>1, <1>2, <1>3, <1>4, <1>5, <1>6 DEF Last

\* A new process has a pid that no process of the ring has.
LEMMA NewPidIs ==
    ASSUME NEW c, NEW s, NEW t, InvOf(c, s, t), NEW p \in PCBs, NEW parent \in Int,
           NEW g \in Programs, NewPcb(p, parent, g), NoneRefused'
    PROVE  /\ pid'[p] \in Pids /\ pid'[p] # 1 /\ ~Contains(Chain, pid'[p])
           /\ PidsOf(pid', Append(c, p)) = Append(Chain, pid'[p])
           /\ \A q \in 1..npcb : pid'[q] = pid[q]
  <1>1. /\ npcb' = p /\ 1..npcb' = (1..npcb) \cup {p}
        /\ \A q \in 1..npcb : q \in PCBs /\ pid'[q] = pid[q]
        /\ IF pid'[p] = NoPid THEN processID' = processID
                              ELSE pid'[p] - 1 \notin processID /\ pid'[p] - 1 \in processID'
        /\ pid'[p] = NextPid(processID) /\ pid' \in [PCBs -> Int]
    BY NewPcbIs DEF InvOf
  <1>2. /\ NextPid(processID) # NoPid /\ pid'[p] - 1 \notin processID
        /\ \A q \in 1..npcb : pid[q] # NoPid
    BY <1>1 DEF NoneRefused
  <1>3. pid[first_process] = 1 /\ \A q \in 1..npcb : pid[q] - 1 \in processID
    BY <1>2 DEF InvOf, PidInv
  <1>4. \A i \in 1..Len(c) : c[i] \in 1..npcb
    BY RingFacts
  <1>5. first_process \in 1..npcb
    BY RingFacts DEF InvOf, Types, PCBs, first_process
  <1>6. pid'[p] # 1 /\ \A i \in 1..Len(c) : pid[c[i]] # pid'[p]
    BY <1>1, <1>2, <1>3, <1>4, <1>5
  <1>7. ~Contains(Chain, pid'[p])
    BY <1>6, ChainFacts DEF Contains
  <1>8. NextPid(processID) \in Pids
    <2> DEFINE F == FreeBits(processID)
               i == CHOOSE i \in F : \A j \in F : i <= j
    <2>1. F \subseteq 0..(MAX_PROCESS_COUNT - 1) /\ F \subseteq Nat
      BY PidAssumption DEF FreeBits
    <2>2. F # {} /\ NextPid(processID) = 1 + i
      BY <1>2 DEF NextPid
    <2>3. i \in F
      <3>1. \E k \in F : \A j \in F : k <= j
        <4> HIDE DEF F
        <4> QED BY <2>1, <2>2, LeastNumber
      <3> QED BY <3>1
    <2> HIDE DEF i, F
    <2> QED BY <2>1, <2>2, <2>3, PidAssumption DEF Pids
  <1>9. PidsOf(pid', Append(c, p)) = Append(PidsOf(pid, c), pid'[p])
    <2>1. c \in Seq(PCBs) /\ pid \in [PCBs -> Int] /\ \A i \in 1..Len(c) : pid'[c[i]] = pid[c[i]]
      BY <1>1, <1>4, ChainFacts
    <2>2. PICK Q \in [PCBs -> Int] : Q = pid'
      BY <1>1
    <2>3. Agree(pid, Q, c)
      BY <2>1, <2>2 DEF Agree
    <2>4. PidsOf(Q, Append(c, p)) = Append(PidsOf(pid, c), Q[p])
      BY <2>1, <2>3, PidsLonger
    <2> QED BY <2>2, <2>4
  <1> QED BY <1>1, <1>6, <1>7, <1>8, <1>9, ChainFacts

\* Every step of Process is a step of JobChain or changes nothing of the chain.
LEMMA StepRefines ==
    ASSUME IInv, NoneRefused, NoneRefused', [Next]_vars
    PROVE  [Jobs!Next]_(Jobs!vars)
  <1>1. PICK c, s, t : InvOf(c, s, t)
    BY DEF IInv
  <1>2. PICK L \in Nat : L = Len(c) /\ L > 0 /\ L \in 1..L /\ 1 \in 1..L
    <2>1. PICK L \in 1..MaxPcb : L = Len(c)
      BY <1>1, RingFacts
    <2>2. L \in Nat /\ L > 0 /\ L \in 1..L /\ 1 \in 1..L
      BY <2>1, Numbers
    <2> QED BY <2>1, <2>2
  <1>3. /\ Chain \in Seq(Int) /\ Len(Chain) = L /\ Last(Chain) = pid[c[L]]
        /\ \A i \in 1..L : Chain[i] = pid[c[i]] /\ (pid[c[i]] = 1 => i = 1)
        /\ c \in Seq(PCBs) /\ pid \in [PCBs -> Int] /\ Chain = PidsOf(pid, c)
    BY <1>1, <1>2, ChainFacts
  <1>4. pid[first_process] = 1 /\ c[1] = first_process
    BY <1>1, RingFacts DEF InvOf, PidInv
  <1>5. CASE CreateUserProcess
    <2>1. PICK p \in PCBs : NewPcb(p, 1, "init") /\ running' = p /\ InvOf(Append(c, p), s, t)'
      BY <1>1, <1>5, CreateKeeps
    <2>2. cpu = "ok" /\ prog[running] = "kernel" /\ pc[running] # "forked" /\ cpu' = cpu
      BY <1>5 DEF CreateUserProcess, At
    <2>3. L = 1 /\ running = c[L]
      BY <1>1, <1>2, <2>2, WhoRuns
    <2>4. Chain = <<1>>
      BY <1>3, <1>4, <2>3
    <2>5. pid'[p] \in Pids /\ pid'[p] # 1 /\ PidsOf(pid', Append(c, p)) = Append(Chain, pid'[p])
      <3>1. 1 \in Int /\ "init" \in Programs
        BY DEF Programs
      <3> QED BY <1>1, <2>1, <3>1, NewPidIs
    <2>6. Chain' = Append(Chain, pid'[p])
      BY <2>1, <2>5, ChainWillBe
    <2>7. Jobs!Start(pid'[p])
      BY <2>1, <2>2, <2>4, <2>5, <2>6 DEF Jobs!Start
    <2> QED BY <2>5, <2>7 DEF Jobs!Next
  <1>6. CASE ForkChild
    <2>1. PICK p \in PCBs : /\ NewPcb(p, pid[curr_process], prog[curr_process])
                            /\ InvOf(Append(c, p), s, t)'
      BY <1>1, <1>6, ForkKeeps
    <2>2. /\ cpu = "ok" /\ prog[running] # "kernel" /\ pc[running] # "forked"
          /\ cpu' = cpu /\ running' = running
      BY <1>6 DEF ForkChild, Forks, At
    <2>3. L # 1 /\ running = c[L] /\ curr_process = running /\ running \in PCBs /\ running \in 1..npcb
      BY <1>1, <1>2, <2>2, WhoRuns
    <2>4. /\ pid'[p] \in Pids /\ ~Contains(Chain, pid'[p])
          /\ PidsOf(pid', Append(c, p)) = Append(Chain, pid'[p])
          /\ pid'[running] = pid[running]
      <3>1. pid[curr_process] \in Int /\ prog[curr_process] \in Programs
        BY <1>1, <2>3 DEF InvOf, Types
      <3> QED BY <1>1, <2>1, <2>3, <3>1, NewPidIs
    <2>5. Chain' = Append(Chain, pid'[p])
      BY <2>1, <2>4, ChainWillBe
    <2>6. pid[running] = Last(Chain) /\ pid[running] # 1
      BY <1>2, <1>3, <2>3
    <2>7. Jobs!Fork(pid'[p])
      BY <2>2, <2>4, <2>5, <2>6 DEF Jobs!Fork, Jobs!Last, Jobs!Contains, Last, Contains
    <2> QED BY <2>4, <2>7 DEF Jobs!Next
  <1>7. CASE Wait
    <2>1. InvOf(c, s, t)' /\ running = c[L - 1] /\ running' = c[L] /\ L > 2
      BY <1>1, <1>2, <1>7, WaitKeeps
    <2>2. cpu = "ok" /\ cpu' = cpu /\ pid' = pid
      BY <1>7 DEF Wait, Waits, At
    <2>3. Chain' = Chain
      BY <1>3, <2>1, <2>2, ChainWillBe
    <2>4. L > 1 /\ L - 1 \in 1..L
      BY <1>2, <2>1
    <2>5. pid[running] = Chain[Len(Chain) - 1] /\ pid'[running'] = Last(Chain) /\ Len(Chain) > 1
      BY <1>3, <2>1, <2>2, <2>4
    <2>6. Jobs!Wait
      BY <2>2, <2>3, <2>5 DEF Jobs!Wait, Jobs!Last, Last
    <2> QED BY <2>6 DEF Jobs!Next
  <1>8. ASSUME NEW g \in {"sbush", "command"}, Execve(g) PROVE UNCHANGED Jobs!vars
    <2>1. PICK a, u : /\ InvOf(a, s, u)' /\ Len(a) = Len(c) /\ pid'[running'] = pid[running]
                      /\ \A i \in 1..Len(c) : pid'[a[i]] = pid[c[i]]
      BY <1>1, <1>8, ExecveKeeps
    <2>2. Chain' = PidsOf(pid', a)
      BY <2>1, ChainWillBe
    <2>3. PidsOf(pid', a) = PidsOf(pid, c)
      BY <2>1 DEF PidsOf
    <2>4. cpu' = cpu
      BY <1>8 DEF Execve
    <2> QED BY <1>3, <2>1, <2>2, <2>3, <2>4 DEF Jobs!vars
  <1>9. CASE SysExit
    <2>1. PICK u : /\ InvOf(Without(c, L), u, <<>>)' /\ L > 1 /\ running = c[L]
                   /\ running' = c[L - 1] /\ cpu' = "ok"
      <3>0. PICK k \in 1..(L - 1) :
               \E u : /\ InvOf(FirstOf(c, k), u, <<>>)' /\ L > 1 /\ running = c[L]
                      /\ running' = c[k] /\ cpu' = "ok" /\ k = L - 1
        BY <1>1, <1>2, <1>9, ExitKeeps
      <3>1. PICK u : /\ InvOf(FirstOf(c, k), u, <<>>)' /\ L > 1 /\ running = c[L]
                     /\ running' = c[k] /\ cpu' = "ok" /\ k = L - 1
        BY <3>0
      <3>2. FirstOf(c, L - 1) = Without(c, L)
        <4>1. \A j \in 1..(L - 1) : j < L
          BY <1>2
        <4> QED BY <1>2, <4>1 DEF FirstOf, Without
      <3> QED BY <3>1, <3>2
    <2>2. cpu = "ok" /\ pid' = pid
      BY <1>9 DEF SysExit, Ends, At
    <2>3. PidsOf(pid, Without(c, L)) = Front(Chain)
      BY <1>2, <1>3, PidsShorter
    <2>4. Chain' = Front(Chain)
      BY <2>1, <2>2, <2>3, ChainWillBe
    <2>5. pid[running] = Last(Chain) /\ pid[running] # 1
      BY <1>2, <1>3, <2>1
    <2>6. pid'[running'] = Last(Front(Chain))
      <3>1. L - 1 \in 1..L /\ L - 1 \in 1..(L - 1) /\ 1 \in Int /\ L - 1 \in Int /\ 1 <= L - 1
        BY <1>2, <2>1
      <3>2. \A i \in 1..(L - 1) : Chain[i] \in Int
        <4>1. \A i \in 1..(L - 1) : i \in 1..L
          BY <1>2
        <4> QED BY <1>3, <4>1
      <3>3. /\ Len(SubSeq(Chain, 1, L - 1)) = IF 1 <= L - 1 THEN (L - 1) - 1 + 1 ELSE 0
            /\ \A i \in 1..((L - 1) - 1 + 1) : SubSeq(Chain, 1, L - 1)[i] = Chain[1 + i - 1]
        BY <3>1, <3>2, SubSeqProperties
      <3>4. (L - 1) - 1 + 1 = L - 1 /\ 1 + (L - 1) - 1 = L - 1
        BY <1>2
      <3>5. Len(SubSeq(Chain, 1, L - 1)) = L - 1 /\ SubSeq(Chain, 1, L - 1)[L - 1] = Chain[L - 1]
        BY <3>1, <3>3, <3>4
      <3> QED BY <1>3, <2>1, <2>2, <3>1, <3>5 DEF Front, Last
    <2>7. Jobs!Exit
      BY <2>1, <2>2, <2>4, <2>5, <2>6 DEF Jobs!Exit, Jobs!Last, Jobs!Front, Last, Front
    <2> QED BY <2>7 DEF Jobs!Next
  <1>10. CASE KillKernel
    <2>1. InvOf(c, s, t)'
      BY <1>1, <1>10, KillKernelKeeps
    <2>2. /\ cpu = "ok" /\ cpu' = "null" /\ pid' = pid /\ running' = running
          /\ prog[running] # "kernel" /\ pc[running] # "forked"
      BY <1>10 DEF KillKernel, Kills, At
    <2>3. L # 1 /\ running = c[L]
      BY <1>1, <1>2, <2>2, WhoRuns
    <2>4. Chain' = Chain
      BY <1>3, <2>1, <2>2, ChainWillBe
    <2>5. pid[running] # 1
      BY <1>2, <1>3, <2>3
    <2>6. Jobs!KillKernel
      BY <2>2, <2>4, <2>5 DEF Jobs!KillKernel
    <2> QED BY <2>6 DEF Jobs!Next
  <1>11. ASSUME NEW n \in Pids, Kill(n) PROVE Jobs!Next \/ UNCHANGED Jobs!vars
    <2>1. /\ running = c[L] /\ L > 1
          /\ \/ InvOf(c, s, t)'
             \/ \E i \in 2..(L - 1) : \E u : n = pid[c[i]] /\ InvOf(Without(c, i), u, t)'
      BY <1>1, <1>2, <1>11, KillKeeps
    <2>2. /\ cpu = "ok" /\ cpu' = cpu /\ pid' = pid /\ running' = running
          /\ n # 1 /\ n # pid[running]
      <3>1. running = curr_process
        BY <1>1 DEF InvOf, RunInv
      <3> QED BY <1>11, <3>1 DEF Kill, Kills, At
    <2>3. CASE InvOf(c, s, t)'
      <3>1. Chain' = Chain
        BY <1>3, <2>2, <2>3, ChainWillBe
      <3> QED BY <2>2, <3>1 DEF Jobs!vars
    <2>4. CASE \E i \in 2..(L - 1) : \E u : n = pid[c[i]] /\ InvOf(Without(c, i), u, t)'
      <3>0. PICK i \in 2..(L - 1) : \E u : n = pid[c[i]] /\ InvOf(Without(c, i), u, t)'
        BY <2>4
      <3>1. PICK u : n = pid[c[i]] /\ InvOf(Without(c, i), u, t)'
        BY <3>0
      <3>2. i \in 1..L
        BY <1>2
      <3>3. PidsOf(pid, Without(c, i)) = RemoveAt(Chain, i)
        <4>1. c \in Seq(PCBs) /\ pid \in [PCBs -> Int] /\ i \in 1..Len(c)
          BY <1>2, <1>3, <3>2
        <4>2. PidsOf(pid, Without(c, i)) = RemoveAt(PidsOf(pid, c), i)
          BY <4>1, PidsShorter
        <4> QED BY <1>3, <4>2
      <3>4. Chain' = RemoveAt(Chain, i)
        BY <2>2, <3>1, <3>3, ChainWillBe
      <3>5. i \in 1..Len(Chain) /\ Chain[i] = n /\ pid[running] = Last(Chain)
        BY <1>3, <2>1, <3>1, <3>2
      <3>6. Jobs!Kill(n)
        BY <2>2, <3>4, <3>5 DEF Jobs!Kill, Jobs!Last, Jobs!RemoveAt, Last, RemoveAt
      <3> QED BY <3>6 DEF Jobs!Next
    <2> QED BY <2>1, <2>3, <2>4
  <1>12. CASE UNCHANGED vars
    <2>1. next_proc' = next_proc /\ pid' = pid /\ running' = running /\ cpu' = cpu
      BY <1>12 DEF vars
    <2>2. Chain' = Chain
      BY <2>1 DEF Chain, Ring
    <2> QED BY <2>1, <2>2 DEF Jobs!vars
  <1> QED BY <1>5, <1>6, <1>7, <1>8, <1>9, <1>10, <1>11, <1>12 DEF Next

\* While every process has a pid of its own, the three lists, the search by pid and
\* the saved stack pointers implement a chain in which each process waits for the
\* next one: exit hands the CPU to the process before, kill takes one out.
THEOREM ProcessImplementsJobChain == Spec /\ []NoneRefused => ImplementsJobChain
  <1>1. Init => Jobs!Init
    <2> SUFFICES ASSUME Init PROVE Jobs!Init
      OBVIOUS
    <2> DEFINE c == <<first_process>>
    <2>1. c \in Seq(PCBs) /\ Len(c) = 1 /\ c[1] = first_process /\ DOMAIN c = {1} /\ c # <<>>
      BY Numbers
    <2>2. next_proc \in Maps /\ IsRing(next_proc, c)
      BY <2>1, Numbers DEF Init, Maps, IsRing, Linked
    <2>3. Chain = PidsOf(pid, c)
      <3>1. Chain = RingPids(next_proc, pid)
        BY DEF Chain, Ring, RingPids
      <3> HIDE DEF c
      <3> QED BY <2>2, <3>1, RingPidsAre
    <2>4. pid[first_process] = 1 /\ running = first_process /\ cpu = "ok"
      BY Numbers DEF Init
    <2>5. PidsOf(pid, c) = <<1>>
      BY <2>1, <2>4 DEF PidsOf
    <2> QED BY <2>3, <2>4, <2>5 DEF Jobs!Init
  <1>2. IInv /\ NoneRefused /\ NoneRefused' /\ [Next]_vars => [Jobs!Next]_(Jobs!vars)
    BY StepRefines
  <1> QED BY <1>1, <1>2, InvAlways, PTL DEF Spec, ImplementsJobChain, Jobs!Spec
=============================================================================

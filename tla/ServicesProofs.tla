--------------------------- MODULE ServicesProofs ---------------------------
(***************************************************************************)
(* Proofs about two services that the kernel keeps apart from the rest:    *)
(* Environment, for any number of slots, keys and processes, and Timer,    *)
(* for every rate of ticks, length of the minute and width of int, also    *)
(* across the overflow of timer_tic.                                       *)
(***************************************************************************)
EXTENDS Environment, Timer, Iteration

-----------------------------------------------------------------------------
(* Environment.                                                            *)

\* NeverStale, slot by slot.
SlotsFresh ==
    \A p \in Procs, i \in Slots :
      echo_var_key[p][i] # None =>
        echo_var_key[p][i] \in Keys /\ echo_var[p][i] = exported[p][echo_var_key[p][i]]

\* The part of TypeOK that the proof needs.
Tables ==
    /\ echo_var_key \in [Procs -> [Slots -> Keys \cup {None}]]
    /\ echo_var \in [Procs -> [Slots -> Vals \cup {None}]]
    /\ echo_count \in [Procs -> Slots]
    /\ exported \in [Procs -> [Keys -> Vals \cup {None}]]

(***************************************************************************)
(* A slot holds the latest value of its key because setEnv looks for the   *)
(* key before it takes a new slot, which is why KeysUnique is part of the  *)
(* invariant: with two slots for a key, one of them would keep an old      *)
(* value.                                                                  *)
(***************************************************************************)
IInv == Tables /\ KeysUnique /\ SlotsFresh

\* The slot that setEnv chooses: as a key is in one slot at most, the first
\* slot that has it is the only one.
LEMMA SlotType ==
    ASSUME Tables, KeysUnique, NEW p \in Procs, NEW k \in Keys
    PROVE  /\ Slot(p, k) \in Slots
           /\ (\E i \in Slots : echo_var_key[p][i] = k) => echo_var_key[p][Slot(p, k)] = k
  <1>1. CASE \E i \in Slots : echo_var_key[p][i] = k
    <2>1. PICK i \in Slots : echo_var_key[p][i] = k
      BY <1>1
    <2>2. \A j \in Slots : echo_var_key[p][j] = k => i = j
      BY <2>1, EnvAssumption DEF KeysUnique
    <2>3. i <= i
      BY <2>1, EnvAssumption DEF Slots
    <2>4. \E m \in Slots : /\ echo_var_key[p][m] = k
                           /\ \A j \in Slots : echo_var_key[p][j] = k => m <= j
      BY <2>1, <2>2, <2>3
    <2> QED BY <1>1, <2>4 DEF Slot
  <1>2. CASE ~\E i \in Slots : echo_var_key[p][i] = k
    BY <1>2 DEF Slot, Tables
  <1> QED BY <1>1, <1>2

\* The counter stays inside the table.
LEMMA CountType == \A n \in Slots : NextCount(n) \in Slots
  BY EnvAssumption DEF NextCount, Slots

\* setEnv.
LEMMA SetEnvKeeps ==
    ASSUME IInv, NEW p \in Procs, NEW k \in Keys, NEW v \in Vals, SetEnv(p, k, v)
    PROVE  IInv'
  <1> DEFINE s == Slot(p, k)
  <1>1. s \in Slots /\ ((\E i \in Slots : echo_var_key[p][i] = k) => echo_var_key[p][s] = k)
    BY SlotType DEF IInv
  <1>2. /\ echo_var_key' = [echo_var_key EXCEPT ![p][s] = k]
        /\ echo_var' = [echo_var EXCEPT ![p][s] = v]
        /\ exported' = [exported EXCEPT ![p][k] = v]
    BY DEF SetEnv
  <1>3. echo_count' \in [Procs -> Slots]
    <2>1. echo_count[p] \in Slots /\ NextCount(echo_count[p]) \in Slots
      BY CountType DEF IInv, Tables
    <2>2. \/ echo_count' = echo_count
          \/ echo_count' = [echo_count EXCEPT ![p] = NextCount(echo_count[p])]
      BY DEF SetEnv
    <2> QED BY <2>1, <2>2 DEF IInv, Tables
  <1> HIDE DEF s
  <1>4. Tables'
    BY <1>1, <1>2, <1>3 DEF IInv, Tables
  <1>5. \A q \in Procs, i \in Slots :
          /\ echo_var_key'[q][i] = IF q = p /\ i = s THEN k ELSE echo_var_key[q][i]
          /\ echo_var'[q][i] = IF q = p /\ i = s THEN v ELSE echo_var[q][i]
    BY <1>1, <1>2 DEF IInv, Tables
  <1>6. \A q \in Procs, n \in Keys :
          exported'[q][n] = IF q = p /\ n = k THEN v ELSE exported[q][n]
    BY <1>2 DEF IInv, Tables
  <1>7. \A i \in Slots : echo_var_key[p][i] = k => i = s
    BY <1>1, EnvAssumption DEF IInv, KeysUnique
  <1>8. KeysUnique'
    BY <1>5, <1>7, EnvAssumption DEF IInv, KeysUnique
  <1>9. SlotsFresh'
    <2> SUFFICES ASSUME NEW q \in Procs, NEW i \in Slots, echo_var_key'[q][i] # None
                 PROVE  /\ echo_var_key'[q][i] \in Keys
                        /\ echo_var'[q][i] = exported'[q][echo_var_key'[q][i]]
      BY DEF SlotsFresh
    <2>1. CASE q = p /\ i = s
      BY <2>1, <1>5, <1>6
    <2>2. CASE ~(q = p /\ i = s)
      <3>1. echo_var_key'[q][i] = echo_var_key[q][i] /\ echo_var'[q][i] = echo_var[q][i]
        BY <2>2, <1>5
      <3>2. q = p => echo_var_key[q][i] # k
        BY <2>2, <1>7
      <3> QED BY <3>1, <3>2, <1>6 DEF IInv, SlotsFresh
    <2> QED BY <2>1, <2>2
  <1> QED BY <1>4, <1>8, <1>9 DEF IInv

\* fork and execve.
LEMMA InheritKeeps ==
    ASSUME IInv, NEW p \in Procs, NEW q \in Procs, Inherit(p, q)
    PROVE  IInv'
  <1> DEFINE src(r) == IF r = q THEN p ELSE r
  <1>1. \A r \in Procs : /\ src(r) \in Procs
                         /\ echo_var_key'[r] = echo_var_key[src(r)]
                         /\ echo_var'[r] = echo_var[src(r)]
                         /\ exported'[r] = exported[src(r)]
    BY DEF Inherit, Inherited, IInv, Tables
  <1>2. Tables'
    BY DEF Inherit, Inherited, IInv, Tables
  <1> HIDE DEF src
  <1>3. KeysUnique'
    BY <1>1 DEF IInv, KeysUnique
  <1>4. SlotsFresh'
    BY <1>1 DEF IInv, SlotsFresh
  <1> QED BY <1>2, <1>3, <1>4 DEF IInv

\* The invariant is inductive.
LEMMA Inductive == Spec => []IInv
  <1>1. Init => IInv
    BY EnvAssumption DEF Init, IInv, Tables, KeysUnique, SlotsFresh, Slots
  <1>2. IInv /\ [Next]_vars => IInv'
    <2> SUFFICES ASSUME IInv, [Next]_vars PROVE IInv'
      OBVIOUS
    <2>1. ASSUME NEW p \in Procs, NEW k \in Keys, NEW v \in Vals, SetEnv(p, k, v)
          PROVE  IInv'
      BY <2>1, SetEnvKeeps
    <2>2. ASSUME NEW p \in Procs, NEW q \in Procs, Inherit(p, q) PROVE IInv'
      BY <2>2, InheritKeeps
    <2>3. CASE UNCHANGED vars
      BY <2>3 DEF vars, IInv, Tables, KeysUnique, SlotsFresh
    <2> QED BY <2>1, <2>2, <2>3 DEF Next
  <1> QED BY <1>1, <1>2, PTL DEF Spec

\* No table ever holds a key twice, for any number of slots.
THEOREM KeysStayUnique == Spec => []KeysUnique
  <1>1. IInv => KeysUnique
    BY DEF IInv
  <1> QED BY <1>1, Inductive, PTL

\* printEnv never prints a value that a later export has replaced, in whatever
\* order variables are exported, evicted and inherited.
THEOREM EnvironmentFresh == Spec => []NeverStale
  <1>1. IInv => NeverStale
    <2> SUFFICES ASSUME IInv, NEW p \in Procs, NEW k \in Keys
                 PROVE  PrintEnv(p, k) \in {exported[p][k], None}
      BY DEF NeverStale
    <2>1. CASE \E i \in Slots : echo_var_key[p][i] = k
      <3>1. Slot(p, k) \in Slots /\ echo_var_key[p][Slot(p, k)] = k
        BY <2>1, SlotType DEF IInv
      <3>2. echo_var[p][Slot(p, k)] = exported[p][k]
        BY <3>1, EnvAssumption DEF IInv, SlotsFresh
      <3> QED BY <2>1, <3>2 DEF PrintEnv
    <2>2. CASE ~\E i \in Slots : echo_var_key[p][i] = k
      BY <2>2 DEF PrintEnv
    <2> QED BY <2>1, <2>2
  <1> QED BY <1>1, Inductive, PTL

\* The place in created of what is in slot i, when the next new key goes to slot n
\* and the table is full: the oldest key is in slot n.
Place(i, n) == IF i >= n THEN (i - n) + 1 ELSE ((i + ENV_SLOTS) - n) + 1

\* The table of one process is created, from the slot echo_count on.
Ordered(p) ==
    /\ created[p] \in Seq(Keys) /\ Len(created[p]) \in 1..ENV_SLOTS
    /\ Len(created[p]) < ENV_SLOTS =>
         /\ echo_count[p] = Len(created[p])
         /\ \A i \in Slots : echo_var_key[p][i] =
              IF i < Len(created[p]) THEN created[p][i + 1] ELSE None
    /\ Len(created[p]) = ENV_SLOTS =>
         \A i \in Slots : echo_var_key[p][i] = created[p][Place(i, echo_count[p])]

OrderInv == DOMAIN created = Procs /\ \A p \in Procs : Ordered(p)

\* Places are places, and every one is some slot's.
LEMMA PlaceIs ==
    ASSUME NEW n \in Slots
    PROVE  /\ \A i \in Slots : Place(i, n) \in 1..ENV_SLOTS
           /\ \A j \in 1..ENV_SLOTS : \E i \in Slots : Place(i, n) = j
           /\ \A i \in Slots : i # n => Place(i, n) \in 2..ENV_SLOTS
                                        /\ Place(i, NextCount(n)) = Place(i, n) - 1
           /\ Place(n, NextCount(n)) = ENV_SLOTS
  <1>1. ENV_SLOTS \in Nat \ {0, 1} /\ n \in 0..(ENV_SLOTS - 1)
    BY EnvAssumption DEF Slots
  <1>2. \A i \in Slots : Place(i, n) \in 1..ENV_SLOTS
    BY <1>1 DEF Slots, Place
  <1>3. ASSUME NEW j \in 1..ENV_SLOTS PROVE \E i \in Slots : Place(i, n) = j
    <2>1. CASE n + j - 1 < ENV_SLOTS
      <3>1. n + j - 1 \in Slots /\ Place(n + j - 1, n) = j
        BY <1>1, <2>1 DEF Slots, Place
      <3> QED BY <3>1
    <2>2. CASE ~(n + j - 1 < ENV_SLOTS)
      <3>1. n + j - 1 - ENV_SLOTS \in Slots /\ Place(n + j - 1 - ENV_SLOTS, n) = j
        BY <1>1, <2>2 DEF Slots, Place
      <3> QED BY <3>1
    <2> QED BY <2>1, <2>2
  <1>4. ASSUME NEW i \in Slots, i # n
        PROVE  Place(i, n) \in 2..ENV_SLOTS /\ Place(i, NextCount(n)) = Place(i, n) - 1
    BY <1>1, <1>4 DEF Slots, Place, NextCount
  <1>5. Place(n, NextCount(n)) = ENV_SLOTS
    BY <1>1 DEF Place, NextCount
  <1> QED BY <1>2, <1>3, <1>4, <1>5

\* A new key is the last of the queue, and the others move up when it is full.
LEMMA QueuedIs ==
    ASSUME NEW s \in Seq(Keys), NEW k \in Keys, Len(s) \in 1..ENV_SLOTS
    PROVE  /\ Queued(s, k) \in Seq(Keys)
           /\ Len(s) < ENV_SLOTS => /\ Len(Queued(s, k)) = Len(s) + 1
                                    /\ Queued(s, k)[Len(s) + 1] = k
                                    /\ \A j \in 1..Len(s) : Queued(s, k)[j] = s[j]
           /\ Len(s) = ENV_SLOTS => /\ Len(Queued(s, k)) = ENV_SLOTS
                                    /\ Queued(s, k)[ENV_SLOTS] = k
                                    /\ \A j \in 2..ENV_SLOTS : Queued(s, k)[j - 1] = s[j]
  <1>0. ENV_SLOTS \in Nat \ {0, 1}
    BY EnvAssumption
  <1>1. CASE Len(s) < ENV_SLOTS
    <2>1. Queued(s, k) = Append(s, k)
      BY <1>1 DEF Queued
    <2> QED BY <1>0, <1>1, <2>1
  <1>2. CASE Len(s) = ENV_SLOTS
    <2> DEFINE u == Tail(s)
    <2>1. Queued(s, k) = Append(u, k)
      BY <1>0, <1>2 DEF Queued
    <2>2. u \in Seq(Keys) /\ Len(u) = ENV_SLOTS - 1
      BY <1>0, <1>2
    <2>3. \A j \in 1..(ENV_SLOTS - 1) : u[j] = s[j + 1]
      BY <1>0, <1>2
    <2> HIDE DEF u
    <2>4. /\ Queued(s, k) \in Seq(Keys) /\ Len(Queued(s, k)) = ENV_SLOTS
          /\ Queued(s, k)[ENV_SLOTS] = k
      BY <1>0, <2>1, <2>2
    <2>5. ASSUME NEW j \in 2..ENV_SLOTS PROVE Queued(s, k)[j - 1] = s[j]
      <3>1. j - 1 \in 1..(ENV_SLOTS - 1) /\ (j - 1) + 1 = j
        BY <1>0
      <3>2. Queued(s, k)[j - 1] = u[j - 1]
        BY <1>0, <2>1, <2>2, <3>1
      <3> QED BY <2>3, <3>1, <3>2
    <2> QED BY <1>0, <1>2, <2>4, <2>5
  <1> QED BY <1>0, <1>1, <1>2

\* setEnv and the copies of fork and execve keep the order.
LEMMA OrderKeeps ==
    ASSUME IInv, OrderInv, [Next]_vars
    PROVE  OrderInv'
  <1>1. ASSUME NEW p \in Procs, NEW k \in Keys, NEW v \in Vals, SetEnv(p, k, v)
        PROVE  OrderInv'
    <2> DEFINE c == created[p]
               n == echo_count[p]
    <2>0. /\ echo_count \in [Procs -> Slots]
          /\ echo_var_key \in [Procs -> [Slots -> Keys \cup {None}]]
      BY DEF IInv, Tables
    <2>1. CASE \E i \in Slots : echo_var_key[p][i] = k
      <3>1. Slot(p, k) \in Slots /\ echo_var_key[p][Slot(p, k)] = k
        BY <2>1, SlotType DEF IInv
      <3>2. UNCHANGED <<echo_count, created>>
        BY <1>1, <2>1 DEF SetEnv
      <3>3. echo_var_key' = [echo_var_key EXCEPT ![p][Slot(p, k)] = k]
        BY <1>1 DEF SetEnv
      <3>4. \A q \in Procs, i \in Slots : echo_var_key'[q][i] = echo_var_key[q][i]
        BY <2>0, <3>1, <3>3
      <3> QED BY <3>2, <3>4 DEF OrderInv, Ordered
    <2>2. CASE ~\E i \in Slots : echo_var_key[p][i] = k
      <3>1. /\ echo_var_key' = [echo_var_key EXCEPT ![p][n] = k]
            /\ echo_count' = [echo_count EXCEPT ![p] = NextCount(n)]
            /\ created' = [created EXCEPT ![p] = Queued(c, k)]
        BY <1>1, <2>2 DEF SetEnv, Slot
      <3>2. /\ echo_count'[p] = NextCount(n) /\ created'[p] = Queued(c, k)
            /\ \A i \in Slots : echo_var_key'[p][i] = IF i = n THEN k ELSE echo_var_key[p][i]
            /\ DOMAIN created' = Procs
        BY <2>0, <3>1 DEF OrderInv
      <3>3. \A q \in Procs : q # p => /\ echo_count'[q] = echo_count[q]
                                      /\ created'[q] = created[q]
                                      /\ echo_var_key'[q] = echo_var_key[q]
        BY <2>0, <3>1 DEF OrderInv
      <3>4. \A q \in Procs : q # p => Ordered(q)'
        BY <3>3 DEF OrderInv, Ordered
      <3>5. n \in Slots /\ c \in Seq(Keys) /\ Len(c) \in 1..ENV_SLOTS
            /\ ENV_SLOTS \in Nat \ {0, 1}
        BY <2>0, EnvAssumption DEF OrderInv, Ordered
      <3>6. CASE Len(c) < ENV_SLOTS
        <4>1. /\ n = Len(c)
              /\ \A i \in Slots : echo_var_key[p][i] = IF i < Len(c) THEN c[i + 1] ELSE None
          BY <3>6 DEF OrderInv, Ordered
        <4>2. /\ created'[p] \in Seq(Keys) /\ Len(created'[p]) = Len(c) + 1
              /\ created'[p][Len(c) + 1] = k
              /\ \A j \in 1..Len(c) : created'[p][j] = c[j]
          BY <3>2, <3>5, <3>6, QueuedIs
        <4>3. ASSUME NEW i \in Slots
              PROVE  echo_var_key'[p][i] = IF i < Len(c) + 1 THEN created'[p][i + 1] ELSE None
          <5>1. i \in Nat
            BY <3>5 DEF Slots
          <5>2. CASE i = n
            BY <3>2, <3>5, <4>1, <4>2, <5>2
          <5>3. CASE i < n
            <6>1. i + 1 \in 1..Len(c) /\ i < Len(c) + 1
              BY <3>5, <4>1, <5>1, <5>3
            <6> QED BY <3>2, <3>5, <4>1, <4>2, <5>1, <5>3, <6>1
          <5>4. CASE i > n
            BY <3>2, <3>5, <4>1, <5>1, <5>4
          <5> QED BY <3>5, <4>1, <5>1, <5>2, <5>3, <5>4
        <4>4. CASE Len(c) + 1 < ENV_SLOTS
          <5>1. NextCount(n) = Len(c) + 1
            BY <3>5, <4>1, <4>4 DEF NextCount
          <5>2. Ordered(p)'
            BY <3>2, <3>5, <4>2, <4>3, <4>4, <5>1 DEF Ordered
          <5> QED BY <3>2, <3>4, <5>2 DEF OrderInv
        <4>5. CASE Len(c) + 1 = ENV_SLOTS
          <5>1. NextCount(n) = 0
            BY <3>5, <4>1, <4>5 DEF NextCount
          <5>2. \A i \in Slots : i < Len(c) + 1 /\ Place(i, 0) = i + 1
            BY <3>5, <4>5 DEF Slots, Place
          <5>3. \A i \in Slots : echo_var_key'[p][i] = created'[p][Place(i, echo_count'[p])]
            BY <3>2, <4>3, <5>1, <5>2
          <5>4. Ordered(p)'
            BY <3>5, <4>2, <4>5, <5>3 DEF Ordered
          <5> QED BY <3>2, <3>4, <5>4 DEF OrderInv
        <4> QED BY <3>5, <3>6, <4>4, <4>5
      <3>7. CASE Len(c) = ENV_SLOTS
        <4>1. \A i \in Slots : echo_var_key[p][i] = c[Place(i, n)]
          BY <3>7 DEF OrderInv, Ordered
        <4>2. /\ created'[p] \in Seq(Keys) /\ Len(created'[p]) = ENV_SLOTS
              /\ created'[p][ENV_SLOTS] = k
              /\ \A j \in 2..ENV_SLOTS : created'[p][j - 1] = c[j]
          <5>1. /\ Queued(c, k) \in Seq(Keys) /\ Len(Queued(c, k)) = ENV_SLOTS
                /\ Queued(c, k)[ENV_SLOTS] = k
                /\ \A j \in 2..ENV_SLOTS : Queued(c, k)[j - 1] = c[j]
            <6> HIDE DEF c
            <6> QED BY <3>5, <3>7, QueuedIs
          <5> QED BY <3>2, <5>1
        <4>3. ASSUME NEW i \in Slots
              PROVE  echo_var_key'[p][i] = created'[p][Place(i, NextCount(n))]
          <5>1. CASE i = n
            BY <3>2, <3>5, <4>2, <5>1, PlaceIs
          <5>2. CASE i # n
            <6>1. Place(i, n) \in 2..ENV_SLOTS /\ Place(i, NextCount(n)) = Place(i, n) - 1
              BY <3>5, <5>2, PlaceIs
            <6> QED BY <3>2, <4>1, <4>2, <5>2, <6>1
          <5> QED BY <5>1, <5>2
        <4>4. Ordered(p)'
          BY <3>2, <3>5, <4>2, <4>3 DEF Ordered
        <4> QED BY <3>2, <3>4, <4>4 DEF OrderInv
      <3> QED BY <3>5, <3>6, <3>7
    <2> QED BY <2>1, <2>2
  <1>2. ASSUME NEW p \in Procs, NEW q \in Procs, Inherit(p, q) PROVE OrderInv'
    <2>1. /\ DOMAIN echo_var_key = Procs /\ DOMAIN echo_count = Procs /\ DOMAIN created = Procs
      BY DEF IInv, Tables, OrderInv
    <2>2. /\ echo_var_key' = [echo_var_key EXCEPT ![q] = echo_var_key[p]]
          /\ echo_count' = [echo_count EXCEPT ![q] = echo_count[p]]
          /\ created' = [created EXCEPT ![q] = created[p]]
      BY <1>2 DEF Inherit
    <2>3. ASSUME NEW r \in Procs PROVE Ordered(r)'
      <3>1. \E o \in Procs : /\ echo_var_key'[r] = echo_var_key[o] /\ echo_count'[r] = echo_count[o]
                             /\ created'[r] = created[o]
        BY <2>1, <2>2
      <3> QED BY <3>1 DEF OrderInv, Ordered
    <2> QED BY <2>1, <2>2, <2>3 DEF OrderInv
  <1>3. CASE UNCHANGED vars
    BY <1>3 DEF vars, OrderInv, Ordered
  <1> QED BY <1>1, <1>2, <1>3 DEF Next

\* Of an ordered table no key is missing and none is older than the last ENV_SLOTS.
LEMMA OrderedEvicts ==
    ASSUME IInv, OrderInv
    PROVE  EvictsOldest
  <1> SUFFICES ASSUME NEW p \in Procs
               PROVE  {echo_var_key[p][i] : i \in Slots} \ {None}
                        = {created[p][j] : j \in DOMAIN created[p]}
    BY DEF EvictsOldest
  <1> DEFINE c == created[p]
             n == echo_count[p]
  <1>1. n \in Slots /\ c \in Seq(Keys) /\ Len(c) \in 1..ENV_SLOTS /\ DOMAIN c = 1..Len(c)
        /\ ENV_SLOTS \in Nat \ {0, 1} /\ \A j \in 1..Len(c) : c[j] # None
    BY EnvAssumption DEF OrderInv, Ordered, IInv, Tables
  <1>2. ASSUME NEW i \in Slots, echo_var_key[p][i] # None
        PROVE  \E j \in DOMAIN c : echo_var_key[p][i] = c[j]
    <2>1. CASE Len(c) < ENV_SLOTS
      <3>1. i < Len(c) /\ echo_var_key[p][i] = c[i + 1]
        BY <1>2, <2>1 DEF OrderInv, Ordered
      <3>2. i + 1 \in DOMAIN c
        BY <1>1, <3>1 DEF Slots
      <3> QED BY <3>1, <3>2
    <2>2. CASE Len(c) = ENV_SLOTS
      <3>1. echo_var_key[p][i] = c[Place(i, n)] /\ Place(i, n) \in DOMAIN c
        BY <1>1, <2>2, PlaceIs DEF OrderInv, Ordered
      <3> QED BY <3>1
    <2> QED BY <1>1, <2>1, <2>2
  <1>3. ASSUME NEW j \in DOMAIN c PROVE \E i \in Slots : echo_var_key[p][i] = c[j]
    <2>1. CASE Len(c) < ENV_SLOTS
      <3>1. j - 1 \in Slots /\ j - 1 < Len(c) /\ (j - 1) + 1 = j
        BY <1>1, <2>1 DEF Slots
      <3>2. echo_var_key[p][j - 1] = c[j]
        BY <2>1, <3>1 DEF OrderInv, Ordered
      <3> QED BY <3>1, <3>2
    <2>2. CASE Len(c) = ENV_SLOTS
      <3>1. PICK i \in Slots : Place(i, n) = j
        BY <1>1, <2>2, PlaceIs
      <3>2. echo_var_key[p][i] = c[j]
        BY <2>2, <3>1 DEF OrderInv, Ordered
      <3> QED BY <3>2
    <2> QED BY <1>1, <2>1, <2>2
  <1> QED BY <1>1, <1>2, <1>3

\* The table of every process holds the ENV_SLOTS variables created last: the one
\* that a new variable overwrites is the oldest.
THEOREM OldestGivesWay == Spec => []EvictsOldest
  <1>1. Init => OrderInv
    <2> SUFFICES ASSUME Init, NEW p \in Procs PROVE Ordered(p) /\ DOMAIN created = Procs
      BY DEF OrderInv, Init
    <2>1. created[p] = <<Path>> /\ echo_count[p] = 1 /\ DOMAIN created = Procs
          /\ \A i \in Slots : echo_var_key[p][i] = IF i = 0 THEN Path ELSE None
      BY DEF Init
    <2>2. ENV_SLOTS \in Nat \ {0, 1} /\ Path \in Keys /\ \A i \in Slots : i < 1 <=> i = 0
      BY EnvAssumption DEF Slots
    <2> QED BY <2>1, <2>2 DEF Ordered
  <1>2. IInv /\ OrderInv /\ [Next]_vars => OrderInv'
    BY OrderKeeps
  <1>3. IInv /\ OrderInv => EvictsOldest
    BY OrderedEvicts
  <1> QED BY <1>1, <1>2, <1>3, Inductive, PTL DEF Spec

-----------------------------------------------------------------------------
(* Timer.                                                                  *)

\* From one number to the next the remainder grows by one or starts again.
LEMMA ModStep ==
    ASSUME NEW n \in Nat, NEW b \in Nat \ {0}
    PROVE  /\ n % b \in 0..(b - 1) /\ n \div b \in Nat
           /\ (n + 1) % b \in {0, (n % b) + 1}
  <1> DEFINE d == n \div b
             m == n % b
  <1>1. d \in Int /\ m \in 0..(b - 1) /\ n = b * d + m
    OBVIOUS
  <1> HIDE DEF d, m
  <1>2. d \in Nat
    <2>1. d <= -1 => b * d <= -b
      BY <1>1, Multiples
    <2> QED BY <1>1, <2>1
  <1>3. CASE m + 1 = b
    <2>1. n + 1 = b * (d + 1) + 0 /\ d + 1 \in Int /\ 0 \in 0..(b - 1) /\ n + 1 \in Int
      BY <1>1, <1>3
    <2>2. (n + 1) % b = 0
      BY <2>1, DivUnique
    <2> QED BY <1>1, <1>2, <2>2 DEF d, m
  <1>4. CASE m + 1 # b
    <2>1. n + 1 = b * d + (m + 1) /\ m + 1 \in 0..(b - 1) /\ n + 1 \in Int
      BY <1>1, <1>4
    <2>2. (n + 1) % b = m + 1
      BY <1>1, <2>1, DivUnique
    <2> QED BY <1>1, <1>2, <2>2 DEF d, m
  <1> QED BY <1>3, <1>4

\* The second that is shown when q seconds have been counted.
Shown(q) == Rem(Rem(q, HOUR), MINUTE)

\* C's remainder of a number that is not negative, and of one that is not positive.
LEMMA RemIs ==
    ASSUME NEW n \in Nat, NEW b \in Nat \ {0}
    PROVE  Rem(n, b) = n % b /\ Rem(-n, b) = -(n % b)
  <1> DEFINE d == n \div b
             m == n % b
  <1>1. d \in Int /\ m \in 0..(b - 1) /\ n = b * d + m
    OBVIOUS
  <1>2. Quot(n, b) = d
    BY DEF Quot
  <1>3. Quot(-n, b) = -d
    <2>1. CASE n <= 0
      <3>1. n = b * 0 + 0 /\ 0 \in 0..(b - 1)
        BY <2>1
      <3>2. d <= 0 /\ d >= 0
        BY <3>1, DivUnique
      <3>3. -n = n
        BY <2>1
      <3> HIDE DEF d, m
      <3>4. -d = d
        BY <1>1, <3>2
      <3> QED BY <1>2, <3>3, <3>4
    <2>2. CASE ~(n <= 0)
      <3>1. ~(-n >= 0) /\ -(-n) = n
        BY <2>2
      <3> QED BY <3>1 DEF Quot
    <2> QED BY <2>1, <2>2
  <1> HIDE DEF d, m
  <1>4. Rem(n, b) = n - b * d /\ Rem(-n, b) = (-n) - b * (-d)
    BY <1>2, <1>3 DEF Rem
  <1>5. b * (-d) = -(b * d)
    BY <1>1
  <1>6. Rem(n, b) = m /\ Rem(-n, b) = -m
    BY <1>1, <1>4, <1>5
  <1> QED BY <1>6 DEF m

\* What is shown for a number of seconds and for its negative.
LEMMA ShownIs ==
    ASSUME NEW n \in Nat
    PROVE  /\ Shown(n) = (n % HOUR) % MINUTE /\ Shown(-n) = -((n % HOUR) % MINUTE)
           /\ n % HOUR \in Nat /\ (n % HOUR) % MINUTE \in Nat
  <1>1. HOUR \in Nat \ {0} /\ MINUTE \in Nat \ {0}
    BY TimerAssumption
  <1> DEFINE h == n % HOUR
  <1>2. h \in Nat /\ Rem(n, HOUR) = h /\ Rem(-n, HOUR) = -h
    BY <1>1, RemIs, ModStep
  <1> HIDE DEF h
  <1>3. Rem(h, MINUTE) = h % MINUTE /\ Rem(-h, MINUTE) = -(h % MINUTE) /\ h % MINUTE \in Nat
    BY <1>1, <1>2, RemIs, ModStep
  <1> QED BY <1>2, <1>3 DEF Shown, h

\* The clock never goes forward by more than one second.
LEMMA ShownStep ==
    ASSUME NEW q \in Int
    PROVE  /\ Shown(q) \in Int /\ (q >= 0 => Shown(q) >= 0) /\ (q <= 0 => Shown(q) <= 0)
           /\ Shown(q) <= Shown(q - 1) + 1
  <1>0. HOUR \in Nat \ {0} /\ MINUTE \in Nat \ {0}
    BY TimerAssumption
  <1> DEFINE S(n) == (n % HOUR) % MINUTE
  <1>1. ASSUME NEW n \in Nat PROVE S(n) \in Nat /\ S(n + 1) \in {0, S(n) + 1}
    <2> DEFINE h == n % HOUR
               g == (n + 1) % HOUR
    <2>1. h \in Nat /\ g \in {0, h + 1}
      <3>1. n % HOUR \in 0..(HOUR - 1) /\ (n + 1) % HOUR \in {0, (n % HOUR) + 1}
        BY <1>0, ModStep
      <3> QED BY <1>0, <3>1
    <2> HIDE DEF h, g
    <2>2. h % MINUTE \in Nat /\ (h + 1) % MINUTE \in {0, (h % MINUTE) + 1}
      BY <1>0, <2>1, ModStep
    <2>3. 0 % MINUTE = 0
      <3>1. 0 = MINUTE * 0 + 0 /\ 0 \in 0..(MINUTE - 1)
        BY <1>0
      <3> QED BY <1>0, <3>1, DivUnique
    <2> QED BY <2>1, <2>2, <2>3 DEF h, g
  <1>2. CASE q >= 1
    <2>1. q - 1 \in Nat /\ q \in Nat /\ (q - 1) + 1 = q
      BY <1>2
    <2>2. Shown(q) = S(q) /\ Shown(q - 1) = S(q - 1)
      BY <2>1, ShownIs
    <2>3. S(q - 1) \in Nat /\ S(q) \in {0, S(q - 1) + 1}
      BY <1>1, <2>1
    <2> HIDE DEF S
    <2> QED BY <1>2, <2>2, <2>3
  <1>3. CASE q <= 0
    <2> DEFINE n == -q
    <2>1. n \in Nat /\ q = -n /\ q - 1 = -(n + 1) /\ n + 1 \in Nat
      BY <1>3
    <2> HIDE DEF n
    <2>2. Shown(q) = -S(n) /\ Shown(q - 1) = -S(n + 1)
      BY <2>1, ShownIs
    <2>3. S(n) \in Nat /\ S(n + 1) \in {0, S(n) + 1}
      BY <1>1, <2>1
    <2>4. n <= 0 => Shown(q) >= 0
      <3>1. ASSUME n <= 0 PROVE Shown(q) >= 0
        <4>1. q = n
          BY <2>1, <3>1
        <4>2. Shown(n) = S(n)
          BY <2>1, ShownIs
        <4> HIDE DEF S
        <4> QED BY <2>3, <4>1, <4>2
      <3> QED BY <3>1
    <2>5. q >= 0 => n <= 0
      BY <1>3, <2>1
    <2> HIDE DEF S
    <2> QED BY <1>3, <2>2, <2>3, <2>4, <2>5
  <1> QED BY <1>2, <1>3

\* A tick that completes a second, and one that does not.
LEMMA TickCounts ==
    ASSUME NEW t \in Int
    PROVE  /\ Rem(t + 1, HZ) = 0 => (t + 1) \div HZ = t \div HZ + 1
                                    /\ Quot(t + 1, HZ) = (t + 1) \div HZ
                                    /\ (t + 1) % HZ = 0 /\ t % HZ = HZ - 1
           /\ Rem(t + 1, HZ) # 0 => (t + 1) \div HZ = t \div HZ
                                    /\ (t + 1) % HZ = (t % HZ) + 1
           /\ t % HZ \in 0..(HZ - 1)
  <1>0. HZ \in Nat \ {0}
    BY TimerAssumption
  <1> DEFINE q == t \div HZ
             m == t % HZ
             k == Quot(t + 1, HZ)
  <1>1. q \in Int /\ m \in 0..(HZ - 1) /\ t = HZ * q + m
    BY <1>0
  <1>2. k \in Int
    BY <1>0 DEF Quot
  <1>3. Rem(t + 1, HZ) = (t + 1) - HZ * k
    BY DEF Rem
  <1>k. (t + 1 >= 0 => k = (t + 1) \div HZ) /\ (t + 1 < 0 => k = -((-(t + 1)) \div HZ))
    BY DEF Quot
  <1> HIDE DEF q, m, k
  <1>4. CASE Rem(t + 1, HZ) = 0
    <2>1. t + 1 = HZ * k + 0 /\ 0 \in 0..(HZ - 1) /\ t + 1 \in Int
      BY <1>0, <1>2, <1>3, <1>4
    <2>2. (t + 1) \div HZ = k /\ (t + 1) % HZ = 0
      BY <1>0, <1>2, <2>1, DivUnique
    <2>3. t = HZ * (k - 1) + (HZ - 1) /\ HZ - 1 \in 0..(HZ - 1) /\ k - 1 \in Int
      BY <1>0, <1>2, <2>1
    <2>4. t \div HZ = k - 1 /\ t % HZ = HZ - 1
      BY <1>0, <2>3, DivUnique
    <2> QED BY <1>0, <1>2, <1>4, <2>2, <2>4 DEF k
  <1>5. CASE Rem(t + 1, HZ) # 0
    <2>1. m + 1 # HZ
      <3> SUFFICES ASSUME m + 1 = HZ PROVE FALSE
        OBVIOUS
      <3>1. t + 1 = HZ * (q + 1) + 0 /\ 0 \in 0..(HZ - 1) /\ q + 1 \in Int /\ t + 1 \in Int
        BY <1>0, <1>1
      <3>2. (t + 1) \div HZ = q + 1
        BY <1>0, <3>1, DivUnique
      <3>3. k = q + 1
        <4>1. CASE t + 1 >= 0
          BY <1>k, <3>2, <4>1
        <4>2. CASE t + 1 < 0
          <5>1. -(t + 1) = HZ * (-(q + 1)) + 0 /\ -(q + 1) \in Int /\ -(t + 1) \in Int
            BY <1>0, <1>1, <3>1
          <5>2. (-(t + 1)) \div HZ = -(q + 1)
            BY <1>0, <3>1, <5>1, DivUnique
          <5> QED BY <1>1, <1>k, <4>2, <5>2
        <4> QED BY <4>1, <4>2
      <3> QED BY <1>0, <1>1, <1>3, <1>5, <3>1, <3>3
    <2>2. t + 1 = HZ * q + (m + 1) /\ m + 1 \in 0..(HZ - 1) /\ t + 1 \in Int
      BY <1>0, <1>1, <2>1
    <2>3. (t + 1) \div HZ = q /\ (t + 1) % HZ = m + 1
      BY <1>0, <1>1, <2>2, DivUnique
    <2> QED BY <1>1, <1>5, <2>3 DEF q, m
  <1> QED BY <1>4, <1>5

\* Every variable has its type.
TypeInv ==
    /\ timer_tic \in IntMin..IntMax /\ current_sec \in Int
    /\ pc \in {"user", "sleep"} /\ ti \in Int /\ asked \in Nat /\ passed \in Nat

\* current_sec belongs to the last full second, or, from the overflow of timer_tic
\* to the next full second, to one before the overflow.
ClockInv == \/ current_sec = Shown(timer_tic \div HZ)
            \/ timer_tic < 0 /\ current_sec >= 0

\* How many seconds the clock has gone forward since sleep read it.
Gone == (current_sec + asked) - ti

\* The ticks since the clock last went forward.  Before the overflow has reached the
\* clock, and in a second that ends a minute before 0, nothing is said of them: the
\* next second does not go forward.
Since == IF timer_tic < 0 /\ current_sec >= 0 THEN 0 ELSE timer_tic % HZ

\* While it sleeps, every second that the clock went forward took HZ ticks, except
\* the first one, of which only the last tick is certain.
SleepInv == pc = "sleep" /\ passed < asked * HZ /\ Gone >= 1
              => passed >= (Gone - 1) * HZ + 1 + Since

\* The range of int.
LEMMA IntRange == IntMin \in Int /\ IntMax \in Nat /\ IntMin < 0
  BY TimerAssumption DEF IntMin, IntMax

\* A larger number of seconds takes no fewer ticks, and one second more takes HZ.
LEMMA Ticks ==
    ASSUME NEW a \in Int, NEW b \in Int
    PROVE  /\ a * HZ \in Int /\ b * HZ \in Int
           /\ a <= b => a * HZ <= b * HZ
           /\ a = b + 1 => a * HZ = b * HZ + HZ
           /\ a = 0 => a * HZ = 0
           /\ a \in Nat => a * HZ \in Nat
  <1>0. HZ \in Nat \ {0}
    BY TimerAssumption
  <1>1. a * HZ \in Int /\ b * HZ \in Int /\ (b - a) * HZ = b * HZ - a * HZ
    BY <1>0
  <1>2. ASSUME NEW n \in Nat PROVE n * HZ \in Nat
    BY <1>0, <1>2
  <1>3. a <= b => a * HZ <= b * HZ
    <2>1. ASSUME a <= b PROVE a * HZ <= b * HZ
      <3>1. b - a \in Nat
        BY <2>1
      <3>2. (b - a) * HZ \in Nat
        BY <1>2, <3>1
      <3> QED BY <1>1, <3>2
    <2> QED BY <2>1
  <1>4. a = b + 1 => a * HZ = b * HZ + HZ
    BY <1>0
  <1>5. a = 0 => a * HZ = 0
    BY <1>0
  <1> QED BY <1>1, <1>2, <1>3, <1>4, <1>5

\* timer_handler keeps what sleep knows of the clock, if the clock goes forward by
\* one second at most, and by none where Since says nothing.
LEMMA SleepInvKept ==
    ASSUME TypeInv, SleepInv, Tick, TypeInv',
           \/ Gone' <= Gone /\ Since' = 0
           \/ Gone' = Gone /\ Since' <= Since + 1
           \/ Gone' <= Gone + 1 /\ Since' = 0 /\ Since = HZ - 1
    PROVE  SleepInv'
  <1>0. HZ \in Nat \ {0}
    BY TimerAssumption
  <1> DEFINE g == Gone
             h == Gone'
             s == Since
             r == Since'
  <1>1. /\ UNCHANGED <<pc, ti, asked>> /\ asked \in Nat /\ passed \in Nat
        /\ passed' = IF pc = "sleep" /\ passed < asked * HZ THEN passed + 1 ELSE passed
    BY DEF Tick, TypeInv
  <1>2. g \in Int /\ h \in Int
    BY DEF TypeInv, Gone
  <1>3. s \in Int /\ r \in Int
    BY <1>0 DEF TypeInv, Since, IntMin, IntMax
  <1> SUFFICES ASSUME pc = "sleep", passed' < asked * HZ, h >= 1
               PROVE  passed' >= (h - 1) * HZ + 1 + r
    BY <1>1 DEF SleepInv
  <1>4. asked * HZ \in Int
    BY <1>0, <1>1, Ticks
  <1>5. passed' = passed + 1
    BY <1>1, <1>4
  <1>6. g >= 1 => passed >= (g - 1) * HZ + 1 + s
    BY <1>1, <1>4, <1>5 DEF SleepInv
  <1>7. (\/ h <= g /\ r = 0) \/ (h = g /\ r <= s + 1) \/ (h <= g + 1 /\ r = 0 /\ s = HZ - 1)
    OBVIOUS
  <1>s. s >= 0
    BY <1>0, TickCounts DEF TypeInv, Since, IntMin, IntMax
  <1> HIDE DEF g, h, s, r
  <1>8. /\ (h - 1) * HZ \in Int /\ (g - 1) * HZ \in Int /\ g * HZ = (g - 1) * HZ + HZ
        /\ h <= g => (h - 1) * HZ <= (g - 1) * HZ
        /\ h <= g + 1 => (h - 1) * HZ <= g * HZ
        /\ h = 1 => (h - 1) * HZ = 0
    <2>1. h - 1 \in Int /\ g - 1 \in Int /\ g = (g - 1) + 1
      BY <1>2
    <2> DEFINE e == h - 1
               f == g - 1
    <2>2. /\ e * HZ \in Int /\ f * HZ \in Int /\ g * HZ = f * HZ + HZ
          /\ e <= f => e * HZ <= f * HZ
          /\ e <= g => e * HZ <= g * HZ
          /\ e = 0 => e * HZ = 0
      <3> HIDE DEF e, f
      <3>1. e \in Int /\ f \in Int /\ g = f + 1
        BY <1>2, <2>1 DEF e, f
      <3> QED BY <1>2, <3>1, Ticks
    <2>3. (h <= g => e <= f) /\ (h <= g + 1 => e <= g) /\ (h = 1 => e = 0)
      BY <1>2
    <2> QED BY <2>2, <2>3
  <1>9. CASE h <= g /\ r = 0
    BY <1>0, <1>1, <1>2, <1>3, <1>5, <1>6, <1>8, <1>9, <1>s
  <1>10. CASE h = g /\ r <= s + 1
    BY <1>0, <1>1, <1>2, <1>3, <1>5, <1>6, <1>8, <1>10
  <1>11. CASE h <= g + 1 /\ r = 0 /\ s = HZ - 1
    <2>1. CASE g >= 1
      BY <1>0, <1>1, <1>2, <1>3, <1>5, <1>6, <1>8, <1>11, <2>1
    <2>2. CASE ~(g >= 1)
      <3>1. h = 1
        BY <1>2, <1>11, <2>2
      <3> QED BY <1>1, <1>5, <1>8, <1>11, <3>1
    <2> QED BY <2>1, <2>2
  <1> QED BY <1>7, <1>9, <1>10, <1>11

\* timer_handler keeps the types, the clock, and what sleep knows of it.
LEMMA TickKeeps ==
    ASSUME TypeInv, ClockInv, SleepInv, Tick
    PROVE  TypeInv' /\ ClockInv' /\ SleepInv'
  <1>0. HZ \in Nat \ {0} /\ timer_tic \in Int /\ IntMin \in Int /\ IntMax \in Nat /\ IntMin < 0
        /\ timer_tic <= IntMax /\ timer_tic >= IntMin
    BY IntRange, TimerAssumption DEF TypeInv
  <1>1. timer_tic' = Increment(timer_tic) /\ UNCHANGED <<pc, ti, asked>>
    BY DEF Tick
  <1>r. timer_tic' \in IntMin..IntMax
    BY <1>0, <1>1 DEF Increment
  <1>2. timer_tic' \in Int
    BY <1>0, <1>r
  <1>n. passed' \in Nat
    BY DEF Tick, TypeInv
  <1>s. Since \in Int /\ Since >= 0
    BY <1>0, TickCounts DEF Since
  <1>3. CASE Rem(timer_tic', HZ) = 0
    <2>t. PICK u \in Int : u = timer_tic'
      BY <1>2
    <2> DEFINE q == u \div HZ
    <2>1. current_sec' = SecondOf(timer_tic')
      BY <1>3 DEF Tick
    <2>2. Quot(timer_tic', HZ) = q /\ q \in Int /\ u % HZ = 0
      <3>1. u - 1 \in Int /\ (u - 1) + 1 = u
        OBVIOUS
      <3>2. Rem(u, HZ) = 0
        BY <1>3, <2>t
      <3>3. PICK v \in Int : v + 1 = u
        BY <3>1
      <3>4. Quot(v + 1, HZ) = (v + 1) \div HZ /\ (v + 1) % HZ = 0
        BY <3>2, <3>3, TickCounts
      <3>5. Quot(u, HZ) = q /\ u % HZ = 0
        BY <3>3, <3>4
      <3>6. q \in Int
        BY <1>0
      <3> QED BY <2>t, <3>5, <3>6
    <2>3. current_sec' = Shown(q)
      BY <2>1, <2>2, <2>t DEF SecondOf, Shown
    <2>4. \/ Shown(q) <= current_sec
          \/ Shown(q) <= current_sec + 1 /\ Since = HZ - 1
      <3>1. CASE /\ timer_tic' = timer_tic + 1 /\ current_sec = Shown(timer_tic \div HZ)
                 /\ ~(timer_tic < 0 /\ current_sec >= 0)
        <4>1. q = timer_tic \div HZ + 1 /\ timer_tic \div HZ \in Int /\ timer_tic % HZ = HZ - 1
          <5>1. u = timer_tic + 1 /\ Rem(u, HZ) = 0
            BY <1>3, <2>t, <3>1
          <5>2. Rem(timer_tic + 1, HZ) = 0
            BY <5>1
          <5>3. (timer_tic + 1) \div HZ = timer_tic \div HZ + 1 /\ timer_tic % HZ = HZ - 1
            BY <1>0, <5>2, TickCounts
          <5>4. timer_tic \div HZ \in Int
            BY <1>0
          <5> QED BY <5>1, <5>3, <5>4
        <4>2. timer_tic \div HZ = q - 1
          BY <4>1
        <4>3. Shown(q) <= current_sec + 1
          BY <2>2, <3>1, <4>2, ShownStep
        <4>4. Since = HZ - 1
          BY <3>1, <4>1 DEF Since
        <4> QED BY <4>3, <4>4
      <3>2. CASE timer_tic' <= 0 /\ current_sec >= 0
        <4>1. q <= 0
          <5>1. u = HZ * q + (u % HZ) /\ u % HZ \in 0..(HZ - 1)
            BY <1>0
          <5>2. q >= 1 => HZ * q >= HZ
            BY <1>0, <2>2, Multiples
          <5> HIDE DEF q
          <5> QED BY <1>0, <2>2, <2>t, <3>2, <5>1, <5>2
        <4>2. Shown(q) \in Int /\ Shown(q) <= 0
          BY <2>2, <4>1, ShownStep
        <4> HIDE DEF q
        <4> QED BY <1>0, <3>2, <4>2 DEF TypeInv
      <3>3. CASE timer_tic' # timer_tic + 1
        <4>1. timer_tic = IntMax /\ timer_tic' = IntMin
          BY <1>1, <3>3 DEF Increment
        <4>2. current_sec >= 0
          <5>1. timer_tic \div HZ \in Nat
            BY <1>0, <4>1, ModStep
          <5>2. Shown(timer_tic \div HZ) >= 0
            BY <5>1, ShownStep
          <5> QED BY <1>0, <4>1, <5>2 DEF ClockInv
        <4> QED BY <1>0, <3>2, <4>1, <4>2
      <3>4. CASE timer_tic' = timer_tic + 1 /\ timer_tic < 0 /\ current_sec >= 0
        BY <1>0, <3>2, <3>4
      <3> QED BY <3>1, <3>3, <3>4 DEF ClockInv
    <2>5. Shown(q) \in Int
      BY <2>2, ShownStep
    <2>6. TypeInv'
      BY <1>1, <1>n, <1>r, <2>3, <2>5 DEF TypeInv
    <2>7. ClockInv'
      BY <2>3, <2>t DEF ClockInv
    <2> HIDE DEF q
    <2>8. SleepInv'
      <3>1. Since' = 0
        BY <2>2, <2>t DEF Since
      <3>2. \/ Gone' <= Gone
            \/ Gone' <= Gone + 1 /\ Since = HZ - 1
        BY <1>1, <2>3, <2>4, <2>5 DEF Gone, TypeInv
      <3> QED BY <2>6, <3>1, <3>2, SleepInvKept
    <2> QED BY <2>6, <2>7, <2>8
  <1>4. CASE Rem(timer_tic', HZ) # 0
    <2>1. UNCHANGED current_sec
      BY <1>4 DEF Tick
    <2>5. timer_tic' < 0 /\ current_sec >= 0 => Since' = 0
      BY <2>1 DEF Since
    <2>6. \/ timer_tic' < 0 /\ current_sec >= 0
          \/ timer_tic' = timer_tic + 1 /\ ~(timer_tic < 0 /\ current_sec >= 0)
      <3>1. CASE timer_tic' = timer_tic + 1
        <4>1. timer_tic' # 0
          <5>1. Rem(0, HZ) = 0
            <6>1. 0 = HZ * 0 + 0 /\ 0 \in 0..(HZ - 1)
              BY <1>0
            <6>2. 0 % HZ = 0
              BY <1>0, <6>1, DivUnique
            <6> QED BY <1>0, <6>2, RemIs
          <5> QED BY <1>4, <5>1
        <4> QED BY <1>0, <3>1, <4>1
      <3>2. CASE timer_tic' # timer_tic + 1
        <4>1. timer_tic = IntMax /\ timer_tic' = IntMin
          BY <1>1, <3>2 DEF Increment
        <4>2. timer_tic \div HZ \in Nat
          BY <1>0, <4>1, ModStep
        <4>3. Shown(timer_tic \div HZ) >= 0
          BY <4>2, ShownStep
        <4>4. current_sec >= 0
          BY <1>0, <4>1, <4>3 DEF ClockInv
        <4> QED BY <1>0, <4>1, <4>4
      <3> QED BY <3>1, <3>2
    <2>2. ClockInv'
      <3>1. CASE timer_tic' < 0 /\ current_sec >= 0
        BY <2>1, <3>1 DEF ClockInv
      <3>2. CASE timer_tic' = timer_tic + 1 /\ ~(timer_tic < 0 /\ current_sec >= 0)
        <4>1. timer_tic' \div HZ = timer_tic \div HZ
          BY <1>0, <1>4, <3>2, TickCounts
        <4> QED BY <2>1, <3>2, <4>1 DEF ClockInv
      <3> QED BY <2>6, <3>1, <3>2
    <2>3. TypeInv'
      BY <1>1, <1>n, <1>r, <2>1 DEF TypeInv
    <2>4. SleepInv'
      <3>1. Gone' = Gone
        BY <1>1, <2>1 DEF Gone
      <3>2. CASE timer_tic' < 0 /\ current_sec >= 0
        <4>1. Since' = 0
          BY <2>5, <3>2
        <4>2. Since' <= Since + 1
          BY <1>s, <4>1
        <4> QED BY <2>3, <3>1, <4>2, SleepInvKept
      <3>3. CASE timer_tic' = timer_tic + 1 /\ ~(timer_tic < 0 /\ current_sec >= 0)
        <4>1. timer_tic' % HZ = (timer_tic % HZ) + 1
          BY <1>0, <1>4, <3>3, TickCounts
        <4>2. Since = timer_tic % HZ /\ Since' \in {0, timer_tic' % HZ}
          BY <3>3 DEF Since
        <4>3. Since' <= Since + 1
          BY <1>s, <4>1, <4>2
        <4> QED BY <2>3, <3>1, <4>3, SleepInvKept
      <3> QED BY <2>6, <3>2, <3>3
    <2> QED BY <2>2, <2>3, <2>4
  <1> QED BY <1>3, <1>4

\* sleep(val) never returns before val - 1 seconds and one tick have passed, at
\* whatever moment it is called and whatever the overflow does to the clock.
THEOREM SleepLongEnough == TimerSpec => []NotEarly
  <1> DEFINE Inv == TypeInv /\ ClockInv /\ SleepInv
  <1>1. TimerInit => Inv
    <2> SUFFICES ASSUME TimerInit PROVE Inv
      OBVIOUS
    <2>1. HZ \in Nat \ {0} /\ 0 = HZ * 0 + 0 /\ 0 \in 0..(HZ - 1)
      BY TimerAssumption
    <2>2. 0 \div HZ = 0
      BY <2>1, DivUnique
    <2>3. Shown(0) = 0
      <3>1. Shown(0) \in Int /\ Shown(0) >= 0 /\ Shown(0) <= 0
        BY ShownStep
      <3> QED BY <3>1
    <2> QED BY <2>2, <2>3, IntRange DEF TimerInit, TypeInv, ClockInv, SleepInv
  <1>2. Inv /\ [TimerNext]_timervars => Inv'
    <2> SUFFICES ASSUME Inv, [TimerNext]_timervars PROVE Inv'
      OBVIOUS
    <2>1. CASE Tick
      BY <2>1, TickKeeps
    <2>2. CASE Return
      BY <2>2 DEF Return, TypeInv, ClockInv, SleepInv
    <2>3. ASSUME NEW val \in Durations, Sleep(val) PROVE Inv'
      <3>1. val \in Nat
        BY TimerAssumption
      <3>2. Gone' = 0
        BY <2>3, <3>1 DEF Sleep, Deadline, Gone, TypeInv
      <3> QED BY <2>3, <3>1, <3>2 DEF Sleep, Deadline, TypeInv, ClockInv, SleepInv
    <2>4. CASE UNCHANGED timervars
      BY <2>4 DEF timervars, TypeInv, ClockInv, SleepInv, Gone, Since
    <2> QED BY <2>1, <2>2, <2>3, <2>4 DEF TimerNext
  <1>3. Inv => NotEarly
    <2> SUFFICES ASSUME Inv, pc = "sleep", current_sec >= ti
                 PROVE  passed > (asked - 1) * HZ
      BY DEF NotEarly
    <2>1. /\ HZ \in Nat \ {0} /\ timer_tic \in Int /\ asked \in Nat /\ passed \in Nat
          /\ Gone \in Int /\ Gone >= asked
      BY TimerAssumption DEF TypeInv, Gone, IntMin, IntMax
    <2>2. PICK e \in Int : e = asked - 1
      BY <2>1
    <2>3. asked * HZ = e * HZ + HZ /\ e * HZ \in Int
      BY <2>1, <2>2, Ticks
    <2>4. CASE passed >= asked * HZ
      BY <2>1, <2>2, <2>3, <2>4
    <2>5. CASE passed < asked * HZ /\ asked >= 1
      <3>1. Since >= 0 /\ Since \in Int
        BY <2>1, TickCounts DEF Since
      <3>2. PICK h \in Int : h = Gone - 1
        BY <2>1
      <3>3. e <= h
        BY <2>1, <2>2, <3>2
      <3>4. e * HZ <= h * HZ /\ h * HZ \in Int
        BY <3>3, Ticks
      <3>5. passed >= h * HZ + 1 + Since
        BY <2>1, <2>5, <3>2 DEF SleepInv
      <3> QED BY <2>1, <2>2, <2>3, <3>1, <3>4, <3>5
    <2>6. CASE asked = 0
      BY <2>1, <2>2, <2>3, <2>6
    <2> QED BY <2>1, <2>3, <2>4, <2>5, <2>6
  <1> QED BY <1>1, <1>2, <1>3, PTL DEF TimerSpec
=============================================================================

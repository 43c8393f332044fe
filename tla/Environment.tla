---------------------------- MODULE Environment ----------------------------
(***************************************************************************)
(* The environment variables that each PCB carries (setEnv and printEnv in *)
(* sys/process.c): a table of ENV_SLOTS keys and values that is filled     *)
(* round robin, starts with PATH in its first slot, and is copied by fork  *)
(* and execve.  The shell exports a variable with a key that is not empty. *)
(***************************************************************************)
EXTENDS Naturals, Sequences

CONSTANTS Procs,         \* PCBs
          Keys, Path,    \* names of variables; "PATH"
          Vals, Bin,     \* values; "rootfs/bin/"
          None,          \* an empty string
          ENV_SLOTS      \* slots of echo_var: 5

ASSUME EnvAssumption ==
    /\ Path \in Keys /\ Bin \in Vals /\ None \notin Keys /\ None \notin Vals
    /\ ENV_SLOTS \in Nat \ {0, 1}

Slots == 0..(ENV_SLOTS - 1)

VARIABLES echo_var_key, echo_var, echo_count,   \* fields of each PCB
          exported,   \* what was exported last for each key, by the PCB or
                      \* the one it inherited the key from
          created     \* the last ENV_SLOTS keys that were new, in order

vars == <<echo_var_key, echo_var, echo_count, exported, created>>

-----------------------------------------------------------------------------
\* Mutant of Slot: a key that is there already is not looked for.
SlotNext(p, k) == echo_count[p]

\* Where setEnv puts k: in the slot that has k, else in the next one.
Slot(p, k) ==
    IF \E i \in Slots : echo_var_key[p][i] = k
    THEN CHOOSE i \in Slots : /\ echo_var_key[p][i] = k
                              /\ \A j \in Slots : echo_var_key[p][j] = k => i <= j
    ELSE echo_count[p]

\* Mutant of NextCount: the slot of PATH is spared.
NextCountSparesFirst(n) == IF n + 1 = ENV_SLOTS THEN 1 ELSE n + 1

NextCount(n) == IF n + 1 = ENV_SLOTS THEN 0 ELSE n + 1

\* What printEnv prints for k.
PrintEnv(p, k) ==
    IF \E i \in Slots : echo_var_key[p][i] = k THEN echo_var[p][Slot(p, k)] ELSE None

\* The PCB that create_user_process fills in.
Init ==
    /\ echo_var_key = [p \in Procs |-> [i \in Slots |-> IF i = 0 THEN Path ELSE None]]
    /\ echo_var = [p \in Procs |-> [i \in Slots |-> IF i = 0 THEN Bin ELSE None]]
    /\ echo_count = [p \in Procs |-> 1]
    /\ exported = [p \in Procs |-> [k \in Keys |-> IF k = Path THEN Bin ELSE None]]
    /\ created = [p \in Procs |-> <<Path>>]

\* A new key joins the last ENV_SLOTS ones.
Queued(s, k) == IF Len(s) < ENV_SLOTS THEN Append(s, k) ELSE Append(Tail(s), k)

SetEnv(p, k, v) ==
    /\ echo_var_key' = [echo_var_key EXCEPT ![p][Slot(p, k)] = k]
    /\ echo_var' = [echo_var EXCEPT ![p][Slot(p, k)] = v]
    /\ IF \E i \in Slots : echo_var_key[p][i] = k
       THEN UNCHANGED <<echo_count, created>>
       ELSE /\ echo_count' = [echo_count EXCEPT ![p] = NextCount(echo_count[p])]
            /\ created' = [created EXCEPT ![p] = Queued(created[p], k)]
    /\ exported' = [exported EXCEPT ![p][k] = v]

\* Mutant of Inherited: the values are not copied.
InheritedNot(p, q) == echo_var[q]

Inherited(p, q) == echo_var[p]

\* copy_parent_structure and execve: q is a new PCB, with the table of p.
Inherit(p, q) ==
    /\ p # q
    /\ echo_var_key' = [echo_var_key EXCEPT ![q] = echo_var_key[p]]
    /\ echo_var' = [echo_var EXCEPT ![q] = Inherited(p, q)]
    /\ echo_count' = [echo_count EXCEPT ![q] = echo_count[p]]
    /\ exported' = [exported EXCEPT ![q] = exported[p]]
    /\ created' = [created EXCEPT ![q] = created[p]]

Next == \/ \E p \in Procs, k \in Keys, v \in Vals : SetEnv(p, k, v)
        \/ \E p, q \in Procs : Inherit(p, q)

Spec == Init /\ [][Next]_vars

-----------------------------------------------------------------------------
\* A key is in at most one slot of a table.
KeysUnique ==
    \A p \in Procs, i, j \in Slots :
      echo_var_key[p][i] = echo_var_key[p][j] /\ echo_var_key[p][i] # None => i = j

\* printEnv prints the value exported last, by this process or by the one it
\* inherited the variable from, or nothing if the variable was overwritten.
NeverStale ==
    \A p \in Procs, k \in Keys : PrintEnv(p, k) \in {exported[p][k], None}

\* The variable that gives way to a new one is the oldest: the table holds the
\* ENV_SLOTS keys created last, PATH being the first.
EvictsOldest ==
    \A p \in Procs :
      {echo_var_key[p][i] : i \in Slots} \ {None} = {created[p][j] : j \in DOMAIN created[p]}
=============================================================================

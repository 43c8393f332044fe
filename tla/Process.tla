------------------------------ MODULE Process ------------------------------
(***************************************************************************)
(* Processes of SBUnix (sys/process.c): the pid bitmap, the circular list  *)
(* of ready processes, the lists of stopped and of replaced PCBs that wait *)
(* for their memory to be freed, and the switches between processes in     *)
(* wait, execve, exit and kill.                                            *)
(*                                                                         *)
(* All three lists go through the one next_proc field of the PCB, and      *)
(* sys_exit, wait and kill find processes by pid.  A switch happens only   *)
(* inside a system call and interrupt gates keep IF clear, so each handler *)
(* is one action.  What a process does next comes from the programs that   *)
(* are shipped: bin/init and bin/sbush wait for a child as soon as they    *)
(* have forked it, the child replaces itself by another program, commands  *)
(* end, and bin/kill makes one kill call first.                            *)
(***************************************************************************)
EXTENDS Integers, FiniteSets, Sequences

CONSTANTS MaxPcb,             \* bound: PCBs that kmalloc can provide
          MAX_PROCESS_COUNT,  \* bits of processID that are looked at
          IntBits             \* width of int, in which 1 << i is computed

ASSUME PcbAssumption == MaxPcb \in Nat \ {0}
ASSUME PidAssumption == IntBits \in Nat \ {0} /\ MAX_PROCESS_COUNT \in Nat \ {0}

PCBs == 1..MaxPcb
NULL == 0
first_process == 1            \* set once, by create_kernel_thread
NoPid == -1

VARIABLES npcb,               \* PCBs handed out so far; none is ever given back
          processID,          \* the bits set in the pid map
          pid, ppid,          \* fields of each PCB
          next_proc,
          curr_process, stopped_process, forked_process,
          running,            \* the PCB whose registers and CR3 the CPU has
          saved,              \* PCBs whose kern_rsp is that of a call to wait
          freed,              \* PCBs whose memory sys_exit has freed
          prog, pc,           \* the program a PCB runs, and where it is in it
          ret,                \* what fork returned to it
          cpu                 \* "null": endless page fault in the kernel;
                              \* "stack": resumed from a kern_rsp nobody saved

vars == <<npcb, processID, pid, ppid, next_proc, curr_process, stopped_process,
          forked_process, running, saved, freed, prog, pc, ret, cpu>>

Programs == {"none", "kernel", "init", "sbush", "command"}
Labels   == {"main", "forked", "child", "end"}
Pids     == 1..MAX_PROCESS_COUNT \cup {NoPid}

-----------------------------------------------------------------------------
(* The pid map.                                                            *)

\* processID |= (id << i): id is an int, so the top bit of an int is extended
\* over all the higher bits of the 64-bit map.
SetBit(bits, i) ==
    bits \cup {i} \cup (IF i = IntBits - 1 THEN i..(MAX_PROCESS_COUNT - 1) ELSE {})

FreeBits(bits) == (0..(MAX_PROCESS_COUNT - 1)) \ bits

\* get_next_processID: the pid for the lowest clear bit.
NextPid(bits) ==
    IF FreeBits(bits) = {} THEN NoPid
    ELSE 1 + CHOOSE i \in FreeBits(bits) : \A j \in FreeBits(bits) : i <= j

TakePid(bits) == IF NextPid(bits) = NoPid THEN bits ELSE SetBit(bits, NextPid(bits) - 1)

-----------------------------------------------------------------------------
(* Walks along next_proc.                                                  *)

\* The PCB that n steps along f lead to from x.
Follow(f, x) ==
    LET g == [p \in PCBs \cup {NULL} |-> IF p = NULL THEN NULL ELSE f[p]]
        h[n \in 0..MaxPcb] == IF n = 0 THEN x ELSE g[h[n - 1]]
    IN  h

\* The PCBs of the list that starts at x.
Nodes(f, x) == {Follow(f, x)[n] : n \in 0..MaxPcb} \ {NULL}

\* The first PCB of the walk from x that Test holds of.
Find(f, x, Test(_)) ==
    LET h == Follow(f, x)
        hits == {n \in 0..MaxPcb : h[n] # NULL /\ Test(h[n])}
    IN  h[CHOOSE n \in hits : \A m \in hits : n <= m]

\* List x with PCB p put at its end: its head, and the fields that change.
AppendHead(x, p) == IF x = NULL THEN p ELSE x
AppendNext(f, x, p) ==
    LET g == [f EXCEPT ![p] = NULL]
    IN  IF x = NULL THEN g
        ELSE [g EXCEPT ![Find(f, x, LAMBDA q : f[q] = NULL)] = p]

Ring == Nodes(next_proc, first_process)

-----------------------------------------------------------------------------
Init ==
    /\ npcb = 1
    /\ processID = {0}
    /\ pid = [p \in PCBs |-> IF p = first_process THEN 1 ELSE 0]
    /\ ppid = [p \in PCBs |-> IF p = first_process THEN 1 ELSE 0]
    /\ next_proc = [p \in PCBs |-> NULL]
    /\ curr_process = first_process /\ running = first_process
    /\ stopped_process = NULL /\ forked_process = NULL
    /\ saved = {} /\ freed = {}
    /\ prog = [p \in PCBs |-> IF p = first_process THEN "kernel" ELSE "none"]
    /\ pc = [p \in PCBs |-> "main"]
    /\ ret = [p \in PCBs |-> 0]
    /\ cpu = "ok"

\* The running process is at label l of one of the programs in P.
At(P, l) == cpu = "ok" /\ prog[running] \in P /\ pc[running] = l

\* What the programs do: init and the shell fork for each command, and while the
\* parent waits the child becomes the command; bin/kill makes its call; the
\* shell's exit command ends it, any other program ends when main returns.
Forks   == At({"init", "sbush"}, "main")
Waits   == At({"init", "sbush"}, "forked")
Becomes == At({"init", "sbush"}, "child")
Kills   == At({"command"}, "main")
Ends    == At({"sbush", "command"}, "main") \/ At({"command"}, "end")

\* A PCB with the next pid of the map, running g.
NewPcb(p, parent, g) ==
    /\ p = npcb + 1 /\ p \in PCBs
    /\ npcb' = p
    /\ pid' = [pid EXCEPT ![p] = NextPid(processID)]
    /\ processID' = TakePid(processID)
    /\ ppid' = [ppid EXCEPT ![p] = parent]
    /\ prog' = [prog EXCEPT ![p] = g]

\* create_user_process("bin/init") and switch_to_ring3, run by the kernel
\* thread at boot and, through schedule_sbush, when the terminal has ended.
CreateUserProcess ==
    /\ At({"kernel"}, "main")
    /\ \E p \in PCBs :
         /\ NewPcb(p, 1, "init")
         /\ next_proc' = [next_proc EXCEPT ![curr_process] = p, ![p] = curr_process]
         /\ curr_process' = p /\ running' = p
    /\ UNCHANGED <<stopped_process, forked_process, saved, freed, pc, ret, cpu>>

\* fork_child: the child goes behind the parent in the ring.
ForkChild ==
    /\ Forks
    /\ \E p \in PCBs :
         /\ NewPcb(p, pid[curr_process], prog[curr_process])
         /\ next_proc' = [next_proc EXCEPT ![p] = next_proc[curr_process],
                                           ![curr_process] = p]
         /\ pc' = [pc EXCEPT ![p] = "child", ![running] = "forked"]
    /\ ret' = [ret EXCEPT ![running] = NextPid(processID)]
    /\ UNCHANGED <<curr_process, stopped_process, forked_process, running,
                   saved, freed, cpu>>

\* Mutant of Blocked: kern_rsp of the caller is not written.
BlockedNone == saved

\* wait saves the stack pointer of its caller, to be resumed by sys_exit.
Blocked == saved \cup {curr_process}

\* wait(pid): the ring advances in any case; the CPU follows only if the next
\* process is the one waited for.
Wait ==
    LET c == next_proc[curr_process] IN
    /\ Waits
    /\ curr_process' = c
    /\ running' = IF pid[c] = ret[running] THEN c ELSE running
    /\ saved' = IF pid[c] = ret[running] THEN Blocked ELSE saved
    /\ pc' = [pc EXCEPT ![running] = "main"]
    /\ UNCHANGED <<npcb, processID, pid, ppid, next_proc, stopped_process,
                   forked_process, freed, prog, ret, cpu>>

\* new takes the place of old, which follows prev, and old goes to the end of
\* the forked_process list.
Replaced(f, prev, old, new) ==
    AppendNext([f EXCEPT ![prev] = new, ![new] = f[old]], forked_process, old)

\* execve(g): the child of a fork becomes another process with the same pid.
Execve(g) ==
    LET prev == Find(next_proc, curr_process, LAMBDA q : next_proc[q] = curr_process)
        new  == npcb + 1
    IN  /\ Becomes /\ new \in PCBs
        /\ npcb' = new
        /\ pid' = [pid EXCEPT ![new] = pid[curr_process]]
        /\ ppid' = [ppid EXCEPT ![new] = ppid[curr_process]]
        /\ prog' = [prog EXCEPT ![new] = g]
        /\ next_proc' = Replaced(next_proc, prev, curr_process, new)
        /\ forked_process' = AppendHead(forked_process, curr_process)
        /\ curr_process' = new /\ running' = new
        /\ UNCHANGED <<processID, stopped_process, saved, freed, pc, ret, cpu>>

\* Mutant of Predecessor: the process that ends is not looked for.
PredecessorIsFirst == first_process

\* The process that precedes curr_process in the ring, found by pid.
Predecessor ==
    Find(next_proc, curr_process, LAMBDA q : pid[next_proc[q]] = pid[curr_process])

\* Mutant of Release: the forked_process list is not walked.
ReleaseStopped(f) == Nodes(f, stopped_process)

\* sys_exit frees the memory of all PCBs on both lists.
Release(f) == Nodes(f, stopped_process) \cup Nodes(f, forked_process)

\* sys_exit, of a shell, of a command, or of a bin/kill that kills itself.  The
\* predecessor becomes the last of the ring and gets the CPU back.
SysExit ==
    LET prev == Predecessor
        f    == [next_proc EXCEPT ![prev] = first_process]
    IN  /\ Ends
        /\ next_proc' = [f EXCEPT ![curr_process] = NULL]
        /\ freed' = freed \cup Release(f)
        /\ stopped_process' = curr_process
        /\ forked_process' = NULL
        /\ curr_process' = prev /\ running' = prev
        /\ saved' = saved \ {prev}
        /\ cpu' = IF pid[prev] = 1 \/ prev \in saved THEN "ok" ELSE "stack"
        /\ UNCHANGED <<npcb, processID, pid, ppid, prog, pc, ret>>

\* kill(1): prev_task is still NULL when its next_proc is read.
KillKernel ==
    /\ Kills
    /\ cpu' = "null"
    /\ UNCHANGED <<npcb, processID, pid, ppid, next_proc, curr_process, stopped_process,
                   forked_process, running, saved, freed, prog, pc, ret>>

\* Mutant of Reparented: the children of the victim are left alone.
ReparentedNone(n, victim) == ppid

\* The children of n, all but the predecessor of the victim, go to the kernel.
Reparented(n, victim) ==
    [p \in PCBs |-> IF p \in Ring /\ p # victim /\ next_proc[p] # victim /\ ppid[p] = n
                    THEN 1 ELSE ppid[p]]

\* Mutant of Unlinked: the ring is cut instead of closed over the gap.
UnlinkedCut(prev, victim) ==
    AppendNext([next_proc EXCEPT ![prev] = first_process], stopped_process, victim)

\* victim leaves the ring for the end of the stopped_process list.
Unlinked(prev, victim) ==
    AppendNext([next_proc EXCEPT ![prev] = next_proc[victim]], stopped_process, victim)

\* kill(n), n neither 1 nor the caller.
Kill(n) ==
    LET found == Find(next_proc, first_process,
                      LAMBDA q : pid[q] = n \/ next_proc[q] = first_process)
        prev  == Find(next_proc, first_process, LAMBDA q : next_proc[q] = found)
    IN  /\ Kills /\ n \notin {1, pid[curr_process]}
        /\ pc' = [pc EXCEPT ![running] = "end"]
        /\ \/ /\ pid[found] = n
              /\ ppid' = Reparented(n, found)
              /\ next_proc' = Unlinked(prev, found)
              /\ stopped_process' = AppendHead(stopped_process, found)
           \/ /\ pid[found] # n           \* No such process
              /\ UNCHANGED <<ppid, next_proc, stopped_process>>
        /\ UNCHANGED <<npcb, processID, pid, curr_process, forked_process, running,
                       saved, freed, prog, ret, cpu>>

Next == \/ CreateUserProcess \/ ForkChild \/ Wait
        \/ Execve("sbush")
        \/ prog[running] = "sbush" /\ Execve("command")
        \/ SysExit \/ KillKernel
        \/ \E n \in Pids : Kill(n)

Spec == Init /\ [][Next]_vars

-----------------------------------------------------------------------------
(* What must hold.                                                         *)

\* The ready processes form one circle: as many steps along next_proc as there are
\* PCBs to be met lead from the kernel thread back to it, whatever fork, exec, kill
\* and exit did (at boot the kernel thread is alone and not linked to itself).
\* curr_process is in the circle and is the process that really runs (wait moves it
\* even when it does not switch).
RingIntact ==
    /\ \/ Follow(next_proc, first_process)[Cardinality(Ring)] = first_process
       \/ Ring = {first_process}
    /\ running = curr_process /\ running \in Ring

\* Every PCB is in exactly one place: ready, stopped, replaced or freed.  None
\* is lost with its memory, none is freed twice or while it can still run.
OneListEach ==
    LET stopped == Nodes(next_proc, stopped_process)
        forked  == Nodes(next_proc, forked_process)
    IN  /\ Ring \cup stopped \cup forked \cup freed = 1..npcb
        /\ Cardinality(Ring) + Cardinality(stopped) + Cardinality(forked)
             + Cardinality(freed) = npcb

\* The parent that a ready process names is a ready process.
NoOrphan == \A p \in Ring : \E q \in Ring : pid[q] = ppid[p]

\* sys_exit resumes a process that is blocked in wait, or the kernel thread.
NeverLost == cpu # "stack"

\* A pid is refused only when MAX_PROCESS_COUNT of them have been given out.
PidsUpToLimit ==
    NextPid(processID) = NoPid =>
      Cardinality({pid[p] : p \in 1..npcb} \ {NoPid}) = MAX_PROCESS_COUNT

Chain == LET h == Follow(next_proc, first_process)
         IN  [i \in 1..Cardinality(Ring) |-> pid[h[i - 1]]]

Jobs == INSTANCE JobChain WITH
          KernelPid <- 1, chain <- Chain, running <- pid[running], hung <- cpu # "ok"

\* The lists and the search by pid implement a chain of waiting processes.
ImplementsJobChain == Jobs!Spec
=============================================================================

------------------------------ MODULE JobChain ------------------------------
(***************************************************************************)
(* What the process management of SBUnix promises.  Scheduling is          *)
(* cooperative and every program that forks waits for the child at once,   *)
(* so the processes form a chain: the kernel thread, a terminal, and under *)
(* it each process that waits for the next one.  The last process runs.    *)
(* exit hands the CPU to the process before it, kill takes a process out   *)
(* of the chain, and when only the kernel thread is left it starts a new   *)
(* terminal.  Process is shown to implement this.                          *)
(***************************************************************************)
EXTENDS Naturals, Sequences, SequencesExt

CONSTANTS Pids, KernelPid

VARIABLES chain,     \* the pids of the processes, each waiting for the next
          running,   \* the pid of the process on the CPU
          hung       \* the kernel dereferenced NULL and faults for ever

vars == <<chain, running, hung>>

Init == chain = <<KernelPid>> /\ running = KernelPid /\ hung = FALSE

\* Only the kernel thread is left: it starts a terminal with a new pid.
Start(p) ==
    /\ ~hung /\ chain = <<KernelPid>> /\ p # KernelPid
    /\ chain' = Append(chain, p)
    /\ running' = p
    /\ UNCHANGED hung

Fork(p) ==
    /\ ~hung /\ running = Last(chain) /\ running # KernelPid /\ ~Contains(chain, p)
    /\ chain' = Append(chain, p)
    /\ UNCHANGED <<running, hung>>

\* The parent waits for the child, which now runs.
Wait ==
    /\ ~hung /\ Len(chain) > 1 /\ running = chain[Len(chain) - 1]
    /\ running' = Last(chain)
    /\ UNCHANGED <<chain, hung>>

Exit ==
    /\ ~hung /\ running = Last(chain) /\ running # KernelPid
    /\ chain' = Front(chain)
    /\ running' = Last(Front(chain))
    /\ UNCHANGED hung

\* A process that is not the caller leaves the chain.
Kill(p) ==
    /\ ~hung /\ running = Last(chain) /\ p \notin {running, KernelPid}
    /\ \E i \in 1..Len(chain) : chain[i] = p /\ chain' = RemoveAt(chain, i)
    /\ UNCHANGED <<running, hung>>

KillKernel ==
    /\ ~hung /\ running # KernelPid
    /\ hung' = TRUE
    /\ UNCHANGED <<chain, running>>

Next == \/ \E p \in Pids : Start(p) \/ Fork(p) \/ Kill(p)
        \/ Wait \/ Exit \/ KillKernel

Spec == Init /\ [][Next]_vars
=============================================================================

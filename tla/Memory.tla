------------------------------- MODULE Memory -------------------------------
(***************************************************************************)
(* The pages of the processes, one by one: every page that                 *)
(* create_user_process, fork, execve, a page fault and exit take, in the   *)
(* order in which they take it, and the ones that exit gives back.  Paging *)
(* says what is in the pages; here it matters which pages they are,        *)
(* because a PCB is longer than a page: kmalloc(6000) takes two and        *)
(* returns the address of the first, whether or not the second follows it. *)
(*                                                                         *)
(* The programs run as the shell runs them: a child is forked, executes a  *)
(* program and exits while its parent waits.                               *)
(***************************************************************************)
EXTENDS Boot

CONSTANTS Programs,      \* programs: the numbers of pages of text and data, the
                         \* pages that free_vma misses, and its kind
          InitProgram,   \* bin/init
          FreeLimit,     \* free_page ignores pages from 0x989680 on
          MaxHeap,       \* bound: heap pages that a program touches
          MaxCommands,   \* bound: programs that exit
          MaxDepth       \* bound: processes that wait for one another

ASSUME MemoryAssumption ==
    /\ InitProgram \in Programs
    /\ {FreeLimit, MaxHeap, MaxCommands, MaxDepth} \subseteq Nat
    /\ \A g \in Programs : g.text \in Nat /\ g.data \in Nat

VARIABLES chain,         \* the processes, each waiting for the next; the last one runs
          forked,        \* forked_process: PCBs that execve replaced
          stopped,       \* stopped_process
          exits          \* programs that exited, up to MaxCommands

vars == <<bootvars, chain, forked, stopped, exits>>

Init == BootInit /\ chain = <<>> /\ forked = <<>> /\ stopped = <<>> /\ exits = 0

-----------------------------------------------------------------------------
(* What a page is taken for.  A page of a program is named by its area and *)
(* its number; the others hold kernel objects, or are copied from and then *)
(* lost ("spare").                                                         *)

Stack == <<"stack", 0>>
HeapPage(i) == <<"heap", i>>
TextPage(i) == <<"text", i>>
DataPage(i) == <<"data", i>>

Of(name, n) == [i \in 1..n |-> <<name, 0>>]

\* map_phys_to_user_virt_addr for a page that n tables are missing for, and the
\* page that it copies.
MapUser(n, page) == Of("spare", 1) \o Of("table", n) \o <<page>>

\* pagefault_handler; the page that is copied is not empty.
FaultRoles(v) == Of("copied", 1) \o <<v>>

\* A PT_LOAD segment in load_binaries.
Segment(pages, n, Page(_)) ==
    Of("vma", 1) \o FlattenSeq([i \in 1..pages |-> MapUser(IF i = 1 THEN n ELSE 0, Page(i))])
                 \o Of("file", 1)

\* kmalloc(6000) and create_user_address_space.
Pcb == Of("pcb", 1) \o Of("second", 1) \o Of("pml4", 1)

\* The rest of create_user_process and execve, with load_binaries and init_mmap.
Loaded(g) ==
    MapUser(3, Stack) \o Of("mm", 1)
      \o Segment(g.text, 3, TextPage) \o Segment(g.data, 1, DataPage)
      \o Of("vma", 2) \o MapUser(2, HeapPage(0))

LoadRoles(g) == Pcb \o Loaded(g)

\* create_kernel_thread, whose space has no tables for the stack yet.
KernelRoles(g) == Of("pcb", 1) \o Of("second", 1) \o Pcb \o Of("spare", 1) \o Of("table", 3)
                    \o Tail(Loaded(g))

\* copy_parent_structure: all tables of the parent are copied, and its areas with
\* the file objects of the two segments.
ForkRoles ==
    Pcb \o Of("table", 9) \o Of("mm", 1)
        \o Of("vma", 1) \o Of("file", 1) \o Of("vma", 1) \o Of("file", 1) \o Of("vma", 2)

-----------------------------------------------------------------------------
(* Taking pages: a is the sequence of pages taken for the roles r.         *)

Enough(r) == Cardinality({p \in free : p < BITS}) >= Len(r)

UserAreas == {"stack", "heap", "text", "data"}

\* Roles whose pages stay as they were cleared: file objects are not filled in, the
\* kernel stack in the first page of a PCB is not used, and a spare page is empty.
Unwritten == {"file", "pcb", "second", "spare"}

Written(r, a) == {a[k] : k \in {j \in DOMAIN r : r[j][1] \notin Unwritten}}

\* Where the fields of a PCB lie: behind the 4096 bytes of kernel_stack.
Fields(base) == base + 1

Pages(r, a) ==
    LET at(v) == CHOOSE k \in DOMAIN r : r[k] = v
    IN  [v \in {r[k] : k \in {j \in DOMAIN r : r[j][1] \in UserAreas}} |->
           [page |-> a[at(v)], cow |-> FALSE]]

\* Mutant of Shared: the pages stay private to both.
SharedNot(pages) == pages

\* copy_parent_tables: both processes have the pages, and neither may write to them.
Shared(pages) == [v \in DOMAIN pages |-> [pages[v] EXCEPT !.cow = TRUE]]

\* A process whose PCB is the k-th page; the second page that was taken for it is
\* the next one in a.
Process(g, exec, k, r, a, pages) ==
    [program |-> g, exec |-> exec, base |-> a[k], second |-> a[k + 1], pages |-> pages,
     objects |-> {a[j] : j \in {i \in DOMAIN r : r[i][1] \notin UserAreas \cup {"spare", "copied"}}}]

\* The pages are taken, and the fields of the new PCBs at the bases B written.
TakeFor(r, a, B) ==
    /\ free' = free \ ToSet(a)
    /\ dirty' = dirty \cup Written(r, a) \cup {Fields(b) : b \in B}
    /\ UNCHANGED <<stage, smap, region, pt, kernel>>

CreateKernelThread ==
    LET r == KernelRoles(InitProgram)
        a == Allocated(free, Len(r))
    IN  /\ stage = "up" /\ chain = <<>> /\ Enough(r)
        /\ TakeFor(r, a, {a[1], a[3]})
        /\ chain' = <<Process(InitProgram, TRUE, 3, r, a, Pages(r, a))>>
        /\ UNCHANGED <<forked, stopped, exits>>

Current == Last(chain)

\* fork; both processes then write to their stacks, the parent before it waits.
\* sbush clears its line, in its data, before it reads the next command and forks.
Fork ==
    LET r == ForkRoles \o FaultRoles(Stack) \o FaultRoles(Stack)
        n == Len(ForkRoles)
        a == Allocated(free, Len(r))
        pages(k) == [Shared(Current.pages) EXCEPT ![Stack] = [page |-> a[k], cow |-> FALSE]]
        fork == SubSeq(r, 1, n)
    IN  /\ chain # <<>> /\ Current.exec /\ Current.program.kind # "job" /\ Len(chain) < MaxDepth
        /\ ~Current.pages[DataPage(1)].cow /\ Enough(r)
        /\ TakeFor(r, a, {a[1]})
        /\ chain' = Front(chain) \o <<[Current EXCEPT !.pages = pages(n + 2)],
                                  Process(Current.program, FALSE, 1, fork, a, pages(n + 4))>>
        /\ UNCHANGED <<forked, stopped, exits>>

\* A store to a page that is shared, or that is not there yet.
Fault(v) ==
    LET r == FaultRoles(v)
        a == Allocated(free, Len(r))
    IN  /\ chain # <<>> /\ Enough(r)
        /\ v \in DOMAIN Current.pages => Current.pages[v].cow
        /\ TakeFor(r, a, {})
        /\ chain' = Front(chain) \o <<[Current EXCEPT !.pages = Over(Pages(r, a), @)]>>
        /\ UNCHANGED <<forked, stopped, exits>>

\* The pages a process writes to that may be shared or missing: sbush and the
\* children it forks keep the command in a global array, and the other programs,
\* which start with pages of their own, allocate memory.
Stores(p) == CASE p.program.kind = "init"  -> {}
               [] p.program.kind = "shell" -> {DataPage(i) : i \in 1..p.program.data}
               [] OTHER                    -> {HeapPage(i) : i \in 0..(MaxHeap - 1)}

\* execve in a forked child: the page that is copied to the new stack is mapped
\* in place of the child's own stack, and the old PCB goes to forked_process.
Execve(g) ==
    LET r == LoadRoles(g)
        a == Allocated(free, Len(r))
        old == [Current EXCEPT !.pages[Stack].page = a[4]]
    IN  /\ Len(chain) > 1 /\ ~Current.exec /\ Enough(r)
        /\ g.kind \in (IF Current.program = InitProgram THEN {"shell"} ELSE {"shell", "job"})
        /\ TakeFor(r, a, {a[1]})
        /\ chain' = Front(chain) \o <<Process(g, TRUE, 1, r, a, Pages(r, a))>>
        /\ forked' = Append(forked, old)
        /\ UNCHANGED <<stopped, exits>>

\* free_vma and free_page of the stack: the pages that are private, below the
\* limit and visited.
Returned(p) ==
    {p.pages[v].page : v \in {w \in DOMAIN p.pages \ p.program.missed :
                                ~p.pages[w].cow /\ p.pages[w].page < FreeLimit}}

\* The page that sys_exit allocates in the end.
ExitPage(F) == {FirstPage(F, 0)}

\* sys_exit of a program whose parent is not bin/init: the processes on both lists
\* are released, and one page is lost.
SysExit ==
    LET back == UNION {Returned(p) : p \in ToSet(stopped \o forked)}
    IN  /\ Len(chain) > 2 /\ Current.exec /\ exits < MaxCommands
        /\ free' = (free \cup back) \ ExitPage(free \cup back)
        /\ dirty' = dirty \ back
        /\ chain' = Front(chain) /\ forked' = <<>> /\ stopped' = <<Current>>
        /\ exits' = exits + 1
        /\ UNCHANGED <<stage, smap, region, pt, kernel>>

Next ==
    \/ BootNext /\ UNCHANGED <<chain, forked, stopped, exits>>
    \/ CreateKernelThread
    \/ Fork
    \/ \E g \in Programs : Execve(g)
    \/ chain # <<>> /\ \E v \in Stores(Current) : Fault(v)
    \/ SysExit

Spec == Init /\ [][Next]_vars

-----------------------------------------------------------------------------
(* What must hold.                                                         *)

Known == ToSet(chain \o forked \o stopped)

\* The pages that were taken for a process and that it uses.
Held(p) == p.objects \cup {p.pages[v].page : v \in DOMAIN p.pages}

\* The pages a process does not share.
Own(p) == p.objects \cup {p.pages[v].page : v \in {w \in DOMAIN p.pages : ~p.pages[w].cow}}

\* No page is marked free while a process on any list uses it, none is one of the
\* kernel's, and a page that one process takes for its own, which it may write to
\* and will give back, is not used by another: also not after the processes were
\* forked, their stack was replaced by execve and pages were given back, in any
\* order and at any depth.
HeldApart ==
    \A p \in Known :
      /\ Held(p) \cap (free \cup ToSet(kernel) \cup 0..PHYSFREE) = {}
      /\ \A q \in Known : p # q => Own(p) \cap Held(q) = {}

\* No page has two of the uses it was taken for, from the first table of the kernel
\* to the last process.  This is about the pages that the allocator handed out for a
\* use, the second page of each PCB included: where the fields of a PCB are written
\* is another matter, and the subject of FieldsApart.
PagesApart == KernelPagesApart /\ HeldApart

\* The two pages that kmalloc takes for each PCB follow each other.
PcbsInOnePiece == \A p \in Known : p.second = Fields(p.base)

\* The page behind the first page of a PCB, in which its fields lie, is not free
\* and no other process on any list uses it: kmalloc has allocated the pages for
\* the whole of the PCB, whose address it returns.
FieldsApart ==
    \A p \in Known :
      /\ Fields(p.base) \notin free \cup ToSet(kernel)
      /\ \A q \in Known \ {p} : Fields(p.base) \notin Held(q) \cup {Fields(q.base)}
=============================================================================

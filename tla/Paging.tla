------------------------------- MODULE Paging -------------------------------
(***************************************************************************)
(* Physical frames and address spaces of SBUnix: the free_map bitmap, the  *)
(* page tables of every process, copy-on-write fork, execve, demand        *)
(* paging, and the release of memory at exit (sys/paging.c, sys/vma.c,     *)
(* and the memory side of sys/process.c).                                  *)
(*                                                                         *)
(* A frame's contents are one abstract value.  The four levels of a page   *)
(* table are one map from virtual page to entry; the frames that hold      *)
(* tables and kmalloc'd objects (PCB, mm_struct, vma), which the kernel    *)
(* never gives back, are the set kmem, with one frame standing for the     *)
(* group that a handler allocates.  Interrupt gates clear IF, so each      *)
(* handler is one action.                                                  *)
(*                                                                         *)
(* A kernel object is taken to lie in the frames that were allocated for   *)
(* it.  Two things in the code are outside this: kmalloc(6000) returns the *)
(* address of the first of two frames even if the second is not the next   *)
(* one, and init_kernel = pcb + PAGE_SIZE - 8 counts in PCBs, so that a    *)
(* kernel stack lies about 22 MB above its PCB, in frames still marked     *)
(* free.  Frames stands for the frames below the first such stack.         *)
(***************************************************************************)
EXTENDS Naturals

CONSTANTS Frames,      \* page indices that init_paging marks free
          FreeLimit,   \* free_page ignores frames from 0x989680 on
          Spaces,      \* address spaces, numbered as their pml4 is created
          Kernel,      \* the space of pid 1, built by setup_page_tables
          VPages,      \* user pages in some VMA of type HEAP, STACK, DATA that
                       \* free_vma visits: it misses the last page of a segment
                       \* that does not start at a page boundary
          StackTop,    \* STACK_END - PAGE_SIZE; it also stands for the pages of
                       \* the PT_LOAD segments, loaded the same way
          HeapBase,    \* HEAP_ADDR
          Vals, Zero,  \* contents of a page
          Images,      \* contents that a program file or an argument page starts with
          Data,        \* contents that a store leaves behind
          Absent       \* what a page that is not mapped reads as (AddressSpaces)

ASSUME FramesAssumption == Frames \subseteq Nat \ {0} /\ FreeLimit \in Nat
ASSUME SpacesAssumption == Spaces \subseteq Nat /\ Kernel \in Spaces
ASSUME PagesAssumption  == {StackTop, HeapBase} \subseteq VPages /\ StackTop # HeapBase
ASSUME ValsAssumption   == Zero \in Vals /\ Images \cup Data \subseteq Vals /\ Absent \notin Vals

VARIABLES free,     \* free_map: the frames whose bit is set
          kmem,     \* frames holding page tables and kernel objects
          mem,      \* mem[f]: contents of frame f
          pt,       \* pt[s][v]: the leaf entry of page v in space s
          status,   \* what the process lists make of space s
          cr3,      \* the CR3 register
          tlb       \* translations the CPU has cached since CR3 was loaded

vars == <<free, kmem, mem, pt, status, cr3, tlb>>

-----------------------------------------------------------------------------
(* Page table entries.                                                     *)

NoPTE == [kind |-> "none", frame |-> 0]

\* PT_PR | PT_WR | PT_U, as map_phys_to_user_virt_addr writes it.
UserEntry(f) == [kind |-> "user", frame |-> f]

\* PT_PR | PT_WR, as map_phys_to_virt_addr writes it: not for user mode.
KernEntry(f) == [kind |-> "kern", frame |-> f]

\* Mutant of CowEntry: the frame number is read after the entry was zeroed.
CowEntryOfZero(e) == IF e = NoPTE THEN NoPTE ELSE [kind |-> "cow", frame |-> 0]

\* PT_PR | PT_U | bit 9, as copy_parent_tables writes it: read-only, shared.
CowEntry(e) == IF e = NoPTE THEN NoPTE ELSE [kind |-> "cow", frame |-> e.frame]

PTE == [kind : {"user", "kern", "cow"}, frame : Frames] \cup {NoPTE}

Status == {"unused", "live", "old", "stopped", "gone"}

-----------------------------------------------------------------------------
(* Mutants of the helpers below: one plausible slip each.                  *)

FlushNothing == tlb                                   \* set_CR3 left out
FreeableShared(e) == e.kind # "none" /\ e.frame < FreeLimit  \* bit 9 ignored
NotWiped(m, F) == m                                   \* memset left out
ParentEntryKept(e) == e                               \* parent stays writable
MappedUncopied(phys, copy) == UserEntry(phys)         \* maps its argument

-----------------------------------------------------------------------------
(* Helpers.                                                                *)

\* get_firstpage: the lowest set bit of the map F.
FirstPage(f, F) == f \in F /\ \A g \in F : f <= g

\* Loading CR3 drops every cached translation.
Flush == [v \in VPages |-> NoPTE]

\* The translation an access to v uses: the cached one if there is one.
Entry(v) == IF tlb[v] # NoPTE THEN tlb[v] ELSE pt[cr3][v]

\* A pml4 that no process has had yet.
Fresh(s) == status[s] = "unused" /\ \A u \in Spaces : status[u] = "unused" => s <= u

\* What free_page gives back: present, not copy-on-write, below the limit.
Freeable(e) == e.kind \in {"user", "kern"} /\ e.frame < FreeLimit

\* free_page clears the frames it frees.
Wiped(m, F) == [f \in Frames |-> IF f \in F THEN Zero ELSE m[f]]

\* copy_parent_tables rewrites the parent's own entry as well as the child's.
ParentEntry(e) == CowEntry(e)

\* map_phys_to_user_virt_addr copies phys into a frame of its own and maps that.
Mapped(phys, copy) == UserEntry(copy)

-----------------------------------------------------------------------------
Init ==
    /\ free = Frames
    /\ kmem = {}
    /\ mem = [f \in Frames |-> Zero]
    /\ pt = [s \in Spaces |-> [v \in VPages |-> NoPTE]]
    /\ status = [s \in Spaces |-> IF s = Kernel THEN "live" ELSE "unused"]
    /\ cr3 = Kernel
    /\ tlb = [v \in VPages |-> NoPTE]

-----------------------------------------------------------------------------
(* Processes come and go.                                                  *)

(***************************************************************************)
(* The part create_user_process and execve share, both run on the caller's *)
(* CR3: a PCB (k), a pml4 (r), a frame (us) that is mapped into the        *)
(* CALLER's space and copied (st) into the new one, where the program      *)
(* image or the arguments are written to it, and the first heap page,      *)
(* whose source frame (ph) is not cleared before it is copied (hp).        *)
(***************************************************************************)
LoadInto(s, img, k, r, us, st, ph, hp) ==
    /\ free' = free \ {k, r, us, st, ph, hp}
    /\ kmem' = kmem \cup {k, r}
    /\ mem' = [mem EXCEPT ![k] = Zero, ![r] = Zero, ![st] = img, ![hp] = mem[ph]]
    /\ pt' = [pt EXCEPT
               ![cr3][StackTop] = KernEntry(us),
               ![s] = [v \in VPages |-> CASE v = StackTop -> Mapped(us, st)
                                          [] v = HeapBase -> Mapped(ph, hp)
                                          [] OTHER        -> NoPTE]]

LoadProgram(s, img) ==
    \E k \in Frames : FirstPage(k, free) /\
    \E r \in Frames : FirstPage(r, free \ {k}) /\
    \E us \in Frames : FirstPage(us, free \ {k, r}) /\
    \E st \in Frames : FirstPage(st, free \ {k, r, us}) /\
    \E ph \in Frames : FirstPage(ph, free \ {k, r, us, st}) /\
    \E hp \in Frames : FirstPage(hp, free \ {k, r, us, st, ph}) /\
      LoadInto(s, img, k, r, us, st, ph, hp)

\* schedule_sbush / initial_ret_function: the kernel thread starts bin/init.
CreateUserProcess(s, img) ==
    /\ cr3 = Kernel /\ Fresh(s)
    /\ LoadProgram(s, img)
    /\ status' = [status EXCEPT ![s] = "live"]
    /\ cr3' = s
    /\ tlb' = Flush

\* Mutant of Execve: the old PCB is left in the ready ring.
ExecveKeepsOld(s, img) ==
    /\ cr3 # Kernel /\ Fresh(s)
    /\ LoadProgram(s, img)
    /\ status' = [status EXCEPT ![s] = "live"]
    /\ cr3' = s
    /\ tlb' = Flush

\* execve: the old PCB goes to the forked_process list.
Execve(s, img) ==
    /\ cr3 # Kernel /\ Fresh(s)
    /\ LoadProgram(s, img)
    /\ status' = [status EXCEPT ![s] = "live", ![cr3] = "old"]
    /\ cr3' = s
    /\ tlb' = Flush

\* copy_parent_tables, on frames k (PCB, mm, vma), r (pml4) and t (the tables
\* below it).  t is not cleared: the entries of the child that are not written
\* are whatever the frame held.
ForkInto(s, k, r, t, stray) ==
    /\ mem[t] = Zero => stray = NoPTE
    /\ free' = free \ {k, r, t}
    /\ kmem' = kmem \cup {k, r, t}
    /\ mem' = [mem EXCEPT ![k] = Zero, ![r] = Zero]
    /\ pt' = [pt EXCEPT
               ![cr3] = [v \in VPages |-> ParentEntry(pt[cr3][v])],
               ![s] = [v \in VPages |-> IF pt[cr3][v] = NoPTE THEN stray
                                        ELSE CowEntry(pt[cr3][v])]]

ForkChild(s) ==
    /\ cr3 # Kernel /\ Fresh(s)
    /\ \E k \in Frames : FirstPage(k, free) /\
       \E r \in Frames : FirstPage(r, free \ {k}) /\
       \E t \in Frames : FirstPage(t, free \ {k, r}) /\
       \E stray \in {NoPTE} \cup {UserEntry(f) : f \in Frames} :
         ForkInto(s, k, r, t, stray)
    /\ status' = [status EXCEPT ![s] = "live"]
    /\ tlb' = Flush
    /\ UNCHANGED cr3

\* wait, and the return from it: another live space is loaded into CR3.
SwitchTo(t) ==
    /\ cr3 # Kernel /\ t # Kernel /\ t # cr3 /\ status[t] = "live"
    /\ cr3' = t
    /\ tlb' = Flush
    /\ UNCHANGED <<free, kmem, mem, pt, status>>

\* kill: the victim moves to the stopped_process list; its memory stays.
Kill(t) ==
    /\ cr3 # Kernel /\ t \notin {Kernel, cr3} /\ status[t] = "live"
    /\ status' = [status EXCEPT ![t] = "stopped"]
    /\ UNCHANGED <<free, kmem, mem, pt, cr3, tlb>>

\* sys_exit: everything on the two lists is released, the exiting process
\* becomes the stopped list, one page is allocated and lost, and the CPU goes
\* to another live process.
SysExit(t) ==
    LET dead  == {s \in Spaces : status[s] \in {"stopped", "old"}}
        freed == {pt[e[1]][e[2]].frame :
                    e \in {d \in dead \X VPages : Freeable(pt[d[1]][d[2]])}}
    IN /\ cr3 # Kernel /\ t # cr3 /\ status[t] = "live"
       /\ \E p \in Frames : /\ FirstPage(p, free \cup freed)
                            /\ free' = (free \cup freed) \ {p}
       /\ mem' = Wiped(mem, freed)
       /\ pt' = [s \in Spaces |-> [v \in VPages |->
                   IF s \in dead /\ Freeable(pt[s][v]) THEN NoPTE ELSE pt[s][v]]]
       /\ status' = [s \in Spaces |-> CASE s \in dead -> "gone"
                                        [] s = cr3    -> "stopped"
                                        [] OTHER      -> status[s]]
       /\ cr3' = t
       /\ tlb' = Flush
       /\ UNCHANGED kmem

-----------------------------------------------------------------------------
(* Memory accesses.                                                        *)

\* The TLB is bounded to the translation last used: entries may be evicted at
\* any time, so what one stale entry can do is what a larger cache can do.
UserLoad(v) ==
    /\ cr3 # Kernel /\ tlb[v] = NoPTE /\ Entry(v).kind \in {"user", "cow"}
    /\ tlb' = [Flush EXCEPT ![v] = Entry(v)]
    /\ UNCHANGED <<free, kmem, mem, pt, status, cr3>>

UserStore(v, x) ==
    /\ cr3 # Kernel /\ Entry(v).kind = "user"
    /\ mem' = [mem EXCEPT ![Entry(v).frame] = x]
    /\ UNCHANGED <<free, kmem, pt, status, cr3, tlb>>

\* A system call writes to a user buffer.  The loader enters the kernel with
\* CR0.WP clear and nothing sets it: a supervisor store needs no PT_WR.
KernelStore(v, x) ==
    /\ cr3 # Kernel /\ Entry(v) # NoPTE
    /\ mem' = [mem EXCEPT ![Entry(v).frame] = x]
    /\ UNCHANGED <<free, kmem, pt, status, cr3, tlb>>

\* pagefault_handler puts contents x behind page v of the current space: they
\* go through a scratch frame p, which is lost, to the frame c that is mapped.
FaultIn(v, x, p, c) ==
    /\ free' = free \ {p, c}
    /\ mem' = [mem EXCEPT ![p] = x, ![c] = x]
    /\ pt' = [pt EXCEPT ![cr3][v] = Mapped(p, c)]

PageFault(v, x) ==
    /\ \E p \in Frames : FirstPage(p, free) /\
       \E c \in Frames : FirstPage(c, free \ {p}) /\ FaultIn(v, x, p, c)
    /\ tlb' = Flush
    /\ UNCHANGED <<kmem, status, cr3>>

\* A user store to a copy-on-write page: the page is copied.
PageFaultCow(v) ==
    /\ cr3 # Kernel /\ Entry(v).kind # "user" /\ pt[cr3][v].kind = "cow"
    /\ PageFault(v, mem[Entry(v).frame])

\* An access to a page of a HEAP, STACK or DATA area that is not there.
PageFaultDemand(v) ==
    /\ cr3 # Kernel /\ Entry(v).kind # "user" /\ pt[cr3][v].kind # "cow"
    /\ PageFault(v, Zero)

-----------------------------------------------------------------------------
Next == \/ \E s \in Spaces, img \in Images : CreateUserProcess(s, img)
        \/ \E s \in Spaces, img \in Images : Execve(s, img)
        \/ \E s \in Spaces : ForkChild(s)
        \/ \E t \in Spaces : SwitchTo(t)
        \/ \E t \in Spaces : Kill(t)
        \/ \E t \in Spaces : SysExit(t)
        \/ \E v \in VPages : UserLoad(v)
        \/ \E v \in VPages, x \in Data : UserStore(v, x)
        \/ \E v \in VPages, x \in Data : KernelStore(v, x)
        \/ \E v \in VPages : PageFaultCow(v)
        \/ \E v \in VPages : PageFaultDemand(v)

Spec == Init /\ [][Next]_vars

-----------------------------------------------------------------------------
(* What must hold.                                                         *)

\* Every variable has its type; in particular an entry that is present always
\* names a frame, so no walk of the tables built by copy_parent_tables or
\* map_phys_to_user_virt_addr ends at physical address 0.
TypeOK ==
    /\ free \subseteq Frames
    /\ kmem \subseteq Frames
    /\ mem \in [Frames -> Vals]
    /\ pt \in [Spaces -> [VPages -> PTE]]
    /\ status \in [Spaces -> Status]
    /\ cr3 \in Spaces
    /\ tlb \in [VPages -> PTE]

\* No use after free: a frame whose bit is set in free_map is reachable through
\* no page table, of a live process or of a dead one, and holds no kernel
\* object.  There are no reference counts: free_page must skip shared pages.
NoFreeFrameInUse ==
    /\ \A s \in Spaces, v \in VPages :
         pt[s][v] # NoPTE => pt[s][v].frame \notin free \cup kmem
    /\ kmem \cap free = {}

\* A frame that some space maps writable is mapped nowhere else, and a shared
\* frame is mapped at the same virtual page everywhere.
WritableIsPrivate ==
    \A s, t \in Spaces, v, w \in VPages :
      /\ pt[s][v] # NoPTE
      /\ pt[s][v].frame = pt[t][w].frame
      => /\ v = w
         /\ s # t => pt[s][v].kind = "cow" /\ pt[t][w].kind = "cow"

\* Frames are handed out by allocate_virt_page as they are, and both
\* copy_parent_tables and init_mmap use them without clearing them: a frame
\* must already be clear when its bit is set.
FreeFramesAreClear == \A f \in free : mem[f] = Zero

\* A cached translation agrees with the tables CR3 points to, whatever order
\* of fork, fault, exec and exit changed them.
TlbCoherent == \A v \in VPages : tlb[v] # NoPTE => tlb[v] = pt[cr3][v]

\* The CPU runs in a space that is on no list of dead processes, and a live
\* user space holds no entry that user mode may not use (the kernel-only stack
\* mapping execve leaves in the caller's space stays behind with it); the
\* kernel's own space, in turn, holds nothing else.
LiveSpaceUsable ==
    /\ status[cr3] = "live"
    /\ \A v \in VPages : pt[Kernel][v].kind \in {"none", "kern"}
    /\ \A s \in Spaces \ {Kernel}, v \in VPages :
         status[s] = "live" => pt[s][v].kind # "kern"

\* The contents a user access to page v of space s finds.
View(s) == [v \in VPages |->
              IF status[s] = "live" /\ pt[s][v].kind \in {"user", "cow"}
              THEN mem[pt[s][v].frame] ELSE Absent]

Abs == INSTANCE AddressSpaces WITH
         live <- {s \in Spaces : status[s] = "live"},
         view <- [s \in Spaces |-> View(s)],
         cur  <- cr3

\* Copy-on-write, demand paging and the reuse of frames cannot be told from
\* private memories: every step is one of AddressSpaces or leaves all views
\* alone.
ImplementsAddressSpaces == Abs!Spec
=============================================================================

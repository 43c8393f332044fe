-------------------------------- MODULE Vma --------------------------------
(***************************************************************************)
(* The areas of a process and the page fault handler: load_binaries        *)
(* (sys/elf64.c), add_mmstruct (sys/vma.c), the copy that fork makes of    *)
(* the list, and what pagefault_handler and mmap (sys/paging.c) do with    *)
(* it.  An address is a number and a page is PAGE_SIZE of them; which      *)
(* frame a page gets is the business of Paging.                            *)
(***************************************************************************)
EXTENDS Naturals, Sequences, SequencesExt

CONSTANTS PAGE_SIZE, HEAP_ADDR, HEAP_END, STACK_ADDR, STACK_END,
          Segments,     \* PT_LOAD headers: start, size, flags
          Sizes         \* sizes that mmap is asked for

ASSUME LayoutAssumption ==
    /\ PAGE_SIZE \in Nat \ {0}
    /\ {HEAP_ADDR, HEAP_END, STACK_ADDR, STACK_END} \subseteq Nat
    /\ HEAP_ADDR + PAGE_SIZE <= HEAP_END /\ HEAP_END < STACK_ADDR
    /\ STACK_ADDR + PAGE_SIZE <= STACK_END
    /\ \A a \in {HEAP_ADDR, HEAP_END, STACK_ADDR, STACK_END} : a % PAGE_SIZE = 0
    /\ Segments \subseteq [start : Nat, size : Nat \ {0}, flags : {"R", "RX", "RW", "RWX"}]
    /\ \A s \in Segments : s.start + s.size + PAGE_SIZE <= HEAP_ADDR
    /\ Sizes \subseteq Nat

VARIABLES phdrs,      \* the program's PT_LOAD headers
          vma,        \* mm->vma: the list of areas
          mapped,     \* pages that have a present entry
          alloc,      \* mm->mmap_alloc_addr
          pc, addr    \* what the process is doing, and where it faulted

vars == <<phdrs, vma, mapped, alloc, pc, addr>>

Page(a) == a - (a % PAGE_SIZE)              \* remove_flag
Addresses == 0..(STACK_END + PAGE_SIZE)
Area(s, e, t) == [start |-> s, end |-> e, type |-> t]
Areas == [start : Addresses, end : Addresses, type : {"TEXT", "DATA", "HEAP", "STACK"}]

-----------------------------------------------------------------------------
(* The list of areas.                                                      *)

\* Mutant of Position: a new area goes to the front of the list.
PositionFirst(list, v) == 1

\* Where add_mmstruct puts v: in front, before the first area above it, or last.
Position(list, v) ==
    IF list = <<>> \/ v.end <= list[1].end THEN 1
    ELSE LET above == {i \in 2..Len(list) : list[i].start >= v.end}
         IN  IF above = {} THEN Len(list) + 1
             ELSE CHOOSE i \in above : \A j \in above : i <= j

AddMmstruct(list, v) == InsertAt(list, Position(list, v), v)

\* load_binaries sets vm_next of the area to NULL after it was inserted.
AddAndCut(list, v) == SubSeq(AddMmstruct(list, v), 1, Position(list, v))

\* copy_parent_structure: the areas of the parent, added one by one.
CopyVma(list) == FoldLeft(AddMmstruct, <<>>, list)

-----------------------------------------------------------------------------
(* load_binaries.                                                          *)

\* Mutant of SegmentPages: the page that the end lies in is left out.
SegmentPagesShort(s) == {p \in Addresses : /\ p % PAGE_SIZE = 0
                                           /\ Page(s.start) <= p /\ p < s.start + s.size}

\* The pages that get a frame: up to and including the one at phdr_end.
SegmentPages(s) == {p \in Addresses : /\ p % PAGE_SIZE = 0
                                      /\ Page(s.start) <= p /\ p <= s.start + s.size}

\* Flags other than R|X and R|W leave the type that the cleared page of kmalloc
\* holds, which is 0: that of TEXT.  What is not copied from the file is not kept here.
SegmentType(flags) == IF flags = "RW" THEN "DATA" ELSE "TEXT"

LoadSegment(list, s) == AddAndCut(list, Area(s.start, s.start + s.size, SegmentType(s.flags)))

LoadSegments(hdrs) == FoldLeft(LoadSegment, <<>>, hdrs)

\* The heap area starts as one page, and init_mmap widens it to HEAP_END.
LoadAreas(hdrs) ==
    LET heap  == AddAndCut(LoadSegments(hdrs), Area(HEAP_ADDR, HEAP_ADDR + PAGE_SIZE, "HEAP"))
        stack == AddMmstruct(heap, Area(STACK_ADDR, STACK_END, "STACK"))
    IN  [i \in DOMAIN stack |-> IF stack[i].type = "HEAP"
                                THEN Area(HEAP_ADDR, HEAP_END, "HEAP") ELSE stack[i]]

LoadPages(hdrs) == (UNION {SegmentPages(hdrs[i]) : i \in DOMAIN hdrs})
                     \cup {HEAP_ADDR, STACK_END - PAGE_SIZE}

\* Program files: one segment, or two of which the second is above on another page.
Programs == {<<s>> : s \in Segments} \cup {<<s, d>> : s \in Segments, d \in Segments}

Loadable(hdrs) == Len(hdrs) = 2 => Page(hdrs[1].start + hdrs[1].size) < Page(hdrs[2].start)

Init ==
    /\ phdrs \in {h \in Programs : Loadable(h)}
    /\ vma = LoadAreas(phdrs)
    /\ mapped = LoadPages(phdrs)
    /\ alloc = HEAP_ADDR
    /\ pc = "user" /\ addr = 0

-----------------------------------------------------------------------------
(* Execution.                                                              *)

\* A user access to address a; one to a page that is there just goes on.
Access(a) ==
    /\ pc = "user" /\ Page(a) \notin mapped
    /\ pc' = "fault" /\ addr' = Page(a)
    /\ UNCHANGED <<phdrs, vma, mapped, alloc>>

\* The areas that the handler compares the address with and accepts.
Matching(list, a) == {i \in DOMAIN list : list[i].start <= a /\ a <= list[i].end}

\* Where pagefault_handler leads for a page that is not there.  An area of type
\* TEXT is neither used nor passed by, so the loop never ends; without a match
\* the handler returns, and the access faults again.
Outcome(list, a) ==
    LET hits == Matching(list, a)
        area == list[CHOOSE i \in hits : \A j \in hits : i <= j]
    IN  CASE list = <<>>          -> "exited"
          [] list # <<>> /\ hits = {} -> "fault"
          [] OTHER -> IF area.type = "TEXT" THEN "spin" ELSE "user"

PageFault ==
    /\ pc = "fault"
    /\ pc' = Outcome(vma, addr)
    /\ mapped' = IF pc' = "user" THEN mapped \cup {addr} ELSE mapped
    /\ UNCHANGED <<phdrs, vma, alloc, addr>>

\* Mutant of Room: the limit is not looked at.
RoomAlways(size) == TRUE

Room(size) == HEAP_END - alloc >= size

\* mmap: the block is cleared by the kernel, which faults its pages in; without
\* room the next address is returned all the same.
Mmap(size) ==
    /\ pc = "user"
    /\ \/ /\ Room(size)
          /\ alloc' = alloc + size
          /\ mapped' = mapped \cup {Page(a) : a \in alloc..(alloc + size - 1)}
       \/ /\ ~Room(size)
          /\ UNCHANGED <<alloc, mapped>>
    /\ UNCHANGED <<phdrs, vma, pc, addr>>

Next == \/ \E a \in Addresses : Access(a)
        \/ PageFault
        \/ \E n \in Sizes : Mmap(n)

\* The CPU goes on: a fault that is pending is handled.
Fairness == WF_vars(PageFault)

Spec == Init /\ [][Next]_vars /\ Fairness

-----------------------------------------------------------------------------
(* What must hold.                                                         *)

\* Every variable has its type; mmap's pointer stays in the heap.
TypeOK ==
    /\ vma \in Seq(Areas)
    /\ mapped \subseteq Addresses
    /\ alloc \in HEAP_ADDR..HEAP_END
    /\ pc \in {"user", "fault", "spin", "exited"} /\ addr \in Addresses

\* The list holds every segment, the heap and the stack, in ascending order,
\* although the loader cuts it behind each area it adds; and so does the copy
\* that fork makes of it link by link.
AreasComplete ==
    /\ CopyVma(vma) = vma
    /\ Len(vma) = Len(phdrs) + 2
    /\ \A i \in 1..(Len(vma) - 1) : vma[i].end < vma[i + 1].start

\* A fault in an area of the process is resolved, and none is in an area of type
\* TEXT, for which the handler loops: the loader has mapped every page there.
FaultResolved == (pc = "fault" /\ Matching(vma, addr) # {}) ~> (pc = "user" /\ addr \in mapped)

\* A fault in no area ends the process.
SegfaultExits == (pc = "fault" /\ Matching(vma, addr) = {}) ~> (pc = "exited")
=============================================================================

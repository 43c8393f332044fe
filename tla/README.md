# A formal model of SBUnix

SBUnix is a small x86-64 kernel for one CPU, with a shell and a few commands. This directory holds
TLA+ modules that model its own logic (boot, memory, processes, files, terminal, timer, shell), TLC
configurations that check them on small instances, and TLAPS proofs about every module for all
instances. `PROJECT.json` maps every definition to the lines it models and lists runs, mutants,
findings, hazards and theorems.

    tlc -config Paging.cfg MCPaging        # a run: configuration and module
    tlapm PagingProofs.tla                 # a proof module

## The system

| Component | State | Operations | Hard about it |
|---|---|---|---|
| Frames and address spaces (`sys/paging.c`) | `free_map`, page tables, CR3, TLB | allocate and free a page, map, copy tables at fork, page fault, create a space | no reference counts; shared pages are told from private ones by one bit in the entry; memory of dead processes is freed later, by another process; frames are used uncleared |
| Processes (`sys/process.c`) | pid map, PCBs, the ring of ready processes, the stopped and the forked list, `curr_process` | create, fork, wait, execve, exit, kill | three lists through one `next_proc`; search by pid; exit resumes whoever comes before it |
| Areas and loader (`sys/vma.c`, `sys/elf64.c`) | list of areas per process, heap pointer | load a program, fault, mmap, copy at fork | ordered insertion into a list that the loader cuts; page boundaries |
| Environment variables (`sys/process.c`) | five keys and values per PCB, a counter | export, print, inherit | round robin overwriting |
| Timer (`sys/timer.c`) | tick counter, second of the minute | tick interrupt, sleep | sleep polls a value that an interrupt changes; the value wraps |
| Keyboard (`sys/kb.c`) | line buffer, counter, modifiers, done flag | key interrupt, scanf | scanf runs with interrupts on and shares all of its state with the handler |
| File system (`sys/tarfs.c`) | table of files, descriptors per PCB | build the table, list, open, read | block arithmetic; descriptors are found by inode and never given back |
| Working directory (`sys/tarfs.c`) | two directory names per PCB | cd | the two names go apart |
| Console (`sys/kprintf.c`) | cursor, screen | print, echo, scroll, clock | one cursor for handlers and calls, which test its row and column in opposite orders |
| System calls (`sys/syscalls.c`, `sys/*.s`) | a global size | dispatch | a read takes two calls |
| Programs (`bin/`, `libc/`, `crt/`) | line buffer, text buffers | shell, init, ls, cat, scripts | names are made from the working directory and the last letters; buffers are not ended |
| Boot (`sys/main.c`, `sys/paging.c`) | memory map, `free_map`, the kernel's tables | choose a region, mark pages, build tables from them | the tables are built from pages that nothing maps yet; sizes are not checked |
| Descriptor tables, interrupt controller | | run once | |

**How the parts interact.** Programs enter the kernel by a software interrupt. Gates clear IF, so a
handler runs to its end, with two exceptions: `scanf` and `sleep` set IF and wait for the keyboard
or the timer handler to change a global. The CPU goes to another process only inside `wait`,
`execve` and exit. fork, execve and exit are the calls in which processes, areas, environment,
descriptors and memory change together; each module models its part of them, as one action.

**What makes it correct.** Memory: a process sees its own memory and nothing else. Processes: the CPU
is always with a process that can run, no process is lost or freed twice. Areas: each legal access
succeeds. Keyboard, console and timer: what was typed is read and shown, output stays in its rows, a
sleep is neither short by more than the granularity of its clock nor endless. Files: the table describes the archive, reads are sequential,
`cd` leads where its path says, and ls, cat and scripts use the files of the working directory.
Boot: every page of the machine is mapped where the kernel looks for it.

## Modules

### Paging, AddressSpaces (memory)

A frame's contents are one abstract value, and the four levels of a page table are one map from page
to entry. An entry is `user` (present, writable, user), `kern` (not for user mode) or `cow` (bit 9,
read-only). `status` says what the process lists make of an address space: `live`, `old` (replaced
by execve, on the forked list), `stopped`, `gone`. Each handler is one action, with all of its
allocations in order of the lowest free bit: `CreateUserProcess`, `Execve`, `ForkChild`, `SwitchTo`,
`Kill`, `SysExit`, `PageFaultCow`, `PageFaultDemand`, and three kinds of access. `tlb` holds the
translation used last; entries can be evicted at any time, so a larger cache does no more.
`KernelStore` ignores the read-only mark, as CR0.WP is clear. Frames that the code loses (the
scratch frame of a fault, the page sys_exit allocates) leave `free` and go nowhere, as they do in the code.

`AddressSpaces` is the promise: private maps from pages to contents, with fork as a copy. Its one
weak point is `SysStore`, the kernel's stores through shared pages.

Left out: kernel objects lie in the frames allocated for them (see the header of the module for the
two places where the code does not do so; `Memory` covers one of them), memory does not run out, and
a page that `free_vma` misses is not in `VPages`. `Init` has clear memory, which is the state of RAM
at power-on that the code relies on: it clears nothing but `free_map`.

### Boot, Memory (which pages)

`Boot` is one action per call that `start` makes up to the load of CR3: choose the largest usable
part of the machine, mark pages free, build the tables for the image, `free_map` and the video
memory, map all of memory, with a page directory more for every GB after the first (`Directories`).
An address is a page number; `dirty` holds the pages with something in
them that a later user may find: first the pages that `set_bit` reaches behind `free_map`.

`Memory` goes on with the processes. Where `Paging` says what is in a page, `Memory` says which page
it is: an operation is the sequence of roles (`ForkRoles`, `LoadRoles`, ...) for which the code takes
pages, one lowest free page after the other, and `Fields(base)` is the page behind the first page of
a PCB, where its fields really are; `second` is the page that kmalloc took for them. Processes form the chain that the shell makes; a process is a
PCB with its pages, and `forked` and `stopped` are the lists from which exit releases pages. `Own(p)`
are the pages p may write to and will give back, `Held(p)` all it uses, the shared ones included.
Commands put behind with &, kill and the restart of the terminal are not in `Memory`.

### Process, JobChain (processes)

PCBs are numbers in the order of allocation; `next_proc` is a function and the lists are walks along
it. What a process does next (`prog`, `pc`) comes from the shipped programs: init and the shell fork
and wait at once, the child execs, bin/kill makes one call, commands end. `running` is the process
whose registers the CPU has, which the code does not keep; it must agree with `curr_process`.
`saved` holds the PCBs whose `kern_rsp` was written by wait, `freed` those whose memory was released.
`cpu` becomes `"null"` after kill(1), where the kernel faults for ever, and `"stack"` if a process were resumed
from a `kern_rsp` that nobody saved. `SetBit` keeps the width of int.

`JobChain` is the promise: a chain of pids, each waiting for the next, the last one running.

### Vma (areas, loader, fault handler)

Addresses are numbers and pages `PAGE_SIZE` of them. `LoadAreas` builds the list with
`add_mmstruct` and the cut that the loader makes behind each new area. `Outcome` is the decision of
`pagefault_handler` for a page that is not there. A segment has the flags of its header: what is not
read-write is text to the handler, also where the loader sets no type, since that is 0 in a cleared page.

### Timer (sleep)

`Tick` may come between any two steps of `sleep`; ticks are an int that wraps, and `/` and `%` round
as in C. `passed`, which is not in the code, counts ticks, not seconds seen.

### Console, Keyboard, Terminal (the terminal)

`Console` has the operators of `kprintf.c` on a screen and a cursor, in the order of the code's
tests: `PutText` looks at the column first and then at the row, `Ready`, for echoes, at the row
first. `Argument` is %s with its step past the NUL behind a newline. In `Keyboard` each statement of
`scanf` is an action, each character that strcpy copies and clear_buffer clears is one, and each key is
one, echo included, so that a key can arrive between any two of them. A key that
`keyboard_upper_map` has no place for gives one of the codes `Beyond`, among them those for which
kprintf_kb has branches of its own; `pressed[-1]`, written when a Backspace follows the Enter, may
be one of the modifiers. `Terminal` composes both with the program at the terminal, which prints its prompt,
calls scanf and prints (`Printf` through the buffer of libc, `Kprintf` in the kernel), and with the
clock. History: `typed` and `raced`, what was typed since scanf returned last and whether a key
arrived while scanf was finishing; `astray` and `spilled`, whether a key came while nobody waited
(or an Enter at the very end of the last row, or a code that kprintf_kb shows in the clock's row), and whether an echo ran into the row below the text.

### Environment (variables)

The table of variables with two history variables, what was exported last and the keys created last.

### Tarfs, WorkingDir, Shell (files)

`Tarfs` walks an archive whose entries are name, kind and size, with sizes going through octal text
as in the code, and keeps descriptors per process. close changes nothing in the code and is a
stuttering step. `WorkingDir` has the two directory names and the five forms of path. Both have a
next-state relation of their own (`FsNext`, `CdNext`); `Shell` extends both and uses their actions.
There, `Arguments` is what addParent and the splitting in execve make of a line. `ls` and `cat` run
in a new PCB, one round of their loop at a time. A byte is its address in the archive, so what cat
shows is a sequence of addresses. Nothing but the shell and its command runs meanwhile, since the
shell waits. A script is opened in the shell's PCB and read into `line`, the array in which the shell
keeps what was typed: `line` has every character ever stored there, with the zeros that strcpy,
strlen and scanf put behind their text (`Put`), and `read` puts none behind the script. What
executeSbang walks through is `line` up to its first zero; it is cut at newlines, and each piece is
the command that stands there in the script, or any command if it is some other text
(`Understood`). Without a final newline the walk goes on behind the zero, over what is on the stack:
`Rests` lets it be the end or more text. The zero it then writes over a newline on the stack, and the
removal of spaces in a line, are not modelled; a script longer than the line is left out.
`NamesAssumption` leaves out names of one character in the root, for which get_parent_inode reads
and writes in front of its strings; the shipped archive has none.

## Runs

| Run | Shows | Bounds, and why they are enough |
|---|---|---|
| `paging` | six invariants and the refinement of AddressSpaces | 3 spaces besides the kernel's, 3 pages, 20 frames of which 13 can be freed: a parent, a child and what the child execs; a frame can be shared, copied, freed and reused. At most one frame with stored data and three lost frames at a time (`FewWritten`, `FewLeaked`). The proofs need no bound. |
| `process` | ring, lists, parents, resumption, refinement of JobChain | 12 PCBs: shells in shells, several kills before an exit, and a restart of the terminal. 16 pids, so that none is refused. The run may stop when PCBs are used up. |
| `process_pids` | *violation*: a pid refused too early | an int of 4 bits, a map of 8 |
| `vma` | areas complete and copied by fork, every fault in an area resolved | pages of 4 addresses, one or two segments of 1, 3, 4 or 5 addresses starting at 7 places (inside one page, to its end, across one and two boundaries), flags R, RX and RW |
| `vma_segfault` | *violation*: an access to no area faults for ever | as `vma`, flags RX and RW |
| `services` | Environment and Timer, which share nothing, in behaviours of either: unique keys, no stale value, oldest out; sleep(n) longer than n-1 seconds, ends within the minute | 3 slots, 4 keys, 2 processes: the table overflows. 3 ticks per second, 4 seconds per minute, 7-bit int: the counter wraps within the run, and a sleep starts at every tick of a second. The symmetry is in keys and processes, which are not in Timer's state. |
| `timer_sleep` | *violation*: a sleep into the next minute never ends | as in `services` |
| `terminal` | the line is what was typed and shown, Enter ends scanf, cursor and output stay in their rows | a screen of 2 text rows and 2 columns above the scrolling row and the clock, a buffer of 3, a word longer than a row; at most `MaxEvents` = 4 calls that print or echo a character, clear included: two lines, or enough to fill the screen, scroll and run over its end. `Beyond` has a newline and the code that erases, not the one that shows in the clock's row, which only the proofs cover. Once the cursor is in the clock's row only clear is followed (`OnScreen`). Two columns leave one for a line behind its prompt; the proofs cover wider screens. |
| `memory` | the kernel's tables, no page with two uses, no bits behind `free_map` | tables of 32 entries; a machine with less and one with more pages than `free_map` has room for, an image longer than a table; 2 commands with 4 processes in the chain, that is a shell in a shell: pages are returned, and taken again for PCBs. It may stop when the commands are used up. |
| `memory_fields` | *violation*: the fields of a PCB in a page that was not allocated for it | as `memory` |
| `shell` | walk, sequential reads, cd, ls, cat, first run of a script | blocks of 4, sizes 0, below, equal to and above blocks; a flat and a nested archive; one and two names per command, 2 scripts per shell, a script with and without a final newline and one without any; a line of 8 with typed lines of 8, longer than every script; any number of commands (`MaxTaken` bounds only the history of reads) |
| `tarfs_reopen` | *violation*: a reopened file is not read from its start | blocks, sizes and archives as in `shell`, any two processes |

Each property has a mutant: a slip in one definition (a forgotten flush, a missing wipe, an
off-by-one) under which TLC finds the property violated.

The violations are disagreements between the code and its own comments, constants or scripts; they
are quoted in `PROJECT.json` under `findings`. Three smaller ones were met on the way and have no run
of their own: kill gives the children of its victim to the kernel, where a comment says that they
are removed from the ready queue (`sys/process.c:758`); the parent inode of a directory inside a
directory is 0, since `get_parent_inode` looks for the directory's own name; and in an archive with
nested directories `cd ..` after `cd /` can lead from the root into a directory, since `cd /` leaves
`temp_curr_dir` behind. The shipped archive has no nested directories, and `LsListsHere` and
`FlatTreeResolves` say exactly what holds without them.

What the properties leave out is where the code does not do what one would hope, and no line of the
repository says otherwise:

* Screen. An Enter with the cursor at the very end of the last text row, or keys pressed while no
  scanf waits, take the cursor past row 23 without a scroll, and text leaves the screen until the
  next clear (`CursorReturns` without `~astray`). An echo that runs on from that row leaves text in
  row 23, which every later scroll copies (`OutputAboveLast` without `~spilled`).
* PCBs. `memory_fields` is one of the findings: with a shell started from the shell (`./sbush`,
  depth 4) the fields of a new PCB can lie in a page of something else. `FieldsApartInOnePiece` shows
  that this needs two pages of one kmalloc that do not follow each other.
* Memory. Page tables, PCBs and areas of a command never come back, so the shell ends after some
  number of commands whatever memory there is. Pages below the largest region count as free too, and
  `start * PAGE_SIZE` is an int, so regions beyond 2 GB are out of reach.
* Sleep. `current_sec` may be almost a second old when sleep reads it: a sleep(1) that starts at the
  last tick of a second ends with the next tick. `NotEarly` says that no more than that is lost.
* Keys while scanf finishes. A key between Enter and the return of scanf goes into the line that is
  being copied or cleared, or stays for the next one (`LineIsTyped` without `~raced`).
* Files. A second run of a script in one shell says that there is no such file (`tarfs_reopen`).
  A first run runs the rest of a longer earlier line behind the script (`FirstRunComplete` without
  its bound on `full`).
  The second name given to ls or cat is looked up from the root. `ls usr` finds nothing without a
  slash. cat shows the tail of a longer first file behind a shorter second one.

**Fairness.** `Vma`: a pending fault is handled (the CPU goes on). `Timer`: the timer keeps ticking,
and the polling loop is strongly fair, since it polls many times between two ticks and cannot miss
every second in which it would succeed. `Terminal`: a step of scanf that can be made is made; nothing
is assumed of the keys, the clock or the programs. The other modules state safety only.

## Proofs

All theorems hold for every value of the constants under the named ASSUMEs of the modules: sizes are
positive numbers and special values are distinct; the layout of a process has a heap below its stack
and segments below its heap (`LayoutAssumption`); an archive is one that tar writes and has no more
entries than `init_tarfs` has room for (`ArchiveAssumption`, `TarfsAssumption`); what a program
prints fits into printf's buffer (`TerminalAssumption`); an hour has whole minutes
(`TimerAssumption`); every machine has memory that can be used, with room behind `free_map` for the
kernel's tables, bits for it and addresses that are ints (`SmapsAssumption`, `BootAssumption`);
init is one of the programs (`MemoryAssumption`); no name in the root has one character
(`NamesAssumption`). TLC evaluates each of them on the instances of the runs.

* `PagingProofs`. `TypeCorrect`, then `Inductive`: `IInv` is inductive. It is the conjunction of the
  checked invariants with `KernelLive`, and none of them is inductive alone: a fork relies on
  `FreeFramesAreClear` to get no stray entries; the release at exit keeps frames safe only because
  a writable frame is private; a store hits a mapped frame only because the TLB is coherent.
  `FramesSafe`, `FramesPrivate`, `FramesClear`, `TranslationSafe` and `SpacesUsable` follow, and
  `PagingImplementsAddressSpaces`: with `IInv`, one lemma per action shows that it is an abstract
  operation on the views. Copying a page on write changes no view; freeing changes none because
  freed frames are in no live view.
* `ProcessProofs`. `InvOf(c, s, t)` says that the ring is the sequence c from the kernel thread on, the
  stopped list is s and the forked list is t; `IInv` says that such sequences exist. Its parts are
  `Places` (every PCB is in one of them, or freed), `PidInv` (pids in the ring differ, but for the
  processes that got -1, which come last and after which no pid is given), `ParentInv`
  (the parent of a process comes before it in c), `RunInv` (the last of c runs or, from fork to wait,
  the one before) and `WaitInv` (the others wait with their registers saved). All are needed at
  once: sys_exit searches for its predecessor by pid and resumes it from what wait saved, which is
  right because the one that exits is the last of c, the pids differ and the one before it waits.
  `RingStaysIntact` (the length of c is the number of steps that lead back to its first), `NoneOrphaned`,
  `NeverLostCpu` and `NothingFreedTwice` follow. They hold
  also when the pid map has run out: the first process with pid -1 to exit then takes for its
  predecessor the one before all processes with pid -1, so that the ring is cut there (`RingCut`),
  but what is left is a ring whose last process waits. Those that are cut off are on no list.
  So `EachOnOneList` and `ProcessImplementsJobChain` (the pids of c are the chain) have the hypothesis
  `NoneRefused`, that the map has not run out so far; with three pids TLC refutes `OneListEach` and
  the refinement. `MaxPcb` is any positive number.
* `VmaProofs`. `VmaTypes` and `AreasAreComplete`. The list is always that of `LoadAreas`, and what the
  loop of load_binaries makes is followed header by header: although each insertion cuts the
  list behind the new area, headers in ascending order lose nothing. The invariant `IInv` also says
  that all loaded pages stay mapped and a pending fault is on a page that is not, from which come
  `HandlerReturns` (the handler never loops) and `FaultHandled`, the safety half of `FaultResolved`.
* `TerminalProofs`. `TerminalTypes` needs that a cursor in the last row is in one of its first two
  columns at rest (`TypeInv`). `OutputKeepsAbove` comes from the printing operators. `LineInv` describes
  the buffer at each statement of scanf and each character of its loops, and `LineReturned` follows; `EchoInv` relates the
  cells right of the prompt and the cursor to what was typed, for `EchoShowsLine`; `CursorInv` says when
  the cursor may stand below the text rows, for `CursorComesBack`. `TextEndsClean`: only with the length of the buffer's
  text known to fit does the clearing that printf does before it formats reach everything an
  earlier text left.
* `ServicesProofs`. Timer: `SleepLongEnough`, sleep(n) takes more than n-1 seconds, counted in ticks, also
  across the overflow of the tick counter. `ClockInv` ties `current_sec` to the counter; `SleepInv` says that while
  sleep waits the second shown has gone forward by no more than the ticks that have passed allow. Environment: `KeysStayUnique`
  and `EnvironmentFresh`, from the invariant that each slot holds the last value of its key.
  Uniqueness is needed: with two slots for a key one would go stale. `OldestGivesWay` takes
  `OrderInv` besides: the counter goes round the slots in step with the order of creation, so the
  slot it names next is the oldest.
* `MemoryProofs`, from the start of the kernel to any number of programs at any depth. Allocator:
  what n calls return is n free pages in ascending order with no free page left out (`AllocatedIs`),
  hence, where all pages behind `free_map` are free, the ones right behind it. Boot: `StageInv`
  says so at each stage up to the load of CR3, which is why the bits that `set_bit` left behind
  `free_map` are cleared by the time anything else is there, and why a table for the last page exists.
  `KernelMapped`, `KernelApart` and `NoBitsLeft` follow. Processes: `MemoryInv` adds `Clean`
  (each process on any list is `Sound`, its pages are neither free nor the kernel's, and its own pages are
  held by no other) and `Distinct` (the waiting processes and those on the lists are different PCBs). All
  are needed at once: exit gives back pages of the processes on the lists, which keeps the others'
  pages safe only because what is given back is its owner's alone, and execve replaces a stack that
  it shares with its parent only because the two are different. `ProcessesApart` and `PagesStayApart` follow, about the pages that were taken for
  a use. With them, `FieldsApartInOnePiece`: if both pages of every PCB follow each other, its fields are apart too.
* `ShellProofs`, in three parts. cd: `WorkingDirExists` and the action property `FlatTreesResolve`. The
  second needs the first: `..` is applied to `temp_curr_dir`, and in a flat tree that name has at
  most one part. Files: `FilesFound` from `WalkInv`, which follows the walk over headers and rests
  on the lemma that `OctToDec(Atoi(Octal(n))) = n` for every n; `ReadsInOrder` from `FdInv` and
  `Fresh` (a process has taken nothing of a file it has no descriptor for). Shell: `ShellInv` joins
  both with what is known in the middle of ls, cat and a script; `LsIsRight`, `CatIsRight` and
  `FirstRunIsRight` (what read stores stands at the front of the line, whatever was in it) follow, and `ShellFiles` and `ShellResolves` say that the promises of the two
  components hold in the composition, where a PCB is used for one command after the other.
* `Iteration` holds what these proofs share: division and remainder, recursive functions on numbers
  and folds over sequences. The induction theorems of the library take an operator as a parameter,
  which the installed provers cannot instantiate; here the parameters are sets and functions. A set of
  numbers has a least element, hence a set that holds 0 and successors holds every number; a
  recursive function exists, and stays in a set that its step does not leave. With these, what
  `Atoi`, `OctToDec`, `HeaderOffset`, the walks along `next_proc`, `LoadSegments` and the loops of the
  console make of every input is proved.

Only model-checked: liveness (`FaultResolved`, `SleepWithinMinuteEnds`, `EnterEndsScanf`), which is
out of the prover's reach.

## Not modelled

* The descriptor tables and the interrupt controller, which write tables and ports once.
* The rest of libc and of the shell: how a command is recognised by its letters, and how numbers are
  printed. A `cat` without a name, which uses what an earlier line left in the buffer, is left out.
* What happens once frames are used up; `pressed`, `fd`, `result` and the line buffer beyond
  their length, with the one exception of `pressed[-1]`: the code does not check these limits, and what lies behind them is not in the model.
  The hazards in `PROJECT.json` name the lines.
* The kernel stacks, which lie about 22 MB above their PCB.
* A failing `load_binaries`, and the registers that a switch saves.
* Code that is never called: `delete_pagetable`, `free_kernel_page`, `umalloc`, `create_new_thread`,
  `scheduler`, `switchTask`, `switchBack`, `mmap_alloc`, and code under `#if 0`.

## Plan

1. Done: Paging with its abstract specification and proofs; Process with JobChain; Vma; Timer;
   Environment; Console, Keyboard and Terminal; Boot and Memory; Tarfs, WorkingDir and Shell.
2. Done: proofs for Paging, Process, Vma, Timer, Terminal, Environment, the files, Boot and Memory.
3. `Kernel`: Process and Paging composed, so that the spaces a process list names are those the page
   tables of `Paging` belong to.

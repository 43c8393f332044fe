------------------------------- MODULE Tarfs -------------------------------
(***************************************************************************)
(* The read-only file system in the kernel image (sys/tarfs.c): how        *)
(* init_tarfs walks the archive and builds global_tarfs, how a directory   *)
(* is listed, and the descriptors that open and read keep in the PCB.      *)
(*                                                                         *)
(* A name is the sequence of its parts; the archive marks a directory by a *)
(* slash at the end of the name, here by dir.  An address is an offset     *)
(* into the archive.  libc makes the two system calls of a read one after  *)
(* the other and no other process runs in between, so Read is one action.  *)
(***************************************************************************)
EXTENDS Naturals, Sequences, SequencesExt

CONSTANTS TARFS_HEADER,   \* length of a header and of a block: 512
          Archives,       \* archives: sequences of Entries
          OneCharacter,   \* the parts of names that are one character long
          Procs,          \* PCBs
          MAX_FD,         \* descriptors in a PCB: 5.  Bound: open does not look at it
          ReadSizes,      \* sizes asked of read
          MaxTaken        \* bound: bytes a process takes from a file

Entries == [name : Seq(STRING), dir : BOOLEAN, size : Nat]
TARFS_FILES == 100        \* places in global_tarfs

ASSUME TarfsAssumption ==
    /\ {TARFS_HEADER, MAX_FD} \subseteq Nat \ {0} /\ ReadSizes \subseteq Nat
    /\ \A a \in Archives : a \in Seq(Entries) /\ Len(a) <= TARFS_FILES

\* As tar writes an archive of a directory: names are not empty, no name comes
\* twice, a directory has no contents and comes before what lies in it.
ASSUME ArchiveAssumption ==
    \A a \in Archives : \A k \in DOMAIN a :
      /\ a[k].name # <<>> /\ (a[k].dir => a[k].size = 0)
      /\ \A j \in DOMAIN a : a[j].name = a[k].name => j = k
      /\ Front(a[k].name) = <<>>
           \/ \E j \in 1..(k - 1) : a[j].dir /\ a[j].name = Front(a[k].name)

\* For a file in the root whose name is one character long, get_parent_inode would
\* look for a slash in front of the name and store a zero in front of temp_filename.
ASSUME NamesAssumption ==
    \A a \in Archives : \A k \in DOMAIN a :
      ~a[k].dir /\ Front(a[k].name) = <<>> => Last(a[k].name) \notin OneCharacter

VARIABLES archive, offset,
          global_tarfs,   \* the table; its length is file_count - 3
          up,             \* init_tarfs has returned
          fd,             \* fd[p]: the descriptors in use in PCB p
          taken,          \* taken[p][i]: bytes p has taken from the file with inode i
          first,          \* first[p]: inodes opened by p and not read since
          got             \* the read that was just made, if the last step was one:
                          \* inode, start, what was taken before, first

fsvars == <<archive, offset, global_tarfs, up, fd, taken, first, got>>

-----------------------------------------------------------------------------
(* The archive, as tar writes it: a header, and the contents in blocks.    *)

\* Contents of length n take this many blocks.
Blocks(n) == (n + TARFS_HEADER - 1) \div TARFS_HEADER

\* Where the header of entry k is; the one after the last entry is empty.
HeaderOffset(a) ==
    LET h[k \in 1..(Len(a) + 1)] ==
          IF k = 1 THEN 0 ELSE h[k - 1] + TARFS_HEADER * (1 + Blocks(a[k - 1].size))
    IN  h

\* The octal digits of a size.
Octal(n) == LET d[m \in 0..n] == IF m < 8 THEN <<m>> ELSE Append(d[m \div 8], m % 8)
            IN  d[n]

-----------------------------------------------------------------------------
(* init_tarfs.                                                             *)

Atoi(digits) == FoldLeft(LAMBDA v, d : v * 10 + d, 0, digits)

OctToDec(octal) ==
    LET f[v \in 0..octal] == IF v = 0 THEN 0 ELSE (v % 10) + 8 * f[v \div 10]
    IN  f[octal]

\* Mutant of Advance: a full last block is not told from a partial one.
AdvanceAlways(size) == (size \div TARFS_HEADER + 1) * TARFS_HEADER + TARFS_HEADER

Advance(size) ==
    CASE size = 0 -> TARFS_HEADER
      [] size # 0 /\ size % TARFS_HEADER = 0 -> size + TARFS_HEADER
      [] OTHER -> (size \div TARFS_HEADER + 1) * TARFS_HEADER + TARFS_HEADER

Inode(k) == 3 + k

\* The name up to its last slash: a directory's own name, which ends in one.
Enclosing(e) == IF e.dir THEN e.name ELSE Front(e.name)

\* get_parent_inode, and 0 for the -1 that it returns when it finds nothing.
ParentInode(table, e) ==
    LET hits == {k \in DOMAIN table : table[k].dir /\ table[k].name = Enclosing(e)}
    IN  IF Enclosing(e) = <<>> \/ hits = {} THEN 0
        ELSE Inode(CHOOSE k \in hits : \A j \in hits : k <= j)

TableEntry(table, e, off) ==
    [name |-> e.name, dir |-> e.dir, size |-> OctToDec(Atoi(Octal(e.size))),
     addr |-> off + TARFS_HEADER, inode |-> Inode(Len(table) + 1),
     p_inode |-> ParentInode(table, e)]

NoRead == [inode |-> 0]

FsInit ==
    /\ archive \in Archives
    /\ offset = 0 /\ global_tarfs = <<>> /\ up = FALSE
    /\ fd = [p \in Procs |-> <<>>]
    /\ taken = [p \in Procs |-> [i \in {} |-> 0]]
    /\ first = [p \in Procs |-> {}]
    /\ got = NoRead

HeaderAt(off) == CHOOSE k \in 1..(Len(archive) + 1) : HeaderOffset(archive)[k] = off

\* One round of the loop: the header at offset has a name.
AddEntry ==
    /\ ~up /\ HeaderAt(offset) <= Len(archive)
    /\ LET e == TableEntry(global_tarfs, archive[HeaderAt(offset)], offset)
       IN  /\ global_tarfs' = Append(global_tarfs, e)
           /\ offset' = offset + Advance(e.size)
    /\ UNCHANGED <<archive, up, fd, taken, first, got>>

Mounted ==
    /\ ~up /\ HeaderAt(offset) > Len(archive)
    /\ up' = TRUE
    /\ taken' = [p \in Procs |-> [i \in {Inode(k) : k \in DOMAIN global_tarfs} |-> 0]]
    /\ UNCHANGED <<archive, offset, global_tarfs, fd, first, got>>

-----------------------------------------------------------------------------
(* Directories.                                                            *)

\* The entries with a name, dir telling whether it ends in a slash.
Named(name, dir) ==
    {k \in DOMAIN global_tarfs : global_tarfs[k].name = name /\ global_tarfs[k].dir = dir}

NO_DIR == 999

\* opendir, for a name that ends in a slash.
OpenDir(name) ==
    CASE name = <<>>               -> 0
      [] name # <<>> /\ Named(name, TRUE) # {} ->
           global_tarfs[Min(Named(name, TRUE))].inode
      [] OTHER                     -> NO_DIR

\* The names that read_dir prints.
ReadDir(inode) ==
    {global_tarfs[k].name : k \in {j \in DOMAIN global_tarfs :
        IF inode = 0 THEN Len(global_tarfs[j].name) = 1
        ELSE global_tarfs[j].p_inode = inode}}

-----------------------------------------------------------------------------
(* Descriptors.                                                            *)

\* Mutant of Open: how far a file was read is kept with the file.
OpenShared(p, k) ==
    LET inode == global_tarfs[k].inode
    IN  /\ up /\ Len(fd[p]) < MAX_FD
        /\ fd' = [fd EXCEPT ![p] = Append(@, [inode |-> inode, size |-> global_tarfs[k].size,
                     read_addr |-> global_tarfs[k].addr
                                     + Max({taken[q][inode] : q \in Procs})])]
        /\ first' = [first EXCEPT ![p] = @ \cup {inode}]
        /\ got' = NoRead
        /\ UNCHANGED <<archive, offset, global_tarfs, up, taken>>

\* open takes the next descriptor, also when the file is open already.
Open(p, k) ==
    /\ up /\ Len(fd[p]) < MAX_FD
    /\ fd' = [fd EXCEPT ![p] = Append(@, [inode |-> global_tarfs[k].inode,
                                          size |-> global_tarfs[k].size,
                                          read_addr |-> global_tarfs[k].addr])]
    /\ first' = [first EXCEPT ![p] = @ \cup {global_tarfs[k].inode}]
    /\ got' = NoRead
    /\ UNCHANGED <<archive, offset, global_tarfs, up, taken>>

With(p, inode) == {i \in DOMAIN fd[p] : fd[p][i].inode = inode}

\* Mutant of Descriptor: the one that was opened last.
DescriptorLast(p, inode) ==
    CHOOSE i \in With(p, inode) : \A j \in With(p, inode) : i >= j

\* The descriptor that read uses.
Descriptor(p, inode) ==
    CHOOSE i \in With(p, inode) : \A j \in With(p, inode) : i <= j

Length(size, n) == IF size > n THEN n ELSE size

Read(p, inode, n) ==
    LET d   == fd[p][Descriptor(p, inode)]
        len == Length(d.size, n)
    IN  /\ up /\ With(p, inode) # {} /\ taken[p][inode] + len <= MaxTaken
        /\ fd' = [fd EXCEPT ![p][Descriptor(p, inode)].read_addr = @ + len]
        /\ taken' = [taken EXCEPT ![p][inode] = @ + len]
        /\ first' = [first EXCEPT ![p] = @ \ {inode}]
        /\ got' = [inode |-> inode, start |-> d.read_addr, before |-> taken[p][inode],
                   first |-> inode \in first[p]]
        /\ UNCHANGED <<archive, offset, global_tarfs, up>>

\* fork and execve: the new PCB is cleared, so it has no descriptors.
NewPcb(p) ==
    /\ up
    /\ fd' = [fd EXCEPT ![p] = <<>>]
    /\ taken' = [taken EXCEPT ![p] = [i \in DOMAIN taken[p] |-> 0]]
    /\ first' = [first EXCEPT ![p] = {}]
    /\ got' = NoRead
    /\ UNCHANGED <<archive, offset, global_tarfs, up>>

\* The file system on its own, used by any programs.
FsNext == \/ AddEntry \/ Mounted
          \/ \E p \in Procs, k \in DOMAIN global_tarfs : Open(p, k)
          \/ \E p \in Procs, k \in DOMAIN global_tarfs, n \in ReadSizes :
               Read(p, Inode(k), n)
          \/ \E p \in Procs : NewPcb(p)

FsSpec == FsInit /\ [][FsNext]_fsvars

-----------------------------------------------------------------------------
(* What must hold.                                                         *)

Entry(inode) == global_tarfs[inode - 3]

\* The walk goes from header to header whatever the sizes of the files are, and
\* in the end every entry is in the table, with its size and where it starts.
WalkFindsFiles ==
    /\ \E k \in 1..(Len(archive) + 1) : HeaderOffset(archive)[k] = offset
    /\ up => /\ Len(global_tarfs) = Len(archive)
             /\ \A k \in DOMAIN archive :
                  /\ global_tarfs[k].name = archive[k].name
                  /\ global_tarfs[k].size = archive[k].size
                  /\ global_tarfs[k].addr = HeaderOffset(archive)[k] + TARFS_HEADER

Children(name) == {k \in DOMAIN archive : Front(archive[k].name) = name}

Directories == {archive[k].name : k \in {j \in DOMAIN archive : archive[j].dir}}

\* A read goes on where this process's last read of this file ended, whichever
\* other files it reads and whatever other processes do with the same file.
ReadsFollowOn ==
    got # NoRead => got.start = Entry(got.inode).addr + got.before

\* A file that is opened is read from its start: nothing is left over from an
\* earlier use of it, although close does nothing.
OpenReadsFromStart ==
    got # NoRead /\ got.first => got.start = Entry(got.inode).addr
=============================================================================

-------------------------------- MODULE Boot --------------------------------
(***************************************************************************)
(* The start of the kernel up to the load of CR3 (start in sys/main.c and  *)
(* init_paging, setup_page_tables and set_identity_paging in               *)
(* sys/paging.c): which pages are marked free, and the kernel's page       *)
(* tables, built from free pages before they are in use.                   *)
(*                                                                         *)
(* An address is a page number, and p also stands for the virtual page     *)
(* KERNEL_ADDR | p.  The kernel has one pml4 and one pdpt, and a pd for     *)
(* every PT page tables, of which the first is taken at once; the page     *)
(* tables below them are the function pt.  Memory is zero when the machine *)
(* starts.                                                                 *)
(***************************************************************************)
EXTENDS Naturals, Sequences, FiniteSets, FiniteSetsExt, SequencesExt

CONSTANTS PT,         \* entries in a page table: 512
          BITS,       \* bits in free_map: 256 * 64
          BPP,        \* bits in a page: 32768
          INTS,       \* pages whose address is an int: 524288
          PHYSBASE,   \* first page of the kernel image
          PHYSFREE,   \* page behind the kernel image: free_map
          VIDEO,      \* page of the video memory
          Smaps       \* what the BIOS may report: sequences of [base, length, usable]

ASSUME BootAssumption ==
    /\ {PT, BITS, BPP, INTS, PHYSBASE, PHYSFREE, VIDEO} \subseteq Nat
    /\ 0 < PT /\ PT <= BPP
    /\ VIDEO < PT /\ PT <= PHYSBASE /\ PHYSBASE < PHYSFREE
    /\ PHYSFREE + 9 < PT * PT     \* the image and the first tables are below 1 GB

\* What the BIOS says of a part of the memory.
Parts == [base : Nat, length : Nat, usable : BOOLEAN]

\* The parts that start considers.
Usable(s) == {k \in DOMAIN s : s[k].usable /\ s[k].length # 0}

\* Behind free_map there are pages for the tables of a machine with e pages, nine
\* of which setup_page_tables may take, and for a pd more whenever PT tables are
\* full; free_map has bits for them, and start * PAGE_SIZE in init_paging does not
\* overflow.
Room(e) ==
    LET table == (e - 1) \div PT
        last  == PHYSFREE + 9 + (table + 1) + table \div PT
    IN  last < e /\ last < BITS /\ e <= INTS

\* Every machine has memory that can be used, and room for the tables in the
\* longest part of it: the kernel does not start on any other.
ASSUME SmapsAssumption ==
    \A s \in Smaps :
      /\ s \in Seq(Parts)
      /\ Usable(s) # {}
      /\ \A k \in Usable(s) :
           (\A j \in Usable(s) : s[j].length <= s[k].length) => Room(s[k].base + s[k].length)

VARIABLES stage,      \* how far start has come
          smap,       \* the memory map of this machine
          region,     \* smap_max
          free,       \* pages whose bit is set
          dirty,      \* pages behind free_map that bits were written to
          pt,         \* pt[i][j]: entry j of table i
          kernel      \* pages taken for the kernel's tables, in this order

bootvars == <<stage, smap, region, free, dirty, pt, kernel>>

BootInit ==
    /\ stage = "smap" /\ smap \in Smaps
    /\ region = [base |-> 0, length |-> 0]
    /\ free = {} /\ dirty = {}
    /\ pt = <<>>
    /\ kernel = <<>>

-----------------------------------------------------------------------------
(* Pages.                                                                  *)

\* get_firstpage: the lowest free page, if those below k are not free; it looks at
\* the first BITS bits only.
FirstPage(F, k) == CHOOSE p \in k..(BITS - 1) : p \in F /\ \A q \in k..(p - 1) : q \notin F

\* The pages that n calls of allocate_page or allocate_virt_page return.
Allocated(F, n) ==
    LET a[i \in 1..n] == FirstPage(F, IF i = 1 THEN 0 ELSE a[i - 1] + 1)
    IN  a

\* Mutant of Cleared: allocate_page does not clear the page.
ClearedNot(D, pages) == D

\* allocate_page clears the page.
Cleared(D, pages) == D \ pages

-----------------------------------------------------------------------------
(* start and init_paging.                                                  *)

\* The usable part that is longest; of several, the first.
Largest ==
    CHOOSE k \in Usable(smap) :
      \A j \in Usable(smap) : \/ smap[j].length < smap[k].length
                              \/ smap[j].length = smap[k].length /\ k <= j

ScanSmap ==
    /\ stage = "smap"
    /\ region' = [base |-> smap[Largest].base, length |-> smap[Largest].length]
    /\ stage' = "paging"
    /\ UNCHANGED <<smap, free, dirty, pt, kernel>>

End == region.base + region.length

\* The first page that does not begin below physfree_start, which is half a
\* page behind physfree.
FirstFree == PHYSFREE + 1

\* free_map takes half a page; set_bit writes on behind it, and from bit BPP on
\* into the pages that follow.
InitPaging ==
    /\ stage = "paging"
    /\ free' = FirstFree..(End - 1)
    /\ dirty' = {PHYSFREE + p \div BPP : p \in free'} \ {PHYSFREE}
    /\ stage' = "tables"
    /\ UNCHANGED <<smap, region, pt, kernel>>

-----------------------------------------------------------------------------
(* The kernel's tables: t is [free, dirty, pt, kernel].                     *)

\* n pages are allocated for tables.
Take(t, n) ==
    LET a == Allocated(t.free, n)
    IN  [t EXCEPT !.free = @ \ ToSet(a), !.dirty = Cleared(@, ToSet(a)), !.kernel = @ \o a]

\* The entries of f, and where f has none, those of g.
Over(f, g) == [x \in DOMAIN f \cup DOMAIN g |-> IF x \in DOMAIN f THEN f[x] ELSE g[x]]

\* The pages P are entered in table i, each at the place its number has in the
\* table it belongs to; of several for one place the last remains.
Enter(table, P) ==
    Over([j \in {p % PT : p \in P} |-> Max({p \in P : p % PT = j})], table)

\* pml4, pdpt, pd and a table for the image, in which free_map is entered as well,
\* then a second table for the video memory.
SetupTables(t) ==
    [Take(t, 5) EXCEPT !.pt =
       [i \in {PHYSBASE \div PT, 0} |-> Enter(<<>>, IF i = 0 THEN {VIDEO} ELSE PHYSBASE..PHYSFREE)]]

\* The pds that the tables in T are entered in.
Directories(T) == {i \div PT : i \in T}

\* map_virt_to_phys_addr for the pages P, in ascending order: a pd and a table that
\* are missing are allocated.
MapPages(t, P) ==
    LET there == DOMAIN t.pt
        all == there \cup {p \div PT : p \in P}
    IN  [Take(t, Cardinality(all \ there) + Cardinality(Directories(all) \ Directories(there)))
          EXCEPT !.pt =
           [i \in all |-> Enter(IF i \in there THEN t.pt[i] ELSE <<>>,
                                {p \in P : p \div PT = i})]]

\* Mutant of IdentityEnd: only the image is mapped.
IdentityEndImage == FirstFree

\* physfree_end
IdentityEnd == End

Tables == [free |-> free, dirty |-> dirty, pt |-> pt, kernel |-> kernel]

Become(t) == free' = t.free /\ dirty' = t.dirty /\ pt' = t.pt /\ kernel' = t.kernel

\* pml4, pdpt and pd are entered in the tables, and then the table that pd was
\* entered in: map_virt_to_phys_addr has left its page in the global pt.
SetupPageTables ==
    /\ stage = "tables"
    /\ LET t == SetupTables(Tables)
           u == MapPages(t, {t.kernel[1], t.kernel[2], t.kernel[3]})
           used == IF t.kernel[3] \div PT = PHYSBASE \div PT THEN u.kernel[4] ELSE Last(u.kernel)
       IN  Become(MapPages(u, {used}))
    /\ stage' = "identity"
    /\ UNCHANGED <<smap, region>>

\* set_identity_paging and load_CR3.
SetIdentityPaging ==
    /\ stage = "identity"
    /\ Become(MapPages(Tables, 0..(IdentityEnd - 1)))
    /\ stage' = "up"
    /\ UNCHANGED <<smap, region>>

BootNext == ScanSmap \/ InitPaging \/ SetupPageTables \/ SetIdentityPaging

-----------------------------------------------------------------------------
(* What must hold.                                                         *)

\* When CR3 is loaded, KERNEL_ADDR | p leads to p for every page of the machine,
\* the pages of the tables that were added on the way included, also when the
\* image did not fit into the table it was entered in.
IdentityComplete ==
    stage = "up" =>
      \A p \in 0..(End - 1) : /\ p \div PT \in DOMAIN pt
                              /\ p % PT \in DOMAIN pt[p \div PT]
                              /\ pt[p \div PT][p % PT] = p

\* No table shares its page with another one, with the image or with free_map,
\* and none of these pages is marked free.
KernelPagesApart ==
    /\ Cardinality(ToSet(kernel)) = Len(kernel)
    /\ ToSet(kernel) \cap (free \cup 0..PHYSFREE) = {}
    /\ free \cap 0..PHYSFREE = {}

\* On a machine with more than BPP pages init_paging writes bits into pages it has
\* marked free, and fork takes free pages for tables without clearing them: once
\* the tables are in use, no bit is left in a table of the kernel or a free page.
BitsCleared == stage = "up" => dirty \cap (free \cup ToSet(kernel)) = {}
=============================================================================

---------------------------- MODULE PagingProofs ----------------------------
(***************************************************************************)
(* Proofs about Paging, for any number of frames, spaces and pages.        *)
(***************************************************************************)
EXTENDS Paging, TLAPS

\* The entries the mapping functions write are entries.
\* The translation an access uses is an entry.
LEMMA EntryTypes ==
    ASSUME NEW f \in Frames, NEW e \in PTE
    PROVE  /\ UserEntry(f) \in PTE /\ KernEntry(f) \in PTE
           /\ CowEntry(e) \in PTE /\ ParentEntry(e) \in PTE
           /\ e # NoPTE => e.frame \in Frames /\ e.kind \in {"user", "kern", "cow"}
           /\ e.kind # "none" <=> e # NoPTE
  BY FramesAssumption DEF UserEntry, KernEntry, CowEntry, ParentEntry, PTE, NoPTE

\* Zero and program contents are contents.
LEMMA ValTypes == Zero \in Vals /\ Images \subseteq Vals /\ Data \subseteq Vals
  BY ValsAssumption

\* An empty TLB is a TLB.
LEMMA FlushType == Flush \in [VPages -> PTE] /\ NoPTE \in PTE
  BY DEF Flush, PTE

\* The translation an access uses is an entry.
LEMMA EntryType ==
    ASSUME TypeOK, NEW v \in VPages
    PROVE  Entry(v) \in PTE
  BY DEF Entry, TypeOK

\* create_user_process and execve keep every variable typed.
LEMMA LoadProgramType ==
    ASSUME TypeOK, NEW s \in Spaces, NEW img \in Images, LoadProgram(s, img)
    PROVE  /\ free' \subseteq Frames /\ kmem' \subseteq Frames
           /\ mem' \in [Frames -> Vals]
           /\ pt' \in [Spaces -> [VPages -> PTE]]
  <1>1. PICK k \in Frames, r \in Frames, us \in Frames, st \in Frames,
             ph \in Frames, hp \in Frames : LoadInto(s, img, k, r, us, st, ph, hp)
    BY DEF LoadProgram
  <1>2. free' \subseteq Frames /\ kmem' \subseteq Frames
    BY <1>1 DEF TypeOK, LoadInto
  <1>3. mem' \in [Frames -> Vals]
    BY <1>1, ValTypes DEF TypeOK, LoadInto
  <1>4. pt' \in [Spaces -> [VPages -> PTE]]
    <2> DEFINE new == [v \in VPages |-> CASE v = StackTop -> Mapped(us, st)
                                          [] v = HeapBase -> Mapped(ph, hp)
                                          [] OTHER        -> NoPTE]
    <2>1. new \in [VPages -> PTE]
      BY EntryTypes, FlushType DEF Mapped
    <2>2. KernEntry(us) \in PTE
      BY EntryTypes, FlushType
    <2>3. pt' = [pt EXCEPT ![cr3][StackTop] = KernEntry(us), ![s] = new]
      BY <1>1 DEF LoadInto
    <2> HIDE DEF new
    <2> QED BY <2>1, <2>2, <2>3 DEF TypeOK
  <1> QED BY <1>2, <1>3, <1>4

\* pagefault_handler keeps every variable typed.
LEMMA PageFaultType ==
    ASSUME TypeOK, NEW v \in VPages, NEW x \in Vals, PageFault(v, x)
    PROVE  TypeOK'
  <1>1. PICK p \in Frames, c \in Frames : FaultIn(v, x, p, c)
    BY DEF PageFault
  <1>2. Mapped(p, c) \in PTE
    BY EntryTypes, FlushType DEF Mapped
  <1> QED BY <1>1, <1>2, FlushType DEF PageFault, FaultIn, TypeOK

\* TypeOK: every variable keeps its type, and a present entry names a frame.
THEOREM TypeCorrect == Spec => []TypeOK
  <1>1. Init => TypeOK
    BY SpacesAssumption, ValTypes, FlushType DEF Init, TypeOK, Status
  <1>2. TypeOK /\ [Next]_vars => TypeOK'
    <2> SUFFICES ASSUME TypeOK, [Next]_vars PROVE TypeOK'
      OBVIOUS
    <2>1. ASSUME NEW s \in Spaces, NEW img \in Images, CreateUserProcess(s, img)
          PROVE  TypeOK'
      BY <2>1, LoadProgramType, FlushType DEF CreateUserProcess, TypeOK, Status
    <2>2. ASSUME NEW s \in Spaces, NEW img \in Images, Execve(s, img)
          PROVE  TypeOK'
      BY <2>2, LoadProgramType, FlushType DEF Execve, TypeOK, Status
    <2>3. ASSUME NEW s \in Spaces, ForkChild(s) PROVE TypeOK'
      <3>1. PICK k \in Frames, r \in Frames, t \in Frames,
                 stray \in {NoPTE} \cup {UserEntry(f) : f \in Frames} :
              ForkInto(s, k, r, t, stray)
        BY <2>3 DEF ForkChild
      <3>2. stray \in PTE
        BY EntryTypes, FlushType
      <3>3. \A v \in VPages : pt[cr3][v] \in PTE
        BY DEF TypeOK
      <3>4. pt' \in [Spaces -> [VPages -> PTE]]
        BY <3>1, <3>2, <3>3, EntryTypes DEF TypeOK, ForkInto
      <3> QED BY <2>3, <3>1, <3>4, FlushType, ValTypes DEF ForkChild, ForkInto, TypeOK, Status
    <2>4. ASSUME NEW t \in Spaces, SwitchTo(t) PROVE TypeOK'
      BY <2>4, FlushType DEF SwitchTo, TypeOK
    <2>5. ASSUME NEW t \in Spaces, Kill(t) PROVE TypeOK'
      BY <2>5 DEF Kill, TypeOK, Status
    <2>6. ASSUME NEW t \in Spaces, SysExit(t) PROVE TypeOK'
      <3> DEFINE dead  == {s \in Spaces : status[s] \in {"stopped", "old"}}
                 freed == {pt[e[1]][e[2]].frame :
                             e \in {d \in dead \X VPages : Freeable(pt[d[1]][d[2]])}}
      <3>1. freed \subseteq Frames
        <4> SUFFICES ASSUME NEW s \in dead, NEW v \in VPages, Freeable(pt[s][v])
                     PROVE  pt[s][v].frame \in Frames
          OBVIOUS
        <4> QED BY EntryTypes DEF TypeOK, Freeable, NoPTE, PTE
      <3>2. free' \subseteq Frames /\ mem' \in [Frames -> Vals]
        BY <2>6, <3>1, ValTypes DEF SysExit, Wiped, TypeOK
      <3>3. pt' \in [Spaces -> [VPages -> PTE]]
        BY <2>6, FlushType DEF SysExit, TypeOK
      <3>4. status' \in [Spaces -> Status]
        BY <2>6 DEF SysExit, TypeOK, Status
      <3> QED BY <2>6, <3>2, <3>3, <3>4, FlushType DEF SysExit, TypeOK
    <2>7. ASSUME NEW v \in VPages, UserLoad(v) PROVE TypeOK'
      BY <2>7, EntryType, FlushType DEF UserLoad, TypeOK
    <2>8. ASSUME NEW v \in VPages, NEW x \in Data, UserStore(v, x) PROVE TypeOK'
      BY <2>8, ValTypes DEF UserStore, TypeOK
    <2>9. ASSUME NEW v \in VPages, NEW x \in Data, KernelStore(v, x) PROVE TypeOK'
      BY <2>9, ValTypes DEF KernelStore, TypeOK
    <2>10. ASSUME NEW v \in VPages, PageFaultCow(v) PROVE TypeOK'
      <3>1. Entry(v) # NoPTE
        BY <2>10 DEF PageFaultCow, Entry, NoPTE
      <3>2. Entry(v).frame \in Frames
        BY <3>1, EntryType DEF PTE
      <3> QED BY <2>10, <3>2, PageFaultType DEF PageFaultCow, TypeOK
    <2>11. ASSUME NEW v \in VPages, PageFaultDemand(v) PROVE TypeOK'
      BY <2>11, PageFaultType, ValTypes DEF PageFaultDemand
    <2>12. CASE UNCHANGED vars
      BY <2>12 DEF vars, TypeOK
    <2> QED BY <2>1, <2>2, <2>3, <2>4, <2>5, <2>6, <2>7, <2>8, <2>9, <2>10,
               <2>11, <2>12 DEF Next
  <1> QED BY <1>1, <1>2, PTL DEF Spec

-----------------------------------------------------------------------------
(***************************************************************************)
(* The inductive invariant: the safety properties of Paging together.      *)
(* None is inductive alone.  A frame is safe to free because a writable    *)
(* mapping is exclusive; it is exclusive because the frames that get       *)
(* mapped come from the free map and no table names a free frame; a fork   *)
(* adds no stray entry because free frames are clear; and they stay clear  *)
(* because every store goes through an entry that agrees with the tables.  *)
(***************************************************************************)
\* The kernel thread's space is never released: pid 1 neither exits nor is
\* replaced by execve.
KernelLive == status[Kernel] = "live"

IInv == /\ TypeOK
        /\ KernelLive
        /\ NoFreeFrameInUse
        /\ WritableIsPrivate
        /\ FreeFramesAreClear
        /\ TlbCoherent
        /\ LiveSpaceUsable

\* An entry that is present names a frame, which is not 0.
LEMMA PresentFrame ==
    ASSUME TypeOK, NEW s \in Spaces, NEW v \in VPages
    PROVE  /\ pt[s][v] \in PTE
           /\ pt[s][v] # NoPTE => pt[s][v].frame \in Frames
           /\ pt[s][v] = NoPTE => pt[s][v].frame = 0
           /\ pt[s][v] # NoPTE <=> pt[s][v].kind # "none"
           /\ pt[s][v].kind \in {"user", "kern", "cow", "none"}
           /\ 0 \notin Frames
  <1>1. pt[s][v] \in PTE
    BY DEF TypeOK
  <1> QED BY <1>1, FramesAssumption DEF PTE, NoPTE

\* A store goes to a frame that is mapped, hence not free.
LEMMA StoreKeeps ==
    ASSUME IInv, NEW v \in VPages, NEW x \in Vals, Entry(v) # NoPTE,
           mem' = [mem EXCEPT ![Entry(v).frame] = x],
           UNCHANGED <<free, kmem, pt, status, cr3, tlb>>
    PROVE  IInv'
  <1>1. Entry(v) = pt[cr3][v]
    BY DEF IInv, TlbCoherent, Entry
  <1>2. pt[cr3][v].frame \in Frames /\ pt[cr3][v].frame \notin free
    BY <1>1, PresentFrame DEF IInv, NoFreeFrameInUse, TypeOK
  <1>3. TypeOK'
    BY <1>1, <1>2 DEF IInv, TypeOK
  <1>4. FreeFramesAreClear'
    BY <1>1, <1>2 DEF IInv, FreeFramesAreClear, TypeOK
  <1>5. NoFreeFrameInUse' /\ WritableIsPrivate' /\ TlbCoherent' /\ LiveSpaceUsable'
    BY DEF IInv, NoFreeFrameInUse, WritableIsPrivate, TlbCoherent, LiveSpaceUsable
  <1>6. KernelLive'
    BY DEF IInv, KernelLive
  <1> QED BY <1>3, <1>4, <1>5, <1>6 DEF IInv

\* A fault that maps a frame taken from the free map.
LEMMA FaultKeeps ==
    ASSUME IInv, NEW v \in VPages, NEW x \in Vals, cr3 # Kernel, PageFault(v, x)
    PROVE  IInv'
  <1>1. PICK p \in Frames : FirstPage(p, free) /\
        \E c \in Frames : FirstPage(c, free \ {p}) /\ FaultIn(v, x, p, c)
    BY DEF PageFault
  <1>2. PICK c \in Frames : FirstPage(c, free \ {p}) /\ FaultIn(v, x, p, c)
    BY <1>1
  <1>3. p \in free /\ c \in free /\ c # p
    BY <1>1, <1>2 DEF FirstPage
  <1>4. TypeOK'
    BY PageFaultType DEF IInv
  <1>5. cr3 \in Spaces
    BY DEF IInv, TypeOK
  <1>6. \A s \in Spaces, w \in VPages :
          pt'[s][w] = IF s = cr3 /\ w = v THEN UserEntry(c) ELSE pt[s][w]
    BY <1>2, <1>5 DEF FaultIn, Mapped, IInv, TypeOK
  <1>7. UserEntry(c).frame = c /\ UserEntry(c).kind = "user" /\ UserEntry(c) # NoPTE
    BY DEF UserEntry, NoPTE
  <1>8. \A s \in Spaces, w \in VPages : pt[s][w].frame # c
    BY <1>3, PresentFrame DEF IInv, NoFreeFrameInUse
  <1>9. NoFreeFrameInUse'
    BY <1>2, <1>3, <1>6, <1>7 DEF NoFreeFrameInUse, IInv, FaultIn, PageFault
  <1>10. WritableIsPrivate'
    BY <1>6, <1>7, <1>8 DEF WritableIsPrivate, IInv
  <1>11. FreeFramesAreClear'
    BY <1>2, <1>3 DEF FreeFramesAreClear, IInv, FaultIn, TypeOK
  <1>12. TlbCoherent'
    BY DEF TlbCoherent, PageFault, Flush
  <1>13. LiveSpaceUsable'
    BY <1>6, <1>7, SpacesAssumption DEF LiveSpaceUsable, IInv, PageFault
  <1>14. KernelLive'
    BY DEF IInv, KernelLive, PageFault
  <1> QED BY <1>4, <1>9, <1>10, <1>11, <1>12, <1>13, <1>14 DEF IInv

\* fork_child: both entries become copy-on-write, nothing stray appears.
LEMMA ForkKeeps ==
    ASSUME IInv, TypeOK', NEW s \in Spaces, ForkChild(s)
    PROVE  IInv'
  <1>1. PICK k \in Frames : FirstPage(k, free) /\
        \E r \in Frames : FirstPage(r, free \ {k}) /\
        \E t \in Frames : FirstPage(t, free \ {k, r}) /\
        \E stray \in {NoPTE} \cup {UserEntry(f) : f \in Frames} :
          ForkInto(s, k, r, t, stray)
    BY DEF ForkChild
  <1>2. PICK r \in Frames : FirstPage(r, free \ {k}) /\
        \E t \in Frames : FirstPage(t, free \ {k, r}) /\
        \E stray \in {NoPTE} \cup {UserEntry(f) : f \in Frames} :
          ForkInto(s, k, r, t, stray)
    BY <1>1
  <1>3. PICK t \in Frames : FirstPage(t, free \ {k, r}) /\
        \E stray \in {NoPTE} \cup {UserEntry(f) : f \in Frames} :
          ForkInto(s, k, r, t, stray)
    BY <1>2
  <1>4. PICK stray : ForkInto(s, k, r, t, stray)
    BY <1>3
  <1>5. k \in free /\ r \in free /\ t \in free
    BY <1>1, <1>2, <1>3 DEF FirstPage
  <1>6. stray = NoPTE
    BY <1>4, <1>5 DEF ForkInto, IInv, FreeFramesAreClear
  <1>7. cr3 \in Spaces /\ s # cr3
    BY DEF ForkChild, Fresh, IInv, TypeOK, LiveSpaceUsable
  <1>8. \A u \in Spaces, v \in VPages :
          pt'[u][v] = IF u = cr3 \/ u = s THEN CowEntry(pt[cr3][v]) ELSE pt[u][v]
    BY <1>4, <1>6, <1>7 DEF ForkInto, ParentEntry, CowEntry, IInv, TypeOK
  <1>9. \A v \in VPages :
          /\ CowEntry(pt[cr3][v]).frame = pt[cr3][v].frame
          /\ CowEntry(pt[cr3][v]) = NoPTE <=> pt[cr3][v] = NoPTE
          /\ pt[cr3][v] # NoPTE => CowEntry(pt[cr3][v]).kind = "cow"
          /\ CowEntry(pt[cr3][v]).kind # "kern"
    BY DEF CowEntry, NoPTE
  <1>10. NoFreeFrameInUse'
    BY <1>4, <1>5, <1>7, <1>8, <1>9 DEF NoFreeFrameInUse, IInv, ForkInto
  <1>11. WritableIsPrivate'
    <2> SUFFICES ASSUME NEW u \in Spaces, NEW q \in Spaces, NEW v \in VPages, NEW w \in VPages,
                        pt'[u][v] # NoPTE, pt'[u][v].frame = pt'[q][w].frame
                 PROVE  v = w /\ (u # q => pt'[u][v].kind = "cow" /\ pt'[q][w].kind = "cow")
      BY DEF WritableIsPrivate
    <2> DEFINE src(z) == IF z = s THEN cr3 ELSE z
    <2>1. src(u) \in Spaces /\ src(q) \in Spaces
      BY <1>7
    <2>2. pt'[u][v].frame = pt[src(u)][v].frame /\ pt'[q][w].frame = pt[src(q)][w].frame
      BY <1>7, <1>8, <1>9
    <2>3. pt[src(u)][v] # NoPTE
      BY <1>7, <1>8, <1>9
    <2>4. pt[src(q)][w] # NoPTE
      BY <2>1, <2>2, <2>3, PresentFrame DEF IInv
    <2> DEFINE a == src(u)
               b == src(q)
    <2>0. /\ a \in Spaces /\ b \in Spaces /\ pt[a][v] # NoPTE
          /\ pt[a][v].frame = pt[b][w].frame
      BY <2>1, <2>2, <2>3
    <2> HIDE DEF a, b
    <2>7. v = w /\ (a # b => pt[a][v].kind = "cow" /\ pt[b][w].kind = "cow")
      BY <2>0 DEF IInv, WritableIsPrivate
    <2>5. v = w
      BY <2>7
    <2>6. ASSUME u # q PROVE pt'[u][v].kind = "cow" /\ pt'[q][w].kind = "cow"
      <3>1. CASE src(u) = src(q)
        BY <3>1, <2>6, <2>3, <2>4, <1>7, <1>8, <1>9
      <3>2. CASE src(u) # src(q)
        <4>1. pt[src(u)][v].kind = "cow" /\ pt[src(q)][w].kind = "cow"
          BY <3>2, <2>7 DEF a, b
        <4> QED BY <4>1, <2>3, <2>4, <1>7, <1>8, <1>9
      <3> QED BY <3>1, <3>2
    <2> QED BY <2>5, <2>6
  <1>12. FreeFramesAreClear'
    BY <1>4, <1>5 DEF FreeFramesAreClear, IInv, ForkInto, TypeOK
  <1>13. TlbCoherent'
    BY DEF TlbCoherent, ForkChild, Flush
  <1>14. LiveSpaceUsable'
    <2>1. status'[cr3'] = "live"
      BY <1>7 DEF ForkChild, IInv, LiveSpaceUsable, TypeOK
    <2>2. ASSUME NEW u \in Spaces \ {Kernel}, NEW v \in VPages, status'[u] = "live"
          PROVE  pt'[u][v].kind # "kern"
      BY <2>2, <1>7, <1>8, <1>9 DEF ForkChild, IInv, LiveSpaceUsable, TypeOK
    <2>3. s # Kernel /\ cr3 # Kernel
      BY DEF ForkChild, Fresh, IInv, KernelLive
    <2>4. \A v \in VPages : pt'[Kernel][v].kind \in {"none", "kern"}
      BY <2>3, <1>8, SpacesAssumption DEF IInv, LiveSpaceUsable
    <2> QED BY <2>1, <2>2, <2>4 DEF LiveSpaceUsable
  <1>15. KernelLive'
    BY SpacesAssumption DEF ForkChild, IInv, KernelLive, TypeOK
  <1> QED BY <1>10, <1>11, <1>12, <1>13, <1>14, <1>15 DEF IInv

\* create_user_process and execve: six different frames leave the free map;
\* the two that are mapped in the new space and the one mapped in the caller's
\* are mapped nowhere else.
LEMMA LoadKeeps ==
    ASSUME IInv, TypeOK', NEW s \in Spaces, NEW img \in Images,
           LoadProgram(s, img), s # cr3
    PROVE  /\ NoFreeFrameInUse' /\ WritableIsPrivate' /\ FreeFramesAreClear'
           /\ \A u \in Spaces, v \in VPages :
                /\ u \notin {s, cr3} => pt'[u][v] = pt[u][v]
                /\ u = s => pt'[u][v].kind \in {"user", "none"}
                /\ u = cr3 => pt'[u][v] = pt[u][v] \/ pt'[u][v].kind = "kern"
                /\ pt[u][v] # NoPTE => mem'[pt[u][v].frame] = mem[pt[u][v].frame]
           /\ \A v \in VPages :
                /\ v = StackTop => pt'[s][v].kind = "user" /\ mem'[pt'[s][v].frame] = img
                /\ v = HeapBase => pt'[s][v].kind = "user" /\ mem'[pt'[s][v].frame] = Zero
                /\ v \notin {StackTop, HeapBase} => pt'[s][v] = NoPTE
  <1>1. PICK k \in Frames : FirstPage(k, free) /\
        \E r \in Frames : FirstPage(r, free \ {k}) /\
        \E us \in Frames : FirstPage(us, free \ {k, r}) /\
        \E st \in Frames : FirstPage(st, free \ {k, r, us}) /\
        \E ph \in Frames : FirstPage(ph, free \ {k, r, us, st}) /\
        \E hp \in Frames : FirstPage(hp, free \ {k, r, us, st, ph}) /\
          LoadInto(s, img, k, r, us, st, ph, hp)
    BY DEF LoadProgram
  <1>2. PICK r \in Frames : FirstPage(r, free \ {k}) /\
        \E us \in Frames : FirstPage(us, free \ {k, r}) /\
        \E st \in Frames : FirstPage(st, free \ {k, r, us}) /\
        \E ph \in Frames : FirstPage(ph, free \ {k, r, us, st}) /\
        \E hp \in Frames : FirstPage(hp, free \ {k, r, us, st, ph}) /\
          LoadInto(s, img, k, r, us, st, ph, hp)
    BY <1>1
  <1>3. PICK us \in Frames : FirstPage(us, free \ {k, r}) /\
        \E st \in Frames : FirstPage(st, free \ {k, r, us}) /\
        \E ph \in Frames : FirstPage(ph, free \ {k, r, us, st}) /\
        \E hp \in Frames : FirstPage(hp, free \ {k, r, us, st, ph}) /\
          LoadInto(s, img, k, r, us, st, ph, hp)
    BY <1>2
  <1>4. PICK st \in Frames : FirstPage(st, free \ {k, r, us}) /\
        \E ph \in Frames : FirstPage(ph, free \ {k, r, us, st}) /\
        \E hp \in Frames : FirstPage(hp, free \ {k, r, us, st, ph}) /\
          LoadInto(s, img, k, r, us, st, ph, hp)
    BY <1>3
  <1>5. PICK ph \in Frames : FirstPage(ph, free \ {k, r, us, st}) /\
        \E hp \in Frames : FirstPage(hp, free \ {k, r, us, st, ph}) /\
          LoadInto(s, img, k, r, us, st, ph, hp)
    BY <1>4
  <1>6. PICK hp \in Frames : FirstPage(hp, free \ {k, r, us, st, ph}) /\
          LoadInto(s, img, k, r, us, st, ph, hp)
    BY <1>5
  <1>7. /\ {k, r, us, st, ph, hp} \subseteq free
        /\ us \notin {k, r} /\ st \notin {k, r, us} /\ hp \notin {k, r, us, st}
    BY <1>1, <1>2, <1>3, <1>4, <1>5, <1>6 DEF FirstPage
  <1>8. cr3 \in Spaces
    BY DEF IInv, TypeOK
  <1>9. \A u \in Spaces, v \in VPages :
          pt'[u][v] = IF u = s
                      THEN CASE v = StackTop -> UserEntry(st)
                             [] v = HeapBase -> UserEntry(hp)
                             [] OTHER -> NoPTE
                      ELSE IF u = cr3 /\ v = StackTop THEN KernEntry(us) ELSE pt[u][v]
    <2> DEFINE new == [v \in VPages |-> CASE v = StackTop -> Mapped(us, st)
                                          [] v = HeapBase -> Mapped(ph, hp)
                                          [] OTHER        -> NoPTE]
    <2>1. pt' = [pt EXCEPT ![cr3][StackTop] = KernEntry(us), ![s] = new]
      BY <1>6 DEF LoadInto
    <2>2. \A v \in VPages : new[v] = CASE v = StackTop -> UserEntry(st)
                                       [] v = HeapBase -> UserEntry(hp)
                                       [] OTHER -> NoPTE
      BY PagesAssumption DEF Mapped
    <2> HIDE DEF new
    <2>3. \A u \in Spaces, v \in VPages :
            pt'[u][v] = IF u = s THEN new[v]
                        ELSE IF u = cr3 /\ v = StackTop THEN KernEntry(us) ELSE pt[u][v]
      BY <2>1, <1>8 DEF IInv, TypeOK
    <2> QED BY <2>2, <2>3
  <1>10. /\ UserEntry(st).frame = st /\ UserEntry(st).kind = "user" /\ UserEntry(st) # NoPTE
         /\ UserEntry(hp).frame = hp /\ UserEntry(hp).kind = "user" /\ UserEntry(hp) # NoPTE
         /\ KernEntry(us).frame = us /\ KernEntry(us).kind = "kern" /\ KernEntry(us) # NoPTE
         /\ NoPTE.frame = 0 /\ NoPTE.kind = "none"
    BY DEF UserEntry, KernEntry, NoPTE
  <1>11. \A u \in Spaces, v \in VPages : pt[u][v].frame \notin {us, st, hp}
    BY <1>7, PresentFrame DEF IInv, NoFreeFrameInUse
  <1>12. 0 \notin Frames
    BY FramesAssumption
  <1>13. NoFreeFrameInUse'
    <2>1. free' = free \ {k, r, us, st, ph, hp} /\ kmem' = kmem \cup {k, r}
      BY <1>6 DEF LoadInto
    <2>2. \A u \in Spaces, v \in VPages :
            pt'[u][v] # NoPTE =>
              \/ pt'[u][v].frame \in {us, st, hp}
              \/ pt'[u][v] = pt[u][v]
      BY <1>9, <1>10
    <2>3. {us, st, hp} \cap (free' \cup kmem') = {}
      BY <2>1, <1>7 DEF IInv, NoFreeFrameInUse
    <2> QED BY <2>1, <2>2, <2>3, <1>7 DEF IInv, NoFreeFrameInUse
  <1>14. WritableIsPrivate'
    <2> SUFFICES ASSUME NEW u \in Spaces, NEW q \in Spaces, NEW v \in VPages, NEW w \in VPages,
                        pt'[u][v] # NoPTE, pt'[u][v].frame = pt'[q][w].frame
                 PROVE  v = w /\ (u # q => pt'[u][v].kind = "cow" /\ pt'[q][w].kind = "cow")
      BY DEF WritableIsPrivate
    <2>1. CASE u = s
      BY <2>1, <1>7, <1>9, <1>10, <1>11, <1>12, PagesAssumption
    <2>2. CASE u # s /\ u = cr3 /\ v = StackTop
      BY <2>2, <1>7, <1>9, <1>10, <1>11, <1>12, PagesAssumption
    <2>3. CASE u # s /\ ~(u = cr3 /\ v = StackTop)
      <3>1. pt'[u][v] = pt[u][v] /\ pt[u][v].frame \in Frames
        BY <2>3, <1>9, PresentFrame DEF IInv
      <3>2. pt'[q][w] = pt[q][w]
        BY <3>1, <1>9, <1>10, <1>11, <1>12
      <3> QED BY <3>1, <3>2 DEF IInv, WritableIsPrivate
    <2> QED BY <2>1, <2>2, <2>3
  <1>15. FreeFramesAreClear'
    BY <1>6, <1>7 DEF FreeFramesAreClear, IInv, LoadInto, TypeOK
  <1>16. \A u \in Spaces, v \in VPages :
                /\ u \notin {s, cr3} => pt'[u][v] = pt[u][v]
                /\ u = s => pt'[u][v].kind \in {"user", "none"}
                /\ u = cr3 => pt'[u][v] = pt[u][v] \/ pt'[u][v].kind = "kern"
    BY <1>9, <1>10
  <1>17. \A u \in Spaces, v \in VPages :
           pt[u][v] # NoPTE => mem'[pt[u][v].frame] = mem[pt[u][v].frame]
    <2>1. \A u \in Spaces, v \in VPages :
            pt[u][v] # NoPTE => pt[u][v].frame \in Frames \ {k, r, st, hp}
      BY <1>7, PresentFrame DEF IInv, NoFreeFrameInUse
    <2>2. \A f \in Frames \ {k, r, st, hp} : mem'[f] = mem[f]
      BY <1>6 DEF LoadInto, IInv, TypeOK
    <2> QED BY <2>1, <2>2
  <1>18. mem'[st] = img /\ mem'[hp] = Zero
    BY <1>6, <1>7 DEF LoadInto, IInv, TypeOK, FreeFramesAreClear
  <1>19. \A v \in VPages :
           /\ v = StackTop => pt'[s][v].kind = "user" /\ mem'[pt'[s][v].frame] = img
           /\ v = HeapBase => pt'[s][v].kind = "user" /\ mem'[pt'[s][v].frame] = Zero
           /\ v \notin {StackTop, HeapBase} => pt'[s][v] = NoPTE
    BY <1>9, <1>10, <1>18, PagesAssumption
  <1> QED BY <1>13, <1>14, <1>15, <1>16, <1>17, <1>19

\* sys_exit: what is freed was mapped by the dead process alone.
LEMMA ExitKeeps ==
    ASSUME IInv, TypeOK', NEW t \in Spaces, SysExit(t)
    PROVE  IInv'
  <1> DEFINE dead  == {s \in Spaces : status[s] \in {"stopped", "old"}}
             freed == {pt[e[1]][e[2]].frame :
                         e \in {d \in dead \X VPages : Freeable(pt[d[1]][d[2]])}}
  <1>1. \A f \in freed : \E s \in dead, v \in VPages :
          Freeable(pt[s][v]) /\ pt[s][v].frame = f
    OBVIOUS
  <1>2. PICK p \in Frames : /\ FirstPage(p, free \cup freed)
                            /\ free' = (free \cup freed) \ {p}
    BY DEF SysExit
  <1>3. /\ mem' = Wiped(mem, freed) /\ kmem' = kmem
        /\ \A s \in Spaces, v \in VPages :
             pt'[s][v] = IF s \in dead /\ Freeable(pt[s][v]) THEN NoPTE ELSE pt[s][v]
    BY DEF SysExit
  <1>4. \A s \in dead, v \in VPages : Freeable(pt[s][v]) =>
          /\ s \in Spaces /\ pt[s][v] # NoPTE /\ pt[s][v].kind # "cow"
          /\ pt[s][v].frame \in freed
    <2> SUFFICES ASSUME NEW s \in dead, NEW v \in VPages, Freeable(pt[s][v])
                 PROVE  /\ s \in Spaces /\ pt[s][v] # NoPTE /\ pt[s][v].kind # "cow"
                        /\ pt[s][v].frame \in freed
      OBVIOUS
    <2>1. <<s, v>> \in {d \in dead \X VPages : Freeable(pt[d[1]][d[2]])}
      OBVIOUS
    <2>2. pt[s][v].frame \in freed
      BY <2>1
    <2> QED BY <2>2, SMTT(20) DEF Freeable, NoPTE
  <1> HIDE DEF freed
  <1>5. \A s \in Spaces, v \in VPages :
          pt'[s][v] # NoPTE => pt'[s][v] = pt[s][v] /\ pt[s][v].frame \notin freed
    <2> SUFFICES ASSUME NEW s \in Spaces, NEW v \in VPages, pt'[s][v] # NoPTE,
                        pt[s][v].frame \in freed
                 PROVE  FALSE
      BY <1>3
    <2>1. pt'[s][v] = pt[s][v] /\ ~(s \in dead /\ Freeable(pt[s][v]))
      BY <1>3
    <2>2. PICK q \in dead, w \in VPages : Freeable(pt[q][w]) /\ pt[q][w].frame = pt[s][v].frame
      BY <1>1
    <2>3. q \in Spaces /\ pt[q][w] # NoPTE /\ pt[q][w].kind # "cow"
      BY <2>2, <1>4
    <2>4. v = w /\ s = q
      BY <2>2, <2>3 DEF IInv, WritableIsPrivate
    <2> QED BY <2>1, <2>2, <2>4
  <1>6. freed \cap kmem = {}
    BY <1>1, <1>4 DEF IInv, NoFreeFrameInUse
  <1>7. NoFreeFrameInUse'
    BY <1>2, <1>3, <1>5, <1>6 DEF IInv, NoFreeFrameInUse
  <1>8. WritableIsPrivate'
    <2> SUFFICES ASSUME NEW u \in Spaces, NEW q \in Spaces, NEW v \in VPages, NEW w \in VPages,
                        pt'[u][v] # NoPTE, pt'[u][v].frame = pt'[q][w].frame
                 PROVE  v = w /\ (u # q => pt'[u][v].kind = "cow" /\ pt'[q][w].kind = "cow")
      BY DEF WritableIsPrivate
    <2>1. pt'[u][v] = pt[u][v] /\ pt[u][v].frame \in Frames
      BY <1>5, PresentFrame DEF IInv
    <2>2. pt'[q][w] # NoPTE
      BY <2>1, FramesAssumption DEF NoPTE
    <2>3. pt'[q][w] = pt[q][w]
      BY <2>2, <1>5
    <2> QED BY <2>1, <2>3 DEF IInv, WritableIsPrivate
  <1>9. FreeFramesAreClear'
    BY <1>2, <1>3 DEF IInv, FreeFramesAreClear, Wiped, TypeOK
  <1>10. TlbCoherent'
    BY DEF TlbCoherent, SysExit, Flush
  <1>11. LiveSpaceUsable'
    <2>1. \A s \in Spaces : status'[s] = "live" => status[s] = "live"
      BY DEF SysExit
    <2>2. status'[cr3'] = "live"
      BY DEF SysExit
    <2>3. \A s \in Spaces \ {Kernel}, v \in VPages :
            status'[s] = "live" => pt'[s][v].kind # "kern"
      BY <2>1, <1>3 DEF IInv, LiveSpaceUsable, NoPTE
    <2>4. \A v \in VPages : pt'[Kernel][v].kind \in {"none", "kern"}
      BY <1>3, SpacesAssumption DEF IInv, LiveSpaceUsable, NoPTE
    <2> QED BY <2>2, <2>3, <2>4 DEF LiveSpaceUsable
  <1>12. KernelLive'
    BY SpacesAssumption DEF SysExit, IInv, KernelLive
  <1> QED BY <1>7, <1>8, <1>9, <1>10, <1>11, <1>12 DEF IInv

\* IInv holds in every reachable state.
THEOREM Inductive == Spec => []IInv
  <1>1. Init => IInv
    <2> SUFFICES ASSUME Init PROVE IInv
      OBVIOUS
    <2>1. TypeOK
      BY SpacesAssumption, ValTypes, FlushType DEF Init, TypeOK, Status
    <2>2. \A s \in Spaces, v \in VPages : pt[s][v] = NoPTE
      BY DEF Init
    <2>3. NoPTE.kind = "none"
      BY DEF NoPTE
    <2> QED BY <2>1, <2>2, <2>3, SpacesAssumption
            DEF Init, IInv, NoFreeFrameInUse, WritableIsPrivate, FreeFramesAreClear,
                TlbCoherent, LiveSpaceUsable, KernelLive
  <1>2. TypeOK /\ TypeOK' /\ IInv /\ [Next]_vars => IInv'
    <2> SUFFICES ASSUME TypeOK, TypeOK', IInv, [Next]_vars PROVE IInv'
      OBVIOUS
    <2>1. ASSUME NEW s \in Spaces, NEW img \in Images, CreateUserProcess(s, img)
          PROVE  IInv'
      <3>1. s # cr3 /\ cr3 = Kernel
        BY <2>1 DEF CreateUserProcess, Fresh, IInv, LiveSpaceUsable
      <3>2. TlbCoherent'
        BY <2>1 DEF CreateUserProcess, TlbCoherent, Flush
      <3>3. LiveSpaceUsable'
        <4>1. LoadProgram(s, img) /\ status' = [status EXCEPT ![s] = "live"] /\ cr3' = s
          BY <2>1 DEF CreateUserProcess
        <4>2. status'[cr3'] = "live"
          BY <4>1 DEF TypeOK
        <4>3. \A v \in VPages : pt'[Kernel][v].kind \in {"none", "kern"}
          BY <4>1, <3>1, LoadKeeps, SpacesAssumption DEF IInv, LiveSpaceUsable
        <4>4. ASSUME NEW u \in Spaces \ {Kernel}, NEW v \in VPages, status'[u] = "live"
              PROVE  pt'[u][v].kind # "kern"
          <5>1. CASE u = s
            BY <5>1, <4>1, <3>1, LoadKeeps
          <5>2. CASE u # s
            BY <5>2, <4>1, <4>4, <3>1, LoadKeeps DEF IInv, LiveSpaceUsable, TypeOK
          <5> QED BY <5>1, <5>2
        <4> QED BY <4>2, <4>3, <4>4 DEF LiveSpaceUsable
      <3>4. KernelLive'
        BY <2>1, SpacesAssumption DEF CreateUserProcess, IInv, KernelLive, TypeOK
      <3> QED BY <2>1, <3>1, <3>2, <3>3, <3>4, LoadKeeps DEF CreateUserProcess, IInv
    <2>2. ASSUME NEW s \in Spaces, NEW img \in Images, Execve(s, img)
          PROVE  IInv'
      <3>1. s # cr3
        BY <2>2 DEF Execve, Fresh, IInv, LiveSpaceUsable
      <3>2. TlbCoherent'
        BY <2>2 DEF Execve, TlbCoherent, Flush
      <3>3. LiveSpaceUsable'
        <4>1. /\ LoadProgram(s, img) /\ cr3 # Kernel /\ cr3' = s
              /\ status' = [status EXCEPT ![s] = "live", ![cr3] = "old"]
          BY <2>2 DEF Execve
        <4>2. status'[cr3'] = "live"
          BY <4>1, <3>1 DEF TypeOK
        <4>3. \A v \in VPages : pt'[Kernel][v].kind \in {"none", "kern"}
          <5>1. s # Kernel \/ \A v \in VPages : pt'[s][v].kind \in {"none", "kern"}
            BY <2>2 DEF Execve, Fresh, IInv, KernelLive
          <5> QED BY <5>1, <4>1, <3>1, LoadKeeps, SpacesAssumption DEF IInv, LiveSpaceUsable
        <4>4. ASSUME NEW u \in Spaces \ {Kernel}, NEW v \in VPages, status'[u] = "live"
              PROVE  pt'[u][v].kind # "kern"
          <5>1. CASE u = s
            BY <5>1, <4>1, <3>1, LoadKeeps
          <5>2. CASE u # s
            <6>1. u # cr3 /\ status[u] = "live"
              BY <5>2, <4>1, <4>4, <3>1 DEF TypeOK
            <6>2. pt'[u][v] = pt[u][v]
              BY <5>2, <6>1, <4>1, <3>1, LoadKeeps
            <6> QED BY <6>1, <6>2 DEF IInv, LiveSpaceUsable
          <5> QED BY <5>1, <5>2
        <4> QED BY <4>2, <4>3, <4>4 DEF LiveSpaceUsable
      <3>4. KernelLive'
        BY <2>2, SpacesAssumption DEF Execve, IInv, KernelLive, TypeOK
      <3> QED BY <2>2, <3>1, <3>2, <3>3, <3>4, LoadKeeps DEF Execve, IInv
    <2>3. ASSUME NEW s \in Spaces, ForkChild(s) PROVE IInv'
      BY <2>3, ForkKeeps
    <2>4. ASSUME NEW t \in Spaces, SwitchTo(t) PROVE IInv'
      <3>1. TlbCoherent'
        BY <2>4 DEF SwitchTo, TlbCoherent, Flush
      <3>2. LiveSpaceUsable' /\ KernelLive'
        BY <2>4 DEF SwitchTo, IInv, LiveSpaceUsable, KernelLive
      <3> QED BY <2>4, <3>1, <3>2 DEF SwitchTo, IInv, NoFreeFrameInUse, WritableIsPrivate,
                                      FreeFramesAreClear
    <2>5. ASSUME NEW t \in Spaces, Kill(t) PROVE IInv'
      <3>1. LiveSpaceUsable'
        BY <2>5 DEF Kill, IInv, LiveSpaceUsable, TypeOK
      <3>2. KernelLive'
        BY <2>5, SpacesAssumption DEF Kill, IInv, KernelLive, TypeOK
      <3> QED BY <2>5, <3>1, <3>2 DEF Kill, IInv, NoFreeFrameInUse, WritableIsPrivate,
                                FreeFramesAreClear, TlbCoherent
    <2>6. ASSUME NEW t \in Spaces, SysExit(t) PROVE IInv'
      BY <2>6, ExitKeeps
    <2>7. ASSUME NEW v \in VPages, UserLoad(v) PROVE IInv'
      <3>1. TlbCoherent'
        BY <2>7 DEF UserLoad, TlbCoherent, Entry, Flush
      <3> QED BY <2>7, <3>1 DEF UserLoad, IInv, NoFreeFrameInUse, WritableIsPrivate,
                                FreeFramesAreClear, LiveSpaceUsable, KernelLive
    <2>8. ASSUME NEW v \in VPages, NEW x \in Data, UserStore(v, x) PROVE IInv'
      <3>1. Entry(v) # NoPTE
        BY <2>8 DEF UserStore, NoPTE
      <3> QED BY <2>8, <3>1, StoreKeeps, ValTypes DEF UserStore
    <2>9. ASSUME NEW v \in VPages, NEW x \in Data, KernelStore(v, x) PROVE IInv'
      BY <2>9, StoreKeeps, ValTypes DEF KernelStore
    <2>10. ASSUME NEW v \in VPages, PageFaultCow(v) PROVE IInv'
      <3>1. Entry(v) # NoPTE
        BY <2>10 DEF PageFaultCow, Entry, NoPTE
      <3>2. Entry(v).frame \in Frames
        BY <3>1, EntryType DEF PTE
      <3>3. mem[Entry(v).frame] \in Vals
        BY <3>2 DEF TypeOK
      <3> QED BY <2>10, <3>3, FaultKeeps DEF PageFaultCow
    <2>11. ASSUME NEW v \in VPages, PageFaultDemand(v) PROVE IInv'
      BY <2>11, FaultKeeps, ValTypes DEF PageFaultDemand
    <2>12. CASE UNCHANGED vars
      BY <2>12 DEF vars, IInv, NoFreeFrameInUse, WritableIsPrivate, FreeFramesAreClear,
                   TlbCoherent, LiveSpaceUsable, KernelLive
    <2> QED BY <2>1, <2>2, <2>3, <2>4, <2>5, <2>6, <2>7, <2>8, <2>9, <2>10,
               <2>11, <2>12 DEF Next
  <1> QED BY <1>1, <1>2, TypeCorrect, PTL DEF Spec

\* No frame in the free map is in use by a page table or the kernel: free_page,
\* which keeps no reference counts, never gives away a page that is still mapped.
THEOREM FramesSafe == Spec => []NoFreeFrameInUse
  <1>1. IInv => NoFreeFrameInUse
    BY DEF IInv
  <1> QED BY <1>1, Inductive, PTL

\* A frame that is mapped writable is private, whatever sequence of forks, faults,
\* execs and exits led to the mapping.
THEOREM FramesPrivate == Spec => []WritableIsPrivate
  <1>1. IInv => WritableIsPrivate
    BY DEF IInv
  <1> QED BY <1>1, Inductive, PTL

\* What get_firstpage hands out is clear, as copy_parent_tables and init_mmap
\* need, although neither they nor allocate_page clears it.
THEOREM FramesClear == Spec => []FreeFramesAreClear
  <1>1. IInv => FreeFramesAreClear
    BY DEF IInv
  <1> QED BY <1>1, Inductive, PTL

\* No access uses a stale translation.
THEOREM TranslationSafe == Spec => []TlbCoherent
  <1>1. IInv => TlbCoherent
    BY DEF IInv
  <1> QED BY <1>1, Inductive, PTL

\* The space the CPU runs in is live, and no user space holds a mapping that only
\* the kernel may use.
THEOREM SpacesUsable == Spec => []LiveSpaceUsable
  <1>1. IInv => LiveSpaceUsable
    BY DEF IInv
  <1> QED BY <1>1, Inductive, PTL

-----------------------------------------------------------------------------
(***************************************************************************)
(* Paging implements AddressSpaces: each handler, seen through the page    *)
(* tables, is one operation on private memories.                           *)
(***************************************************************************)

\* What a user access finds, page by page.
LEMMA ViewAt ==
    ASSUME NEW s \in Spaces
    PROVE  /\ View(s) = [v \in VPages |-> View(s)[v]]
           /\ \A v \in VPages :
                View(s)[v] = IF status[s] = "live" /\ pt[s][v].kind \in {"user", "cow"}
                             THEN mem[pt[s][v].frame] ELSE Absent
  BY DEF View

\* The same after a step.
LEMMA ViewAtPrime ==
    ASSUME NEW s \in Spaces
    PROVE  /\ View(s)' = [v \in VPages |-> View(s)'[v]]
           /\ \A v \in VPages :
                View(s)'[v] = IF status'[s] = "live" /\ pt'[s][v].kind \in {"user", "cow"}
                              THEN mem'[pt'[s][v].frame] ELSE Absent
  BY DEF View

\* A page is absent exactly if user mode cannot reach it.
LEMMA AbsentIff ==
    ASSUME IInv, NEW s \in Spaces, NEW v \in VPages
    PROVE  View(s)[v] = Absent <=> ~(status[s] = "live" /\ pt[s][v].kind \in {"user", "cow"})
  <1>1. pt[s][v].kind \in {"user", "cow"} => pt[s][v].frame \in Frames
    BY PresentFrame DEF IInv
  <1>2. pt[s][v].kind \in {"user", "cow"} => mem[pt[s][v].frame] # Absent
    BY <1>1, ValsAssumption DEF IInv, TypeOK
  <1> QED BY <1>2, ViewAt

\* fork: the child has a copy of the views of the parent.
LEMMA ForkRefines ==
    ASSUME IInv, NEW s \in Spaces, ForkChild(s)
    PROVE  Abs!Fork(s)
  <1>1. PICK k \in Frames, r \in Frames, t \in Frames,
             stray \in {NoPTE} \cup {UserEntry(f) : f \in Frames} :
          k \in free /\ r \in free /\ t \in free /\ ForkInto(s, k, r, t, stray)
    BY DEF ForkChild, FirstPage
  <1>2. stray = NoPTE
    BY <1>1 DEF ForkInto, IInv, FreeFramesAreClear
  <1>3. /\ cr3 \in Spaces /\ s # cr3 /\ cr3 # Kernel /\ cr3' = cr3 /\ status[s] = "unused"
        /\ status' = [status EXCEPT ![s] = "live"] /\ status[cr3] = "live"
    BY DEF ForkChild, Fresh, IInv, TypeOK, LiveSpaceUsable
  <1>4. \A u \in Spaces, v \in VPages :
          pt'[u][v] = IF u = cr3 \/ u = s THEN CowEntry(pt[cr3][v]) ELSE pt[u][v]
    BY <1>1, <1>2, <1>3 DEF ForkInto, ParentEntry, CowEntry, IInv, TypeOK
  <1>5. \A u \in Spaces, v \in VPages :
          pt[u][v] # NoPTE => mem'[pt[u][v].frame] = mem[pt[u][v].frame]
    BY <1>1, PresentFrame DEF ForkInto, IInv, TypeOK, NoFreeFrameInUse
  <1>6. \A v \in VPages :
          /\ pt[cr3][v].kind # "kern"
          /\ CowEntry(pt[cr3][v]).frame = pt[cr3][v].frame
          /\ CowEntry(pt[cr3][v]).kind \in {"user", "cow"} <=> pt[cr3][v].kind \in {"user", "cow"}
    BY <1>3, PresentFrame DEF CowEntry, NoPTE, IInv, LiveSpaceUsable
  <1>7. ASSUME NEW u \in Spaces, NEW v \in VPages
        PROVE  View(u)'[v] = IF u = s THEN View(cr3)[v] ELSE View(u)[v]
    <2>1. status'[u] = IF u = s THEN "live" ELSE status[u]
      BY <1>3 DEF IInv, TypeOK
    <2>2. CASE u = s \/ u = cr3
      BY <2>1, <2>2, <1>3, <1>4, <1>5, <1>6, ViewAt, ViewAtPrime, PresentFrame DEF IInv
    <2>3. CASE u # s /\ u # cr3
      BY <2>1, <2>3, <1>4, <1>5, ViewAt, ViewAtPrime, PresentFrame DEF IInv
    <2> QED BY <2>2, <2>3
  <1>8. \A u \in Spaces : View(u)' = IF u = s THEN View(cr3) ELSE View(u)
    BY <1>7, <1>3, ViewAt, ViewAtPrime
  <1>9. {u \in Spaces : status'[u] = "live"} = {u \in Spaces : status[u] = "live"} \cup {s}
    BY <1>3 DEF IInv, TypeOK
  <1> QED BY <1>3, <1>8, <1>9 DEF Abs!Fork

\* create_user_process and execve: the new space reads as the program's image,
\* and no other space changes.
LEMMA LoadViews ==
    ASSUME IInv, TypeOK', NEW s \in Spaces, NEW img \in Images,
           LoadProgram(s, img), s # cr3, status'[s] = "live"
    PROVE  /\ View(s)' = Abs!Image(img)
           /\ \A u \in Spaces \ {s} :
                /\ status'[u] = status[u]
                /\ u = cr3 => u = Kernel
                => View(u)' = View(u)
  <1>1. View(s)' = Abs!Image(img)
    <2>1. \A v \in VPages : View(s)'[v] = Abs!Image(img)[v]
      BY LoadKeeps, ViewAtPrime DEF Abs!Image, NoPTE
    <2>2. Abs!Image(img) = [v \in VPages |-> Abs!Image(img)[v]]
      BY DEF Abs!Image
    <2> QED BY <2>1, <2>2, ViewAtPrime
  <1>2. ASSUME NEW u \in Spaces \ {s}, status'[u] = status[u], u = cr3 => u = Kernel
        PROVE  View(u)' = View(u)
    <2>1. ASSUME NEW v \in VPages PROVE View(u)'[v] = View(u)[v]
      <3>1. CASE u = cr3
        <4>1. pt[u][v].kind \in {"none", "kern"}
          BY <1>2, <3>1 DEF IInv, LiveSpaceUsable
        <4>2. pt'[u][v] = pt[u][v] \/ pt'[u][v].kind = "kern"
          BY <3>1, LoadKeeps
        <4> QED BY <4>1, <4>2, ViewAt, ViewAtPrime
      <3>2. CASE u # cr3
        <4>1. pt'[u][v] = pt[u][v]
          BY <3>2, LoadKeeps
        <4>2. pt[u][v] # NoPTE => mem'[pt[u][v].frame] = mem[pt[u][v].frame]
          BY LoadKeeps
        <4> QED BY <1>2, <4>1, <4>2, ViewAt, ViewAtPrime, PresentFrame DEF IInv
      <3> QED BY <3>1, <3>2
    <2> QED BY <2>1, ViewAt, ViewAtPrime
  <1> QED BY <1>1, <1>2

\* create_user_process: a new space with the image of a program.
LEMMA CreateRefines ==
    ASSUME IInv, TypeOK', NEW s \in Spaces, NEW img \in Images, CreateUserProcess(s, img)
    PROVE  Abs!Create(s, img)
  <1>1. /\ cr3 = Kernel /\ s # cr3 /\ status[s] = "unused" /\ cr3' = s
        /\ LoadProgram(s, img) /\ status' = [status EXCEPT ![s] = "live"]
    BY DEF CreateUserProcess, Fresh, IInv, LiveSpaceUsable
  <1>2. \A u \in Spaces : status'[u] = IF u = s THEN "live" ELSE status[u]
    BY <1>1 DEF IInv, TypeOK
  <1>3. \A u \in Spaces : View(u)' = IF u = s THEN Abs!Image(img) ELSE View(u)
    BY <1>1, <1>2, LoadViews
  <1>4. {u \in Spaces : status'[u] = "live"} = {u \in Spaces : status[u] = "live"} \cup {s}
    BY <1>2
  <1> QED BY <1>1, <1>3, <1>4 DEF Abs!Create

\* execve: the views of the old space go, the new one has the image.
LEMMA ExecRefines ==
    ASSUME IInv, TypeOK', NEW s \in Spaces, NEW img \in Images, Execve(s, img)
    PROVE  Abs!Exec(s, img)
  <1>1. /\ cr3 # Kernel /\ s # cr3 /\ status[s] = "unused" /\ cr3' = s /\ cr3 \in Spaces
        /\ LoadProgram(s, img) /\ status' = [status EXCEPT ![s] = "live", ![cr3] = "old"]
    BY DEF Execve, Fresh, IInv, LiveSpaceUsable, TypeOK
  <1>2. \A u \in Spaces : status'[u] = IF u = s THEN "live"
                                       ELSE IF u = cr3 THEN "old" ELSE status[u]
    BY <1>1 DEF IInv, TypeOK
  <1>3. ASSUME NEW u \in Spaces, u = cr3 PROVE View(u)' = Abs!Nothing
    <2>0. status'[u] = "old"
      BY <1>3, <1>1 DEF IInv, TypeOK
    <2>1. \A v \in VPages : View(u)'[v] = Absent
      BY <2>0, ViewAtPrime
    <2> QED BY <2>1, ViewAtPrime DEF Abs!Nothing
  <1>4. \A u \in Spaces : View(u)' = IF u = s THEN Abs!Image(img)
                                     ELSE IF u = cr3 THEN Abs!Nothing ELSE View(u)
    BY <1>1, <1>2, <1>3, LoadViews
  <1>5. {u \in Spaces : status'[u] = "live"}
          = ({u \in Spaces : status[u] = "live"} \ {cr3}) \cup {s}
    <2>1. \A u \in Spaces : status'[u] = "live" <=> u = s \/ (status[u] = "live" /\ u # cr3)
      <3>1. s # cr3
        BY <1>1
      <3> QED BY <3>1, <1>2
    <2> QED BY <2>1
  <1> QED BY <1>1, <1>4, <1>5 DEF Abs!Exec

\* kill: the views of the victim go, no other changes.
LEMMA KillRefines ==
    ASSUME IInv, NEW t \in Spaces, Kill(t)
    PROVE  Abs!Kill(t)
  <1>1. \A u \in Spaces : status'[u] = IF u = t THEN "stopped" ELSE status[u]
    BY DEF Kill, IInv, TypeOK
  <1>2. \A u \in Spaces, v \in VPages : View(u)'[v] = IF u = t THEN Absent ELSE View(u)[v]
    BY <1>1, ViewAt, ViewAtPrime DEF Kill
  <1>3. \A u \in Spaces : View(u)' = IF u = t THEN Abs!Nothing ELSE View(u)
    BY <1>2, ViewAt, ViewAtPrime DEF Abs!Nothing
  <1>4. {u \in Spaces : status'[u] = "live"} = {u \in Spaces : status[u] = "live"} \ {t}
    BY <1>1
  <1> QED BY <1>3, <1>4 DEF Abs!Kill, Kill

\* sys_exit frees and clears frames, none of which a live space maps.
LEMMA ExitRefines ==
    ASSUME IInv, IInv', NEW t \in Spaces, SysExit(t)
    PROVE  Abs!Exit(t)
  <1> DEFINE dead  == {s \in Spaces : status[s] \in {"stopped", "old"}}
             freed == {pt[e[1]][e[2]].frame :
                         e \in {d \in dead \X VPages : Freeable(pt[d[1]][d[2]])}}
  <1>1. /\ mem' = Wiped(mem, freed)
        /\ \A s \in Spaces, v \in VPages :
             pt'[s][v] = IF s \in dead /\ Freeable(pt[s][v]) THEN NoPTE ELSE pt[s][v]
        /\ \A s \in Spaces : status'[s] = CASE s \in dead -> "gone"
                                            [] s = cr3    -> "stopped"
                                            [] OTHER      -> status[s]
        /\ cr3 # Kernel /\ t # cr3 /\ status[t] = "live" /\ cr3' = t
    BY DEF SysExit
  <1>2. \A f \in freed : \E s \in dead, v \in VPages :
          Freeable(pt[s][v]) /\ pt[s][v].frame = f
    OBVIOUS
  <1> HIDE DEF freed
  <1>3. cr3 \in Spaces /\ cr3 \notin dead /\ status[cr3] = "live"
    BY DEF IInv, LiveSpaceUsable, TypeOK
  <1>4. \A s \in Spaces : status'[s] = "live" <=> status[s] = "live" /\ s # cr3
    BY <1>1, <1>3
  <1>5. ASSUME NEW u \in Spaces, NEW v \in VPages, status[u] = "live",
               pt[u][v].kind \in {"user", "cow"}
        PROVE  mem'[pt[u][v].frame] = mem[pt[u][v].frame]
    <2>1. pt[u][v] # NoPTE /\ pt[u][v].frame \in Frames
      BY <1>5, PresentFrame DEF IInv
    <2>2. ASSUME pt[u][v].frame \in freed PROVE FALSE
      <3>1. PICK q \in dead, w \in VPages :
              Freeable(pt[q][w]) /\ pt[q][w].frame = pt[u][v].frame
        BY <2>2, <1>2
      <3>2. q \in Spaces /\ q # u /\ pt[q][w].kind # "cow"
        BY <3>1, <1>5 DEF Freeable
      <3> QED BY <3>1, <3>2, <2>1 DEF IInv, WritableIsPrivate
    <2> QED BY <2>1, <2>2, <1>1 DEF Wiped
  <1>6. \A u \in Spaces, v \in VPages : View(u)'[v] = IF u = cr3 THEN Absent ELSE View(u)[v]
    <2> SUFFICES ASSUME NEW u \in Spaces, NEW v \in VPages
                 PROVE  View(u)'[v] = IF u = cr3 THEN Absent ELSE View(u)[v]
      OBVIOUS
    <2>1. CASE status[u] = "live" /\ u # cr3
      <3>1. pt'[u][v] = pt[u][v]
        BY <2>1, <1>1
      <3> QED BY <2>1, <3>1, <1>4, <1>5, ViewAt, ViewAtPrime
    <2>2. CASE ~(status[u] = "live" /\ u # cr3)
      BY <2>2, <1>3, <1>4, ViewAt, ViewAtPrime
    <2> QED BY <2>1, <2>2
  <1>7. \A u \in Spaces : View(u)' = IF u = cr3 THEN Abs!Nothing ELSE View(u)
    BY <1>6, ViewAt, ViewAtPrime DEF Abs!Nothing
  <1>8. {u \in Spaces : status'[u] = "live"} = {u \in Spaces : status[u] = "live"} \ {cr3}
    BY <1>4
  <1> QED BY <1>1, <1>7, <1>8 DEF Abs!Exit

\* A user store goes to a frame that no other space maps.
LEMMA StoreRefines ==
    ASSUME IInv, NEW v \in VPages, NEW x \in Data, UserStore(v, x)
    PROVE  Abs!Store(v, x)
  <1>1. Entry(v) = pt[cr3][v] /\ cr3 \in Spaces /\ status[cr3] = "live"
    BY DEF IInv, TlbCoherent, Entry, LiveSpaceUsable, TypeOK
  <1>2. pt[cr3][v].kind = "user" /\ pt[cr3][v] # NoPTE /\ pt[cr3][v].frame \in Frames
    BY <1>1, PresentFrame DEF UserStore, IInv
  <1>3. \A f \in Frames : mem'[f] = IF f = pt[cr3][v].frame THEN x ELSE mem[f]
    BY <1>1, <1>2 DEF UserStore, IInv, TypeOK
  <1>4. pt' = pt /\ status' = status /\ cr3' = cr3 /\ cr3 # Kernel
    BY DEF UserStore
  <1>5. ASSUME NEW u \in Spaces, NEW w \in VPages
        PROVE  View(u)'[w] = IF u = cr3 /\ w = v THEN x ELSE View(u)[w]
    <2>1. CASE u = cr3 /\ w = v
      BY <2>1, <1>1, <1>2, <1>3, <1>4, ViewAtPrime
    <2>2. CASE ~(u = cr3 /\ w = v)
      <3>1. pt[u][w] # NoPTE => pt[u][w].frame \in Frames \ {pt[cr3][v].frame}
        BY <2>2, <1>1, <1>2, PresentFrame DEF IInv, WritableIsPrivate
      <3> QED BY <2>2, <3>1, <1>3, <1>4, ViewAt, ViewAtPrime, PresentFrame DEF IInv
    <2> QED BY <2>1, <2>2
  <1>6. \A u \in Spaces : View(u)' = IF u = cr3 THEN [View(u) EXCEPT ![v] = x] ELSE View(u)
    BY <1>5, ViewAt, ViewAtPrime
  <1>7. View(cr3)[v] # Absent
    BY <1>1, <1>2, AbsentIff
  <1> QED BY <1>1, <1>4, <1>6, <1>7 DEF Abs!Store

\* A kernel store goes to a frame that the spaces sharing it map at one page.
LEMMA SysStoreRefines ==
    ASSUME IInv, NEW v \in VPages, NEW x \in Data, KernelStore(v, x)
    PROVE  Abs!SysStore(v, x)
  <1>1. Entry(v) = pt[cr3][v] /\ cr3 \in Spaces /\ status[cr3] = "live" /\ cr3 # Kernel
    BY DEF IInv, TlbCoherent, Entry, LiveSpaceUsable, TypeOK, KernelStore
  <1>2. /\ pt[cr3][v].kind \in {"user", "cow"} /\ pt[cr3][v] # NoPTE
        /\ pt[cr3][v].frame \in Frames
    BY <1>1, PresentFrame DEF KernelStore, IInv, LiveSpaceUsable
  <1>3. \A f \in Frames : mem'[f] = IF f = pt[cr3][v].frame THEN x ELSE mem[f]
    BY <1>1, <1>2 DEF KernelStore, IInv, TypeOK
  <1>4. pt' = pt /\ status' = status /\ cr3' = cr3
    BY DEF KernelStore
  <1> DEFINE T == {u \in Spaces : /\ status[u] = "live"
                                  /\ pt[u][v].kind \in {"user", "cow"}
                                  /\ pt[u][v].frame = pt[cr3][v].frame}
  <1>5. cr3 \in T /\ T \subseteq {u \in Spaces : status[u] = "live"}
    BY <1>1, <1>2
  <1>6. \A u \in T : View(u)[v] = View(cr3)[v]
    BY <1>1, <1>2, ViewAt
  <1>7. ASSUME NEW u \in Spaces, NEW w \in VPages
        PROVE  View(u)'[w] = IF u \in T /\ w = v THEN x ELSE View(u)[w]
    <2>1. CASE u \in T /\ w = v
      BY <2>1, <1>2, <1>3, <1>4, ViewAtPrime
    <2>2. CASE ~(u \in T /\ w = v)
      <3>1. CASE status[u] = "live" /\ pt[u][w].kind \in {"user", "cow"}
        <4>1. pt[u][w] # NoPTE /\ pt[u][w].frame \in Frames
          BY <3>1, PresentFrame DEF IInv
        <4>2. pt[u][w].frame # pt[cr3][v].frame
          BY <2>2, <3>1, <4>1, <1>1, <1>2 DEF IInv, WritableIsPrivate
        <4> QED BY <3>1, <4>1, <4>2, <2>2, <1>3, <1>4, ViewAt, ViewAtPrime
      <3>2. CASE ~(status[u] = "live" /\ pt[u][w].kind \in {"user", "cow"})
        BY <2>2, <3>2, <1>4, ViewAt, ViewAtPrime
      <3> QED BY <3>1, <3>2
    <2> QED BY <2>1, <2>2
  <1> HIDE DEF T
  <1>8. \A u \in Spaces : View(u)' = IF u \in T THEN [View(u) EXCEPT ![v] = x] ELSE View(u)
    BY <1>7, ViewAt, ViewAtPrime
  <1>9. View(cr3)[v] # Absent
    BY <1>1, <1>2, AbsentIff
  <1> DEFINE vw == [s \in Spaces |-> View(s)]
  <1>10. /\ \A t \in T : vw[t][v] = vw[cr3][v]
         /\ vw[cr3][v] # Absent
    BY <1>1, <1>5, <1>6, <1>9
  <1>11. vw' = [s \in Spaces |-> IF s \in T THEN [vw[s] EXCEPT ![v] = x] ELSE vw[s]]
    BY <1>8
  <1> QED BY <1>1, <1>4, <1>5, <1>10, <1>11 DEF Abs!SysStore

\* A fault changes what one page of the current space reads as, and only if
\* the contents it puts there differ.
LEMMA FaultViews ==
    ASSUME IInv, NEW v \in VPages, NEW x \in Vals, cr3 # Kernel, PageFault(v, x)
    PROVE  /\ cr3' = cr3 /\ status' = status /\ cr3 \in Spaces
           /\ \A u \in Spaces :
                View(u)' = IF u = cr3 THEN [View(u) EXCEPT ![v] = x] ELSE View(u)
  <1>1. PICK p \in Frames, c \in Frames : p \in free /\ c \in free /\ c # p /\ FaultIn(v, x, p, c)
    BY DEF PageFault, FirstPage
  <1>2. cr3' = cr3 /\ status' = status /\ cr3 \in Spaces /\ status[cr3] = "live"
    BY DEF PageFault, IInv, TypeOK, LiveSpaceUsable
  <1>3. \A s \in Spaces, w \in VPages :
          pt'[s][w] = IF s = cr3 /\ w = v THEN UserEntry(c) ELSE pt[s][w]
    BY <1>1, <1>2 DEF FaultIn, Mapped, IInv, TypeOK
  <1>4. mem'[c] = x /\ \A f \in Frames \ {p, c} : mem'[f] = mem[f]
    BY <1>1 DEF FaultIn, IInv, TypeOK
  <1>5. UserEntry(c).frame = c /\ UserEntry(c).kind = "user"
    BY DEF UserEntry
  <1>6. \A s \in Spaces, w \in VPages : pt[s][w] # NoPTE => pt[s][w].frame \in Frames \ {p, c}
    BY <1>1, PresentFrame DEF IInv, NoFreeFrameInUse
  <1>7. ASSUME NEW u \in Spaces, NEW w \in VPages
        PROVE  View(u)'[w] = IF u = cr3 /\ w = v THEN x ELSE View(u)[w]
    <2>1. CASE u = cr3 /\ w = v
      BY <2>1, <1>2, <1>3, <1>4, <1>5, ViewAtPrime
    <2>2. CASE ~(u = cr3 /\ w = v)
      <3>1. pt'[u][w] = pt[u][w]
        BY <2>2, <1>3
      <3>2. pt[u][w] # NoPTE => mem'[pt[u][w].frame] = mem[pt[u][w].frame]
        BY <1>4, <1>6
      <3> QED BY <2>2, <3>1, <3>2, <1>2, ViewAt, ViewAtPrime, PresentFrame DEF IInv
    <2> QED BY <2>1, <2>2
  <1>8. \A u \in Spaces : View(u)' = IF u = cr3 THEN [View(u) EXCEPT ![v] = x] ELSE View(u)
    BY <1>7, ViewAt, ViewAtPrime
  <1> QED BY <1>2, <1>8

\* The copy that a copy-on-write fault makes cannot be seen.
LEMMA CowRefines ==
    ASSUME IInv, NEW v \in VPages, PageFaultCow(v)
    PROVE  UNCHANGED Abs!vars
  <1>1. Entry(v) = pt[cr3][v] /\ cr3 \in Spaces /\ status[cr3] = "live" /\ cr3 # Kernel
    BY DEF IInv, TlbCoherent, Entry, LiveSpaceUsable, TypeOK, PageFaultCow
  <1>2. pt[cr3][v].kind = "cow" /\ pt[cr3][v].frame \in Frames
    BY PresentFrame, <1>1 DEF PageFaultCow, IInv
  <1>3. View(cr3)[v] = mem[Entry(v).frame] /\ mem[Entry(v).frame] \in Vals
    BY <1>1, <1>2, ViewAt DEF IInv, TypeOK
  <1>4. PageFault(v, mem[Entry(v).frame])
    BY DEF PageFaultCow
  <1>5. /\ cr3' = cr3 /\ status' = status
        /\ \A u \in Spaces :
             View(u)' = IF u = cr3 THEN [View(u) EXCEPT ![v] = mem[Entry(v).frame]] ELSE View(u)
    BY <1>1, <1>3, <1>4, FaultViews
  <1>6. \A u \in Spaces : View(u)' = View(u)
    BY <1>3, <1>5, ViewAt
  <1> QED BY <1>5, <1>6 DEF Abs!vars

\* A page that was not there appears, and reads as zero.
LEMMA DemandRefines ==
    ASSUME IInv, NEW v \in VPages, PageFaultDemand(v)
    PROVE  Abs!FirstTouch(v)
  <1>1. Entry(v) = pt[cr3][v] /\ cr3 \in Spaces /\ cr3 # Kernel
    BY DEF IInv, TlbCoherent, Entry, TypeOK, PageFaultDemand
  <1>2. ~(pt[cr3][v].kind \in {"user", "cow"})
    BY <1>1 DEF PageFaultDemand
  <1>3. View(cr3)[v] = Absent
    BY <1>1, <1>2, ViewAt
  <1>4. /\ cr3' = cr3 /\ status' = status
        /\ \A u \in Spaces :
             View(u)' = IF u = cr3 THEN [View(u) EXCEPT ![v] = Zero] ELSE View(u)
    BY <1>1, FaultViews, ValTypes DEF PageFaultDemand
  <1> QED BY <1>1, <1>3, <1>4 DEF Abs!FirstTouch

\* Every step of Paging is a step of AddressSpaces or changes no view.
LEMMA StepRefines ==
    ASSUME IInv, IInv', [Next]_vars
    PROVE  [Abs!Next]_(Abs!vars)
  <1>0. TypeOK'
    BY DEF IInv
  <1>1. ASSUME NEW s \in Spaces, NEW img \in Images, CreateUserProcess(s, img)
        PROVE  Abs!Next
    BY <1>0, <1>1, CreateRefines DEF Abs!Next
  <1>2. ASSUME NEW s \in Spaces, NEW img \in Images, Execve(s, img)
        PROVE  Abs!Next
    BY <1>0, <1>2, ExecRefines DEF Abs!Next
  <1>3. ASSUME NEW s \in Spaces, ForkChild(s) PROVE Abs!Next
    BY <1>3, ForkRefines DEF Abs!Next
  <1>4. ASSUME NEW t \in Spaces, SwitchTo(t) PROVE Abs!Next
    <2>1. \A u \in Spaces : View(u)' = View(u)
      BY <1>4 DEF SwitchTo, View
    <2>2. Abs!Switch(t)
      BY <1>4, <2>1 DEF SwitchTo, Abs!Switch
    <2> QED BY <2>2 DEF Abs!Next
  <1>5. ASSUME NEW t \in Spaces, Kill(t) PROVE Abs!Next
    BY <1>5, KillRefines DEF Abs!Next
  <1>6. ASSUME NEW t \in Spaces, SysExit(t) PROVE Abs!Next
    BY <1>6, ExitRefines DEF Abs!Next
  <1>7. ASSUME NEW v \in VPages, UserLoad(v) PROVE UNCHANGED Abs!vars
    BY <1>7 DEF UserLoad, View, Abs!vars
  <1>8. ASSUME NEW v \in VPages, NEW x \in Data, UserStore(v, x) PROVE Abs!Next
    BY <1>8, StoreRefines DEF Abs!Next
  <1>9. ASSUME NEW v \in VPages, NEW x \in Data, KernelStore(v, x) PROVE Abs!Next
    BY <1>9, SysStoreRefines DEF Abs!Next
  <1>10. ASSUME NEW v \in VPages, PageFaultCow(v) PROVE UNCHANGED Abs!vars
    BY <1>10, CowRefines
  <1>11. ASSUME NEW v \in VPages, PageFaultDemand(v) PROVE Abs!Next
    BY <1>11, DemandRefines DEF Abs!Next
  <1>12. CASE UNCHANGED vars
    BY <1>12 DEF vars, View, Abs!vars
  <1> QED BY <1>1, <1>2, <1>3, <1>4, <1>5, <1>6, <1>7, <1>8, <1>9, <1>10,
             <1>11, <1>12 DEF Next

\* Copy-on-write fork, demand paging and the reuse of frames implement private
\* address spaces: no user process can tell them apart, except where the kernel
\* itself writes through a shared page (SysStore).
THEOREM PagingImplementsAddressSpaces == Spec => ImplementsAddressSpaces
  <1>1. Init => Abs!Init
    <2> SUFFICES ASSUME Init PROVE Abs!Init
      OBVIOUS
    <2>1. \A s \in Spaces : View(s) = Abs!Nothing
      BY DEF Init, View, NoPTE, Abs!Nothing
    <2>2. {s \in Spaces : status[s] = "live"} = {Kernel}
      BY SpacesAssumption DEF Init
    <2> QED BY <2>1, <2>2 DEF Abs!Init, Init
  <1>2. IInv /\ IInv' /\ [Next]_vars => [Abs!Next]_(Abs!vars)
    BY StepRefines
  <1> QED BY <1>1, <1>2, Inductive, PTL DEF Spec, ImplementsAddressSpaces, Abs!Spec
=============================================================================

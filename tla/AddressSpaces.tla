--------------------------- MODULE AddressSpaces ---------------------------
(***************************************************************************)
(* What the memory of SBUnix promises to a user process, with no frames,   *)
(* page tables, copy-on-write marks or TLB: every live address space is a  *)
(* private map from virtual pages to contents.  fork gives the child a     *)
(* copy, execve a fresh image, a store changes the current space only, and *)
(* a page that is touched for the first time reads as zero.  Paging is     *)
(* shown to implement this specification.                                  *)
(*                                                                         *)
(* One promise is weaker than one would like.  A store made by the kernel  *)
(* on behalf of a system call (scanf, read, get_cwd, the '&' handling of   *)
(* execve) runs with CR0.WP clear and ignores the read-only mark of a      *)
(* shared page, so SysStore may show in other spaces as well, but only at  *)
(* the same virtual page and only where the contents were equal before.    *)
(***************************************************************************)
CONSTANTS Spaces, Kernel, VPages, Vals, Images, Data, Zero, Absent,
          StackTop, HeapBase

VARIABLES live,    \* the spaces that a process can still run in
          view,    \* view[s][v]: what a user access to page v of s reads
          cur      \* the space the CPU runs in

vars == <<live, view, cur>>

Nothing == [v \in VPages |-> Absent]

\* A program as execve leaves it: what was loaded, an empty heap page, no more.
Image(img) ==
    [v \in VPages |-> CASE v = StackTop -> img
                        [] v = HeapBase -> Zero
                        [] OTHER        -> Absent]

Init == /\ live = {Kernel}
        /\ view = [s \in Spaces |-> Nothing]
        /\ cur = Kernel

Create(s, img) ==
    /\ cur = Kernel /\ s \notin live
    /\ live' = live \cup {s}
    /\ view' = [view EXCEPT ![s] = Image(img)]
    /\ cur' = s

Fork(s) ==
    /\ cur # Kernel /\ s \notin live
    /\ live' = live \cup {s}
    /\ view' = [view EXCEPT ![s] = view[cur]]
    /\ UNCHANGED cur

Exec(s, img) ==
    /\ cur # Kernel /\ s \notin live
    /\ live' = (live \ {cur}) \cup {s}
    /\ view' = [view EXCEPT ![cur] = Nothing, ![s] = Image(img)]
    /\ cur' = s

Store(v, x) ==
    /\ cur # Kernel /\ view[cur][v] # Absent
    /\ view' = [view EXCEPT ![cur][v] = x]
    /\ UNCHANGED <<live, cur>>

SysStore(v, x) ==
    /\ cur # Kernel /\ view[cur][v] # Absent
    /\ \E T \in SUBSET live :
         /\ cur \in T
         /\ \A t \in T : view[t][v] = view[cur][v]
         /\ view' = [s \in Spaces |->
                       IF s \in T THEN [view[s] EXCEPT ![v] = x] ELSE view[s]]
    /\ UNCHANGED <<live, cur>>

FirstTouch(v) ==
    /\ cur # Kernel /\ view[cur][v] = Absent
    /\ view' = [view EXCEPT ![cur][v] = Zero]
    /\ UNCHANGED <<live, cur>>

Switch(t) ==
    /\ cur # Kernel /\ t \in live
    /\ cur' = t
    /\ UNCHANGED <<live, view>>

Kill(t) ==
    /\ t \in live \ {cur, Kernel}
    /\ live' = live \ {t}
    /\ view' = [view EXCEPT ![t] = Nothing]
    /\ UNCHANGED cur

Exit(t) ==
    /\ cur # Kernel /\ t \in live \ {cur}
    /\ live' = live \ {cur}
    /\ view' = [view EXCEPT ![cur] = Nothing]
    /\ cur' = t

Next == \/ \E s \in Spaces, img \in Images : Create(s, img)
        \/ \E s \in Spaces : Fork(s)
        \/ \E s \in Spaces, img \in Images : Exec(s, img)
        \/ \E v \in VPages, x \in Data : Store(v, x) \/ SysStore(v, x)
        \/ \E v \in VPages : FirstTouch(v)
        \/ \E t \in Spaces : Switch(t) \/ Kill(t) \/ Exit(t)

Spec == Init /\ [][Next]_vars
=============================================================================

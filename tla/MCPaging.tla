------------------------------ MODULE MCPaging ------------------------------
(* Instances of Paging for TLC.                                            *)
EXTENDS Paging, FiniteSets

CONSTANTS NFrames, NSpaces, MaxWritten, MaxLeaked

MCFrames == 1..NFrames
MCSpaces == 0..NSpaces

\* Bound: at most MaxWritten frames hold what a store left there.
FewWritten == Cardinality({f \in Frames : mem[f] \in Data}) <= MaxWritten

\* Bound: at most MaxLeaked frames are neither free nor used by anything.
MappedFrames == {pt[e[1]][e[2]].frame : e \in Spaces \X VPages}
FewLeaked == Cardinality(Frames \ (free \cup kmem \cup MappedFrames)) <= MaxLeaked
=============================================================================

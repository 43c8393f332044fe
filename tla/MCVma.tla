------------------------------- MODULE MCVma -------------------------------
(* Instances of Vma for TLC.                                               *)
EXTENDS Vma

CONSTANTS SegStarts, SegSizes, SegFlags

\* Segments that start and end anywhere in a page.
MCSegments == [start : SegStarts, size : SegSizes, flags : SegFlags]
=============================================================================

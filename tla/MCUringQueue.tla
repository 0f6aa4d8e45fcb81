---------------------------- MODULE MCUringQueue ----------------------------
(***************************************************************************)
(* One arena of four pages that split twice, or two arenas of two.         *)
(***************************************************************************)
EXTENDS UringQueue

MCShapes == {[max |-> 2, pages |-> 3, arenaMax |-> 4], [max |-> 1, pages |-> 3, arenaMax |-> 2]}
\* Few allocations when there are requests; when there are two the large arena, where they
\* have several parts, and no other thread.
Bounds ==
    /\ requests > 0 => allocs <= 2
    /\ requests > 1 => MaxOrder > 1 /\ abroad = {} /\ Pushed = {} /\ returned = <<>>

ThreadSymmetry == Permutations(Threads)
=============================================================================

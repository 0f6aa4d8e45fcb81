----------------------------- MODULE MCRecovery -----------------------------
(***************************************************************************)
(* A device for TLC with the page, trailer and metadata sizes of the code. *)
(* The segment holds a header and a handful of pages; frames carry little  *)
(* metadata, a page full of it, or enough that two fill more than a page.  *)
(* One owner has just what the layout needs, the others lack one thing.    *)
(***************************************************************************)
EXTENDS Recovery

MCShapes == {[len |-> 4096, metadata |-> 128], [len |-> 4096, metadata |-> 4032],
             [len |-> 8192, metadata |-> 2048]}

Enough == [capacity |-> 61440, routes |-> 2, frame_bytes |-> 8192]

MCOwners == {Enough, [Enough EXCEPT !.capacity = 61439], [Enough EXCEPT !.routes = 1],
             [Enough EXCEPT !.frame_bytes = 8191]}
=============================================================================

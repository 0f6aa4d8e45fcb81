---------------------------- MODULE MCDurability ----------------------------
(***************************************************************************)
(* Small devices for TLC: one formatted once and filled with frames, with   *)
(* and without syncs, and one formatted again over its first frame.        *)
(***************************************************************************)
EXTENDS Durability

Filled == [sync_mode |-> "Enabled", lsns |-> 3, errors |-> 1, formats |-> 1]
Unsynced == [sync_mode |-> "Disabled", lsns |-> 3, errors |-> 0, formats |-> 1]
Reformatted == [sync_mode |-> "Enabled", lsns |-> 1, errors |-> 0, formats |-> 2]

MCPlans == {Filled, Unsynced, Reformatted}
=============================================================================

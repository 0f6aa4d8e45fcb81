----------------------------- MODULE MCEngine -----------------------------
(* Bounds for model checking Engine. *)
EXTENDS Engine, TLC

CONSTANTS k1,
    MaxReads,       \* reads accepted in one behaviour
    MaxRestored     \* index entries recovery finds

Data(k, l) == [key |-> k, lsn |-> l, kind |-> "data"]
FramesOne == {<<Data(k1, 1)>>}

Bounds ==
    /\ Cardinality({t \in DOMAIN outcome : outcome[t].op \in {"read", "verified", "empty"}}) <= MaxReads
    /\ Cardinality(restored) <= MaxRestored

\* A restored entry takes the place of a ticket.
Weighted == Cardinality(restored) + Cardinality(DOMAIN outcome) < TicketLimit

\* For liveness the bounds restrict what callers ask for, never what poll or the device do.
LiveEngineSpec == EngineInit /\ [][EngineNext /\ Bounds']_allVars /\ EngineFairness

SlotSymmetry == Permutations(Slots)
=============================================================================

---------------------------- MODULE MCPipeline ----------------------------
(* Bounds for model checking Pipeline. *)
EXTENDS Pipeline, TLC

CONSTANTS k1, k2,
    MaxLifecycle    \* lifecycle tickets issued in one behaviour

Data(k, l) == [key |-> k, lsn |-> l, kind |-> "data"]
Gone(k, l) == [key |-> k, lsn |-> l, kind |-> "tombstone"]

\* Two keys, a frame of two records, a tombstone, and versions whose LSN order and
\* submission order can disagree.
MCFrames == {<<Gone(k1, 2)>>, <<Data(k2, 1), Data(k1, 3)>>}

Issues(ops) == Cardinality({t \in DOMAIN outcome : outcome[t].op \in ops})

\* A read or a restored entry takes the place of one further ticket.
Bounds ==
    /\ Issues({"lifecycle"}) <= MaxLifecycle
    /\ Issues({"read", "verified", "empty"}) + Cardinality(restored) + Cardinality(DOMAIN outcome)
           < TicketLimit

SlotSymmetry == Permutations(Slots)
=============================================================================

--------------------------- MODULE MCHybridCache ---------------------------
(***************************************************************************)
(* Two keys, in chunks of their own or colliding in one: an empty disk     *)
(* with a short log, a full one, one over its limits, one of a single      *)
(* chunk.  The values found are shorter than those written; a segment has  *)
(* room for one of these and a tombstone, or its end stays unused.         *)
(***************************************************************************)
EXTENDS HybridCache

CONSTANTS a, b, x, y

Apart == [k \in Keys |-> IF k = a THEN x ELSE y]
Together == [k \in Keys |-> x]

LimitsOf(capacity, entries, policy) ==
    [capacity |-> capacity, entries |-> entries, reserve |-> 1, policy |-> policy]

Opening(idMap, found, free, limits) ==
    [idOf |-> idMap, found |-> found, free |-> free, limits |-> limits]

MCOpenings == {Opening(Apart, {}, 2, LimitsOf(4, 2, "sieve")),
               Opening(Apart, {a}, 4, LimitsOf(2, 2, "sieve")),
               Opening(Apart, {a, b}, 4, LimitsOf(2, 1, "fifo")),
               Opening(Together, {a}, 4, LimitsOf(2, 1, "fifo"))}

=============================================================================

--------------------------- MODULE MCMemoryCache ---------------------------
(***************************************************************************)
(* Two keys compete for one shard; the other shard takes part in resizing  *)
(* only, which is enough for the two budgets to disagree.                  *)
(***************************************************************************)
EXTENDS MemoryCache, TLC

\* Two releases of one version overlap only where nothing is resized.
Bounds == (\E v \in Versions : releasing[v] > 1) => resizes = 0

MCShardOf == [k \in Keys |-> 0]
Symmetry == Permutations(Keys) \cup Permutations(Resizers)
=============================================================================

----------------------------- MODULE MCLRUCache -----------------------------
(***************************************************************************)
(* Model checking of the least-recently-used cache.  Neither keys nor      *)
(* values are ever compared except for equality, so both are symmetric.    *)
(***************************************************************************)
EXTENDS LRUCache, TLC

Symmetry == Permutations(Key) \union Permutations(Value)
=============================================================================

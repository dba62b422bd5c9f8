---------------------------- MODULE MCHashTable -----------------------------
(***************************************************************************)
(* Model checking of the hash tables.  Widths of 1, 2 and 3 stand for the  *)
(* primes from 11 on; the hash numbers of the keys are chosen so that keys *)
(* share a column of the narrow table and part in the wider one, or share  *)
(* a number.                                                               *)
(***************************************************************************)
EXTENDS HashTable, TLC

CONSTANTS k1, k2, k3

Distinct == k1 :> 1 @@ k2 :> 3 @@ k3 :> 4   \* k1 and k2 share a column of two
Single == k1 :> 1
Colliding == k1 :> 1 @@ k2 :> 1 @@ k3 :> 3  \* k1 and k2 share a hash number

Symmetry == Permutations(Table) \union Permutations(Value)
=============================================================================

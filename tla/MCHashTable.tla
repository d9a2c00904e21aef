----------------------------- MODULE MCHashTable -----------------------------
(* HashTable on a small instance, for TLC.                                  *)
EXTENDS HashTable

(* Keys of one bucket whatever the number of buckets, and of buckets that   *)
(* are split by the first, by the second and by no expansion.               *)
CONSTANTS k1, k2, k3, k4
MCHash == (k1 :> 0) @@ (k2 :> 2) @@ (k3 :> 1) @@ (k4 :> 4)

Symmetry == Permutations(Elt) \cup Permutations(Table)
=============================================================================

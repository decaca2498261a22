-------------------------- MODULE MCLruReplacement --------------------------
(***************************************************************************)
(* LruReplacement on a small heap.  Sizes 0, 1, 2 and 4 with a capacity of *)
(* 3 give values that need no room, that share the cache, that evict       *)
(* several others and that can never be held.                              *)
(***************************************************************************)
EXTENDS LruReplacement, TLC

CONSTANTS n1, n2, n3, n4, a, b, c, d

MCNodes == {n1, n2, n3, n4}
MCIdents == {a, b, c, d}
MCSizes == {0, 1, 2, 4}
MCMaxMems == {0, 3}

(* Addresses are compared for equality only.                               *)
AddressSymmetry == Permutations(MCNodes) \union Permutations(MCIdents)
=============================================================================

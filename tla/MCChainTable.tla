---------------------------- MODULE MCChainTable ----------------------------
(***************************************************************************)
(* ChainTable with three keys that share a bucket in tables of 2, 4 and 8, *)
(* so that links are first, inner and last in their chain, and a fourth    *)
(* that a resize moves away from them.  Values of no size fill the chains, *)
(* a large one evicts up to the last large one, a huge one is refused.  A  *)
(* fifth address is there because the model picks a new link before an old *)
(* one is freed.                                                           *)
(***************************************************************************)
EXTENDS ChainTable, TLC

CONSTANTS a, b1, c1, d, n1, n2, n3, n4, n5, empty, large, huge

MCKeys == {a, b1, c1, d}
MCHash == (a :> 0) @@ (b1 :> 8) @@ (c1 :> 16) @@ (d :> 2)
MCLinks == {n1, n2, n3, n4, n5}
MCVals == {empty, large, huge}
MCSizeOf == (empty :> 0) @@ (large :> 3) @@ (huge :> 4)
MCSizes == {0, 3, 4}
MCMaxMems == {3}
Symmetric == Permutations(MCLinks)
=============================================================================

--------------------------- MODULE MCCacheLibrary ---------------------------
(***************************************************************************)
(* CacheLibrary with four keys whose hashes collide in a table of two (a   *)
(* and c, b and d) and partly in one of four (a and c only), so that       *)
(* chains, resizes at two and three elements and moves between buckets all *)
(* happen, and with values that are empty, small, as large as the cache    *)
(* and larger than the cache.                                              *)
(***************************************************************************)
EXTENDS CacheLibrary, TLC

CONSTANTS a, b, c, d, empty, small, other, full, huge

MCKeys == {a, b, c, d}
MCHash == (a :> 0) @@ (b :> 1) @@ (c :> 4) @@ (d :> 3)
MCVals == {empty, small, other, full, huge}
MCSizeOf == (empty :> 0) @@ (small :> 1) @@ (other :> 2)
              @@ (full :> 3) @@ (huge :> 4)
MCSizes == {0, 1, 2, 3, 4}
MCMaxMems == {0, 3}
MCOneMaxMem == {3}
=============================================================================

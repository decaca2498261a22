----------------------------- MODULE MCNetCache -----------------------------
(***************************************************************************)
(* NetCache with few processes, keys and values; v1 is short, v2 long.     *)
(* Every value fits, except where a smaller capacity is asked for with     *)
(* POST memsize.                                                           *)
(***************************************************************************)
EXTENDS NetCache, TLC

CONSTANTS k1, k2, v1, v2, p1, p2

OneKey == {k1}
TwoKeys == {k1, k2}
OneProcess == {p1}
TwoProcesses == {p1, p2}
TwoValues == {v1, v2}
MCHash == (k1 :> 1)
MCCollidingHash == (k1 :> 1) @@ (k2 :> 3)
MCSizeOf == (v1 :> 1) @@ (v2 :> 2)
MCSizes == {1, 2}
MCParts == (v1 :> 1) @@ (v2 :> 2)
MCLongParts == (v1 :> 1) @@ (v2 :> 3)
MCMaxMems == {4, 6}
NoMaxMems == {}

(* How many calls each process makes, from run to run.                     *)
TwoAndOne == (p1 :> 2) @@ (p2 :> 1)
TwoEach == [c \in Clients |-> 2]
ThreeCalls == [c \in Clients |-> 3]
=============================================================================

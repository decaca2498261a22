--------------------------- MODULE MCNetDeferred ----------------------------
(***************************************************************************)
(* NetDeferred with two processes, two keys and one value.                 *)
(***************************************************************************)
EXTENDS NetDeferred, TLC

CONSTANTS k1, k2, v1, p1, p2

TwoKeys == {k1, k2}
OneValue == {v1}
TwoProcesses == {p1, p2}
MCHash == (k1 :> 1) @@ (k2 :> 2)
MCSizeOf == (v1 :> 1)
MCParts == (v1 :> 1)
MCSizes == {1}
NoMaxMems == {}
TwoEach == [c \in Clients |-> 2]
=============================================================================

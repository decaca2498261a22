---------------------------- MODULE MCNetFaults -----------------------------
(***************************************************************************)
(* NetFaults with one key, one long value and a beginning of it, and with  *)
(* two processes of which the second may be killed and may lose datagrams. *)
(***************************************************************************)
EXTENDS NetFaults, TLC

CONSTANTS k1, v1, v2, p1, p2

OneKey == {k1}
OneValue == {v1}
TwoValues == {v1, v2}
OneProcess == {p1}
TwoProcesses == {p1, p2}
SecondProcess == {p2}
NoProcess == {}
MCHash == (k1 :> 1)
MCSizeOf == (v1 :> 1) @@ (v2 :> 2)
MCSizes == {1, 2}
MCOneSize == (v1 :> 1)
MCParts == (v1 :> 1) @@ (v2 :> 2)
MCOnePart == (v1 :> 1)
NoMaxMems == {}

(* How many calls each process makes, from run to run.                     *)
OneEach == [c \in Clients |-> 1]
TwoEach == [c \in Clients |-> 2]
=============================================================================

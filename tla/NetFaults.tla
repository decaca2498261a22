----------------------------- MODULE NetFaults ------------------------------
(***************************************************************************)
(* NetCache when things go wrong: datagrams are lost, receives time out,   *)
(* and processes are killed inside a call (run_test.py kills a test that   *)
(* takes more than five seconds).                                          *)
(***************************************************************************)
EXTENDS NetCache

CONSTANTS
  Mortal,      \* the processes that may be killed
  Lossy        \* the processes whose datagrams can be lost or late

ASSUME FaultsAssumption == Mortal \subseteq Clients /\ Lossy \subseteq Clients

(* The values include a beginning of every long one.                       *)
ASSUME BeginningsAssumption ==
  \A v \in Vals : Parts[v] > 1 => \E w \in Vals : SizeOf[w] < SizeOf[v]

LoseDatagram(d) ==
  /\ d.req[1] \in Lossy
  /\ packets' = packets \ {d}
  /\ UNCHANGED <<process, syns, stream, backlog, recvq, loop, cache, server>>

(* After SO_RCVTIMEO recv fails with EAGAIN; asio's sync_recv then waits   *)
(* in poll, without a timeout, and receives again.                         *)
receive_timeout(p) ==
  /\ p \in Lossy
  /\ pc[p] = "waiting"
  /\ pc' = [pc EXCEPT ![p] = "polling"]
  /\ UNCHANGED <<calls, got, network, loop, cache, server>>

(* The sockets of a killed process are closed.  A connection ends after    *)
(* what has been written on it: nothing, or a part of the message.         *)
Kill(p) ==
  /\ p \in Mortal
  /\ pc[p] = "connected" \/ Waiting(p)
  /\ pc' = [pc EXCEPT ![p] = "terminated"]
  /\ IF pc[p] = "connected" /\ server = "running"
     THEN cut' = cut \union {LastRequest(p)} /\ Write(LastRequest(p))
     ELSE UNCHANGED stream
  /\ UNCHANGED <<calls, got, syns, packets, backlog, recvq, loop, cache, server>>
-----------------------------------------------------------------------------
FaultNext ==
  \/ Next
  \/ \E p \in Clients : receive_timeout(p) \/ Kill(p)
  \/ \E d \in packets : LoseDatagram(d)

(* The fairness of NetCache.  A process that is killed, or a datagram that *)
(* is lost, owes nothing.                                                  *)
FaultSpec == Init /\ [][FaultNext]_vars /\ Fairness
-----------------------------------------------------------------------------
Unserved ==
  {r \in Made \ handled : IsTcp(MessageOf(r)) \/ r[1] \notin Lossy}

(* Lost datagrams and killed processes keep the server from acting on no   *)
(* other request: it always comes to have acted on every set, delete and   *)
(* post, and on the gets of the processes that lose nothing.               *)
RequestsServed == []<>(Unserved = {} \/ server = "stopped")

(* No long message has been cut off.                                       *)
NoneCutOff == \A r \in cut : Short(MessageOf(r))

(* The faults of some processes leave no other one waiting in cache_get.   *)
OthersReturn ==
  \A p \in Clients \ (Lossy \union Mortal) :
    Waiting(p) ~> ~Waiting(p) \/ server = "stopped"
=============================================================================

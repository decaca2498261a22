--------------------------- MODULE NetCacheProofs ---------------------------
(***************************************************************************)
(* Connections on their way through the server, for any number of          *)
(* processes, calls, parts and datagrams: none is lost or acted on twice,  *)
(* no request of a process on the server's host overtakes an earlier short *)
(* one, and the server stops only for a request that asks for it or a      *)
(* connection that was cut at once. Then the values they carry: cache_get  *)
(* returns no value that nobody set for its key, POST memsize takes no     *)
(* stored value away, and the last set of a process on the server's host   *)
(* stays.                                                                  *)
(*                                                                         *)
(* The inductive invariant follows a connection from connect to its        *)
(* handler. Known: whatever the network and the server hold are requests   *)
(* that were made. Streamed: what is read of a connection has arrived, and *)
(* what has arrived was written. Pipeline: what the queue of completed     *)
(* operations holds is there to be completed, once. InOrder: on the        *)
(* server's own host no request is ahead of an earlier short one of its    *)
(* process, which is read whole the first time its turn comes. A longer    *)
(* one goes back to the end of the queue, and no such order can hold for   *)
(* it.                                                                     *)
(*                                                                         *)
(* A value is followed from the PUT that brought it (Put) into a link of   *)
(* the cache (StoredArePut), from there into an answer (AnswersArePut) and *)
(* into a process (GotArePut). A PUT counts once the server has acted on   *)
(* it; one that was cut off (CutOff) counts for any value of its key.      *)
(*                                                                         *)
(* At last the value itself: with room for everything nothing is evicted   *)
(* (SetWithinRoom), and what is stored under a key with one writer, whose  *)
(* earlier writes are short, is what the latest of its writes that was     *)
(* acted on left (LastWriteStored).                                        *)
(***************************************************************************)
EXTENDS NetFaults, HashCacheProofs

Op == {Accept, Receive} \union {Read(r) : r \in Request}

PC == {"idle", "connected", "waiting", "polling", "terminated"}

TypeInv ==
  /\ calls \in [Clients -> Seq(Message)]
  /\ \A p \in Clients : Len(calls[p]) <= MaxCalls[p]
  /\ pc \in [Clients -> PC]
  /\ backlog \in Seq(Request) /\ recvq \in Seq(Request) /\ ready \in Seq(Op)
  /\ written \in [Request -> Nat] /\ arrived \in [Request -> Nat]
  /\ taken \in [Request -> Nat]
  /\ IsFiniteSet(armed)
  /\ server \in {"running", "stopped"}

Known ==
  /\ syns \subseteq MadeByTcp /\ armed \subseteq MadeByTcp
  /\ handled \subseteq Made
  /\ \A r : Holds(backlog, r) => r \in MadeByTcp
  /\ \A r : Holds(recvq, r) => r \in Made \ MadeByTcp
  /\ \A r \in Request : ToServer(r) \in packets => r \in Made \ MadeByTcp
  /\ \A p \in Clients : pc[p] = "connected" => LastRequest(p) \in MadeByTcp

(* What is read has arrived, and has been written on a connection that was *)
(* made; a short message is never read in part.                            *)
Streamed ==
  \A r \in Request :
    /\ taken[r] <= arrived[r] /\ arrived[r] <= written[r]
    /\ r \notin MadeByTcp => written[r] = 0
    /\ r \in MadeByTcp /\ Short(MessageOf(r)) => taken[r] = 0

Reading(r) == r \in armed \/ Holds(ready, Read(r))

OneStage(r) ==
  /\ r \in syns \/ Holds(backlog, r) \/ Reading(r) \/ r \in handled
  /\ r \in syns => ~Holds(backlog, r) /\ ~Reading(r) /\ r \notin handled
  /\ Holds(backlog, r) => ~Reading(r) /\ r \notin handled
  /\ r \in syns \/ Holds(backlog, r) => taken[r] = 0
  /\ Reading(r) => r \notin handled

Pipeline ==
  /\ Distinct(backlog) /\ Distinct(ready)
  /\ Holds(ready, Accept) => backlog # <<>>
  /\ Holds(ready, Receive) => recvq # <<>>
  /\ \A r \in Request : Holds(ready, Read(r)) => arrived[r] > taken[r]
  /\ \A r \in MadeByTcp : OneStage(r)

(* a is a request that b of the same process must not overtake.            *)
Earlier(a, b) ==
  /\ a \in MadeByTcp /\ b \in MadeByTcp /\ a[1] = b[1] /\ a[2] < b[2]
  /\ Short(MessageOf(a))

(* a's handler has run or waits for its turn.                              *)
Ahead(a) == a \in handled \/ Holds(ready, Read(a))

InOrder(a, b) ==
  /\ Precedes(backlog, a, b)
  /\ Holds(backlog, a) => Holds(backlog, b)
  /\ Holds(ready, Accept) /\ Head(backlog) = b => Ahead(a)
  /\ Reading(b) => Ahead(a)
  /\ Precedes(ready, Read(a), Read(b))

Written ==
  /\ syns = {}
  /\ \A r \in Request : arrived[r] = written[r]
  /\ \A r \in MadeByTcp :
       \/ written[r] > 0
       \/ pc[r[1]] = "connected" /\ r = LastRequest(r[1])

Ordered == \A a, b \in Request : Earlier(a, b) => InOrder(a, b)

HandledInOrder ==
  \A a, b \in Request : Earlier(a, b) /\ b \in handled => a \in handled

Inv ==
  /\ TypeInv /\ Known /\ Streamed
  /\ server = "running" => Pipeline
  /\ Loopback /\ server = "running" => Written /\ Ordered
  /\ Loopback => HandledInOrder
  /\ StopsOnlyFor
-----------------------------------------------------------------------------
(* Operations of different kinds, or of different connections, differ.     *)
LEMMA OpsDiffer ==
  /\ Accept \in Op /\ Receive \in Op /\ Accept # Receive
  /\ \A r \in Request : Read(r) \in Op
  /\ \A r : Read(r) # Accept /\ Read(r) # Receive
  /\ \A r, q : Read(r) = Read(q) => r = q
<1>1. Accept.op = "accept" /\ Receive.op = "receive" BY DEF Accept, Receive
<1>2. \A r : Read(r).op = "read" /\ Read(r).con = r BY DEF Read
<1>3. \A r \in Request : Read(r) \in Op BY DEF Op
<1>4. Accept \in Op /\ Receive \in Op BY DEF Op
<1> QED BY <1>1, <1>2, <1>3, <1>4

(* A request is a process and the number of one of its calls.              *)
LEMMA RequestIsPair ==
  /\ \A r \in Request : /\ r = <<r[1], r[2]>> /\ r[1] \in Clients
                         /\ r[2] \in 1..MaxCalls[r[1]] /\ r[2] \in Nat
  /\ \A p \in Clients : \A n \in 1..MaxCalls[p] : <<p, n>> \in Request
BY MaxCallsAssumption DEF Request

(* A step that makes no call and alters none leaves the requests as they   *)
(* are.                                                                    *)
LEMMA SameRequests ==
  ASSUME UNCHANGED calls
  PROVE  /\ Made' = Made /\ MadeByTcp' = MadeByTcp
         /\ \A r : MessageOf(r)' = MessageOf(r)
         /\ \A p : LastRequest(p)' = LastRequest(p)
         /\ \A a, b : Earlier(a, b)' <=> Earlier(a, b)
         /\ \A r : Short(MessageOf(r))' <=> Short(MessageOf(r))
<1>1. \A r : MessageOf(r)' = MessageOf(r) BY DEF MessageOf
<1>2. Made' = Made BY DEF Made
<1>3. MadeByTcp' = MadeByTcp BY <1>1, <1>2 DEF MadeByTcp
<1>4. \A p : LastRequest(p)' = LastRequest(p) BY DEF LastRequest
<1>5. \A r : Short(MessageOf(r))' <=> Short(MessageOf(r))
  BY <1>1 DEF Short, PartsOf, MessageOf
<1> QED BY <1>1, <1>2, <1>3, <1>4, <1>5 DEF Earlier

NewRequest(p) == <<p, Len(calls[p]) + 1>>

(* A call adds one request, the last one of its process.                   *)
LEMMA OneMoreRequest ==
  ASSUME TypeInv, NEW p \in Clients, NEW m \in Message, Call(p, m)
  PROVE  /\ calls' \in [Clients -> Seq(Message)]
         /\ \A q \in Clients : Len(calls'[q]) <= MaxCalls[q]
         /\ NewRequest(p) \in Request \ Made
         /\ LastRequest(p)' = NewRequest(p)
         /\ Made' = Made \union {NewRequest(p)}
         /\ \A r \in Made : MessageOf(r)' = MessageOf(r)
         /\ \A r \in Made : Short(MessageOf(r))' <=> Short(MessageOf(r))
         /\ \A r : r = NewRequest(p) => MessageOf(r)' = m
         /\ \A q \in Clients \ {p} : LastRequest(q)' = LastRequest(q)
         /\ \A r \in Made : r[1] = p => r[2] < NewRequest(p)[2]
         /\ IsTcp(m) => MadeByTcp' = MadeByTcp \union {NewRequest(p)}
         /\ ~IsTcp(m) => MadeByTcp' = MadeByTcp
<1>1. /\ calls \in [Clients -> Seq(Message)] /\ Len(calls[p]) \in Nat
      /\ Len(calls[p]) < MaxCalls[p] /\ MaxCalls[p] \in Nat
      /\ calls' = [calls EXCEPT ![p] = Append(@, m)]
  <2>1. calls \in [Clients -> Seq(Message)] BY DEF TypeInv
  <2>2. Len(calls[p]) \in Nat BY <2>1, LenProperties
  <2>3. /\ Len(calls[p]) < MaxCalls[p]
        /\ calls' = [calls EXCEPT ![p] = Append(@, m)]
    BY DEF Call
  <2> QED BY <2>1, <2>2, <2>3, MaxCallsAssumption
<1>2. /\ Append(calls[p], m) \in Seq(Message)
      /\ Len(Append(calls[p], m)) = Len(calls[p]) + 1
      /\ \A i \in 1..Len(calls[p]) : Append(calls[p], m)[i] = calls[p][i]
      /\ Append(calls[p], m)[Len(calls[p]) + 1] = m
  BY <1>1, AppendProperties
<1>3. /\ calls' \in [Clients -> Seq(Message)]
      /\ calls'[p] = Append(calls[p], m)
      /\ \A q \in Clients \ {p} : calls'[q] = calls[q]
  BY <1>1, <1>2
<1>4. \A q \in Clients : Len(calls'[q]) <= MaxCalls[q]
  BY <1>1, <1>2, <1>3 DEF TypeInv
<1>5. NewRequest(p) \in Request /\ NewRequest(p) \notin Made
  BY <1>1, RequestIsPair DEF NewRequest, Made
<1>6. LastRequest(p)' = NewRequest(p)
  BY <1>2, <1>3 DEF LastRequest, NewRequest
<1>7. Made' = Made \union {NewRequest(p)}
  <2>1. ASSUME NEW r \in Request
        PROVE  r[2] <= Len(calls'[r[1]])
                 <=> r[2] <= Len(calls[r[1]]) \/ r = NewRequest(p)
    <3>1. /\ r = <<r[1], r[2]>> /\ r[1] \in Clients /\ r[2] \in Nat
          /\ Len(calls[r[1]]) \in Nat
      BY <2>1, <1>1, RequestIsPair
    <3>2. CASE r[1] # p BY <3>1, <3>2, <1>3 DEF NewRequest
    <3>3. CASE r[1] = p BY <3>1, <3>3, <1>2, <1>3 DEF NewRequest
    <3> QED BY <3>2, <3>3
  <2> QED BY <2>1, <1>5 DEF Made
<1>8. ASSUME NEW r \in Made PROVE MessageOf(r)' = MessageOf(r)
  <2>1. /\ r[1] \in Clients /\ r[2] \in 1..Len(calls[r[1]])
    BY <1>1, <1>8, RequestIsPair DEF Made
  <2>2. CASE r[1] # p BY <2>1, <2>2, <1>3 DEF MessageOf
  <2>3. CASE r[1] = p BY <2>1, <2>3, <1>2, <1>3 DEF MessageOf
  <2> QED BY <2>2, <2>3
<1>9. \A r : r = NewRequest(p) => MessageOf(r)' = m
  BY <1>2, <1>3 DEF MessageOf, NewRequest
<1>10. \A q \in Clients \ {p} : LastRequest(q)' = LastRequest(q)
  BY <1>3 DEF LastRequest
<1>11. \A r \in Made : r[1] = p => r[2] < NewRequest(p)[2]
  BY <1>1, RequestIsPair DEF Made, NewRequest
<1>12. /\ IsTcp(m) => MadeByTcp' = MadeByTcp \union {NewRequest(p)}
       /\ ~IsTcp(m) => MadeByTcp' = MadeByTcp
  BY <1>5, <1>7, <1>8, <1>9 DEF MadeByTcp, IsTcp
<1>13. \A r \in Made : Short(MessageOf(r))' <=> Short(MessageOf(r))
  BY <1>8 DEF Short, PartsOf, MessageOf
<1> QED BY <1>3, <1>4, <1>5, <1>6, <1>7, <1>8, <1>9, <1>10, <1>11, <1>12, <1>13
-----------------------------------------------------------------------------
(* Steps that touch no connection: a call that returns or fails, a         *)
(* datagram that is taken or lost.                                         *)
LEMMA QuietStep ==
  ASSUME Inv,
         UNCHANGED <<calls, syns, written, arrived, cut, backlog, recvq, armed,
                     ready, handled, taken, server>>,
         packets' \subseteq packets,
         pc' \in [Clients -> PC],
         \A p \in Clients : pc'[p] = "connected" => pc[p] = "connected",
         server = "running" =>
           \A p \in Clients : pc[p] = "connected" => pc'[p] = "connected"
  PROVE  Inv'
<1> USE SameRequests
<1>1. TypeInv' BY DEF Inv, TypeInv
<1>2. Known' /\ Streamed' BY DEF Inv, Known, Streamed
<1>3. ASSUME server' = "running" PROVE Pipeline'
  <2>1. Pipeline BY <1>3 DEF Inv
  <2> QED BY <2>1 DEF Pipeline, OneStage, Reading
<1>4. ASSUME Loopback, server' = "running" PROVE Written' /\ Ordered'
  <2>1. Written /\ Ordered BY <1>4 DEF Inv
  <2>2. Written'
    <3>1. \A r \in MadeByTcp : r[1] \in Clients
      BY RequestIsPair DEF MadeByTcp, Made
    <3> QED BY <2>1, <3>1, <1>4 DEF Written
  <2>3. Ordered' BY <2>1 DEF Ordered, InOrder, Ahead, Reading
  <2> QED BY <2>2, <2>3
<1>5. ASSUME Loopback PROVE HandledInOrder'
  BY <1>5 DEF Inv, HandledInOrder
<1>6. StopsOnlyFor' BY DEF Inv, StopsOnlyFor
<1> QED BY <1>1, <1>2, <1>3, <1>4, <1>5, <1>6 DEF Inv

(* More of a message, or the end of it, is written on a connection.        *)
LEMMA MessageWritten ==
  ASSUME Inv, server = "running",
         NEW p \in Clients, pc[p] = "connected",
         Write(LastRequest(p)),
         pc' \in [Clients -> PC],
         \A q \in Clients \ {p} : pc'[q] = pc[q],
         UNCHANGED <<calls, syns, packets, backlog, recvq, loop, cache, server>>
  PROVE  Inv'
<1> DEFINE new == LastRequest(p)
<1> USE SameRequests
<1>0. /\ UNCHANGED <<armed, ready, handled, taken>>
      /\ new \in MadeByTcp /\ new \in Request
      /\ server' = "running"
      /\ TypeInv /\ Known /\ Streamed /\ Pipeline
  BY DEF loop, Inv, Known, MadeByTcp, Made
<1>1. /\ written' \in [Request -> Nat] /\ arrived' \in [Request -> Nat]
      /\ \A r \in Request : /\ r # new => written'[r] = written[r]
                            /\ r # new => arrived'[r] = arrived[r]
                            /\ written'[new] = written[new] + 1
                            /\ arrived'[r] >= arrived[r]
                            /\ arrived'[new] <= arrived[new] + 1
                            /\ Loopback => arrived'[new] = arrived[new] + 1
      /\ written[new] \in Nat /\ arrived[new] \in Nat
  BY <1>0 DEF Write, TypeInv
<1> HIDE DEF new
<1>2. TypeInv' BY <1>0, <1>1 DEF TypeInv
<1>3. Known' BY <1>0 DEF Known
<1>4. Streamed'
  <2> SUFFICES ASSUME NEW r \in Request
               PROVE  /\ taken[r] <= arrived'[r] /\ arrived'[r] <= written'[r]
                      /\ r \notin MadeByTcp => written'[r] = 0
                      /\ r \in MadeByTcp /\ Short(MessageOf(r)) => taken[r] = 0
    BY <1>0 DEF Streamed
  <2>1. /\ taken[r] <= arrived[r] /\ arrived[r] <= written[r]
        /\ r \notin MadeByTcp => written[r] = 0
        /\ r \in MadeByTcp /\ Short(MessageOf(r)) => taken[r] = 0
        /\ taken[r] \in Nat /\ arrived[r] \in Nat /\ written[r] \in Nat
    BY <1>0 DEF Streamed, TypeInv
  <2>2. CASE r = new BY <2>1, <2>2, <1>0, <1>1
  <2>3. CASE r # new BY <2>1, <2>3, <1>1
  <2> QED BY <2>2, <2>3
<1>5. Pipeline'
  <2>1. \A r \in Request : Holds(ready, Read(r)) => arrived'[r] > taken[r]
    <3> SUFFICES ASSUME NEW r \in Request, Holds(ready, Read(r))
                 PROVE  arrived'[r] > taken[r]
      OBVIOUS
    <3>1. arrived[r] > taken[r] /\ arrived[r] \in Nat /\ taken[r] \in Nat
          /\ arrived'[r] \in Nat
      BY <1>0, <1>1 DEF Pipeline, TypeInv
    <3> QED BY <3>1, <1>1
  <2> QED BY <2>1, <1>0 DEF Pipeline, OneStage, Reading
<1>6. ASSUME Loopback PROVE Written' /\ Ordered'
  <2>1. Written /\ Ordered BY <1>6 DEF Inv
  <2>2. Written'
    <3>1. \A r \in MadeByTcp : r[1] \in Clients /\ r \in Request
      BY RequestIsPair DEF MadeByTcp, Made
    <3>2. \A r \in Request : arrived'[r] = written'[r]
      BY <2>1, <1>1, <1>6 DEF Written
    <3>3. ASSUME NEW r \in MadeByTcp
          PROVE  \/ written'[r] > 0
                 \/ pc'[r[1]] = "connected" /\ r = LastRequest(r[1])
      <4>1. CASE r = new
        <5>1. written'[new] = written[new] + 1 BY <1>0, <1>1
        <5> QED BY <4>1, <5>1, <1>1
      <4>2. CASE r # new
        <5>1. \/ written'[r] > 0
              \/ pc[r[1]] = "connected" /\ r = LastRequest(r[1])
          BY <4>2, <3>1, <2>1, <1>1 DEF Written
        <5>2. r = LastRequest(r[1]) => r[1] # p BY <4>2 DEF new
        <5> QED BY <5>1, <5>2, <3>1
      <4> QED BY <4>1, <4>2
    <3> QED BY <2>1, <3>2, <3>3 DEF Written
  <2>3. Ordered' BY <2>1, <1>0 DEF Ordered, InOrder, Ahead, Reading
  <2> QED BY <2>2, <2>3
<1>7. ASSUME Loopback PROVE HandledInOrder'
  BY <1>7, <1>0 DEF Inv, HandledInOrder
<1>8. StopsOnlyFor' BY <1>0 DEF StopsOnlyFor
<1> QED BY <1>0, <1>2, <1>3, <1>4, <1>5, <1>6, <1>7, <1>8 DEF Inv

(* After a call, the request it added is the last one of its process.      *)
LEMMA EarlierThanNew ==
  ASSUME TypeInv, NEW p \in Clients, NEW m \in Message, Call(p, m)
  PROVE  \A a, b : Earlier(a, b)' =>
           \/ Earlier(a, b)
           \/ a \in MadeByTcp /\ a[1] = p /\ b = NewRequest(p) /\ IsTcp(m)
<1> SUFFICES ASSUME NEW a, NEW b, Earlier(a, b)'
             PROVE  \/ Earlier(a, b)
                    \/ /\ a \in MadeByTcp /\ a[1] = p
                       /\ b = NewRequest(p) /\ IsTcp(m)
  OBVIOUS
<1>1. /\ a \in MadeByTcp' /\ b \in MadeByTcp' /\ a[1] = b[1] /\ a[2] < b[2]
      /\ Short(MessageOf(a))'
  BY DEF Earlier
<1>2. MadeByTcp' \subseteq MadeByTcp \union {NewRequest(p)}
      /\ (NewRequest(p) \in MadeByTcp' => IsTcp(m))
      /\ NewRequest(p) \notin MadeByTcp
      /\ \A r \in MadeByTcp : r[1] = p => r[2] < NewRequest(p)[2]
  BY OneMoreRequest DEF MadeByTcp
<1>3. NewRequest(p)[1] = p /\ NewRequest(p)[2] \in Nat
  BY OneMoreRequest, RequestIsPair DEF NewRequest
<1>4. \A r \in MadeByTcp : r[2] \in Nat BY RequestIsPair DEF MadeByTcp, Made
<1>5. a # NewRequest(p) BY <1>1, <1>2, <1>3, <1>4
<1>6. a \in MadeByTcp => Short(MessageOf(a))
  BY <1>1, OneMoreRequest DEF MadeByTcp
<1> QED BY <1>1, <1>2, <1>3, <1>5, <1>6 DEF Earlier

(* A connection is made, or the call fails because the server has gone.    *)
LEMMA ConnectStep ==
  ASSUME Inv, NEW p \in Clients, NEW m \in Message, IsTcp(m),
         send_message_tcp(p, m)
  PROVE  Inv'
<1> DEFINE new == NewRequest(p)
<1>1. Call(p, m) /\ TypeInv BY DEF send_message_tcp, Inv
<1>2. /\ new \in Request /\ new \notin Made /\ new \notin MadeByTcp
      /\ MadeByTcp \subseteq Made
      /\ LastRequest(p)' = new
      /\ Made' = Made \union {new} /\ MadeByTcp' = MadeByTcp \union {new}
      /\ \A r \in Made : MessageOf(r)' = MessageOf(r)
      /\ \A r \in Made : Short(MessageOf(r))' <=> Short(MessageOf(r))
      /\ \A q \in Clients \ {p} : LastRequest(q)' = LastRequest(q)
      /\ new[1] = p
  BY <1>1, OneMoreRequest DEF MadeByTcp, NewRequest
<1>3. \A a, b : Earlier(a, b)' =>
        Earlier(a, b) \/ (a \in MadeByTcp /\ a[1] = p /\ b = new)
  BY <1>1, EarlierThanNew
<1>4. /\ UNCHANGED <<written, arrived, cut, packets, recvq, armed, ready,
                     handled, taken, server>>
      /\ pc[p] = "idle"
  BY DEF send_message_tcp, loop, stream, Call
<1>5. /\ server = "stopped" => UNCHANGED <<backlog, syns>>
                               /\ pc' = [pc EXCEPT ![p] = "terminated"]
      /\ server # "stopped" =>
           /\ pc' = [pc EXCEPT ![p] = "connected"]
           /\ Loopback => backlog' = Append(backlog, new) /\ UNCHANGED syns
           /\ ~Loopback => syns' = syns \union {new} /\ UNCHANGED backlog
  BY <1>2 DEF send_message_tcp
<1>6. /\ Append(backlog, new) \in Seq(Request)
      /\ Append(backlog, new) # <<>>
      /\ backlog # <<>> => Head(Append(backlog, new)) = Head(backlog)
      /\ \A x : Holds(Append(backlog, new), x) <=> Holds(backlog, x) \/ x = new
      /\ Distinct(backlog) /\ ~Holds(backlog, new) => Distinct(Append(backlog, new))
      /\ \A x, y : Precedes(backlog, x, y) /\ x # new
                    => Precedes(Append(backlog, new), x, y)
  <2>1. backlog \in Seq(Request) BY <1>1 DEF TypeInv
  <2> HIDE DEF new
  <2> QED BY <2>1, <1>2, QueueAppend
<1> HIDE DEF new
<1>7. TypeInv'
  <2>1. /\ calls' \in [Clients -> Seq(Message)]
        /\ \A q \in Clients : Len(calls'[q]) <= MaxCalls[q]
    BY <1>1, OneMoreRequest
  <2>2. pc' \in [Clients -> PC] BY <1>1, <1>5 DEF TypeInv, PC
  <2>3. backlog' \in Seq(Request)
    BY <1>1, <1>5, <1>6, LoopbackAssumption DEF TypeInv
  <2> QED BY <2>1, <2>2, <2>3, <1>1, <1>4 DEF TypeInv
<1>8. Known'
  <2>1. Known BY DEF Inv
  <2>2. /\ syns' \subseteq MadeByTcp' /\ armed' \subseteq MadeByTcp'
        /\ handled' \subseteq Made'
    BY <2>1, <1>2, <1>4, <1>5, LoopbackAssumption DEF Known
  <2>3. \A r : Holds(backlog', r) => r \in MadeByTcp'
    BY <2>1, <1>2, <1>5, <1>6, LoopbackAssumption, ZenonT(60) DEF Known
  <2>4. \A r : Holds(recvq', r) => r \in Made' \ MadeByTcp'
    BY <2>1, <1>2, <1>4 DEF Known
  <2>5. \A r \in Request : ToServer(r) \in packets' => r \in Made' \ MadeByTcp'
    BY <2>1, <1>2, <1>4 DEF Known
  <2>6. \A q \in Clients : pc'[q] = "connected" => LastRequest(q)' \in MadeByTcp'
    <3> TAKE q \in Clients
    <3>1. CASE q = p BY <3>1, <1>2
    <3>2. CASE q # p BY <3>2, <2>1, <1>2, <1>1, <1>5 DEF Known, TypeInv
    <3> QED BY <3>1, <3>2
  <2> QED BY <2>2, <2>3, <2>4, <2>5, <2>6 DEF Known
<1>80. Streamed' /\ taken[new] = 0 /\ ~(arrived[new] > taken[new])
  <2>1. Streamed BY DEF Inv
  <2>2. taken[new] = 0 /\ arrived[new] = 0 /\ written[new] = 0
    BY <2>1, <1>1, <1>2 DEF Streamed, TypeInv
  <2>3. ASSUME NEW r \in MadeByTcp', Short(MessageOf(r))' PROVE taken[r] = 0
    <3>1. CASE r = new BY <3>1, <2>2
    <3>2. CASE r \in MadeByTcp
      <4>1. r \in Request /\ Short(MessageOf(r)) BY <2>3, <3>2, <1>2 DEF Made
      <4> QED BY <4>1, <3>2, <2>1 DEF Streamed
    <3> QED BY <3>1, <3>2, <1>2
  <2> QED BY <2>1, <2>2, <2>3, <1>2, <1>4 DEF Streamed
<1>9. ASSUME server' = "running" PROVE Pipeline'
  <2>1. Pipeline /\ Known /\ server = "running" BY <1>9, <1>4 DEF Inv
  <2>2. ~Holds(backlog, new) /\ new \notin syns
        /\ new \notin armed /\ new \notin handled
    BY <2>1, <1>2 DEF Known
  <2>3. ~Holds(ready, Read(new)) BY <2>1, <1>2, <1>80 DEF Pipeline
  <2>4. Distinct(backlog') /\ (backlog # <<>> => backlog' # <<>>)
    BY <2>1, <2>2, <1>5, <1>6, LoopbackAssumption DEF Pipeline
  <2>5. \A r \in MadeByTcp : OneStage(r)'
    <3> TAKE r \in MadeByTcp
    <3>1. OneStage(r) /\ r # new BY <2>1, <1>2 DEF Pipeline
    <3>2. /\ r \in syns' <=> r \in syns
          /\ Holds(backlog', r) <=> Holds(backlog, r)
      BY <3>1, <2>1, <1>5, <1>6, LoopbackAssumption
    <3> QED BY <3>1, <3>2, <1>4 DEF OneStage, Reading
  <2>6. ASSUME NEW r, r = new PROVE OneStage(r)'
    <3>1. CASE Loopback
      <4>1. Holds(backlog', r) /\ r \notin syns'
        BY <3>1, <2>1, <2>2, <2>6, <1>5, <1>6
      <4> QED BY <4>1, <2>2, <2>3, <2>6, <1>4, <1>80 DEF OneStage, Reading
    <3>2. CASE ~Loopback
      <4>1. ~Holds(backlog', r) /\ r \in syns'
        BY <3>2, <2>1, <2>2, <2>6, <1>5, <1>6
      <4> QED BY <4>1, <2>2, <2>3, <2>6, <1>4, <1>80 DEF OneStage, Reading
    <3> QED BY <3>1, <3>2
  <2>7. \A r \in MadeByTcp' : OneStage(r)' BY <2>5, <2>6, <1>2
  <2> QED BY <2>1, <2>4, <2>7, <1>4 DEF Pipeline
<1>10. ASSUME Loopback, server' = "running" PROVE Written' /\ Ordered'
  <2>1. /\ Pipeline /\ Known /\ server = "running" /\ Written /\ Ordered
        /\ backlog' = Append(backlog, new) /\ UNCHANGED syns
        /\ pc' = [pc EXCEPT ![p] = "connected"]
    BY <1>10, <1>4, <1>5 DEF Inv
  <2>2. Written'
    <3> SUFFICES ASSUME NEW r \in MadeByTcp'
                 PROVE  \/ written'[r] > 0
                        \/ pc'[r[1]] = "connected" /\ r = LastRequest(r[1])'
      BY <2>1, <1>4 DEF Written
    <3>1. CASE r = new BY <3>1, <2>1, <1>1, <1>2 DEF TypeInv
    <3>2. CASE r \in MadeByTcp
      <4>1. \/ written[r] > 0
            \/ pc[r[1]] = "connected" /\ r = LastRequest(r[1])
        BY <3>2, <2>1 DEF Written
      <4>2. r[1] \in Clients BY <3>2, <1>2, RequestIsPair DEF Made
      <4>3. CASE written[r] > 0 BY <4>3, <1>4
      <4>4. CASE pc[r[1]] = "connected" /\ r = LastRequest(r[1])
        <5>1. r[1] # p BY <4>4, <1>4
        <5> QED BY <5>1, <4>2, <4>4, <2>1, <1>1, <1>2 DEF TypeInv
      <4> QED BY <4>1, <4>3, <4>4
    <3> QED BY <3>1, <3>2, <1>2
  <2>3. ASSUME NEW a \in Request, NEW b \in Request, Earlier(a, b)'
        PROVE  InOrder(a, b)'
    <3>1. CASE Earlier(a, b)
      <4>1. InOrder(a, b) /\ a # new
        BY <3>1, <2>1, <1>2 DEF Ordered, Earlier
      <4>2. /\ Precedes(backlog', a, b)
            /\ Holds(backlog', a) => Holds(backlog', b)
        BY <4>1, <2>1, <1>6 DEF InOrder
      <4>3. Holds(ready, Accept) => Head(backlog') = Head(backlog)
        BY <2>1, <1>6 DEF Pipeline
      <4> QED BY <4>1, <4>2, <4>3, <1>4 DEF InOrder, Ahead, Reading
    <3>2. CASE a \in MadeByTcp /\ a[1] = p /\ b = new
      <4>1. /\ ~Holds(backlog, b) /\ a # new /\ b \notin armed
            /\ b \notin handled
        BY <3>2, <2>1, <1>2 DEF Known
      <4>2. ~Holds(ready, Read(b)) BY <3>2, <2>1, <1>2, <1>80 DEF Pipeline
      <4>3. Precedes(backlog, a, b) /\ Precedes(ready, Read(a), Read(b))
        BY <4>1, <4>2 DEF Precedes, Holds
      <4>4. Precedes(backlog', a, b) /\ Holds(backlog', b)
        BY <4>1, <4>3, <3>2, <2>1, <1>6
      <4>5. Holds(ready, Accept) => Head(backlog') # b
        <5>1. Holds(ready, Accept) => backlog # <<>> /\ Head(backlog') = Head(backlog)
          BY <2>1, <1>6 DEF Pipeline
        <5>2. backlog # <<>> => Holds(backlog, Head(backlog))
          BY <1>1, QueueTail DEF TypeInv
        <5> QED BY <5>1, <5>2, <4>1
      <4> QED BY <4>1, <4>2, <4>3, <4>4, <4>5, <1>4 DEF InOrder, Reading
    <3> QED BY <3>1, <3>2, <2>3, <1>3
  <2> QED BY <2>2, <2>3 DEF Ordered
<1>11. ASSUME Loopback PROVE HandledInOrder'
  <2>1. HandledInOrder /\ Known BY <1>11 DEF Inv
  <2>2. new \notin handled BY <2>1, <1>2 DEF Known
  <2> QED BY <2>1, <2>2, <1>3, <1>4 DEF HandledInOrder
<1>12. StopsOnlyFor'
  BY <1>2, <1>4 DEF Inv, StopsOnlyFor
<1> QED BY <1>7, <1>8, <1>80, <1>9, <1>10, <1>11, <1>12 DEF Inv

(* A request for a value leaves the connections as they are.               *)
LEMMA GetStep ==
  ASSUME Inv, NEW p \in Clients, NEW key \in Keys, cache_get_(p, key)
  PROVE  Inv'
<1> DEFINE new == NewRequest(p)
           m == [verb |-> "GET", key |-> key]
<1>1. Call(p, m) /\ TypeInv /\ m \in Message /\ ~IsTcp(m)
  BY DEF cache_get_, Inv, Message, IsTcp
<1>2. /\ new \in Request /\ new \notin Made /\ MadeByTcp \subseteq Made
      /\ LastRequest(p)' = new
      /\ Made' = Made \union {new} /\ MadeByTcp' = MadeByTcp
      /\ \A r \in Made : MessageOf(r)' = MessageOf(r)
      /\ \A r \in Made : Short(MessageOf(r))' <=> Short(MessageOf(r))
      /\ \A q \in Clients \ {p} : LastRequest(q)' = LastRequest(q)
  <2> HIDE DEF m
  <2> QED BY <1>1, OneMoreRequest DEF MadeByTcp
<1>3. \A a, b : Earlier(a, b)' <=> Earlier(a, b)
  BY <1>2 DEF Earlier
<1>4. /\ UNCHANGED <<syns, written, arrived, cut, backlog, armed, ready,
                     handled, taken, server>>
      /\ pc[p] = "idle" /\ pc' = [pc EXCEPT ![p] = "waiting"]
  BY DEF cache_get_, loop, stream, Call
<1>5. \/ UNCHANGED <<recvq, packets>>
      \/ recvq' = Append(recvq, new) /\ UNCHANGED packets
      \/ packets' = packets \union {ToServer(new)} /\ UNCHANGED recvq
  BY <1>2 DEF cache_get_
<1>6. /\ Append(recvq, new) \in Seq(Request)
      /\ Append(recvq, new) # <<>>
      /\ \A x : Holds(Append(recvq, new), x) <=> Holds(recvq, x) \/ x = new
  <2>1. recvq \in Seq(Request) BY <1>1 DEF TypeInv
  <2> HIDE DEF new, m
  <2> QED BY <2>1, <1>2, QueueAppend
<1>7. /\ calls' \in [Clients -> Seq(Message)]
      /\ \A q \in Clients : Len(calls'[q]) <= MaxCalls[q]
  <2> HIDE DEF m
  <2> QED BY <1>1, OneMoreRequest
<1>8. pc' \in [Clients -> PC] BY <1>1, <1>4 DEF TypeInv, PC
<1>9. /\ \A q \in Clients \ {p} : pc'[q] = pc[q]
      /\ pc'[p] = "waiting"
  BY <1>1, <1>4 DEF TypeInv
<1> HIDE DEF new, m
<1>10. TypeInv'
  <2>1. recvq' \in Seq(Request) BY <1>1, <1>5, <1>6 DEF TypeInv
  <2> QED BY <2>1, <1>1, <1>4, <1>7, <1>8 DEF TypeInv
<1>11. Known'
  <2>1. Known BY DEF Inv
  <2>2. new \notin MadeByTcp BY <1>2
  <2>3. \A r : Holds(recvq', r) => r \in Made' \ MadeByTcp'
    BY <2>1, <2>2, <1>2, <1>5, <1>6 DEF Known
  <2>4. \A r \in Request : ToServer(r) \in packets' => r \in Made' \ MadeByTcp'
    <3>1. \A r : ToServer(r) = ToServer(new) => r = new BY DEF ToServer
    <3> QED BY <3>1, <2>1, <2>2, <1>2, <1>5 DEF Known
  <2>5. \A q \in Clients : pc'[q] = "connected" => LastRequest(q)' \in MadeByTcp'
    BY <2>1, <1>2, <1>9 DEF Known
  <2> QED BY <2>1, <2>3, <2>4, <2>5, <1>2, <1>4 DEF Known
<1>16. Streamed'
  <2>1. Streamed BY DEF Inv
  <2>2. \A r \in MadeByTcp : Short(MessageOf(r))' <=> Short(MessageOf(r))
    BY <1>2
  <2> QED BY <2>1, <2>2, <1>2, <1>4 DEF Streamed
<1>12. ASSUME server' = "running" PROVE Pipeline'
  <2>1. Pipeline BY <1>12, <1>4 DEF Inv
  <2>2. recvq # <<>> => recvq' # <<>> BY <1>5, <1>6
  <2> QED BY <2>1, <2>2, <1>2, <1>4 DEF Pipeline, OneStage, Reading
<1>13. ASSUME Loopback, server' = "running" PROVE Written' /\ Ordered'
  <2>1. Written /\ Ordered BY <1>13, <1>4 DEF Inv
  <2>2. Written'
    <3> SUFFICES ASSUME NEW r \in MadeByTcp
                 PROVE  \/ written'[r] > 0
                        \/ pc'[r[1]] = "connected" /\ r = LastRequest(r[1])'
      BY <2>1, <1>2, <1>4 DEF Written
    <3>1. r[1] \in Clients BY <1>2, RequestIsPair DEF Made
    <3>2. r[1] = p => pc[r[1]] # "connected" BY <1>4
    <3> QED BY <2>1, <3>1, <3>2, <1>2, <1>4, <1>9 DEF Written
  <2>3. Ordered' BY <2>1, <1>3, <1>4 DEF Ordered, InOrder, Ahead, Reading
  <2> QED BY <2>2, <2>3
<1>14. ASSUME Loopback PROVE HandledInOrder'
  BY <1>14, <1>3, <1>4 DEF Inv, HandledInOrder
<1>15. StopsOnlyFor'
  BY <1>2, <1>4 DEF Inv, StopsOnlyFor
<1> QED BY <1>10, <1>11, <1>12, <1>13, <1>14, <1>15, <1>16 DEF Inv

(* The network completes a handshake or delivers a message.                *)
LEMMA CarryStep ==
  ASSUME Inv, NEW r \in Request, Carry(r)
  PROVE  Inv'
<1>1. /\ UNCHANGED <<calls, pc, armed, ready, handled, taken, server>>
      /\ server = "running" /\ server' = "running"
  BY DEF Carry, Establish, DeliverSegment, DeliverDatagram, process, loop
<1>2. /\ Made' = Made /\ MadeByTcp' = MadeByTcp
      /\ \A p : LastRequest(p)' = LastRequest(p)
      /\ \A a, b : Earlier(a, b)' <=> Earlier(a, b)
      /\ \A q : Short(MessageOf(q))' <=> Short(MessageOf(q))
  BY <1>1, SameRequests
<1>3. TypeInv /\ Known /\ Pipeline /\ Streamed BY <1>1 DEF Inv
<1>4. HandledInOrder' <=> HandledInOrder BY <1>1, <1>2 DEF HandledInOrder
<1>5. StopsOnlyFor' BY <1>1 DEF StopsOnlyFor
<1>6. CASE Establish(r)
  <2>1. /\ r \in syns /\ syns' = syns \ {r} /\ backlog' = Append(backlog, r)
        /\ UNCHANGED <<written, arrived, cut, packets, recvq>>
    BY <1>6 DEF Establish, stream
  <2>2. /\ backlog' \in Seq(Request) /\ backlog' # <<>>
        /\ \A x : Holds(backlog', x) <=> Holds(backlog, x) \/ x = r
        /\ Distinct(backlog) /\ ~Holds(backlog, r) => Distinct(backlog')
    <3>1. backlog \in Seq(Request) BY <1>3 DEF TypeInv
    <3> QED BY <3>1, <2>1, QueueAppend
  <2>3. ~Loopback BY <2>1, <1>1 DEF Inv, Written
  <2>4. TypeInv' BY <2>1, <2>2, <1>1, <1>3 DEF TypeInv
  <2>5. Known' BY <2>1, <2>2, <1>1, <1>2, <1>3 DEF Known
  <2>6. Pipeline'
    <3>1. r \in MadeByTcp BY <2>1, <1>3 DEF Known
    <3>2. OneStage(r) BY <3>1, <1>3 DEF Pipeline
    <3>3. \A q \in MadeByTcp : OneStage(q)'
      <4> TAKE q \in MadeByTcp
      <4>1. OneStage(q) BY <1>3 DEF Pipeline
      <4> QED BY <4>1, <3>2, <2>1, <2>2, <1>1 DEF OneStage, Reading
    <3>4. ~Holds(backlog, r) BY <3>2, <2>1 DEF OneStage
    <3> QED BY <3>3, <3>4, <2>1, <2>2, <1>1, <1>2, <1>3 DEF Pipeline
  <2>7. Streamed' BY <2>1, <1>1, <1>2, <1>3 DEF Streamed
  <2> QED BY <2>3, <2>4, <2>5, <2>6, <2>7, <1>5 DEF Inv
<1>7. CASE DeliverSegment(r)
  <2>1. /\ arrived[r] < written[r]
        /\ arrived' = [arrived EXCEPT ![r] = @ + 1]
        /\ UNCHANGED <<syns, written, cut, backlog, packets, recvq>>
    BY <1>7 DEF DeliverSegment
  <2>2. ~Loopback
    <3>1. arrived[r] # written[r] BY <2>1, <1>3 DEF TypeInv
    <3> QED BY <3>1, <1>1 DEF Inv, Written
  <2>3. /\ arrived' \in [Request -> Nat] /\ arrived[r] \in Nat
        /\ written[r] \in Nat /\ arrived'[r] = arrived[r] + 1
        /\ \A q \in Request : q # r => arrived'[q] = arrived[q]
    BY <2>1, <1>3 DEF TypeInv
  <2>4. TypeInv' BY <2>1, <2>3, <1>1, <1>3 DEF TypeInv
  <2>5. Known' BY <2>1, <1>1, <1>2, <1>3 DEF Known
  <2>6. Streamed'
    <3> SUFFICES ASSUME NEW q \in Request
                 PROVE  taken[q] <= arrived'[q] /\ arrived'[q] <= written[q]
      BY <2>1, <1>1, <1>2, <1>3 DEF Streamed
    <3>1. /\ taken[q] <= arrived[q] /\ arrived[q] <= written[q]
          /\ taken[q] \in Nat /\ arrived[q] \in Nat /\ written[q] \in Nat
      BY <1>3 DEF Streamed, TypeInv
    <3>2. CASE q = r BY <3>1, <3>2, <2>1, <2>3
    <3>3. CASE q # r BY <3>1, <3>3, <2>3
    <3> QED BY <3>2, <3>3
  <2>7. Pipeline'
    <3>1. ASSUME NEW q \in Request, Holds(ready, Read(q))
          PROVE  arrived'[q] > taken[q]
      <4>1. arrived[q] > taken[q] /\ arrived[q] \in Nat /\ taken[q] \in Nat
        BY <3>1, <1>3 DEF Pipeline, TypeInv
      <4>2. CASE q = r BY <4>1, <4>2, <2>3
      <4>3. CASE q # r BY <4>1, <4>3, <2>3
      <4> QED BY <4>2, <4>3
    <3> QED BY <3>1, <2>1, <1>1, <1>2, <1>3 DEF Pipeline, OneStage, Reading
  <2> QED BY <2>2, <2>4, <2>5, <2>6, <2>7, <1>5 DEF Inv
<1>8. CASE DeliverDatagram(r)
  <2>1. /\ ToServer(r) \in packets /\ packets' = packets \ {ToServer(r)}
        /\ recvq' = Append(recvq, r)
        /\ UNCHANGED <<syns, written, arrived, cut, backlog>>
    BY <1>8 DEF DeliverDatagram, stream
  <2>2. /\ recvq' \in Seq(Request) /\ recvq' # <<>>
        /\ \A x : Holds(recvq', x) <=> Holds(recvq, x) \/ x = r
    BY <2>1, <1>3, QueueAppend DEF TypeInv
  <2>3. TypeInv' BY <2>1, <2>2, <1>1, <1>3 DEF TypeInv
  <2>4. Known' BY <2>1, <2>2, <1>1, <1>2, <1>3 DEF Known
  <2>5. Pipeline' BY <2>1, <2>2, <1>1, <1>2, <1>3 DEF Pipeline, OneStage, Reading
  <2>6. ASSUME Loopback PROVE Written' /\ Ordered'
    <3>1. Written /\ Ordered BY <2>6, <1>1 DEF Inv
    <3>2. Written' BY <3>1, <2>1, <1>1, <1>2 DEF Written
    <3>3. Ordered' BY <3>1, <2>1, <1>1, <1>2 DEF Ordered, InOrder, Ahead, Reading
    <3> QED BY <3>2, <3>3
  <2>7. Streamed' BY <2>1, <1>1, <1>2, <1>3 DEF Streamed
  <2> QED BY <2>3, <2>4, <2>5, <2>6, <2>7, <1>4, <1>5 DEF Inv
<1> QED BY <1>6, <1>7, <1>8 DEF Carry
-----------------------------------------------------------------------------
(* What a pass of the reactor adds to the queue: every new event, once.    *)
LEMMA ReactorFinds ==
  ASSUME TypeInv, Known, Distinct(ready), RunReactor
  PROVE  \E found \in Seq(Op) :
           /\ ready' = ready \o found
           /\ Distinct(found)
           /\ \A o : Holds(found, o) <=> o \in Events /\ ~Holds(ready, o)
<1> DEFINE n == Cardinality(NewEvents)
           cons == {r \in armed : arrived[r] > taken[r]}
           reads == {Read(r) : r \in cons}
<1>1. Events \subseteq {Accept, Receive} \union reads BY DEF Events
<1>2. NewEvents \subseteq {Accept, Receive} \union reads BY <1>1 DEF NewEvents
<1>3. IsFiniteSet(NewEvents)
  <2>1. IsFiniteSet(cons)
    <3>1. IsFiniteSet(armed) BY DEF TypeInv
    <3>2. cons \subseteq armed OBVIOUS
    <3> HIDE DEF cons
    <3> QED BY <3>1, <3>2, FS_Subset
  <2>2. [r \in cons |-> Read(r)] \in Surjection(cons, reads) BY DEF Surjection
  <2>3. IsFiniteSet(reads)
    <3> HIDE DEF cons, reads
    <3> QED BY <2>1, <2>2, FS_Surjection
  <2>4. IsFiniteSet({Accept, Receive})
    <3>1. IsFiniteSet({} \union {Accept}) BY FS_EmptySet, FS_AddElement
    <3>2. IsFiniteSet(({} \union {Accept}) \union {Receive}) BY <3>1, FS_AddElement
    <3>3. {Accept, Receive} = ({} \union {Accept}) \union {Receive} OBVIOUS
    <3> QED BY <3>2, <3>3
  <2>5. IsFiniteSet({Accept, Receive} \union reads)
    <3> HIDE DEF reads
    <3> QED BY <2>3, <2>4, FS_Union
  <2> HIDE DEF reads
  <2> QED BY <2>5, <1>2, FS_Subset
<1>4. NewEvents \subseteq Op
  <2>1. cons \subseteq Request BY DEF Known, MadeByTcp, Made
  <2> QED BY <2>1, <1>2 DEF Op
<1>5. PICK found \in [1..n -> NewEvents] :
        /\ \A o \in NewEvents : \E i \in DOMAIN found : found[i] = o
        /\ ready' = ready \o found
  BY DEF RunReactor
<1>6. n \in Nat BY <1>3, FS_CardinalityType
<1> HIDE DEF n, cons, reads
<1>7. found \in Surjection(1..n, NewEvents) BY <1>5 DEF Surjection
<1>8. IsFiniteSet(1..n) /\ Cardinality(1..n) = n
  BY <1>6, FS_Interval
<1>9. found \in Injection(1..n, NewEvents)
  BY <1>7, <1>8, FS_SurjSameCardinalityImpliesInj DEF n
<1>10. found \in Seq(Op) /\ Len(found) = n
  BY <1>4, <1>5, <1>6, SeqDef
<1>11. Distinct(found) BY <1>9, <1>10 DEF Distinct, Injection, IsInjective
<1>12. \A o : Holds(found, o) <=> o \in NewEvents
  BY <1>5, <1>10 DEF Holds
<1>13. \A o : o \in NewEvents <=> o \in Events /\ ~Holds(ready, o)
  BY DEF NewEvents, Queued, Holds
<1> QED BY <1>5, <1>10, <1>11, <1>12, <1>13

(* A pass of the reactor.                                                  *)
LEMMA ReactorStep ==
  ASSUME Inv, RunReactor
  PROVE  Inv'
<1>1. /\ UNCHANGED <<calls, pc, syns, written, arrived, cut, packets, backlog,
                     recvq, armed, handled, taken, server>>
      /\ server = "running" /\ server' = "running"
  BY DEF RunReactor, process, network, stream
<1>2. /\ Made' = Made /\ MadeByTcp' = MadeByTcp
      /\ \A p : LastRequest(p)' = LastRequest(p)
      /\ \A a, b : Earlier(a, b)' <=> Earlier(a, b)
      /\ \A q : Short(MessageOf(q))' <=> Short(MessageOf(q))
  BY <1>1, SameRequests
<1>3. TypeInv /\ Known /\ Pipeline /\ Distinct(ready) /\ Streamed
  BY <1>1 DEF Inv, Pipeline
<1>4. PICK found \in Seq(Op) :
        /\ ready' = ready \o found
        /\ Distinct(found)
        /\ \A o : Holds(found, o) <=> o \in Events /\ ~Holds(ready, o)
  BY <1>3, ReactorFinds
<1>5. /\ ready' \in Seq(Op)
      /\ \A o : Holds(ready', o) <=> Holds(ready, o) \/ Holds(found, o)
      /\ Distinct(ready')
      /\ \A x, y : Precedes(ready, x, y) /\ ~Holds(found, x)
                    => Precedes(ready', x, y)
  BY <1>3, <1>4, QueueConcat DEF TypeInv
<1>6. /\ Accept \in Events <=> backlog # <<>>
      /\ Receive \in Events <=> recvq # <<>>
      /\ \A r : Read(r) \in Events <=> r \in armed /\ arrived[r] > taken[r]
  BY OpsDiffer DEF Events
<1>7. \A r : Reading(r)' <=> Reading(r)
  BY <1>1, <1>4, <1>5, <1>6 DEF Reading
<1>8. TypeInv' BY <1>1, <1>3, <1>5 DEF TypeInv
<1>9. Known' BY <1>1, <1>2, <1>3 DEF Known
<1>10. Pipeline'
  <2>1. /\ Holds(ready', Accept) => backlog # <<>>
        /\ Holds(ready', Receive) => recvq # <<>>
        /\ \A r \in Request : Holds(ready', Read(r)) => arrived[r] > taken[r]
    BY <1>3, <1>4, <1>5, <1>6 DEF Pipeline
  <2>2. \A r \in MadeByTcp : OneStage(r)'
    BY <1>1, <1>3, <1>7 DEF Pipeline, OneStage
  <2> QED BY <2>1, <2>2, <1>1, <1>2, <1>3, <1>5 DEF Pipeline
<1>11. ASSUME Loopback PROVE Written' /\ Ordered'
  <2>1. Written /\ Ordered BY <1>11, <1>1 DEF Inv
  <2>2. Written' BY <2>1, <1>1, <1>2 DEF Written
  <2>3. ASSUME NEW a \in Request, NEW b \in Request, Earlier(a, b)
        PROVE  InOrder(a, b)'
    <3>1. InOrder(a, b) BY <2>1, <2>3 DEF Ordered
    <3>2. a \in MadeByTcp /\ b \in MadeByTcp BY <2>3 DEF Earlier
    <3>3. OneStage(a) /\ OneStage(b) BY <3>2, <1>3 DEF Pipeline
    <3>4. Ahead(a) => Ahead(a)' BY <1>1, <1>5 DEF Ahead
    <3>5. ASSUME Holds(ready', Accept), Head(backlog) = b PROVE Ahead(a)'
      <4>1. CASE Holds(ready, Accept) BY <4>1, <3>5, <3>1, <3>4 DEF InOrder
      <4>2. CASE backlog # <<>>
        <5>1. ~Holds(backlog, a)
          <6>1. Precedes(backlog, a, Head(backlog)) BY <3>1, <3>5 DEF InOrder
          <6> QED BY <6>1, <4>2, <1>3, QueueTail DEF TypeInv
        <5>2. Reading(a) \/ a \in handled
          BY <5>1, <3>3, <2>1 DEF OneStage, Written
        <5>3. arrived[a] > taken[a]
          <6>1. a # LastRequest(a[1])
            <7>1. /\ a[1] = b[1] /\ a[2] < b[2] /\ b[2] \in Nat /\ a[2] \in Nat
                  /\ b[2] <= Len(calls[b[1]])
              BY <2>3, <3>2, RequestIsPair DEF Earlier, MadeByTcp, Made
            <7>2. b[1] \in Clients BY RequestIsPair
            <7>3. Len(calls[b[1]]) \in Nat
              BY <7>2, <1>3, LenProperties DEF TypeInv
            <7> QED BY <7>1, <7>3 DEF LastRequest
          <6>2. written[a] > 0 /\ arrived[a] = written[a]
            BY <6>1, <3>2, <2>1 DEF Written
          <6>3. taken[a] = 0 BY <2>3, <3>2, <1>3 DEF Streamed, Earlier
          <6> QED BY <6>2, <6>3
        <5> QED BY <5>2, <5>3, <1>1, <1>4, <1>5, <1>6 DEF Reading, Ahead
      <4> QED BY <4>1, <4>2, <3>5, <1>4, <1>5, <1>6
    <3>6. Reading(b) => Ahead(a)' BY <3>1, <3>4 DEF InOrder
    <3>7. Precedes(ready', Read(a), Read(b))
      <4>1. CASE Holds(ready', Read(b))
        <5>1. Ahead(a) BY <4>1, <3>1, <1>4, <1>5, <1>6 DEF InOrder, Reading
        <5>2. ~Holds(found, Read(a))
          BY <5>1, <3>3, <1>4, <1>6 DEF Ahead, OneStage, Reading
        <5> QED BY <5>2, <3>1, <1>5 DEF InOrder
      <4>2. CASE ~Holds(ready', Read(b)) BY <4>2 DEF Precedes, Holds
      <4> QED BY <4>1, <4>2
    <3> QED BY <3>1, <3>5, <3>6, <3>7, <1>1, <1>7 DEF InOrder
  <2> QED BY <2>2, <2>3, <1>2 DEF Ordered
<1>12. HandledInOrder' <=> HandledInOrder BY <1>1, <1>2 DEF HandledInOrder
<1>13. StopsOnlyFor' BY <1>1 DEF StopsOnlyFor
<1>14. Streamed' BY <1>1, <1>2, <1>3 DEF Streamed
<1> QED BY <1>8, <1>9, <1>10, <1>11, <1>12, <1>13, <1>14 DEF Inv
-----------------------------------------------------------------------------
(* The handler of the acceptor moves the first connection of the backlog   *)
(* on to reading.                                                          *)
LEMMA AcceptStep ==
  ASSUME Inv, handle_accept
  PROVE  Inv'
<1> DEFINE con == Head(backlog)
           some == arrived[con] > 0
<1>1. /\ UNCHANGED <<calls, pc, syns, written, arrived, cut, packets, recvq,
                     handled, taken, server>>
      /\ server = "running" /\ server' = "running"
      /\ ready # <<>> /\ Head(ready) = Accept
      /\ backlog' = Tail(backlog)
      /\ some => ready' = Append(Tail(ready), Read(con)) /\ armed' = armed \ {con}
      /\ ~some => ready' = Tail(ready) /\ armed' = armed \union {con}
  BY DEF handle_accept, start, Completes, process, stream
<1>2. /\ Made' = Made /\ MadeByTcp' = MadeByTcp
      /\ \A p : LastRequest(p)' = LastRequest(p)
      /\ \A a, b : Earlier(a, b)' <=> Earlier(a, b)
      /\ \A q : Short(MessageOf(q))' <=> Short(MessageOf(q))
  BY <1>1, SameRequests
<1>3. TypeInv /\ Known /\ Pipeline /\ Streamed BY <1>1 DEF Inv
<1>4. ready \in Seq(Op) /\ backlog \in Seq(Request) BY <1>3 DEF TypeInv
<1>5. Distinct(ready) /\ Distinct(backlog) BY <1>3 DEF Pipeline
<1>6. /\ Tail(ready) \in Seq(Op) /\ Distinct(Tail(ready))
      /\ \A o : Holds(Tail(ready), o) <=> Holds(ready, o) /\ o # Accept
      /\ \A x, y : Precedes(ready, x, y) => Precedes(Tail(ready), x, y)
      /\ Holds(ready, Accept)
  BY <1>1, <1>4, <1>5, QueueTail
<1>7. backlog # <<>> BY <1>3, <1>6 DEF Pipeline
<1>8. /\ con \in Request /\ backlog' \in Seq(Request) /\ Distinct(backlog')
      /\ Holds(backlog, con)
      /\ \A r : Holds(backlog', r) <=> Holds(backlog, r) /\ r # con
      /\ \A x, y : Precedes(backlog, x, y) => Precedes(backlog', x, y)
      /\ \A x : Precedes(backlog, x, con) => ~Holds(backlog, x)
  BY <1>1, <1>4, <1>5, <1>7, QueueTail
<1>9. con \in MadeByTcp /\ OneStage(con) BY <1>3, <1>8 DEF Known, Pipeline
<1> HIDE DEF con, some
<1>10. ~Holds(ready, Read(con)) /\ con \notin armed
  BY <1>8, <1>9 DEF OneStage, Reading
<1>19. taken[con] = 0 BY <1>8, <1>9 DEF OneStage
<1>11. /\ ready' \in Seq(Op) /\ Distinct(ready')
       /\ \A o : Holds(ready', o) <=> \/ Holds(ready, o) /\ o # Accept
                                      \/ some /\ o = Read(con)
       /\ \A x, y : Precedes(ready, x, y) /\ (x # Read(con) \/ ~Holds(ready, y))
                       /\ x # y
                     => Precedes(ready', x, y)
  <2>1. CASE ~some BY <2>1, <1>1, <1>6
  <2>2. CASE some
    <3>1. Read(con) \in Op BY <1>8, OpsDiffer
    <3>2. ~Holds(Tail(ready), Read(con)) BY <1>6, <1>10
    <3>3. /\ ready' \in Seq(Op)
          /\ \A o : Holds(ready', o) <=> Holds(Tail(ready), o) \/ o = Read(con)
          /\ Distinct(ready')
          /\ \A x, y : Precedes(Tail(ready), x, y) /\ x # Read(con)
                        => Precedes(ready', x, y)
          /\ \A x : ~Holds(Tail(ready), x)
                     => Precedes(ready', Read(con), x) \/ x = Read(con)
      <4> DEFINE t == Append(Tail(ready), Read(con))
      <4>1. /\ t \in Seq(Op)
            /\ \A o : Holds(t, o) <=> Holds(Tail(ready), o) \/ o = Read(con)
            /\ Distinct(Tail(ready)) /\ ~Holds(Tail(ready), Read(con)) => Distinct(t)
            /\ \A x, y : Precedes(Tail(ready), x, y) /\ x # Read(con)
                          => Precedes(t, x, y)
            /\ \A x : ~Holds(Tail(ready), x)
                       => Precedes(t, Read(con), x) \/ x = Read(con)
        <5> DEFINE e == Read(con)
                   s == Tail(ready)
        <5>1. e \in Op /\ s \in Seq(Op) BY <3>1, <1>6
        <5> HIDE DEF e, s
        <5>2. /\ Append(s, e) \in Seq(Op)
              /\ \A o : Holds(Append(s, e), o) <=> Holds(s, o) \/ o = e
              /\ Distinct(s) /\ ~Holds(s, e) => Distinct(Append(s, e))
              /\ \A x, y : Precedes(s, x, y) /\ x # e => Precedes(Append(s, e), x, y)
              /\ \A x : ~Holds(s, x) => Precedes(Append(s, e), e, x) \/ x = e
          BY <5>1, QueueAppend
        <5> QED BY <5>2 DEF e, s
      <4>2. ready' = t BY <2>2, <1>1
      <4> HIDE DEF t
      <4> QED BY <4>1, <4>2, <3>2, <1>6
    <3> QED BY <2>2, <3>3, <1>6
  <2> QED BY <2>1, <2>2
<1>12. \A r : Reading(r)' <=> Reading(r) \/ r = con
  BY <1>1, <1>11, OpsDiffer DEF Reading
<1>13. TypeInv'
  <2>1. IsFiniteSet(armed) BY <1>3 DEF TypeInv
  <2>2. IsFiniteSet(armed') BY <2>1, <1>1, FS_AddElement, FS_RemoveElement
  <2> QED BY <2>2, <1>1, <1>3, <1>8, <1>11 DEF TypeInv
<1>14. Known'
  <2>1. armed' \subseteq MadeByTcp BY <1>1, <1>3, <1>9 DEF Known
  <2> QED BY <2>1, <1>1, <1>2, <1>3, <1>8 DEF Known
<1>15. Pipeline'
  <2>1. ~Holds(ready', Accept) BY <1>11, OpsDiffer
  <2>2. Holds(ready', Receive) => recvq # <<>> BY <1>3, <1>11, OpsDiffer DEF Pipeline
  <2>3. \A r \in Request : Holds(ready', Read(r)) => arrived[r] > taken[r]
    <3> SUFFICES ASSUME NEW r \in Request, Holds(ready', Read(r))
                 PROVE  arrived[r] > taken[r]
      OBVIOUS
    <3>1. CASE Holds(ready, Read(r)) BY <3>1, <1>3 DEF Pipeline
    <3>2. CASE some /\ Read(r) = Read(con)
      <4>1. r = con BY <3>2, OpsDiffer
      <4> QED BY <4>1, <3>2, <1>19 DEF some
    <3> QED BY <3>1, <3>2, <1>11
  <2>4. \A r \in MadeByTcp : OneStage(r)'
    <3> TAKE r \in MadeByTcp
    <3>1. OneStage(r) BY <1>3 DEF Pipeline
    <3> QED BY <3>1, <1>1, <1>8, <1>9, <1>12 DEF OneStage
  <2> QED BY <2>1, <2>2, <2>3, <2>4, <1>1, <1>2, <1>8, <1>11 DEF Pipeline
<1>16. ASSUME Loopback PROVE Written' /\ Ordered'
  <2>1. Written /\ Ordered BY <1>16, <1>1 DEF Inv
  <2>2. Written' BY <2>1, <1>1, <1>2 DEF Written
  <2>3. ASSUME NEW a \in Request, NEW b \in Request, Earlier(a, b)
        PROVE  InOrder(a, b)'
    <3>1. InOrder(a, b) BY <2>1, <2>3 DEF Ordered
    <3>2. a \in MadeByTcp /\ b \in MadeByTcp /\ a # b
      BY <2>3, RequestIsPair DEF Earlier
    <3>3. OneStage(a) /\ OneStage(b) BY <3>2, <1>3 DEF Pipeline
    <3>4. Precedes(backlog', a, b) BY <3>1, <1>8 DEF InOrder
    <3>5. b = con => ~Holds(backlog, a) BY <3>1, <1>8 DEF InOrder
    <3>6. Holds(backlog', a) => Holds(backlog', b)
      BY <3>1, <3>5, <1>8 DEF InOrder
    <3>7. ~Holds(ready', Accept) BY <1>11, OpsDiffer
    <3>8. Ahead(a) => Ahead(a)' BY <1>1, <1>11, OpsDiffer DEF Ahead
    <3>9. b = con => Ahead(a) BY <3>1, <1>6 DEF InOrder, con
    <3>10. Reading(b)' => Ahead(a)' BY <3>1, <3>8, <3>9, <1>12 DEF InOrder
    <3>11. Precedes(ready', Read(a), Read(b))
      <4>1. Read(a) # Read(b) BY <3>2, OpsDiffer
      <4>2. Read(a) = Read(con) => ~Holds(ready, Read(b))
        <5>1. Read(a) = Read(con) => a = con BY OpsDiffer
        <5> QED BY <5>1, <3>1, <3>3, <1>8 DEF InOrder, OneStage, Reading
      <4> QED BY <4>1, <4>2, <3>1, <1>11 DEF InOrder
    <3> QED BY <3>4, <3>6, <3>7, <3>10, <3>11 DEF InOrder
  <2> QED BY <2>2, <2>3, <1>2 DEF Ordered
<1>17. HandledInOrder' <=> HandledInOrder BY <1>1, <1>2 DEF HandledInOrder
<1>18. StopsOnlyFor' BY <1>1 DEF StopsOnlyFor
<1>20. Streamed' BY <1>1, <1>2, <1>3 DEF Streamed
<1> QED BY <1>13, <1>14, <1>15, <1>16, <1>17, <1>18, <1>20 DEF Inv

(* The connection that a read completes for has something to read, and the *)
(* earlier requests of its process that it must not overtake have been     *)
(* acted on.                                                               *)
LEMMA WhatIsRead ==
  ASSUME Inv, NEW r \in Request, Completes(Read(r))
  PROVE  /\ arrived[r] > taken[r] /\ r \in MadeByTcp /\ r \in Made
         /\ Reading(r) /\ r \notin handled
         /\ Loopback => \A a \in Request : Earlier(a, r) => a \in handled
<1>1. /\ server = "running" /\ ready # <<>> /\ Head(ready) = Read(r)
      /\ TypeInv /\ Known /\ Pipeline /\ Streamed
  BY DEF Completes, Inv
<1>2. /\ Holds(ready, Read(r))
      /\ \A x : Precedes(ready, x, Read(r)) => ~Holds(ready, x)
  BY <1>1, QueueTail DEF TypeInv
<1>3. arrived[r] > taken[r] BY <1>1, <1>2 DEF Pipeline
<1>4. r \in MadeByTcp
  <2>1. /\ arrived[r] \in Nat /\ taken[r] \in Nat /\ arrived[r] <= written[r]
        /\ written[r] \in Nat /\ (r \notin MadeByTcp => written[r] = 0)
    BY <1>1 DEF TypeInv, Streamed
  <2> QED BY <2>1, <1>3
<1>5. ASSUME Loopback, NEW a \in Request, Earlier(a, r) PROVE a \in handled
  <2>1. InOrder(a, r) BY <1>5, <1>1 DEF Inv, Ordered
  <2> QED BY <2>1, <1>2 DEF InOrder, Ahead, Reading
<1>6. Reading(r) /\ r \notin handled
  BY <1>1, <1>2, <1>4 DEF Pipeline, OneStage, Reading
<1> QED BY <1>3, <1>4, <1>5, <1>6 DEF MadeByTcp

(* A message is a record of its verb and what comes with the verb.         *)
LEMMA MessageParts ==
  ASSUME NEW m \in Message
  PROVE  /\ m.verb \in {"PUT", "GET", "DELETE", "memsize", "shutdown"}
         /\ m.verb = "PUT" => /\ m.key \in Keys /\ m.val \in Vals
                              /\ m = [verb |-> "PUT", key |-> m.key, val |-> m.val]
         /\ m.verb \in {"GET", "DELETE"} => m.key \in Keys
         /\ m.verb = "memsize" => m.mem \in MaxMems
BY DEF Message

(* The message of a request that was made is one of the messages.          *)
LEMMA MadeHaveMessages ==
  ASSUME TypeInv, NEW r \in Made
  PROVE  MessageOf(r) \in Message
<1>1. /\ r[1] \in Clients /\ r[2] \in 1..Len(calls[r[1]])
  BY RequestIsPair, LenProperties DEF Made, TypeInv
<1>2. calls[r[1]] \in Seq(Message) BY <1>1 DEF TypeInv
<1> QED BY <1>1, <1>2, ElementOfSeq DEF MessageOf

(* A connection that was cut while a long message was written on it.       *)
CutOff(r) == r \in cut /\ ~Short(MessageOf(r)) /\ MessageOf(r).verb = "PUT"

(* What a handler takes for the message of a connection: the message, or   *)
(* nothing or another value if the connection was cut.                     *)
LEMMA WhatIsTaken ==
  ASSUME Inv, NEW r \in Request, Completes(Read(r)), NEW m \in Contents(r)
  PROVE  \/ m = MessageOf(r)
         \/ m = [verb |-> "nothing"] /\ r \in cut /\ written[r] = 1
         \/ /\ CutOff(r)
            /\ \E v \in Vals :
                 m = [verb |-> "PUT", key |-> MessageOf(r).key, val |-> v]
<1>1. /\ arrived[r] > taken[r] /\ r \in MadeByTcp /\ r \in Made
      /\ TypeInv /\ Streamed
  BY WhatIsRead DEF Inv
<1>2. taken[r] \in Nat /\ written[r] \in Nat BY <1>1 DEF TypeInv
<1>3. CASE Brought(r) BY <1>3 DEF Contents
<1>4. CASE ~Brought(r) /\ taken[r] = 0
  <2>1. m = [verb |-> "nothing"] BY <1>4 DEF Contents
  <2>2. r \in cut /\ taken[r] + 1 = written[r] BY <1>1, <1>4 DEF Brought
  <2> QED BY <2>1, <2>2, <1>4
<1>5. CASE ~Brought(r) /\ taken[r] # 0
  <2>1. r \in cut BY <1>1, <1>5 DEF Brought
  <2>2. ~Short(MessageOf(r)) BY <1>1, <1>5 DEF Streamed
  <2>3. MessageOf(r).verb = "PUT" BY <2>2 DEF Short, PartsOf
  <2>4. PICK v \in Vals : m = [MessageOf(r) EXCEPT !.val = v]
    BY <1>5 DEF Contents
  <2>5. MessageOf(r) \in Message BY <1>1, MadeHaveMessages
  <2> DEFINE n == MessageOf(r)
  <2>6. n = [verb |-> "PUT", key |-> n.key, val |-> n.val]
    BY <2>3, <2>5, MessageParts
  <2> HIDE DEF n
  <2>7. [n EXCEPT !.val = v] = [verb |-> "PUT", key |-> n.key, val |-> v]
    BY <2>6
  <2>8. m = [verb |-> "PUT", key |-> MessageOf(r).key, val |-> v]
    BY <2>4, <2>7 DEF n
  <2> QED BY <2>1, <2>2, <2>3, <2>8 DEF CutOff
<1> QED BY <1>3, <1>4, <1>5

(* A part of a message is read, and the connection waits for the next part *)
(* behind the others.                                                      *)
LEMMA ReadSomeStep ==
  ASSUME Inv, NEW r \in Request, read_some(r)
  PROVE  Inv'
<1> DEFINE n == taken[r] + 1
           some == arrived[r] > n
<1>1. /\ UNCHANGED <<calls, pc, syns, written, arrived, cut, packets, backlog,
                     recvq, handled, server>>
      /\ server = "running" /\ server' = "running"
      /\ ready # <<>> /\ Head(ready) = Read(r) /\ Completes(Read(r))
      /\ taken' = [taken EXCEPT ![r] = n]
      /\ some => ready' = Append(Tail(ready), Read(r)) /\ armed' = armed \ {r}
      /\ ~some => ready' = Tail(ready) /\ armed' = armed \union {r}
      /\ ~Complete(r)
  BY DEF read_some, start, Completes, process, network, stream
<1>2. /\ Made' = Made /\ MadeByTcp' = MadeByTcp
      /\ \A p : LastRequest(p)' = LastRequest(p)
      /\ \A a, b : Earlier(a, b)' <=> Earlier(a, b)
      /\ \A q : Short(MessageOf(q))' <=> Short(MessageOf(q))
  BY <1>1, SameRequests
<1>3. TypeInv /\ Known /\ Pipeline /\ Streamed BY <1>1 DEF Inv
<1>4. /\ r \in MadeByTcp /\ Reading(r) /\ r \notin handled
      /\ arrived[r] > taken[r]
      /\ Loopback => \A a \in Request : Earlier(a, r) => a \in handled
  BY <1>1, WhatIsRead
<1>5. /\ taken[r] \in Nat /\ arrived[r] \in Nat /\ n \in Nat
      /\ taken' \in [Request -> Nat] /\ taken'[r] = n
      /\ \A q \in Request : q # r => taken'[q] = taken[q]
  BY <1>1, <1>3 DEF TypeInv
<1>6. ~Short(MessageOf(r))
  <2>1. ~(taken[r] + 1 >= PartsOf(MessageOf(r))) BY <1>1 DEF Complete
  <2> QED BY <2>1, <1>5 DEF Short
<1> HIDE DEF n, some
<1>7. /\ Tail(ready) \in Seq(Op) /\ Distinct(Tail(ready))
      /\ \A o : Holds(Tail(ready), o) <=> Holds(ready, o) /\ o # Read(r)
      /\ \A x, y : Precedes(ready, x, y) => Precedes(Tail(ready), x, y)
      /\ Holds(ready, Read(r))
  BY <1>1, <1>3, QueueTail DEF TypeInv, Pipeline
<1>8. /\ ready' \in Seq(Op) /\ Distinct(ready')
      /\ \A o : Holds(ready', o) <=> \/ Holds(ready, o) /\ o # Read(r)
                                     \/ some /\ o = Read(r)
      /\ \A x, y : Precedes(ready, x, y) /\ x # Read(r) => Precedes(ready', x, y)
  <2>1. CASE ~some BY <2>1, <1>1, <1>7
  <2>2. CASE some
    <3> DEFINE e == Read(r)
               t == Tail(ready)
    <3>1. e \in Op /\ t \in Seq(Op) /\ Distinct(t) /\ ~Holds(t, e)
      BY <1>7, OpsDiffer
    <3> HIDE DEF e, t
    <3>2. /\ Append(t, e) \in Seq(Op)
          /\ \A o : Holds(Append(t, e), o) <=> Holds(t, o) \/ o = e
          /\ Distinct(Append(t, e))
          /\ \A x, y : Precedes(t, x, y) /\ x # e => Precedes(Append(t, e), x, y)
      BY <3>1, QueueAppend
    <3>3. ready' = Append(t, e) BY <2>2, <1>1 DEF t, e
    <3>4. /\ \A o : Holds(t, o) <=> Holds(ready, o) /\ o # e
          /\ \A x, y : Precedes(ready, x, y) => Precedes(t, x, y)
      BY <1>7 DEF t, e
    <3>5. /\ ready' \in Seq(Op) /\ Distinct(ready')
          /\ \A o : Holds(ready', o) <=> (Holds(ready, o) /\ o # e) \/ o = e
          /\ \A x, y : Precedes(ready, x, y) /\ x # e => Precedes(ready', x, y)
      BY <3>2, <3>3, <3>4
    <3> QED BY <3>5, <2>2 DEF e
  <2> QED BY <2>1, <2>2
<1>9. \A q : Reading(q)' <=> Reading(q)
  <2>1. \A q : q # r => (Holds(ready', Read(q)) <=> Holds(ready, Read(q)))
    BY <1>8, OpsDiffer
  <2>2. \A q : q # r => (q \in armed' <=> q \in armed) BY <1>1
  <2>3. r \in armed' \/ Holds(ready', Read(r)) BY <1>1, <1>8
  <2> QED BY <2>1, <2>2, <2>3, <1>4 DEF Reading
<1>10. TypeInv'
  <2>1. IsFiniteSet(armed) BY <1>3 DEF TypeInv
  <2>2. IsFiniteSet(armed') BY <2>1, <1>1, FS_AddElement, FS_RemoveElement
  <2> QED BY <2>2, <1>1, <1>3, <1>5, <1>8 DEF TypeInv
<1>11. Known'
  <2>1. armed' \subseteq MadeByTcp BY <1>1, <1>3, <1>4 DEF Known
  <2> QED BY <2>1, <1>1, <1>2, <1>3 DEF Known
<1>12. Streamed'
  <2> SUFFICES ASSUME NEW q \in Request
               PROVE  /\ taken'[q] <= arrived[q]
                      /\ q \in MadeByTcp /\ Short(MessageOf(q)) => taken'[q] = 0
    BY <1>1, <1>2, <1>3 DEF Streamed
  <2>1. CASE q = r BY <2>1, <1>4, <1>5, <1>6 DEF n
  <2>2. CASE q # r BY <2>2, <1>3, <1>5 DEF Streamed
  <2> QED BY <2>1, <2>2
<1>13. Pipeline'
  <2>1. /\ Holds(ready', Accept) => backlog # <<>>
        /\ Holds(ready', Receive) => recvq # <<>>
    BY <1>3, <1>8, OpsDiffer DEF Pipeline
  <2>2. ASSUME NEW q \in Request, Holds(ready', Read(q))
        PROVE  arrived[q] > taken'[q]
    <3>1. CASE q = r
      <4>1. some BY <3>1, <2>2, <1>8
      <4> QED BY <4>1, <3>1, <1>5 DEF some
    <3>2. CASE q # r
      <4>1. Holds(ready, Read(q)) BY <3>2, <2>2, <1>8, OpsDiffer
      <4> QED BY <4>1, <3>2, <1>3, <1>5 DEF Pipeline
    <3> QED BY <3>1, <3>2
  <2>3. \A q \in MadeByTcp : OneStage(q)'
    <3> TAKE q \in MadeByTcp
    <3>1. OneStage(q) /\ q \in Request BY <1>3 DEF Pipeline, MadeByTcp, Made
    <3>2. CASE q = r BY <3>1, <3>2, <1>1, <1>4, <1>9 DEF OneStage
    <3>3. CASE q # r BY <3>1, <3>3, <1>1, <1>5, <1>9 DEF OneStage
    <3> QED BY <3>2, <3>3
  <2> QED BY <2>1, <2>2, <2>3, <1>1, <1>2, <1>3, <1>8 DEF Pipeline
<1>14. ASSUME Loopback PROVE Written' /\ Ordered'
  <2>1. Written /\ Ordered BY <1>14, <1>1 DEF Inv
  <2>2. Written' BY <2>1, <1>1, <1>2 DEF Written
  <2>3. ASSUME NEW a \in Request, NEW b \in Request, Earlier(a, b)
        PROVE  InOrder(a, b)'
    <3>1. InOrder(a, b) BY <2>1, <2>3 DEF Ordered
    <3>2. a # r BY <2>3, <1>6 DEF Earlier
    <3>3. Ahead(a) => Ahead(a)' BY <3>2, <1>1, <1>8, OpsDiffer DEF Ahead
    <3>4. Holds(ready', Accept) => Holds(ready, Accept) BY <1>8, OpsDiffer
    <3>5. Precedes(ready', Read(a), Read(b))
      <4>1. Read(a) # Read(r) BY <3>2, OpsDiffer
      <4> QED BY <4>1, <3>1, <1>8 DEF InOrder
    <3> QED BY <3>1, <3>3, <3>4, <3>5, <1>1, <1>9 DEF InOrder
  <2> QED BY <2>2, <2>3, <1>2 DEF Ordered
<1>15. HandledInOrder' <=> HandledInOrder BY <1>1, <1>2 DEF HandledInOrder
<1>16. StopsOnlyFor' BY <1>1 DEF StopsOnlyFor
<1> QED BY <1>10, <1>11, <1>12, <1>13, <1>14, <1>15, <1>16 DEF Inv

(* The handler of a connection acts on its message.                        *)
LEMMA ReadStep ==
  ASSUME Inv, NEW r \in Request, handle_read(r)
  PROVE  Inv'
<1>1. /\ UNCHANGED <<calls, pc, syns, written, arrived, cut, packets, backlog,
                     recvq, taken, server>>
      /\ server = "running" /\ server' = "running"
      /\ ready # <<>> /\ Head(ready) = Read(r) /\ ready' = Tail(ready)
      /\ handled' = handled \union {r} /\ armed' = armed \ {r}
      /\ Completes(Read(r))
  BY DEF handle_read, ReadOne, Completes, process, network, stream
<1>2. /\ Made' = Made /\ MadeByTcp' = MadeByTcp
      /\ \A p : LastRequest(p)' = LastRequest(p)
      /\ \A a, b : Earlier(a, b)' <=> Earlier(a, b)
      /\ \A q : Short(MessageOf(q))' <=> Short(MessageOf(q))
  BY <1>1, SameRequests
<1>3. TypeInv /\ Known /\ Pipeline /\ Streamed BY <1>1 DEF Inv
<1>4. /\ r \in MadeByTcp /\ r \in Made
      /\ Loopback => \A a \in Request : Earlier(a, r) => a \in handled
  BY <1>1, WhatIsRead
<1>5. /\ ready' \in Seq(Op) /\ Distinct(ready')
      /\ \A o : Holds(ready', o) <=> Holds(ready, o) /\ o # Read(r)
      /\ \A x, y : Precedes(ready, x, y) => Precedes(ready', x, y)
  BY <1>1, <1>3, QueueTail DEF TypeInv, Pipeline
<1>6. \A q : Reading(q)' <=> Reading(q) /\ q # r
  BY <1>1, <1>5, OpsDiffer DEF Reading
<1>7. TypeInv'
  <2>1. IsFiniteSet(armed') BY <1>1, <1>3, FS_RemoveElement DEF TypeInv
  <2> QED BY <2>1, <1>1, <1>3, <1>5 DEF TypeInv
<1>8. Known' BY <1>1, <1>2, <1>3, <1>4 DEF Known
<1>9. Pipeline'
  <2>1. /\ Holds(ready', Accept) => backlog # <<>>
        /\ Holds(ready', Receive) => recvq # <<>>
    BY <1>3, <1>5 DEF Pipeline
  <2>2. \A q \in Request : Holds(ready', Read(q)) => arrived[q] > taken[q]
    BY <1>1, <1>3, <1>5 DEF Pipeline
  <2>3. OneStage(r) /\ Reading(r)
    <3>1. Holds(ready, Read(r)) BY <1>1, <1>3, QueueTail DEF TypeInv
    <3> QED BY <3>1, <1>3, <1>4 DEF Pipeline, Reading
  <2>4. \A q \in MadeByTcp : OneStage(q)'
    <3> TAKE q \in MadeByTcp
    <3>1. OneStage(q) BY <1>3 DEF Pipeline
    <3> QED BY <3>1, <2>3, <1>1, <1>6 DEF OneStage
  <2> QED BY <2>1, <2>2, <2>4, <1>1, <1>2, <1>3, <1>5 DEF Pipeline
<1>10. ASSUME Loopback PROVE Written' /\ Ordered'
  <2>1. Written /\ Ordered BY <1>10, <1>1 DEF Inv
  <2>2. Written' BY <2>1, <1>1, <1>2 DEF Written
  <2>3. ASSUME NEW a \in Request, NEW b \in Request, Earlier(a, b)
        PROVE  InOrder(a, b)'
    <3>1. InOrder(a, b) BY <2>1, <2>3 DEF Ordered
    <3>2. Ahead(a) => Ahead(a)' BY <1>1, <1>5, OpsDiffer DEF Ahead
    <3> QED BY <3>1, <3>2, <1>1, <1>5, <1>6 DEF InOrder
  <2> QED BY <2>2, <2>3, <1>2 DEF Ordered
<1>11. ASSUME Loopback PROVE HandledInOrder'
  BY <1>11, <1>1, <1>2, <1>4 DEF Inv, HandledInOrder
<1>12. StopsOnlyFor' BY <1>1 DEF StopsOnlyFor
<1>13. Streamed' BY <1>1, <1>2, <1>3 DEF Streamed
<1> QED BY <1>7, <1>8, <1>9, <1>10, <1>11, <1>12, <1>13 DEF Inv

(* The handler of a connection whose message ends the server.              *)
LEMMA ShutdownStep ==
  ASSUME Inv, NEW r \in Request, handle_shutdown(r)
  PROVE  Inv'
<1>1. /\ UNCHANGED <<calls, pc, syns, written, arrived, cut, packets, taken>>
      /\ server' = "stopped"
      /\ ready' = <<>> /\ backlog' = <<>> /\ recvq' = <<>>
      /\ handled' = handled \union {r} /\ armed' = armed \ {r}
      /\ Completes(Read(r)) /\ \E m \in Contents(r) : Ends(m)
  BY DEF handle_shutdown, ReadOne, process, stream
<1>2. /\ Made' = Made /\ MadeByTcp' = MadeByTcp
      /\ \A p : LastRequest(p)' = LastRequest(p)
      /\ \A a, b : Earlier(a, b)' <=> Earlier(a, b)
      /\ \A q : MessageOf(q)' = MessageOf(q)
      /\ \A q : Short(MessageOf(q))' <=> Short(MessageOf(q))
  BY <1>1, SameRequests
<1>3. TypeInv /\ Known /\ Streamed BY DEF Inv
<1>4. /\ r \in MadeByTcp /\ r \in Made
      /\ Loopback => \A a \in Request : Earlier(a, r) => a \in handled
  BY <1>1, WhatIsRead
<1>5. TypeInv'
  <2>1. IsFiniteSet(armed') BY <1>1, <1>3, FS_RemoveElement DEF TypeInv
  <2>2. /\ backlog' \in Seq(Request) /\ recvq' \in Seq(Request)
        /\ ready' \in Seq(Op)
    BY <1>1
  <2> QED BY <2>1, <2>2, <1>1, <1>3 DEF TypeInv
<1>6. Known'
  <2>1. \A x : ~Holds(<<>>, x) BY DEF Holds
  <2> QED BY <2>1, <1>1, <1>2, <1>3, <1>4 DEF Known
<1>7. ASSUME Loopback PROVE HandledInOrder'
  BY <1>7, <1>1, <1>2, <1>4 DEF Inv, HandledInOrder
<1>8. StopsOnlyFor'
  <2>1. PICK m \in Contents(r) : Ends(m) BY <1>1
  <2>2. \/ MessageOf(r).verb = "shutdown"
        \/ MessageOf(r).verb = "memsize" /\ MessageOf(r).mem > LLONG_MAX
        \/ r \in cut /\ written[r] = 1
    <3>1. CASE m = MessageOf(r)
      <4>1. m \in Message BY <3>1, <1>3, <1>4, MadeHaveMessages
      <4>2. m.verb # "nothing" BY <4>1, MessageParts
      <4> QED BY <4>2, <3>1, <2>1 DEF Ends
    <3>2. CASE r \in cut /\ written[r] = 1 BY <3>2
    <3>3. ASSUME NEW v, m = [verb |-> "PUT", key |-> MessageOf(r).key, val |-> v]
          PROVE  FALSE
      <4>1. m.verb = "PUT" BY <3>3
      <4> QED BY <4>1, <2>1 DEF Ends
    <3> QED BY <3>1, <3>2, <3>3, <1>1, WhatIsTaken
  <2> QED BY <2>2, <1>1, <1>2, <1>4 DEF StopsOnlyFor
<1>9. Streamed' BY <1>1, <1>2, <1>3 DEF Streamed
<1> QED BY <1>1, <1>5, <1>6, <1>7, <1>8, <1>9 DEF Inv

(* The handler of the UDP socket.                                          *)
LEMMA ReceiveStep ==
  ASSUME Inv, handle_receive
  PROVE  Inv'
<1> DEFINE req == Head(recvq)
<1>1. /\ UNCHANGED <<calls, pc, syns, written, arrived, cut, backlog, armed,
                     taken, server>>
      /\ server = "running" /\ server' = "running"
      /\ ready # <<>> /\ Head(ready) = Receive
      /\ handled' = handled \union {req} /\ recvq' = Tail(recvq)
      /\ recvq' = <<>> => ready' = Tail(ready)
      /\ recvq' # <<>> => ready' = Append(Tail(ready), Receive)
      /\ packets' = packets \union {AnswerTo(req)}
  BY DEF handle_receive, TakeDatagram, Completes, process, stream
<1>2. /\ Made' = Made /\ MadeByTcp' = MadeByTcp
      /\ \A p : LastRequest(p)' = LastRequest(p)
      /\ \A a, b : Earlier(a, b)' <=> Earlier(a, b)
      /\ \A q : Short(MessageOf(q))' <=> Short(MessageOf(q))
  BY <1>1, SameRequests
<1>3. TypeInv /\ Known /\ Pipeline /\ Streamed BY <1>1 DEF Inv
<1>4. /\ Tail(ready) \in Seq(Op) /\ Distinct(Tail(ready))
      /\ \A o : Holds(Tail(ready), o) <=> Holds(ready, o) /\ o # Receive
      /\ \A x, y : Precedes(ready, x, y) => Precedes(Tail(ready), x, y)
      /\ Holds(ready, Receive)
  BY <1>1, <1>3, QueueTail DEF TypeInv, Pipeline
<1>5. recvq # <<>> BY <1>3, <1>4 DEF Pipeline
<1>6. /\ recvq' \in Seq(Request) /\ Holds(recvq, req)
      /\ \A x : Holds(recvq', x) => Holds(recvq, x)
  BY <1>1, <1>3, <1>5, QueueTail DEF TypeInv
<1>7. req \in Made /\ req \notin MadeByTcp BY <1>3, <1>6 DEF Known
<1> HIDE DEF req
<1>8. /\ ready' \in Seq(Op) /\ Distinct(ready')
      /\ \A o : Holds(ready', o) <=> \/ Holds(ready, o) /\ o # Receive
                                     \/ recvq' # <<>> /\ o = Receive
      /\ \A x, y : Precedes(ready, x, y) /\ x # Receive => Precedes(ready', x, y)
  <2>1. CASE recvq' = <<>> BY <2>1, <1>1, <1>4
  <2>2. CASE recvq' # <<>>
    <3>1. /\ ready' \in Seq(Op)
          /\ \A o : Holds(ready', o) <=> Holds(Tail(ready), o) \/ o = Receive
          /\ Distinct(ready')
          /\ \A x, y : Precedes(Tail(ready), x, y) /\ x # Receive
                        => Precedes(ready', x, y)
      <4> DEFINE t == Append(Tail(ready), Receive)
      <4>1. /\ t \in Seq(Op)
            /\ \A o : Holds(t, o) <=> Holds(Tail(ready), o) \/ o = Receive
            /\ Distinct(Tail(ready)) /\ ~Holds(Tail(ready), Receive) => Distinct(t)
            /\ \A x, y : Precedes(Tail(ready), x, y) /\ x # Receive
                          => Precedes(t, x, y)
        BY <1>4, OpsDiffer, QueueAppend, Zenon
      <4>2. ready' = t BY <2>2, <1>1
      <4> HIDE DEF t
      <4> QED BY <4>1, <4>2, <1>4
    <3> QED BY <2>2, <3>1, <1>4
  <2> QED BY <2>1, <2>2
<1>9. \A r : Holds(ready', Read(r)) <=> Holds(ready, Read(r))
  BY <1>8, OpsDiffer
<1>10. TypeInv' BY <1>1, <1>3, <1>6, <1>8 DEF TypeInv
<1>11. Known'
  <2>1. \A r : ToServer(r) # AnswerTo(req) BY DEF ToServer, AnswerTo
  <2> QED BY <2>1, <1>1, <1>2, <1>3, <1>6, <1>7 DEF Known
<1>12. Pipeline'
  <2>1. Holds(ready', Accept) => backlog # <<>>
    BY <1>3, <1>8, OpsDiffer DEF Pipeline
  <2>2. Holds(ready', Receive) => recvq' # <<>> BY <1>8
  <2>3. \A r \in Request : Holds(ready', Read(r)) => arrived[r] > taken[r]
    BY <1>3, <1>9 DEF Pipeline
  <2>4. \A r \in MadeByTcp : OneStage(r)'
    <3> TAKE r \in MadeByTcp
    <3>1. OneStage(r) /\ r # req BY <1>3, <1>7 DEF Pipeline
    <3> QED BY <3>1, <1>1, <1>9 DEF OneStage, Reading
  <2> QED BY <2>1, <2>2, <2>3, <2>4, <1>1, <1>2, <1>3, <1>8 DEF Pipeline
<1>13. ASSUME Loopback PROVE Written' /\ Ordered'
  <2>1. Written /\ Ordered BY <1>13, <1>1 DEF Inv
  <2>2. Written' BY <2>1, <1>1, <1>2 DEF Written
  <2>3. ASSUME NEW a \in Request, NEW b \in Request, Earlier(a, b)
        PROVE  InOrder(a, b)'
    <3>1. InOrder(a, b) BY <2>1, <2>3 DEF Ordered
    <3>2. Ahead(a) => Ahead(a)' BY <1>1, <1>9 DEF Ahead
    <3>3. Holds(ready', Accept) => Holds(ready, Accept) BY <1>8, OpsDiffer
    <3>4. Precedes(ready', Read(a), Read(b)) BY <3>1, <1>8, OpsDiffer DEF InOrder
    <3>5. Reading(b)' <=> Reading(b) BY <1>1, <1>9 DEF Reading
    <3> QED BY <3>1, <3>2, <3>3, <3>4, <3>5, <1>1 DEF InOrder
  <2> QED BY <2>2, <2>3, <1>2 DEF Ordered
<1>14. ASSUME Loopback PROVE HandledInOrder'
  BY <1>14, <1>1, <1>2, <1>7 DEF Inv, HandledInOrder, Earlier
<1>15. StopsOnlyFor' BY <1>1 DEF StopsOnlyFor
<1>16. Streamed' BY <1>1, <1>2, <1>3 DEF Streamed
<1> QED BY <1>10, <1>11, <1>12, <1>13, <1>14, <1>15, <1>16 DEF Inv
-----------------------------------------------------------------------------
(* The calls and their returns.                                            *)
LEMMA ClientStep ==
  ASSUME Inv, NEW p \in Clients,
         ClientCalls(p) \/ ClientContinues(p) \/ receive_refused(p)
  PROVE  Inv'
<1>1. TypeInv BY DEF Inv
<1>2. ASSUME NEW key \in Keys, NEW val \in Vals, cache_set_(p, key, val)
      PROVE  Inv'
  <2> DEFINE m == [verb |-> "PUT", key |-> key, val |-> val]
  <2>1. m \in Message /\ IsTcp(m) BY DEF Message, IsTcp
  <2>2. send_message_tcp(p, m) BY <1>2 DEF cache_set_
  <2> HIDE DEF m
  <2> QED BY <2>1, <2>2, ConnectStep
<1>3. ASSUME NEW key \in Keys, cache_delete_(p, key) PROVE Inv'
  <2> DEFINE m == [verb |-> "DELETE", key |-> key]
  <2>1. m \in Message /\ IsTcp(m) BY DEF Message, IsTcp
  <2>2. send_message_tcp(p, m) BY <1>3 DEF cache_delete_
  <2> HIDE DEF m
  <2> QED BY <2>1, <2>2, ConnectStep
<1>4. ASSUME NEW mem \in MaxMems, create_cache_(p, mem) PROVE Inv'
  <2> DEFINE m == [verb |-> "memsize", mem |-> mem]
  <2>1. m \in Message /\ IsTcp(m) BY DEF Message, IsTcp
  <2>2. send_message_tcp(p, m) BY <1>4 DEF create_cache_
  <2> HIDE DEF m
  <2> QED BY <2>1, <2>2, ConnectStep
<1>5. ASSUME destroy_cache_(p) PROVE Inv'
  <2> DEFINE m == [verb |-> "shutdown"]
  <2>1. m \in Message /\ IsTcp(m) BY DEF Message, IsTcp
  <2>2. send_message_tcp(p, m) BY <1>5 DEF destroy_cache_
  <2> HIDE DEF m
  <2> QED BY <2>1, <2>2, ConnectStep
<1>6. ASSUME write_message(p) PROVE Inv'
  <2>1. /\ pc[p] = "connected"
        /\ UNCHANGED <<calls, cut, syns, packets, backlog, recvq, loop, cache, server>>
    BY <1>6 DEF write_message
  <2>2. pc' \in [Clients -> PC] /\ \A q \in Clients \ {p} : pc'[q] = pc[q]
    BY <1>1, <1>6 DEF write_message, TypeInv, PC
  <2>3. CASE server = "stopped"
    <3>1. UNCHANGED <<written, arrived>> BY <1>6, <2>3 DEF write_message
    <3>2. UNCHANGED <<armed, ready, handled, taken>> BY <2>1 DEF loop
    <3> QED BY <3>1, <3>2, <2>1, <2>2, <2>3, QuietStep
  <2>4. CASE server # "stopped"
    <3>1. server = "running" BY <2>4, <1>1 DEF TypeInv
    <3>2. Write(LastRequest(p)) BY <1>6, <2>4 DEF write_message
    <3> QED BY <3>1, <3>2, <2>1, <2>2, MessageWritten
  <2> QED BY <2>3, <2>4
<1>7. ASSUME get_message(p) \/ receive_refused(p) PROVE Inv'
  <2>1. /\ UNCHANGED <<calls, syns, written, arrived, cut, backlog, recvq, armed,
                       ready, handled, taken, server>>
        /\ packets' \subseteq packets
        /\ pc[p] # "connected"
    BY <1>7 DEF get_message, receive_refused, network, stream, loop, Waiting
  <2>2. /\ pc' \in [Clients -> PC] /\ pc'[p] # "connected"
        /\ \A q \in Clients \ {p} : pc'[q] = pc[q]
    BY <1>1, <1>7 DEF get_message, receive_refused, TypeInv, PC
  <2> QED BY <2>1, <2>2, QuietStep
<1>8. ASSUME ClientCalls(p) PROVE Inv'
  BY <1>8, <1>2, <1>3, <1>4, <1>5, GetStep DEF ClientCalls
<1> QED BY <1>6, <1>7, <1>8 DEF ClientContinues

(* Every step of NetCache, and stuttering, preserves the invariant.        *)
LEMMA NextPreservesInv == Inv /\ [Next]_vars => Inv'
<1> SUFFICES ASSUME Inv, [Next]_vars PROVE Inv'
  OBVIOUS
<1>1. ASSUME NEW p \in Clients,
             ClientCalls(p) \/ ClientContinues(p) \/ receive_refused(p)
      PROVE  Inv'
  BY <1>1, ClientStep
<1>2. ASSUME NEW r \in Request, Carry(r) PROVE Inv'
  BY <1>2, CarryStep
<1>3. CASE RunReactor BY <1>3, ReactorStep
<1>4. CASE Handler
  BY <1>4, AcceptStep, ReadSomeStep, ReadStep, ShutdownStep, ReceiveStep
  DEF Handler, TcpHandler
<1>5. CASE UNCHANGED vars
  <2>1. UNCHANGED <<calls, syns, written, arrived, cut, backlog, recvq, armed,
                    ready, handled, taken, server, packets, pc>>
    BY <1>5 DEF vars
  <2>2. pc' \in [Clients -> PC] BY <2>1 DEF Inv, TypeInv
  <2> QED BY <2>1, <2>2, QuietStep
<1> QED BY <1>1, <1>2, <1>3, <1>4, <1>5 DEF Next

(* A killed process, a lost datagram or a timeout preserves it too.        *)
LEMMA FaultsPreserveInv == Inv /\ [FaultNext]_vars => Inv'
<1> SUFFICES ASSUME Inv, [FaultNext]_vars PROVE Inv'
  OBVIOUS
<1>1. TypeInv BY DEF Inv
<1>2. CASE [Next]_vars BY <1>2, NextPreservesInv
<1>3. ASSUME NEW p \in Clients, receive_timeout(p) PROVE Inv'
  <2>1. /\ UNCHANGED <<calls, syns, written, arrived, cut, backlog, recvq,
                       armed, ready, handled, taken, server, packets>>
        /\ pc[p] # "connected"
    BY <1>3 DEF receive_timeout, network, stream, loop
  <2>2. /\ pc' \in [Clients -> PC] /\ pc'[p] # "connected"
        /\ \A q \in Clients \ {p} : pc'[q] = pc[q]
    BY <1>1, <1>3 DEF receive_timeout, TypeInv, PC
  <2> QED BY <2>1, <2>2, QuietStep
<1>4. ASSUME NEW d \in packets, LoseDatagram(d) PROVE Inv'
  <2>1. /\ UNCHANGED <<calls, syns, written, arrived, cut, backlog, recvq,
                       armed, ready, handled, taken, server, pc>>
        /\ packets' \subseteq packets
    BY <1>4 DEF LoseDatagram, process, stream, loop
  <2>2. pc' \in [Clients -> PC] BY <1>1, <2>1 DEF TypeInv
  <2> QED BY <2>1, <2>2, QuietStep
<1>5. ASSUME NEW p \in Clients, Kill(p) PROVE Inv'
  <2>1. /\ pc' \in [Clients -> PC] /\ pc'[p] # "connected"
        /\ \A q \in Clients \ {p} : pc'[q] = pc[q]
    BY <1>1, <1>5 DEF Kill, TypeInv, PC
  <2>2. UNCHANGED <<calls, syns, packets, backlog, recvq, loop, cache, server>>
    BY <1>5 DEF Kill
  <2>3. CASE ~(pc[p] = "connected" /\ server = "running")
    <3>1. UNCHANGED <<written, arrived, cut>> BY <1>5, <2>3 DEF Kill, stream
    <3>2. UNCHANGED <<armed, ready, handled, taken>> BY <2>2 DEF loop
    <3> QED BY <3>1, <3>2, <2>1, <2>2, <2>3, QuietStep
  <2>4. CASE pc[p] = "connected" /\ server = "running"
    <3>1. Write(LastRequest(p)) BY <1>5, <2>4 DEF Kill
    <3> QED BY <3>1, <2>1, <2>2, <2>4, MessageWritten
  <2> QED BY <2>3, <2>4
<1> QED BY <1>2, <1>3, <1>4, <1>5 DEF FaultNext

(* It holds at the start.                                                  *)
LEMMA InitHasInv == Init => Inv
<1> SUFFICES ASSUME Init PROVE Inv
  OBVIOUS
<1>1. calls \in [Clients -> Seq(Message)] /\ \A p \in Clients : Len(calls[p]) = 0
  BY DEF Init
<1>2. TypeInv
  <2>1. \A p \in Clients : Len(calls[p]) <= MaxCalls[p]
    BY <1>1, MaxCallsAssumption
  <2>2. /\ backlog \in Seq(Request) /\ recvq \in Seq(Request)
        /\ ready \in Seq(Op)
    BY DEF Init
  <2>3. pc \in [Clients -> PC] BY DEF Init, PC
  <2>4. IsFiniteSet(armed) BY FS_EmptySet DEF Init
  <2>5. /\ written \in [Request -> Nat] /\ arrived \in [Request -> Nat]
        /\ taken \in [Request -> Nat]
    BY DEF Init
  <2> QED BY <1>1, <2>1, <2>2, <2>3, <2>4, <2>5 DEF Init, TypeInv
<1>3. \A x : ~Holds(<<>>, x) BY DEF Holds
<1>4. Made = {} /\ MadeByTcp = {}
  BY <1>1, RequestIsPair DEF Made, MadeByTcp
<1>5. Known
  <2>1. \A p \in Clients : pc[p] # "connected" BY DEF Init
  <2> QED BY <2>1, <1>3 DEF Known, Init
<1>6. Pipeline BY <1>3, <1>4 DEF Init, Pipeline, Distinct
<1>7. Written BY <1>4 DEF Init, Written
<1>8. Ordered /\ HandledInOrder BY <1>4 DEF Ordered, HandledInOrder, Earlier
<1>9. StopsOnlyFor BY DEF Init, StopsOnlyFor
<1>10. Streamed BY <1>4 DEF Init, Streamed
<1> QED BY <1>2, <1>5, <1>6, <1>7, <1>8, <1>9, <1>10 DEF Inv
-----------------------------------------------------------------------------
(* OneStage(r) says that r has exactly one of the stages of NetCache.      *)
LEMMA InvGivesOneStage == Inv => EveryConnectionOnce
<1> SUFFICES ASSUME Inv, server = "running", NEW r \in MadeByTcp
             PROVE  Cardinality(Stages(r)) = 1
  BY DEF EveryConnectionOnce
<1>1. OneStage(r) BY DEF Inv, Pipeline
<1>2. /\ InBacklog(r) <=> Holds(backlog, r)
      /\ (r \in armed \/ Queued(Read(r))) <=> Reading(r)
  BY DEF InBacklog, Queued, Reading, Holds
<1>3. \E stage : Stages(r) = {stage}
  <2>1. CASE r \in syns
    <3>1. Stages(r) = {"handshake"} BY <2>1, <1>1, <1>2 DEF OneStage, Stages
    <3> QED BY <3>1
  <2>2. CASE Holds(backlog, r)
    <3>1. Stages(r) = {"backlog"} BY <2>2, <1>1, <1>2 DEF OneStage, Stages
    <3> QED BY <3>1
  <2>3. CASE Reading(r)
    <3>1. Stages(r) = {"reading"} BY <2>3, <1>1, <1>2 DEF OneStage, Stages
    <3> QED BY <3>1
  <2>4. CASE r \in handled
    <3>1. Stages(r) = {"handled"} BY <2>4, <1>1, <1>2 DEF OneStage, Stages
    <3> QED BY <3>1
  <2> QED BY <2>1, <2>2, <2>3, <2>4, <1>1 DEF OneStage
<1> QED BY <1>3, FS_Singleton

LEMMA InvGivesOwnOrder == Inv => OwnOrder
<1> SUFFICES ASSUME Inv, Loopback, NEW r \in MadeByTcp \intersect handled,
                    NEW n \in 1..(r[2] - 1), <<r[1], n>> \in MadeByTcp,
                    Short(calls[r[1]][n])
             PROVE  <<r[1], n>> \in handled
  BY DEF OwnOrder
<1>1. r \in Request /\ <<r[1], n>> \in Request BY DEF MadeByTcp, Made
<1>2. r[2] \in Nat BY <1>1, RequestIsPair
<1>3. Earlier(<<r[1], n>>, r) BY <1>2 DEF Earlier, MessageOf
<1> QED BY <1>1, <1>3 DEF Inv, HandledInOrder

(* Whatever processes are killed and whatever datagrams are lost, every    *)
(* connection made to a running server is in exactly one stage on its way  *)
(* through handle_accept and handle_read: it is not lost and not acted on  *)
(* twice.                                                                  *)
THEOREM ConnectionsAreNotLost ==
  (Spec => []EveryConnectionOnce) /\ (FaultSpec => []EveryConnectionOnce)
<1>1. Spec => []EveryConnectionOnce
  BY InitHasInv, NextPreservesInv, InvGivesOneStage, PTL DEF Spec
<1>2. FaultSpec => []EveryConnectionOnce
  BY InitHasInv, FaultsPreserveInv, InvGivesOneStage, PTL DEF FaultSpec
<1> QED BY <1>1, <1>2

(* On the server's own host no set, delete or post is acted on before an   *)
(* earlier one of the same process whose message one read brings whole,    *)
(* however many connections and parts of longer messages are in the queue  *)
(* and whatever processes are killed.                                      *)
THEOREM OwnRequestsInOrder ==
  (Spec => []OwnOrder) /\ (FaultSpec => []OwnOrder)
<1>1. Spec => []OwnOrder
  BY InitHasInv, NextPreservesInv, InvGivesOwnOrder, PTL DEF Spec
<1>2. FaultSpec => []OwnOrder
  BY InitHasInv, FaultsPreserveInv, InvGivesOwnOrder, PTL DEF FaultSpec
<1> QED BY <1>1, <1>2

(* io_service::run ends only because a request asked for shutdown or for a *)
(* capacity out of stoll's range, or because a process was killed before   *)
(* it wrote anything on its connection: not for a message cut off later.   *)
THEOREM ServerStopsOnlyFor ==
  (Spec => []StopsOnlyFor) /\ (FaultSpec => []StopsOnlyFor)
<1>1. Inv => StopsOnlyFor BY DEF Inv
<1>2. Spec => []StopsOnlyFor
  BY <1>1, InitHasInv, NextPreservesInv, PTL DEF Spec
<1>3. FaultSpec => []StopsOnlyFor
  BY <1>1, InitHasInv, FaultsPreserveInv, PTL DEF FaultSpec
<1> QED BY <1>2, <1>3
-----------------------------------------------------------------------------
(* Some process has set v for k, or has been cut off while it set a value  *)
(* for k that v may be a beginning of.                                     *)
Put(k, v) ==
  \E r \in Made \intersect handled :
    /\ MessageOf(r).verb = "PUT" /\ MessageOf(r).key = k
    /\ MessageOf(r).val = v \/ CutOff(r)

StoredArePut ==
  server = "running" =>
    CacheInv(cache) /\ \A x \in AllLinks(cache) : Put(x.key, x.val)

AnswersArePut ==
  \A a \in packets : a.to = "client" /\ a.val # NULL => Put(a.key, a.val)

GotArePut ==
  \A p \in Clients :
    got[p] # NULL /\ got[p].val # NULL =>
      Put(MessageOf(LastRequest(p)).key, got[p].val)

ValuesInv ==
  /\ Inv /\ DOMAIN got = Clients
  /\ StoredArePut /\ AnswersArePut /\ GotArePut
-----------------------------------------------------------------------------
(* A PUT that was acted on stays one as long as its request does.          *)
LEMMA PutsStay ==
  ASSUME Made \intersect handled \subseteq Made' \intersect handled',
         \A r \in Made \intersect handled : MessageOf(r)' = MessageOf(r),
         cut \subseteq cut'
  PROVE  \A k, v : Put(k, v) => Put(k, v)'
<1> SUFFICES ASSUME NEW k, NEW v, Put(k, v) PROVE Put(k, v)'
  OBVIOUS
<1>1. PICK r \in Made \intersect handled :
        /\ MessageOf(r).verb = "PUT" /\ MessageOf(r).key = k
        /\ MessageOf(r).val = v \/ CutOff(r)
  BY DEF Put
<1>2. r \in Made' \intersect handled' /\ MessageOf(r)' = MessageOf(r)
  BY <1>1
<1>3. Short(MessageOf(r))' <=> Short(MessageOf(r))
  BY <1>2 DEF Short, PartsOf, MessageOf
<1>4. CutOff(r) => CutOff(r)' BY <1>2, <1>3 DEF CutOff
<1> QED BY <1>1, <1>2, <1>4 DEF Put

(* The requests of a server that has been asked nothing more.              *)
LEMMA SamePuts ==
  ASSUME UNCHANGED <<calls, handled>>, cut \subseteq cut'
  PROVE  \A k, v : Put(k, v) => Put(k, v)'
BY SameRequests, PutsStay

(* What handle_read acts on: the message, or a PUT of its key if it was    *)
(* cut off.                                                                *)
LEMMA WhatIsActedOn ==
  ASSUME Inv, NEW r \in Request, Completes(Read(r)),
         NEW m \in Contents(r), ~Ends(m)
  PROVE  /\ m \in Message /\ m.verb \in {"PUT", "DELETE", "memsize"}
         /\ \/ m = MessageOf(r)
            \/ CutOff(r) /\ m.verb = "PUT" /\ m.key = MessageOf(r).key
<1>1. r \in MadeByTcp /\ r \in Made /\ TypeInv BY WhatIsRead DEF Inv
<1>2. MessageOf(r) \in Message /\ MessageOf(r).verb # "GET"
  BY <1>1, MadeHaveMessages DEF MadeByTcp, IsTcp
<1>3. CASE m = MessageOf(r) BY <1>2, <1>3, MessageParts DEF Ends
<1>4. ASSUME CutOff(r), NEW v \in Vals,
             m = [verb |-> "PUT", key |-> MessageOf(r).key, val |-> v]
      PROVE  m \in Message /\ m.verb = "PUT" /\ m.key = MessageOf(r).key
  <2>1. MessageOf(r).key \in Keys BY <1>2, <1>4, MessageParts DEF CutOff
  <2> QED BY <2>1, <1>4 DEF Message
<1>5. m # [verb |-> "nothing"] BY DEF Ends
<1> QED BY <1>3, <1>4, <1>5, WhatIsTaken

(* What the server answers to a GET was put into the cache.                *)
LEMMA FoundIsStored ==
  ASSUME NEW c, CacheInv(c), NEW key \in Keys, GottenValue(c, key).val # NULL
  PROVE  \E x \in AllLinks(c) : x.key = key /\ x.val = GottenValue(c, key).val
<1>1. /\ querry_hash(c, key) = NULL \/ querry_hash(c, key) \in AllLinks(c)
      /\ querry_hash(c, key) # NULL => querry_hash(c, key).key = key
  BY QuerryHash
<1>2. querry_hash(c, key) # NULL BY DEF GottenValue
<1>3. GottenValue(c, key).val = querry_hash(c, key).val BY <1>2 DEF GottenValue
<1> QED BY <1>1, <1>2, <1>3

(* While no memory is used only empty values are stored.                   *)
LEMMA NoMemoryNoValues ==
  ASSUME NEW c, CacheInv(c), c.mem_used = 0
  PROVE  StoredValues(c) = {}
<1> SUFFICES ASSUME NEW x \in AllLinks(c), x.val_size > 0 PROVE FALSE
  BY DEF StoredValues
<1> DEFINE l == c.evic_policy.list
<1>1. l \in Seq(Info) /\ Total(l) = 0 /\ Holds(l, InfoOf(x))
  BY DEF CacheInv, Consistent, PolicyInv, PolicyValue, Counted, SameEntries
<1>2. PICK i \in 1..Len(l) : l[i] = InfoOf(x) BY <1>1 DEF Holds
<1>3. l[i].val_size <= 0 BY <1>1, <1>2, SizeWithinSum
<1>4. l[i].val_size = x.val_size BY <1>2 DEF InfoOf
<1>5. x \in Link BY LinksAreInBuckets DEF CacheInv, Consistent
<1>6. x.val_size \in Nat BY <1>5, SizesAssumption DEF Link
<1> QED BY <1>3, <1>4, <1>6
-----------------------------------------------------------------------------
(* A step that leaves requests, cache and returned values alone and        *)
(* creates no answer.                                                      *)
LEMMA QuietValues ==
  ASSUME ValuesInv, Inv',
         UNCHANGED <<calls, got, handled, cache, server>>,
         cut \subseteq cut',
         \A a \in packets' : a \in packets \/ a.to # "client"
  PROVE  ValuesInv'
<1>1. \A k, v : Put(k, v) => Put(k, v)' BY SamePuts
<1>2. /\ \A r : MessageOf(r)' = MessageOf(r)
      /\ \A p : LastRequest(p)' = LastRequest(p)
  BY SameRequests
<1>3. StoredArePut' BY <1>1 DEF ValuesInv, StoredArePut
<1>4. AnswersArePut' BY <1>1 DEF ValuesInv, AnswersArePut
<1>5. GotArePut'
  <2> SUFFICES ASSUME NEW p \in Clients, got[p] # NULL, got[p].val # NULL
               PROVE  Put(MessageOf(LastRequest(p)).key, got[p].val)'
    BY DEF GotArePut
  <2>1. Put(MessageOf(LastRequest(p)).key, got[p].val)
    BY DEF ValuesInv, GotArePut
  <2>2. MessageOf(LastRequest(p))' = MessageOf(LastRequest(p))
    BY <1>2 DEF MessageOf, LastRequest
  <2> QED BY <2>1, <2>2, <1>1 DEF Put
<1> QED BY <1>3, <1>4, <1>5 DEF ValuesInv

(* A new call returns nothing yet.                                         *)
LEMMA CallValues ==
  ASSUME ValuesInv, Inv', NEW p \in Clients, NEW m \in Message, Call(p, m),
         UNCHANGED <<handled, cut, cache, server>>,
         \A a \in packets' : a \in packets \/ a.to # "client"
  PROVE  ValuesInv'
<1>1. /\ TypeInv /\ DOMAIN got = Clients
      /\ got' = [got EXCEPT ![p] = NULL]
  BY DEF ValuesInv, Inv, Call
<1>2. /\ NewRequest(p) \notin Made /\ LastRequest(p)' = NewRequest(p)
      /\ Made \subseteq Made'
      /\ \A r \in Made : MessageOf(r)' = MessageOf(r)
      /\ \A q \in Clients \ {p} : LastRequest(q)' = LastRequest(q)
  BY <1>1, OneMoreRequest
<1>3. \A k, v : Put(k, v) => Put(k, v)' BY <1>2, PutsStay
<1>4. /\ DOMAIN got' = Clients /\ got'[p] = NULL
      /\ \A q \in Clients \ {p} : got'[q] = got[q]
  BY <1>1
<1>5. StoredArePut' BY <1>3 DEF ValuesInv, StoredArePut
<1>6. AnswersArePut' BY <1>3 DEF ValuesInv, AnswersArePut
<1>7. GotArePut'
  <2> SUFFICES ASSUME NEW q \in Clients, got'[q] # NULL, got'[q].val # NULL
               PROVE  Put(MessageOf(LastRequest(q)).key, got[q].val)'
    BY DEF GotArePut
  <2>1. q # p /\ got'[q] = got[q] BY <1>4
  <2>2. Put(MessageOf(LastRequest(q)).key, got[q].val)
    BY <2>1 DEF ValuesInv, GotArePut
  <2>3. MessageOf(LastRequest(q))' = MessageOf(LastRequest(q))
    <3>1. calls'[q] = calls[q] BY <2>1, <1>1 DEF Call, TypeInv
    <3> QED BY <3>1 DEF MessageOf, LastRequest
  <2> QED BY <2>1, <2>2, <2>3, <1>3 DEF Put
<1> QED BY <1>4, <1>5, <1>6, <1>7 DEF ValuesInv

(* An answer that is received was sent for this request and this key.      *)
LEMMA GetMessageValues ==
  ASSUME ValuesInv, Inv', NEW p \in Clients, get_message(p)
  PROVE  ValuesInv'
<1>1. PICK answer \in packets :
        /\ answer.to = "client"
        /\ packets' = packets \ {answer}
        /\ got' = [got EXCEPT ![p] =
                     [val |-> IF answer.key # MessageOf(LastRequest(p)).key
                              THEN NULL ELSE answer.val]]
  BY DEF get_message
<1>2. /\ UNCHANGED <<calls, cut, handled, cache, server>>
      /\ DOMAIN got = Clients
  BY DEF get_message, loop, stream, ValuesInv
<1>3. \A k, v : Put(k, v) => Put(k, v)' BY <1>2, SamePuts
<1>5. /\ DOMAIN got' = Clients
      /\ \A q \in Clients \ {p} : got'[q] = got[q]
      /\ got'[p] = [val |-> IF answer.key # MessageOf(LastRequest(p)).key
                            THEN NULL ELSE answer.val]
  BY <1>1, <1>2
<1>7. StoredArePut' BY <1>2, <1>3 DEF ValuesInv, StoredArePut
<1>8. AnswersArePut' BY <1>1, <1>3 DEF ValuesInv, AnswersArePut
<1>9. GotArePut'
  <2> SUFFICES ASSUME NEW q \in Clients, got'[q] # NULL, got'[q].val # NULL
               PROVE  Put(MessageOf(LastRequest(q)).key, got[q].val)'
    BY DEF GotArePut
  <2>1. MessageOf(LastRequest(q))' = MessageOf(LastRequest(q))
    BY <1>2 DEF MessageOf, LastRequest
  <2>2. CASE q = p
    <3>1. answer.key = MessageOf(LastRequest(q)).key /\ got'[q].val = answer.val
      BY <2>2, <1>5
    <3>2. Put(answer.key, answer.val)
      BY <3>1, <1>1 DEF ValuesInv, AnswersArePut
    <3>3. Put(answer.key, answer.val)' BY <3>2, <1>3
    <3> QED BY <3>1, <3>3, <2>1 DEF Put
  <2>3. CASE q # p
    <3>1. got'[q] = got[q] BY <2>3, <1>5
    <3>2. Put(MessageOf(LastRequest(q)).key, got[q].val)
      BY <3>1 DEF ValuesInv, GotArePut
    <3> QED BY <3>1, <3>2, <2>1, <1>3 DEF Put
  <2> QED BY <2>2, <2>3
<1> QED BY <1>5, <1>7, <1>8, <1>9 DEF ValuesInv

(* Whatever else a process does or suffers.                                *)
LEMMA ClientValues ==
  ASSUME ValuesInv, Inv', NEW p \in Clients,
         ClientCalls(p) \/ ClientContinues(p) \/ receive_refused(p)
           \/ receive_timeout(p) \/ Kill(p)
  PROVE  ValuesInv'
<1>2. ASSUME NEW m \in Message, send_message_tcp(p, m) PROVE ValuesInv'
  <2>1. Call(p, m) /\ UNCHANGED <<handled, cut, packets, cache, server>>
    BY <1>2 DEF send_message_tcp, loop, stream
  <2> QED BY <2>1, CallValues
<1>3. ASSUME NEW key \in Keys, cache_get_(p, key) PROVE ValuesInv'
  <2> DEFINE m == [verb |-> "GET", key |-> key]
  <2>1. m \in Message BY DEF Message
  <2>2. /\ Call(p, m)
        /\ UNCHANGED <<handled, cut, cache, server>>
    BY <1>3 DEF cache_get_, loop, stream
  <2>3. \A a \in packets' : a \in packets \/ a.to # "client"
    <3>1. ToServer(LastRequest(p)').to = "server" BY DEF ToServer
    <3>2. \A a \in packets' : a \in packets \/ a = ToServer(LastRequest(p)')
      BY <1>3 DEF cache_get_
    <3> QED BY <3>1, <3>2
  <2> HIDE DEF m
  <2> QED BY <2>1, <2>2, <2>3, CallValues
<1>4. CASE ClientCalls(p)
  <2>1. \A key \in Keys, val \in Vals :
          [verb |-> "PUT", key |-> key, val |-> val] \in Message
    BY DEF Message
  <2>2. \A key \in Keys : [verb |-> "DELETE", key |-> key] \in Message
    BY DEF Message
  <2>3. \A mem \in MaxMems : [verb |-> "memsize", mem |-> mem] \in Message
    BY DEF Message
  <2>4. [verb |-> "shutdown"] \in Message BY DEF Message
  <2>5. ASSUME NEW key \in Keys, NEW val \in Vals, cache_set_(p, key, val)
        PROVE  ValuesInv'
    BY <2>1, <2>5, <1>2 DEF cache_set_
  <2>6. ASSUME NEW key \in Keys, cache_delete_(p, key) PROVE ValuesInv'
    BY <2>2, <2>6, <1>2 DEF cache_delete_
  <2>7. ASSUME NEW mem \in MaxMems, create_cache_(p, mem) PROVE ValuesInv'
    BY <2>3, <2>7, <1>2 DEF create_cache_
  <2>8. ASSUME destroy_cache_(p) PROVE ValuesInv'
    BY <2>4, <2>8, <1>2 DEF destroy_cache_
  <2> QED BY <1>3, <1>4, <2>5, <2>6, <2>7, <2>8 DEF ClientCalls
<1>5. CASE write_message(p) \/ receive_refused(p) \/ receive_timeout(p) \/ Kill(p)
  <2>1. /\ UNCHANGED <<calls, got, handled, cache, server, packets>>
        /\ cut \subseteq cut'
    BY <1>5 DEF write_message, receive_refused, receive_timeout, Kill, network,
                loop, stream
  <2> QED BY <2>1, QuietValues
<1> QED BY <1>4, <1>5, GetMessageValues DEF ClientContinues

(* The network, the reactor, handle_accept and the reading of a part touch *)
(* no value.                                                               *)
LEMMA CarriedValues ==
  ASSUME ValuesInv, Inv',
         \/ \E r \in Request : Carry(r) \/ read_some(r)
         \/ RunReactor
         \/ handle_accept
         \/ \E d \in packets : LoseDatagram(d)
         \/ UNCHANGED vars
  PROVE  ValuesInv'
<1> DEFINE Quiet == /\ UNCHANGED <<calls, got, handled, cut, cache, server>>
                    /\ packets' \subseteq packets
<1>1. Quiet
  <2>1. ASSUME NEW r \in Request, Carry(r) PROVE Quiet
    BY <2>1 DEF Carry, Establish, DeliverSegment, DeliverDatagram, process, loop,
                stream
  <2>2. CASE RunReactor BY <2>2 DEF RunReactor, process, network, stream
  <2>3. CASE handle_accept BY <2>3 DEF handle_accept, process, stream
  <2>4. ASSUME NEW d \in packets, LoseDatagram(d) PROVE Quiet
    BY <2>4 DEF LoseDatagram, process, loop, stream
  <2>5. CASE UNCHANGED vars BY <2>5 DEF vars
  <2>6. ASSUME NEW r \in Request, read_some(r) PROVE Quiet
    BY <2>6 DEF read_some, process, network, stream
  <2> QED BY <2>1, <2>2, <2>3, <2>4, <2>5, <2>6
<1> QED BY <1>1, QuietValues

(* A handler that adds a request to those acted on, when its answers and   *)
(* its cache hold nothing but what was put.                                *)
LEMMA HandledValues ==
  ASSUME ValuesInv, Inv', UNCHANGED <<calls, got, cut>>,
         NEW r \in Made, handled' = handled \union {r},
         StoredArePut', AnswersArePut'
  PROVE  ValuesInv'
<1>1. /\ Made' = Made
      /\ \A q : MessageOf(q)' = MessageOf(q)
      /\ \A p : LastRequest(p)' = LastRequest(p)
  BY SameRequests
<1>2. \A k, v : Put(k, v) => Put(k, v)' BY <1>1, PutsStay
<1>3. GotArePut'
  <2> SUFFICES ASSUME NEW p \in Clients, got[p] # NULL, got[p].val # NULL
               PROVE  Put(MessageOf(LastRequest(p)).key, got[p].val)'
    BY DEF GotArePut
  <2>1. Put(MessageOf(LastRequest(p)).key, got[p].val)
    BY DEF ValuesInv, GotArePut
  <2>2. /\ MessageOf(LastRequest(p))' = MessageOf(LastRequest(p))
        /\ got'[p] = got[p]
    BY DEF MessageOf, LastRequest
  <2>3. PICK k, v : k = MessageOf(LastRequest(p)).key /\ v = got[p].val
    OBVIOUS
  <2>4. Put(k, v)' BY <2>1, <2>3, <1>2
  <2> QED BY <2>2, <2>3, <2>4 DEF Put
<1> QED BY <1>3 DEF ValuesInv

(* handle_read: a PUT brings its value, no other message brings one.       *)
LEMMA ReadValues ==
  ASSUME ValuesInv, Inv', NEW r \in Request, handle_read(r)
  PROVE  ValuesInv'
<1>0. PICK m \in Contents(r) : ~Ends(m) /\ cache' = act_on_message(m)
  BY DEF handle_read
<1>1. /\ UNCHANGED <<calls, got, cut, packets, server>>
      /\ handled' = handled \union {r} /\ Completes(Read(r)) /\ server = "running"
  BY DEF handle_read, ReadOne, Completes, process, network, stream
<1>2. /\ m \in Message /\ m.verb \in {"PUT", "DELETE", "memsize"}
      /\ \/ m = MessageOf(r)
         \/ CutOff(r) /\ m.verb = "PUT" /\ m.key = MessageOf(r).key
  BY <1>0, <1>1, WhatIsActedOn DEF ValuesInv
<1>3. r \in Made BY <1>1, WhatIsRead DEF ValuesInv
<1>4. /\ CacheInv(cache) /\ \A x \in AllLinks(cache) : Put(x.key, x.val)
  BY <1>1 DEF ValuesInv, StoredArePut
<1>5. \A k, v : Put(k, v) => Put(k, v)'
  BY <1>1, SameRequests, PutsStay
<1>6. ASSUME m.verb = "PUT" PROVE Put(m.key, m.val)'
  <2>1. /\ r \in Made' /\ r \in handled' /\ MessageOf(r)' = MessageOf(r)
        /\ Short(MessageOf(r))' <=> Short(MessageOf(r))
    BY <1>1, <1>3, SameRequests
  <2>2. CutOff(r) => CutOff(r)' BY <2>1, <1>1 DEF CutOff
  <2>3. MessageOf(r).verb = "PUT" /\ MessageOf(r).key = m.key
    BY <1>2, <1>6 DEF CutOff
  <2> QED BY <2>1, <2>2, <2>3, <1>2 DEF Put
<1>8. CacheInv(cache') /\ \A x \in AllLinks(cache') : Put(x.key, x.val)'
  <2>1. CASE m.verb = "PUT"
    <3> DEFINE new == [key |-> m.key, val |-> m.val, val_size |-> SizeOf[m.val]]
    <3>1. m.key \in Keys /\ m.val \in Vals BY <2>1, <1>2, MessageParts
    <3>2. cache' = cache_set(cache, m.key, m.val)
      BY <2>1, <1>0 DEF act_on_message
    <3>3. /\ CacheInv(cache')
          /\ AllLinks(cache') \subseteq AllLinks(cache) \union {new}
      BY <3>1, <3>2, <1>4, CacheSetKeeps
    <3>4. new.key = m.key /\ new.val = m.val OBVIOUS
    <3> HIDE DEF new
    <3>5. Put(m.key, m.val)' BY <2>1, <1>6
    <3> QED BY <3>3, <3>4, <3>5, <1>4, <1>5
  <2>2. CASE m.verb = "DELETE"
    <3>1. m.key \in Keys BY <2>2, <1>2, MessageParts
    <3>2. cache' = cache_delete(cache, m.key)
      BY <2>2, <1>0 DEF act_on_message
    <3>3. CacheInv(cache') /\ AllLinks(cache') \subseteq AllLinks(cache)
      BY <3>1, <3>2, <1>4, CacheDeleteKeeps
    <3> QED BY <3>3, <1>4, <1>5
  <2>3. CASE m.verb = "memsize"
    <3>1. m.mem \in Nat BY <2>3, <1>2, MessageParts, CapacityAssumption
    <3>2. cache' = post_memsize(cache, m.mem)
      BY <2>3, <1>0 DEF act_on_message
    <3>3. CASE cache' = cache BY <3>3, <1>4, <1>5
    <3>4. CASE cache' = create_cache(m.mem)
      <4>1. CacheInv(cache') /\ AllLinks(cache') = {}
        BY <3>1, <3>4, CreateCache
      <4> QED BY <4>1
    <3> QED BY <3>2, <3>3, <3>4 DEF post_memsize
  <2> QED BY <1>2, <2>1, <2>2, <2>3
<1>9. StoredArePut' BY <1>8 DEF StoredArePut
<1>10. AnswersArePut' BY <1>1, <1>5 DEF ValuesInv, AnswersArePut
<1> QED BY <1>1, <1>3, <1>9, <1>10, HandledValues

(* handle_shutdown: the cache goes with the server.                        *)
LEMMA ShutdownValues ==
  ASSUME ValuesInv, Inv', NEW r \in Request, handle_shutdown(r)
  PROVE  ValuesInv'
<1>1. /\ UNCHANGED <<calls, got, cut, packets>>
      /\ Completes(Read(r)) /\ handled' = handled \union {r}
      /\ server' = "stopped"
  BY DEF handle_shutdown, ReadOne, process, stream
<1>2. r \in Made BY <1>1, WhatIsRead DEF ValuesInv
<1>3. \A k, v : Put(k, v) => Put(k, v)'
  BY <1>1, SameRequests, PutsStay
<1>4. StoredArePut' BY <1>1 DEF StoredArePut
<1>5. AnswersArePut' BY <1>1, <1>3 DEF ValuesInv, AnswersArePut
<1> QED BY <1>1, <1>2, <1>4, <1>5, HandledValues

(* handle_receive: the answer is what the cache holds for the key.         *)
LEMMA ReceiveValues ==
  ASSUME ValuesInv, Inv', handle_receive
  PROVE  ValuesInv'
<1> DEFINE r == Head(recvq)
           m == MessageOf(r)
<1>1. /\ UNCHANGED <<calls, got, cut, server>>
      /\ handled' = handled \union {r}
      /\ server = "running" /\ ready # <<>> /\ Head(ready) = Receive
      /\ cache' = act_on_message(m)
      /\ packets' = packets \union {AnswerTo(r)}
  BY DEF handle_receive, TakeDatagram, Completes, process, stream
<1>2. r \in Made \ MadeByTcp
  <2>1. ready \in Seq(Op) /\ recvq \in Seq(Request) /\ Known /\ Pipeline
    BY <1>1 DEF ValuesInv, Inv, TypeInv
  <2>2. Holds(ready, Receive) BY <2>1, <1>1, QueueTail
  <2>3. recvq # <<>> BY <2>1, <2>2 DEF Pipeline
  <2>4. Holds(recvq, r) BY <2>1, <2>3, QueueTail
  <2> QED BY <2>1, <2>4 DEF Known
<1>3. m \in Message /\ m.verb = "GET" /\ m.key \in Keys
  <2>1. m \in Message BY <1>2, MadeHaveMessages DEF ValuesInv, Inv
  <2>2. m.verb = "GET" BY <1>2 DEF MadeByTcp, IsTcp
  <2> QED BY <2>1, <2>2, MessageParts
<1>4. /\ CacheInv(cache) /\ \A x \in AllLinks(cache) : Put(x.key, x.val)
  BY <1>1 DEF ValuesInv, StoredArePut
<1>5. \A k, v : Put(k, v) => Put(k, v)'
  BY <1>1, SameRequests, PutsStay
<1>6. /\ AnswerTo(r).key = m.key
      /\ AnswerTo(r).val = GottenValue(cache, m.key).val
  BY DEF AnswerTo
<1> HIDE DEF m, r
<1>7. StoredArePut'
  <2>1. cache' = cache_get(cache, m.key) BY <1>1, <1>3 DEF act_on_message
  <2>2. CacheInv(cache') /\ AllLinks(cache') = AllLinks(cache)
    BY <2>1, <1>3, <1>4, CacheGetKeeps
  <2> QED BY <2>2, <1>4, <1>5 DEF StoredArePut
<1>8. AnswersArePut'
  <2>1. ASSUME AnswerTo(r).val # NULL
        PROVE  Put(AnswerTo(r).key, AnswerTo(r).val)
    <3>1. PICK x \in AllLinks(cache) :
            x.key = m.key /\ x.val = GottenValue(cache, m.key).val
      BY <2>1, <1>3, <1>4, <1>6, FoundIsStored
    <3> QED BY <3>1, <1>4, <1>6
  <2>2. \A a \in packets' :
          a.to = "client" /\ a.val # NULL => Put(a.key, a.val)
    BY <2>1, <1>1 DEF ValuesInv, AnswersArePut
  <2> QED BY <2>2, <1>5 DEF AnswersArePut
<1> QED BY <1>1, <1>2, <1>7, <1>8, HandledValues
-----------------------------------------------------------------------------
(* Every step keeps the invariant, faults included.                        *)
LEMMA StepsKeepValues == ValuesInv /\ [FaultNext]_vars => ValuesInv'
<1> SUFFICES ASSUME ValuesInv, [FaultNext]_vars PROVE ValuesInv'
  OBVIOUS
<1>1. Inv' BY FaultsPreserveInv DEF ValuesInv
<1>2. ASSUME NEW p \in Clients,
             ClientCalls(p) \/ ClientContinues(p) \/ receive_refused(p)
               \/ receive_timeout(p) \/ Kill(p)
      PROVE  ValuesInv'
  BY <1>1, <1>2, ClientValues
<1>4. CASE \/ \E r \in Request : Carry(r) \/ read_some(r)
           \/ RunReactor
           \/ handle_accept
           \/ \E d \in packets : LoseDatagram(d)
           \/ UNCHANGED vars
  BY <1>1, <1>4, CarriedValues
<1>5. ASSUME NEW r \in Request, handle_read(r) \/ handle_shutdown(r)
      PROVE  ValuesInv'
  BY <1>1, <1>5, ReadValues, ShutdownValues
<1>6. CASE handle_receive BY <1>1, <1>6, ReceiveValues
<1> QED BY <1>2, <1>4, <1>5, <1>6 DEF FaultNext, Next, Handler, TcpHandler

(* It holds at the start.                                                  *)
LEMMA InitHasValues == Init => ValuesInv
<1> SUFFICES ASSUME Init PROVE ValuesInv
  OBVIOUS
<1>1. Inv BY InitHasInv
<1>2. CacheInv(cache) /\ AllLinks(cache) = {}
  BY CreateCache, StartMemAssumption DEF Init
<1>3. StoredArePut BY <1>2 DEF StoredArePut
<1>4. got = [p \in Clients |-> NULL] /\ packets = {} BY DEF Init
<1> QED BY <1>1, <1>3, <1>4 DEF ValuesInv, AnswersArePut, GotArePut

(* NetCache alone is NetFaults without faults.                             *)
LEMMA NetKeepsValues == ValuesInv /\ [Next]_vars => ValuesInv'
BY StepsKeepValues DEF FaultNext

(* Only a process that is killed cuts a connection.                        *)
LEMMA NetCutsNothing == [Next]_vars => cut' = cut
<1> SUFFICES ASSUME [Next]_vars PROVE cut' = cut
  OBVIOUS
<1>1. ASSUME NEW p \in Clients, ClientCalls(p) PROVE cut' = cut
  BY <1>1 DEF ClientCalls, cache_set_, cache_delete_, cache_get_, create_cache_,
              destroy_cache_, send_message_tcp, stream
<1>2. ASSUME NEW p \in Clients, ClientContinues(p) \/ receive_refused(p)
      PROVE  cut' = cut
  BY <1>2 DEF ClientContinues, write_message, get_message, receive_refused,
              network, stream
<1>3. ASSUME NEW r \in Request, Carry(r) PROVE cut' = cut
  BY <1>3 DEF Carry, Establish, DeliverSegment, DeliverDatagram, stream
<1>4. CASE RunReactor BY <1>4 DEF RunReactor, network, stream
<1>5. CASE Handler
  BY <1>5 DEF Handler, TcpHandler, handle_accept, read_some, handle_read,
              handle_shutdown, handle_receive, TakeDatagram, network, stream
<1>6. CASE UNCHANGED vars BY <1>6 DEF vars
<1> QED BY <1>1, <1>2, <1>3, <1>4, <1>5, <1>6 DEF Next

LEMMA ValuesGiveNoInvention == ValuesInv /\ NoneCutOff => NoInventedValue
<1> SUFFICES ASSUME ValuesInv, NoneCutOff,
                    NEW p \in Clients, got[p] # NULL, got[p].val # NULL
             PROVE  \E r \in Made :
                      MessageOf(r) = [verb |-> "PUT", val |-> got[p].val,
                                      key |-> MessageOf(LastRequest(p)).key]
  BY DEF NoInventedValue
<1> DEFINE key == MessageOf(LastRequest(p)).key
           val == got[p].val
<1>1. Put(key, val) BY DEF ValuesInv, GotArePut
<1> HIDE DEF key, val
<1>2. PICK r \in Made : /\ MessageOf(r).verb = "PUT" /\ MessageOf(r).key = key
                        /\ MessageOf(r).val = val
  BY <1>1 DEF Put, CutOff, NoneCutOff
<1>3. MessageOf(r) \in Message BY MadeHaveMessages DEF ValuesInv, Inv
<1>4. MessageOf(r) = [verb |-> "PUT", key |-> key, val |-> val]
  BY <1>2, <1>3, MessageParts
<1> QED BY <1>4 DEF key, val

(* The POST memsize of one process against the values of the others.       *)
LEMMA MemsizeStep ==
  ASSUME ValuesInv, NEW r \in Request, handle_read(r), MessageOf(r).verb = "memsize"
  PROVE  StoredValues(cache) \subseteq StoredValues(cache')
<1>0. PICK m \in Contents(r) : ~Ends(m) /\ cache' = act_on_message(m)
  BY DEF handle_read
<1>1. Completes(Read(r)) /\ server = "running"
  BY DEF handle_read, ReadOne, Completes
<1>2. m = MessageOf(r) BY <1>0, <1>1, WhatIsActedOn DEF ValuesInv, CutOff
<1>3. CacheInv(cache) BY <1>1 DEF ValuesInv, StoredArePut
<1>4. cache' = post_memsize(cache, m.mem)
  BY <1>0, <1>2 DEF act_on_message
<1>5. CASE cache.mem_used = 0
  <2>1. StoredValues(cache) = {} BY <1>3, <1>5, NoMemoryNoValues
  <2> QED BY <2>1
<1>6. CASE cache.mem_used # 0
  <2>1. cache' = cache BY <1>4, <1>6 DEF post_memsize, cache_space_used
  <2> QED BY <2>1
<1> QED BY <1>5, <1>6
-----------------------------------------------------------------------------
(* cache_get returns no value but one that some process has set for the    *)
(* key it asks for, whatever requests are answered at the same time,       *)
(* evicted or lost and whatever processes are killed, unless one of them   *)
(* was killed while it wrote a message of several parts.                   *)
THEOREM ValuesAreNotInvented ==
  /\ Spec => []NoInventedValue
  /\ FaultSpec => [](NoneCutOff => NoInventedValue)
<1>1. Spec => []NoInventedValue
  <2> DEFINE NoneCut == cut = {}
  <2>1. Init => NoneCut BY DEF Init
  <2>2. NoneCut => NoneCutOff BY DEF NoneCutOff
  <2>3. NoneCut /\ [Next]_vars => NoneCut' BY NetCutsNothing
  <2> HIDE DEF NoneCut
  <2> QED BY <2>1, <2>2, <2>3, InitHasValues, NetKeepsValues,
             ValuesGiveNoInvention, PTL DEF Spec
<1>2. FaultSpec => [](NoneCutOff => NoInventedValue)
  BY InitHasValues, StepsKeepValues, ValuesGiveNoInvention, PTL DEF FaultSpec
<1> QED BY <1>1, <1>2

(* A process that connects with create_cache never takes away a value that *)
(* is stored: the server's check that no memory is used rests on mem_used  *)
(* being the sum of the stored sizes.                                      *)
THEOREM MemsizeTakesNothing ==
  (Spec => MemsizeKeepsValues) /\ (FaultSpec => MemsizeKeepsValues)
<1> DEFINE Keeps == \A r \in Request :
             handle_read(r) /\ MessageOf(r).verb = "memsize"
               => StoredValues(cache) \subseteq StoredValues(cache')
<1>1. ValuesInv => Keeps BY MemsizeStep
<1> HIDE DEF Keeps
<1>2. (Spec => [][Keeps]_vars) /\ (FaultSpec => [][Keeps]_vars)
  <2>1. Spec => [][Keeps]_vars
    BY <1>1, InitHasValues, NetKeepsValues, PTL DEF Spec
  <2>2. FaultSpec => [][Keeps]_vars
    BY <1>1, InitHasValues, StepsKeepValues, PTL DEF FaultSpec
  <2> QED BY <2>1, <2>2
<1> QED BY <1>2 DEF MemsizeKeepsValues, Keeps
-----------------------------------------------------------------------------
(* Room for everything: no value is empty, and one value per key fits into *)
(* every capacity the server can be given.                                 *)
Roomy(size) ==
  /\ \A v \in Vals : SizeOf[v] \in 1..size
  /\ \A mem \in MaxMems \union {StartMem} : Cardinality(Keys) * size <= mem

RoomForAll == IsFiniteSet(Keys) /\ \E size \in Nat : Roomy(size)

LargestSize == CHOOSE size \in Nat : Roomy(size)

WithinRoom(c) ==
  /\ CacheInv(c)
  /\ \A x \in AllLinks(c) : x.val_size \in 1..LargestSize
  /\ Cardinality(Keys) * LargestSize <= c.maxmem

(* The sets and deletes of key that the server has acted on.               *)
Acted(key) ==
  {r \in handled : MessageOf(r).verb \in {"PUT", "DELETE"} /\ MessageOf(r).key = key}

LeftBy(r) == IF MessageOf(r).verb = "DELETE" THEN NULL ELSE MessageOf(r).val

(* They are of one process, all but the last are short, and none has been  *)
(* cut off.                                                                *)
Orderly(key) ==
  \A r, q \in Acted(key) :
    r[1] = q[1] /\ (r[2] < q[2] => Short(MessageOf(r))) /\ ~CutOff(r)

LastWriteStored(key) ==
  \/ Acted(key) = {} /\ GottenValue(cache, key).val = NULL
  \/ \E r \in Acted(key) : /\ \A q \in Acted(key) : q[2] <= r[2]
                            /\ GottenValue(cache, key).val = LeftBy(r)

StaysInv ==
  /\ ValuesInv
  /\ server = "running" =>
       /\ WithinRoom(cache)
       /\ \A key \in Keys : Orderly(key) => LastWriteStored(key)

LEMMA RoomIsRoomy ==
  ASSUME RoomForAll
  PROVE  LargestSize \in Nat /\ Roomy(LargestSize)
BY Zenon DEF RoomForAll, LargestSize

(* What is found for a key depends on the links with that key alone.       *)
LEMMA GottenFromLinks ==
  ASSUME NEW c, CacheInv(c), NEW key \in Keys
  PROVE  /\ \A x \in AllLinks(c) : x.key = key => GottenValue(c, key).val = x.val
         /\ (\A x \in AllLinks(c) : x.key # key) => GottenValue(c, key).val = NULL
<1>1. /\ querry_hash(c, key) = NULL \/ querry_hash(c, key) \in AllLinks(c)
      /\ querry_hash(c, key) # NULL => querry_hash(c, key).key = key
      /\ querry_hash(c, key) = NULL <=> \A x \in AllLinks(c) : x.key # key
  BY QuerryHash
<1>2. DistinctKeys(AllLinks(c)) BY DEF CacheInv, Consistent
<1>3. ASSUME NEW x \in AllLinks(c), x.key = key
      PROVE  GottenValue(c, key).val = x.val
  <2>1. querry_hash(c, key) # NULL BY <1>1, <1>3
  <2>2. querry_hash(c, key) = x BY <2>1, <1>1, <1>2, <1>3 DEF DistinctKeys
  <2>3. x # NULL BY <2>1, <2>2
  <2> QED BY <2>2, <2>3 DEF GottenValue
<1>4. ASSUME \A x \in AllLinks(c) : x.key # key
      PROVE  GottenValue(c, key).val = NULL
  <2>1. querry_hash(c, key) = NULL BY <1>1, <1>4
  <2> QED BY <2>1 DEF GottenValue
<1> QED BY <1>3, <1>4

LEMMA SameLinksSameValue ==
  ASSUME NEW c, CacheInv(c), NEW d, CacheInv(d), NEW key \in Keys,
         \A x : x.key = key => (x \in AllLinks(c) <=> x \in AllLinks(d))
  PROVE  GottenValue(d, key).val = GottenValue(c, key).val
<1>1. CASE \E x \in AllLinks(c) : x.key = key
  <2>1. PICK x \in AllLinks(c) : x.key = key BY <1>1
  <2>2. x \in AllLinks(d) BY <2>1
  <2> QED BY <2>1, <2>2, GottenFromLinks
<1>2. CASE ~\E x \in AllLinks(c) : x.key = key
  <2>1. \A x \in AllLinks(d) : x.key # key BY <1>2
  <2> QED BY <2>1, <1>2, GottenFromLinks
<1> QED BY <1>1, <1>2

(* cache_set, within the room there is, stores the value under its key and *)
(* changes nothing under any other.                                        *)
LEMMA SetWithinRoom ==
  ASSUME RoomForAll, NEW c, WithinRoom(c), NEW key \in Keys, NEW val \in Vals
  PROVE  LET d == cache_set(c, key, val)
         IN  /\ WithinRoom(d)
             /\ GottenValue(d, key).val = val
             /\ \A k \in Keys \ {key} : GottenValue(d, k).val = GottenValue(c, k).val
<1> DEFINE d == cache_set(c, key, val)
           new == [key |-> key, val |-> val, val_size |-> SizeOf[val]]
           removed == cache_delete(c, key)
           total == Cardinality(Keys) * LargestSize
<1>1. /\ LargestSize \in Nat /\ SizeOf[val] \in 1..LargestSize /\ IsFiniteSet(Keys)
  BY RoomIsRoomy DEF Roomy, RoomForAll
<1>2. /\ CacheInv(c) /\ \A x \in AllLinks(c) : x.val_size \in 1..LargestSize
      /\ total <= c.maxmem
  BY DEF WithinRoom
<1>3. /\ CacheInv(removed)
      /\ AllLinks(removed) = {x \in AllLinks(c) : x.key # key}
  BY <1>2, CacheDeleteKeeps
<1> HIDE DEF removed
<1>4. removed.mem_used + LargestSize <= total
  <2>1. \A x \in AllLinks(removed) : x.key # key /\ x.val_size <= LargestSize
    BY <1>1, <1>2, <1>3
  <2> QED BY <2>1, <1>1, <1>3, OthersAreBounded
<1>5. removed.mem_used + SizeOf[val] <= c.maxmem
  <2>1. removed.mem_used \in Nat /\ c.maxmem \in Nat
    BY <1>2, <1>3 DEF CacheInv, Consistent, Shaped, CacheValue
  <2>2. total \in Nat BY <1>1, FS_CardinalityType
  <2> HIDE DEF total
  <2> QED BY <2>1, <2>2, <1>1, <1>2, <1>4
<1>6. AllLinks(d) = {x \in AllLinks(c) : x.key # key} \union {new}
  BY <1>2, <1>5, CacheSetWithRoom DEF removed
<1>7. CacheInv(d) /\ d.maxmem = c.maxmem BY <1>2, CacheSetKeeps
<1>8. new.key = key /\ new.val = val /\ new.val_size = SizeOf[val] OBVIOUS
<1> HIDE DEF d, new, total
<1>9. WithinRoom(d) BY <1>1, <1>2, <1>6, <1>7, <1>8 DEF WithinRoom, total
<1>10. GottenValue(d, key).val = val BY <1>6, <1>7, <1>8, GottenFromLinks
<1>11. ASSUME NEW k \in Keys \ {key}
       PROVE  GottenValue(d, k).val = GottenValue(c, k).val
  <2>1. \A x : x.key = k => (x \in AllLinks(c) <=> x \in AllLinks(d))
    BY <1>6, <1>8
  <2> QED BY <2>1, <1>2, <1>7, SameLinksSameValue
<1> QED BY <1>9, <1>10, <1>11 DEF d

(* cache_delete takes the value of its key away, and no other.             *)
LEMMA DeleteWithinRoom ==
  ASSUME NEW c, WithinRoom(c), NEW key \in Keys
  PROVE  LET d == cache_delete(c, key)
         IN  /\ WithinRoom(d)
             /\ GottenValue(d, key).val = NULL
             /\ \A k \in Keys \ {key} : GottenValue(d, k).val = GottenValue(c, k).val
<1> DEFINE d == cache_delete(c, key)
<1>1. CacheInv(c) BY DEF WithinRoom
<1>2. /\ CacheInv(d) /\ d.maxmem = c.maxmem
      /\ AllLinks(d) = {x \in AllLinks(c) : x.key # key}
  BY <1>1, CacheDeleteKeeps
<1> HIDE DEF d
<1>3. WithinRoom(d) BY <1>2 DEF WithinRoom
<1>4. GottenValue(d, key).val = NULL BY <1>2, GottenFromLinks
<1>5. ASSUME NEW k \in Keys \ {key}
      PROVE  GottenValue(d, k).val = GottenValue(c, k).val
  <2>1. \A x : x.key = k => (x \in AllLinks(c) <=> x \in AllLinks(d)) BY <1>2
  <2> QED BY <2>1, <1>1, <1>2, SameLinksSameValue
<1> QED BY <1>3, <1>4, <1>5 DEF d

(* POST memsize finds the cache empty or leaves it as it is.               *)
LEMMA MemsizeWithinRoom ==
  ASSUME RoomForAll, NEW c, WithinRoom(c), NEW mem \in MaxMems
  PROVE  LET d == post_memsize(c, mem)
         IN  /\ WithinRoom(d)
             /\ \A k \in Keys : GottenValue(d, k).val = GottenValue(c, k).val
<1> DEFINE d == post_memsize(c, mem)
<1>1. CASE c.mem_used = 0
  <2>1. CacheInv(c) /\ StoredValues(c) = {}
    BY <1>1, NoMemoryNoValues DEF WithinRoom
  <2>2. AllLinks(c) = {}
    <3>1. \A x \in AllLinks(c) : x.val_size > 0 BY RoomIsRoomy DEF WithinRoom
    <3> QED BY <3>1, <2>1 DEF StoredValues
  <2>3. d = create_cache(mem) BY <1>1 DEF post_memsize, cache_space_used
  <2>4. CacheInv(d) /\ AllLinks(d) = {} /\ d.maxmem = mem
    BY <2>3, CreateCache, CapacityAssumption
  <2> HIDE DEF d
  <2>5. WithinRoom(d) BY <2>4, RoomIsRoomy DEF WithinRoom, Roomy
  <2>6. \A k \in Keys : GottenValue(d, k).val = NULL /\ GottenValue(c, k).val = NULL
    BY <2>1, <2>2, <2>4, GottenFromLinks
  <2> QED BY <2>5, <2>6 DEF d
<1>2. CASE c.mem_used # 0
  <2>1. d = c BY <1>2 DEF post_memsize, cache_space_used
  <2> QED BY <2>1
<1> QED BY <1>1, <1>2
-----------------------------------------------------------------------------
(* A step that acts on no request and changes none that was acted on.      *)
LEMMA QuietStays ==
  ASSUME StaysInv, ValuesInv', UNCHANGED <<handled, cache, server>>,
         \A r \in handled : MessageOf(r)' = MessageOf(r),
         cut \subseteq cut'
  PROVE  StaysInv'
<1>1. ASSUME NEW key \in Keys
      PROVE  /\ Orderly(key)' => Orderly(key)
             /\ LastWriteStored(key)' <=> LastWriteStored(key)
  <2>1. Acted(key)' = Acted(key) BY DEF Acted
  <2>2. \A r \in Acted(key) : LeftBy(r)' = LeftBy(r) BY DEF Acted, LeftBy
  <2>3. \A r \in Acted(key) : Short(MessageOf(r))' <=> Short(MessageOf(r))
    BY DEF Acted, Short, PartsOf, MessageOf
  <2>4. \A r \in Acted(key) : CutOff(r) => CutOff(r)'
    BY <2>3 DEF Acted, CutOff
  <2> QED BY <2>1, <2>2, <2>3, <2>4 DEF Orderly, LastWriteStored
<1> QED BY <1>1 DEF StaysInv

(* The server acts on a request that writes nothing under key.             *)
LEMMA OtherWrites ==
  ASSUME StaysInv, server = "running", UNCHANGED <<calls, cut>>,
         NEW r, handled' = handled \union {r}, NEW key \in Keys,
         ~(MessageOf(r).verb \in {"PUT", "DELETE"} /\ MessageOf(r).key = key),
         GottenValue(cache', key).val = GottenValue(cache, key).val
  PROVE  Orderly(key)' => LastWriteStored(key)'
<1>1. /\ \A q : MessageOf(q)' = MessageOf(q)
      /\ \A q : Short(MessageOf(q))' <=> Short(MessageOf(q))
  BY SameRequests
<1>2. Acted(key)' = Acted(key) BY <1>1 DEF Acted
<1>3. \A q \in Acted(key) : LeftBy(q)' = LeftBy(q) BY <1>1 DEF LeftBy
<1>4. Orderly(key)' <=> Orderly(key) BY <1>1, <1>2 DEF Orderly, CutOff
<1>5. Orderly(key) => LastWriteStored(key) BY DEF StaysInv
<1>6. LastWriteStored(key) => LastWriteStored(key)'
  BY <1>2, <1>3 DEF LastWriteStored
<1> QED BY <1>4, <1>5, <1>6

(* The server acts on a write of key: on its own host no later one of the  *)
(* same process came before it, unless it is long.                         *)
LEMMA OwnWrite ==
  ASSUME StaysInv, Loopback, UNCHANGED calls,
         NEW r \in MadeByTcp, r \notin handled, handled' = handled \union {r},
         NEW key \in Keys,
         MessageOf(r).verb \in {"PUT", "DELETE"}, MessageOf(r).key = key,
         GottenValue(cache', key).val = LeftBy(r)
  PROVE  Orderly(key)' => LastWriteStored(key)'
<1> SUFFICES ASSUME Orderly(key)' PROVE LastWriteStored(key)'
  OBVIOUS
<1>1. \A q : MessageOf(q)' = MessageOf(q) BY SameRequests
<1>2. Acted(key)' = Acted(key) \union {r} BY <1>1 DEF Acted
<1>3. LeftBy(r)' = LeftBy(r) BY <1>1 DEF LeftBy
<1>4. r \in Request /\ r[2] \in Nat BY RequestIsPair DEF MadeByTcp, Made
<1>5. ASSUME NEW q \in Acted(key) PROVE q[2] <= r[2]
  <2>1. /\ q \in handled /\ q[1] = r[1]
        /\ r[2] < q[2] => Short(MessageOf(r))
    <3>1. q \in Acted(key)' /\ r \in Acted(key)' BY <1>2
    <3>2. Short(MessageOf(r))' <=> Short(MessageOf(r)) BY SameRequests
    <3> QED BY <3>1, <3>2 DEF Orderly, Acted
  <2>2. q \in MadeByTcp
    BY <2>1 DEF StaysInv, ValuesInv, Inv, Known, MadeByTcp, IsTcp, Acted
  <2>3. q \in Request /\ q[2] \in Nat BY <2>2, RequestIsPair DEF MadeByTcp, Made
  <2>4. HandledInOrder BY DEF StaysInv, ValuesInv, Inv
  <2>5. ~Earlier(r, q) BY <2>1, <2>3, <2>4, <1>4 DEF HandledInOrder
  <2>6. ~(r[2] < q[2]) BY <2>1, <2>2, <2>5 DEF Earlier
  <2> QED BY <2>3, <2>6, <1>4
<1>6. \A q \in Acted(key)' : q[2] <= r[2] BY <1>2, <1>4, <1>5
<1>7. r \in Acted(key)' BY <1>2
<1> QED BY <1>3, <1>6, <1>7 DEF LastWriteStored

(* handle_read: what the message writes, and what it leaves.               *)
LEMMA ReadStays ==
  ASSUME RoomForAll, Loopback, StaysInv, ValuesInv',
         NEW r \in Request, handle_read(r)
  PROVE  StaysInv'
<1>0. PICK m \in Contents(r) : ~Ends(m) /\ cache' = act_on_message(m)
  BY DEF handle_read
<1>1. /\ UNCHANGED <<calls, cut, server>> /\ server = "running"
      /\ handled' = handled \union {r} /\ Completes(Read(r))
  BY DEF handle_read, ReadOne, Completes, process, network, stream
<1>2. Inv /\ WithinRoom(cache) BY <1>1 DEF StaysInv, ValuesInv
<1>3. r \in MadeByTcp /\ r \notin handled BY <1>1, <1>2, WhatIsRead
<1>4. /\ m \in Message /\ m.verb \in {"PUT", "DELETE", "memsize"}
      /\ \/ m = MessageOf(r)
         \/ CutOff(r) /\ m.verb = "PUT" /\ m.key = MessageOf(r).key
  BY <1>0, <1>1, <1>2, WhatIsActedOn
<1>5. MessageOf(r).verb = m.verb BY <1>4 DEF CutOff
<1>6. LeftBy(r) = IF MessageOf(r).verb = "DELETE" THEN NULL ELSE MessageOf(r).val
  BY DEF LeftBy
<1> DEFINE Kept(k) == GottenValue(cache', k).val = GottenValue(cache, k).val
<1>7. CASE m.verb \in {"PUT", "DELETE"}
  <2>1. m.key \in Keys /\ MessageOf(r).key = m.key BY <1>4, <1>7, MessageParts
  <2>2. /\ WithinRoom(cache')
        /\ GottenValue(cache', m.key).val = LeftBy(r) \/ CutOff(r)
        /\ \A k \in Keys \ {m.key} : Kept(k)
    <3>1. CASE m.verb = "PUT"
      <4>1. m.val \in Vals BY <3>1, <1>4, MessageParts
      <4>2. cache' = cache_set(cache, m.key, m.val)
        BY <3>1, <1>0 DEF act_on_message
      <4>3. LeftBy(r) = m.val \/ CutOff(r) BY <3>1, <1>4, <1>5, <1>6
      <4> QED BY <4>1, <4>2, <4>3, <2>1, <1>2, SetWithinRoom
    <3>2. CASE m.verb = "DELETE"
      <4>1. cache' = cache_delete(cache, m.key)
        BY <3>2, <1>0 DEF act_on_message
      <4>2. LeftBy(r) = NULL BY <3>2, <1>5, <1>6
      <4> QED BY <4>1, <4>2, <2>1, <1>2, DeleteWithinRoom
    <3> QED BY <3>1, <3>2, <1>7
  <2>3. ASSUME NEW k \in Keys PROVE Orderly(k)' => LastWriteStored(k)'
    <3>1. CASE k = m.key /\ ~CutOff(r)
      BY <3>1, <2>1, <2>2, <1>1, <1>3, <1>5, <1>7, OwnWrite
    <3>2. CASE k = m.key /\ CutOff(r)
      <4>1. /\ MessageOf(r)' = MessageOf(r)
            /\ Short(MessageOf(r))' <=> Short(MessageOf(r))
        BY <1>1, SameRequests
      <4>2. r \in Acted(k)' BY <4>1, <3>2, <2>1, <1>1, <1>5, <1>7 DEF Acted
      <4>3. CutOff(r)' BY <4>1, <3>2, <1>1 DEF CutOff
      <4>4. ~Orderly(k)' BY <4>2, <4>3 DEF Orderly
      <4> QED BY <4>4
    <3>3. CASE k # m.key
      <4>1. Kept(k) BY <3>3, <2>2
      <4> QED BY <4>1, <3>3, <2>1, <1>1, OtherWrites
    <3> QED BY <3>1, <3>2, <3>3
  <2> QED BY <2>2, <2>3 DEF StaysInv
<1>8. CASE m.verb = "memsize"
  <2>1. m.mem \in MaxMems BY <1>4, <1>8, MessageParts
  <2>2. cache' = post_memsize(cache, m.mem) BY <1>8, <1>0 DEF act_on_message
  <2>3. WithinRoom(cache') /\ \A k \in Keys : Kept(k)
    BY <2>1, <2>2, <1>2, MemsizeWithinRoom
  <2>4. ASSUME NEW k \in Keys PROVE Orderly(k)' => LastWriteStored(k)'
    <3>1. Kept(k) BY <2>3
    <3> QED BY <3>1, <1>1, <1>5, <1>8, OtherWrites
  <2> QED BY <2>3, <2>4 DEF StaysInv
<1> QED BY <1>4, <1>7, <1>8

(* handle_receive: a GET reorders the policy and writes nothing.           *)
LEMMA ReceiveStays ==
  ASSUME StaysInv, ValuesInv', handle_receive
  PROVE  StaysInv'
<1> DEFINE r == Head(recvq)
           m == MessageOf(r)
<1>1. /\ UNCHANGED <<calls, cut, server>> /\ server = "running"
      /\ handled' = handled \union {r}
      /\ ready # <<>> /\ Head(ready) = Receive
      /\ cache' = act_on_message(m)
  BY DEF handle_receive, TakeDatagram, Completes, process, stream
<1>2. Inv /\ WithinRoom(cache) BY <1>1 DEF StaysInv, ValuesInv
<1>3. r \in Made \ MadeByTcp
  <2>1. ready \in Seq(Op) /\ recvq \in Seq(Request) /\ Known /\ Pipeline
    BY <1>1, <1>2 DEF Inv, TypeInv
  <2>2. Holds(ready, Receive) BY <2>1, <1>1, QueueTail
  <2>3. recvq # <<>> BY <2>1, <2>2 DEF Pipeline
  <2>4. Holds(recvq, r) BY <2>1, <2>3, QueueTail
  <2> QED BY <2>1, <2>4 DEF Known
<1>4. m.verb = "GET" /\ m.key \in Keys
  <2>1. m \in Message BY <1>2, <1>3, MadeHaveMessages DEF Inv
  <2>2. m.verb = "GET" BY <1>3 DEF MadeByTcp, IsTcp
  <2> QED BY <2>1, <2>2, MessageParts
<1> HIDE DEF m, r
<1>5. cache' = cache_get(cache, m.key) BY <1>1, <1>4 DEF act_on_message
<1>6. /\ CacheInv(cache) /\ CacheInv(cache') /\ AllLinks(cache') = AllLinks(cache)
      /\ cache'.maxmem = cache.maxmem
  BY <1>2, <1>4, <1>5, CacheGetKeeps DEF WithinRoom
<1>7. WithinRoom(cache') BY <1>2, <1>6 DEF WithinRoom
<1>8. ASSUME NEW k \in Keys PROVE Orderly(k)' => LastWriteStored(k)'
  <2>1. GottenValue(cache', k).val = GottenValue(cache, k).val
    BY <1>6, SameLinksSameValue
  <2> QED BY <2>1, <1>1, <1>4, OtherWrites DEF m
<1> QED BY <1>7, <1>8 DEF StaysInv

(* No other step acts on a request.                                        *)
LEMMA ElsewhereStays ==
  ASSUME StaysInv, ValuesInv',
         \/ \E p \in Clients : \/ ClientCalls(p) \/ ClientContinues(p)
                               \/ receive_refused(p) \/ receive_timeout(p)
                               \/ Kill(p)
         \/ \E r \in Request : Carry(r) \/ read_some(r)
         \/ RunReactor
         \/ handle_accept
         \/ \E d \in packets : LoseDatagram(d)
         \/ UNCHANGED vars
  PROVE  StaysInv'
<1> DEFINE Quiet == /\ UNCHANGED <<handled, cache, server>> /\ cut \subseteq cut'
                    /\ \A r \in handled : MessageOf(r)' = MessageOf(r)
<1>1. TypeInv /\ Inv /\ handled \subseteq Made
  BY DEF StaysInv, ValuesInv, Inv, Known
<1>2. UNCHANGED calls => \A r : MessageOf(r)' = MessageOf(r) BY SameRequests
<1>3. ASSUME NEW p \in Clients, NEW n \in Message, Call(p, n)
      PROVE  \A r \in handled : MessageOf(r)' = MessageOf(r)
  BY <1>1, <1>3, OneMoreRequest
<1>4. ASSUME NEW p \in Clients, ClientCalls(p) PROVE Quiet
  <2>1. \A key \in Keys, val \in Vals :
          [verb |-> "PUT", key |-> key, val |-> val] \in Message
    BY DEF Message
  <2>2. \A key \in Keys : /\ [verb |-> "DELETE", key |-> key] \in Message
                          /\ [verb |-> "GET", key |-> key] \in Message
    BY DEF Message
  <2>3. \A mem \in MaxMems : [verb |-> "memsize", mem |-> mem] \in Message
    BY DEF Message
  <2>4. [verb |-> "shutdown"] \in Message BY DEF Message
  <2>5. ASSUME NEW n \in Message, send_message_tcp(p, n) PROVE Quiet
    <3>1. Call(p, n) /\ UNCHANGED <<handled, cut, cache, server>>
      BY <2>5 DEF send_message_tcp, loop, stream
    <3> QED BY <3>1, <1>3
  <2>6. ASSUME NEW key \in Keys, cache_get_(p, key) PROVE Quiet
    <3>1. /\ Call(p, [verb |-> "GET", key |-> key])
          /\ UNCHANGED <<handled, cut, cache, server>>
      BY <2>6 DEF cache_get_, loop, stream
    <3> QED BY <3>1, <2>2, <1>3
  <2> HIDE DEF Quiet
  <2>7. ASSUME NEW key \in Keys, NEW val \in Vals, cache_set_(p, key, val)
        PROVE  Quiet
    BY <2>1, <2>5, <2>7 DEF cache_set_
  <2>8. ASSUME NEW key \in Keys, cache_delete_(p, key) PROVE Quiet
    BY <2>2, <2>5, <2>8 DEF cache_delete_
  <2>9. ASSUME NEW mem \in MaxMems, create_cache_(p, mem) PROVE Quiet
    BY <2>3, <2>5, <2>9 DEF create_cache_
  <2>10. CASE destroy_cache_(p) BY <2>4, <2>5, <2>10 DEF destroy_cache_
  <2> QED BY <1>4, <2>6, <2>7, <2>8, <2>9, <2>10 DEF ClientCalls
<1>5. ASSUME NEW p \in Clients, \/ ClientContinues(p) \/ receive_refused(p)
                                \/ receive_timeout(p) \/ Kill(p)
      PROVE  Quiet
  <2>1. UNCHANGED <<calls, handled, cache, server>> /\ cut \subseteq cut'
    BY <1>5 DEF ClientContinues, write_message, get_message, receive_refused,
                receive_timeout, Kill, loop, network, stream
  <2> QED BY <2>1, <1>2
<1>6. ASSUME \/ \E r \in Request : Carry(r) \/ read_some(r)
             \/ RunReactor
             \/ handle_accept
             \/ \E d \in packets : LoseDatagram(d)
             \/ UNCHANGED vars
      PROVE  Quiet
  <2>1. UNCHANGED <<calls, handled, cut, cache, server>>
    BY <1>6 DEF Carry, Establish, DeliverSegment, DeliverDatagram, RunReactor,
                handle_accept, read_some, LoseDatagram, process, network, loop,
                stream, vars
  <2> QED BY <2>1, <1>2
<1>8. Quiet
  <2> HIDE DEF Quiet
  <2> QED BY <1>4, <1>5, <1>6
<1> QED BY <1>8, QuietStays
-----------------------------------------------------------------------------
LEMMA StepsKeepStays ==
  ASSUME RoomForAll, Loopback
  PROVE  StaysInv /\ [FaultNext]_vars => StaysInv'
<1> SUFFICES ASSUME StaysInv, [FaultNext]_vars PROVE StaysInv'
  OBVIOUS
<1>1. ValuesInv' BY StepsKeepValues DEF StaysInv
<1>2. ASSUME NEW r \in Request, handle_read(r) PROVE StaysInv'
  BY <1>1, <1>2, ReadStays
<1>3. ASSUME NEW r \in Request, handle_shutdown(r) PROVE StaysInv'
  <2>1. server' = "stopped" BY <1>3 DEF handle_shutdown
  <2> QED BY <2>1, <1>1 DEF StaysInv
<1>4. CASE handle_receive BY <1>1, <1>4, ReceiveStays
<1>5. CASE \/ \E p \in Clients : \/ ClientCalls(p) \/ ClientContinues(p)
                                 \/ receive_refused(p) \/ receive_timeout(p)
                                 \/ Kill(p)
           \/ \E r \in Request : Carry(r) \/ read_some(r)
           \/ RunReactor
           \/ handle_accept
           \/ \E d \in packets : LoseDatagram(d)
           \/ UNCHANGED vars
  BY <1>1, <1>5, ElsewhereStays
<1> QED BY <1>2, <1>3, <1>4, <1>5 DEF FaultNext, Next, Handler, TcpHandler

LEMMA InitHasStays ==
  ASSUME RoomForAll
  PROVE  Init => StaysInv
<1> SUFFICES ASSUME Init PROVE StaysInv
  OBVIOUS
<1>1. ValuesInv BY InitHasValues
<1>2. CacheInv(cache) /\ AllLinks(cache) = {} /\ cache.maxmem = StartMem
  BY CreateCache, StartMemAssumption DEF Init
<1>3. WithinRoom(cache) BY <1>2, RoomIsRoomy DEF WithinRoom, Roomy
<1>4. \A key \in Keys : Acted(key) = {} BY DEF Init, Acted
<1>5. \A key \in Keys : GottenValue(cache, key).val = NULL
  BY <1>2, GottenFromLinks
<1> QED BY <1>1, <1>3, <1>4, <1>5 DEF StaysInv, LastWriteStored

LEMMA StaysGivesLastSet == StaysInv /\ NoneCutOff => ShortSetsStay
<1> SUFFICES ASSUME StaysInv, NoneCutOff, NEW p \in Clients, NEW key \in Keys,
                    \A r, q \in Writes(key) : r[2] < q[2] => Short(MessageOf(r)),
                    server = "running", MadeByTcp \subseteq handled,
                    \A r \in Writes(key) : r[1] = p
             PROVE  GottenValue(cache, key).val = Expected(p, key, Len(calls[p]))
  BY DEF ShortSetsStay, HoldsLastSet
<1> DEFINE n == Len(calls[p])
           W == {i \in 1..n : calls[p][i].verb \in {"PUT", "DELETE"}
                                /\ calls[p][i].key = key}
           IsLast(i) == \A j \in W : j <= i
           last == CHOOSE i \in W : IsLast(i)
<1>1. Expected(p, key, n) = IF W = {} \/ calls[p][last].verb = "DELETE" THEN NULL
                            ELSE calls[p][last].val
  BY DEF Expected
<1>2. TypeInv /\ handled \subseteq Made BY DEF StaysInv, ValuesInv, Inv, Known
<1>3. n \in Nat /\ n <= MaxCalls[p] /\ MaxCalls[p] \in Nat
  BY <1>2, LenProperties, MaxCallsAssumption DEF TypeInv
<1>4. ASSUME NEW r \in Acted(key) PROVE r = <<p, r[2]>> /\ r[2] \in W
  <2>1. r \in MadeByTcp /\ r \in Writes(key)
    BY <1>2 DEF Acted, Writes, MadeByTcp, IsTcp
  <2>2. r[1] = p BY <2>1
  <2>3. r = <<r[1], r[2]>> /\ r[2] \in Nat /\ r[2] >= 1 /\ r[2] <= n
    BY <2>1, <2>2, <1>3, RequestIsPair DEF MadeByTcp, Made
  <2> QED BY <2>2, <2>3, <1>3 DEF Acted, MessageOf
<1>5. ASSUME NEW i \in W PROVE <<p, i>> \in Acted(key)
  <2>1. i \in 1..MaxCalls[p] BY <1>3
  <2>2. <<p, i>> \in Request BY <2>1, RequestIsPair
  <2>3. MessageOf(<<p, i>>) = calls[p][i] BY DEF MessageOf
  <2>4. <<p, i>> \in MadeByTcp BY <2>2, <2>3 DEF MadeByTcp, Made, IsTcp
  <2> QED BY <2>3, <2>4 DEF Acted
<1>6. W \subseteq Nat BY <1>3
<1>7. LastWriteStored(key)
  <2>1. Acted(key) \subseteq Writes(key)
    BY <1>2 DEF Acted, Writes, MadeByTcp, IsTcp
  <2>2. Orderly(key) BY <2>1 DEF Orderly, CutOff, NoneCutOff
  <2> QED BY <2>2 DEF StaysInv
<1> HIDE DEF W, n
<1>8. CASE Acted(key) = {}
  <2>1. W = {} BY <1>5, <1>8
  <2> QED BY <2>1, <1>1, <1>7, <1>8 DEF LastWriteStored, n
<1>9. CASE Acted(key) # {}
  <2>1. PICK r \in Acted(key) : /\ \A q \in Acted(key) : q[2] <= r[2]
                                 /\ GottenValue(cache, key).val = LeftBy(r)
    BY <1>7, <1>9 DEF LastWriteStored
  <2>2. r[2] \in W /\ r = <<p, r[2]>> BY <1>4
  <2>3. IsLast(r[2])
    <3> SUFFICES ASSUME NEW j \in W PROVE j <= r[2]
      OBVIOUS
    <3>1. <<p, j>> \in Acted(key) BY <1>5
    <3>2. <<p, j>>[2] = j OBVIOUS
    <3> QED BY <3>1, <3>2, <2>1
  <2>4. last \in W /\ IsLast(last)
    <3> HIDE DEF IsLast
    <3> QED BY <2>2, <2>3, Zenon
  <2> HIDE DEF last
  <2>5. last = r[2]
    <3>1. last <= r[2] /\ r[2] <= last BY <2>2, <2>3, <2>4
    <3>2. last \in Nat /\ r[2] \in Nat BY <2>2, <2>4, <1>6
    <3> QED BY <3>1, <3>2
  <2>6. calls[p][last] = MessageOf(r) BY <2>2, <2>5 DEF MessageOf
  <2> QED BY <2>1, <2>2, <2>6, <1>1 DEF LeftBy, n
<1> QED BY <1>8, <1>9

(* With room for one value of every key, on the server's own host: as soon *)
(* as the server has acted on every request, the value under a key that a  *)
(* single process writes is the one that process set last, if one read     *)
(* brings each message that wrote it before, whatever other processes do   *)
(* with other keys, ask for or lose, and although no set is answered.      *)
THEOREM LastSetIsKept ==
  ASSUME RoomForAll
  PROVE  /\ Spec => []ShortSetsStay
         /\ FaultSpec => [](NoneCutOff => ShortSetsStay)
<1>1. CASE Loopback
  <2> DEFINE NoneCut == cut = {}
  <2>1. Init => StaysInv BY InitHasStays
  <2>2. StaysInv /\ [FaultNext]_vars => StaysInv' BY <1>1, StepsKeepStays
  <2>3. StaysInv /\ [Next]_vars => StaysInv' BY <2>2 DEF FaultNext
  <2>4. Init => NoneCut BY DEF Init
  <2>5. NoneCut => NoneCutOff BY DEF NoneCutOff
  <2>6. NoneCut /\ [Next]_vars => NoneCut' BY NetCutsNothing
  <2> HIDE DEF NoneCut
  <2>7. Spec => []ShortSetsStay
    BY <2>1, <2>3, <2>4, <2>5, <2>6, StaysGivesLastSet, PTL DEF Spec
  <2>8. FaultSpec => [](NoneCutOff => ShortSetsStay)
    BY <2>1, <2>2, StaysGivesLastSet, PTL DEF FaultSpec
  <2> QED BY <2>7, <2>8
<1>2. CASE ~Loopback
  <2>1. ShortSetsStay BY <1>2 DEF ShortSetsStay
  <2> QED BY <2>1, PTL
<1> QED BY <1>1, <1>2
=============================================================================

------------------------------ MODULE NetCache ------------------------------
(***************************************************************************)
(* The networked cache: processes that use the cache through client.cpp,   *)
(* the sockets between them and the server, and server.cpp, one thread     *)
(* that runs the completion handlers of its TCP and its UDP socket.        *)
(*                                                                         *)
(* Every call of the client library is a request of its own: cache_get is  *)
(* a datagram whose answer it waits for, every other call is a new TCP     *)
(* connection that carries one message and is closed unanswered.  A        *)
(* request is named <<p, n>>, the nth call of process p.  Messages are     *)
(* taken as the calls they encode.                                         *)
(*                                                                         *)
(* asio runs handlers in the order of its queue of completed operations.   *)
(* Reading a connection is tried at once and queued if data is there       *)
(* (epoll_reactor::start_op); otherwise, and for accepting always, the     *)
(* operation waits until the reactor finds the socket ready.  A read takes *)
(* some 512 bytes; async_read_until goes on reading, from the end of the   *)
(* queue again, until the zero byte that ends a message has come.          *)
(***************************************************************************)
EXTENDS HashCache

CONSTANTS
  Clients,     \* processes that use the client library
  MaxCalls,    \* bound: MaxCalls[p] is how many calls process p makes
  StartMem,    \* the capacity on the server's command line
  bufsize,     \* the largest value cache_set sends
  LLONG_MAX,   \* the largest capacity that stoll reads
  Parts,       \* Parts[v]: how many reads the set of a value v takes
  Loopback     \* TRUE: client and server on one host, FALSE: on a network

ASSUME MaxCallsAssumption == MaxCalls \in [Clients -> Nat]
ASSUME StartMemAssumption == StartMem \in Nat
ASSUME PartsAssumption == Parts \in [Vals -> Nat \ {0}]
ASSUME LoopbackAssumption == Loopback \in BOOLEAN

VARIABLES
  calls,       \* calls[p]: the calls p has made, a sequence of messages
  pc,          \* pc[p]: where p is: between calls, in one, or terminated
  got,         \* got[p]: what p's last call returned
  syns,        \* connections the server's host has not completed yet
  written,     \* written[r]: the parts written on connection r
  arrived,     \* arrived[r]: the parts that have come to the server's socket
  taken,       \* taken[r]: the parts that the server has read
  cut,         \* connections that ended before the whole message
  packets,     \* datagrams on the way, to the server and back
  backlog,     \* completed connections waiting to be accepted, in order
  recvq,       \* datagrams in the server's UDP socket, in order
  armed,       \* accepted connections waiting for their message
  ready,       \* the io_service's queue of operations to complete
  handled,     \* requests the server has acted on
  cache,       \* the server's cache
  server       \* "running" or "stopped"

stream  == <<written, arrived, cut>>
network == <<syns, stream, packets, backlog, recvq>>
loop    == <<armed, ready, handled, taken>>
process == <<calls, pc, got>>
vars    == <<calls, pc, got, syns, written, arrived, cut, packets, backlog,
             recvq, armed, ready, handled, taken, cache, server>>

Message ==
  [verb : {"PUT"}, key : Keys, val : Vals]
    \union [verb : {"GET", "DELETE"}, key : Keys]
    \union [verb : {"memsize"}, mem : MaxMems]
    \union {[verb |-> "shutdown"]}

Request == UNION {{p} \X (1..MaxCalls[p]) : p \in Clients}

MessageOf(r) == calls[r[1]][r[2]]

(* How many reads a message takes.  Only a value can be long.              *)
PartsOf(m) == IF m.verb = "PUT" THEN Parts[m.val] ELSE 1

IsTcp(m) == m.verb # "GET"

LastRequest(p) == <<p, Len(calls[p])>>

ToServer(r) == [to |-> "server", req |-> r]

(* Operations in the io_service's queue.                                   *)
Accept == [op |-> "accept"]
Receive == [op |-> "receive"]
Read(r) == [op |-> "read", con |-> r]

Queued(o) == \E i \in 1..Len(ready) : ready[i] = o

Init ==
  /\ calls = [p \in Clients |-> <<>>]
  /\ pc = [p \in Clients |-> "idle"]
  /\ got = [p \in Clients |-> NULL]
  /\ syns = {} /\ packets = {} /\ backlog = <<>> /\ recvq = <<>>
  /\ written = [r \in Request |-> 0] /\ arrived = written /\ taken = written
  /\ cut = {} /\ armed = {} /\ ready = <<>> /\ handled = {}
  /\ cache = create_cache(StartMem)
  /\ server = "running"
-----------------------------------------------------------------------------
(* The client library.  p calls a function while it is idle.               *)
Call(p, m) ==
  /\ pc[p] = "idle"
  /\ Len(calls[p]) < MaxCalls[p]
  /\ calls' = [calls EXCEPT ![p] = Append(@, m)]
  /\ got' = [got EXCEPT ![p] = NULL]

(* send_message_tcp connects, which returns once the handshake is done as  *)
(* far as the client can see.  A refused connection throws, and nothing    *)
(* catches it.                                                             *)
send_message_tcp(p, m) ==
  /\ Call(p, m)
  /\ IF server = "stopped"
     THEN /\ pc' = [pc EXCEPT ![p] = "terminated"]
          /\ UNCHANGED <<backlog, syns>>
     ELSE /\ pc' = [pc EXCEPT ![p] = "connected"]
          /\ IF Loopback
             THEN /\ backlog' = Append(backlog, LastRequest(p)')
                  /\ UNCHANGED syns
             ELSE /\ syns' = syns \union {LastRequest(p)'}
                  /\ UNCHANGED backlog
  /\ UNCHANGED <<stream, packets, recvq, loop, cache, server>>

(* More of the message, or the end (module NetFaults), is on its way to    *)
(* the server; on one host it is there at once.                            *)
Write(r) ==
  /\ written' = [written EXCEPT ![r] = @ + 1]
  /\ arrived' = IF Loopback THEN [arrived EXCEPT ![r] = @ + 1] ELSE arrived

(* It writes the message, closes the socket and returns, without an        *)
(* answer.  If the server has gone meanwhile the data goes nowhere, and    *)
(* the write throws if the client's host has already been told.            *)
write_message(p) ==
  /\ pc[p] = "connected"
  /\ \/ /\ server = "running"
        /\ Write(LastRequest(p))
        /\ pc' = IF written'[LastRequest(p)] = PartsOf(MessageOf(LastRequest(p)))
                 THEN [pc EXCEPT ![p] = "idle"] ELSE pc
     \/ /\ server = "stopped"
        /\ \E to \in {"idle", "terminated"} : pc' = [pc EXCEPT ![p] = to]
        /\ UNCHANGED <<written, arrived>>
  /\ UNCHANGED <<calls, got, cut, syns, packets, backlog, recvq, loop, cache,
                 server>>

cache_set_(p, key, val) ==
  /\ SizeOf[val] <= bufsize
  /\ send_message_tcp(p, [verb |-> "PUT", key |-> key, val |-> val])

cache_delete_(p, key) == send_message_tcp(p, [verb |-> "DELETE", key |-> key])

create_cache_(p, mem) == send_message_tcp(p, [verb |-> "memsize", mem |-> mem])

destroy_cache_(p) == send_message_tcp(p, [verb |-> "shutdown"])

(* cache_get sends a datagram from a new socket and blocks in receive.     *)
cache_get_(p, key) ==
  /\ Call(p, [verb |-> "GET", key |-> key])
  /\ pc' = [pc EXCEPT ![p] = "waiting"]
  /\ IF server = "stopped"
     THEN UNCHANGED <<recvq, packets>>
     ELSE IF Loopback
     THEN recvq' = Append(recvq, LastRequest(p)') /\ UNCHANGED packets
     ELSE packets' = packets \union {ToServer(LastRequest(p)')} /\ UNCHANGED recvq
  /\ UNCHANGED <<syns, stream, backlog, loop, cache, server>>

(* Inside receive, before and after its timeout (module NetFaults).        *)
Waiting(p) == pc[p] \in {"waiting", "polling"}

(* The answer is ERROR or the pair of a key and its value.                 *)
get_message(p) ==
  /\ Waiting(p)
  /\ \E answer \in packets :
       /\ answer.to = "client" /\ answer.req = LastRequest(p) /\ answer.key # NULL
       /\ packets' = packets \ {answer}
       /\ got' = [got EXCEPT ![p] =
                    [val |-> IF answer.key # MessageOf(LastRequest(p)).key
                             THEN NULL ELSE answer.val]]
  /\ pc' = [pc EXCEPT ![p] = "idle"]
  /\ UNCHANGED <<calls, syns, stream, backlog, recvq, loop, cache, server>>

(* When the server's port is closed the host may report it, and receive    *)
(* throws; a request that was still unread in the socket is dropped        *)
(* without a report, and then the call never returns.                      *)
receive_refused(p) ==
  /\ Waiting(p)
  /\ server = "stopped"
  /\ pc' = [pc EXCEPT ![p] = "terminated"]
  /\ UNCHANGED <<calls, got, network, loop, cache, server>>
-----------------------------------------------------------------------------
(* The network completes handshakes and carries messages, each connection  *)
(* and each datagram for itself and in any order.                          *)
Establish(r) ==
  /\ r \in syns
  /\ server = "running"
  /\ syns' = syns \ {r}
  /\ backlog' = Append(backlog, r)
  /\ UNCHANGED <<process, stream, packets, recvq, loop, cache, server>>

DeliverSegment(r) ==
  /\ arrived[r] < written[r] /\ r \notin syns
  /\ server = "running"
  /\ arrived' = [arrived EXCEPT ![r] = @ + 1]
  /\ UNCHANGED <<process, syns, written, cut, packets, backlog, recvq, loop,
                 cache, server>>

DeliverDatagram(r) ==
  /\ ToServer(r) \in packets
  /\ server = "running"
  /\ packets' = packets \ {ToServer(r)}
  /\ recvq' = Append(recvq, r)
  /\ UNCHANGED <<process, syns, stream, backlog, loop, cache, server>>
-----------------------------------------------------------------------------
(* The server.  One pass of the reactor queues an operation for every      *)
(* socket that is ready and has one waiting, in whatever order epoll_wait  *)
(* reports them.                                                           *)
Events ==
  {o \in {Accept} : backlog # <<>>} \union {o \in {Receive} : recvq # <<>>}
    \union {Read(r) : r \in {q \in armed : arrived[q] > taken[q]}}

NewEvents == {o \in Events : ~Queued(o)}

(* A plausible slip: the reactor takes one event from every epoll_wait.    *)
RunReactor_OneEvent ==
  /\ server = "running"
  /\ \E o \in NewEvents : ready' = Append(ready, o)
  /\ UNCHANGED <<process, network, armed, handled, taken, cache, server>>

RunReactor ==
  /\ server = "running"
  /\ NewEvents # {}
  /\ \E found \in [1..Cardinality(NewEvents) -> NewEvents] :
       /\ \A o \in NewEvents : \E i \in DOMAIN found : found[i] = o
       /\ ready' = ready \o found
  /\ UNCHANGED <<process, network, armed, handled, taken, cache, server>>

(* The first operation of the queue completes and its handler runs.        *)
Completes(o) == server = "running" /\ ready # <<>> /\ Head(ready) = o

(* A read starts on a connection of which n parts have been read: it is    *)
(* queued, behind what is there, if there is more to read, otherwise the   *)
(* connection is armed.  Plausible slips: it is not armed; the read is     *)
(* queued in any case.                                                     *)
start_NotArmed(con, n) ==
  /\ ready' = IF arrived[con] > n THEN Append(Tail(ready), Read(con))
              ELSE Tail(ready)
  /\ armed' = armed \ {con}

start_AtOnce(con, n) ==
  ready' = Append(Tail(ready), Read(con)) /\ armed' = armed \ {con}

start(con, n) ==
  IF arrived[con] > n
  THEN ready' = Append(Tail(ready), Read(con)) /\ armed' = armed \ {con}
  ELSE ready' = Tail(ready) /\ armed' = armed \union {con}

(* handle_accept starts reading the new connection and accepts again.      *)
handle_accept ==
  /\ Completes(Accept)
  /\ start(Head(backlog), 0)
  /\ backlog' = Tail(backlog)
  /\ UNCHANGED <<process, syns, stream, packets, recvq, handled, taken, cache,
                 server>>

(* What the read that completes has brought: a part of the message, or the *)
(* end of a connection that was cut.                                       *)
Brought(r) ==
  arrived[r] > taken[r] /\ ~(r \in cut /\ taken[r] + 1 = written[r])

Complete(r) == taken[r] + 1 >= PartsOf(MessageOf(r))

(* async_read_until reads again when the zero byte is not there.           *)
read_some(r) ==
  /\ Completes(Read(r))
  /\ Brought(r) /\ ~Complete(r)
  /\ start(r, taken[r] + 1)
  /\ taken' = [taken EXCEPT ![r] = @ + 1]
  /\ UNCHANGED <<process, network, handled, cache, server>>

(* What handle_read, which does not look at the error, may take for the    *)
(* message: nothing, or the set of a beginning of the value, if the        *)
(* connection has ended early.                                             *)
Contents(r) ==
  IF Brought(r) THEN {MessageOf(r)}
  ELSE IF taken[r] = 0 THEN {[verb |-> "nothing"]}
  ELSE {[MessageOf(r) EXCEPT !.val = v] :
          v \in {w \in Vals : SizeOf[w] < SizeOf[MessageOf(r).val]}}

(* A plausible slip: the capacity is changed whatever the cache holds.     *)
post_memsize_Always(c, mem) == create_cache(mem)

(* post: the capacity can be changed while no memory is used; otherwise an *)
(* error is written to a connection that nobody reads.                     *)
post_memsize(c, mem) ==
  IF cache_space_used(c) = 0 THEN create_cache(mem) ELSE c

act_on_message(m) ==
  CASE m.verb = "PUT"      -> cache_set(cache, m.key, m.val)
    [] m.verb = "DELETE"   -> cache_delete(cache, m.key)
    [] m.verb = "memsize"  -> post_memsize(cache, m.mem)
    [] m.verb = "GET"      -> cache_get(cache, m.key)

(* The messages that end the server.  shutdown throws out of io_service::  *)
(* run, and so do stoll for a capacity out of its range (after the old     *)
(* cache has gone) and act_on_message for a message without words, which   *)
(* is what a connection that ends early leaves.                            *)
Ends(m) ==
  \/ m.verb \in {"shutdown", "nothing"}
  \/ m.verb = "memsize" /\ cache_space_used(cache) = 0 /\ m.mem > LLONG_MAX

ReadOne(r) ==
  /\ Completes(Read(r))
  /\ Brought(r) => Complete(r)
  /\ handled' = handled \union {r}
  /\ armed' = armed \ {r}

handle_read(r) ==
  /\ ReadOne(r)
  /\ \E m \in Contents(r) : ~Ends(m) /\ cache' = act_on_message(m)
  /\ ready' = Tail(ready)
  /\ UNCHANGED <<process, network, taken, server>>

handle_shutdown(r) ==
  /\ ReadOne(r)
  /\ \E m \in Contents(r) : Ends(m)
  /\ server' = "stopped"
  /\ cache' = NULL
  /\ ready' = <<>> /\ backlog' = <<>> /\ recvq' = <<>>
  /\ UNCHANGED <<process, syns, stream, packets, taken>>

(* The GET of a datagram is acted on, and the next datagram, if it is      *)
(* there, is taken at once.                                                *)
TakeDatagram ==
  /\ Completes(Receive)
  /\ cache' = act_on_message(MessageOf(Head(recvq)))
  /\ handled' = handled \union {Head(recvq)}
  /\ recvq' = Tail(recvq)
  /\ ready' = IF Tail(recvq) = <<>> THEN Tail(ready)
              ELSE Append(Tail(ready), Receive)
  /\ UNCHANGED <<process, syns, stream, backlog, armed, taken, server>>

AnswerTo(r) ==
  [to |-> "client", req |-> r, key |-> MessageOf(r).key,
   val |-> GottenValue(cache, MessageOf(r).key).val]

(* A plausible slip: a miss is not answered.                               *)
handle_receive_SilentMiss ==
  /\ TakeDatagram
  /\ packets' = packets \union {a \in {AnswerTo(Head(recvq))} : a.val # NULL}

handle_receive ==
  TakeDatagram /\ packets' = packets \union {AnswerTo(Head(recvq))}
-----------------------------------------------------------------------------
ClientCalls(p) ==
  \/ \E key \in Keys : \/ \E val \in Vals : cache_set_(p, key, val)
                       \/ cache_delete_(p, key)
                       \/ cache_get_(p, key)
  \/ \E mem \in MaxMems : create_cache_(p, mem)
  \/ destroy_cache_(p)

ClientContinues(p) == write_message(p) \/ get_message(p)

(* The next step of the network for r: there is never more than one.       *)
Carry(r) == Establish(r) \/ DeliverSegment(r) \/ DeliverDatagram(r)

TcpHandler ==
  \/ handle_accept
  \/ \E r \in Request : read_some(r) \/ handle_read(r) \/ handle_shutdown(r)

Handler == TcpHandler \/ handle_receive

Next ==
  \/ \E p \in Clients : ClientCalls(p) \/ ClientContinues(p) \/ receive_refused(p)
  \/ \E r \in Request : Carry(r)
  \/ RunReactor
  \/ Handler

(* A process in a call goes on with it, the network delivers what it       *)
(* carries, and io_service::run keeps running the reactor and the handlers *)
(* it queues.  Nobody has to make another call.                            *)
Fairness ==
  /\ \A p \in Clients : WF_vars(ClientContinues(p))
  /\ \A r \in Request : WF_vars(Carry(r))
  /\ WF_vars(RunReactor)
  /\ WF_vars(Handler)

Spec == Init /\ [][Next]_vars /\ Fairness
-----------------------------------------------------------------------------
Made == {r \in Request : r[2] <= Len(calls[r[1]])}

MadeByTcp == {r \in Made : IsTcp(MessageOf(r))}

InBacklog(r) == \E i \in 1..Len(backlog) : backlog[i] = r

(* Where a connection can be on its way from connect to its handler.       *)
Stages(r) ==
  {stage \in {"handshake", "backlog", "reading", "handled"} :
     \/ stage = "handshake" /\ r \in syns
     \/ stage = "backlog" /\ InBacklog(r)
     \/ stage = "reading" /\ (r \in armed \/ Queued(Read(r)))
     \/ stage = "handled" /\ r \in handled}

(* While the server runs, every connection made to it is in exactly one    *)
(* stage: none is lost between accepting, reading and acting on it, and    *)
(* none is acted on twice.                                                 *)
EveryConnectionOnce ==
  server = "running" =>
    \A r \in MadeByTcp : Cardinality(Stages(r)) = 1

(* A message that the first read brings whole.                             *)
Short(m) == PartsOf(m) = 1

(* On the server's own host no set, delete or post overtakes an earlier    *)
(* one of the same process whose message takes one read, although each     *)
(* goes over a connection of its own and nothing waits for an answer.      *)
(* (A longer message is overtaken while the server is reading it.)         *)
OwnOrder ==
  Loopback =>
    \A r \in MadeByTcp \intersect handled :
      \A n \in 1..(r[2] - 1) :
        <<r[1], n>> \in MadeByTcp /\ Short(calls[r[1]][n])
          => <<r[1], n>> \in handled

(* cache_get returns no value but one that some process has set for the    *)
(* key it asks for, whatever other requests are being answered.            *)
NoInventedValue ==
  \A p \in Clients :
    got[p] # NULL /\ got[p].val # NULL =>
      \E r \in Made :
        MessageOf(r) = [verb |-> "PUT", val |-> got[p].val,
                        key |-> MessageOf(LastRequest(p)).key]

StoredValues(c) == {<<l.key, l.val>> : l \in {x \in AllLinks(c) : x.val_size > 0}}

(* A process that connects with create_cache never takes away values that  *)
(* others have stored: POST memsize replaces the cache only while it holds *)
(* no value (of a size other than zero).                                   *)
MemsizeKeepsValues ==
  [][\A r \in Request :
       handle_read(r) /\ MessageOf(r).verb = "memsize"
         => StoredValues(cache) \subseteq StoredValues(cache')]_vars

(* The server stops only for a shutdown, for a capacity that it cannot     *)
(* read, or for a connection that ended before anything was written on it, *)
(* because its process was killed: never for a connection that is merely   *)
(* slow, for a message that comes in parts or is cut off later, for        *)
(* processes killed elsewhere, or for lost datagrams.                      *)
StopsOnlyFor ==
  server = "stopped" =>
    \E r \in Made :
      \/ MessageOf(r).verb = "shutdown"
      \/ MessageOf(r).verb = "memsize" /\ MessageOf(r).mem > LLONG_MAX
      \/ r \in cut /\ written[r] = 1

(* A process in cache_get returns from it as long as the server runs.      *)
GetReturns ==
  \A p \in Clients :
    Waiting(p) ~> ~Waiting(p) \/ server = "stopped"

-----------------------------------------------------------------------------
(* What the calls of one process alone should have left under key: the     *)
(* value of the last set among its first n calls, or NULL.                 *)
Expected(p, key, n) ==
  LET writes == {i \in 1..n : calls[p][i].verb \in {"PUT", "DELETE"}
                                 /\ calls[p][i].key = key}
      last == CHOOSE i \in writes : \A j \in writes : j <= i
  IN  IF writes = {} \/ calls[p][last].verb = "DELETE" THEN NULL
      ELSE calls[p][last].val

(* With one process: a key that it has deleted is not found by its next    *)
(* cache_get.                                                              *)
DeletedIsGone ==
  \A p \in Clients :
    got[p] # NULL /\ Expected(p, MessageOf(LastRequest(p)).key, Len(calls[p])) = NULL
      => got[p].val = NULL

Writes(key) ==
  {r \in MadeByTcp : /\ MessageOf(r).verb \in {"PUT", "DELETE"}
                     /\ MessageOf(r).key = key}

(* With room for everything and no empty value (which POST memsize may     *)
(* take away): once all calls have been acted on, a key that only p writes *)
(* has the value that p set last.                                          *)
HoldsLastSet(p, key) ==
  /\ server = "running" /\ MadeByTcp \subseteq handled
  /\ \A r \in Writes(key) : r[1] = p
  => GottenValue(cache, key).val = Expected(p, key, Len(calls[p]))

(* The last set of a process stays, as cache_set overwrites the old value. *)
LastSetStays == \A p \in Clients, key \in Keys : HoldsLastSet(p, key)

(* The last set of a process, of whatever length, stays on the server's    *)
(* own host if the messages that wrote the key before it are short.        *)
ShortSetsStay ==
  Loopback =>
    \A p \in Clients, key \in Keys :
      (\A r, s \in Writes(key) : r[2] < s[2] => Short(MessageOf(r)))
        => HoldsLastSet(p, key)
=============================================================================

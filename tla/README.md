# Verification of the networked LRU cache

TLA+ models of the cache in this repository: the replacement policy, the
hash-table library on top of it, and the client/server system that serves the
library over TCP and UDP. TLC checks the models on small instances; TLAPS
proves, for every instance, the invariants of the policy, of the library and of
the server's handling of connections and values, that the pointer code of the
list and of the hash table implements the policy and the library, that the
library implements an LRU cache, and that the texts of the messages carry keys
and values unchanged.

## The system and its parts

| Part | Source | State | Operations | Correct when |
| --- | --- | --- | --- | --- |
| Replacement policy | `impl/lru_replacement.c` | doubly linked list of infos, `used_mem`, `maxmem` | `create_policy`, `delete_policy`, `create_info`, `delete_info`, `info_gotten`, `ids_to_delete_if_added` | the list is always one well-formed chain, the count is the sum, the answer is the shortest least-recently-used prefix that makes room, nothing leaks |
| Cache library | `impl/hash_cache.c` | chained hash table, `mem_used`, `num_elements`, a policy | `create_cache`, `cache_set`, `cache_get`, `cache_delete`, `cache_space_used`, `destroy_cache` | table and policy hold the same keys, the memory bound holds, the assertion in `create_info` never fails, callers see an LRU cache |
| Server | `server.cpp` | the cache, one acceptor, one connection object per request, one UDP receive buffer | handlers of accept, read, receive; verbs GET, PUT, DELETE, HEAD, POST | each request is acted on once, and answered if it is a GET |
| Client library | `client.cpp` | none between calls; a new socket per call | the functions of `cache.h` | calls behave as in the library |
| Message format | `user_con.hpp`, `act_on_message`, `make_json`, `send_message_*` | none | build, strip, split, JSON | keys and values survive the round trip |
| Helpers | `impl/helper.c` | none | copies of buffers | - |
| Tests, scripts | `test/`, `run_test.py`, `make.sh`, `telnet.sh` | - | - | read for what they expect; `telnet.sh` and the kill of `run_test.py` are inputs |
| Vendored | `asio/`, `json/` | - | - | only asio's queue order, speculative reads, the loop of `async_read_until` and the synchronous receive |

The server is single-threaded: `io_service::run` pops completed operations
from one queue and runs their handlers to completion. The hard behaviour is
therefore not in data races but in *order*: every call of the client library
except `cache_get` opens a TCP connection, writes one message and returns
without an answer, while `cache_get` sends a datagram and blocks. In the
libraries it is in long call sequences: pointer surgery, two separately kept
memory counts, a table that is replaced during a set, evictions driven by an
answer computed before the first of them. At the edges it is in what the code
does not look at: the error of a read, the number of bytes received, whether a
send was deferred, which characters a key contains.

`PROJECT.json` lists the hazards with their lines and the properties that cover
them.

## Modules

| Module | Models | Notes |
| --- | --- | --- |
| `LruPolicy` | `lru_replacement.c` as operators on a policy *value* (a sequence, least recently used first) | used by `HashCache` |
| `LruPolicySpec` | abstract: what `replacement.h` promises | state machine over `LruPolicy` |
| `LruReplacement` | `lru_replacement.c` with its heap: every pointer assignment in code order | implements `LruPolicySpec` |
| `CacheObjects` | what the two models of `hash_cache.c` share: parameters, the contents of a link, `map_to_location` | extends `LruPolicy` |
| `HashCache` | `hash_cache.c`, each function an operator on cache values | extends `CacheObjects` |
| `LruCache` | abstract: what `cache.h` promises | a sequence of entries |
| `CacheLibrary` | a process that calls the library in any order | implements `LruCache` |
| `ChainTable` | `hash_cache.c` with its pointers: chains of allocated links, places of pointers | extends `CacheObjects`, implements `CacheLibrary` |
| `NetCache` | `client.cpp`, the network, `server.cpp` and asio's queue, with the cache of `HashCache` inside the server | |
| `NetFaults` | lost datagrams, the receive timeout, killed processes | extends `NetCache` |
| `NetDeferred` | answers that cannot be sent at once | extends `NetCache` |
| `MessageFormat` | the text of requests and answers, as operators | |
| `MessagePath` | calls and telnet lines through the texts to the server and back | extends `MessageFormat` |
| `MC...` | instances for TLC | constants only |
| `QueueFacts` | lemmas on sequences and induction over an interval | used by all proofs |
| `LruPolicyProofs`, `HashCacheProofs` | lemmas on the operators of `LruPolicy` and `HashCache`, one per function | |
| `LruReplacementProofs`, `CacheLibraryProofs`, `ChainTableProofs`, `NetCacheProofs`, `MessagePathProofs` | theorems | |

Definitions have the names of the C functions. In `NetCache`, where client and
server both have a `cache_set`, the client's has a trailing underscore.
Definitions marked "a plausible slip" are mutations of the definition that
follows them; TLC must refute a property when one takes its original's place.

### LruReplacement

State: `policy` (the `policy_obj` or `NULL`), `heap` (a function whose domain is
the set of allocated `pinfo_obj`s) and `answer` (the last `id_arr` returned).
The user of the policy is the environment. It may do what the header allows,
with two restrictions that its one user, `hash_cache.c`, keeps: it makes room
before `create_info` (the assertion there is the action's guard; that the cache
keeps it is `NeverAborts` of the next module) and live infos have different
idents (the cache passes the address of its own copy of the key).

### HashCache and CacheLibrary

A cache value has the fields of `cache_obj`. A bucket is the *set* of its links:
callers and the policy cannot observe the order of a chain. Keys and values are
model values; `SizeOf` gives each value its `val_size`; the hash function is a
parameter `Hash`, so the results hold for `def_hash_fn` and for any other. A
failed assertion sets `aborted` and ends the process. Counters are integers,
not 64-bit words: `SpaceInv` and `UsedMemInv` show that they stay between 0 and
`maxmem`, so that unsigned wrap-around does not occur.

`cache_delete` inside the eviction loop, the removal of the old value before the
policy is asked, and the resize at the end of `add_to_cache` are parts of one
`Set` step, as they are of one call.

### ChainTable

`ChainTable` keeps the heap of links and follows the code through it. A
`link_t *` is a *place*, a cell of the table or the `next` field of a link;
`querry_hash` returns one, and `del_link` and `assign_to_link` write through it.
Loops are functions of the number of rounds, with the number of links as the
bound, so that a walk that would not end leaves a chain `ChainsInv` refuses.
Every step is a step of `CacheLibrary` once each chain is taken as the set of
its links (`Unchained`), so that what holds of the buckets holds of the chains.
A walk along a chain is `Walk`, which stops at the place where `querry_hash`
returns; the loop of `resize_table` is `Relinking`, one link a round; the loop of
`destroy_cache` is `DeleteLinks`. The address `calloc` returns is any free one.

### NetCache

A request is `<<p, n>>`, the nth call of process p. A TCP request goes through
handshake, accept queue (`backlog`), `handle_accept`, perhaps a wait for its
data (`armed`), the queue of completed operations (`ready`), `read_some` for every
part of its message but the last, and `handle_read`. A GET goes through the UDP socket's queue (`recvq`) and `handle_receive`, which
answers it. `ready` is asio's operation queue: `handle_accept` tries to read the
new connection at once and, if there is data, queues the read behind what is
already queued (`start`, from `epoll_reactor::start_op`); accepting is never tried
at once; one pass of the reactor queues all sockets found ready. With `Loopback`
the kernel hands data over when it is written; without, handshakes, data and
datagrams are delayed and overtake each other.

A message is read in parts. `async_read_until` asks for
`max(512, capacity - size)` bytes of its buffer at a time (`read_size_helper`),
and while the zero byte is missing it starts another read, which goes to the end
of the queue or, if nothing more has come, waits in the reactor (`read_some`, from
`read_until_delim_op`). `Parts` says how many reads the set of a value takes; all
other messages take one. `written`, `arrived` and `taken` count the parts of a
connection that have been written, have come and have been read, and
`EveryConnectionOnce` follows a connection through all its reads. What a process
may rely on is therefore weaker than it looks: on the server's own host a request
never overtakes an earlier *short* one of the same process (`OwnOrder`), but a
message of two parts can be overtaken if its connection was accepted before it was
written, and one of three parts or more always can: while it is read, the next
connection is accepted, read and acted on. So the last of several sets of a key
stays if those before it are short (`ShortSetsStay`), and not otherwise (run
`long_set`).

Messages are taken as the calls they encode, which is right for the keys and
values the format carries (module `MessagePath`). `bufsize` limits what
`cache_set` sends. If the server has stopped, a connect throws and ends the
process, a write may, and a `cache_get` ends the process or blocks for ever.
`Ends` has what makes the server leave `io_service::run`: a shutdown, a capacity
beyond `LLONG_MAX` while the cache is empty, and a connection that ends before
anything was written on it.

### NetFaults and NetDeferred

`NetFaults` adds to `NetCache`: datagrams are lost in either direction; the
receive timeout expires, which takes the client from `recv` into asio's `poll`
and changes nothing else; a process is killed in the middle of a call, and its
connection ends after what has been written on it. `cut` has these connections;
their end comes to the server like a last part. `handle_read`, which does not look
at the error, then acts on what it has (`Contents`): on no text at all, which ends
the server, or on the set of some beginning of the value, that is, of any smaller
value of the model. `Mortal` and `Lossy` name the processes these faults happen
to, so that the properties can say what the others may rely on. `NoneCutOff` says
that no message of several parts was cut; values are only what somebody has set
as long as it holds (`NoInventedValue`): a process that is killed inside a long
set leaves the beginning of its value in the cache, and `cache_get` returns it.

`NetDeferred`: the server's UDP socket is full, and an answer is sent later from
memory that has been freed. The operation keeps the pointer and the length of the
answer. Every answer is built in a string of `bufsize` bytes, so that the next one
is likely to be where the last one was (`block`). What is sent is the answer
itself, the text that was last written there if it fits in the kept length (an
ERROR of six bytes holds no pair; a pair holds an ERROR or a pair no longer), or no
JSON (`NULL`), which ends the client in `json::parse`. Keys are taken to be equally
long here.

### MessageFormat and MessagePath

A text is a sequence of symbols, one per character except that a verb or a
number is one symbol; `"nul"`, `"nl"`, `"space"`, `"slash"` and `"quote"` are the
characters that the code or JSON treat specially. Positions count from 0 and
`npos + 1` is 0, as in the code. What the code leaves open is a set of results:
how much of a stream `async_read_until` has in its buffer, what follows a string
without a zero byte. `{}` stands for an exception. `MessagePath` runs one
request at a time; `expect` records what a caller may expect to find, and
`CarriedKey` and `CarriedValue` say which keys and values the format carries:
no quotes or line ends, no trailing white space, no slash in a key, at least one
byte in a value. `CallsFit` adds that a key's request and its answer fit
`bufsize`; it holds of the constants of run `message_path`. Run `message_slash` shows what a slash does. With an empty value
`GetReturnsWhatWasSet` fails because the stored copy has no zero byte and is read
as a C string; with a value whose answer is longer than a datagram (possible
below `bufsize`, which `cache_set` checks) it fails because the answer is never
sent and `cache_get` blocks.

The texts answer two questions that the code leaves to the reader: a word that
ends the request includes the terminating zero (`end_of_line` is size + 1), which
is why `make_json` drops the key's last character and why stored values are C
strings; and a request without a second word never carries one over from an
earlier request.

## Runs

| Run | Result | Shows |
| --- | --- | --- |
| `lru_list` | pass | `TypeOK`, `ListInv` (one chain), `NoLeak`, `UsedMemInv`, and `ImplementsPolicy`: the list implements `LruPolicySpec` |
| `cache_library` | pass | `TableMatchesPolicy`, `SpaceInv`, `NeverAborts`, `LoadFactor`, and `ImplementsLruCache` |
| `net_loopback` | pass | two processes with two calls and one, two colliding keys, a short value and one of two parts: `EveryConnectionOnce`, `OwnOrder`, `ShortSetsStay`, `NoInventedValue`, `StopsOnlyFor`, `MemsizeKeepsValues` |
| `net_faults` | pass | delaying network, one call of each of two processes, values of one and two parts; one of the processes loses datagrams and may be killed: `EveryConnectionOnce`, `StopsOnlyFor`, `RequestsServed`, `OthersReturn` |
| `chain_table` | pass | `ChainsInv` (every link in one chain, its own), `NoLinkLeaks`, `ImplementsHashCache` |
| `message_path` | pass | `GetReturnsWhatWasSet`, `StoredAreStrings`, `NoUncaughtException`, `NoStaleBytes` |
| `refused_set` | violation | a set that is refused loses the key's old value, which `test/lrutests.c:149` expects to stay |
| `deleted_is_gone` | violation | `cache_get` overtakes the process's own `cache_delete`, even on one host: what `README.md:14` reports of `delete_not_in` without an explanation |
| `long_set` | violation | two sets of a key by one process can be applied in reverse, against `cache.h:17`, even on one host: the reads of a long one are queued behind the second |
| `message_slash` | violation | a key with a slash is stored under another key, against `cache.h:22` |
| `lost_datagram` | violation | after a lost datagram `cache_get` never returns; the 50 ms timeout has no effect |
| `deferred_send` | violation | an answer sent later comes from freed memory, where the answer to another request is: the pair of a wrong key, against `cache.h:22` and the requirement of `basic_datagram_socket.hpp:487` |

In the trace of `deleted_is_gone`, the connection of the DELETE needs two
handlers, accept and read, and the datagram one: both sockets are found ready in
the same pass of the reactor, the read is queued behind the receive, and the GET
is answered before the DELETE is acted on.

In the trace of `long_set` the queue is in turn: read of the long set, accept;
accept, second read; second read, read of the short set; read of the short set,
third read. The short set is acted on one handler before the long one is complete,
and the long one then overwrites it. `test/test.c:75` sets values of 50000 bytes.

In the trace of `deferred_send` two processes ask for two keys whose values are in
the cache. The first answer is deferred, the second is built in the same memory,
and the first process is sent the second pair. `client.cpp:169` finds that the key
is not the one it asked for and returns NULL for a key that is in the cache.

In the trace of `lost_datagram` the request or its answer is lost, the timeout
expires, and `sync_recv` waits in `poll` for ever. `OthersReturn` of `net_faults`
shows that the loss is the only reason: a process that loses nothing always
returns.

### Bounds

- `lru_list`: four nodes and idents (so that there are inner infos on both sides
  of the one moved), sizes 0, 1, 2, 4, capacities 0 and 3: values that take no
  room, share the list, evict several, fill it and never fit. Nodes and idents
  are symmetric (only compared).
- `cache_library`: four keys; their hashes collide in a table of two and partly
  in one of four, and the table starts at two (instead of 2503), so that two
  resizes happen; sizes 0 to 4, capacities 0 and 3.
- `chain_table`: four keys, three of which share a bucket in every table that
  occurs and one that the first resize moves away; five addresses, symmetric;
  values of sizes 0, 3 and 4 in a capacity of 3, so that values are stored
  without memory, evicted and refused. Tables of 2, 4 and 8.
- `message_path`: texts of up to two symbols, a value longer than the buffer
  (`bufsize` 9 instead of 65504, `MaxDatagram` one more, so that answers between
  the two exist), both contents of the uninitialised receive buffer that matter
  (with and without a zero byte), and all lines of `telnet.sh`.
- `net_loopback`: a start capacity of 5, and capacities to ask for of 4, in which
  every value still fits, and 6, beyond the model's `LLONG_MAX` of 5. One process
  makes two calls and the other one. The value of size 2 takes two reads, so that
  sets are acted on before, between and after the parts of another.
- `net_faults`: one call of each process; the second loses datagrams and may be
  killed before, between and after the parts of its message. Two requests, of two
  parts at most, are what can hold each other up or overtake each other.
- `long_set`: three parts, the fewest with which the older value always can win.
- `deferred_send`: the smallest instance that has the trace.
- network runs: `MaxCalls` bounds the calls of each process. Overtaking and
  lost handlers need two requests in flight; overwriting needs two writes; the
  deletion anomaly three calls. Deadlock is not checked in these runs because
  a process stops when it has made its calls; the liveness properties cover
  requests that get stuck. The kernel's limit on the accept queue is not reached
  with these bounds and not modelled.

### Fairness

`NetCache` assumes that a process inside a call goes on with it (it is a running
thread), that TCP data and, in these runs, datagrams are delivered, and that
`io_service::run` keeps running the reactor and the handlers in its queue, which
is what its loop does while the acceptor and the UDP socket are armed. No
process has to make another call, and nothing is assumed after a shutdown.
`NetFaults` assumes the same; losing a datagram, killing a process and a timeout
are never assumed to happen. `RequestsServed` says that the server always comes
to have acted on everything that reaches it (calls are bounded, so it can catch
up); TCP data is not lost.

## Proofs

The theorems hold for every value of the constants that satisfies the named
`ASSUME`s: sizes and capacities are natural numbers, every value has a size and
every key a hash, the table starts with at least one bucket, addresses are
finitely many, and the null pointer is none of the things it is compared with.
TLC evaluates the assumptions in every run. One more is a hypothesis of the
theorems that need it, because TLC cannot enumerate tables of every length:
`NullIsNoCache`, the null pointer is no cache object. The theorems on texts have
the hypothesis `CallsFit`: the calls use keys, values and capacities that the
format carries (without it `GetReturnsWhatWasSet` is false: run `message_slash`).
`LastSetIsKept` has the hypothesis `RoomForAll`: finitely many keys, no value of
size 0, and every capacity the server can be given is at least the number of keys
times the largest size. Without room a set evicts other values, and `POST memsize`
replaces a cache whose values are all empty. The constants of `net_loopback`
satisfy it. That client and server share a host and that the earlier writes are
short is part of `ShortSetsStay` itself. Without the first it is false because the
handshakes of two connections may overtake each other on a network; without the
second, run `long_set` shows it. Of `FaultSpec` the theorems on values hold while
`NoneCutOff` does: a cut-off set stores a value that nobody has set.

| Theorem | States | Module |
| --- | --- | --- |
| `TypeCorrect`, `ListStaysWellFormed`, `NothingLeaks` | `Spec => []TypeOK`, `[]ListInv`, `[]NoLeak` | `LruReplacementProofs` |
| `UsedMemoryIsTheSum` | `Spec => []UsedMemInv` | |
| `ListImplementsPolicy` | `Spec => ImplementsPolicy`: the linked list refines `LruPolicySpec` | |
| `CacheTyped`, `TableAgreesWithPolicy`, `SpaceNeverDrifts`, `AssertionNeverFails`, `TableStaysUncrowded` | `Spec => []TypeOK`, `[]TableMatchesPolicy`, `[]SpaceInv`, `[]NeverAborts`, `[]LoadFactor` | `CacheLibraryProofs` |
| `CacheImplementsLruCache` | `Spec => ImplementsLruCache`: the library refines `LruCache` | |
| `ChainsHoldTheirBuckets`, `DestroyLeavesNoLink` | `NullIsNoCache` implies `Spec => []ChainsInv`, `[]NoLinkLeaks` | `ChainTableProofs` |
| `ChainsImplementSets` | `NullIsNoCache` implies `Spec => ImplementsHashCache`: the chains refine `CacheLibrary` | |
| `ConnectionsAreNotLost`, `OwnRequestsInOrder`, `ServerStopsOnlyFor` | `EveryConnectionOnce`, `OwnOrder`, `StopsOnlyFor`, of `NetCache` and of `NetFaults` | `NetCacheProofs` |
| `ValuesAreNotInvented` | `Spec => []NoInventedValue` and `FaultSpec => [](NoneCutOff => NoInventedValue)` | |
| `MemsizeTakesNothing` | the action property `MemsizeKeepsValues`, of both | |
| `LastSetIsKept` | `RoomForAll` implies `Spec => []ShortSetsStay` and `FaultSpec => [](NoneCutOff => ShortSetsStay)` | |
| `SetTextsComeBack`, `ValuesAreStrings`, `RequestsDoNotThrow`, `BufferShowsLastDatagram` | `CallsFit` implies `Spec => []GetReturnsWhatWasSet`, `[]StoredAreStrings`, `[]NoUncaughtException`, `[]NoStaleBytes` | `MessagePathProofs` |

### The linked list

The inductive invariant is `Inv == TypeOK /\ ListInv /\ NoLeak`. `ListInv` says
that some sequence lists all allocated infos once with `low` and `high` as its
neighbours and `bottom` and `top` as its ends; it is inductive only with
`NoLeak`, because `create_policy` starts an empty list, which lists all infos
only if none is left from before. The list functions are proved once, on values:
`MoveInfoToHead` (an order of the other infos becomes one with the info at its
top end) and `RemoveInfoFromList` (an order becomes one without the info, with
the cases of a first, last, only and inner info inside it). `create_info`,
`delete_info` and `info_gotten` are compositions of the two. For `delete_policy`,
`AscentFollowsOrder` shows that walking along `high` visits the infos in their
order, by induction over the steps (`UpTo`).

The refinement adds `PolicyInv(ListPolicy)`: the policy value that the list
stands for has distinct idents and `used_mem` is its total. The order is unique
(`OrderIsUnique`), so `ListPolicy` can be computed from whichever order an
action's lemma names; extending and shortening an order is then `Append` and
`Without` on the sequence. For `ids_to_delete_if_added`, `TotMemCountsDown` and
`WalkStopsAlike` show that the loop over the pointers stops where the
specification's first position is.

### The cache

`CacheInv(c)` says of one cache value that its table, its two counters and its
policy agree: every link in the bucket of its key, keys distinct, the same
entries in table and policy, the counts right, the table at most half full.
`HashCacheProofs` has one lemma per function of `hash_cache.c` that finds and
leaves `CacheInv`. The loop of evictions is the hard one: after `n` deletions the
policy's list is what was behind its `n`th element (`DeleteIdsKeeps`), so that the
ids answered before the loop still name keys when their turn comes, and
`NumToDelete` gives the room that `create_info` asserts. All invariants of
`CacheLibrary` follow from `CacheInv`.

For the refinement of `LruCache` the `i`th entry is that of the link that the
`i`th info stands for (`EntriesAreLinks`); it is the same in two caches that share
the info (`SameEntry`). `SurvivorsAreLeft` shows that the suffix which the
abstract specification keeps, defined from the most recently used end, is the
one left by the loop that counts from the other end (`TotalOfSuffix`). The
invariant needs `Sized`: every value is stored with its own size.

### The chains

The invariant is `Chained(State)` while there is a cache, and an empty heap while
there is none. The heart of it is `Linked(s, M, rank)`: of the places in `s` (the
cells of the table and the `next` fields of the links in `M`), every link of `M`
is pointed to by exactly one, which belongs to the bucket of the link's key and
has a smaller rank. The ranks exclude cycles without a word about paths, and a
pointer assignment disturbs one place only, so that removing a link
(`RemoveLink`) and adding one (`NewLink`) are local arguments. A walk climbs in
rank and so ends (by induction over its rounds, `UpTo`) at the place of the key,
or at the end of its chain if no link has the key (the lemmas on `querry_hash`).

`resize_table` reads the old table while it builds the new one. Its loop
invariant has both: the links already carried over are `Linked` in the new table
and the others are as they were (`Carried`), and the cursor stands at the next
link of the old chains, all links before it being carried (`Cursor`). `Turn` is
one round, `ResizeCarries` the loop. In `destroy_cache` every round deletes a link
and leaves a chained table with one link less (`DestroyFrees`).

`Abs` maps a chained cache to the cache value of `HashCache`, buckets being the
sets of what their links store. Each function is shown to commute with it
(`DelLink`, `CacheDelete`, `DeleteIdsAbs`, `ResizeAbs`, `AddToCache`, `CacheSet`,
`CacheGet`), which gives the refinement action by action. `ChainsInv` compares
the links met by a walk with the buckets, and follows from `Linked` by
`ChainHoldsBucket`.

### The server

`Inv` of `NetCacheProofs` says where a request may be: the queues (`backlog`, the
queue of completed operations, those waiting in the reactor) hold no request
twice, no two of them the same one, and what is in none of them is handled
(`Pipeline`). `Streamed` relates the parts: what is read has arrived, what has
arrived was written on a connection that was made, and of a short message nothing
is read before its handler runs, so that it never goes back in the queue. On the
server's own host, therefore, a request is in every queue behind the earlier short
ones of its process, and the stages of the two never cross (`Ordered`,
`HandledInOrder`); that is what `OwnOrder` needs. Steps that kill a process or lose
a datagram keep the same invariant, so that the theorems are stated of `Spec` and
of `FaultSpec`. `WhatIsTaken` has what a handler may find on a connection: the
message, nothing if it was cut at once (which is the only way to stop the server
by it, `StopsOnlyFor`), or another value of its key if a long set was cut off.

`ValuesInv` adds `CacheInv` of the server's cache and that every value in
the cache, in an answer on its way and in a result was put for its key by a
request made before, or stands for one that was cut off (`Put`). `MemsizeKeepsValues`
rests on it: the server compares `mem_used` with 0, and `mem_used` is the sum of
what is stored.

`StaysInv`, for `LastSetIsKept`, adds that the value under a key whose handled
writes come from one process, all but the last of them short and none cut off
(`Orderly`), is what the latest of them left. A new write is the latest because of
`HandledInOrder`: had a later one of its process been handled, it would be short
and have been handled itself. No other key changes because nothing is
evicted: without the key that is set the policy has fewer infos than there are
keys (an injection into the other keys, `OthersAreBounded`), so that the sum of
their sizes (`SumIsBounded`) leaves room, `num_to_delete` is 0
(`NothingEvicted`), and `cache_set` changes the links of its own key alone
(`CacheSetWithRoom`).

### The texts

A request has one of two forms, `head /key` (`OneWord`) and `head /key/text`
(`TwoWords`), known position by position. `OneWordParsed` and `TwoWordsParsed`
find the places where each search of `act_on_message` stops, and so the words it
copies: the last one with the zero byte behind it. `WhatIsRead` shows that strip
leaves exactly the request however much of the stream has been read, whether one
zero byte follows it, two (a value that includes its own) or a line end (telnet);
`DatagramArrives` that the receive buffer shows the datagram up to its zero byte,
whatever is behind it. The inductive invariant `PathInv` says that the cache
holds the texts it should, each with a zero byte (`StoreInv`), and that their
answers fit the buffer (`HeldText`), without which an answer is lost or refused.
`POST memsize` keeps it because an empty cache is the only one that is replaced,
and no stored string is empty.

### Only model-checked

- Liveness (`RequestsServed`, `OthersReturn`): fairness and `ENABLED` are out of
  the prover's reach.
- The findings: each is a counterexample.

## Not modelled

- `asio/` (with the parts of boost it brings) and `json/`: third-party code and
  nearly all of the repository's lines. Of asio the models have the queue of
  completed operations, the passes of the reactor, the operations that are tried
  at once, the reads of `async_read_until` and the synchronous receive; of the JSON
  library that it refuses text that is not escaped. Left out of asio: how many
  bytes a read brings (the number of reads of a message is fixed by `Parts`, while
  the buffer's capacity and TCP's segments decide it in the program, so that a
  message above 512 bytes may take fewer or more), and events of epoll for a
  connection whose read is in the queue already. The program's own code is about
  800 lines.
- Keys so long that a message without a value takes several reads. They are
  overtaken in the same way as long values.
- Command-line parsing, port numbers and name resolution. (`telnet.sh` connects
  to port 9202, which is the server's default UDP port: its lines reach the TCP
  server only if that is started with `-p 9202`.)
- `cache_space_used` of the client (the constant 0), `tcp_connection::get_message`
  (never called), answers written to TCP connections (nobody reads them).
- A process that calls before the server listens; the kernel's limits on queues.
- `def_hash_fn`: a parameter, any function from keys to numbers.
- The tests and their helpers. (`test_helper.c:16` prints the key with the format
  `PRIu64`, without a `%`: every element of a test has the key `lu`, against
  `test_helper.h:15`. It bears on what the tests show, not on the program.)

## Plan

Every invariant, action property and refinement that a run checks has a theorem.
What could follow: `cache_get` after the last set (that its answer is the value
that stays, once the process has no write in flight), and the liveness
properties, for which the provers installed have no support.

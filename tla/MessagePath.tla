---------------------------- MODULE MessagePath -----------------------------
(***************************************************************************)
(* Keys and values on their way through the text format of MessageFormat:  *)
(* a process calls the client library, or a person uses telnet.sh, and the *)
(* server acts on one message at a time.  (Module NetCache has messages    *)
(* that overtake each other.)  The server's cache is a table of byte       *)
(* strings with room for everything.                                       *)
(***************************************************************************)
EXTENDS MessageFormat

CONSTANTS
  Keys, Values,  \* the keys, C strings, and values, buffers, of the calls
  Memsizes,      \* the capacities: "num", or "big" for one above LLONG_MAX
  Lines          \* what is typed into telnet

VARIABLES
  store,         \* the server's cache: from keys to the bytes stored
  recbuf,        \* the server's receive buffer for datagrams
  server,        \* "running", "exited" or, by an uncaught exception, "terminated"
  client,        \* "running", "blocked" in a call or "terminated"
  got,           \* the answer of the last call, if it was a cache_get
  expect         \* what the cache should hold: from keys to texts

vars == <<store, recbuf, server, client, got, expect>>

Empty == [k \in {} |-> <<>>]

With(f, key, val) ==
  [k \in DOMAIN f \union {key} |-> IF k = key THEN val ELSE f[k]]

Without(f, key) == [k \in DOMAIN f \ {key} |-> f[k]]

(* Whether cache_space_used is not zero.                                   *)
UsesSpace(s) == \E k \in DOMAIN s : s[k] # <<>>
-----------------------------------------------------------------------------
(* What a handler leaves: the cache, the server, and the answer it sends.  *)
Result(s, answers) == [store |-> s, server |-> "running", answers |-> answers]

ERROR == [error |-> TRUE, key |-> <<>>, value |-> <<>>]

ANSWER(j) == [error |-> FALSE, key |-> j.key, value |-> j.value]

Throws(s) == {[store |-> s, server |-> "terminated", answers |-> {}]}

get(key) ==
  IF c_str(key) \notin DOMAIN store THEN {Result(store, {ERROR})}
  ELSE UNION {IF make_json(key, text) = {} THEN Throws(store)
              ELSE {Result(store, {ANSWER(j)}) : j \in make_json(key, text)} :
                text \in BufferText(store[c_str(key)])}

put(key, value) == {Result(With(store, c_str(key), value), {})}

delete_(key) == {Result(Without(store, c_str(key)), {})}

(* stoll throws after the old cache has been destroyed.                    *)
post(post_type, extrainfo) ==
  CASE strip(post_type) = <<"shutdown">> ->
         {[store |-> Empty, server |-> "exited", answers |-> {}]}
    [] strip(post_type) = <<"memsize">> ->
         IF UsesSpace(store) THEN {Result(store, {ERROR})}
         ELSE IF extrainfo # <<>> /\ extrainfo[1] = "num" THEN {Result(Empty, {})}
         ELSE Throws(Empty)
    [] OTHER -> Throws(store)

act_on_message(message) ==
  IF Words(message) = {} THEN Throws(store)
  ELSE LET w == CHOOSE x \in Words(message) : TRUE
       IN  CASE w.fword = <<"GET">>    -> get(w.info1)
             [] w.fword = <<"PUT">>    -> put(w.info1, w.info2)
             [] w.fword = <<"DELETE">> -> delete_(w.info1)
             [] w.fword = <<"HEAD">>   -> {Result(store, {})}
             [] w.fword = <<"POST">>   -> post(w.info1, w.info2)
             [] OTHER                  -> Throws(store)

(* What came over a connection is stripped and acted on; an answer finds   *)
(* the connection closed.                                                  *)
handle_read(stream) ==
  /\ server = "running"
  /\ \E read \in Reads(stream) : \E r \in act_on_message(strip(read)) :
       store' = r.store /\ server' = r.server
  /\ got' = {}
  /\ UNCHANGED <<recbuf, client>>

(* What handle_receive does with the datagram now in buf.                  *)
handle_receive(buf) ==
  IF find(buf, "nul", 0) = npos THEN {Result(store, {ERROR})}
  ELSE act_on_message(strip(c_str(buf)))
-----------------------------------------------------------------------------
send_message_tcp(head, word1, word2) ==
  client = "running" /\ handle_read(Terminated(finstr(head, word1, word2)))

cache_set(key, val) ==
  IF Len(val) > bufsize
  THEN client = "running" /\ got' = {} /\ UNCHANGED <<store, recbuf, server, client, expect>>
  ELSE /\ send_message_tcp("PUT", key, val)
       /\ expect' = With(expect, key, c_str(val))

cache_delete(key) ==
  /\ send_message_tcp("DELETE", key, <<>>)
  /\ expect' = Without(expect, key)

create_cache(mem) ==
  /\ send_message_tcp("POST", <<"memsize">>, <<mem>>)
  /\ UNCHANGED expect

destroy_cache ==
  /\ send_message_tcp("POST", <<"shutdown">>, <<>>)
  /\ expect' = Empty

(* The answer, if one comes: a longer one than the buffer has lost its     *)
(* terminating zero and counts as ERROR, one longer than a datagram is not *)
(* sent.  Returned is {} for NULL, otherwise the value's text.             *)
get_message(key, a) ==
  IF a.error \/ LengthOf(a) > bufsize \/ a.key # key THEN {} ELSE {a.value}

cache_get(key) ==
  LET buf == Received(recbuf, Terminated(finstr("GET", key, <<>>)))
  IN  /\ client = "running" /\ server = "running"
      /\ recbuf' = buf
      /\ \E r \in handle_receive(buf) :
           /\ server' = r.server
           /\ LET sent == {a \in r.answers : a.error \/ LengthOf(a) <= MaxDatagram}
                  read == {a \in sent : a.error \/ LengthOf(a) > bufsize
                                          \/ unpack_json(a) # {}}
              IN  /\ got' = {[key |-> key, val |-> get_message(key, a)] : a \in read}
                  /\ client' = IF sent = {} THEN "blocked"
                               ELSE IF read = {} THEN "terminated" ELSE client
      /\ UNCHANGED <<store, expect>>

(* telnet sends the line and its end, and closes without a zero byte.      *)
telnet(line) ==
  /\ handle_read(Append(finstr(line.head, line.word1, line.word2), "nl"))
  /\ expect' = CASE line.head = "PUT" -> With(expect, line.word1, line.word2)
                 [] line.head = "DELETE" -> Without(expect, line.word1)
                 [] line.head = "POST" /\ line.word1 = <<"shutdown">> -> Empty
                 [] OTHER -> expect

(* The buffer is not initialised.                                          *)
run_server ==
  /\ server = "exited"
  /\ server' = "running"
  /\ recbuf' \in {[i \in 1..bufsize |-> c] : c \in {"a", "nul"}}
  /\ got' = {}
  /\ UNCHANGED <<store, client, expect>>

Init ==
  /\ store = Empty /\ expect = Empty /\ got = {}
  /\ recbuf \in {[i \in 1..bufsize |-> c] : c \in {"a", "nul"}}
  /\ server = "running" /\ client = "running"

Next ==
  \/ \E key \in Keys : \/ \E val \in Values : cache_set(key, val)
                       \/ cache_get(key)
                       \/ cache_delete(key)
  \/ \E mem \in Memsizes : create_cache(mem)
  \/ destroy_cache
  \/ \E line \in Lines : telnet(line)
  \/ run_server

Spec == Init /\ [][Next]_vars
-----------------------------------------------------------------------------
(* The keys and values that the format carries, among all texts: what the  *)
(* messages' own punctuation and strip leave alone.  A value may include   *)
(* its terminating zero, and is then a string of any length, otherwise it  *)
(* must not be empty.                                                      *)
Plain(s) == \A i \in 1..Len(s) : s[i] \notin {"quote", "nl", "nul"}

NotStripped(s) == s = <<>> \/ ~is_white_space(s[Len(s)])

CarriedKey(k) == Plain(k) /\ NotStripped(k) /\ find(k, "slash", 0) = npos

CarriedValue(v) ==
  /\ v # <<>>
  /\ v \in {c_str(v), Append(c_str(v), "nul")}
  /\ Plain(c_str(v)) /\ NotStripped(c_str(v))

(* Among them the ones whose request and answer fit a buffer.              *)
KeyFits(k) == k \in Seq(Symbols) /\ CarriedKey(k) /\ Len(k) + 4 <= bufsize

TextFits(k, text) == LengthOf([key |-> k, value |-> text]) <= bufsize

ValueFits(k, v) ==
  /\ v \in Seq(Symbols)
  /\ Len(v) > bufsize \/ (CarriedValue(v) /\ TextFits(k, c_str(v)))

(* The lines telnet.sh is made for.                                        *)
LineFits(line) ==
  \/ line.head \in {"GET", "HEAD", "DELETE"} /\ KeyFits(line.word1) /\ line.word2 = <<>>
  \/ /\ line.head = "PUT" /\ KeyFits(line.word1)
     /\ line.word2 \in Seq(Symbols) /\ line.word2 # <<>>
     /\ Plain(line.word2) /\ NotStripped(line.word2)
     /\ TextFits(line.word1, line.word2)
  \/ line.head = "POST" /\ line.word1 = <<"memsize">> /\ line.word2 = <<"num">>
  \/ line.head = "POST" /\ line.word1 = <<"shutdown">> /\ line.word2 = <<>>

(* What the invariants assume of the calls; a key with a slash breaks the  *)
(* first of them (run message_slash).                                      *)
CallsFit ==
  /\ \A k \in Keys : KeyFits(k) /\ \A v \in Values : ValueFits(k, v)
  /\ Memsizes \subseteq {"num"}
  /\ \A line \in Lines : LineFits(line)

(* cache_get returns, and returns the text set last for the key, or NULL   *)
(* if there is none: also when other keys were set, with values that       *)
(* contain slashes and spaces, by the library or by telnet.                *)
GetReturnsWhatWasSet ==
  /\ client = "running"
  /\ \A g \in got :
       g.val = IF g.key \in DOMAIN expect THEN {expect[g.key]} ELSE {}

(* Every value in the cache ends with its only zero byte, so that get,     *)
(* which takes the bytes for a C string, reads exactly them.               *)
StoredAreStrings ==
  \A k \in DOMAIN store : find(store[k], "nul", 0) = Len(store[k]) - 1

(* No message of the library or of telnet.sh makes the server throw, if    *)
(* keys and values are ones the format carries and capacities ones that    *)
(* stoll reads: it runs until it is shut down through ExitException.       *)
NoUncaughtException == server # "terminated"

(* The request read out of the buffer is the one that was sent, whatever   *)
(* longer ones the buffer has held before.                                 *)
NoStaleBytes ==
  \A g \in got : c_str(recbuf) = finstr("GET", g.key, <<>>)
=============================================================================

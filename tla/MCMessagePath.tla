--------------------------- MODULE MCMessagePath ----------------------------
(***************************************************************************)
(* MessagePath with short texts.  bufsize and MaxDatagram are as close to  *)
(* each other as 65504 and 65507 are, compared with the texts.             *)
(***************************************************************************)
EXTENDS MessagePath

MCSymbols ==
  {"GET", "PUT", "DELETE", "HEAD", "POST", "memsize", "shutdown", "num", "big",
   "space", "slash", "nl", "nul", "quote", "a", "b", "c"}

Texts(symbols, n) == UNION {[1..m -> symbols] : m \in 0..n}

CarriedKeys == {k \in Texts({"a", "space"}, 1) \union {<<"space", "a">>} : CarriedKey(k)}
CarriedValues ==
  {v \in Texts({"a", "slash", "nul"}, 2) : CarriedValue(v)}
    \union {[i \in 1..(bufsize + 1) |-> "a"]}

KeysWithSlash == {<<"a">>, <<"a", "slash", "a">>}
OneKey == {<<"a">>}
OneText == {<<"b">>}

TelnetLines ==
  {[head |-> "POST", word1 |-> <<"memsize">>, word2 |-> <<"num">>],
   [head |-> "PUT", word1 |-> <<"a">>, word2 |-> <<"b">>],
   [head |-> "GET", word1 |-> <<"a">>, word2 |-> <<>>],
   [head |-> "HEAD", word1 |-> <<"a">>, word2 |-> <<>>],
   [head |-> "DELETE", word1 |-> <<"a">>, word2 |-> <<>>],
   [head |-> "POST", word1 |-> <<"shutdown">>, word2 |-> <<>>]}
SomeJunk == {<<>>, <<"c">>}
InRange == {"num"}
None == {}
=============================================================================

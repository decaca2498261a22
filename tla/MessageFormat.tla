--------------------------- MODULE MessageFormat ----------------------------
(***************************************************************************)
(* How client.cpp writes a request as text, how server.cpp takes it apart  *)
(* again (with the helpers of user_con.hpp), and how an answer comes back. *)
(*                                                                         *)
(* A text is a sequence of symbols: a verb or a number is one symbol, "nul"*)
(* is the zero byte, "nl" a line end (\n or \r), "quote" any character that*)
(* JSON wants escaped, and "space", "slash", "a" and so on are characters. *)
(* Positions count from 0, as in the code.  A result that the code does    *)
(* not determine, or does not reach because something throws, is a set.    *)
(***************************************************************************)
EXTENDS Integers, Sequences, FiniteSetsExt

CONSTANTS
  Symbols,      \* what texts are made of
  bufsize,      \* the length of every receive buffer
  MaxDatagram,  \* the largest payload of a datagram
  JsonFrame,    \* the length of an answer's JSON text around key and value
  Junk          \* texts that memory behind a string may hold

(* "a" stands for a character that has no meaning.                         *)
ASSUME SymbolsOfTheFormat ==
  {"GET", "PUT", "DELETE", "HEAD", "POST", "memsize", "shutdown", "num",
   "space", "slash", "nl", "nul", "a"} \subseteq Symbols

npos == 1073741824    \* larger than any position; npos + 1 wraps to 0

(* Every text that fits a buffer fits a datagram.                          *)
ASSUME SizesOfBuffers ==
  /\ bufsize \in Nat /\ MaxDatagram \in Nat /\ JsonFrame \in Nat
  /\ bufsize <= MaxDatagram /\ 2 * MaxDatagram < npos

After(pos) == IF pos = npos THEN 0 ELSE pos + 1

find(s, c, from) ==
  LET at == {i \in from..(Len(s) - 1) : s[i+1] = c}
  IN  IF at = {} THEN npos ELSE Min(at)

is_white_space(c) == c \in {"nul", "space", "nl"}

(* A text of nothing but white space is left as it is.                     *)
strip(s) ==
  LET kept == {i \in 1..Len(s) : ~is_white_space(s[i])}
  IN  IF kept = {} THEN s ELSE SubSeq(s, 1, Max(kept))

(* What a function that takes a C string sees of a std::string ...         *)
c_str(s) == SubSeq(s, 1, Min({find(s, "nul", 0), Len(s)}))

(* ... and of a buffer, which need not hold a zero byte.                   *)
BufferText(b) ==
  IF find(b, "nul", 0) # npos THEN {c_str(b)} ELSE {b \o j : j \in Junk}

-----------------------------------------------------------------------------
(* A plausible slip: the space is forgotten.                               *)
finstr_NoSpace(head, word1, word2) ==
  <<head, "slash">> \o word1
    \o (IF word2 = <<>> THEN <<>> ELSE <<"slash">> \o word2)

finstr(head, word1, word2) ==
  <<head, "space", "slash">> \o word1
    \o (IF word2 = <<>> THEN <<>> ELSE <<"slash">> \o word2)

(* Both write_message functions add the zero byte.                         *)
Terminated_Not(s) == s
Terminated(s) == Append(s, "nul")

(* async_read_until completes when a zero byte has come; the buffer may    *)
(* hold more than that, as much as has come.  A peer that closes without   *)
(* one completes it too, and handle_read does not look at the error.       *)
Reads(stream) ==
  {SubSeq(stream, 1, n) : n \in Min({find(stream, "nul", 0) + 1, Len(stream)})..Len(stream)}

(* A datagram overwrites the front of the one receive buffer.              *)
Received(buf, datagram) ==
  [i \in 1..bufsize |-> IF i <= Len(datagram) THEN datagram[i] ELSE buf[i]]

(* Plausible slip: the last word ends before the terminating zero.         *)
end_of_line_Short(message) == Min({find(message, "nl", 0), Len(message)})

end_of_line(message) == Min({find(message, "nl", 0), Len(message) + 1})

(* act_on_message takes the message apart; begin + size is the zero byte   *)
(* behind it.  A range that ends before it begins throws length_error.     *)
Words(message) ==
  LET first_space  == find(message, "space", 0)
      first_slash  == find(message, "slash", After(first_space))
      second_slash == find(message, "slash", After(first_slash))
      end1         == Min({second_slash, end_of_line(message)})
      text         == Append(message, "nul")
  IN  IF \/ first_space = npos
         \/ end1 < After(first_slash)
         \/ second_slash # npos /\ end_of_line(message) < second_slash + 1
      THEN {}
      ELSE {[fword |-> SubSeq(text, 1, first_space),
             info1 |-> SubSeq(text, After(first_slash) + 1, end1),
             info2 |-> IF second_slash = npos THEN <<>>
                       ELSE SubSeq(text, second_slash + 2, end_of_line(message))]}

(* A plausible slip: the key keeps its terminating zero.                   *)
make_json_KeepsZero(key, value) == {[key |-> key, value |-> value]}

(* make_json drops the last character of the key, which is its terminating *)
(* zero if the message ended there; of an empty key there is none to drop. *)
make_json(key, value) ==
  IF key = <<>> THEN {}
  ELSE {[key |-> SubSeq(key, 1, Len(key) - 1), value |-> value]}

LengthOf(answer) == JsonFrame + Len(answer.key) + Len(answer.value) + 1

(* json::parse throws on a text that is not escaped.                       *)
unpack_json(answer) ==
  IF \E i \in 1..Len(answer.key \o answer.value) :
       (answer.key \o answer.value)[i] \in {"quote", "nl", "nul"}
  THEN {} ELSE {answer}
=============================================================================

------------------------- MODULE MessagePathProofs --------------------------
(***************************************************************************)
(* What a process sets comes back unchanged through the text format, for   *)
(* all texts the format carries, of any length that fits the buffers.      *)
(*                                                                         *)
(* A request is either "head /key" or "head /key/text".  The lemmas show   *)
(* where find stops in it, that strip takes exactly what was written       *)
(* behind it, and so which words the server acts on.                       *)
(***************************************************************************)
EXTENDS MessagePath, QueueFacts

Text == Seq(Symbols)

(* npos is beyond every position in a text that fits a buffer.             *)
LEMMA PositionsAreBelowNpos ==
  npos \in Nat /\ 16 < npos /\ bufsize \in Nat /\ bufsize + 16 < npos
BY SizesOfBuffers, SMT DEF npos
-----------------------------------------------------------------------------
(* The searches.                                                           *)
LEMMA LeastIsMin ==
  ASSUME NEW S, S \subseteq Int, NEW m \in S, \A y \in S : m <= y
  PROVE  Min(S) = m
<1>1. \E x \in S : \A y \in S : x <= y OBVIOUS
<1> DEFINE c == CHOOSE x \in S : \A y \in S : x <= y
<1>2. c \in S /\ \A y \in S : c <= y BY <1>1
<1> HIDE DEF c
<1>3. c = m
  <2>1. c <= m /\ m <= c /\ c \in Int /\ m \in Int BY <1>2
  <2> QED BY <2>1
<1> QED BY <1>3 DEF Min, c

LEMMA GreatestIsMax ==
  ASSUME NEW S, S \subseteq Int, NEW m \in S, \A y \in S : m >= y
  PROVE  Max(S) = m
<1>1. \E x \in S : \A y \in S : x >= y OBVIOUS
<1> DEFINE c == CHOOSE x \in S : \A y \in S : x >= y
<1>2. c \in S /\ \A y \in S : c >= y BY <1>1
<1> HIDE DEF c
<1>3. c = m
  <2>1. c >= m /\ m >= c /\ c \in Int /\ m \in Int BY <1>2
  <2> QED BY <2>1
<1> QED BY <1>3 DEF Max, c

LEMMA MinOfTwo ==
  ASSUME NEW a \in Int, NEW b \in Int
  PROVE  Min({a, b}) = IF a <= b THEN a ELSE b
<1> DEFINE m == IF a <= b THEN a ELSE b
           S == {a, b}
<1>1. S \subseteq Int /\ m \in S /\ \A y \in S : m <= y OBVIOUS
<1> HIDE DEF S, m
<1>2. Min(S) = m BY <1>1, LeastIsMin
<1> QED BY <1>2 DEF S, m

(* find stops at the first occurrence ...                                  *)
LEMMA FoundAt ==
  ASSUME NEW s \in Text, NEW c, NEW from \in Nat, NEW p \in from..(Len(s) - 1),
         s[p+1] = c, \A i \in from..(p - 1) : s[i+1] # c
  PROVE  find(s, c, from) = p
<1> DEFINE at == {i \in from..(Len(s) - 1) : s[i+1] = c}
<1>0. Len(s) \in Nat BY LenProperties DEF Text
<1>1. at \subseteq Int /\ p \in at BY <1>0
<1>2. ASSUME NEW y \in at PROVE p <= y
  <2>1. y \in from..(Len(s) - 1) /\ s[y+1] = c OBVIOUS
  <2>2. ~(y \in from..(p - 1)) BY <2>1
  <2> QED BY <2>1, <2>2, <1>0
<1>3. find(s, c, from) = IF at = {} THEN npos ELSE Min(at) BY DEF find
<1> HIDE DEF at
<1>4. Min(at) = p BY <1>1, <1>2, LeastIsMin
<1> QED BY <1>1, <1>3, <1>4

(* ... and says npos if there is none.                                     *)
LEMMA NotFound ==
  ASSUME NEW s \in Text, NEW c, NEW from \in Nat,
         \A i \in from..(Len(s) - 1) : s[i+1] # c
  PROVE  find(s, c, from) = npos
BY DEF find
-----------------------------------------------------------------------------
(* The front of a text.                                                    *)
Front(s, n, m) ==
  /\ m \in Text /\ Len(m) = n
  /\ \A i \in 1..n : m[i] = s[i]

LEMMA FrontIsSubSeq ==
  ASSUME NEW s \in Text, NEW n \in 0..Len(s)
  PROVE  Front(s, n, SubSeq(s, 1, n))
<1>0. Len(s) \in Nat /\ \A i \in 1..Len(s) : s[i] \in Symbols
  BY LenProperties, ElementOfSeq DEF Text
<1>1. \A i \in 1..n : s[i] \in Symbols BY <1>0
<1>2. n \in Int /\ 1 \in Int BY <1>0
<1>3. /\ SubSeq(s, 1, n) \in Seq(Symbols)
      /\ Len(SubSeq(s, 1, n)) = IF 1 <= n THEN n - 1 + 1 ELSE 0
      /\ \A i \in 1..(n - 1 + 1) : SubSeq(s, 1, n)[i] = s[1 + i - 1]
  BY <1>1, <1>2, SubSeqProperties
<1>4. n - 1 + 1 = n /\ Len(SubSeq(s, 1, n)) = n BY <1>3, <1>0
<1>5. ASSUME NEW i \in 1..n PROVE SubSeq(s, 1, n)[i] = s[i]
  <2>1. 1 + i - 1 = i BY <1>0
  <2> QED BY <1>3, <1>4, <2>1
<1> QED BY <1>3, <1>4, <1>5 DEF Front, Text

LEMMA FrontIsUnique ==
  ASSUME NEW s, NEW n, NEW m, NEW k, Front(s, n, m), Front(s, n, k)
  PROVE  m = k
<1>1. m \in Seq(Symbols) /\ k \in Seq(Symbols) /\ Len(m) = Len(k)
      /\ \A i \in 1..Len(m) : m[i] = k[i]
  BY DEF Front, Text
<1> QED BY <1>1, SeqEqual

(* strip takes away what is white behind the last character that is not.   *)
LEMMA StripsTheRest ==
  ASSUME NEW s \in Text, NEW n \in 1..Len(s), ~is_white_space(s[n]),
         \A i \in (n + 1)..Len(s) : is_white_space(s[i]),
         NEW m, Front(s, n, m)
  PROVE  strip(s) = m
<1> DEFINE kept == {i \in 1..Len(s) : ~is_white_space(s[i])}
<1>0. Len(s) \in Nat BY LenProperties DEF Text
<1>1. kept \subseteq Int /\ n \in kept /\ kept # {} OBVIOUS
<1>2. ASSUME NEW y \in kept PROVE n >= y
  <2>1. y \in 1..Len(s) /\ ~(y \in (n + 1)..Len(s)) OBVIOUS
  <2> QED BY <2>1, <1>0
<1>3. strip(s) = IF kept = {} THEN s ELSE SubSeq(s, 1, Max(kept)) BY DEF strip
<1> HIDE DEF kept
<1>4. Max(kept) = n BY <1>1, <1>2, GreatestIsMax
<1>5. strip(s) = SubSeq(s, 1, n) BY <1>1, <1>3, <1>4
<1>6. Front(s, n, SubSeq(s, 1, n)) BY <1>0, FrontIsSubSeq
<1> QED BY <1>5, <1>6, FrontIsUnique

(* A C string ends before the first zero byte ...                          *)
NoZero(m) == \A i \in 1..Len(m) : m[i] # "nul"

LEMMA EndsAtZero ==
  ASSUME NEW s \in Text, NEW m, NEW n \in 0..(Len(s) - 1), Front(s, n, m),
         NoZero(m), s[n + 1] = "nul", n < npos
  PROVE  find(s, "nul", 0) = n /\ c_str(s) = m
<1>0. Len(s) \in Nat /\ n \in Nat BY LenProperties DEF Text
<1>1. \A i \in 0..(n - 1) : s[i+1] # "nul"
  <2> TAKE i \in 0..(n - 1)
  <2>1. i + 1 \in 1..n BY <1>0
  <2> QED BY <2>1 DEF Front, NoZero
<1>2. find(s, "nul", 0) = n BY <1>0, <1>1, FoundAt
<1>3. Min({n, Len(s)}) = n BY <1>0, MinOfTwo
<1>4. c_str(s) = SubSeq(s, 1, n) BY <1>2, <1>3 DEF c_str
<1>5. Front(s, n, SubSeq(s, 1, n)) BY <1>0, FrontIsSubSeq
<1> QED BY <1>2, <1>4, <1>5, FrontIsUnique

(* ... and a text without one is all of it.                                *)
LEMMA WithoutZero ==
  ASSUME NEW m \in Text, NoZero(m), Len(m) < npos
  PROVE  c_str(m) = m
<1>0. Len(m) \in Nat /\ npos \in Nat BY LenProperties, PositionsAreBelowNpos DEF Text
<1>1. \A i \in 0..(Len(m) - 1) : m[i+1] # "nul"
  <2> TAKE i \in 0..(Len(m) - 1)
  <2>1. i + 1 \in 1..Len(m) BY <1>0
  <2> QED BY <2>1 DEF NoZero
<1>2. find(m, "nul", 0) = npos BY <1>1, NotFound
<1>3. Min({npos, Len(m)}) = Len(m) BY <1>0, MinOfTwo
<1>4. c_str(m) = SubSeq(m, 1, Len(m)) BY <1>2, <1>3 DEF c_str
<1>5. Front(m, Len(m), SubSeq(m, 1, Len(m))) BY <1>0, FrontIsSubSeq
<1>6. Front(m, Len(m), m) BY DEF Front
<1> QED BY <1>4, <1>5, <1>6, FrontIsUnique

(* A text with the zero byte behind it ...                                 *)
LEMMA AppendZero ==
  ASSUME NEW m \in Text
  PROVE  LET s == Append(m, "nul")
         IN  /\ s \in Text /\ Len(s) = Len(m) + 1 /\ s[Len(m) + 1] = "nul"
             /\ \A i \in 1..Len(m) : s[i] = m[i]
<1>1. m \in Seq(Symbols) /\ "nul" \in Symbols BY SymbolsOfTheFormat DEF Text
<1> QED BY <1>1, AppendProperties DEF Text

(* ... is a C string.                                                      *)
LEMMA Zeroed ==
  ASSUME NEW m \in Text, NoZero(m), Len(m) < npos
  PROVE  /\ Append(m, "nul") \in Text /\ Len(Append(m, "nul")) = Len(m) + 1
         /\ find(Append(m, "nul"), "nul", 0) = Len(m)
         /\ c_str(Append(m, "nul")) = m
<1> DEFINE s == Append(m, "nul")
<1>0. Len(m) \in Nat BY LenProperties DEF Text
<1>1. /\ s \in Seq(Symbols) /\ Len(s) = Len(m) + 1
      /\ \A i \in 1..Len(m) : s[i] = m[i]
      /\ s[Len(m) + 1] = "nul"
  BY AppendZero DEF Text
<1> HIDE DEF s
<1>2. Front(s, Len(m), m) BY <1>1 DEF Front
<1>3. s \in Text /\ Len(m) \in 0..(Len(s) - 1) BY <1>0, <1>1 DEF Text
<1>4. find(s, "nul", 0) = Len(m) /\ c_str(s) = m
  <2> DEFINE n == Len(m)
  <2>1. /\ s \in Text /\ n \in 0..(Len(s) - 1) /\ Front(s, n, m) /\ s[n + 1] = "nul"
        /\ n < npos
    BY <1>1, <1>2, <1>3
  <2> HIDE DEF n
  <2>2. find(s, "nul", 0) = n /\ c_str(s) = m BY <2>1, EndsAtZero
  <2> QED BY <2>2 DEF n
<1> QED BY <1>1, <1>3, <1>4 DEF s
-----------------------------------------------------------------------------
(* The two forms of a request.                                             *)
OneWord(m, head, k) ==
  /\ m \in Text /\ Len(m) = 3 + Len(k)
  /\ m[1] = head /\ m[2] = "space" /\ m[3] = "slash"
  /\ \A i \in 1..Len(k) : m[3 + i] = k[i]

TwoWords(m, head, k, v) ==
  /\ m \in Text /\ Len(m) = 4 + Len(k) + Len(v)
  /\ m[1] = head /\ m[2] = "space" /\ m[3] = "slash" /\ m[4 + Len(k)] = "slash"
  /\ \A i \in 1..Len(k) : m[3 + i] = k[i]
  /\ \A i \in 1..Len(v) : m[4 + Len(k) + i] = v[i]

Joined(head, k, v) == <<head, "space", "slash">> \o k \o (<<"slash">> \o v)

(* Texts of one and of three symbols.                                      *)
LEMMA ShortTexts ==
  /\ \A x \in Symbols : <<x>> \in Text /\ Len(<<x>>) = 1 /\ <<x>>[1] = x
  /\ \A x, y, z \in Symbols :
       /\ <<x, y, z>> \in Text /\ Len(<<x, y, z>>) = 3
       /\ <<x, y, z>>[1] = x /\ <<x, y, z>>[2] = y /\ <<x, y, z>>[3] = z
<1>1. ASSUME NEW x \in Symbols PROVE <<x>> \in Text BY DEF Text
<1>2. ASSUME NEW x \in Symbols, NEW y \in Symbols, NEW z \in Symbols
      PROVE  <<x, y, z>> \in Text
  BY DEF Text
<1> QED BY <1>1, <1>2

(* finstr writes these forms.                                              *)
LEMMA Begins ==
  ASSUME NEW head \in Symbols, NEW k \in Text
  PROVE  OneWord(<<head, "space", "slash">> \o k, head, k)
<1> DEFINE b == <<head, "space", "slash">>
           m == b \o k
<1>1. "space" \in Symbols /\ "slash" \in Symbols BY SymbolsOfTheFormat
<1>2. b \in Seq(Symbols) /\ Len(b) = 3 /\ b[1] = head /\ b[2] = "space" /\ b[3] = "slash"
  BY <1>1, ShortTexts, Zenon DEF Text
<1>3. k \in Seq(Symbols) /\ Len(k) \in Nat BY LenProperties DEF Text
<1> HIDE DEF b
<1>4. /\ m \in Seq(Symbols) /\ Len(m) = 3 + Len(k)
      /\ \A i \in 1..(3 + Len(k)) : m[i] = IF i <= 3 THEN b[i] ELSE k[i - 3]
  <2>1. /\ m \in Seq(Symbols) /\ Len(m) = Len(b) + Len(k)
        /\ \A i \in 1..(Len(b) + Len(k)) :
             m[i] = IF i <= Len(b) THEN b[i] ELSE k[i - Len(b)]
    BY <1>2, <1>3, ConcatProperties
  <2> HIDE DEF m
  <2> QED BY <2>1, <1>2
<1> HIDE DEF m
<1>5. m[1] = head /\ m[2] = "space" /\ m[3] = "slash"
  <2>1. 1 \in 1..(3 + Len(k)) /\ 2 \in 1..(3 + Len(k)) /\ 3 \in 1..(3 + Len(k))
    BY <1>3
  <2>2. m[1] = b[1] /\ m[2] = b[2] /\ m[3] = b[3] BY <2>1, <1>4
  <2> QED BY <2>2, <1>2
<1>6. ASSUME NEW i \in 1..Len(k) PROVE m[3 + i] = k[i]
  <2>1. 3 + i \in 1..(3 + Len(k)) /\ ~(3 + i <= 3) /\ (3 + i) - 3 = i BY <1>3
  <2> QED BY <2>1, <1>4
<1>7. OneWord(m, head, k) BY <1>4, <1>5, <1>6 DEF OneWord, Text
<1> QED BY <1>7 DEF m, b

LEMMA OneWordWritten ==
  ASSUME NEW head \in Symbols, NEW k \in Text
  PROVE  OneWord(finstr(head, k, <<>>), head, k)
<1> DEFINE m == <<head, "space", "slash">> \o k
<1>1. OneWord(m, head, k) BY Begins
<1>2. finstr(head, k, <<>>) = m \o <<>> BY DEF finstr
<1> HIDE DEF m
<1>3. m \in Seq(Symbols) BY <1>1 DEF OneWord, Text
<1>4. m \o <<>> = m BY <1>3, ConcatEmptySeq
<1> QED BY <1>1, <1>2, <1>4

LEMMA TwoWordsWritten ==
  ASSUME NEW head \in Symbols, NEW k \in Text, NEW v \in Text
  PROVE  /\ TwoWords(Joined(head, k, v), head, k, v)
         /\ v # <<>> => finstr(head, k, v) = Joined(head, k, v)
<1> DEFINE a == <<head, "space", "slash">> \o k
           w == <<"slash">>
           e == w \o v
           m == a \o e
           n == Len(k)
<1>1. OneWord(a, head, k) BY Begins
<1>2. k \in Seq(Symbols) /\ v \in Seq(Symbols) /\ n \in Nat /\ Len(v) \in Nat
  BY LenProperties DEF Text
<1>3. w \in Seq(Symbols) /\ Len(w) = 1 /\ w[1] = "slash"
  <2>1. "slash" \in Symbols BY SymbolsOfTheFormat
  <2> QED BY <2>1, ShortTexts, Zenon DEF Text
<1> HIDE DEF a, w
<1>4. /\ e \in Seq(Symbols) /\ Len(e) = 1 + Len(v)
      /\ \A i \in 1..(1 + Len(v)) : e[i] = IF i <= 1 THEN w[i] ELSE v[i - 1]
  <2>1. /\ e \in Seq(Symbols) /\ Len(e) = Len(w) + Len(v)
        /\ \A i \in 1..(Len(w) + Len(v)) :
             e[i] = IF i <= Len(w) THEN w[i] ELSE v[i - Len(w)]
    BY <1>2, <1>3, ConcatProperties
  <2> HIDE DEF e
  <2> QED BY <2>1, <1>3
<1> HIDE DEF e
<1>5. a \in Seq(Symbols) /\ Len(a) = 3 + n BY <1>1 DEF OneWord, Text
<1> HIDE DEF n
<1>6. /\ m \in Seq(Symbols) /\ Len(m) = Len(a) + Len(e)
      /\ \A i \in 1..(Len(a) + Len(e)) : m[i] = IF i <= Len(a) THEN a[i] ELSE e[i - Len(a)]
  BY <1>4, <1>5, ConcatProperties
<1>7. /\ Len(m) = 4 + n + Len(v)
      /\ \A i \in 1..(3 + n) : m[i] = a[i]
      /\ \A i \in 1..(1 + Len(v)) : m[3 + n + i] = e[i]
  <2>1. Len(m) = 4 + n + Len(v) BY <1>2, <1>4, <1>5, <1>6
  <2>2. ASSUME NEW i \in 1..(3 + n) PROVE m[i] = a[i]
    <3>1. i \in 1..(Len(a) + Len(e)) /\ i <= Len(a) BY <1>2, <1>4, <1>5
    <3> QED BY <3>1, <1>6
  <2>3. ASSUME NEW i \in 1..(1 + Len(v)) PROVE m[3 + n + i] = e[i]
    <3>1. /\ 3 + n + i \in 1..(Len(a) + Len(e)) /\ ~(3 + n + i <= Len(a))
          /\ (3 + n + i) - Len(a) = i
      BY <1>2, <1>4, <1>5
    <3> QED BY <3>1, <1>6
  <2> QED BY <2>1, <2>2, <2>3
<1> HIDE DEF m
<1>8. m[1] = head /\ m[2] = "space" /\ m[3] = "slash" /\ \A i \in 1..n : m[3 + i] = k[i]
  <2>1. 1 \in 1..(3 + n) /\ 2 \in 1..(3 + n) /\ 3 \in 1..(3 + n)
        /\ \A i \in 1..n : 3 + i \in 1..(3 + n)
    BY <1>2
  <2> QED BY <2>1, <1>1, <1>7 DEF OneWord, n
<1>9. m[4 + n] = "slash"
  <2>1. 1 \in 1..(1 + Len(v)) /\ 3 + n + 1 = 4 + n BY <1>2
  <2> QED BY <2>1, <1>3, <1>4, <1>7
<1>10. ASSUME NEW i \in 1..Len(v) PROVE m[4 + n + i] = v[i]
  <2>1. /\ 1 + i \in 1..(1 + Len(v)) /\ 3 + n + (1 + i) = 4 + n + i
        /\ ~(1 + i <= 1) /\ (1 + i) - 1 = i
    BY <1>2
  <2> QED BY <2>1, <1>4, <1>7
<1>11. TwoWords(m, head, k, v)
  BY <1>6, <1>7, <1>8, <1>9, <1>10 DEF TwoWords, Text, n
<1>12. m = Joined(head, k, v) BY DEF m, a, e, w, Joined
<1>13. v # <<>> => finstr(head, k, v) = Joined(head, k, v) BY DEF finstr, Joined
<1> QED BY <1>11, <1>12, <1>13
-----------------------------------------------------------------------------
(* The words that act_on_message finds in a request.                       *)
Slice(s, a, b, x) ==
  /\ s \in Text /\ x \in Text
  /\ a \in Nat \ {0} /\ b \in 0..Len(s) /\ Len(x) = b - a + 1
  /\ \A i \in 1..Len(x) : x[i] = s[a + i - 1]

LEMMA SliceIsSubSeq ==
  ASSUME NEW s, NEW a, NEW b, NEW x, Slice(s, a, b, x)
  PROVE  SubSeq(s, a, b) = x
<1> DEFINE y == SubSeq(s, a, b)
<1>0. /\ s \in Seq(Symbols) /\ x \in Seq(Symbols) /\ Len(s) \in Nat /\ Len(x) \in Nat
      /\ \A i \in 1..Len(s) : s[i] \in Symbols
      /\ a \in Nat \ {0} /\ b \in 0..Len(s) /\ Len(x) = b - a + 1
      /\ \A i \in 1..Len(x) : x[i] = s[a + i - 1]
  BY LenProperties, ElementOfSeq DEF Slice, Text
<1>1. a \in Int /\ b \in Int /\ \A i \in a..b : i \in 1..Len(s) BY <1>0
<1>2. \A i \in a..b : s[i] \in Symbols BY <1>0, <1>1
<1>3. /\ y \in Seq(Symbols) /\ Len(y) = IF a <= b THEN b - a + 1 ELSE 0
      /\ \A i \in 1..(b - a + 1) : y[i] = s[a + i - 1]
  BY <1>1, <1>2, SubSeqProperties
<1> HIDE DEF y
<1>4. Len(y) = Len(x) BY <1>0, <1>3
<1>5. \A i \in 1..Len(y) : y[i] = x[i] BY <1>0, <1>3, <1>4
<1>6. y = x BY <1>0, <1>3, <1>4, <1>5, SeqEqual
<1> QED BY <1>6 DEF y

Verbs == {"GET", "PUT", "DELETE", "HEAD", "POST"}

IsWord(k) == k \in Text /\ \A i \in 1..Len(k) : k[i] \notin {"nl", "nul", "slash"}

IsLastWord(t) == t \in Text /\ \A i \in 1..Len(t) : t[i] \notin {"nl", "nul"}

ParsedAs(m, head, info1, info2) ==
  Words(m) = {[fword |-> <<head>>, info1 |-> info1, info2 |-> info2]}

LEMMA VerbsAreSymbols ==
  ASSUME NEW head \in Verbs
  PROVE  head \in Symbols /\ head # "space" /\ head # "nl" /\ head # "nul"
<1>1. Verbs \subseteq Symbols BY SymbolsOfTheFormat DEF Verbs
<1>2. head # "space" /\ head # "nl" /\ head # "nul" BY DEF Verbs
<1> QED BY <1>1, <1>2

(* Of "head /key" act_on_message takes the key with its zero byte ...      *)
LEMMA OneWordParsed ==
  ASSUME NEW m, NEW head \in Verbs, NEW k, OneWord(m, head, k), IsWord(k),
         Len(m) + 1 < npos
  PROVE  ParsedAs(m, head, Append(k, "nul"), <<>>)
<1> DEFINE n == Len(k)
           text == Append(m, "nul")
           key == Append(k, "nul")
<1>0. /\ n \in Nat /\ k \in Text /\ m \in Text /\ Len(m) = 3 + n /\ npos \in Nat
      /\ m[1] = head /\ m[2] = "space" /\ m[3] = "slash" /\ \A i \in 1..n : m[3 + i] = k[i]
      /\ \A i \in 1..n : k[i] # "nl" /\ k[i] # "nul" /\ k[i] # "slash"
      /\ head \in Symbols /\ head # "space" /\ head # "nl" /\ "nul" \in Symbols
  <2>1. k \in Text BY DEF IsWord
  <2>2. n \in Nat /\ npos \in Nat BY <2>1, LenProperties, PositionsAreBelowNpos DEF Text
  <2> QED BY <2>1, <2>2, VerbsAreSymbols, SymbolsOfTheFormat DEF OneWord, IsWord
<1> HIDE DEF n, text, key
<1>1. find(m, "space", 0) = 1
  <2>1. 1 \in 0..(Len(m) - 1) /\ m[1 + 1] = "space" /\ \A i \in 0..(1 - 1) : m[i + 1] # "space"
    BY <1>0
  <2> QED BY <1>0, <2>1, FoundAt
<1>2. find(m, "slash", 2) = 2
  <2>1. 2 \in 2..(Len(m) - 1) /\ m[2 + 1] = "slash" /\ \A i \in 2..(2 - 1) : m[i + 1] # "slash"
    BY <1>0
  <2> QED BY <1>0, <2>1, FoundAt
<1>3. find(m, "slash", 3) = npos
  <2>1. ASSUME NEW i \in 3..(Len(m) - 1) PROVE m[i + 1] # "slash"
    <3>1. i - 2 \in 1..n /\ 3 + (i - 2) = i + 1 BY <1>0
    <3> QED BY <3>1, <1>0
  <2> QED BY <1>0, <2>1, NotFound
<1>4. find(m, "nl", 0) = npos
  <2>1. ASSUME NEW i \in 0..(Len(m) - 1) PROVE m[i + 1] # "nl"
    <3>1. i + 1 \in {1, 2, 3} \/ (i - 2 \in 1..n /\ 3 + (i - 2) = i + 1) BY <1>0
    <3> QED BY <3>1, <1>0
  <2> QED BY <1>0, <2>1, NotFound
<1>5. end_of_line(m) = 4 + n
  <2>1. Min({npos, Len(m) + 1}) = Len(m) + 1 BY <1>0, MinOfTwo
  <2>2. end_of_line(m) = Min({npos, Len(m) + 1}) BY <1>4 DEF end_of_line
  <2>3. Len(m) + 1 = 4 + n BY <1>0
  <2> QED BY <2>1, <2>2, <2>3
<1>6. Min({npos, 4 + n}) = 4 + n BY <1>0, MinOfTwo
<1>7. After(1) = 2 /\ After(2) = 3 BY PositionsAreBelowNpos DEF After
<1>8. Words(m) = {[fword |-> SubSeq(text, 1, 1), info1 |-> SubSeq(text, 4, 4 + n),
                   info2 |-> <<>>]}
  <2>1. 1 # npos /\ ~(4 + n < 3) BY <1>0, PositionsAreBelowNpos
  <2>2. After(2) + 1 = 4 BY <1>7
  <2> QED BY <1>1, <1>2, <1>3, <1>5, <1>6, <1>7, <2>1, <2>2 DEF Words, text
<1>9. /\ text \in Text /\ Len(text) = 4 + n /\ text[4 + n] = "nul"
      /\ \A i \in 1..(3 + n) : text[i] = m[i]
  <2>1. m \in Seq(Symbols) BY <1>0 DEF Text
  <2>2. /\ text \in Seq(Symbols) /\ Len(text) = Len(m) + 1 /\ text[Len(m) + 1] = "nul"
        /\ \A i \in 1..Len(m) : text[i] = m[i]
    BY <2>1, <1>0, AppendProperties DEF text
  <2> QED BY <2>2, <1>0 DEF Text
<1>10. /\ key \in Text /\ Len(key) = n + 1 /\ key[n + 1] = "nul"
       /\ \A i \in 1..n : key[i] = k[i]
  <2>1. k \in Seq(Symbols) BY <1>0 DEF Text
  <2>2. /\ key \in Seq(Symbols) /\ Len(key) = Len(k) + 1 /\ key[Len(k) + 1] = "nul"
        /\ \A i \in 1..Len(k) : key[i] = k[i]
    BY <2>1, <1>0, AppendProperties DEF key
  <2> QED BY <2>2 DEF Text, n
<1>11. SubSeq(text, 1, 1) = <<head>>
  <2> DEFINE x == <<head>>
  <2>1. x \in Text /\ Len(x) = 1 /\ x[1] = head BY <1>0, ShortTexts, Zenon
  <2> HIDE DEF x
  <2>2. text[1] = head BY <1>0, <1>9
  <2>3. Slice(text, 1, 1, x) BY <1>0, <1>9, <2>1, <2>2 DEF Slice
  <2>4. SubSeq(text, 1, 1) = x BY <2>3, SliceIsSubSeq
  <2> QED BY <2>4 DEF x
<1>12. SubSeq(text, 4, 4 + n) = key
  <2>1. ASSUME NEW i \in 1..(n + 1) PROVE key[i] = text[4 + i - 1]
    <3>1. 4 + i - 1 = 3 + i BY <1>0
    <3>2. CASE i = n + 1
      <4>1. 3 + i = 4 + n BY <3>2, <1>0
      <4> QED BY <4>1, <3>1, <3>2, <1>9, <1>10
    <3>3. CASE i # n + 1
      <4>1. i \in 1..n /\ 3 + i \in 1..(3 + n) BY <3>3, <1>0
      <4> QED BY <4>1, <3>1, <1>0, <1>9, <1>10
    <3> QED BY <3>2, <3>3
  <2>2. 4 \in Nat \ {0} /\ 4 + n \in 0..Len(text) /\ Len(key) = (4 + n) - 4 + 1
    BY <1>0, <1>9, <1>10
  <2>3. Slice(text, 4, 4 + n, key) BY <2>1, <2>2, <1>9, <1>10 DEF Slice
  <2> QED BY <2>3, SliceIsSubSeq
<1> QED BY <1>8, <1>11, <1>12 DEF ParsedAs, key

(* ... and of "head /key/text" the key, and the text with its zero byte.   *)
LEMMA TwoWordsParsed ==
  ASSUME NEW m, NEW head \in Verbs, NEW k, NEW v, TwoWords(m, head, k, v),
         IsWord(k), IsLastWord(v), Len(m) + 1 < npos
  PROVE  ParsedAs(m, head, k, Append(v, "nul"))
<1> DEFINE n == Len(k)
           l == Len(v)
           text == Append(m, "nul")
           val == Append(v, "nul")
<1>0. /\ n \in Nat /\ l \in Nat /\ npos \in Nat
      /\ k \in Text /\ v \in Text /\ m \in Text /\ Len(m) = 4 + n + l
      /\ m[1] = head /\ m[2] = "space" /\ m[3] = "slash" /\ m[4 + n] = "slash"
      /\ \A i \in 1..n : m[3 + i] = k[i]
      /\ \A i \in 1..l : m[4 + n + i] = v[i]
      /\ \A i \in 1..n : k[i] # "nl" /\ k[i] # "slash"
      /\ \A i \in 1..l : v[i] # "nl"
      /\ head \in Symbols /\ head # "space" /\ head # "nl"
  <2>1. k \in Text /\ v \in Text BY DEF IsWord, IsLastWord
  <2>2. n \in Nat /\ l \in Nat /\ npos \in Nat BY <2>1, LenProperties, PositionsAreBelowNpos DEF Text
  <2> QED BY <2>1, <2>2, VerbsAreSymbols DEF TwoWords, IsWord, IsLastWord
<1>00. /\ text \in Text /\ Len(text) = Len(m) + 1 /\ text[Len(m) + 1] = "nul"
       /\ \A i \in 1..Len(m) : text[i] = m[i]
  BY <1>0, AppendZero
<1>01. /\ val \in Text /\ Len(val) = l + 1 /\ val[l + 1] = "nul"
       /\ \A i \in 1..l : val[i] = v[i]
  BY <1>0, AppendZero
<1>02. n = Len(k) OBVIOUS
<1> HIDE DEF n, l, text, val
<1>1. find(m, "space", 0) = 1
  <2>1. /\ 1 \in 0..(Len(m) - 1) /\ m[1 + 1] = "space"
        /\ \A i \in 0..(1 - 1) : m[i + 1] # "space"
    BY <1>0
  <2> QED BY <1>0, <2>1, FoundAt
<1>2. find(m, "slash", 2) = 2
  <2>1. /\ 2 \in 2..(Len(m) - 1) /\ m[2 + 1] = "slash"
        /\ \A i \in 2..(2 - 1) : m[i + 1] # "slash"
    BY <1>0
  <2> QED BY <1>0, <2>1, FoundAt
<1>3. find(m, "slash", 3) = 3 + n
  <2>1. ASSUME NEW i \in 3..((3 + n) - 1) PROVE m[i + 1] # "slash"
    <3>1. i - 2 \in 1..n /\ 3 + (i - 2) = i + 1 BY <1>0
    <3> QED BY <3>1, <1>0
  <2>2. 3 + n \in 3..(Len(m) - 1) /\ (3 + n) + 1 = 4 + n BY <1>0
  <2> QED BY <1>0, <2>1, <2>2, FoundAt
<1>4. find(m, "nl", 0) = npos
  <2>1. ASSUME NEW i \in 0..(Len(m) - 1) PROVE m[i + 1] # "nl"
    <3>1. \/ i + 1 \in {1, 2, 3, 4 + n}
          \/ i - 2 \in 1..n /\ 3 + (i - 2) = i + 1
          \/ i - (3 + n) \in 1..l /\ 4 + n + (i - (3 + n)) = i + 1
      BY <1>0
    <3> QED BY <3>1, <1>0
  <2> QED BY <1>0, <2>1, NotFound
<1>5. end_of_line(m) = 5 + n + l
  <2>1. Min({npos, Len(m) + 1}) = Len(m) + 1 BY <1>0, MinOfTwo
  <2>2. end_of_line(m) = Min({npos, Len(m) + 1}) BY <1>4 DEF end_of_line
  <2>3. Len(m) + 1 = 5 + n + l BY <1>0
  <2> QED BY <2>1, <2>2, <2>3
<1>6. Min({3 + n, 5 + n + l}) = 3 + n
  <2>1. 3 + n \in Int /\ 5 + n + l \in Int /\ 3 + n <= 5 + n + l BY <1>0
  <2> QED BY <2>1, MinOfTwo
<1>7. After(1) = 2 /\ After(2) = 3 BY PositionsAreBelowNpos DEF After
<1>8. Words(m) = {[fword |-> SubSeq(text, 1, 1), info1 |-> SubSeq(text, 4, 3 + n),
                   info2 |-> SubSeq(text, 5 + n, 5 + n + l)]}
  <2>1. /\ 1 # npos /\ ~(3 + n < 3) /\ 3 + n # npos
        /\ ~(5 + n + l < (3 + n) + 1) /\ (3 + n) + 2 = 5 + n
    BY <1>0, PositionsAreBelowNpos
  <2>2. After(2) + 1 = 4 BY <1>7
  <2> QED BY <1>1, <1>2, <1>3, <1>5, <1>6, <1>7, <2>1, <2>2 DEF Words, text
<1>9. SubSeq(text, 1, 1) = <<head>>
  <2> DEFINE x == <<head>>
  <2>1. x \in Text /\ Len(x) = 1 /\ x[1] = head BY <1>0, ShortTexts, Zenon
  <2> HIDE DEF x
  <2>2. text[1] = head BY <1>0, <1>00
  <2>3. Slice(text, 1, 1, x) BY <1>0, <1>00, <2>1, <2>2 DEF Slice
  <2>4. SubSeq(text, 1, 1) = x BY <2>3, SliceIsSubSeq
  <2> QED BY <2>4 DEF x
<1>10. SubSeq(text, 4, 3 + n) = k
  <2>1. ASSUME NEW i \in 1..n PROVE k[i] = text[4 + i - 1]
    <3>1. 4 + i - 1 = 3 + i /\ 3 + i \in 1..Len(m) BY <1>0
    <3> QED BY <3>1, <1>0, <1>00
  <2>2. 4 \in Nat \ {0} /\ 3 + n \in 0..Len(text) /\ Len(k) = (3 + n) - 4 + 1
    BY <1>0, <1>00, <1>02
  <2>3. Slice(text, 4, 3 + n, k) BY <2>1, <2>2, <1>0, <1>00, <1>02 DEF Slice
  <2> QED BY <2>3, SliceIsSubSeq
<1>11. SubSeq(text, 5 + n, 5 + n + l) = val
  <2>1. ASSUME NEW i \in 1..(l + 1) PROVE val[i] = text[(5 + n) + i - 1]
    <3>1. (5 + n) + i - 1 = 4 + n + i BY <1>0
    <3>2. CASE i = l + 1
      <4>1. 4 + n + i = Len(m) + 1 BY <3>2, <1>0
      <4> QED BY <4>1, <3>1, <3>2, <1>00, <1>01
    <3>3. CASE i # l + 1
      <4>1. i \in 1..l /\ 4 + n + i \in 1..Len(m) BY <3>3, <1>0
      <4> QED BY <4>1, <3>1, <1>0, <1>00, <1>01
    <3> QED BY <3>2, <3>3
  <2>2. /\ 5 + n \in Nat \ {0} /\ 5 + n + l \in 0..Len(text)
        /\ Len(val) = (5 + n + l) - (5 + n) + 1
    BY <1>0, <1>00, <1>01
  <2>3. Slice(text, 5 + n, 5 + n + l, val) BY <2>1, <2>2, <1>00, <1>01 DEF Slice
  <2> QED BY <2>3, SliceIsSubSeq
<1> QED BY <1>8, <1>9, <1>10, <1>11 DEF ParsedAs, val
-----------------------------------------------------------------------------
(* A request on its way: whatever the server has read when it acts, strip  *)
(* leaves the request.                                                     *)
IsRequest(m) ==
  /\ m \in Text /\ Len(m) \in Nat \ {0} /\ NoZero(m)
  /\ ~is_white_space(m[Len(m)])

Followed(st, m) ==
  /\ st \in Text /\ Len(m) < Len(st) /\ Len(st) < npos
  /\ \A i \in 1..Len(m) : st[i] = m[i]
  /\ \/ \A i \in (Len(m) + 1)..Len(st) : st[i] = "nul"
     \/ Len(st) = Len(m) + 1 /\ st[Len(m) + 1] = "nl"

LEMMA StrippedAsItIs ==
  ASSUME NEW m, IsRequest(m)
  PROVE  strip(m) = m
<1>1. /\ m \in Text /\ Len(m) \in 1..Len(m) /\ ~is_white_space(m[Len(m)])
      /\ \A i \in (Len(m) + 1)..Len(m) : is_white_space(m[i])
  BY DEF IsRequest
<1>2. Front(m, Len(m), m) BY DEF Front, IsRequest
<1> DEFINE n == Len(m)
<1>3. n = Len(m) OBVIOUS
<1> HIDE DEF n
<1>4. /\ n \in 1..Len(m) /\ ~is_white_space(m[n]) /\ Front(m, n, m)
      /\ \A i \in (n + 1)..Len(m) : is_white_space(m[i])
  BY <1>1, <1>2, <1>3
<1> QED BY <1>1, <1>4, StripsTheRest

LEMMA WhatIsRead ==
  ASSUME NEW m, NEW st, IsRequest(m), Followed(st, m), NEW r \in Reads(st)
  PROVE  strip(r) = m
<1> DEFINE n == Len(m)
<1>0. /\ m \in Text /\ st \in Text /\ n \in Nat \ {0} /\ Len(st) \in Nat /\ npos \in Nat
      /\ n < Len(st) /\ Len(st) < npos /\ \A i \in 1..n : st[i] = m[i]
      /\ \A i \in 1..n : m[i] # "nul"
      /\ ~is_white_space(m[n]) /\ n = Len(m)
  <2>1. st \in Text BY DEF Followed
  <2>2. Len(st) \in Nat BY <2>1, LenProperties DEF Text
  <2> QED BY <2>2, PositionsAreBelowNpos DEF Followed, IsRequest, NoZero
<1>1. Front(st, n, m) BY <1>0 DEF Front
<1> HIDE DEF n
<1> DEFINE from == Min({find(st, "nul", 0) + 1, Len(st)})
<1>2. PICK e \in from..Len(st) : r = SubSeq(st, 1, e) BY DEF Reads
<1>3. from > n /\ from \in Nat
  <2>1. CASE \A i \in (n + 1)..Len(st) : st[i] = "nul"
    <3>1. st[n + 1] = "nul" /\ n \in 0..(Len(st) - 1) /\ n < npos BY <2>1, <1>0
    <3>2. find(st, "nul", 0) = n
      BY <3>1, <1>0, <1>1, EndsAtZero DEF NoZero
    <3>3. Min({n + 1, Len(st)}) = n + 1 BY <1>0, MinOfTwo
    <3>4. from = n + 1 BY <3>2, <3>3
    <3> HIDE DEF from
    <3> QED BY <3>4, <1>0
  <2>2. CASE Len(st) = n + 1 /\ st[n + 1] = "nl"
    <3>1. ASSUME NEW i \in 0..(Len(st) - 1) PROVE st[i + 1] # "nul"
      <4>1. i + 1 \in 1..n \/ i + 1 = n + 1 BY <2>2, <1>0
      <4> QED BY <4>1, <2>2, <1>0
    <3>2. find(st, "nul", 0) = npos BY <3>1, <1>0, NotFound
    <3>3. npos + 1 \in Int /\ Len(st) \in Int /\ ~(npos + 1 <= Len(st)) BY <1>0
    <3>4. Min({npos + 1, Len(st)}) = Len(st) BY <3>3, MinOfTwo
    <3>5. from = Len(st) BY <3>2, <3>4
    <3> HIDE DEF from
    <3> QED BY <3>5, <2>2, <1>0
  <2> QED BY <2>1, <2>2, <1>0 DEF Followed
<1>4. e \in n..Len(st) /\ e \in 0..Len(st) /\ e > n
  <2> HIDE DEF from
  <2> QED BY <1>2, <1>3, <1>0
<1>5. Front(st, e, r) BY <1>0, <1>2, <1>4, FrontIsSubSeq
<1>6. r \in Text /\ Len(r) = e /\ \A i \in 1..e : r[i] = st[i] BY <1>5 DEF Front
<1>7. Front(r, n, m)
  <2>1. \A i \in 1..n : i \in 1..e BY <1>4, <1>0
  <2> QED BY <2>1, <1>0, <1>1, <1>6 DEF Front
<1>8. n \in 1..Len(r) /\ ~is_white_space(r[n])
  <2>1. n \in 1..e /\ n \in 1..n BY <1>0, <1>4
  <2> QED BY <2>1, <1>0, <1>6
<1>9. ASSUME NEW i \in (n + 1)..Len(r) PROVE is_white_space(r[i])
  <2>1. i \in 1..e /\ i \in (n + 1)..Len(st) /\ r[i] = st[i] BY <1>0, <1>4, <1>6
  <2>2. st[i] \in {"nul", "nl"}
    <3>1. CASE \A j \in (n + 1)..Len(st) : st[j] = "nul" BY <3>1, <2>1
    <3>2. CASE Len(st) = n + 1 /\ st[n + 1] = "nl"
      <4>1. i = n + 1 BY <3>2, <2>1, <1>0
      <4> QED BY <4>1, <3>2
    <3> QED BY <3>1, <3>2, <1>0 DEF Followed
  <2> QED BY <2>1, <2>2 DEF is_white_space
<1> QED BY <1>6, <1>7, <1>8, <1>9, StripsTheRest

(* A request of either form ends with its last word or a slash.            *)
LEMMA OneWordIsRequest ==
  ASSUME NEW m, NEW head \in Verbs, NEW k, OneWord(m, head, k), IsWord(k),
         NotStripped(k)
  PROVE  IsRequest(m)
<1> DEFINE n == Len(k)
<1>0. /\ n \in Nat /\ k \in Text /\ m \in Text /\ Len(m) = 3 + n
      /\ m[1] = head /\ m[2] = "space" /\ m[3] = "slash"
      /\ \A i \in 1..n : m[3 + i] = k[i]
      /\ \A i \in 1..n : k[i] # "nul"
      /\ head # "nul"
  <2>1. k \in Text BY DEF IsWord
  <2>2. n \in Nat BY <2>1, LenProperties DEF Text
  <2> QED BY <2>1, <2>2, VerbsAreSymbols DEF OneWord, IsWord
<1>1. n # 0 => ~is_white_space(k[n]) BY <1>0, EmptySeq DEF NotStripped, Text
<1> HIDE DEF n
<1>2. ASSUME NEW i \in 1..Len(m) PROVE m[i] # "nul"
  <2>1. i \in {1, 2, 3} \/ (i - 3 \in 1..n /\ 3 + (i - 3) = i) BY <1>0
  <2> QED BY <2>1, <1>0
<1>3. ~is_white_space(m[Len(m)])
  <2>1. CASE n = 0
    <3>1. m[Len(m)] = "slash" BY <2>1, <1>0
    <3> QED BY <3>1 DEF is_white_space
  <2>2. CASE n # 0
    <3>1. n \in 1..n BY <2>2, <1>0
    <3> QED BY <3>1, <2>2, <1>0, <1>1
  <2> QED BY <2>1, <2>2
<1> QED BY <1>0, <1>2, <1>3 DEF IsRequest, NoZero

LEMMA TwoWordsIsRequest ==
  ASSUME NEW m, NEW head \in Verbs, NEW k, NEW v, TwoWords(m, head, k, v),
         IsWord(k), IsLastWord(v), NotStripped(v)
  PROVE  IsRequest(m)
<1> DEFINE n == Len(k)
           l == Len(v)
<1>0. /\ n \in Nat /\ l \in Nat
      /\ k \in Text /\ v \in Text /\ m \in Text /\ Len(m) = 4 + n + l
      /\ m[1] = head /\ m[2] = "space" /\ m[3] = "slash" /\ m[4 + n] = "slash"
      /\ \A i \in 1..n : m[3 + i] = k[i]
      /\ \A i \in 1..l : m[4 + n + i] = v[i]
      /\ \A i \in 1..n : k[i] # "nul"
      /\ \A i \in 1..l : v[i] # "nul"
      /\ head # "nul"
  <2>1. k \in Text /\ v \in Text BY DEF IsWord, IsLastWord
  <2>2. n \in Nat /\ l \in Nat BY <2>1, LenProperties DEF Text
  <2> QED BY <2>1, <2>2, VerbsAreSymbols DEF TwoWords, IsWord, IsLastWord
<1>1. l # 0 => ~is_white_space(v[l]) BY <1>0, EmptySeq DEF NotStripped, Text
<1> HIDE DEF n, l
<1>2. ASSUME NEW i \in 1..Len(m) PROVE m[i] # "nul"
  <2>1. \/ i \in {1, 2, 3, 4 + n}
        \/ i - 3 \in 1..n /\ 3 + (i - 3) = i
        \/ i - (4 + n) \in 1..l /\ 4 + n + (i - (4 + n)) = i
    BY <1>0
  <2> QED BY <2>1, <1>0
<1>3. ~is_white_space(m[Len(m)])
  <2>1. CASE l = 0
    <3>1. Len(m) = 4 + n BY <2>1, <1>0
    <3>2. m[Len(m)] = "slash" BY <3>1, <1>0
    <3> QED BY <3>2 DEF is_white_space
  <2>2. CASE l # 0
    <3>1. l \in 1..l BY <2>2, <1>0
    <3> QED BY <3>1, <2>2, <1>0, <1>1
  <2> QED BY <2>1, <2>2
<1> QED BY <1>0, <1>2, <1>3 DEF IsRequest, NoZero

LEMMA FollowedByOne ==
  ASSUME NEW m, IsRequest(m), NEW c \in {"nul", "nl"}, Len(m) + 1 < npos
  PROVE  Followed(Append(m, c), m)
<1> DEFINE s == Append(m, c)
<1>0. m \in Seq(Symbols) /\ c \in Symbols /\ Len(m) \in Nat
  BY SymbolsOfTheFormat DEF IsRequest, Text
<1>1. /\ s \in Seq(Symbols) /\ Len(s) = Len(m) + 1 /\ s[Len(m) + 1] = c
      /\ \A i \in 1..Len(m) : s[i] = m[i]
  BY <1>0, AppendProperties
<1> HIDE DEF s
<1>2. Len(m) < Len(s) /\ Len(s) < npos BY <1>0, <1>1
<1>3. c = "nul" => \A i \in (Len(m) + 1)..Len(s) : s[i] = "nul" BY <1>0, <1>1
<1>4. Followed(s, m) BY <1>1, <1>2, <1>3 DEF Followed, Text
<1> QED BY <1>4 DEF s

(* A value that includes its zero byte is followed by two of them.         *)
LEMMA FollowedByTwo ==
  ASSUME NEW m, NEW f, NEW head, NEW k \in Text, NEW t \in Text,
         IsRequest(m), TwoWords(m, head, k, t),
         TwoWords(f, head, k, Append(t, "nul")), Len(m) + 2 < npos
  PROVE  Followed(Append(f, "nul"), m)
<1> DEFINE v == Append(t, "nul")
           s == Append(f, "nul")
           n == Len(k)
           l == Len(t)
<1>1. n \in Nat /\ l \in Nat BY LenProperties DEF Text
<1>2. /\ v \in Text /\ Len(v) = l + 1 /\ v[l + 1] = "nul"
      /\ \A i \in 1..l : v[i] = t[i]
  BY AppendZero
<1> HIDE DEF v
<1>3. /\ f \in Text /\ Len(f) = 4 + n + (l + 1)
      /\ f[1] = head /\ f[2] = "space" /\ f[3] = "slash" /\ f[4 + n] = "slash"
      /\ \A i \in 1..n : f[3 + i] = k[i]
      /\ \A i \in 1..(l + 1) : f[4 + n + i] = v[i]
  BY <1>2 DEF TwoWords, v
<1>4. /\ m \in Text /\ Len(m) = 4 + n + l
      /\ m[1] = head /\ m[2] = "space" /\ m[3] = "slash" /\ m[4 + n] = "slash"
      /\ \A i \in 1..n : m[3 + i] = k[i]
      /\ \A i \in 1..l : m[4 + n + i] = t[i]
  BY DEF TwoWords
<1>5. /\ s \in Text /\ Len(s) = Len(f) + 1 /\ s[Len(f) + 1] = "nul"
      /\ \A i \in 1..Len(f) : s[i] = f[i]
  BY <1>3, AppendZero
<1> HIDE DEF s, n, l
<1>6. ASSUME NEW i \in 1..Len(m) PROVE s[i] = m[i]
  <2>1. i \in 1..Len(f) BY <1>1, <1>3, <1>4
  <2>2. \/ i \in {1, 2, 3, 4 + n}
        \/ i - 3 \in 1..n /\ 3 + (i - 3) = i
        \/ i - (4 + n) \in 1..l /\ i - (4 + n) \in 1..(l + 1) /\ 4 + n + (i - (4 + n)) = i
    BY <1>1, <1>4
  <2>3. f[i] = m[i] BY <2>2, <1>2, <1>3, <1>4
  <2> QED BY <2>1, <2>3, <1>5
<1>7. ASSUME NEW i \in (Len(m) + 1)..Len(s) PROVE s[i] = "nul"
  <2>1. i = 4 + n + (l + 1) \/ i = Len(f) + 1 BY <1>1, <1>3, <1>4, <1>5
  <2>2. CASE i = 4 + n + (l + 1)
    <3>1. i \in 1..Len(f) /\ l + 1 \in 1..(l + 1) BY <2>2, <1>1, <1>3
    <3> QED BY <3>1, <2>2, <1>2, <1>3, <1>5
  <2> QED BY <2>1, <2>2, <1>5
<1>8. Len(m) < Len(s) /\ Len(s) < npos BY <1>1, <1>3, <1>4, <1>5
<1>9. Followed(s, m) BY <1>5, <1>6, <1>7, <1>8 DEF Followed
<1> QED BY <1>9 DEF s

(* So the server acts on the words that were sent.                         *)
LEMMA OneWordArrives ==
  ASSUME NEW head \in Verbs, NEW k, IsWord(k), NotStripped(k), Len(k) + 4 < npos,
         NEW c \in {"nul", "nl"}, NEW r \in Reads(Append(finstr(head, k, <<>>), c))
  PROVE  ParsedAs(strip(r), head, Append(k, "nul"), <<>>)
<1> DEFINE m == finstr(head, k, <<>>)
<1>1. k \in Text /\ head \in Symbols BY VerbsAreSymbols DEF IsWord
<1>2. OneWord(m, head, k) BY <1>1, OneWordWritten
<1>3. r \in Reads(Append(m, c)) OBVIOUS
<1> HIDE DEF m
<1>4. IsRequest(m) BY <1>2, OneWordIsRequest
<1>5. Len(m) + 1 < npos
  <2>1. Len(k) \in Nat /\ npos \in Nat BY <1>1, LenProperties, PositionsAreBelowNpos DEF Text
  <2>2. Len(m) = 3 + Len(k) BY <1>2 DEF OneWord
  <2> QED BY <2>1, <2>2
<1>6. strip(r) = m BY <1>3, <1>4, <1>5, FollowedByOne, WhatIsRead
<1>7. ParsedAs(m, head, Append(k, "nul"), <<>>) BY <1>2, <1>5, OneWordParsed
<1> QED BY <1>6, <1>7

(* A value is its text, or its text and the zero byte.                     *)
Encodes(v, t, c) ==
  \/ v = t /\ t # <<>> /\ c \in {"nul", "nl"}
  \/ v = Append(t, "nul") /\ c = "nul"

LEMMA TwoWordsArrive ==
  ASSUME NEW head \in Verbs, NEW k, IsWord(k), NEW t, IsLastWord(t), NotStripped(t),
         Len(k) + Len(t) + 6 < npos, NEW v, NEW c, Encodes(v, t, c),
         NEW r \in Reads(Append(finstr(head, k, v), c))
  PROVE  ParsedAs(strip(r), head, k, Append(t, "nul"))
<1> DEFINE m == Joined(head, k, t)
<1>1. k \in Text /\ t \in Text /\ head \in Symbols
  BY VerbsAreSymbols DEF IsWord, IsLastWord
<1>2. TwoWords(m, head, k, t) /\ (t # <<>> => finstr(head, k, t) = m)
  BY <1>1, TwoWordsWritten
<1> HIDE DEF m
<1>3. IsRequest(m) BY <1>2, TwoWordsIsRequest
<1>4. Len(m) + 2 < npos /\ Len(m) + 1 < npos
  <2>1. Len(k) \in Nat /\ Len(t) \in Nat /\ npos \in Nat
    BY <1>1, LenProperties, PositionsAreBelowNpos DEF Text
  <2>2. Len(m) = 4 + Len(k) + Len(t) BY <1>2 DEF TwoWords
  <2> QED BY <2>1, <2>2
<1>5. strip(r) = m
  <2>1. CASE v = t /\ t # <<>> /\ c \in {"nul", "nl"}
    <3>1. r \in Reads(Append(m, c)) BY <2>1, <1>2
    <3>2. Followed(Append(m, c), m) BY <2>1, <1>3, <1>4, FollowedByOne
    <3> QED BY <3>1, <3>2, <1>3, WhatIsRead
  <2>2. CASE v = Append(t, "nul") /\ c = "nul"
    <3> DEFINE w == Append(t, "nul")
               f == Joined(head, k, w)
    <3>1. w \in Text /\ w # <<>>
      <4>1. t \in Seq(Symbols) /\ "nul" \in Symbols BY <1>1, SymbolsOfTheFormat DEF Text
      <4> QED BY <4>1, AppendProperties DEF Text
    <3>2. v = w BY <2>2
    <3> HIDE DEF w
    <3>3. TwoWords(f, head, k, w) /\ finstr(head, k, w) = f
      BY <1>1, <3>1, TwoWordsWritten
    <3> HIDE DEF f
    <3>4. r \in Reads(Append(f, "nul")) BY <2>2, <3>2, <3>3
    <3>5. Followed(Append(f, "nul"), m)
      BY <1>1, <1>2, <1>3, <1>4, <3>3, FollowedByTwo DEF w
    <3> QED BY <3>4, <3>5, <1>3, WhatIsRead
  <2> QED BY <2>1, <2>2 DEF Encodes
<1>6. ParsedAs(m, head, k, Append(t, "nul")) BY <1>2, <1>4, TwoWordsParsed
<1> QED BY <1>5, <1>6

(* The same for a datagram, whatever the receive buffer has held before.   *)
LEMMA DatagramArrives ==
  ASSUME NEW k, IsWord(k), NotStripped(k), Len(k) + 4 <= bufsize,
         NEW buf \in [1..bufsize -> Symbols]
  PROVE  LET m == finstr("GET", k, <<>>)
             b == Received(buf, Terminated(m))
         IN  /\ b \in [1..bufsize -> Symbols]
             /\ find(b, "nul", 0) # npos
             /\ c_str(b) = m
             /\ ParsedAs(strip(m), "GET", Append(k, "nul"), <<>>)
<1> DEFINE m == finstr("GET", k, <<>>)
           d == Terminated(m)
           b == Received(buf, d)
<1>1. k \in Text /\ "GET" \in Verbs BY DEF IsWord, Verbs
<1>2. OneWord(m, "GET", k) BY <1>1, VerbsAreSymbols, OneWordWritten
<1> HIDE DEF m
<1>3. IsRequest(m) BY <1>1, <1>2, OneWordIsRequest
<1>4. /\ Len(m) \in Nat /\ Len(m) + 1 <= bufsize /\ Len(m) + 1 < npos /\ bufsize \in Nat
  <2>1. Len(k) \in Nat BY <1>1, LenProperties DEF Text
  <2>2. Len(m) = 3 + Len(k) BY <1>2 DEF OneWord
  <2>3. bufsize \in Nat /\ bufsize < npos BY PositionsAreBelowNpos
  <2> QED BY <2>1, <2>2, <2>3, PositionsAreBelowNpos
<1>5. /\ d \in Text /\ Len(d) = Len(m) + 1 /\ d[Len(m) + 1] = "nul"
      /\ \A i \in 1..Len(m) : d[i] = m[i]
  <2>1. m \in Text BY <1>3 DEF IsRequest
  <2> QED BY <2>1, AppendZero DEF Terminated
<1> HIDE DEF d
<1>6. \A i \in 1..Len(d) : d[i] \in Symbols BY <1>5, ElementOfSeq DEF Text
<1>7. b = [i \in 1..bufsize |-> IF i <= Len(d) THEN d[i] ELSE buf[i]] BY DEF Received
<1> HIDE DEF b
<1>8. b \in [1..bufsize -> Symbols]
  <2>1. ASSUME NEW i \in 1..bufsize
        PROVE  (IF i <= Len(d) THEN d[i] ELSE buf[i]) \in Symbols
    <3>1. i <= Len(d) => i \in 1..Len(d) BY <1>4, <1>5
    <3> QED BY <3>1, <1>6
  <2> QED BY <2>1, <1>7
<1>9. b \in Text /\ Len(b) = bufsize
  BY <1>4, <1>8, LenProperties DEF Text
<1>10. Front(b, Len(m), m) /\ b[Len(m) + 1] = "nul"
  <2>1. ASSUME NEW i \in 1..Len(m) PROVE b[i] = m[i]
    <3>1. i \in 1..bufsize /\ i <= Len(d) BY <1>4, <1>5
    <3> QED BY <3>1, <1>5, <1>7
  <2>2. Len(m) + 1 \in 1..bufsize /\ Len(m) + 1 <= Len(d) BY <1>4, <1>5
  <2> QED BY <2>1, <2>2, <1>3, <1>5, <1>7 DEF Front, IsRequest
<1> DEFINE n == Len(m)
<1>11. n \in 0..(Len(b) - 1) /\ n < npos BY <1>4, <1>9, PositionsAreBelowNpos
<1>12. Front(b, n, m) /\ b[n + 1] = "nul" /\ NoZero(m) BY <1>3, <1>10 DEF IsRequest
<1> HIDE DEF n
<1>13. find(b, "nul", 0) = n /\ c_str(b) = m BY <1>9, <1>11, <1>12, EndsAtZero
<1>14. n # npos BY <1>4, <1>11, PositionsAreBelowNpos DEF n
<1>15. strip(m) = m /\ ParsedAs(m, "GET", Append(k, "nul"), <<>>)
  BY <1>1, <1>2, <1>3, <1>4, StrippedAsItIs, OneWordParsed
<1> QED BY <1>8, <1>13, <1>14, <1>15 DEF b, d, m
-----------------------------------------------------------------------------
(* What the format carries.                                                *)
LEMMA FindIsPosition ==
  ASSUME NEW s \in Text, NEW c
  PROVE  \/ find(s, c, 0) = npos /\ \A i \in 1..Len(s) : s[i] # c
         \/ find(s, c, 0) \in 0..(Len(s) - 1) /\ s[find(s, c, 0) + 1] = c
<1> DEFINE at == {i \in 0..(Len(s) - 1) : s[i+1] = c}
<1>0. Len(s) \in Nat BY LenProperties DEF Text
<1>1. find(s, c, 0) = IF at = {} THEN npos ELSE Min(at) BY DEF find
<1>2. CASE at = {}
  <2>1. ASSUME NEW i \in 1..Len(s) PROVE s[i] # c
    <3>1. i - 1 \in 0..(Len(s) - 1) /\ (i - 1) + 1 = i BY <1>0
    <3>2. i - 1 \notin at BY <1>2
    <3> QED BY <3>1, <3>2
  <2> QED BY <1>1, <1>2, <2>1
<1>3. CASE at # {}
  <2>1. at \in SUBSET Nat /\ at \subseteq Int BY <1>0
  <2>2. PICK p \in at : \A y \in at : p <= y
    <3> HIDE DEF at
    <3> QED BY <1>3, <2>1, LeastNat
  <2>3. Min(at) = p
    <3> HIDE DEF at
    <3> QED BY <2>1, <2>2, LeastIsMin
  <2>4. find(s, c, 0) = p BY <1>1, <1>3, <2>3
  <2>5. p \in 0..(Len(s) - 1) /\ s[p + 1] = c OBVIOUS
  <2> QED BY <2>4, <2>5
<1> QED BY <1>2, <1>3

LEMMA FittingKeys ==
  ASSUME NEW k, KeyFits(k)
  PROVE  /\ IsWord(k) /\ Plain(k) /\ NotStripped(k) /\ NoZero(k)
         /\ Len(k) \in Nat /\ Len(k) + 4 <= bufsize /\ Len(k) + 4 < npos
         /\ c_str(k) = k /\ c_str(Append(k, "nul")) = k
<1>1. k \in Text /\ Len(k) + 4 <= bufsize /\ CarriedKey(k) BY DEF KeyFits, Text
<1>2. Len(k) \in Nat BY <1>1, LenProperties DEF Text
<1>3. Len(k) + 4 < npos
  <2>1. bufsize \in Nat /\ bufsize < npos BY PositionsAreBelowNpos
  <2> QED BY <2>1, <1>1, <1>2, PositionsAreBelowNpos
<1>4. find(k, "slash", 0) = npos /\ Plain(k) /\ NotStripped(k) BY <1>1 DEF CarriedKey
<1>5. \A i \in 1..Len(k) : k[i] # "slash"
  <2>1. ~(npos \in 0..(Len(k) - 1)) BY <1>2, <1>3, PositionsAreBelowNpos
  <2> QED BY <2>1, <1>1, <1>4, FindIsPosition
<1>6. IsWord(k) /\ NoZero(k) BY <1>1, <1>4, <1>5 DEF IsWord, NoZero, Plain
<1>7. Len(k) < npos BY <1>2, <1>3, PositionsAreBelowNpos
<1>8. c_str(k) = k /\ c_str(Append(k, "nul")) = k
  BY <1>1, <1>6, <1>7, WithoutZero, Zeroed
<1> QED BY <1>1, <1>2, <1>3, <1>4, <1>6, <1>8

(* The texts the cache may hold under a key.                               *)
HeldText(k, t) ==
  /\ t \in Text /\ Plain(t)
  /\ JsonFrame + Len(k) + Len(t) + 1 <= bufsize

(* Such a text can be the last word of a request.                          *)
LEMMA FittingTexts ==
  ASSUME NEW k, KeyFits(k), NEW t, HeldText(k, t)
  PROVE  /\ IsLastWord(t) /\ NoZero(t) /\ Len(t) \in Nat
         /\ Len(t) < npos /\ Len(k) + Len(t) + 6 < npos
<1>1. t \in Text /\ Plain(t) BY DEF HeldText
<1>2. Len(t) \in Nat BY <1>1, LenProperties DEF Text
<1>3. IsLastWord(t) /\ NoZero(t) BY <1>1 DEF IsLastWord, NoZero, Plain
<1>4. Len(t) < npos /\ Len(k) + Len(t) + 6 < npos
  <2>1. Len(k) \in Nat BY FittingKeys
  <2>2. bufsize \in Nat /\ bufsize + 16 < npos /\ JsonFrame \in Nat /\ npos \in Nat
    BY PositionsAreBelowNpos, SizesOfBuffers
  <2>3. JsonFrame + Len(k) + Len(t) + 1 <= bufsize BY DEF HeldText
  <2> QED BY <2>1, <2>2, <2>3, <1>2
<1> QED BY <1>2, <1>3, <1>4

(* The text of a value that cache_set does not refuse.                     *)
LEMMA FittingValues ==
  ASSUME NEW k, KeyFits(k), NEW v, ValueFits(k, v), ~(Len(v) > bufsize)
  PROVE  /\ HeldText(k, c_str(v)) /\ NotStripped(c_str(v))
         /\ Encodes(v, c_str(v), "nul")
<1> DEFINE t == c_str(v)
           e == Min({find(v, "nul", 0), Len(v)})
<1>1. v \in Text /\ CarriedValue(v) /\ TextFits(k, t) BY DEF ValueFits, Text
<1>2. Len(v) \in Nat BY <1>1, LenProperties DEF Text
<1>3. e \in 0..Len(v)
  <2>1. find(v, "nul", 0) \in Nat BY <1>1, <1>2, FindIsPosition, PositionsAreBelowNpos
  <2>2. e = IF find(v, "nul", 0) <= Len(v) THEN find(v, "nul", 0) ELSE Len(v)
    BY <2>1, <1>2, MinOfTwo
  <2> HIDE DEF e
  <2> QED BY <2>1, <2>2, <1>2
<1>4. t = SubSeq(v, 1, e) BY DEF c_str
<1> HIDE DEF e
<1>5. t \in Text
  <2>1. Front(v, e, SubSeq(v, 1, e)) BY <1>1, <1>3, FrontIsSubSeq
  <2> QED BY <2>1, <1>4 DEF Front
<1>6. Plain(t) /\ NotStripped(t) /\ v # <<>> /\ v \in {t, Append(t, "nul")}
  BY <1>1 DEF CarriedValue
<1>7. JsonFrame + Len(k) + Len(t) + 1 <= bufsize BY <1>1 DEF TextFits, LengthOf
<1> HIDE DEF t
<1>8. HeldText(k, t) BY <1>5, <1>6, <1>7 DEF HeldText
<1>9. Encodes(v, t, "nul") BY <1>6 DEF Encodes
<1> QED BY <1>6, <1>8, <1>9 DEF t
-----------------------------------------------------------------------------
(* The inductive invariant: the cache holds exactly the texts it should,   *)
(* each with its zero byte, and they are texts whose answer fits.          *)
StoreInv ==
  /\ store = [k \in DOMAIN expect |-> Append(expect[k], "nul")]
  /\ \A k \in DOMAIN expect : KeyFits(k) /\ HeldText(k, expect[k])

Answered(g) ==
  /\ g.val = IF g.key \in DOMAIN expect THEN {expect[g.key]} ELSE {}
  /\ c_str(recbuf) = finstr("GET", g.key, <<>>)

PathInv ==
  /\ client = "running" /\ server \in {"running", "exited"}
  /\ recbuf \in [1..bufsize -> Symbols]
  /\ StoreInv
  /\ \A g \in got : Answered(g)

(* act_on_message gives the words to the handler of the verb.              *)
LEMMA ActsByVerb ==
  ASSUME NEW m, NEW head, NEW i1, NEW i2, ParsedAs(m, head, i1, i2)
  PROVE  /\ head = "GET"    => act_on_message(m) = get(i1)
         /\ head = "PUT"    => act_on_message(m) = put(i1, i2)
         /\ head = "DELETE" => act_on_message(m) = delete_(i1)
         /\ head = "HEAD"   => act_on_message(m) = {Result(store, {})}
         /\ head = "POST"   => act_on_message(m) = post(i1, i2)
<1> DEFINE w == [fword |-> <<head>>, info1 |-> i1, info2 |-> i2]
<1>1. Words(m) = {w} BY DEF ParsedAs
<1>2. w.fword = <<head>> /\ w.info1 = i1 /\ w.info2 = i2 OBVIOUS
<1>3. \A a, b : <<a>> = <<b>> => a = b
  <2> TAKE a, b
  <2>1. <<a>>[1] = a /\ <<b>>[1] = b OBVIOUS
  <2> QED BY <2>1
<1> HIDE DEF w
<1>4. (CHOOSE x \in Words(m) : TRUE) = w BY <1>1
<1>5. Words(m) # {} BY <1>1
<1>6. act_on_message(m) =
        CASE <<head>> = <<"GET">>    -> get(i1)
          [] <<head>> = <<"PUT">>    -> put(i1, i2)
          [] <<head>> = <<"DELETE">> -> delete_(i1)
          [] <<head>> = <<"HEAD">>   -> {Result(store, {})}
          [] <<head>> = <<"POST">>   -> post(i1, i2)
          [] OTHER                   -> Throws(store)
  BY <1>2, <1>4, <1>5, Zenon DEF act_on_message
<1>7. /\ <<"GET">> # <<"PUT">> /\ <<"GET">> # <<"DELETE">> /\ <<"GET">> # <<"HEAD">>
      /\ <<"GET">> # <<"POST">> /\ <<"PUT">> # <<"DELETE">> /\ <<"PUT">> # <<"HEAD">>
      /\ <<"PUT">> # <<"POST">> /\ <<"DELETE">> # <<"HEAD">>
      /\ <<"DELETE">> # <<"POST">> /\ <<"HEAD">> # <<"POST">>
  BY <1>3
<1>8. ASSUME head = "GET" PROVE act_on_message(m) = get(i1) BY <1>6, <1>7, <1>8
<1>9. ASSUME head = "PUT" PROVE act_on_message(m) = put(i1, i2) BY <1>6, <1>7, <1>9
<1>10. ASSUME head = "DELETE" PROVE act_on_message(m) = delete_(i1)
  BY <1>6, <1>7, <1>10
<1>11. ASSUME head = "HEAD" PROVE act_on_message(m) = {Result(store, {})}
  BY <1>6, <1>7, <1>11
<1>12. ASSUME head = "POST" PROVE act_on_message(m) = post(i1, i2)
  BY <1>6, <1>7, <1>12
<1> QED BY <1>8, <1>9, <1>10, <1>11, <1>12

(* GET finds the text that should be there.                                *)
LEMMA GetHandled ==
  ASSUME StoreInv, NEW k, KeyFits(k), NEW r \in get(Append(k, "nul"))
  PROVE  r = IF k \in DOMAIN expect
             THEN Result(store, {ANSWER([key |-> k, value |-> expect[k]])})
             ELSE Result(store, {ERROR})
<1> DEFINE key == Append(k, "nul")
<1>1. c_str(key) = k BY FittingKeys
<1>2. DOMAIN store = DOMAIN expect BY DEF StoreInv
<1>3. key # <<>> /\ SubSeq(key, 1, Len(key) - 1) = k
  <2>1. k \in Text /\ Len(k) \in Nat BY FittingKeys DEF IsWord
  <2>2. /\ key \in Text /\ Len(key) = Len(k) + 1 /\ \A i \in 1..Len(k) : key[i] = k[i]
    BY <2>1, AppendZero
  <2> HIDE DEF key
  <2>3. Front(key, Len(k), k) BY <2>1, <2>2 DEF Front
  <2>4. Len(k) \in 0..Len(key) /\ Len(key) - 1 = Len(k) BY <2>1, <2>2
  <2>5. Front(key, Len(k), SubSeq(key, 1, Len(k))) BY <2>2, <2>4, FrontIsSubSeq
  <2>6. SubSeq(key, 1, Len(k)) = k BY <2>3, <2>5, FrontIsUnique
  <2>7. key # <<>> BY <2>1, <2>2, EmptySeq DEF Text
  <2> QED BY <2>4, <2>6, <2>7
<1> HIDE DEF key
<1>4. CASE k \notin DOMAIN expect BY <1>1, <1>2, <1>4 DEF get, key
<1>5. CASE k \in DOMAIN expect
  <2> DEFINE t == expect[k]
             j == [key |-> k, value |-> t]
  <2>1. store[k] = Append(t, "nul") /\ HeldText(k, t) BY <1>5 DEF StoreInv
  <2> HIDE DEF t
  <2>2. t \in Text /\ NoZero(t) /\ Len(t) < npos /\ Len(t) \in Nat
    BY <2>1, FittingTexts DEF HeldText
  <2>3. find(store[k], "nul", 0) = Len(t) /\ c_str(store[k]) = t
    BY <2>1, <2>2, Zeroed
  <2>4. Len(t) # npos BY <2>2, PositionsAreBelowNpos
  <2>5. BufferText(store[k]) = {t} BY <2>3, <2>4 DEF BufferText
  <2>6. make_json(key, t) = {j} BY <1>3 DEF make_json
  <2>7. get(key) = UNION {IF make_json(key, text) = {} THEN Throws(store)
                          ELSE {Result(store, {ANSWER(x)}) : x \in make_json(key, text)} :
                            text \in BufferText(store[k])}
    BY <1>1, <1>2, <1>5 DEF get
  <2>8. r \in get(key) BY DEF key
  <2> HIDE DEF j
  <2>9. r \in IF make_json(key, t) = {} THEN Throws(store)
              ELSE {Result(store, {ANSWER(x)}) : x \in make_json(key, t)}
    BY <2>5, <2>7, <2>8, Zenon
  <2>10. r \in {Result(store, {ANSWER(x)}) : x \in {j}} BY <2>6, <2>9
  <2>11. r = Result(store, {ANSWER(j)}) BY <2>10
  <2> QED BY <1>5, <2>11 DEF j, t
<1> QED BY <1>4, <1>5

(* PUT and DELETE keep the cache and what it should hold together.         *)
LEMMA PutKeeps ==
  ASSUME StoreInv, NEW k, KeyFits(k), NEW t, HeldText(k, t),
         NEW r \in put(k, Append(t, "nul")),
         store' = r.store, expect' = With(expect, k, t)
  PROVE  StoreInv' /\ r.server = "running"
<1>1. c_str(k) = k BY FittingKeys
<1>2. r = Result(With(store, k, Append(t, "nul")), {}) BY <1>1 DEF put
<1>3. store' = With(store, k, Append(t, "nul")) /\ r.server = "running"
  BY <1>2 DEF Result
<1>4. DOMAIN expect' = DOMAIN expect \union {k} /\ DOMAIN store = DOMAIN expect
  BY DEF With, StoreInv
<1>5. \A x \in DOMAIN expect' : expect'[x] = IF x = k THEN t ELSE expect[x]
  BY <1>4 DEF With
<1>6. store' = [x \in DOMAIN expect' |-> Append(expect'[x], "nul")]
  <2>1. store' = [x \in DOMAIN expect' |-> IF x = k THEN Append(t, "nul") ELSE store[x]]
    BY <1>3, <1>4 DEF With
  <2>2. ASSUME NEW x \in DOMAIN expect'
        PROVE  (IF x = k THEN Append(t, "nul") ELSE store[x]) = Append(expect'[x], "nul")
    BY <1>4, <1>5 DEF StoreInv
  <2> QED BY <2>1, <2>2, Zenon
<1>7. \A x \in DOMAIN expect' : KeyFits(x) /\ HeldText(x, expect'[x])
  BY <1>4, <1>5 DEF StoreInv
<1> QED BY <1>3, <1>6, <1>7 DEF StoreInv

LEMMA DeleteKeeps ==
  ASSUME StoreInv, NEW k, KeyFits(k), NEW r \in delete_(Append(k, "nul")),
         store' = r.store, expect' = Without(expect, k)
  PROVE  StoreInv' /\ r.server = "running"
<1>1. c_str(Append(k, "nul")) = k BY FittingKeys
<1>2. r = Result(Without(store, k), {}) BY <1>1 DEF delete_
<1>3. store' = Without(store, k) /\ r.server = "running" BY <1>2 DEF Result
<1>4. DOMAIN expect' = DOMAIN expect \ {k} /\ DOMAIN store = DOMAIN expect
  BY DEF Without, StoreInv
<1>5. \A x \in DOMAIN expect' : expect'[x] = expect[x] BY <1>4 DEF Without
<1>6. store' = [x \in DOMAIN expect' |-> Append(expect'[x], "nul")]
  <2>1. store' = [x \in DOMAIN expect' |-> store[x]] BY <1>3, <1>4 DEF Without
  <2>2. ASSUME NEW x \in DOMAIN expect' PROVE store[x] = Append(expect'[x], "nul")
    BY <1>4, <1>5 DEF StoreInv
  <2> QED BY <2>1, <2>2, Zenon
<1>7. \A x \in DOMAIN expect' : KeyFits(x) /\ HeldText(x, expect'[x])
  BY <1>4, <1>5 DEF StoreInv
<1> QED BY <1>3, <1>6, <1>7 DEF StoreInv

(* POST: the words of the two requests, and what they do.                  *)
LEMMA OneSymbol ==
  ASSUME NEW c \in Symbols, c \notin {"space", "slash", "nl", "nul"}
  PROVE  /\ IsWord(<<c>>) /\ IsLastWord(<<c>>) /\ NotStripped(<<c>>)
         /\ Len(<<c>>) = 1 /\ <<c>> # <<>>
         /\ strip(<<c>>) = <<c>> /\ strip(Append(<<c>>, "nul")) = <<c>>
         /\ Append(<<c>>, "nul")[1] = c /\ Append(<<c>>, "nul") # <<>>
<1> DEFINE x == <<c>>
           s == Append(x, "nul")
<1>1. x \in Text /\ Len(x) = 1 /\ x[1] = c BY ShortTexts, Zenon
<1> HIDE DEF x
<1>2. \A i \in 1..Len(x) : x[i] = c BY <1>1
<1>3. IsWord(x) /\ IsLastWord(x) /\ NoZero(x)
  BY <1>1, <1>2 DEF IsWord, IsLastWord, NoZero
<1>4. ~is_white_space(x[Len(x)]) BY <1>1 DEF is_white_space
<1>5. NotStripped(x) /\ x # <<>> BY <1>1, <1>4, EmptySeq DEF NotStripped, Text
<1>6. IsRequest(x) BY <1>1, <1>3, <1>4 DEF IsRequest
<1>7. strip(x) = x BY <1>6, StrippedAsItIs
<1>8. /\ s \in Text /\ Len(s) = 2 /\ s[2] = "nul" /\ s[1] = c
  <2>1. /\ s \in Text /\ Len(s) = Len(x) + 1 /\ s[Len(x) + 1] = "nul"
        /\ \A i \in 1..Len(x) : s[i] = x[i]
    BY <1>1, AppendZero
  <2> HIDE DEF s
  <2> QED BY <2>1, <1>1
<1> HIDE DEF s
<1>9. strip(s) = x
  <2>1. Front(s, 1, x) BY <1>1, <1>8 DEF Front
  <2>2. 1 \in 1..Len(s) /\ ~is_white_space(s[1]) BY <1>8 DEF is_white_space
  <2>3. \A i \in (1 + 1)..Len(s) : is_white_space(s[i]) BY <1>8 DEF is_white_space
  <2> QED BY <2>1, <2>2, <2>3, <1>8, StripsTheRest
<1>10. s # <<>>
  <2>1. s \in Seq(Symbols) /\ Len(s) # 0 BY <1>8 DEF Text
  <2> QED BY <2>1
<1> QED BY <1>1, <1>3, <1>5, <1>7, <1>8, <1>9, <1>10 DEF s, x

LEMMA PostWords ==
  /\ <<"memsize">> # <<"shutdown">>
  /\ \A c \in {"memsize", "shutdown", "num"} :
       c \in Symbols /\ c \notin {"space", "slash", "nl", "nul"}
<1>1. <<"memsize">>[1] = "memsize" /\ <<"shutdown">>[1] = "shutdown" OBVIOUS
<1>2. <<"memsize">> # <<"shutdown">> BY <1>1
<1>3. \A c \in {"memsize", "shutdown", "num"} : c \in Symbols BY SymbolsOfTheFormat
<1>4. \A c \in {"memsize", "shutdown", "num"} : c \notin {"space", "slash", "nl", "nul"}
  OBVIOUS
<1> QED BY <1>2, <1>3, <1>4

(* A new capacity replaces the cache only when it holds nothing.           *)
LEMMA MemsizeKeeps ==
  ASSUME StoreInv, NEW r \in post(<<"memsize">>, Append(<<"num">>, "nul")),
         store' = r.store, expect' = expect
  PROVE  StoreInv' /\ r.server = "running"
<1> DEFINE x == <<"memsize">>
           e == Append(<<"num">>, "nul")
<1>1. strip(x) = <<"memsize">> /\ x # <<"shutdown">> BY PostWords, OneSymbol
<1>2. e # <<>> /\ e[1] = "num" BY PostWords, OneSymbol
<1>3. r \in post(x, e) OBVIOUS
<1> HIDE DEF e
<1>4. r \in IF UsesSpace(store) THEN {Result(store, {ERROR})} ELSE {Result(Empty, {})}
  <2>1. strip(x) # <<"shutdown">> BY <1>1
  <2> HIDE DEF x
  <2> QED BY <2>1, <1>1, <1>2, <1>3, Zenon DEF post
<1>5. CASE UsesSpace(store)
  <2>1. store' = store /\ r.server = "running" BY <1>4, <1>5 DEF Result
  <2> QED BY <2>1 DEF StoreInv
<1>6. CASE ~UsesSpace(store)
  <2>1. store' = Empty /\ r.server = "running" BY <1>4, <1>6 DEF Result
  <2>2. DOMAIN store = {}
    <3> SUFFICES ASSUME NEW k \in DOMAIN store PROVE FALSE OBVIOUS
    <3>1. k \in DOMAIN expect /\ store[k] = Append(expect[k], "nul") BY DEF StoreInv
    <3>2. expect[k] \in Text BY <3>1 DEF StoreInv, HeldText
    <3>3. store[k] # <<>>
      <4>1. expect[k] \in Seq(Symbols) /\ "nul" \in Symbols
        BY <3>2, SymbolsOfTheFormat DEF Text
      <4> QED BY <3>1, <4>1, AppendProperties
    <3> QED BY <3>3, <1>6 DEF UsesSpace
  <2>3. DOMAIN expect = {} BY <2>2 DEF StoreInv
  <2>4. store' = [k \in {} |-> Append(expect[k], "nul")] BY <2>1 DEF Empty
  <2>5. store' = [k \in DOMAIN expect |-> Append(expect[k], "nul")] BY <2>3, <2>4
  <2> QED BY <2>1, <2>3, <2>5 DEF StoreInv
<1> QED BY <1>5, <1>6

LEMMA ShutdownKeeps ==
  ASSUME NEW r \in post(Append(<<"shutdown">>, "nul"), <<>>),
         store' = r.store, expect' = Empty
  PROVE  StoreInv' /\ r.server = "exited"
<1> DEFINE x == Append(<<"shutdown">>, "nul")
<1>1. strip(x) = <<"shutdown">> BY PostWords, OneSymbol
<1>2. r \in post(x, <<>>) OBVIOUS
<1> HIDE DEF x
<1>3. <<"memsize">> # <<"shutdown">> BY PostWords
<1>4. r \in {[store |-> Empty, server |-> "exited", answers |-> {}]}
  BY <1>1, <1>2, <1>3, Zenon DEF post
<1>5. store' = Empty /\ r.server = "exited" BY <1>4
<1>6. DOMAIN expect' = {} BY DEF Empty
<1>7. store' = [k \in {} |-> Append(expect'[k], "nul")] BY <1>5 DEF Empty
<1>8. store' = [k \in DOMAIN expect' |-> Append(expect'[k], "nul")] BY <1>6, <1>7
<1> QED BY <1>5, <1>6, <1>8 DEF StoreInv
-----------------------------------------------------------------------------
(* A request over TCP.                                                     *)
LEMMA ReadKeeps ==
  ASSUME PathInv, NEW stream, handle_read(stream),
         \A read \in Reads(stream) : \A r \in act_on_message(strip(read)) :
           store' = r.store => StoreInv' /\ r.server \in {"running", "exited"}
  PROVE  PathInv'
<1>1. PICK read \in Reads(stream) : \E r \in act_on_message(strip(read)) :
        store' = r.store /\ server' = r.server
  BY DEF handle_read
<1>2. PICK r \in act_on_message(strip(read)) : store' = r.store /\ server' = r.server
  BY <1>1
<1>3. StoreInv' /\ server' \in {"running", "exited"} BY <1>2
<1>4. got' = {} /\ recbuf' = recbuf /\ client' = client BY DEF handle_read
<1> QED BY <1>3, <1>4 DEF PathInv

LEMMA SetStep ==
  ASSUME PathInv, NEW k, KeyFits(k), NEW t, HeldText(k, t), NotStripped(t),
         NEW v, NEW c, Encodes(v, t, c),
         handle_read(Append(finstr("PUT", k, v), c)), expect' = With(expect, k, t)
  PROVE  PathInv'
<1> DEFINE st == Append(finstr("PUT", k, v), c)
<1>1. ASSUME NEW read \in Reads(st), NEW r \in act_on_message(strip(read)), store' = r.store
      PROVE  StoreInv' /\ r.server \in {"running", "exited"}
  <2>1. "PUT" \in Verbs /\ IsWord(k) BY FittingKeys DEF Verbs
  <2>2. IsLastWord(t) /\ Len(k) + Len(t) + 6 < npos BY FittingTexts
  <2>3. ParsedAs(strip(read), "PUT", k, Append(t, "nul"))
    BY <2>1, <2>2, TwoWordsArrive
  <2>4. r \in put(k, Append(t, "nul")) BY <2>3, ActsByVerb
  <2> QED BY <2>4, <1>1, PutKeeps DEF PathInv
<1> HIDE DEF st
<1>2. handle_read(st) BY DEF st
<1> QED BY <1>1, <1>2, ReadKeeps

LEMMA OneWordRead ==
  ASSUME NEW head \in Verbs, NEW k, KeyFits(k), NEW c \in {"nul", "nl"},
         NEW read \in Reads(Append(finstr(head, k, <<>>), c))
  PROVE  ParsedAs(strip(read), head, Append(k, "nul"), <<>>)
<1>1. IsWord(k) /\ NotStripped(k) /\ Len(k) + 4 < npos BY FittingKeys
<1> QED BY <1>1, OneWordArrives

LEMMA DeleteStep ==
  ASSUME PathInv, NEW k, KeyFits(k), NEW c \in {"nul", "nl"},
         handle_read(Append(finstr("DELETE", k, <<>>), c)), expect' = Without(expect, k)
  PROVE  PathInv'
<1> DEFINE st == Append(finstr("DELETE", k, <<>>), c)
<1>1. ASSUME NEW read \in Reads(st), NEW r \in act_on_message(strip(read)), store' = r.store
      PROVE  StoreInv' /\ r.server \in {"running", "exited"}
  <2>1. "DELETE" \in Verbs BY DEF Verbs
  <2>2. ParsedAs(strip(read), "DELETE", Append(k, "nul"), <<>>)
    BY <2>1, OneWordRead
  <2>3. r \in delete_(Append(k, "nul")) BY <2>2, ActsByVerb
  <2> QED BY <2>3, <1>1, DeleteKeeps DEF PathInv
<1> HIDE DEF st
<1>2. handle_read(st) BY DEF st
<1> QED BY <1>1, <1>2, ReadKeeps

LEMMA LookStep ==
  ASSUME PathInv, NEW head \in {"GET", "HEAD"}, NEW k, KeyFits(k), NEW c \in {"nul", "nl"},
         handle_read(Append(finstr(head, k, <<>>), c)), expect' = expect
  PROVE  PathInv'
<1> DEFINE st == Append(finstr(head, k, <<>>), c)
<1>1. ASSUME NEW read \in Reads(st), NEW r \in act_on_message(strip(read)), store' = r.store
      PROVE  StoreInv' /\ r.server \in {"running", "exited"}
  <2>1. head \in Verbs BY DEF Verbs
  <2>2. ParsedAs(strip(read), head, Append(k, "nul"), <<>>)
    BY <2>1, OneWordRead
  <2>3. r \in get(Append(k, "nul")) \/ r = Result(store, {}) BY <2>2, ActsByVerb
  <2>4. StoreInv BY DEF PathInv
  <2>5. r.store = store /\ r.server = "running"
    <3>1. CASE r \in get(Append(k, "nul"))
      <4>1. \/ r = Result(store, {ANSWER([key |-> k, value |-> expect[k]])})
            \/ r = Result(store, {ERROR})
        BY <3>1, <2>4, GetHandled
      <4>2. \A A : Result(store, A).store = store /\ Result(store, A).server = "running"
        BY DEF Result
      <4> HIDE DEF Result
      <4> QED BY <4>1, <4>2, Zenon
    <3>2. CASE r = Result(store, {}) BY <3>2 DEF Result
    <3> QED BY <3>1, <3>2, <2>3
  <2> QED BY <2>4, <2>5, <1>1 DEF StoreInv
<1> HIDE DEF st
<1>2. handle_read(st) BY DEF st
<1> QED BY <1>1, <1>2, ReadKeeps

LEMMA MemsizeStep ==
  ASSUME PathInv, NEW c \in {"nul", "nl"},
         handle_read(Append(finstr("POST", <<"memsize">>, <<"num">>), c)),
         expect' = expect
  PROVE  PathInv'
<1> DEFINE k == <<"memsize">>
           t == <<"num">>
           st == Append(finstr("POST", k, t), c)
<1>1. /\ IsWord(k) /\ Len(k) = 1
      /\ IsLastWord(t) /\ NotStripped(t) /\ Len(t) = 1 /\ t # <<>>
  BY PostWords, OneSymbol
<1> HIDE DEF k, t
<1>2. ASSUME NEW read \in Reads(st), NEW r \in act_on_message(strip(read)), store' = r.store
      PROVE  StoreInv' /\ r.server \in {"running", "exited"}
  <2>1. "POST" \in Verbs BY DEF Verbs
  <2>2. Encodes(t, t, c) /\ Len(k) + Len(t) + 6 < npos
    BY <1>1, PositionsAreBelowNpos DEF Encodes
  <2>3. ParsedAs(strip(read), "POST", k, Append(t, "nul"))
    BY <2>1, <2>2, <1>1, TwoWordsArrive
  <2>4. r \in post(k, Append(t, "nul")) BY <2>3, ActsByVerb
  <2> QED BY <2>4, <1>2, MemsizeKeeps DEF PathInv, k, t
<1> HIDE DEF st
<1>3. handle_read(st) BY DEF st, k, t
<1> QED BY <1>2, <1>3, ReadKeeps

LEMMA ShutdownStep ==
  ASSUME PathInv, NEW c \in {"nul", "nl"},
         handle_read(Append(finstr("POST", <<"shutdown">>, <<>>), c)),
         expect' = Empty
  PROVE  PathInv'
<1> DEFINE k == <<"shutdown">>
           st == Append(finstr("POST", k, <<>>), c)
<1>1. IsWord(k) /\ NotStripped(k) /\ Len(k) = 1 BY PostWords, OneSymbol
<1> HIDE DEF k
<1>2. ASSUME NEW read \in Reads(st), NEW r \in act_on_message(strip(read)), store' = r.store
      PROVE  StoreInv' /\ r.server \in {"running", "exited"}
  <2>1. "POST" \in Verbs /\ Len(k) + 4 < npos
    BY <1>1, PositionsAreBelowNpos DEF Verbs
  <2>2. ParsedAs(strip(read), "POST", Append(k, "nul"), <<>>)
    BY <2>1, <1>1, OneWordArrives
  <2>3. r \in post(Append(k, "nul"), <<>>) BY <2>2, ActsByVerb
  <2> QED BY <2>3, <1>2, ShutdownKeeps DEF k
<1> HIDE DEF st
<1>3. handle_read(st) BY DEF st, k
<1> QED BY <1>2, <1>3, ReadKeeps

(* A request over UDP and its answer: exactly one comes back, the client   *)
(* can read it, and it is about the key that was asked for.                *)
LEMMA GetStep ==
  ASSUME PathInv, NEW k, KeyFits(k), cache_get(k)
  PROVE  PathInv'
<1> DEFINE m == finstr("GET", k, <<>>)
           b == Received(recbuf, Terminated(m))
           sent(r) == {a \in r.answers : a.error \/ LengthOf(a) <= MaxDatagram}
           read(r) == {a \in sent(r) : a.error \/ LengthOf(a) > bufsize
                                         \/ unpack_json(a) # {}}
<1>1. /\ b \in [1..bufsize -> Symbols] /\ find(b, "nul", 0) # npos /\ c_str(b) = m
      /\ ParsedAs(strip(m), "GET", Append(k, "nul"), <<>>)
  BY FittingKeys, DatagramArrives DEF PathInv
<1>2. PICK r \in handle_receive(b) :
        /\ server' = r.server
        /\ got' = {[key |-> k, val |-> get_message(k, a)] : a \in read(r)}
        /\ client' = IF sent(r) = {} THEN "blocked"
                     ELSE IF read(r) = {} THEN "terminated" ELSE client
  BY DEF cache_get
<1>3. recbuf' = b /\ store' = store /\ expect' = expect BY DEF cache_get
<1> HIDE DEF m, b
<1>4. r \in get(Append(k, "nul"))
  <2>1. handle_receive(b) = act_on_message(strip(m)) BY <1>1 DEF handle_receive
  <2>2. act_on_message(strip(m)) = get(Append(k, "nul")) BY <1>1, ActsByVerb
  <2> QED BY <1>2, <2>1, <2>2
<1>5. StoreInv /\ StoreInv' BY <1>3 DEF PathInv, StoreInv
<1>6. c_str(recbuf') = finstr("GET", k, <<>>) BY <1>1, <1>3 DEF m
<1>7. CASE k \notin DOMAIN expect
  <2>1. r = Result(store, {ERROR}) BY <1>4, <1>5, <1>7, GetHandled
  <2>2. r.server = "running" /\ r.answers = {ERROR} BY <2>1 DEF Result
  <2>3. ERROR.error = TRUE BY DEF ERROR
  <2>4. sent(r) = {ERROR} /\ read(r) = {ERROR} BY <2>2, <2>3
  <2>5. get_message(k, ERROR) = {} BY <2>3 DEF get_message
  <2>6. server' = "running" /\ client' = client BY <1>2, <2>2, <2>4
  <2> HIDE DEF sent, read
  <2>7. ASSUME NEW g \in got' PROVE g.key = k /\ g.val = {}
    BY <1>2, <2>4, <2>5
  <2>8. ASSUME NEW g \in got' PROVE Answered(g)'
    BY <2>7, <1>3, <1>6, <1>7 DEF Answered
  <2> QED BY <1>1, <1>3, <1>5, <2>6, <2>8 DEF PathInv
<1>8. CASE k \in DOMAIN expect
  <2> DEFINE t == expect[k]
             a == ANSWER([key |-> k, value |-> t])
  <2>1. r = Result(store, {a}) BY <1>4, <1>5, <1>8, GetHandled
  <2>2. HeldText(k, t) BY <1>5, <1>8 DEF StoreInv
  <2> HIDE DEF t
  <2>3. a.error = FALSE /\ a.key = k /\ a.value = t BY DEF ANSWER
  <2> HIDE DEF a
  <2>4. r.server = "running" /\ r.answers = {a} BY <2>1 DEF Result
  <2>5. LengthOf(a) <= bufsize /\ LengthOf(a) <= MaxDatagram
        /\ ~(LengthOf(a) > bufsize)
    <3>1. LengthOf(a) = JsonFrame + Len(k) + Len(t) + 1 BY <2>3 DEF LengthOf
    <3>2. Len(k) \in Nat /\ Len(t) \in Nat BY <2>2, FittingKeys, FittingTexts
    <3>3. JsonFrame + Len(k) + Len(t) + 1 <= bufsize BY <2>2 DEF HeldText
    <3> QED BY <3>1, <3>2, <3>3, SizesOfBuffers
  <2>6. unpack_json(a) = {a}
    <3> DEFINE x == k \o t
    <3>1. k \in Seq(Symbols) /\ t \in Seq(Symbols) /\ Plain(k) /\ Plain(t)
          /\ Len(k) \in Nat /\ Len(t) \in Nat
      BY <2>2, FittingKeys, FittingTexts DEF IsWord, HeldText, Text
    <3>2. /\ Len(x) = Len(k) + Len(t)
          /\ \A i \in 1..(Len(k) + Len(t)) : x[i] = IF i <= Len(k) THEN k[i] ELSE t[i - Len(k)]
      BY <3>1, ConcatProperties
    <3> HIDE DEF x
    <3>3. ASSUME NEW i \in 1..Len(x) PROVE x[i] \notin {"quote", "nl", "nul"}
      <4>1. i \in 1..Len(k) \/ (~(i <= Len(k)) /\ i - Len(k) \in 1..Len(t))
        BY <3>1, <3>2
      <4> QED BY <4>1, <3>1, <3>2 DEF Plain
    <3>4. a.key \o a.value = x BY <2>3 DEF x
    <3> QED BY <3>3, <3>4 DEF unpack_json
  <2>7. sent(r) = {a} BY <2>3, <2>4, <2>5
  <2>8. read(r) = {a}
    <3> HIDE DEF sent
    <3> QED BY <2>6, <2>7
  <2>9. get_message(k, a) = {t} BY <2>3, <2>5 DEF get_message
  <2>10. server' = "running" /\ client' = client
    <3> HIDE DEF sent, read
    <3> QED BY <1>2, <2>4, <2>7, <2>8
  <2>11. ASSUME NEW g \in got' PROVE g.key = k /\ g.val = {t}
    <3> HIDE DEF sent, read
    <3> QED BY <1>2, <2>8, <2>9
  <2>12. ASSUME NEW g \in got' PROVE Answered(g)'
    BY <2>11, <1>3, <1>6, <1>8 DEF Answered, t
  <2> QED BY <1>1, <1>3, <1>5, <2>10, <2>12 DEF PathInv
<1> QED BY <1>7, <1>8
-----------------------------------------------------------------------------
(* Every step keeps the invariant.                                         *)
LEMMA TelnetStep ==
  ASSUME PathInv, NEW line, LineFits(line), telnet(line)
  PROVE  PathInv'
<1> DEFINE h == line.head
           k == line.word1
           v == line.word2
<1>1. /\ handle_read(Append(finstr(h, k, v), "nl"))
      /\ expect' = CASE h = "PUT" -> With(expect, k, v)
                     [] h = "DELETE" -> Without(expect, k)
                     [] h = "POST" /\ k = <<"shutdown">> -> Empty
                     [] OTHER -> expect
  BY DEF telnet
<1>2. \/ h \in {"GET", "HEAD"} /\ KeyFits(k) /\ v = <<>>
      \/ h = "DELETE" /\ KeyFits(k) /\ v = <<>>
      \/ /\ h = "PUT" /\ KeyFits(k) /\ HeldText(k, v) /\ v # <<>> /\ NotStripped(v)
      \/ h = "POST" /\ k = <<"memsize">> /\ v = <<"num">>
      \/ h = "POST" /\ k = <<"shutdown">> /\ v = <<>>
  BY DEF LineFits, HeldText, TextFits, LengthOf, Text
<1> HIDE DEF h, k, v
<1>3. CASE h \in {"GET", "HEAD"} /\ KeyFits(k) /\ v = <<>>
  <2>1. expect' = expect BY <1>1, <1>3
  <2> QED BY <2>1, <1>1, <1>3, LookStep
<1>4. CASE h = "DELETE" /\ KeyFits(k) /\ v = <<>>
  <2>1. expect' = Without(expect, k) BY <1>1, <1>4
  <2> QED BY <2>1, <1>1, <1>4, DeleteStep
<1>5. CASE h = "PUT" /\ KeyFits(k) /\ HeldText(k, v) /\ v # <<>> /\ NotStripped(v)
  <2>1. expect' = With(expect, k, v) BY <1>1, <1>5
  <2>2. Encodes(v, v, "nl") BY <1>5 DEF Encodes
  <2> QED BY <2>1, <2>2, <1>1, <1>5, SetStep
<1>6. CASE h = "POST" /\ k = <<"memsize">> /\ v = <<"num">>
  <2>1. k # <<"shutdown">> BY <1>6, PostWords
  <2>2. expect' = expect BY <1>1, <1>6, <2>1
  <2> QED BY <2>2, <1>1, <1>6, MemsizeStep
<1>7. CASE h = "POST" /\ k = <<"shutdown">> /\ v = <<>>
  <2>1. expect' = Empty BY <1>1, <1>7
  <2> QED BY <2>1, <1>1, <1>7, ShutdownStep
<1> QED BY <1>2, <1>3, <1>4, <1>5, <1>6, <1>7

LEMMA BufferAtStart ==
  {[i \in 1..bufsize |-> c] : c \in {"a", "nul"}} \subseteq [1..bufsize -> Symbols]
BY SymbolsOfTheFormat

LEMMA InitHasPathInv == Init => PathInv
<1> SUFFICES ASSUME Init PROVE PathInv OBVIOUS
<1>1. recbuf \in [1..bufsize -> Symbols] BY BufferAtStart DEF Init
<1>2. DOMAIN expect = {} /\ store = [k \in {} |-> <<>>] BY DEF Init, Empty
<1>3. store = [k \in {} |-> Append(expect[k], "nul")] BY <1>2
<1>4. StoreInv BY <1>2, <1>3 DEF StoreInv
<1> QED BY <1>1, <1>4 DEF Init, PathInv

LEMMA NextKeepsPathInv ==
  ASSUME CallsFit
  PROVE  PathInv /\ [Next]_vars => PathInv'
<1> SUFFICES ASSUME PathInv, [Next]_vars PROVE PathInv' OBVIOUS
<1>1. ASSUME NEW k \in Keys, NEW v \in Values, cache_set(k, v) PROVE PathInv'
  <2>1. KeyFits(k) /\ ValueFits(k, v) BY DEF CallsFit
  <2>2. CASE Len(v) > bufsize
    <3>1. got' = {} /\ UNCHANGED <<store, recbuf, server, client, expect>>
      BY <1>1, <2>2 DEF cache_set
    <3> QED BY <3>1 DEF PathInv, StoreInv
  <2>3. CASE ~(Len(v) > bufsize)
    <3>1. /\ handle_read(Append(finstr("PUT", k, v), "nul"))
          /\ expect' = With(expect, k, c_str(v))
      BY <1>1, <2>3 DEF cache_set, send_message_tcp, Terminated
    <3>2. HeldText(k, c_str(v)) /\ NotStripped(c_str(v)) /\ Encodes(v, c_str(v), "nul")
      BY <2>1, <2>3, FittingValues
    <3> QED BY <2>1, <3>1, <3>2, SetStep
  <2> QED BY <2>2, <2>3
<1>2. ASSUME NEW k \in Keys, cache_get(k) PROVE PathInv'
  BY <1>2, GetStep DEF CallsFit
<1>3. ASSUME NEW k \in Keys, cache_delete(k) PROVE PathInv'
  <2>1. /\ handle_read(Append(finstr("DELETE", k, <<>>), "nul"))
        /\ expect' = Without(expect, k)
    BY <1>3 DEF cache_delete, send_message_tcp, Terminated
  <2>2. KeyFits(k) BY DEF CallsFit
  <2> QED BY <2>1, <2>2, DeleteStep
<1>4. ASSUME NEW mem \in Memsizes, create_cache(mem) PROVE PathInv'
  <2>1. mem = "num" BY DEF CallsFit
  <2>2. /\ handle_read(Append(finstr("POST", <<"memsize">>, <<"num">>), "nul"))
        /\ expect' = expect
    BY <1>4, <2>1 DEF create_cache, send_message_tcp, Terminated
  <2> QED BY <2>2, MemsizeStep
<1>5. CASE destroy_cache
  <2>1. /\ handle_read(Append(finstr("POST", <<"shutdown">>, <<>>), "nul"))
        /\ expect' = Empty
    BY <1>5 DEF destroy_cache, send_message_tcp, Terminated
  <2> QED BY <2>1, ShutdownStep
<1>6. ASSUME NEW line \in Lines, telnet(line) PROVE PathInv'
  BY <1>6, TelnetStep DEF CallsFit
<1>7. CASE run_server
  <2>1. server' = "running" /\ got' = {} /\ UNCHANGED <<store, client, expect>>
        /\ recbuf' \in [1..bufsize -> Symbols]
    BY <1>7, BufferAtStart DEF run_server
  <2> QED BY <2>1 DEF PathInv, StoreInv
<1>8. CASE UNCHANGED vars BY <1>8 DEF vars, PathInv, StoreInv, Answered
<1> QED BY <1>1, <1>2, <1>3, <1>4, <1>5, <1>6, <1>7, <1>8 DEF Next

LEMMA PathInvAlways ==
  ASSUME CallsFit
  PROVE  Spec => []PathInv
BY InitHasPathInv, NextKeepsPathInv, PTL DEF Spec
-----------------------------------------------------------------------------
(* What a process sets is what it gets, through both protocols and both    *)
(* text formats, whatever other keys hold and whatever was sent before:    *)
(* cache_get returns, with the text set last for the key or with NULL, for *)
(* every key and value that the format carries and the buffers hold.       *)
THEOREM SetTextsComeBack ==
  ASSUME CallsFit
  PROVE  Spec => []GetReturnsWhatWasSet
<1>1. PathInv => GetReturnsWhatWasSet
  BY DEF PathInv, Answered, GetReturnsWhatWasSet
<1> QED BY <1>1, PathInvAlways, PTL

(* Every stored value is a C string of its own, so that get, which reads   *)
(* it up to a zero byte, never reads memory behind it.                     *)
THEOREM ValuesAreStrings ==
  ASSUME CallsFit
  PROVE  Spec => []StoredAreStrings
<1>1. PathInv => StoredAreStrings
  <2> SUFFICES ASSUME PathInv, NEW k \in DOMAIN store
               PROVE  find(store[k], "nul", 0) = Len(store[k]) - 1
    BY DEF StoredAreStrings
  <2> DEFINE t == expect[k]
  <2>1. KeyFits(k) /\ HeldText(k, t) /\ store[k] = Append(t, "nul")
    BY DEF PathInv, StoreInv
  <2> HIDE DEF t
  <2>2. t \in Text /\ NoZero(t) /\ Len(t) < npos /\ Len(t) \in Nat
    BY <2>1, FittingTexts DEF HeldText
  <2>3. find(store[k], "nul", 0) = Len(t) /\ Len(store[k]) = Len(t) + 1
    BY <2>1, <2>2, Zeroed
  <2> QED BY <2>2, <2>3
<1> QED BY <1>1, PathInvAlways, PTL

(* No request of the client library or of telnet.sh throws an exception    *)
(* that run_server does not catch.                                         *)
THEOREM RequestsDoNotThrow ==
  ASSUME CallsFit
  PROVE  Spec => []NoUncaughtException
<1>1. PathInv => NoUncaughtException BY DEF PathInv, NoUncaughtException
<1> QED BY <1>1, PathInvAlways, PTL

(* A datagram that is shorter than an earlier one is read without the rest *)
(* of the earlier one, although both are in the same receive buffer.       *)
THEOREM BufferShowsLastDatagram ==
  ASSUME CallsFit
  PROVE  Spec => []NoStaleBytes
<1>1. PathInv => NoStaleBytes BY DEF PathInv, Answered, NoStaleBytes
<1> QED BY <1>1, PathInvAlways, PTL
=============================================================================

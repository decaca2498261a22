----------------------------- MODULE QueueFacts -----------------------------
(***************************************************************************)
(* Facts that the proofs share: induction in a form that needs no operator *)
(* as parameter, and what appending to a queue, taking its head and        *)
(* joining two queues do to its elements and to their order.               *)
(***************************************************************************)
EXTENDS Integers, Sequences, SequenceTheorems, WellFoundedInduction, TLAPS

(* Every non-empty set of natural numbers has a least element.             *)
LEMMA LeastNat ==
  ASSUME NEW T \in SUBSET Nat, T # {}
  PROVE  \E m \in T : \A k \in T : m <= k
<1> DEFINE R == OpToRel(<, Nat)
<1>1. PICK x \in T : \A y \in T : ~(<<y, x>> \in R)
  <2>1. IsWellFoundedOn(R, Nat) BY NatLessThanWellFounded
  <2> HIDE DEF R
  <2> QED BY <2>1, WFMin
<1>2. \A y \in T : y < x => <<y, x>> \in R   BY Zenon DEF OpToRel
<1>3. \A y \in T : ~(y < x) BY <1>1, <1>2
<1> QED BY <1>3

(* Induction over an interval: a set of numbers that contains 0 and, with  *)
(* every number below n, its successor, contains all of 0..n.              *)
LEMMA UpTo ==
  ASSUME NEW n \in Nat, NEW S, 0 \in S,
         \A i \in 0..n : i # n /\ i \in S => i + 1 \in S
  PROVE  \A i \in 0..n : i \in S
<1> DEFINE T == {i \in 0..n : i \notin S}
<1>1. SUFFICES T = {} OBVIOUS
<1>2. SUFFICES ASSUME T # {} PROVE FALSE OBVIOUS
<1>3. T \in SUBSET Nat OBVIOUS
<1>4. PICK m \in T : \A k \in T : m <= k
  <2> HIDE DEF T
  <2> QED BY <1>2, <1>3, LeastNat
<1>5. m # 0 /\ m \in 0..n OBVIOUS
<1>6. m - 1 \in 0..n /\ m - 1 \notin T
  <2>1. m - 1 \in 0..n BY <1>5
  <2>2. ~(m <= m - 1) BY <1>5
  <2> QED BY <2>1, <2>2, <1>4
<1>7. m - 1 \in S BY <1>6
<1>8. (m - 1) + 1 \in S BY <1>5, <1>6, <1>7
<1>9. m \in S BY <1>8, <1>5
<1> QED BY <1>9
-----------------------------------------------------------------------------
Holds(s, x) == \E i \in 1..Len(s) : s[i] = x

Distinct(s) == \A i, j \in 1..Len(s) : s[i] = s[j] => i = j

(* No y comes before an x.                                                 *)
Precedes(s, x, y) ==
  \A i, j \in 1..Len(s) : s[i] = x /\ s[j] = y => i < j
-----------------------------------------------------------------------------
(* Append adds one element, and it comes last.                             *)
LEMMA QueueAppend ==
  ASSUME NEW S, NEW s \in Seq(S), NEW e \in S
  PROVE  /\ Append(s, e) \in Seq(S) /\ Append(s, e) # <<>>
         /\ s # <<>> => Head(Append(s, e)) = Head(s)
         /\ s = <<>> => Head(Append(s, e)) = e
         /\ \A x : Holds(Append(s, e), x) <=> Holds(s, x) \/ x = e
         /\ Distinct(s) /\ ~Holds(s, e) => Distinct(Append(s, e))
         /\ \A x, y : Precedes(s, x, y) /\ x # e => Precedes(Append(s, e), x, y)
         /\ \A x : ~Holds(s, x) => Precedes(Append(s, e), e, x) \/ x = e
<1> DEFINE t == Append(s, e)
<1>1. /\ t \in Seq(S) /\ t # <<>> /\ Len(t) = Len(s) + 1
      /\ \A i \in 1..Len(s) : t[i] = s[i]
      /\ t[Len(s) + 1] = e
      /\ Len(s) \in Nat
  BY AppendProperties
<1>2. /\ s # <<>> => Head(t) = Head(s)
      /\ s = <<>> => Head(t) = e
  BY HeadTailAppend
<1>3. \A i \in 1..Len(t) : i \in 1..Len(s) \/ i = Len(s) + 1
  BY <1>1
<1> HIDE DEF t
<1>4. \A x : Holds(t, x) <=> Holds(s, x) \/ x = e
  BY <1>1, <1>3 DEF Holds
<1>5. Distinct(s) /\ ~Holds(s, e) => Distinct(t)
  BY <1>1, <1>3 DEF Holds, Distinct
<1>6. \A x, y : Precedes(s, x, y) /\ x # e => Precedes(t, x, y)
  BY <1>1, <1>3 DEF Precedes
<1>7. \A x : ~Holds(s, x) => Precedes(t, e, x) \/ x = e
  BY <1>1, <1>3 DEF Precedes, Holds
<1> QED BY <1>1, <1>2, <1>4, <1>5, <1>6, <1>7 DEF t

(* Taking the head leaves the other elements, in their order.              *)
LEMMA QueueTail ==
  ASSUME NEW S, NEW s \in Seq(S), s # <<>>
  PROVE  /\ Head(s) \in S /\ Tail(s) \in Seq(S)
         /\ Holds(s, Head(s))
         /\ \A x : Holds(s, x) => x = Head(s) \/ Holds(Tail(s), x)
         /\ \A x : Holds(Tail(s), x) => Holds(s, x)
         /\ Distinct(s) => Distinct(Tail(s)) /\ ~Holds(Tail(s), Head(s))
         /\ \A x, y : Precedes(s, x, y) => Precedes(Tail(s), x, y)
         /\ \A x : Precedes(s, x, Head(s)) => ~Holds(s, x)
<1> DEFINE t == Tail(s)
<1>1. /\ Head(s) \in S /\ t \in Seq(S) /\ Len(t) = Len(s) - 1
      /\ \A i \in 1..Len(t) : t[i] = s[i + 1]
  BY HeadTailProperties
<1>2. Len(s) \in Nat \ {0} /\ Head(s) = s[1]
  BY EmptySeq
<1> HIDE DEF t
<1>3. \A i \in 1..Len(t) : i + 1 \in 1..Len(s) /\ t[i] = s[i + 1]
  BY <1>1, <1>2
<1>4. \A i \in 1..Len(s) : i = 1 \/ (i - 1 \in 1..Len(t) /\ t[i - 1] = s[i])
  BY <1>1, <1>2
<1>5. Holds(s, Head(s)) BY <1>2 DEF Holds
<1>6. \A x : Holds(s, x) => x = Head(s) \/ Holds(t, x)
  BY <1>2, <1>4 DEF Holds
<1>7. \A x : Holds(t, x) => Holds(s, x)
  BY <1>3 DEF Holds
<1>8. ASSUME Distinct(s) PROVE Distinct(t) /\ ~Holds(t, Head(s))
  <2>1. Distinct(t)
    <3> SUFFICES ASSUME NEW i \in 1..Len(t), NEW j \in 1..Len(t), t[i] = t[j]
                 PROVE  i = j
      BY DEF Distinct
    <3>1. i + 1 = j + 1 BY <1>3, <1>8 DEF Distinct
    <3> QED BY <3>1
  <2>2. ASSUME Holds(t, Head(s)) PROVE FALSE
    <3>1. PICK i \in 1..Len(t) : t[i] = Head(s) BY <2>2 DEF Holds
    <3>2. i + 1 = 1 BY <3>1, <1>2, <1>3, <1>8 DEF Distinct
    <3> QED BY <3>2
  <2> QED BY <2>1, <2>2
<1>9. \A x, y : Precedes(s, x, y) => Precedes(t, x, y)
  <2> SUFFICES ASSUME NEW x, NEW y, Precedes(s, x, y),
                      NEW i \in 1..Len(t), NEW j \in 1..Len(t),
                      t[i] = x, t[j] = y
               PROVE  i < j
    BY DEF Precedes
  <2>1. i + 1 < j + 1 BY <1>3 DEF Precedes
  <2> QED BY <2>1
<1>10. \A x : Precedes(s, x, Head(s)) => ~Holds(s, x)
  BY <1>2 DEF Precedes, Holds
<1> QED BY <1>1, <1>5, <1>6, <1>7, <1>8, <1>9, <1>10 DEF t

(* Joining adds the elements of the second queue after all others.         *)
LEMMA QueueConcat ==
  ASSUME NEW S, NEW s \in Seq(S), NEW f \in Seq(S)
  PROVE  /\ s \o f \in Seq(S)
         /\ s # <<>> => s \o f # <<>> /\ Head(s \o f) = Head(s)
         /\ \A x : Holds(s \o f, x) <=> Holds(s, x) \/ Holds(f, x)
         /\ Distinct(s) /\ Distinct(f) /\ (\A x : Holds(f, x) => ~Holds(s, x))
              => Distinct(s \o f)
         /\ \A x, y : Precedes(s, x, y) /\ ~Holds(f, x) => Precedes(s \o f, x, y)
<1> DEFINE t == s \o f
<1>1. /\ t \in Seq(S) /\ Len(t) = Len(s) + Len(f)
      /\ \A i \in 1..Len(t) : t[i] = IF i <= Len(s) THEN s[i] ELSE f[i - Len(s)]
  BY ConcatProperties
<1>2. Len(s) \in Nat /\ Len(f) \in Nat BY LenProperties
<1> HIDE DEF t
<1>3. \A i \in 1..Len(t) : \/ i \in 1..Len(s) /\ t[i] = s[i]
                           \/ /\ i - Len(s) \in 1..Len(f) /\ i > Len(s)
                              /\ t[i] = f[i - Len(s)]
  BY <1>1, <1>2
<1>4. \A i \in 1..Len(s) : i \in 1..Len(t) /\ t[i] = s[i]
  BY <1>1, <1>2
<1>5. \A i \in 1..Len(f) : i + Len(s) \in 1..Len(t) /\ t[i + Len(s)] = f[i]
  BY <1>1, <1>2
<1>6. s # <<>> => t # <<>> /\ Head(t) = Head(s)
  <2> SUFFICES ASSUME s # <<>> PROVE t # <<>> /\ Head(t) = Head(s) OBVIOUS
  <2>1. Len(s) # 0 BY EmptySeq
  <2>2. 1 \in 1..Len(s) /\ Head(s) = s[1] BY <2>1, <1>2
  <2>3. Len(t) # 0 /\ t[1] = s[1] BY <2>2, <1>4, <1>1, <1>2
  <2>4. t # <<>> BY <2>3
  <2> QED BY <2>2, <2>3, <2>4
<1>7. \A x : Holds(t, x) <=> Holds(s, x) \/ Holds(f, x)
  BY <1>3, <1>4, <1>5 DEF Holds
<1>8. ASSUME Distinct(s), Distinct(f), \A x : Holds(f, x) => ~Holds(s, x)
      PROVE  Distinct(t)
  <2> SUFFICES ASSUME NEW i \in 1..Len(t), NEW j \in 1..Len(t), t[i] = t[j]
               PROVE  i = j
    BY DEF Distinct
  <2>1. CASE i \in 1..Len(s) /\ t[i] = s[i] /\ j \in 1..Len(s) /\ t[j] = s[j]
    BY <2>1, <1>8 DEF Distinct
  <2>2. ASSUME NEW k \in 1..Len(t), k > Len(s), k - Len(s) \in 1..Len(f),
               t[k] = f[k - Len(s)]
        PROVE  Holds(f, t[k]) /\ ~Holds(s, t[k])
    BY <2>2, <1>8 DEF Holds
  <2>3. CASE /\ i - Len(s) \in 1..Len(f) /\ i > Len(s) /\ t[i] = f[i - Len(s)]
             /\ j - Len(s) \in 1..Len(f) /\ j > Len(s) /\ t[j] = f[j - Len(s)]
    <3>1. f[i - Len(s)] = f[j - Len(s)] BY <2>3
    <3>2. i - Len(s) = j - Len(s) BY <3>1, <2>3, <1>8 DEF Distinct
    <3> QED BY <3>2, <1>2
  <2>4. ASSUME NEW k \in 1..Len(t), k \in 1..Len(s), t[k] = s[k]
        PROVE  Holds(s, t[k])
    BY <2>4 DEF Holds
  <2> QED BY <1>3, <2>1, <2>2, <2>3, <2>4
<1>9. \A x, y : Precedes(s, x, y) /\ ~Holds(f, x) => Precedes(t, x, y)
  <2> SUFFICES ASSUME NEW x, NEW y, Precedes(s, x, y), ~Holds(f, x),
                      NEW i \in 1..Len(t), NEW j \in 1..Len(t),
                      t[i] = x, t[j] = y
               PROVE  i < j
    BY DEF Precedes
  <2>1. i \in 1..Len(s) /\ s[i] = x BY <1>3 DEF Holds
  <2>2. CASE j \in 1..Len(s) /\ s[j] = y BY <2>1, <2>2 DEF Precedes
  <2>3. CASE j > Len(s) BY <2>1, <2>3
  <2> QED BY <2>2, <2>3, <1>3
<1> QED BY <1>1, <1>6, <1>7, <1>8, <1>9 DEF t
=============================================================================

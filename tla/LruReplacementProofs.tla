------------------------ MODULE LruReplacementProofs ------------------------
(***************************************************************************)
(* The linked list of lru_replacement.c stays one well-formed list for any *)
(* heap, any sizes and any capacities.                                     *)
(*                                                                         *)
(* The two list operations are proved once, on policy and heap values      *)
(* (MoveInfoToHead, RemoveInfoFromList): moving to the head extends an     *)
(* order by the info at its top end, removing takes the info out of it.    *)
(* Every action that changes the list is a composition of the two.         *)
(***************************************************************************)
EXTENDS LruReplacement, QueueFacts, FiniteSetTheorems

(* The inductive invariant: NoLeak is in it because create_policy starts   *)
(* an empty list, which is the order of all infos only if none is left.    *)
Inv == TypeOK /\ ListInv /\ NoLeak

(* The orders that the two list operations turn an order s of n infos to.  *)
Extended(s, n, info) == [i \in 1..(n+1) |-> IF i = n + 1 THEN info ELSE s[i]]
Shortened(s, n, k) == [i \in 1..(n-1) |-> IF i < k THEN s[i] ELSE s[i+1]]
-----------------------------------------------------------------------------
(* move_info_to_head puts an info that is not in the list above all the    *)
(* others and changes nothing else of the list.                            *)
LEMMA MoveInfoToHead ==
  ASSUME NEW p \in PolicyObj, NEW D \in SUBSET Nodes, NEW h \in [D -> PinfoObj],
         NEW info \in D, NEW infos \in SUBSET D, info \notin infos,
         NEW n \in Nat, NEW s \in [1..n -> infos], IsOrder(p, h, infos, n, s)
  PROVE  /\ move_info_to_head(p, h, info).policy \in PolicyObj
         /\ move_info_to_head(p, h, info).heap \in [D -> PinfoObj]
         /\ IsOrder(move_info_to_head(p, h, info).policy,
                    move_info_to_head(p, h, info).heap,
                    infos \union {info}, n + 1, Extended(s, n, info))
<1> DEFINE old == p.top
           h1 == IF old = NULL THEN h ELSE [h EXCEPT ![old].high = info]
           h2 == [h1 EXCEPT ![info].low = old]
           h3 == [h2 EXCEPT ![info].high = NULL]
           q == [p EXCEPT !.top = info,
                          !.bottom = IF @ = NULL THEN info ELSE @]
           t == [i \in 1..(n+1) |-> IF i = n + 1 THEN info ELSE s[i]]
<1>1. /\ move_info_to_head(p, h, info).heap = h3
      /\ move_info_to_head(p, h, info).policy = q
  BY DEF move_info_to_head
<1>2. /\ \A i \in 1..n : s[i] \in D /\ s[i] # info /\ s[i] # NULL
      /\ info # NULL
  BY NullAssumption
<1>3. /\ n = 0 => old = NULL
      /\ n # 0 => old = s[n] /\ old \in D /\ old # NULL /\ old # info
  BY <1>2 DEF IsOrder
<1>4. h1 \in [D -> PinfoObj] /\ h2 \in [D -> PinfoObj] /\ h3 \in [D -> PinfoObj]
  <2>1. old \in Pointer /\ info \in Pointer /\ NULL \in Pointer
    BY DEF PolicyObj, Pointer
  <2>2. h1 \in [D -> PinfoObj]
    BY <2>1, <1>3 DEF PinfoObj
  <2>3. h2 \in [D -> PinfoObj]
    <3> HIDE DEF h1
    <3> QED BY <2>1, <2>2 DEF PinfoObj
  <2>4. h3 \in [D -> PinfoObj]
    <3> HIDE DEF h2
    <3> QED BY <2>1, <2>3 DEF PinfoObj
  <2> QED BY <2>2, <2>3, <2>4
<1>5. q \in PolicyObj /\ q.top = info
         /\ q.bottom = IF p.bottom = NULL THEN info ELSE p.bottom
  BY DEF PolicyObj, Pointer
<1>6. h3[info].low = old /\ h3[info].high = NULL
  BY <1>3, <1>4 DEF PinfoObj
<1>7. \A i \in 1..n : /\ h3[s[i]].low = h[s[i]].low
                      /\ i # n => h3[s[i]].high = h[s[i]].high
                      /\ i = n => h3[s[i]].high = info
  <2> TAKE i \in 1..n
  <2>1. s[i] # info /\ s[i] \in D BY <1>2
  <2>2. i # n => s[i] # old BY <1>3 DEF IsOrder
  <2>3. h3[s[i]] = h1[s[i]] BY <2>1, <1>4
  <2>4. h1[s[i]].low = h[s[i]].low BY <2>1, <1>4 DEF PinfoObj
  <2>5. CASE i # n
    <3>1. h1[s[i]] = h[s[i]] BY <2>1, <2>2, <2>5
    <3> QED BY <3>1, <2>3, <2>5
  <2>6. CASE i = n
    <3>1. old = s[i] /\ old # NULL BY <1>3, <2>6
    <3>2. h1[s[i]].high = info BY <3>1, <2>1 DEF PinfoObj
    <3> QED BY <3>2, <2>3, <2>4, <2>6
  <2> QED BY <2>5, <2>6, <2>3, <2>4
<1> HIDE DEF h3, h2, h1, q
<1>8. t \in [1..(n+1) -> infos \union {info}]
  OBVIOUS
<1>9. \A i, j \in 1..(n+1) : t[i] = t[j] => i = j
  BY <1>2 DEF IsOrder
<1>10. \A x \in infos \union {info} : \E i \in 1..(n+1) : t[i] = x
  BY DEF IsOrder
<1>11. q.bottom = t[1] /\ q.top = t[n+1]
  <2>1. CASE n = 0
    BY <2>1, <1>5 DEF IsOrder
  <2>2. CASE n # 0
    <3>1. p.bottom = s[1] /\ 1 \in 1..n BY <2>2 DEF IsOrder
    <3>2. p.bottom # NULL BY <3>1, <1>2
    <3> QED BY <3>1, <3>2, <2>2, <1>5
  <2> QED BY <2>1, <2>2
<1>12. \A i \in 1..(n+1) : h3[t[i]].low = Below(t, i)
  <2> TAKE i \in 1..(n+1)
  <2>1. CASE i = n + 1
    BY <2>1, <1>6, <1>3 DEF Below
  <2>2. CASE i # n + 1
    <3>1. i \in 1..n /\ t[i] = s[i] BY <2>2
    <3>2. h[s[i]].low = Below(s, i) BY <3>1 DEF IsOrder
    <3>3. Below(t, i) = Below(s, i) BY <3>1 DEF Below
    <3> QED BY <3>1, <3>2, <3>3, <1>7
  <2> QED BY <2>1, <2>2
<1>13. \A i \in 1..(n+1) : h3[t[i]].high = Above(t, n + 1, i)
  <2> TAKE i \in 1..(n+1)
  <2>1. CASE i = n + 1
    BY <2>1, <1>6 DEF Above
  <2>2. CASE i = n
    <3>1. h3[t[i]].high = info BY <2>2, <1>7
    <3> QED BY <2>2, <3>1 DEF Above
  <2>3. CASE i # n /\ i # n + 1
    <3>1. i \in 1..n /\ t[i] = s[i] /\ i + 1 \in 1..n /\ t[i+1] = s[i+1] BY <2>3
    <3>2. h[s[i]].high = Above(s, n, i) BY <3>1 DEF IsOrder
    <3>3. Above(t, n + 1, i) = Above(s, n, i) BY <3>1, <2>3 DEF Above
    <3> QED BY <3>1, <3>2, <3>3, <2>3, <1>7
  <2> QED BY <2>1, <2>2, <2>3
<1>14. IsOrder(q, h3, infos \union {info}, n + 1, t)
  BY <1>8, <1>9, <1>10, <1>11, <1>12, <1>13 DEF IsOrder
<1>15. t = Extended(s, n, info) BY DEF Extended
<1> HIDE DEF t
<1> QED BY <1>1, <1>4, <1>5, <1>14, <1>15

(* remove_info_from_list takes an info out of the list, wherever in it the *)
(* info is, and leaves the order of the others.                            *)
LEMMA RemoveInfoFromList ==
  ASSUME NEW p \in PolicyObj, NEW D \in SUBSET Nodes, NEW h \in [D -> PinfoObj],
         NEW n \in Nat, NEW s \in [1..n -> D], IsOrder(p, h, D, n, s),
         NEW k \in 1..n
  PROVE  /\ remove_info_from_list(p, h, s[k]).policy \in PolicyObj
         /\ remove_info_from_list(p, h, s[k]).heap \in [D -> PinfoObj]
         /\ IsOrder(remove_info_from_list(p, h, s[k]).policy,
                    remove_info_from_list(p, h, s[k]).heap,
                    D \ {s[k]}, n - 1, Shortened(s, n, k))
<1> DEFINE info == s[k]
           up == h[info].high
           h1 == IF up = NULL THEN h ELSE [h EXCEPT ![up].low = h[info].low]
           down == h1[info].low
           h2 == IF down = NULL THEN h1
                 ELSE [h1 EXCEPT ![down].high = h1[info].high]
           q == [p EXCEPT !.top    = IF @ = info THEN h2[info].low ELSE @,
                          !.bottom = IF @ = info THEN h2[info].high ELSE @]
           t == [i \in 1..(n-1) |-> IF i < k THEN s[i] ELSE s[i+1]]
<1>1. /\ remove_info_from_list(p, h, s[k]).heap = h2
      /\ remove_info_from_list(p, h, s[k]).policy = q
  BY DEF remove_info_from_list
<1>2. \A i \in 1..n : s[i] \in D /\ s[i] # NULL
  BY NullAssumption
<1>3. \A i, j \in 1..n : s[i] = s[j] => i = j
  BY DEF IsOrder
<1>4. /\ k = n => up = NULL
      /\ k # n => up = s[k+1] /\ up \in D /\ up # NULL /\ up # info
      /\ h[info].low = Below(s, k) /\ h[info].high = Above(s, n, k)
  BY <1>2, <1>3 DEF IsOrder, Above
<1>5. h1 \in [D -> PinfoObj]
  <2>1. h[info].low \in Pointer BY DEF PinfoObj
  <2> QED BY <2>1, <1>4 DEF PinfoObj
<1>6. h1[info] = h[info]
  BY <1>4, <1>2
<1>7. /\ k = 1 => down = NULL
      /\ k # 1 => down = s[k-1] /\ down \in D /\ down # NULL /\ down # info
  <2>1. down = Below(s, k) BY <1>4, <1>6
  <2> HIDE DEF down
  <2> QED BY <2>1, <1>2, <1>3 DEF Below
<1>8. h2 \in [D -> PinfoObj]
  <2>1. h1[info].high \in Pointer BY <1>5 DEF PinfoObj
  <2> HIDE DEF h1
  <2> QED BY <2>1, <1>5, <1>7 DEF PinfoObj
<1>9. h2[info] = h[info]
  <2> HIDE DEF h1
  <2> QED BY <1>5, <1>6, <1>7, <1>2
<1>10. \A i \in 1..n : i # k + 1 => h2[s[i]].low = h[s[i]].low
  <2> TAKE i \in 1..n
  <2> HAVE i # k + 1
  <2>1. s[i] \in D BY <1>2
  <2>2. k # n => s[i] # up BY <1>4, <1>3
  <2>3. h1[s[i]] = h[s[i]] BY <2>1, <2>2, <1>4
  <2> HIDE DEF h1
  <2>4. h2[s[i]].low = h1[s[i]].low BY <2>1, <1>5, <1>7 DEF PinfoObj
  <2> QED BY <2>3, <2>4
<1>11. k # n => h2[s[k+1]].low = Below(s, k)
  <2> HAVE k # n
  <2>1. up = s[k+1] /\ up \in D /\ up # NULL BY <1>4
  <2>2. h1[up].low = h[info].low BY <2>1 DEF PinfoObj
  <2> HIDE DEF h1, up
  <2>3. h2[up].low = h1[up].low BY <2>1, <1>5, <1>7 DEF PinfoObj
  <2> QED BY <2>1, <2>2, <2>3, <1>4
<1>12. \A i \in 1..n : i # k - 1 => h2[s[i]].high = h[s[i]].high
  <2> TAKE i \in 1..n
  <2> HAVE i # k - 1
  <2>1. s[i] \in D BY <1>2
  <2>2. h1[s[i]].high = h[s[i]].high BY <2>1, <1>4 DEF PinfoObj
  <2> HIDE DEF h1
  <2>3. k # 1 => s[i] # down BY <1>7, <1>3
  <2>4. h2[s[i]] = h1[s[i]] BY <2>1, <2>3, <1>5, <1>7
  <2> QED BY <2>2, <2>4
<1>13. k # 1 => h2[s[k-1]].high = Above(s, n, k)
  <2> HAVE k # 1
  <2>1. down = s[k-1] /\ down \in D /\ down # NULL BY <1>7
  <2>2. h1[info].high = Above(s, n, k) BY <1>4, <1>6
  <2> HIDE DEF h1, down
  <2>3. h2[down].high = h1[info].high BY <2>1, <1>5 DEF PinfoObj
  <2> QED BY <2>1, <2>2, <2>3
<1> HIDE DEF h1, h2, up, down
<1>14. /\ q \in PolicyObj
       /\ q.top = IF p.top = info THEN Below(s, k) ELSE p.top
       /\ q.bottom = IF p.bottom = info THEN Above(s, n, k) ELSE p.bottom
  <2>1. h2[info].low = Below(s, k) /\ h2[info].high = Above(s, n, k)
    BY <1>4, <1>9
  <2>2. h2[info].low \in Pointer /\ h2[info].high \in Pointer
    BY <1>8 DEF PinfoObj
  <2> QED BY <2>1, <2>2 DEF PolicyObj
<1> HIDE DEF q
<1>15. t \in [1..(n-1) -> D \ {info}]
  BY <1>2, <1>3
<1>16. \A i, j \in 1..(n-1) : t[i] = t[j] => i = j
  BY <1>3
<1>17. \A x \in D \ {info} : \E i \in 1..(n-1) : t[i] = x
  <2> TAKE x \in D \ {info}
  <2>1. PICK j \in 1..n : s[j] = x BY DEF IsOrder
  <2>2. CASE j < k BY <2>1, <2>2
  <2>3. CASE j > k
    <3>1. j - 1 \in 1..(n-1) /\ t[j-1] = s[j] BY <2>3
    <3> QED BY <3>1, <2>1
  <2> QED BY <2>1, <2>2, <2>3
<1>18. q.bottom = IF n - 1 = 0 THEN NULL ELSE t[1]
  <2>1. p.bottom = s[1] BY DEF IsOrder
  <2>2. CASE k = 1
    BY <2>1, <2>2, <1>14 DEF Above
  <2>3. CASE k # 1
    BY <2>1, <2>3, <1>14, <1>3
  <2> QED BY <2>2, <2>3
<1>19. q.top = IF n - 1 = 0 THEN NULL ELSE t[n-1]
  <2>1. p.top = s[n] BY DEF IsOrder
  <2>2. CASE k = n
    BY <2>1, <2>2, <1>14 DEF Below
  <2>3. CASE k # n
    BY <2>1, <2>3, <1>14, <1>3
  <2> QED BY <2>2, <2>3
<1>20. \A i \in 1..(n-1) : h2[t[i]].low = Below(t, i)
  <2> TAKE i \in 1..(n-1)
  <2>1. CASE i < k
    <3>1. i \in 1..n /\ t[i] = s[i] /\ i # k + 1 BY <2>1
    <3>2. h2[s[i]].low = Below(s, i) BY <3>1, <1>10 DEF IsOrder
    <3>3. Below(t, i) = Below(s, i) BY <2>1 DEF Below
    <3> QED BY <3>1, <3>2, <3>3
  <2>2. CASE i = k
    <3>1. h2[t[i]].low = Below(s, k) BY <2>2, <1>11
    <3>2. Below(t, i) = Below(s, k) BY <2>2 DEF Below
    <3> QED BY <3>1, <3>2
  <2>3. CASE i > k
    <3>1. i + 1 \in 1..n /\ t[i] = s[i+1] /\ i + 1 # k + 1 BY <2>3
    <3>2. h2[s[i+1]].low = Below(s, i + 1) BY <3>1, <1>10 DEF IsOrder
    <3>3. Below(t, i) = Below(s, i + 1) BY <2>3 DEF Below
    <3> QED BY <3>1, <3>2, <3>3
  <2> QED BY <2>1, <2>2, <2>3
<1>21. \A i \in 1..(n-1) : h2[t[i]].high = Above(t, n - 1, i)
  <2> TAKE i \in 1..(n-1)
  <2>1. CASE i < k - 1
    <3>1. i \in 1..n /\ t[i] = s[i] /\ t[i+1] = s[i+1] BY <2>1
    <3>2. h2[s[i]].high = Above(s, n, i) BY <3>1, <2>1, <1>12 DEF IsOrder
    <3>3. Above(t, n - 1, i) = Above(s, n, i) BY <2>1, <3>1 DEF Above
    <3> QED BY <3>1, <3>2, <3>3
  <2>2. CASE i = k - 1
    <3>1. t[i] = s[k-1] /\ k # 1 BY <2>2
    <3>2. h2[t[i]].high = Above(s, n, k) BY <3>1, <1>13
    <3>3. Above(t, n - 1, i) = Above(s, n, k) BY <2>2 DEF Above
    <3> QED BY <3>2, <3>3
  <2>3. CASE i > k - 1
    <3>1. i + 1 \in 1..n /\ t[i] = s[i+1] BY <2>3
    <3>2. h2[s[i+1]].high = Above(s, n, i + 1) BY <3>1, <2>3, <1>12 DEF IsOrder
    <3>3. Above(t, n - 1, i) = Above(s, n, i + 1) BY <2>3 DEF Above
    <3> QED BY <3>1, <3>2, <3>3
  <2> QED BY <2>1, <2>2, <2>3
<1>22. IsOrder(q, h2, D \ {info}, n - 1, t)
  BY <1>15, <1>16, <1>17, <1>18, <1>19, <1>20, <1>21 DEF IsOrder
<1>23. t = Shortened(s, n, k) BY DEF Shortened
<1> HIDE DEF t
<1> QED BY <1>1, <1>8, <1>14, <1>22, <1>23

(* Walking up from the bottom visits the infos in their order and then     *)
(* stays at NULL.                                                          *)
LEMMA AscentFollowsOrder ==
  ASSUME NEW p \in PolicyObj, NEW D \in SUBSET Nodes, NEW h \in [D -> PinfoObj],
         NEW n \in Nat, n = Cardinality(D),
         NEW s \in [1..n -> D], IsOrder(p, h, D, n, s)
  PROVE  \A i \in 0..n : Ascent(p, h)[i] = IF i = n THEN NULL ELSE s[i+1]
<1> DEFINE step(g, i) == IF i = 0 THEN p.bottom
                         ELSE IF g[i-1] = NULL THEN NULL ELSE h[g[i-1]].high
           w == [i \in 0..n |-> IF i = n THEN NULL ELSE s[i+1]]
           at == CHOOSE g : g = [i \in 0..n |-> step(g, i)]
<1>1. Ascent(p, h) = at
  <2>1. DOMAIN h = D OBVIOUS
  <2> QED BY <2>1 DEF Ascent
<1>2. \A i \in 1..n : s[i] # NULL
  BY NullAssumption
<1>3. \A i \in 0..n : w[i] = step(w, i)
  <2> TAKE i \in 0..n
  <2>1. CASE i = 0
    BY <2>1 DEF IsOrder
  <2>2. CASE i # 0
    <3>1. i \in 1..n /\ i - 1 \in 0..n /\ i - 1 # n BY <2>2
    <3>2. w[i-1] = s[i] BY <3>1
    <3>3. h[s[i]].high = Above(s, n, i) BY <3>1 DEF IsOrder
    <3> QED BY <3>1, <3>2, <3>3, <1>2, <2>2 DEF Above
  <2> QED BY <2>1, <2>2
<1>4. w = [i \in 0..n |-> step(w, i)]
  BY <1>3
<1>5. at = [i \in 0..n |-> step(at, i)]
  <2> HIDE DEF w, step
  <2> QED BY <1>4, Zenon
<1>6. \A i \in 0..n : at[i] = step(at, i)
  <2> HIDE DEF at, step
  <2> QED BY <1>5, Zenon
<1> HIDE DEF at, w
<1> DEFINE S == {i \in 0..n : at[i] = w[i]}
<1>7. 0 \in S
  BY <1>3, <1>6
<1>8. \A i \in 0..n : i # n /\ i \in S => i + 1 \in S
  <2> SUFFICES ASSUME NEW i \in 0..n, i # n, i \in S PROVE i + 1 \in S OBVIOUS
  <2>1. i + 1 \in 0..n /\ i + 1 # 0 /\ (i + 1) - 1 = i OBVIOUS
  <2>2. at[i] = w[i] OBVIOUS
  <2>3. step(at, i + 1) = step(w, i + 1) BY <2>1, <2>2
  <2> QED BY <2>1, <2>3, <1>3, <1>6
<1>9. \A i \in 0..n : i \in S
  <2> HIDE DEF S
  <2> QED BY <1>7, <1>8, UpTo
<1> QED BY <1>1, <1>9 DEF w
-----------------------------------------------------------------------------
LEMMA InitInv == Init => Inv
  BY DEF Init, Inv, TypeOK, ListInv, NoLeak

LEMMA CreatePolicyInv ==
  ASSUME Inv, NEW m \in MaxMems, create_policy(m)
  PROVE  Inv'
<1>1. policy' \in PolicyObj /\ policy' # NULL
  BY NullIsNoPolicy, MaxMemsAreNat DEF create_policy, PolicyObj, Pointer
<1>2. heap' = heap /\ DOMAIN heap = {} /\ Count = 0 /\ Count' = 0
  BY FS_EmptySet DEF create_policy, Inv, NoLeak, Count
<1>3. TypeOK'
  BY <1>1, <1>2 DEF Inv, TypeOK, create_policy
<1>4. ListInv'
  <2> DEFINE s == [i \in 1..0 |-> NULL]
  <2>1. s \in [1..0 -> {}] OBVIOUS
  <2>2. policy'.bottom = NULL /\ policy'.top = NULL BY DEF create_policy
  <2>3. IsOrder(policy', heap', {}, 0, s) BY <2>1, <2>2 DEF IsOrder
  <2> QED BY <2>1, <2>3, <1>2 DEF ListInv
<1> QED BY <1>1, <1>3, <1>4 DEF Inv, NoLeak

LEMMA HeapFinite ==
  ASSUME TypeOK
  PROVE  /\ IsFiniteSet(DOMAIN heap)
         /\ Count \in Nat
         /\ \A info \in DOMAIN heap : Cardinality(DOMAIN heap \ {info}) = Count - 1
         /\ \A info : info \notin DOMAIN heap =>
              Cardinality(DOMAIN heap \union {info}) = Count + 1
<1>1. IsFiniteSet(DOMAIN heap) BY NodesFinite, FS_Subset DEF TypeOK
<1> QED BY <1>1, FS_CardinalityType, FS_AddElement, FS_RemoveElement DEF Count

LEMMA DeletePolicyInv ==
  ASSUME Inv, delete_policy
  PROVE  Inv'
<1> DEFINE D == DOMAIN heap
           freed == {Ascent(policy, heap)[i] : i \in 0..Cardinality(DOMAIN heap)}
<1>1. policy \in PolicyObj /\ policy # NULL /\ D \in SUBSET Nodes
        /\ heap \in [D -> PinfoObj]
  BY DEF Inv, TypeOK, delete_policy
<1>2. Count \in Nat /\ Count = Cardinality(D)
  BY HeapFinite DEF Inv, Count
<1>3. PICK s \in [1..Count -> D] : IsOrder(policy, heap, D, Count, s)
  BY <1>1 DEF Inv, ListInv
<1>4. \A i \in 0..Count : Ascent(policy, heap)[i] = IF i = Count THEN NULL ELSE s[i+1]
  BY <1>1, <1>2, <1>3, AscentFollowsOrder
<1>5. D \subseteq freed
  <2> SUFFICES ASSUME NEW info \in D PROVE info \in freed OBVIOUS
  <2>1. PICK i \in 1..Count : s[i] = info BY <1>3 DEF IsOrder
  <2>2. i - 1 \in 0..Count /\ i - 1 # Count /\ (i - 1) + 1 = i BY <1>2
  <2>3. Ascent(policy, heap)[i-1] = info BY <2>1, <2>2, <1>4
  <2> QED BY <2>2, <2>3, <1>2
<1>6. heap' = [x \in D \ freed |-> heap[x]] /\ policy' = NULL
  BY DEF delete_policy
<1>7. DOMAIN heap' = {}
  <2> HIDE DEF freed, D
  <2> QED BY <1>5, <1>6
<1>8. heap' \in [DOMAIN heap' -> PinfoObj]
  <2> HIDE DEF freed
  <2> QED BY <1>1, <1>6
<1> QED BY <1>6, <1>7, <1>8 DEF Inv, TypeOK, ListInv, NoLeak

LEMMA CreateInfoInv ==
  ASSUME Inv, NEW info \in Nodes, NEW id \in Idents, NEW val_size \in Sizes,
         create_info(info, id, val_size)
  PROVE  /\ Inv' /\ policy' # NULL
         /\ DOMAIN heap' = DOMAIN heap \union {info} /\ Count' = Count + 1
         /\ \E s \in [1..Count -> DOMAIN heap] :
              /\ IsOrder(policy, heap, DOMAIN heap, Count, s)
              /\ IsOrder(policy', heap', DOMAIN heap', Count', Extended(s, Count, info))
<1> DEFINE D == DOMAIN heap
           newinf == [low |-> NULL, high |-> NULL,
                      ident |-> id, val_size |-> val_size]
           h == [x \in D \union {info} |-> IF x = info THEN newinf ELSE heap[x]]
           moved == move_info_to_head(policy, h, info)
<1>1. policy \in PolicyObj /\ policy # NULL /\ D \in SUBSET Nodes
        /\ heap \in [D -> PinfoObj] /\ info \notin D
  BY DEF Inv, TypeOK, create_info
<1>2. Count \in Nat /\ Cardinality(D \union {info}) = Count + 1
  BY <1>1, HeapFinite DEF Inv
<1>3. PICK s \in [1..Count -> D] : IsOrder(policy, heap, D, Count, s)
  BY <1>1 DEF Inv, ListInv
<1>4. h \in [D \union {info} -> PinfoObj]
  BY <1>1 DEF PinfoObj, Pointer
<1>5. IsOrder(policy, h, D, Count, s)
  <2>1. \A i \in 1..Count : h[s[i]] = heap[s[i]]
    BY <1>1
  <2> QED BY <1>3, <2>1 DEF IsOrder
<1> DEFINE t == Extended(s, Count, info)
<1>6. /\ moved.policy \in PolicyObj
      /\ moved.heap \in [D \union {info} -> PinfoObj]
      /\ IsOrder(moved.policy, moved.heap, D \union {info}, Count + 1, t)
  <2>1. D \union {info} \in SUBSET Nodes BY <1>1
  <2>2. info \in D \union {info} /\ D \in SUBSET (D \union {info}) OBVIOUS
  <2> HIDE DEF h, D
  <2> QED BY <2>1, <2>2, <1>1, <1>2, <1>4, <1>5, MoveInfoToHead, Zenon
<1>7. heap' = moved.heap /\ policy' = [moved.policy EXCEPT !.used_mem = @ + val_size]
  BY DEF create_info
<1> HIDE DEF moved
<1>8. /\ policy' \in PolicyObj /\ policy' # NULL
      /\ policy'.top = moved.policy.top /\ policy'.bottom = moved.policy.bottom
  BY <1>6, <1>7, SizesAreNat, NullIsNoPolicy DEF PolicyObj
<1>9. DOMAIN heap' = D \union {info} /\ Count' = Count + 1
  BY <1>2, <1>6, <1>7 DEF Count
<1>10. TypeOK'
  BY <1>1, <1>6, <1>7, <1>8, <1>9 DEF TypeOK
<1> HIDE DEF t
<1>11. IsOrder(policy', heap', D \union {info}, Count + 1, t)
  BY <1>6, <1>7, <1>8 DEF IsOrder
<1>12. t \in [1..(Count+1) -> D \union {info}] BY <1>11 DEF IsOrder
<1>13. ListInv' BY <1>9, <1>11, <1>12 DEF ListInv
<1>14. Inv' BY <1>8, <1>10, <1>13 DEF Inv, NoLeak
<1> QED BY <1>3, <1>8, <1>9, <1>11, <1>14 DEF t

(* What remove_info_from_list does to the state of an action.              *)
LEMMA RemoveFromState ==
  ASSUME Inv, policy # NULL, NEW info \in DOMAIN heap
  PROVE  LET res == remove_info_from_list(policy, heap, info)
             rest == DOMAIN heap \ {info}
         IN  /\ res.policy \in PolicyObj
             /\ res.heap \in [DOMAIN heap -> PinfoObj]
             /\ Count \in Nat /\ Count - 1 \in Nat /\ Cardinality(rest) = Count - 1
             /\ \E s \in [1..Count -> DOMAIN heap] : \E k \in 1..Count :
                  /\ IsOrder(policy, heap, DOMAIN heap, Count, s) /\ s[k] = info
                  /\ Shortened(s, Count, k) \in [1..(Count-1) -> rest]
                  /\ IsOrder(res.policy, res.heap, rest, Count - 1,
                             Shortened(s, Count, k))
<1> DEFINE D == DOMAIN heap
<1>1. policy \in PolicyObj /\ D \in SUBSET Nodes /\ heap \in [D -> PinfoObj]
  BY DEF Inv, TypeOK
<1>2. Count \in Nat /\ Cardinality(D \ {info}) = Count - 1
  BY HeapFinite DEF Inv
<1>3. PICK s \in [1..Count -> D] : IsOrder(policy, heap, D, Count, s)
  BY DEF Inv, ListInv
<1>4. PICK k \in 1..Count : s[k] = info
  BY <1>3 DEF IsOrder
<1> DEFINE t == Shortened(s, Count, k)
           res == remove_info_from_list(policy, heap, info)
<1>5. /\ res.policy \in PolicyObj
      /\ res.heap \in [D -> PinfoObj]
      /\ IsOrder(res.policy, res.heap, D \ {info}, Count - 1, t)
  <2> HIDE DEF D
  <2> QED BY <1>1, <1>2, <1>3, <1>4, RemoveInfoFromList, Zenon
<1>6. Count - 1 \in Nat BY <1>2, <1>4
<1>7. t \in [1..(Count-1) -> D \ {info}]
  <2> HIDE DEF t, res
  <2> QED BY <1>5 DEF IsOrder
<1> QED BY <1>2, <1>3, <1>4, <1>5, <1>6, <1>7

LEMMA DeleteInfoInv ==
  ASSUME Inv, NEW info \in DOMAIN heap, delete_info(info)
  PROVE  /\ Inv' /\ policy' # NULL
         /\ DOMAIN heap' = DOMAIN heap \ {info} /\ Count' = Count - 1
         /\ \E s \in [1..Count -> DOMAIN heap] : \E k \in 1..Count :
              /\ IsOrder(policy, heap, DOMAIN heap, Count, s) /\ s[k] = info
              /\ IsOrder(policy', heap', DOMAIN heap', Count', Shortened(s, Count, k))
<1> DEFINE D == DOMAIN heap
           rest == D \ {info}
           removed == remove_info_from_list(policy, heap, info)
<1>1. policy # NULL /\ D \in SUBSET Nodes
  BY DEF Inv, TypeOK, delete_info
<1>2. /\ removed.policy \in PolicyObj
      /\ removed.heap \in [D -> PinfoObj]
      /\ Count - 1 \in Nat /\ Cardinality(rest) = Count - 1
  BY <1>1, RemoveFromState
<1>a. PICK s \in [1..Count -> D] : \E k \in 1..Count :
         /\ IsOrder(policy, heap, D, Count, s) /\ s[k] = info
         /\ Shortened(s, Count, k) \in [1..(Count-1) -> rest]
         /\ IsOrder(removed.policy, removed.heap, rest, Count - 1,
                    Shortened(s, Count, k))
  BY <1>1, RemoveFromState
<1>b. PICK k \in 1..Count :
         /\ IsOrder(policy, heap, D, Count, s) /\ s[k] = info
         /\ Shortened(s, Count, k) \in [1..(Count-1) -> rest]
         /\ IsOrder(removed.policy, removed.heap, rest, Count - 1,
                    Shortened(s, Count, k))
  BY <1>a
<1> DEFINE t == Shortened(s, Count, k)
<1>3. /\ policy' = [removed.policy EXCEPT !.used_mem = @ - removed.heap[info].val_size]
      /\ heap' = [x \in rest |-> removed.heap[x]]
  BY DEF delete_info
<1> HIDE DEF removed
<1>4. removed.heap[info].val_size \in Nat
  BY <1>2, SizesAreNat DEF PinfoObj
<1>5. /\ policy' \in PolicyObj /\ policy' # NULL
      /\ policy'.top = removed.policy.top /\ policy'.bottom = removed.policy.bottom
  BY <1>2, <1>3, <1>4, NullIsNoPolicy DEF PolicyObj
<1>6. DOMAIN heap' = rest /\ Count' = Count - 1 /\ heap' \in [rest -> PinfoObj]
  BY <1>2, <1>3 DEF Count
<1>7. TypeOK'
  BY <1>1, <1>5, <1>6 DEF TypeOK
<1> HIDE DEF t
<1>8. IsOrder(policy', heap', rest, Count - 1, t)
  <2>1. \A i \in 1..(Count-1) : heap'[t[i]] = removed.heap[t[i]]
    BY <1>3, <1>b DEF t
  <2> QED BY <2>1, <1>b, <1>5 DEF IsOrder, t
<1>9. ListInv' BY <1>6, <1>8, <1>b DEF ListInv, t
<1>10. Inv' BY <1>5, <1>7, <1>9 DEF Inv, NoLeak
<1> QED BY <1>5, <1>6, <1>8, <1>10, <1>b, ZenonT(60) DEF t

LEMMA InfoGottenInv ==
  ASSUME Inv, NEW info \in DOMAIN heap, info_gotten(info)
  PROVE  /\ Inv' /\ policy' # NULL
         /\ DOMAIN heap' = DOMAIN heap /\ Count' = Count
         /\ \E s \in [1..Count -> DOMAIN heap] : \E k \in 1..Count :
              /\ IsOrder(policy, heap, DOMAIN heap, Count, s) /\ s[k] = info
              /\ IsOrder(policy', heap', DOMAIN heap', Count',
                         Extended(Shortened(s, Count, k), Count - 1, info))
<1> DEFINE D == DOMAIN heap
           rest == D \ {info}
           removed == remove_info_from_list(policy, heap, info)
           moved == move_info_to_head(removed.policy, removed.heap, info)
<1>1. policy # NULL /\ D \in SUBSET Nodes
  BY DEF Inv, TypeOK, info_gotten
<1>2. /\ removed.policy \in PolicyObj
      /\ removed.heap \in [D -> PinfoObj]
      /\ Count - 1 \in Nat
  BY <1>1, RemoveFromState
<1>3. PICK s \in [1..Count -> D] : \E k \in 1..Count :
        /\ IsOrder(policy, heap, D, Count, s) /\ s[k] = info
        /\ Shortened(s, Count, k) \in [1..(Count-1) -> rest]
        /\ IsOrder(removed.policy, removed.heap, rest, Count - 1,
                   Shortened(s, Count, k))
  BY <1>1, RemoveFromState
<1>a. PICK k \in 1..Count :
        /\ IsOrder(policy, heap, D, Count, s) /\ s[k] = info
        /\ Shortened(s, Count, k) \in [1..(Count-1) -> rest]
        /\ IsOrder(removed.policy, removed.heap, rest, Count - 1,
                   Shortened(s, Count, k))
  BY <1>3
<1> DEFINE w == Shortened(s, Count, k)
           t == Extended(w, Count - 1, info)
<1>4. /\ moved.policy \in PolicyObj
      /\ moved.heap \in [D -> PinfoObj]
      /\ IsOrder(moved.policy, moved.heap, rest \union {info}, (Count - 1) + 1, t)
  <2>1. rest \in SUBSET D /\ info \notin rest /\ info \in D OBVIOUS
  <2>2. w \in [1..(Count-1) -> rest]
        /\ IsOrder(removed.policy, removed.heap, rest, Count - 1, w)
    BY <1>a
  <2> HIDE DEF rest, D, removed, w
  <2> QED BY <2>1, <2>2, <1>1, <1>2, MoveInfoToHead, Zenon
<1>5. policy' = moved.policy /\ heap' = moved.heap
  BY DEF info_gotten
<1> HIDE DEF moved, removed
<1>6. rest \union {info} = D /\ (Count - 1) + 1 = Count
  <2>1. Count \in Nat BY HeapFinite DEF Inv
  <2>2. rest \union {info} = D OBVIOUS
  <2>3. (Count - 1) + 1 = Count BY <2>1
  <2> QED BY <2>2, <2>3
<1>7. DOMAIN heap' = D /\ Count' = Count /\ policy' # NULL
  BY <1>4, <1>5, NullIsNoPolicy DEF Count
<1>8. TypeOK'
  BY <1>1, <1>4, <1>5, <1>7 DEF TypeOK
<1>9. IsOrder(policy', heap', D, Count, t) BY <1>4, <1>5, <1>6
<1> HIDE DEF t
<1>10. Inv'
  <2>1. t \in [1..Count -> D] BY <1>9 DEF IsOrder
  <2>2. ListInv' BY <2>1, <1>7, <1>9 DEF ListInv
  <2> QED BY <2>2, <1>7, <1>8 DEF Inv, NoLeak
<1> QED BY <1>7, <1>9, <1>10, <1>a DEF t

LEMMA NextInv == Inv /\ [Next]_vars => Inv'
<1> SUFFICES ASSUME Inv, [Next]_vars PROVE Inv' OBVIOUS
<1>1. ASSUME NEW m \in MaxMems, create_policy(m) PROVE Inv'
  BY <1>1, CreatePolicyInv
<1>2. CASE delete_policy
  BY <1>2, DeletePolicyInv
<1>3. ASSUME NEW info \in Nodes, NEW id \in Idents, NEW val_size \in Sizes,
             create_info(info, id, val_size)
      PROVE  Inv'
  BY <1>3, CreateInfoInv
<1>4. ASSUME NEW info \in DOMAIN heap, delete_info(info) PROVE Inv'
  BY <1>4, DeleteInfoInv
<1>5. ASSUME NEW info \in DOMAIN heap, info_gotten(info) PROVE Inv'
  BY <1>5, InfoGottenInv
<1>6. ASSUME NEW val_size \in Sizes, ids_to_delete_if_added(val_size) PROVE Inv'
  BY <1>6 DEF ids_to_delete_if_added, Inv, TypeOK, ListInv, NoLeak, Count
<1>7. CASE UNCHANGED vars
  BY <1>7 DEF vars, Inv, TypeOK, ListInv, NoLeak, Count
<1> QED BY <1>1, <1>2, <1>3, <1>4, <1>5, <1>6, <1>7 DEF Next
-----------------------------------------------------------------------------
(* Every state of the policy is well typed, its infos form one doubly      *)
(* linked list from bottom to top, and no info outlives delete_policy.     *)
THEOREM AlwaysInv == Spec => []Inv
  BY InitInv, NextInv, PTL DEF Spec

(* Type correctness of the policy and of every allocated info.             *)
THEOREM TypeCorrect == Spec => []TypeOK
<1>1. Inv => TypeOK BY DEF Inv
<1> QED BY <1>1, AlwaysInv, PTL

(* The pointer surgery of remove_info_from_list and move_info_to_head      *)
(* never breaks the list, in whatever order the policy is used.            *)
THEOREM ListStaysWellFormed == Spec => []ListInv
<1>1. Inv => ListInv BY DEF Inv
<1> QED BY <1>1, AlwaysInv, PTL

(* delete_policy frees every info there is.                                *)
THEOREM NothingLeaks == Spec => []NoLeak
<1>1. Inv => NoLeak BY DEF Inv
<1> QED BY <1>1, AlwaysInv, PTL
-----------------------------------------------------------------------------
(* The refinement: the list as a policy value of LruPolicy.                *)
LP == INSTANCE LruPolicyProofs

InfoAt(h, x) == [ident |-> h[x].ident, val_size |-> h[x].val_size]

ListOf(h, s, n) == [i \in 1..n |-> InfoAt(h, s[i])]

ListValue(p, h, s, n) ==
  [maxmem |-> p.maxmem, used_mem |-> p.used_mem,
   list |-> ListOf(h, s, n), aborted |-> FALSE]

(* The two list operations leave what an info says of its value alone.     *)
LEMMA MoveKeepsInfos ==
  ASSUME NEW p \in PolicyObj, NEW D, NEW h \in [D -> PinfoObj], NEW info \in D
  PROVE  /\ move_info_to_head(p, h, info).policy.used_mem = p.used_mem
         /\ move_info_to_head(p, h, info).policy.maxmem = p.maxmem
         /\ \A x \in D : InfoAt(move_info_to_head(p, h, info).heap, x) = InfoAt(h, x)
<1> DEFINE old == p.top
           h1 == IF old = NULL THEN h ELSE [h EXCEPT ![old].high = info]
           h2 == [h1 EXCEPT ![info].low = old]
           h3 == [h2 EXCEPT ![info].high = NULL]
<1>1. move_info_to_head(p, h, info).heap = h3 BY DEF move_info_to_head
<1>2. /\ move_info_to_head(p, h, info).policy.used_mem = p.used_mem
      /\ move_info_to_head(p, h, info).policy.maxmem = p.maxmem
  BY DEF move_info_to_head, PolicyObj
<1>3. \A x \in D : h1[x].ident = h[x].ident /\ h1[x].val_size = h[x].val_size
  BY DEF PinfoObj
<1>4. \A x \in D : h2[x].ident = h1[x].ident /\ h2[x].val_size = h1[x].val_size
  BY DEF PinfoObj
<1>5. \A x \in D : h3[x].ident = h2[x].ident /\ h3[x].val_size = h2[x].val_size
  BY DEF PinfoObj
<1> HIDE DEF h1, h2, h3
<1> QED BY <1>1, <1>2, <1>3, <1>4, <1>5 DEF InfoAt

LEMMA RemoveKeepsInfos ==
  ASSUME NEW p \in PolicyObj, NEW D, NEW h \in [D -> PinfoObj], NEW info \in D
  PROVE  /\ remove_info_from_list(p, h, info).policy.used_mem = p.used_mem
         /\ remove_info_from_list(p, h, info).policy.maxmem = p.maxmem
         /\ \A x \in D : InfoAt(remove_info_from_list(p, h, info).heap, x) = InfoAt(h, x)
<1> DEFINE up == h[info].high
           h1 == IF up = NULL THEN h ELSE [h EXCEPT ![up].low = h[info].low]
           down == h1[info].low
           h2 == IF down = NULL THEN h1
                 ELSE [h1 EXCEPT ![down].high = h1[info].high]
<1>1. remove_info_from_list(p, h, info).heap = h2 BY DEF remove_info_from_list
<1>2. /\ remove_info_from_list(p, h, info).policy.used_mem = p.used_mem
      /\ remove_info_from_list(p, h, info).policy.maxmem = p.maxmem
  BY DEF remove_info_from_list, PolicyObj
<1>3. \A x \in D : h1[x].ident = h[x].ident /\ h1[x].val_size = h[x].val_size
  BY DEF PinfoObj
<1>4. \A x \in D : h2[x].ident = h1[x].ident /\ h2[x].val_size = h1[x].val_size
  BY DEF PinfoObj
<1> HIDE DEF h1, h2
<1> QED BY <1>1, <1>2, <1>3, <1>4 DEF InfoAt

(* The infos have only one order.                                          *)
LEMMA OrderIsUnique ==
  ASSUME TypeOK, policy \in PolicyObj,
         NEW s \in [1..Count -> DOMAIN heap], NEW t \in [1..Count -> DOMAIN heap],
         IsOrder(policy, heap, DOMAIN heap, Count, s),
         IsOrder(policy, heap, DOMAIN heap, Count, t)
  PROVE  s = t
<1> DEFINE D == DOMAIN heap
<1>1. /\ D \in SUBSET Nodes /\ heap \in [D -> PinfoObj]
      /\ Count \in Nat /\ Count = Cardinality(D)
  BY HeapFinite DEF TypeOK, Count
<1>2. \A i \in 0..Count :
        Ascent(policy, heap)[i] = IF i = Count THEN NULL ELSE s[i+1]
  BY <1>1, AscentFollowsOrder, SMTT(30)
<1>3. \A i \in 0..Count :
        Ascent(policy, heap)[i] = IF i = Count THEN NULL ELSE t[i+1]
  BY <1>1, AscentFollowsOrder
<1>4. ASSUME NEW i \in 1..Count PROVE s[i] = t[i]
  <2>1. i - 1 \in 0..Count /\ i - 1 # Count /\ (i - 1) + 1 = i BY <1>1
  <2> QED BY <2>1, <1>2, <1>3
<1>5. s = [i \in 1..Count |-> s[i]] /\ t = [i \in 1..Count |-> t[i]] OBVIOUS
<1> QED BY <1>4, <1>5

(* So the list of ListPolicy is that order, in every state.                *)
ListFollowsOrder ==
  \A s \in [1..Count -> DOMAIN heap] :
    TypeOK /\ policy # NULL /\ IsOrder(policy, heap, DOMAIN heap, Count, s)
      => ListPolicy = ListValue(policy, heap, s, Count)

LEMMA TheList == ListFollowsOrder
<1> SUFFICES ASSUME NEW s \in [1..Count -> DOMAIN heap], TypeOK, policy # NULL,
                    IsOrder(policy, heap, DOMAIN heap, Count, s)
             PROVE  ListPolicy = ListValue(policy, heap, s, Count)
  BY DEF ListFollowsOrder
<1>1. Order \in [1..Count -> DOMAIN heap]
      /\ IsOrder(policy, heap, DOMAIN heap, Count, Order)
  <2> HIDE DEF IsOrder, Count
  <2> QED BY DEF Order
<1>2. policy \in PolicyObj BY DEF TypeOK
<1>3. Order = s BY <1>1, <1>2, OrderIsUnique
<1> QED BY <1>3 DEF ListPolicy, ListValue, ListOf, InfoAt

(* The operators of LruPolicy under its two instances are the same.        *)
LEMMA SameOperators ==
  /\ \A l : Promise!Total(l) = LP!Total(l)
  /\ \A l : Promise!RunningTotal(l) = LP!RunningTotal(l)
  /\ \A m : Promise!create_policy(m) = LP!create_policy(m)
  /\ \A p, id, size : Promise!create_info(p, id, size) = LP!create_info(p, id, size)
  /\ \A p, id : Promise!delete_info(p, id) = LP!delete_info(p, id)
  /\ \A p, id : Promise!info_gotten(p, id) = LP!info_gotten(p, id)
  /\ \A p, size : Promise!ids_to_delete_if_added(p, size)
                    = LP!ids_to_delete_if_added(p, size)
<1>1. \A l : Promise!RunningTotal(l) = LP!RunningTotal(l)
  BY DEF Promise!RunningTotal, LP!RunningTotal
<1>2. \A l : Promise!Total(l) = LP!Total(l)
  BY <1>1 DEF Promise!Total, LP!Total
<1>3. \A l, id : Promise!PositionOf(l, id) = LP!PositionOf(l, id)
  BY DEF Promise!PositionOf, LP!PositionOf
<1>4. \A l, id : Promise!Without(l, id) = LP!Without(l, id)
  BY <1>3 DEF Promise!Without, LP!Without
<1>5. \A m : Promise!create_policy(m) = LP!create_policy(m)
  BY DEF Promise!create_policy, LP!create_policy
<1>6. \A p, id, size : Promise!create_info(p, id, size) = LP!create_info(p, id, size)
  BY DEF Promise!create_info, LP!create_info
<1>7. \A p, id : Promise!delete_info(p, id) = LP!delete_info(p, id)
  BY <1>3, <1>4 DEF Promise!delete_info, LP!delete_info
<1>8. \A p, id : Promise!info_gotten(p, id) = LP!info_gotten(p, id)
  BY <1>3, <1>4 DEF Promise!info_gotten, LP!info_gotten
<1>9. \A p, size : Promise!num_to_delete(p, size) = LP!num_to_delete(p, size)
  BY <1>1 DEF Promise!num_to_delete, LP!num_to_delete
<1>10. \A p, size : Promise!ids_to_delete_if_added(p, size)
                      = LP!ids_to_delete_if_added(p, size)
  BY <1>9 DEF Promise!ids_to_delete_if_added, LP!ids_to_delete_if_added
<1> QED BY <1>1, <1>2, <1>5, <1>6, <1>7, <1>8, <1>10

LEMMA InfosAreInfos ==
  ASSUME NEW D, NEW h \in [D -> PinfoObj]
  PROVE  \A x \in D : InfoAt(h, x) \in LP!Info
BY DEF InfoAt, PinfoObj, LP!Info

(* The infos of s in the heap h; in g those but the kth say the same.      *)
AreInfos(h, s, n) == \A i \in 1..n : InfoAt(h, s[i]) \in LP!Info

SameInfosBut(g, h, s, n, k) ==
  \A i \in 1..n : i # k => InfoAt(g, s[i]) = InfoAt(h, s[i])

(* The infos of an order are a list of LruPolicy's infos.                  *)
ListsTheOrder(l, h, s, n) ==
  /\ l \in Seq(LP!Info) /\ Len(l) = n
  /\ \A i \in 1..n : /\ l[i] = InfoAt(h, s[i])
                     /\ l[i].ident = h[s[i]].ident
                     /\ l[i].val_size = h[s[i]].val_size

LEMMA OrderAsList ==
  ASSUME NEW h, NEW n \in Nat, NEW s, AreInfos(h, s, n)
  PROVE  ListsTheOrder(ListOf(h, s, n), h, s, n)
<1> DEFINE l == [i \in 1..n |-> InfoAt(h, s[i])]
<1>1. l \in Seq(LP!Info) /\ Len(l) = n
  <2>1. l \in [1..n -> LP!Info] BY DEF AreInfos
  <2> HIDE DEF l
  <2> QED BY <2>1, LenProperties
<1> QED BY <1>1 DEF InfoAt, ListOf, ListsTheOrder

(* Extending an order appends to the list.                                 *)
ExtendingAppends(g, h, s, n, x) ==
  AreInfos(h, s, n) /\ SameInfosBut(g, h, s, n, 0) /\ InfoAt(g, x) \in LP!Info
    => ListOf(g, Extended(s, n, x), n + 1) = Append(ListOf(h, s, n), InfoAt(g, x))

LEMMA ExtendedAsList ==
  ASSUME NEW h, NEW n \in Nat, NEW s, NEW g, NEW x
  PROVE  ExtendingAppends(g, h, s, n, x)
<1> SUFFICES ASSUME AreInfos(h, s, n), SameInfosBut(g, h, s, n, 0),
                    InfoAt(g, x) \in LP!Info
             PROVE  ListOf(g, Extended(s, n, x), n + 1)
                      = Append(ListOf(h, s, n), InfoAt(g, x))
  BY DEF ExtendingAppends
<1> DEFINE l == ListOf(h, s, n)
           a == Append(l, InfoAt(g, x))
<1>1. l \in Seq(LP!Info) /\ Len(l) = n /\ \A i \in 1..n : l[i] = InfoAt(h, s[i])
  <2>1. ListsTheOrder(l, h, s, n) BY OrderAsList
  <2> HIDE DEF l
  <2> QED BY <2>1 DEF ListsTheOrder
<1>2. InfoAt(g, x) \in LP!Info OBVIOUS
<1>3. /\ a \in Seq(LP!Info) /\ Len(a) = n + 1
      /\ \A i \in 1..n : a[i] = l[i]
      /\ a[n+1] = InfoAt(g, x)
  <2> HIDE DEF l
  <2> QED BY <1>1, <1>2, AppendProperties
<1>4. a = [i \in 1..(n+1) |-> a[i]]
  <2> HIDE DEF a
  <2> QED BY <1>3, LenProperties
<1>5. ASSUME NEW i \in 1..(n+1) PROVE a[i] = InfoAt(g, Extended(s, n, x)[i])
  <2> HIDE DEF a, l
  <2>1. CASE i = n + 1 BY <2>1, <1>3 DEF Extended
  <2>2. CASE i # n + 1
    <3>1. i \in 1..n /\ i # 0 /\ Extended(s, n, x)[i] = s[i] BY <2>2 DEF Extended
    <3> QED BY <3>1, <1>1, <1>3 DEF SameInfosBut
  <2> QED BY <2>1, <2>2
<1> HIDE DEF a, l
<1> QED BY <1>4, <1>5 DEF a, l, ListOf

(* Shortening an order takes the info out of the list.                     *)
ShorteningRemoves(g, h, s, n, k) ==
  LET l == ListOf(h, s, n)
  IN  AreInfos(h, s, n) /\ SameInfosBut(g, h, s, n, k) /\ LP!DistinctIdents(l)
        => /\ LP!PositionOf(l, h[s[k]].ident) = k
           /\ LP!Named(l, h[s[k]].ident)
           /\ ListOf(g, Shortened(s, n, k), n - 1) = LP!Without(l, h[s[k]].ident)

LEMMA ShortenedAsList ==
  ASSUME NEW h, NEW n \in Nat, NEW s, NEW k \in 1..n, NEW g
  PROVE  ShorteningRemoves(g, h, s, n, k)
<1> SUFFICES ASSUME AreInfos(h, s, n), SameInfosBut(g, h, s, n, k),
                    LP!DistinctIdents(ListOf(h, s, n))
             PROVE  LET l == ListOf(h, s, n)
                    IN  /\ LP!PositionOf(l, h[s[k]].ident) = k
                        /\ LP!Named(l, h[s[k]].ident)
                        /\ ListOf(g, Shortened(s, n, k), n - 1)
                             = LP!Without(l, h[s[k]].ident)
  BY DEF ShorteningRemoves
<1> DEFINE l == ListOf(h, s, n)
           id == h[s[k]].ident
<1>1. /\ l \in Seq(LP!Info) /\ Len(l) = n
      /\ \A i \in 1..n : l[i] = InfoAt(h, s[i]) /\ l[i].ident = h[s[i]].ident
  <2>1. ListsTheOrder(l, h, s, n) BY OrderAsList
  <2> HIDE DEF l
  <2> QED BY <2>1 DEF ListsTheOrder
<1>2. LP!DistinctIdents(l) OBVIOUS
<1> HIDE DEF l
<1>3. LP!Named(l, id) BY <1>1 DEF LP!Named
<1>4. LP!PositionOf(l, id) = k
  <2>1. LP!PositionOf(l, id) \in 1..n /\ l[LP!PositionOf(l, id)].ident = id
    BY <1>1, <1>3 DEF LP!PositionOf, LP!Named
  <2> QED BY <2>1, <1>1, <1>2 DEF LP!DistinctIdents
<1>5. ASSUME NEW i \in 1..(n-1)
      PROVE  InfoAt(g, Shortened(s, n, k)[i]) = IF i < k THEN l[i] ELSE l[i+1]
  <2>1. i \in 1..n /\ i + 1 \in 1..n OBVIOUS
  <2>2. CASE i < k
    <3>1. Shortened(s, n, k)[i] = s[i] /\ i # k BY <2>2 DEF Shortened
    <3> QED BY <3>1, <2>1, <2>2, <1>1 DEF SameInfosBut
  <2>3. CASE ~(i < k)
    <3>1. Shortened(s, n, k)[i] = s[i+1] /\ i + 1 # k BY <2>3 DEF Shortened
    <3> QED BY <3>1, <2>1, <2>3, <1>1 DEF SameInfosBut
  <2> QED BY <2>2, <2>3
<1>6. LP!Without(l, id) = [i \in 1..(n-1) |-> IF i < k THEN l[i] ELSE l[i+1]]
  BY <1>1, <1>4 DEF LP!Without
<1>7. ListOf(g, Shortened(s, n, k), n - 1)
        = [i \in 1..(n-1) |-> IF i < k THEN l[i] ELSE l[i+1]]
  BY <1>5 DEF ListOf
<1> QED BY <1>3, <1>4, <1>6, <1>7 DEF l
-----------------------------------------------------------------------------
(* The invariant of the refinement: the list, as a policy value, keeps     *)
(* what LruPolicy promises of its values.                                  *)
RefInv == Inv /\ (policy # NULL => LP!PolicyInv(ListPolicy))

(* A policy that keeps its promises is not taken for no policy.            *)
LEMMA PolicyIsThere ==
  ASSUME NEW p, LP!PolicyInv(p)
  PROVE  p # NULL
<1>1. p \in LP!PolicyValue BY DEF LP!PolicyInv
<1> QED BY <1>1, NullIsNoPolicyValue DEF LP!PolicyValue, LP!Info

LEMMA CreatePolicyRefines ==
  ASSUME RefInv, NEW m \in MaxMems, create_policy(m)
  PROVE  RefInv' /\ Promise!Create(m)
<1>1. Inv' BY CreatePolicyInv DEF RefInv
<1>2. /\ policy = NULL /\ policy' # NULL /\ answer' = NULL
      /\ policy'.maxmem = m /\ policy'.used_mem = 0
      /\ policy'.bottom = NULL /\ policy'.top = NULL
  BY <1>1, NullIsNoPolicy, MaxMemsAreNat DEF create_policy, PolicyObj, Pointer
<1>3. DOMAIN heap' = {} /\ Count' = 0
  BY <1>2, FS_EmptySet DEF create_policy, RefInv, Inv, NoLeak, Count
<1> DEFINE s == [i \in 1..0 |-> NULL]
<1>4. s \in [1..Count' -> DOMAIN heap'] BY <1>3
<1>5. IsOrder(policy', heap', DOMAIN heap', Count', s)
  BY <1>2, <1>3, <1>4 DEF IsOrder
<1> HIDE DEF s
<1>6. ListPolicy' = ListValue(policy', heap', s, 0)
  <2>1. ListFollowsOrder' BY TheList, PTL
  <2> QED BY <2>1, <1>1, <1>2, <1>3, <1>4, <1>5 DEF Inv, ListFollowsOrder
<1>7. ListOf(heap', s, 0) = <<>> BY DEF ListOf
<1>8. ListPolicy' = LP!create_policy(m)
  BY <1>2, <1>6, <1>7 DEF ListValue, LP!create_policy
<1>9. LP!PolicyInv(LP!create_policy(m))
  <2>1. m \in Nat BY MaxMemsAreNat
  <2> QED BY <2>1, SizesAreNat, LP!CreatePolicy
<1>10. ListPolicy = NULL BY <1>2 DEF ListPolicy
<1> QED BY <1>1, <1>2, <1>8, <1>9, <1>10, SameOperators DEF RefInv, Promise!Create

LEMMA DeletePolicyRefines ==
  ASSUME RefInv, delete_policy
  PROVE  RefInv' /\ Promise!Delete
<1>1. Inv' BY DeletePolicyInv DEF RefInv
<1>2. policy # NULL /\ policy' = NULL /\ answer' = NULL BY DEF delete_policy
<1>3. ListPolicy # NULL BY <1>2, PolicyIsThere DEF RefInv
<1>4. ListPolicy' = NULL BY <1>2 DEF ListPolicy
<1> QED BY <1>1, <1>2, <1>3, <1>4 DEF RefInv, Promise!Delete

LEMMA CreateInfoRefines ==
  ASSUME RefInv, NEW info \in Nodes, NEW id \in Idents, NEW val_size \in Sizes,
         create_info(info, id, val_size)
  PROVE  RefInv' /\ Promise!CreateInfo(id, val_size)
<1> DEFINE D == DOMAIN heap
           newinf == [low |-> NULL, high |-> NULL,
                      ident |-> id, val_size |-> val_size]
           h == [x \in D \union {info} |-> IF x = info THEN newinf ELSE heap[x]]
           moved == move_info_to_head(policy, h, info)
<1>1. /\ Inv' /\ policy' # NULL
      /\ DOMAIN heap' = D \union {info} /\ Count' = Count + 1
      /\ \E s \in [1..Count -> D] :
           /\ IsOrder(policy, heap, D, Count, s)
           /\ IsOrder(policy', heap', DOMAIN heap', Count', Extended(s, Count, info))
  BY CreateInfoInv DEF RefInv
<1>2. PICK s \in [1..Count -> D] :
        /\ IsOrder(policy, heap, D, Count, s)
        /\ IsOrder(policy', heap', DOMAIN heap', Count', Extended(s, Count, info))
  BY <1>1
<1>3. /\ policy # NULL /\ policy \in PolicyObj /\ info \notin D
      /\ heap \in [D -> PinfoObj] /\ Count \in Nat /\ Inv
      /\ \A x \in D : heap[x].ident # id
      /\ ~(policy.maxmem < policy.used_mem + val_size)
      /\ answer' = NULL /\ val_size \in Nat
  BY HeapFinite, SizesAreNat DEF RefInv, Inv, TypeOK, create_info
<1>4. h \in [D \union {info} -> PinfoObj] BY <1>3 DEF PinfoObj, Pointer
<1>5. /\ heap' = moved.heap
      /\ policy'.maxmem = policy.maxmem
      /\ policy'.used_mem = policy.used_mem + val_size
      /\ \A x \in D \union {info} : InfoAt(heap', x) = InfoAt(h, x)
  <2>1. /\ heap' = moved.heap
        /\ policy' = [moved.policy EXCEPT !.used_mem = @ + val_size]
    BY DEF create_info
  <2>2. /\ moved.policy.used_mem = policy.used_mem
        /\ moved.policy.maxmem = policy.maxmem
        /\ \A x \in D \union {info} : InfoAt(moved.heap, x) = InfoAt(h, x)
    <3>1. info \in D \union {info} OBVIOUS
    <3> HIDE DEF h, D
    <3> QED BY <3>1, <1>3, <1>4, MoveKeepsInfos
  <2>3. moved.policy \in PolicyObj BY <1>3 DEF move_info_to_head, PolicyObj, Pointer
  <2> HIDE DEF moved, h
  <2>4. /\ policy'.maxmem = moved.policy.maxmem
        /\ policy'.used_mem = moved.policy.used_mem + val_size
    BY <2>1, <2>3 DEF PolicyObj
  <2> QED BY <2>1, <2>2, <2>4
<1>6. /\ \A x \in D : InfoAt(heap', x) = InfoAt(heap, x)
      /\ InfoAt(heap', info) = [ident |-> id, val_size |-> val_size]
  BY <1>3, <1>5 DEF InfoAt
<1> HIDE DEF h, moved
<1> DEFINE l == ListOf(heap, s, Count)
           t == Extended(s, Count, info)
<1>7. ListPolicy = ListValue(policy, heap, s, Count)
  BY <1>2, <1>3, TheList DEF Inv, ListFollowsOrder
<1>8. ListPolicy' = ListValue(policy', heap', t, Count + 1)
  <2>1. ListFollowsOrder' BY TheList, PTL
  <2>2. t \in [1..Count' -> DOMAIN heap'] BY <1>2 DEF IsOrder
  <2> HIDE DEF t
  <2>3. IsOrder(policy', heap', DOMAIN heap', Count', t) BY <1>2 DEF t
  <2> QED BY <2>1, <2>2, <2>3, <1>1 DEF Inv, ListFollowsOrder
<1>9. ListOf(heap', t, Count + 1)
        = Append(l, [ident |-> id, val_size |-> val_size])
  <2>1. AreInfos(heap, s, Count) BY <1>3, InfosAreInfos DEF AreInfos
  <2>2. SameInfosBut(heap', heap, s, Count, 0) BY <1>6 DEF SameInfosBut
  <2>3. InfoAt(heap', info) \in LP!Info
    BY <1>6 DEF LP!Info
  <2>4. ListOf(heap', Extended(s, Count, info), Count + 1)
          = Append(ListOf(heap, s, Count), InfoAt(heap', info))
    <3>1. ExtendingAppends(heap', heap, s, Count, info) BY <1>3, ExtendedAsList
    <3> QED BY <3>1, <2>1, <2>2, <2>3 DEF ExtendingAppends
  <2> QED BY <2>4, <1>6
<1>10. /\ ListPolicy.maxmem = policy.maxmem /\ ListPolicy.used_mem = policy.used_mem
       /\ ListPolicy.list = l
  BY <1>7 DEF ListValue
<1>11. ~LP!Named(l, id) /\ Len(l) = Count
       /\ \A i \in 1..Count : l[i].ident # id
  <2>1. AreInfos(heap, s, Count) BY <1>3, InfosAreInfos DEF AreInfos
  <2>2. ListsTheOrder(l, heap, s, Count) BY <1>3, <2>1, OrderAsList
  <2> HIDE DEF l
  <2> QED BY <2>2, <1>3 DEF ListsTheOrder, LP!Named
<1>12. ListPolicy' = LP!create_info(ListPolicy, id, val_size)
  <2> HIDE DEF l, t
  <2>1. ListPolicy = [maxmem |-> policy.maxmem, used_mem |-> policy.used_mem,
                      list |-> l, aborted |-> FALSE]
    BY <1>7 DEF ListValue, l
  <2>2. ListPolicy' = [maxmem |-> policy.maxmem,
                       used_mem |-> policy.used_mem + val_size,
                       list |-> Append(l, [ident |-> id, val_size |-> val_size]),
                       aborted |-> FALSE]
    BY <1>5, <1>8, <1>9 DEF ListValue
  <2> QED BY <2>1, <2>2, <1>3 DEF LP!create_info
<1>13. LP!PolicyInv(ListPolicy) BY <1>3 DEF RefInv
<1> HIDE DEF l, t
<1>14. policy.used_mem + val_size <= policy.maxmem
  BY <1>3 DEF PolicyObj
<1>15. LP!PolicyInv(ListPolicy)'
  <2>1. LP!PolicyInv(LP!create_info(ListPolicy, id, val_size))
    BY <1>10, <1>11, <1>13, <1>14, SizesAreNat, LP!CreateInfo
  <2> QED BY <2>1, <1>12
<1>16. ListPolicy # NULL BY <1>13, PolicyIsThere
<1>17. Promise!CreateInfo(id, val_size)
  BY <1>3, <1>10, <1>11, <1>12, <1>14, <1>16, SameOperators
     DEF Promise!CreateInfo, Promise!HasIdent
<1> QED BY <1>1, <1>15, <1>17 DEF RefInv

(* In a state of the invariant the list reads as the order of its infos.   *)
LEMMA OrderedState ==
  ASSUME RefInv, policy # NULL, NEW s \in [1..Count -> DOMAIN heap],
         IsOrder(policy, heap, DOMAIN heap, Count, s)
  PROVE  /\ ListPolicy = [maxmem |-> policy.maxmem, used_mem |-> policy.used_mem,
                          list |-> ListOf(heap, s, Count), aborted |-> FALSE]
         /\ LP!PolicyInv(ListPolicy)
         /\ AreInfos(heap, s, Count)
         /\ LP!DistinctIdents(ListOf(heap, s, Count))
         /\ Count \in Nat
<1>1. ListPolicy = ListValue(policy, heap, s, Count)
  BY TheList DEF RefInv, Inv, ListFollowsOrder
<1>2. LP!PolicyInv(ListPolicy) BY DEF RefInv
<1>3. heap \in [DOMAIN heap -> PinfoObj] /\ Count \in Nat
  BY HeapFinite DEF RefInv, Inv, TypeOK
<1>4. AreInfos(heap, s, Count) BY <1>3, InfosAreInfos DEF AreInfos
<1>5. ListPolicy.list = ListOf(heap, s, Count) BY <1>1 DEF ListValue
<1> QED BY <1>1, <1>2, <1>3, <1>4, <1>5 DEF ListValue, LP!PolicyInv

LEMMA DeleteInfoRefines ==
  ASSUME RefInv, NEW info \in DOMAIN heap, delete_info(info)
  PROVE  RefInv' /\ Promise!DeleteInfo(heap[info].ident)
<1> DEFINE D == DOMAIN heap
           id == heap[info].ident
           removed == remove_info_from_list(policy, heap, info)
<1>1. /\ Inv' /\ policy' # NULL
      /\ DOMAIN heap' = D \ {info} /\ Count' = Count - 1
      /\ \E s \in [1..Count -> D] : \E k \in 1..Count :
           /\ IsOrder(policy, heap, D, Count, s) /\ s[k] = info
           /\ IsOrder(policy', heap', DOMAIN heap', Count', Shortened(s, Count, k))
  BY DeleteInfoInv DEF RefInv
<1>2. PICK s \in [1..Count -> D], k \in 1..Count :
        /\ IsOrder(policy, heap, D, Count, s) /\ s[k] = info
        /\ IsOrder(policy', heap', DOMAIN heap', Count', Shortened(s, Count, k))
  BY <1>1
<1>3. /\ policy # NULL /\ policy \in PolicyObj /\ answer' = NULL
      /\ heap \in [D -> PinfoObj]
  BY DEF RefInv, Inv, TypeOK, delete_info
<1> DEFINE l == ListOf(heap, s, Count)
           t == Shortened(s, Count, k)
<1>4. /\ ListPolicy = [maxmem |-> policy.maxmem, used_mem |-> policy.used_mem,
                       list |-> l, aborted |-> FALSE]
      /\ LP!PolicyInv(ListPolicy) /\ AreInfos(heap, s, Count)
      /\ LP!DistinctIdents(l) /\ Count \in Nat
  BY <1>2, <1>3, OrderedState
<1>5. /\ policy'.maxmem = policy.maxmem
      /\ policy'.used_mem = policy.used_mem - heap[info].val_size
      /\ \A x \in D : x # info => InfoAt(heap', x) = InfoAt(heap, x)
  <2>1. /\ heap' = [x \in D \ {info} |-> removed.heap[x]]
        /\ policy' = [removed.policy EXCEPT
                        !.used_mem = @ - removed.heap[info].val_size]
    BY DEF delete_info
  <2>2. /\ removed.policy.used_mem = policy.used_mem
        /\ removed.policy.maxmem = policy.maxmem
        /\ \A x \in D : InfoAt(removed.heap, x) = InfoAt(heap, x)
    BY <1>3, RemoveKeepsInfos
  <2>3. removed.policy \in PolicyObj
    BY <1>3, RemoveFromState DEF RefInv
  <2>4. removed.heap[info].val_size = heap[info].val_size
    BY <2>2 DEF InfoAt
  <2> HIDE DEF removed
  <2>5. /\ policy'.maxmem = removed.policy.maxmem
        /\ policy'.used_mem = removed.policy.used_mem - removed.heap[info].val_size
    BY <2>1, <2>3 DEF PolicyObj
  <2>6. ASSUME NEW x \in D, x # info PROVE InfoAt(heap', x) = InfoAt(heap, x)
    <3>1. heap'[x] = removed.heap[x] BY <2>1, <2>6
    <3> QED BY <3>1, <2>2 DEF InfoAt
  <2> QED BY <2>2, <2>4, <2>5, <2>6
<1>6. SameInfosBut(heap', heap, s, Count, k)
  BY <1>2, <1>5 DEF SameInfosBut, IsOrder
<1>7. /\ LP!PositionOf(l, id) = k /\ LP!Named(l, id)
      /\ ListOf(heap', t, Count - 1) = LP!Without(l, id)
  <2>1. ShorteningRemoves(heap', heap, s, Count, k) BY <1>4, ShortenedAsList
  <2> QED BY <2>1, <1>2, <1>4, <1>6 DEF ShorteningRemoves
<1>8. ListPolicy' = ListValue(policy', heap', t, Count - 1)
  <2>1. ListFollowsOrder' BY TheList, PTL
  <2>2. t \in [1..Count' -> DOMAIN heap'] BY <1>2 DEF IsOrder
  <2> HIDE DEF t
  <2>3. IsOrder(policy', heap', DOMAIN heap', Count', t) BY <1>2 DEF t
  <2> QED BY <2>1, <2>2, <2>3, <1>1 DEF Inv, ListFollowsOrder
<1>9. l[k].val_size = heap[info].val_size
  <2>1. ListsTheOrder(l, heap, s, Count) BY <1>4, OrderAsList
  <2> HIDE DEF l
  <2> QED BY <2>1, <1>2, <1>4 DEF ListsTheOrder
<1> HIDE DEF l, t, id
<1>10. ListPolicy' = LP!delete_info(ListPolicy, id)
  <2>1. ListPolicy' = [maxmem |-> policy.maxmem,
                       used_mem |-> policy.used_mem - l[k].val_size,
                       list |-> LP!Without(l, id), aborted |-> FALSE]
    BY <1>5, <1>7, <1>8, <1>9 DEF ListValue
  <2>2. ListPolicy.list = l BY <1>4
  <2>3. LP!delete_info(ListPolicy, id)
          = [ListPolicy EXCEPT !.list = LP!Without(l, id),
                               !.used_mem = @ - l[k].val_size]
    BY <1>4, <1>7, <2>2 DEF LP!delete_info
  <2> QED BY <2>1, <2>3, <1>4
<1>11. LP!PolicyInv(LP!delete_info(ListPolicy, id))
  BY <1>4, <1>7, SizesAreNat, LP!DeleteInfo
<1>12. ListPolicy # NULL BY <1>4, PolicyIsThere
<1>13. RefInv' BY <1>1, <1>10, <1>11 DEF RefInv
<1>14. Promise!DeleteInfo(id)
  BY <1>3, <1>4, <1>7, <1>10, <1>12, SameOperators
     DEF Promise!DeleteInfo, Promise!HasIdent, LP!Named
<1> QED BY <1>13, <1>14 DEF id

LEMMA InfoGottenRefines ==
  ASSUME RefInv, NEW info \in DOMAIN heap, info_gotten(info)
  PROVE  RefInv' /\ Promise!InfoGotten(heap[info].ident)
<1> DEFINE D == DOMAIN heap
           id == heap[info].ident
           removed == remove_info_from_list(policy, heap, info)
           moved == move_info_to_head(removed.policy, removed.heap, info)
<1>1. /\ Inv' /\ policy' # NULL /\ DOMAIN heap' = D /\ Count' = Count
      /\ \E s \in [1..Count -> D] : \E k \in 1..Count :
           /\ IsOrder(policy, heap, D, Count, s) /\ s[k] = info
           /\ IsOrder(policy', heap', DOMAIN heap', Count',
                      Extended(Shortened(s, Count, k), Count - 1, info))
  BY InfoGottenInv DEF RefInv
<1>2. PICK s \in [1..Count -> D], k \in 1..Count :
        /\ IsOrder(policy, heap, D, Count, s) /\ s[k] = info
        /\ IsOrder(policy', heap', DOMAIN heap', Count',
                   Extended(Shortened(s, Count, k), Count - 1, info))
  BY <1>1
<1>3. /\ policy # NULL /\ policy \in PolicyObj /\ answer' = NULL
      /\ heap \in [D -> PinfoObj]
  BY DEF RefInv, Inv, TypeOK, info_gotten
<1> DEFINE l == ListOf(heap, s, Count)
           w == Shortened(s, Count, k)
           t == Extended(w, Count - 1, info)
<1>4. /\ ListPolicy = [maxmem |-> policy.maxmem, used_mem |-> policy.used_mem,
                       list |-> l, aborted |-> FALSE]
      /\ LP!PolicyInv(ListPolicy) /\ AreInfos(heap, s, Count)
      /\ LP!DistinctIdents(l) /\ Count \in Nat
  BY <1>2, <1>3, OrderedState
<1>5. /\ policy'.maxmem = policy.maxmem
      /\ policy'.used_mem = policy.used_mem
      /\ \A x \in D : InfoAt(heap', x) = InfoAt(heap, x)
  <2>1. heap' = moved.heap /\ policy' = moved.policy BY DEF info_gotten
  <2>2. /\ removed.policy.used_mem = policy.used_mem
        /\ removed.policy.maxmem = policy.maxmem
        /\ \A x \in D : InfoAt(removed.heap, x) = InfoAt(heap, x)
    BY <1>3, RemoveKeepsInfos
  <2>3. removed.policy \in PolicyObj /\ removed.heap \in [D -> PinfoObj]
    BY <1>3, RemoveFromState DEF RefInv
  <2>4. /\ moved.policy.used_mem = removed.policy.used_mem
        /\ moved.policy.maxmem = removed.policy.maxmem
        /\ \A x \in D : InfoAt(moved.heap, x) = InfoAt(removed.heap, x)
    <3> HIDE DEF removed
    <3> QED BY <2>3, MoveKeepsInfos
  <2> HIDE DEF moved, removed
  <2> QED BY <2>1, <2>2, <2>4
<1>6. SameInfosBut(heap, heap, s, Count, k) BY DEF SameInfosBut
<1>7. /\ LP!PositionOf(l, id) = k /\ LP!Named(l, id)
      /\ ListOf(heap, w, Count - 1) = LP!Without(l, id)
  <2>1. ShorteningRemoves(heap, heap, s, Count, k) BY <1>4, ShortenedAsList
  <2> QED BY <2>1, <1>2, <1>4, <1>6 DEF ShorteningRemoves
<1>8. ListOf(heap', t, Count) = Append(LP!Without(l, id), l[k])
  <2>1. \A i \in 1..(Count - 1) : w[i] \in D BY <1>4 DEF Shortened
  <2>2. AreInfos(heap, w, Count - 1) BY <1>3, <2>1, InfosAreInfos DEF AreInfos
  <2>3. SameInfosBut(heap', heap, w, Count - 1, 0)
    BY <1>5, <2>1 DEF SameInfosBut
  <2>4. InfoAt(heap', info) = l[k]
    <3>1. ListsTheOrder(l, heap, s, Count) BY <1>4, OrderAsList
    <3> HIDE DEF l
    <3> QED BY <3>1, <1>2, <1>4, <1>5 DEF ListsTheOrder
  <2>5. InfoAt(heap', info) \in LP!Info
    BY <1>3, <1>5, InfosAreInfos
  <2>6. Count - 1 \in Nat /\ (Count - 1) + 1 = Count BY <1>4
  <2> HIDE DEF w, l
  <2>7. ExtendingAppends(heap', heap, w, Count - 1, info)
    BY <2>6, ExtendedAsList
  <2>8. ListOf(heap', t, (Count - 1) + 1)
          = Append(ListOf(heap, w, Count - 1), InfoAt(heap', info))
    BY <2>2, <2>3, <2>5, <2>7 DEF ExtendingAppends
  <2> QED BY <2>4, <2>6, <2>8, <1>7
<1>9. ListPolicy' = ListValue(policy', heap', t, Count)
  <2>1. ListFollowsOrder' BY TheList, PTL
  <2>2. t \in [1..Count' -> DOMAIN heap'] BY <1>2 DEF IsOrder
  <2> HIDE DEF t
  <2>3. IsOrder(policy', heap', DOMAIN heap', Count', t) BY <1>2 DEF t
  <2> QED BY <2>1, <2>2, <2>3, <1>1 DEF Inv, ListFollowsOrder
<1> HIDE DEF l, t, w, id
<1>10. ListPolicy' = LP!info_gotten(ListPolicy, id)
  <2>1. ListPolicy' = [maxmem |-> policy.maxmem, used_mem |-> policy.used_mem,
                       list |-> Append(LP!Without(l, id), l[k]), aborted |-> FALSE]
    BY <1>5, <1>8, <1>9 DEF ListValue
  <2>2. ListPolicy.list = l BY <1>4
  <2>3. LP!info_gotten(ListPolicy, id)
          = [ListPolicy EXCEPT !.list = Append(LP!Without(l, id), l[k])]
    BY <1>4, <1>7, <2>2 DEF LP!info_gotten
  <2> QED BY <2>1, <2>3, <1>4
<1>11. LP!PolicyInv(LP!info_gotten(ListPolicy, id))
  BY <1>4, <1>7, SizesAreNat, LP!InfoGotten
<1>12. ListPolicy # NULL BY <1>4, PolicyIsThere
<1>13. RefInv' BY <1>1, <1>10, <1>11 DEF RefInv
<1>14. Promise!InfoGotten(id)
  BY <1>3, <1>4, <1>7, <1>10, <1>12, SameOperators
     DEF Promise!InfoGotten, Promise!HasIdent, LP!Named
<1> QED BY <1>13, <1>14 DEF id
-----------------------------------------------------------------------------
(* The walk of num_to_delete counts down from used_mem + val_size by the   *)
(* sizes of the infos it passes.                                           *)
LEMMA TotMemCountsDown ==
  ASSUME NEW p \in PolicyObj, NEW D \in SUBSET Nodes, NEW h \in [D -> PinfoObj],
         NEW n \in Nat, n = Cardinality(D),
         NEW s \in [1..n -> D], IsOrder(p, h, D, n, s), NEW v \in Nat,
         NEW f, LP!IsRunningTotal(f, ListOf(h, s, n), n)
  PROVE  \A i \in 0..n : TotMem(p, h, v)[i] = p.used_mem + v - f[i]
<1> DEFINE up == Ascent(p, h)
           step(g, i) == IF i = 0 THEN p.used_mem + v
                         ELSE IF up[i-1] = NULL THEN g[i-1]
                         ELSE g[i-1] - h[up[i-1]].val_size
           w == [i \in 0..n |-> p.used_mem + v - f[i]]
           tot == CHOOSE g : g = [i \in 0..n |-> step(g, i)]
<1>1. TotMem(p, h, v) = tot
  <2>1. DOMAIN h = D OBVIOUS
  <2> QED BY <2>1 DEF TotMem
<1>2. \A i \in 1..n : up[i-1] = s[i] /\ s[i] # NULL
  <2>1. \A i \in 0..n : up[i] = IF i = n THEN NULL ELSE s[i+1]
    BY AscentFollowsOrder
  <2> HIDE DEF up
  <2>2. ASSUME NEW i \in 1..n PROVE up[i-1] = s[i]
    <3>1. i - 1 \in 0..n /\ i - 1 # n /\ (i - 1) + 1 = i OBVIOUS
    <3> QED BY <3>1, <2>1
  <2> QED BY <2>2, NullAssumption
<1>3. /\ p.used_mem \in Int /\ f[0] = 0 /\ \A i \in 0..n : f[i] \in Int
      /\ \A i \in 1..n : /\ h[s[i]].val_size \in Int
                         /\ f[i] = f[i-1] + h[s[i]].val_size
  <2>1. \A i \in 1..n : ListOf(h, s, n)[i].val_size = h[s[i]].val_size
    BY DEF ListOf, InfoAt
  <2>2. ASSUME NEW i \in 1..n PROVE h[s[i]].val_size \in Int
    <3>1. h[s[i]] \in PinfoObj OBVIOUS
    <3>2. \A q \in PinfoObj : q.val_size \in Sizes BY DEF PinfoObj
    <3>3. \A q \in Sizes : q \in Int BY SizesAreNat
    <3> QED BY <3>1, <3>2, <3>3
  <2> QED BY <2>1, <2>2 DEF LP!IsRunningTotal, PolicyObj
<1> HIDE DEF up
<1>4. \A i \in 0..n : w[i] = step(w, i)
  <2> TAKE i \in 0..n
  <2>1. CASE i = 0 BY <2>1, <1>3
  <2>2. CASE i # 0
    <3>1. i \in 1..n /\ i - 1 \in 0..n BY <2>2
    <3>2. w[i-1] = p.used_mem + v - f[i-1] BY <3>1
    <3>3. step(w, i) = w[i-1] - h[s[i]].val_size BY <2>2, <3>1, <1>2
    <3>4. f[i] = f[i-1] + h[s[i]].val_size /\ h[s[i]].val_size \in Int
          /\ f[i-1] \in Int
      BY <3>1, <1>3
    <3>5. w[i] = p.used_mem + v - f[i] OBVIOUS
    <3> HIDE DEF w, step
    <3> QED BY <3>2, <3>3, <3>4, <3>5, <1>3, SMTT(30)
  <2> QED BY <2>1, <2>2
<1>5. w = [i \in 0..n |-> step(w, i)]
  BY <1>4
<1>6. tot = [i \in 0..n |-> step(tot, i)]
  <2> HIDE DEF w, step
  <2> QED BY <1>5, Zenon
<1>7. \A i \in 0..n : tot[i] = step(tot, i)
  <2> HIDE DEF tot, step
  <2> QED BY <1>6, Zenon
<1> HIDE DEF tot, w
<1> DEFINE S == {i \in 0..n : tot[i] = w[i]}
<1>8. 0 \in S BY <1>4, <1>7
<1>9. \A i \in 0..n : i # n /\ i \in S => i + 1 \in S
  <2> SUFFICES ASSUME NEW i \in 0..n, i # n, i \in S PROVE i + 1 \in S OBVIOUS
  <2>1. i + 1 \in 0..n /\ i + 1 # 0 /\ (i + 1) - 1 = i OBVIOUS
  <2>2. tot[i] = w[i] OBVIOUS
  <2>3. step(tot, i + 1) = step(w, i + 1) BY <2>1, <2>2
  <2> QED BY <2>1, <2>3, <1>4, <1>7
<1>10. \A i \in 0..n : i \in S
  <2> HIDE DEF S
  <2> QED BY <1>8, <1>9, UpTo
<1> QED BY <1>1, <1>10 DEF w

(* When the value fits in maxmem at all, the walk stops where LruPolicy    *)
(* says it does, and make_item_array reads the idents it has passed.       *)
LEMMA WalkStopsAlike ==
  ASSUME RefInv, policy # NULL, NEW s \in [1..Count -> DOMAIN heap],
         IsOrder(policy, heap, DOMAIN heap, Count, s),
         NEW v \in Nat, v <= policy.maxmem
  PROVE  /\ num_to_delete(policy, heap, v) \in 0..Count
         /\ num_to_delete(policy, heap, v) = LP!num_to_delete(ListPolicy, v)
<1> DEFINE l == ListOf(heap, s, Count)
           f == LP!RunningTotal(l)
           D == DOMAIN heap
           used == policy.used_mem
           max == policy.maxmem
           c == LP!num_to_delete(ListPolicy, v)
           goes_on(i) == /\ TotMem(policy, heap, v)[i] > max
                         /\ Ascent(policy, heap)[i] # NULL
           Stops(m) == ~goes_on(m) /\ \A i \in 0..(m-1) : goes_on(i)
<1>1. /\ ListPolicy = [maxmem |-> max, used_mem |-> used,
                       list |-> l, aborted |-> FALSE]
      /\ LP!PolicyInv(ListPolicy) /\ AreInfos(heap, s, Count) /\ Count \in Nat
  BY OrderedState
<1>2. /\ policy \in PolicyObj /\ heap \in [D -> PinfoObj] /\ D \in SUBSET Nodes
      /\ used \in Int /\ max \in Nat
  BY DEF RefInv, Inv, TypeOK, PolicyObj
<1>3. l \in Seq(LP!Info) /\ Len(l) = Count
  BY <1>1, OrderAsList DEF ListsTheOrder
<1>4. LP!IsRunningTotal(f, l, Count) /\ \A i \in 0..Count : f[i] \in Nat
  <2> HIDE DEF l
  <2> QED BY <1>3, SizesAreNat, LP!RunningTotalSums
<1>5. \A i \in 0..Count : TotMem(policy, heap, v)[i] = used + v - f[i]
  <2> DEFINE n == Count
             p == policy
             h == heap
  <2>1. /\ n \in Nat /\ n = Cardinality(D) /\ s \in [1..n -> D]
        /\ IsOrder(p, h, D, n, s) /\ LP!IsRunningTotal(f, ListOf(h, s, n), n)
        /\ p \in PolicyObj /\ h \in [D -> PinfoObj] /\ D \in SUBSET Nodes
    BY <1>1, <1>2, <1>4 DEF Count
  <2> HIDE DEF f, D, n, p, h
  <2>2. \A i \in 0..n : TotMem(p, h, v)[i] = p.used_mem + v - f[i]
    BY <2>1, TotMemCountsDown, SMTT(30)
  <2> QED BY <2>2 DEF n, p, h
<1>6. \A i \in 0..Count : Ascent(policy, heap)[i] # NULL <=> i # Count
  <2>1. \A i \in 0..Count :
          Ascent(policy, heap)[i] = IF i = Count THEN NULL ELSE s[i+1]
    BY <1>1, <1>2, AscentFollowsOrder DEF Count
  <2>2. \A i \in 0..Count : i # Count => i + 1 \in 1..Count BY <1>1
  <2> QED BY <2>1, <2>2, <1>2, NullAssumption
<1>7. \A i \in 0..Count : goes_on(i) <=> used + v - f[i] > max /\ i # Count
  BY <1>5, <1>6
<1>8. /\ c \in 0..Count /\ used + v - f[c] <= max
      /\ \A m \in 0..(c-1) : used + v - f[m] > max
  <2>1. ListPolicy.maxmem = max /\ ListPolicy.used_mem = used /\ ListPolicy.list = l
    BY <1>1
  <2> HIDE DEF l
  <2> QED BY <2>1, <1>1, <1>3, SizesAreNat, LP!NumToDelete
<1> HIDE DEF f, l, used, max, c
<1>9. Stops(c)
  <2>1. ~goes_on(c)
    <3>1. f[c] \in Nat BY <1>4, <1>8
    <3>2. ~(used + v - f[c] > max) BY <3>1, <1>2, <1>8
    <3> HIDE DEF goes_on
    <3> QED BY <3>2, <1>7, <1>8
  <2>2. ASSUME NEW i \in 0..(c-1) PROVE goes_on(i)
    <3>1. i \in 0..Count /\ i # Count BY <1>1, <1>8
    <3> HIDE DEF goes_on
    <3> QED BY <3>1, <1>7, <1>8
  <2> QED BY <2>1, <2>2
<1>10. ASSUME NEW a \in 0..Count, Stops(a) PROVE a = c
  <2> HIDE DEF goes_on
  <2>1. ~(a < c) BY <1>8, <1>9, <1>10
  <2>2. ~(c < a) BY <1>8, <1>9, <1>10
  <2> QED BY <2>1, <2>2, <1>8
<1>11. num_to_delete(policy, heap, v) = CHOOSE a \in 0..Count : Stops(a)
  BY DEF num_to_delete, Count, max
<1> HIDE DEF Stops
<1>12. num_to_delete(policy, heap, v) \in 0..Count
       /\ Stops(num_to_delete(policy, heap, v))
  BY <1>8, <1>9, <1>11
<1> QED BY <1>10, <1>12 DEF c

LEMMA AskRefines ==
  ASSUME RefInv, NEW v \in Sizes, ids_to_delete_if_added(v)
  PROVE  RefInv' /\ Promise!AskIds(v)
<1> DEFINE D == DOMAIN heap
<1>1. policy # NULL /\ policy' = policy /\ heap' = heap /\ v \in Nat
  BY SizesAreNat DEF ids_to_delete_if_added
<1>2. ListPolicy' = ListPolicy BY <1>1 DEF ListPolicy, Order, Count
<1>3. Inv'
  BY <1>1 DEF RefInv, Inv, TypeOK, ListInv, NoLeak, Count
<1>4. RefInv' BY <1>1, <1>2, <1>3 DEF RefInv
<1>5. PICK s \in [1..Count -> D] : IsOrder(policy, heap, D, Count, s)
  BY <1>1 DEF RefInv, Inv, ListInv
<1> DEFINE l == ListOf(heap, s, Count)
           c == LP!num_to_delete(ListPolicy, v)
<1>6. /\ ListPolicy = [maxmem |-> policy.maxmem, used_mem |-> policy.used_mem,
                       list |-> l, aborted |-> FALSE]
      /\ LP!PolicyInv(ListPolicy) /\ AreInfos(heap, s, Count) /\ Count \in Nat
  BY <1>1, <1>5, OrderedState
<1>7. ListPolicy.maxmem = policy.maxmem /\ ListPolicy.list = l
      /\ policy.maxmem \in Nat
  BY <1>1, <1>6 DEF RefInv, Inv, TypeOK, PolicyObj
<1>8. answer' = LP!ids_to_delete_if_added(ListPolicy, v)
  <2>1. CASE v > policy.maxmem
    BY <2>1, <1>7 DEF ids_to_delete_if_added, LP!ids_to_delete_if_added
  <2>2. CASE ~(v > policy.maxmem)
    <3>1. num_to_delete(policy, heap, v) = c /\ c \in 0..Count
      BY <2>2, <1>1, <1>5, <1>7, WalkStopsAlike
    <3>2. \A i \in 0..Count :
            Ascent(policy, heap)[i] = IF i = Count THEN NULL ELSE s[i+1]
      <4>1. /\ policy \in PolicyObj /\ heap \in [D -> PinfoObj]
            /\ D \in SUBSET Nodes
        BY <1>1 DEF RefInv, Inv, TypeOK
      <4> QED BY <4>1, <1>5, <1>6, AscentFollowsOrder DEF Count
    <3> HIDE DEF c
    <3>3. ASSUME NEW i \in 1..c
          PROVE  heap[Ascent(policy, heap)[i-1]].ident = l[i].ident
      <4>1. /\ i - 1 \in 0..Count /\ i - 1 # Count /\ (i - 1) + 1 = i
            /\ i \in 1..Count
        BY <3>1, <1>6
      <4>2. Ascent(policy, heap)[i-1] = s[i] BY <4>1, <3>2
      <4>3. l[i].ident = heap[s[i]].ident BY <4>1 DEF ListOf, InfoAt
      <4> QED BY <4>2, <4>3
    <3>4. make_item_array(policy, heap, c) = [i \in 1..c |-> l[i].ident]
      BY <3>3 DEF make_item_array
    <3>5. answer' = [should_add |-> TRUE,
                     data |-> make_item_array(policy, heap, c)]
      BY <2>2, <3>1 DEF ids_to_delete_if_added
    <3>6. LP!ids_to_delete_if_added(ListPolicy, v)
            = [should_add |-> TRUE, data |-> [i \in 1..c |-> l[i].ident]]
      BY <2>2, <1>7 DEF LP!ids_to_delete_if_added, c
    <3> QED BY <3>4, <3>5, <3>6
  <2> QED BY <2>1, <2>2
<1>9. ListPolicy # NULL BY <1>6, PolicyIsThere
<1>10. Promise!AskIds(v)
  BY <1>2, <1>8, <1>9, SameOperators DEF Promise!AskIds
<1> QED BY <1>4, <1>10

LEMMA InitRefines == Init => RefInv /\ Promise!PolicyInit
<1> SUFFICES ASSUME Init PROVE RefInv /\ Promise!PolicyInit OBVIOUS
<1>1. Inv BY InitInv
<1>2. policy = NULL /\ answer = NULL BY DEF Init
<1>3. ListPolicy = NULL BY <1>2 DEF ListPolicy
<1> QED BY <1>1, <1>2, <1>3 DEF RefInv, Promise!PolicyInit

LEMMA NextRefines == RefInv /\ [Next]_vars => RefInv' /\ [Promise!PolicyNext]_(Promise!vars)
<1> SUFFICES ASSUME RefInv, [Next]_vars
             PROVE  RefInv' /\ [Promise!PolicyNext]_(Promise!vars)
  OBVIOUS
<1>1. ASSUME NEW m \in MaxMems, create_policy(m)
      PROVE  RefInv' /\ Promise!PolicyNext
  BY <1>1, CreatePolicyRefines DEF Promise!PolicyNext
<1>2. ASSUME delete_policy PROVE RefInv' /\ Promise!PolicyNext
  BY <1>2, DeletePolicyRefines DEF Promise!PolicyNext
<1>3. ASSUME NEW info \in Nodes, NEW id \in Idents, NEW val_size \in Sizes,
             create_info(info, id, val_size)
      PROVE  RefInv' /\ Promise!PolicyNext
  BY <1>3, CreateInfoRefines DEF Promise!PolicyNext
<1>4. ASSUME NEW info \in DOMAIN heap PROVE heap[info].ident \in Idents
  BY <1>4 DEF RefInv, Inv, TypeOK, PinfoObj
<1>5. ASSUME NEW info \in DOMAIN heap, delete_info(info)
      PROVE  RefInv' /\ Promise!PolicyNext
  BY <1>4, <1>5, DeleteInfoRefines DEF Promise!PolicyNext
<1>6. ASSUME NEW info \in DOMAIN heap, info_gotten(info)
      PROVE  RefInv' /\ Promise!PolicyNext
  BY <1>4, <1>6, InfoGottenRefines DEF Promise!PolicyNext
<1>7. ASSUME NEW val_size \in Sizes, ids_to_delete_if_added(val_size)
      PROVE  RefInv' /\ Promise!PolicyNext
  BY <1>7, AskRefines DEF Promise!PolicyNext
<1>8. ASSUME UNCHANGED vars PROVE RefInv' /\ UNCHANGED Promise!vars
  <2>1. policy' = policy /\ heap' = heap /\ answer' = answer BY <1>8 DEF vars
  <2>2. ListPolicy' = ListPolicy BY <2>1 DEF ListPolicy, Order, Count
  <2>3. Inv' BY <2>1 DEF RefInv, Inv, TypeOK, ListInv, NoLeak, Count
  <2> QED BY <2>1, <2>2, <2>3 DEF RefInv, Promise!vars
<1> QED BY <1>1, <1>2, <1>3, <1>5, <1>6, <1>7, <1>8 DEF Next

(* used_mem is the memory of the infos in the list and never more than the *)
(* capacity, so the unsigned subtractions of delete_info and of            *)
(* num_to_delete never wrap below zero.                                    *)
THEOREM UsedMemoryIsTheSum == Spec => []UsedMemInv
<1>1. RefInv => UsedMemInv
  <2> SUFFICES ASSUME RefInv, policy # NULL
               PROVE  /\ policy.used_mem = Promise!Total(ListPolicy.list)
                      /\ policy.used_mem <= policy.maxmem
    BY DEF UsedMemInv
  <2>1. ListPolicy.used_mem = policy.used_mem /\ ListPolicy.maxmem = policy.maxmem
    BY DEF ListPolicy
  <2> QED BY <2>1, SameOperators DEF RefInv, LP!PolicyInv
<1> QED BY <1>1, InitRefines, NextRefines, PTL DEF Spec

(* The linked list of lru_replacement.c implements the policy that         *)
(* replacement.h promises: read from bottom to top it is the sequence of   *)
(* infos from least to most recently used, each function does to it what   *)
(* LruPolicySpec says, and ids_to_delete_if_added answers the same.        *)
THEOREM ListImplementsPolicy == Spec => ImplementsPolicy
  BY InitRefines, NextRefines, PTL DEF Spec, ImplementsPolicy, Promise!PolicySpec
=============================================================================

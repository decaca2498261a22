-------------------------- MODULE LruPolicyProofs ---------------------------
(***************************************************************************)
(* What the operators of LruPolicy do to a policy value, for lists of any  *)
(* length: its count of the used memory stays the sum of the sizes in its  *)
(* list, and the infos that ids_to_delete_if_added names make the room     *)
(* that create_info asserts.                                               *)
(***************************************************************************)
EXTENDS LruPolicy, QueueFacts

Named(l, id) == \E i \in 1..Len(l) : l[i].ident = id

DistinctIdents(l) ==
  \A i, j \in 1..Len(l) : l[i].ident = l[j].ident => i = j

PolicyValue ==
  [maxmem : Nat, used_mem : Nat, list : Seq(Info), aborted : {FALSE}]

(* A policy value that keeps its promises.                                 *)
PolicyInv(p) ==
  /\ p \in PolicyValue
  /\ DistinctIdents(p.list)
  /\ p.used_mem = Total(p.list)
  /\ p.used_mem <= p.maxmem
-----------------------------------------------------------------------------
(* f is a table of the sums of the first sizes of l.                       *)
IsRunningTotal(f, l, n) ==
  /\ \A i \in 0..n : f[i] \in Int
  /\ f[0] = 0
  /\ \A i \in 1..n : f[i] = f[i - 1] + l[i].val_size

(* RunningTotal is such a table: the recursion has a solution.             *)
LEMMA RunningTotalSums ==
  ASSUME NEW l \in Seq(Info)
  PROVE  /\ IsRunningTotal(RunningTotal(l), l, Len(l))
         /\ \A i \in 0..Len(l) : RunningTotal(l)[i] \in Nat
         /\ \A i \in 1..Len(l) : l[i].val_size \in Nat
<1> DEFINE n == Len(l)
           S == {i \in 0..n : \E f \in [0..i -> Int] : IsRunningTotal(f, l, i)}
<1>1. n \in Nat /\ \A i \in 1..n : l[i].val_size \in Nat
  <2>1. n \in Nat BY LenProperties
  <2>2. \A i \in 1..n : l[i] \in Info BY ElementOfSeq
  <2> QED BY <2>1, <2>2, SizesAssumption DEF Info
<1> HIDE DEF n
<1>2. 0 \in S
  <2> DEFINE f == [i \in 0..0 |-> 0]
  <2>1. f \in [0..0 -> Int] /\ IsRunningTotal(f, l, 0) BY DEF IsRunningTotal
  <2> HIDE DEF f
  <2> QED BY <2>1, <1>1
<1>3. ASSUME NEW i \in 0..n, i # n, i \in S PROVE i + 1 \in S
  <2>1. PICK f \in [0..i -> Int] : IsRunningTotal(f, l, i) BY <1>3
  <2> DEFINE g == [j \in 0..(i+1) |-> IF j = i + 1 THEN f[i] + l[i+1].val_size
                                      ELSE f[j]]
  <2>2. i \in Nat /\ i + 1 \in 1..n BY <1>1, <1>3
  <2>3. f[i] \in Int /\ l[i+1].val_size \in Nat
    BY <2>1, <2>2, <1>1 DEF IsRunningTotal
  <2>4. /\ g \in [0..(i+1) -> Int] /\ g[0] = 0
    BY <2>1, <2>2, <2>3 DEF IsRunningTotal
  <2>5. ASSUME NEW j \in 1..(i+1) PROVE g[j] = g[j-1] + l[j].val_size
    <3>1. CASE j = i + 1
      <4>1. g[j] = f[i] + l[i+1].val_size BY <3>1, <2>2
      <4>2. g[j-1] = f[i] BY <3>1, <2>2
      <4> QED BY <4>1, <4>2, <3>1
    <3>2. CASE j # i + 1
      <4>1. j \in 1..i BY <3>2, <2>2
      <4>2. g[j] = f[j] /\ g[j-1] = f[j-1] BY <4>1, <2>2
      <4> QED BY <4>1, <4>2, <2>1 DEF IsRunningTotal
    <3> QED BY <3>1, <3>2
  <2> HIDE DEF g
  <2>6. IsRunningTotal(g, l, i + 1) BY <2>4, <2>5 DEF IsRunningTotal
  <2> QED BY <2>4, <2>6, <2>2
<1>4. n \in S
  <2> HIDE DEF S
  <2>1. \A i \in 0..n : i \in S BY <1>1, <1>2, <1>3, UpTo
  <2> QED BY <2>1, <1>1
<1>5. PICK f \in [0..n -> Int] : IsRunningTotal(f, l, n) BY <1>4
<1> DEFINE Eq(sum) == sum = [i \in 0..n |-> IF i = 0 THEN 0
                                            ELSE sum[i-1] + l[i].val_size]
<1>6. Eq(f)
  <2>1. \A i \in 0..n : f[i] = IF i = 0 THEN 0 ELSE f[i-1] + l[i].val_size
    BY <1>1, <1>5 DEF IsRunningTotal
  <2>2. f = [i \in 0..n |-> f[i]] BY <1>5
  <2> QED BY <2>1, <2>2
<1>7. RunningTotal(l) = CHOOSE sum : Eq(sum) BY DEF RunningTotal, n
<1>8. Eq(RunningTotal(l))
  <2> HIDE DEF Eq
  <2> QED BY <1>6, <1>7, Zenon
<1> DEFINE r == RunningTotal(l)
<1> HIDE DEF r
<1>9. Eq(r) BY <1>8 DEF r
<1>10. /\ DOMAIN r = 0..n /\ r[0] = 0
       /\ \A i \in 1..n : r[i] = r[i-1] + l[i].val_size
  <2>1. r = [i \in 0..n |-> IF i = 0 THEN 0 ELSE r[i-1] + l[i].val_size]
    BY <1>9
  <2> QED BY <2>1, <1>1
<1>11. \A i \in 0..n : r[i] \in Nat
  <2> DEFINE T == {i \in 0..n : r[i] \in Nat}
  <2>1. 0 \in T BY <1>10, <1>1
  <2>2. \A i \in 0..n : i # n /\ i \in T => i + 1 \in T
    <3> SUFFICES ASSUME NEW i \in 0..n, i # n, r[i] \in Nat
                 PROVE  i + 1 \in 0..n /\ r[i+1] \in Nat
      OBVIOUS
    <3>1. i + 1 \in 1..n BY <1>1
    <3>2. r[i+1] = r[i] + l[i+1].val_size BY <3>1, <1>10
    <3> QED BY <3>1, <3>2, <1>1
  <2>3. \A i \in 0..n : i \in T
    <3> HIDE DEF T
    <3> QED BY <2>1, <2>2, <1>1, UpTo
  <2> QED BY <2>3
<1> QED BY <1>1, <1>10, <1>11 DEF IsRunningTotal, r, n

(* The sums of lists with the same first m sizes agree up to m.            *)
LEMMA SameSums ==
  ASSUME NEW m \in Nat, NEW f, NEW g, NEW k, NEW l,
         IsRunningTotal(f, k, m), IsRunningTotal(g, l, m),
         \A i \in 1..m : k[i].val_size = l[i].val_size
  PROVE  f[m] = g[m]
<1> DEFINE T == {i \in 0..m : f[i] = g[i]}
<1>1. 0 \in T BY DEF IsRunningTotal
<1>2. \A i \in 0..m : i # m /\ i \in T => i + 1 \in T
  <2> SUFFICES ASSUME NEW i \in 0..m, i # m, f[i] = g[i]
               PROVE  i + 1 \in 0..m /\ f[i+1] = g[i+1]
    OBVIOUS
  <2>1. i + 1 \in 1..m /\ (i + 1) - 1 = i OBVIOUS
  <2> QED BY <2>1 DEF IsRunningTotal
<1>3. \A i \in 0..m : i \in T
  <2> HIDE DEF T
  <2> QED BY <1>1, <1>2, UpTo
<1> QED BY <1>3

(* The size of an info is part of every sum that reaches it.               *)
LEMMA SizeWithinSum ==
  ASSUME NEW l \in Seq(Info)
  PROVE  \A j \in 1..Len(l) : l[j].val_size <= Total(l)
<1> DEFINE n == Len(l)
           f == RunningTotal(l)
           T == {i \in 0..n : \A j \in 1..i : l[j].val_size <= f[i]}
<1>1. n \in Nat BY LenProperties
<1>2. /\ IsRunningTotal(f, l, n) /\ \A i \in 0..n : f[i] \in Nat
      /\ \A i \in 1..n : l[i].val_size \in Nat
  BY RunningTotalSums
<1> HIDE DEF n, f
<1>3. 0 \in T BY <1>1
<1>4. \A i \in 0..n : i # n /\ i \in T => i + 1 \in T
  <2> SUFFICES ASSUME NEW i \in 0..n, i # n, NEW j \in 1..(i+1),
                      \A k \in 1..i : l[k].val_size <= f[i]
               PROVE  l[j].val_size <= f[i+1]
    BY <1>1
  <2>1. i + 1 \in 1..n /\ (i + 1) - 1 = i BY <1>1, SMTT(30)
  <2>2. f[i+1] = f[i] + l[i+1].val_size BY <2>1, <1>2 DEF IsRunningTotal
  <2>3. f[i] \in Nat /\ l[i+1].val_size \in Nat BY <2>1, <1>2
  <2>4. CASE j = i + 1 BY <2>4, <2>2, <2>3
  <2>5. CASE j # i + 1
    <3>1. j \in 1..i /\ j \in 1..n BY <2>5, <1>1
    <3>2. l[j].val_size <= f[i] /\ l[j].val_size \in Nat BY <3>1, <1>2
    <3> QED BY <3>2, <2>2, <2>3
  <2> QED BY <2>4, <2>5
<1>5. \A i \in 0..n : i \in T
  <2> HIDE DEF T
  <2> QED BY <1>1, <1>3, <1>4, UpTo
<1> QED BY <1>1, <1>5 DEF n, f, Total

(* Infos of at most size each sum up to at most size times their number.   *)
LEMMA SumIsBounded ==
  ASSUME NEW l \in Seq(Info), NEW size \in Nat,
         \A j \in 1..Len(l) : l[j].val_size <= size
  PROVE  Total(l) <= Len(l) * size
<1> DEFINE n == Len(l)
           f == RunningTotal(l)
           T == {i \in 0..n : f[i] <= i * size}
<1>1. n \in Nat BY LenProperties
<1>2. /\ IsRunningTotal(f, l, n) /\ \A i \in 0..n : f[i] \in Nat
      /\ \A i \in 1..n : l[i].val_size \in Nat /\ l[i].val_size <= size
  BY RunningTotalSums
<1> HIDE DEF n, f
<1>3. 0 \in T BY <1>1, <1>2 DEF IsRunningTotal
<1>4. \A i \in 0..n : i # n /\ i \in T => i + 1 \in T
  <2> SUFFICES ASSUME NEW i \in 0..n, i # n, f[i] <= i * size
               PROVE  f[i+1] <= (i + 1) * size
    BY <1>1
  <2>1. i + 1 \in 1..n /\ (i + 1) - 1 = i /\ i \in Nat BY <1>1
  <2>2. f[i+1] = f[i] + l[i+1].val_size BY <2>1, <1>2 DEF IsRunningTotal
  <2>3. f[i] \in Nat /\ l[i+1].val_size \in Nat /\ l[i+1].val_size <= size
    BY <2>1, <1>2
  <2>4. i * size \in Nat /\ (i + 1) * size = i * size + size BY <2>1
  <2> QED BY <2>2, <2>3, <2>4
<1>5. \A i \in 0..n : i \in T
  <2> HIDE DEF T
  <2> QED BY <1>1, <1>3, <1>4, UpTo
<1> QED BY <1>1, <1>5 DEF n, f, Total

(* An info added at the end adds its size.                                 *)
LEMMA TotalOfAppend ==
  ASSUME NEW l \in Seq(Info), NEW x \in Info
  PROVE  Total(Append(l, x)) = Total(l) + x.val_size
<1> DEFINE n == Len(l)
           k == Append(l, x)
           f == RunningTotal(l)
           g == RunningTotal(k)
<1>1. /\ k \in Seq(Info) /\ Len(k) = n + 1 /\ n \in Nat
      /\ \A i \in 1..n : k[i] = l[i]
      /\ k[n+1] = x
  BY AppendProperties, LenProperties
<1> HIDE DEF k
<1>2. IsRunningTotal(f, l, n) BY RunningTotalSums
<1>3. IsRunningTotal(g, k, n + 1) BY <1>1, RunningTotalSums
<1> HIDE DEF f, g, n
<1>4. IsRunningTotal(g, k, n) BY <1>1, <1>3 DEF IsRunningTotal
<1>5. g[n] = f[n] BY <1>1, <1>2, <1>4, SameSums
<1>6. g[n+1] = g[n] + x.val_size
  <2>1. n + 1 \in 1..(n+1) /\ (n + 1) - 1 = n BY <1>1
  <2> QED BY <2>1, <1>1, <1>3 DEF IsRunningTotal
<1> QED BY <1>1, <1>5, <1>6 DEF Total, f, g, n, k

(* The position of a named info.                                           *)
LEMMA PositionNamed ==
  ASSUME NEW l, NEW id, Named(l, id)
  PROVE  PositionOf(l, id) \in 1..Len(l) /\ l[PositionOf(l, id)].ident = id
BY DEF Named, PositionOf

(* Taking a named info out leaves the others, and takes its size out of    *)
(* the total.                                                              *)
LEMMA WithoutNamed ==
  ASSUME NEW l \in Seq(Info), DistinctIdents(l), NEW id, Named(l, id)
  PROVE  /\ Without(l, id) \in Seq(Info)
         /\ Len(Without(l, id)) = Len(l) - 1
         /\ DistinctIdents(Without(l, id))
         /\ \A x : Holds(Without(l, id), x) <=> Holds(l, x) /\ x.ident # id
         /\ Total(Without(l, id))
              = Total(l) - l[PositionOf(l, id)].val_size
<1> DEFINE n == Len(l)
           p == PositionOf(l, id)
           w == Without(l, id)
           f == RunningTotal(l)
           g == RunningTotal(w)
           h == [i \in 0..(n-1) |-> IF i < p THEN f[i] ELSE f[i+1] - l[p].val_size]
<1>1. p \in 1..n /\ l[p].ident = id BY PositionNamed
<1>2. n \in Nat \ {0} BY <1>1, LenProperties
<1>3. \A i \in 1..n : l[i] \in Info BY ElementOfSeq
<1>4. w = [i \in 1..(n-1) |-> IF i < p THEN l[i] ELSE l[i+1]] BY DEF Without
<1> HIDE DEF n, p, w
<1>5. w \in Seq(Info) /\ Len(w) = n - 1
  <2>1. \A i \in 1..(n-1) : i \in 1..n /\ i + 1 \in 1..n BY <1>2
  <2>2. w \in [1..(n-1) -> Info] BY <2>1, <1>3, <1>4
  <2>3. n - 1 \in Nat BY <1>2
  <2> QED BY <2>2, <2>3, SeqDef
<1>6. /\ \A i \in 1..(n-1) : i < p => w[i] = l[i]
      /\ \A i \in 1..(n-1) : i >= p => w[i] = l[i+1]
  BY <1>1, <1>4
<1>7. \A i \in 1..n : l[i].ident = id => i = p
  BY <1>1 DEF DistinctIdents, n
<1>8. DistinctIdents(w)
  <2> SUFFICES ASSUME NEW i \in 1..(n-1), NEW j \in 1..(n-1),
                      w[i].ident = w[j].ident
               PROVE  i = j
    BY <1>5 DEF DistinctIdents
  <2> DEFINE a == IF i < p THEN i ELSE i + 1
             b == IF j < p THEN j ELSE j + 1
  <2>1. a \in 1..n /\ b \in 1..n /\ w[i] = l[a] /\ w[j] = l[b]
    BY <1>1, <1>2, <1>6
  <2>2. a = b
    <3> HIDE DEF a, b
    <3> QED BY <2>1 DEF DistinctIdents, n
  <2> QED BY <2>2, <1>1
<1>9. \A x : Holds(w, x) <=> Holds(l, x) /\ x.ident # id
  <2> TAKE x
  <2>1. ASSUME Holds(w, x) PROVE Holds(l, x) /\ x.ident # id
    <3>1. PICK i \in 1..(n-1) : w[i] = x BY <2>1, <1>5 DEF Holds
    <3> DEFINE a == IF i < p THEN i ELSE i + 1
    <3>2. a \in 1..n /\ l[a] = x /\ a # p BY <3>1, <1>1, <1>2, <1>6
    <3> HIDE DEF a
    <3>3. x.ident # id BY <3>2, <1>7
    <3> QED BY <3>2, <3>3 DEF Holds, n
  <2>2. ASSUME Holds(l, x), x.ident # id PROVE Holds(w, x)
    <3>1. PICK a \in 1..n : l[a] = x BY <2>2 DEF Holds, n
    <3>2. a # p BY <3>1, <2>2, <1>1
    <3>3. CASE a < p
      <4>1. a \in 1..(n-1) BY <3>3, <1>1, <1>2
      <4> QED BY <4>1, <3>1, <3>3, <1>5, <1>6 DEF Holds
    <3>4. CASE a > p
      <4>1. a - 1 \in 1..(n-1) /\ a - 1 >= p /\ (a - 1) + 1 = a
        BY <3>4, <1>1, <1>2
      <4>2. w[a-1] = l[a] BY <4>1, <1>6
      <4> QED BY <4>1, <4>2, <3>1, <1>5 DEF Holds
    <3> QED BY <3>2, <3>3, <3>4, <1>1
  <2> QED BY <2>1, <2>2
<1>10. IsRunningTotal(f, l, n) /\ \A i \in 1..n : l[i].val_size \in Nat
  BY RunningTotalSums DEF n
<1>11. IsRunningTotal(g, w, n - 1) BY <1>5, RunningTotalSums
<1> HIDE DEF f, g
<1>12. IsRunningTotal(h, w, n - 1)
  <2>1. \A i \in 0..n : f[i] \in Int BY <1>10 DEF IsRunningTotal
  <2>2. l[p].val_size \in Int BY <1>1, <1>10
  <2>3. \A i \in 0..(n-1) : h[i] \in Int
    BY <2>1, <2>2, <1>1, <1>2
  <2>4. h[0] = 0 BY <1>1, <1>2, <1>10 DEF IsRunningTotal
  <2>5. ASSUME NEW i \in 1..(n-1) PROVE h[i] = h[i-1] + w[i].val_size
    <3>1. /\ i \in 1..n /\ i + 1 \in 1..n /\ i - 1 \in 0..(n-1) /\ i \in 0..(n-1)
          /\ i \in 0..n /\ i - 1 \in 0..n /\ i + 1 \in 0..n
          /\ (i + 1) - 1 = i /\ (i - 1) + 1 = i
      BY <1>2
    <3>2. f[i] = f[i-1] + l[i].val_size /\ f[i+1] = f[i] + l[i+1].val_size
      BY <3>1, <1>10 DEF IsRunningTotal
    <3>3. /\ f[i] \in Int /\ f[i-1] \in Int /\ f[i+1] \in Int
          /\ l[i].val_size \in Int /\ l[i+1].val_size \in Int
      BY <3>1, <2>1, <1>10
    <3>4. CASE i < p
      <4>1. h[i] = f[i] /\ h[i-1] = f[i-1] /\ w[i] = l[i]
        BY <3>1, <3>4, <1>1, <1>6
      <4> QED BY <4>1, <3>2
    <3>5. CASE i = p
      <4>1. h[i] = f[i+1] - l[p].val_size /\ h[i-1] = f[i-1] /\ w[i] = l[i+1]
        BY <3>1, <3>5, <1>1, <1>6
      <4> QED BY <4>1, <3>2, <3>3, <3>5, SMTT(30)
    <3>6. CASE i > p
      <4>1. /\ h[i] = f[i+1] - l[p].val_size /\ h[i-1] = f[i] - l[p].val_size
            /\ w[i] = l[i+1]
        BY <3>1, <3>6, <1>1, <1>6
      <4> QED BY <4>1, <3>2, <3>3, <2>2, SMTT(30)
    <3> QED BY <3>4, <3>5, <3>6, <1>1
  <2> HIDE DEF h
  <2> QED BY <2>3, <2>4, <2>5 DEF IsRunningTotal
<1>13. g[n-1] = h[n-1]
  <2>1. n - 1 \in Nat BY <1>2
  <2> HIDE DEF h
  <2> QED BY <2>1, <1>11, <1>12, SameSums
<1>14. h[n-1] = f[n] - l[p].val_size
  <2>1. n - 1 \in 0..(n-1) /\ (n - 1) + 1 = n /\ n \in 1..n BY <1>2
  <2>2. CASE p = n
    <3>1. h[n-1] = f[n-1] BY <2>1, <2>2, <1>2
    <3>2. f[n] = f[n-1] + l[n].val_size BY <2>1, <1>10 DEF IsRunningTotal
    <3>3. f[n-1] \in Int /\ l[n].val_size \in Int
      BY <2>1, <1>2, <1>10 DEF IsRunningTotal
    <3> QED BY <3>1, <3>2, <3>3, <2>2
  <2>3. CASE p # n
    <3>1. ~(n - 1 < p) BY <2>3, <1>1, <1>2
    <3> QED BY <3>1, <2>1
  <2> QED BY <2>2, <2>3
<1>15. Total(w) = Total(l) - l[p].val_size
  BY <1>5, <1>13, <1>14 DEF Total, f, g, n
<1> QED BY <1>5, <1>8, <1>9, <1>15 DEF n, p, w
-----------------------------------------------------------------------------
(* A new policy is empty.                                                  *)
LEMMA CreatePolicy ==
  ASSUME NEW maxmem \in Nat
  PROVE  /\ PolicyInv(create_policy(maxmem))
         /\ create_policy(maxmem).maxmem = maxmem
         /\ create_policy(maxmem).used_mem = 0
         /\ create_policy(maxmem).list = <<>>
<1> DEFINE e == <<>>
<1>1. e \in Seq(Info) /\ Len(e) = 0 OBVIOUS
<1>2. Total(e) = 0
  <2> HIDE DEF e
  <2> QED BY <1>1, RunningTotalSums DEF Total, IsRunningTotal
<1> QED BY <1>1, <1>2 DEF create_policy, PolicyInv, PolicyValue, DistinctIdents

(* With room for it, create_info adds an info and does not abort.          *)
LEMMA CreateInfo ==
  ASSUME NEW p, PolicyInv(p), NEW id \in Idents, NEW size \in Sizes,
         ~Named(p.list, id), p.used_mem + size <= p.maxmem
  PROVE  /\ PolicyInv(create_info(p, id, size))
         /\ create_info(p, id, size).maxmem = p.maxmem
         /\ create_info(p, id, size).used_mem = p.used_mem + size
         /\ create_info(p, id, size).list
              = Append(p.list, [ident |-> id, val_size |-> size])
<1> DEFINE l == p.list
           x == [ident |-> id, val_size |-> size]
           q == create_info(p, id, size)
<1>1. p \in PolicyValue /\ l \in Seq(Info) /\ DistinctIdents(l)
      /\ p.used_mem = Total(l) /\ p.used_mem \in Nat /\ p.maxmem \in Nat
      /\ size \in Nat
  BY SizesAssumption DEF PolicyInv, PolicyValue
<1>2. x \in Info /\ x.ident = id /\ x.val_size = size BY DEF Info
<1>3. q = [p EXCEPT !.list = Append(@, x), !.used_mem = @ + size]
  BY <1>1 DEF create_info
<1> HIDE DEF x
<1>4. Append(l, x) \in Seq(Info) BY <1>1, <1>2, AppendProperties
<1>5. /\ q \in PolicyValue /\ q.maxmem = p.maxmem
      /\ q.used_mem = p.used_mem + size /\ q.list = Append(l, x)
  <2>1. p.used_mem + size \in Nat BY <1>1
  <2>2. q = [p EXCEPT !.list = Append(l, x), !.used_mem = p.used_mem + size]
    BY <1>1, <1>3 DEF PolicyValue
  <2> HIDE DEF q
  <2> QED BY <2>1, <2>2, <1>1, <1>4 DEF PolicyValue
<1>6. Total(Append(l, x)) = Total(l) + size BY <1>1, <1>2, TotalOfAppend
<1>7. DistinctIdents(Append(l, x))
  <2>1. /\ Len(Append(l, x)) = Len(l) + 1 /\ Len(l) \in Nat
        /\ \A i \in 1..Len(l) : Append(l, x)[i] = l[i]
        /\ Append(l, x)[Len(l) + 1] = x
    BY <1>1, <1>2, AppendProperties, LenProperties
  <2>2. \A i \in 1..Len(l) : l[i].ident # id BY DEF Named
  <2>3. \A i \in 1..Len(Append(l, x)) : i \in 1..Len(l) \/ i = Len(l) + 1
    BY <2>1
  <2> DEFINE k == Append(l, x)
  <2> HIDE DEF k, l
  <2>4. \A i, j \in 1..Len(k) : k[i].ident = k[j].ident => i = j
    BY <2>1, <2>2, <2>3, <1>1, <1>2 DEF DistinctIdents, k
  <2> QED BY <2>4 DEF DistinctIdents, k
<1> QED BY <1>1, <1>5, <1>6, <1>7 DEF PolicyInv, x

(* delete_info takes a named info out.                                     *)
LEMMA DeleteInfo ==
  ASSUME NEW p, PolicyInv(p), NEW id, Named(p.list, id)
  PROVE  /\ PolicyInv(delete_info(p, id))
         /\ delete_info(p, id).maxmem = p.maxmem
         /\ delete_info(p, id).list = Without(p.list, id)
         /\ delete_info(p, id).used_mem
              = p.used_mem - p.list[PositionOf(p.list, id)].val_size
<1> DEFINE l == p.list
           w == Without(l, id)
           size == l[PositionOf(l, id)].val_size
           q == delete_info(p, id)
<1>1. p \in PolicyValue /\ l \in Seq(Info) /\ DistinctIdents(l)
      /\ p.used_mem = Total(l) /\ p.used_mem \in Nat /\ p.maxmem \in Nat
  BY DEF PolicyInv, PolicyValue
<1>2. PositionOf(l, id) \in 1..Len(l) BY PositionNamed
<1>3. size \in Nat /\ size <= Total(l)
  BY <1>1, <1>2, RunningTotalSums, SizeWithinSum
<1>4. q = [p EXCEPT !.list = w, !.used_mem = p.used_mem - size]
  BY <1>1 DEF delete_info, PolicyValue
<1>5. w \in Seq(Info) /\ DistinctIdents(w) /\ Total(w) = Total(l) - size
  BY <1>1, WithoutNamed
<1> HIDE DEF w, size, q
<1>6. /\ q \in PolicyValue /\ q.maxmem = p.maxmem
      /\ q.used_mem = p.used_mem - size /\ q.list = w
  <2>1. p.used_mem - size \in Nat BY <1>1, <1>3
  <2> QED BY <2>1, <1>1, <1>4, <1>5 DEF PolicyValue
<1>7. p.used_mem <= p.maxmem BY DEF PolicyInv
<1>8. PolicyInv(q)
  <2>1. q.used_mem <= q.maxmem BY <1>1, <1>3, <1>6, <1>7
  <2> QED BY <2>1, <1>1, <1>5, <1>6 DEF PolicyInv
<1> QED BY <1>6, <1>8 DEF q, w, size

(* info_gotten only moves an info.                                         *)
LEMMA InfoGotten ==
  ASSUME NEW p, PolicyInv(p), NEW id, Named(p.list, id)
  PROVE  /\ PolicyInv(info_gotten(p, id))
         /\ info_gotten(p, id).maxmem = p.maxmem
         /\ info_gotten(p, id).used_mem = p.used_mem
         /\ \A x : Holds(info_gotten(p, id).list, x) <=> Holds(p.list, x)
<1> DEFINE l == p.list
           w == Without(l, id)
           e == l[PositionOf(l, id)]
           q == info_gotten(p, id)
<1>1. p \in PolicyValue /\ l \in Seq(Info) /\ DistinctIdents(l)
      /\ p.used_mem = Total(l) /\ p.used_mem \in Nat /\ p.maxmem \in Nat
  BY DEF PolicyInv, PolicyValue
<1>2. PositionOf(l, id) \in 1..Len(l) /\ e.ident = id BY PositionNamed
<1>3. e \in Info BY <1>1, <1>2, ElementOfSeq
<1>4. q = [p EXCEPT !.list = Append(w, e)] BY <1>1 DEF info_gotten, PolicyValue
<1>5. /\ w \in Seq(Info) /\ DistinctIdents(w)
      /\ Total(w) = Total(l) - e.val_size
      /\ \A x : Holds(w, x) <=> Holds(l, x) /\ x.ident # id
  BY <1>1, WithoutNamed
<1>6. Holds(l, e) /\ \A x : Holds(l, x) /\ x.ident = id => x = e
  <2>1. Holds(l, e) BY <1>2 DEF Holds
  <2>2. ASSUME NEW i \in 1..Len(l), l[i].ident = id PROVE i = PositionOf(l, id)
    BY <1>1, <1>2, <2>2 DEF DistinctIdents
  <2>3. \A x : Holds(l, x) /\ x.ident = id => x = e BY <2>2 DEF Holds
  <2> QED BY <2>1, <2>3
<1>7. Total(l) \in Nat /\ e.val_size \in Nat
  BY <1>1, <1>3, SizesAssumption DEF Info
<1> HIDE DEF w, e, q, l
<1>8. /\ Append(w, e) \in Seq(Info)
      /\ \A x : Holds(Append(w, e), x) <=> Holds(w, x) \/ x = e
  BY <1>3, <1>5, QueueAppend
<1>9. Total(Append(w, e)) = Total(l)
  <2>1. Total(Append(w, e)) = Total(w) + e.val_size BY <1>3, <1>5, TotalOfAppend
  <2> QED BY <2>1, <1>5, <1>7
<1>10. DistinctIdents(Append(w, e))
  <2>1. /\ Len(Append(w, e)) = Len(w) + 1 /\ Len(w) \in Nat
        /\ \A i \in 1..Len(w) : Append(w, e)[i] = w[i]
        /\ Append(w, e)[Len(w) + 1] = e
    BY <1>3, <1>5, AppendProperties, LenProperties
  <2>2. \A i \in 1..Len(w) : w[i].ident # id BY <1>5 DEF Holds
  <2>3. \A i \in 1..Len(Append(w, e)) : i \in 1..Len(w) \/ i = Len(w) + 1
    BY <2>1
  <2> DEFINE k == Append(w, e)
  <2> HIDE DEF k
  <2>4. \A i, j \in 1..Len(k) : k[i].ident = k[j].ident => i = j
    BY <2>1, <2>2, <2>3, <1>2, <1>5 DEF DistinctIdents, k
  <2> QED BY <2>4 DEF DistinctIdents, k
<1>11. /\ q \in PolicyValue /\ q.maxmem = p.maxmem
       /\ q.used_mem = p.used_mem /\ q.list = Append(w, e)
  BY <1>1, <1>4, <1>8 DEF PolicyValue
<1>12. PolicyInv(q) BY <1>1, <1>9, <1>10, <1>11 DEF PolicyInv
<1>13. \A x : Holds(q.list, x) <=> Holds(l, x) BY <1>2, <1>5, <1>6, <1>8, <1>11
<1> QED BY <1>11, <1>12, <1>13 DEF q, l

(* A value that fits in maxmem at all fits once the infos that             *)
(* num_to_delete counts are gone, and not before.                          *)
LEMMA NumToDelete ==
  ASSUME NEW p, PolicyInv(p), NEW size \in Nat, size <= p.maxmem
  PROVE  /\ num_to_delete(p, size) \in 0..Len(p.list)
         /\ p.used_mem + size - RunningTotal(p.list)[num_to_delete(p, size)]
              <= p.maxmem
         /\ \A m \in 0..(num_to_delete(p, size) - 1) :
              p.used_mem + size - RunningTotal(p.list)[m] > p.maxmem
<1> DEFINE l == p.list
           f == RunningTotal(l)
           Fits(n) == p.used_mem + size - f[n] <= p.maxmem
           T == {n \in 0..Len(l) : Fits(n) \/ n = Len(l)}
           First(n) == (Fits(n) \/ n = Len(l))
                         /\ \A m \in 0..(n-1) : p.used_mem + size - f[m] > p.maxmem
<1>1. l \in Seq(Info) /\ p.used_mem = f[Len(l)] /\ p.used_mem \in Nat
      /\ p.maxmem \in Nat
  BY DEF PolicyInv, PolicyValue, Total
<1>2. Len(l) \in Nat BY <1>1, LenProperties
<1>3. \A i \in 0..Len(l) : f[i] \in Nat BY <1>1, RunningTotalSums
<1>4. T \in SUBSET Nat /\ T # {} BY <1>2
<1> HIDE DEF l, f
<1>5. PICK n \in T : \A k \in T : n <= k
  <2> HIDE DEF T
  <2> QED BY <1>4, LeastNat
<1>6. n \in 0..Len(l) /\ First(n)
  <2>1. n \in 0..Len(l) /\ (Fits(n) \/ n = Len(l)) BY <1>5
  <2>2. ASSUME NEW m \in 0..(n-1) PROVE p.used_mem + size - f[m] > p.maxmem
    <3>1. m \in 0..Len(l) /\ ~(n <= m) BY <2>1, <1>2
    <3>2. m \notin T BY <3>1, <1>5
    <3>3. ~(p.used_mem + size - f[m] <= p.maxmem) BY <3>1, <3>2
    <3>4. f[m] \in Nat BY <3>1, <1>3
    <3> QED BY <3>3, <3>4, <1>1
  <2> QED BY <2>1, <2>2
<1>7. num_to_delete(p, size) = CHOOSE n_1 \in 0..Len(l) : First(n_1)
  BY DEF num_to_delete, l, f
<1> DEFINE c == num_to_delete(p, size)
<1>8. c \in 0..Len(l) /\ First(c)
  <2> HIDE DEF First
  <2> QED BY <1>6, <1>7
<1> HIDE DEF c
<1>9. Fits(c)
  <2>1. CASE c = Len(l) BY <2>1, <1>1
  <2>2. CASE c # Len(l) BY <2>2, <1>8
  <2> QED BY <2>1, <2>2
<1> QED BY <1>8, <1>9 DEF c, l, f
=============================================================================

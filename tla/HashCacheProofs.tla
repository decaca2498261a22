-------------------------- MODULE HashCacheProofs ---------------------------
(***************************************************************************)
(* Every function of hash_cache.c keeps the table, the two counters and    *)
(* the replacement policy in agreement, for any keys, values, sizes, hash  *)
(* function and capacities.                                                *)
(*                                                                         *)
(* CacheInv is what every function finds and leaves.  One link is unlinked *)
(* (UnlinkKeeps); the loop over the evicted idents repeats it              *)
(* (DeleteIdsKeeps), after which there is room for the new value, so that  *)
(* create_info does not abort (AddToCacheKeeps); a resize moves links and  *)
(* changes none.                                                           *)
(***************************************************************************)
EXTENDS HashCache, LruPolicyProofs, FiniteSetTheorems

InfoOf(x) == [ident |-> x.key, val_size |-> x.val_size]

CacheValue ==
  [maxmem : Nat, mem_used : Nat, table_size : Nat \ {0}, num_elements : Nat,
   table : UNION {[0..(n - 1) -> SUBSET Link] : n \in Nat \ {0}},
   evic_policy : PolicyValue]

Shaped(c) ==
  /\ c \in CacheValue
  /\ c.table \in [0..(c.table_size - 1) -> SUBSET Link]

Placed(c) ==
  \A b \in 0..(c.table_size - 1) : \A x \in c.table[b] : Bucket(c, x.key) = b

DistinctKeys(links) == \A x, y \in links : x.key = y.key => x = y

SameEntries(c) ==
  \A i : Holds(c.evic_policy.list, i) <=> \E x \in AllLinks(c) : i = InfoOf(x)

Counted(c) ==
  /\ c.mem_used = c.evic_policy.used_mem
  /\ c.maxmem = c.evic_policy.maxmem
  /\ IsFiniteSet(AllLinks(c))
  /\ c.num_elements = Cardinality(AllLinks(c))

Uncrowded(c) == 2 * c.num_elements <= c.table_size

Consistent(c) ==
  /\ Shaped(c) /\ Placed(c) /\ DistinctKeys(AllLinks(c))
  /\ PolicyInv(c.evic_policy)
  /\ SameEntries(c) /\ Counted(c)

CacheInv(c) == Consistent(c) /\ Uncrowded(c)
-----------------------------------------------------------------------------
(* map_to_location gives a bucket of the table.                            *)
LEMMA BucketInTable ==
  ASSUME NEW k \in Keys, NEW n \in Nat \ {0}
  PROVE  map_to_location(Hash[k], n) \in 0..(n - 1)
<1>1. Hash[k] \in Nat BY HashAssumption
<1> QED BY <1>1 DEF map_to_location

(* The links of the table are the links in the buckets of their keys.      *)
LEMMA LinksAreInBuckets ==
  ASSUME NEW c, Shaped(c), Placed(c)
  PROVE  /\ AllLinks(c) \subseteq Link
         /\ \A x : x \in AllLinks(c) <=> x \in Link /\ x \in c.table[Bucket(c, x.key)]
<1>1. /\ c.table_size \in Nat \ {0}
      /\ c.table \in [0..(c.table_size - 1) -> SUBSET Link]
  BY DEF Shaped, CacheValue
<1>2. AllLinks(c) \subseteq Link BY <1>1 DEF AllLinks
<1>3. \A x \in Link : Bucket(c, x.key) \in 0..(c.table_size - 1)
  BY <1>1, BucketInTable DEF Bucket, Link
<1>4. \A x \in Link : x \in c.table[Bucket(c, x.key)] => x \in AllLinks(c)
  BY <1>3 DEF AllLinks
<1>5. \A x \in AllLinks(c) : x \in c.table[Bucket(c, x.key)]
  BY DEF AllLinks, Placed
<1> QED BY <1>2, <1>4, <1>5

(* querry_hash finds the link of the key, if there is one.                 *)
LEMMA QuerryHash ==
  ASSUME NEW c, CacheInv(c), NEW key \in Keys
  PROVE  /\ querry_hash(c, key) = NULL \/ querry_hash(c, key) \in AllLinks(c)
         /\ querry_hash(c, key) # NULL => querry_hash(c, key).key = key
         /\ querry_hash(c, key) = NULL <=> \A x \in AllLinks(c) : x.key # key
<1> DEFINE found == {l \in c.table[Bucket(c, key)] : l.key = key}
<1>1. querry_hash(c, key) = IF found = {} THEN NULL ELSE CHOOSE l \in found : TRUE
  BY DEF querry_hash
<1>2. /\ AllLinks(c) \subseteq Link
      /\ \A x : x \in AllLinks(c) <=> x \in Link /\ x \in c.table[Bucket(c, x.key)]
  BY LinksAreInBuckets DEF CacheInv, Consistent
<1>3. found \subseteq Link
  <2>1. Bucket(c, key) \in 0..(c.table_size - 1)
    BY BucketInTable DEF CacheInv, Consistent, Shaped, CacheValue, Bucket
  <2> QED BY <2>1 DEF CacheInv, Consistent, Shaped
<1>4. \A x : x \in found <=> x \in AllLinks(c) /\ x.key = key
  BY <1>2, <1>3
<1> HIDE DEF found
<1>5. CASE found = {} BY <1>5, <1>1, <1>4
<1>6. CASE found # {}
  <2>1. querry_hash(c, key) \in found BY <1>6, <1>1
  <2>2. querry_hash(c, key) # NULL BY <2>1, <1>3, NullIsNoLink
  <2> QED BY <2>1, <2>2, <1>4
<1> QED BY <1>5, <1>6
-----------------------------------------------------------------------------
(* Unlinking one link takes it out of the table, the policy and the        *)
(* counters.                                                               *)
LEMMA UnlinkKeeps ==
  ASSUME NEW c, CacheInv(c), NEW x \in AllLinks(c)
  PROVE  /\ CacheInv(Unlink(c, x))
         /\ AllLinks(Unlink(c, x)) = AllLinks(c) \ {x}
         /\ Unlink(c, x).maxmem = c.maxmem
         /\ Unlink(c, x).evic_policy = delete_info(c.evic_policy, x.key)
<1> DEFINE d == Unlink(c, x)
           b == Bucket(c, x.key)
           p == c.evic_policy
           q == delete_info(p, x.key)
           t == [c.table EXCEPT ![b] = @ \ {x}]
<1>1. /\ AllLinks(c) \subseteq Link
      /\ \A y : y \in AllLinks(c) <=> y \in Link /\ y \in c.table[Bucket(c, y.key)]
  BY LinksAreInBuckets DEF CacheInv, Consistent
<1>2. /\ c \in CacheValue /\ c.table \in [0..(c.table_size - 1) -> SUBSET Link]
      /\ PolicyInv(p) /\ p.list \in Seq(Info)
      /\ c.table_size \in Nat \ {0} /\ c.mem_used = p.used_mem
      /\ c.maxmem = p.maxmem
      /\ IsFiniteSet(AllLinks(c)) /\ c.num_elements = Cardinality(AllLinks(c))
      /\ c.num_elements \in Nat
  BY DEF CacheInv, Consistent, Shaped, CacheValue, PolicyInv, PolicyValue, Counted
<1>3. x \in Link /\ x.key \in Keys /\ x.val_size \in Nat
  BY <1>1, SizesAssumption DEF Link
<1>4. b \in 0..(c.table_size - 1) BY <1>2, <1>3, BucketInTable DEF Bucket
<1>5. /\ Named(p.list, x.key)
      /\ p.list[PositionOf(p.list, x.key)] = InfoOf(x)
  <2>1. Holds(p.list, InfoOf(x)) BY DEF CacheInv, Consistent, SameEntries
  <2>2. PICK i \in 1..Len(p.list) : p.list[i] = InfoOf(x) BY <2>1 DEF Holds
  <2>3. p.list[i].ident = x.key BY <2>2 DEF InfoOf
  <2>4. Named(p.list, x.key) BY <2>2, <2>3 DEF Named
  <2>5. PositionOf(p.list, x.key) = i
    BY <2>3, <2>4, <1>2, PositionNamed DEF PolicyInv, DistinctIdents
  <2> QED BY <2>2, <2>4, <2>5
<1>6. /\ PolicyInv(q) /\ q.maxmem = p.maxmem
      /\ q.list = Without(p.list, x.key)
      /\ q.used_mem = p.used_mem - x.val_size
  BY <1>2, <1>5, DeleteInfo DEF InfoOf
<1>7. /\ IsFiniteSet(AllLinks(c) \ {x})
      /\ Cardinality(AllLinks(c) \ {x}) = c.num_elements - 1
      /\ c.num_elements - 1 \in Nat
  <2>1. /\ IsFiniteSet(AllLinks(c) \ {x})
        /\ Cardinality(AllLinks(c) \ {x}) = Cardinality(AllLinks(c)) - 1
    BY <1>2, FS_RemoveElement
  <2>2. Cardinality(AllLinks(c) \ {x}) \in Nat BY <2>1, FS_CardinalityType
  <2> QED BY <2>1, <2>2, <1>2
<1>8. d = [c EXCEPT !.table = t, !.mem_used = c.mem_used - x.val_size,
                    !.num_elements = c.num_elements - 1, !.evic_policy = q]
  BY <1>2 DEF Unlink, CacheValue
<1>9. /\ t \in [0..(c.table_size - 1) -> SUBSET Link]
      /\ t[b] = c.table[b] \ {x}
      /\ \A e \in 0..(c.table_size - 1) : e # b => t[e] = c.table[e]
  BY <1>2, <1>4
<1> HIDE DEF t, b, q, d
<1>10. /\ d \in CacheValue
       /\ d.maxmem = c.maxmem /\ d.mem_used = c.mem_used - x.val_size
       /\ d.table_size = c.table_size /\ d.num_elements = c.num_elements - 1
       /\ d.table = t /\ d.evic_policy = q
  <2>1. /\ q \in PolicyValue /\ c.mem_used - x.val_size \in Nat
    BY <1>2, <1>6 DEF PolicyInv, PolicyValue
  <2>2. t \in UNION {[0..(n - 1) -> SUBSET Link] : n \in Nat \ {0}}
    BY <1>2, <1>9
  <2> QED BY <2>1, <2>2, <1>2, <1>7, <1>8 DEF CacheValue
<1>11. Shaped(d) BY <1>9, <1>10 DEF Shaped
<1>12. \A k : Bucket(d, k) = Bucket(c, k) BY <1>10 DEF Bucket
<1>13. Placed(d)
  <2> SUFFICES ASSUME NEW e \in 0..(c.table_size - 1), NEW y \in t[e]
               PROVE  Bucket(c, y.key) = e
    BY <1>10, <1>12 DEF Placed
  <2>1. y \in c.table[e] BY <1>9
  <2> QED BY <2>1 DEF CacheInv, Consistent, Placed
<1>14. AllLinks(d) = AllLinks(c) \ {x}
  <2>1. ASSUME NEW y PROVE y \in AllLinks(d) <=> y \in AllLinks(c) /\ y # x
    <3>1. y \in AllLinks(d) <=> y \in Link /\ y \in t[Bucket(c, y.key)]
      BY <1>10, <1>11, <1>12, <1>13, LinksAreInBuckets
    <3>2. ASSUME y \in Link
          PROVE  y \in t[Bucket(c, y.key)] <=> y \in c.table[Bucket(c, y.key)] /\ y # x
      <4>1. Bucket(c, y.key) \in 0..(c.table_size - 1)
        BY <3>2, <1>2, BucketInTable DEF Bucket, Link
      <4>2. CASE Bucket(c, y.key) = b BY <4>2, <1>9
      <4>3. CASE Bucket(c, y.key) # b BY <4>1, <4>3, <1>9 DEF b
      <4> QED BY <4>2, <4>3
    <3> QED BY <3>1, <3>2, <1>1
  <2> QED BY <2>1
<1>15. DistinctKeys(AllLinks(d)) BY <1>14 DEF CacheInv, Consistent, DistinctKeys
<1>16. SameEntries(d)
  <2> SUFFICES ASSUME NEW i
               PROVE  Holds(q.list, i) <=> \E y \in AllLinks(d) : i = InfoOf(y)
    BY <1>10 DEF SameEntries
  <2>1. Holds(q.list, i) <=> Holds(p.list, i) /\ i.ident # x.key
    BY <1>2, <1>5, <1>6, WithoutNamed DEF PolicyInv
  <2>2. Holds(p.list, i) <=> \E y \in AllLinks(c) : i = InfoOf(y)
    BY DEF CacheInv, Consistent, SameEntries
  <2>3. \A y \in AllLinks(c) : y # x <=> InfoOf(y).ident # x.key
    BY DEF CacheInv, Consistent, DistinctKeys, InfoOf
  <2> QED BY <2>1, <2>2, <2>3, <1>14
<1>17. Counted(d)
  BY <1>2, <1>6, <1>7, <1>10, <1>14 DEF Counted
<1>18. Uncrowded(d)
  <2>1. 2 * c.num_elements <= c.table_size BY DEF CacheInv, Consistent, Uncrowded
  <2> QED BY <2>1, <1>2, <1>10 DEF Uncrowded
<1>19. CacheInv(d)
  BY <1>6, <1>10, <1>11, <1>13, <1>15, <1>16, <1>17, <1>18 DEF CacheInv, Consistent
<1> QED BY <1>10, <1>14, <1>19 DEF d, q

(* cache_delete leaves the links of all other keys.                        *)
LEMMA CacheDeleteKeeps ==
  ASSUME NEW c, CacheInv(c), NEW key \in Keys
  PROVE  /\ CacheInv(cache_delete(c, key))
         /\ AllLinks(cache_delete(c, key)) = {x \in AllLinks(c) : x.key # key}
         /\ cache_delete(c, key).maxmem = c.maxmem
         /\ Named(c.evic_policy.list, key) =>
              cache_delete(c, key).evic_policy = delete_info(c.evic_policy, key)
         /\ ~Named(c.evic_policy.list, key) => cache_delete(c, key) = c
<1> DEFINE x == querry_hash(c, key)
           d == cache_delete(c, key)
<1>1. /\ x = NULL \/ x \in AllLinks(c)
      /\ x # NULL => x.key = key
      /\ x = NULL <=> \A y \in AllLinks(c) : y.key # key
  BY QuerryHash
<1>2. d = IF x = NULL THEN c ELSE Unlink(c, x) BY DEF cache_delete, del_link
<1> HIDE DEF x, d
<1>3. CASE x = NULL
  <2>1. d = c /\ AllLinks(c) = {y \in AllLinks(c) : y.key # key}
    BY <1>1, <1>2, <1>3
  <2>2. ~Named(c.evic_policy.list, key)
    <3> SUFFICES ASSUME NEW i \in 1..Len(c.evic_policy.list),
                        c.evic_policy.list[i].ident = key
                 PROVE  FALSE
      BY DEF Named
    <3>1. Holds(c.evic_policy.list, c.evic_policy.list[i]) BY DEF Holds
    <3>2. PICK y \in AllLinks(c) : c.evic_policy.list[i] = InfoOf(y)
      BY <3>1 DEF CacheInv, Consistent, SameEntries
    <3>3. y.key = key BY <3>2 DEF InfoOf
    <3> QED BY <3>3, <1>1, <1>3
  <2> QED BY <2>1, <2>2 DEF d
<1>4. CASE x # NULL
  <2>1. d = Unlink(c, x) /\ x \in AllLinks(c) /\ x.key = key
    BY <1>1, <1>2, <1>4
  <2>2. /\ CacheInv(d) /\ AllLinks(d) = AllLinks(c) \ {x}
        /\ d.maxmem = c.maxmem /\ d.evic_policy = delete_info(c.evic_policy, key)
    BY <2>1, UnlinkKeeps
  <2>3. AllLinks(c) \ {x} = {y \in AllLinks(c) : y.key # key}
    BY <2>1 DEF CacheInv, Consistent, DistinctKeys
  <2>4. Named(c.evic_policy.list, key)
    <3>1. Holds(c.evic_policy.list, InfoOf(x))
      BY <2>1 DEF CacheInv, Consistent, SameEntries
    <3>2. InfoOf(x).ident = key BY <2>1 DEF InfoOf
    <3> QED BY <3>1, <3>2 DEF Holds, Named
  <2> QED BY <2>2, <2>3, <2>4 DEF d
<1> QED BY <1>3, <1>4
-----------------------------------------------------------------------------
(* f is a table of the caches after each of the first n deletions of ids.  *)
IsDeletion(f, c, ids, n) ==
  /\ f[0] = c
  /\ \A i \in 1..n : f[i] = cache_delete(f[i - 1], ids[i])

(* The recursion of DeleteIds has a solution.                              *)
LEMMA DeletionsExist ==
  ASSUME NEW c, NEW S, NEW ids \in Seq(S)
  PROVE  \E f : IsDeletion(f, c, ids, Len(ids)) /\ DeleteIds(c, ids) = f[Len(ids)]
<1> DEFINE n == Len(ids)
           S_ == {i \in 0..n : \E f : DOMAIN f = 0..i /\ f = [j \in 0..i |-> f[j]]
                                        /\ IsDeletion(f, c, ids, i)}
<1>1. n \in Nat BY LenProperties
<1> HIDE DEF n
<1>2. 0 \in S_
  <2> DEFINE f == [j \in 0..0 |-> c]
  <2>1. DOMAIN f = 0..0 /\ f = [j \in 0..0 |-> f[j]] /\ IsDeletion(f, c, ids, 0)
    BY DEF IsDeletion
  <2> HIDE DEF f
  <2> QED BY <2>1, <1>1
<1>3. ASSUME NEW i \in 0..n, i # n, i \in S_ PROVE i + 1 \in S_
  <2>1. PICK f : DOMAIN f = 0..i /\ IsDeletion(f, c, ids, i) BY <1>3
  <2> DEFINE g == [j \in 0..(i+1) |-> IF j = i + 1 THEN cache_delete(f[i], ids[i+1])
                                      ELSE f[j]]
  <2>2. i \in Nat /\ i + 1 \in 1..n BY <1>1, <1>3
  <2>3. DOMAIN g = 0..(i+1) /\ g = [j \in 0..(i+1) |-> g[j]] /\ g[0] = c
    BY <2>1, <2>2 DEF IsDeletion
  <2>4. ASSUME NEW j \in 1..(i+1) PROVE g[j] = cache_delete(g[j-1], ids[j])
    <3>1. CASE j = i + 1
      <4>1. g[j] = cache_delete(f[i], ids[i+1]) BY <3>1, <2>2
      <4>2. g[j-1] = f[i] BY <3>1, <2>2
      <4> QED BY <4>1, <4>2, <3>1
    <3>2. CASE j # i + 1
      <4>1. j \in 1..i BY <3>2, <2>2
      <4>2. g[j] = f[j] /\ g[j-1] = f[j-1] BY <4>1, <2>2
      <4> QED BY <4>1, <4>2, <2>1 DEF IsDeletion
    <3> QED BY <3>1, <3>2
  <2> HIDE DEF g
  <2>5. IsDeletion(g, c, ids, i + 1) BY <2>3, <2>4 DEF IsDeletion
  <2> QED BY <2>3, <2>5, <2>2
<1>4. n \in S_
  <2> HIDE DEF S_
  <2>1. \A i \in 0..n : i \in S_ BY <1>1, <1>2, <1>3, UpTo
  <2> QED BY <2>1, <1>1
<1>5. PICK f : f = [j \in 0..n |-> f[j]] /\ IsDeletion(f, c, ids, n) BY <1>4
<1> DEFINE Eq(after) == after = [i \in 0..n |-> IF i = 0 THEN c
                                      ELSE cache_delete(after[i-1], ids[i])]
<1>6. Eq(f)
  <2>1. \A i \in 0..n : f[i] = IF i = 0 THEN c ELSE cache_delete(f[i-1], ids[i])
    BY <1>1, <1>5 DEF IsDeletion
  <2> QED BY <2>1, <1>5
<1> DEFINE r == CHOOSE after : Eq(after)
<1>7. DeleteIds(c, ids) = r[n] BY DEF DeleteIds, n
<1>8. Eq(r)
  <2> HIDE DEF Eq
  <2> QED BY <1>6, Zenon
<1> HIDE DEF r
<1>9. IsDeletion(r, c, ids, n)
  <2>1. \A i \in 0..n : r[i] = IF i = 0 THEN c ELSE cache_delete(r[i-1], ids[i])
    BY <1>8
  <2> QED BY <2>1, <1>1 DEF IsDeletion
<1> QED BY <1>7, <1>9 DEF n

(* Deleting the first n idents of the policy's list leaves the rest of the *)
(* list and frees what they took.                                          *)
LEMMA DeleteIdsKeeps ==
  ASSUME NEW c, CacheInv(c), NEW n \in 0..Len(c.evic_policy.list)
  PROVE  LET l == c.evic_policy.list
             d == DeleteIds(c, [i \in 1..n |-> l[i].ident])
         IN  /\ CacheInv(d)
             /\ d.maxmem = c.maxmem
             /\ AllLinks(d) \subseteq AllLinks(c)
             /\ d.evic_policy.list = [j \in 1..(Len(l) - n) |-> l[n + j]]
             /\ d.evic_policy.used_mem = c.evic_policy.used_mem - RunningTotal(l)[n]
<1> DEFINE p == c.evic_policy
           l == p.list
           L == Len(l)
           ids == [i \in 1..n |-> l[i].ident]
           F == RunningTotal(l)
<1>1. l \in Seq(Info) /\ L \in Nat /\ n \in Nat /\ p.used_mem \in Nat
  <2>1. PolicyInv(p) BY DEF CacheInv, Consistent
  <2>2. l \in Seq(Info) /\ p.used_mem \in Nat BY <2>1 DEF PolicyInv, PolicyValue
  <2>3. L \in Nat BY <2>2, LenProperties
  <2> QED BY <2>2, <2>3
<1>2. ids \in Seq(Idents) /\ Len(ids) = n /\ \A i \in 1..n : ids[i] = l[i].ident
  <2>1. \A i \in 1..L : l[i] \in Info BY <1>1, ElementOfSeq
  <2>2. ids \in [1..n -> Idents] BY <2>1, <1>1 DEF Info
  <2> QED BY <2>2, <1>1, SeqDef
<1>3. /\ IsRunningTotal(F, l, L) /\ \A i \in 0..L : F[i] \in Nat
      /\ \A i \in 1..L : l[i].val_size \in Nat
  BY <1>1, RunningTotalSums
<1> HIDE DEF ids, F
<1>4. PICK f : IsDeletion(f, c, ids, n) /\ DeleteIds(c, ids) = f[n]
  BY <1>2, DeletionsExist
<1> HIDE DEF l, L
<1> DEFINE Rest(i) == [j \in 1..(L - i) |-> l[i + j]]
           After(i) == /\ CacheInv(f[i])
                       /\ f[i].maxmem = c.maxmem
                       /\ AllLinks(f[i]) \subseteq AllLinks(c)
                       /\ f[i].evic_policy.list = Rest(i)
                       /\ f[i].evic_policy.used_mem = p.used_mem - F[i]
           T == {i \in 0..n : After(i)}
<1>5. 0 \in T
  <2>1. f[0] = c BY <1>4 DEF IsDeletion
  <2>2. Rest(0) = l
    <3>1. l \in [1..L -> Info] BY <1>1, LenProperties DEF L
    <3>2. l = [j \in 1..L |-> l[j]] BY <3>1
    <3>3. L - 0 = L /\ \A j \in 1..L : 0 + j = j BY <1>1
    <3> QED BY <3>2, <3>3
  <2>3. F[0] = 0 BY <1>3 DEF IsRunningTotal
  <2> QED BY <2>1, <2>2, <2>3, <1>1 DEF l
<1>6. \A i \in 0..n : i # n /\ i \in T => i + 1 \in T
  <2> SUFFICES ASSUME NEW i \in 0..n, i # n, After(i) PROVE After(i + 1)
    <3>1. \A i \in 0..n : i # n => i + 1 \in 0..n BY <1>1
    <3> HIDE DEF After
    <3> QED BY <3>1
  <2> DEFINE d == f[i]
             k == d.evic_policy.list
             id == l[i+1].ident
  <2>1. /\ i \in Nat /\ i + 1 \in 1..n /\ i + 1 \in 1..L /\ (i + 1) - 1 = i
        /\ i \in 0..L /\ 1 \in 1..(L - i)
    BY <1>1 DEF L, l
  <2>2. f[i+1] = cache_delete(d, id)
    BY <2>1, <1>2, <1>4 DEF IsDeletion
  <2>3. k \in Seq(Info) /\ DistinctIdents(k) /\ PolicyInv(d.evic_policy)
    BY DEF CacheInv, Consistent, PolicyInv, PolicyValue
  <2>4. k = Rest(i) /\ DOMAIN k = 1..(L - i) /\ \A j \in 1..(L - i) : k[j] = l[i + j]
    OBVIOUS
  <2>5. Len(k) = L - i
    <3>1. L - i \in Nat BY <2>1, <1>1
    <3>2. DOMAIN k = 1..Len(k) /\ Len(k) \in Nat BY <2>3, LenProperties
    <3> HIDE DEF k
    <3>3. 1..Len(k) = 1..(L - i) BY <3>2, <2>4
    <3> QED BY <3>1, <3>2, <3>3, <2>1
  <2>6. id \in Keys
    <3>1. l[i+1] \in Info BY <2>1, <1>1, ElementOfSeq DEF L
    <3> QED BY <3>1 DEF Info, Keys
  <2>7. k[1] = l[i+1] /\ k[1].ident = id BY <2>1, <2>4
  <2> HIDE DEF k
  <2>8. Named(k, id) BY <2>1, <2>5, <2>7 DEF Named
  <2>9. PositionOf(k, id) = 1
    <3>1. PositionOf(k, id) \in 1..Len(k) /\ k[PositionOf(k, id)].ident = id
      BY <2>8, PositionNamed
    <3> QED BY <3>1, <2>1, <2>3, <2>5, <2>7 DEF DistinctIdents
  <2>10. /\ CacheInv(f[i+1]) /\ f[i+1].maxmem = d.maxmem
         /\ AllLinks(f[i+1]) \subseteq AllLinks(d)
         /\ f[i+1].evic_policy = delete_info(d.evic_policy, id)
    BY <2>2, <2>6, <2>8, CacheDeleteKeeps DEF k
  <2>11. /\ f[i+1].evic_policy.list = Without(k, id)
         /\ f[i+1].evic_policy.used_mem = d.evic_policy.used_mem - l[i+1].val_size
    <3> DEFINE q == d.evic_policy
    <3>1. PolicyInv(q) /\ Named(q.list, id) /\ q.list[PositionOf(q.list, id)] = l[i+1]
      BY <2>3, <2>7, <2>8, <2>9 DEF k
    <3>2. /\ delete_info(q, id).list = Without(q.list, id)
          /\ delete_info(q, id).used_mem
               = q.used_mem - q.list[PositionOf(q.list, id)].val_size
      <4> HIDE DEF q, id
      <4> QED BY <3>1, DeleteInfo
    <3> QED BY <3>1, <3>2, <2>10 DEF k
  <2>12. Without(k, id) = Rest(i + 1)
    <3>1. Without(k, id) = [j \in 1..(Len(k) - 1) |-> IF j < 1 THEN k[j] ELSE k[j+1]]
      BY <2>9 DEF Without
    <3>2. Len(k) - 1 = L - (i + 1) BY <2>1, <2>5, <1>1
    <3>3. ASSUME NEW j \in 1..(L - (i + 1))
          PROVE  (IF j < 1 THEN k[j] ELSE k[j+1]) = l[(i + 1) + j]
      <4>1. j + 1 \in 1..(L - i) /\ ~(j < 1) /\ i + (j + 1) = (i + 1) + j
        BY <2>1, <1>1
      <4> QED BY <4>1, <2>4
    <3> QED BY <3>1, <3>2, <3>3
  <2>13. p.used_mem - F[i+1] = (p.used_mem - F[i]) - l[i+1].val_size
    <3>1. F[i+1] = F[i] + l[i+1].val_size BY <2>1, <1>3 DEF IsRunningTotal
    <3>2. F[i] \in Nat /\ l[i+1].val_size \in Nat BY <2>1, <1>3
    <3> QED BY <3>1, <3>2, <1>1
  <2>14. f[i+1].evic_policy.used_mem = p.used_mem - F[i+1]
    BY <2>11, <2>13
  <2> HIDE DEF Rest
  <2> QED BY <2>10, <2>11, <2>12, <2>14
<1>7. After(n)
  <2>1. \A i \in 0..n : i \in T
    <3> HIDE DEF T
    <3> QED BY <1>1, <1>5, <1>6, UpTo
  <2>2. n \in 0..n BY <1>1
  <2> HIDE DEF After
  <2> QED BY <2>1, <2>2
<1> QED BY <1>4, <1>7 DEF l, L, ids, F

(* The evictions of should_add_evict_deletions make room for a value of    *)
(* the given size, unless it is larger than the whole cache.               *)
LEMMA EvictionsMakeRoom ==
  ASSUME NEW c, CacheInv(c), NEW size \in Sizes
  PROVE  LET res == should_add_evict_deletions(c, size)
         IN  /\ CacheInv(res.cache)
             /\ res.cache.maxmem = c.maxmem
             /\ AllLinks(res.cache) \subseteq AllLinks(c)
             /\ res.should_add \in BOOLEAN
             /\ res.should_add => res.cache.mem_used + size <= res.cache.maxmem
<1> DEFINE p == c.evic_policy
           n == num_to_delete(p, size)
           ids == [i \in 1..n |-> p.list[i].ident]
           res == should_add_evict_deletions(c, size)
<1>1. /\ PolicyInv(p) /\ p.maxmem = c.maxmem /\ p.maxmem \in Nat /\ size \in Nat
      /\ p.used_mem \in Nat
  BY SizesAssumption DEF CacheInv, Consistent, Counted, PolicyInv, PolicyValue
<1>2. CASE size > p.maxmem
  <2>1. res.should_add = FALSE /\ res.cache = c
    BY <1>2 DEF should_add_evict_deletions, ids_to_delete_if_added
  <2> QED BY <2>1
<1>3. CASE ~(size > p.maxmem)
  <2>1. res.should_add = TRUE /\ res.cache = DeleteIds(c, ids)
    BY <1>3 DEF should_add_evict_deletions, ids_to_delete_if_added
  <2>2. n \in 0..Len(p.list) /\ p.used_mem + size - RunningTotal(p.list)[n] <= p.maxmem
    BY <1>1, <1>3, NumToDelete
  <2>3. p.list \in Seq(Info) BY <1>1 DEF PolicyInv, PolicyValue
  <2>4. RunningTotal(p.list)[n] \in Nat BY <2>2, <2>3, RunningTotalSums
  <2> DEFINE d == DeleteIds(c, ids)
  <2>5. /\ CacheInv(d) /\ d.maxmem = c.maxmem /\ AllLinks(d) \subseteq AllLinks(c)
        /\ d.evic_policy.used_mem = p.used_mem - RunningTotal(p.list)[n]
    <3> HIDE DEF n
    <3> QED BY <2>2, DeleteIdsKeeps
  <2>6. d.mem_used = d.evic_policy.used_mem BY <2>5 DEF CacheInv, Consistent, Counted
  <2> HIDE DEF d, n
  <2>7. d.mem_used + size <= d.maxmem BY <2>2, <2>4, <2>5, <2>6, <1>1
  <2> QED BY <2>1, <2>5, <2>7 DEF d
<1> QED BY <1>2, <1>3
-----------------------------------------------------------------------------
(* A new, empty cache.                                                     *)
LEMMA CreateCache ==
  ASSUME NEW maxmem \in Nat
  PROVE  /\ CacheInv(create_cache(maxmem))
         /\ AllLinks(create_cache(maxmem)) = {}
         /\ create_cache(maxmem).maxmem = maxmem
<1> DEFINE c == create_cache(maxmem)
           p == create_policy(maxmem)
<1>1. PolicyInv(p) /\ p.maxmem = maxmem /\ p.used_mem = 0 /\ p.list = <<>>
  BY CreatePolicy
<1>2. /\ c.maxmem = maxmem /\ c.mem_used = 0 /\ c.table_size = default_table_size
      /\ c.num_elements = 0 /\ c.evic_policy = p
      /\ c.table = [b \in 0..(default_table_size - 1) |-> {}]
  BY DEF create_cache
<1> HIDE DEF p
<1>3. c.table \in [0..(default_table_size - 1) -> SUBSET Link] BY <1>2
<1>4. c \in CacheValue
  <2>1. c.table \in UNION {[0..(n - 1) -> SUBSET Link] : n \in Nat \ {0}}
    BY <1>3, TableSizeAssumption
  <2>2. p \in PolicyValue BY <1>1 DEF PolicyInv
  <2> QED BY <2>1, <2>2, TableSizeAssumption DEF create_cache, CacheValue, p
<1> HIDE DEF c
<1>5. AllLinks(c) = {} BY <1>2, <1>3 DEF AllLinks
<1>6. Shaped(c) BY <1>2, <1>3, <1>4 DEF Shaped
<1>7. Placed(c) BY <1>2 DEF Placed
<1>8. SameEntries(c) BY <1>1, <1>2, <1>5 DEF SameEntries, Holds
<1>9. Counted(c) BY <1>1, <1>2, <1>5, FS_EmptySet DEF Counted
<1>10. Uncrowded(c) BY <1>2, TableSizeAssumption DEF Uncrowded
<1>11. DistinctKeys(AllLinks(c)) BY <1>5 DEF DistinctKeys
<1> QED BY <1>1, <1>2, <1>5, <1>6, <1>7, <1>8, <1>9, <1>10, <1>11
        DEF CacheInv, Consistent, c

(* A resize moves every link to its new bucket and changes nothing else.   *)
LEMMA ResizeKeeps ==
  ASSUME NEW c, Consistent(c), NEW new_size \in Nat \ {0}
  PROVE  /\ Consistent(resize_table(c, new_size))
         /\ AllLinks(resize_table(c, new_size)) = AllLinks(c)
         /\ resize_table(c, new_size).table_size = new_size
         /\ resize_table(c, new_size).num_elements = c.num_elements
         /\ resize_table(c, new_size).maxmem = c.maxmem
         /\ resize_table(c, new_size).evic_policy = c.evic_policy
<1> DEFINE d == resize_table(c, new_size)
           t == [b \in 0..(new_size - 1) |->
                   {l \in AllLinks(c) : map_to_location(Hash[l.key], new_size) = b}]
<1>1. c \in CacheValue /\ AllLinks(c) \subseteq Link
  BY LinksAreInBuckets DEF Consistent, Shaped
<1>2. d = [c EXCEPT !.table_size = new_size, !.table = t] BY DEF resize_table
<1>3. t \in [0..(new_size - 1) -> SUBSET Link] BY <1>1
<1>4. \A b \in 0..(new_size - 1) :
        t[b] = {l \in AllLinks(c) : map_to_location(Hash[l.key], new_size) = b}
  OBVIOUS
<1> HIDE DEF t, d
<1>5. /\ d \in CacheValue /\ d.table_size = new_size /\ d.table = t
      /\ d.num_elements = c.num_elements /\ d.maxmem = c.maxmem
      /\ d.mem_used = c.mem_used /\ d.evic_policy = c.evic_policy
  <2>1. t \in UNION {[0..(n - 1) -> SUBSET Link] : n \in Nat \ {0}} BY <1>3
  <2> QED BY <2>1, <1>1, <1>2 DEF CacheValue
<1>6. Shaped(d) BY <1>3, <1>5 DEF Shaped
<1>7. Placed(d) BY <1>4, <1>5 DEF Placed, Bucket
<1>8. AllLinks(d) = AllLinks(c)
  <2>1. \A x \in AllLinks(c) : map_to_location(Hash[x.key], new_size) \in 0..(new_size - 1)
    BY <1>1, BucketInTable DEF Link
  <2>2. \A x \in AllLinks(c) : x \in AllLinks(d) BY <2>1, <1>4, <1>5 DEF AllLinks
  <2>3. \A x \in AllLinks(d) : x \in AllLinks(c)
    <3> TAKE x \in AllLinks(d)
    <3>1. PICK b \in 0..(new_size - 1) : x \in t[b] BY <1>5 DEF AllLinks
    <3> QED BY <3>1, <1>4
  <2> QED BY <2>2, <2>3
<1>9. SameEntries(d) BY <1>5, <1>8 DEF Consistent, SameEntries
<1>10. Counted(d) BY <1>5, <1>8 DEF Consistent, Counted
<1> QED BY <1>5, <1>6, <1>7, <1>8, <1>9, <1>10 DEF Consistent, d

(* With room for it, add_to_cache adds one link and does not abort; one    *)
(* doubling of the table is enough.                                        *)
LEMMA AddToCacheKeeps ==
  ASSUME NEW c, CacheInv(c), NEW key \in Keys, NEW val \in Vals, NEW size \in Sizes,
         \A x \in AllLinks(c) : x.key # key,
         c.mem_used + size <= c.maxmem
  PROVE  LET d == add_to_cache(c, key, val, size)
         IN  /\ CacheInv(d)
             /\ AllLinks(d) = AllLinks(c)
                  \union {[key |-> key, val |-> val, val_size |-> size]}
             /\ d.maxmem = c.maxmem
             /\ d.evic_policy = create_info(c.evic_policy, key, size)
<1> DEFINE p == c.evic_policy
           q == create_info(p, key, size)
           new_item == [key |-> key, val |-> val, val_size |-> size]
           b == Bucket(c, key)
           t == [c.table EXCEPT ![b] = @ \union {new_item}]
           added == [assign_to_link(c, key, new_item) EXCEPT
                       !.evic_policy = q,
                       !.mem_used = @ + size,
                       !.num_elements = @ + 1]
<1>1. /\ c \in CacheValue /\ c.table \in [0..(c.table_size - 1) -> SUBSET Link]
      /\ PolicyInv(p) /\ c.table_size \in Nat \ {0} /\ c.mem_used = p.used_mem
      /\ c.maxmem = p.maxmem /\ c.mem_used \in Nat /\ c.num_elements \in Nat
      /\ IsFiniteSet(AllLinks(c)) /\ c.num_elements = Cardinality(AllLinks(c))
  BY DEF CacheInv, Consistent, Shaped, CacheValue, Counted
<1>2. /\ AllLinks(c) \subseteq Link
      /\ \A y : y \in AllLinks(c) <=> y \in Link /\ y \in c.table[Bucket(c, y.key)]
  BY LinksAreInBuckets DEF CacheInv, Consistent
<1>3. /\ new_item \in Link /\ new_item.key = key /\ InfoOf(new_item) \in Info
      /\ InfoOf(new_item) = [ident |-> key, val_size |-> size] /\ size \in Nat
  BY SizesAssumption DEF Link, InfoOf, Info, Keys
<1>4. b \in 0..(c.table_size - 1) BY <1>1, BucketInTable DEF Bucket
<1>5. ~Named(p.list, key)
  <2> SUFFICES ASSUME NEW i \in 1..Len(p.list), p.list[i].ident = key PROVE FALSE
    BY DEF Named
  <2>1. Holds(p.list, p.list[i]) BY DEF Holds
  <2>2. PICK y \in AllLinks(c) : p.list[i] = InfoOf(y)
    BY <2>1 DEF CacheInv, Consistent, SameEntries
  <2>3. y.key = key BY <2>2 DEF InfoOf
  <2> QED BY <2>3
<1>6. /\ PolicyInv(q) /\ q.maxmem = p.maxmem /\ q.used_mem = p.used_mem + size
      /\ q.list = Append(p.list, InfoOf(new_item))
  BY <1>1, <1>3, <1>5, CreateInfo, SMTT(30) DEF Keys
<1>7. q.aborted = FALSE BY <1>6 DEF PolicyInv, PolicyValue
<1>8. assign_to_link(c, key, new_item) = [c EXCEPT !.table = t]
  <2>1. querry_hash(c, key) = NULL BY QuerryHash
  <2>2. c.table[b] \ {NULL} = c.table[b] BY <1>1, <1>4, NullIsNoLink
  <2> HIDE DEF new_item
  <2>3. assign_to_link(c, key, new_item)
          = [c EXCEPT !.table = [c.table EXCEPT ![b] = (@ \ {NULL}) \union {new_item}]]
    BY <2>1, <1>1 DEF assign_to_link, CacheValue
  <2>4. [c.table EXCEPT ![b] = (@ \ {NULL}) \union {new_item}] = t
    BY <2>2, <1>1, <1>4
  <2> QED BY <2>3, <2>4
<1> HIDE DEF new_item
<1>9. /\ t \in [0..(c.table_size - 1) -> SUBSET Link]
      /\ t[b] = c.table[b] \union {new_item}
      /\ \A e \in 0..(c.table_size - 1) : e # b => t[e] = c.table[e]
  BY <1>1, <1>3, <1>4
<1>10. added = [c EXCEPT !.table = t, !.evic_policy = q,
                         !.mem_used = c.mem_used + size,
                         !.num_elements = c.num_elements + 1]
  <2> HIDE DEF t, q
  <2> QED BY <1>1, <1>8 DEF CacheValue
<1>11. add_to_cache(c, key, val, size)
         = IF Crowded(added) THEN resize_table(added, added.table_size * 2) ELSE added
  BY <1>7 DEF add_to_cache, new_item
<1> HIDE DEF t, b, q, added
<1>12. /\ added \in CacheValue
       /\ added.maxmem = c.maxmem /\ added.mem_used = c.mem_used + size
       /\ added.table_size = c.table_size /\ added.num_elements = c.num_elements + 1
       /\ added.table = t /\ added.evic_policy = q
  <2>1. t \in UNION {[0..(n - 1) -> SUBSET Link] : n \in Nat \ {0}}
    BY <1>1, <1>9
  <2>2. q \in PolicyValue BY <1>6 DEF PolicyInv
  <2>3. c.mem_used + size \in Nat /\ c.num_elements + 1 \in Nat BY <1>1, <1>3
  <2> QED BY <2>1, <2>2, <2>3, <1>1, <1>10 DEF CacheValue
<1>13. Shaped(added) BY <1>9, <1>12 DEF Shaped
<1>14. \A k : Bucket(added, k) = Bucket(c, k) BY <1>12 DEF Bucket
<1>15. Placed(added)
  <2> SUFFICES ASSUME NEW e \in 0..(c.table_size - 1), NEW y \in t[e]
               PROVE  Bucket(c, y.key) = e
    BY <1>12, <1>14 DEF Placed
  <2>1. CASE y \in c.table[e] BY <2>1 DEF CacheInv, Consistent, Placed
  <2>2. CASE y = new_item /\ e = b BY <2>2, <1>3 DEF b
  <2> QED BY <2>1, <2>2, <1>9
<1>16. AllLinks(added) = AllLinks(c) \union {new_item}
  <2>1. ASSUME NEW y PROVE y \in AllLinks(added) <=> y \in AllLinks(c) \/ y = new_item
    <3>1. y \in AllLinks(added) <=> y \in Link /\ y \in t[Bucket(c, y.key)]
      BY <1>12, <1>13, <1>14, <1>15, LinksAreInBuckets
    <3>2. ASSUME y \in Link
          PROVE  y \in t[Bucket(c, y.key)]
                   <=> y \in c.table[Bucket(c, y.key)] \/ y = new_item
      <4>1. Bucket(c, y.key) \in 0..(c.table_size - 1)
        BY <3>2, <1>1, BucketInTable DEF Bucket, Link
      <4>2. CASE Bucket(c, y.key) = b BY <4>2, <1>9
      <4>3. CASE Bucket(c, y.key) # b BY <4>1, <4>3, <1>3, <1>9 DEF b
      <4> QED BY <4>2, <4>3
    <3> QED BY <3>1, <3>2, <1>2, <1>3
  <2> QED BY <2>1
<1>17. DistinctKeys(AllLinks(added))
  BY <1>3, <1>16 DEF CacheInv, Consistent, DistinctKeys
<1>18. SameEntries(added)
  <2> SUFFICES ASSUME NEW i
               PROVE  Holds(q.list, i) <=> \E y \in AllLinks(added) : i = InfoOf(y)
    BY <1>12 DEF SameEntries
  <2>1. Holds(q.list, i) <=> Holds(p.list, i) \/ i = InfoOf(new_item)
    <3>1. p.list \in Seq(Info) BY <1>1 DEF PolicyInv, PolicyValue
    <3> QED BY <3>1, <1>3, <1>6, QueueAppend
  <2>2. Holds(p.list, i) <=> \E y \in AllLinks(c) : i = InfoOf(y)
    BY DEF CacheInv, Consistent, SameEntries
  <2> QED BY <2>1, <2>2, <1>16
<1>19. Counted(added)
  <2>1. new_item \notin AllLinks(c) BY <1>3
  <2>2. /\ IsFiniteSet(AllLinks(c) \union {new_item})
        /\ Cardinality(AllLinks(c) \union {new_item}) = Cardinality(AllLinks(c)) + 1
    BY <2>1, <1>1, FS_AddElement
  <2> QED BY <2>2, <1>1, <1>6, <1>12, <1>16 DEF Counted
<1>20. Consistent(added)
  BY <1>6, <1>12, <1>13, <1>15, <1>17, <1>18, <1>19 DEF Consistent
<1>21. 2 * c.num_elements <= c.table_size BY DEF CacheInv, Uncrowded
<1>22. CASE Crowded(added)
  <2> DEFINE d == resize_table(added, added.table_size * 2)
  <2>1. added.table_size * 2 \in Nat \ {0} BY <1>1, <1>12
  <2>2. /\ Consistent(d) /\ AllLinks(d) = AllLinks(added)
        /\ d.table_size = added.table_size * 2
        /\ d.num_elements = added.num_elements /\ d.maxmem = added.maxmem
        /\ d.evic_policy = added.evic_policy
    <3> DEFINE new_size == added.table_size * 2
    <3> HIDE DEF new_size
    <3>1. new_size \in Nat \ {0} BY <2>1 DEF new_size
    <3>2. /\ Consistent(resize_table(added, new_size))
          /\ AllLinks(resize_table(added, new_size)) = AllLinks(added)
          /\ resize_table(added, new_size).table_size = new_size
          /\ resize_table(added, new_size).num_elements = added.num_elements
          /\ resize_table(added, new_size).maxmem = added.maxmem
          /\ resize_table(added, new_size).evic_policy = added.evic_policy
      BY <3>1, <1>20, ResizeKeeps
    <3> QED BY <3>2 DEF new_size
  <2> HIDE DEF d
  <2>3. Uncrowded(d)
    <3>1. d.table_size = c.table_size * 2 /\ d.num_elements = c.num_elements + 1
      BY <2>2, <1>12
    <3> QED BY <3>1, <1>1, <1>21 DEF Uncrowded
  <2> QED BY <2>2, <2>3, <1>11, <1>12, <1>16, <1>22 DEF CacheInv, d, q, new_item
<1>23. CASE ~Crowded(added)
  <2>1. Uncrowded(added) BY <1>23, <1>1, <1>12 DEF Crowded, Uncrowded
  <2> QED BY <2>1, <1>11, <1>12, <1>16, <1>20, <1>23 DEF CacheInv, q, new_item
<1> QED BY <1>22, <1>23
-----------------------------------------------------------------------------
(* cache_set keeps the cache in order, and holds afterwards no value that  *)
(* it did not hold before, except the one that was set.                    *)
LEMMA CacheSetKeeps ==
  ASSUME NEW c, CacheInv(c), NEW key \in Keys, NEW val \in Vals
  PROVE  /\ CacheInv(cache_set(c, key, val))
         /\ cache_set(c, key, val).maxmem = c.maxmem
         /\ AllLinks(cache_set(c, key, val)) \subseteq
              AllLinks(c) \union {[key |-> key, val |-> val, val_size |-> SizeOf[val]]}
<1> DEFINE size == SizeOf[val]
           removed == cache_delete(c, key)
           res == should_add_evict_deletions(removed, size)
<1>1. size \in Sizes BY SizeOfAssumption
<1>2. cache_set(c, key, val)
        = IF res.should_add THEN add_to_cache(res.cache, key, val, size) ELSE res.cache
  BY DEF cache_set, cache_delete
<1> HIDE DEF size
<1>3. /\ CacheInv(removed) /\ removed.maxmem = c.maxmem
      /\ AllLinks(removed) = {x \in AllLinks(c) : x.key # key}
  BY CacheDeleteKeeps
<1> HIDE DEF removed
<1>4. /\ CacheInv(res.cache) /\ res.cache.maxmem = removed.maxmem
      /\ AllLinks(res.cache) \subseteq AllLinks(removed)
      /\ res.should_add \in BOOLEAN
      /\ res.should_add => res.cache.mem_used + size <= res.cache.maxmem
  BY <1>1, <1>3, EvictionsMakeRoom
<1> HIDE DEF res
<1>5. CASE res.should_add
  <2>1. \A x \in AllLinks(res.cache) : x.key # key BY <1>3, <1>4
  <2> DEFINE e == res.cache
             d == add_to_cache(e, key, val, size)
  <2>2. CacheInv(e) /\ (\A x \in AllLinks(e) : x.key # key)
        /\ e.mem_used + size <= e.maxmem
    BY <2>1, <1>4, <1>5
  <2> HIDE DEF e
  <2>3. /\ CacheInv(d) /\ d.maxmem = e.maxmem
        /\ AllLinks(d) = AllLinks(e)
             \union {[key |-> key, val |-> val, val_size |-> size]}
    BY <2>2, <1>1, AddToCacheKeeps
  <2> QED BY <2>3, <1>2, <1>3, <1>4, <1>5 DEF e, size
<1>6. CASE ~res.should_add
  BY <1>6, <1>2, <1>3, <1>4
<1> QED BY <1>5, <1>6

(* With room for the value nothing is evicted for it.                      *)
LEMMA NothingEvicted ==
  ASSUME NEW c, CacheInv(c), NEW size \in Sizes, c.mem_used + size <= c.maxmem
  PROVE  LET res == should_add_evict_deletions(c, size)
         IN  res.should_add = TRUE /\ res.cache = c
<1> DEFINE p == c.evic_policy
           n == num_to_delete(p, size)
           ids == [i \in 1..n |-> p.list[i].ident]
           res == should_add_evict_deletions(c, size)
<1>1. /\ PolicyInv(p) /\ p.maxmem = c.maxmem /\ p.maxmem \in Nat /\ size \in Nat
      /\ p.used_mem \in Nat /\ p.used_mem = c.mem_used /\ p.list \in Seq(Info)
  BY SizesAssumption DEF CacheInv, Consistent, Counted, PolicyInv, PolicyValue
<1>2. ~(size > p.maxmem) /\ p.used_mem + size <= p.maxmem BY <1>1
<1>3. res.should_add = TRUE /\ res.cache = DeleteIds(c, ids)
  BY <1>2 DEF should_add_evict_deletions, ids_to_delete_if_added
<1>4. /\ n \in 0..Len(p.list)
      /\ \A m \in 0..(n - 1) :
           p.used_mem + size - RunningTotal(p.list)[m] > p.maxmem
  BY <1>1, <1>2, NumToDelete
<1>5. RunningTotal(p.list)[0] = 0
  BY <1>1, RunningTotalSums DEF IsRunningTotal
<1> HIDE DEF n
<1>6. n = 0
  <2>1. Len(p.list) \in Nat BY <1>1, LenProperties
  <2>2. n > 0 => 0 \in 0..(n - 1) BY <2>1, <1>4
  <2> QED BY <2>1, <2>2, <1>1, <1>2, <1>4, <1>5
<1>7. ids \in Seq(Idents) /\ Len(ids) = 0 BY <1>6
<1>8. DeleteIds(c, ids) = c
  <2> HIDE DEF ids
  <2>1. PICK f : IsDeletion(f, c, ids, Len(ids)) /\ DeleteIds(c, ids) = f[Len(ids)]
    BY <1>7, DeletionsExist
  <2> QED BY <2>1, <1>7 DEF IsDeletion
<1> QED BY <1>3, <1>8

(* Then cache_set replaces the value of its key and keeps every other.     *)
LEMMA CacheSetWithRoom ==
  ASSUME NEW c, CacheInv(c), NEW key \in Keys, NEW val \in Vals,
         cache_delete(c, key).mem_used + SizeOf[val] <= c.maxmem
  PROVE  AllLinks(cache_set(c, key, val))
           = {x \in AllLinks(c) : x.key # key}
               \union {[key |-> key, val |-> val, val_size |-> SizeOf[val]]}
<1> DEFINE size == SizeOf[val]
           removed == cache_delete(c, key)
           res == should_add_evict_deletions(removed, size)
<1>1. size \in Sizes BY SizeOfAssumption
<1>2. cache_set(c, key, val)
        = IF res.should_add THEN add_to_cache(res.cache, key, val, size) ELSE res.cache
  BY DEF cache_set, cache_delete
<1>3. removed.mem_used + size <= c.maxmem OBVIOUS
<1> HIDE DEF size
<1>4. /\ CacheInv(removed) /\ removed.maxmem = c.maxmem
      /\ AllLinks(removed) = {x \in AllLinks(c) : x.key # key}
  BY CacheDeleteKeeps
<1> HIDE DEF removed
<1>5. res.should_add = TRUE /\ res.cache = removed
  BY <1>1, <1>3, <1>4, NothingEvicted
<1> HIDE DEF res
<1>6. AllLinks(add_to_cache(removed, key, val, size))
        = AllLinks(removed) \union {[key |-> key, val |-> val, val_size |-> size]}
  BY <1>1, <1>3, <1>4, AddToCacheKeeps
<1> QED BY <1>2, <1>4, <1>5, <1>6 DEF size

(* A key that is not stored leaves fewer infos than there are keys, and so *)
(* a bound on the memory that is used.                                     *)
LEMMA OthersAreBounded ==
  ASSUME NEW c, CacheInv(c), IsFiniteSet(Keys), NEW key \in Keys,
         \A x \in AllLinks(c) : x.key # key,
         NEW size \in Nat, \A x \in AllLinks(c) : x.val_size <= size
  PROVE  c.mem_used + size <= Cardinality(Keys) * size
<1> DEFINE l == c.evic_policy.list
           others == Keys \ {key}
           f == [i \in 1..Len(l) |-> l[i].ident]
<1>1. /\ l \in Seq(Info) /\ DistinctIdents(l) /\ c.mem_used = Total(l)
      /\ \A i : Holds(l, i) <=> \E x \in AllLinks(c) : i = InfoOf(x)
  BY DEF CacheInv, Consistent, PolicyInv, PolicyValue, Counted, SameEntries
<1>2. Len(l) \in Nat BY <1>1, LenProperties
<1> HIDE DEF l
<1>3. ASSUME NEW j \in 1..Len(l)
      PROVE  l[j].val_size <= size /\ l[j].ident \in others
  <2>1. Holds(l, l[j]) BY DEF Holds
  <2>2. PICK x \in AllLinks(c) : l[j] = InfoOf(x) BY <2>1, <1>1
  <2>3. l[j].val_size = x.val_size /\ l[j].ident = x.key BY <2>2 DEF InfoOf
  <2>4. x \in Link BY LinksAreInBuckets DEF CacheInv, Consistent
  <2> QED BY <2>3, <2>4 DEF Link
<1>4. Total(l) <= Len(l) * size BY <1>1, <1>3, SumIsBounded
<1>5. Len(l) + 1 <= Cardinality(Keys)
  <2>1. f \in Injection(1..Len(l), others)
    BY <1>1, <1>3 DEF Injection, IsInjective, DistinctIdents
  <2>2. /\ IsFiniteSet(others) /\ Cardinality(others) = Cardinality(Keys) - 1
        /\ Cardinality(Keys) \in Nat
    BY FS_RemoveElement, FS_CardinalityType
  <2> HIDE DEF f, others
  <2>3. Cardinality(1..Len(l)) <= Cardinality(others) BY <2>1, <2>2, FS_Injection
  <2>4. Cardinality(1..Len(l)) = Len(l) BY <1>2, FS_Interval, SMTT(30)
  <2> QED BY <2>2, <2>3, <2>4, <1>2
<1>6. (Len(l) + 1) * size <= Cardinality(Keys) * size
  <2>1. Cardinality(Keys) \in Nat BY FS_CardinalityType
  <2> DEFINE n == Cardinality(Keys)
             d == n - (Len(l) + 1)
  <2>2. d \in Nat /\ n = (Len(l) + 1) + d BY <2>1, <1>2, <1>5
  <2> HIDE DEF n, d
  <2>3. n * size = (Len(l) + 1) * size + d * size BY <2>2, <1>2
  <2>4. d * size \in Nat /\ (Len(l) + 1) * size \in Nat BY <2>2, <1>2
  <2> QED BY <2>3, <2>4 DEF n
<1>7. (Len(l) + 1) * size = Len(l) * size + size /\ Len(l) * size \in Nat BY <1>2
<1>8. Total(l) \in Nat BY <1>1, <1>2, RunningTotalSums DEF Total
<1>9. Cardinality(Keys) * size \in Nat BY FS_CardinalityType
<1> QED BY <1>1, <1>4, <1>6, <1>7, <1>8, <1>9

(* cache_get changes nothing but the order of the policy.                  *)
LEMMA CacheGetKeeps ==
  ASSUME NEW c, CacheInv(c), NEW key \in Keys
  PROVE  /\ CacheInv(cache_get(c, key))
         /\ cache_get(c, key).maxmem = c.maxmem
         /\ AllLinks(cache_get(c, key)) = AllLinks(c)
<1> DEFINE x == querry_hash(c, key)
           p == c.evic_policy
           q == info_gotten(p, key)
           d == cache_get(c, key)
<1>1. /\ x = NULL \/ x \in AllLinks(c)
      /\ x # NULL => x.key = key
  BY QuerryHash
<1>2. CASE x = NULL
  <2>1. d = c BY <1>2 DEF cache_get
  <2> QED BY <2>1
<1>3. CASE x # NULL
  <2>1. d = [c EXCEPT !.evic_policy = q]
    <3>1. c \in CacheValue BY DEF CacheInv, Consistent, Shaped
    <3>2. x.key = key BY <1>1, <1>3
    <3> QED BY <3>1, <3>2, <1>3 DEF cache_get, CacheValue
  <2>2. Named(p.list, key)
    <3>1. x \in AllLinks(c) /\ x.key = key BY <1>1, <1>3
    <3>2. Holds(p.list, InfoOf(x)) BY <3>1 DEF CacheInv, Consistent, SameEntries
    <3>3. InfoOf(x).ident = key BY <3>1 DEF InfoOf
    <3> QED BY <3>2, <3>3 DEF Holds, Named
  <2>3. /\ PolicyInv(q) /\ q.maxmem = p.maxmem /\ q.used_mem = p.used_mem
        /\ \A i : Holds(q.list, i) <=> Holds(p.list, i)
    BY <2>2, InfoGotten DEF CacheInv, Consistent
  <2> HIDE DEF d, q
  <2>4. /\ d \in CacheValue /\ d.maxmem = c.maxmem /\ d.mem_used = c.mem_used
        /\ d.table_size = c.table_size /\ d.num_elements = c.num_elements
        /\ d.table = c.table /\ d.evic_policy = q
    <3>1. c \in CacheValue BY DEF CacheInv, Consistent, Shaped
    <3>2. q \in PolicyValue BY <2>3 DEF PolicyInv
    <3> QED BY <3>1, <3>2, <2>1 DEF CacheValue
  <2>5. AllLinks(d) = AllLinks(c) BY <2>4 DEF AllLinks
  <2>6. Shaped(d) BY <2>4 DEF CacheInv, Consistent, Shaped
  <2>7. Placed(d) BY <2>4 DEF CacheInv, Consistent, Placed, Bucket
  <2>8. SameEntries(d) BY <2>3, <2>4, <2>5 DEF CacheInv, Consistent, SameEntries
  <2>9. Counted(d) BY <2>3, <2>4, <2>5 DEF CacheInv, Consistent, Counted
  <2>10. Uncrowded(d) BY <2>4 DEF CacheInv, Uncrowded
  <2>11. DistinctKeys(AllLinks(d)) BY <2>5 DEF CacheInv, Consistent
  <2> QED BY <2>3, <2>4, <2>5, <2>6, <2>7, <2>8, <2>9, <2>10, <2>11
          DEF CacheInv, Consistent, d
<1> QED BY <1>2, <1>3
=============================================================================

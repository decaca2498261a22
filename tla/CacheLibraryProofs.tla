------------------------ MODULE CacheLibraryProofs --------------------------
(***************************************************************************)
(* The cache library never loses its agreement with its replacement        *)
(* policy, whatever its callers do: for any keys, values, sizes, hash      *)
(* function, table size and capacities, and for any number of calls.       *)
(*                                                                         *)
(* Every theorem follows from one inductive invariant, Inv: the cache, if  *)
(* there is one, satisfies CacheInv of HashCacheProofs.  The theorems      *)
(* about one function each (CacheSetKeeps and the like) are its steps.     *)
(***************************************************************************)
EXTENDS CacheLibrary, HashCacheProofs

Inv == cache # NULL => CacheInv(cache) /\ cache.maxmem \in MaxMems
-----------------------------------------------------------------------------
(* Every call of the library keeps the invariant.                          *)
LEMMA NextKeepsInv == Inv /\ [Next]_vars => Inv'
<1> SUFFICES ASSUME Inv, [Next]_vars PROVE Inv'
  OBVIOUS
<1>1. ASSUME NEW m \in MaxMems, Create(m) PROVE Inv'
  <2>1. m \in Nat BY CapacityAssumption
  <2>2. CacheInv(create_cache(m)) /\ create_cache(m).maxmem = m
    BY <2>1, CreateCache
  <2> QED BY <1>1, <2>2 DEF Create, Inv
<1>2. ASSUME NEW key \in Keys, NEW val \in Vals, Set(key, val) PROVE Inv'
  <2>1. /\ CacheInv(cache) /\ cache.maxmem \in MaxMems
        /\ cache' = cache_set(cache, key, val)
    BY <1>2 DEF Set, Usable, Inv
  <2>2. CacheInv(cache_set(cache, key, val))
        /\ cache_set(cache, key, val).maxmem = cache.maxmem
    BY <2>1, CacheSetKeeps
  <2> QED BY <2>1, <2>2 DEF Inv
<1>3. ASSUME NEW key \in Keys, Get(key) PROVE Inv'
  <2>1. /\ CacheInv(cache) /\ cache.maxmem \in MaxMems
        /\ cache' = cache_get(cache, key)
    BY <1>3 DEF Get, Usable, Inv
  <2>2. CacheInv(cache_get(cache, key))
        /\ cache_get(cache, key).maxmem = cache.maxmem
    BY <2>1, CacheGetKeeps
  <2> QED BY <2>1, <2>2 DEF Inv
<1>4. ASSUME NEW key \in Keys, Delete(key) PROVE Inv'
  <2>1. /\ CacheInv(cache) /\ cache.maxmem \in MaxMems
        /\ cache' = cache_delete(cache, key)
    BY <1>4 DEF Delete, Usable, Inv
  <2>2. CacheInv(cache_delete(cache, key))
        /\ cache_delete(cache, key).maxmem = cache.maxmem
    BY <2>1, CacheDeleteKeeps
  <2> QED BY <2>1, <2>2 DEF Inv
<1>5. CASE SpaceUsed BY <1>5 DEF SpaceUsed, Inv
<1>6. CASE Destroy BY <1>6 DEF Destroy, Inv
<1>7. CASE UNCHANGED vars BY <1>7 DEF vars, Inv
<1> QED BY <1>1, <1>2, <1>3, <1>4, <1>5, <1>6, <1>7 DEF Next

LEMMA InvAlways == Spec => []Inv
<1>1. Init => Inv BY DEF Init, Inv
<1> QED BY <1>1, NextKeepsInv, PTL DEF Spec
-----------------------------------------------------------------------------
(* The cache object stays a well-typed record: counters that never go      *)
(* below zero (they are unsigned in hash_cache.c), a table with a bucket   *)
(* for every index below table_size, and the capacity it was created with. *)
THEOREM CacheTyped == Spec => []TypeOK
<1>1. Inv => TypeOK
  BY DEF Inv, TypeOK, CacheInv, Consistent, Shaped, CacheValue, PolicyInv,
         PolicyValue
<1> QED BY <1>1, InvAlways, PTL

(* The table and the policy always hold the same keys with the same sizes, *)
(* each once, every link in the bucket where querry_hash looks for it:     *)
(* whatever is evicted, overwritten or moved by a resize.                  *)
THEOREM TableAgreesWithPolicy == Spec => []TableMatchesPolicy
<1>1. Inv => TableMatchesPolicy
  <2> SUFFICES ASSUME Inv, cache # NULL PROVE TableMatchesPolicy
    BY DEF TableMatchesPolicy
  <2> DEFINE l == cache.evic_policy.list
  <2>1. \A i, j \in 1..Len(l) : l[i].ident = l[j].ident => i = j
    BY DEF Inv, CacheInv, Consistent, PolicyInv, DistinctIdents
  <2>2. \A x, y \in AllLinks(cache) : x.key = y.key => x = y
    BY DEF Inv, CacheInv, Consistent, DistinctKeys
  <2>3. \A b \in 0..(cache.table_size - 1) :
          \A x \in cache.table[b] : Bucket(cache, x.key) = b
    BY DEF Inv, CacheInv, Consistent, Placed
  <2>4. \A i : Holds(l, i) <=> \E x \in AllLinks(cache) : i = InfoOf(x)
    BY DEF Inv, CacheInv, Consistent, SameEntries
  <2> HIDE DEF l
  <2>5. ASSUME NEW x \in AllLinks(cache)
        PROVE  \E i \in 1..Len(l) : l[i] = [ident |-> x.key, val_size |-> x.val_size]
    <3>1. Holds(l, InfoOf(x)) BY <2>4
    <3> QED BY <3>1 DEF Holds, InfoOf
  <2>6. ASSUME NEW i \in 1..Len(l)
        PROVE  \E x \in AllLinks(cache) : x.key = l[i].ident
    <3>1. Holds(l, l[i]) BY DEF Holds
    <3>2. PICK x \in AllLinks(cache) : l[i] = InfoOf(x) BY <3>1, <2>4
    <3>3. l[i].ident = x.key BY <3>2 DEF InfoOf
    <3> QED BY <3>3
  <2> QED BY <2>1, <2>2, <2>3, <2>5, <2>6 DEF TableMatchesPolicy, l
<1> QED BY <1>1, InvAlways, PTL

(* The count of the cache, the count of the policy and the sum of the      *)
(* stored sizes never drift apart, and stay within maxmem.                 *)
THEOREM SpaceNeverDrifts == Spec => []SpaceInv
<1>1. Inv => SpaceInv
  BY DEF Inv, SpaceInv, CacheInv, Consistent, Counted, PolicyInv
<1> QED BY <1>1, InvAlways, PTL

(* The assertion in create_info never fails: what cache_set evicts is      *)
(* always enough for the value it then adds.                               *)
THEOREM AssertionNeverFails == Spec => []NeverAborts
<1>1. Inv => NeverAborts
  BY DEF Inv, NeverAborts, CacheInv, Consistent, PolicyInv, PolicyValue
<1> QED BY <1>1, InvAlways, PTL

(* One doubling of the table per cache_set keeps it at most half full.     *)
THEOREM TableStaysUncrowded == Spec => []LoadFactor
<1>1. Inv => LoadFactor BY DEF Inv, LoadFactor, CacheInv, Uncrowded
<1> QED BY <1>1, InvAlways, PTL
-----------------------------------------------------------------------------
(* The refinement: a cache value as the entries of LruCache.               *)
Entry == [key : Keys, val : Vals]

EntryFor(x) == [key |-> x.key, val |-> x.val]

EntriesOf(c) ==
  [i \in 1..Len(c.evic_policy.list) |->
     [key |-> c.evic_policy.list[i].ident,
      val |-> querry_hash(c, c.evic_policy.list[i].ident).val]]

(* Every value is stored with its own size.                                *)
Sized(c) == \A x \in AllLinks(c) : x.val_size = SizeOf[x.val]

(* es lists the entries of the infos l.                                    *)
Lists(es, l) ==
  /\ es \in Seq(Entry) /\ l \in Seq(Info) /\ Len(es) = Len(l)
  /\ \A i \in 1..Len(l) : /\ es[i].key = l[i].ident
                           /\ SizeOf[es[i].val] = l[i].val_size

(* The ith entry is that of the link that the ith info stands for.         *)
LEMMA EntriesAreLinks ==
  ASSUME NEW c, CacheInv(c)
  PROVE  /\ EntriesOf(c) \in Seq(Entry) /\ c.evic_policy.list \in Seq(Info)
         /\ Len(EntriesOf(c)) = Len(c.evic_policy.list)
         /\ \A i \in 1..Len(c.evic_policy.list) :
              \E x \in AllLinks(c) : /\ c.evic_policy.list[i] = InfoOf(x)
                                     /\ EntriesOf(c)[i] = EntryFor(x)
<1> DEFINE l == c.evic_policy.list
           e == EntriesOf(c)
<1>1. l \in Seq(Info) /\ Len(l) \in Nat
  BY LenProperties DEF CacheInv, Consistent, PolicyInv, PolicyValue
<1>2. AllLinks(c) \subseteq Link BY LinksAreInBuckets DEF CacheInv, Consistent
<1>3. ASSUME NEW i \in 1..Len(l)
      PROVE  \E x \in AllLinks(c) : l[i] = InfoOf(x) /\ e[i] = EntryFor(x)
  <2>1. Holds(l, l[i]) BY DEF Holds
  <2>2. PICK x \in AllLinks(c) : l[i] = InfoOf(x)
    BY <2>1 DEF CacheInv, Consistent, SameEntries
  <2>3. l[i].ident = x.key /\ x.key \in Keys BY <2>2, <1>2 DEF InfoOf, Link
  <2>4. querry_hash(c, x.key) = x
    <3>1. querry_hash(c, x.key) \in AllLinks(c) /\ querry_hash(c, x.key).key = x.key
      BY <2>3, QuerryHash
    <3> QED BY <3>1 DEF CacheInv, Consistent, DistinctKeys
  <2>5. e[i] = [key |-> x.key, val |-> x.val]
    <3> HIDE DEF l
    <3>1. e[i] = [key |-> l[i].ident, val |-> querry_hash(c, l[i].ident).val]
      BY DEF EntriesOf, l
    <3> QED BY <3>1, <2>3, <2>4
  <2> QED BY <2>2, <2>5 DEF EntryFor
<1>4. e \in [1..Len(l) -> Entry]
  <2>1. \A x \in AllLinks(c) : EntryFor(x) \in Entry
    BY <1>2 DEF EntryFor, Entry, Link
  <2>2. \A i \in 1..Len(l) : e[i] \in Entry BY <2>1, <1>3
  <2>3. e = [i \in 1..Len(l) |-> e[i]] BY DEF EntriesOf
  <2> HIDE DEF e, l
  <2> QED BY <2>2, <2>3
<1>5. e \in Seq(Entry) /\ Len(e) = Len(l)
  <2> HIDE DEF e, l
  <2> QED BY <1>1, <1>4, LenProperties
<1> QED BY <1>1, <1>3, <1>5

LEMMA EntriesListed ==
  ASSUME NEW c, CacheInv(c), Sized(c)
  PROVE  Lists(EntriesOf(c), c.evic_policy.list)
<1> DEFINE l == c.evic_policy.list
           e == EntriesOf(c)
<1>1. /\ e \in Seq(Entry) /\ l \in Seq(Info) /\ Len(e) = Len(l)
      /\ \A i \in 1..Len(l) :
           \E x \in AllLinks(c) : l[i] = InfoOf(x) /\ e[i] = EntryFor(x)
  BY EntriesAreLinks
<1> HIDE DEF l, e
<1>2. ASSUME NEW i \in 1..Len(l)
      PROVE  e[i].key = l[i].ident /\ SizeOf[e[i].val] = l[i].val_size
  <2>1. PICK x \in AllLinks(c) : l[i] = InfoOf(x) /\ e[i] = EntryFor(x) BY <1>1
  <2>2. l[i].ident = x.key /\ l[i].val_size = x.val_size BY <2>1 DEF InfoOf
  <2>3. e[i].key = x.key /\ e[i].val = x.val BY <2>1 DEF EntryFor
  <2> QED BY <2>2, <2>3 DEF Sized
<1> QED BY <1>1, <1>2 DEF Lists, l, e

(* An info that two caches share, the links of one among those of the      *)
(* other, has the same entry in both.                                      *)
LEMMA SameEntry ==
  ASSUME NEW c, CacheInv(c), NEW d, CacheInv(d),
         AllLinks(d) \subseteq AllLinks(c),
         NEW i \in 1..Len(c.evic_policy.list), NEW j \in 1..Len(d.evic_policy.list),
         c.evic_policy.list[i] = d.evic_policy.list[j]
  PROVE  EntriesOf(c)[i] = EntriesOf(d)[j]
<1>1. PICK x \in AllLinks(c) : c.evic_policy.list[i] = InfoOf(x)
                               /\ EntriesOf(c)[i] = EntryFor(x)
  BY EntriesAreLinks
<1>2. PICK y \in AllLinks(d) : d.evic_policy.list[j] = InfoOf(y)
                               /\ EntriesOf(d)[j] = EntryFor(y)
  BY EntriesAreLinks
<1>3. x.key = y.key
  <2>1. InfoOf(x) = InfoOf(y) BY <1>1, <1>2
  <2>2. InfoOf(x).ident = x.key /\ InfoOf(y).ident = y.key BY DEF InfoOf
  <2> QED BY <2>1, <2>2
<1>4. x = y BY <1>3 DEF CacheInv, Consistent, DistinctKeys
<1> QED BY <1>1, <1>2, <1>4

(* Others is the removal of one position, as Without of LruPolicy is.      *)
LEMMA OthersNamed ==
  ASSUME NEW es, NEW l, Lists(es, l), DistinctIdents(l), NEW key
  PROVE  /\ ~Named(l, key) => Promise!Others(es, key) = es
         /\ Named(l, key) =>
              Promise!Others(es, key)
                = [i \in 1..(Len(l) - 1) |->
                     IF i < PositionOf(l, key) THEN es[i] ELSE es[i+1]]
<1> DEFINE n == Len(l)
           p == PositionOf(l, key)
           q == CHOOSE i \in 1..Len(es) : es[i].key = key
           a == SubSeq(es, 1, p - 1)
           b == SubSeq(es, p + 1, n)
<1>1. /\ es \in Seq(Entry) /\ Len(es) = n /\ n \in Nat
      /\ \A i \in 1..n : es[i].key = l[i].ident
  BY LenProperties DEF Lists
<1>2. Promise!Others(es, key) = IF \A i \in 1..Len(es) : es[i].key # key THEN es
                                ELSE SubSeq(es, 1, q - 1) \o SubSeq(es, q + 1, Len(es))
  BY DEF Promise!Others
<1>3. CASE ~Named(l, key)
  <2>1. \A i \in 1..Len(es) : es[i].key # key BY <1>1, <1>3 DEF Named
  <2> QED BY <2>1, <1>2, <1>3
<1>4. CASE Named(l, key)
  <2>1. p \in 1..n /\ l[p].ident = key BY <1>4, PositionNamed
  <2>2. \E i \in 1..Len(es) : es[i].key = key BY <2>1, <1>1
  <2>3. q \in 1..Len(es) /\ es[q].key = key BY <2>2
  <2> HIDE DEF p, q
  <2>4. q = p BY <2>1, <2>3, <1>1 DEF DistinctIdents
  <2>5. Promise!Others(es, key) = a \o b BY <2>2, <2>4, <1>1, <1>2
  <2>6. /\ a \in Seq(Entry) /\ Len(a) = p - 1
        /\ \A i \in 1..(p - 1) : a[i] = es[i]
    <3>1. \A i \in 1..(p - 1) : es[i] \in Entry BY <2>1, <1>1, ElementOfSeq
    <3>2. /\ a \in Seq(Entry) /\ Len(a) = IF 1 <= p - 1 THEN (p - 1) - 1 + 1 ELSE 0
          /\ \A i \in 1..((p - 1) - 1 + 1) : a[i] = es[1 + i - 1]
      BY <3>1, <2>1, SubSeqProperties
    <3> HIDE DEF a
    <3>3. ASSUME NEW i \in 1..(p - 1) PROVE a[i] = es[i]
      <4>1. i \in 1..((p - 1) - 1 + 1) /\ 1 + i - 1 = i BY <2>1
      <4> QED BY <4>1, <3>2
    <3> QED BY <3>2, <3>3, <2>1
  <2>7. /\ b \in Seq(Entry) /\ Len(b) = n - p
        /\ \A i \in 1..(n - p) : b[i] = es[p + i]
    <3>1. \A i \in (p + 1)..n : es[i] \in Entry BY <2>1, <1>1, ElementOfSeq
    <3>2. /\ b \in Seq(Entry) /\ Len(b) = IF p + 1 <= n THEN n - (p + 1) + 1 ELSE 0
          /\ \A i \in 1..(n - (p + 1) + 1) : b[i] = es[(p + 1) + i - 1]
      BY <3>1, <2>1, <1>1, SubSeqProperties
    <3> HIDE DEF b
    <3>3. ASSUME NEW i \in 1..(n - p) PROVE b[i] = es[p + i]
      <4>1. i \in 1..(n - (p + 1) + 1) /\ (p + 1) + i - 1 = p + i BY <2>1, <1>1
      <4> QED BY <4>1, <3>2
    <3> QED BY <3>2, <3>3, <2>1, <1>1
  <2> HIDE DEF a, b
  <2>8. /\ a \o b \in Seq(Entry) /\ Len(a \o b) = n - 1
        /\ \A i \in 1..(n - 1) :
             (a \o b)[i] = IF i <= p - 1 THEN a[i] ELSE b[i - (p - 1)]
    <3>1. /\ a \o b \in Seq(Entry) /\ Len(a \o b) = Len(a) + Len(b)
          /\ \A i \in 1..(Len(a) + Len(b)) :
               (a \o b)[i] = IF i <= Len(a) THEN a[i] ELSE b[i - Len(a)]
      BY <2>6, <2>7, ConcatProperties
    <3>2. Len(a) + Len(b) = n - 1 BY <2>1, <2>6, <2>7, <1>1
    <3> QED BY <3>1, <3>2, <2>6
  <2>9. ASSUME NEW i \in 1..(n - 1)
        PROVE  (a \o b)[i] = IF i < p THEN es[i] ELSE es[i+1]
    <3>1. CASE i < p BY <3>1, <2>1, <2>6, <2>8
    <3>2. CASE ~(i < p)
      <4>1. i - (p - 1) \in 1..(n - p) /\ p + (i - (p - 1)) = i + 1 /\ ~(i <= p - 1)
        BY <3>2, <2>1, <1>1
      <4> QED BY <4>1, <3>2, <2>7, <2>8
    <3> QED BY <3>1, <3>2
  <2>10. a \o b = [i \in 1..(n - 1) |-> (a \o b)[i]]
    <3> DEFINE ab == a \o b
    <3>1. ab \in Seq(Entry) /\ Len(ab) = n - 1 BY <2>8
    <3> HIDE DEF ab
    <3>2. ab = [i \in 1..(n - 1) |-> ab[i]] BY <3>1, LenProperties
    <3> QED BY <3>2 DEF ab
  <2> QED BY <2>5, <2>9, <2>10, <1>4 DEF p
<1> QED BY <1>3, <1>4

(* The memory of the entries is the total of the infos.                    *)
LEMMA MemoryIsTotal ==
  ASSUME NEW es, NEW l, Lists(es, l)
  PROVE  Promise!Memory(es) = Total(l)
<1> DEFINE n == Len(l)
           f == RunningTotal(l)
           step(g, i) == IF i = 0 THEN 0 ELSE g[i-1] + SizeOf[es[i].val]
           w == [i \in 0..n |-> f[i]]
           mem == CHOOSE g : g = [i \in 0..n |-> step(g, i)]
<1>1. n \in Nat /\ Len(es) = n /\ \A i \in 1..n : SizeOf[es[i].val] = l[i].val_size
  BY LenProperties DEF Lists
<1>2. /\ f[0] = 0
      /\ \A i \in 1..n : f[i] = f[i-1] + l[i].val_size
  BY RunningTotalSums DEF Lists, IsRunningTotal
<1>3. Promise!MemoryUpTo(es) = mem BY <1>1 DEF Promise!MemoryUpTo
<1> HIDE DEF f
<1>4. \A i \in 0..n : w[i] = step(w, i)
  <2> TAKE i \in 0..n
  <2>1. CASE i = 0 BY <2>1, <1>2
  <2>2. CASE i # 0
    <3>1. i \in 1..n /\ i - 1 \in 0..n BY <2>2, <1>1
    <3> QED BY <3>1, <2>2, <1>1, <1>2
  <2> QED BY <2>1, <2>2
<1>5. w = [i \in 0..n |-> step(w, i)] BY <1>4
<1>6. mem = [i \in 0..n |-> step(mem, i)]
  <2> HIDE DEF w, step
  <2> QED BY <1>5, Zenon
<1>7. \A i \in 0..n : mem[i] = step(mem, i)
  <2> HIDE DEF mem, step
  <2> QED BY <1>6, Zenon
<1> HIDE DEF mem, w
<1> DEFINE S == {i \in 0..n : mem[i] = w[i]}
<1>8. 0 \in S BY <1>1, <1>4, <1>7
<1>9. \A i \in 0..n : i # n /\ i \in S => i + 1 \in S
  <2> SUFFICES ASSUME NEW i \in 0..n, i # n, i \in S PROVE i + 1 \in S OBVIOUS
  <2>1. i + 1 \in 0..n /\ i + 1 # 0 /\ (i + 1) - 1 = i BY <1>1
  <2>2. mem[i] = w[i] OBVIOUS
  <2>3. step(mem, i + 1) = step(w, i + 1) BY <2>1, <2>2
  <2> QED BY <2>1, <2>3, <1>4, <1>7
<1>10. \A i \in 0..n : i \in S
  <2> HIDE DEF S
  <2> QED BY <1>1, <1>8, <1>9, UpTo
<1>11. mem[n] = f[n] BY <1>1, <1>10 DEF w
<1> QED BY <1>1, <1>3, <1>11 DEF Promise!Memory, Total, f

(* What is left of a total without its first i - 1 sizes.                  *)
LEMMA TotalOfSuffix ==
  ASSUME NEW l \in Seq(Info), NEW i \in 1..(Len(l) + 1)
  PROVE  /\ SubSeq(l, i, Len(l)) \in Seq(Info)
         /\ Len(SubSeq(l, i, Len(l))) = Len(l) - i + 1
         /\ \A j \in 1..(Len(l) - i + 1) : SubSeq(l, i, Len(l))[j] = l[i - 1 + j]
         /\ Total(SubSeq(l, i, Len(l))) = Total(l) - RunningTotal(l)[i - 1]
<1> DEFINE n == Len(l)
           s == SubSeq(l, i, n)
           m == n - i + 1
           f == RunningTotal(l)
           g == [j \in 0..m |-> f[i - 1 + j] - f[i - 1]]
<1>1. n \in Nat /\ m \in Nat /\ i \in Nat \ {0} BY LenProperties
<1>2. /\ s \in Seq(Info) /\ Len(s) = m
      /\ \A j \in 1..m : s[j] = l[i - 1 + j]
  <2>1. \A j \in i..n : l[j] \in Info BY <1>1, ElementOfSeq
  <2>2. /\ s \in Seq(Info) /\ Len(s) = IF i <= n THEN n - i + 1 ELSE 0
        /\ \A j \in 1..(n - i + 1) : s[j] = l[i + j - 1]
    BY <2>1, <1>1, SubSeqProperties
  <2> HIDE DEF s
  <2>3. \A j \in 1..m : i + j - 1 = i - 1 + j BY <1>1
  <2> QED BY <2>2, <2>3, <1>1
<1>3. IsRunningTotal(f, l, n) /\ \A j \in 0..n : f[j] \in Nat
  BY RunningTotalSums
<1>4. IsRunningTotal(RunningTotal(s), s, m)
  <2> HIDE DEF s
  <2> QED BY <1>2, RunningTotalSums
<1> HIDE DEF s, f, n
<1>5. \A j \in 0..m : i - 1 + j \in 0..n BY <1>1
<1>6. IsRunningTotal(g, s, m)
  <2>1. \A j \in 0..m : g[j] \in Int BY <1>3, <1>5, <1>1
  <2>2. g[0] = 0 BY <1>1, <1>3, <1>5
  <2>3. ASSUME NEW j \in 1..m PROVE g[j] = g[j - 1] + s[j].val_size
    <3>1. /\ j \in 0..m /\ j - 1 \in 0..m /\ i - 1 + j \in 1..n
          /\ (i - 1 + j) - 1 = i - 1 + (j - 1) /\ i - 1 \in 0..n
      BY <1>1
    <3>2. f[i - 1 + j] = f[i - 1 + (j - 1)] + l[i - 1 + j].val_size
      BY <3>1, <1>3 DEF IsRunningTotal
    <3>3. f[i - 1 + j] \in Nat /\ f[i - 1 + (j - 1)] \in Nat /\ f[i - 1] \in Nat
      BY <3>1, <1>3, <1>5
    <3>4. l[i - 1 + j].val_size \in Nat BY <3>1, RunningTotalSums DEF n
    <3>5. s[j] = l[i - 1 + j] BY <1>2
    <3>6. g[j] = f[i - 1 + j] - f[i - 1] /\ g[j - 1] = f[i - 1 + (j - 1)] - f[i - 1]
      BY <3>1
    <3> HIDE DEF g
    <3> QED BY <3>2, <3>3, <3>4, <3>5, <3>6, SMTT(30)
  <2> HIDE DEF g
  <2> QED BY <2>1, <2>2, <2>3 DEF IsRunningTotal
<1>7. RunningTotal(s)[m] = g[m]
  <2> HIDE DEF g, m
  <2> QED BY <1>1, <1>4, <1>6, SameSums
<1>8. g[m] = f[n] - f[i - 1]
  <2>1. m \in 0..m /\ i - 1 + m = n BY <1>1
  <2> QED BY <2>1
<1> QED BY <1>2, <1>7, <1>8 DEF Total, s, f, n

(* The entries that survive are those that num_to_delete leaves.           *)
LEMMA SurvivorsAreLeft ==
  ASSUME NEW es, NEW p, PolicyInv(p), Lists(es, p.list),
         NEW size \in Nat, size <= p.maxmem
  PROVE  Promise!Survivors(es, size, p.maxmem)
           = SubSeq(es, num_to_delete(p, size) + 1, Len(es))
<1> DEFINE l == p.list
           n == Len(l)
           f == RunningTotal(l)
           k == num_to_delete(p, size)
           fits(i) == Promise!Memory(SubSeq(es, i, Len(es))) + size <= p.maxmem
           First(i) == fits(i) /\ \A j \in 1..(i-1) : ~fits(j)
           first == CHOOSE i \in 1..(Len(es) + 1) : First(i)
<1>1. /\ l \in Seq(Info) /\ n \in Nat /\ es \in Seq(Entry) /\ Len(es) = n
      /\ p.used_mem = Total(l) /\ p.used_mem \in Nat /\ p.maxmem \in Nat
  BY LenProperties DEF PolicyInv, PolicyValue, Lists
<1>2. \A i \in 0..n : f[i] \in Nat BY <1>1, RunningTotalSums
<1>3. /\ k \in 0..n /\ p.used_mem + size - f[k] <= p.maxmem
      /\ \A m \in 0..(k - 1) : p.used_mem + size - f[m] > p.maxmem
  BY NumToDelete
<1>4. ASSUME NEW i \in 1..(n + 1)
      PROVE  Promise!Memory(SubSeq(es, i, n)) = p.used_mem - f[i - 1]
  <2> DEFINE m == n - i + 1
             t == SubSeq(es, i, n)
             s == SubSeq(l, i, n)
  <2>1. /\ s \in Seq(Info) /\ Len(s) = m
        /\ \A j \in 1..m : s[j] = l[i - 1 + j]
        /\ Total(s) = Total(l) - f[i - 1]
    <3> HIDE DEF l
    <3> QED BY <1>1, TotalOfSuffix
  <2>2. /\ t \in Seq(Entry) /\ Len(t) = m
        /\ \A j \in 1..m : t[j] = es[i - 1 + j]
    <3>1. \A j \in i..n : es[j] \in Entry BY <1>1, ElementOfSeq
    <3>2. /\ t \in Seq(Entry) /\ Len(t) = IF i <= n THEN n - i + 1 ELSE 0
          /\ \A j \in 1..(n - i + 1) : t[j] = es[i + j - 1]
      BY <3>1, <1>1, SubSeqProperties
    <3> HIDE DEF t
    <3>3. \A j \in 1..m : i + j - 1 = i - 1 + j BY <1>1
    <3> QED BY <3>2, <3>3, <1>1
  <2> HIDE DEF s, t
  <2>3. Lists(t, s)
    <3>1. ASSUME NEW j \in 1..m
          PROVE  t[j].key = s[j].ident /\ SizeOf[t[j].val] = s[j].val_size
      <4>1. i - 1 + j \in 1..n BY <1>1
      <4> QED BY <4>1, <2>1, <2>2 DEF Lists
    <3> HIDE DEF m
    <3> QED BY <3>1, <2>1, <2>2 DEF Lists
  <2>4. Promise!Memory(t) = Total(s) BY <2>3, MemoryIsTotal
  <2> QED BY <2>1, <2>4, <1>1 DEF t
<1> HIDE DEF l, f, k
<1>5. ASSUME NEW i \in 1..(n + 1)
      PROVE  fits(i) <=> p.used_mem - f[i - 1] + size <= p.maxmem
  BY <1>1, <1>4
<1> HIDE DEF fits
<1>6. k + 1 \in 1..(n + 1) /\ First(k + 1)
  <2>1. k + 1 \in 1..(n + 1) /\ (k + 1) - 1 = k BY <1>1, <1>3
  <2>2. f[k] \in Nat BY <1>2, <1>3
  <2>3. fits(k + 1) BY <2>1, <2>2, <1>1, <1>3, <1>5
  <2>4. ASSUME NEW j \in 1..k PROVE ~fits(j)
    <3>1. j \in 1..(n + 1) /\ j - 1 \in 0..(k - 1) /\ j - 1 \in 0..n
      BY <1>1, <1>3
    <3>2. f[j - 1] \in Nat /\ p.used_mem + size - f[j - 1] > p.maxmem
      BY <3>1, <1>2, <1>3
    <3> QED BY <3>1, <3>2, <1>1, <1>5
  <2> QED BY <2>1, <2>3, <2>4
<1>7. ASSUME NEW i \in 1..(n + 1), First(i) PROVE i = k + 1
  <2>1. k \in Nat BY <1>3
  <2>2. ~(i < k + 1) BY <2>1, <1>6, <1>7
  <2>3. ~(k + 1 < i) BY <2>1, <1>6, <1>7
  <2> QED BY <2>1, <2>2, <2>3
<1> HIDE DEF First
<1>8. first \in 1..(n + 1) /\ First(first) BY <1>1, <1>6
<1>9. first = k + 1 BY <1>7, <1>8
<1>10. Promise!Survivors(es, size, p.maxmem) = SubSeq(es, first, Len(es))
  BY DEF Promise!Survivors, first, First, fits
<1> HIDE DEF first
<1> QED BY <1>9, <1>10 DEF k

(* cache_delete removes the entry of its key.                              *)
LEMMA DeleteRemovesEntry ==
  ASSUME NEW c, CacheInv(c), Sized(c), NEW key \in Keys
  PROVE  /\ Sized(cache_delete(c, key))
         /\ EntriesOf(cache_delete(c, key)) = Promise!Others(EntriesOf(c), key)
<1> DEFINE l == c.evic_policy.list
           d == cache_delete(c, key)
           p == PositionOf(l, key)
<1>1. /\ CacheInv(d) /\ AllLinks(d) = {x \in AllLinks(c) : x.key # key}
      /\ Named(l, key) => d.evic_policy = delete_info(c.evic_policy, key)
      /\ ~Named(l, key) => d = c
  BY CacheDeleteKeeps
<1>2. Sized(d) BY <1>1 DEF Sized
<1>3. Lists(EntriesOf(c), l) /\ DistinctIdents(l) /\ PolicyInv(c.evic_policy)
  BY EntriesListed DEF CacheInv, Consistent, PolicyInv
<1>4. CASE ~Named(l, key) BY <1>1, <1>2, <1>3, <1>4, OthersNamed
<1>5. CASE Named(l, key)
  <2>1. d.evic_policy.list = Without(l, key)
    BY <1>1, <1>3, <1>5, DeleteInfo
  <2>2. p \in 1..Len(l) /\ Len(l) \in Nat
    BY <1>3, <1>5, PositionNamed, LenProperties DEF Lists
  <2> HIDE DEF l, d, p
  <2>3. /\ Len(Without(l, key)) = Len(l) - 1
        /\ Without(l, key) = [i \in 1..(Len(l) - 1) |-> IF i < p THEN l[i] ELSE l[i+1]]
    <3>1. l \in Seq(Info) BY <1>3 DEF Lists
    <3> QED BY <3>1, <1>3, <1>5, WithoutNamed DEF Without, p
  <2>4. ASSUME NEW i \in 1..(Len(l) - 1)
        PROVE  EntriesOf(d)[i] = IF i < p THEN EntriesOf(c)[i] ELSE EntriesOf(c)[i+1]
    <3> DEFINE j == IF i < p THEN i ELSE i + 1
    <3>1. j \in 1..Len(l) /\ d.evic_policy.list[i] = l[j]
          /\ i \in 1..Len(d.evic_policy.list)
      BY <2>1, <2>2, <2>3
    <3>2. AllLinks(d) \subseteq AllLinks(c) BY <1>1
    <3> HIDE DEF j
    <3>3. EntriesOf(c)[j] = EntriesOf(d)[i] BY <3>1, <3>2, <1>1, SameEntry DEF l
    <3> QED BY <3>3 DEF j
  <2>5. EntriesOf(d) = [i \in 1..(Len(l) - 1) |-> EntriesOf(d)[i]]
    BY <2>1, <2>3 DEF EntriesOf
  <2>6. Promise!Others(EntriesOf(c), key)
          = [i \in 1..(Len(l) - 1) |->
               IF i < p THEN EntriesOf(c)[i] ELSE EntriesOf(c)[i+1]]
    BY <1>3, <1>5, OthersNamed DEF p
  <2> QED BY <2>4, <2>5, <2>6, <1>2 DEF d
<1> QED BY <1>4, <1>5

(* cache_get moves the entry it finds to the most recently used end.       *)
LEMMA GetMovesEntry ==
  ASSUME NEW c, CacheInv(c), Sized(c), NEW key \in Keys
  PROVE  /\ Sized(cache_get(c, key))
         /\ \/ /\ \A i \in 1..Len(EntriesOf(c)) : EntriesOf(c)[i].key # key
               /\ cache_get(c, key) = c
               /\ GottenValue(c, key) = [val |-> NULL, val_size |-> 0]
            \/ \E i \in 1..Len(EntriesOf(c)) :
                 /\ EntriesOf(c)[i].key = key
                 /\ EntriesOf(cache_get(c, key))
                      = Append(Promise!Others(EntriesOf(c), key), EntriesOf(c)[i])
                 /\ GottenValue(c, key)
                      = [val |-> EntriesOf(c)[i].val,
                         val_size |-> SizeOf[EntriesOf(c)[i].val]]
<1> DEFINE l == c.evic_policy.list
           d == cache_get(c, key)
           e == EntriesOf(c)
           n == Len(l)
           q == querry_hash(c, key)
<1>1. CacheInv(d) /\ AllLinks(d) = AllLinks(c) BY CacheGetKeeps
<1>2. Sized(d) BY <1>1 DEF Sized
<1>3. Lists(e, l) /\ DistinctIdents(l) /\ PolicyInv(c.evic_policy)
  BY EntriesListed DEF CacheInv, Consistent, PolicyInv
<1>4. e \in Seq(Entry) /\ l \in Seq(Info) /\ Len(e) = n /\ n \in Nat
      /\ \A i \in 1..n : e[i].key = l[i].ident
  BY <1>3, LenProperties DEF Lists
<1>5. \A i \in 1..n : \E x \in AllLinks(c) : l[i] = InfoOf(x) /\ e[i] = EntryFor(x)
  BY EntriesAreLinks
<1>6. CASE q = NULL
  <2>1. \A x \in AllLinks(c) : x.key # key BY <1>6, QuerryHash
  <2> HIDE DEF e, l
  <2>2. ASSUME NEW i \in 1..n PROVE e[i].key # key
    <3>1. PICK x \in AllLinks(c) : e[i] = EntryFor(x) BY <1>5
    <3>2. e[i].key = x.key BY <3>1 DEF EntryFor
    <3> QED BY <3>2, <2>1
  <2>3. cache_get(c, key) = c /\ GottenValue(c, key) = [val |-> NULL, val_size |-> 0]
    BY <1>6 DEF cache_get, GottenValue
  <2> QED BY <2>2, <2>3, <1>2, <1>4 DEF e
<1>7. CASE q # NULL
  <2>1. q \in AllLinks(c) /\ q.key = key BY <1>7, QuerryHash
  <2>2. PICK i \in 1..n : l[i] = InfoOf(q)
    <3>1. Holds(l, InfoOf(q)) BY <2>1 DEF CacheInv, Consistent, SameEntries
    <3> QED BY <3>1 DEF Holds
  <2>3. l[i].ident = key /\ e[i].key = key
    BY <2>1, <2>2, <1>4 DEF InfoOf
  <2>4. e[i] = EntryFor(q)
    <3>1. PICK x \in AllLinks(c) : l[i] = InfoOf(x) /\ e[i] = EntryFor(x) BY <1>5
    <3>2. x.key = key BY <3>1, <2>3 DEF EntryFor
    <3>3. x = q BY <3>2, <2>1 DEF CacheInv, Consistent, DistinctKeys
    <3> QED BY <3>1, <3>3
  <2>5. GottenValue(c, key) = [val |-> e[i].val, val_size |-> SizeOf[e[i].val]]
    <3>1. GottenValue(c, key) = [val |-> q.val, val_size |-> q.val_size]
      BY <1>7 DEF GottenValue
    <3>2. e[i].val = q.val BY <2>4 DEF EntryFor
    <3>3. q.val_size = SizeOf[q.val] BY <2>1 DEF Sized
    <3> QED BY <3>1, <3>2, <3>3
  <2>6. Named(l, key) /\ PositionOf(l, key) = i
    <3>1. Named(l, key) BY <2>3 DEF Named
    <3>2. PositionOf(l, key) \in 1..n /\ l[PositionOf(l, key)].ident = key
      BY <3>1, PositionNamed
    <3> QED BY <3>1, <3>2, <2>3, <1>3 DEF DistinctIdents
  <2>7. d.evic_policy.list = Append(Without(l, key), l[i])
    <3>1. d = [c EXCEPT !.evic_policy = info_gotten(c.evic_policy, key)]
      BY <1>7, <2>1 DEF cache_get, CacheInv, Consistent, Shaped, CacheValue
    <3>2. c \in CacheValue BY DEF CacheInv, Consistent, Shaped
    <3>3. d.evic_policy = info_gotten(c.evic_policy, key)
      <4> HIDE DEF d
      <4> QED BY <3>1, <3>2 DEF CacheValue
    <3>4. c.evic_policy \in PolicyValue BY <1>3 DEF PolicyInv
    <3>5. info_gotten(c.evic_policy, key).list = Append(Without(l, key), l[i])
      BY <3>4, <2>6 DEF info_gotten, PolicyValue
    <3> QED BY <3>3, <3>5
  <2> DEFINE w == Without(l, key)
             o == Promise!Others(e, key)
  <2>8. /\ w \in Seq(Info) /\ Len(w) = n - 1
        /\ w = [j \in 1..(n - 1) |-> IF j < i THEN l[j] ELSE l[j+1]]
    <3> HIDE DEF l
    <3> QED BY <1>3, <1>4, <2>6, WithoutNamed DEF Without
  <2>9. o = [j \in 1..(n - 1) |-> IF j < i THEN e[j] ELSE e[j+1]]
    <3> HIDE DEF l, e
    <3> QED BY <1>3, <2>6, OthersNamed
  <2> HIDE DEF l, e, d, w, o, q
  <2>10. /\ Len(d.evic_policy.list) = n /\ d.evic_policy.list[n] = l[i]
         /\ \A j \in 1..(n - 1) : d.evic_policy.list[j] = w[j]
    <3>1. l[i] \in Info BY <1>4, ElementOfSeq
    <3>2. /\ Len(Append(w, l[i])) = (n - 1) + 1 /\ Append(w, l[i])[(n - 1) + 1] = l[i]
          /\ \A j \in 1..(n - 1) : Append(w, l[i])[j] = w[j]
      BY <3>1, <2>8, AppendProperties
    <3>3. (n - 1) + 1 = n BY <1>4
    <3> QED BY <3>2, <3>3, <2>7 DEF w
  <2>11. ASSUME NEW j \in 1..(n - 1)
         PROVE  EntriesOf(d)[j] = IF j < i THEN e[j] ELSE e[j+1]
    <3> DEFINE m == IF j < i THEN j ELSE j + 1
    <3>1. m \in 1..n /\ d.evic_policy.list[j] = l[m]
          /\ j \in 1..Len(d.evic_policy.list)
      BY <2>8, <2>10, <1>4
    <3> HIDE DEF m
    <3>2. e[m] = EntriesOf(d)[j] BY <3>1, <1>1, SameEntry DEF l, e
    <3> QED BY <3>2 DEF m
  <2>12. EntriesOf(d)[n] = e[i]
    <3>1. n \in 1..Len(d.evic_policy.list) BY <2>10, <1>4
    <3> QED BY <3>1, <2>10, <1>1, SameEntry, SMTT(30) DEF l, e
  <2>13. EntriesOf(d) = Append(o, e[i])
    <3>1. o \in Seq(Entry) /\ Len(o) = n - 1
      <4>1. \A j \in 1..n : e[j] \in Entry BY <1>4, ElementOfSeq
      <4>2. o \in [1..(n - 1) -> Entry] BY <4>1, <2>9, <1>4
      <4>3. n - 1 \in Nat BY <1>4
      <4> QED BY <4>2, <4>3, LenProperties
    <3>2. e[i] \in Entry BY <1>4, ElementOfSeq
    <3>3. /\ Append(o, e[i]) \in Seq(Entry)
          /\ Len(Append(o, e[i])) = (n - 1) + 1 /\ Append(o, e[i])[(n - 1) + 1] = e[i]
          /\ \A j \in 1..(n - 1) : Append(o, e[i])[j] = o[j]
      BY <3>1, <3>2, AppendProperties
    <3>4. (n - 1) + 1 = n BY <1>4
    <3>5. EntriesOf(d) \in Seq(Entry) /\ Len(EntriesOf(d)) = n
      BY <1>1, <2>10, EntriesAreLinks
    <3>6. ASSUME NEW j \in 1..n PROVE EntriesOf(d)[j] = Append(o, e[i])[j]
      <4>1. CASE j = n BY <4>1, <3>3, <3>4, <2>12
      <4>2. CASE j # n
        <5>1. j \in 1..(n - 1) BY <4>2, <1>4
        <5> QED BY <5>1, <3>3, <2>9, <2>11
      <4> QED BY <4>1, <4>2
    <3> DEFINE a == Append(o, e[i])
               b == EntriesOf(d)
    <3>7. /\ a \in Seq(Entry) /\ b \in Seq(Entry) /\ Len(b) = Len(a)
          /\ \A j \in 1..Len(b) : b[j] = a[j]
      BY <3>3, <3>4, <3>5, <3>6
    <3> HIDE DEF a, b
    <3>8. b = a BY <3>7, SeqEqual
    <3> QED BY <3>8 DEF a, b
  <2> QED BY <2>3, <2>5, <2>13, <1>2, <1>4 DEF d, o, e
<1> QED BY <1>6, <1>7

(* add_to_cache appends the entry it adds.                                 *)
LEMMA AddAppendsEntry ==
  ASSUME NEW c, CacheInv(c), Sized(c), NEW key \in Keys, NEW val \in Vals,
         \A x \in AllLinks(c) : x.key # key,
         c.mem_used + SizeOf[val] <= c.maxmem
  PROVE  /\ Sized(add_to_cache(c, key, val, SizeOf[val]))
         /\ EntriesOf(add_to_cache(c, key, val, SizeOf[val]))
              = Append(EntriesOf(c), [key |-> key, val |-> val])
<1> DEFINE size == SizeOf[val]
           l == c.evic_policy.list
           d == add_to_cache(c, key, val, size)
           new_item == [key |-> key, val |-> val, val_size |-> size]
           info == [ident |-> key, val_size |-> size]
           e == EntriesOf(c)
           n == Len(l)
           a == Append(e, [key |-> key, val |-> val])
<1>1. size \in Sizes BY SizeOfAssumption
<1>2. /\ CacheInv(d) /\ AllLinks(d) = AllLinks(c) \union {new_item}
      /\ d.evic_policy = create_info(c.evic_policy, key, size)
  BY <1>1, AddToCacheKeeps
<1>3. new_item.val_size = SizeOf[new_item.val] /\ new_item.key = key
      /\ EntryFor(new_item) = [key |-> key, val |-> val]
  BY DEF EntryFor
<1>4. /\ e \in Seq(Entry) /\ l \in Seq(Info) /\ Len(e) = n /\ n \in Nat
      /\ \A i \in 1..n :
           \E x \in AllLinks(c) : l[i] = InfoOf(x) /\ e[i] = EntryFor(x)
  BY EntriesAreLinks, LenProperties
<1>5. ~Named(l, key)
  <2> SUFFICES ASSUME NEW i \in 1..n, l[i].ident = key PROVE FALSE BY DEF Named
  <2>1. PICK x \in AllLinks(c) : l[i] = InfoOf(x) BY <1>4
  <2>2. x.key = key BY <2>1 DEF InfoOf
  <2> QED BY <2>2
<1>6. d.evic_policy.list = Append(l, info)
  <2>1. PolicyInv(c.evic_policy) /\ c.evic_policy.used_mem + size <= c.evic_policy.maxmem
    BY DEF CacheInv, Consistent, Counted
  <2> QED BY <2>1, <1>1, <1>2, <1>5, CreateInfo DEF Keys
<1>7. /\ Len(d.evic_policy.list) = n + 1 /\ d.evic_policy.list[n + 1] = info
      /\ \A i \in 1..n : d.evic_policy.list[i] = l[i]
  <2>1. info \in Info BY <1>1 DEF Info, Keys
  <2> HIDE DEF info, l
  <2> QED BY <2>1, <1>4, <1>6, AppendProperties
<1>8. /\ a \in Seq(Entry) /\ Len(a) = n + 1 /\ a[n + 1] = [key |-> key, val |-> val]
      /\ \A i \in 1..n : a[i] = e[i]
  <2>1. [key |-> key, val |-> val] \in Entry BY DEF Entry
  <2> HIDE DEF e
  <2> QED BY <2>1, <1>4, AppendProperties
<1>9. EntriesOf(d) \in Seq(Entry) /\ Len(EntriesOf(d)) = n + 1
  BY <1>2, <1>7, EntriesAreLinks
<1> HIDE DEF new_item, d, l, e, a, size
<1>10. Sized(d) BY <1>2, <1>3 DEF Sized
<1>11. ASSUME NEW i \in 1..(n + 1) PROVE EntriesOf(d)[i] = a[i]
  <2>1. CASE i = n + 1
    <3>1. PICK x \in AllLinks(d) : /\ d.evic_policy.list[n + 1] = InfoOf(x)
                                   /\ EntriesOf(d)[n + 1] = EntryFor(x)
      BY <1>2, <1>4, <1>7, EntriesAreLinks
    <3>2. x.key = key
      <4>1. InfoOf(x) = info BY <3>1, <1>7
      <4>2. InfoOf(x).ident = x.key BY DEF InfoOf
      <4> QED BY <4>1, <4>2
    <3>3. x = new_item BY <3>2, <1>2
    <3> QED BY <3>1, <3>3, <2>1, <1>3, <1>8
  <2>2. CASE i # n + 1
    <3>1. i \in 1..n /\ i \in 1..Len(d.evic_policy.list) BY <2>2, <1>4, <1>7
    <3>2. AllLinks(c) \subseteq AllLinks(d) BY <1>2
    <3>3. EntriesOf(d)[i] = e[i] BY <3>1, <3>2, <1>2, <1>7, SameEntry DEF l, e
    <3> QED BY <3>1, <3>3, <1>8
  <2> QED BY <2>1, <2>2
<1>12. EntriesOf(d) = a
  <2> DEFINE b == EntriesOf(d)
  <2>1. /\ a \in Seq(Entry) /\ b \in Seq(Entry) /\ Len(b) = Len(a)
        /\ \A j \in 1..Len(b) : b[j] = a[j]
    BY <1>8, <1>9, <1>11
  <2> HIDE DEF b
  <2>2. b = a BY <2>1, SeqEqual
  <2> QED BY <2>2 DEF b
<1> QED BY <1>10, <1>12 DEF d, a, e, size

(* The loop over the evicted idents leaves the most recently used entries. *)
LEMMA EvictionsLeaveEntries ==
  ASSUME NEW c, CacheInv(c), Sized(c), NEW k \in 0..Len(c.evic_policy.list)
  PROVE  LET d == DeleteIds(c, [i \in 1..k |-> c.evic_policy.list[i].ident])
         IN  /\ Sized(d)
             /\ EntriesOf(d) = SubSeq(EntriesOf(c), k + 1, Len(EntriesOf(c)))
<1> DEFINE l == c.evic_policy.list
           d == DeleteIds(c, [i \in 1..k |-> l[i].ident])
           e == EntriesOf(c)
           n == Len(l)
           s == SubSeq(e, k + 1, Len(e))
<1>1. /\ CacheInv(d) /\ AllLinks(d) \subseteq AllLinks(c)
      /\ d.evic_policy.list = [j \in 1..(n - k) |-> l[k + j]]
  BY DeleteIdsKeeps
<1>2. Sized(d) BY <1>1 DEF Sized
<1>3. e \in Seq(Entry) /\ Len(e) = n /\ n \in Nat
  BY EntriesAreLinks, LenProperties
<1>4. /\ EntriesOf(d) \in Seq(Entry) /\ d.evic_policy.list \in Seq(Info)
      /\ Len(EntriesOf(d)) = Len(d.evic_policy.list)
  BY <1>1, EntriesAreLinks
<1> HIDE DEF l, d, e
<1>5. Len(d.evic_policy.list) = n - k
  <2>1. DOMAIN d.evic_policy.list = 1..(n - k) BY <1>1
  <2>2. DOMAIN d.evic_policy.list = 1..Len(d.evic_policy.list)
        /\ Len(d.evic_policy.list) \in Nat
    BY <1>4, LenProperties
  <2>3. n - k \in Nat /\ k \in 0..n BY <1>3 DEF l, n
  <2> HIDE DEF n
  <2> QED BY <2>1, <2>2, <2>3
<1>6. k \in 0..n BY DEF l
<1>7. /\ s \in Seq(Entry) /\ Len(s) = n - k
      /\ \A j \in 1..(n - k) : s[j] = e[k + j]
  <2>1. \A j \in (k + 1)..n : e[j] \in Entry BY <1>3, <1>6, ElementOfSeq
  <2>2. /\ s \in Seq(Entry) /\ Len(s) = IF k + 1 <= n THEN n - (k + 1) + 1 ELSE 0
        /\ \A j \in 1..(n - (k + 1) + 1) : s[j] = e[(k + 1) + j - 1]
    BY <2>1, <1>3, <1>6, SubSeqProperties
  <2> HIDE DEF s
  <2>3. ASSUME NEW j \in 1..(n - k) PROVE s[j] = e[k + j]
    <3>1. j \in 1..(n - (k + 1) + 1) /\ (k + 1) + j - 1 = k + j BY <1>3, <1>6
    <3> QED BY <3>1, <2>2
  <2> QED BY <2>2, <2>3, <1>3, <1>6
<1>8. ASSUME NEW j \in 1..(n - k) PROVE EntriesOf(d)[j] = s[j]
  <2>1. /\ k + j \in 1..n /\ j \in 1..Len(d.evic_policy.list)
        /\ l[k + j] = d.evic_policy.list[j]
    BY <1>1, <1>3, <1>5, <1>6
  <2>2. e[k + j] = EntriesOf(d)[j] BY <2>1, <1>1, SameEntry, SMTT(30) DEF l, e
  <2> QED BY <2>2, <1>7
<1>9. EntriesOf(d) = s
  <2> DEFINE b == EntriesOf(d)
  <2>1. /\ s \in Seq(Entry) /\ b \in Seq(Entry) /\ Len(b) = Len(s)
        /\ \A j \in 1..Len(b) : b[j] = s[j]
    BY <1>4, <1>5, <1>7, <1>8
  <2> HIDE DEF b, s
  <2>2. b = s BY <2>1, SeqEqual
  <2> QED BY <2>2 DEF b
<1> QED BY <1>2, <1>9 DEF d, l, e

(* cache_set: the old entry of the key goes, the least recently used ones  *)
(* go as far as the value needs room, and the new entry is appended.       *)
LEMMA SetEntries ==
  ASSUME NEW c, CacheInv(c), Sized(c), NEW key \in Keys, NEW val \in Vals
  PROVE  /\ Sized(cache_set(c, key, val))
         /\ EntriesOf(cache_set(c, key, val))
              = IF SizeOf[val] > c.maxmem THEN Promise!Others(EntriesOf(c), key)
                ELSE Append(Promise!Survivors(Promise!Others(EntriesOf(c), key),
                                              SizeOf[val], c.maxmem),
                            [key |-> key, val |-> val])
<1> DEFINE size == SizeOf[val]
           r == cache_delete(c, key)
           p == r.evic_policy
           res == should_add_evict_deletions(r, size)
           k == num_to_delete(p, size)
           d == DeleteIds(r, [i \in 1..k |-> p.list[i].ident])
           o == Promise!Others(EntriesOf(c), key)
<1>1. size \in Sizes /\ size \in Nat BY SizeOfAssumption, SizesAssumption
<1>2. /\ CacheInv(r) /\ AllLinks(r) = {x \in AllLinks(c) : x.key # key}
      /\ r.maxmem = c.maxmem
  BY CacheDeleteKeeps
<1>3. Sized(r) /\ EntriesOf(r) = o BY DeleteRemovesEntry
<1>4. PolicyInv(p) /\ p.maxmem = c.maxmem /\ c.maxmem \in Nat
  BY <1>2 DEF CacheInv, Consistent, Counted, PolicyInv, PolicyValue
<1>5. cache_set(c, key, val)
        = IF res.should_add THEN add_to_cache(res.cache, key, val, size)
          ELSE res.cache
  BY DEF cache_set, cache_delete
<1>6. CASE size > c.maxmem
  <2>1. ids_to_delete_if_added(p, size).should_add = FALSE
    BY <1>4, <1>6 DEF ids_to_delete_if_added
  <2>2. res.should_add = FALSE /\ res.cache = r
    <3> HIDE DEF r
    <3> QED BY <2>1 DEF should_add_evict_deletions
  <2> HIDE DEF r, res, o
  <2>3. cache_set(c, key, val) = r BY <2>2, <1>5
  <2> QED BY <2>3, <1>3, <1>6 DEF o
<1>7. CASE ~(size > c.maxmem)
  <2>1. size <= p.maxmem BY <1>1, <1>4, <1>7
  <2>2. /\ ids_to_delete_if_added(p, size).should_add = TRUE
        /\ ids_to_delete_if_added(p, size).data = [i \in 1..k |-> p.list[i].ident]
    BY <1>4, <1>7 DEF ids_to_delete_if_added
  <2>3. res.should_add = TRUE /\ res.cache = d
    <3> HIDE DEF r, k
    <3> QED BY <2>2 DEF should_add_evict_deletions
  <2>4. k \in 0..Len(p.list)
    <3> HIDE DEF p
    <3> QED BY <2>1, <1>1, <1>4, NumToDelete
  <2>5. Sized(d) /\ EntriesOf(d) = SubSeq(o, k + 1, Len(o))
    <3> HIDE DEF r, k, o
    <3> QED BY <2>4, <1>2, <1>3, EvictionsLeaveEntries
  <2>6. /\ CacheInv(d) /\ d.maxmem = c.maxmem /\ AllLinks(d) \subseteq AllLinks(r)
        /\ d.mem_used + size <= d.maxmem
    <3> HIDE DEF r, d
    <3> QED BY <2>3, <1>1, <1>2, EvictionsMakeRoom
  <2>7. Promise!Survivors(o, size, c.maxmem) = SubSeq(o, k + 1, Len(o))
    <3>1. Lists(EntriesOf(r), p.list)
      <4> HIDE DEF r
      <4> QED BY <1>2, <1>3, EntriesListed
    <3>2. Promise!Survivors(o, size, p.maxmem) = SubSeq(o, k + 1, Len(o))
      <4> HIDE DEF p, o, r
      <4> QED BY <3>1, <2>1, <1>1, <1>3, <1>4, SurvivorsAreLeft
    <3> QED BY <3>2, <1>4
  <2>8. \A x \in AllLinks(d) : x.key # key BY <2>6, <1>2
  <2> HIDE DEF d, res, o, r, k
  <2>9. /\ Sized(add_to_cache(d, key, val, size))
        /\ EntriesOf(add_to_cache(d, key, val, size))
             = Append(EntriesOf(d), [key |-> key, val |-> val])
    BY <2>5, <2>6, <2>8, AddAppendsEntry
  <2>10. cache_set(c, key, val) = add_to_cache(d, key, val, size) BY <2>3, <1>5
  <2> QED BY <2>5, <2>7, <2>9, <2>10, <1>7 DEF o
<1> QED BY <1>6, <1>7
-----------------------------------------------------------------------------
(* The invariant of the refinement.                                        *)
RefInv == Inv /\ (cache # NULL => Sized(cache))

(* The null pointer is no cache: without it a cache could be taken for     *)
(* none.                                                                   *)
NullIsNoCache == NULL \notin CacheValue

LEMMA CacheIsThere ==
  ASSUME NullIsNoCache, NEW c, CacheInv(c)
  PROVE  c # NULL
BY DEF NullIsNoCache, CacheInv, Consistent, Shaped

LEMMA EntriesNow ==
  /\ cache # NULL => Entries = EntriesOf(cache)
  /\ cache = NULL => Entries = <<>>
BY DEF Entries, EntryOf, EntriesOf

LEMMA EntriesNext ==
  /\ cache' # NULL => Entries' = EntriesOf(cache')
  /\ cache' = NULL => Entries' = <<>>
BY DEF Entries, EntryOf, EntriesOf

(* What a call finds.                                                      *)
LEMMA UsableCache ==
  ASSUME RefInv, Usable
  PROVE  /\ cache # NULL /\ CacheInv(cache) /\ Sized(cache)
         /\ Entries = EntriesOf(cache)
         /\ cache.maxmem \in MaxMems /\ cache.maxmem # NULL
BY EntriesNow, NullIsNoCapacity DEF Usable, RefInv, Inv

(* Every call of the library is the same call of LruCache.                 *)
LEMMA CreateRefines ==
  ASSUME NullIsNoCache, RefInv, NEW m \in MaxMems, Create(m)
  PROVE  Sized(cache') /\ Promise!Create(m)
<1>1. cache = NULL /\ cache' = create_cache(m) /\ ret' = NULL BY DEF Create
<1>2. /\ CacheInv(create_cache(m)) /\ AllLinks(create_cache(m)) = {}
      /\ create_cache(m).maxmem = m
  BY CreateCache, CapacityAssumption
<1>3. create_cache(m) # NULL BY <1>2, CacheIsThere
<1>4. EntriesOf(create_cache(m)) = <<>>
  BY DEF create_cache, create_policy, EntriesOf
<1>5. Entries' = <<>> BY <1>1, <1>3, <1>4, EntriesNext
<1> QED BY <1>1, <1>2, <1>3, <1>5 DEF Promise!Create, Sized

LEMMA SetRefines ==
  ASSUME NullIsNoCache, RefInv, NEW key \in Keys, NEW val \in Vals, Set(key, val)
  PROVE  Sized(cache') /\ Promise!Set(key, val)
<1> DEFINE d == cache_set(cache, key, val)
<1>1. /\ cache # NULL /\ CacheInv(cache) /\ Sized(cache)
      /\ Entries = EntriesOf(cache) /\ cache.maxmem # NULL
      /\ cache' = d /\ ret' = NULL
  BY UsableCache DEF Set
<1>2. CacheInv(d) /\ d.maxmem = cache.maxmem BY <1>1, CacheSetKeeps
<1>3. /\ Sized(d)
      /\ EntriesOf(d)
           = IF SizeOf[val] > cache.maxmem THEN Promise!Others(EntriesOf(cache), key)
             ELSE Append(Promise!Survivors(Promise!Others(EntriesOf(cache), key),
                                           SizeOf[val], cache.maxmem),
                         [key |-> key, val |-> val])
  BY <1>1, SetEntries
<1> HIDE DEF d
<1>4. d # NULL BY <1>2, CacheIsThere
<1>5. Entries' = EntriesOf(d) BY <1>1, <1>4, EntriesNext
<1> QED BY <1>1, <1>2, <1>3, <1>4, <1>5 DEF Promise!Set

LEMMA GetRefines ==
  ASSUME NullIsNoCache, RefInv, NEW key \in Keys, Get(key)
  PROVE  Sized(cache') /\ Promise!Get(key)
<1> DEFINE d == cache_get(cache, key)
           e == EntriesOf(cache)
<1>1. /\ cache # NULL /\ CacheInv(cache) /\ Sized(cache)
      /\ Entries = e /\ cache.maxmem # NULL
      /\ cache' = d /\ ret' = GottenValue(cache, key)
  BY UsableCache DEF Get
<1>2. CacheInv(d) /\ d.maxmem = cache.maxmem BY <1>1, CacheGetKeeps
<1>3. /\ Sized(d)
      /\ \/ /\ \A i \in 1..Len(e) : e[i].key # key
            /\ d = cache
            /\ GottenValue(cache, key) = [val |-> NULL, val_size |-> 0]
         \/ \E i \in 1..Len(e) :
              /\ e[i].key = key
              /\ EntriesOf(d) = Append(Promise!Others(e, key), e[i])
              /\ GottenValue(cache, key)
                   = [val |-> e[i].val, val_size |-> SizeOf[e[i].val]]
  BY <1>1, GetMovesEntry
<1> HIDE DEF d
<1>4. d # NULL BY <1>2, CacheIsThere
<1>5. Entries' = EntriesOf(d) BY <1>1, <1>4, EntriesNext
<1>6. CASE /\ \A i \in 1..Len(e) : e[i].key # key
           /\ d = cache
           /\ GottenValue(cache, key) = [val |-> NULL, val_size |-> 0]
  <2> HIDE DEF e
  <2>1. Entries' = Entries BY <1>1, <1>5, <1>6 DEF e
  <2>2. Promise!Miss(key) BY <2>1, <1>1, <1>6 DEF Promise!Miss
  <2> QED BY <2>2, <1>1, <1>2, <1>3, <1>4 DEF Promise!Get
<1>7. CASE \E i \in 1..Len(e) :
             /\ e[i].key = key
             /\ EntriesOf(d) = Append(Promise!Others(e, key), e[i])
             /\ GottenValue(cache, key)
                  = [val |-> e[i].val, val_size |-> SizeOf[e[i].val]]
  <2> HIDE DEF e
  <2>1. Promise!Hit(key) BY <1>1, <1>5, <1>7 DEF Promise!Hit
  <2> QED BY <2>1, <1>1, <1>2, <1>3, <1>4 DEF Promise!Get
<1> QED BY <1>3, <1>6, <1>7

LEMMA DeleteRefines ==
  ASSUME NullIsNoCache, RefInv, NEW key \in Keys, Delete(key)
  PROVE  Sized(cache') /\ Promise!Delete(key)
<1> DEFINE d == cache_delete(cache, key)
<1>1. /\ cache # NULL /\ CacheInv(cache) /\ Sized(cache)
      /\ Entries = EntriesOf(cache) /\ cache.maxmem # NULL
      /\ cache' = d /\ ret' = NULL
  BY UsableCache DEF Delete
<1>2. CacheInv(d) /\ d.maxmem = cache.maxmem BY <1>1, CacheDeleteKeeps
<1>3. Sized(d) /\ EntriesOf(d) = Promise!Others(EntriesOf(cache), key)
  BY <1>1, DeleteRemovesEntry
<1> HIDE DEF d
<1>4. d # NULL BY <1>2, CacheIsThere
<1>5. Entries' = EntriesOf(d) BY <1>1, <1>4, EntriesNext
<1> QED BY <1>1, <1>2, <1>3, <1>4, <1>5 DEF Promise!Delete

LEMMA SpaceUsedRefines ==
  ASSUME RefInv, SpaceUsed
  PROVE  Promise!SpaceUsed
<1>1. /\ cache # NULL /\ CacheInv(cache) /\ Sized(cache)
      /\ Entries = EntriesOf(cache) /\ cache.maxmem # NULL
      /\ cache' = cache /\ ret' = [space |-> cache.mem_used]
  BY UsableCache DEF SpaceUsed, cache_space_used
<1>2. Promise!Memory(Entries) = Total(cache.evic_policy.list)
  BY <1>1, EntriesListed, MemoryIsTotal
<1>3. cache.mem_used = Total(cache.evic_policy.list)
  BY <1>1 DEF CacheInv, Consistent, Counted, PolicyInv
<1>4. Entries' = Entries BY <1>1, EntriesNext
<1> QED BY <1>1, <1>2, <1>3, <1>4 DEF Promise!SpaceUsed

LEMMA NextRefines ==
  ASSUME NullIsNoCache
  PROVE  RefInv /\ [Next]_vars => RefInv' /\ [Promise!CacheNext]_(Promise!vars)
<1> SUFFICES ASSUME RefInv, [Next]_vars
             PROVE  RefInv' /\ [Promise!CacheNext]_(Promise!vars)
  OBVIOUS
<1>1. Inv' BY NextKeepsInv DEF RefInv
<1>2. ASSUME NEW m \in MaxMems, Create(m) PROVE Sized(cache') /\ Promise!CacheNext
  BY <1>2, CreateRefines DEF Promise!CacheNext
<1>3. ASSUME NEW key \in Keys, NEW val \in Vals, Set(key, val)
      PROVE  Sized(cache') /\ Promise!CacheNext
  BY <1>3, SetRefines DEF Promise!CacheNext
<1>4. ASSUME NEW key \in Keys, Get(key) PROVE Sized(cache') /\ Promise!CacheNext
  BY <1>4, GetRefines DEF Promise!CacheNext
<1>5. ASSUME NEW key \in Keys, Delete(key) PROVE Sized(cache') /\ Promise!CacheNext
  BY <1>5, DeleteRefines DEF Promise!CacheNext
<1>6. ASSUME SpaceUsed PROVE Sized(cache') /\ Promise!CacheNext
  <2>1. cache' = cache /\ Sized(cache)
    BY <1>6, UsableCache DEF SpaceUsed
  <2> QED BY <2>1, <1>6, SpaceUsedRefines DEF Promise!CacheNext
<1>7. ASSUME Destroy PROVE cache' = NULL /\ Promise!CacheNext
  <2>1. /\ cache # NULL /\ cache.maxmem # NULL
        /\ cache' = NULL /\ ret' = NULL /\ Entries' = <<>>
    BY <1>7, UsableCache, EntriesNext DEF Destroy
  <2>2. Promise!Destroy BY <2>1 DEF Promise!Destroy
  <2> QED BY <2>1, <2>2 DEF Promise!CacheNext
<1>8. ASSUME UNCHANGED vars PROVE cache' = cache /\ UNCHANGED Promise!vars
  <2>1. cache' = cache /\ ret' = ret BY <1>8 DEF vars
  <2>2. Entries' = Entries BY <2>1, EntriesNow, EntriesNext
  <2> QED BY <2>1, <2>2 DEF Promise!vars
<1>9. cache' # NULL => Sized(cache')
  BY <1>2, <1>3, <1>4, <1>5, <1>6, <1>7, <1>8 DEF Next, RefInv
<1>10. RefInv' BY <1>1, <1>9 DEF RefInv
<1>11. [Promise!CacheNext]_(Promise!vars)
  BY <1>2, <1>3, <1>4, <1>5, <1>6, <1>7, <1>8 DEF Next
<1> QED BY <1>10, <1>11

(* hash_cache.c implements the cache of cache.h: for any keys, values,     *)
(* sizes, hash function and capacities, and any calls, a value is found    *)
(* until it is overwritten, deleted or evicted, evictions take the least   *)
(* recently used values and no more than needed, and cache_space_used      *)
(* counts the values that are really there.                                *)
THEOREM CacheImplementsLruCache ==
  ASSUME NullIsNoCache
  PROVE  Spec => ImplementsLruCache
<1>1. Init => RefInv /\ Promise!CacheInit
  BY EntriesNow DEF Init, RefInv, Inv, Promise!CacheInit
<1>2. RefInv /\ [Next]_vars => RefInv' /\ [Promise!CacheNext]_(Promise!vars)
  BY NextRefines
<1> QED BY <1>1, <1>2, PTL DEF Spec, ImplementsLruCache, Promise!CacheSpec
=============================================================================

---------------------------- MODULE CacheLibrary ----------------------------
(***************************************************************************)
(* The cache library as its callers drive it: one process that creates a   *)
(* cache, calls the functions of src/impl/cache.h in any order, destroys   *)
(* the cache and may start again.  Every call is one step, because neither *)
(* the library nor the server that links it has threads.                   *)
(***************************************************************************)
EXTENDS HashCache

VARIABLES
  cache,     \* the cache object, NULL when there is none
  ret        \* what the last call returned, NULL for a void function

vars == <<cache, ret>>

(* A failed assertion ends the process: no call follows it.                *)
Usable == cache # NULL /\ ~cache.evic_policy.aborted

Init == cache = NULL /\ ret = NULL

Create(m) ==
  /\ cache = NULL
  /\ cache' = create_cache(m)
  /\ ret' = NULL

Set(key, val) ==
  /\ Usable
  /\ cache' = cache_set(cache, key, val)
  /\ ret' = NULL

Get(key) ==
  /\ Usable
  /\ cache' = cache_get(cache, key)
  /\ ret' = GottenValue(cache, key)

Delete(key) ==
  /\ Usable
  /\ cache' = cache_delete(cache, key)
  /\ ret' = NULL

SpaceUsed ==
  /\ Usable
  /\ ret' = [space |-> cache_space_used(cache)]
  /\ UNCHANGED cache

Destroy ==
  /\ Usable
  /\ cache' = NULL
  /\ ret' = NULL

Next ==
  \/ \E m \in MaxMems : Create(m)
  \/ \E key \in Keys, val \in Vals : Set(key, val)
  \/ \E key \in Keys : Get(key) \/ Delete(key)
  \/ SpaceUsed
  \/ Destroy

Spec == Init /\ [][Next]_vars
-----------------------------------------------------------------------------
TypeOK ==
  cache # NULL =>
    /\ cache.maxmem \in MaxMems
    /\ cache.mem_used \in Nat
    /\ cache.table_size \in Nat \ {0}
    /\ cache.num_elements \in Nat
    /\ cache.table \in [0..(cache.table_size - 1) -> SUBSET Link]
    /\ cache.evic_policy.list \in Seq(Info)

Listed(l, key) == \E i \in 1..Len(l) : l[i].ident = key

(* The hash table and the replacement policy always hold the same keys     *)
(* with the same sizes, each once, and every link is in the bucket where   *)
(* querry_hash looks for its key: also right after evictions and after a   *)
(* resize.  Otherwise an eviction deletes nothing, or a stored value can   *)
(* no longer be found.                                                     *)
TableMatchesPolicy ==
  cache # NULL =>
    LET l == cache.evic_policy.list
    IN  /\ \A i, j \in 1..Len(l) : l[i].ident = l[j].ident => i = j
        /\ \A x, y \in AllLinks(cache) : x.key = y.key => x = y
        /\ \A b \in 0..(cache.table_size - 1) :
             \A x \in cache.table[b] : Bucket(cache, x.key) = b
        /\ \A x \in AllLinks(cache) :
             \E i \in 1..Len(l) : l[i] = [ident |-> x.key, val_size |-> x.val_size]
        /\ \A i \in 1..Len(l) : \E x \in AllLinks(cache) : x.key = l[i].ident

(* The cache's and the policy's separate counts agree with what is stored, *)
(* and the stored values never take more than maxmem.                      *)
SpaceInv ==
  cache # NULL =>
    /\ cache.mem_used = Total(cache.evic_policy.list)
    /\ cache.evic_policy.used_mem = cache.mem_used
    /\ cache.evic_policy.maxmem = cache.maxmem
    /\ cache.mem_used <= cache.maxmem
    /\ cache.num_elements = Cardinality(AllLinks(cache))

(* The evictions of cache_set always make the room that the assertion in   *)
(* create_info demands: the process is never aborted.                      *)
NeverAborts == cache # NULL => ~cache.evic_policy.aborted

(* After every call at most half as many elements as buckets: one doubling *)
(* in add_to_cache is enough.                                              *)
LoadFactor == cache # NULL => 2 * cache.num_elements <= cache.table_size

(* The cache seen through cache.h: its entries in the order of the policy. *)
EntryOf(key) ==
  [key |-> key, val |-> querry_hash(cache, key).val]

Entries ==
  IF cache = NULL THEN <<>>
  ELSE [i \in 1..Len(cache.evic_policy.list) |->
          EntryOf(cache.evic_policy.list[i].ident)]

Promise == INSTANCE LruCache WITH
  maxmem <- IF cache = NULL THEN NULL ELSE cache.maxmem,
  entries <- Entries

(* hash_cache.c implements the cache of cache.h: a value is found until it *)
(* is overwritten, deleted or evicted, evictions take the least recently   *)
(* used values and no more than needed, and cache_space_used counts the    *)
(* values that are really there.                                           *)
ImplementsLruCache == Promise!CacheSpec

(* What test/lrutests.c expects of a value larger than the whole cache:    *)
(* cache_set refuses it and no stored value is lost, the key's old value   *)
(* included.                                                               *)
RefusedSetKeepsValues ==
  [][\A key \in Keys, val \in Vals :
       Set(key, val) /\ SizeOf[val] > cache.maxmem => Entries' = Entries]_vars
=============================================================================

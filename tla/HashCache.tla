----------------------------- MODULE HashCache ------------------------------
(***************************************************************************)
(* src/impl/hash_cache.c: the cache as a chained hash table, the counters  *)
(* mem_used and num_elements, and the replacement policy it consults, each *)
(* function of the code an operator from cache value to cache value.       *)
(*                                                                         *)
(* A bucket is the set of its links: the order of a chain decides nothing  *)
(* that a caller or the policy sees.  The policy_info of a link is named   *)
(* by the link's key, as the policy's ident names it for the cache.        *)
(***************************************************************************)
EXTENDS CacheObjects, FiniteSets

Bucket(c, key) == map_to_location(Hash[key], c.table_size)

AllLinks(c) == UNION {c.table[b] : b \in 0..(c.table_size - 1)}
-----------------------------------------------------------------------------
create_cache(maxmem) ==
  [maxmem |-> maxmem,
   mem_used |-> 0,
   table_size |-> default_table_size,
   num_elements |-> 0,
   table |-> [b \in 0..(default_table_size - 1) |-> {}],
   evic_policy |-> create_policy(maxmem)]

(* A plausible slip: the first link of the chain is taken for the key's.   *)
querry_hash_NoCompare(c, key) ==
  LET chain == c.table[Bucket(c, key)]
  IN  IF chain = {} THEN NULL ELSE CHOOSE l \in chain : TRUE

(* The link of key, or NULL: the place where it would be added.            *)
querry_hash(c, key) ==
  LET found == {l \in c.table[Bucket(c, key)] : l.key = key}
  IN  IF found = {} THEN NULL ELSE CHOOSE l \in found : TRUE

(* *linkp = data: the link querry_hash found is overwritten, and one is    *)
(* allocated at the end of the chain if it found none.                     *)
assign_to_link(c, key, data) ==
  [c EXCEPT !.table[Bucket(c, key)] = (@ \ {querry_hash(c, key)}) \union {data}]

(* A plausible slip: the chains are kept where they were.                  *)
resize_table_NoRehash(c, new_size) ==
  [c EXCEPT !.table_size = new_size,
            !.table = [b \in 0..(new_size - 1) |->
                         IF b < c.table_size THEN c.table[b] ELSE {}]]

(* Every link moves, unchanged, to the bucket its key has in the new table.*)
resize_table(c, new_size) ==
  [c EXCEPT !.table_size = new_size,
            !.table = [b \in 0..(new_size - 1) |->
                         {l \in AllLinks(c) :
                            map_to_location(Hash[l.key], new_size) = b}]]

Unlink(c, link) ==
  [c EXCEPT !.table[Bucket(c, link.key)] = @ \ {link},
            !.mem_used = @ - link.val_size,
            !.num_elements = @ - 1,
            !.evic_policy = delete_info(@, link.key)]

(* Plausible slips: a missing key is counted as deleted; the memory of the *)
(* deleted value stays counted.                                            *)
del_link_CountsMiss(c, link) ==
  IF link = NULL THEN [c EXCEPT !.num_elements = @ - 1] ELSE Unlink(c, link)

del_link_StillCounted(c, link) ==
  IF link = NULL THEN c ELSE [Unlink(c, link) EXCEPT !.mem_used = c.mem_used]

del_link(c, link) == IF link = NULL THEN c ELSE Unlink(c, link)

cache_delete(c, key) == del_link(c, querry_hash(c, key))

(* The loop over the array of ids: the cache after i of them are deleted.  *)
DeleteIds(c, ids) ==
  LET after[i \in 0..Len(ids)] ==
        IF i = 0 THEN c ELSE cache_delete(after[i-1], ids[i])
  IN  after[Len(ids)]

should_add_evict_deletions(c, val_size) ==
  LET add_res == ids_to_delete_if_added(c.evic_policy, val_size)
  IN  [should_add |-> add_res.should_add,
       cache |-> IF add_res.should_add THEN DeleteIds(c, add_res.data) ELSE c]

(* A plausible slip: the table grows only when it is full.                 *)
Crowded_Full(c) == c.num_elements > c.table_size

Crowded(c) == c.num_elements * 2 > c.table_size

(* If the assertion in create_info fails the process ends there.           *)
add_to_cache(c, key, val, val_size) ==
  LET p == create_info(c.evic_policy, key, val_size)
      new_item == [key |-> key, val |-> val, val_size |-> val_size]
      added == [assign_to_link(c, key, new_item) EXCEPT
                  !.evic_policy = p,
                  !.mem_used = @ + val_size,
                  !.num_elements = @ + 1]
  IN  IF p.aborted THEN [c EXCEPT !.evic_policy = p]
      ELSE IF Crowded(added) THEN resize_table(added, added.table_size * 2)
      ELSE added

(* The old value of the key goes first; then the policy is asked.          *)
cache_set(c, key, val) ==
  LET removed == del_link(c, querry_hash(c, key))
      res == should_add_evict_deletions(removed, SizeOf[val])
  IN  IF res.should_add THEN add_to_cache(res.cache, key, val, SizeOf[val])
      ELSE res.cache

(* A plausible slip: a hit is not reported to the policy.                  *)
cache_get_Unreported(c, key) == c

(* cache_get is two things: the cache with the key's info moved to the top *)
(* of the policy, and the value and size returned.                         *)
cache_get(c, key) ==
  LET hash_l == querry_hash(c, key)
  IN  IF hash_l = NULL THEN c
      ELSE [c EXCEPT !.evic_policy = info_gotten(@, hash_l.key)]

GottenValue(c, key) ==
  LET hash_l == querry_hash(c, key)
  IN  IF hash_l = NULL THEN [val |-> NULL, val_size |-> 0]
      ELSE [val |-> hash_l.val, val_size |-> hash_l.val_size]

cache_space_used(c) == c.mem_used
=============================================================================

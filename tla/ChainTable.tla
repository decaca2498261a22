----------------------------- MODULE ChainTable -----------------------------
(***************************************************************************)
(* src/impl/hash_cache.c with its pointers: the table holds the first link *)
(* of every chain, links are allocated and freed, and querry_hash returns  *)
(* the place (link_t * ) of a pointer: a cell of the table or the next     *)
(* field of a link.  Module HashCache has the same functions on sets of    *)
(* links; this module is checked to implement them.                        *)
(***************************************************************************)
EXTENDS CacheObjects, FiniteSets

CONSTANT Links   \* addresses calloc can return for a link_obj

ASSUME LinksFinite == IsFiniteSet(Links) /\ NULL \notin Links

VARIABLES
  cache,     \* struct cache_obj, or NULL when there is none
  heap,      \* the allocated links
  ret        \* what the last call returned, NULL for a void function

vars == <<cache, heap, ret>>

(* The functions work on the cache and the heap together.                  *)
State == [c |-> cache, h |-> heap]

Cell(b) == [link |-> NULL, cell |-> b]
NextOf(l) == [link |-> l, cell |-> 0]

Deref(s, place) ==
  IF place.link = NULL THEN s.c.table[place.cell] ELSE s.h[place.link].next

Assign(s, place, l) ==
  IF place.link = NULL THEN [s EXCEPT !.c.table[place.cell] = l]
  ELSE [s EXCEPT !.h[place.link].next = l]

Count(s) == Cardinality(DOMAIN s.h)
-----------------------------------------------------------------------------
create_cache(maxmem) ==
  [maxmem |-> maxmem, mem_used |-> 0, table_size |-> default_table_size,
   num_elements |-> 0,
   table |-> [b \in 0..(default_table_size - 1) |-> NULL],
   evic_policy |-> create_policy(maxmem)]

(* The places cur_item can have on its way along the chain of bucket b; it *)
(* stays at the end.                                                       *)
Onward(s, place) ==
  LET l == Deref(s, place) IN IF l = NULL THEN place ELSE NextOf(l)

Walk(s, b) ==
  LET cur_item[i \in 0..Count(s)] ==
        IF i = 0 THEN Cell(b) ELSE Onward(s, cur_item[i-1])
  IN  cur_item

(* The first of them that is empty or has the link of the key.             *)
Stops(s, key, place) ==
  Deref(s, place) = NULL \/ s.h[Deref(s, place)].data.key = key

querry_hash(s, key) ==
  LET cur_item == Walk(s, map_to_location(Hash[key], s.c.table_size))
  IN  cur_item[CHOOSE i \in 0..Count(s) :
                 /\ Stops(s, key, cur_item[i]) \/ i = Count(s)
                 /\ \A j \in 0..(i - 1) : ~Stops(s, key, cur_item[j])]

(* new is what calloc returns if the place is empty.                       *)
assign_to_link(s, place, data, new) ==
  LET old == Deref(s, place)
      at  == IF old = NULL THEN Assign(s, place, new) ELSE s
      l   == IF old = NULL THEN new ELSE old
      nxt == IF old = NULL THEN NULL ELSE s.h[old].next
  IN  [at EXCEPT !.h = [n \in DOMAIN @ \union {l} |->
                          IF n = l THEN [data |-> data, next |-> nxt] ELSE @[n]]]

(* A plausible slip: a moved link keeps its old next.                      *)
Detached_Not(s, l) == s
Detached(s, l) == [s EXCEPT !.h[l].next = NULL]

(* Every link goes to the end of its new chain.                            *)
Relink(s, l) ==
  LET alone == Detached(s, l)
  IN  Assign(alone, querry_hash(alone, alone.h[l].data.key), l)

(* One turn of the loops: cur_l runs over the chain of bucket i of the old *)
(* table, bucket by bucket.                                                *)
RelinkNext(old_table, old_t_size, w) ==
  IF w.cur_l # NULL
  THEN [s |-> Relink(w.s, w.cur_l), i |-> w.i, cur_l |-> w.s.h[w.cur_l].next]
  ELSE IF w.i + 1 < old_t_size
  THEN [s |-> w.s, i |-> w.i + 1, cur_l |-> old_table[w.i + 1]]
  ELSE w

Relinking(s, new_size) ==
  LET at[k \in 0..(s.c.table_size + Count(s))] ==
        IF k = 0
        THEN [s |-> [s EXCEPT !.c.table_size = new_size,
                              !.c.table = [b \in 0..(new_size - 1) |-> NULL]],
              i |-> 0, cur_l |-> s.c.table[0]]
        ELSE RelinkNext(s.c.table, s.c.table_size, at[k-1])
  IN  at

resize_table(s, new_size) ==
  Relinking(s, new_size)[s.c.table_size + Count(s)].s

(* A plausible slip: the rest of the chain is cut off.                     *)
Rest_Cut(s, l) == NULL
Rest(s, l) == s.h[l].next

del_link(s, place) ==
  LET myobj == Deref(s, place)
  IN  IF myobj = NULL THEN s
      ELSE LET data == s.h[myobj].data
               cut == Assign(s, place, Rest(s, myobj))
           IN  [c |-> [cut.c EXCEPT !.mem_used = @ - data.val_size,
                                    !.num_elements = @ - 1,
                                    !.evic_policy = delete_info(@, data.key)],
                h |-> [n \in DOMAIN s.h \ {myobj} |-> cut.h[n]]]

cache_delete(s, key) == del_link(s, querry_hash(s, key))

DeleteIds(s, ids) ==
  LET after[i \in 0..Len(ids)] ==
        IF i = 0 THEN s ELSE cache_delete(after[i-1], ids[i])
  IN  after[Len(ids)]

(* That the assertion of create_info holds is NeverAborts of CacheLibrary; *)
(* a call that broke it here would not be one of HashCache.                *)
add_to_cache(s, key, val, new) ==
  LET new_item == [key |-> key, val |-> val, val_size |-> SizeOf[val]]
      linked == assign_to_link(s, querry_hash(s, key), new_item, new)
      added == [linked EXCEPT
                  !.c.evic_policy = create_info(@, key, SizeOf[val]),
                  !.c.mem_used = @ + SizeOf[val],
                  !.c.num_elements = @ + 1]
  IN  IF added.c.num_elements * 2 > added.c.table_size
      THEN resize_table(added, added.c.table_size * 2) ELSE added

cache_set(s, key, val, new) ==
  LET removed == del_link(s, querry_hash(s, key))
      add_res == ids_to_delete_if_added(removed.c.evic_policy, SizeOf[val])
  IN  IF add_res.should_add
      THEN add_to_cache(DeleteIds(removed, add_res.data), key, val, new)
      ELSE removed

(* A plausible slip: only the first link of every chain is deleted.        *)
DeleteLinks_Heads(s) ==
  LET after[i \in 0..s.c.table_size] ==
        IF i = 0 THEN s ELSE del_link(after[i-1], Cell(i-1))
  IN  after[s.c.table_size]

(* The loops of destroy_cache: while a cell is not empty its first link is *)
(* deleted, cell by cell.                                                  *)
Full(s) == {b \in 0..(s.c.table_size - 1) : s.c.table[b] # NULL}

DeleteFirst(s) ==
  IF Full(s) = {} THEN s
  ELSE del_link(s, Cell(CHOOSE b \in Full(s) : \A x \in Full(s) : b <= x))

DeleteLinks(s) ==
  LET after[i \in 0..Count(s)] == IF i = 0 THEN s ELSE DeleteFirst(after[i-1])
  IN  after[Count(s)]
-----------------------------------------------------------------------------
Init == cache = NULL /\ heap = [n \in {} |-> NULL] /\ ret = NULL

Create(m) ==
  /\ cache = NULL
  /\ cache' = create_cache(m)
  /\ ret' = NULL
  /\ UNCHANGED heap

Set(key, val) ==
  /\ cache # NULL
  /\ \E new \in Links \ DOMAIN heap :
       LET s == cache_set(State, key, val, new)
       IN  cache' = s.c /\ heap' = s.h
  /\ ret' = NULL

Get(key) ==
  /\ cache # NULL
  /\ LET hash_l == Deref(State, querry_hash(State, key))
     IN  IF hash_l = NULL
         THEN ret' = [val |-> NULL, val_size |-> 0] /\ UNCHANGED cache
         ELSE LET data == heap[hash_l].data
              IN  /\ cache' = [cache EXCEPT !.evic_policy = info_gotten(@, data.key)]
                  /\ ret' = [val |-> data.val, val_size |-> data.val_size]
  /\ UNCHANGED heap

Delete(key) ==
  /\ cache # NULL
  /\ LET s == cache_delete(State, key)
     IN  cache' = s.c /\ heap' = s.h
  /\ ret' = NULL

Destroy ==
  /\ cache # NULL
  /\ heap' = DeleteLinks(State).h
  /\ cache' = NULL
  /\ ret' = NULL

Next ==
  \/ \E m \in MaxMems : Create(m)
  \/ \E key \in Idents, val \in Vals : Set(key, val)
  \/ \E key \in Idents : Get(key) \/ Delete(key)
  \/ Destroy

Spec == Init /\ [][Next]_vars
-----------------------------------------------------------------------------
Buckets == 0..(cache.table_size - 1)

Chain(b) == {Deref(State, Walk(State, b)[i]) : i \in 0..Count(State)} \ {NULL}

(* Every allocated link is in the chain of its key's bucket and in no      *)
(* other, and every chain ends: after deletions in the middle of chains,   *)
(* evictions and the relinking of resize_table.                            *)
ChainsInv ==
  cache # NULL =>
    /\ \A b \in Buckets : Deref(State, Walk(State, b)[Count(State)]) = NULL
    /\ \A l \in DOMAIN heap :
         LET b == map_to_location(Hash[heap[l].data.key], cache.table_size)
         IN  /\ l \in Chain(b)
             /\ \A x \in Buckets : l \in Chain(x) => x = b

(* destroy_cache frees every link.                                         *)
NoLinkLeaks == cache = NULL => DOMAIN heap = {}

Unchained ==
  IF cache = NULL THEN NULL
  ELSE [cache EXCEPT !.table = [b \in DOMAIN @ |-> {heap[l].data : l \in Chain(b)}]]

Sets == INSTANCE CacheLibrary WITH cache <- Unchained

(* The chained table does, call by call, what the sets of links of module  *)
(* HashCache do, and so what cache.h promises.                             *)
ImplementsHashCache == Sets!Spec
=============================================================================

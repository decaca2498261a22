---------------------------- MODULE CacheObjects ----------------------------
(***************************************************************************)
(* What the two models of src/impl/hash_cache.c share: the parameters of a *)
(* cache, what a link of the table stores, and where a hash value belongs. *)
(* Module HashCache has the buckets as sets of links, module ChainTable as *)
(* chains of allocated links.                                              *)
(***************************************************************************)
EXTENDS LruPolicy

CONSTANTS
  Vals,               \* value buffers
  SizeOf,             \* SizeOf[v]: the val_size that goes with value v
  Hash,               \* Hash[k]: h_fn applied to key k
  default_table_size,
  MaxMems,            \* the capacities caches are created with
  NULL

Keys == Idents

ASSUME SizeOfAssumption == SizeOf \in [Vals -> Sizes]
ASSUME HashAssumption == Hash \in [Keys -> Nat]
ASSUME TableSizeAssumption == default_table_size \in Nat \ {0}
ASSUME CapacityAssumption == MaxMems \subseteq Nat
ASSUME NullIsNoCapacity == NULL \notin MaxMems

Link == [key : Keys, val : Vals, val_size : Sizes]

ASSUME NullIsNoLink == NULL \notin Link

map_to_location(hash_val, table_size) == hash_val % table_size
=============================================================================

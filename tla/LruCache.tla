------------------------------ MODULE LruCache ------------------------------
(***************************************************************************)
(* What src/cache.h promises its callers, with no hash table, policy or    *)
(* counter: a cache is a sequence of entries from least to most recently   *)
(* used whose values fit together in maxmem bytes.  HashCache, the code of *)
(* hash_cache.c, implements it.                                            *)
(***************************************************************************)
EXTENDS Integers, Sequences

CONSTANTS
  Keys,      \* key strings
  Vals,      \* value buffers
  SizeOf,    \* SizeOf[v]: the val_size that goes with value v
  MaxMems,   \* the capacities caches are created with
  NULL       \* no cache, no value

VARIABLES
  maxmem,    \* the capacity, NULL when there is no cache
  entries,   \* the <<key, value>> entries, least recently used first
  ret        \* what the last call returned, NULL for a void function

vars == <<maxmem, entries, ret>>

(* The entries without that of key, of which there is at most one.         *)
Others(es, key) ==
  LET p == CHOOSE i \in 1..Len(es) : es[i].key = key
  IN  IF \A i \in 1..Len(es) : es[i].key # key THEN es
      ELSE SubSeq(es, 1, p - 1) \o SubSeq(es, p + 1, Len(es))

MemoryUpTo(es) ==
  LET mem[i \in 0..Len(es)] == IF i = 0 THEN 0 ELSE mem[i-1] + SizeOf[es[i].val]
  IN  mem

Memory(es) == MemoryUpTo(es)[Len(es)]

(* The entries that stay when size more bytes are to fit in room: as many  *)
(* of the most recently used ones as possible.                             *)
Survivors(es, size, room) ==
  LET fits(i) == Memory(SubSeq(es, i, Len(es))) + size <= room
      first == CHOOSE i \in 1..(Len(es) + 1) :
                 fits(i) /\ \A j \in 1..(i-1) : ~fits(j)
  IN  SubSeq(es, first, Len(es))

CacheInit == maxmem = NULL /\ entries = <<>> /\ ret = NULL

Create(m) ==
  /\ maxmem = NULL
  /\ maxmem' = m
  /\ entries' = <<>>
  /\ ret' = NULL

(* A value that can never fit is not stored, and the key's old value goes  *)
(* all the same.                                                           *)
Set(key, val) ==
  /\ maxmem # NULL
  /\ entries' = IF SizeOf[val] > maxmem THEN Others(entries, key)
                ELSE Append(Survivors(Others(entries, key), SizeOf[val], maxmem),
                            [key |-> key, val |-> val])
  /\ ret' = NULL
  /\ UNCHANGED maxmem

Hit(key) ==
  \E i \in 1..Len(entries) :
    /\ entries[i].key = key
    /\ entries' = Append(Others(entries, key), entries[i])
    /\ ret' = [val |-> entries[i].val, val_size |-> SizeOf[entries[i].val]]

Miss(key) ==
  /\ \A i \in 1..Len(entries) : entries[i].key # key
  /\ ret' = [val |-> NULL, val_size |-> 0]
  /\ UNCHANGED entries

Get(key) ==
  /\ maxmem # NULL
  /\ Hit(key) \/ Miss(key)
  /\ UNCHANGED maxmem

Delete(key) ==
  /\ maxmem # NULL
  /\ entries' = Others(entries, key)
  /\ ret' = NULL
  /\ UNCHANGED maxmem

SpaceUsed ==
  /\ maxmem # NULL
  /\ ret' = [space |-> Memory(entries)]
  /\ UNCHANGED <<maxmem, entries>>

Destroy ==
  /\ maxmem # NULL
  /\ maxmem' = NULL
  /\ entries' = <<>>
  /\ ret' = NULL

CacheNext ==
  \/ \E m \in MaxMems : Create(m)
  \/ \E key \in Keys : Get(key) \/ Delete(key)
  \/ \E key \in Keys, val \in Vals : Set(key, val)
  \/ SpaceUsed
  \/ Destroy

CacheSpec == CacheInit /\ [][CacheNext]_vars
=============================================================================

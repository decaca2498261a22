----------------------------- MODULE LruPolicy -----------------------------
(***************************************************************************)
(* The replacement policy at the level of its interface, replacement.h, as *)
(* operators on a policy value.  The doubly linked list of                 *)
(* lru_replacement.c is a sequence here, policy->bottom (least recently    *)
(* used) first and policy->top last; module LruReplacement has the         *)
(* pointers and is checked to implement these operators.                   *)
(*                                                                         *)
(* An info is named by its ident: the cache uses the address of its own    *)
(* copy of the key, which no two live infos share.                         *)
(***************************************************************************)
EXTENDS Integers, Sequences

CONSTANTS
  Idents,   \* user_id_t: what the user of the policy names an info by
  Sizes     \* the val_size values (uint32_t) infos are created with

ASSUME SizesAssumption == Sizes \subseteq Nat

Info == [ident : Idents, val_size : Sizes]

(* The memory that the infos of l account for: the sum of their sizes.     *)
RunningTotal(l) ==
  LET sum[i \in 0..Len(l)] == IF i = 0 THEN 0 ELSE sum[i-1] + l[i].val_size
  IN  sum

Total(l) == RunningTotal(l)[Len(l)]

(* The list without the info named id, and with it moved to the top end.   *)
PositionOf(l, id) == CHOOSE i \in 1..Len(l) : l[i].ident = id

Without(l, id) ==
  LET p == PositionOf(l, id)
  IN  [i \in 1..(Len(l) - 1) |-> IF i < p THEN l[i] ELSE l[i+1]]

-----------------------------------------------------------------------------
(* create_policy: calloc zeroes used_mem.  aborted is set when an          *)
(* assertion of the policy fails, which ends the process.                  *)
create_policy(maxmem) ==
  [maxmem |-> maxmem, used_mem |-> 0, list |-> <<>>, aborted |-> FALSE]

(* create_info asserts that the caller has made room, then puts the new    *)
(* info at the most recently used end.                                     *)
create_info(p, id, size) ==
  IF p.maxmem < p.used_mem + size
  THEN [p EXCEPT !.aborted = TRUE]
  ELSE [p EXCEPT !.list = Append(@, [ident |-> id, val_size |-> size]),
                 !.used_mem = @ + size]

delete_info(p, id) ==
  [p EXCEPT !.list = Without(@, id),
            !.used_mem = @ - p.list[PositionOf(p.list, id)].val_size]

info_gotten(p, id) ==
  [p EXCEPT !.list = Append(Without(@, id), @[PositionOf(@, id)])]

(* A plausible slip: the size of the new value is left out of the sum.     *)
num_to_delete_OldOnly(p, size) ==
  CHOOSE n \in 0..Len(p.list) :
    /\ \/ p.used_mem - RunningTotal(p.list)[n] <= p.maxmem
       \/ n = Len(p.list)
    /\ \A m \in 0..(n-1) :
         p.used_mem - RunningTotal(p.list)[m] > p.maxmem

(* num_to_delete walks up from the bottom until what is left, with the new *)
(* value, fits in maxmem or the list ends: the first position where it     *)
(* stops.                                                                  *)
num_to_delete(p, size) ==
  CHOOSE n \in 0..Len(p.list) :
    /\ \/ p.used_mem + size - RunningTotal(p.list)[n] <= p.maxmem
       \/ n = Len(p.list)
    /\ \A m \in 0..(n-1) :
         p.used_mem + size - RunningTotal(p.list)[m] > p.maxmem

(* A value larger than the whole cache is refused, and then nothing is to  *)
(* be deleted; otherwise the idents of the walked infos are returned.      *)
ids_to_delete_if_added(p, size) ==
  IF size > p.maxmem
  THEN [should_add |-> FALSE, data |-> <<>>]
  ELSE [should_add |-> TRUE,
        data |-> [i \in 1..num_to_delete(p, size) |-> p.list[i].ident]]
=============================================================================

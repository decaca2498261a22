--------------------------- MODULE LruReplacement ---------------------------
(***************************************************************************)
(* src/impl/lru_replacement.c: the replacement policy as the program has   *)
(* it, a doubly linked list of heap-allocated infos between policy->bottom *)
(* (least recently used) and policy->top, with a running total of their    *)
(* sizes.  Every pointer assignment is here, in the order of the code.     *)
(*                                                                         *)
(* The user of the policy is the environment: it calls the functions of    *)
(* replacement.h in any order, passes infos the policy gave it and has not *)
(* freed, names live infos by different idents (hash_cache.c passes the    *)
(* address of its own copy of the key) and makes room before create_info   *)
(* (the assertion there; module HashCache checks that the cache does).     *)
(***************************************************************************)
EXTENDS Integers, Sequences, FiniteSets

CONSTANTS
  Nodes,     \* addresses calloc can return for a pinfo_obj
  NULL,      \* the null pointer
  Idents,    \* user_id_t
  Sizes,     \* val_size values
  MaxMems    \* the capacities create_policy is called with

ASSUME NullAssumption == NULL \notin Nodes
ASSUME SizesAreNat == Sizes \subseteq Nat
ASSUME MaxMemsAreNat == MaxMems \subseteq Nat
ASSUME NodesFinite == IsFiniteSet(Nodes)

VARIABLES
  policy,    \* struct policy_obj, or NULL when there is none
  heap,      \* the allocated pinfo_objs: a function from their addresses
  answer     \* the struct id_arr the last call returned, NULL for the others

vars == <<policy, heap, answer>>

Pointer == Nodes \union {NULL}

PolicyObj == [maxmem : Nat, used_mem : Int, top : Pointer, bottom : Pointer]

PinfoObj == [low : Pointer, high : Pointer, ident : Idents, val_size : Sizes]

ASSUME NullIsNoPolicy == NULL \notin PolicyObj

(* The null pointer is not a policy value of module LruPolicy either.      *)
ASSUME NullIsNoPolicyValue ==
  NULL \notin [maxmem : Nat, used_mem : Nat, aborted : {FALSE},
               list : Seq([ident : Idents, val_size : Sizes])]
-----------------------------------------------------------------------------
(* The two list operations work on the policy and the heap together.       *)
move_info_to_head(p, h, info) ==
  LET old_head == p.top
      h1 == IF old_head = NULL THEN h ELSE [h EXCEPT ![old_head].high = info]
      h2 == [h1 EXCEPT ![info].low = old_head]
  IN  [heap   |-> [h2 EXCEPT ![info].high = NULL],
       policy |-> [p EXCEPT !.top = info,
                            !.bottom = IF @ = NULL THEN info ELSE @]]

(* A plausible slip: the policy's top is left on the removed info.         *)
remove_info_from_list_TopKept(p, h, info) ==
  LET up == h[info].high
      h1 == IF up = NULL THEN h ELSE [h EXCEPT ![up].low = h[info].low]
      down == h1[info].low
      h2 == IF down = NULL THEN h1
            ELSE [h1 EXCEPT ![down].high = h1[info].high]
  IN  [heap   |-> h2,
       policy |-> [p EXCEPT !.bottom = IF @ = info THEN h2[info].high ELSE @]]

remove_info_from_list(p, h, info) ==
  LET up == h[info].high
      h1 == IF up = NULL THEN h ELSE [h EXCEPT ![up].low = h[info].low]
      down == h1[info].low
      h2 == IF down = NULL THEN h1
            ELSE [h1 EXCEPT ![down].high = h1[info].high]
  IN  [heap   |-> h2,
       policy |-> [p EXCEPT !.top    = IF @ = info THEN h2[info].low ELSE @,
                            !.bottom = IF @ = info THEN h2[info].high ELSE @]]

(* The info reached from the bottom after i steps along high.              *)
Ascent(p, h) ==
  LET at[i \in 0..Cardinality(DOMAIN h)] ==
        IF i = 0 THEN p.bottom
        ELSE IF at[i-1] = NULL THEN NULL ELSE h[at[i-1]].high
  IN  at

(* The loop of num_to_delete: tot_mem when cur_t has taken i steps, and    *)
(* the number of steps after which the loop condition fails.               *)
TotMem(p, h, val_size) ==
  LET tot[i \in 0..Cardinality(DOMAIN h)] ==
        IF i = 0 THEN p.used_mem + val_size
        ELSE IF Ascent(p, h)[i-1] = NULL THEN tot[i-1]
        ELSE tot[i-1] - h[Ascent(p, h)[i-1]].val_size
  IN  tot

(* A plausible slip: the loop goes on while the cache is exactly full.     *)
num_to_delete_AtLimit(p, h, val_size) ==
  LET goes_on(i) == /\ TotMem(p, h, val_size)[i] >= p.maxmem
                    /\ Ascent(p, h)[i] # NULL
  IN  CHOOSE n \in 0..Cardinality(DOMAIN h) :
        /\ ~goes_on(n)
        /\ \A i \in 0..(n-1) : goes_on(i)

num_to_delete(p, h, val_size) ==
  LET goes_on(i) == /\ TotMem(p, h, val_size)[i] > p.maxmem
                    /\ Ascent(p, h)[i] # NULL
  IN  CHOOSE n \in 0..Cardinality(DOMAIN h) :
        /\ ~goes_on(n)
        /\ \A i \in 0..(n-1) : goes_on(i)

make_item_array(p, h, num_items) ==
  [i \in 1..num_items |-> h[Ascent(p, h)[i-1]].ident]
-----------------------------------------------------------------------------
Init ==
  /\ policy = NULL
  /\ heap = [n \in {} |-> NULL]
  /\ answer = NULL

create_policy(maxmem) ==
  /\ policy = NULL
  /\ policy' = [maxmem |-> maxmem, used_mem |-> 0,
                top |-> NULL, bottom |-> NULL]
  /\ answer' = NULL
  /\ UNCHANGED heap

(* A plausible slip: the walk stops when it is at the top.                 *)
delete_policy_SparesTop ==
  /\ policy # NULL
  /\ LET freed == {Ascent(policy, heap)[i] : i \in 0..Cardinality(DOMAIN heap)}
     IN  heap' = [n \in DOMAIN heap \ (freed \ {policy.top}) |-> heap[n]]
  /\ policy' = NULL
  /\ answer' = NULL

(* delete_policy frees what it reaches from the bottom, and the policy.    *)
delete_policy ==
  /\ policy # NULL
  /\ LET freed == {Ascent(policy, heap)[i] : i \in 0..Cardinality(DOMAIN heap)}
     IN  heap' = [n \in DOMAIN heap \ freed |-> heap[n]]
  /\ policy' = NULL
  /\ answer' = NULL

(* A plausible slip: the ident is not stored and stays zero from calloc.   *)
create_info_NoIdent(info, id, val_size) ==
  /\ policy # NULL
  /\ info \notin DOMAIN heap
  /\ \A n \in DOMAIN heap : heap[n].ident # id
  /\ ~(policy.maxmem < policy.used_mem + val_size)
  /\ LET newinf == [low |-> NULL, high |-> NULL,
                    ident |-> NULL, val_size |-> val_size]
         h == [n \in DOMAIN heap \union {info} |->
                 IF n = info THEN newinf ELSE heap[n]]
         moved == move_info_to_head(policy, h, info)
     IN  /\ heap' = moved.heap
         /\ policy' = [moved.policy EXCEPT !.used_mem = @ + val_size]
  /\ answer' = NULL

(* calloc zeroes the links of the new info.                                *)
create_info(info, id, val_size) ==
  /\ policy # NULL
  /\ info \notin DOMAIN heap
  /\ \A n \in DOMAIN heap : heap[n].ident # id
  /\ ~(policy.maxmem < policy.used_mem + val_size)
  /\ LET newinf == [low |-> NULL, high |-> NULL,
                    ident |-> id, val_size |-> val_size]
         h == [n \in DOMAIN heap \union {info} |->
                 IF n = info THEN newinf ELSE heap[n]]
         moved == move_info_to_head(policy, h, info)
     IN  /\ heap' = moved.heap
         /\ policy' = [moved.policy EXCEPT !.used_mem = @ + val_size]
  /\ answer' = NULL

(* A plausible slip: the memory of the deleted info stays counted.         *)
delete_info_StillCounted(info) ==
  /\ policy # NULL
  /\ LET removed == remove_info_from_list(policy, heap, info)
     IN  /\ policy' = removed.policy
         /\ heap' = [n \in DOMAIN heap \ {info} |-> removed.heap[n]]
  /\ answer' = NULL

delete_info(info) ==
  /\ policy # NULL
  /\ LET removed == remove_info_from_list(policy, heap, info)
     IN  /\ policy' = [removed.policy EXCEPT
                         !.used_mem = @ - removed.heap[info].val_size]
         /\ heap' = [n \in DOMAIN heap \ {info} |-> removed.heap[n]]
  /\ answer' = NULL

info_gotten(info) ==
  /\ policy # NULL
  /\ LET removed == remove_info_from_list(policy, heap, info)
         moved == move_info_to_head(removed.policy, removed.heap, info)
     IN  policy' = moved.policy /\ heap' = moved.heap
  /\ answer' = NULL

(* The walk of num_to_delete happens in every case; only its count is used *)
(* and only when the value can fit at all.                                 *)
ids_to_delete_if_added(val_size) ==
  /\ policy # NULL
  /\ answer' =
       IF val_size > policy.maxmem
       THEN [should_add |-> FALSE, data |-> <<>>]
       ELSE [should_add |-> TRUE,
             data |-> make_item_array(policy, heap,
                                      num_to_delete(policy, heap, val_size))]
  /\ UNCHANGED <<policy, heap>>

Next ==
  \/ \E m \in MaxMems : create_policy(m)
  \/ delete_policy
  \/ \E info \in Nodes, id \in Idents, val_size \in Sizes :
       create_info(info, id, val_size)
  \/ \E info \in DOMAIN heap : delete_info(info) \/ info_gotten(info)
  \/ \E val_size \in Sizes : ids_to_delete_if_added(val_size)

Spec == Init /\ [][Next]_vars
-----------------------------------------------------------------------------
(* s lists infos from bottom to top: each of the n occurs once, and the    *)
(* low and high pointers of each are its neighbours in s.                  *)
Below(s, i) == IF i = 1 THEN NULL ELSE s[i-1]
Above(s, n, i) == IF i = n THEN NULL ELSE s[i+1]

IsOrder(p, h, infos, n, s) ==
  /\ s \in [1..n -> infos]
  /\ \A i, j \in 1..n : s[i] = s[j] => i = j
  /\ \A info \in infos : \E i \in 1..n : s[i] = info
  /\ p.bottom = (IF n = 0 THEN NULL ELSE s[1])
  /\ p.top = (IF n = 0 THEN NULL ELSE s[n])
  /\ \A i \in 1..n : /\ h[s[i]].low = Below(s, i)
                     /\ h[s[i]].high = Above(s, n, i)

Count == Cardinality(DOMAIN heap)

Order == CHOOSE s \in [1..Count -> DOMAIN heap] :
           IsOrder(policy, heap, DOMAIN heap, Count, s)

(* The policy value of module LruPolicy that the list stands for.          *)
ListPolicy ==
  IF policy = NULL THEN NULL
  ELSE [maxmem |-> policy.maxmem, used_mem |-> policy.used_mem,
        list |-> [i \in 1..Count |->
                    [ident |-> heap[Order[i]].ident,
                     val_size |-> heap[Order[i]].val_size]],
        aborted |-> FALSE]

Promise == INSTANCE LruPolicySpec WITH policy <- ListPolicy
-----------------------------------------------------------------------------
TypeOK ==
  /\ policy \in PolicyObj \union {NULL}
  /\ DOMAIN heap \subseteq Nodes
  /\ heap \in [DOMAIN heap -> PinfoObj]

(* The infos the policy owns are one well-formed doubly linked list: no    *)
(* cycle, no lost and no dangling info, top and bottom at its two ends.    *)
(* remove_info_from_list and move_info_to_head keep it, whichever of the   *)
(* list's positions (only, first, last, inner) the info is in.             *)
ListInv ==
  policy # NULL => \E s \in [1..Count -> DOMAIN heap] :
                     IsOrder(policy, heap, DOMAIN heap, Count, s)

(* delete_policy leaves no info allocated: what it reaches from the bottom *)
(* along high is everything create_info allocated and delete_info has not  *)
(* freed.                                                                  *)
NoLeak == policy = NULL => DOMAIN heap = {}

(* used_mem is the memory of the infos in the list, and never more than    *)
(* the policy's capacity: the uint64_t subtraction in delete_info and in   *)
(* num_to_delete never wraps below zero.                                   *)
UsedMemInv ==
  policy # NULL =>
    /\ policy.used_mem = Promise!Total(ListPolicy.list)
    /\ policy.used_mem <= policy.maxmem

(* The linked list does what the policy's interface promises: it is the    *)
(* sequence of infos from least to most recently used, and                 *)
(* ids_to_delete_if_added names the shortest run of least recently used    *)
(* infos whose removal makes room.                                         *)
ImplementsPolicy == Promise!PolicySpec
=============================================================================

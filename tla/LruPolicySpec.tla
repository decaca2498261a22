--------------------------- MODULE LruPolicySpec ---------------------------
(***************************************************************************)
(* What the replacement policy promises through replacement.h, as a state  *)
(* machine over the policy values of module LruPolicy: one action per      *)
(* function of the interface, called in any order its user may call it.    *)
(* LruReplacement, the linked list of lru_replacement.c, implements it.    *)
(***************************************************************************)
EXTENDS LruPolicy

CONSTANTS
  NULL,      \* no policy, no answer
  MaxMems    \* the capacities create_policy is called with

VARIABLES
  policy,    \* the policy value, or NULL before create / after delete
  answer     \* what the last call returned, when it returned an id_arr

vars == <<policy, answer>>

PolicyInit == policy = NULL /\ answer = NULL

Create(m) ==
  /\ policy = NULL
  /\ policy' = create_policy(m)
  /\ answer' = NULL

Delete ==
  /\ policy # NULL
  /\ policy' = NULL
  /\ answer' = NULL

HasIdent(id) == \E i \in 1..Len(policy.list) : policy.list[i].ident = id

CreateInfo(id, size) ==
  /\ policy # NULL
  /\ ~HasIdent(id)
  /\ policy.used_mem + size <= policy.maxmem
  /\ policy' = create_info(policy, id, size)
  /\ answer' = NULL

DeleteInfo(id) ==
  /\ policy # NULL
  /\ HasIdent(id)
  /\ policy' = delete_info(policy, id)
  /\ answer' = NULL

InfoGotten(id) ==
  /\ policy # NULL
  /\ HasIdent(id)
  /\ policy' = info_gotten(policy, id)
  /\ answer' = NULL

AskIds(size) ==
  /\ policy # NULL
  /\ answer' = ids_to_delete_if_added(policy, size)
  /\ UNCHANGED policy

PolicyNext ==
  \/ \E m \in MaxMems : Create(m)
  \/ Delete
  \/ \E id \in Idents : DeleteInfo(id) \/ InfoGotten(id)
  \/ \E id \in Idents, size \in Sizes : CreateInfo(id, size)
  \/ \E size \in Sizes : AskIds(size)

PolicySpec == PolicyInit /\ [][PolicyNext]_vars
=============================================================================

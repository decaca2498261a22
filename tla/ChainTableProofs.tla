-------------------------- MODULE ChainTableProofs --------------------------
(***************************************************************************)
(* The chains of hash_cache.c, for any links, keys, values, hash function, *)
(* capacities and any calls: every allocated link is in the chain of its   *)
(* key's bucket and in no other, destroy_cache frees them all, and every   *)
(* call does what module HashCache says of sets of links.                  *)
(*                                                                         *)
(* The invariant speaks of places: the cells of the table and the next     *)
(* fields of links.  Linked(s, M, rank): every link of M is in exactly one *)
(* place, the place belongs to the link's bucket, and rank grows from a    *)
(* place to the link in it, so that chains have no cycle.  M is the whole  *)
(* heap, except inside resize_table, where it is the links already moved.  *)
(***************************************************************************)
EXTENDS ChainTable, QueueFacts, FiniteSetTheorems

H == INSTANCE HashCacheProofs

LinkObj == [data : Link, next : Links \union {NULL}]

IsCache(c) ==
  /\ c = [maxmem |-> c.maxmem, mem_used |-> c.mem_used,
          table_size |-> c.table_size, num_elements |-> c.num_elements,
          table |-> c.table, evic_policy |-> c.evic_policy]
  /\ c.table_size \in Nat \ {0}
  /\ c.table \in [0..(c.table_size - 1) -> Links \union {NULL}]

Typed(s) ==
  /\ s = [c |-> s.c, h |-> s.h]
  /\ IsCache(s.c)
  /\ DOMAIN s.h \subseteq Links
  /\ s.h \in [DOMAIN s.h -> LinkObj]

BucketOf(s, l) == map_to_location(Hash[s.h[l].data.key], s.c.table_size)

Places(s, M) == {Cell(b) : b \in 0..(s.c.table_size - 1)} \union {NextOf(l) : l \in M}

(* The bucket a place belongs to, and its rank.                            *)
PlaceBucket(s, place) ==
  IF place.link = NULL THEN place.cell ELSE BucketOf(s, place.link)

PlaceRank(rank, place) == IF place.link = NULL THEN 0 ELSE rank[place.link]

Linked(s, M, rank) ==
  /\ M \subseteq DOMAIN s.h
  /\ rank \in [M -> Nat]
  /\ \A P \in Places(s, M) : Deref(s, P) # NULL =>
       /\ Deref(s, P) \in M
       /\ BucketOf(s, Deref(s, P)) = PlaceBucket(s, P)
       /\ PlaceRank(rank, P) < rank[Deref(s, P)]
  /\ \A l \in M : \E P \in Places(s, M) : Deref(s, P) = l
  /\ \A P, Q \in Places(s, M) : Deref(s, P) = Deref(s, Q) /\ Deref(s, P) # NULL => P = Q
-----------------------------------------------------------------------------
(* A cell is no next field.                                                *)
LEMMA PlaceKinds ==
  ASSUME NEW s, NEW M, M \subseteq Links
  PROVE  /\ \A b : Cell(b).link = NULL /\ Cell(b).cell = b
         /\ \A l : NextOf(l).link = l
         /\ \A P \in Places(s, M) :
              \/ P.link = NULL /\ P = Cell(P.cell) /\ P.cell \in 0..(s.c.table_size - 1)
              \/ P.link \in M /\ P.link # NULL /\ P = NextOf(P.link)
         /\ \A l \in M : l # NULL /\ NextOf(l) \in Places(s, M)
         /\ \A b \in 0..(s.c.table_size - 1) : Cell(b) \in Places(s, M)
<1>1. NULL \notin M BY LinksFinite
<1>2. \A P \in Places(s, M) :
        \/ \E b \in 0..(s.c.table_size - 1) : P = Cell(b)
        \/ \E l \in M : P = NextOf(l)
  BY DEF Places
<1>3. /\ \A b : Cell(b).link = NULL /\ Cell(b).cell = b
      /\ \A l : NextOf(l).link = l
  BY DEF Cell, NextOf
<1>4. /\ \A l \in M : NextOf(l) \in Places(s, M)
      /\ \A b \in 0..(s.c.table_size - 1) : Cell(b) \in Places(s, M)
  BY DEF Places
<1> QED BY <1>1, <1>2, <1>3, <1>4

(* What an assignment through a place changes.                             *)
Assigned(s, P, x, t) ==
  /\ Typed(t) /\ DOMAIN t.h = DOMAIN s.h
  /\ t.c = [s.c EXCEPT !.table = t.c.table]
  /\ t.c.table_size = s.c.table_size
  /\ \A l \in DOMAIN s.h : t.h[l].data = s.h[l].data
  /\ \A Q \in Places(s, DOMAIN s.h) :
       Deref(t, Q) = IF Q = P THEN x ELSE Deref(s, Q)

LEMMA AssignPlace ==
  ASSUME NEW s, Typed(s), NEW P \in Places(s, DOMAIN s.h),
         NEW x \in Links \union {NULL}
  PROVE  Assigned(s, P, x, Assign(s, P, x))
<1> DEFINE t == Assign(s, P, x)
           D == DOMAIN s.h
<1>1. /\ s = [c |-> s.c, h |-> s.h] /\ IsCache(s.c)
      /\ s.c.table \in [0..(s.c.table_size - 1) -> Links \union {NULL}]
      /\ D \subseteq Links /\ s.h \in [D -> LinkObj]
      /\ s.c.table_size \in Nat \ {0}
  BY DEF Typed, IsCache
<1>2. \A Q \in Places(s, D) :
              \/ Q.link = NULL /\ Q = Cell(Q.cell) /\ Q.cell \in 0..(s.c.table_size - 1)
              \/ Q.link \in D /\ Q.link # NULL /\ Q = NextOf(Q.link)
  BY <1>1, PlaceKinds
<1>3. CASE P.link = NULL
  <2> DEFINE tb == [s.c.table EXCEPT ![P.cell] = x]
  <2>1. P.cell \in 0..(s.c.table_size - 1) /\ P = Cell(P.cell) BY <1>2, <1>3
  <2>2. t = [c |-> [s.c EXCEPT !.table = tb], h |-> s.h]
    BY <1>1, <1>3 DEF Assign, IsCache
  <2>3. /\ tb \in [0..(s.c.table_size - 1) -> Links \union {NULL}]
        /\ tb[P.cell] = x
        /\ \A b \in 0..(s.c.table_size - 1) : b # P.cell => tb[b] = s.c.table[b]
    BY <1>1, <2>1
  <2> HIDE DEF tb, t
  <2>4. /\ t.c = [s.c EXCEPT !.table = tb] /\ t.h = s.h /\ t = [c |-> t.c, h |-> t.h]
        /\ t.c.table = tb /\ t.c.table_size = s.c.table_size
    BY <2>2, <1>1 DEF IsCache
  <2>5. IsCache(t.c) BY <2>3, <2>4, <1>1 DEF IsCache
  <2>6. Typed(t) BY <1>1, <2>3, <2>4, <2>5 DEF Typed
  <2>7. ASSUME NEW Q \in Places(s, D)
        PROVE  Deref(t, Q) = IF Q = P THEN x ELSE Deref(s, Q)
    <3>1. CASE Q.link = NULL BY <3>1, <2>1, <2>3, <2>4, <1>2, <1>3 DEF Deref
    <3>2. CASE Q.link # NULL BY <3>2, <2>4, <1>3 DEF Deref
    <3> QED BY <3>1, <3>2
  <2> QED BY <2>4, <2>6, <2>7 DEF t, Assigned
<1>4. CASE P.link # NULL
  <2> DEFINE k == P.link
             g == [s.h EXCEPT ![k].next = x]
  <2>1. k \in D /\ P = NextOf(k) BY <1>2, <1>4
  <2>2. t = [c |-> s.c, h |-> g]
    BY <1>1, <1>4 DEF Assign
  <2>3. /\ g \in [D -> LinkObj]
        /\ g[k].next = x
        /\ \A l \in D : g[l].data = s.h[l].data
        /\ \A l \in D : l # k => g[l] = s.h[l]
    BY <1>1, <2>1 DEF LinkObj
  <2> HIDE DEF g, t
  <2>4. /\ t.c = s.c /\ t.h = g /\ t = [c |-> t.c, h |-> t.h] /\ DOMAIN g = D
    BY <2>2, <2>3
  <2>5. t.c = [s.c EXCEPT !.table = t.c.table] BY <2>4, <1>1 DEF IsCache
  <2>6. Typed(t) BY <1>1, <2>3, <2>4 DEF Typed
  <2>7. ASSUME NEW Q \in Places(s, D)
        PROVE  Deref(t, Q) = IF Q = P THEN x ELSE Deref(s, Q)
    <3>1. CASE Q.link = NULL BY <3>1, <2>4, <1>4 DEF Deref
    <3>2. CASE Q.link # NULL BY <3>2, <2>1, <2>3, <2>4, <1>2 DEF Deref
    <3> QED BY <3>1, <3>2
  <2> QED BY <2>3, <2>4, <2>5, <2>6, <2>7 DEF t, Assigned
<1> QED BY <1>3, <1>4

(* Linked says nothing of the links outside of M.                          *)
LEMMA LinkedAlike ==
  ASSUME NEW s, NEW t, NEW M \in SUBSET Links, NEW rank, Linked(s, M, rank),
         t.c.table = s.c.table, t.c.table_size = s.c.table_size,
         M \subseteq DOMAIN t.h, \A l \in M : t.h[l] = s.h[l]
  PROVE  Linked(t, M, rank)
<1>1. Places(t, M) = Places(s, M) BY DEF Places
<1>2. \A l \in M : BucketOf(t, l) = BucketOf(s, l) BY DEF BucketOf
<1>3. \A P \in Places(s, M) :
        Deref(t, P) = Deref(s, P) /\ PlaceBucket(t, P) = PlaceBucket(s, P)
  BY <1>2, PlaceKinds DEF Deref, PlaceBucket
<1> QED BY <1>1, <1>2, <1>3 DEF Linked

(* A link that is put into an empty place of its bucket, the end of its    *)
(* chain, joins the chain.                                                 *)
LEMMA AppendLink ==
  ASSUME NEW s, Typed(s), NEW M, NEW rank, Linked(s, M, rank),
         NEW P \in Places(s, M), Deref(s, P) = NULL,
         NEW l \in DOMAIN s.h \ M, s.h[l].next = NULL,
         PlaceBucket(s, P) = BucketOf(s, l)
  PROVE  \E r : Linked(Assign(s, P, l), M \union {l}, r)
<1> DEFINE t == Assign(s, P, l)
           D == DOMAIN s.h
           N == M \union {l}
           r == [m \in N |-> IF m = l THEN PlaceRank(rank, P) + 1 ELSE rank[m]]
<1>1. D \subseteq Links /\ M \subseteq D /\ rank \in [M -> Nat] /\ l \in Links
  BY DEF Typed, Linked
<1>2. Places(s, M) \subseteq Places(s, D) BY <1>1 DEF Places
<1>3. /\ DOMAIN t.h = D
      /\ t.c.table_size = s.c.table_size
      /\ \A m \in D : t.h[m].data = s.h[m].data
      /\ \A Q \in Places(s, D) : Deref(t, Q) = IF Q = P THEN l ELSE Deref(s, Q)
  <2>1. P \in Places(s, DOMAIN s.h) /\ l \in Links \union {NULL} BY <1>1, <1>2
  <2>2. Assigned(s, P, l, t) BY <2>1, AssignPlace
  <2> QED BY <2>2 DEF Assigned
<1> HIDE DEF t
<1>4. /\ Places(t, N) = Places(s, M) \union {NextOf(l)}
      /\ NextOf(l) \in Places(s, D)
  BY <1>3 DEF Places
<1>5. /\ \A Q \in Places(s, M) :
              \/ Q.link = NULL /\ Q = Cell(Q.cell) /\ Q.cell \in 0..(s.c.table_size - 1)
              \/ Q.link \in M /\ Q.link # NULL /\ Q = NextOf(Q.link)
      /\ NextOf(l).link = l /\ l # NULL
  BY <1>1, PlaceKinds, LinksFinite
<1>6. NextOf(l) # P /\ Deref(t, NextOf(l)) = NULL
  <2>1. NextOf(l) # P BY <1>5
  <2>2. Deref(s, NextOf(l)) = NULL BY <1>5 DEF Deref
  <2> QED BY <2>1, <2>2, <1>3, <1>4
<1>7. \A m \in D : BucketOf(t, m) = BucketOf(s, m) BY <1>3 DEF BucketOf
<1>8. \A Q \in Places(s, M) : PlaceBucket(t, Q) = PlaceBucket(s, Q)
  BY <1>1, <1>5, <1>7 DEF PlaceBucket
<1>9. /\ r \in [N -> Nat] /\ r[l] = PlaceRank(rank, P) + 1
      /\ \A m \in M : r[m] = rank[m]
      /\ \A Q \in Places(s, M) : PlaceRank(r, Q) = PlaceRank(rank, Q)
      /\ PlaceRank(r, P) < r[l]
  <2>1. PlaceRank(rank, P) \in Nat BY <1>1, <1>5 DEF PlaceRank
  <2>2. /\ r \in [N -> Nat] /\ r[l] = PlaceRank(rank, P) + 1
        /\ \A m \in M : r[m] = rank[m]
    BY <2>1, <1>1
  <2> HIDE DEF r
  <2>3. \A Q \in Places(s, M) : PlaceRank(r, Q) = PlaceRank(rank, Q)
    BY <2>2, <1>5 DEF PlaceRank
  <2> QED BY <2>1, <2>2, <2>3
<1> HIDE DEF r
<1>10. ASSUME NEW Q \in Places(t, N), Deref(t, Q) # NULL
       PROVE  /\ Deref(t, Q) \in N
              /\ BucketOf(t, Deref(t, Q)) = PlaceBucket(t, Q)
              /\ PlaceRank(r, Q) < r[Deref(t, Q)]
  <2>1. Q \in Places(s, M) BY <1>10, <1>4, <1>6
  <2>2. CASE Q = P BY <2>1, <2>2, <1>2, <1>3, <1>7, <1>8, <1>9
  <2>3. CASE Q # P
    <3>1. Deref(t, Q) = Deref(s, Q) BY <2>1, <2>3, <1>2, <1>3
    <3>2. /\ Deref(s, Q) \in M /\ BucketOf(s, Deref(s, Q)) = PlaceBucket(s, Q)
          /\ PlaceRank(rank, Q) < rank[Deref(s, Q)]
      BY <3>1, <2>1, <1>10 DEF Linked
    <3> QED BY <3>1, <3>2, <2>1, <1>1, <1>7, <1>8, <1>9
  <2> QED BY <2>2, <2>3
<1>11. ASSUME NEW m \in N PROVE \E Q \in Places(t, N) : Deref(t, Q) = m
  <2>1. CASE m = l BY <2>1, <1>2, <1>3, <1>4
  <2>2. CASE m \in M
    <3>1. PICK Q \in Places(s, M) : Deref(s, Q) = m BY <2>2 DEF Linked
    <3>2. Q # P BY <3>1, <2>2, <1>1, LinksFinite
    <3> QED BY <3>1, <3>2, <1>2, <1>3, <1>4
  <2> QED BY <2>1, <2>2
<1>12. ASSUME NEW Q \in Places(t, N), NEW R \in Places(t, N),
              Deref(t, Q) = Deref(t, R), Deref(t, Q) # NULL
       PROVE  Q = R
  <2>1. Q \in Places(s, M) /\ R \in Places(s, M) BY <1>12, <1>4, <1>6
  <2>2. \A S \in Places(s, M) : Deref(s, S) # l BY <1>5 DEF Linked
  <2>3. CASE Q = P \/ R = P BY <2>1, <2>2, <2>3, <1>12, <1>2, <1>3
  <2>4. CASE Q # P /\ R # P
    <3>1. Deref(s, Q) = Deref(s, R) /\ Deref(s, Q) # NULL
      BY <2>1, <2>4, <1>12, <1>2, <1>3
    <3> QED BY <3>1, <2>1 DEF Linked
  <2> QED BY <2>3, <2>4
<1>13. Linked(t, N, r)
  <2>1. N \subseteq DOMAIN t.h BY <1>1, <1>3
  <2> HIDE DEF N
  <2> QED BY <2>1, <1>9, <1>10, <1>11, <1>12 DEF Linked
<1> QED BY <1>13 DEF t

(* Taking the link out of its place, and putting what follows it there,    *)
(* leaves the chains of the other links.                                   *)
LEMMA RemoveLink ==
  ASSUME NEW s, Typed(s), NEW rank, Linked(s, DOMAIN s.h, rank),
         NEW P \in Places(s, DOMAIN s.h), NEW l, l = Deref(s, P), l # NULL,
         NEW t, t.c.table = Assign(s, P, s.h[l].next).c.table,
         t.c.table_size = s.c.table_size,
         t.h = [m \in DOMAIN s.h \ {l} |-> Assign(s, P, s.h[l].next).h[m]]
  PROVE  \E r : Linked(t, DOMAIN s.h \ {l}, r)
<1> DEFINE D == DOMAIN s.h
           M == D \ {l}
           x == s.h[l].next
           a == Assign(s, P, x)
           r == [m \in M |-> rank[m]]
<1>1. /\ D \subseteq Links /\ l \in D /\ rank \in [D -> Nat]
      /\ BucketOf(s, l) = PlaceBucket(s, P) /\ PlaceRank(rank, P) < rank[l]
      /\ s.h[l] \in LinkObj
  BY DEF Typed, Linked
<1>2. x \in Links \union {NULL} BY <1>1 DEF LinkObj
<1>3. Assigned(s, P, x, a) BY <1>2, AssignPlace
<1> HIDE DEF a
<1>4. /\ DOMAIN a.h = D
      /\ a.c.table_size = s.c.table_size
      /\ \A m \in D : a.h[m].data = s.h[m].data
      /\ \A Q \in Places(s, D) : Deref(a, Q) = IF Q = P THEN x ELSE Deref(s, Q)
  BY <1>3 DEF Assigned
<1>5. /\ t.c.table = a.c.table /\ DOMAIN t.h = M
      /\ \A m \in M : t.h[m] = a.h[m]
  BY DEF a
<1>6. /\ \A Q \in Places(s, D) :
              \/ Q.link = NULL /\ Q = Cell(Q.cell) /\ Q.cell \in 0..(s.c.table_size - 1)
              \/ Q.link \in D /\ Q.link # NULL /\ Q = NextOf(Q.link)
      /\ NextOf(l).link = l /\ NextOf(l) \in Places(s, D)
      /\ \A Q \in Places(t, M) : Q.link = NULL \/ Q.link \in M
  BY <1>1, PlaceKinds
<1>7. \A Q : Q \in Places(t, M) <=> Q \in Places(s, D) /\ Q # NextOf(l)
  <2>1. \A m \in M : NextOf(m) # NextOf(l) BY <1>1, PlaceKinds
  <2>2. \A b : Cell(b) # NextOf(l) BY <1>1, PlaceKinds
  <2> QED BY <2>1, <2>2 DEF Places
<1>8. P # NextOf(l)
  <2>1. P = NextOf(l) => P.link = l /\ P.link # NULL BY <1>6
  <2>2. P = NextOf(l) => PlaceRank(rank, P) = rank[l] BY <2>1 DEF PlaceRank
  <2>3. rank[l] \in Nat BY <1>1, Zenon
  <2> QED BY <2>2, <2>3, <1>1
<1>9. Deref(s, NextOf(l)) = x BY <1>6 DEF Deref
<1>10. \A Q \in Places(t, M) : Deref(t, Q) = IF Q = P THEN x ELSE Deref(s, Q)
  <2>1. ASSUME NEW Q \in Places(t, M) PROVE Deref(t, Q) = Deref(a, Q)
    <3>1. CASE Q.link = NULL
      <4>1. t.c.table[Q.cell] = a.c.table[Q.cell] BY <1>5, Zenon
      <4> QED BY <4>1, <3>1 DEF Deref
    <3>2. CASE Q.link # NULL
      <4>1. t.h[Q.link] = a.h[Q.link] BY <3>2, <1>5, <1>6
      <4> QED BY <4>1, <3>2 DEF Deref
    <3> QED BY <3>1, <3>2
  <2> QED BY <2>1, <1>4, <1>7
<1>11. \A m \in M : BucketOf(t, m) = BucketOf(s, m) BY <1>4, <1>5 DEF BucketOf
<1>12. \A Q \in Places(t, M) : /\ PlaceBucket(t, Q) = PlaceBucket(s, Q)
                               /\ PlaceRank(r, Q) = PlaceRank(rank, Q)
  BY <1>6, <1>11 DEF PlaceBucket, PlaceRank
<1>13. r \in [M -> Nat] /\ \A m \in M : r[m] = rank[m] BY <1>1
<1> HIDE DEF x, r
<1>14. x # NULL =>
         /\ x \in M /\ BucketOf(s, x) = PlaceBucket(s, P)
         /\ PlaceRank(rank, P) < rank[x]
         /\ \A Q \in Places(s, D) : Deref(s, Q) = x => Q = NextOf(l)
  <2> SUFFICES ASSUME x # NULL
               PROVE  /\ x \in M /\ BucketOf(s, x) = PlaceBucket(s, P)
                      /\ PlaceRank(rank, P) < rank[x]
                      /\ \A Q \in Places(s, D) : Deref(s, Q) = x => Q = NextOf(l)
    OBVIOUS
  <2>1. /\ x \in D /\ BucketOf(s, x) = PlaceBucket(s, NextOf(l))
        /\ PlaceRank(rank, NextOf(l)) < rank[x]
    BY <1>6, <1>9 DEF Linked
  <2>2. PlaceBucket(s, NextOf(l)) = BucketOf(s, l) /\ PlaceRank(rank, NextOf(l)) = rank[l]
    BY <1>6 DEF PlaceBucket, PlaceRank
  <2>3. rank[x] \in Nat /\ rank[l] \in Nat /\ PlaceRank(rank, P) \in Nat
    BY <2>1, <1>1, <1>6 DEF PlaceRank
  <2>4. x # l /\ PlaceRank(rank, P) < rank[x] BY <2>1, <2>2, <2>3, <1>1
  <2>5. \A Q \in Places(s, D) : Deref(s, Q) = x => Q = NextOf(l)
    BY <1>6, <1>9 DEF Linked
  <2> QED BY <2>1, <2>2, <2>4, <2>5, <1>1
<1>15. \A Q \in Places(s, D) : Deref(s, Q) = l => Q = P BY DEF Linked
<1>16. ASSUME NEW Q \in Places(t, M), Deref(t, Q) # NULL
       PROVE  /\ Deref(t, Q) \in M
              /\ BucketOf(t, Deref(t, Q)) = PlaceBucket(t, Q)
              /\ PlaceRank(r, Q) < r[Deref(t, Q)]
  <2>1. CASE Q = P BY <2>1, <1>10, <1>11, <1>12, <1>13, <1>14, <1>16
  <2>2. CASE Q # P
    <3>1. Deref(t, Q) = Deref(s, Q) /\ Q \in Places(s, D) BY <2>2, <1>7, <1>10
    <3>2. /\ Deref(s, Q) \in D /\ BucketOf(s, Deref(s, Q)) = PlaceBucket(s, Q)
          /\ PlaceRank(rank, Q) < rank[Deref(s, Q)]
      BY <3>1, <1>16 DEF Linked
    <3>3. Deref(s, Q) # l BY <3>1, <2>2, <1>15
    <3> QED BY <3>1, <3>2, <3>3, <1>11, <1>12, <1>13
  <2> QED BY <2>1, <2>2
<1>17. ASSUME NEW m \in M PROVE \E Q \in Places(t, M) : Deref(t, Q) = m
  <2>0. P \in Places(t, M) BY <1>7, <1>8
  <2>1. CASE m = x BY <2>0, <2>1, <1>10
  <2>2. CASE m # x
    <3>1. PICK Q \in Places(s, D) : Deref(s, Q) = m BY DEF Linked
    <3>2. Q # P /\ Q # NextOf(l) BY <3>1, <2>2, <1>9
    <3> QED BY <3>1, <3>2, <1>7, <1>10
  <2> QED BY <2>1, <2>2
<1>18. ASSUME NEW Q \in Places(t, M), NEW R \in Places(t, M),
              Deref(t, Q) = Deref(t, R), Deref(t, Q) # NULL
       PROVE  Q = R
  <2>1. CASE Q = P \/ R = P BY <2>1, <1>18, <1>7, <1>10, <1>14
  <2>2. CASE Q # P /\ R # P
    <3>1. Deref(s, Q) = Deref(s, R) /\ Deref(s, Q) # NULL
          /\ Q \in Places(s, D) /\ R \in Places(s, D)
      BY <2>2, <1>18, <1>7, <1>10
    <3> QED BY <3>1 DEF Linked
  <2> QED BY <2>1, <2>2
<1>19. Linked(t, M, r)
  <2>1. M \subseteq DOMAIN t.h BY <1>5
  <2> HIDE DEF M
  <2> QED BY <2>1, <1>13, <1>16, <1>17, <1>18 DEF Linked
<1> QED BY <1>19

(* What holds the first link of a chain, and the next of every link that   *)
(* it holds, holds the whole chain.                                        *)
LEMMA WholeChain ==
  ASSUME NEW s, NEW M, M \subseteq Links, NEW rank, Linked(s, M, rank), NEW b, NEW V,
         \A P \in Places(s, M) :
           /\ PlaceBucket(s, P) = b /\ Deref(s, P) # NULL
           /\ P.link = NULL \/ P.link \in V
           => Deref(s, P) \in V
  PROVE  \A l \in M : BucketOf(s, l) = b => l \in V
<1> DEFINE W == {l \in M : BucketOf(s, l) = b /\ l \notin V}
           T == {rank[l] : l \in W}
<1>1. SUFFICES ASSUME W # {} PROVE FALSE OBVIOUS
<1>2. rank \in [M -> Nat] BY DEF Linked
<1>3. T \in SUBSET Nat /\ T # {} BY <1>1, <1>2
<1>4. PICK l \in W : \A m \in W : rank[l] <= rank[m]
  <2>1. \E k \in T : \A j \in T : k <= j
    <3> HIDE DEF T
    <3> QED BY <1>3, LeastNat
  <2> QED BY <2>1
<1>5. PICK P \in Places(s, M) : Deref(s, P) = l BY DEF Linked
<1>6. l # NULL BY LinksFinite
<1>7. PlaceBucket(s, P) = b /\ PlaceRank(rank, P) < rank[l] BY <1>5, <1>6 DEF Linked
<1>8. P.link # NULL /\ P.link \notin V BY <1>5, <1>6, <1>7
<1>9. P.link \in M /\ BucketOf(s, P.link) = b /\ PlaceRank(rank, P) = rank[P.link]
  BY <1>7, <1>8, PlaceKinds DEF PlaceBucket, PlaceRank
<1>10. rank[l] <= rank[P.link] BY <1>4, <1>8, <1>9
<1> QED BY <1>2, <1>7, <1>9, <1>10
-----------------------------------------------------------------------------
(* f holds the places of the first n steps along the chain of bucket b.    *)
IsWalk(f, s, b, n) ==
  /\ f[0] = Cell(b)
  /\ \A i \in 1..n : f[i] = Onward(s, f[i - 1])

(* The recursion of Walk has a solution.                                   *)
LEMMA WalkExists ==
  ASSUME NEW s, NEW b, Count(s) \in Nat
  PROVE  IsWalk(Walk(s, b), s, b, Count(s))
<1> DEFINE n == Count(s)
           S_ == {i \in 0..n : \E f : DOMAIN f = 0..i /\ f = [j \in 0..i |-> f[j]]
                                        /\ IsWalk(f, s, b, i)}
<1>1. n \in Nat OBVIOUS
<1> HIDE DEF n
<1>2. 0 \in S_
  <2> DEFINE f == [j \in 0..0 |-> Cell(b)]
  <2>1. DOMAIN f = 0..0 /\ f = [j \in 0..0 |-> f[j]] /\ IsWalk(f, s, b, 0)
    BY DEF IsWalk
  <2> HIDE DEF f
  <2> QED BY <2>1, <1>1
<1>3. ASSUME NEW i \in 0..n, i # n, i \in S_ PROVE i + 1 \in S_
  <2>1. PICK f : DOMAIN f = 0..i /\ IsWalk(f, s, b, i) BY <1>3
  <2> DEFINE g == [j \in 0..(i+1) |-> IF j = i + 1 THEN Onward(s, f[i]) ELSE f[j]]
  <2>2. i \in Nat /\ i + 1 \in 1..n BY <1>1, <1>3
  <2>3. DOMAIN g = 0..(i+1) /\ g = [j \in 0..(i+1) |-> g[j]] /\ g[0] = Cell(b)
    BY <2>1, <2>2 DEF IsWalk
  <2>4. ASSUME NEW j \in 1..(i+1) PROVE g[j] = Onward(s, g[j-1])
    <3>1. CASE j = i + 1
      <4>1. g[j] = Onward(s, f[i]) BY <3>1, <2>2
      <4>2. g[j-1] = f[i] BY <3>1, <2>2
      <4> QED BY <4>1, <4>2
    <3>2. CASE j # i + 1
      <4>1. j \in 1..i BY <3>2, <2>2
      <4>2. g[j] = f[j] /\ g[j-1] = f[j-1] BY <4>1, <2>2
      <4> QED BY <4>1, <4>2, <2>1 DEF IsWalk
    <3> QED BY <3>1, <3>2
  <2> HIDE DEF g
  <2>5. IsWalk(g, s, b, i + 1) BY <2>3, <2>4 DEF IsWalk
  <2> QED BY <2>3, <2>5, <2>2
<1>4. n \in S_
  <2> HIDE DEF S_
  <2>1. \A i \in 0..n : i \in S_ BY <1>1, <1>2, <1>3, UpTo
  <2> QED BY <2>1, <1>1
<1>5. PICK f : f = [j \in 0..n |-> f[j]] /\ IsWalk(f, s, b, n) BY <1>4
<1> DEFINE Eq(w) == w = [i \in 0..n |-> IF i = 0 THEN Cell(b) ELSE Onward(s, w[i-1])]
<1>6. Eq(f)
  <2>1. \A i \in 0..n : f[i] = IF i = 0 THEN Cell(b) ELSE Onward(s, f[i-1])
    <3> SUFFICES ASSUME NEW i \in 0..n
                 PROVE  f[i] = IF i = 0 THEN Cell(b) ELSE Onward(s, f[i-1])
      OBVIOUS
    <3>1. i # 0 => i \in 1..n BY <1>1
    <3> QED BY <3>1, <1>5 DEF IsWalk
  <2> QED BY <2>1, <1>5
<1> DEFINE r == CHOOSE w : Eq(w)
<1>7. Walk(s, b) = r BY DEF Walk, n
<1>8. Eq(r)
  <2> HIDE DEF Eq
  <2> QED BY <1>6, Zenon
<1> HIDE DEF r
<1>9. IsWalk(r, s, b, n)
  <2>1. \A i \in 0..n : r[i] = IF i = 0 THEN Cell(b) ELSE Onward(s, r[i-1])
    BY <1>8
  <2> QED BY <2>1, <1>1 DEF IsWalk
<1> QED BY <1>7, <1>9 DEF n

(* The walk along a chain stays in it, meets all of its links and comes to *)
(* its end.                                                                *)
Walks(s, M, b, w, n) ==
  /\ w[0] = Cell(b)
  /\ \A i \in 0..n : w[i] \in Places(s, M) /\ PlaceBucket(s, w[i]) = b
  /\ \A i, j \in 0..n : i <= j /\ Deref(s, w[i]) = NULL => Deref(s, w[j]) = NULL
  /\ Deref(s, w[n]) = NULL
  /\ \A l \in M : BucketOf(s, l) = b => \E i \in 0..n : Deref(s, w[i]) = l

LEMMA CountIsNat ==
  ASSUME NEW s, Typed(s)
  PROVE  IsFiniteSet(DOMAIN s.h) /\ Count(s) \in Nat
<1>1. IsFiniteSet(DOMAIN s.h) BY LinksFinite, FS_Subset DEF Typed
<1> QED BY <1>1, FS_CardinalityType DEF Count

LEMMA WalkFacts ==
  ASSUME NEW s, Typed(s), NEW M, NEW rank, Linked(s, M, rank),
         NEW b \in 0..(s.c.table_size - 1)
  PROVE  Walks(s, M, b, Walk(s, b), Count(s))
<1> DEFINE w == Walk(s, b)
           n == Count(s)
           D == DOMAIN s.h
           d(i) == Deref(s, w[i])
<1>1. IsFiniteSet(D) /\ n \in Nat BY CountIsNat
<1>2. IsWalk(w, s, b, n) BY <1>1, WalkExists
<1> HIDE DEF w, n
<1>3. D \subseteq Links /\ M \subseteq D /\ M \subseteq Links /\ rank \in [M -> Nat]
  BY DEF Typed, Linked
<1>4. /\ \A l \in M : l # NULL /\ NextOf(l) \in Places(s, M) /\ NextOf(l).link = l
      /\ \A P \in Places(s, M) : P.link = NULL => P = Cell(P.cell)
      /\ \A P \in Places(s, M) : P.link # NULL => P.link \in M /\ P = NextOf(P.link)
      /\ Cell(b) \in Places(s, M) /\ Cell(b).link = NULL /\ Cell(b).cell = b
  BY <1>3, PlaceKinds
<1>5. \A l \in M : /\ PlaceBucket(s, NextOf(l)) = BucketOf(s, l)
                   /\ PlaceRank(rank, NextOf(l)) = rank[l]
  BY <1>4 DEF PlaceBucket, PlaceRank
<1>6. /\ w[0] = Cell(b)
      /\ \A i \in 0..n : i # n => w[i+1] = IF d(i) = NULL THEN w[i] ELSE NextOf(d(i))
  <2>1. ASSUME NEW i \in 0..n, i # n
        PROVE  w[i+1] = IF d(i) = NULL THEN w[i] ELSE NextOf(d(i))
    <3>1. i + 1 \in 1..n /\ (i + 1) - 1 = i BY <2>1, <1>1
    <3> QED BY <3>1, <1>2 DEF IsWalk, Onward
  <2> QED BY <2>1, <1>2 DEF IsWalk
<1>7. \A i \in 0..n : w[i] \in Places(s, M) /\ PlaceBucket(s, w[i]) = b
  <2> DEFINE S_ == {i \in 0..n : w[i] \in Places(s, M) /\ PlaceBucket(s, w[i]) = b}
  <2>1. 0 \in S_ BY <1>1, <1>4, <1>6 DEF PlaceBucket
  <2>2. ASSUME NEW i \in 0..n, i # n, i \in S_ PROVE i + 1 \in S_
    <3>1. i + 1 \in 0..n BY <2>2, <1>1
    <3>2. CASE d(i) = NULL BY <3>1, <3>2, <2>2, <1>6
    <3>3. CASE d(i) # NULL
      <4>1. d(i) \in M /\ BucketOf(s, d(i)) = b BY <3>3, <2>2 DEF Linked
      <4> QED BY <4>1, <3>1, <3>3, <2>2, <1>4, <1>5, <1>6
    <3> QED BY <3>2, <3>3
  <2> HIDE DEF S_
  <2>3. \A i \in 0..n : i \in S_ BY <1>1, <2>1, <2>2, UpTo
  <2> QED BY <2>3 DEF S_
<1>8. \A i, j \in 0..n : i <= j /\ d(i) = NULL => d(j) = NULL
  <2> SUFFICES ASSUME NEW i \in 0..n, d(i) = NULL
               PROVE  \A j \in 0..n : i <= j => d(j) = NULL
    OBVIOUS
  <2> DEFINE S_ == {j \in 0..n : i <= j => d(j) = NULL}
  <2>1. 0 \in S_ BY <1>1
  <2>2. ASSUME NEW j \in 0..n, j # n, j \in S_ PROVE j + 1 \in S_
    <3>1. j + 1 \in 0..n BY <2>2, <1>1
    <3>2. CASE i <= j BY <3>1, <3>2, <2>2, <1>6
    <3>3. CASE ~(i <= j)
      <4>1. i <= j + 1 => i = j + 1 BY <3>3, <1>1
      <4> QED BY <4>1, <3>1
    <3> QED BY <3>2, <3>3
  <2> HIDE DEF S_
  <2>3. \A j \in 0..n : j \in S_ BY <1>1, <2>1, <2>2, UpTo
  <2> QED BY <2>3 DEF S_
<1>9. d(n) = NULL
  <2> SUFFICES ASSUME d(n) # NULL PROVE FALSE OBVIOUS
  <2>1. \A i \in 0..n : d(i) # NULL BY <1>1, <1>8
  <2>2. \A i \in 0..n : d(i) \in M BY <2>1, <1>7 DEF Linked
  <2>3. \A i \in 0..n : i # n => rank[d(i)] < rank[d(i+1)]
    <3> SUFFICES ASSUME NEW i \in 0..n, i # n PROVE rank[d(i)] < rank[d(i+1)] OBVIOUS
    <3>1. i + 1 \in 0..n BY <1>1
    <3>2. w[i+1] = NextOf(d(i)) BY <2>1, <1>6
    <3>3. PlaceRank(rank, w[i+1]) < rank[d(i+1)]
      BY <3>1, <2>1, <1>7 DEF Linked
    <3> QED BY <3>2, <3>3, <2>2, <1>5
  <2>4. \A i, j \in 0..n : i < j => rank[d(i)] < rank[d(j)]
    <3> SUFFICES ASSUME NEW i \in 0..n
                 PROVE  \A j \in 0..n : i < j => rank[d(i)] < rank[d(j)]
      OBVIOUS
    <3> DEFINE S_ == {j \in 0..n : i < j => rank[d(i)] < rank[d(j)]}
    <3>1. 0 \in S_ BY <1>1
    <3>2. ASSUME NEW j \in 0..n, j # n, j \in S_ PROVE j + 1 \in S_
      <4>1. j + 1 \in 0..n BY <3>2, <1>1
      <4>2. /\ rank[d(i)] \in Nat /\ rank[d(j)] \in Nat /\ rank[d(j+1)] \in Nat
            /\ rank[d(j)] < rank[d(j+1)]
        BY <4>1, <3>2, <2>2, <2>3, <1>3
      <4>3. i < j + 1 => i = j \/ i < j BY <1>1
      <4>4. i < j => rank[d(i)] < rank[d(j)] BY <3>2
      <4> HIDE DEF d
      <4>5. i < j + 1 => rank[d(i)] < rank[d(j+1)] BY <4>2, <4>3, <4>4
      <4> QED BY <4>1, <4>5
    <3> HIDE DEF S_
    <3>3. \A j \in 0..n : j \in S_ BY <1>1, <3>1, <3>2, UpTo
    <3> QED BY <3>3 DEF S_
  <2> DEFINE f == [i \in 0..n |-> d(i)]
  <2>5. f \in Injection(0..n, D)
    <3>1. f \in [0..n -> D] BY <2>2, <1>3
    <3>2. ASSUME NEW i \in 0..n, NEW j \in 0..n, f[i] = f[j] PROVE i = j
      <4>1. d(i) = d(j) BY <3>2
      <4>2. rank[d(i)] \in Nat /\ rank[d(i)] = rank[d(j)] BY <4>1, <2>2, <1>3
      <4>3. ~(i < j) /\ ~(j < i) BY <4>2, <2>4
      <4> QED BY <4>3, <1>1
    <3> HIDE DEF f
    <3> QED BY <3>1, <3>2 DEF Injection, IsInjective
  <2>6. Cardinality(0..n) <= Cardinality(D)
    <3> HIDE DEF f
    <3> QED BY <2>5, <1>1, FS_Injection
  <2>7. Cardinality(0..n) = n + 1
    <3>1. 0 <= n /\ 0 \in Int /\ n \in Int BY <1>1
    <3>2. Cardinality(0..n) = IF 0 > n THEN 0 ELSE n - 0 + 1
      BY <3>1, FS_Interval
    <3> QED BY <3>1, <3>2
  <2> QED BY <2>6, <2>7, <1>1 DEF n, Count
<1>10. \A l \in M : BucketOf(s, l) = b => \E i \in 0..n : d(i) = l
  <2> DEFINE V == {d(i) : i \in 0..n}
  <2>1. ASSUME NEW P \in Places(s, M), PlaceBucket(s, P) = b, Deref(s, P) # NULL,
               P.link = NULL \/ P.link \in V
        PROVE  Deref(s, P) \in V
    <3>1. CASE P.link = NULL
      <4>1. P = Cell(b) BY <3>1, <2>1, <1>4 DEF PlaceBucket
      <4> QED BY <4>1, <1>1, <1>6
    <3>2. CASE P.link # NULL
      <4>1. PICK i \in 0..n : d(i) = P.link BY <3>2, <2>1
      <4>2. i # n BY <4>1, <3>2, <1>9
      <4>3. i + 1 \in 0..n BY <4>2, <1>1
      <4>4. w[i+1] = P BY <4>1, <4>2, <3>2, <1>4, <1>6
      <4> QED BY <4>3, <4>4
    <3> QED BY <3>1, <3>2
  <2> HIDE DEF V
  <2>2. \A l \in M : BucketOf(s, l) = b => l \in V BY <2>1, <1>3, WholeChain
  <2> QED BY <2>2 DEF V
<1> QED BY <1>6, <1>7, <1>8, <1>9, <1>10 DEF Walks, w, n
-----------------------------------------------------------------------------
KeyOf(s, l) == s.h[l].data.key

(* querry_hash returns a place of the key's bucket: the one with the key's *)
(* link, or the end of the chain, if no link has the key.                  *)
Querried(s, M, key, P) ==
  /\ P \in Places(s, M)
  /\ PlaceBucket(s, P) = map_to_location(Hash[key], s.c.table_size)
  /\ Deref(s, P) # NULL => Deref(s, P) \in M /\ KeyOf(s, Deref(s, P)) = key
  /\ Deref(s, P) = NULL => \A l \in M : KeyOf(s, l) # key

LEMMA KeyBucket ==
  ASSUME NEW key \in Keys, NEW n \in Nat \ {0}
  PROVE  map_to_location(Hash[key], n) \in 0..(n - 1)
<1>1. Hash[key] \in Nat BY HashAssumption
<1> QED BY <1>1 DEF map_to_location

LEMMA QuerryHash ==
  ASSUME NEW s, Typed(s), NEW M, NEW rank, Linked(s, M, rank), NEW key \in Keys
  PROVE  Querried(s, M, key, querry_hash(s, key))
<1> DEFINE b == map_to_location(Hash[key], s.c.table_size)
           w == Walk(s, b)
           n == Count(s)
           First(i) == /\ Stops(s, key, w[i]) \/ i = n
                       /\ \A j \in 0..(i - 1) : ~Stops(s, key, w[j])
           k == CHOOSE i \in 0..n : First(i)
<1>1. n \in Nat BY CountIsNat
<1>2. b \in 0..(s.c.table_size - 1) BY KeyBucket DEF Typed, IsCache
<1>3. Walks(s, M, b, w, n) BY <1>2, WalkFacts
<1>4. querry_hash(s, key) = w[k] BY DEF querry_hash
<1> HIDE DEF w, n
<1>5. \E i \in 0..n : First(i)
  <2> DEFINE T == {i \in 0..n : Stops(s, key, w[i])}
  <2>1. n \in T /\ T \in SUBSET Nat BY <1>1, <1>3 DEF Walks, Stops
  <2>2. PICK m \in T : \A i \in T : m <= i
    <3> HIDE DEF T
    <3> QED BY <2>1, LeastNat
  <2>3. m \in 0..n /\ Stops(s, key, w[m]) OBVIOUS
  <2>4. ASSUME NEW j \in 0..(m - 1) PROVE ~Stops(s, key, w[j])
    <3>1. j \in 0..n /\ ~(m <= j) BY <2>3, <1>1
    <3> QED BY <3>1, <2>2
  <2> QED BY <2>3, <2>4
<1>6. k \in 0..n /\ First(k)
  <2> HIDE DEF First
  <2> QED BY <1>5
<1> HIDE DEF k
<1>7. Stops(s, key, w[k]) BY <1>3, <1>6 DEF Walks, Stops
<1>8. w[k] \in Places(s, M) /\ PlaceBucket(s, w[k]) = b BY <1>3, <1>6 DEF Walks
<1>9. Deref(s, w[k]) # NULL => Deref(s, w[k]) \in M /\ KeyOf(s, Deref(s, w[k])) = key
  BY <1>7, <1>8 DEF Stops, KeyOf, Linked
<1>10. ASSUME Deref(s, w[k]) = NULL, NEW l \in M, KeyOf(s, l) = key PROVE FALSE
  <2>1. BucketOf(s, l) = b BY <1>10 DEF BucketOf, KeyOf
  <2>2. PICK j \in 0..n : Deref(s, w[j]) = l BY <2>1, <1>3 DEF Walks
  <2>3. Stops(s, key, w[j]) BY <2>2, <1>10 DEF Stops, KeyOf
  <2>4. ~(j \in 0..(k - 1)) BY <2>3, <1>6
  <2>5. k <= j BY <2>4, <1>1, <1>6
  <2>6. Deref(s, w[j]) = NULL BY <2>5, <1>3, <1>6, <1>10 DEF Walks
  <2>7. l # NULL BY LinksFinite DEF Linked, Typed
  <2> QED BY <2>2, <2>6, <2>7
<1> QED BY <1>4, <1>8, <1>9, <1>10 DEF Querried
-----------------------------------------------------------------------------
(* The parameters are those of module HashCache.                           *)
LEMMA Parameters ==
  /\ H!Keys = Keys /\ H!Link = Link
  /\ \A v, n : H!map_to_location(v, n) = map_to_location(v, n)
  /\ NULL \notin H!Link /\ NULL \notin MaxMems /\ MaxMems \subseteq Nat
  /\ default_table_size \in Nat \ {0} /\ Hash \in [H!Keys -> Nat]
  /\ SizeOf \in [Vals -> Sizes] /\ Sizes \subseteq Nat
<1>1. H!Keys = Keys BY DEF H!Keys, Keys
<1>2. H!Link = Link BY <1>1 DEF H!Link, Link
<1>3. \A v, n : H!map_to_location(v, n) = map_to_location(v, n)
  BY DEF H!map_to_location, map_to_location
<1> QED BY <1>1, <1>2, <1>3, NullIsNoLink, NullIsNoCapacity, CapacityAssumption,
           TableSizeAssumption, HashAssumption, SizeOfAssumption, SizesAssumption

(* The buckets of a state as sets of what their links store.               *)
AbsTable(s) ==
  [b \in 0..(s.c.table_size - 1) |->
     {s.h[l].data : l \in {m \in DOMAIN s.h : BucketOf(s, m) = b}}]

Abs(s) == [s.c EXCEPT !.table = AbsTable(s)]

OneLinkPerKey(s) ==
  \A l, m \in DOMAIN s.h : KeyOf(s, l) = KeyOf(s, m) => l = m

(* What every function finds and leaves.                                   *)
Chained(s) ==
  /\ Typed(s)
  /\ \E rank : Linked(s, DOMAIN s.h, rank)
  /\ OneLinkPerKey(s)
  /\ H!CacheInv(Abs(s))

LEMMA AbsFields ==
  ASSUME NEW s, Typed(s)
  PROVE  /\ Abs(s) = [maxmem |-> s.c.maxmem, mem_used |-> s.c.mem_used,
                      table_size |-> s.c.table_size,
                      num_elements |-> s.c.num_elements,
                      table |-> AbsTable(s), evic_policy |-> s.c.evic_policy]
         /\ \A l \in DOMAIN s.h : s.h[l].data \in Link /\ KeyOf(s, l) \in Keys
         /\ \A l \in DOMAIN s.h : BucketOf(s, l) \in 0..(s.c.table_size - 1)
         /\ \A k : H!Bucket(Abs(s), k) = map_to_location(Hash[k], s.c.table_size)
         /\ \A l : H!Bucket(Abs(s), KeyOf(s, l)) = BucketOf(s, l)
         /\ \A x : x \in H!AllLinks(Abs(s)) <=> \E l \in DOMAIN s.h : x = s.h[l].data
<1> DEFINE a == Abs(s)
           n == s.c.table_size
<1>1. /\ IsCache(s.c) /\ n \in Nat \ {0} /\ s.h \in [DOMAIN s.h -> LinkObj]
  BY DEF Typed, IsCache
<1>2. a = [maxmem |-> s.c.maxmem, mem_used |-> s.c.mem_used,
           table_size |-> n, num_elements |-> s.c.num_elements,
           table |-> AbsTable(s), evic_policy |-> s.c.evic_policy]
  <2> HIDE DEF n
  <2> QED BY <1>1 DEF IsCache, Abs, n
<1>3. \A l \in DOMAIN s.h : s.h[l].data \in Link /\ KeyOf(s, l) \in Keys
  BY <1>1 DEF LinkObj, Link, KeyOf
<1>4. \A l \in DOMAIN s.h : BucketOf(s, l) \in 0..(n - 1)
  BY <1>1, <1>3, KeyBucket DEF BucketOf, KeyOf
<1>5. a.table_size = n /\ a.table = AbsTable(s) BY <1>2
<1>6. /\ \A k : H!Bucket(a, k) = map_to_location(Hash[k], n)
      /\ \A l : H!Bucket(a, KeyOf(s, l)) = BucketOf(s, l)
  BY <1>5, Parameters DEF H!Bucket, BucketOf, KeyOf
<1>7. ASSUME NEW x
      PROVE  x \in H!AllLinks(a) <=> \E l \in DOMAIN s.h : x = s.h[l].data
  <2>1. x \in H!AllLinks(a) <=> \E b \in 0..(n - 1) : x \in AbsTable(s)[b]
    BY <1>5 DEF H!AllLinks
  <2>2. \A b \in 0..(n - 1) :
          x \in AbsTable(s)[b]
            <=> \E l \in DOMAIN s.h : BucketOf(s, l) = b /\ x = s.h[l].data
    BY DEF AbsTable
  <2> QED BY <2>1, <2>2, <1>4
<1> HIDE DEF a
<1> QED BY <1>2, <1>3, <1>4, <1>6, <1>7 DEF a

(* querry_hash finds what the one of HashCache finds.                      *)
DataAt(s, P) == IF Deref(s, P) = NULL THEN NULL ELSE s.h[Deref(s, P)].data

LEMMA QuerryAbs ==
  ASSUME NEW s, Chained(s), NEW key \in Keys
  PROVE  /\ Querried(s, DOMAIN s.h, key, querry_hash(s, key))
         /\ H!querry_hash(Abs(s), key) = DataAt(s, querry_hash(s, key))
<1> DEFINE P == querry_hash(s, key)
           a == Abs(s)
           x == H!querry_hash(a, key)
<1>1. Querried(s, DOMAIN s.h, key, P)
  <2>1. PICK rank : Linked(s, DOMAIN s.h, rank) BY DEF Chained
  <2> QED BY <2>1, QuerryHash DEF Chained
<1> HIDE DEF P
<1>2. /\ x = NULL \/ x \in H!AllLinks(a)
      /\ x # NULL => x.key = key
      /\ x = NULL <=> \A y \in H!AllLinks(a) : y.key # key
  <2>1. key \in H!Keys /\ H!CacheInv(a) BY Parameters DEF Chained
  <2> HIDE DEF a
  <2> QED BY <2>1, Parameters, H!QuerryHash
<1> HIDE DEF x
<1>3. \A y : y \in H!AllLinks(a) <=> \E l \in DOMAIN s.h : y = s.h[l].data
  BY AbsFields DEF Chained
<1>4. CASE Deref(s, P) = NULL
  <2>1. \A y \in H!AllLinks(a) : y.key # key BY <1>1, <1>3, <1>4 DEF Querried, KeyOf
  <2> QED BY <2>1, <1>1, <1>2, <1>4 DEF DataAt, P, x
<1>5. CASE Deref(s, P) # NULL
  <2> DEFINE l == Deref(s, P)
  <2>1. l \in DOMAIN s.h /\ KeyOf(s, l) = key BY <1>1, <1>5 DEF Querried
  <2>2. s.h[l].data \in H!AllLinks(a) /\ s.h[l].data.key = key BY <2>1, <1>3 DEF KeyOf
  <2>3. x # NULL /\ x \in H!AllLinks(a) /\ x.key = key BY <2>2, <1>2
  <2>4. PICK m \in DOMAIN s.h : x = s.h[m].data BY <2>3, <1>3
  <2>5. m = l BY <2>1, <2>3, <2>4 DEF Chained, OneLinkPerKey, KeyOf
  <2> QED BY <2>4, <2>5, <1>1, <1>5 DEF DataAt, P, x
<1> QED BY <1>4, <1>5
-----------------------------------------------------------------------------
(* A struct cache_obj by its members, and what assignments to them make.   *)
CacheRec(maxmem, mem_used, table_size, num_elements, table, evic_policy) ==
  [maxmem |-> maxmem, mem_used |-> mem_used, table_size |-> table_size,
   num_elements |-> num_elements, table |-> table, evic_policy |-> evic_policy]

LEMMA CacheMembers ==
  ASSUME NEW m, NEW u, NEW n, NEW k, NEW t, NEW p, NEW c, c = CacheRec(m, u, n, k, t, p)
  PROVE  /\ c.maxmem = m /\ c.mem_used = u /\ c.table_size = n
         /\ c.num_elements = k /\ c.table = t /\ c.evic_policy = p
BY DEF CacheRec

IsRec(c) == c = CacheRec(c.maxmem, c.mem_used, c.table_size, c.num_elements,
                         c.table, c.evic_policy)

Counting(c, x, y, z) == [c EXCEPT !.mem_used = x, !.num_elements = y, !.evic_policy = z]

LEMMA CacheCounters ==
  ASSUME NEW c, IsRec(c), NEW x, NEW y, NEW z
  PROVE  Counting(c, x, y, z) = CacheRec(c.maxmem, x, c.table_size, y, c.table, z)
<1> DEFINE m == c.maxmem
           u == c.mem_used
           n == c.table_size
           k == c.num_elements
           t == c.table
           p == c.evic_policy
<1>0. c = CacheRec(m, u, n, k, t, p) BY DEF IsRec
<1> HIDE DEF m, u, n, k, t, p
<1> DEFINE d == [c EXCEPT !.mem_used = x]
           e == [d EXCEPT !.num_elements = y]
<1>1. d = CacheRec(m, x, n, k, t, p) BY <1>0 DEF CacheRec
<1>2. e = CacheRec(m, x, n, y, t, p)
  <2> HIDE DEF d
  <2> QED BY <1>1 DEF CacheRec
<1>3. [e EXCEPT !.evic_policy = z] = CacheRec(m, x, n, y, t, z)
  <2> HIDE DEF e
  <2> QED BY <1>2 DEF CacheRec
<1>4. Counting(c, x, y, z) = [e EXCEPT !.evic_policy = z] BY DEF Counting
<1> QED BY <1>3, <1>4 DEF m, n, t

(* del_link of a place is del_link of the link in it.                      *)
LEMMA DelLink ==
  ASSUME NEW s, Chained(s), NEW P \in Places(s, DOMAIN s.h)
  PROVE  /\ Chained(del_link(s, P))
         /\ Abs(del_link(s, P)) = H!del_link(Abs(s), DataAt(s, P))
         /\ DOMAIN del_link(s, P).h = DOMAIN s.h \ {Deref(s, P)}
<1> DEFINE l == Deref(s, P)
           D == DOMAIN s.h
           a == Abs(s)
<1>1. PICK rank : Linked(s, D, rank) BY DEF Chained
<1>2. Typed(s) /\ D \subseteq Links /\ s.h \in [D -> LinkObj] /\ IsCache(s.c)
  BY DEF Chained, Typed
<1>3. CASE l = NULL
  <2>1. del_link(s, P) = s /\ DataAt(s, P) = NULL BY <1>3 DEF del_link, DataAt
  <2>2. NULL \notin D BY <1>2, LinksFinite
  <2> QED BY <2>1, <2>2, <1>3 DEF H!del_link
<1>4. CASE l # NULL
  <2> DEFINE x == s.h[l].data
             cut == Assign(s, P, s.h[l].next)
             t == del_link(s, P)
             u == H!Unlink(a, x)
  <2>1. l \in D /\ s.h[l] \in LinkObj BY <1>1, <1>2, <1>4 DEF Linked
  <2>2. Assigned(s, P, s.h[l].next, cut)
    <3>1. s.h[l].next \in Links \union {NULL} BY <2>1 DEF LinkObj
    <3> QED BY <3>1, <1>2, AssignPlace
  <2> HIDE DEF cut
  <2>3. /\ Typed(cut) /\ DOMAIN cut.h = D /\ IsCache(cut.c)
        /\ cut.c = [s.c EXCEPT !.table = cut.c.table]
        /\ cut.c.table_size = s.c.table_size
        /\ \A m \in D : cut.h[m].data = s.h[m].data
        /\ cut.h \in [D -> LinkObj]
    BY <2>2 DEF Assigned, Typed
  <2>4. t = [c |-> [cut.c EXCEPT !.mem_used = @ - x.val_size,
                                 !.num_elements = @ - 1,
                                 !.evic_policy = delete_info(@, x.key)],
             h |-> [m \in D \ {l} |-> cut.h[m]]]
    BY <1>4 DEF del_link, Rest, cut
  <2> HIDE DEF t
  <2>5. /\ t = [c |-> t.c, h |-> t.h]
        /\ t.c = [maxmem |-> s.c.maxmem, mem_used |-> s.c.mem_used - x.val_size,
                  table_size |-> s.c.table_size,
                  num_elements |-> s.c.num_elements - 1, table |-> cut.c.table,
                  evic_policy |-> delete_info(s.c.evic_policy, x.key)]
        /\ t.h = [m \in D \ {l} |-> cut.h[m]]
    <3>1. cut.c = [maxmem |-> s.c.maxmem, mem_used |-> s.c.mem_used,
                   table_size |-> s.c.table_size,
                   num_elements |-> s.c.num_elements, table |-> cut.c.table,
                   evic_policy |-> s.c.evic_policy]
      BY <2>3, <1>2 DEF IsCache
    <3> DEFINE g == [m \in D \ {l} |-> cut.h[m]]
               cc == [cut.c EXCEPT !.mem_used = @ - x.val_size,
                                   !.num_elements = @ - 1,
                                   !.evic_policy = delete_info(@, x.key)]
    <3> HIDE DEF x, l, D
    <3>2. cc = [maxmem |-> s.c.maxmem, mem_used |-> s.c.mem_used - x.val_size,
                table_size |-> s.c.table_size,
                num_elements |-> s.c.num_elements - 1, table |-> cut.c.table,
                evic_policy |-> delete_info(s.c.evic_policy, x.key)]
      <4> DEFINE A == cut.c.mem_used - x.val_size
                 B == cut.c.num_elements - 1
                 C == delete_info(cut.c.evic_policy, x.key)
      <4>1. /\ A = s.c.mem_used - x.val_size /\ B = s.c.num_elements - 1
            /\ C = delete_info(s.c.evic_policy, x.key)
        BY <3>1
      <4>2. cc = [cut.c EXCEPT !.mem_used = A, !.num_elements = B, !.evic_policy = C]
        OBVIOUS
      <4> HIDE DEF A, B, C, cc
      <4>3. cut.c = CacheRec(s.c.maxmem, s.c.mem_used, s.c.table_size,
                             s.c.num_elements, cut.c.table, s.c.evic_policy)
        BY <3>1 DEF CacheRec
      <4>4. cc = CacheRec(s.c.maxmem, A, s.c.table_size, B, cut.c.table, C)
        <5>1. cc = Counting(cut.c, A, B, C) BY <4>2 DEF Counting
        <5>2. IsRec(cut.c) BY <2>3 DEF IsCache, IsRec, CacheRec
        <5>3. cut.c.maxmem = s.c.maxmem /\ cut.c.table_size = s.c.table_size
          BY <4>3 DEF CacheRec
        <5> QED BY <5>1, <5>2, <5>3, CacheCounters
      <4> QED BY <4>1, <4>4 DEF CacheRec
    <3>3. t = [c |-> cc, h |-> g] BY <2>4
    <3> HIDE DEF cc, g
    <3>4. t.c = cc /\ t.h = g /\ t = [c |-> t.c, h |-> t.h] BY <3>3
    <3> QED BY <3>2, <3>4 DEF g
  <2>6. /\ DOMAIN t.h = D \ {l} /\ t.h \in [D \ {l} -> LinkObj]
        /\ t.c.table_size = s.c.table_size /\ t.c.table = cut.c.table
        /\ \A m \in D \ {l} : t.h[m].data = s.h[m].data
    BY <2>3, <2>5
  <2>7. Typed(t)
    <3>1. cut.c.table \in [0..(s.c.table_size - 1) -> Links \union {NULL}]
      BY <2>3 DEF IsCache
    <3>2. IsCache(t.c) BY <3>1, <2>5, <1>2 DEF IsCache
    <3> QED BY <3>2, <2>5, <2>6, <1>2 DEF Typed
  <2>8. \E r : Linked(t, DOMAIN t.h, r)
    <3>1. \E r : Linked(t, DOMAIN s.h \ {l}, r)
      BY <2>5, <2>6, <1>1, <1>2, <1>4, RemoveLink DEF cut
    <3>2. DOMAIN t.h = DOMAIN s.h \ {l} BY <2>6
    <3> QED BY <3>1, <3>2, ZenonT(20)
  <2>9. OneLinkPerKey(t)
    BY <2>6 DEF Chained, OneLinkPerKey, KeyOf
  <2>10. \A m \in D \ {l} : s.h[m].data # x /\ BucketOf(t, m) = BucketOf(s, m)
    <3>1. \A m \in D \ {l} : s.h[m].data # x
      BY <2>1 DEF Chained, OneLinkPerKey, KeyOf
    <3> QED BY <3>1, <2>6 DEF BucketOf
  <2>11. AbsTable(t) = [AbsTable(s) EXCEPT ![BucketOf(s, l)] = @ \ {x}]
    <3>1. ASSUME NEW b \in 0..(s.c.table_size - 1)
          PROVE  {t.h[m].data : m \in {k \in D \ {l} : BucketOf(t, k) = b}}
                   = IF b = BucketOf(s, l)
                     THEN {s.h[m].data : m \in {k \in D : BucketOf(s, k) = b}} \ {x}
                     ELSE {s.h[m].data : m \in {k \in D : BucketOf(s, k) = b}}
      BY <2>1, <2>6, <2>10
    <3> QED BY <3>1, <2>6 DEF AbsTable
  <2>12. /\ a = [maxmem |-> s.c.maxmem, mem_used |-> s.c.mem_used,
                 table_size |-> s.c.table_size, num_elements |-> s.c.num_elements,
                 table |-> AbsTable(s), evic_policy |-> s.c.evic_policy]
         /\ Abs(t) = [maxmem |-> t.c.maxmem, mem_used |-> t.c.mem_used,
                 table_size |-> t.c.table_size, num_elements |-> t.c.num_elements,
                 table |-> AbsTable(t), evic_policy |-> t.c.evic_policy]
         /\ H!Bucket(a, x.key) = BucketOf(s, l)
         /\ x \in H!AllLinks(a)
    <3>1. KeyOf(s, l) = x.key BY DEF KeyOf
    <3> QED BY <3>1, <2>1, <2>7, <1>2, AbsFields
  <2>13. u = [a EXCEPT !.table = [AbsTable(s) EXCEPT ![BucketOf(s, l)] = @ \ {x}],
                       !.mem_used = @ - x.val_size, !.num_elements = @ - 1,
                       !.evic_policy = delete_info(@, x.key)]
    <3>1. \A p, id : H!delete_info(p, id) = delete_info(p, id)
      BY DEF H!delete_info, delete_info, H!Without, Without, H!PositionOf, PositionOf
    <3> HIDE DEF a, x
    <3> QED BY <3>1, <2>12 DEF H!Unlink
  <2>14. Abs(t) = u
    <3> HIDE DEF a, x, u
    <3>1. a.mem_used = s.c.mem_used /\ a.num_elements = s.c.num_elements
          /\ a.evic_policy = s.c.evic_policy
      BY <2>12
    <3> DEFINE e == [AbsTable(s) EXCEPT ![BucketOf(s, l)] = @ \ {x}]
    <3>2. AbsTable(t) = e BY <2>11
    <3>3. u = [a EXCEPT !.table = e, !.mem_used = @ - x.val_size,
                        !.num_elements = @ - 1,
                        !.evic_policy = delete_info(@, x.key)]
      BY <2>13
    <3> HIDE DEF e, l
    <3>4. u = [maxmem |-> s.c.maxmem, mem_used |-> s.c.mem_used - x.val_size,
               table_size |-> s.c.table_size,
               num_elements |-> s.c.num_elements - 1, table |-> e,
               evic_policy |-> delete_info(s.c.evic_policy, x.key)]
      BY <3>3, <2>12
    <3>5. /\ t.c.maxmem = s.c.maxmem /\ t.c.mem_used = s.c.mem_used - x.val_size
          /\ t.c.table_size = s.c.table_size
          /\ t.c.num_elements = s.c.num_elements - 1
          /\ t.c.evic_policy = delete_info(s.c.evic_policy, x.key)
      BY <2>5
    <3> QED BY <3>2, <3>4, <3>5, <2>12
  <2>15. H!CacheInv(u)
    <3>1. H!CacheInv(a) BY DEF Chained
    <3> HIDE DEF a, x
    <3> QED BY <3>1, <2>12, Parameters, H!UnlinkKeeps
  <2>16. H!del_link(a, DataAt(s, P)) = u
    <3>1. x # NULL BY <2>1, NullIsNoLink DEF LinkObj
    <3> QED BY <3>1, <1>4 DEF H!del_link, DataAt
  <2>17. Chained(t) BY <2>7, <2>8, <2>9, <2>14, <2>15 DEF Chained
  <2> QED BY <2>6, <2>14, <2>16, <2>17 DEF t
<1> QED BY <1>3, <1>4
-----------------------------------------------------------------------------
(* The policy's functions are those of module HashCache.                   *)
LEMMA SamePolicy ==
  /\ \A m : H!create_policy(m) = create_policy(m)
  /\ \A p, id, size : H!create_info(p, id, size) = create_info(p, id, size)
  /\ \A p, id : H!info_gotten(p, id) = info_gotten(p, id)
  /\ \A p, size : H!ids_to_delete_if_added(p, size) = ids_to_delete_if_added(p, size)
<1>1. \A l, id : H!Without(l, id) = Without(l, id) /\ H!PositionOf(l, id) = PositionOf(l, id)
  BY DEF H!Without, Without, H!PositionOf, PositionOf
<1>2. \A l : H!RunningTotal(l) = RunningTotal(l) BY DEF H!RunningTotal, RunningTotal
<1>3. \A p, size : H!num_to_delete(p, size) = num_to_delete(p, size)
  BY <1>2 DEF H!num_to_delete, num_to_delete
<1>4. \A p, size : H!ids_to_delete_if_added(p, size) = ids_to_delete_if_added(p, size)
  BY <1>3 DEF H!ids_to_delete_if_added, ids_to_delete_if_added
<1>5. \A p, id : H!info_gotten(p, id) = info_gotten(p, id)
  BY <1>1 DEF H!info_gotten, info_gotten
<1> QED BY <1>4, <1>5 DEF H!create_policy, create_policy, H!create_info, create_info

LEMMA CacheDelete ==
  ASSUME NEW s, Chained(s), NEW key \in Keys
  PROVE  /\ Chained(cache_delete(s, key))
         /\ Abs(cache_delete(s, key)) = H!cache_delete(Abs(s), key)
         /\ DOMAIN cache_delete(s, key).h \subseteq DOMAIN s.h
<1> DEFINE P == querry_hash(s, key)
<1>1. P \in Places(s, DOMAIN s.h) BY QuerryAbs DEF Querried
<1>2. H!querry_hash(Abs(s), key) = DataAt(s, P) BY QuerryAbs
<1> HIDE DEF P
<1>3. /\ Chained(del_link(s, P))
      /\ Abs(del_link(s, P)) = H!del_link(Abs(s), DataAt(s, P))
      /\ DOMAIN del_link(s, P).h = DOMAIN s.h \ {Deref(s, P)}
  BY <1>1, DelLink
<1> QED BY <1>2, <1>3 DEF cache_delete, H!cache_delete, P
-----------------------------------------------------------------------------
(* f holds the states after each of the first n deletions of ids.          *)
IsDeletion(f, s, ids, n) ==
  /\ f[0] = s
  /\ \A i \in 1..n : f[i] = cache_delete(f[i - 1], ids[i])

(* The recursion of DeleteIds has a solution.                              *)
LEMMA DeletionsExist ==
  ASSUME NEW s, NEW ids, Len(ids) \in Nat
  PROVE  \E f : IsDeletion(f, s, ids, Len(ids)) /\ DeleteIds(s, ids) = f[Len(ids)]
<1> DEFINE n == Len(ids)
           S_ == {i \in 0..n : \E f : DOMAIN f = 0..i /\ f = [j \in 0..i |-> f[j]]
                                        /\ IsDeletion(f, s, ids, i)}
<1>1. n \in Nat OBVIOUS
<1> HIDE DEF n
<1>2. 0 \in S_
  <2> DEFINE f == [j \in 0..0 |-> s]
  <2>1. DOMAIN f = 0..0 /\ f = [j \in 0..0 |-> f[j]] /\ IsDeletion(f, s, ids, 0)
    BY DEF IsDeletion
  <2> HIDE DEF f
  <2> QED BY <2>1, <1>1
<1>3. ASSUME NEW i \in 0..n, i # n, i \in S_ PROVE i + 1 \in S_
  <2>1. PICK f : DOMAIN f = 0..i /\ IsDeletion(f, s, ids, i) BY <1>3
  <2> DEFINE g == [j \in 0..(i+1) |-> IF j = i + 1 THEN cache_delete(f[i], ids[i+1])
                                      ELSE f[j]]
  <2>2. i \in Nat /\ i + 1 \in 1..n BY <1>1, <1>3
  <2>3. DOMAIN g = 0..(i+1) /\ g = [j \in 0..(i+1) |-> g[j]] /\ g[0] = s
    BY <2>1, <2>2 DEF IsDeletion
  <2>4. ASSUME NEW j \in 1..(i+1) PROVE g[j] = cache_delete(g[j-1], ids[j])
    <3>1. CASE j = i + 1
      <4>1. g[j] = cache_delete(f[i], ids[i+1]) BY <3>1, <2>2
      <4>2. g[j-1] = f[i] BY <3>1, <2>2
      <4> QED BY <4>1, <4>2, <3>1
    <3>2. CASE j # i + 1
      <4>1. j \in 1..i BY <3>2, <2>2
      <4>2. g[j] = f[j] /\ g[j-1] = f[j-1] BY <4>1, <2>2
      <4> QED BY <4>1, <4>2, <2>1 DEF IsDeletion
    <3> QED BY <3>1, <3>2
  <2> HIDE DEF g
  <2>5. IsDeletion(g, s, ids, i + 1) BY <2>3, <2>4 DEF IsDeletion
  <2> QED BY <2>3, <2>5, <2>2
<1>4. n \in S_
  <2> HIDE DEF S_
  <2>1. \A i \in 0..n : i \in S_ BY <1>1, <1>2, <1>3, UpTo
  <2> QED BY <2>1, <1>1
<1>5. PICK f : f = [j \in 0..n |-> f[j]] /\ IsDeletion(f, s, ids, n) BY <1>4
<1> DEFINE Eq(after) == after = [i \in 0..n |-> IF i = 0 THEN s
                                      ELSE cache_delete(after[i-1], ids[i])]
<1>6. Eq(f)
  <2>1. \A i \in 0..n : f[i] = IF i = 0 THEN s ELSE cache_delete(f[i-1], ids[i])
    <3> SUFFICES ASSUME NEW i \in 0..n
                 PROVE  f[i] = IF i = 0 THEN s ELSE cache_delete(f[i-1], ids[i])
      OBVIOUS
    <3>1. i # 0 => i \in 1..n BY <1>1
    <3> QED BY <3>1, <1>5 DEF IsDeletion
  <2> QED BY <2>1, <1>5
<1> DEFINE r == CHOOSE after : Eq(after)
<1>7. DeleteIds(s, ids) = r[n] BY DEF DeleteIds, n
<1>8. Eq(r)
  <2> HIDE DEF Eq
  <2> QED BY <1>6, Zenon
<1> HIDE DEF r
<1>9. IsDeletion(r, s, ids, n)
  <2>1. \A i \in 0..n : r[i] = IF i = 0 THEN s ELSE cache_delete(r[i-1], ids[i])
    BY <1>8
  <2> QED BY <2>1, <1>1 DEF IsDeletion
<1> QED BY <1>7, <1>9 DEF n

LEMMA DeleteIdsAbs ==
  ASSUME NEW s, Chained(s), NEW ids \in Seq(Keys)
  PROVE  /\ Chained(DeleteIds(s, ids))
         /\ Abs(DeleteIds(s, ids)) = H!DeleteIds(Abs(s), ids)
         /\ DOMAIN DeleteIds(s, ids).h \subseteq DOMAIN s.h
<1> DEFINE n == Len(ids)
<1>1. n \in Nat /\ \A i \in 1..n : ids[i] \in Keys BY LenProperties
<1>2. PICK f : IsDeletion(f, s, ids, n) /\ DeleteIds(s, ids) = f[n]
  BY <1>1, DeletionsExist
<1>3. PICK g : H!IsDeletion(g, Abs(s), ids, n) /\ H!DeleteIds(Abs(s), ids) = g[n]
  BY H!DeletionsExist, Parameters
<1> DEFINE S_ == {i \in 0..n : /\ Chained(f[i]) /\ Abs(f[i]) = g[i]
                              /\ DOMAIN f[i].h \subseteq DOMAIN s.h}
<1> HIDE DEF n
<1>4. 0 \in S_ BY <1>1, <1>2, <1>3 DEF IsDeletion, H!IsDeletion
<1>5. ASSUME NEW i \in 0..n, i # n, i \in S_ PROVE i + 1 \in S_
  <2>1. i + 1 \in 1..n /\ i + 1 \in 0..n /\ (i + 1) - 1 = i BY <1>1, <1>5
  <2>2. /\ f[i+1] = cache_delete(f[i], ids[i+1])
        /\ g[i+1] = H!cache_delete(g[i], ids[i+1])
    BY <2>1, <1>2, <1>3 DEF IsDeletion, H!IsDeletion
  <2>3. ids[i+1] \in Keys BY <2>1, <1>1
  <2>4. Chained(f[i]) /\ Abs(f[i]) = g[i] /\ DOMAIN f[i].h \subseteq DOMAIN s.h BY <1>5
  <2>5. /\ Chained(f[i+1]) /\ Abs(f[i+1]) = g[i+1]
        /\ DOMAIN f[i+1].h \subseteq DOMAIN f[i].h
    BY <2>2, <2>3, <2>4, CacheDelete
  <2> QED BY <2>1, <2>4, <2>5
<1>6. n \in S_
  <2> HIDE DEF S_
  <2>1. \A i \in 0..n : i \in S_ BY <1>1, <1>4, <1>5, UpTo
  <2> QED BY <2>1, <1>1
<1> QED BY <1>2, <1>3, <1>6 DEF n
-----------------------------------------------------------------------------
(* Inside resize_table: t is a state on the way from s to a table of n     *)
(* buckets; the links of M have been moved, the others are as they were.   *)
Carried(s, n, t, M) ==
  /\ Typed(t) /\ DOMAIN t.h = DOMAIN s.h /\ M \subseteq DOMAIN s.h
  /\ t.c.table_size = n
  /\ t.c.maxmem = s.c.maxmem /\ t.c.mem_used = s.c.mem_used
  /\ t.c.num_elements = s.c.num_elements /\ t.c.evic_policy = s.c.evic_policy
  /\ \A l \in DOMAIN s.h : t.h[l].data = s.h[l].data
  /\ \A l \in DOMAIN s.h \ M : t.h[l] = s.h[l]
  /\ \E r : Linked(t, M, r)

(* Moving one more link.                                                   *)
LEMMA RelinkCarries ==
  ASSUME NEW s, Typed(s), OneLinkPerKey(s), NEW n, NEW t, NEW M, Carried(s, n, t, M),
         NEW l \in DOMAIN s.h \ M
  PROVE  Carried(s, n, Relink(t, l), M \union {l})
<1> DEFINE D == DOMAIN s.h
           a == Detached(t, l)
           key == a.h[l].data.key
           P == querry_hash(a, key)
           u == Assign(a, P, l)
<1>1. /\ Typed(t) /\ DOMAIN t.h = D /\ M \subseteq D /\ D \subseteq Links
      /\ t.c.table_size = n /\ t.h \in [D -> LinkObj] /\ IsCache(t.c)
      /\ t = [c |-> t.c, h |-> t.h]
      /\ \A m \in D : t.h[m].data = s.h[m].data
      /\ \A m \in D \ M : t.h[m] = s.h[m]
  BY DEF Carried, Typed
<1>2. PICK r : Linked(t, M, r) BY DEF Carried
<1>3. /\ a = [c |-> a.c, h |-> a.h] /\ a.c = t.c /\ DOMAIN a.h = D
      /\ a.h \in [D -> LinkObj] /\ a.h[l].next = NULL
      /\ \A m \in D : a.h[m].data = t.h[m].data
      /\ \A m \in D : m # l => a.h[m] = t.h[m]
  <2> DEFINE g == [t.h EXCEPT ![l].next = NULL]
  <2>1. a = [c |-> t.c, h |-> g] BY <1>1 DEF Detached
  <2>2. /\ DOMAIN g = D /\ g \in [D -> LinkObj] /\ g[l].next = NULL
        /\ \A m \in D : g[m].data = t.h[m].data
        /\ \A m \in D : m # l => g[m] = t.h[m]
    BY <1>1 DEF LinkObj
  <2> HIDE DEF g, a
  <2> QED BY <2>1, <2>2
<1> HIDE DEF a
<1>4. Typed(a) BY <1>1, <1>3 DEF Typed
<1>5. Linked(a, M, r) BY <1>1, <1>2, <1>3, LinkedAlike
<1>6. key \in Keys /\ key = KeyOf(s, l) BY <1>1, <1>3 DEF LinkObj, Link, KeyOf
<1>7. Querried(a, M, key, P) BY <1>4, <1>5, <1>6, QuerryHash
<1> HIDE DEF P
<1>8. Deref(a, P) = NULL
  <2> SUFFICES ASSUME Deref(a, P) # NULL PROVE FALSE OBVIOUS
  <2>1. Deref(a, P) \in M /\ KeyOf(a, Deref(a, P)) = key BY <1>7 DEF Querried
  <2>2. KeyOf(s, Deref(a, P)) = KeyOf(s, l) BY <2>1, <1>1, <1>3, <1>6 DEF KeyOf
  <2> QED BY <2>1, <2>2, <1>1 DEF OneLinkPerKey
<1>9. P \in Places(a, M) /\ PlaceBucket(a, P) = BucketOf(a, l)
  BY <1>7 DEF Querried, BucketOf
<1>10. \E q : Linked(u, M \union {l}, q)
  BY <1>1, <1>3, <1>4, <1>5, <1>8, <1>9, AppendLink
<1>11. Assigned(a, P, l, u)
  <2>1. P \in Places(a, DOMAIN a.h) BY <1>1, <1>3, <1>9 DEF Places
  <2> QED BY <2>1, <1>1, <1>4, AssignPlace
<1>12. Relink(t, l) = u BY DEF Relink, a, P
<1> HIDE DEF u
<1>13. /\ Typed(u) /\ DOMAIN u.h = D /\ u.c = [a.c EXCEPT !.table = u.c.table]
       /\ u.c.table_size = n /\ u.h \in [D -> LinkObj]
       /\ \A m \in D : u.h[m].data = a.h[m].data
       /\ \A Q \in Places(a, D) : Q # P => Deref(u, Q) = Deref(a, Q)
  BY <1>1, <1>3, <1>11 DEF Assigned, Typed
<1>14. ASSUME NEW m \in D \ (M \union {l}) PROVE u.h[m] = s.h[m]
  <2>1. /\ m # NULL /\ NextOf(m) \in Places(a, D) /\ NextOf(m).link = m
    BY <1>1, PlaceKinds
  <2>2. P.link = NULL \/ P.link \in M BY <1>1, <1>9, PlaceKinds
  <2>3. NextOf(m) # P BY <2>1, <2>2
  <2>4. u.h[m].next = a.h[m].next BY <2>1, <2>3, <1>13 DEF Deref
  <2>5. u.h[m].data = a.h[m].data BY <1>13
  <2>6. u.h[m] \in LinkObj /\ a.h[m] \in LinkObj BY <1>3, <1>13
  <2>7. u.h[m] = a.h[m] BY <2>4, <2>5, <2>6 DEF LinkObj
  <2> QED BY <2>7, <1>1, <1>3
<1>15. /\ u.c.maxmem = s.c.maxmem /\ u.c.mem_used = s.c.mem_used
       /\ u.c.num_elements = s.c.num_elements /\ u.c.evic_policy = s.c.evic_policy
  BY <1>1, <1>3, <1>13 DEF Carried, IsCache
<1>16. \A m \in D : u.h[m].data = s.h[m].data BY <1>1, <1>3, <1>13
<1> QED BY <1>1, <1>10, <1>12, <1>13, <1>14, <1>15, <1>16 DEF Carried

(* Where the loops of resize_table are: they have moved all links of the   *)
(* buckets before i and those of bucket i before cur.                      *)
Cursor(s, i, cur, M) ==
  /\ M \subseteq DOMAIN s.h
  /\ i \in 0..(s.c.table_size - 1)
  /\ cur # NULL => cur \in DOMAIN s.h \ M /\ BucketOf(s, cur) = i
  /\ \A l \in M : BucketOf(s, l) <= i
  /\ \A l \in DOMAIN s.h : BucketOf(s, l) < i => l \in M
  /\ \A P \in Places(s, DOMAIN s.h) :
       /\ PlaceBucket(s, P) = i /\ (P.link = NULL \/ P.link \in M)
       /\ Deref(s, P) # NULL
       => Deref(s, P) \in M \/ Deref(s, P) = cur
  /\ \A P \in Places(s, DOMAIN s.h) :
       /\ Deref(s, P) \in M \/ Deref(s, P) = cur
       /\ Deref(s, P) # NULL
       => P.link = NULL \/ P.link \in M

LEMMA BucketDone ==
  ASSUME NEW s, Typed(s), NEW rank, Linked(s, DOMAIN s.h, rank),
         NEW i, NEW M, Cursor(s, i, NULL, M)
  PROVE  \A l \in DOMAIN s.h : BucketOf(s, l) <= i => l \in M
<1>1. DOMAIN s.h \subseteq Links BY DEF Typed
<1>2. \A P \in Places(s, DOMAIN s.h) :
        /\ PlaceBucket(s, P) = i /\ Deref(s, P) # NULL
        /\ P.link = NULL \/ P.link \in M
        => Deref(s, P) \in M
  BY DEF Cursor
<1>3. \A l \in DOMAIN s.h : BucketOf(s, l) = i => l \in M BY <1>1, <1>2, WholeChain
<1>4. \A l \in DOMAIN s.h : BucketOf(s, l) \in Nat BY AbsFields DEF Typed, IsCache
<1>5. i \in Nat BY DEF Cursor, Typed, IsCache
<1> QED BY <1>3, <1>4, <1>5 DEF Cursor

LEMMA CursorStart ==
  ASSUME NEW s, Typed(s), NEW rank, Linked(s, DOMAIN s.h, rank)
  PROVE  Cursor(s, 0, s.c.table[0], {})
<1> DEFINE D == DOMAIN s.h
           cur == s.c.table[0]
<1>1. s.c.table_size \in Nat \ {0} /\ D \subseteq Links BY DEF Typed, IsCache
<1>2. \A P \in Places(s, D) :
        \/ P.link = NULL /\ P = Cell(P.cell) /\ P.cell \in 0..(s.c.table_size - 1)
        \/ P.link \in D /\ P.link # NULL /\ P = NextOf(P.link)
  BY <1>1, PlaceKinds
<1>3. /\ 0 \in 0..(s.c.table_size - 1)
      /\ Cell(0) \in Places(s, D) /\ Cell(0).link = NULL /\ Cell(0).cell = 0
  BY <1>1, PlaceKinds
<1>4. Deref(s, Cell(0)) = cur /\ PlaceBucket(s, Cell(0)) = 0
  BY <1>3 DEF Deref, PlaceBucket
<1>5. cur # NULL => cur \in D /\ BucketOf(s, cur) = 0 BY <1>3, <1>4 DEF Linked
<1>6. \A l \in D : BucketOf(s, l) \in Nat BY AbsFields DEF Typed, IsCache
<1>7. ASSUME NEW P \in Places(s, D), PlaceBucket(s, P) = 0, P.link = NULL
      PROVE  Deref(s, P) = cur
  <2>1. P = Cell(0) BY <1>2, <1>7 DEF PlaceBucket
  <2> QED BY <2>1, <1>4
<1>8. ASSUME NEW P \in Places(s, D), Deref(s, P) = cur, Deref(s, P) # NULL
      PROVE  P.link = NULL
  BY <1>3, <1>4, <1>8 DEF Linked
<1> HIDE DEF cur
<1> QED BY <1>1, <1>3, <1>5, <1>6, <1>7, <1>8 DEF Cursor, cur

LEMMA CursorLink ==
  ASSUME NEW s, Typed(s), NEW rank, Linked(s, DOMAIN s.h, rank),
         NEW i, NEW M, NEW cur, Cursor(s, i, cur, M), cur # NULL
  PROVE  Cursor(s, i, s.h[cur].next, M \union {cur})
<1> DEFINE D == DOMAIN s.h
           nxt == s.h[cur].next
<1>1. /\ s.c.table_size \in Nat \ {0} /\ D \subseteq Links
      /\ cur \in D \ M /\ BucketOf(s, cur) = i /\ M \subseteq D
  BY DEF Typed, IsCache, Cursor
<1>2. /\ \A P \in Places(s, D) : P.link = cur => P = NextOf(cur)
      /\ NextOf(cur) \in Places(s, D) /\ NextOf(cur).link = cur
  BY <1>1, PlaceKinds
<1>3. Deref(s, NextOf(cur)) = nxt /\ PlaceBucket(s, NextOf(cur)) = i
  BY <1>1, <1>2 DEF Deref, PlaceBucket
<1> HIDE DEF nxt
<1>4. nxt # NULL => nxt \in D /\ BucketOf(s, nxt) = i BY <1>2, <1>3 DEF Linked
<1>5. nxt # NULL => nxt \notin M /\ nxt # cur
  BY <1>1, <1>2, <1>3, SMTT(20) DEF Cursor
<1>6. ASSUME NEW P \in Places(s, D), Deref(s, P) = nxt, Deref(s, P) # NULL
      PROVE  P.link = cur
  BY <1>2, <1>3, <1>6 DEF Linked
<1>7. ASSUME NEW P \in Places(s, D), PlaceBucket(s, P) = i,
             P.link = NULL \/ P.link \in M \union {cur}, Deref(s, P) # NULL
      PROVE  Deref(s, P) \in M \union {cur} \/ Deref(s, P) = nxt
  <2>1. CASE P.link = cur BY <2>1, <1>2, <1>3
  <2>2. CASE P.link # cur BY <2>2, <1>7 DEF Cursor
  <2> QED BY <2>1, <2>2
<1>8. ASSUME NEW P \in Places(s, D), Deref(s, P) # NULL,
             Deref(s, P) \in M \union {cur} \/ Deref(s, P) = nxt
      PROVE  P.link = NULL \/ P.link \in M \union {cur}
  <2>1. CASE Deref(s, P) = nxt BY <2>1, <1>6, <1>8
  <2>2. CASE Deref(s, P) # nxt BY <2>2, <1>8 DEF Cursor
  <2> QED BY <2>1, <2>2
<1>9. i \in 0..(s.c.table_size - 1) /\ \A l \in M \union {cur} : BucketOf(s, l) <= i
  BY <1>1 DEF Cursor
<1>10. \A l \in D : BucketOf(s, l) < i => l \in M \union {cur} BY DEF Cursor
<1>11. M \union {cur} \subseteq D BY <1>1
<1> DEFINE N == M \union {cur}
<1>12. Cursor(s, i, nxt, N)
  <2>1. nxt # NULL => nxt \in D \ N /\ BucketOf(s, nxt) = i BY <1>4, <1>5
  <2> HIDE DEF N
  <2>2. /\ \A P \in Places(s, D) :
             /\ PlaceBucket(s, P) = i /\ (P.link = NULL \/ P.link \in N)
             /\ Deref(s, P) # NULL
             => Deref(s, P) \in N \/ Deref(s, P) = nxt
        /\ \A P \in Places(s, D) :
             /\ Deref(s, P) \in N \/ Deref(s, P) = nxt
             /\ Deref(s, P) # NULL
             => P.link = NULL \/ P.link \in N
    BY <1>7, <1>8 DEF N
  <2> QED BY <2>1, <2>2, <1>9, <1>10, <1>11 DEF Cursor, N
<1> QED BY <1>12 DEF nxt

LEMMA CursorCell ==
  ASSUME NEW s, Typed(s), NEW rank, Linked(s, DOMAIN s.h, rank),
         NEW i, NEW M, Cursor(s, i, NULL, M), i + 1 < s.c.table_size
  PROVE  Cursor(s, i + 1, s.c.table[i + 1], M)
<1> DEFINE D == DOMAIN s.h
           b == i + 1
           cur == s.c.table[b]
<1>1. /\ s.c.table_size \in Nat \ {0} /\ D \subseteq Links
      /\ i \in 0..(s.c.table_size - 1) /\ M \subseteq D
      /\ \A l \in M : BucketOf(s, l) <= i
  BY DEF Typed, IsCache, Cursor
<1>2. \A P \in Places(s, D) :
        \/ P.link = NULL /\ P = Cell(P.cell) /\ P.cell \in 0..(s.c.table_size - 1)
        \/ P.link \in D /\ P.link # NULL /\ P = NextOf(P.link)
  BY <1>1, PlaceKinds
<1>3. /\ b \in 0..(s.c.table_size - 1)
      /\ Cell(b) \in Places(s, D) /\ Cell(b).link = NULL /\ Cell(b).cell = b
  <2>1. b \in 0..(s.c.table_size - 1) BY <1>1
  <2> QED BY <2>1, <1>1, PlaceKinds
<1>4. Deref(s, Cell(b)) = cur /\ PlaceBucket(s, Cell(b)) = b
  BY <1>3 DEF Deref, PlaceBucket
<1>5. cur # NULL => cur \in D /\ BucketOf(s, cur) = b BY <1>3, <1>4 DEF Linked
<1>6. \A l \in D : BucketOf(s, l) \in Nat BY AbsFields DEF Typed, IsCache
<1>7. \A l \in M : BucketOf(s, l) < b BY <1>1, <1>6
<1>8. \A l \in D : BucketOf(s, l) < b => l \in M
  <2>1. \A l \in D : BucketOf(s, l) <= i => l \in M BY BucketDone
  <2> QED BY <2>1, <1>1, <1>6
<1>9. cur # NULL => cur \in D \ M BY <1>1, <1>5, <1>7
<1>10. \A l \in M : BucketOf(s, l) <= b BY <1>1, <1>6, <1>7
<1>11. ASSUME NEW P \in Places(s, D), PlaceBucket(s, P) = b,
              P.link = NULL \/ P.link \in M
       PROVE  Deref(s, P) = cur
  <2>1. P.link = NULL
    <3>1. P.link # NULL => P.link \in M /\ BucketOf(s, P.link) = b
      BY <1>11 DEF PlaceBucket
    <3> QED BY <3>1, <1>1, <1>6, <1>7
  <2>2. P = Cell(b) BY <2>1, <1>2, <1>11 DEF PlaceBucket
  <2> QED BY <2>2, <1>4
<1>12. ASSUME NEW P \in Places(s, D), Deref(s, P) # NULL,
              Deref(s, P) \in M \/ Deref(s, P) = cur
       PROVE  P.link = NULL \/ P.link \in M
  <2>1. CASE Deref(s, P) = cur BY <2>1, <1>3, <1>4, <1>12 DEF Linked
  <2>2. CASE Deref(s, P) # cur BY <2>2, <1>12 DEF Cursor
  <2> QED BY <2>1, <2>2
<1>13. Cursor(s, b, cur, M)
  <2> HIDE DEF b, cur
  <2> QED BY <1>1, <1>3, <1>5, <1>8, <1>9, <1>10, <1>11, <1>12 DEF Cursor
<1> QED BY <1>13
-----------------------------------------------------------------------------
RelinkStart(s, new_size) ==
  [s |-> [s EXCEPT !.c.table_size = new_size,
                   !.c.table = [b \in 0..(new_size - 1) |-> NULL]],
   i |-> 0, cur_l |-> s.c.table[0]]

(* f holds the states after each of the first n turns of the loops.        *)
IsRelinking(f, s, new_size, n) ==
  /\ f[0] = RelinkStart(s, new_size)
  /\ \A k \in 1..n : f[k] = RelinkNext(s.c.table, s.c.table_size, f[k - 1])

(* The recursion of Relinking has a solution.                              *)
LEMMA RelinkingExists ==
  ASSUME NEW s, NEW new_size, s.c.table_size + Count(s) \in Nat
  PROVE  IsRelinking(Relinking(s, new_size), s, new_size, s.c.table_size + Count(s))
<1> DEFINE n == s.c.table_size + Count(s)
           z == RelinkStart(s, new_size)
           R(w) == RelinkNext(s.c.table, s.c.table_size, w)
           S_ == {i \in 0..n : \E f : DOMAIN f = 0..i /\ f = [j \in 0..i |-> f[j]]
                                        /\ IsRelinking(f, s, new_size, i)}
<1>1. n \in Nat OBVIOUS
<1> HIDE DEF n
<1>2. 0 \in S_
  <2> DEFINE f == [j \in 0..0 |-> z]
  <2>1. DOMAIN f = 0..0 /\ f = [j \in 0..0 |-> f[j]] /\ IsRelinking(f, s, new_size, 0)
    BY DEF IsRelinking
  <2> HIDE DEF f
  <2> QED BY <2>1, <1>1
<1>3. ASSUME NEW i \in 0..n, i # n, i \in S_ PROVE i + 1 \in S_
  <2>1. PICK f : DOMAIN f = 0..i /\ IsRelinking(f, s, new_size, i) BY <1>3
  <2> DEFINE g == [j \in 0..(i+1) |-> IF j = i + 1 THEN R(f[i]) ELSE f[j]]
  <2>2. i \in Nat /\ i + 1 \in 1..n BY <1>1, <1>3
  <2>3. DOMAIN g = 0..(i+1) /\ g = [j \in 0..(i+1) |-> g[j]] /\ g[0] = z
    BY <2>1, <2>2 DEF IsRelinking
  <2>4. ASSUME NEW j \in 1..(i+1) PROVE g[j] = R(g[j-1])
    <3>1. CASE j = i + 1
      <4>1. g[j] = R(f[i]) BY <3>1, <2>2
      <4>2. g[j-1] = f[i] BY <3>1, <2>2
      <4> QED BY <4>1, <4>2
    <3>2. CASE j # i + 1
      <4>1. j \in 1..i BY <3>2, <2>2
      <4>2. g[j] = f[j] /\ g[j-1] = f[j-1] BY <4>1, <2>2
      <4> QED BY <4>1, <4>2, <2>1 DEF IsRelinking
    <3> QED BY <3>1, <3>2
  <2> HIDE DEF g
  <2>5. IsRelinking(g, s, new_size, i + 1) BY <2>3, <2>4 DEF IsRelinking
  <2> QED BY <2>3, <2>5, <2>2
<1>4. n \in S_
  <2> HIDE DEF S_
  <2>1. \A i \in 0..n : i \in S_ BY <1>1, <1>2, <1>3, UpTo
  <2> QED BY <2>1, <1>1
<1>5. PICK f : f = [j \in 0..n |-> f[j]] /\ IsRelinking(f, s, new_size, n) BY <1>4
<1> DEFINE Eq(w) == w = [i \in 0..n |-> IF i = 0 THEN z ELSE R(w[i-1])]
<1>6. Eq(f)
  <2>1. \A i \in 0..n : f[i] = IF i = 0 THEN z ELSE R(f[i-1])
    <3> SUFFICES ASSUME NEW i \in 0..n
                 PROVE  f[i] = IF i = 0 THEN z ELSE R(f[i-1])
      OBVIOUS
    <3>1. i # 0 => i \in 1..n BY <1>1
    <3> QED BY <3>1, <1>5 DEF IsRelinking
  <2> QED BY <2>1, <1>5
<1> DEFINE r == CHOOSE w : Eq(w)
<1>7. Relinking(s, new_size) = r BY DEF Relinking, n, RelinkStart
<1>8. Eq(r)
  <2> HIDE DEF Eq
  <2> QED BY <1>6, Zenon
<1> HIDE DEF r
<1>9. IsRelinking(r, s, new_size, n)
  <2>1. \A i \in 0..n : r[i] = IF i = 0 THEN z ELSE R(r[i-1])
    BY <1>8
  <2> QED BY <2>1, <1>1 DEF IsRelinking
<1> QED BY <1>7, <1>9 DEF n

(* The state after k turns: the links of M are moved, and if the loops are *)
(* not over, every turn has moved a link or gone to the next bucket.       *)
Turned(s, n, k, w, M) ==
  /\ Carried(s, n, w.s, M) /\ Cursor(s, w.i, w.cur_l, M)
  /\ k <= w.i + Cardinality(M) \/ (w.cur_l = NULL /\ w.i = s.c.table_size - 1)

LEMMA TurnStart ==
  ASSUME NEW s, Typed(s), NEW rank, Linked(s, DOMAIN s.h, rank), NEW n \in Nat \ {0}
  PROVE  Turned(s, n, 0, RelinkStart(s, n), {})
<1> DEFINE w == RelinkStart(s, n)
           t == w.s
           T == [b \in 0..(n - 1) |-> NULL]
<1>1. /\ s = [c |-> s.c, h |-> s.h] /\ IsCache(s.c)
      /\ DOMAIN s.h \subseteq Links /\ s.h \in [DOMAIN s.h -> LinkObj]
  BY DEF Typed
<1>2. w.i = 0 /\ w.cur_l = s.c.table[0]
      /\ t = [s EXCEPT !.c.table_size = n, !.c.table = T]
  BY DEF RelinkStart
<1>3. Cursor(s, w.i, w.cur_l, {}) BY <1>2, CursorStart
<1> HIDE DEF w
<1>4. t = [c |-> [[s.c EXCEPT !.table_size = n] EXCEPT !.table = T], h |-> s.h]
  <2> HIDE DEF T
  <2> QED BY <1>1, <1>2
<1>5. T \in [0..(n - 1) -> Links \union {NULL}] /\ \A b \in 0..(n - 1) : T[b] = NULL
  OBVIOUS
<1> HIDE DEF T, t
<1>6. /\ t = [c |-> t.c, h |-> t.h] /\ t.h = s.h
      /\ t.c = [[s.c EXCEPT !.table_size = n] EXCEPT !.table = T]
  BY <1>4
<1>7. t.c = CacheRec(s.c.maxmem, s.c.mem_used, n, s.c.num_elements, T, s.c.evic_policy)
  <2> DEFINE m == s.c.maxmem
             u == s.c.mem_used
             o == s.c.table_size
             k == s.c.num_elements
             v == s.c.table
             p == s.c.evic_policy
             d == [s.c EXCEPT !.table_size = n]
  <2>1. s.c = CacheRec(m, u, o, k, v, p) BY <1>1 DEF IsCache, CacheRec
  <2> HIDE DEF m, u, o, k, v, p
  <2>2. d = CacheRec(m, u, n, k, v, p) BY <2>1 DEF CacheRec
  <2> HIDE DEF d
  <2>3. [d EXCEPT !.table = T] = CacheRec(m, u, n, k, T, p) BY <2>2 DEF CacheRec
  <2> QED BY <2>3, <1>6 DEF d, m, u, k, p
<1>8. /\ t.c.maxmem = s.c.maxmem /\ t.c.mem_used = s.c.mem_used
      /\ t.c.table_size = n /\ t.c.num_elements = s.c.num_elements
      /\ t.c.table = T /\ t.c.evic_policy = s.c.evic_policy
  BY <1>7 DEF CacheRec
<1>9. IsCache(t.c) BY <1>5, <1>7, <1>8 DEF IsCache, CacheRec
<1>10. Typed(t) BY <1>1, <1>6, <1>9 DEF Typed
<1>11. \E r : Linked(t, {}, r)
  <2> DEFINE r == [l \in {} |-> 0]
  <2>1. \A P \in Places(t, {}) : Deref(t, P) = NULL
    BY <1>5, <1>8, PlaceKinds DEF Deref
  <2>2. r \in [{} -> Nat] OBVIOUS
  <2> HIDE DEF r
  <2>3. Linked(t, {}, r) BY <2>1, <2>2 DEF Linked
  <2> QED BY <2>3
<1>12. Carried(s, n, t, {}) BY <1>6, <1>8, <1>10, <1>11 DEF Carried
<1>13. 0 <= w.i + Cardinality({}) BY <1>2, FS_EmptySet
<1> QED BY <1>3, <1>12, <1>13 DEF Turned, w, t

LEMMA Turn ==
  ASSUME NEW s, Typed(s), OneLinkPerKey(s), NEW rank, Linked(s, DOMAIN s.h, rank),
         NEW n, NEW k \in Nat, NEW w, NEW M, Turned(s, n, k, w, M)
  PROVE  \E N : Turned(s, n, k + 1, RelinkNext(s.c.table, s.c.table_size, w), N)
<1> DEFINE D == DOMAIN s.h
           x == RelinkNext(s.c.table, s.c.table_size, w)
<1>1. /\ Carried(s, n, w.s, M) /\ Cursor(s, w.i, w.cur_l, M)
      /\ M \subseteq D /\ w.i \in Nat /\ w.i < s.c.table_size /\ s.c.table_size \in Nat
  BY DEF Turned, Cursor, Typed, IsCache
<1>2. IsFiniteSet(M) /\ Cardinality(M) \in Nat
  BY <1>1, CountIsNat, FS_Subset, FS_CardinalityType
<1>3. CASE w.cur_l # NULL
  <2> DEFINE l == w.cur_l
             N == M \union {l}
  <2>1. l \in D \ M BY <1>1, <1>3 DEF Cursor
  <2>2. x = [s |-> Relink(w.s, l), i |-> w.i, cur_l |-> w.s.h[l].next]
    BY <1>3 DEF RelinkNext
  <2>3. w.s.h[l].next = s.h[l].next BY <2>1, <1>1 DEF Carried
  <2>4. Carried(s, n, Relink(w.s, l), N) BY <2>1, <1>1, RelinkCarries
  <2>5. Cursor(s, w.i, s.h[l].next, N) BY <1>1, <1>3, CursorLink
  <2>6. Cardinality(N) = Cardinality(M) + 1 BY <2>1, <1>2, FS_AddElement
  <2>7. k <= w.i + Cardinality(M) BY <1>3 DEF Turned
  <2> HIDE DEF x, l, N
  <2>8. x.s = Relink(w.s, l) /\ x.i = w.i /\ x.cur_l = s.h[l].next BY <2>2, <2>3
  <2>9. k + 1 <= x.i + Cardinality(N) BY <2>6, <2>7, <2>8, <1>1, <1>2
  <2>10. Turned(s, n, k + 1, x, N) BY <2>4, <2>5, <2>8, <2>9 DEF Turned
  <2> QED BY <2>10 DEF x
<1>4. CASE w.cur_l = NULL /\ w.i + 1 < s.c.table_size
  <2>1. x = [s |-> w.s, i |-> w.i + 1, cur_l |-> s.c.table[w.i + 1]]
    BY <1>4 DEF RelinkNext
  <2>2. Cursor(s, w.i + 1, s.c.table[w.i + 1], M)
    <3> DEFINE i == w.i
    <3>1. Cursor(s, i, NULL, M) /\ i + 1 < s.c.table_size BY <1>1, <1>4
    <3> HIDE DEF i
    <3>2. Cursor(s, i + 1, s.c.table[i + 1], M) BY <3>1, CursorCell
    <3> QED BY <3>2 DEF i
  <2>3. k <= w.i + Cardinality(M) BY <1>1, <1>4 DEF Turned
  <2> HIDE DEF x
  <2>4. x.s = w.s /\ x.i = w.i + 1 /\ x.cur_l = s.c.table[w.i + 1] BY <2>1
  <2>5. k + 1 <= x.i + Cardinality(M) BY <2>3, <2>4, <1>1, <1>2
  <2>6. Turned(s, n, k + 1, x, M) BY <2>2, <2>4, <2>5, <1>1 DEF Turned
  <2> QED BY <2>6 DEF x
<1>5. CASE w.cur_l = NULL /\ ~(w.i + 1 < s.c.table_size)
  <2>1. x = w BY <1>5 DEF RelinkNext
  <2>2. w.i = s.c.table_size - 1 BY <1>1, <1>5
  <2>3. Turned(s, n, k + 1, w, M) BY <2>2, <1>1, <1>5 DEF Turned
  <2> QED BY <2>1, <2>3
<1> QED BY <1>3, <1>4, <1>5

(* resize_table moves every link.                                          *)
LEMMA ResizeCarries ==
  ASSUME NEW s, Typed(s), OneLinkPerKey(s), NEW rank, Linked(s, DOMAIN s.h, rank),
         NEW n \in Nat \ {0}
  PROVE  Carried(s, n, resize_table(s, n), DOMAIN s.h)
<1> DEFINE D == DOMAIN s.h
           B == s.c.table_size
           e == B + Count(s)
           f == Relinking(s, n)
           S_ == {k \in 0..e : \E M : Turned(s, n, k, f[k], M)}
<1>1. B \in Nat \ {0} /\ Count(s) \in Nat /\ IsFiniteSet(D) BY CountIsNat DEF Typed, IsCache
<1>2. e \in Nat BY <1>1
<1>3. IsRelinking(f, s, n, e) BY <1>2, RelinkingExists
<1> HIDE DEF f, e
<1>4. 0 \in S_
  <2>1. Turned(s, n, 0, f[0], {}) BY <1>3, TurnStart DEF IsRelinking
  <2> QED BY <2>1, <1>2
<1>5. ASSUME NEW k \in 0..e, k # e, k \in S_ PROVE k + 1 \in S_
  <2>1. k + 1 \in 1..e /\ k + 1 \in 0..e /\ (k + 1) - 1 = k /\ k \in Nat BY <1>2, <1>5
  <2>2. f[k+1] = RelinkNext(s.c.table, s.c.table_size, f[k])
    BY <2>1, <1>3 DEF IsRelinking
  <2>3. PICK M : Turned(s, n, k, f[k], M) BY <1>5
  <2>4. \E N : Turned(s, n, k + 1, f[k+1], N) BY <2>1, <2>2, <2>3, Turn
  <2> QED BY <2>1, <2>4
<1>6. e \in S_
  <2> HIDE DEF S_
  <2>1. \A k \in 0..e : k \in S_ BY <1>2, <1>4, <1>5, UpTo
  <2> QED BY <2>1, <1>2
<1>7. PICK M : Turned(s, n, e, f[e], M) BY <1>6
<1>8. /\ M \subseteq D /\ f[e].i \in 0..(B - 1) BY <1>7 DEF Turned, Cursor
<1>9. Cardinality(M) <= Count(s) /\ Cardinality(M) \in Nat
  BY <1>1, <1>8, FS_Subset, FS_CardinalityType DEF Count
<1>10. f[e].cur_l = NULL /\ f[e].i = B - 1
  <2>1. ~(e <= f[e].i + Cardinality(M)) BY <1>1, <1>8, <1>9 DEF e
  <2> QED BY <2>1, <1>7 DEF Turned
<1>11. Cursor(s, B - 1, NULL, M) BY <1>7, <1>10 DEF Turned
<1>12. \A l \in D : BucketOf(s, l) <= B - 1 => l \in M
  <2> DEFINE i == B - 1
  <2>1. Cursor(s, i, NULL, M) BY <1>11
  <2> HIDE DEF i
  <2>2. \A l \in D : BucketOf(s, l) <= i => l \in M BY <2>1, BucketDone
  <2> QED BY <2>2 DEF i
<1>13. \A l \in D : BucketOf(s, l) \in 0..(B - 1) BY AbsFields
<1>14. M = D BY <1>1, <1>8, <1>12, <1>13
<1>15. resize_table(s, n) = f[e].s BY DEF resize_table, f, e
<1> QED BY <1>7, <1>14, <1>15 DEF Turned
-----------------------------------------------------------------------------
(* Two more ways the members of a struct cache_obj are assigned to.        *)
Resizing(c, n, t) == [c EXCEPT !.table_size = n, !.table = t]

LEMMA CacheResizing ==
  ASSUME NEW c, IsRec(c), NEW n, NEW t
  PROVE  Resizing(c, n, t)
           = CacheRec(c.maxmem, c.mem_used, n, c.num_elements, t, c.evic_policy)
<1> DEFINE m == c.maxmem
           u == c.mem_used
           o == c.table_size
           k == c.num_elements
           v == c.table
           p == c.evic_policy
           d == [c EXCEPT !.table_size = n]
<1>1. c = CacheRec(m, u, o, k, v, p) BY DEF IsRec
<1> HIDE DEF m, u, o, k, v, p
<1>2. d = CacheRec(m, u, n, k, v, p) BY <1>1 DEF CacheRec
<1>3. Resizing(c, n, t) = [d EXCEPT !.table = t] BY DEF Resizing
<1> HIDE DEF d
<1>4. [d EXCEPT !.table = t] = CacheRec(m, u, n, k, t, p) BY <1>2 DEF CacheRec
<1> QED BY <1>3, <1>4 DEF m, u, k, p

LEMMA AbsRec ==
  ASSUME NEW s, Typed(s)
  PROVE  /\ IsRec(s.c) /\ IsRec(Abs(s))
         /\ Abs(s) = CacheRec(s.c.maxmem, s.c.mem_used, s.c.table_size,
                              s.c.num_elements, AbsTable(s), s.c.evic_policy)
         /\ Abs(s).maxmem = s.c.maxmem /\ Abs(s).mem_used = s.c.mem_used
         /\ Abs(s).table_size = s.c.table_size /\ Abs(s).table = AbsTable(s)
         /\ Abs(s).num_elements = s.c.num_elements
         /\ Abs(s).evic_policy = s.c.evic_policy
<1>1. Abs(s) = CacheRec(s.c.maxmem, s.c.mem_used, s.c.table_size,
                        s.c.num_elements, AbsTable(s), s.c.evic_policy)
  BY AbsFields DEF CacheRec
<1>2. /\ Abs(s).maxmem = s.c.maxmem /\ Abs(s).mem_used = s.c.mem_used
      /\ Abs(s).table_size = s.c.table_size /\ Abs(s).table = AbsTable(s)
      /\ Abs(s).num_elements = s.c.num_elements
      /\ Abs(s).evic_policy = s.c.evic_policy
  <2> DEFINE a == Abs(s)
  <2>1. a = CacheRec(s.c.maxmem, s.c.mem_used, s.c.table_size,
                     s.c.num_elements, AbsTable(s), s.c.evic_policy)
    BY <1>1
  <2> HIDE DEF a
  <2>2. /\ a.maxmem = s.c.maxmem /\ a.mem_used = s.c.mem_used
        /\ a.table_size = s.c.table_size /\ a.table = AbsTable(s)
        /\ a.num_elements = s.c.num_elements /\ a.evic_policy = s.c.evic_policy
    BY <2>1 DEF CacheRec
  <2> QED BY <2>2 DEF a
<1>3. IsRec(Abs(s)) BY <1>1, <1>2 DEF IsRec
<1>4. IsRec(s.c) BY DEF Typed, IsCache, IsRec, CacheRec
<1> QED BY <1>1, <1>2, <1>3, <1>4

(* What a function leaves that may have crowded the table.                 *)
Formed(s) ==
  /\ Typed(s)
  /\ \E rank : Linked(s, DOMAIN s.h, rank)
  /\ OneLinkPerKey(s)

LEMMA ResizeAbs ==
  ASSUME NEW s, Formed(s), NEW n \in Nat \ {0}
  PROVE  /\ Formed(resize_table(s, n))
         /\ Abs(resize_table(s, n)) = H!resize_table(Abs(s), n)
<1> DEFINE t == resize_table(s, n)
           D == DOMAIN s.h
           a == Abs(s)
           T == [b \in 0..(n - 1) |-> {x \in H!AllLinks(a) :
                                         map_to_location(Hash[x.key], n) = b}]
<1>1. Carried(s, n, t, D)
  <2>1. PICK rank : Linked(s, D, rank) BY DEF Formed
  <2> QED BY <2>1, ResizeCarries DEF Formed
<1> HIDE DEF t
<1>2. /\ Typed(t) /\ DOMAIN t.h = D /\ t.c.table_size = n
      /\ t.c.maxmem = s.c.maxmem /\ t.c.mem_used = s.c.mem_used
      /\ t.c.num_elements = s.c.num_elements /\ t.c.evic_policy = s.c.evic_policy
      /\ \A l \in D : t.h[l].data = s.h[l].data
      /\ \E r : Linked(t, D, r)
  BY <1>1 DEF Carried
<1>3. OneLinkPerKey(t) BY <1>2 DEF Formed, OneLinkPerKey, KeyOf
<1>4. Formed(t) BY <1>2, <1>3 DEF Formed
<1>5. AbsTable(t) = T
  <2>1. \A x : x \in H!AllLinks(a) <=> \E l \in D : x = s.h[l].data
    BY AbsFields DEF Formed
  <2> HIDE DEF a
  <2>2. \A l \in D : BucketOf(t, l) = map_to_location(Hash[s.h[l].data.key], n)
    BY <1>2 DEF BucketOf
  <2>3. ASSUME NEW b \in 0..(n - 1)
        PROVE  {t.h[l].data : l \in {m \in D : BucketOf(t, m) = b}}
                 = {x \in H!AllLinks(a) : map_to_location(Hash[x.key], n) = b}
    BY <2>1, <2>2, <1>2
  <2> QED BY <2>3, <1>2 DEF AbsTable
<1>6. H!resize_table(a, n) = Resizing(a, n, T)
  BY Parameters DEF H!resize_table, Resizing
<1>7. IsRec(a) /\ a.maxmem = s.c.maxmem /\ a.mem_used = s.c.mem_used
      /\ a.num_elements = s.c.num_elements /\ a.evic_policy = s.c.evic_policy
  BY AbsRec DEF Formed
<1> HIDE DEF a, T
<1>8. H!resize_table(a, n)
        = CacheRec(s.c.maxmem, s.c.mem_used, n, s.c.num_elements, T, s.c.evic_policy)
  BY <1>6, <1>7, CacheResizing
<1>9. Abs(t) = CacheRec(s.c.maxmem, s.c.mem_used, n, s.c.num_elements, T, s.c.evic_policy)
  BY <1>2, <1>5, AbsRec
<1> QED BY <1>4, <1>8, <1>9 DEF t, a
-----------------------------------------------------------------------------
Adding(c, p, u, k) == [c EXCEPT !.evic_policy = p, !.mem_used = u, !.num_elements = k]

AddingTo(s, p, u, k) ==
  [s EXCEPT !.c.evic_policy = p, !.c.mem_used = u, !.c.num_elements = k]

LEMMA CacheAdding ==
  ASSUME NEW c, IsRec(c), NEW p, NEW u, NEW k
  PROVE  Adding(c, p, u, k) = CacheRec(c.maxmem, u, c.table_size, k, c.table, p)
<1> DEFINE m == c.maxmem
           u0 == c.mem_used
           n == c.table_size
           k0 == c.num_elements
           t == c.table
           p0 == c.evic_policy
           d == [c EXCEPT !.evic_policy = p]
           e == [d EXCEPT !.mem_used = u]
<1>1. c = CacheRec(m, u0, n, k0, t, p0) BY DEF IsRec
<1> HIDE DEF m, u0, n, k0, t, p0
<1>2. d = CacheRec(m, u0, n, k0, t, p) BY <1>1 DEF CacheRec
<1>3. e = CacheRec(m, u, n, k0, t, p)
  <2> HIDE DEF d
  <2> QED BY <1>2 DEF CacheRec
<1>4. [e EXCEPT !.num_elements = k] = CacheRec(m, u, n, k, t, p)
  <2> HIDE DEF e
  <2> QED BY <1>3 DEF CacheRec
<1>5. Adding(c, p, u, k) = [e EXCEPT !.num_elements = k] BY DEF Adding
<1> QED BY <1>4, <1>5 DEF m, n, t

LEMMA StateAdding ==
  ASSUME NEW s, s = [c |-> s.c, h |-> s.h], IsRec(s.c), NEW p, NEW u, NEW k
  PROVE  AddingTo(s, p, u, k) = [c |-> Adding(s.c, p, u, k), h |-> s.h]
<1> DEFINE x == s.c
           g == s.h
           d == [x EXCEPT !.evic_policy = p]
           e == [d EXCEPT !.mem_used = u]
           f == [e EXCEPT !.num_elements = k]
           s1 == [s EXCEPT !.c.evic_policy = p]
           s2 == [s1 EXCEPT !.c.mem_used = u]
           s3 == [s2 EXCEPT !.c.num_elements = k]
<1>1. s = [c |-> x, h |-> g] OBVIOUS
<1> HIDE DEF x, g
<1>2. s1 = [c |-> d, h |-> g] BY <1>1
<1>3. s2 = [c |-> e, h |-> g]
  <2> HIDE DEF s1, d
  <2> QED BY <1>2
<1>4. s3 = [c |-> f, h |-> g]
  <2> HIDE DEF s2, e
  <2> QED BY <1>3
<1>5. AddingTo(s, p, u, k) = s3 BY DEF AddingTo
<1>6. Adding(x, p, u, k) = f BY DEF Adding
<1> QED BY <1>4, <1>5, <1>6 DEF x, g

(* t is s with a new link for the item, whose key s does not have.         *)
Extended(s, t, item, new) ==
  /\ Formed(t) /\ DOMAIN t.h = DOMAIN s.h \union {new}
  /\ t.c.table_size = s.c.table_size /\ t.c.maxmem = s.c.maxmem
  /\ t.c.mem_used = s.c.mem_used /\ t.c.num_elements = s.c.num_elements
  /\ t.c.evic_policy = s.c.evic_policy
  /\ t.h[new].data = item /\ \A l \in DOMAIN s.h : t.h[l].data = s.h[l].data

LEMMA NewLink ==
  ASSUME NEW s, Formed(s), NEW P \in Places(s, DOMAIN s.h), Deref(s, P) = NULL,
         NEW item \in Link, NEW new \in Links \ DOMAIN s.h,
         PlaceBucket(s, P) = map_to_location(Hash[item.key], s.c.table_size),
         \A l \in DOMAIN s.h : KeyOf(s, l) # item.key
  PROVE  Extended(s, assign_to_link(s, P, item, new), item, new)
<1> DEFINE D == DOMAIN s.h
           N == D \union {new}
           t == assign_to_link(s, P, item, new)
           o == [data |-> item, next |-> NULL]
           g == [c |-> s.c, h |-> [l \in N |-> IF l = new THEN o ELSE s.h[l]]]
           v == Assign(g, P, new)
           w == Assign(s, P, new)
<1>1. /\ Typed(s) /\ s = [c |-> s.c, h |-> s.h] /\ IsCache(s.c)
      /\ D \subseteq Links /\ s.h \in [D -> LinkObj]
  BY DEF Formed, Typed
<1>2. o \in LinkObj /\ o.data = item /\ o.next = NULL BY DEF LinkObj
<1>3. PICK rank : Linked(s, D, rank) BY DEF Formed
<1> HIDE DEF o
<1>4. /\ g = [c |-> g.c, h |-> g.h] /\ g.c = s.c /\ DOMAIN g.h = N
      /\ g.h \in [N -> LinkObj] /\ g.h[new] = o
      /\ \A l \in D : g.h[l] = s.h[l]
  BY <1>1, <1>2
<1> HIDE DEF g
<1>5. Typed(g) BY <1>1, <1>4 DEF Typed
<1>6. Linked(g, D, rank) BY <1>1, <1>3, <1>4, LinkedAlike
<1>7. P \in Places(g, D) /\ P \in Places(g, N) BY <1>4 DEF Places
<1>8. /\ P.link = NULL \/ (P.link \in D /\ P.link # new)
      /\ P.link = NULL => P = Cell(P.cell)
      /\ P.link # NULL => P = NextOf(P.link)
  BY <1>1, PlaceKinds
<1>9. Deref(g, P) = NULL BY <1>4, <1>8 DEF Deref
<1>10. PlaceBucket(g, P) = BucketOf(g, new)
  <2>1. PlaceBucket(g, P) = PlaceBucket(s, P) BY <1>4, <1>8 DEF PlaceBucket, BucketOf
  <2>2. BucketOf(g, new) = map_to_location(Hash[item.key], s.c.table_size)
    BY <1>2, <1>4 DEF BucketOf
  <2> QED BY <2>1, <2>2
<1>11. \E r : Linked(v, D \union {new}, r)
  <2>1. new \in DOMAIN g.h \ D /\ g.h[new].next = NULL BY <1>2, <1>4
  <2> QED BY <2>1, <1>5, <1>6, <1>7, <1>9, <1>10, AppendLink
<1>12. Assigned(g, P, new, v) BY <1>4, <1>5, <1>7, AssignPlace
<1>13. Assigned(s, P, new, w) BY <1>1, AssignPlace
<1>14. t = [w EXCEPT !.h = [l \in DOMAIN @ \union {new} |->
                             IF l = new THEN o ELSE @[l]]]
  BY DEF assign_to_link, o
<1> HIDE DEF v, w, t
<1>15. /\ Typed(w) /\ DOMAIN w.h = D /\ w.c.table_size = s.c.table_size
       /\ w.c = [s.c EXCEPT !.table = w.c.table] /\ IsCache(w.c)
       /\ w = [c |-> w.c, h |-> w.h] /\ w.h \in [D -> LinkObj]
       /\ \A l \in D : w.h[l].data = s.h[l].data
       /\ \A Q \in Places(s, D) : Deref(w, Q) = IF Q = P THEN new ELSE Deref(s, Q)
  BY <1>13 DEF Assigned, Typed
<1>16. /\ Typed(v) /\ DOMAIN v.h = N /\ v.c.table_size = s.c.table_size
       /\ IsCache(v.c) /\ v.h \in [N -> LinkObj]
       /\ \A l \in N : v.h[l].data = g.h[l].data
       /\ \A Q \in Places(g, N) : Deref(v, Q) = IF Q = P THEN new ELSE Deref(g, Q)
  BY <1>4, <1>12 DEF Assigned, Typed
<1>17. /\ t = [c |-> t.c, h |-> t.h] /\ t.c = w.c /\ DOMAIN t.h = N
       /\ t.h \in [N -> LinkObj] /\ t.h[new] = o /\ \A l \in D : t.h[l] = w.h[l]
  <2> DEFINE e == [l \in DOMAIN w.h \union {new} |-> IF l = new THEN o ELSE w.h[l]]
  <2>1. t = [w EXCEPT !.h = e] BY <1>14
  <2>2. DOMAIN e = N /\ e \in [N -> LinkObj] /\ e[new] = o /\ \A l \in D : e[l] = w.h[l]
    BY <1>2, <1>15
  <2> HIDE DEF e
  <2>3. t = [c |-> w.c, h |-> e] BY <2>1, <1>15
  <2> QED BY <2>2, <2>3
<1>18. Typed(t)
  <2>1. N \subseteq Links BY <1>1
  <2> HIDE DEF N
  <2> QED BY <2>1, <1>15, <1>17 DEF Typed
<1>19. t.c.table = v.c.table
  <2>1. ASSUME NEW b \in 0..(s.c.table_size - 1) PROVE w.c.table[b] = v.c.table[b]
    <3>1. /\ Cell(b) \in Places(s, D) /\ Cell(b) \in Places(g, N)
          /\ Cell(b).link = NULL /\ Cell(b).cell = b
      BY <1>4, PlaceKinds DEF Places
    <3>2. Deref(w, Cell(b)) = Deref(v, Cell(b))
      <4>1. Deref(s, Cell(b)) = Deref(g, Cell(b)) BY <3>1, <1>4 DEF Deref
      <4> QED BY <4>1, <3>1, <1>15, <1>16
    <3> QED BY <3>1, <3>2 DEF Deref
  <2>2. /\ w.c.table \in [0..(s.c.table_size - 1) -> Links \union {NULL}]
        /\ v.c.table \in [0..(s.c.table_size - 1) -> Links \union {NULL}]
    BY <1>15, <1>16 DEF IsCache
  <2>3. w.c.table = v.c.table
    <3> DEFINE x == w.c.table
               y == v.c.table
               B == 0..(s.c.table_size - 1)
    <3>1. x \in [B -> Links \union {NULL}] /\ y \in [B -> Links \union {NULL}]
          /\ \A b \in B : x[b] = y[b]
      BY <2>1, <2>2
    <3> HIDE DEF x, y, B
    <3>2. x = y BY <3>1
    <3> QED BY <3>2 DEF x, y
  <2> QED BY <2>3, <1>17
<1>20. \A l \in N : t.h[l] = v.h[l]
  <2> SUFFICES ASSUME NEW l \in N PROVE t.h[l] = v.h[l] OBVIOUS
  <2>1. t.h[l] \in LinkObj /\ v.h[l] \in LinkObj BY <1>16, <1>17
  <2>2. N \subseteq Links BY <1>1
  <2>3. /\ NextOf(l) \in Places(g, N) /\ NextOf(l).link = l /\ l # NULL
    BY <2>2, PlaceKinds
  <2>4. v.h[l].next = IF NextOf(l) = P THEN new ELSE g.h[l].next
    BY <2>3, <1>16 DEF Deref
  <2>5. CASE l = new
    <3>1. NextOf(l) # P BY <2>3, <2>5, <1>8
    <3>2. v.h[l].next = o.next /\ v.h[l].data = o.data
      BY <3>1, <2>4, <2>5, <1>4, <1>16
    <3> QED BY <3>2, <2>1, <2>5, <1>17 DEF LinkObj
  <2>6. CASE l \in D
    <3>1. NextOf(l) \in Places(s, D) BY <2>6 DEF Places
    <3>2. w.h[l].next = IF NextOf(l) = P THEN new ELSE s.h[l].next
      BY <3>1, <2>3, <1>15 DEF Deref
    <3>3. w.h[l].next = v.h[l].next BY <3>2, <2>4, <2>6, <1>4
    <3>4. w.h[l].data = v.h[l].data BY <2>6, <1>4, <1>15, <1>16
    <3>5. t.h[l] = w.h[l] BY <2>6, <1>17
    <3> QED BY <3>3, <3>4, <3>5, <2>1 DEF LinkObj
  <2> QED BY <2>5, <2>6
<1>21. \E r : Linked(t, DOMAIN t.h, r)
  <2>1. PICK r : Linked(v, N, r) BY <1>11
  <2>2. N \in SUBSET Links BY <1>1
  <2> HIDE DEF N
  <2>3. t.c.table_size = v.c.table_size BY <1>15, <1>16, <1>17
  <2>4. Linked(t, N, r) BY <2>1, <2>2, <2>3, <1>17, <1>19, <1>20, LinkedAlike
  <2> QED BY <2>4, <1>17
<1>22. t.h[new].data = item /\ \A l \in D : t.h[l].data = s.h[l].data
  BY <1>2, <1>15, <1>17
<1>23. OneLinkPerKey(t)
  BY <1>17, <1>22 DEF Formed, OneLinkPerKey, KeyOf
<1>24. /\ t.c.table_size = s.c.table_size /\ t.c.maxmem = s.c.maxmem
       /\ t.c.mem_used = s.c.mem_used /\ t.c.num_elements = s.c.num_elements
       /\ t.c.evic_policy = s.c.evic_policy
  BY <1>1, <1>15, <1>17 DEF IsCache
<1> QED BY <1>17, <1>18, <1>21, <1>22, <1>23, <1>24 DEF Extended, Formed, t

(* add_to_cache of a key that is not there, when there is room.            *)
LEMMA AddToCache ==
  ASSUME NEW s, Chained(s), NEW key \in Keys, NEW val \in Vals,
         NEW new \in Links \ DOMAIN s.h,
         \A l \in DOMAIN s.h : KeyOf(s, l) # key,
         s.c.mem_used + SizeOf[val] <= s.c.maxmem
  PROVE  /\ Chained(add_to_cache(s, key, val, new))
         /\ Abs(add_to_cache(s, key, val, new))
              = H!add_to_cache(Abs(s), key, val, SizeOf[val])
<1> DEFINE D == DOMAIN s.h
           size == SizeOf[val]
           item == [key |-> key, val |-> val, val_size |-> size]
           P == querry_hash(s, key)
           t == assign_to_link(s, P, item, new)
           p == create_info(s.c.evic_policy, key, size)
           u == s.c.mem_used + size
           k == s.c.num_elements + 1
           e == AddingTo(t, p, u, k)
           a == Abs(s)
           ha == Adding(H!assign_to_link(a, key, item), p, u, k)
           d == H!add_to_cache(a, key, val, size)
<1>1. size \in Sizes /\ item \in Link /\ item.key = key BY SizeOfAssumption DEF Link
<1>2. Formed(s) BY DEF Chained, Formed
<1>3. /\ Querried(s, D, key, P) /\ H!querry_hash(a, key) = DataAt(s, P) BY QuerryAbs
<1>4. /\ P \in Places(s, D) /\ Deref(s, P) = NULL
      /\ PlaceBucket(s, P) = map_to_location(Hash[key], s.c.table_size)
  BY <1>3 DEF Querried
<1>5. H!querry_hash(a, key) = NULL BY <1>3, <1>4 DEF DataAt
<1> HIDE DEF P, item, size
<1>6. Extended(s, t, item, new) BY <1>1, <1>2, <1>4, NewLink
<1>7. add_to_cache(s, key, val, new)
        = IF e.c.num_elements * 2 > e.c.table_size
          THEN resize_table(e, e.c.table_size * 2) ELSE e
  <2> DEFINE e1 == [t EXCEPT !.c.evic_policy = create_info(@, key, size),
                             !.c.mem_used = @ + size, !.c.num_elements = @ + 1]
  <2>1. add_to_cache(s, key, val, new)
          = IF e1.c.num_elements * 2 > e1.c.table_size
            THEN resize_table(e1, e1.c.table_size * 2) ELSE e1
    BY DEF add_to_cache, P, item, size
  <2>2. /\ t.c.evic_policy = s.c.evic_policy /\ t.c.mem_used = s.c.mem_used
        /\ t.c.num_elements = s.c.num_elements /\ t = [c |-> t.c, h |-> t.h] /\ IsRec(t.c)
    BY <1>6, AbsRec DEF Extended, Formed, Typed
  <2>3. e1 = e
    <3> DEFINE A == create_info(t.c.evic_policy, key, size)
               B == t.c.mem_used + size
               C == t.c.num_elements + 1
    <3>1. A = p /\ B = u /\ C = k BY <2>2
    <3>2. DOMAIN t = {"c", "h"} BY <2>2
    <3>3. DOMAIN t.c = {"maxmem", "mem_used", "table_size", "num_elements",
                        "table", "evic_policy"}
      BY <2>2 DEF IsRec, CacheRec
    <3> HIDE DEF t, p, u, k
    <3>4. e1 = AddingTo(t, A, B, C)
      <4> HIDE DEF A, B, C
      <4> QED BY <2>2, <3>2, <3>3 DEF AddingTo, A, B, C
    <3> QED BY <3>1, <3>4
  <2> QED BY <2>1, <2>3
<1> HIDE DEF t
<1>8. /\ Typed(t) /\ t = [c |-> t.c, h |-> t.h] /\ IsRec(t.c) /\ IsCache(t.c)
      /\ DOMAIN t.h = D \union {new}
      /\ t.c.table_size = s.c.table_size /\ t.c.maxmem = s.c.maxmem
      /\ t.h[new].data = item /\ \A l \in D : t.h[l].data = s.h[l].data
      /\ OneLinkPerKey(t)
  BY <1>6, AbsRec DEF Extended, Formed, Typed
<1>9. e = [c |-> CacheRec(s.c.maxmem, u, s.c.table_size, k, t.c.table, p), h |-> t.h]
  <2> HIDE DEF p, u, k
  <2>1. Adding(t.c, p, u, k) = CacheRec(s.c.maxmem, u, s.c.table_size, k, t.c.table, p)
    BY <1>8, CacheAdding
  <2> QED BY <2>1, <1>8, StateAdding
<1> HIDE DEF p, u, k, e
<1>10. /\ e = [c |-> e.c, h |-> e.h] /\ e.h = t.h
       /\ e.c = CacheRec(s.c.maxmem, u, s.c.table_size, k, t.c.table, p)
       /\ e.c.maxmem = s.c.maxmem /\ e.c.mem_used = u /\ e.c.table_size = s.c.table_size
       /\ e.c.num_elements = k /\ e.c.table = t.c.table /\ e.c.evic_policy = p
  <2>1. /\ e = [c |-> e.c, h |-> e.h] /\ e.h = t.h
        /\ e.c = CacheRec(s.c.maxmem, u, s.c.table_size, k, t.c.table, p)
    BY <1>9
  <2> QED BY <2>1, CacheMembers
<1>11. Typed(e)
  <2>1. IsCache(e.c) BY <1>8, <1>10 DEF IsCache, CacheRec
  <2> QED BY <2>1, <1>8, <1>10 DEF Typed
<1>12. Formed(e)
  <2>1. PICK r : Linked(t, D \union {new}, r) BY <1>6, <1>8 DEF Extended, Formed
  <2>2. D \union {new} \in SUBSET Links BY <1>8 DEF Typed
  <2>3. Linked(e, D \union {new}, r) BY <2>1, <2>2, <1>8, <1>10, LinkedAlike
  <2>4. OneLinkPerKey(e) BY <1>8, <1>10 DEF OneLinkPerKey, KeyOf
  <2> QED BY <2>3, <2>4, <1>8, <1>10, <1>11 DEF Formed
<1>13. Abs(e) = ha
  <2> DEFINE b == map_to_location(Hash[key], s.c.table_size)
             T == [AbsTable(s) EXCEPT ![b] = @ \union {item}]
  <2>1. BucketOf(e, new) = b /\ \A l \in D : BucketOf(e, l) = BucketOf(s, l)
    BY <1>1, <1>8, <1>10 DEF BucketOf
  <2>2. AbsTable(e) = T
    <3>1. ASSUME NEW i \in 0..(s.c.table_size - 1)
          PROVE  {e.h[l].data : l \in {m \in D \union {new} : BucketOf(e, m) = i}}
                   = IF i = b
                     THEN {s.h[l].data : l \in {m \in D : BucketOf(s, m) = i}} \union {item}
                     ELSE {s.h[l].data : l \in {m \in D : BucketOf(s, m) = i}}
      <4> HIDE DEF b
      <4> QED BY <2>1, <1>8, <1>10
    <3> QED BY <3>1, <1>8, <1>10, ZenonT(40) DEF AbsTable
  <2>3. /\ IsRec(a) /\ a.table = AbsTable(s) /\ H!Bucket(a, key) = b
        /\ a.maxmem = s.c.maxmem /\ a.table_size = s.c.table_size
        /\ a.mem_used = s.c.mem_used /\ a.num_elements = s.c.num_elements
        /\ a.evic_policy = s.c.evic_policy
    BY AbsRec, AbsFields DEF Chained
  <2>4. H!assign_to_link(a, key, item)
          = [a EXCEPT !.table = [AbsTable(s) EXCEPT ![b] = (@ \ {NULL}) \union {item}]]
    <3> HIDE DEF a, b
    <3>1. DOMAIN a = {"maxmem", "mem_used", "table_size", "num_elements",
                      "table", "evic_policy"}
      BY <2>3 DEF IsRec, CacheRec
    <3> QED BY <3>1, <2>3, <1>5 DEF H!assign_to_link
  <2>5. [AbsTable(s) EXCEPT ![b] = (@ \ {NULL}) \union {item}] = T
    <3>1. \A i \in 0..(s.c.table_size - 1) : NULL \notin AbsTable(s)[i]
      BY AbsFields, NullIsNoLink DEF AbsTable, Chained
    <3>2. b \in 0..(s.c.table_size - 1) BY KeyBucket DEF Chained, Typed, IsCache
    <3>3. DOMAIN AbsTable(s) = 0..(s.c.table_size - 1) BY DEF AbsTable
    <3>4. AbsTable(s)[b] \ {NULL} = AbsTable(s)[b] BY <3>1, <3>2
    <3> HIDE DEF b
    <3> QED BY <3>4
  <2> HIDE DEF T, a
  <2>6. H!assign_to_link(a, key, item)
          = CacheRec(s.c.maxmem, s.c.mem_used, s.c.table_size, s.c.num_elements, T,
                     s.c.evic_policy)
    <3> DEFINE y == [a EXCEPT !.table = T]
    <3>1. H!assign_to_link(a, key, item) = y BY <2>4, <2>5
    <3>2. a = CacheRec(s.c.maxmem, s.c.mem_used, s.c.table_size, s.c.num_elements,
                       AbsTable(s), s.c.evic_policy)
      BY <2>3 DEF IsRec
    <3>3. y = CacheRec(s.c.maxmem, s.c.mem_used, s.c.table_size, s.c.num_elements, T,
                       s.c.evic_policy)
      BY <3>2 DEF CacheRec
    <3> QED BY <3>1, <3>3
  <2>7. ha = CacheRec(s.c.maxmem, u, s.c.table_size, k, T, p)
    <3> DEFINE y == H!assign_to_link(a, key, item)
    <3>1. y = CacheRec(s.c.maxmem, s.c.mem_used, s.c.table_size, s.c.num_elements, T,
                       s.c.evic_policy)
      BY <2>6
    <3> HIDE DEF y
    <3>2. /\ y.maxmem = s.c.maxmem /\ y.mem_used = s.c.mem_used
          /\ y.table_size = s.c.table_size /\ y.num_elements = s.c.num_elements
          /\ y.table = T /\ y.evic_policy = s.c.evic_policy
      BY <3>1, CacheMembers
    <3>3. IsRec(y) BY <3>1, <3>2 DEF IsRec
    <3>4. Adding(y, p, u, k) = CacheRec(s.c.maxmem, u, s.c.table_size, k, T, p)
      BY <3>2, <3>3, CacheAdding
    <3> QED BY <3>4 DEF y
  <2>8. Abs(e) = CacheRec(s.c.maxmem, u, s.c.table_size, k, T, p)
    BY <2>2, <1>10, <1>11, AbsRec
  <2> QED BY <2>7, <2>8 DEF a
<1>14. /\ H!CacheInv(d) /\ d.evic_policy = H!create_info(a.evic_policy, key, size)
  <2>1. /\ H!CacheInv(a) /\ key \in H!Keys /\ a.mem_used + size <= a.maxmem
    BY Parameters, AbsRec DEF Chained, size
  <2>2. \A x \in H!AllLinks(a) : x.key # key BY AbsFields DEF Chained, KeyOf
  <2> HIDE DEF a
  <2> QED BY <2>1, <2>2, <1>1, Parameters, H!AddToCacheKeeps
<1>15. p = H!create_info(a.evic_policy, key, size) /\ p.aborted = FALSE
  <2>1. p = H!create_info(a.evic_policy, key, size) BY SamePolicy, AbsRec DEF p, Chained
  <2>2. H!PolicyInv(d.evic_policy) BY <1>14 DEF H!CacheInv, H!Consistent
  <2> HIDE DEF a, d
  <2> QED BY <2>1, <2>2, <1>14 DEF H!PolicyInv, H!PolicyValue
<1>16. d = IF H!Crowded(ha) THEN H!resize_table(ha, ha.table_size * 2) ELSE ha
  <2> DEFINE ha1 == [H!assign_to_link(a, key, item) EXCEPT
                       !.evic_policy = p, !.mem_used = @ + size, !.num_elements = @ + 1]
  <2>1. d = IF H!Crowded(ha1) THEN H!resize_table(ha1, ha1.table_size * 2) ELSE ha1
    <3> HIDE DEF a
    <3> QED BY <1>15 DEF H!add_to_cache, item
  <2>2. ha1 = ha
    <3>1. H!assign_to_link(a, key, item).mem_used = s.c.mem_used
          /\ H!assign_to_link(a, key, item).num_elements = s.c.num_elements
          /\ DOMAIN H!assign_to_link(a, key, item)
               = {"maxmem", "mem_used", "table_size", "num_elements",
                  "table", "evic_policy"}
      <4>1. IsRec(a) /\ a.mem_used = s.c.mem_used /\ a.num_elements = s.c.num_elements
        BY AbsRec DEF Chained
      <4> HIDE DEF a
      <4>2. DOMAIN a = {"maxmem", "mem_used", "table_size", "num_elements",
                        "table", "evic_policy"}
        BY <4>1 DEF IsRec, CacheRec
      <4> QED BY <4>1, <4>2 DEF H!assign_to_link
    <3> DEFINE y == H!assign_to_link(a, key, item)
               B == y.mem_used + size
               C == y.num_elements + 1
    <3>2. B = u /\ C = k BY <3>1 DEF u, k
    <3>3. ha1 = [y EXCEPT !.evic_policy = p, !.mem_used = B, !.num_elements = C]
      <4> HIDE DEF y
      <4> QED BY <3>1 DEF y
    <3> HIDE DEF y
    <3> QED BY <3>2, <3>3 DEF Adding, y
  <2> QED BY <2>1, <2>2
<1>17. /\ Abs(e).num_elements = k /\ Abs(e).table_size = s.c.table_size
  BY <1>10, <1>11, AbsRec
<1>18. H!Crowded(ha) <=> e.c.num_elements * 2 > e.c.table_size
  BY <1>10, <1>13, <1>17 DEF H!Crowded
<1> HIDE DEF ha, d, a
<1>19. CASE e.c.num_elements * 2 > e.c.table_size
  <2> DEFINE n == e.c.table_size * 2
  <2>1. n \in Nat \ {0} BY <1>11 DEF Typed, IsCache
  <2>2. d = H!resize_table(Abs(e), n) BY <1>10, <1>13, <1>16, <1>17, <1>18, <1>19
  <2> HIDE DEF n
  <2>3. Formed(resize_table(e, n)) /\ Abs(resize_table(e, n)) = d
    BY <2>1, <2>2, <1>12, ResizeAbs
  <2>4. add_to_cache(s, key, val, new) = resize_table(e, n) BY <1>7, <1>19 DEF n
  <2> QED BY <2>3, <2>4, <1>14 DEF Chained, Formed, d, a, size
<1>20. CASE ~(e.c.num_elements * 2 > e.c.table_size)
  <2>1. d = Abs(e) /\ add_to_cache(s, key, val, new) = e
    BY <1>7, <1>13, <1>16, <1>18, <1>20
  <2> QED BY <2>1, <1>12, <1>14 DEF Chained, Formed, d, a, size
<1> QED BY <1>19, <1>20
-----------------------------------------------------------------------------
LEMMA CacheSet ==
  ASSUME NEW s, Chained(s), NEW key \in Keys, NEW val \in Vals,
         NEW new \in Links \ DOMAIN s.h
  PROVE  /\ Chained(cache_set(s, key, val, new))
         /\ Abs(cache_set(s, key, val, new)) = H!cache_set(Abs(s), key, val)
<1> DEFINE size == SizeOf[val]
           r == cache_delete(s, key)
           hr == Abs(r)
           add_res == ids_to_delete_if_added(r.c.evic_policy, size)
           res == H!should_add_evict_deletions(hr, size)
           x == DeleteIds(r, add_res.data)
<1>1. Chained(r) /\ hr = H!cache_delete(Abs(s), key) /\ DOMAIN r.h \subseteq DOMAIN s.h
  BY CacheDelete
<1>2. cache_set(s, key, val, new)
        = IF add_res.should_add THEN add_to_cache(x, key, val, new) ELSE r
  BY DEF cache_set, cache_delete
<1>3. H!cache_set(Abs(s), key, val)
        = IF res.should_add THEN H!add_to_cache(res.cache, key, val, size) ELSE res.cache
  BY <1>1 DEF H!cache_set, H!cache_delete
<1> HIDE DEF r
<1>4. hr.evic_policy = r.c.evic_policy BY <1>1, AbsRec DEF Chained
<1>5. /\ res.should_add = add_res.should_add
      /\ res.cache = IF add_res.should_add THEN H!DeleteIds(hr, add_res.data) ELSE hr
  BY <1>4, SamePolicy DEF H!should_add_evict_deletions
<1>6. size \in Sizes /\ size \in Nat BY SizeOfAssumption, SizesAssumption
<1>7. /\ H!CacheInv(hr) /\ key \in H!Keys
      /\ H!AllLinks(hr) = {y \in H!AllLinks(Abs(s)) : y.key # key}
  <2>1. H!CacheInv(Abs(s)) /\ key \in H!Keys BY Parameters DEF Chained
  <2>2. H!AllLinks(H!cache_delete(Abs(s), key)) = {y \in H!AllLinks(Abs(s)) : y.key # key}
    BY <2>1, Parameters, H!CacheDeleteKeeps
  <2> QED BY <2>1, <2>2, <1>1 DEF Chained
<1> HIDE DEF size, hr, add_res
<1>8. CASE ~add_res.should_add
  BY <1>1, <1>2, <1>3, <1>5, <1>8 DEF hr
<1>9. CASE add_res.should_add
  <2> DEFINE p == r.c.evic_policy
             n == H!num_to_delete(p, size)
  <2>1. H!PolicyInv(p) BY <1>4, <1>7 DEF H!CacheInv, H!Consistent
  <2>2. ~(size > p.maxmem) /\ add_res.data = [i \in 1..n |-> p.list[i].ident]
    <3>1. add_res = H!ids_to_delete_if_added(p, size) BY SamePolicy DEF add_res
    <3> HIDE DEF p, n
    <3>2. ~(size > p.maxmem) BY <3>1, <1>9 DEF H!ids_to_delete_if_added
    <3> QED BY <3>1, <3>2 DEF H!ids_to_delete_if_added, n
  <2>3. p.maxmem \in Nat /\ p.list \in Seq(H!Info) BY <2>1 DEF H!PolicyInv, H!PolicyValue
  <2>4. n \in 0..Len(p.list)
    <3> HIDE DEF p
    <3>1. size <= p.maxmem BY <2>2, <2>3, <1>6
    <3> QED BY <3>1, <2>1, <1>6, Parameters, H!NumToDelete
  <2>5. add_res.data \in Seq(Keys)
    <3> HIDE DEF p, n
    <3>1. \A i \in 1..n : p.list[i].ident \in Keys
      <4> SUFFICES ASSUME NEW i \in 1..n PROVE p.list[i].ident \in Keys OBVIOUS
      <4>1. i \in 1..Len(p.list) BY <2>3, <2>4
      <4>2. p.list[i] \in H!Info BY <4>1, <2>3, ElementOfSeq
      <4> QED BY <4>2 DEF H!Info, Keys
    <3>2. n \in Nat BY <2>3, <2>4
    <3> QED BY <3>1, <3>2, <2>2
  <2>6. /\ Chained(x) /\ Abs(x) = res.cache /\ DOMAIN x.h \subseteq DOMAIN r.h
    <3> HIDE DEF res
    <3> QED BY <2>5, <1>1, <1>5, <1>9, DeleteIdsAbs DEF hr
  <2>7. /\ H!AllLinks(res.cache) \subseteq H!AllLinks(hr)
        /\ res.cache.mem_used + size <= res.cache.maxmem
    <3>1. res.should_add BY <1>5, <1>9
    <3> QED BY <3>1, <1>6, <1>7, Parameters, H!EvictionsMakeRoom
  <2> HIDE DEF x, res
  <2>8. \A l \in DOMAIN x.h : KeyOf(x, l) # key
    BY <2>6, <2>7, <1>7, AbsFields DEF Chained, KeyOf
  <2>9. x.c.mem_used + size <= x.c.maxmem BY <2>6, <2>7, AbsRec DEF Chained
  <2>10. new \in Links \ DOMAIN x.h BY <2>6, <1>1
  <2>11. /\ Chained(add_to_cache(x, key, val, new))
         /\ Abs(add_to_cache(x, key, val, new)) = H!add_to_cache(Abs(x), key, val, size)
    BY <2>6, <2>8, <2>9, <2>10, AddToCache DEF size
  <2> QED BY <2>6, <2>11, <1>2, <1>3, <1>5, <1>9
<1> QED BY <1>8, <1>9

(* cache_get reports the hit to the policy.                                *)
Reported(s, key) == [c |-> [s.c EXCEPT !.evic_policy = info_gotten(@, key)], h |-> s.h]

LEMMA CacheGet ==
  ASSUME NEW s, Chained(s), NEW key \in Keys
  PROVE  LET hash_l == Deref(s, querry_hash(s, key))
             data == s.h[hash_l].data
         IN  /\ hash_l = NULL =>
                  /\ H!cache_get(Abs(s), key) = Abs(s)
                  /\ H!GottenValue(Abs(s), key) = [val |-> NULL, val_size |-> 0]
             /\ hash_l # NULL =>
                  /\ data.key = key
                  /\ Chained(Reported(s, key))
                  /\ H!cache_get(Abs(s), key) = Abs(Reported(s, key))
                  /\ H!GottenValue(Abs(s), key)
                       = [val |-> data.val, val_size |-> data.val_size]
<1> DEFINE P == querry_hash(s, key)
           l == Deref(s, P)
           data == s.h[l].data
           a == Abs(s)
<1>1. Querried(s, DOMAIN s.h, key, P) /\ H!querry_hash(a, key) = DataAt(s, P)
  BY QuerryAbs
<1> HIDE DEF P
<1>2. CASE l = NULL
  <2>1. H!querry_hash(a, key) = NULL BY <1>1, <1>2 DEF DataAt
  <2>2. H!cache_get(a, key) = a /\ H!GottenValue(a, key) = [val |-> NULL, val_size |-> 0]
    <3> HIDE DEF a
    <3> QED BY <2>1 DEF H!cache_get, H!GottenValue
  <2> QED BY <2>2, <1>2 DEF P
<1>3. CASE l # NULL
  <2> DEFINE t == Reported(s, key)
             p == info_gotten(s.c.evic_policy, key)
             g == H!cache_get(a, key)
  <2>1. /\ l \in DOMAIN s.h /\ data.key = key /\ data \in Link
        /\ H!querry_hash(a, key) = data
    BY <1>1, <1>3, AbsFields DEF Querried, KeyOf, DataAt, Chained
  <2>2. data # NULL BY <2>1, NullIsNoLink
  <2> HIDE DEF data
  <2>3. H!GottenValue(a, key) = [val |-> data.val, val_size |-> data.val_size]
    <3> HIDE DEF a
    <3> QED BY <2>1, <2>2 DEF H!GottenValue
  <2>4. /\ IsRec(a) /\ a.evic_policy = s.c.evic_policy
        /\ a = CacheRec(s.c.maxmem, s.c.mem_used, s.c.table_size,
                        s.c.num_elements, AbsTable(s), s.c.evic_policy)
        /\ IsRec(s.c)
    BY AbsRec DEF Chained
  <2>5. g = [a EXCEPT !.evic_policy = p]
    <3>1. g = [a EXCEPT !.evic_policy = H!info_gotten(@, key)]
      <4> HIDE DEF a
      <4> QED BY <2>1, <2>2 DEF H!cache_get
    <3>2. DOMAIN a = {"maxmem", "mem_used", "table_size", "num_elements",
                      "table", "evic_policy"}
      BY <2>4 DEF CacheRec
    <3> HIDE DEF a, g
    <3> QED BY <3>1, <3>2, <2>4, SamePolicy
  <2>6. t = [c |-> t.c, h |-> t.h] /\ t.h = s.h /\ t.c = [s.c EXCEPT !.evic_policy = p]
    <3>1. DOMAIN s.c = {"maxmem", "mem_used", "table_size", "num_elements",
                        "table", "evic_policy"}
      BY <2>4 DEF IsRec, CacheRec
    <3> QED BY <3>1 DEF Reported
  <2> HIDE DEF t, g, p
  <2>7. t.c = CacheRec(s.c.maxmem, s.c.mem_used, s.c.table_size,
                       s.c.num_elements, s.c.table, p)
    BY <2>4, <2>6 DEF IsRec, CacheRec
  <2>8. /\ t.c.maxmem = s.c.maxmem /\ t.c.mem_used = s.c.mem_used
        /\ t.c.table_size = s.c.table_size /\ t.c.num_elements = s.c.num_elements
        /\ t.c.table = s.c.table /\ t.c.evic_policy = p
    BY <2>7, CacheMembers
  <2>9. Typed(t)
    <3>1. IsCache(t.c) BY <2>7, <2>8 DEF IsCache, CacheRec, Chained, Typed
    <3> QED BY <3>1, <2>6 DEF Chained, Typed
  <2>10. \E rank : Linked(t, DOMAIN t.h, rank)
    <3>1. PICK rank : Linked(s, DOMAIN s.h, rank) BY DEF Chained
    <3>2. DOMAIN s.h \in SUBSET Links BY DEF Chained, Typed
    <3>3. Linked(t, DOMAIN s.h, rank) BY <3>1, <3>2, <2>6, <2>8, LinkedAlike
    <3> QED BY <3>3, <2>6
  <2>11. OneLinkPerKey(t) BY <2>6 DEF OneLinkPerKey, KeyOf, Chained
  <2>12. AbsTable(t) = AbsTable(s) BY <2>6, <2>8 DEF AbsTable, BucketOf
  <2>13. Abs(t) = CacheRec(s.c.maxmem, s.c.mem_used, s.c.table_size,
                           s.c.num_elements, AbsTable(s), p)
    BY <2>8, <2>9, <2>12, AbsRec
  <2>14. g = CacheRec(s.c.maxmem, s.c.mem_used, s.c.table_size,
                      s.c.num_elements, AbsTable(s), p)
    <3> HIDE DEF a
    <3> QED BY <2>4, <2>5 DEF CacheRec
  <2>15. H!CacheInv(g)
    <3>1. H!CacheInv(a) /\ key \in H!Keys BY Parameters DEF Chained
    <3> HIDE DEF a
    <3> QED BY <3>1, Parameters, H!CacheGetKeeps DEF g
  <2>16. Chained(t) /\ g = Abs(t) BY <2>9, <2>10, <2>11, <2>13, <2>14, <2>15 DEF Chained
  <2> QED BY <2>1, <2>3, <2>16, <1>3 DEF t, g, P, data
<1> QED BY <1>2, <1>3
-----------------------------------------------------------------------------
(* f holds the states after each of the first n turns of destroy_cache.    *)
IsEmptying(f, s, n) ==
  /\ f[0] = s
  /\ \A i \in 1..n : f[i] = DeleteFirst(f[i - 1])

(* The recursion of DeleteLinks has a solution.                            *)
LEMMA EmptyingExists ==
  ASSUME NEW s, Count(s) \in Nat
  PROVE  \E f : IsEmptying(f, s, Count(s)) /\ DeleteLinks(s) = f[Count(s)]
<1> DEFINE n == Count(s)
           S_ == {i \in 0..n : \E f : DOMAIN f = 0..i /\ f = [j \in 0..i |-> f[j]]
                                        /\ IsEmptying(f, s, i)}
<1>1. n \in Nat OBVIOUS
<1> HIDE DEF n
<1>2. 0 \in S_
  <2> DEFINE f == [j \in 0..0 |-> s]
  <2>1. DOMAIN f = 0..0 /\ f = [j \in 0..0 |-> f[j]] /\ IsEmptying(f, s, 0)
    BY DEF IsEmptying
  <2> HIDE DEF f
  <2> QED BY <2>1, <1>1
<1>3. ASSUME NEW i \in 0..n, i # n, i \in S_ PROVE i + 1 \in S_
  <2>1. PICK f : DOMAIN f = 0..i /\ IsEmptying(f, s, i) BY <1>3
  <2> DEFINE g == [j \in 0..(i+1) |-> IF j = i + 1 THEN DeleteFirst(f[i]) ELSE f[j]]
  <2>2. i \in Nat /\ i + 1 \in 1..n BY <1>1, <1>3
  <2>3. DOMAIN g = 0..(i+1) /\ g = [j \in 0..(i+1) |-> g[j]] /\ g[0] = s
    BY <2>1, <2>2 DEF IsEmptying
  <2>4. ASSUME NEW j \in 1..(i+1) PROVE g[j] = DeleteFirst(g[j-1])
    <3>1. CASE j = i + 1
      <4>1. g[j] = DeleteFirst(f[i]) BY <3>1, <2>2
      <4>2. g[j-1] = f[i] BY <3>1, <2>2
      <4> QED BY <4>1, <4>2
    <3>2. CASE j # i + 1
      <4>1. j \in 1..i BY <3>2, <2>2
      <4>2. g[j] = f[j] /\ g[j-1] = f[j-1] BY <4>1, <2>2
      <4> QED BY <4>1, <4>2, <2>1 DEF IsEmptying
    <3> QED BY <3>1, <3>2
  <2> HIDE DEF g
  <2>5. IsEmptying(g, s, i + 1) BY <2>3, <2>4 DEF IsEmptying
  <2> QED BY <2>3, <2>5, <2>2
<1>4. n \in S_
  <2> HIDE DEF S_
  <2>1. \A i \in 0..n : i \in S_ BY <1>1, <1>2, <1>3, UpTo
  <2> QED BY <2>1, <1>1
<1>5. PICK f : f = [j \in 0..n |-> f[j]] /\ IsEmptying(f, s, n) BY <1>4
<1> DEFINE Eq(w) == w = [i \in 0..n |-> IF i = 0 THEN s ELSE DeleteFirst(w[i-1])]
<1>6. Eq(f)
  <2>1. \A i \in 0..n : f[i] = IF i = 0 THEN s ELSE DeleteFirst(f[i-1])
    <3> SUFFICES ASSUME NEW i \in 0..n
                 PROVE  f[i] = IF i = 0 THEN s ELSE DeleteFirst(f[i-1])
      OBVIOUS
    <3>1. i # 0 => i \in 1..n BY <1>1
    <3> QED BY <3>1, <1>5 DEF IsEmptying
  <2> QED BY <2>1, <1>5
<1> DEFINE r == CHOOSE w : Eq(w)
<1>7. DeleteLinks(s) = r[n] BY DEF DeleteLinks, n
<1>8. Eq(r)
  <2> HIDE DEF Eq
  <2> QED BY <1>6, Zenon
<1> HIDE DEF r
<1>9. IsEmptying(r, s, n)
  <2>1. \A i \in 0..n : r[i] = IF i = 0 THEN s ELSE DeleteFirst(r[i-1])
    BY <1>8
  <2> QED BY <2>1, <1>1 DEF IsEmptying
<1> QED BY <1>7, <1>9 DEF n

(* Every turn deletes a link, if there is one.                             *)
LEMMA DeleteFirstShrinks ==
  ASSUME NEW s, Chained(s)
  PROVE  /\ Chained(DeleteFirst(s))
         /\ DOMAIN s.h = {} => DOMAIN DeleteFirst(s).h = {}
         /\ DOMAIN s.h # {} => Count(DeleteFirst(s)) = Count(s) - 1
<1> DEFINE D == DOMAIN s.h
           t == DeleteFirst(s)
<1>1. PICK rank : Linked(s, D, rank) BY DEF Chained
<1>2. Typed(s) /\ D \subseteq Links /\ s.c.table_size \in Nat \ {0}
  BY DEF Chained, Typed, IsCache
<1>3. \A b \in 0..(s.c.table_size - 1) :
        /\ Cell(b) \in Places(s, D) /\ Cell(b).link = NULL /\ Cell(b).cell = b
  BY <1>2, PlaceKinds
<1>4. CASE Full(s) = {}
  <2>1. t = s BY <1>4 DEF DeleteFirst
  <2>2. D = {}
    <3> SUFFICES ASSUME NEW l \in D PROVE FALSE OBVIOUS
    <3> DEFINE b == BucketOf(s, l)
               V == {}
    <3>1. b \in 0..(s.c.table_size - 1) BY <1>2, AbsFields
    <3>2. ASSUME NEW P \in Places(s, D), P.link = NULL
          PROVE  Deref(s, P) = NULL
      <4>1. P.cell \in 0..(s.c.table_size - 1) BY <3>2, <1>2, PlaceKinds
      <4> QED BY <4>1, <3>2, <1>4 DEF Full, Deref
    <3> HIDE DEF b, V
    <3>3. \A P \in Places(s, D) :
            /\ PlaceBucket(s, P) = b /\ Deref(s, P) # NULL
            /\ P.link = NULL \/ P.link \in V
            => Deref(s, P) \in V
      BY <3>2 DEF V
    <3>4. \A m \in D : BucketOf(s, m) = b => m \in V
      BY <3>3, <1>1, <1>2, WholeChain
    <3> QED BY <3>4 DEF b, V
  <2> QED BY <2>1, <2>2
<1>5. CASE Full(s) # {}
  <2> DEFINE F == Full(s)
             b == CHOOSE b \in F : \A x \in F : b <= x
  <2>1. F \in SUBSET Nat BY <1>2 DEF Full
  <2>2. b \in F
    <3>1. \E m \in F : \A x \in F : m <= x
      <4> HIDE DEF F
      <4> QED BY <2>1, <1>5, LeastNat DEF F
    <3> HIDE DEF F
    <3> QED BY <3>1
  <2>3. t = del_link(s, Cell(b)) BY <1>5 DEF DeleteFirst
  <2> HIDE DEF b
  <2>4. b \in 0..(s.c.table_size - 1) /\ s.c.table[b] # NULL BY <2>2 DEF Full
  <2>5. Cell(b) \in Places(s, D) /\ Deref(s, Cell(b)) = s.c.table[b]
    BY <2>4, <1>3 DEF Deref
  <2> DEFINE l == s.c.table[b]
  <2>6. l \in D BY <2>4, <2>5, <1>1 DEF Linked
  <2>7. Chained(t) /\ DOMAIN t.h = D \ {l} BY <2>3, <2>5, DelLink
  <2>8. Cardinality(D \ {l}) = Cardinality(D) - 1
    <3>1. IsFiniteSet(D) BY <1>2, CountIsNat
    <3> HIDE DEF D, l
    <3> QED BY <3>1, <2>6, FS_RemoveElement
  <2> HIDE DEF l, t
  <2>9. Count(t) = Count(s) - 1 BY <2>7, <2>8 DEF Count
  <2> QED BY <2>6, <2>7, <2>9 DEF t
<1> QED BY <1>4, <1>5

(* destroy_cache frees every link.                                         *)
LEMMA DestroyFrees ==
  ASSUME NEW s, Chained(s)
  PROVE  DeleteLinks(s).h = [l \in {} |-> NULL]
<1> DEFINE n == Count(s)
<1>1. n \in Nat BY CountIsNat DEF Chained
<1>2. PICK f : IsEmptying(f, s, n) /\ DeleteLinks(s) = f[n] BY <1>1, EmptyingExists
<1> DEFINE S_ == {i \in 0..n : Chained(f[i]) /\ Count(f[i]) <= n - i}
<1>3. 0 \in S_ BY <1>1, <1>2 DEF IsEmptying
<1>4. ASSUME NEW i \in 0..n, i # n, i \in S_ PROVE i + 1 \in S_
  <2>1. i + 1 \in 1..n /\ i + 1 \in 0..n /\ (i + 1) - 1 = i BY <1>1, <1>4
  <2>2. f[i+1] = DeleteFirst(f[i]) BY <2>1, <1>2 DEF IsEmptying
  <2>3. /\ Chained(f[i]) /\ Count(f[i]) <= n - i BY <1>4
  <2>4. /\ Chained(f[i+1])
        /\ DOMAIN f[i].h = {} => DOMAIN f[i+1].h = {}
        /\ DOMAIN f[i].h # {} => Count(f[i+1]) = Count(f[i]) - 1
    BY <2>2, <2>3, DeleteFirstShrinks
  <2>5. Count(f[i]) \in Nat BY <2>3, CountIsNat DEF Chained
  <2>6. CASE DOMAIN f[i].h = {}
    <3>1. Count(f[i+1]) = 0 BY <2>4, <2>6, FS_EmptySet DEF Count
    <3> HIDE DEF n
    <3>2. 0 <= n - (i + 1) BY <2>1, <1>1
    <3> QED BY <3>1, <3>2, <2>1, <2>4
  <2>7. CASE DOMAIN f[i].h # {}
    <3> HIDE DEF n
    <3> QED BY <2>1, <2>3, <2>4, <2>5, <2>7, <1>1
  <2> QED BY <2>6, <2>7
<1>5. n \in S_
  <2> HIDE DEF S_, n
  <2>1. \A i \in 0..n : i \in S_ BY <1>1, <1>3, <1>4, UpTo
  <2> QED BY <2>1, <1>1
<1>6. Chained(f[n]) /\ Count(f[n]) <= n - n BY <1>5
<1>7. IsFiniteSet(DOMAIN f[n].h) /\ Count(f[n]) \in Nat BY <1>6, CountIsNat DEF Chained
<1>8. Count(f[n]) = 0
  <2> HIDE DEF n
  <2> QED BY <1>1, <1>6, <1>7
<1>9. DOMAIN f[n].h = {} BY <1>7, <1>8, FS_EmptySet DEF Count
<1>10. f[n].h \in [{} -> LinkObj] BY <1>6, <1>9 DEF Chained, Typed
<1>11. f[n].h = [l \in {} |-> NULL]
  <2> DEFINE g == f[n].h
  <2>1. g \in [{} -> LinkObj] BY <1>10
  <2> HIDE DEF g
  <2>2. g = [l \in {} |-> NULL] BY <2>1
  <2> QED BY <2>2 DEF g
<1> QED BY <1>2, <1>11
-----------------------------------------------------------------------------
(* A new cache has no links.                                               *)
LEMMA CreateChained ==
  ASSUME NEW m \in MaxMems, NEW g, DOMAIN g = {}, g = [l \in {} |-> NULL]
  PROVE  LET t == [c |-> create_cache(m), h |-> g]
         IN  Chained(t) /\ Abs(t) = H!create_cache(m)
<1> DEFINE t == [c |-> create_cache(m), h |-> g]
           T == [b \in 0..(default_table_size - 1) |-> NULL]
           V == [b \in 0..(default_table_size - 1) |-> {}]
           n == default_table_size
<1>1. n \in Nat \ {0} BY TableSizeAssumption
<1>2. /\ t = [c |-> t.c, h |-> t.h] /\ t.h = g
      /\ t.c = CacheRec(m, 0, n, 0, T, create_policy(m))
  BY DEF create_cache, CacheRec
<1>3. T \in [0..(n - 1) -> Links \union {NULL}] /\ \A b \in 0..(n - 1) : T[b] = NULL
  OBVIOUS
<1>4. H!create_cache(m) = CacheRec(m, 0, n, 0, V, create_policy(m))
  BY SamePolicy DEF H!create_cache, CacheRec
<1> HIDE DEF t, T, V, n
<1>5. /\ t.c.maxmem = m /\ t.c.mem_used = 0 /\ t.c.table_size = n
      /\ t.c.num_elements = 0 /\ t.c.table = T /\ t.c.evic_policy = create_policy(m)
  BY <1>2, CacheMembers
<1>6. IsCache(t.c) BY <1>1, <1>2, <1>3, <1>5 DEF IsCache, CacheRec
<1>7. Typed(t)
  <2>1. g \in [{} -> LinkObj] OBVIOUS
  <2> QED BY <2>1, <1>2, <1>6 DEF Typed
<1>8. \E r : Linked(t, DOMAIN t.h, r)
  <2> DEFINE r == [l \in {} |-> 0]
  <2>1. \A P \in Places(t, {}) : Deref(t, P) = NULL
    BY <1>3, <1>5, PlaceKinds DEF Deref
  <2>2. r \in [{} -> Nat] OBVIOUS
  <2> HIDE DEF r
  <2>3. Linked(t, {}, r) BY <2>1, <2>2 DEF Linked
  <2> QED BY <2>3, <1>2
<1>9. OneLinkPerKey(t) BY <1>2 DEF OneLinkPerKey
<1>10. AbsTable(t) = V
  <2>1. \A b : {t.h[l].data : l \in {k \in DOMAIN t.h : BucketOf(t, k) = b}} = {}
    BY <1>2
  <2> QED BY <2>1, <1>5 DEF AbsTable, V, n
<1>11. Abs(t) = H!create_cache(m) BY <1>4, <1>5, <1>7, <1>10, AbsRec
<1>12. H!CacheInv(H!create_cache(m))
  <2>1. m \in Nat BY CapacityAssumption
  <2> QED BY <2>1, Parameters, H!CreateCache
<1> QED BY <1>7, <1>8, <1>9, <1>11, <1>12 DEF Chained, t

(* The chain of a bucket holds the links of the bucket.                    *)
ChainOf(s, b) == {Deref(s, Walk(s, b)[i]) : i \in 0..Count(s)} \ {NULL}

LEMMA ChainHoldsBucket ==
  ASSUME NEW s, Chained(s), NEW b \in 0..(s.c.table_size - 1)
  PROVE  /\ Deref(s, Walk(s, b)[Count(s)]) = NULL
         /\ ChainOf(s, b) = {l \in DOMAIN s.h : BucketOf(s, l) = b}
<1> DEFINE D == DOMAIN s.h
           w == Walk(s, b)
           n == Count(s)
<1>1. PICK rank : Linked(s, D, rank) BY DEF Chained
<1>2. Typed(s) /\ NULL \notin D BY LinksFinite DEF Chained, Typed
<1>3. Walks(s, D, b, w, n) BY <1>1, <1>2, WalkFacts
<1>4. n \in Nat BY <1>2, CountIsNat
<1>5. \A x : x \in ChainOf(s, b) <=> x # NULL /\ \E i \in 0..n : x = Deref(s, w[i])
  BY DEF ChainOf
<1> HIDE DEF w, n
<1>6. ASSUME NEW x, x \in ChainOf(s, b) PROVE x \in D /\ BucketOf(s, x) = b
  <2>1. PICK i \in 0..n : x = Deref(s, w[i]) /\ x # NULL BY <1>5, <1>6
  <2>2. w[i] \in Places(s, D) /\ PlaceBucket(s, w[i]) = b BY <1>3 DEF Walks
  <2> QED BY <2>1, <2>2, <1>1 DEF Linked
<1>7. ASSUME NEW l \in D, BucketOf(s, l) = b PROVE l \in ChainOf(s, b)
  <2>1. \E i \in 0..n : Deref(s, w[i]) = l BY <1>3, <1>7 DEF Walks
  <2> QED BY <2>1, <1>2, <1>5
<1>8. Deref(s, w[n]) = NULL BY <1>3 DEF Walks
<1>9. ChainOf(s, b) = {l \in D : BucketOf(s, l) = b} BY <1>6, <1>7
<1> QED BY <1>8, <1>9 DEF w, n

Unchain(s) ==
  [s.c EXCEPT !.table = [b \in DOMAIN @ |-> {s.h[l].data : l \in ChainOf(s, b)}]]

LEMMA UnchainIsAbs ==
  ASSUME NEW s, Chained(s)
  PROVE  Unchain(s) = Abs(s)
<1> DEFINE T == [b \in DOMAIN s.c.table |-> {s.h[l].data : l \in ChainOf(s, b)}]
<1>1. DOMAIN s.c.table = 0..(s.c.table_size - 1) /\ IsRec(s.c)
  BY AbsRec DEF Chained, Typed, IsCache
<1>2. T = AbsTable(s)
  <2>1. ASSUME NEW b \in 0..(s.c.table_size - 1)
        PROVE  {s.h[l].data : l \in ChainOf(s, b)}
                 = {s.h[l].data : l \in {m \in DOMAIN s.h : BucketOf(s, m) = b}}
    BY ChainHoldsBucket
  <2> QED BY <2>1, <1>1 DEF AbsTable
<1>3. Unchain(s) = [s.c EXCEPT !.table = T]
  <2>1. DOMAIN s.c = {"maxmem", "mem_used", "table_size", "num_elements",
                      "table", "evic_policy"}
    BY <1>1 DEF IsRec, CacheRec
  <2> QED BY <2>1 DEF Unchain
<1> QED BY <1>2, <1>3 DEF Abs
-----------------------------------------------------------------------------
(* The functions are those of the instance that ChainTable implements.     *)
LEMMA SameOperators ==
  /\ Sets!Keys = Keys
  /\ \A m : Sets!create_cache(m) = H!create_cache(m)
  /\ \A c, key : Sets!cache_delete(c, key) = H!cache_delete(c, key)
  /\ \A c, key, val : Sets!cache_set(c, key, val) = H!cache_set(c, key, val)
  /\ \A c, key : Sets!cache_get(c, key) = H!cache_get(c, key)
  /\ \A c, key : Sets!GottenValue(c, key) = H!GottenValue(c, key)
<1>1. /\ \A l, id : Sets!PositionOf(l, id) = H!PositionOf(l, id)
      /\ \A l : Sets!RunningTotal(l) = H!RunningTotal(l)
      /\ \A m : Sets!create_policy(m) = H!create_policy(m)
      /\ \A p, id, size : Sets!create_info(p, id, size) = H!create_info(p, id, size)
      /\ \A v, n : Sets!map_to_location(v, n) = H!map_to_location(v, n)
      /\ \A c : Sets!AllLinks(c) = H!AllLinks(c)
      /\ \A c : Sets!Crowded(c) = H!Crowded(c)
      /\ Sets!Keys = Keys
  BY DEF Sets!PositionOf, H!PositionOf, Sets!RunningTotal, H!RunningTotal,
         Sets!create_policy, H!create_policy, Sets!create_info, H!create_info,
         Sets!map_to_location, H!map_to_location, Sets!AllLinks, H!AllLinks,
         Sets!Crowded, H!Crowded, Sets!Keys, Keys
<1>2. ASSUME NEW l, NEW id PROVE Sets!Without(l, id) = H!Without(l, id)
  BY <1>1 DEF Sets!Without, H!Without
<1>3. /\ \A p, id : Sets!delete_info(p, id) = H!delete_info(p, id)
      /\ \A p, id : Sets!info_gotten(p, id) = H!info_gotten(p, id)
  BY <1>1, <1>2 DEF Sets!delete_info, H!delete_info, Sets!info_gotten, H!info_gotten
<1>4. \A p, size : Sets!num_to_delete(p, size) = H!num_to_delete(p, size)
  BY <1>1 DEF Sets!num_to_delete, H!num_to_delete
<1>5. \A p, size : Sets!ids_to_delete_if_added(p, size) = H!ids_to_delete_if_added(p, size)
  BY <1>4 DEF Sets!ids_to_delete_if_added, H!ids_to_delete_if_added
<1>6. \A c, key : Sets!Bucket(c, key) = H!Bucket(c, key)
  BY <1>1 DEF Sets!Bucket, H!Bucket
<1>7. \A c, key : Sets!querry_hash(c, key) = H!querry_hash(c, key)
  <2> SUFFICES ASSUME NEW c, NEW key PROVE Sets!querry_hash(c, key) = H!querry_hash(c, key)
    OBVIOUS
  <2> DEFINE b == Sets!Bucket(c, key)
             found == {l \in c.table[b] : l.key = key}
  <2>1. Sets!querry_hash(c, key) = IF found = {} THEN NULL ELSE CHOOSE l \in found : TRUE
    BY DEF Sets!querry_hash
  <2>2. b = H!Bucket(c, key) BY <1>6
  <2> HIDE DEF b
  <2>3. H!querry_hash(c, key) = IF found = {} THEN NULL ELSE CHOOSE l \in found : TRUE
    BY <2>2, SMTT(30) DEF H!querry_hash
  <2> QED BY <2>1, <2>3
<1>8. /\ \A c, key, x : Sets!assign_to_link(c, key, x) = H!assign_to_link(c, key, x)
      /\ \A c, n : Sets!resize_table(c, n) = H!resize_table(c, n)
      /\ \A c, x : Sets!Unlink(c, x) = H!Unlink(c, x)
  BY <1>1, <1>3, <1>6, <1>7 DEF Sets!assign_to_link, H!assign_to_link,
     Sets!resize_table, H!resize_table, Sets!Unlink, H!Unlink
<1>9. \A c, x : Sets!del_link(c, x) = H!del_link(c, x)
  BY <1>8 DEF Sets!del_link, H!del_link
<1>10. \A c, key : Sets!cache_delete(c, key) = H!cache_delete(c, key)
  BY <1>7, <1>9 DEF Sets!cache_delete, H!cache_delete
<1>11. \A c, ids : Sets!DeleteIds(c, ids) = H!DeleteIds(c, ids)
  BY <1>10 DEF Sets!DeleteIds, H!DeleteIds
<1>12. \A c, size : Sets!should_add_evict_deletions(c, size)
                       = H!should_add_evict_deletions(c, size)
  BY <1>5, <1>11 DEF Sets!should_add_evict_deletions, H!should_add_evict_deletions
<1>13. \A c, key, val, size : Sets!add_to_cache(c, key, val, size)
                                = H!add_to_cache(c, key, val, size)
  <2> SUFFICES ASSUME NEW c, NEW key, NEW val, NEW size
               PROVE  Sets!add_to_cache(c, key, val, size)
                        = H!add_to_cache(c, key, val, size)
    OBVIOUS
  <2> DEFINE p == Sets!create_info(c.evic_policy, key, size)
             y == Sets!assign_to_link(c, key,
                    [key |-> key, val |-> val, val_size |-> size])
             added == [y EXCEPT !.evic_policy = p, !.mem_used = @ + size,
                                !.num_elements = @ + 1]
  <2>1. Sets!add_to_cache(c, key, val, size)
          = IF p.aborted THEN [c EXCEPT !.evic_policy = p]
            ELSE IF Sets!Crowded(added)
            THEN Sets!resize_table(added, added.table_size * 2)
            ELSE added
    BY DEF Sets!add_to_cache
  <2>2. /\ p = H!create_info(c.evic_policy, key, size)
        /\ y = H!assign_to_link(c, key, [key |-> key, val |-> val, val_size |-> size])
    BY <1>1, <1>8
  <2> HIDE DEF p, y
  <2>3. H!add_to_cache(c, key, val, size)
          = IF p.aborted THEN [c EXCEPT !.evic_policy = p]
            ELSE IF H!Crowded(added)
            THEN H!resize_table(added, added.table_size * 2)
            ELSE added
    BY <2>2 DEF H!add_to_cache
  <2> HIDE DEF added
  <2> QED BY <2>1, <2>3, <1>1, <1>8
<1>14. \A c, key, val : Sets!cache_set(c, key, val) = H!cache_set(c, key, val)
  BY <1>7, <1>9, <1>12, <1>13 DEF Sets!cache_set, H!cache_set
<1>15. \A c, key : Sets!cache_get(c, key) = H!cache_get(c, key)
  BY <1>3, <1>7 DEF Sets!cache_get, H!cache_get
<1>16. \A c, key : Sets!GottenValue(c, key) = H!GottenValue(c, key)
  BY <1>7 DEF Sets!GottenValue, H!GottenValue
<1>17. \A m : Sets!create_cache(m) = H!create_cache(m)
  BY <1>1 DEF Sets!create_cache, H!create_cache
<1> QED BY <1>1, <1>10, <1>14, <1>15, <1>16, <1>17
-----------------------------------------------------------------------------
(* The null pointer is no struct cache_obj.                                *)
NullIsNoCache == ~IsCache(NULL) /\ NULL \notin H!CacheValue

(* Between calls: the cache that there is is chained, and without a cache  *)
(* there are no links.                                                     *)
Inv ==
  /\ cache # NULL => Chained(State)
  /\ cache = NULL => heap = [l \in {} |-> NULL]

(* What a chained state is to the module of sets.                          *)
LEMMA UnchainedNow ==
  ASSUME NullIsNoCache, Inv, cache # NULL
  PROVE  Unchained = Abs(State) /\ Sets!Usable
<1>1. Chained(State) BY DEF Inv
<1>2. State.c = cache /\ State.h = heap BY DEF State
<1>3. \A b : Chain(b) = ChainOf(State, b) BY DEF Chain, ChainOf
<1>4. Unchained = Unchain(State) BY <1>2, <1>3 DEF Unchained, Unchain
<1>5. Unchained = Abs(State) BY <1>1, <1>4, UnchainIsAbs
<1>6. H!CacheInv(Unchained) BY <1>1, <1>5 DEF Chained
<1>7. Unchained \in H!CacheValue /\ ~Unchained.evic_policy.aborted
  BY <1>6 DEF H!CacheInv, H!Consistent, H!Shaped, H!PolicyInv, H!PolicyValue
<1> QED BY <1>5, <1>7 DEF NullIsNoCache, Sets!Usable

LEMMA UnchainedNext ==
  ASSUME NullIsNoCache, NEW t, Chained(t), cache' = t.c, heap' = t.h
  PROVE  Inv' /\ cache' # NULL /\ Unchained' = Abs(t)
<1>1. IsCache(t.c) /\ t = [c |-> t.c, h |-> t.h] BY DEF Chained, Typed
<1>2. cache' # NULL BY <1>1 DEF NullIsNoCache
<1>3. State' = t BY <1>1 DEF State
<1>4. Inv' BY <1>2, <1>3 DEF Inv
<1>5. \A b : Chain(b)' = ChainOf(t, b) BY <1>3 DEF Chain, ChainOf
<1>6. Unchained' = Unchain(t) BY <1>2, <1>5 DEF Unchained, Unchain
<1>7. Unchained' = Abs(t) BY <1>6, UnchainIsAbs
<1> QED BY <1>2, <1>4, <1>7

LEMMA CreateRefines ==
  ASSUME NullIsNoCache, Inv, NEW m \in MaxMems, Create(m)
  PROVE  Inv' /\ Sets!Create(m)
<1> DEFINE t == [c |-> create_cache(m), h |-> heap]
<1>1. /\ cache = NULL /\ cache' = create_cache(m) /\ ret' = NULL /\ heap' = heap
      /\ heap = [l \in {} |-> NULL]
  BY DEF Create, Inv
<1>2. DOMAIN heap = {} BY <1>1
<1>3. Chained(t) /\ Abs(t) = H!create_cache(m) BY <1>1, <1>2, CreateChained
<1>4. t.c = create_cache(m) /\ t.h = heap OBVIOUS
<1> HIDE DEF t
<1>5. Inv' /\ Unchained' = Abs(t) BY <1>1, <1>3, <1>4, UnchainedNext
<1>6. Unchained = NULL BY <1>1 DEF Unchained
<1> QED BY <1>1, <1>3, <1>5, <1>6, SameOperators DEF Sets!Create

LEMMA SetRefines ==
  ASSUME NullIsNoCache, Inv, NEW key \in Keys, NEW val \in Vals, Set(key, val)
  PROVE  Inv' /\ Sets!Set(key, val)
<1>1. cache # NULL /\ ret' = NULL BY DEF Set
<1>2. Unchained = Abs(State) /\ Sets!Usable /\ Chained(State)
  BY <1>1, UnchainedNow DEF Inv
<1>3. State.h = heap BY DEF State
<1>4. PICK new \in Links \ DOMAIN heap :
        LET s == cache_set(State, key, val, new) IN cache' = s.c /\ heap' = s.h
  BY DEF Set
<1> DEFINE t == cache_set(State, key, val, new)
<1>5. cache' = t.c /\ heap' = t.h BY <1>4
<1>6. Chained(t) /\ Abs(t) = H!cache_set(Abs(State), key, val) BY <1>2, <1>3, CacheSet
<1> HIDE DEF t
<1>7. Inv' /\ Unchained' = Abs(t) BY <1>5, <1>6, UnchainedNext
<1> QED BY <1>1, <1>2, <1>6, <1>7, SameOperators DEF Sets!Set

LEMMA GetRefines ==
  ASSUME NullIsNoCache, Inv, NEW key \in Keys, Get(key)
  PROVE  Inv' /\ Sets!Get(key)
<1> DEFINE l == Deref(State, querry_hash(State, key))
           data == State.h[l].data
<1>1. cache # NULL /\ heap' = heap BY DEF Get
<1>2. Unchained = Abs(State) /\ Sets!Usable /\ Chained(State)
  BY <1>1, UnchainedNow DEF Inv
<1>3. State.h = heap /\ State.c = cache BY DEF State
<1>4. /\ l = NULL =>
           /\ H!cache_get(Abs(State), key) = Abs(State)
           /\ H!GottenValue(Abs(State), key) = [val |-> NULL, val_size |-> 0]
      /\ l # NULL =>
           /\ data.key = key
           /\ Chained(Reported(State, key))
           /\ H!cache_get(Abs(State), key) = Abs(Reported(State, key))
           /\ H!GottenValue(Abs(State), key)
                = [val |-> data.val, val_size |-> data.val_size]
  BY <1>2, CacheGet
<1>5. CASE l = NULL
  <2>1. cache' = cache /\ ret' = [val |-> NULL, val_size |-> 0] BY <1>5 DEF Get
  <2>2. Inv' /\ Unchained' = Abs(State) BY <2>1, <1>1, <1>2, <1>3, UnchainedNext
  <2> QED BY <2>1, <2>2, <1>2, <1>4, <1>5, SameOperators DEF Sets!Get
<1>6. CASE l # NULL
  <2> DEFINE t == Reported(State, key)
  <2>1. /\ cache' = [cache EXCEPT !.evic_policy = info_gotten(@, data.key)]
        /\ ret' = [val |-> data.val, val_size |-> data.val_size]
    BY <1>3, <1>6 DEF Get
  <2>2. cache' = t.c /\ heap' = t.h BY <2>1, <1>1, <1>3, <1>4, <1>6 DEF Reported
  <2> HIDE DEF t
  <2>3. Inv' /\ Unchained' = Abs(t) BY <2>2, <1>4, <1>6, UnchainedNext DEF t
  <2>4. /\ H!cache_get(Abs(State), key) = Abs(t)
        /\ H!GottenValue(Abs(State), key) = [val |-> data.val, val_size |-> data.val_size]
    BY <1>4, <1>6 DEF t
  <2> QED BY <2>1, <2>3, <2>4, <1>2, SameOperators DEF Sets!Get
<1> QED BY <1>5, <1>6

LEMMA DeleteRefines ==
  ASSUME NullIsNoCache, Inv, NEW key \in Keys, Delete(key)
  PROVE  Inv' /\ Sets!Delete(key)
<1> DEFINE t == cache_delete(State, key)
<1>1. cache # NULL /\ ret' = NULL /\ cache' = t.c /\ heap' = t.h BY DEF Delete
<1>2. Unchained = Abs(State) /\ Sets!Usable /\ Chained(State)
  BY <1>1, UnchainedNow DEF Inv
<1>3. Chained(t) /\ Abs(t) = H!cache_delete(Abs(State), key) BY <1>2, CacheDelete
<1> HIDE DEF t
<1>4. Inv' /\ Unchained' = Abs(t) BY <1>1, <1>3, UnchainedNext
<1> QED BY <1>1, <1>2, <1>3, <1>4, SameOperators DEF Sets!Delete

LEMMA DestroyRefines ==
  ASSUME NullIsNoCache, Inv, Destroy
  PROVE  Inv' /\ Sets!Destroy
<1>1. cache # NULL /\ ret' = NULL /\ cache' = NULL /\ heap' = DeleteLinks(State).h
  BY DEF Destroy
<1>2. Sets!Usable /\ Chained(State) BY <1>1, UnchainedNow DEF Inv
<1>3. heap' = [l \in {} |-> NULL] BY <1>1, <1>2, DestroyFrees
<1>4. Unchained' = NULL BY <1>1 DEF Unchained
<1> QED BY <1>1, <1>2, <1>3, <1>4 DEF Inv, Sets!Destroy

LEMMA NextRefines ==
  ASSUME NullIsNoCache
  PROVE  Inv /\ [Next]_vars => Inv' /\ [Sets!Next]_(Sets!vars)
<1> SUFFICES ASSUME Inv, [Next]_vars PROVE Inv' /\ [Sets!Next]_(Sets!vars)
  OBVIOUS
<1>0. Sets!Keys = Keys /\ Idents = Keys BY SameOperators DEF Keys
<1>1. CASE \E m \in MaxMems : Create(m) BY <1>1, CreateRefines DEF Sets!Next
<1>2. CASE \E key \in Idents, val \in Vals : Set(key, val)
  BY <1>0, <1>2, SetRefines DEF Sets!Next
<1>3. CASE \E key \in Idents : Get(key) BY <1>0, <1>3, GetRefines DEF Sets!Next
<1>4. CASE \E key \in Idents : Delete(key) BY <1>0, <1>4, DeleteRefines DEF Sets!Next
<1>5. CASE Destroy BY <1>5, DestroyRefines DEF Sets!Next
<1>6. CASE UNCHANGED vars
  <2>1. cache' = cache /\ heap' = heap /\ ret' = ret BY <1>6 DEF vars
  <2>2. State' = State BY <2>1 DEF State
  <2>3. Inv' BY <2>1, <2>2 DEF Inv
  <2>4. \A b : Chain(b)' = Chain(b) BY <2>2 DEF Chain
  <2>5. Unchained' = Unchained BY <2>1, <2>4 DEF Unchained
  <2> QED BY <2>1, <2>3, <2>5 DEF Sets!vars
<1> QED BY <1>1, <1>2, <1>3, <1>4, <1>5, <1>6 DEF Next

LEMMA InvAlways ==
  ASSUME NullIsNoCache
  PROVE  Spec => []Inv
<1>1. Init => Inv BY DEF Init, Inv
<1>2. Inv /\ [Next]_vars => Inv' BY NextRefines
<1> QED BY <1>1, <1>2, PTL DEF Spec

(* querry_hash, del_link and the loops of resize_table and destroy_cache   *)
(* can rely on it: every chain ends, and holds the links of its bucket and *)
(* no others, whatever was set, deleted, evicted or relinked before.       *)
THEOREM ChainsHoldTheirBuckets ==
  ASSUME NullIsNoCache
  PROVE  Spec => []ChainsInv
<1>1. Inv => ChainsInv
  <2> SUFFICES ASSUME Inv, cache # NULL
               PROVE  /\ \A b \in Buckets : Deref(State, Walk(State, b)[Count(State)]) = NULL
                      /\ \A l \in DOMAIN heap :
                           LET b == map_to_location(Hash[heap[l].data.key], cache.table_size)
                           IN  /\ l \in Chain(b)
                               /\ \A x \in Buckets : l \in Chain(x) => x = b
    BY DEF ChainsInv
  <2>1. Chained(State) /\ State.c = cache /\ State.h = heap BY DEF Inv, State
  <2>2. Buckets = 0..(State.c.table_size - 1) BY <2>1 DEF Buckets
  <2>3. \A b \in Buckets : Deref(State, Walk(State, b)[Count(State)]) = NULL
    BY <2>1, <2>2, ChainHoldsBucket
  <2>4. \A b \in Buckets : Chain(b) = {l \in DOMAIN heap : BucketOf(State, l) = b}
    <3>1. \A b : Chain(b) = ChainOf(State, b) BY DEF Chain, ChainOf
    <3>2. \A b \in Buckets : ChainOf(State, b)
                               = {l \in DOMAIN State.h : BucketOf(State, l) = b}
      BY <2>1, <2>2, ChainHoldsBucket
    <3> QED BY <3>1, <3>2, <2>1
  <2>5. \A l \in DOMAIN heap : BucketOf(State, l) \in Buckets
    BY <2>1, <2>2, AbsFields DEF Chained
  <2>6. \A l : BucketOf(State, l)
               = map_to_location(Hash[heap[l].data.key], cache.table_size)
    BY <2>1 DEF BucketOf
  <2> QED BY <2>3, <2>4, <2>5, <2>6
<1> QED BY <1>1, InvAlways, PTL

(* destroy_cache leaves no link allocated.                                 *)
THEOREM DestroyLeavesNoLink ==
  ASSUME NullIsNoCache
  PROVE  Spec => []NoLinkLeaks
<1>1. Inv => NoLinkLeaks BY DEF Inv, NoLinkLeaks
<1> QED BY <1>1, InvAlways, PTL

(* Every call on the chained table does what HashCache says of buckets as  *)
(* sets: the order of the chains, the places that are assigned through and *)
(* the relinking loops show in nothing that a caller or the policy sees.   *)
THEOREM ChainsImplementSets ==
  ASSUME NullIsNoCache
  PROVE  Spec => ImplementsHashCache
<1>1. Init => Inv /\ Sets!Init
  BY DEF Init, Inv, Unchained, Sets!Init
<1>2. Inv /\ [Next]_vars => Inv' /\ [Sets!Next]_(Sets!vars) BY NextRefines
<1> QED BY <1>1, <1>2, PTL DEF Spec, ImplementsHashCache, Sets!Spec
=============================================================================

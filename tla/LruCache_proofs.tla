--------------------------- MODULE LruCache_proofs ---------------------------
(***************************************************************************)
(* Lemmas about LruCache, for every set of songs, every bound and every    *)
(* set of songs kept: what put, with its eviction loop, and get do to the  *)
(* values of keys, whatever is vetoed; and that without vetoes the list    *)
(* has each key of the map once.                                           *)
(***************************************************************************)
EXTENDS LruCache, FiniteSetTheorems, SequenceTheorems, WellFoundedInduction, TLAPS

(* The list of the cache of files.                                         *)
ListNodes == [key : Songs, value : Nat]
Lists     == Seq(ListNodes)

FirstAt(l, k, i) ==
  /\ i \in 1 .. Len(l) /\ l[i].key = k
  /\ \A j \in 1 .. Len(l) : j < i => l[j].key # k

(* The list says v of key k. *)
Has(l, k, v) == \E i \in 1 .. Len(l) : FirstAt(l, k, i) /\ l[i].value = v

LEMMA LeastNat ==
  ASSUME NEW T, T \subseteq Nat, T # {}
  PROVE  \E n \in T : \A k \in T : n <= k
<1>1. PICK n \in T : \A k \in T : ~ (<<k, n>> \in OpToRel(<, Nat))
  BY WFMin, NatLessThanWellFounded
<1>2. ASSUME NEW k \in T PROVE n <= k
  <2>1. k \in Nat /\ n \in Nat
    OBVIOUS
  <2>2. ~ (k < n)
    BY <1>1, <2>1 DEF OpToRel
  <2>3. QED
    BY <2>1, <2>2
<1>3. QED
  BY <1>2

LEMMA ListNode ==
  ASSUME NEW l \in Lists
  PROVE  /\ Len(l) \in Nat
         /\ \A i \in 1 .. Len(l) : l[i] \in ListNodes /\ l[i].key \in Songs /\ l[i].value \in Nat
<1>1. Len(l) \in Nat
  BY DEF Lists
<1>2. \A i \in 1 .. Len(l) : l[i] \in ListNodes
  BY ElementOfSeq DEF Lists
<1> QED
  BY <1>1, <1>2 DEF ListNodes

(* NodeOf finds the first node of a key. *)
LEMMA FirstFound ==
  ASSUME NEW c, c.list \in Lists, NEW k, NEW n \in 1 .. Len(c.list), c.list[n].key = k
  PROVE  /\ FirstAt(c.list, k, NodeOf(c, k)) /\ NodeOf(c, k) <= n
         /\ NodeOf(c, k) \in 1 .. Len(c.list)
<1> DEFINE l == c.list
           I == {i \in 1 .. Len(l) : l[i].key = k}
<1>1. Len(l) \in Nat
  BY ListNode
<1>2. n \in I /\ I \subseteq Nat /\ I # {}
  BY <1>1
<1>3. NodeOf(c, k) = CHOOSE x \in I : \A y \in I : x =< y
  BY <1>2 DEF NodeOf, SelectInSeq, Min
<1> HIDE DEF I
<1>4. \E x \in I : \A y \in I : x <= y
  BY <1>2, LeastNat
<1>5. NodeOf(c, k) \in I /\ \A y \in I : NodeOf(c, k) <= y
  BY <1>3, <1>4
<1> QED
  BY <1>1, <1>2, <1>5 DEF I, FirstAt

LEMMA FirstIs ==
  ASSUME NEW c, c.list \in Lists, NEW k, NEW i \in 1 .. Len(c.list), FirstAt(c.list, k, i)
  PROVE  NodeOf(c, k) = i /\ ValueOf(c, k) = c.list[i].value
<1>1. /\ FirstAt(c.list, k, NodeOf(c, k)) /\ NodeOf(c, k) \in 1 .. Len(c.list)
      /\ NodeOf(c, k) <= i
  BY FirstFound DEF FirstAt
<1>2. ~ (NodeOf(c, k) < i)
  BY <1>1 DEF FirstAt
<1>3. Len(c.list) \in Nat
  BY ListNode
<1>4. NodeOf(c, k) = i
  BY <1>1, <1>2, <1>3
<1> QED
  BY <1>4 DEF ValueOf

LEMMA HasValue ==
  ASSUME NEW c, c.list \in Lists, NEW k, NEW v, Has(c.list, k, v)
  PROVE  /\ ValueOf(c, k) = v /\ FirstAt(c.list, k, NodeOf(c, k))
         /\ NodeOf(c, k) \in 1 .. Len(c.list) /\ k \in Songs /\ v \in Nat
         /\ c.list[NodeOf(c, k)].key = k /\ c.list[NodeOf(c, k)].value = v
<1>1. PICK i \in 1 .. Len(c.list) : FirstAt(c.list, k, i) /\ c.list[i].value = v
  BY DEF Has
<1>2. NodeOf(c, k) = i /\ ValueOf(c, k) = v
  BY <1>1, FirstIs
<1>3. c.list[i].key = k /\ k \in Songs /\ v \in Nat
  BY <1>1, ListNode DEF FirstAt
<1> QED
  BY <1>1, <1>2, <1>3

LEMMA HasOne ==
  ASSUME NEW l \in Lists, NEW k, NEW v, NEW w, Has(l, k, v), Has(l, k, w)
  PROVE  v = w
<1> DEFINE c == [list |-> l]
<1>1. c.list = l
  OBVIOUS
<1> HIDE DEF c
<1>2. ValueOf(c, k) = v /\ ValueOf(c, k) = w
  BY <1>1, HasValue
<1> QED
  BY <1>2
-----------------------------------------------------------------------------
(* What is done to the list: a node put first, one taken out, the last one *)
(* taken off.                                                              *)
LEMMA PutFirst ==
  ASSUME NEW l \in Lists, NEW e \in ListNodes
  PROVE  /\ <<e>> \o l \in Lists /\ Len(<<e>> \o l) = Len(l) + 1 /\ (<<e>> \o l)[1] = e
         /\ \A i \in 1 .. Len(l) : (<<e>> \o l)[i + 1] = l[i]
<1>1. <<e>> \in Lists /\ Len(<<e>>) = 1 /\ <<e>>[1] = e
  BY DEF Lists
<1>2. /\ <<e>> \o l \in Lists /\ Len(<<e>> \o l) = 1 + Len(l)
      /\ \A i \in 1 .. 1 + Len(l) : (<<e>> \o l)[i] = IF i <= 1 THEN <<e>>[i] ELSE l[i - 1]
  BY <1>1, ConcatProperties DEF Lists
<1>3. Len(l) \in Nat
  BY ListNode
<1>4. ASSUME NEW i \in 1 .. Len(l)
      PROVE  (<<e>> \o l)[i + 1] = l[i]
  <2>1. i + 1 \in 1 .. 1 + Len(l) /\ ~ (i + 1 <= 1) /\ (i + 1) - 1 = i
    BY <1>3
  <2> QED
    BY <1>2, <2>1
<1>5. (<<e>> \o l)[1] = e
  BY <1>1, <1>2, <1>3
<1> QED
  BY <1>2, <1>3, <1>4, <1>5

LEMMA TakenOut ==
  ASSUME NEW l \in Lists, NEW n \in 1 .. Len(l)
  PROVE  /\ RemoveAt(l, n) \in Lists /\ Len(RemoveAt(l, n)) = Len(l) - 1
         /\ \A i \in 1 .. Len(l) - 1 : RemoveAt(l, n)[i] = IF i < n THEN l[i] ELSE l[i + 1]
<1> DEFINE a == SubSeq(l, 1, n - 1)
           b == SubSeq(l, n + 1, Len(l))
<1>1. Len(l) \in Nat /\ \A i \in 1 .. Len(l) : l[i] \in ListNodes
  BY ListNode
<1>2. /\ a \in Seq(ListNodes) /\ Len(a) = n - 1
      /\ \A i \in 1 .. n - 1 : a[i] = l[i]
  <2>1. 1 \in Int /\ n - 1 \in Int /\ \A i \in 1 .. n - 1 : l[i] \in ListNodes
    BY <1>1
  <2>2. /\ a \in Seq(ListNodes) /\ Len(a) = IF 1 <= n - 1 THEN (n - 1) - 1 + 1 ELSE 0
        /\ \A i \in 1 .. (n - 1) - 1 + 1 : a[i] = l[1 + i - 1]
    BY <2>1, SubSeqProperties
  <2> HIDE DEF a
  <2> QED
    BY <1>1, <2>2
<1>3. /\ b \in Seq(ListNodes) /\ Len(b) = Len(l) - n
      /\ \A i \in 1 .. Len(l) - n : b[i] = l[i + n]
  <2>1. n + 1 \in Int /\ Len(l) \in Int /\ \A i \in n + 1 .. Len(l) : l[i] \in ListNodes
    BY <1>1
  <2>2. /\ b \in Seq(ListNodes) /\ Len(b) = IF n + 1 <= Len(l) THEN Len(l) - (n + 1) + 1 ELSE 0
        /\ \A i \in 1 .. Len(l) - (n + 1) + 1 : b[i] = l[(n + 1) + i - 1]
    BY <2>1, SubSeqProperties
  <2> HIDE DEF b
  <2>3. Len(b) = Len(l) - n
    BY <1>1, <2>2
  <2>4. ASSUME NEW i \in 1 .. Len(l) - n PROVE b[i] = l[i + n]
    <3>1. i \in 1 .. Len(l) - (n + 1) + 1 /\ (n + 1) + i - 1 = i + n
      BY <1>1
    <3> QED
      BY <2>2, <3>1
  <2> QED
    BY <2>2, <2>3, <2>4
<1> HIDE DEF a, b
<1>4. /\ a \o b \in Seq(ListNodes) /\ Len(a \o b) = Len(a) + Len(b)
      /\ \A i \in 1 .. Len(a) + Len(b) : (a \o b)[i] = IF i <= Len(a) THEN a[i] ELSE b[i - Len(a)]
  BY <1>2, <1>3, ConcatProperties
<1>5. RemoveAt(l, n) = a \o b
  BY DEF RemoveAt, a, b
<1>6. Len(a \o b) = Len(l) - 1 /\ Len(a) + Len(b) = Len(l) - 1
  BY <1>1, <1>2, <1>3, <1>4
<1>7. ASSUME NEW i \in 1 .. Len(l) - 1
      PROVE  (a \o b)[i] = IF i < n THEN l[i] ELSE l[i + 1]
  <2>0. (a \o b)[i] = IF i <= n - 1 THEN a[i] ELSE b[i - (n - 1)]
    BY <1>2, <1>4, <1>6
  <2>1. CASE i < n
    <3>1. i <= n - 1 /\ i \in 1 .. n - 1
      BY <1>1, <2>1
    <3> QED
      BY <1>2, <2>0, <2>1, <3>1
  <2>2. CASE ~ (i < n)
    <3>1. ~ (i <= n - 1) /\ i - (n - 1) \in 1 .. Len(l) - n /\ (i - (n - 1)) + n = i + 1
      BY <1>1, <2>2
    <3> QED
      BY <1>3, <2>0, <2>2, <3>1
  <2> QED
    BY <2>1, <2>2
<1> QED
  BY <1>4, <1>5, <1>6, <1>7 DEF Lists

LEMMA TakenOff ==
  ASSUME NEW l \in Lists, Len(l) > 0
  PROVE  /\ Front(l) \in Lists /\ Len(Front(l)) = Len(l) - 1
         /\ \A i \in 1 .. Len(l) - 1 : Front(l)[i] = l[i]
<1>1. Len(l) \in Nat /\ \A i \in 1 .. Len(l) : l[i] \in ListNodes
  BY ListNode
<1>2. 1 \in Int /\ Len(l) - 1 \in Int /\ \A i \in 1 .. Len(l) - 1 : l[i] \in ListNodes
  BY <1>1
<1> DEFINE a == SubSeq(l, 1, Len(l) - 1)
<1>3. /\ a \in Seq(ListNodes) /\ Len(a) = IF 1 <= Len(l) - 1 THEN (Len(l) - 1) - 1 + 1 ELSE 0
      /\ \A i \in 1 .. (Len(l) - 1) - 1 + 1 : a[i] = l[1 + i - 1]
  BY <1>2, SubSeqProperties
<1>4. Front(l) = a
  BY DEF Front
<1> HIDE DEF a
<1>5. Len(a) = Len(l) - 1
  <2>1. Len(a) = IF 1 <= Len(l) - 1 THEN (Len(l) - 1) - 1 + 1 ELSE 0
    BY <1>3
  <2>2. CASE Len(l) = 1
    BY <2>1, <2>2
  <2>3. CASE Len(l) > 1
    <3>1. 1 <= Len(l) - 1 /\ (Len(l) - 1) - 1 + 1 = Len(l) - 1
      BY <1>1, <2>3
    <3> QED
      BY <2>1, <3>1, Zenon
  <2> QED
    BY <1>1, <2>2, <2>3
<1>6. ASSUME NEW i \in 1 .. Len(l) - 1 PROVE a[i] = l[i]
  <2>1. i \in 1 .. (Len(l) - 1) - 1 + 1 /\ 1 + i - 1 = i
    BY <1>1
  <2> QED
    BY <1>3, <2>1
<1> QED
  BY <1>3, <1>4, <1>5, <1>6 DEF Lists
-----------------------------------------------------------------------------
(* What these do to the values of keys.                                    *)
LEMMA PutFirstHas ==
  ASSUME NEW l \in Lists, NEW e \in ListNodes
  PROVE  /\ Has(<<e>> \o l, e.key, e.value)
         /\ \A k, v : k # e.key /\ Has(l, k, v) => Has(<<e>> \o l, k, v)
<1> DEFINE m == <<e>> \o l
<1>1. /\ m \in Lists /\ Len(m) = Len(l) + 1 /\ m[1] = e
      /\ \A i \in 1 .. Len(l) : m[i + 1] = l[i]
  BY PutFirst
<1>2. Len(l) \in Nat
  BY ListNode
<1> HIDE DEF m
<1>3. Has(m, e.key, e.value)
  <2>1. 1 \in 1 .. Len(m) /\ \A j \in 1 .. Len(m) : ~ (j < 1)
    BY <1>1, <1>2
  <2>2. FirstAt(m, e.key, 1)
    BY <1>1, <2>1 DEF FirstAt
  <2> QED
    BY <1>1, <2>1, <2>2 DEF Has
<1>4. ASSUME NEW k, NEW v, k # e.key, Has(l, k, v)
      PROVE  Has(m, k, v)
  <2>1. PICK i \in 1 .. Len(l) : FirstAt(l, k, i) /\ l[i].value = v
    BY <1>4 DEF Has
  <2>2. l[i].key = k /\ \A j \in 1 .. Len(l) : j < i => l[j].key # k
    BY <2>1 DEF FirstAt
  <2>3. i + 1 \in 1 .. Len(m) /\ m[i + 1] = l[i]
    BY <1>1, <1>2
  <2>4. ASSUME NEW j \in 1 .. Len(m), j < i + 1
        PROVE  m[j].key # k
    <3>1. CASE j = 1
      BY <1>1, <1>4, <3>1
    <3>2. CASE j # 1
      <4>1. j - 1 \in 1 .. Len(l) /\ j - 1 < i /\ (j - 1) + 1 = j
        BY <1>1, <1>2, <2>4, <3>2
      <4>2. m[j] = l[j - 1]
        BY <1>1, <4>1
      <4> QED
        BY <2>2, <4>1, <4>2
    <3> QED
      BY <3>1, <3>2
  <2>5. FirstAt(m, k, i + 1)
    BY <2>2, <2>3, <2>4 DEF FirstAt
  <2> QED
    BY <2>1, <2>3, <2>5 DEF Has
<1> QED
  BY <1>3, <1>4 DEF m

LEMMA TakenOutHas ==
  ASSUME NEW l \in Lists, NEW n \in 1 .. Len(l)
  PROVE  \A k, v : k # l[n].key /\ Has(l, k, v) => Has(RemoveAt(l, n), k, v)
<1> DEFINE m == RemoveAt(l, n)
<1>1. /\ m \in Lists /\ Len(m) = Len(l) - 1
      /\ \A i \in 1 .. Len(l) - 1 : m[i] = IF i < n THEN l[i] ELSE l[i + 1]
  BY TakenOut
<1>2. Len(l) \in Nat
  BY ListNode
<1> HIDE DEF m
<1>3. ASSUME NEW k, NEW v, k # l[n].key, Has(l, k, v)
      PROVE  Has(m, k, v)
  <2>1. PICK i \in 1 .. Len(l) : FirstAt(l, k, i) /\ l[i].value = v
    BY <1>3 DEF Has
  <2>2. l[i].key = k /\ i # n /\ \A j \in 1 .. Len(l) : j < i => l[j].key # k
    BY <1>3, <2>1 DEF FirstAt
  <2>3. PICK p \in 1 .. Len(l) - 1 : p = IF i < n THEN i ELSE i - 1
    BY <1>2, <2>2
  <2>4. m[p] = l[i]
    <3>1. CASE i < n
      BY <1>1, <2>3, <3>1
    <3>2. CASE ~ (i < n)
      <4>1. ~ (p < n) /\ p + 1 = i
        BY <1>2, <2>2, <2>3, <3>2
      <4> QED
        BY <1>1, <4>1
    <3> QED
      BY <3>1, <3>2
  <2>5. ASSUME NEW j \in 1 .. Len(m), j < p
        PROVE  m[j].key # k
    <3>1. PICK q \in 1 .. Len(l) : q = IF j < n THEN j ELSE j + 1
      BY <1>1, <1>2
    <3>2. m[j] = l[q]
      BY <1>1, <3>1
    <3>3. q < i
      BY <1>2, <2>2, <2>3, <2>5, <3>1
    <3> QED
      BY <2>2, <3>2, <3>3
  <2>6. FirstAt(m, k, p)
    BY <1>1, <2>2, <2>3, <2>4, <2>5 DEF FirstAt
  <2> QED
    BY <1>1, <2>1, <2>3, <2>4, <2>6 DEF Has
<1> QED
  BY <1>3 DEF m

(* Without its last node the list says the same of every key whose first   *)
(* node that is not.                                                       *)
LEMMA TakenOffHas ==
  ASSUME NEW l \in Lists, Len(l) > 0, NEW k, NEW v, Has(l, k, v), ~ FirstAt(l, k, Len(l))
  PROVE  Has(Front(l), k, v)
<1> DEFINE m == Front(l)
<1>1. /\ m \in Lists /\ Len(m) = Len(l) - 1
      /\ \A i \in 1 .. Len(l) - 1 : m[i] = l[i]
  BY TakenOff
<1>2. Len(l) \in Nat
  BY ListNode
<1> HIDE DEF m
<1>3. PICK i \in 1 .. Len(l) : FirstAt(l, k, i) /\ l[i].value = v
  BY DEF Has
<1>4. i # Len(l)
  BY <1>3
<1>5. l[i].key = k /\ \A j \in 1 .. Len(l) : j < i => l[j].key # k
  BY <1>3 DEF FirstAt
<1>6. i \in 1 .. Len(m) /\ m[i] = l[i]
  BY <1>1, <1>2, <1>4
<1>7. ASSUME NEW j \in 1 .. Len(m), j < i
      PROVE  m[j].key # k
  <2>1. j \in 1 .. Len(l) /\ m[j] = l[j]
    BY <1>1, <1>2
  <2> QED
    BY <1>5, <1>7, <2>1
<1>8. FirstAt(m, k, i)
  BY <1>5, <1>6, <1>7 DEF FirstAt
<1>9. Has(m, k, v)
  BY <1>3, <1>6, <1>8 DEF Has
<1> QED
  BY <1>9 DEF m
-----------------------------------------------------------------------------
(* The cache: where the values of its keys are, as long as nothing is      *)
(* undefined.                                                              *)
Caches == [list : Lists, map : SUBSET Songs, dangling : SUBSET Songs, undefined : BOOLEAN]

IsCache(c) == c \in Caches /\ IsFiniteSet(c.map)

Linked(c) == \A x \in c.map \ c.dangling : \E v \in Nat : Has(c.list, x, v)

(* Cache d says of its keys what c says of them, but for those of S.       *)
KeepsValues(c, d, S) ==
  \A x \in (d.map \ d.dangling) \ S :
    x \in c.map \ c.dangling /\ \A v : Has(c.list, x, v) => Has(d.list, x, v)

Defined(c) == ~ c.undefined

LEMMA CacheFields ==
  ASSUME NEW c, c \in Caches
  PROVE  /\ c.list \in Lists /\ c.map \subseteq Songs /\ c.dangling \subseteq Songs
         /\ c.undefined \in BOOLEAN
         /\ c = [list |-> c.list, map |-> c.map, dangling |-> c.dangling, undefined |-> c.undefined]
BY DEF Caches

LEMMA CacheListSet ==
  ASSUME NEW c, c \in Caches, NEW l
  PROVE  [c EXCEPT !.list = l]
           = [list |-> l, map |-> c.map, dangling |-> c.dangling, undefined |-> c.undefined]
BY DEF Caches

LEMMA CacheUndefined ==
  ASSUME NEW c, IsCache(c)
  PROVE  IsCache([c EXCEPT !.undefined = TRUE]) /\ [c EXCEPT !.undefined = TRUE].undefined
<1> DEFINE d == [c EXCEPT !.undefined = TRUE]
<1>1. d \in Caches /\ d.map = c.map /\ d.undefined
  BY DEF Caches, IsCache
<1> QED
  BY <1>1 DEF IsCache

PushedList(c, k, v) ==
  <<[key |-> k, value |-> v]>>
    \o (IF k \in c.map /\ ~ Uses(c, k) THEN RemoveAt(c.list, NodeOf(c, k)) ELSE c.list)

LEMMA PushFields ==
  ASSUME NEW c, c \in Caches, NEW k, NEW v
  PROVE  /\ Push(c, k, v).list = PushedList(c, k, v) /\ Push(c, k, v).map = c.map \cup {k}
         /\ Push(c, k, v).dangling = c.dangling
         /\ Push(c, k, v).undefined <=> (c.undefined \/ k \in c.dangling)
         /\ PushedList(c, k, v) \in Lists /\ k \in Songs => Push(c, k, v) \in Caches
<1> DEFINE l  == PushedList(c, k, v)
           u  == c.undefined \/ k \in c.dangling
           c1 == [c EXCEPT !.list = l]
           c2 == [c1 EXCEPT !.map = c.map \cup {k}]
           d  == [c2 EXCEPT !.undefined = u]
<1>1. Push(c, k, v) = [c EXCEPT !.list = l, !.map = c.map \cup {k}, !.undefined = u]
  BY DEF Push, Uses, PushedList
<1>2. Push(c, k, v) = d
  <2> HIDE DEF l, u
  <2> QED
    BY <1>1, Zenon
<1>3. c1 = [list |-> l, map |-> c.map, dangling |-> c.dangling, undefined |-> c.undefined]
  BY CacheListSet
<1>4. u \in BOOLEAN /\ c.map \subseteq Songs /\ c.dangling \subseteq Songs
  BY DEF Caches
<1> HIDE DEF c1, l, u
<1>5. c2 = [list |-> l, map |-> c.map \cup {k}, dangling |-> c.dangling, undefined |-> c.undefined]
  BY <1>3
<1> HIDE DEF c2
<1>6. d.list = l /\ d.map = c.map \cup {k} /\ d.dangling = c.dangling /\ d.undefined = u
  BY <1>5
<1>7. l \in Lists /\ k \in Songs => d \in Caches
  <2> SUFFICES ASSUME l \in Lists, k \in Songs PROVE d \in Caches
    OBVIOUS
  <2>1. d = [list |-> l, map |-> c.map \cup {k}, dangling |-> c.dangling, undefined |-> u]
    BY <1>5
  <2> QED
    BY <1>4, <2>1 DEF Caches
<1> QED
  BY <1>2, <1>6, <1>7 DEF l, u

LEMMA LinkedNode ==
  ASSUME NEW c, c \in Caches, Linked(c), NEW x \in c.map \ c.dangling
  PROVE  /\ NodeOf(c, x) \in 1 .. Len(c.list) /\ c.list[NodeOf(c, x)].key = x
         /\ Has(c.list, x, ValueOf(c, x)) /\ ValueOf(c, x) \in Nat
<1>1. PICK v \in Nat : Has(c.list, x, v)
  BY DEF Linked
<1> QED
  BY <1>1, CacheFields, HasValue

(* A push: the key has the value pushed, every other key its own.          *)
LEMMA PushKeeps ==
  ASSUME NEW c, IsCache(c), Linked(c), Defined(c), NEW k \in Songs, NEW v \in Nat
  PROVE  /\ IsCache(Push(c, k, v)) /\ Push(c, k, v).map = c.map \cup {k}
         /\ Push(c, k, v).dangling = c.dangling /\ Len(Push(c, k, v).list) \in Nat \ {0}
         /\ k \notin c.dangling => Defined(Push(c, k, v))
         /\ Linked(Push(c, k, v)) /\ Has(Push(c, k, v).list, k, v)
         /\ KeepsValues(c, Push(c, k, v), {k})
<1> DEFINE e == [key |-> k, value |-> v]
           rest == IF k \in c.map /\ ~ Uses(c, k) THEN RemoveAt(c.list, NodeOf(c, k)) ELSE c.list
           l == <<e>> \o rest
           d == Push(c, k, v)
<1>0. c \in Caches /\ c.list \in Lists /\ c.map \subseteq Songs /\ c.dangling \subseteq Songs
  BY CacheFields DEF IsCache
<1>1. e \in ListNodes /\ e.key = k /\ e.value = v
  BY DEF ListNodes
<1>2. /\ rest \in Lists
      /\ \A x, w : x # k /\ Has(c.list, x, w) => Has(rest, x, w)
  <2>1. CASE k \in c.map /\ ~ Uses(c, k)
    <3>1. NodeOf(c, k) \in 1 .. Len(c.list) /\ c.list[NodeOf(c, k)].key = k
      BY <1>0, <2>1, LinkedNode DEF Uses
    <3>2. rest = RemoveAt(c.list, NodeOf(c, k))
      BY <2>1
    <3> HIDE DEF rest
    <3> QED
      BY <1>0, <3>1, <3>2, TakenOut, TakenOutHas
  <2>2. CASE ~ (k \in c.map /\ ~ Uses(c, k))
    BY <1>0, <2>2
  <2> QED
    BY <2>1, <2>2
<1>3. PushedList(c, k, v) = l
  BY DEF PushedList
<1> HIDE DEF e, rest, d
<1>4. /\ l \in Lists /\ Len(l) = Len(rest) + 1 /\ Has(l, k, v)
      /\ \A x, w : x # k /\ Has(rest, x, w) => Has(l, x, w)
  BY <1>1, <1>2, PutFirst, PutFirstHas
<1> HIDE DEF l
<1>6. /\ d.list = l /\ d.map = c.map \cup {k} /\ d.dangling = c.dangling
      /\ d \in Caches /\ (d.undefined <=> k \in c.dangling)
  <2>0. ~ c.undefined
    BY DEF Defined
  <2>1. /\ d.list = PushedList(c, k, v) /\ d.map = c.map \cup {k} /\ d.dangling = c.dangling
        /\ d.undefined <=> (c.undefined \/ k \in c.dangling)
        /\ PushedList(c, k, v) \in Lists => d \in Caches
    BY <1>0, PushFields DEF d
  <2> QED
    BY <1>3, <1>4, <2>0, <2>1
<1>8. IsCache(d)
  <2>1. IsFiniteSet(c.map \cup {k})
    BY FS_AddElement DEF IsCache
  <2> QED
    BY <1>6, <2>1 DEF IsCache
<1>13. k \notin c.dangling => Defined(d)
  BY <1>6 DEF Defined
<1>9. Len(l) \in Nat \ {0}
  BY <1>2, <1>4, ListNode
<1>10. \A x \in (c.map \cup {k}) \ c.dangling : x # k =>
         x \in c.map \ c.dangling /\ \A w : Has(c.list, x, w) => Has(l, x, w)
  BY <1>2, <1>4
<1>11. Linked(d)
  <2>1. ASSUME NEW x \in (c.map \cup {k}) \ c.dangling
        PROVE  \E w \in Nat : Has(l, x, w)
    <3>1. CASE x = k
      BY <1>4, <3>1
    <3>2. CASE x # k
      BY <1>10, <2>1, <3>2 DEF Linked
    <3> QED
      BY <3>1, <3>2
  <2> QED
    BY <1>6, <2>1 DEF Linked
<1>12. KeepsValues(c, d, {k})
  BY <1>6, <1>10 DEF KeepsValues
<1> QED
  BY <1>4, <1>6, <1>8, <1>9, <1>11, <1>12, <1>13 DEF d
-----------------------------------------------------------------------------
(* The eviction loop, which starts with cache b: no key that is kept goes, *)
(* none that stays changes its value.                                      *)
Turns == [cache : Caches, at : Nat, freed : BOOLEAN, evicted : SUBSET Songs]

EvictInv(s, b, kept) ==
  /\ s \in Turns /\ IsCache(s.cache)
  /\ s.at \in 1 .. Len(s.cache.list) + 1
  /\ s.evicted \cap kept = {}
  /\ Defined(s.cache) =>
       /\ kept \cap b.map \subseteq s.cache.map /\ s.cache.map \subseteq b.map
       /\ KeepsValues(b, s.cache, {}) /\ Linked(s.cache)

(* The cache without key k and without its last node. *)
Shortened(c, k, lost) ==
  [c EXCEPT !.list = Front(@), !.map = c.map \ {k},
            !.dangling = (@ \cup lost) \cap (c.map \ {k})]

LEMMA ShortenedFields ==
  ASSUME NEW c, c \in Caches, NEW k, NEW lost
  PROVE  /\ Shortened(c, k, lost).list = Front(c.list)
         /\ Shortened(c, k, lost).map = c.map \ {k}
         /\ Shortened(c, k, lost).dangling = (c.dangling \cup lost) \cap (c.map \ {k})
         /\ Shortened(c, k, lost).undefined <=> c.undefined
         /\ Len(c.list) > 0 => Shortened(c, k, lost) \in Caches
<1> DEFINE l  == Front(c.list)
           m  == c.map \ {k}
           g  == (c.dangling \cup lost) \cap (c.map \ {k})
           c1 == [c EXCEPT !.list = l]
           c2 == [c1 EXCEPT !.map = m]
           d  == [c2 EXCEPT !.dangling = g]
<1>1. Shortened(c, k, lost) = [c EXCEPT !.list = l, !.map = m, !.dangling = g]
  BY DEF Shortened
<1>2. Shortened(c, k, lost) = d
  <2> HIDE DEF l, m, g
  <2> QED
    BY <1>1, Zenon
<1>3. c1 = [list |-> l, map |-> c.map, dangling |-> c.dangling, undefined |-> c.undefined]
  BY CacheListSet
<1>4. /\ m \subseteq Songs /\ g \subseteq Songs /\ c.undefined \in BOOLEAN
      /\ Len(c.list) > 0 => l \in Lists
  BY TakenOff DEF Caches
<1> HIDE DEF c1, l, m, g
<1>5. c2 = [list |-> l, map |-> m, dangling |-> c.dangling, undefined |-> c.undefined]
  BY <1>3
<1> HIDE DEF c2
<1>6. d = [list |-> l, map |-> m, dangling |-> g, undefined |-> c.undefined]
  BY <1>5
<1> HIDE DEF d
<1>7. d.list = l /\ d.map = m /\ d.dangling = g /\ (d.undefined <=> c.undefined)
  BY <1>6
<1>8. Len(c.list) > 0 => d \in Caches
  BY <1>4, <1>6 DEF Caches
<1> QED
  BY <1>2, <1>7, <1>8 DEF l, m, g

(* The last node that goes may be the only one of a key that stays: that   *)
(* key's node is then freed.                                               *)
LEMMA ShortenKeeps ==
  ASSUME NEW c, IsCache(c), Linked(c), Len(c.list) > 0, NEW k, NEW lost,
         \A x \in c.map \ {k} : FirstAt(c.list, x, Len(c.list)) => x \in lost
  PROVE  /\ IsCache(Shortened(c, k, lost)) /\ KeepsValues(c, Shortened(c, k, lost), {})
         /\ Linked(Shortened(c, k, lost))
<1> DEFINE d == Shortened(c, k, lost)
<1>1. c \in Caches /\ c.list \in Lists
  BY CacheFields DEF IsCache
<1>2. /\ d.list = Front(c.list) /\ d.map = c.map \ {k}
      /\ d.dangling = (c.dangling \cup lost) \cap (c.map \ {k}) /\ d \in Caches
  BY <1>1, ShortenedFields
<1> HIDE DEF d
<1>3. IsCache(d)
  <2>1. IsFiniteSet(c.map \ {k})
    BY FS_RemoveElement DEF IsCache
  <2> QED
    BY <1>2, <2>1 DEF IsCache
<1>4. ASSUME NEW x \in d.map \ d.dangling
      PROVE  x \in c.map \ c.dangling /\ \A v : Has(c.list, x, v) => Has(d.list, x, v)
  <2>1. x \in c.map \ {k} /\ x \notin c.dangling /\ x \notin lost
    BY <1>2
  <2>2. ~ FirstAt(c.list, x, Len(c.list))
    BY <2>1
  <2> QED
    BY <1>1, <1>2, <2>1, <2>2, TakenOffHas
<1>5. KeepsValues(c, d, {})
  BY <1>4 DEF KeepsValues
<1>6. Linked(d)
  BY <1>4 DEF Linked
<1> QED
  BY <1>3, <1>5, <1>6 DEF d

LEMMA KeepsOn ==
  ASSUME NEW b, NEW c, NEW d, KeepsValues(b, c, {}), KeepsValues(c, d, {})
  PROVE  KeepsValues(b, d, {})
BY DEF KeepsValues

LEMMA TurnFields ==
  ASSUME NEW s, s \in Turns
  PROVE  /\ s.cache \in Caches /\ s.at \in Nat /\ s.freed \in BOOLEAN /\ s.evicted \subseteq Songs
         /\ s = [cache |-> s.cache, at |-> s.at, freed |-> s.freed, evicted |-> s.evicted]
BY DEF Turns

LEMMA EvictOneKeeps ==
  ASSUME NEW s, NEW b, NEW kept, EvictInv(s, b, kept)
  PROVE  EvictInv(EvictOne(s, kept), b, kept)
<1> DEFINE c    == s.cache
           at   == s.at - 1
           key  == c.list[at].key
           last == Last(c.list).key
           gone == at = Len(c.list)
           lost == IF gone \/ NodeOf(c, last) # Len(c.list) THEN {} ELSE {last}
<1>1. /\ s \in Turns /\ IsCache(c) /\ c \in Caches /\ c.list \in Lists /\ Len(c.list) \in Nat
      /\ s.at \in 1 .. Len(c.list) + 1 /\ s.evicted \cap kept = {} /\ s.evicted \subseteq Songs
      /\ s.freed \in BOOLEAN
  BY CacheFields, TurnFields, ListNode DEF EvictInv, IsCache
<1>2. CASE EvictOne(s, kept) = s
  BY <1>2
<1>3. CASE EvictOne(s, kept) = [s EXCEPT !.cache.undefined = TRUE]
  <2> DEFINE d == [c EXCEPT !.undefined = TRUE]
             t == [s EXCEPT !.cache = d]
  <2>1. EvictOne(s, kept) = t
    BY <1>3
  <2>2. IsCache(d) /\ d.undefined
    BY <1>1, CacheUndefined
  <2>3. d.list = c.list
    BY <1>1 DEF Caches
  <2> HIDE DEF d
  <2>4. t \in Turns /\ t.cache = d /\ t.at = s.at /\ t.evicted = s.evicted
    BY <1>1, <2>2 DEF Turns, IsCache
  <2> HIDE DEF t
  <2> QED
    BY <1>1, <2>1, <2>2, <2>3, <2>4 DEF EvictInv, Defined
<1>4. CASE ~ c.undefined /\ at # 0 /\ EvictOne(s, kept) = [s EXCEPT !.at = at]
  <2> DEFINE t == [s EXCEPT !.at = at]
  <2>1. at \in 1 .. Len(c.list) + 1 /\ at \in Nat
    BY <1>1, <1>4
  <2> HIDE DEF at
  <2>2. t \in Turns /\ t.cache = c /\ t.at = at /\ t.evicted = s.evicted
    BY <1>1, <2>1 DEF Turns
  <2> HIDE DEF t
  <2> QED
    BY <1>1, <1>4, <2>1, <2>2 DEF EvictInv, t
<1>5. CASE /\ ~ c.undefined /\ at # 0 /\ key \notin kept
           /\ EvictOne(s, kept) = [at |-> at, freed |-> gone, evicted |-> s.evicted \cup {key},
                                   cache |-> Shortened(c, key, lost)]
  <2>1. at \in 1 .. Len(c.list) /\ at \in Nat /\ Len(c.list) > 0 /\ Len(c.list) \in 1 .. Len(c.list)
    BY <1>1, <1>5
  <2>2. key \in Songs
    BY <1>1, <2>1, ListNode
  <2>3. /\ kept \cap b.map \subseteq c.map /\ c.map \subseteq b.map
        /\ KeepsValues(b, c, {}) /\ Linked(c)
    BY <1>5 DEF EvictInv, Defined
  <2>4. ASSUME NEW x \in c.map \ {key}, FirstAt(c.list, x, Len(c.list))
        PROVE  x \in lost
    <3>1. x = last
      BY <2>4 DEF FirstAt, Last
    <3>2. ~ gone
      BY <2>4, <3>1 DEF Last
    <3>3. NodeOf(c, last) = Len(c.list)
      BY <1>1, <2>1, <2>4, <3>1, FirstIs
    <3> QED
      BY <3>1, <3>2, <3>3
  <2> DEFINE d == Shortened(c, key, lost)
             t == [at |-> at, freed |-> gone, evicted |-> s.evicted \cup {key}, cache |-> d]
  <2> HIDE DEF lost, key
  <2>5. IsCache(d) /\ KeepsValues(c, d, {}) /\ Linked(d)
    BY <1>1, <2>1, <2>3, <2>4, ShortenKeeps
  <2>6. d.list = Front(c.list) /\ d.map = c.map \ {key}
    BY <1>1, ShortenedFields
  <2>7. Len(d.list) = Len(c.list) - 1
    BY <1>1, <2>1, <2>6, TakenOff
  <2> HIDE DEF d
  <2>8. gone \in BOOLEAN
    OBVIOUS
  <2> HIDE DEF gone, at
  <2>9. t \in Turns /\ t.cache = d /\ t.at = at /\ t.evicted = s.evicted \cup {key}
    BY <1>1, <2>1, <2>2, <2>5, <2>8 DEF Turns, IsCache
  <2> HIDE DEF t
  <2>10. t.at \in 1 .. Len(t.cache.list) + 1
    BY <1>1, <2>1, <2>7, <2>9
  <2>11. KeepsValues(b, d, {})
    BY <2>3, <2>5, KeepsOn
  <2>12. kept \cap b.map \subseteq d.map /\ d.map \subseteq b.map
    BY <1>5, <2>3, <2>6
  <2>13. t.evicted \cap kept = {}
    BY <1>1, <1>5, <2>9
  <2>14. EvictInv(t, b, kept)
    BY <2>5, <2>9, <2>10, <2>11, <2>12, <2>13 DEF EvictInv
  <2> QED
    BY <1>5, <2>14 DEF t, d
<1> QED
  BY <1>2, <1>3, <1>4, <1>5 DEF EvictOne, Shortened
-----------------------------------------------------------------------------
(* The loop as a whole: f says how it stands after each turn.              *)
After(f, start, kept, turns) ==
  f = [i \in 0 .. turns |-> IF i = 0 THEN start ELSE EvictOne(f[i - 1], kept)]

LEMMA AfterValues ==
  ASSUME NEW f, NEW start, NEW kept, NEW turns \in Nat, After(f, start, kept, turns)
  PROVE  /\ f[0] = start
         /\ \A i \in 1 .. turns : f[i] = EvictOne(f[i - 1], kept)
<1>1. 0 \in 0 .. turns
  OBVIOUS
<1>2. f[0] = start
  BY <1>1, Zenon DEF After
<1>3. ASSUME NEW i \in 1 .. turns
      PROVE  f[i] = EvictOne(f[i - 1], kept)
  <2>1. i \in 0 .. turns /\ i # 0
    OBVIOUS
  <2> QED
    BY <2>1, Zenon DEF After
<1> QED
  BY <1>2, <1>3, Zenon

LEMMA AfterLonger ==
  ASSUME NEW f, NEW start, NEW kept, NEW k \in Nat, After(f, start, kept, k)
  PROVE  \E g : After(g, start, kept, k + 1)
<1> DEFINE Onward(i) == EvictOne(f[i - 1], kept)
           g == [i \in 0 .. k + 1 |-> IF i = 0 THEN start ELSE Onward(i)]
<1>1. ASSUME NEW i \in 0 .. k PROVE g[i] = f[i]
  <2>1. i \in 0 .. k + 1 /\ (i = 0 \/ i \in 1 .. k)
    OBVIOUS
  <2>2. g[i] = IF i = 0 THEN start ELSE Onward(i)
    BY <2>1, Zenon
  <2>3. /\ f[0] = start
        /\ \A j \in 1 .. k : f[j] = Onward(j)
    BY AfterValues, ZenonT(30)
  <2> QED
    BY <2>1, <2>2, <2>3, Zenon
<1>2. ASSUME NEW i \in 0 .. k + 1
      PROVE  g[i] = IF i = 0 THEN start ELSE EvictOne(g[i - 1], kept)
  <2>1. g[i] = IF i = 0 THEN start ELSE Onward(i)
    BY Zenon
  <2>2. i # 0 => i - 1 \in 0 .. k
    OBVIOUS
  <2> HIDE DEF g
  <2>3. i # 0 => g[i - 1] = f[i - 1]
    BY <1>1, <2>2, Zenon
  <2> QED
    BY <2>1, <2>3, Zenon
<1>3. After(g, start, kept, k + 1)
  <2> DEFINE h == [i \in 0 .. k + 1 |-> IF i = 0 THEN start ELSE EvictOne(g[i - 1], kept)]
  <2>1. g = [i \in 0 .. k + 1 |-> g[i]]
    BY Zenon
  <2> HIDE DEF g
  <2>2. [i \in 0 .. k + 1 |-> g[i]] = h
    BY <1>2, Zenon
  <2> QED
    BY <2>1, <2>2, Zenon DEF After
<1> QED
  BY <1>3, Zenon

LEMMA EvictAfter ==
  ASSUME NEW start, NEW kept, NEW turns \in Nat
  PROVE  After(Evict(start, kept, turns), start, kept, turns)
<1> DEFINE T == {k \in Nat : ~ \E f : After(f, start, kept, k)}
<1>1. \E f : After(f, start, kept, 0)
  <2> DEFINE f == [i \in 0 .. 0 |-> start]
  <2>1. f = [i \in 0 .. 0 |-> IF i = 0 THEN start ELSE EvictOne(f[i - 1], kept)]
    OBVIOUS
  <2> HIDE DEF f
  <2>2. After(f, start, kept, 0)
    BY <2>1, Zenon DEF After
  <2> QED
    BY <2>2, Zenon
<1>2. T = {}
  <2> SUFFICES ASSUME T # {} PROVE FALSE
    OBVIOUS
  <2>1. T \subseteq Nat
    OBVIOUS
  <2>2. PICK k \in T : \A j \in T : k <= j
    <3> HIDE DEF T
    <3>1. QED
      BY <2>1, LeastNat
  <2>3. k \in Nat /\ k # 0 /\ k - 1 \in Nat /\ k - 1 \notin T
    BY <1>1, <2>2
  <2>4. PICK f : After(f, start, kept, k - 1)
    BY <2>3
  <2>5. \E g : After(g, start, kept, (k - 1) + 1)
    BY <2>3, <2>4, AfterLonger, Zenon
  <2>6. (k - 1) + 1 = k
    BY <2>3
  <2> QED
    BY <2>2, <2>5, <2>6
<1>3. \E f : After(f, start, kept, turns)
  BY <1>2
<1> DEFINE r == CHOOSE f : f = [i \in 0 .. turns |->
                                  IF i = 0 THEN start ELSE EvictOne(f[i - 1], kept)]
<1>4. r = [i \in 0 .. turns |-> IF i = 0 THEN start ELSE EvictOne(r[i - 1], kept)]
  <2>1. \E f : f = [i \in 0 .. turns |-> IF i = 0 THEN start ELSE EvictOne(f[i - 1], kept)]
    BY <1>3, Zenon DEF After
  <2> QED
    BY <2>1, Zenon
<1>5. Evict(start, kept, turns) = r
  BY Zenon DEF Evict
<1> HIDE DEF r
<1> QED
  BY <1>4, <1>5, Zenon DEF After

(* However many turns the loop takes, it keeps what it must.               *)
LEMMA EvictKeeps ==
  ASSUME NEW start, NEW kept, NEW turns \in Nat, NEW b, EvictInv(start, b, kept)
  PROVE  EvictInv(Evict(start, kept, turns)[turns], b, kept)
<1> DEFINE f == Evict(start, kept, turns)
           T == {i \in 0 .. turns : ~ EvictInv(f[i], b, kept)}
<1>1. /\ f[0] = start
      /\ \A i \in 1 .. turns : f[i] = EvictOne(f[i - 1], kept)
  BY EvictAfter, AfterValues, ZenonT(30)
<1> HIDE DEF f
<1>2. T = {}
  <2> SUFFICES ASSUME T # {} PROVE FALSE
    OBVIOUS
  <2>1. T \subseteq Nat
    OBVIOUS
  <2>2. PICK k \in T : \A j \in T : k <= j
    <3> HIDE DEF T
    <3>1. QED
      BY <2>1, LeastNat
  <2>3. k \in 0 .. turns /\ ~ EvictInv(f[k], b, kept)
    BY <2>2
  <2>4. k # 0
    BY <1>1, <2>3
  <2>5. k \in 1 .. turns /\ k - 1 \in 0 .. turns /\ ~ (k <= k - 1)
    BY <2>3, <2>4
  <2>6. EvictInv(f[k - 1], b, kept)
    BY <2>2, <2>5
  <2>7. f[k] = EvictOne(f[k - 1], kept)
    BY <1>1, <2>5
  <2> QED
    BY <2>3, <2>6, <2>7, EvictOneKeeps
<1>3. turns \in 0 .. turns
  OBVIOUS
<1> QED
  BY <1>2, <1>3 DEF f
-----------------------------------------------------------------------------
(* put and get: what is kept stays, and no other key's value changes.      *)
LEMMA PutKeeps ==
  ASSUME NEW c, IsCache(c), Linked(c), Defined(c), NEW k \in Songs, NEW v \in Nat,
         NEW max \in Nat, NEW kept
  PROVE  /\ IsCache(Put(c, k, v, max, kept).cache)
         /\ Put(c, k, v, max, kept).evicted \cap kept = {}
         /\ Defined(Put(c, k, v, max, kept).cache) =>
              /\ Linked(Put(c, k, v, max, kept).cache)
              /\ KeepsValues(c, Put(c, k, v, max, kept).cache, {k})
              /\ kept \cap (c.map \cup {k}) \subseteq Put(c, k, v, max, kept).cache.map
              /\ k \in Put(c, k, v, max, kept).cache.map \ Put(c, k, v, max, kept).cache.dangling =>
                   Has(Put(c, k, v, max, kept).cache.list, k, v)
<1> DEFINE pushed == Push(c, k, v)
           excess == Cardinality(pushed.map) - max
           start  == [cache |-> pushed, at |-> Len(pushed.list) + 1, freed |-> FALSE, evicted |-> {}]
           r      == Put(c, k, v, max, kept)
<1>1. /\ IsCache(pushed) /\ pushed.map = c.map \cup {k} /\ Len(pushed.list) \in Nat \ {0}
      /\ Linked(pushed) /\ Has(pushed.list, k, v) /\ KeepsValues(c, pushed, {k})
      /\ pushed.dangling = c.dangling
  BY PushKeeps
<1>2. r = IF excess <= 0 THEN start ELSE Evict(start, kept, excess)[excess]
  BY DEF Put
<1> HIDE DEF r, pushed
<1>3. /\ start \in Turns /\ start.cache = pushed /\ start.at = Len(pushed.list) + 1
      /\ start.evicted = {}
  BY <1>1 DEF Turns, IsCache
<1>4. EvictInv(start, pushed, kept)
  <2>1. KeepsValues(pushed, pushed, {})
    BY DEF KeepsValues
  <2>2. start.at \in 1 .. Len(pushed.list) + 1
    BY <1>1, <1>3
  <2> HIDE DEF start
  <2> QED
    BY <1>1, <1>3, <2>1, <2>2 DEF EvictInv
<1> HIDE DEF start
<1>5. Cardinality(pushed.map) \in Nat /\ excess \in Int
  BY <1>1, FS_CardinalityType DEF IsCache
<1> HIDE DEF excess
<1>6. EvictInv(r, pushed, kept)
  <2>1. CASE excess <= 0
    BY <1>2, <1>4, <2>1
  <2>2. CASE ~ (excess <= 0)
    <3>1. excess \in Nat
      BY <1>5, <2>2
    <3> QED
      BY <1>2, <1>4, <2>2, <3>1, EvictKeeps
  <2> QED
    BY <2>1, <2>2
<1>7. /\ IsCache(r.cache) /\ r.evicted \cap kept = {}
      /\ Defined(r.cache) =>
           /\ kept \cap pushed.map \subseteq r.cache.map /\ r.cache.map \subseteq pushed.map
           /\ KeepsValues(pushed, r.cache, {}) /\ Linked(r.cache)
  BY <1>6 DEF EvictInv
<1>8. ASSUME Defined(r.cache)
      PROVE  /\ Linked(r.cache) /\ KeepsValues(c, r.cache, {k})
             /\ kept \cap (c.map \cup {k}) \subseteq r.cache.map
             /\ k \in r.cache.map \ r.cache.dangling => Has(r.cache.list, k, v)
  <2>1. KeepsValues(pushed, r.cache, {})
    BY <1>7, <1>8
  <2>2. KeepsValues(c, r.cache, {k})
    BY <1>1, <2>1 DEF KeepsValues
  <2>3. k \in r.cache.map \ r.cache.dangling => Has(r.cache.list, k, v)
    BY <1>1, <2>1 DEF KeepsValues
  <2> QED
    BY <1>1, <1>7, <1>8, <2>2, <2>3
<1> QED
  BY <1>7, <1>8 DEF r

LEMMA GetIs ==
  ASSUME NEW c, IsCache(c), Linked(c), NEW k \in c.map, k \notin c.dangling
  PROVE  /\ Get(c, k).list = <<c.list[NodeOf(c, k)]>> \o RemoveAt(c.list, NodeOf(c, k))
         /\ Get(c, k).map = c.map /\ Get(c, k).dangling = c.dangling
         /\ IsCache(Get(c, k)) /\ (Defined(c) => Defined(Get(c, k)))
         /\ NodeOf(c, k) \in 1 .. Len(c.list) /\ c.list[NodeOf(c, k)].key = k
<1> DEFINE i == NodeOf(c, k)
           l == <<c.list[i]>> \o RemoveAt(c.list, i)
           d == [c EXCEPT !.list = l]
<1>1. Get(c, k) = d
  BY DEF Get, Uses
<1>2. c \in Caches /\ c.list \in Lists
  BY CacheFields DEF IsCache
<1>3. i \in 1 .. Len(c.list) /\ c.list[i].key = k
  BY <1>2, LinkedNode
<1>4. l \in Lists
  <2>1. RemoveAt(c.list, i) \in Lists /\ c.list[i] \in ListNodes
    BY <1>2, <1>3, TakenOut, ListNode
  <2> QED
    BY <2>1, PutFirst
<1> HIDE DEF l, i
<1>5. d = [list |-> l, map |-> c.map, dangling |-> c.dangling, undefined |-> c.undefined]
  BY <1>2, CacheListSet
<1>6. d \in Caches
  BY <1>2, <1>4, <1>5, CacheFields DEF Caches
<1> HIDE DEF d
<1>7. d.list = l /\ d.map = c.map /\ d.dangling = c.dangling /\ (Defined(c) => Defined(d))
  BY <1>5 DEF Defined
<1>8. IsCache(d)
  BY <1>6, <1>7 DEF IsCache
<1> QED
  BY <1>1, <1>3, <1>7, <1>8 DEF l, i

LEMMA GetKeeps ==
  ASSUME NEW c, IsCache(c), Linked(c), NEW k \in c.map, k \notin c.dangling
  PROVE  Linked(Get(c, k)) /\ KeepsValues(c, Get(c, k), {})
<1> DEFINE i == NodeOf(c, k)
           d == Get(c, k)
           m == RemoveAt(c.list, i)
<1>1. /\ d.list = <<c.list[i]>> \o m /\ d.map = c.map /\ d.dangling = c.dangling
      /\ i \in 1 .. Len(c.list) /\ c.list[i].key = k
  BY GetIs
<1>2. c \in Caches /\ c.list \in Lists
  BY CacheFields DEF IsCache
<1>3. /\ m \in Lists /\ c.list[i] \in ListNodes
      /\ \A x, v : x # k /\ Has(c.list, x, v) => Has(m, x, v)
  BY <1>1, <1>2, TakenOut, TakenOutHas, ListNode
<1>4. /\ Has(d.list, k, c.list[i].value)
      /\ \A x, v : x # k /\ Has(m, x, v) => Has(d.list, x, v)
  BY <1>1, <1>3, PutFirstHas
<1>5. Has(c.list, k, c.list[i].value)
  <2>1. Has(c.list, k, ValueOf(c, k))
    BY <1>2, LinkedNode
  <2> QED
    BY <2>1 DEF ValueOf
<1>6. ASSUME NEW x, NEW v, Has(c.list, x, v)
      PROVE  Has(d.list, x, v)
  <2>1. CASE x = k
    BY <1>2, <1>4, <1>5, <1>6, <2>1, HasOne
  <2>2. CASE x # k
    BY <1>3, <1>4, <1>6, <2>2
  <2> QED
    BY <2>1, <2>2
<1> HIDE DEF d
<1>7. KeepsValues(c, d, {})
  BY <1>1, <1>6 DEF KeepsValues
<1>8. Linked(d)
  BY <1>1, <1>6 DEF Linked
<1> QED
  BY <1>7, <1>8 DEF d
-----------------------------------------------------------------------------
(* The cache without vetoes: the list has every key of the map, once.      *)
Tidy(l, K) ==
  /\ \A i, j \in 1 .. Len(l) : l[i].key = l[j].key => i = j
  /\ \A i \in 1 .. Len(l) : l[i].key \in K
  /\ \A x \in K : \E i \in 1 .. Len(l) : l[i].key = x

Sound(c) == IsCache(c) /\ c.dangling = {} /\ Defined(c) /\ Tidy(c.list, c.map)

LEMMA TidyFirst ==
  ASSUME NEW l \in Lists, NEW K, Tidy(l, K), NEW e \in ListNodes, e.key \notin K
  PROVE  Tidy(<<e>> \o l, K \cup {e.key})
<1> DEFINE m == <<e>> \o l
<1>1. /\ m \in Lists /\ Len(m) = Len(l) + 1 /\ m[1] = e
      /\ \A i \in 1 .. Len(l) : m[i + 1] = l[i]
  BY PutFirst
<1>2. Len(l) \in Nat
  BY ListNode
<1> HIDE DEF m
<1>3. ASSUME NEW i \in 1 .. Len(m), i # 1
      PROVE  i - 1 \in 1 .. Len(l) /\ m[i] = l[i - 1]
  <2>1. i - 1 \in 1 .. Len(l) /\ (i - 1) + 1 = i
    BY <1>1, <1>2, <1>3
  <2> QED
    BY <1>1, <2>1
<1>4. \A i \in 1 .. Len(l) : l[i].key \in K
  BY DEF Tidy
<1>5. ASSUME NEW i \in 1 .. Len(m), NEW j \in 1 .. Len(m), m[i].key = m[j].key
      PROVE  i = j
  <2>1. CASE i = 1 /\ j # 1
    BY <1>1, <1>3, <1>4, <1>5, <2>1
  <2>2. CASE i # 1 /\ j = 1
    BY <1>1, <1>3, <1>4, <1>5, <2>2
  <2>3. CASE i # 1 /\ j # 1
    <3>1. i - 1 = j - 1
      BY <1>3, <1>5, <2>3 DEF Tidy
    <3> QED
      BY <3>1
  <2> QED
    BY <2>1, <2>2, <2>3
<1>6. ASSUME NEW i \in 1 .. Len(m)
      PROVE  m[i].key \in K \cup {e.key}
  <2>1. CASE i = 1
    BY <1>1, <2>1
  <2>2. CASE i # 1
    BY <1>3, <1>4, <2>2
  <2> QED
    BY <2>1, <2>2
<1>7. ASSUME NEW x \in K \cup {e.key}
      PROVE  \E i \in 1 .. Len(m) : m[i].key = x
  <2>1. CASE x = e.key
    <3>1. 1 \in 1 .. Len(m)
      BY <1>1, <1>2
    <3> QED
      BY <1>1, <2>1, <3>1
  <2>2. CASE x \in K
    <3>1. PICK i \in 1 .. Len(l) : l[i].key = x
      BY <2>2 DEF Tidy
    <3>2. i + 1 \in 1 .. Len(m) /\ m[i + 1] = l[i]
      BY <1>1, <1>2
    <3> QED
      BY <3>1, <3>2
  <2> QED
    BY <2>1, <2>2
<1>8. Tidy(m, K \cup {e.key})
  BY <1>5, <1>6, <1>7 DEF Tidy
<1> QED
  BY <1>8 DEF m

LEMMA TidyOut ==
  ASSUME NEW l \in Lists, NEW K, Tidy(l, K), NEW n \in 1 .. Len(l)
  PROVE  Tidy(RemoveAt(l, n), K \ {l[n].key})
<1> DEFINE m == RemoveAt(l, n)
           From(i) == IF i < n THEN i ELSE i + 1
<1>1. /\ m \in Lists /\ Len(m) = Len(l) - 1
      /\ \A i \in 1 .. Len(l) - 1 : m[i] = IF i < n THEN l[i] ELSE l[i + 1]
  BY TakenOut
<1>2. Len(l) \in Nat
  BY ListNode
<1> HIDE DEF m
<1>3. ASSUME NEW i \in 1 .. Len(m)
      PROVE  From(i) \in 1 .. Len(l) /\ From(i) # n /\ m[i] = l[From(i)]
  <2>1. From(i) \in 1 .. Len(l) /\ From(i) # n
    BY <1>1, <1>2
  <2>2. m[i] = l[From(i)]
    BY <1>1
  <2> QED
    BY <2>1, <2>2
<1>4. \A i, j \in 1 .. Len(m) : From(i) = From(j) => i = j
  BY <1>1, <1>2
<1>5. ASSUME NEW x \in 1 .. Len(l), x # n
      PROVE  \E i \in 1 .. Len(m) : From(i) = x
  <2>1. CASE x < n
    <3>1. x \in 1 .. Len(m) /\ From(x) = x
      BY <1>1, <1>2, <2>1
    <3> QED
      BY <3>1
  <2>2. CASE ~ (x < n)
    <3>1. x - 1 \in 1 .. Len(m) /\ From(x - 1) = x
      BY <1>1, <1>2, <1>5, <2>2
    <3> QED
      BY <3>1
  <2> QED
    BY <2>1, <2>2
<1> HIDE DEF From
<1>6. \A i, j \in 1 .. Len(m) : m[i].key = m[j].key => i = j
  BY <1>3, <1>4, SMTT(30) DEF Tidy
<1>7. \A i \in 1 .. Len(m) : m[i].key \in K \ {l[n].key}
  BY <1>3 DEF Tidy
<1>8. ASSUME NEW x \in K \ {l[n].key}
      PROVE  \E i \in 1 .. Len(m) : m[i].key = x
  <2>1. PICK y \in 1 .. Len(l) : l[y].key = x
    BY DEF Tidy
  <2>2. PICK i \in 1 .. Len(m) : From(i) = y
    BY <1>5, <2>1
  <2> QED
    BY <1>3, <2>1, <2>2
<1>9. Tidy(m, K \ {l[n].key})
  BY <1>6, <1>7, <1>8 DEF Tidy
<1> QED
  BY <1>9 DEF m

LEMMA TidyOff ==
  ASSUME NEW l \in Lists, NEW K, Tidy(l, K), Len(l) > 0
  PROVE  Tidy(Front(l), K \ {l[Len(l)].key})
<1> DEFINE m == Front(l)
           n == Len(l)
<1>1. Len(m) = n - 1 /\ \A i \in 1 .. n - 1 : m[i] = l[i]
  BY TakenOff
<1>2. n \in Nat /\ n > 0
  BY ListNode
<1> HIDE DEF m
<1>3. \A i \in 1 .. Len(m) : i \in 1 .. n /\ i # n /\ m[i] = l[i]
  BY <1>1, <1>2
<1>4. n \in 1 .. n /\ \A i \in 1 .. n : i # n => i \in 1 .. Len(m)
  BY <1>1, <1>2
<1>5. /\ \A i, j \in 1 .. n : l[i].key = l[j].key => i = j
      /\ \A i \in 1 .. n : l[i].key \in K
      /\ \A x \in K : \E i \in 1 .. n : l[i].key = x
  BY DEF Tidy
<1> HIDE DEF n
<1>6. \A i, j \in 1 .. Len(m) : m[i].key = m[j].key => i = j
  BY <1>3, <1>5
<1>7. \A i \in 1 .. Len(m) : m[i].key \in K \ {l[n].key}
  BY <1>3, <1>4, <1>5
<1>8. ASSUME NEW x \in K \ {l[n].key}
      PROVE  \E i \in 1 .. Len(m) : m[i].key = x
  BY <1>3, <1>4, <1>5, <1>8
<1>9. Tidy(m, K \ {l[n].key})
  BY <1>6, <1>7, <1>8 DEF Tidy
<1> QED
  BY <1>9 DEF m, n

LEMMA TidyLinked ==
  ASSUME NEW l \in Lists, NEW K, Tidy(l, K), NEW x \in K
  PROVE  \E v \in Nat : Has(l, x, v)
<1>1. PICK i \in 1 .. Len(l) : l[i].key = x
  BY DEF Tidy
<1>2. Len(l) \in Nat /\ l[i].value \in Nat
  BY ListNode
<1>3. \A j \in 1 .. Len(l) : j < i => l[j].key # x
  BY <1>1, <1>2 DEF Tidy
<1>4. FirstAt(l, x, i)
  BY <1>1, <1>3 DEF FirstAt
<1> QED
  BY <1>2, <1>4 DEF Has

LEMMA TidySize ==
  ASSUME NEW l \in Lists, NEW K, Tidy(l, K)
  PROVE  IsFiniteSet(K) /\ Cardinality(K) = Len(l)
<1> DEFINE f == [i \in 1 .. Len(l) |-> l[i].key]
<1>1. Len(l) \in Nat
  BY ListNode
<1>2. f \in Bijection(1 .. Len(l), K)
  BY DEF Tidy, Bijection, Injection, Surjection, IsInjective
<1> HIDE DEF f
<1>3. ExistsBijection(1 .. Len(l), K)
  <2>1. Bijection(1 .. Len(l), K) # {}
    BY <1>2
  <2> QED
    BY <2>1 DEF ExistsBijection
<1>4. IsFiniteSet(1 .. Len(l)) /\ Cardinality(1 .. Len(l)) = Len(l)
  <2>1. \A n \in Nat : IsFiniteSet(1 .. n) /\ Cardinality(1 .. n) = IF 1 > n THEN 0 ELSE n - 1 + 1
    BY FS_Interval
  <2>2. \A n \in Nat : (IF 1 > n THEN 0 ELSE n - 1 + 1) = n
    OBVIOUS
  <2>3. \A n \in Nat : IsFiniteSet(1 .. n) /\ Cardinality(1 .. n) = n
    BY <2>1, <2>2, Zenon
  <2> QED
    BY <1>1, <2>3, Zenon
<1> QED
  BY <1>3, <1>4, FS_Bijection

LEMMA SoundLinked ==
  ASSUME NEW c, Sound(c)
  PROVE  IsCache(c) /\ Linked(c)
<1>1. c.list \in Lists
  BY CacheFields DEF Sound, IsCache
<1> QED
  BY <1>1, TidyLinked DEF Sound, Linked

LEMMA SoundWellFormed ==
  ASSUME NEW c, Sound(c)
  PROVE  WellFormed(c)
<1>1. c.list \in Lists
  BY CacheFields DEF Sound, IsCache
<1>2. Cardinality(c.map) = Len(c.list)
  BY <1>1, TidySize DEF Sound
<1>3. DOMAIN c.list = 1 .. Len(c.list)
  BY <1>1, LenProperties DEF Lists
<1>4. c.map = Keys(c)
  <2>1. /\ \A i \in DOMAIN c.list : c.list[i].key \in c.map
        /\ \A x \in c.map : \E i \in DOMAIN c.list : c.list[i].key = x
    BY <1>3, Zenon DEF Sound, Tidy
  <2> QED
    BY <2>1, Zenon DEF Keys
<1> QED
  BY <1>2, <1>4 DEF Sound, Defined, WellFormed
-----------------------------------------------------------------------------
(* A sound cache stays so unless an eviction is vetoed: then one turn of   *)
(* the loop is enough, and takes the last entry.                           *)
LEMMA PushSound ==
  ASSUME NEW c, Sound(c), NEW k \in Songs, NEW v \in Nat
  PROVE  Sound(Push(c, k, v)) /\ Push(c, k, v).map = c.map \cup {k}
<1> DEFINE e == [key |-> k, value |-> v]
           d == Push(c, k, v)
           n == NodeOf(c, k)
<1>1. /\ c \in Caches /\ c.list \in Lists /\ IsCache(c) /\ Linked(c) /\ Defined(c)
      /\ c.dangling = {} /\ Tidy(c.list, c.map)
  BY SoundLinked, CacheFields DEF Sound, IsCache
<1>2. e \in ListNodes /\ e.key = k
  BY DEF ListNodes
<1>3. d.list = PushedList(c, k, v)
  BY <1>1, PushFields
<1>4. IsCache(d) /\ d.map = c.map \cup {k} /\ d.dangling = c.dangling /\ Defined(d)
  BY <1>1, PushKeeps
<1>5. Tidy(d.list, d.map)
  <2>1. CASE k \in c.map
    <3>1. PushedList(c, k, v) = <<e>> \o RemoveAt(c.list, n)
      BY <1>1, <2>1 DEF PushedList, Uses
    <3>2. n \in 1 .. Len(c.list) /\ c.list[n].key = k
      BY <1>1, <2>1, LinkedNode
    <3>3. RemoveAt(c.list, n) \in Lists /\ Tidy(RemoveAt(c.list, n), c.map \ {k})
      BY <1>1, <3>2, TakenOut, TidyOut
    <3> HIDE DEF n, e
    <3>4. Tidy(<<e>> \o RemoveAt(c.list, n), (c.map \ {k}) \cup {e.key})
      BY <1>2, <3>3, TidyFirst
    <3>5. (c.map \ {k}) \cup {e.key} = d.map
      BY <1>2, <1>4, <2>1
    <3> QED
      BY <1>3, <3>1, <3>4, <3>5
  <2>2. CASE k \notin c.map
    <3>1. PushedList(c, k, v) = <<e>> \o c.list
      BY <2>2 DEF PushedList
    <3> HIDE DEF e
    <3>2. Tidy(<<e>> \o c.list, c.map \cup {e.key})
      BY <1>1, <1>2, <2>2, TidyFirst
    <3> QED
      BY <1>2, <1>3, <1>4, <3>1, <3>2
  <2> QED
    BY <2>1, <2>2
<1> HIDE DEF d
<1>6. Sound(d)
  BY <1>1, <1>4, <1>5 DEF Sound
<1> QED
  BY <1>4, <1>6 DEF d

(* The first turn on a sound cache.                                        *)
LastKey(c) == c.list[Len(c.list)].key

LEMMA TurnSound ==
  ASSUME NEW d, Sound(d), Len(d.list) > 0, NEW s, NEW kept,
         s = [cache |-> d, at |-> Len(d.list) + 1, freed |-> FALSE, evicted |-> {}]
  PROVE  IF LastKey(d) \in kept
         THEN EvictOne(s, kept).cache = d /\ EvictOne(s, kept).evicted = {}
         ELSE /\ Sound(EvictOne(s, kept).cache)
              /\ EvictOne(s, kept).cache.list = Front(d.list)
              /\ EvictOne(s, kept).cache.map = d.map \ {LastKey(d)}
              /\ EvictOne(s, kept).evicted = {LastKey(d)}
<1> DEFINE n   == Len(d.list)
           key == d.list[n].key
<1>1. d \in Caches /\ d.list \in Lists /\ IsCache(d) /\ d.dangling = {} /\ Tidy(d.list, d.map) /\ n \in Nat
  BY CacheFields, ListNode DEF Sound, IsCache
<1>2. /\ s.cache = d /\ s.at = n + 1 /\ s.freed = FALSE /\ s.at - 1 = n /\ s.at - 1 # 0
      /\ s.evicted = {}
  BY <1>1
<1>3. n \in 1 .. n /\ key \in d.map
  BY <1>1 DEF Tidy
<1>4. ~ d.undefined
  BY DEF Sound, Defined
<1>a. key = LastKey(d)
  BY DEF LastKey
<1> HIDE DEF key
<1>5. EvictOne(s, kept) = IF key \in kept THEN [s EXCEPT !.at = n]
                          ELSE [at |-> n, freed |-> TRUE, evicted |-> {key},
                                cache |-> Shortened(d, key, {})]
  BY <1>2, <1>4 DEF EvictOne, Shortened, key
<1>6. CASE key \in kept
  BY <1>2, <1>5, <1>6, <1>a
<1>7. CASE key \notin kept
  <2> DEFINE g == Shortened(d, key, {})
  <2>1. EvictOne(s, kept).cache = g /\ EvictOne(s, kept).evicted = {key}
    <3>1. EvictOne(s, kept) = [at |-> n, freed |-> TRUE, evicted |-> {key}, cache |-> g]
      BY <1>5, <1>7
    <3>2. \A t : t = [at |-> n, freed |-> TRUE, evicted |-> {key}, cache |-> g]
                  => t.cache = g /\ t.evicted = {key}
      OBVIOUS
    <3> HIDE DEF g, n
    <3> QED
      BY <3>1, <3>2, Zenon
  <2>2. /\ g.list = Front(d.list) /\ g.map = d.map \ {key} /\ g.dangling = {}
        /\ (g.undefined <=> d.undefined) /\ g \in Caches
    BY <1>1, ShortenedFields
  <2> HIDE DEF g
  <2>3. Tidy(g.list, g.map)
    BY <1>1, <2>2, TidyOff DEF key
  <2>4. IsFiniteSet(d.map \ {key})
    BY <1>1, FS_RemoveElement DEF IsCache
  <2>5. Sound(g)
    BY <1>4, <2>2, <2>3, <2>4 DEF Sound, IsCache, Defined
  <2> QED
    BY <1>7, <1>a, <2>1, <2>2, <2>5
<1> QED
  BY <1>6, <1>7

(* A put on a sound cache within its bound takes no more than one turn,    *)
(* which takes the last entry unless it is kept.                           *)
LEMMA PutIs ==
  ASSUME NEW c, Sound(c), NEW k \in Songs, NEW v \in Nat, NEW max \in Nat, NEW kept,
         Cardinality(c.map) <= max
  PROVE  IF Cardinality(c.map \cup {k}) <= max \/ LastKey(Push(c, k, v)) \in kept
         THEN /\ Put(c, k, v, max, kept).cache = Push(c, k, v)
              /\ Put(c, k, v, max, kept).evicted = {}
         ELSE /\ Sound(Put(c, k, v, max, kept).cache)
              /\ Put(c, k, v, max, kept).cache.list = Front(Push(c, k, v).list)
              /\ Put(c, k, v, max, kept).cache.map = (c.map \cup {k}) \ {LastKey(Push(c, k, v))}
              /\ Put(c, k, v, max, kept).evicted = {LastKey(Push(c, k, v))}
              /\ Cardinality(Put(c, k, v, max, kept).cache.map) <= max
<1> DEFINE pushed == Push(c, k, v)
           excess == Cardinality(pushed.map) - max
           start  == [cache |-> pushed, at |-> Len(pushed.list) + 1, freed |-> FALSE, evicted |-> {}]
           r      == Put(c, k, v, max, kept)
<1>1. Sound(pushed) /\ pushed.map = c.map \cup {k}
  BY PushSound
<1>2. r = IF excess <= 0 THEN start ELSE Evict(start, kept, excess)[excess]
  BY DEF Put
<1>3. Len(pushed.list) \in Nat \ {0}
  BY SoundLinked, PushKeeps DEF Sound
<1>4. IsFiniteSet(c.map) /\ Cardinality(c.map) \in Nat
  BY FS_CardinalityType DEF Sound, IsCache
<1>5. Cardinality(pushed.map) \in Nat /\ Cardinality(pushed.map) <= Cardinality(c.map) + 1
  <2>1. Cardinality(c.map \cup {k}) = IF k \in c.map THEN Cardinality(c.map) ELSE Cardinality(c.map) + 1
    BY <1>4, FS_AddElement
  <2>2. Cardinality(c.map \cup {k}) \in Nat /\ Cardinality(c.map \cup {k}) <= Cardinality(c.map) + 1
    BY <1>4, <2>1
  <2> QED
    BY <1>1, <2>2
<1> HIDE DEF pushed
<1>6. CASE excess <= 0
  <2>1. r = start /\ Cardinality(c.map \cup {k}) <= max
    BY <1>1, <1>2, <1>5, <1>6
  <2> QED
    BY <2>1 DEF pushed
<1>7. CASE ~ (excess <= 0)
  <2>1. excess = 1 /\ ~ (Cardinality(c.map \cup {k}) <= max)
    BY <1>1, <1>4, <1>5, <1>7
  <2>2. Evict(start, kept, 1)[1] = EvictOne(start, kept)
    <3> HIDE DEF start
    <3>1. After(Evict(start, kept, 1), start, kept, 1)
      BY EvictAfter
    <3>2. 1 \in 1 .. 1 /\ 1 - 1 = 0
      OBVIOUS
    <3>3. /\ Evict(start, kept, 1)[0] = start
          /\ \A i \in 1 .. 1 : Evict(start, kept, 1)[i] = EvictOne(Evict(start, kept, 1)[i - 1], kept)
      BY <3>1, AfterValues
    <3> QED
      BY <3>2, <3>3
  <2>3. r = EvictOne(start, kept)
    BY <1>2, <1>7, <2>1, <2>2
  <2>4. IF LastKey(pushed) \in kept
        THEN EvictOne(start, kept).cache = pushed /\ EvictOne(start, kept).evicted = {}
        ELSE /\ Sound(EvictOne(start, kept).cache)
             /\ EvictOne(start, kept).cache.list = Front(pushed.list)
             /\ EvictOne(start, kept).cache.map = pushed.map \ {LastKey(pushed)}
             /\ EvictOne(start, kept).evicted = {LastKey(pushed)}
    BY <1>1, <1>3, TurnSound
  <2>5. Cardinality(pushed.map \ {LastKey(pushed)}) <= max
    <3>1. LastKey(pushed) \in pushed.map /\ IsFiniteSet(pushed.map)
      BY <1>1, <1>3 DEF Sound, IsCache, Tidy, LastKey
    <3>2. Cardinality(pushed.map \ {LastKey(pushed)}) = Cardinality(pushed.map) - 1
      BY <3>1, FS_RemoveElement
    <3> QED
      BY <1>5, <2>1, <3>2
  <2> HIDE DEF start, r
  <2>6. CASE LastKey(pushed) \in kept
    BY <2>3, <2>4, <2>6 DEF pushed, r
  <2>7. CASE LastKey(pushed) \notin kept
    <3>1. /\ Sound(r.cache) /\ r.cache.list = Front(pushed.list)
          /\ r.cache.map = (c.map \cup {k}) \ {LastKey(pushed)}
          /\ r.evicted = {LastKey(pushed)} /\ Cardinality(r.cache.map) <= max
      BY <1>1, <2>3, <2>4, <2>5, <2>7
    <3> QED
      BY <2>1, <2>7, <3>1 DEF pushed, r
  <2> QED
    BY <2>6, <2>7
<1> QED
  BY <1>6, <1>7

LEMMA PutSound ==
  ASSUME NEW c, Sound(c), NEW k \in Songs, NEW v \in Nat, NEW max \in Nat, NEW kept,
         Cardinality(c.map) <= max
  PROVE  Sound(Put(c, k, v, max, kept).cache)
<1>1. Sound(Push(c, k, v))
  BY PushSound
<1>2. CASE Cardinality(c.map \cup {k}) <= max \/ LastKey(Push(c, k, v)) \in kept
  <2>1. Put(c, k, v, max, kept).cache = Push(c, k, v)
    BY <1>2, PutIs
  <2> QED
    BY <1>1, <2>1
<1>3. CASE ~ (Cardinality(c.map \cup {k}) <= max \/ LastKey(Push(c, k, v)) \in kept)
  BY <1>3, PutIs
<1> QED
  BY <1>2, <1>3

(* Whatever is put in a sound cache: keys that go are evicted, and if      *)
(* nothing is kept the cache stays within its bound.                       *)
LEMMA PutEvicts ==
  ASSUME NEW c, Sound(c), NEW k \in Songs, NEW v \in Nat, NEW max \in Nat, NEW kept,
         Cardinality(c.map) <= max
  PROVE  /\ (c.map \cup {k}) \ Put(c, k, v, max, kept).cache.map \subseteq Put(c, k, v, max, kept).evicted
         /\ kept = {} => Cardinality(Put(c, k, v, max, kept).cache.map) <= max
<1>1. Push(c, k, v).map = c.map \cup {k}
  BY PushSound
<1>2. CASE Cardinality(c.map \cup {k}) <= max \/ LastKey(Push(c, k, v)) \in kept
  <2>1. Put(c, k, v, max, kept).cache = Push(c, k, v)
    BY <1>2, PutIs
  <2>2. Put(c, k, v, max, kept).cache.map = c.map \cup {k}
    BY <1>1, <2>1
  <2> QED
    BY <1>2, <2>2
<1>3. CASE ~ (Cardinality(c.map \cup {k}) <= max \/ LastKey(Push(c, k, v)) \in kept)
  <2>1. /\ Put(c, k, v, max, kept).cache.map = (c.map \cup {k}) \ {LastKey(Push(c, k, v))}
        /\ Put(c, k, v, max, kept).evicted = {LastKey(Push(c, k, v))}
        /\ Cardinality(Put(c, k, v, max, kept).cache.map) <= max
    BY <1>3, PutIs
  <2> QED
    BY <2>1
<1> QED
  BY <1>2, <1>3

(* A new key put where nothing is kept: the list has it first and, if the  *)
(* cache was full, its last node is gone.                                  *)
LEMMA PutNew ==
  ASSUME NEW c, Sound(c), NEW k \in Songs, k \notin c.map, NEW v \in Nat, NEW max \in Nat,
         Len(c.list) <= max
  PROVE  /\ Len(Put(c, k, v, max, {}).cache.list)
              = IF Len(c.list) < max THEN Len(c.list) + 1 ELSE max
         /\ \A j \in 1 .. Len(Put(c, k, v, max, {}).cache.list) :
              Put(c, k, v, max, {}).cache.list[j]
                = IF j = 1 THEN [key |-> k, value |-> v] ELSE c.list[j - 1]
         /\ Len(c.list) = max =>
              Put(c, k, v, max, {}).evicted = {IF max = 0 THEN k ELSE c.list[max].key}
<1> DEFINE e == [key |-> k, value |-> v]
           l == <<e>> \o c.list
           r == Put(c, k, v, max, {})
           n == Len(c.list)
<1>1. /\ c \in Caches /\ c.list \in Lists /\ n \in Nat /\ e \in ListNodes /\ e.key = k
      /\ IsFiniteSet(c.map) /\ Cardinality(c.map) = n
  BY CacheFields, ListNode, TidySize DEF Sound, IsCache, ListNodes
<1>2. Push(c, k, v).list = l
  BY <1>1, PushFields DEF PushedList
<1>3. Cardinality(c.map \cup {k}) = n + 1
  BY <1>1, FS_AddElement
<1>4. l \in Lists /\ Len(l) = n + 1 /\ l[1] = e /\ \A i \in 1 .. n : l[i + 1] = c.list[i]
  BY <1>1, PutFirst
<1> HIDE DEF e, l
<1>5. \A i \in 1 .. n + 1 : l[i] = IF i = 1 THEN e ELSE c.list[i - 1]
  <2> TAKE i \in 1 .. n + 1
  <2>1. i # 1 => i - 1 \in 1 .. n /\ (i - 1) + 1 = i
    BY <1>1
  <2> QED
    BY <1>4, <2>1
<1>6. CASE n < max
  <2>1. r.cache = Push(c, k, v)
    BY <1>1, <1>3, <1>6, PutIs
  <2>2. r.cache.list = l
    BY <1>2, <2>1
  <2> HIDE DEF r
  <2>3. Len(r.cache.list) = n + 1
    BY <1>4, <2>2
  <2>4. \A j \in 1 .. n + 1 : r.cache.list[j] = IF j = 1 THEN e ELSE c.list[j - 1]
    BY <1>5, <2>2
  <2> QED
    BY <1>1, <1>6, <2>3, <2>4 DEF r, e
<1>7. CASE n = max
  <2>1. r.cache.list = Front(l) /\ r.evicted = {LastKey(Push(c, k, v))}
    BY <1>1, <1>2, <1>3, <1>7, PutIs
  <2>2. /\ Len(Front(l)) = n /\ \A i \in 1 .. n : Front(l)[i] = l[i]
    <3>1. l \in Lists /\ Len(l) > 0 /\ Len(l) - 1 = n
      BY <1>1, <1>4
    <3> HIDE DEF n
    <3>2. Len(Front(l)) = Len(l) - 1 /\ \A i \in 1 .. Len(l) - 1 : Front(l)[i] = l[i]
      BY <3>1, TakenOff
    <3> QED
      BY <3>1, <3>2
  <2>3. LastKey(Push(c, k, v)) = IF max = 0 THEN k ELSE c.list[max].key
    <3>1. LastKey(Push(c, k, v)) = l[n + 1].key
      BY <1>2, <1>4 DEF LastKey
    <3>2. l[n + 1] = IF n + 1 = 1 THEN e ELSE c.list[(n + 1) - 1]
      BY <1>1, <1>5
    <3> QED
      BY <1>1, <1>7, <3>1, <3>2
  <2> HIDE DEF r
  <2>4. Len(r.cache.list) = n
    BY <2>1, <2>2
  <2>5. \A j \in 1 .. n : r.cache.list[j] = IF j = 1 THEN e ELSE c.list[j - 1]
    BY <1>1, <1>5, <2>1, <2>2
  <2> QED
    BY <1>1, <1>7, <2>1, <2>3, <2>4, <2>5 DEF r, e
<1> QED
  BY <1>1, <1>6, <1>7

LEMMA GetSound ==
  ASSUME NEW c, Sound(c), NEW k \in c.map
  PROVE  Sound(Get(c, k)) /\ Get(c, k).map = c.map
<1> DEFINE n == NodeOf(c, k)
           d == Get(c, k)
<1>1. /\ c \in Caches /\ c.list \in Lists /\ IsCache(c) /\ Linked(c)
      /\ c.dangling = {} /\ Tidy(c.list, c.map) /\ Defined(c)
  BY SoundLinked, CacheFields DEF Sound, IsCache
<1>2. /\ d.list = <<c.list[n]>> \o RemoveAt(c.list, n) /\ d.map = c.map /\ d.dangling = {}
      /\ IsCache(d) /\ Defined(d) /\ n \in 1 .. Len(c.list) /\ c.list[n].key = k
  BY <1>1, GetIs
<1> HIDE DEF n, d
<1>3. RemoveAt(c.list, n) \in Lists /\ Tidy(RemoveAt(c.list, n), c.map \ {k}) /\ c.list[n] \in ListNodes
  BY <1>1, <1>2, TakenOut, TidyOut, ListNode
<1>4. Tidy(d.list, (c.map \ {k}) \cup {k})
  BY <1>2, <1>3, TidyFirst
<1>5. (c.map \ {k}) \cup {k} = d.map
  BY <1>2
<1>6. Sound(d)
  BY <1>2, <1>4, <1>5 DEF Sound
<1> QED
  BY <1>2, <1>6 DEF d
=============================================================================

------------------------------ MODULE LruCache ------------------------------
(***************************************************************************)
(* The modified lru_cache: a list of entries, the most recently used one   *)
(* first, and a map from keys to list positions.  An eviction may be       *)
(* vetoed: the keys that must not be deleted are "kept" here.              *)
(*                                                                         *)
(* The map's entry of a key designates the first node of that key in the   *)
(* list, unless the node has been freed ("dangling").  Using a freed node  *)
(* is undefined behaviour, after which nothing is said of the cache.       *)
(***************************************************************************)
EXTENDS Integers, Sequences, SequencesExt

CONSTANT Songs   \* the keys

Empty == [list |-> <<>>, map |-> {}, dangling |-> {}, undefined |-> FALSE]

Keys(c) == {c.list[i].key : i \in DOMAIN c.list}

(* Map and list have the same keys, each once. *)
WellFormed(c) == /\ c.dangling = {} /\ ~ c.undefined
                 /\ c.map = Keys(c) /\ Len(c.list) = Cardinality(c.map)

NodeOf(c, k) == SelectInSeq(c.list, LAMBDA e : e.key = k)

ValueOf(c, k) == c.list[NodeOf(c, k)].value

Uses(c, k) == k \in c.dangling

\* Mutant: the old node stays in the list.
PushKeepingOld(c, k, v) ==
  [c EXCEPT !.list = <<[key |-> k, value |-> v]>> \o @, !.map = @ \cup {k}]

(* A new node is put first and the old one removed. *)
Push(c, k, v) ==
  [c EXCEPT !.list = <<[key |-> k, value |-> v]>>
                       \o (IF k \in c.map /\ ~ Uses(c, k) THEN RemoveAt(@, NodeOf(c, k)) ELSE @),
            !.map = @ \cup {k},
            !.undefined = @ \/ Uses(c, k)]

(* One turn of the eviction loop: step back from the node "at", and if the *)
(* key there may be deleted, remove it from the map and the last node from *)
(* the list, which is another one after a veto.                            *)
EvictOne(s, kept) ==
  LET c    == s.cache
      at   == s.at - 1
      key  == c.list[at].key
      last == Last(c.list).key
      gone == at = Len(c.list)
      lost == IF gone \/ NodeOf(c, last) # Len(c.list) THEN {} ELSE {last}
      map  == c.map \ {key}
  IN  IF c.undefined THEN s
      ELSE IF s.freed \/ at = 0 THEN [s EXCEPT !.cache.undefined = TRUE]
      ELSE IF key \in kept THEN [s EXCEPT !.at = at]
      ELSE [at |-> at, freed |-> gone, evicted |-> s.evicted \cup {key},
            cache |-> [c EXCEPT !.list = Front(@), !.map = map,
                                !.dangling = (@ \cup lost) \cap map]]

(* The loop after so many turns. *)
Evict(start, kept, turns) ==
  LET after[i \in 0 .. turns] == IF i = 0 THEN start ELSE EvictOne(after[i - 1], kept)
  IN  after

(* put: the new cache and the keys evicted. *)
Put(c, k, v, max, kept) ==
  LET pushed == Push(c, k, v)
      excess == Cardinality(pushed.map) - max
      start  == [cache |-> pushed, at |-> Len(pushed.list) + 1, freed |-> FALSE,
                 evicted |-> {}]
  IN  IF excess <= 0 THEN start ELSE Evict(start, kept, excess)[excess]

(* get moves the entry to the front. *)
Get(c, k) ==
  IF Uses(c, k) THEN [c EXCEPT !.undefined = TRUE]
  ELSE LET i == NodeOf(c, k) IN [c EXCEPT !.list = <<@[i]>> \o RemoveAt(@, i)]

(* remove looks the key up with [], which makes a node of nothing for a    *)
(* key that is absent.                                                     *)
Erase(c, k) ==
  IF k \notin c.map \/ Uses(c, k) THEN [c EXCEPT !.undefined = TRUE]
  ELSE [c EXCEPT !.list = RemoveAt(@, NodeOf(c, k)), !.map = @ \ {k}]
=============================================================================

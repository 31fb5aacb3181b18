-------------------------- MODULE Directories_proofs -------------------------
(***************************************************************************)
(* Theorems about the tree of directories, for every set of threads, names *)
(* and calls, every path that is there from the start, and every bound on  *)
(* the nodes and the calls: DirectoryTree.  And about what a directory of  *)
(* songs shows, for all numbers of songs, copies, calls and search         *)
(* results, and any numbers and intervals as commands: SongDirectory.      *)
(***************************************************************************)
EXTENDS DirectoryTree, SongDirectory, SequenceTheorems, FiniteSetTheorems, WellFoundedInduction,
        TLAPS
-----------------------------------------------------------------------------
(* DirectoryTree. *)
(* Items are newer than their directory, and older than the next node.     *)
GoodTree(tree, m) ==
  /\ tree \in [Nodes -> Node]
  /\ \A n \in Nodes, nm \in Names : tree[n].items[nm] \in {None} \cup (n + 1 .. m - 1)

TreeInv == /\ next \in 2 .. MaxNodes + 1
           /\ GoodTree(node, next)
           /\ parts \in [Threads -> Seq(1 .. next - 1)]
           /\ first \in [Threads -> Seq(1 .. next - 1)]

(* How many nodes a walk keeps at each point of its path. *)
WalkOf(t) ==
  /\ at[t] \in {"idle", "walk"} => first[t] = <<>>
  /\ at[t] = "rewalk" => call[t].kind = "rename"
  /\ at[t] = "idle" => walked[t] = 0
  /\ at[t] # "act" /\ walked[t] = 0 => parts[t] = <<>>
  /\ Walking(t) /\ walked[t] > 0 =>
       /\ walked[t] <= Len(Path(t)) + 1
       /\ Len(parts[t]) = IF walked[t] = Len(Path(t)) + 1 THEN PathSize(t) ELSE 1

WalkInv == \A t \in Threads : WalkOf(t)

IInv == TypeOK /\ TreeInv /\ WalkInv /\ LocksAreOfPaths
-----------------------------------------------------------------------------
(* Sequences of at most two elements.                                      *)

LEMMA NoSeq ==
  ASSUME NEW S
  PROVE  <<>> \in Seq(S) /\ Len(<<>>) = 0 /\ Elements(<<>>) = {}
BY DEF Elements

LEMMA OneSeq ==
  ASSUME NEW S, NEW x \in S
  PROVE  <<x>> \in Seq(S) /\ Len(<<x>>) = 1 /\ <<x>>[1] = x /\ Elements(<<x>>) = {x}
BY DEF Elements

LEMMA OfLengthOne ==
  ASSUME NEW S, NEW s \in Seq(S), Len(s) = 1
  PROVE  /\ s[1] \in S /\ Head(s) = s[1] /\ Tail(s) = <<>> /\ Elements(s) = {s[1]}
         /\ \A x \in S : /\ Append(s, x) \in Seq(S) /\ Len(Append(s, x)) = 2
                         /\ Append(s, x)[1] = s[1]
                         /\ Elements(Append(s, x)) = {s[1], x}
         /\ \A x \in S : Append(<<>>, x) = <<x>>
<1>1. s[1] \in S /\ Head(s) = s[1]
  OBVIOUS
<1>2. Elements(s) = {s[1]}
  BY DEF Elements
<1>3. Tail(s) = <<>>
  <2>1. Tail(s) \in Seq(S) /\ Len(Tail(s)) = 0
    <3>1. s # <<>>
      OBVIOUS
    <3>2. Tail(s) \in Seq(S) /\ Len(Tail(s)) = Len(s) - 1
      BY <3>1, HeadTailProperties, ZenonT(40)
    <3>3. QED
      BY <3>2
  <2>2. QED
    BY <2>1, EmptySeq
<1>4. ASSUME NEW x \in S
      PROVE  /\ Append(s, x) \in Seq(S) /\ Len(Append(s, x)) = 2
             /\ Append(s, x)[1] = s[1]
             /\ Elements(Append(s, x)) = {s[1], x}
  <2>1. /\ Append(s, x) \in Seq(S) /\ Len(Append(s, x)) = 2
        /\ Append(s, x)[1] = s[1] /\ Append(s, x)[2] = x
    <3>1. /\ Append(s, x) \in Seq(S) /\ Len(Append(s, x)) = Len(s) + 1
          /\ Append(s, x)[Len(s) + 1] = x
          /\ \A i \in 1 .. Len(s) : Append(s, x)[i] = s[i]
      BY AppendProperties, ZenonT(40)
    <3>2. 1 \in 1 .. Len(s) /\ Len(s) + 1 = 2
      OBVIOUS
    <3>3. QED
      BY <3>1, <3>2, ZenonT(40)
  <2>2. DOMAIN Append(s, x) = 1 .. 2
    BY <2>1
  <2>3. Elements(Append(s, x)) = {s[1], x}
    BY <2>1, <2>2 DEF Elements
  <2>4. QED
    BY <2>1, <2>3
<1>5. ASSUME NEW x \in S PROVE Append(<<>>, x) = <<x>>
  OBVIOUS
<1>6. QED
  BY <1>1, <1>2, <1>3, <1>4, <1>5

LEMMA ToLengthTwo ==
  ASSUME NEW S, NEW s \in Seq(S), Len(s) = 1, NEW x \in S
  PROVE  /\ Append(s, x) \in Seq(S) /\ Len(Append(s, x)) = 2
         /\ Elements(Append(s, x)) = {s[1], x}
         /\ Append(<<>>, x) = <<x>>
BY OfLengthOne

LEMMA MoreNodes ==
  ASSUME NEW m \in Nat, NEW k \in Nat, m <= k
  PROVE  1 .. m - 1 \subseteq 1 .. k - 1
OBVIOUS
-----------------------------------------------------------------------------
(* What is done to a tree keeps it one.                                    *)

LEMMA Wider ==
  ASSUME NEW tree, NEW m \in Nat, NEW k \in Nat, m <= k, GoodTree(tree, m)
  PROVE  GoodTree(tree, k)
BY DEF GoodTree, Nodes, None

LEMMA NewNode == NoItems \in [Names -> Nodes \cup {None}]
BY DEF NoItems

LEMMA AddKeeps ==
  ASSUME NEW tree, NEW m \in Nat, GoodTree(tree, m),
         NEW d \in Nodes, NEW n \in Nodes, d < n, n < m,
         NEW nm \in Names \cup {None}, NEW isDir \in BOOLEAN
  PROVE  GoodTree(AddItem(tree, d, nm, n, isDir), m)
<1>1. CASE nm = None \/ tree[d].items[nm] # None
  BY <1>1 DEF AddItem
<1>2. CASE ~ (nm = None \/ tree[d].items[nm] # None)
  <2> DEFINE items == [tree[d].items EXCEPT ![nm] = n]
             at_d  == [tree[d] EXCEPT !.items = items]
             made  == [dir |-> isDir, items |-> NoItems]
             new   == [k \in Nodes |-> IF k = n THEN made ELSE IF k = d THEN at_d ELSE tree[k]]
  <2>1. tree \in [Nodes -> Node] /\ d # n /\ nm \in Names /\ d \in Nat /\ n \in Nat
    BY <1>2 DEF GoodTree, Nodes
  <2>2. tree[d] \in Node
    BY <2>1
  <2>3. tree[d].items \in [Names -> Nodes \cup {None}] /\ tree[d].dir \in BOOLEAN
    BY <2>2 DEF Node
  <2>4. AddItem(tree, d, nm, n, isDir) = new
    BY <1>2, <2>1 DEF AddItem
  <2>5. items \in [Names -> Nodes \cup {None}]
    BY <2>3
  <2>6. at_d \in Node /\ at_d.items = items /\ made \in Node
    BY <2>2, <2>5, NewNode DEF Node
  <2>7. new \in [Nodes -> Node]
    BY <2>1, <2>6
  <2>8. ASSUME NEW k \in Nodes, NEW x \in Names
        PROVE  new[k].items[x] \in {None} \cup (k + 1 .. m - 1)
    <3>1. CASE k = n
      BY <3>1 DEF NoItems
    <3>2. CASE k # n /\ k = d
      <4>1. new[k].items[x] = IF x = nm THEN n ELSE tree[d].items[x]
        BY <2>1, <2>3, <2>6, <3>2
      <4>2. tree[d].items[x] \in {None} \cup (d + 1 .. m - 1)
        BY DEF GoodTree
      <4>3. n \in d + 1 .. m - 1
        BY <2>1
      <4>4. QED
        BY <3>2, <4>1, <4>2, <4>3
    <3>3. CASE k # n /\ k # d
      BY <3>3 DEF GoodTree
    <3>4. QED
      BY <3>1, <3>2, <3>3
  <2>9. QED
    BY <2>4, <2>7, <2>8 DEF GoodTree
<1>3. QED
  BY <1>1, <1>2

LEMMA RemoveKeeps ==
  ASSUME NEW tree, NEW m \in Nat, GoodTree(tree, m), NEW d \in Nodes, NEW gone
  PROVE  GoodTree(RemoveItems(tree, d, gone), m)
<1> DEFINE items == [nm \in Names |-> IF nm \in gone THEN None ELSE tree[d].items[nm]]
           at_d  == [tree[d] EXCEPT !.items = items]
           new   == [k \in Nodes |-> IF k = d THEN at_d ELSE tree[k]]
<1>1. tree \in [Nodes -> Node]
  BY DEF GoodTree
<1>2. tree[d] \in Node
  BY <1>1
<1>3. tree[d].items \in [Names -> Nodes \cup {None}] /\ tree[d].dir \in BOOLEAN
  BY <1>2 DEF Node
<1>4. RemoveItems(tree, d, gone) = new
  BY <1>1 DEF RemoveItems
<1>5. at_d \in Node /\ at_d.items = items
  <2>1. items \in [Names -> Nodes \cup {None}]
    BY <1>3
  <2>2. QED
    BY <1>2, <2>1 DEF Node
<1>6. new \in [Nodes -> Node]
  BY <1>1, <1>5
<1>7. ASSUME NEW k \in Nodes, NEW x \in Names
      PROVE  new[k].items[x] \in {None} \cup (k + 1 .. m - 1)
  <2>1. tree[k].items[x] \in {None} \cup (k + 1 .. m - 1)
    BY DEF GoodTree
  <2>2. new[k].items[x] \in {None, tree[k].items[x]}
    BY <1>5
  <2>3. QED
    BY <2>1, <2>2
<1>8. QED
  BY <1>4, <1>6, <1>7 DEF GoodTree

LEMMA MakeKeeps ==
  ASSUME NEW tree, next \in Nat, GoodTree(tree, next), Fits(2),
         NEW d \in Nodes, d < next, NEW name \in Names, Make(tree, d, name)
  PROVE  GoodTree(node', next + 2)
<1>1. next + 2 \in Nat /\ next < next + 2 /\ next < next + 1 /\ next + 1 < next + 2 /\ d < next + 1
  BY DEF Nodes
<1>2. next \in Nodes /\ next + 1 \in Nodes
  BY TreeAssumption DEF Fits, Nodes
<1>3. GoodTree(tree, next + 2)
  BY <1>1, Wider
<1>4. Found \subseteq Names \cup {None}
  BY TreeAssumption DEF Found
<1>5. ASSUME NEW song \in Found,
             node' = AddItem(AddItem(tree, d, name, next, TRUE), next, song, next + 1, FALSE)
      PROVE  GoodTree(node', next + 2)
  <2> DEFINE more == AddItem(tree, d, name, next, TRUE)
  <2>1. GoodTree(more, next + 2)
    BY <1>1, <1>2, <1>3, AddKeeps
  <2>2. song \in Names \cup {None}
    BY <1>4
  <2>3. GoodTree(AddItem(more, next, song, next + 1, FALSE), next + 2)
    <3> HIDE DEF more
    <3>1. QED
      BY <1>1, <1>2, <2>1, <2>2, AddKeeps
  <2>4. QED
    BY <1>5, <2>3
<1>6. ASSUME NEW gone PROVE GoodTree(RemoveItems(tree, d, gone), next + 2)
  BY <1>1, <1>3, RemoveKeeps
<1>7. ASSUME NEW gone, NEW song \in Found,
             node' = AddItem(AddItem(RemoveItems(tree, d, gone), d, song, next, FALSE),
                           d, name, next + 1, TRUE)
      PROVE  GoodTree(node', next + 2)
  <2> DEFINE less == RemoveItems(tree, d, gone)
             more == AddItem(less, d, song, next, FALSE)
  <2>1. GoodTree(less, next + 2)
    BY <1>6
  <2>2. song \in Names \cup {None}
    BY <1>4
  <2>3. GoodTree(more, next + 2)
    <3> HIDE DEF less
    <3>1. QED
      BY <1>1, <1>2, <2>1, <2>2, AddKeeps
  <2>4. GoodTree(AddItem(more, d, name, next + 1, TRUE), next + 2)
    <3> HIDE DEF more
    <3>1. QED
      BY <1>1, <1>2, <2>3, AddKeeps
  <2>5. QED
    BY <1>7, <2>4
<1>9. QED
  BY <1>5, <1>6, <1>7 DEF Make
-----------------------------------------------------------------------------
(* What the invariant says of a thread.                                    *)

LEMMA ThreadFacts ==
  ASSUME TypeOK, TreeInv, NEW t \in Threads
  PROVE  /\ at[t] \in {"idle", "walk", "rewalk", "act"}
         /\ parts[t] \in Seq(Nodes) /\ first[t] \in Seq(Nodes)
         /\ Len(parts[t]) <= 2 /\ Len(first[t]) <= 2
         /\ parts[t] \in Seq(1 .. next - 1) /\ first[t] \in Seq(1 .. next - 1)
         /\ walked[t] \in Nat /\ next \in Nat /\ 1 .. next - 1 \subseteq Nodes
         /\ call[t] \in Calls \cup {NoCall}
         /\ t # None
BY TreeAssumption DEF TypeOK, TreeInv, Nodes

LEMMA CallFacts ==
  ASSUME NEW c \in Calls \cup {NoCall}
  PROVE  /\ c.path \in Seq(Names) /\ c.to \in Seq(Names) /\ c.kind \in Kinds
         /\ c.kind # "lookup" => c.path # <<>>
         /\ c.kind = "rename" => c.to # <<>>
<1>1. CASE c \in Calls
  BY <1>1, TreeAssumption
<1>2. CASE c = NoCall
  <2>1. c.path = <<>> /\ c.to = <<>> /\ c.kind = "lookup"
    BY <1>2 DEF NoCall
  <2>2. QED
    BY <2>1 DEF Kinds
<1>3. QED
  BY <1>1, <1>2

LEMMA PathFacts ==
  ASSUME TypeOK, TreeInv, WalkInv, NEW t \in Threads, Walking(t)
  PROVE  /\ Path(t) \in Seq(Names) /\ Len(Path(t)) \in Nat
         /\ PathSize(t) \in {1, 2}
         /\ PathSize(t) = 2 => Len(Path(t)) > 0
<1>1. call[t] \in Calls \cup {NoCall}
  BY ThreadFacts
<1>2. /\ call[t].path \in Seq(Names) /\ call[t].to \in Seq(Names)
      /\ call[t].kind # "lookup" => call[t].path # <<>>
      /\ call[t].kind = "rename" => call[t].to # <<>>
  BY <1>1, CallFacts
<1>3. at[t] = "rewalk" => call[t].kind = "rename"
  BY DEF WalkInv, WalkOf
<1>4. Path(t) \in Seq(Names)
  BY <1>2 DEF Path
<1>5. PathSize(t) \in {1, 2}
  BY DEF PathSize
<1>6. PathSize(t) = 2 => Path(t) # <<>>
  BY <1>2, <1>3 DEF PathSize, Path
<1>7. QED
  BY <1>4, <1>5, <1>6, EmptySeq, LenProperties

(* On its way a walk keeps one node, and the next one is newer.            *)
LEMMA ChildFacts ==
  ASSUME TypeOK, TreeInv, WalkInv, NEW t \in Threads,
         Walking(t), walked[t] \in 1 .. Len(Path(t))
  PROVE  /\ Len(parts[t]) = 1 /\ Here(t) = parts[t][1]
         /\ Here(t) \in 1 .. next - 1
         /\ Child(t) \in {None} \cup (Here(t) + 1 .. next - 1)
         /\ Child(t) # None => Child(t) \in 1 .. next - 1
<1>1. Path(t) \in Seq(Names) /\ Len(Path(t)) \in Nat /\ walked[t] \in Nat /\ next \in Nat
  BY PathFacts, ThreadFacts
<1>2. Len(parts[t]) = 1
  <2>1. WalkOf(t)
    BY DEF WalkInv
  <2>2. walked[t] > 0 /\ walked[t] # Len(Path(t)) + 1
    BY <1>1
  <2>3. QED
    BY <2>1, <2>2 DEF WalkOf
<1>3. Here(t) = parts[t][1]
  BY <1>2 DEF Here
<1>4. parts[t][1] \in 1 .. next - 1
  BY <1>2, ThreadFacts, OfLengthOne
<1>5. Path(t)[walked[t]] \in Names
  BY <1>1
<1>6. Here(t) \in Nodes
  BY <1>3, <1>4, ThreadFacts
<1>7. Child(t) \in {None} \cup (Here(t) + 1 .. next - 1)
  BY <1>5, <1>6 DEF Child, TreeInv, GoodTree
<1>8. QED
  BY <1>1, <1>2, <1>3, <1>4, <1>7

(* What a step leaves of a thread leaves what the invariant says of it.    *)
LEMMA Untouched ==
  ASSUME NEW u \in Threads, WalkInv,
         at'[u] = at[u], call'[u] = call[u], parts'[u] = parts[u],
         walked'[u] = walked[u], first'[u] = first[u]
  PROVE  WalkOf(u)' /\ Held(u)' = Held(u)
<1>1. WalkOf(u)
  BY DEF WalkInv
<1>2. WalkOf(u)'
  BY <1>1 DEF WalkOf, Walking, Path, PathSize
<1>3. QED
  BY <1>2 DEF Held, Elements
-----------------------------------------------------------------------------
(* Each step keeps the invariant.                                          *)

LEMMA BeginStep ==
  ASSUME IInv, NEW t \in Threads, NEW c \in Calls, Begin(t, c)
  PROVE  IInv'
<1>1. /\ at[t] = "idle" /\ calls[t] < MaxCalls
      /\ at' = [at EXCEPT ![t] = "walk"] /\ call' = [call EXCEPT ![t] = c]
      /\ calls' = [calls EXCEPT ![t] = @ + 1]
      /\ UNCHANGED <<treeVars, owner, parts, walked, first>>
  BY DEF Begin
<1>2. TypeOK /\ TreeInv /\ WalkInv /\ LocksAreOfPaths
  BY DEF IInv
<1>3. TypeOK'
  <2>1. calls'[t] \in 0 .. MaxCalls
    BY <1>1, <1>2, TreeAssumption DEF TypeOK
  <2>2. calls' \in [Threads -> 0 .. MaxCalls]
    BY <1>1, <1>2, <2>1 DEF TypeOK
  <2>3. QED
    BY <1>1, <1>2, <2>2 DEF TypeOK, treeVars
<1>4. TreeInv'
  BY <1>1, <1>2 DEF TreeInv, GoodTree, treeVars
<1>5. ASSUME NEW u \in Threads PROVE WalkOf(u)'
  <2>1. CASE u = t
    <3>1. WalkOf(t)
      BY <1>2 DEF WalkInv
    <3>2. at'[t] = "walk" /\ walked'[t] = 0 /\ parts'[t] = <<>> /\ first'[t] = <<>>
      BY <1>1, <1>2, <3>1 DEF TypeOK, WalkOf
    <3>3. QED
      BY <2>1, <3>2 DEF WalkOf
  <2>2. CASE u # t
    BY <1>1, <1>2, <2>2, Untouched DEF TypeOK
  <2>3. QED
    BY <2>1, <2>2
<1>6. LocksAreOfPaths'
  BY <1>1, <1>2 DEF LocksAreOfPaths, Held, Elements
<1>7. QED
  BY <1>3, <1>4, <1>5, <1>6 DEF IInv, WalkInv

LEMMA LockRootStep ==
  ASSUME IInv, NEW t \in Threads, LockRoot(t)
  PROVE  IInv'
<1>1. /\ Walking(t) /\ walked[t] = 0 /\ MayLock(t, Root)
      /\ owner' = [owner EXCEPT ![Root] = t]
      /\ parts' = [parts EXCEPT ![t] = <<Root>>]
      /\ walked' = [walked EXCEPT ![t] = 1]
      /\ UNCHANGED <<treeVars, at, call, first, calls, seen>>
  BY DEF LockRoot
<1>2. TypeOK /\ TreeInv /\ WalkInv /\ LocksAreOfPaths
  BY DEF IInv
<1>3. Root \in 1 .. next - 1 /\ Root \in Nodes /\ parts[t] = <<>>
  <2>1. WalkOf(t) /\ at[t] # "act"
    BY <1>1, <1>2 DEF WalkInv, Walking
  <2>2. parts[t] = <<>>
    BY <1>1, <2>1 DEF WalkOf
  <2>3. QED
    BY <1>2, <2>2, TreeAssumption DEF Root, Nodes, TreeInv
<1>4. /\ <<Root>> \in Seq(1 .. next - 1) /\ <<Root>> \in Seq(Nodes)
      /\ Len(<<Root>>) = 1 /\ Elements(<<Root>>) = {Root}
  BY <1>3, OneSeq
<1>5. TypeOK'
  <2>1. owner' \in [Nodes -> Threads \cup {None}]
    BY <1>1, <1>2 DEF TypeOK
  <2>2. parts' \in [Threads -> Seq(Nodes)] /\ walked' \in [Threads -> Nat]
    BY <1>1, <1>2, <1>4 DEF TypeOK
  <2>3. ASSUME NEW u \in Threads PROVE Len(parts'[u]) <= 2
    <3>1. parts'[u] = IF u = t THEN <<Root>> ELSE parts[u]
      BY <1>1, <1>2 DEF TypeOK
    <3>2. QED
      BY <1>2, <1>4, <3>1 DEF TypeOK
  <2>4. QED
    BY <1>1, <1>2, <2>1, <2>2, <2>3 DEF TypeOK, treeVars
<1>6. TreeInv'
  BY <1>1, <1>2, <1>4 DEF TreeInv, GoodTree, treeVars
<1>7. ASSUME NEW u \in Threads PROVE WalkOf(u)'
  <2>1. CASE u = t
    <3>1. WalkOf(t)
      BY <1>2 DEF WalkInv
    <3>2. /\ Path(t) \in Seq(Names) /\ Len(Path(t)) \in Nat /\ PathSize(t) \in {1, 2}
          /\ PathSize(t) = 2 => Len(Path(t)) > 0
      BY <1>1, <1>2, PathFacts
    <3>3. /\ at'[t] = at[t] /\ walked'[t] = 1 /\ parts'[t] = <<Root>>
          /\ first'[t] = first[t] /\ call'[t] = call[t]
          /\ Path(t)' = Path(t) /\ PathSize(t)' = PathSize(t)
      BY <1>1, <1>2 DEF TypeOK, Path, PathSize
    <3>4. at'[t] # "idle"
      BY <1>1, <3>3 DEF Walking
    <3>5. Len(parts'[t]) = IF 1 = Len(Path(t)) + 1 THEN PathSize(t) ELSE 1
      BY <1>4, <3>2, <3>3
    <3>6. QED
      BY <2>1, <3>1, <3>2, <3>3, <3>4, <3>5 DEF WalkOf
  <2>2. CASE u # t
    BY <1>1, <1>2, <2>2, Untouched DEF TypeOK
  <2>3. QED
    BY <2>1, <2>2
<1>8. ASSUME NEW u \in Threads, NEW n \in Nodes
      PROVE  owner'[n] = u <=> n \in Held(u)'
  <2>1. owner[n] = u <=> n \in Held(u)
    BY <1>2 DEF LocksAreOfPaths
  <2>2. owner'[n] = IF n = Root THEN t ELSE owner[n]
    BY <1>1, <1>2 DEF TypeOK
  <2>3. CASE u = t
    <3>1. Held(t)' = Held(t) \cup {Root}
      <4>1. parts'[t] = <<Root>> /\ first'[t] = first[t]
        BY <1>1, <1>2 DEF TypeOK
      <4>2. Held(t) = Elements(first[t])
        BY <1>3, NoSeq DEF Held
      <4>3. Held(t)' = Elements(first[t]) \cup Elements(<<Root>>)
        BY <4>1 DEF Held, Elements
      <4>4. QED
        BY <1>4, <4>2, <4>3
    <3>2. QED
      BY <2>1, <2>2, <2>3, <3>1
  <2>4. CASE u # t
    <3>1. Held(u)' = Held(u)
      BY <1>1, <1>2, <2>4, Untouched DEF TypeOK
    <3>2. owner[Root] # u
      <4>1. Root \in Elements(first[t]) => owner[Root] = t
        BY <1>2, <1>3 DEF LocksAreOfPaths, Held
      <4>2. u # None
        BY TreeAssumption
      <4>3. QED
        BY <1>1, <2>4, <4>1, <4>2 DEF MayLock
    <3>3. QED
      BY <2>1, <2>2, <2>4, <3>1, <3>2
  <2>5. QED
    BY <2>3, <2>4
<1>9. QED
  BY <1>5, <1>6, <1>7, <1>8 DEF IInv, WalkInv, LocksAreOfPaths
LEMMA DescendStep ==
  ASSUME IInv, NEW t \in Threads, Descend(t)
  PROVE  IInv'
<1> DEFINE child == Child(t)
           gone  == IF Passes(t) THEN {Head(parts[t])} ELSE {}
           path  == Append(IF Passes(t) THEN Tail(parts[t]) ELSE parts[t], child)
<1>1. /\ Walking(t) /\ walked[t] \in 1 .. Len(Path(t)) /\ child # None /\ MayLock(t, child)
      /\ owner' = [n \in Nodes |-> IF n = child THEN t
                                   ELSE IF n \in Releases(t, gone) THEN None
                                   ELSE owner[n]]
      /\ parts' = [parts EXCEPT ![t] = path]
      /\ walked' = [walked EXCEPT ![t] = @ + 1]
      /\ UNCHANGED <<treeVars, at, call, first, calls, seen>>
  BY DEF Descend
<1>2. TypeOK /\ TreeInv /\ WalkInv /\ LocksAreOfPaths
  BY DEF IInv
<1>3. /\ Len(parts[t]) = 1 /\ child \in 1 .. next - 1 /\ child \in Nodes
      /\ parts[t] \in Seq(1 .. next - 1) /\ 1 .. next - 1 \subseteq Nodes
  BY <1>1, <1>2, ChildFacts, ThreadFacts
<1>4. /\ Head(parts[t]) = parts[t][1] /\ parts[t][1] \in 1 .. next - 1
      /\ Elements(parts[t]) = {parts[t][1]}
      /\ path \in Seq(1 .. next - 1) /\ path \in Seq(Nodes)
      /\ Len(path) = IF Passes(t) THEN 1 ELSE 2
      /\ Elements(path) = IF Passes(t) THEN {child} ELSE {parts[t][1], child}
  <2>1. /\ parts[t][1] \in 1 .. next - 1 /\ Head(parts[t]) = parts[t][1]
        /\ Tail(parts[t]) = <<>> /\ Elements(parts[t]) = {parts[t][1]}
        /\ Append(parts[t], child) \in Seq(1 .. next - 1) /\ Len(Append(parts[t], child)) = 2
        /\ Elements(Append(parts[t], child)) = {parts[t][1], child}
        /\ Append(<<>>, child) = <<child>>
    <3>1. child \in 1 .. next - 1 /\ parts[t] \in Seq(1 .. next - 1) /\ Len(parts[t]) = 1
      BY <1>3
    <3> HIDE DEF child
    <3>2. /\ parts[t][1] \in 1 .. next - 1 /\ Head(parts[t]) = parts[t][1]
          /\ Tail(parts[t]) = <<>> /\ Elements(parts[t]) = {parts[t][1]}
      BY <3>1, OfLengthOne, ZenonT(40)
    <3>3. /\ Append(parts[t], child) \in Seq(1 .. next - 1) /\ Len(Append(parts[t], child)) = 2
          /\ Elements(Append(parts[t], child)) = {parts[t][1], child}
          /\ Append(<<>>, child) = <<child>>
      BY <3>1, ToLengthTwo, ZenonT(40)
    <3>4. QED
      BY <3>2, <3>3
  <2>2. /\ <<child>> \in Seq(1 .. next - 1) /\ Len(<<child>>) = 1
        /\ Elements(<<child>>) = {child}
    BY <1>3, OneSeq
  <2>3. path = IF Passes(t) THEN <<child>> ELSE Append(parts[t], child)
    BY <2>1
  <2>4. path \in Seq(1 .. next - 1)
    BY <2>1, <2>2, <2>3
  <2>5. path \in Seq(Nodes)
    <3> HIDE DEF path
    <3>1. QED
      BY <1>3, <2>4, SeqMonotonic
  <2>6. QED
    BY <2>1, <2>2, <2>3, <2>4, <2>5
<1>5. TypeOK'
  <2>1. owner' \in [Nodes -> Threads \cup {None}]
    BY <1>1, <1>2 DEF TypeOK
  <2>2. parts' \in [Threads -> Seq(Nodes)] /\ walked' \in [Threads -> Nat]
    BY <1>1, <1>2, <1>4, SMTT(30) DEF TypeOK
  <2>3. ASSUME NEW u \in Threads PROVE Len(parts'[u]) <= 2
    <3>1. parts'[u] = IF u = t THEN path ELSE parts[u]
      BY <1>1, <1>2 DEF TypeOK
    <3>2. QED
      BY <1>2, <1>4, <3>1 DEF TypeOK
  <2>4. QED
    BY <1>1, <1>2, <2>1, <2>2, <2>3 DEF TypeOK, treeVars
<1>6. TreeInv'
  BY <1>1, <1>2, <1>4 DEF TreeInv, GoodTree, treeVars
<1>7. ASSUME NEW u \in Threads PROVE WalkOf(u)'
  <2>1. CASE u = t
    <3>1. WalkOf(t)
      BY <1>2 DEF WalkInv
    <3>2. /\ Path(t) \in Seq(Names) /\ Len(Path(t)) \in Nat /\ PathSize(t) \in {1, 2}
          /\ PathSize(t) = 2 => Len(Path(t)) > 0
      BY <1>1, <1>2, PathFacts
    <3>3. /\ at'[t] = at[t] /\ walked'[t] = walked[t] + 1 /\ parts'[t] = path
          /\ first'[t] = first[t] /\ call'[t] = call[t]
          /\ Path(t)' = Path(t) /\ PathSize(t)' = PathSize(t)
      BY <1>1, <1>2 DEF TypeOK, Path, PathSize
    <3>4. at'[t] # "idle"
      BY <1>1, <3>3 DEF Walking
    <3>5. /\ walked[t] + 1 <= Len(Path(t)) + 1 /\ walked[t] + 1 > 0
          /\ Len(path) = IF walked[t] + 1 = Len(Path(t)) + 1 THEN PathSize(t) ELSE 1
      <4>1. Len(path) = IF Passes(t) THEN 1 ELSE 2
        BY <1>4
      <4>2. walked[t] \in 1 .. Len(Path(t))
        BY <1>1
      <4>3. Passes(t) <=> walked[t] <= Len(Path(t)) - PathSize(t) + 1
        BY DEF Passes
      <4> HIDE DEF path, child
      <4>4. QED
        BY <3>2, <4>1, <4>2, <4>3
    <3>6. QED
      <4> HIDE DEF path
      <4>1. QED
        BY <2>1, <3>1, <3>3, <3>4, <3>5 DEF WalkOf
  <2>2. CASE u # t
    BY <1>1, <1>2, <2>2, Untouched DEF TypeOK
  <2>3. QED
    BY <2>1, <2>2
<1>8. ASSUME NEW u \in Threads, NEW n \in Nodes
      PROVE  owner'[n] = u <=> n \in Held(u)'
  <2>1. owner[n] = u <=> n \in Held(u)
    BY <1>2 DEF LocksAreOfPaths
  <2>2. owner'[n] = IF n = child THEN t ELSE IF n \in Releases(t, gone) THEN None ELSE owner[n]
    BY <1>1
  <2>3. u # None /\ t # None
    BY TreeAssumption
  <2>4. Releases(t, gone) = IF Passes(t) THEN {parts[t][1]} \ Elements(first[t]) ELSE {}
    BY <1>4 DEF Releases
  <2>5. Held(t) = Elements(first[t]) \cup {parts[t][1]}
    BY <1>4 DEF Held
  <2>6. Held(t)' = Elements(first[t])
                     \cup (IF Passes(t) THEN {child} ELSE {parts[t][1], child})
    <3>1. parts'[t] = path /\ first'[t] = first[t]
      BY <1>1, <1>2 DEF TypeOK
    <3>2. Held(t)' = Elements(first[t]) \cup Elements(path)
      BY <3>1 DEF Held, Elements
    <3>3. QED
      BY <1>4, <3>2
  <2>7. CASE u = t
    <3>1. n \in Elements(first[t]) => owner[n] = t
      BY <2>1, <2>5, <2>7
    <3>2. QED
      <4> HIDE DEF child, gone
      <4>1. QED
        BY <2>1, <2>2, <2>3, <2>4, <2>5, <2>6, <2>7
  <2>8. CASE u # t
    <3>1. Held(u)' = Held(u)
      BY <1>1, <1>2, <2>8, Untouched DEF TypeOK
    <3>2. owner[child] # u
      <4>1. child \in Elements(first[t]) => owner[child] = t
        BY <1>2, <1>3 DEF LocksAreOfPaths, Held
      <4>2. QED
        BY <1>1, <2>3, <2>8, <4>1 DEF MayLock
    <3>3. n \in Releases(t, gone) => owner[n] = t
      BY <1>2, <2>4, <2>5 DEF LocksAreOfPaths
    <3>4. QED
      <4> HIDE DEF child, gone
      <4>1. QED
        BY <2>1, <2>2, <2>3, <2>8, <3>1, <3>2, <3>3
  <2>9. QED
    BY <2>7, <2>8
<1>9. QED
  BY <1>5, <1>6, <1>7, <1>8 DEF IInv, WalkInv, LocksAreOfPaths

(* Where a walk ends it keeps what its call works on: at most two nodes,   *)
(* and none where an element before the last is missing.                   *)
LEMMA EndWalkStep ==
  ASSUME IInv, NEW t \in Threads, EndWalk(t)
  PROVE  IInv'
<1> DEFINE short == walked[t] # Len(Path(t)) + 1 /\ Passes(t)
           gone  == IF short THEN {Head(parts[t])} ELSE {}
           kept  == IF short THEN Tail(parts[t]) ELSE parts[t]
           again == call[t].kind = "rename" /\ at[t] = "walk"
<1>1. /\ Walking(t) /\ walked[t] > 0
      /\ owner' = [n \in Nodes |-> IF n \in Releases(t, gone) THEN None ELSE owner[n]]
      /\ UNCHANGED <<treeVars, call, calls>>
      /\ at' = [at EXCEPT ![t] = IF again THEN "rewalk" ELSE "act"]
      /\ first' = [first EXCEPT ![t] = IF again THEN kept ELSE @]
      /\ parts' = [parts EXCEPT ![t] = IF again THEN <<>> ELSE kept]
      /\ walked' = [walked EXCEPT ![t] = IF again THEN 0 ELSE @]
  <2>1. first = [first EXCEPT ![t] = @] /\ walked = [walked EXCEPT ![t] = @]
    BY DEF IInv, TypeOK
  <2>2. QED
    BY <2>1 DEF EndWalk
<1>2. TypeOK /\ TreeInv /\ WalkInv /\ LocksAreOfPaths
  BY DEF IInv
<1>3. /\ kept \in Seq(1 .. next - 1) /\ kept \in Seq(Nodes) /\ Len(kept) <= 2
      /\ Elements(parts[t]) = gone \cup Elements(kept)
      /\ short => Elements(kept) = {}
  <2>1. /\ parts[t] \in Seq(1 .. next - 1) /\ parts[t] \in Seq(Nodes) /\ Len(parts[t]) <= 2
        /\ walked[t] \in Nat
    BY <1>2, ThreadFacts
  <2>2. CASE short
    <3>1. Len(parts[t]) = 1
      <4>1. WalkOf(t)
        BY <1>2 DEF WalkInv
      <4>2. QED
        BY <1>1, <2>2, <4>1 DEF WalkOf
    <3>2. Head(parts[t]) = parts[t][1] /\ Tail(parts[t]) = <<>>
          /\ Elements(parts[t]) = {parts[t][1]}
      BY <2>1, <3>1, OfLengthOne
    <3>3. kept = <<>> /\ gone = {parts[t][1]}
      BY <2>2, <3>2
    <3>4. QED
      <4> HIDE DEF kept, gone, short
      <4>1. QED
        BY <3>2, <3>3, NoSeq
  <2>3. CASE ~ short
    BY <2>1, <2>3
  <2>4. QED
    BY <2>2, <2>3
<1> HIDE DEF short, kept, gone
<1>4. TypeOK'
  <2>1. owner' \in [Nodes -> Threads \cup {None}]
    BY <1>1, <1>2 DEF TypeOK
  <2>2. <<>> \in Seq(Nodes) /\ Len(<<>>) = 0
    BY NoSeq
  <2>3. /\ at' \in [Threads -> {"idle", "walk", "rewalk", "act"}]
        /\ parts' \in [Threads -> Seq(Nodes)] /\ first' \in [Threads -> Seq(Nodes)]
        /\ walked' \in [Threads -> Nat]
    BY <1>1, <1>2, <1>3, <2>2 DEF TypeOK
  <2>4. ASSUME NEW u \in Threads PROVE Len(parts'[u]) <= 2 /\ Len(first'[u]) <= 2
    <3>1. /\ parts'[u] = IF u = t THEN IF again THEN <<>> ELSE kept ELSE parts[u]
          /\ first'[u] = IF u = t /\ again THEN kept ELSE first[u]
      BY <1>1, <1>2 DEF TypeOK
    <3>2. Len(parts[u]) <= 2 /\ Len(first[u]) <= 2
      BY <1>2 DEF TypeOK
    <3>3. QED
      BY <1>3, <2>2, <3>1, <3>2
  <2>5. QED
    BY <1>1, <1>2, <2>1, <2>3, <2>4 DEF TypeOK, treeVars
<1>5. TreeInv'
  <2>1. <<>> \in Seq(1 .. next - 1)
    BY NoSeq
  <2>2. /\ parts' \in [Threads -> Seq(1 .. next - 1)]
        /\ first' \in [Threads -> Seq(1 .. next - 1)]
    BY <1>1, <1>2, <1>3, <2>1 DEF TreeInv
  <2>3. QED
    BY <1>1, <1>2, <2>2 DEF TreeInv, GoodTree, treeVars
<1>6. ASSUME NEW u \in Threads PROVE WalkOf(u)'
  <2>1. CASE u = t
    <3>1. /\ at'[t] = IF again THEN "rewalk" ELSE "act"
          /\ call'[t] = call[t]
          /\ parts'[t] = IF again THEN <<>> ELSE kept
          /\ walked'[t] = IF again THEN 0 ELSE walked[t]
      BY <1>1, <1>2 DEF TypeOK
    <3>2. QED
      BY <2>1, <3>1 DEF WalkOf, Walking
  <2>2. CASE u # t
    BY <1>1, <1>2, <2>2, Untouched DEF TypeOK
  <2>3. QED
    BY <2>1, <2>2
<1>7. ASSUME NEW u \in Threads, NEW n \in Nodes
      PROVE  owner'[n] = u <=> n \in Held(u)'
  <2>1. owner[n] = u <=> n \in Held(u)
    BY <1>2 DEF LocksAreOfPaths
  <2>2. owner'[n] = IF n \in Releases(t, gone) THEN None ELSE owner[n]
    BY <1>1
  <2>3. u # None
    BY TreeAssumption
  <2>4. Releases(t, gone) = gone \ Elements(first[t])
    BY DEF Releases
  <2>5. Held(t) = Elements(first[t]) \cup gone \cup Elements(kept)
    BY <1>3 DEF Held
  <2>6. Held(t)' = Elements(first[t]) \cup Elements(kept)
    <3>1. WalkOf(t)
      BY <1>2 DEF WalkInv
    <3>2. CASE again
      <4>1. first[t] = <<>> /\ first'[t] = kept /\ parts'[t] = <<>>
        BY <1>1, <1>2, <3>1, <3>2 DEF WalkOf, TypeOK
      <4>2. Elements(first[t]) = {} /\ Elements(<<>>) = {}
        BY <4>1, NoSeq
      <4>3. Held(t)' = Elements(kept) \cup Elements(<<>>)
        BY <4>1 DEF Held, Elements
      <4>4. QED
        BY <4>2, <4>3
    <3>3. CASE ~ again
      <4>1. first'[t] = first[t] /\ parts'[t] = kept
        BY <1>1, <1>2, <3>3 DEF TypeOK
      <4>2. QED
        BY <4>1 DEF Held, Elements
    <3>4. QED
      BY <3>2, <3>3
  <2>7. gone \cap Elements(kept) = {}
    BY <1>3 DEF gone
  <2>8. CASE u = t
    BY <2>1, <2>2, <2>3, <2>4, <2>5, <2>6, <2>7, <2>8
  <2>9. CASE u # t
    <3>1. Held(u)' = Held(u)
      BY <1>1, <1>2, <2>9, Untouched DEF TypeOK
    <3>2. n \in Releases(t, gone) => owner[n] = t
      BY <1>2, <2>4, <2>5 DEF LocksAreOfPaths
    <3>3. QED
      BY <2>1, <2>2, <2>3, <2>9, <3>1, <3>2
  <2>10. QED
    BY <2>8, <2>9
<1>8. QED
  BY <1>4, <1>5, <1>6, <1>7 DEF IInv, WalkInv, LocksAreOfPaths
(* A call that has done what it does under its locks is rid of them.       *)
LEMMA ReturnStep ==
  ASSUME IInv, NEW t \in Threads, Return(t),
         next' \in next .. MaxNodes + 1, GoodTree(node', next')
  PROVE  IInv'
<1>1. /\ owner' = [n \in Nodes |-> IF n \in Held(t) THEN None ELSE owner[n]]
      /\ at' = [at EXCEPT ![t] = "idle"]
      /\ parts' = [parts EXCEPT ![t] = <<>>] /\ first' = [first EXCEPT ![t] = <<>>]
      /\ walked' = [walked EXCEPT ![t] = 0]
      /\ UNCHANGED <<call, calls>>
  BY DEF Return
<1>2. TypeOK /\ TreeInv /\ WalkInv /\ LocksAreOfPaths
  BY DEF IInv
<1>3. next \in 2 .. MaxNodes + 1 /\ next' \in 2 .. MaxNodes + 1 /\ next' \in Nat
  BY <1>2, TreeAssumption DEF TreeInv
<1>4. TypeOK'
  <2>1. owner' \in [Nodes -> Threads \cup {None}]
    BY <1>1, <1>2 DEF TypeOK
  <2>2. <<>> \in Seq(Nodes) /\ Len(<<>>) = 0
    BY NoSeq
  <2>3. /\ at' \in [Threads -> {"idle", "walk", "rewalk", "act"}]
        /\ parts' \in [Threads -> Seq(Nodes)] /\ first' \in [Threads -> Seq(Nodes)]
        /\ walked' \in [Threads -> Nat]
    BY <1>1, <1>2, <2>2 DEF TypeOK
  <2>4. ASSUME NEW u \in Threads PROVE Len(parts'[u]) <= 2 /\ Len(first'[u]) <= 2
    <3>1. /\ parts'[u] = IF u = t THEN <<>> ELSE parts[u]
          /\ first'[u] = IF u = t THEN <<>> ELSE first[u]
      BY <1>1, <1>2 DEF TypeOK
    <3>2. Len(parts[u]) <= 2 /\ Len(first[u]) <= 2
      BY <1>2 DEF TypeOK
    <3>3. QED
      BY <2>2, <3>1, <3>2
  <2>5. node' \in [Nodes -> Node]
    BY DEF GoodTree
  <2>6. QED
    BY <1>1, <1>2, <1>3, <2>1, <2>3, <2>4, <2>5 DEF TypeOK
<1>5. TreeInv'
  <2>1. ASSUME NEW s \in Seq(1 .. next - 1) PROVE s \in Seq(1 .. next' - 1)
    <3>1. 1 .. next - 1 \subseteq 1 .. next' - 1
      <4>1. next \in Nat /\ next' \in Nat /\ next <= next'
        BY <1>3, TreeAssumption
      <4>2. QED
        BY <4>1, MoreNodes
    <3>2. QED
      BY <3>1, SeqMonotonic
  <2>2. <<>> \in Seq(1 .. next - 1)
    BY NoSeq
  <2>3. /\ parts' \in [Threads -> Seq(1 .. next - 1)]
        /\ first' \in [Threads -> Seq(1 .. next - 1)]
    BY <1>1, <1>2, <2>2 DEF TreeInv
  <2>4. /\ parts' \in [Threads -> Seq(1 .. next' - 1)]
        /\ first' \in [Threads -> Seq(1 .. next' - 1)]
    BY <2>1, <2>3
  <2>5. GoodTree(node, next)'
    BY DEF GoodTree, Nodes, Node
  <2>6. QED
    BY <1>3, <2>4, <2>5 DEF TreeInv
<1>6. ASSUME NEW u \in Threads PROVE WalkOf(u)'
  <2>1. CASE u = t
    <3>1. /\ at'[t] = "idle" /\ parts'[t] = <<>> /\ first'[t] = <<>> /\ walked'[t] = 0
      BY <1>1, <1>2 DEF TypeOK
    <3>2. QED
      BY <2>1, <3>1 DEF WalkOf, Walking
  <2>2. CASE u # t
    BY <1>1, <1>2, <2>2, Untouched DEF TypeOK
  <2>3. QED
    BY <2>1, <2>2
<1>7. ASSUME NEW u \in Threads, NEW n \in Nodes
      PROVE  owner'[n] = u <=> n \in Held(u)'
  <2>1. owner[n] = u <=> n \in Held(u)
    BY <1>2 DEF LocksAreOfPaths
  <2>2. owner'[n] = IF n \in Held(t) THEN None ELSE owner[n]
    BY <1>1
  <2>3. u # None
    BY TreeAssumption
  <2>4. CASE u = t
    <3>1. parts'[t] = <<>> /\ first'[t] = <<>>
      BY <1>1, <1>2 DEF TypeOK
    <3>2. Held(t)' = {}
      BY <3>1 DEF Held, Elements
    <3>3. QED
      BY <2>1, <2>2, <2>3, <2>4, <3>2
  <2>5. CASE u # t
    <3>1. Held(u)' = Held(u)
      BY <1>1, <1>2, <2>5, Untouched DEF TypeOK
    <3>2. n \in Held(t) => owner[n] = t
      BY <1>2 DEF LocksAreOfPaths
    <3>3. QED
      BY <2>1, <2>2, <2>3, <2>5, <3>1, <3>2
  <2>6. QED
    BY <2>4, <2>5
<1>8. QED
  BY <1>4, <1>5, <1>6, <1>7 DEF IInv, WalkInv, LocksAreOfPaths

LEMMA DieStep ==
  ASSUME IInv, NEW t \in Threads, Die(t)
  PROVE  IInv'
<1>1. /\ owner' = [n \in Nodes |-> None] /\ at' = [u \in Threads |-> "idle"]
      /\ parts' = [u \in Threads |-> <<>>] /\ first' = [u \in Threads |-> <<>>]
      /\ walked' = [u \in Threads |-> 0] /\ calls' = [u \in Threads |-> MaxCalls]
      /\ UNCHANGED <<treeVars, call>>
  BY DEF Die
<1>2. TypeOK /\ TreeInv
  BY DEF IInv
<1>3. <<>> \in Seq(Nodes) /\ <<>> \in Seq(1 .. next - 1) /\ Len(<<>>) = 0
  BY NoSeq
<1>4. TypeOK'
  BY <1>1, <1>2, <1>3, TreeAssumption DEF TypeOK, treeVars
<1>5. TreeInv'
  BY <1>1, <1>2, <1>3 DEF TreeInv, GoodTree, treeVars
<1>6. ASSUME NEW u \in Threads PROVE WalkOf(u)'
  BY <1>1 DEF WalkOf, Walking
<1>7. ASSUME NEW u \in Threads, NEW n \in Nodes
      PROVE  owner'[n] = u <=> n \in Held(u)'
  <2>1. Held(u)' = {}
    BY <1>1 DEF Held, Elements
  <2>2. QED
    BY <1>1, <2>1, TreeAssumption
<1>8. QED
  BY <1>4, <1>5, <1>6, <1>7 DEF IInv, WalkInv, LocksAreOfPaths
-----------------------------------------------------------------------------
(* What the calls do.                                                      *)

LEMMA DirFacts ==
  ASSUME TreeInv, NEW s \in Seq(1 .. next - 1), Len(s) \in {1, 2}
  PROVE  s[1] \in Nodes /\ s[1] < next
<1>1. s[1] \in 1 .. next - 1
  <2>1. 1 \in 1 .. Len(s)
    OBVIOUS
  <2>2. QED
    BY <2>1, ElementOfSeq
<1>2. QED
  BY <1>1, TreeAssumption DEF TreeInv, Nodes

LEMMA NameFacts ==
  ASSUME NEW path \in Seq(Names), path # <<>>
  PROVE  NameOf(path) \in Names
<1>1. Len(path) \in Nat \ {0}
  BY EmptySeq
<1>2. QED
  BY <1>1 DEF NameOf

LEMMA ActStep ==
  ASSUME IInv, NEW t \in Threads,
         Nothing(t) \/ MakeDir(t) \/ RemoveDir(t) \/ RenameSong(t) \/ RenameDummy(t)
  PROVE  IInv'
<1>1. /\ TreeInv /\ GoodTree(node, next) /\ next \in 2 .. MaxNodes + 1 /\ next \in Nat
      /\ MaxNodes \in Nat
      /\ parts[t] \in Seq(1 .. next - 1) /\ first[t] \in Seq(1 .. next - 1)
  BY TreeAssumption DEF IInv, TreeInv
<1>2. /\ call[t].kind # "lookup" => NameOf(call[t].path) \in Names
      /\ call[t].kind = "rename" => NameOf(call[t].to) \in Names
  <2>1. call[t] \in Calls \cup {NoCall}
    BY ThreadFacts DEF IInv
  <2>2. /\ call[t].path \in Seq(Names) /\ call[t].to \in Seq(Names)
        /\ call[t].kind # "lookup" => call[t].path # <<>>
        /\ call[t].kind = "rename" => call[t].to # <<>>
    BY <2>1, CallFacts
  <2>3. QED
    BY <2>2, NameFacts
<1>3. Return(t)
  BY DEF Nothing, MakeDir, RemoveDir, RenameSong, RenameDummy
<1>4. ASSUME NEW s \in Seq(1 .. next - 1), Len(s) \in {1, 2}, NEW gone
      PROVE  /\ s[1] \in Nodes /\ s[1] < next
             /\ GoodTree(RemoveItems(node, s[1], gone), next)
  <2>1. s[1] \in Nodes /\ s[1] < next
    BY <1>1, <1>4, DirFacts
  <2>2. QED
    BY <1>1, <2>1, RemoveKeeps
<1>5. ASSUME Nothing(t) PROVE IInv'
  <2>1. node' = node /\ next' = next
    BY <1>5 DEF Nothing, treeVars
  <2>2. GoodTree(node', next') /\ next' \in next .. MaxNodes + 1
    BY <1>1, <2>1
  <2>3. QED
    BY <1>3, <2>2, ReturnStep
<1>6. ASSUME MakeDir(t) PROVE IInv'
  <2>1. /\ call[t].kind = "mkdir" /\ Len(parts[t]) = 1 /\ Fits(2) /\ next' = next + 2
        /\ Make(node, parts[t][1], NameOf(call[t].path))
    BY <1>6 DEF MakeDir, IsDir
  <2>2. parts[t][1] \in Nodes /\ parts[t][1] < next
    BY <1>1, <1>4, <2>1
  <2>3. NameOf(call[t].path) \in Names
    BY <1>2, <2>1
  <2>4. GoodTree(node', next + 2)
    BY <1>1, <2>1, <2>2, <2>3, MakeKeeps
  <2>5. next' \in next .. MaxNodes + 1
    BY <1>1, <2>1 DEF Fits
  <2>6. QED
    BY <1>3, <2>1, <2>4, <2>5, ReturnStep
<1>7. ASSUME RemoveDir(t) PROVE IInv'
  <2>1. /\ Len(parts[t]) = 2 /\ next' = next
        /\ node' = RemoveItems(node, parts[t][1], {NameOf(call[t].path)})
    BY <1>7 DEF RemoveDir
  <2>2. GoodTree(node', next)
    BY <1>1, <1>4, <2>1
  <2>3. GoodTree(node', next') /\ next' \in next .. MaxNodes + 1
    BY <1>1, <2>1, <2>2
  <2>4. QED
    BY <1>3, <2>3, ReturnStep
<1>8. ASSUME RenameSong(t) PROVE IInv'
  <2> DEFINE d       == first[t][1]
             new     == NameOf(call[t].to)
             less    == RemoveItems(node, d, {NameOf(call[t].path)})
             renamed == AddItem(less, d, new, next, FALSE)
  <2>1. /\ call[t].kind = "rename" /\ Len(first[t]) = 2 /\ Fits(3) /\ next' = next + 3
        /\ \/ node' = renamed
           \/ \E similar \in Names \ Songs, song \in Found :
                node' = AddItem(AddItem(renamed, d, similar, next + 1, TRUE),
                                next + 1, song, next + 2, FALSE)
    BY <1>8 DEF RenameSong
  <2>2. d \in Nodes /\ d < next /\ GoodTree(less, next)
    BY <1>1, <1>4, <2>1
  <2>3. new \in Names \cup {None}
    BY <1>2, <2>1
  <2>4. /\ next \in Nodes /\ next + 1 \in Nodes /\ next + 2 \in Nodes
        /\ d < next + 1 /\ next + 1 < next + 2 /\ next + 2 < next + 3 /\ next + 1 < next + 3
        /\ next < next + 3 /\ next <= next + 3 /\ next + 3 \in Nat
    BY <1>1, <2>1, <2>2 DEF Fits, Nodes
  <2> HIDE DEF d, new, less
  <2>5. GoodTree(less, next + 3)
    BY <1>1, <2>2, <2>4, Wider
  <2>6. GoodTree(renamed, next + 3)
    BY <2>2, <2>3, <2>4, <2>5, AddKeeps
  <2> HIDE DEF renamed
  <2>7. ASSUME NEW similar \in Names \ Songs, NEW song \in Found,
               node' = AddItem(AddItem(renamed, d, similar, next + 1, TRUE),
                               next + 1, song, next + 2, FALSE)
        PROVE  GoodTree(node', next + 3)
    <3> DEFINE beside == AddItem(renamed, d, similar, next + 1, TRUE)
    <3>1. similar \in Names \cup {None} /\ song \in Names \cup {None}
      BY TreeAssumption DEF Found
    <3>2. GoodTree(beside, next + 3)
      BY <2>2, <2>4, <2>6, <3>1, AddKeeps
    <3>3. GoodTree(AddItem(beside, next + 1, song, next + 2, FALSE), next + 3)
      <4> HIDE DEF beside
      <4>1. QED
        BY <2>4, <3>1, <3>2, AddKeeps
    <3>4. QED
      BY <2>7, <3>3
  <2>8. GoodTree(node', next + 3)
    BY <2>1, <2>6, <2>7
  <2>9. next' \in next .. MaxNodes + 1
    BY <1>1, <2>1 DEF Fits
  <2>10. QED
    BY <1>3, <2>1, <2>8, <2>9, ReturnStep
<1>9. ASSUME RenameDummy(t) PROVE IInv'
  <2> DEFINE d    == first[t][1]
             less == RemoveItems(node, d, {NameOf(call[t].path)})
  <2>1. /\ call[t].kind = "rename" /\ Len(first[t]) = 2 /\ Fits(2) /\ next' = next + 2
        /\ Make(less, d, NameOf(call[t].to))
    BY <1>9 DEF RenameDummy
  <2>2. d \in Nodes /\ d < next /\ GoodTree(less, next)
    BY <1>1, <1>4, <2>1
  <2>3. NameOf(call[t].to) \in Names
    BY <1>2, <2>1
  <2>4. GoodTree(node', next + 2)
    <3> HIDE DEF d, less
    <3>1. QED
      BY <1>1, <2>1, <2>2, <2>3, MakeKeeps
  <2>5. next' \in next .. MaxNodes + 1
    BY <1>1, <2>1 DEF Fits
  <2>6. QED
    BY <1>3, <2>1, <2>4, <2>5, ReturnStep
<1>10. QED
  BY <1>5, <1>6, <1>7, <1>8, <1>9
-----------------------------------------------------------------------------
(* Initially the nodes of the existing path are below one another.         *)
LEMMA InitInv ==
  ASSUME Init
  PROVE  IInv
<1>1. /\ Len(Existing) \in Nat /\ MaxNodes \in Nat /\ Len(Existing) < MaxNodes
      /\ next = Len(Existing) + 2
  BY TreeAssumption DEF Init
<1>2. ASSUME NEW n \in Nodes
      PROVE  /\ InitialNode(n) \in Node
             /\ \A nm \in Names : InitialNode(n).items[nm] \in {None} \cup (n + 1 .. next - 1)
  <2>1. CASE n > Len(Existing) + 1
    <3>1. InitialNode(n) = [dir |-> FALSE, items |-> NoItems]
      BY <2>1 DEF InitialNode, Unused
    <3>2. QED
      BY <3>1, NewNode DEF Node, NoItems
  <2>2. CASE ~ (n > Len(Existing) + 1)
    <3> DEFINE items == [nm \in Names |-> IF n <= Len(Existing) /\ nm = Existing[n]
                                        THEN n + 1 ELSE None]
               isDir == n = Root \/ Existing[n - 1] \notin Songs
    <3>1. InitialNode(n) = [dir |-> isDir, items |-> items]
      BY <2>2 DEF InitialNode
    <3>2. n <= Len(Existing) => n + 1 \in n + 1 .. next - 1 /\ n + 1 \in Nodes
      BY <1>1 DEF Nodes
    <3>3. items \in [Names -> Nodes \cup {None}]
      BY <3>2
    <3>4. isDir \in BOOLEAN
      OBVIOUS
    <3>5. InitialNode(n) \in Node
      <4> HIDE DEF items, isDir
      <4>1. QED
        BY <3>1, <3>3, <3>4 DEF Node
    <3>6. ASSUME NEW nm \in Names
          PROVE  InitialNode(n).items[nm] \in {None} \cup (n + 1 .. next - 1)
      <4>1. InitialNode(n).items[nm] = items[nm]
        BY <3>1
      <4>2. QED
        BY <3>2, <4>1
    <3>7. QED
      BY <3>5, <3>6
  <2>3. QED
    BY <2>1, <2>2
<1>3. /\ <<>> \in Seq(Nodes) /\ <<>> \in Seq(1 .. next - 1) /\ Len(<<>>) = 0
  BY NoSeq
<1>4. node \in [Nodes -> Node]
  BY <1>2 DEF Init
<1>5. TypeOK
  BY <1>1, <1>3, <1>4, TreeAssumption DEF TypeOK, Init
<1>6. TreeInv
  <2>1. GoodTree(node, next)
    BY <1>2, <1>4 DEF Init, GoodTree
  <2>2. QED
    BY <1>1, <1>3, <2>1 DEF TreeInv, Init
<1>7. ASSUME NEW t \in Threads PROVE WalkOf(t)
  BY DEF Init, WalkOf, Walking
<1>8. ASSUME NEW t \in Threads, NEW n \in Nodes PROVE owner[n] = t <=> n \in Held(t)
  <2>1. Held(t) = {}
    BY DEF Init, Held, Elements
  <2>2. QED
    BY <2>1, TreeAssumption DEF Init
<1>9. QED
  BY <1>5, <1>6, <1>7, <1>8 DEF IInv, WalkInv, LocksAreOfPaths

LEMMA StepInv ==
  ASSUME IInv, [Next]_vars
  PROVE  IInv'
<1>1. ASSUME NEW t \in Threads, NEW c \in Calls, Begin(t, c) PROVE IInv'
  BY <1>1, BeginStep
<1>2. ASSUME NEW t \in Threads, Step(t) PROVE IInv'
  BY <1>2, LockRootStep, DescendStep, EndWalkStep, DieStep, ActStep DEF Step
<1>3. ASSUME UNCHANGED vars PROVE IInv'
  BY <1>3 DEF IInv, TypeOK, TreeInv, GoodTree, WalkInv, WalkOf, Walking, Path, PathSize,
              LocksAreOfPaths, Held, Elements, vars, treeVars, walkVars
<1>4. QED
  BY <1>1, <1>2, <1>3 DEF Next, Stopped

(* The invariant on which the theorems rest.                               *)
THEOREM Invariance == Spec => []IInv
<1>1. Init => IInv
  BY InitInv
<1>2. IInv /\ [Next]_vars => IInv'
  BY StepInv
<1>3. QED
  BY <1>1, <1>2, PTL DEF Spec

(* The state has its type: in particular a walk never keeps more than the  *)
(* two nodes findPath is asked for.                                        *)
THEOREM TreeTypeCorrect == Spec => []TypeOK
<1>1. IInv => TypeOK
  BY DEF IInv
<1>2. QED
  BY <1>1, Invariance, PTL

(* findPath and FsPathUnlocker: a thread has locked exactly the nodes its  *)
(* paths have, in whatever order walks cross and renames overlap.          *)
THEOREM LocksMatchPaths == Spec => []LocksAreOfPaths
<1>1. IInv => LocksAreOfPaths
  BY DEF IInv
<1>2. QED
  BY <1>1, Invariance, PTL
-----------------------------------------------------------------------------
(* Among nodes there is a newest.                                          *)
LEMMA Newest ==
  ASSUME NEW W, W \subseteq Nodes, W # {}
  PROVE  \E n \in W : \A k \in W : k <= n
<1> DEFINE T == {MaxNodes - n : n \in W}
<1>1. MaxNodes \in Nat /\ \A n \in W : n \in Nat /\ MaxNodes - n \in Nat
  BY TreeAssumption DEF Nodes
<1>2. T \subseteq Nat /\ T # {}
  BY <1>1
<1>3. PICK m \in T : \A k \in T : ~ (<<k, m>> \in OpToRel(<, Nat))
  <2> HIDE DEF T
  <2>1. QED
    BY <1>2, WFMin, NatLessThanWellFounded
<1>4. PICK n \in W : m = MaxNodes - n
  OBVIOUS
<1>5. ASSUME NEW k \in W PROVE k <= n
  <2>1. MaxNodes - k \in T /\ MaxNodes - k \in Nat /\ m \in Nat
    BY <1>1, <1>2
  <2>2. ~ (MaxNodes - k < m)
    BY <1>3, <2>1 DEF OpToRel
  <2>3. QED
    BY <1>1, <1>4, <2>2
<1>6. QED
  BY <1>5

(* A thread in its first walk that waits for another in its first walk     *)
(* waits for a node older than the one the other waits for.                *)
LEMMA WaitsGoDown ==
  ASSUME IInv, NEW t \in Threads, NEW u \in Threads, NEW v \in Threads,
         at[u] # "rewalk", WaitsFor(t, u), WaitsFor(u, v)
  PROVE  Wanted(t) \in Nodes /\ Wanted(u) \in Nodes /\ Wanted(t) < Wanted(u)
<1>1. TypeOK /\ TreeInv /\ WalkInv /\ LocksAreOfPaths
  BY DEF IInv
<1>2. /\ Wanted(u) # None /\ Wanted(t) # None /\ owner[Wanted(t)] = u
  BY DEF WaitsFor
<1>3. Walking(u) /\ at[u] = "walk"
  BY <1>2 DEF Wanted, Walking
<1>4. ASSUME NEW r \in Threads, Wanted(r) # None PROVE Wanted(r) \in Nodes
  <2>1. Walking(r) /\ walked[r] \in Nat /\ next \in Nat
    BY <1>1, <1>4, ThreadFacts DEF Wanted
  <2>2. Len(Path(r)) \in Nat
    BY <1>1, <2>1, PathFacts
  <2>3. CASE walked[r] = 0
    BY <2>1, <2>3, TreeAssumption DEF Wanted, Root, Nodes
  <2>4. CASE walked[r] # 0
    <3>1. walked[r] \in 1 .. Len(Path(r)) /\ Wanted(r) = Child(r)
      BY <1>4, <2>1, <2>2, <2>4 DEF Wanted
    <3>2. Child(r) \in 1 .. next - 1
      BY <1>1, <1>4, <2>1, <3>1, ChildFacts
    <3>3. QED
      BY <1>1, <3>1, <3>2, ThreadFacts
  <2>5. QED
    BY <2>3, <2>4
<1>5. Wanted(t) \in Held(u) /\ Wanted(t) \in Nodes
  BY <1>1, <1>2, <1>4 DEF LocksAreOfPaths
<1>6. Wanted(t) \in Elements(parts[u])
  <2>1. WalkOf(u)
    BY <1>1 DEF WalkInv
  <2>2. first[u] = <<>>
    BY <1>3, <2>1 DEF WalkOf
  <2>3. QED
    BY <1>5, <2>2, NoSeq DEF Held
<1>7. walked[u] \in Nat /\ Len(Path(u)) \in Nat
  BY <1>1, <1>3, ThreadFacts, PathFacts
<1>8. walked[u] # 0
  <2>1. WalkOf(u)
    BY <1>1 DEF WalkInv
  <2>2. walked[u] = 0 => parts[u] = <<>>
    BY <1>3, <2>1 DEF WalkOf
  <2>3. QED
    BY <1>6, <2>2, NoSeq
<1>9. walked[u] \in 1 .. Len(Path(u)) /\ Wanted(u) = Child(u)
  BY <1>2, <1>3, <1>7, <1>8 DEF Wanted
<1>10. /\ Len(parts[u]) = 1 /\ Here(u) = parts[u][1]
       /\ Child(u) \in {None} \cup (Here(u) + 1 .. next - 1)
       /\ parts[u] \in Seq(Nodes)
  BY <1>1, <1>3, <1>9, ChildFacts, ThreadFacts
<1>11. Wanted(t) = Here(u)
  <2>1. Elements(parts[u]) = {parts[u][1]}
    BY <1>10, OfLengthOne
  <2>2. QED
    BY <1>6, <1>10, <2>1
<1>12. Wanted(u) \in Nodes
  BY <1>2, <1>4
<1>13. Wanted(t) < Wanted(u)
  BY <1>2, <1>5, <1>9, <1>10, <1>11 DEF Nodes
<1>14. QED
  BY <1>5, <1>12, <1>13

(* Without a rename in its second walk threads never wait for one another  *)
(* in a circle: on a circle the node waited for would be newer at each     *)
(* thread than at the one before.                                          *)
THEOREM DeadlocksNeedRename == Spec => []CyclesNeedRename
<1>1. IInv => CyclesNeedRename
  <2> SUFFICES ASSUME IInv, NEW S \in SUBSET Threads, Cycle(S),
                      \A t \in S : at[t] # "rewalk"
               PROVE  FALSE
    BY DEF CyclesNeedRename
  <2> DEFINE W == {Wanted(t) : t \in S}
  <2>1. ASSUME NEW t \in S
        PROVE  \E u \in S : /\ Wanted(t) \in Nodes /\ Wanted(u) \in Nodes
                            /\ Wanted(t) < Wanted(u)
    <3>1. PICK u \in S : WaitsFor(t, u)
      BY DEF Cycle
    <3>2. PICK v \in S : WaitsFor(u, v)
      BY DEF Cycle
    <3>3. QED
      BY <3>1, <3>2, WaitsGoDown
  <2>2. W \subseteq Nodes /\ W # {}
    BY <2>1 DEF Cycle
  <2>3. PICK n \in W : \A k \in W : k <= n
    <3> HIDE DEF W
    <3>1. QED
      BY <2>2, Newest
  <2>4. PICK t \in S : n = Wanted(t)
    OBVIOUS
  <2>5. PICK u \in S : Wanted(t) < Wanted(u) /\ Wanted(t) \in Nodes /\ Wanted(u) \in Nodes
    BY <2>1
  <2>6. Wanted(u) <= Wanted(t)
    BY <2>3, <2>4
  <2>7. QED
    BY <2>5, <2>6 DEF Nodes
<1>2. QED
  BY <1>1, Invariance, PTL
-----------------------------------------------------------------------------
(* Where the beginnings of a path lead.                                    *)

LEMMA LeastNat ==
  ASSUME NEW T, T \subseteq Nat, T # {}
  PROVE  \E n \in T : \A k \in T : n <= k
<1>1. PICK n \in T : \A k \in T : ~ (<<k, n>> \in OpToRel(<, Nat))
  BY WFMin, NatLessThanWellFounded
<1>2. ASSUME NEW k \in T PROVE n <= k
  <2>1. k \in Nat /\ n \in Nat
    OBVIOUS
  <2>2. ~ (k < n)
    BY <1>1, <2>1 DEF OpToRel
  <2>3. QED
    BY <2>1, <2>2
<1>3. QED
  BY <1>2

(* f says of the first k parts of a path where they lead.                  *)
Leads(f, tree, path, k) ==
  f = [i \in 0 .. k |->
         IF i = 0 THEN Root
         ELSE IF f[i - 1] = None THEN None
         ELSE tree[f[i - 1]].items[path[i]]]

(* The same, part by part. *)
LeadsOn(f, tree, path, k) ==
  /\ f[0] = Root
  /\ \A i \in 1 .. k : f[i] = IF f[i - 1] = None THEN None
                              ELSE tree[f[i - 1]].items[path[i]]

LEMMA LeadsValues ==
  ASSUME NEW f, NEW tree, NEW path, NEW k \in Nat, Leads(f, tree, path, k)
  PROVE  LeadsOn(f, tree, path, k)
<1>1. f[0] = Root
  BY DEF Leads
<1>2. ASSUME NEW i \in 1 .. k
      PROVE  f[i] = IF f[i - 1] = None THEN None ELSE tree[f[i - 1]].items[path[i]]
  <2>1. i \in 0 .. k /\ i # 0
    OBVIOUS
  <2>2. QED
    BY <2>1, Zenon DEF Leads
<1>3. QED
  BY <1>1, <1>2, Zenon DEF LeadsOn

LEMMA LeadsLonger ==
  ASSUME NEW f, NEW tree, NEW path, NEW k \in Nat, Leads(f, tree, path, k)
  PROVE  \E g : Leads(g, tree, path, k + 1)
<1> DEFINE Onward(i) == IF f[i - 1] = None THEN None ELSE tree[f[i - 1]].items[path[i]]
           g == [i \in 0 .. k + 1 |-> IF i = 0 THEN Root ELSE Onward(i)]
<1>1. \A i \in 0 .. k : g[i] = f[i]
  <2>1. ASSUME NEW i \in 0 .. k PROVE g[i] = f[i]
    <3>1. i \in 0 .. k + 1 /\ (i = 0 \/ i \in 1 .. k)
      OBVIOUS
    <3>2. g[i] = IF i = 0 THEN Root ELSE Onward(i)
      BY <3>1, Zenon
    <3>3. /\ f[0] = Root
          /\ \A j \in 1 .. k : f[j] = Onward(j)
      <4>1. LeadsOn(f, tree, path, k)
        BY LeadsValues
      <4>2. QED
        BY <4>1, Zenon DEF LeadsOn
    <3>4. QED
      BY <3>1, <3>2, <3>3, Zenon
  <2>2. QED
    BY <2>1
<1>2. ASSUME NEW i \in 0 .. k + 1
      PROVE  g[i] = IF i = 0 THEN Root
                    ELSE IF g[i - 1] = None THEN None ELSE tree[g[i - 1]].items[path[i]]
  <2>1. g[i] = IF i = 0 THEN Root ELSE Onward(i)
    BY Zenon
  <2>2. i # 0 => i - 1 \in 0 .. k
    OBVIOUS
  <2> HIDE DEF g
  <2>3. i # 0 => g[i - 1] = f[i - 1]
    BY <1>1, <2>2, Zenon
  <2>4. QED
    BY <2>1, <2>3, Zenon
<1>3. Leads(g, tree, path, k + 1)
  <2> DEFINE h == [i \in 0 .. k + 1 |->
                     IF i = 0 THEN Root
                     ELSE IF g[i - 1] = None THEN None ELSE tree[g[i - 1]].items[path[i]]]
  <2>1. g = [i \in 0 .. k + 1 |-> g[i]]
    BY Zenon
  <2> HIDE DEF g
  <2>2. [i \in 0 .. k + 1 |-> g[i]] = h
    BY <1>2, Zenon
  <2>3. QED
    BY <2>1, <2>2, Zenon DEF Leads
<1>4. QED
  BY <1>3, Zenon

LEMMA ReachedLeads ==
  ASSUME NEW tree, NEW path, Len(path) \in Nat
  PROVE  Leads(Reached(tree, path), tree, path, Len(path))
<1> DEFINE T == {k \in Nat : ~ \E f : Leads(f, tree, path, k)}
<1>1. \E f : Leads(f, tree, path, 0)
  <2> DEFINE f == [i \in 0 .. 0 |-> Root]
  <2>1. f = [i \in 0 .. 0 |-> IF i = 0 THEN Root
                              ELSE IF f[i - 1] = None THEN None
                              ELSE tree[f[i - 1]].items[path[i]]]
    OBVIOUS
  <2> HIDE DEF f
  <2>2. Leads(f, tree, path, 0)
    BY <2>1, Zenon DEF Leads
  <2>3. QED
    BY <2>2, Zenon
<1>2. T = {}
  <2> SUFFICES ASSUME T # {} PROVE FALSE
    OBVIOUS
  <2>1. T \subseteq Nat
    OBVIOUS
  <2>2. PICK k \in T : \A j \in T : k <= j
    <3> HIDE DEF T
    <3>1. QED
      BY <2>1, LeastNat
  <2>3. k \in Nat /\ k # 0 /\ k - 1 \in Nat /\ k - 1 \notin T
    BY <1>1, <2>2
  <2>4. PICK f : Leads(f, tree, path, k - 1)
    BY <2>3
  <2>5. \E g : Leads(g, tree, path, (k - 1) + 1)
    BY <2>3, <2>4, LeadsLonger, Zenon
  <2>6. (k - 1) + 1 = k
    BY <2>3
  <2>7. QED
    BY <2>2, <2>5, <2>6
<1>3. \E f : Leads(f, tree, path, Len(path))
  BY <1>2
<1> DEFINE r == CHOOSE f : f = [i \in 0 .. Len(path) |->
                                  IF i = 0 THEN Root
                                  ELSE IF f[i - 1] = None THEN None
                                  ELSE tree[f[i - 1]].items[path[i]]]
<1>4. r = [i \in 0 .. Len(path) |->
             IF i = 0 THEN Root
             ELSE IF r[i - 1] = None THEN None
             ELSE tree[r[i - 1]].items[path[i]]]
  <2>1. \E f : f = [i \in 0 .. Len(path) |->
                                  IF i = 0 THEN Root
                                  ELSE IF f[i - 1] = None THEN None
                                  ELSE tree[f[i - 1]].items[path[i]]]
    BY <1>3, Zenon DEF Leads
  <2>2. QED
    BY <2>1, Zenon
<1>5. Reached(tree, path) = r
  BY Zenon DEF Reached
<1> HIDE DEF r
<1>6. QED
  BY <1>4, <1>5, Zenon DEF Leads

(* In a tree of nodes older than m a path leads to such nodes, or to none; *)
(* and what leads to nothing does not go on.                               *)
LEMMA ReachedFacts ==
  ASSUME NEW tree, NEW m \in Nat, 2 <= m, GoodTree(tree, m), NEW path \in Seq(Names)
  PROVE  LET r == Reached(tree, path)
         IN  /\ r[0] = Root
             /\ \A i \in 1 .. Len(path) :
                  r[i] = IF r[i - 1] = None THEN None ELSE tree[r[i - 1]].items[path[i]]
             /\ \A i \in 0 .. Len(path) : r[i] = None \/ (r[i] \in Nodes /\ r[i] \in 1 .. m - 1)
             /\ \A i \in 0 .. Len(path) : \A j \in i .. Len(path) : r[i] = None => r[j] = None
<1> DEFINE r == Reached(tree, path)
           L == Len(path)
<1>1. L \in Nat /\ \A i \in 1 .. L : path[i] \in Names
  OBVIOUS
<1>2. /\ r[0] = Root
      /\ \A i \in 1 .. L : r[i] = IF r[i - 1] = None THEN None
                                  ELSE tree[r[i - 1]].items[path[i]]
  <2>1. Leads(r, tree, path, L)
    BY <1>1, ReachedLeads
  <2> HIDE DEF r, L
  <2>2. QED
    <3>1. LeadsOn(r, tree, path, L)
      BY <1>1, <2>1, LeadsValues
    <3>2. QED
      BY <3>1, Zenon DEF LeadsOn
<1> HIDE DEF r, L
<1>3. ASSUME NEW i \in 1 .. L, r[i - 1] = None \/ r[i - 1] \in Nodes
      PROVE  r[i] = None \/ (r[i] \in Nodes /\ r[i] \in 1 .. m - 1)
  <2>1. CASE r[i - 1] = None
    BY <1>2, <2>1
  <2>2. CASE r[i - 1] # None
    <3>1. r[i - 1] \in Nodes /\ path[i] \in Names /\ r[i] = tree[r[i - 1]].items[path[i]]
      BY <1>1, <1>2, <1>3, <2>2
    <3>2. tree[r[i - 1]] \in Node
      BY <3>1 DEF GoodTree
    <3>3. r[i] \in Nodes \cup {None}
      BY <3>1, <3>2 DEF Node
    <3>4. r[i] \in {None} \cup (r[i - 1] + 1 .. m - 1)
      BY <3>1 DEF GoodTree
    <3>5. QED
      BY <3>1, <3>3, <3>4 DEF Nodes
  <2>3. QED
    BY <2>1, <2>2
<1>4. r[0] \in Nodes /\ r[0] \in 1 .. m - 1
  BY <1>2, TreeAssumption DEF Root, Nodes
<1>5. ASSUME NEW i \in 0 .. L
      PROVE  r[i] = None \/ (r[i] \in Nodes /\ r[i] \in 1 .. m - 1)
  <2> DEFINE Bad == {k \in 0 .. L : ~ (r[k] = None \/ (r[k] \in Nodes /\ r[k] \in 1 .. m - 1))}
  <2> SUFFICES ASSUME Bad # {} PROVE FALSE
    OBVIOUS
  <2>1. Bad \subseteq Nat
    BY <1>1
  <2>2. PICK k \in Bad : \A j \in Bad : k <= j
    <3> HIDE DEF Bad
    <3>1. QED
      BY <2>1, LeastNat
  <2>3. k \in 1 .. L /\ k - 1 \in 0 .. L
    BY <1>1, <1>4, <2>2
  <2>4. k - 1 \notin Bad
    <3> HIDE DEF Bad
    <3>1. QED
      BY <2>2, <2>3
  <2>5. r[k - 1] = None \/ r[k - 1] \in Nodes
    BY <2>3, <2>4
  <2>6. QED
    BY <1>3, <2>2, <2>3, <2>5
<1>6. ASSUME NEW i \in 0 .. L, NEW j \in i .. L, r[i] = None
      PROVE  r[j] = None
  <2> DEFINE Bad == {k \in i .. L : r[k] # None}
  <2> SUFFICES ASSUME Bad # {} PROVE FALSE
    OBVIOUS
  <2>1. Bad \subseteq Nat
    BY <1>1
  <2>2. PICK k \in Bad : \A n \in Bad : k <= n
    <3> HIDE DEF Bad
    <3>1. QED
      BY <2>1, LeastNat
  <2>3. k \in 1 .. L /\ k - 1 \in i .. L
    BY <1>1, <1>6, <2>2
  <2>4. k - 1 \notin Bad
    <3> HIDE DEF Bad
    <3>1. QED
      BY <2>2, <2>3
  <2>5. r[k - 1] = None
    BY <2>3, <2>4
  <2>6. QED
    BY <1>2, <2>2, <2>3, <2>5
<1>7. QED
  BY <1>2, <1>5, <1>6 DEF r, L
-----------------------------------------------------------------------------
(* What a call changes in the tree.                                        *)

LEMMA RemovedItems ==
  ASSUME NEW tree, NEW m \in Nat, GoodTree(tree, m), NEW d \in Nodes, NEW gone
  PROVE  \A n \in Nodes, x \in Names :
           RemoveItems(tree, d, gone)[n].items[x]
             = IF n = d /\ x \in gone THEN None ELSE tree[n].items[x]
<1> DEFINE items == [nm \in Names |-> IF nm \in gone THEN None ELSE tree[d].items[nm]]
           at_d  == [tree[d] EXCEPT !.items = items]
<1>1. tree \in [Nodes -> Node] /\ tree[d] \in Node
  BY DEF GoodTree
<1>2. RemoveItems(tree, d, gone) = [k \in Nodes |-> IF k = d THEN at_d ELSE tree[k]]
  BY <1>1 DEF RemoveItems
<1>3. at_d.items = items
  BY <1>1 DEF Node
<1>4. QED
  BY <1>2, <1>3

(* An item n is new in d, and empty. *)
Added(tree, more, d, nm, n) ==
  /\ nm \in Names /\ tree[d].items[nm] = None
  /\ \A k \in Nodes, x \in Names :
       more[k].items[x] = IF k = n THEN None ELSE IF k = d /\ x = nm THEN n ELSE tree[k].items[x]

LEMMA AddedItem ==
  ASSUME NEW tree, NEW m \in Nat, GoodTree(tree, m),
         NEW d \in Nodes, NEW n \in Nodes, d # n, NEW nm \in Names \cup {None},
         NEW isDir \in BOOLEAN
  PROVE  \/ AddItem(tree, d, nm, n, isDir) = tree
         \/ Added(tree, AddItem(tree, d, nm, n, isDir), d, nm, n)
<1>1. CASE nm = None \/ tree[d].items[nm] # None
  BY <1>1 DEF AddItem
<1>2. CASE ~ (nm = None \/ tree[d].items[nm] # None)
  <2> DEFINE items == [tree[d].items EXCEPT ![nm] = n]
             at_d  == [tree[d] EXCEPT !.items = items]
             made  == [dir |-> isDir, items |-> NoItems]
             new   == [k \in Nodes |-> IF k = n THEN made ELSE IF k = d THEN at_d ELSE tree[k]]
  <2>1. tree \in [Nodes -> Node] /\ tree[d] \in Node /\ nm \in Names
    BY <1>2 DEF GoodTree
  <2>2. tree[d].items \in [Names -> Nodes \cup {None}]
    BY <2>1 DEF Node
  <2>3. AddItem(tree, d, nm, n, isDir) = new
    BY <1>2, <2>1 DEF AddItem
  <2>4. at_d.items = items /\ made.items = NoItems
    BY <2>1 DEF Node
  <2>5. ASSUME NEW k \in Nodes, NEW x \in Names
        PROVE  new[k].items[x]
                 = IF k = n THEN None ELSE IF k = d /\ x = nm THEN n ELSE tree[k].items[x]
    <3>1. CASE k = n
      BY <2>4, <3>1 DEF NoItems
    <3>2. CASE k # n /\ k = d
      BY <2>2, <2>4, <3>2
    <3>3. CASE k # n /\ k # d
      BY <3>3
    <3>4. QED
      BY <3>1, <3>2, <3>3
  <2>6. QED
    BY <1>2, <2>1, <2>3, <2>5 DEF Added
<1>3. QED
  BY <1>1, <1>2

Bare(tree, n) == \A nm \in Names : tree[n].items[nm] = None

(* A directory of songs at most. *)
Shallow(tree, n) ==
  \A nm \in Names : \/ tree[n].items[nm] = None
                    \/ tree[n].items[nm] \in Nodes /\ Bare(tree, tree[n].items[nm])

(* What a call may have made of an item: nothing, or something new that is *)
(* empty, or holds songs if it took the place of what the call has locked. *)
Replaced(tree, old, new, held) ==
  \/ new = None
  \/ /\ new \in Nodes /\ new >= next
     /\ Bare(tree, new) \/ (old \in {None} \cup held /\ Shallow(tree, new))

(* A tree that a call makes of the present one: older nodes keep their     *)
(* items, except for the directory the call works in.                      *)
Changed(tree, d, held) ==
  \A n \in 1 .. next - 1, x \in Names :
    \/ tree[n].items[x] = node[n].items[x]
    \/ n = d /\ Replaced(tree, node[n].items[x], tree[n].items[x], held)

LEMMA ChangedByRemoval ==
  ASSUME NEW tree, NEW m \in Nat, GoodTree(tree, m), next \in Nat, next - 1 <= MaxNodes,
         NEW d \in Nodes, d < next, NEW held, NEW gone, Changed(tree, d, held)
  PROVE  Changed(RemoveItems(tree, d, gone), d, held)
<1> DEFINE less == RemoveItems(tree, d, gone)
<1>1. \A n \in Nodes, x \in Names :
        less[n].items[x] = IF n = d /\ x \in gone THEN None ELSE tree[n].items[x]
  BY RemovedItems
<1> HIDE DEF less
<1>2. ASSUME NEW n \in Nodes, Bare(tree, n) PROVE Bare(less, n)
  BY <1>1, <1>2 DEF Bare
<1>3. ASSUME NEW n \in Nodes, Shallow(tree, n) PROVE Shallow(less, n)
  <2> SUFFICES ASSUME NEW x \in Names, less[n].items[x] # None
               PROVE  less[n].items[x] \in Nodes /\ Bare(less, less[n].items[x])
    BY DEF Shallow
  <2>1. less[n].items[x] = tree[n].items[x]
    BY <1>1
  <2>2. tree[n].items[x] \in Nodes /\ Bare(tree, tree[n].items[x])
    BY <1>3, <2>1 DEF Shallow
  <2>3. QED
    BY <1>2, <2>1, <2>2
<1>4. ASSUME NEW n \in 1 .. next - 1, NEW x \in Names
      PROVE  \/ less[n].items[x] = node[n].items[x]
             \/ n = d /\ Replaced(less, node[n].items[x], less[n].items[x], held)
  <2>1. n \in Nodes
    BY TreeAssumption DEF Nodes
  <2>2. CASE n = d /\ x \in gone
    BY <1>1, <2>1, <2>2 DEF Replaced
  <2>3. CASE ~ (n = d /\ x \in gone)
    <3>1. less[n].items[x] = tree[n].items[x]
      BY <1>1, <2>1, <2>3
    <3>2. \/ tree[n].items[x] = node[n].items[x]
          \/ n = d /\ Replaced(tree, node[n].items[x], tree[n].items[x], held)
      BY DEF Changed
    <3>3. Replaced(tree, node[n].items[x], tree[n].items[x], held)
            => Replaced(less, node[n].items[x], tree[n].items[x], held)
      BY <1>2, <1>3 DEF Replaced
    <3>4. QED
      BY <3>1, <3>2, <3>3
  <2>4. QED
    BY <2>2, <2>3
<1>5. QED
  BY <1>4 DEF Changed, less

(* Nodes that no item leads to yet do not show.                            *)
LEMMA ShallowKept ==
  ASSUME NEW tree, NEW more, NEW b \in Nat, NEW d \in Nodes, d < b, GoodTree(tree, b),
         \A k \in Nodes, x \in Names : k < b /\ k # d => more[k].items[x] = tree[k].items[x],
         NEW n \in Nodes, n > d, n < b
  PROVE  /\ Bare(tree, n) => Bare(more, n)
         /\ Shallow(tree, n) => Shallow(more, n)
<1>1. ASSUME NEW k \in Nodes, k < b, k > d, Bare(tree, k) PROVE Bare(more, k)
  BY <1>1 DEF Bare, Nodes
<1>2. ASSUME Shallow(tree, n) PROVE Shallow(more, n)
  <2> SUFFICES ASSUME NEW x \in Names, more[n].items[x] # None
               PROVE  more[n].items[x] \in Nodes /\ Bare(more, more[n].items[x])
    BY DEF Shallow
  <2>1. more[n].items[x] = tree[n].items[x]
    BY DEF Nodes
  <2>2. tree[n].items[x] \in Nodes /\ Bare(tree, tree[n].items[x])
    BY <1>2, <2>1 DEF Shallow
  <2>3. tree[n].items[x] < b /\ tree[n].items[x] > d
    <3>1. tree[n].items[x] \in {None} \cup (n + 1 .. b - 1)
      BY DEF GoodTree
    <3>2. QED
      BY <2>1, <3>1 DEF Nodes
  <2>4. QED
    BY <1>1, <2>1, <2>2, <2>3
<1>3. QED
  BY <1>1, <1>2

LEMMA ChangedByAdding ==
  ASSUME NEW tree, next \in Nat, next - 1 <= MaxNodes, NEW d \in Nodes, d < next,
         NEW held, Changed(tree, d, held),
         NEW b \in Nodes, next <= b, GoodTree(tree, b),
         NEW nm \in Names \cup {None}, NEW isDir \in BOOLEAN
  PROVE  Changed(AddItem(tree, d, nm, b, isDir), d, held)
<1> DEFINE more == AddItem(tree, d, nm, b, isDir)
<1>1. b \in Nat /\ d \in Nat /\ d < b /\ d # b
  BY DEF Nodes
<1>2. CASE more = tree
  BY <1>2
<1>3. CASE Added(tree, more, d, nm, b)
  <2> HIDE DEF more
  <2>1. \A k \in Nodes, x \in Names : k < b /\ k # d => more[k].items[x] = tree[k].items[x]
    BY <1>1, <1>3 DEF Added, Nodes
  <2>2. Bare(more, b)
    <3>1. ASSUME NEW x \in Names PROVE more[b].items[x] = None
      BY <1>3, Zenon DEF Added
    <3>2. QED
      BY <3>1 DEF Bare
  <2>3. ASSUME NEW n \in 1 .. next - 1, NEW x \in Names
        PROVE  \/ more[n].items[x] = node[n].items[x]
               \/ n = d /\ Replaced(more, node[n].items[x], more[n].items[x], held)
    <3>1. n \in Nodes /\ n < b
      BY <1>1, TreeAssumption DEF Nodes
    <3>2. CASE n = d /\ x = nm
      BY <1>3, <2>2, <3>1, <3>2 DEF Replaced, Added
    <3>3. CASE ~ (n = d /\ x = nm)
      <4> DEFINE new == tree[n].items[x]
      <4>1. more[n].items[x] = new
        BY <1>3, <3>1, <3>3 DEF Added
      <4>2. \/ new = node[n].items[x]
            \/ n = d /\ Replaced(tree, node[n].items[x], new, held)
        BY DEF Changed
      <4>3. new \in {None} \cup (n + 1 .. b - 1)
        BY <3>1 DEF GoodTree
      <4> HIDE DEF new
      <4>4. ASSUME Replaced(tree, node[n].items[x], new, held), new # None
            PROVE  Replaced(more, node[n].items[x], new, held)
        <5>1. new \in Nodes /\ new >= next /\ new > d /\ new < b
          BY <1>1, <4>3, <4>4 DEF Replaced, Nodes
        <5>2. /\ Bare(tree, new) => Bare(more, new)
              /\ Shallow(tree, new) => Shallow(more, new)
          BY <1>1, <2>1, <5>1, ShallowKept
        <5>3. QED
          BY <4>4, <5>2 DEF Replaced
      <4>5. QED
        BY <4>1, <4>2, <4>4 DEF Replaced
    <3>4. QED
      BY <3>2, <3>3
  <2>4. QED
    BY <2>3 DEF Changed, more
<1>4. QED
  <2>1. more = tree \/ Added(tree, more, d, nm, b)
    BY <1>1, AddedItem
  <2>2. QED
    BY <1>2, <1>3, <2>1

(* A new directory and a song in it.                                       *)
LEMMA ChangedBySearch ==
  ASSUME NEW tree, next \in Nat, next - 1 <= MaxNodes, NEW d \in Nodes, d < next,
         NEW held, Changed(tree, d, held),
         NEW b \in Nodes, next <= b, b + 1 \in Nodes, GoodTree(tree, b),
         NEW nm \in Names, NEW song \in Names \cup {None},
         tree[d].items[nm] = None => node[d].items[nm] \in {None} \cup held
  PROVE  Changed(AddItem(AddItem(tree, d, nm, b, TRUE), b, song, b + 1, FALSE), d, held)
<1> DEFINE made == AddItem(tree, d, nm, b, TRUE)
           more == AddItem(made, b, song, b + 1, FALSE)
<1>1. b \in Nat /\ b + 1 \in Nat /\ d \in Nat /\ d < b /\ d # b /\ b < b + 1 /\ b # b + 1
  BY DEF Nodes
<1> nm \in Names \cup {None}
  OBVIOUS
<1>2. made = tree \/ Added(tree, made, d, nm, b)
  BY <1>1, AddedItem
<1>3. GoodTree(made, b + 1)
  <2>1. GoodTree(tree, b + 1)
    BY <1>1, Wider
  <2>2. QED
    BY <1>1, <2>1, AddKeeps
<1> HIDE DEF made
<1>4. more = made \/ Added(made, more, b, song, b + 1)
  BY <1>1, <1>3, AddedItem
<1> HIDE DEF more
<1>5. \A k \in Nodes, x \in Names : k < b => more[k].items[x] = made[k].items[x]
  BY <1>1, <1>4 DEF Added
<1>6. \A k \in Nodes, x \in Names : k < b /\ k # d => more[k].items[x] = tree[k].items[x]
  BY <1>1, <1>2, <1>5 DEF Added
<1>7. ASSUME NEW n \in 1 .. next - 1, NEW x \in Names
      PROVE  \/ more[n].items[x] = node[n].items[x]
             \/ n = d /\ Replaced(more, node[n].items[x], more[n].items[x], held)
  <2>1. n \in Nodes /\ n < b
    BY <1>1, TreeAssumption DEF Nodes
  <2>2. more[n].items[x] = made[n].items[x]
    BY <1>5, <2>1
  <2>3. CASE made[n].items[x] = tree[n].items[x]
    <3> DEFINE new == tree[n].items[x]
    <3>1. \/ new = node[n].items[x]
          \/ n = d /\ Replaced(tree, node[n].items[x], new, held)
      BY DEF Changed
    <3>2. new \in {None} \cup (n + 1 .. b - 1)
      BY <2>1 DEF GoodTree
    <3>3. more[n].items[x] = new
      BY <2>2, <2>3
    <3> HIDE DEF new
    <3>4. ASSUME Replaced(tree, node[n].items[x], new, held), new # None
          PROVE  Replaced(more, node[n].items[x], new, held)
      <4>1. new \in Nodes /\ new >= next /\ new > d /\ new < b
        BY <1>1, <3>2, <3>4 DEF Replaced, Nodes
      <4>2. /\ Bare(tree, new) => Bare(more, new)
            /\ Shallow(tree, new) => Shallow(more, new)
        BY <1>1, <1>6, <4>1, ShallowKept
      <4>3. QED
        BY <3>4, <4>2 DEF Replaced
    <3>5. QED
      BY <3>1, <3>3, <3>4 DEF Replaced
  <2>4. CASE made[n].items[x] # tree[n].items[x]
    <3>1. /\ tree[d].items[nm] = None /\ n = d /\ x = nm /\ made[n].items[x] = b
          /\ \A y \in Names : made[b].items[y] = None
      BY <1>1, <1>2, <2>1, <2>4 DEF Added
    <3>2. node[n].items[x] \in {None} \cup held
      BY <3>1
    <3>3. Shallow(more, b)
      <4> SUFFICES ASSUME NEW y \in Names, more[b].items[y] # None
                   PROVE  more[b].items[y] \in Nodes /\ Bare(more, more[b].items[y])
        BY DEF Shallow
      <4>1. /\ more[b].items[y] = b + 1
            /\ \A k \in Nodes, z \in Names : k = b + 1 => more[k].items[z] = None
        BY <1>1, <1>4, <3>1 DEF Added
      <4>2. QED
        BY <4>1 DEF Bare
    <3>4. QED
      BY <1>1, <2>2, <3>1, <3>2, <3>3 DEF Replaced
  <2>5. QED
    BY <2>3, <2>4
<1>8. QED
  BY <1>7 DEF Changed, more, made
-----------------------------------------------------------------------------
(* The way a walk has come, after a call of another thread.                *)
LEMMA CutOrKept ==
  ASSUME next \in Nat, 2 <= next, next - 1 <= MaxNodes, GoodTree(node, next),
         NEW tree, NEW m \in Nat, next <= m, GoodTree(tree, m),
         NEW d, NEW held, Changed(tree, d, held),
         NEW goal \in Seq(Names), NEW w \in 1 .. Len(goal),
         Reached(node, goal)[w - 1] \notin held \cup {None}
  PROVE  \/ Reached(tree, goal)[w - 1] = Reached(node, goal)[w - 1]
         \/ Lookup(tree, goal) = None
<1> DEFINE old == Reached(node, goal)
           new == Reached(tree, goal)
           L   == Len(goal)
<1>1. L \in Nat /\ w \in Nat /\ w \in 1 .. L /\ w - 1 \in 0 .. L /\ 2 <= m /\ \A i \in 1 .. L : goal[i] \in Names
  OBVIOUS
<1>2. /\ old[0] = Root
      /\ \A i \in 1 .. L : old[i] = IF old[i - 1] = None THEN None
                                    ELSE node[old[i - 1]].items[goal[i]]
      /\ \A i \in 0 .. L : old[i] = None \/ (old[i] \in Nodes /\ old[i] \in 1 .. next - 1)
      /\ \A i \in 0 .. L : \A j \in i .. L : old[i] = None => old[j] = None
  BY ReachedFacts
<1>3. /\ new[0] = Root
      /\ \A i \in 1 .. L : new[i] = IF new[i - 1] = None THEN None
                                    ELSE tree[new[i - 1]].items[goal[i]]
      /\ \A i \in 0 .. L : new[i] = None \/ (new[i] \in Nodes /\ new[i] \in 1 .. m - 1)
      /\ \A i \in 0 .. L : \A j \in i .. L : new[i] = None => new[j] = None
  BY <1>1, ReachedFacts
<1>4. Lookup(tree, goal) = new[L]
  BY DEF Lookup
<1>5. old[w - 1] \notin held \cup {None}
  OBVIOUS
<1> HIDE DEF old, new, L
<1>6. SUFFICES ASSUME new[w - 1] # old[w - 1]
               PROVE  new[L] = None
  BY <1>4 DEF old, new
<1> DEFINE Differ == {i \in 0 .. w - 1 : new[i] # old[i]}
<1>7. PICK j \in Differ : \A i \in Differ : j <= i
  <2>1. Differ \subseteq Nat /\ Differ # {}
    BY <1>1, <1>6
  <2> HIDE DEF Differ
  <2>2. QED
    BY <2>1, LeastNat
<1>8. /\ j \in 1 .. w - 1 /\ j \in 1 .. L /\ j - 1 \in 0 .. w - 1 /\ j - 1 \in 0 .. L
      /\ new[j - 1] = old[j - 1] /\ new[j] # old[j] /\ j + 1 \in 1 .. L
  <2>1. j \in 0 .. w - 1 /\ new[j] # old[j] /\ j # 0
    BY <1>2, <1>3
  <2>2. j - 1 \in 0 .. w - 1 /\ j - 1 \notin Differ
    <3>1. j - 1 \in 0 .. w - 1 /\ ~ (j <= j - 1)
      BY <1>1, <2>1
    <3> HIDE DEF Differ
    <3>2. QED
      BY <1>7, <3>1
  <2>3. QED
    BY <1>1, <2>1, <2>2
<1>9. old[j] # None /\ old[j - 1] # None
  <2>1. w - 1 \in j .. L /\ w - 1 \in j - 1 .. L /\ j \in 0 .. L
    BY <1>1, <1>8
  <2>2. QED
    BY <1>2, <1>5, <1>8, <2>1
<1> DEFINE p == old[j - 1]
<1>10. /\ p \in 1 .. next - 1 /\ goal[j] \in Names
       /\ old[j] = node[p].items[goal[j]] /\ new[j] = tree[p].items[goal[j]]
  BY <1>1, <1>2, <1>3, <1>8, <1>9
<1> HIDE DEF p, Differ
<1>11. Replaced(tree, old[j], new[j], held)
  BY <1>8, <1>10 DEF Changed
<1>12. ASSUME NEW i \in 1 .. L, new[i] = None PROVE new[L] = None
  <2>1. i \in 0 .. L /\ L \in i .. L
    BY <1>1
  <2>2. QED
    BY <1>3, <1>12, <2>1, Zenon
<1>13. ASSUME NEW i \in 1 .. L, i + 1 \in 1 .. L, new[i] \in Nodes, Bare(tree, new[i])
       PROVE  new[L] = None
  <2>1. new[i + 1] = IF new[i] = None THEN None ELSE tree[new[i]].items[goal[i + 1]]
    <3>1. (i + 1) - 1 = i
      BY <1>1
    <3>2. QED
      BY <1>3, <1>13, <3>1
  <2>2. new[i + 1] = None
    BY <1>1, <1>13, <2>1 DEF Bare
  <2>3. QED
    BY <1>12, <1>13, <2>2
<1>14. CASE new[j] = None
  BY <1>8, <1>12, <1>14
<1>15. CASE new[j] \in Nodes /\ Bare(tree, new[j])
  BY <1>8, <1>13, <1>15
<1>16. CASE new[j] \in Nodes /\ new[j] # None /\ old[j] \in held /\ Shallow(tree, new[j])
  <2>1. j # w - 1
    BY <1>5, <1>16
  <2>2. j + 2 \in 1 .. L /\ (j + 1) + 1 \in 1 .. L /\ (j + 1) - 1 = j
    BY <1>1, <1>8, <2>1
  <2>3. new[j + 1] = tree[new[j]].items[goal[j + 1]] /\ goal[j + 1] \in Names
    BY <1>1, <1>3, <1>8, <1>16, <2>2
  <2>4. new[j + 1] = None \/ (new[j + 1] \in Nodes /\ Bare(tree, new[j + 1]))
    BY <1>16, <2>3 DEF Shallow
  <2>5. QED
    BY <1>8, <1>12, <1>13, <2>2, <2>4
<1>17. QED
  BY <1>9, <1>11, <1>14, <1>15, <1>16 DEF Replaced
LEMMA MakeChanges ==
  ASSUME NEW tree, next \in Nat, GoodTree(tree, next), Fits(2),
         NEW d \in Nodes, d < next, NEW name \in Names, Make(tree, d, name),
         NEW held, Changed(tree, d, held),
         tree[d].items[name] = None => node[d].items[name] \in {None} \cup held
  PROVE  Changed(node', d, held)
<1>1. /\ next + 1 \in Nat /\ next < next + 1 /\ next <= next + 1 /\ next <= next
      /\ next - 1 <= MaxNodes /\ d < next + 1
  BY TreeAssumption DEF Fits, Nodes
<1>2. next \in Nodes /\ next + 1 \in Nodes
  BY TreeAssumption DEF Fits, Nodes
<1>3. Found \subseteq Names \cup {None}
  BY TreeAssumption DEF Found
<1>4. ASSUME NEW song \in Found,
             node' = AddItem(AddItem(tree, d, name, next, TRUE), next, song, next + 1, FALSE)
      PROVE  Changed(node', d, held)
  <2>1. song \in Names \cup {None}
    BY <1>3
  <2>2. Changed(AddItem(AddItem(tree, d, name, next, TRUE), next, song, next + 1, FALSE), d, held)
    BY <1>1, <1>2, <2>1, ChangedBySearch
  <2>3. QED
    BY <1>4, <2>2
<1>5. ASSUME NEW gone
      PROVE  /\ Changed(RemoveItems(tree, d, gone), d, held)
             /\ GoodTree(RemoveItems(tree, d, gone), next)
  BY <1>1, ChangedByRemoval, RemoveKeeps
<1>6. ASSUME NEW gone, NEW song \in Found,
             node' = AddItem(AddItem(RemoveItems(tree, d, gone), d, song, next, FALSE),
                           d, name, next + 1, TRUE)
      PROVE  Changed(node', d, held)
  <2> DEFINE less == RemoveItems(tree, d, gone)
             more == AddItem(less, d, song, next, FALSE)
  <2>1. GoodTree(less, next) /\ Changed(less, d, held) /\ song \in Names \cup {None}
    BY <1>3, <1>5
  <2>2. node' = AddItem(more, d, name, next + 1, TRUE)
    BY <1>6
  <2> HIDE DEF less
  <2>3. Changed(more, d, held)
    BY <1>1, <1>2, <2>1, ChangedByAdding
  <2>4. GoodTree(less, next + 1)
    BY <1>1, <2>1, Wider
  <2>5. GoodTree(more, next + 1)
    BY <1>1, <1>2, <2>1, <2>4, AddKeeps
  <2> HIDE DEF more
  <2>6. Changed(AddItem(more, d, name, next + 1, TRUE), d, held)
    BY <1>1, <1>2, <2>3, <2>5, ChangedByAdding
  <2>7. QED
    BY <2>2, <2>6
<1>7. QED
  BY <1>4, <1>5, <1>6 DEF Make

(* The two nodes kept for a path are one below the other by its last name. *)
Paired(path, s) == Len(s) = 2 => node[s[1]].items[NameOf(path)] = s[2]

PairsOf(t) ==
  /\ Walking(t) => Paired(Path(t), parts[t])
  /\ at[t] \in {"rewalk", "act"} /\ call[t].kind = "rename" => Paired(call[t].path, first[t])

LEMMA TwoNodes ==
  ASSUME NEW s \in Seq(1 .. next - 1), Len(s) = 2, next \in Nat
  PROVE  s[1] \in Elements(s) /\ s[2] \in Elements(s)
BY DEF Elements

LEMMA RenameSongChanges ==
  ASSUME next \in Nat, GoodTree(node, next), Fits(3), NEW d \in Nodes, d < next,
         NEW held, NEW old \in Names, node[d].items[old] \in held,
         NEW new \in Names, NEW similar \in Names, NEW song \in Found
  PROVE  LET renamed == AddItem(RemoveItems(node, d, {old}), d, new, next, FALSE)
         IN  /\ Changed(renamed, d, held)
             /\ renamed[d].items[similar] = None =>
                  Changed(AddItem(AddItem(renamed, d, similar, next + 1, TRUE),
                                  next + 1, song, next + 2, FALSE), d, held)
<1> DEFINE less    == RemoveItems(node, d, {old})
           renamed == AddItem(less, d, new, next, FALSE)
<1>1. /\ next + 1 \in Nat /\ next < next + 1 /\ next <= next + 1 /\ next <= next
      /\ next - 1 <= MaxNodes /\ d < next + 1 /\ d # next
  BY TreeAssumption DEF Fits, Nodes
<1>2. next \in Nodes /\ next + 1 \in Nodes /\ (next + 1) + 1 \in Nodes /\ (next + 1) + 1 = next + 2
  BY TreeAssumption DEF Fits, Nodes
<1>3. song \in Names \cup {None} /\ new \in Names \cup {None}
  BY TreeAssumption DEF Found
<1>4. Changed(node, d, held)
  BY DEF Changed
<1>5. GoodTree(less, next) /\ Changed(less, d, held)
  BY <1>1, <1>4, RemoveKeeps, ChangedByRemoval
<1>6. \A x \in Names : less[d].items[x] = IF x \in {old} THEN None ELSE node[d].items[x]
  <2>1. \A n \in Nodes, x \in Names :
          less[n].items[x] = IF n = d /\ x \in {old} THEN None ELSE node[n].items[x]
    BY RemovedItems
  <2> HIDE DEF less
  <2>2. QED
    BY <2>1
<1> HIDE DEF less
<1>7. Changed(renamed, d, held)
  BY <1>1, <1>2, <1>3, <1>5, ChangedByAdding
<1>8. GoodTree(renamed, next + 1)
  <2>1. GoodTree(less, next + 1)
    BY <1>1, <1>5, Wider
  <2>2. QED
    BY <1>1, <1>2, <1>3, <2>1, AddKeeps
<1>9. renamed = less \/ Added(less, renamed, d, new, next)
  BY <1>1, <1>2, <1>3, <1>5, AddedItem
<1> HIDE DEF renamed
<1>10. renamed[d].items[similar] = None => node[d].items[similar] \in {None} \cup held
  <2>1. renamed[d].items[similar] = None => less[d].items[similar] = None
    BY <1>1, <1>2, <1>9 DEF Added, Nodes, None
  <2>2. QED
    BY <1>6, <2>1
<1>11. Changed(AddItem(AddItem(renamed, d, similar, next + 1, TRUE),
                       next + 1, song, (next + 1) + 1, FALSE), d, held)
  BY <1>1, <1>2, <1>3, <1>7, <1>8, <1>10, ChangedBySearch
<1>12. QED
  BY <1>2, <1>7, <1>11 DEF renamed, less

(* What a call does happens in a directory it has locked. *)
LEMMA ActEffect ==
  ASSUME IInv, NEW t \in Threads, PairsOf(t),
         Nothing(t) \/ MakeDir(t) \/ RemoveDir(t) \/ RenameSong(t) \/ RenameDummy(t)
  PROVE  node' = node \/ \E d \in Held(t) : Changed(node', d, Held(t))
<1>1. /\ TreeInv /\ GoodTree(node, next) /\ next \in Nat /\ next - 1 <= MaxNodes
      /\ parts[t] \in Seq(1 .. next - 1) /\ first[t] \in Seq(1 .. next - 1)
  BY TreeAssumption DEF IInv, TreeInv
<1>2. /\ call[t].kind # "lookup" => NameOf(call[t].path) \in Names
      /\ call[t].kind = "rename" => NameOf(call[t].to) \in Names
  <2>1. call[t] \in Calls \cup {NoCall}
    BY ThreadFacts DEF IInv
  <2>2. /\ call[t].path \in Seq(Names) /\ call[t].to \in Seq(Names)
        /\ call[t].kind # "lookup" => call[t].path # <<>>
        /\ call[t].kind = "rename" => call[t].to # <<>>
    BY <2>1, CallFacts
  <2>3. QED
    BY <2>2, NameFacts
<1>3. ASSUME NEW s \in Seq(1 .. next - 1), Len(s) \in {1, 2}
      PROVE  s[1] \in Nodes /\ s[1] < next
  BY <1>1, <1>3, DirFacts
<1>4. Changed(node, parts[t][1], Held(t)) /\ Changed(node, first[t][1], Held(t))
  BY DEF Changed
<1>5. Len(first[t]) = 2 => first[t][1] \in Held(t) /\ first[t][2] \in Held(t)
  BY <1>1, TwoNodes DEF Held
<1>6. ASSUME MakeDir(t) PROVE \E d \in Held(t) : Changed(node', d, Held(t))
  <2>1. /\ call[t].kind = "mkdir" /\ Len(parts[t]) = 1 /\ Fits(2)
        /\ Make(node, parts[t][1], NameOf(call[t].path))
    BY <1>6 DEF MakeDir, IsDir
  <2>2. parts[t][1] \in Nodes /\ parts[t][1] < next
    BY <1>1, <1>3, <2>1
  <2>3. NameOf(call[t].path) \in Names
    BY <1>2, <2>1
  <2>4. Changed(node', parts[t][1], Held(t))
    BY <1>1, <1>4, <2>1, <2>2, <2>3, MakeChanges
  <2>5. parts[t][1] \in Held(t)
    BY <1>1, <2>1, OfLengthOne DEF Held
  <2>6. QED
    BY <2>4, <2>5
<1>7. ASSUME RemoveDir(t) PROVE \E d \in Held(t) : Changed(node', d, Held(t))
  <2>1. Len(parts[t]) = 2 /\ node' = RemoveItems(node, parts[t][1], {NameOf(call[t].path)})
    BY <1>7 DEF RemoveDir
  <2>2. parts[t][1] \in Nodes /\ parts[t][1] < next
    BY <1>1, <1>3, <2>1
  <2>3. Changed(node', parts[t][1], Held(t))
    BY <1>1, <1>4, <2>1, <2>2, ChangedByRemoval
  <2>4. parts[t][1] \in Held(t)
    BY <1>1, <2>1, TwoNodes DEF Held
  <2>5. QED
    BY <2>3, <2>4
<1>8. ASSUME RenameSong(t) PROVE \E d \in Held(t) : Changed(node', d, Held(t))
  <2> DEFINE d       == first[t][1]
             old     == NameOf(call[t].path)
             new     == NameOf(call[t].to)
             renamed == AddItem(RemoveItems(node, d, {old}), d, new, next, FALSE)
  <2>1. /\ at[t] = "act" /\ call[t].kind = "rename" /\ Len(first[t]) = 2 /\ Fits(3)
        /\ \/ node' = renamed
           \/ \E similar \in Names \ Songs, song \in Found :
                /\ renamed[d].items[similar] = None
                /\ node' = AddItem(AddItem(renamed, d, similar, next + 1, TRUE),
                                   next + 1, song, next + 2, FALSE)
    BY <1>8 DEF RenameSong
  <2>2. d \in Nodes /\ d < next /\ d \in Held(t) /\ old \in Names /\ new \in Names
    BY <1>1, <1>2, <1>3, <1>5, <2>1
  <2>3. node[d].items[old] \in Held(t)
    BY <1>5, <2>1 DEF PairsOf, Paired
  <2>4. \A similar \in Names, song \in Found :
          /\ Changed(renamed, d, Held(t))
          /\ renamed[d].items[similar] = None =>
               Changed(AddItem(AddItem(renamed, d, similar, next + 1, TRUE),
                               next + 1, song, next + 2, FALSE), d, Held(t))
    <3> HIDE DEF d, old, new
    <3>1. QED
      BY <1>1, <2>1, <2>2, <2>3, RenameSongChanges
  <2>5. None \in Found
    BY DEF Found
  <2> HIDE DEF renamed
  <2>6. Changed(node', d, Held(t))
    BY <2>1, <2>2, <2>4, <2>5
  <2>7. QED
    BY <2>2, <2>6
<1>9. ASSUME RenameDummy(t) PROVE \E d \in Held(t) : Changed(node', d, Held(t))
  <2> DEFINE d    == first[t][1]
             old  == NameOf(call[t].path)
             new  == NameOf(call[t].to)
             less == RemoveItems(node, d, {old})
  <2>1. /\ at[t] = "act" /\ call[t].kind = "rename" /\ Len(first[t]) = 2 /\ Fits(2)
        /\ Make(less, d, new)
    BY <1>9 DEF RenameDummy
  <2>2. d \in Nodes /\ d < next /\ d \in Held(t) /\ old \in Names /\ new \in Names
    BY <1>1, <1>2, <1>3, <1>5, <2>1
  <2>3. node[d].items[old] \in Held(t)
    BY <1>5, <2>1 DEF PairsOf, Paired
  <2>4. GoodTree(less, next) /\ Changed(less, d, Held(t))
    BY <1>1, <1>4, <2>2, RemoveKeeps, ChangedByRemoval
  <2>5. less[d].items[new] = IF new \in {old} THEN None ELSE node[d].items[new]
    BY <1>1, <2>2, RemovedItems
  <2>6. less[d].items[new] = None => node[d].items[new] \in {None} \cup Held(t)
    BY <2>3, <2>5
  <2>7. Changed(node', d, Held(t))
    <3> HIDE DEF d, new, less
    <3>1. QED
      BY <1>1, <2>1, <2>2, <2>4, <2>6, MakeChanges
  <2>8. QED
    BY <2>2, <2>7
<1>10. ASSUME Nothing(t) PROVE node' = node
  BY <1>10 DEF Nothing, treeVars
<1>11. QED
  BY <1>6, <1>7, <1>8, <1>9, <1>10

(* The nodes made by then lie in the tree as before. *)
LEMMA ActTree ==
  ASSUME IInv, NEW t \in Threads,
         Nothing(t) \/ MakeDir(t) \/ RemoveDir(t) \/ RenameSong(t) \/ RenameDummy(t)
  PROVE  next' \in Nat /\ next <= next' /\ GoodTree(node', next')
<1>1. IInv'
  BY ActStep
<1>2. next' \in Nat /\ GoodTree(node', next')
  BY <1>1, TreeAssumption DEF IInv, TreeInv, GoodTree
<1>3. next \in Nat
  BY TreeAssumption DEF IInv, TreeInv
<1>4. next' \in {next, next + 2, next + 3}
  BY DEF Nothing, MakeDir, RemoveDir, RenameSong, RenameDummy, treeVars
<1>5. QED
  BY <1>2, <1>3, <1>4
-----------------------------------------------------------------------------
(* What a call knows of its path.                                          *)

(* Where the path leads now is one of the nodes it has led to. *)
GoalSeen(t) == Walking(t) => Lookup(node, Goal(t)) \in seen[t]

(* The walk is still below the root on its path.                           *)
Attached(t) == parts[t][1] = Reached(node, Goal(t))[walked[t] - 1]

(* On its way a walk is where its path leads; or it has been cut off, and  *)
(* the path has led to nothing.  A walk cut off one level above its goal   *)
(* holds the directory in which it will find what the path led to before.  *)
OnWay(t) ==
  Walking(t) /\ walked[t] \in 1 .. Len(Goal(t)) =>
    /\ Attached(t) \/ (walked[t] > 1 /\ None \in seen[t])
    /\ Len(Goal(t)) = 2 /\ walked[t] = 2 => node[parts[t][1]].items[Goal(t)[2]] \in seen[t]

(* Its goal is locked from when it is reached, so that it stays.           *)
Arrived(t) ==
  Walking(t) /\ walked[t] > Len(Goal(t)) =>
    parts[t][1] \in seen[t] \/ (Len(Goal(t)) > 2 /\ None \in seen[t])

WasThere(t) ==
  at[t] = "act" => WorksOn(t) \in seen[t] \/ (Len(Goal(t)) > 2 /\ None \in seen[t])

SeenOf(t) == GoalSeen(t) /\ OnWay(t) /\ Arrived(t) /\ WasThere(t) /\ PairsOf(t)

SeenInv == /\ seen = [t \in Threads |-> seen[t]]
           /\ \A t \in Threads : SeenOf(t)

LEMMA TargetFacts ==
  ASSUME NEW c, NEW path \in Seq(Names), c.kind # "lookup" => path # <<>>
  PROVE  /\ Target(c, path) \in Seq(Names)
         /\ Len(Target(c, path)) = Len(path) - (IF c.kind = "lookup" THEN 0 ELSE 1)
         /\ \A i \in 1 .. Len(Target(c, path)) : Target(c, path)[i] = path[i]
<1> DEFINE n == Len(path) - (IF c.kind = "lookup" THEN 0 ELSE 1)
<1>1. n \in 0 .. Len(path) /\ Len(path) \in Nat
  BY EmptySeq
<1>2. Target(c, path) = SubSeq(path, 1, n)
  BY DEF Target
<1> HIDE DEF n
<1>3. /\ SubSeq(path, 1, n) \in Seq(Names) /\ Len(SubSeq(path, 1, n)) = n
      /\ \A i \in 1 .. n : SubSeq(path, 1, n)[i] = path[i]
  BY <1>1
<1>4. QED
  BY <1>2, <1>3 DEF n

LEMMA GoalFacts ==
  ASSUME TypeOK, TreeInv, WalkInv, NEW t \in Threads, Walking(t)
  PROVE  /\ Goal(t) = Target(call[t], Path(t))
         /\ Goal(t) \in Seq(Names)
         /\ Len(Goal(t)) \in Nat /\ Len(Goal(t)) = Len(Path(t)) - PathSize(t) + 1
         /\ \A i \in 1 .. Len(Goal(t)) : Goal(t)[i] = Path(t)[i]
         /\ Passes(t) <=> walked[t] <= Len(Goal(t))
<1>1. /\ Path(t) \in Seq(Names) /\ Len(Path(t)) \in Nat
      /\ PathSize(t) = 2 => Path(t) # <<>>
      /\ PathSize(t) = IF call[t].kind = "lookup" THEN 1 ELSE 2
  BY PathFacts, EmptySeq DEF PathSize
<1>2. Goal(t) = Target(call[t], Path(t))
  BY DEF WalkInv, WalkOf, Goal, Path, Walking
<1>3. call[t].kind # "lookup" => Path(t) # <<>>
  BY <1>1
<1>4. /\ Target(call[t], Path(t)) \in Seq(Names)
      /\ Len(Target(call[t], Path(t))) = Len(Path(t)) - (IF call[t].kind = "lookup" THEN 0 ELSE 1)
      /\ \A i \in 1 .. Len(Target(call[t], Path(t))) : Target(call[t], Path(t))[i] = Path(t)[i]
  BY <1>1, <1>3, TargetFacts
<1>5. Len(Goal(t)) \in Nat /\ Len(Goal(t)) = Len(Path(t)) - PathSize(t) + 1
  BY <1>1, <1>2, <1>4, LenProperties
<1>6. QED
  BY <1>2, <1>4, <1>5 DEF Passes

(* Without a change in the tree a thread knows what it has known.          *)
LEMMA SeenKept ==
  ASSUME NEW t \in Threads, SeenOf(t), node' = node,
         at'[t] = at[t], call'[t] = call[t], parts'[t] = parts[t],
         walked'[t] = walked[t], first'[t] = first[t], seen'[t] = seen[t]
  PROVE  SeenOf(t)'
<1>1. (Goal(t))' = Goal(t)
  BY DEF Goal, Target
<1>2. /\ Walking(t)' <=> Walking(t)
      /\ (Path(t))' = Path(t) /\ (WorksOn(t))' = WorksOn(t)
  BY DEF Walking, Path, WorksOn
<1>3. GoalSeen(t)'
  BY <1>1, <1>2 DEF SeenOf, GoalSeen, Lookup
<1>4. OnWay(t)'
  BY <1>1, <1>2 DEF SeenOf, OnWay, Attached
<1>5. Arrived(t)' /\ WasThere(t)'
  BY <1>1, <1>2 DEF SeenOf, Arrived, WasThere
<1>6. PairsOf(t)'
  BY <1>2 DEF SeenOf, PairsOf, Paired, NameOf
<1>7. QED
  BY <1>3, <1>4, <1>5, <1>6 DEF SeenOf

LEMMA BeginSeen ==
  ASSUME IInv, SeenInv, NEW t \in Threads, NEW c \in Calls, Begin(t, c)
  PROVE  SeenInv'
<1>1. /\ at[t] = "idle" /\ at' = [at EXCEPT ![t] = "walk"] /\ call' = [call EXCEPT ![t] = c]
      /\ seen' = [seen EXCEPT ![t] = {Lookup(node, Target(c, c.path))}]
      /\ UNCHANGED <<treeVars, owner, parts, walked, first>>
  BY DEF Begin
<1>2. TypeOK /\ seen = [u \in Threads |-> seen[u]] /\ WalkOf(t) /\ SeenOf(t)
  BY DEF IInv, SeenInv, WalkInv
<1>3. /\ at'[t] = "walk" /\ call'[t] = c /\ walked'[t] = 0 /\ parts'[t] = <<>>
      /\ seen'[t] = {Lookup(node, Target(c, c.path))} /\ node' = node
  BY <1>1, <1>2 DEF TypeOK, WalkOf, treeVars
<1>4. SeenOf(t)'
  <2>1. (Goal(t))' = Target(c, c.path) /\ (Path(t))' = c.path
    BY <1>3 DEF Goal, Path
  <2>2. Len(Target(c, c.path)) \in Nat
    <3>1. c.path \in Seq(Names) /\ (c.kind # "lookup" => c.path # <<>>)
      BY CallFacts
    <3>2. QED
      BY <3>1, TargetFacts, LenProperties
  <2>3. GoalSeen(t)'
    BY <1>3, <2>1 DEF GoalSeen
  <2>4. OnWay(t)' /\ Arrived(t)' /\ WasThere(t)'
    BY <1>3, <2>1, <2>2 DEF OnWay, Arrived, WasThere
  <2>5. PairsOf(t)'
    BY <1>3, NoSeq DEF PairsOf, Paired
  <2>6. QED
    BY <2>3, <2>4, <2>5 DEF SeenOf
<1>5. ASSUME NEW u \in Threads, u # t PROVE SeenOf(u)'
  <2>1. SeenOf(u)
    BY DEF SeenInv
  <2>2. /\ at'[u] = at[u] /\ call'[u] = call[u] /\ parts'[u] = parts[u]
        /\ walked'[u] = walked[u] /\ first'[u] = first[u] /\ seen'[u] = seen[u]
    BY <1>1, <1>2, <1>5 DEF TypeOK
  <2>3. QED
    BY <1>3, <2>1, <2>2, SeenKept
<1>6. seen' = [u \in Threads |-> seen'[u]]
  BY <1>1, <1>2
<1>7. QED
  BY <1>4, <1>5, <1>6 DEF SeenInv

LEMMA LockRootSeen ==
  ASSUME IInv, SeenInv, NEW t \in Threads, LockRoot(t)
  PROVE  SeenInv'
<1>1. /\ Walking(t) /\ walked[t] = 0
      /\ parts' = [parts EXCEPT ![t] = <<Root>>]
      /\ walked' = [walked EXCEPT ![t] = 1]
      /\ UNCHANGED <<treeVars, at, call, first, calls, seen>>
  BY DEF LockRoot
<1>2. TypeOK /\ TreeInv /\ WalkInv /\ SeenOf(t)
  BY DEF IInv, SeenInv
<1>3. /\ at'[t] = at[t] /\ call'[t] = call[t] /\ first'[t] = first[t] /\ seen'[t] = seen[t]
      /\ walked'[t] = 1 /\ parts'[t] = <<Root>> /\ node' = node
  BY <1>1, <1>2 DEF TypeOK, treeVars
<1> DEFINE goal == Goal(t)
<1>4. goal \in Seq(Names) /\ Len(goal) \in Nat
  BY <1>1, <1>2, GoalFacts
<1>5. Reached(node, goal)[0] = Root
  <2>1. next \in Nat /\ 2 <= next /\ GoodTree(node, next)
    BY <1>2, TreeAssumption DEF TreeInv
  <2> HIDE DEF goal
  <2>2. QED
    BY <1>4, <2>1, ReachedFacts
<1>6. /\ (Goal(t))' = goal /\ (Path(t))' = Path(t) /\ (Walking(t)' <=> Walking(t))
      /\ Root # None
  BY <1>3 DEF Goal, Target, Path, Walking, Root, None
<1>7. at[t] # "act" /\ parts'[t][1] = Root /\ Len(parts'[t]) = 1
  BY <1>1, <1>3 DEF Walking
<1> HIDE DEF goal
<1>8. Lookup(node, goal) \in seen[t]
  BY <1>1, <1>2 DEF SeenOf, GoalSeen, goal
<1>9. SeenOf(t)'
  <2>1. GoalSeen(t)'
    BY <1>3, <1>6, <1>8 DEF GoalSeen
  <2>2. Attached(t)'
    BY <1>3, <1>5, <1>6, <1>7 DEF Attached
  <2>3. OnWay(t)'
    BY <1>3, <1>6, <2>2 DEF OnWay
  <2>4. Arrived(t)'
    <3>1. 1 > Len(goal) => Lookup(node, goal) = Root
      BY <1>4, <1>5 DEF Lookup
    <3>2. QED
      BY <1>3, <1>6, <1>7, <1>8, <3>1 DEF Arrived
  <2>5. WasThere(t)'
    BY <1>3, <1>7 DEF WasThere
  <2>6. PairsOf(t)'
    BY <1>2, <1>3, <1>6, <1>7 DEF SeenOf, PairsOf, Paired, NameOf
  <2>7. QED
    BY <2>1, <2>3, <2>4, <2>5, <2>6 DEF SeenOf
<1>10. ASSUME NEW u \in Threads, u # t PROVE SeenOf(u)'
  <2>1. SeenOf(u)
    BY DEF SeenInv
  <2>2. /\ at'[u] = at[u] /\ call'[u] = call[u] /\ parts'[u] = parts[u]
        /\ walked'[u] = walked[u] /\ first'[u] = first[u] /\ seen'[u] = seen[u]
    BY <1>1, <1>2, <1>10 DEF TypeOK
  <2>3. QED
    BY <1>3, <2>1, <2>2, SeenKept
<1>11. QED
  BY <1>1, <1>9, <1>10 DEF SeenInv

LEMMA DescendSeen ==
  ASSUME IInv, SeenInv, NEW t \in Threads, Descend(t)
  PROVE  SeenInv'
<1> DEFINE child == Child(t)
           goal  == Goal(t)
           L     == Len(Goal(t))
           w     == walked[t]
<1>1. /\ Walking(t) /\ w \in 1 .. Len(Path(t)) /\ child # None
      /\ parts' = [parts EXCEPT ![t] = Append(IF Passes(t) THEN Tail(@) ELSE @, child)]
      /\ walked' = [walked EXCEPT ![t] = @ + 1]
      /\ UNCHANGED <<treeVars, at, call, first, calls, seen>>
  BY DEF Descend
<1>2. TypeOK /\ TreeInv /\ WalkInv /\ SeenOf(t)
  BY DEF IInv, SeenInv
<1>3. /\ at'[t] = at[t] /\ call'[t] = call[t] /\ first'[t] = first[t] /\ seen'[t] = seen[t]
      /\ walked'[t] = w + 1 /\ node' = node
      /\ parts'[t] = Append(IF Passes(t) THEN Tail(parts[t]) ELSE parts[t], child)
  BY <1>1, <1>2 DEF TypeOK, treeVars
<1>4. /\ goal \in Seq(Names) /\ L \in Nat /\ L = Len(Path(t)) - PathSize(t) + 1
      /\ \A i \in 1 .. L : goal[i] = Path(t)[i]
      /\ Passes(t) <=> w <= L
      /\ Len(Path(t)) \in Nat /\ PathSize(t) \in {1, 2} /\ w \in Nat
  BY <1>1, <1>2, GoalFacts, PathFacts, ThreadFacts
<1>5. /\ Len(parts[t]) = 1 /\ parts[t] \in Seq(Nodes) /\ child \in Nodes
      /\ child = node[parts[t][1]].items[Path(t)[w]]
  <2>1. /\ Len(parts[t]) = 1 /\ Here(t) = parts[t][1]
        /\ Child(t) # None => Child(t) \in 1 .. next - 1
    BY <1>1, <1>2, ChildFacts
  <2>2. parts[t] \in Seq(Nodes) /\ 1 .. next - 1 \subseteq Nodes
    BY <1>2, ThreadFacts
  <2>3. QED
    BY <1>1, <2>1, <2>2 DEF Child
<1>6. /\ (Goal(t))' = goal /\ (Path(t))' = Path(t) /\ (Walking(t)' <=> Walking(t))
  BY <1>3 DEF Goal, Target, Path, Walking
<1>7. /\ Reached(node, goal)[0] = Root
      /\ \A i \in 1 .. L : Reached(node, goal)[i] =
           IF Reached(node, goal)[i - 1] = None THEN None
           ELSE node[Reached(node, goal)[i - 1]].items[goal[i]]
  <2>1. next \in Nat /\ 2 <= next /\ GoodTree(node, next)
    BY <1>2, TreeAssumption DEF TreeInv
  <2> HIDE DEF goal
  <2>2. QED
    BY <1>4, <2>1, ReachedFacts, SMTT(30) DEF goal
<1>8. at[t] # "act" /\ None \notin Nodes
  BY <1>1, TreeAssumption DEF Walking, Nodes, None
<1>9. Lookup(node, goal) \in seen[t] /\ Lookup(node, goal) = Reached(node, goal)[L]
  BY <1>1, <1>2 DEF SeenOf, GoalSeen, Lookup
<1>10. /\ w \in 1 .. L => /\ Attached(t) \/ (w > 1 /\ None \in seen[t])
                          /\ L = 2 /\ w = 2 => node[parts[t][1]].items[goal[2]] \in seen[t]
       /\ w > L => parts[t][1] \in seen[t] \/ (L > 2 /\ None \in seen[t])
  BY <1>1, <1>2 DEF SeenOf, OnWay, Arrived
<1>11. parts[t][1] \in Nodes
  BY <1>5
<1>12. Attached(t) <=> parts[t][1] = Reached(node, goal)[w - 1]
  BY DEF Attached
<1>13. w \in 1 .. L /\ Attached(t) => child = Reached(node, goal)[w]
  BY <1>4, <1>5, <1>7, <1>8, <1>11, <1>12
<1> HIDE DEF goal, L, w, child
<1>14. GoalSeen(t)'
  BY <1>3, <1>6, <1>9 DEF GoalSeen
<1>15. WasThere(t)'
  BY <1>3, <1>8 DEF WasThere
<1>16. ASSUME w <= L PROVE SeenOf(t)'
  <2>1. parts'[t] = <<child>> /\ parts'[t][1] = child /\ Len(parts'[t]) = 1
    <3>1. Tail(parts[t]) = <<>> /\ Append(<<>>, child) = <<child>>
      BY <1>5, OfLengthOne
    <3>2. parts'[t] = <<child>>
      BY <1>3, <1>4, <1>16, <3>1
    <3>3. QED
      BY <3>2
  <2>2. w \in 1 .. L /\ (w + 1) - 1 = w
    BY <1>1, <1>4, <1>16
  <2>3. Attached(t)' <=> child = Reached(node, goal)[w]
    BY <1>3, <1>6, <2>1, <2>2 DEF Attached
  <2>4. OnWay(t)'
    <3>1. Attached(t)' \/ (w + 1 > 1 /\ None \in seen[t])
      BY <1>4, <1>10, <1>13, <2>2, <2>3
    <3>2. L = 2 /\ w + 1 = 2 => node[child].items[goal[2]] \in seen[t]
      <4> SUFFICES ASSUME L = 2, w = 1 PROVE node[child].items[goal[2]] \in seen[t]
        BY <1>4
      <4>1. child = Reached(node, goal)[1]
        BY <1>10, <1>13, <2>2
      <4>2. Reached(node, goal)[2] = node[child].items[goal[2]]
        <5>1. 2 \in 1 .. L /\ 2 - 1 = 1
          OBVIOUS
        <5>2. QED
          BY <1>5, <1>7, <1>8, <4>1, <5>1
      <4>3. QED
        BY <1>9, <4>2
    <3>3. QED
      BY <1>3, <1>6, <2>1, <3>1, <3>2 DEF OnWay, L, goal
  <2>5. Arrived(t)'
    <3>1. w + 1 > L => child \in seen[t] \/ (L > 2 /\ None \in seen[t])
      <4> SUFFICES ASSUME w = L PROVE child \in seen[t] \/ (L > 2 /\ None \in seen[t])
        BY <1>4, <2>2
      <4>1. CASE Attached(t)
        BY <1>9, <1>13, <2>2, <4>1
      <4>2. CASE ~ Attached(t)
        <5>1. w > 1 /\ None \in seen[t]
          BY <1>10, <2>2, <4>2
        <5>2. L = 2 => child \in seen[t]
          BY <1>4, <1>5, <1>10, <2>2
        <5>3. QED
          BY <1>4, <5>1, <5>2
      <4>3. QED
        BY <4>1, <4>2
    <3>2. QED
      BY <1>3, <1>6, <2>1, <3>1 DEF Arrived, L, goal
  <2>6. PairsOf(t)'
    BY <1>2, <1>3, <1>6, <2>1 DEF SeenOf, PairsOf, Paired, NameOf
  <2>7. QED
    BY <1>14, <1>15, <2>4, <2>5, <2>6 DEF SeenOf
<1>17. ASSUME w > L PROVE SeenOf(t)'
  <2>1. parts'[t] = Append(parts[t], child) /\ w = Len(Path(t))
    BY <1>1, <1>3, <1>4, <1>17
  <2>2. parts'[t][1] = parts[t][1] /\ Len(parts'[t]) = 2 /\ parts'[t][2] = child
    BY <1>5, <2>1, AppendProperties
  <2>3. OnWay(t)'
    BY <1>3, <1>4, <1>6, <1>17 DEF OnWay, L, goal
  <2>4. Arrived(t)'
    BY <1>3, <1>6, <1>10, <1>17, <2>2 DEF Arrived, L, goal
  <2>5. PairsOf(t)'
    <3>1. node[parts[t][1]].items[NameOf(Path(t))] = child
      BY <1>5, <2>1 DEF NameOf
    <3>2. QED
      BY <1>2, <1>3, <1>6, <2>2, <3>1 DEF SeenOf, PairsOf, Paired, NameOf
  <2>6. QED
    BY <1>14, <1>15, <2>3, <2>4, <2>5 DEF SeenOf
<1>18. SeenOf(t)'
  BY <1>4, <1>16, <1>17
<1>19. ASSUME NEW u \in Threads, u # t PROVE SeenOf(u)'
  <2>1. SeenOf(u)
    BY DEF SeenInv
  <2>2. /\ at'[u] = at[u] /\ call'[u] = call[u] /\ parts'[u] = parts[u]
        /\ walked'[u] = walked[u] /\ first'[u] = first[u] /\ seen'[u] = seen[u]
    BY <1>1, <1>2, <1>19 DEF TypeOK
  <2>3. QED
    BY <1>3, <2>1, <2>2, SeenKept
<1>20. QED
  BY <1>1, <1>18, <1>19 DEF SeenInv

LEMMA EndWalkSeen ==
  ASSUME IInv, SeenInv, NEW t \in Threads, EndWalk(t)
  PROVE  SeenInv'
<1> DEFINE goal  == Goal(t)
           L     == Len(Goal(t))
           w     == walked[t]
           atEnd == w = Len(Path(t)) + 1
           kept  == IF ~ atEnd /\ Passes(t) THEN Tail(parts[t]) ELSE parts[t]
           again == call[t].kind = "rename" /\ at[t] = "walk"
<1>1. /\ Walking(t) /\ w > 0 /\ (~ atEnd => Child(t) = None)
      /\ again => /\ at' = [at EXCEPT ![t] = "rewalk"]
                  /\ first' = [first EXCEPT ![t] = kept]
                  /\ parts' = [parts EXCEPT ![t] = <<>>]
                  /\ walked' = [walked EXCEPT ![t] = 0]
                  /\ seen' = [seen EXCEPT ![t] = {Lookup(node, Target(call[t], call[t].to))}]
      /\ ~ again => /\ at' = [at EXCEPT ![t] = "act"]
                    /\ parts' = [parts EXCEPT ![t] = kept]
                    /\ UNCHANGED <<first, walked, seen>>
      /\ UNCHANGED <<treeVars, call, calls>>
  BY DEF EndWalk
<1>2. TypeOK /\ TreeInv /\ WalkInv /\ SeenOf(t) /\ WalkOf(t)
  BY DEF IInv, SeenInv, WalkInv
<1>3. /\ goal \in Seq(Names) /\ L \in Nat /\ L = Len(Path(t)) - PathSize(t) + 1
      /\ \A i \in 1 .. L : goal[i] = Path(t)[i]
      /\ Passes(t) <=> w <= L
      /\ Len(Path(t)) \in Nat /\ PathSize(t) \in {1, 2} /\ w \in Nat
      /\ w <= Len(Path(t)) + 1
  BY <1>1, <1>2, GoalFacts, PathFacts, ThreadFacts DEF WalkOf
<1>4. parts[t] \in Seq(Nodes) /\ Len(parts[t]) \in {1, 2} /\ parts[t] # <<>>
  <2>1. Len(parts[t]) \in {1, 2}
    BY <1>1, <1>2, <1>3 DEF WalkOf
  <2>2. parts[t] \in Seq(Nodes)
    BY <1>2, ThreadFacts
  <2>3. QED
    BY <2>1, <2>2, EmptySeq, SMTT(30)
<1>5. ~ atEnd /\ Passes(t) =>
        /\ w \in 1 .. L /\ w \in 1 .. Len(Path(t)) /\ kept = <<>>
        /\ node[parts[t][1]].items[goal[w]] = None /\ parts[t][1] \in Nodes
  <2> SUFFICES ASSUME ~ atEnd, Passes(t)
               PROVE  /\ w \in 1 .. L /\ w \in 1 .. Len(Path(t)) /\ kept = <<>>
                      /\ node[parts[t][1]].items[goal[w]] = None /\ parts[t][1] \in Nodes
    OBVIOUS
  <2>1. w \in 1 .. L /\ w \in 1 .. Len(Path(t))
    BY <1>1, <1>3
  <2>2. Len(parts[t]) = 1 /\ Here(t) = parts[t][1]
    BY <1>1, <1>2, <2>1, ChildFacts
  <2>3. Tail(parts[t]) = <<>> /\ parts[t][1] \in Nodes
    BY <1>4, <2>2, OfLengthOne
  <2>4. Child(t) = node[parts[t][1]].items[Path(t)[w]]
    BY <2>2 DEF Child
  <2>5. QED
    BY <1>1, <1>3, <2>1, <2>3, <2>4
<1>6. ~ (~ atEnd /\ Passes(t)) => w > L /\ kept = parts[t]
  BY <1>3
<1>7. Len(kept) = 2 => kept = parts[t]
  <2> HIDE DEF kept, atEnd, w, L
  <2>1. QED
    BY <1>5, <1>6, NoSeq
<1>8. /\ Reached(node, goal)[0] = Root
      /\ \A i \in 1 .. L : Reached(node, goal)[i] =
           IF Reached(node, goal)[i - 1] = None THEN None
           ELSE node[Reached(node, goal)[i - 1]].items[goal[i]]
      /\ \A i \in 0 .. L : \A j \in i .. L :
           Reached(node, goal)[i] = None => Reached(node, goal)[j] = None
  <2>1. next \in Nat /\ 2 <= next /\ GoodTree(node, next)
    BY <1>2, TreeAssumption DEF TreeInv
  <2> HIDE DEF goal
  <2>2. /\ Reached(node, goal)[0] = Root
        /\ \A i \in 1 .. Len(goal) : Reached(node, goal)[i] =
             IF Reached(node, goal)[i - 1] = None THEN None
             ELSE node[Reached(node, goal)[i - 1]].items[goal[i]]
        /\ \A i \in 0 .. Len(goal) : \A j \in i .. Len(goal) :
             Reached(node, goal)[i] = None => Reached(node, goal)[j] = None
    BY <1>3, <2>1, ReachedFacts
  <2>3. L = Len(goal)
    BY DEF goal
  <2> HIDE DEF L
  <2>4. QED
    BY <2>2, <2>3, Zenon
<1>9. Lookup(node, goal) \in seen[t] /\ Lookup(node, goal) = Reached(node, goal)[L]
  BY <1>1, <1>2 DEF SeenOf, GoalSeen, Lookup
<1>10. /\ w \in 1 .. L => /\ Attached(t) \/ (w > 1 /\ None \in seen[t])
                          /\ L = 2 /\ w = 2 => node[parts[t][1]].items[goal[2]] \in seen[t]
       /\ w > L => parts[t][1] \in seen[t] \/ (L > 2 /\ None \in seen[t])
  BY <1>1, <1>2 DEF SeenOf, OnWay, Arrived
<1>11. Attached(t) <=> parts[t][1] = Reached(node, goal)[w - 1]
  BY DEF Attached
<1>12. ASSUME ~ atEnd, Passes(t) PROVE None \in seen[t]
  <2> HIDE DEF goal, L, w, atEnd, kept
  <2>1. w \in 1 .. L /\ parts[t][1] # None
    BY <1>5, <1>12 DEF Nodes, None
  <2>2. CASE ~ Attached(t)
    BY <1>10, <2>1, <2>2
  <2>3. CASE Attached(t)
    <3>1. Reached(node, goal)[w] = None
      BY <1>5, <1>8, <1>11, <1>12, <2>1, <2>3
    <3>2. w \in 0 .. L /\ L \in w .. L
      BY <1>3, <2>1
    <3>3. QED
      BY <1>8, <1>9, <3>1, <3>2
  <2>4. QED
    BY <2>2, <2>3
<1>13. Paired(Path(t), kept)
  BY <1>1, <1>2, <1>7 DEF SeenOf, PairsOf, Paired
<1> HIDE DEF goal, L, w, atEnd, kept
<1>14. ASSUME again PROVE SeenOf(t)'
  <2>1. /\ at'[t] = "rewalk" /\ first'[t] = kept /\ parts'[t] = <<>> /\ walked'[t] = 0
        /\ seen'[t] = {Lookup(node, Target(call[t], call[t].to))}
        /\ node' = node /\ call'[t] = call[t]
    BY <1>1, <1>2, <1>14 DEF TypeOK, SeenInv, treeVars
  <2>2. (Goal(t))' = Target(call[t], call[t].to) /\ (Path(t))' = call[t].to
    BY <1>14, <2>1 DEF Goal, Path
  <2>3. Len(Target(call[t], call[t].to)) \in Nat
    <3>1. call[t] \in Calls \cup {NoCall}
      BY <1>2, ThreadFacts
    <3>2. call[t].to \in Seq(Names) /\ call[t].to # <<>>
      BY <1>14, <3>1, CallFacts
    <3>3. QED
      BY <3>2, TargetFacts, LenProperties
  <2>4. GoalSeen(t)'
    BY <2>1, <2>2 DEF GoalSeen
  <2>5. OnWay(t)' /\ Arrived(t)' /\ WasThere(t)'
    BY <2>1, <2>2, <2>3 DEF OnWay, Arrived, WasThere
  <2>6. PairsOf(t)'
    <3>1. Path(t) = call[t].path
      BY <1>14 DEF Path
    <3>2. QED
      BY <1>13, <2>1, <3>1, NoSeq DEF PairsOf, Paired, NameOf
  <2>7. QED
    BY <2>4, <2>5, <2>6 DEF SeenOf
<1>15. ASSUME ~ again PROVE SeenOf(t)'
  <2>1. /\ at'[t] = "act" /\ parts'[t] = kept /\ first'[t] = first[t]
        /\ seen'[t] = seen[t] /\ node' = node /\ call'[t] = call[t]
    BY <1>1, <1>2, <1>15 DEF TypeOK, treeVars
  <2>2. (Goal(t))' = goal
    BY <1>1, <1>15, <2>1 DEF Goal, Target, Walking, goal
  <2>3. WasThere(t)'
    <3>1. CASE ~ atEnd /\ Passes(t)
      <4>1. (WorksOn(t))' = None
        BY <1>5, <2>1, <3>1 DEF WorksOn
      <4>2. QED
        BY <1>12, <2>1, <2>2, <3>1, <4>1 DEF WasThere
    <3>2. CASE ~ (~ atEnd /\ Passes(t))
      <4>1. (WorksOn(t))' = parts[t][1]
        BY <1>4, <1>6, <2>1, <3>2 DEF WorksOn
      <4>2. QED
        BY <1>6, <1>10, <2>1, <2>2, <3>2, <4>1 DEF WasThere, L, goal
    <3>3. QED
      BY <3>1, <3>2
  <2>4. GoalSeen(t)' /\ OnWay(t)' /\ Arrived(t)'
    BY <2>1 DEF GoalSeen, OnWay, Arrived, Walking
  <2>5. PairsOf(t)'
    <3>1. call[t].kind = "rename" => at[t] = "rewalk"
      BY <1>1, <1>15 DEF Walking
    <3>2. QED
      BY <1>2, <2>1, <3>1 DEF SeenOf, PairsOf, Paired, NameOf, Walking
  <2>6. QED
    BY <2>3, <2>4, <2>5 DEF SeenOf
<1>16. node' = node
  BY <1>1 DEF treeVars
<1>17. ASSUME NEW u \in Threads, u # t PROVE SeenOf(u)'
  <2>1. SeenOf(u)
    BY DEF SeenInv
  <2>2. /\ at'[u] = at[u] /\ call'[u] = call[u] /\ parts'[u] = parts[u]
        /\ walked'[u] = walked[u] /\ first'[u] = first[u] /\ seen'[u] = seen[u]
    BY <1>1, <1>2, <1>17 DEF TypeOK, SeenInv
  <2>3. QED
    BY <1>16, <2>1, <2>2, SeenKept
<1>18. seen' = [u \in Threads |-> seen'[u]]
  BY <1>1 DEF SeenInv
<1>19. QED
  BY <1>14, <1>15, <1>17, <1>18 DEF SeenInv

(* What a call does elsewhere in the tree: a walk holds its node, so that  *)
(* it stays where it is, or is cut off with all that is above it.          *)
LEMMA OtherSeen ==
  ASSUME IInv, SeenInv, NEW t \in Threads, NEW u \in Threads, t # u, Return(u),
         next' \in Nat, next <= next', GoodTree(node', next'),
         node' = node \/ \E d \in Held(u) : Changed(node', d, Held(u))
  PROVE  SeenOf(t)'
<1> DEFINE goal == Goal(t)
           L    == Len(Goal(t))
           w    == walked[t]
<1>1. TypeOK /\ TreeInv /\ WalkInv /\ LocksAreOfPaths /\ SeenOf(t) /\ WalkOf(t)
  BY DEF IInv, SeenInv, WalkInv
<1>2. /\ at'[t] = at[t] /\ call'[t] = call[t] /\ parts'[t] = parts[t]
      /\ walked'[t] = w /\ first'[t] = first[t]
      /\ seen'[t] = IF ~ Walking(t) THEN seen[t]
                    ELSE seen[t] \cup {Lookup(node', Target(call[t], Path(t)))}
  BY <1>1 DEF Return, TypeOK
<1>3. /\ (Goal(t))' = goal /\ (Path(t))' = Path(t) /\ (Walking(t)' <=> Walking(t))
      /\ (WorksOn(t))' = WorksOn(t)
  BY <1>2 DEF Goal, Target, Path, Walking, WorksOn
<1>4. /\ next \in Nat /\ 2 <= next /\ next - 1 <= MaxNodes /\ GoodTree(node, next)
      /\ parts[t] \in Seq(1 .. next - 1) /\ first[t] \in Seq(1 .. next - 1)
  BY <1>1, TreeAssumption DEF TreeInv
<1>5. ASSUME NEW n \in 1 .. next - 1, n \in Held(t), NEW x \in Names
      PROVE  n \notin Held(u) /\ node'[n].items[x] = node[n].items[x]
  <2>1. n \in Nodes
    BY <1>4, TreeAssumption DEF Nodes
  <2>2. n \notin Held(u)
    BY <1>1, <1>5, <2>1 DEF LocksAreOfPaths
  <2>3. QED
    BY <1>4, <1>5, <2>2 DEF Changed
<1>6. ASSUME NEW s \in Seq(1 .. next - 1), NEW path \in Seq(Names), path # <<>>,
             Elements(s) \subseteq Held(t), Paired(path, s)
      PROVE  Len(s) = 2 => node'[s[1]].items[NameOf(path)] = s[2]
  <2> SUFFICES ASSUME Len(s) = 2 PROVE node'[s[1]].items[NameOf(path)] = s[2]
    OBVIOUS
  <2>1. s[1] \in Held(t) /\ s[1] \in 1 .. next - 1
    BY <1>4, <1>6, TwoNodes
  <2>2. NameOf(path) \in Names
    BY <1>6, NameFacts
  <2>3. QED
    BY <1>5, <1>6, <2>1, <2>2 DEF Paired
<1>7. PairsOf(t)'
  <2>1. Elements(parts[t]) \subseteq Held(t) /\ Elements(first[t]) \subseteq Held(t)
    BY DEF Held
  <2>2. ASSUME Walking(t), Len(parts[t]) = 2
        PROVE  node'[parts[t][1]].items[NameOf(Path(t))] = parts[t][2]
    <3>1. Path(t) \in Seq(Names) /\ Path(t) # <<>>
      <4>1. /\ Path(t) \in Seq(Names) /\ Len(Path(t)) \in Nat /\ w \in Nat
            /\ PathSize(t) = 2 => Len(Path(t)) > 0
        BY <1>1, <2>2, PathFacts, ThreadFacts
      <4>2. PathSize(t) = 2
        <5>1. w # 0
          <6>1. w = 0 => parts[t] = <<>>
            BY <1>1, <2>2 DEF WalkOf, Walking
          <6> HIDE DEF w
          <6>2. QED
            BY <2>2, <6>1, NoSeq
        <5>2. QED
          BY <1>1, <2>2, <4>1, <5>1 DEF WalkOf
      <4>3. QED
        BY <4>1, <4>2
    <3>2. Paired(Path(t), parts[t])
      BY <1>1, <2>2 DEF SeenOf, PairsOf
    <3>3. QED
      BY <1>4, <1>6, <2>1, <2>2, <3>1, <3>2
  <2>3. ASSUME at[t] \in {"rewalk", "act"}, call[t].kind = "rename", Len(first[t]) = 2
        PROVE  node'[first[t][1]].items[NameOf(call[t].path)] = first[t][2]
    <3>1. call[t] \in Calls \cup {NoCall}
      BY <1>1, ThreadFacts
    <3>2. call[t].path \in Seq(Names) /\ call[t].path # <<>>
      BY <2>3, <3>1, CallFacts
    <3>3. Paired(call[t].path, first[t])
      BY <1>1, <2>3 DEF SeenOf, PairsOf
    <3>4. QED
      BY <1>4, <1>6, <2>1, <2>3, <3>2, <3>3
  <2>4. QED
    BY <1>2, <1>3, <2>2, <2>3 DEF PairsOf, Paired, NameOf
<1>8. WasThere(t)'
  BY <1>1, <1>2, <1>3 DEF SeenOf, WasThere, Walking
<1>9. Arrived(t)'
  BY <1>1, <1>2, <1>3 DEF SeenOf, Arrived
<1>10. ASSUME Walking(t) PROVE Goal(t) = Target(call[t], Path(t)) /\ goal \in Seq(Names)
  BY <1>1, <1>10, GoalFacts
<1>11. GoalSeen(t)'
  BY <1>2, <1>3, <1>10 DEF GoalSeen
<1>12. OnWay(t)'
  <2> SUFFICES ASSUME Walking(t), w \in 1 .. L
               PROVE  /\ Attached(t)' \/ (w > 1 /\ None \in seen'[t])
                      /\ L = 2 /\ w = 2 => node'[parts[t][1]].items[goal[2]] \in seen'[t]
    BY <1>2, <1>3 DEF OnWay
  <2>1. /\ goal \in Seq(Names) /\ L \in Nat /\ L = Len(Path(t)) - PathSize(t) + 1
        /\ Goal(t) = Target(call[t], Path(t))
        /\ Len(Path(t)) \in Nat /\ PathSize(t) \in {1, 2}
    BY <1>1, GoalFacts, PathFacts
  <2>2. Len(parts[t]) = 1
    <3>1. w > 0 /\ w # Len(Path(t)) + 1
      BY <2>1
    <3>2. QED
      BY <1>1, <3>1 DEF WalkOf
  <2>3. parts[t][1] \in 1 .. next - 1 /\ parts[t][1] \in Held(t)
    BY <1>4, <2>2, OfLengthOne DEF Held
  <2>4. seen'[t] = seen[t] \cup {Lookup(node', goal)}
    BY <1>2, <2>1
  <2>5. /\ Attached(t) \/ (w > 1 /\ None \in seen[t])
        /\ L = 2 /\ w = 2 => node[parts[t][1]].items[goal[2]] \in seen[t]
    BY <1>1 DEF SeenOf, OnWay
  <2>6. Attached(t) <=> parts[t][1] = Reached(node, goal)[w - 1]
    BY DEF Attached
  <2>7. Attached(t)' <=> parts[t][1] = Reached(node', goal)[w - 1]
    BY <1>2, <1>3 DEF Attached
  <2>8. Attached(t) => \/ Reached(node', goal)[w - 1] = Reached(node, goal)[w - 1]
                       \/ Lookup(node', goal) = None
    <3> SUFFICES ASSUME Attached(t)
                 PROVE  \/ Reached(node', goal)[w - 1] = Reached(node, goal)[w - 1]
                        \/ Lookup(node', goal) = None
      OBVIOUS
    <3>1. CASE node' = node
      BY <3>1
    <3>2. CASE \E d \in Held(u) : Changed(node', d, Held(u))
      <4>1. PICK d \in Held(u) : Changed(node', d, Held(u))
        BY <3>2
      <4>2. parts[t][1] \notin Held(u) \cup {None}
        <5>1. parts[t][1] \notin Held(u)
          <6>1. parts[t][1] \in Nodes
            BY <1>4, <2>3, TreeAssumption DEF Nodes
          <6>2. QED
            BY <1>1, <2>3, <6>1 DEF LocksAreOfPaths
        <5>2. QED
          BY <2>3, <5>1 DEF None
      <4>3. Reached(node, goal)[w - 1] \notin Held(u) \cup {None}
        BY <2>6, <4>2
      <4>4. w \in 1 .. Len(goal)
        OBVIOUS
      <4> HIDE DEF goal, L, w
      <4>5. QED
        BY <1>4, <2>1, <4>1, <4>3, <4>4, CutOrKept
    <3>3. QED
      BY <3>1, <3>2
  <2>9. w - 1 = 0 => Attached(t)'
    <3>1. w - 1 = 0 => Attached(t)
      BY <2>5
    <3>2. Reached(node, goal)[0] = Root
      <4> HIDE DEF goal
      <4>1. QED
        BY <1>4, <2>1, ReachedFacts
    <3>3. Reached(node', goal)[0] = Root
      <4>1. 2 <= next'
        BY <1>4
      <4> HIDE DEF goal
      <4>2. QED
        BY <2>1, <4>1, ReachedFacts
    <3>4. QED
      BY <2>6, <2>7, <3>1, <3>2, <3>3
  <2>10. L = 2 => goal[2] \in Names
    BY <2>1
  <2>11. L = 2 => node'[parts[t][1]].items[goal[2]] = node[parts[t][1]].items[goal[2]]
    BY <1>5, <2>3, <2>10
  <2> HIDE DEF goal, L, w
  <2>12. w \in Nat /\ w >= 1
    BY <2>1
  <2>13. QED
    BY <2>4, <2>5, <2>6, <2>7, <2>8, <2>9, <2>11, <2>12
<1>13. QED
  BY <1>7, <1>8, <1>9, <1>11, <1>12 DEF SeenOf

LEMMA ActSeen ==
  ASSUME IInv, SeenInv, NEW u \in Threads,
         Nothing(u) \/ MakeDir(u) \/ RemoveDir(u) \/ RenameSong(u) \/ RenameDummy(u)
  PROVE  SeenInv'
<1>1. Return(u)
  BY DEF Nothing, MakeDir, RemoveDir, RenameSong, RenameDummy
<1>2. next' \in Nat /\ next <= next' /\ GoodTree(node', next')
  BY ActTree
<1>3. node' = node \/ \E d \in Held(u) : Changed(node', d, Held(u))
  BY ActEffect DEF SeenInv, SeenOf
<1>4. ASSUME NEW t \in Threads, t # u PROVE SeenOf(t)'
  BY <1>1, <1>2, <1>3, <1>4, OtherSeen
<1>5. SeenOf(u)'
  <2>1. at'[u] = "idle"
    BY <1>1 DEF Return, IInv, TypeOK
  <2>2. QED
    BY <2>1 DEF SeenOf, GoalSeen, OnWay, Arrived, WasThere, PairsOf, Walking
<1>6. seen' = [t \in Threads |-> seen'[t]]
  BY <1>1 DEF Return
<1>7. QED
  BY <1>4, <1>5, <1>6 DEF SeenInv

LEMMA DieSeen ==
  ASSUME NEW t \in Threads, Die(t)
  PROVE  SeenInv'
<1>1. \A u \in Threads : at'[u] = "idle"
  BY DEF Die
<1>2. \A u \in Threads : SeenOf(u)'
  BY <1>1 DEF SeenOf, GoalSeen, OnWay, Arrived, WasThere, PairsOf, Walking
<1>3. seen' = [u \in Threads |-> seen'[u]]
  BY DEF Die
<1>4. QED
  BY <1>2, <1>3 DEF SeenInv

(* What a call works on was where its path led at some moment since it     *)
(* began to walk: findPath holds a node before it leaves the one above, so *)
(* that what is changed meanwhile either leaves it in its place or cuts    *)
(* the whole way off, and then the path leads to nothing at that moment.   *)
THEOREM FoundNodesWereThere == Spec => []FoundWasThere
<1>1. Init => SeenInv
  <2> SUFFICES ASSUME Init PROVE SeenInv
    OBVIOUS
  <2>1. \A u \in Threads : SeenOf(u)
    BY DEF Init, SeenOf, GoalSeen, OnWay, Arrived, WasThere, PairsOf, Walking
  <2>2. QED
    BY <2>1 DEF Init, SeenInv
<1>2. IInv /\ SeenInv /\ [Next]_vars => SeenInv'
  <2> SUFFICES ASSUME IInv, SeenInv, [Next]_vars PROVE SeenInv'
    OBVIOUS
  <2>1. ASSUME NEW t \in Threads, NEW c \in Calls, Begin(t, c) PROVE SeenInv'
    BY <2>1, BeginSeen
  <2>2. ASSUME NEW t \in Threads, Step(t) PROVE SeenInv'
    BY <2>2, LockRootSeen, DescendSeen, EndWalkSeen, DieSeen, ActSeen DEF Step
  <2>3. ASSUME UNCHANGED vars PROVE SeenInv'
    <3>1. ASSUME NEW t \in Threads PROVE SeenOf(t)'
      <4>1. SeenOf(t)
        BY DEF SeenInv
      <4>2. /\ node' = node /\ at' = at /\ call' = call /\ parts' = parts
            /\ walked' = walked /\ first' = first /\ seen' = seen
        BY <2>3 DEF vars, treeVars, walkVars
      <4>3. QED
        BY <4>1, <4>2, SeenKept
    <3>2. seen' = seen
      BY <2>3 DEF vars
    <3>3. QED
      BY <3>1, <3>2 DEF SeenInv
  <2>4. QED
    BY <2>1, <2>2, <2>3 DEF Next, Stopped
<1>3. SeenInv => FoundWasThere
  BY DEF SeenInv, SeenOf, WasThere, FoundWasThere
<1>4. QED
  BY <1>1, <1>2, <1>3, Invariance, PTL DEF Spec
-----------------------------------------------------------------------------
(* SongDirectory. *)
DirNames == Numbers \cup Intervals \cup {Refresh, Nested, Similar}

DirType == [dirs : SUBSET DirNames, time : [FileNames -> Nat], hidden : SUBSET FileNames,
            offset : Nat, cnt : Nat, counter : Numbers \cup Intervals \cup {NoDir}]

Plain(d) == d \in DirType /\ IsFiniteSet(d.dirs)

TypeInv == /\ kind \in Controls /\ there \in BOOLEAN /\ spoiled \in BOOLEAN
           /\ Plain(dir)

(* VK lists a song once.                                                   *)
ServerInv == /\ server \in Seq(1 .. NumSongs)
             /\ \A i, j \in 1 .. Len(server) : server[i] = server[j] => i = j

(* The songs are those of w, a file of each, ordered by time.              *)
Shows(time, w) ==
  /\ {x \in FileNames \ {Photo} : time[x] > 0} = {<<w[i], 1>> : i \in 1 .. Len(w)}
  /\ \A i, j \in 1 .. Len(w) : i < j => time[<<w[i], 1>>] < time[<<w[j], 1>>]

ShownInv == there /\ ~ spoiled => Shows(dir.time, Window(dir.offset, dir.cnt))

PhotoInv == dir.time[Photo] > 0 => kind = "playlist"

SongsInv == TypeInv /\ ServerInv /\ ShownInv /\ PhotoInv /\ CounterIsTrue
-----------------------------------------------------------------------------
(* What VK lists. *)
LEMMA LeastOfTwo ==
  ASSUME NEW a \in Int, NEW b \in Int
  PROVE  Min({a, b}) = IF a <= b THEN a ELSE b
<1> DEFINE m == IF a <= b THEN a ELSE b
<1>1. m \in {a, b} /\ \A y \in {a, b} : m <= y
  OBVIOUS
<1>2. /\ Min({a, b}) \in {a, b}
      /\ \A y \in {a, b} : Min({a, b}) <= y
  BY <1>1 DEF Min
<1> QED
  BY <1>1, <1>2

LEMMA SongsOf ==
  ASSUME NEW s \in Seq(1 .. NumSongs)
  PROVE  Len(s) \in Nat /\ \A i \in 1 .. Len(s) : s[i] \in 1 .. NumSongs
<1> DEFINE S == 1 .. NumSongs
<1> HIDE DEF S
<1>1. s \in Seq(S)
  BY DEF S
<1>2. Len(s) \in Nat /\ \A i \in 1 .. Len(s) : s[i] \in S
  BY <1>1, ElementOfSeq
<1> QED
  BY <1>2 DEF S

(* The places of a window, and what is there.                              *)
LEMMA WindowIs ==
  ASSUME ServerInv, NEW o \in Nat, NEW c \in Nat
  PROVE  /\ Window(o, c) \in Seq(1 .. NumSongs)
         /\ \A i \in Nat : i \in 1 .. Len(Window(o, c))
                             <=> 1 <= i /\ i <= c /\ o + i <= Len(server)
         /\ \A i \in 1 .. Len(Window(o, c)) : Window(o, c)[i] = server[o + i]
<1> DEFINE l == IF o + c <= Len(server) THEN o + c ELSE Len(server)
<1>1. Len(server) \in Nat /\ \A i \in 1 .. Len(server) : server[i] \in 1 .. NumSongs
  BY SongsOf DEF ServerInv
<1>2. Window(o, c) = SubSeq(server, o + 1, l)
  <2>1. o + c \in Int /\ Len(server) \in Int
    BY <1>1
  <2>2. Min({o + c, Len(server)}) = l
    BY <2>1, LeastOfTwo
  <2> QED
    BY <2>2 DEF Window
<1>3. l \in Int /\ o + 1 \in Int /\ \A i \in o + 1 .. l : server[i] \in 1 .. NumSongs
  BY <1>1
<1>4. /\ SubSeq(server, o + 1, l) \in Seq(1 .. NumSongs)
      /\ Len(SubSeq(server, o + 1, l)) = IF o + 1 <= l THEN l - (o + 1) + 1 ELSE 0
      /\ \A i \in 1 .. l - (o + 1) + 1 : SubSeq(server, o + 1, l)[i] = server[o + 1 + i - 1]
  BY <1>3, SubSeqProperties
<1>5. l - (o + 1) + 1 = l - o /\ \A i \in Int : o + 1 + i - 1 = o + i
  BY <1>1
<1>6. Len(Window(o, c)) = IF o + 1 <= l THEN l - o ELSE 0
  BY <1>2, <1>4, <1>5
<1> QED
  BY <1>1, <1>2, <1>4, <1>5, <1>6

(* A window shows no song twice.                                           *)
LEMMA WindowDistinct ==
  ASSUME ServerInv, NEW o \in Nat, NEW c \in Nat
  PROVE  \A i, j \in 1 .. Len(Window(o, c)) : Window(o, c)[i] = Window(o, c)[j] => i = j
<1> SUFFICES ASSUME NEW i \in 1 .. Len(Window(o, c)), NEW j \in 1 .. Len(Window(o, c)),
                    Window(o, c)[i] = Window(o, c)[j]
             PROVE  i = j
  OBVIOUS
<1>1. Window(o, c) \in Seq(1 .. NumSongs)
  BY WindowIs
<1>2. /\ i \in Nat /\ j \in Nat
      /\ o + i \in 1 .. Len(server) /\ o + j \in 1 .. Len(server)
  <2>1. i \in Nat /\ j \in Nat /\ Len(server) \in Nat
    BY <1>1 DEF ServerInv
  <2>2. 1 <= i /\ o + i <= Len(server) /\ 1 <= j /\ o + j <= Len(server)
    BY <2>1, WindowIs
  <2> QED
    BY <2>1, <2>2
<1>3. server[o + i] = server[o + j]
  BY WindowIs
<1> QED
  BY <1>2, <1>3 DEF ServerInv

(* No window begins with no songs.                                         *)
LEMMA WindowOfNone ==
  ASSUME ServerInv, NEW o \in Nat
  PROVE  1 .. Len(Window(o, 0)) = {}
<1>1. Window(o, 0) \in Seq(1 .. NumSongs)
  BY WindowIs
<1>2. \A i \in Nat : i \in 1 .. Len(Window(o, 0)) => i <= 0
  BY WindowIs
<1> QED
  BY <1>1, <1>2
-----------------------------------------------------------------------------
(* Names, files and their number. *)
LEMMA NameIs ==
  ASSUME NEW x \in FileNames \ {Photo}
  PROVE  /\ x = <<x[1], x[2]>> /\ x[1] \in 1 .. NumSongs
         /\ x[2] \in 1 .. MaxCopies /\ x[2] \in Nat
BY DirectoryAssumption DEF FileNames

LEMMA FirstName ==
  ASSUME NEW s \in 1 .. NumSongs
  PROVE  <<s, 1>> \in FileNames \ {Photo}
<1>1. 1 \in 1 .. MaxCopies
  BY DirectoryAssumption
<1>2. <<s, 1>> \in (1 .. NumSongs) \X (1 .. MaxCopies)
  BY <1>1
<1> QED
  BY <1>2, DirectoryAssumption DEF FileNames

LEMMA NamesFinite == IsFiniteSet(FileNames)
<1>1. IsFiniteSet(1 .. NumSongs) /\ IsFiniteSet(1 .. MaxCopies)
  BY DirectoryAssumption, FS_Interval
<1>2. IsFiniteSet((1 .. NumSongs) \X (1 .. MaxCopies))
  BY <1>1, FS_Product
<1> QED
  BY <1>2, FS_AddElement DEF FileNames

LEMMA FilesCount ==
  ASSUME NEW d, Plain(d)
  PROVE  /\ Files(d) \subseteq FileNames /\ IsFiniteSet(Files(d))
         /\ Cardinality(Files(d)) \in Nat /\ Cardinality(d.dirs) \in Nat
         /\ Size(d) \in Nat
<1>1. Files(d) \subseteq FileNames
  BY DEF Files
<1>2. IsFiniteSet(Files(d))
  BY <1>1, NamesFinite, FS_Subset
<1>3. Cardinality(Files(d)) \in Nat /\ Cardinality(d.dirs) \in Nat
  BY <1>2, FS_CardinalityType DEF Plain
<1> QED
  BY <1>1, <1>2, <1>3 DEF Size
-----------------------------------------------------------------------------
(* Operators that change a directory. *)
LEMMA KeepItemsIs ==
  ASSUME NEW d, Plain(d), NEW files, NEW dirs
  PROVE  LET k == KeepItems(d, files, dirs)
         IN  /\ Plain(k)
             /\ k.offset = d.offset /\ k.cnt = d.cnt /\ k.dirs = d.dirs \cap dirs
             /\ k.counter = IF d.counter \in dirs THEN d.counter ELSE NoDir
             /\ \A x \in FileNames : k.time[x] = IF x \in files THEN d.time[x] ELSE 0
<1> DEFINE k == KeepItems(d, files, dirs)
<1>1. d \in DirType /\ IsFiniteSet(d.dirs)
  BY DEF Plain
<1>2. /\ k = [d EXCEPT !.dirs = d.dirs \cap dirs,
                       !.time = [x \in FileNames |-> IF x \in files THEN d.time[x] ELSE 0],
                       !.hidden = d.hidden \cap files,
                       !.counter = IF d.counter \in dirs THEN d.counter ELSE NoDir]
  BY <1>1 DEF KeepItems, DirType
<1>3. [x \in FileNames |-> IF x \in files THEN d.time[x] ELSE 0] \in [FileNames -> Nat]
  BY <1>1 DEF DirType
<1>4. k \in DirType
  BY <1>1, <1>2, <1>3 DEF DirType
<1>5. IsFiniteSet(k.dirs)
  <2>1. k.dirs = d.dirs \cap dirs
    BY <1>1, <1>2 DEF DirType
  <2> QED
    BY <2>1, <1>1, FS_Subset
<1>6. k.time = [x \in FileNames |-> IF x \in files THEN d.time[x] ELSE 0]
  BY <1>1, <1>2 DEF DirType
<1>7. /\ k.offset = d.offset /\ k.cnt = d.cnt /\ k.dirs = d.dirs \cap dirs
      /\ k.counter = IF d.counter \in dirs THEN d.counter ELSE NoDir
  BY <1>1, <1>2 DEF DirType
<1> QED
  BY <1>4, <1>5, <1>6, <1>7 DEF Plain

(* Without one of its directories it has the files it had.                 *)
LEMMA WithoutDirIs ==
  ASSUME NEW d, Plain(d), NEW x
  PROVE  LET k == WithoutDir(d, x)
         IN  /\ Plain(k) /\ k.time = d.time
             /\ k.offset = d.offset /\ k.cnt = d.cnt /\ k.dirs = d.dirs \ {x}
             /\ k.counter = IF d.counter \in d.dirs \ {x} THEN d.counter ELSE NoDir
<1> DEFINE k == WithoutDir(d, x)
<1>1. /\ Plain(k)
      /\ k.offset = d.offset /\ k.cnt = d.cnt /\ k.dirs = d.dirs \cap (d.dirs \ {x})
      /\ k.counter = IF d.counter \in d.dirs \ {x} THEN d.counter ELSE NoDir
      /\ \A y \in FileNames : k.time[y] = IF y \in Files(d) THEN d.time[y] ELSE 0
  BY KeepItemsIs DEF WithoutDir
<1>2. k.time \in [FileNames -> Nat] /\ d.time \in [FileNames -> Nat]
  BY <1>1 DEF Plain, DirType
<1>3. \A y \in FileNames : k.time[y] = d.time[y]
  BY <1>1, <1>2 DEF Files
<1> QED
  BY <1>1, <1>2, <1>3

LEMMA BeforeNumberIs ==
  ASSUME Plain(dir)
  PROVE  LET d == BeforeNumber
         IN  /\ Plain(d) /\ d.time = dir.time /\ d.offset = dir.offset /\ d.cnt = dir.cnt
             /\ d.dirs \subseteq dir.dirs \ {Refresh, dir.counter}
             /\ d.counter \in {NoDir, dir.counter} /\ (d.counter # NoDir => d.counter \in d.dirs)
<1> DEFINE e == WithoutDir(dir, Refresh)
<1>1. /\ Plain(e) /\ e.time = dir.time /\ e.offset = dir.offset /\ e.cnt = dir.cnt
      /\ e.dirs = dir.dirs \ {Refresh}
      /\ e.counter = IF dir.counter \in dir.dirs \ {Refresh} THEN dir.counter ELSE NoDir
  BY WithoutDirIs
<1> QED
  BY <1>1, WithoutDirIs DEF BeforeNumber

LEMMA WithPhotoIs ==
  ASSUME NEW d, Plain(d)
  PROVE  LET p == WithPhoto(d)
         IN  /\ Plain(p) /\ Size(p) >= Size(d)
             /\ p.offset = d.offset /\ p.cnt = d.cnt /\ p.dirs = d.dirs /\ p.counter = d.counter
             /\ \A x \in FileNames \ {Photo} : p.time[x] = d.time[x]
             /\ p.time[Photo] > 0 => kind = "playlist" \/ d.time[Photo] > 0
<1> DEFINE p == WithPhoto(d)
<1>0. Size(d) \in Nat
  BY FilesCount
<1>1. CASE p = d
  BY <1>0, <1>1
<1>2. CASE p # d
  <2>1. /\ p = [d EXCEPT !.time[Photo] = Size(d) + 1, !.hidden = d.hidden \cup {Photo}]
        /\ kind = "playlist" /\ Photo \notin Files(d)
    BY <1>2 DEF WithPhoto, Plain, DirType
  <2>2. Photo \in FileNames
    BY DEF FileNames
  <2>3. /\ p.time = [d.time EXCEPT ![Photo] = Size(d) + 1] /\ p.hidden = d.hidden \cup {Photo}
        /\ p.offset = d.offset /\ p.cnt = d.cnt /\ p.dirs = d.dirs /\ p.counter = d.counter
        /\ p \in DirType
    <3>1. d \in DirType /\ Size(d) + 1 \in Nat
      BY <1>0 DEF Plain
    <3>2. [d.time EXCEPT ![Photo] = Size(d) + 1] \in [FileNames -> Nat]
      BY <2>2, <3>1 DEF DirType
    <3>3. d.hidden \cup {Photo} \in SUBSET FileNames
      BY <2>2, <3>1 DEF DirType
    <3> DEFINE t == [d.time EXCEPT ![Photo] = Size(d) + 1]
               h == d.hidden \cup {Photo}
    <3>4. p = [d EXCEPT !.time = t, !.hidden = h]
      BY <2>1, <3>1 DEF DirType
    <3> HIDE DEF t, h, p
    <3>5. /\ p.time = t /\ p.hidden = h /\ p.offset = d.offset /\ p.cnt = d.cnt
          /\ p.dirs = d.dirs /\ p.counter = d.counter
      BY <3>1, <3>4 DEF DirType
    <3>6. t \in [FileNames -> Nat] /\ h \in SUBSET FileNames
      BY <3>2, <3>3 DEF t, h
    <3>7. p \in DirType
      BY <3>1, <3>4, <3>6 DEF DirType
    <3> QED
      BY <3>5, <3>7 DEF t, h
  <2>4. /\ p.time[Photo] = Size(d) + 1
        /\ \A x \in FileNames \ {Photo} : p.time[x] = d.time[x]
    BY <2>2, <2>3 DEF Plain, DirType
  <2>5. Plain(p)
    BY <2>3 DEF Plain
  <2>6. Files(p) = Files(d) \cup {Photo}
    BY <1>0, <2>2, <2>4 DEF Files
  <2>7. Size(p) = Size(d) + 1
    <3>1. Cardinality(Files(p)) = Cardinality(Files(d)) + 1
      BY <2>1, <2>6, FilesCount, FS_AddElement
    <3>2. Cardinality(Files(d)) \in Nat /\ Cardinality(d.dirs) \in Nat
      BY FilesCount
    <3> QED
      BY <3>1, <3>2, <2>3 DEF Size
  <2> QED
    BY <1>0, <2>1, <2>3, <2>4, <2>5, <2>7
<1> QED
  BY <1>1, <1>2
-----------------------------------------------------------------------------
(* The files addFilesToDir makes. *)
New(d, songs) ==
  {x \in FileNames \ (Files(d) \cup {Photo}) :
     /\ x[1] \in Range(songs)
     /\ \A k \in 1 .. x[2] - 1 : <<x[1], k>> \in Files(d)}

Place(x, songs) == CHOOSE i \in DOMAIN songs : songs[i] = x[1]

LEMMA AddFilesIs ==
  ASSUME NEW d, Plain(d), NEW songs \in Seq(1 .. NumSongs)
  PROVE  LET f == AddFiles(d, songs)
         IN  /\ Plain(f)
             /\ f.offset = d.offset /\ f.cnt = d.cnt /\ f.dirs = d.dirs /\ f.counter = d.counter
             /\ \A x \in FileNames : f.time[x] = IF x \in New(d, songs) THEN Size(d) + Place(x, songs)
                                             ELSE d.time[x]
<1> DEFINE f == AddFiles(d, songs)
           time == [x \in FileNames |-> IF x \in New(d, songs) THEN Size(d) + Place(x, songs)
                                    ELSE d.time[x]]
<1>1. f = [d EXCEPT !.time = time, !.hidden = d.hidden \cup New(d, songs)]
  BY DEF AddFiles, New, Place, Plain, DirType
<1>2. ASSUME NEW x \in New(d, songs)
      PROVE  Place(x, songs) \in Nat
  <2>1. \E i \in DOMAIN songs : songs[i] = x[1]
    BY DEF New, Range
  <2>2. Place(x, songs) \in DOMAIN songs
    BY <2>1 DEF Place
  <2> QED
    BY <2>2
<1>3. time \in [FileNames -> Nat]
  BY <1>2, FilesCount DEF Plain, DirType
<1>4. New(d, songs) \subseteq FileNames
  BY DEF New
<1> HIDE DEF time
<1>5. /\ f.time = time /\ f.dirs = d.dirs
      /\ f.offset = d.offset /\ f.cnt = d.cnt /\ f.counter = d.counter /\ f \in DirType
  BY <1>1, <1>3, <1>4 DEF Plain, DirType
<1> QED
  BY <1>5 DEF Plain, time

(* Adjacent windows make one. *)
LEMMA WindowsJoin ==
  ASSUME ServerInv, NEW o \in Nat, NEW c \in Nat, NEW n \in Nat
  PROVE  LET w == Window(o, c)
             v == Window(o + c, n)
             t == Window(o, c + n)
         IN  /\ \A i \in 1 .. Len(w) : i \in 1 .. Len(t) /\ t[i] = w[i] /\ i <= c
             /\ \A j \in 1 .. Len(v) : c + j \in 1 .. Len(t) /\ t[c + j] = v[j]
             /\ \A i \in 1 .. Len(t) : \/ i \in 1 .. Len(w) /\ w[i] = t[i]
                                       \/ i - c \in 1 .. Len(v) /\ v[i - c] = t[i]
<1> DEFINE w == Window(o, c)
           v == Window(o + c, n)
           t == Window(o, c + n)
<1>0. o + c \in Nat /\ c + n \in Nat /\ Len(server) \in Nat
  BY DEF ServerInv
<1>1. /\ w \in Seq(1 .. NumSongs)
      /\ \A i \in Nat : i \in 1 .. Len(w) <=> 1 <= i /\ i <= c /\ o + i <= Len(server)
      /\ \A i \in 1 .. Len(w) : w[i] = server[o + i]
  BY WindowIs
<1>2. /\ v \in Seq(1 .. NumSongs)
      /\ \A i \in Nat : i \in 1 .. Len(v) <=> 1 <= i /\ i <= n /\ o + c + i <= Len(server)
      /\ \A i \in 1 .. Len(v) : v[i] = server[o + c + i]
  BY <1>0, WindowIs
<1>3. /\ t \in Seq(1 .. NumSongs)
      /\ \A i \in Nat : i \in 1 .. Len(t) <=> 1 <= i /\ i <= c + n /\ o + i <= Len(server)
      /\ \A i \in 1 .. Len(t) : t[i] = server[o + i]
  BY <1>0, WindowIs
<1> HIDE DEF w, v, t
<1>4. ASSUME NEW i \in 1 .. Len(w) PROVE i \in 1 .. Len(t) /\ t[i] = w[i] /\ i <= c
  <2>1. i \in Nat
    BY <1>1
  <2> QED
    BY <2>1, <1>0, <1>1, <1>3
<1>5. ASSUME NEW j \in 1 .. Len(v) PROVE c + j \in 1 .. Len(t) /\ t[c + j] = v[j]
  <2>1. j \in Nat /\ c + j \in Nat
    BY <1>2
  <2>2. 1 <= j /\ j <= n /\ o + c + j <= Len(server)
    BY <2>1, <1>2
  <2>3. c + j \in 1 .. Len(t)
    <3>1. 1 <= c + j /\ c + j <= c + n /\ o + (c + j) <= Len(server)
      BY <2>1, <2>2, <1>0
    <3> QED
      BY <2>1, <3>1, <1>3
  <2>4. t[c + j] = server[o + (c + j)]
    BY <2>3, <1>3
  <2>5. v[j] = server[o + c + j]
    BY <1>2
  <2>6. o + (c + j) = o + c + j
    BY <2>1
  <2> QED
    BY <2>3, <2>4, <2>5, <2>6
<1>6. ASSUME NEW i \in 1 .. Len(t)
      PROVE  \/ i \in 1 .. Len(w) /\ w[i] = t[i]
             \/ i - c \in 1 .. Len(v) /\ v[i - c] = t[i]
  <2>1. i \in Nat
    BY <1>3
  <2>2. 1 <= i /\ i <= c + n /\ o + i <= Len(server) /\ t[i] = server[o + i]
    BY <2>1, <1>3
  <2>3. CASE i <= c
    BY <2>1, <2>2, <2>3, <1>1
  <2>4. CASE ~ (i <= c)
    <3>1. i - c \in Nat /\ 1 <= i - c /\ i - c <= n /\ o + c + (i - c) = o + i
      BY <2>1, <2>2, <2>4
    <3>2. i - c \in 1 .. Len(v)
      BY <2>2, <3>1, <1>2
    <3> QED
      BY <2>2, <3>1, <3>2, <1>2
  <2> QED
    BY <2>3, <2>4
<1> QED
  BY <1>4, <1>5, <1>6 DEF w, v, t

(* The songs of the next window come after those of the window shown.      *)
LEMMA AddFilesShows ==
  ASSUME ServerInv, NEW d, Plain(d), NEW o \in Nat, NEW c \in Nat, NEW n \in Nat,
         Shows(d.time, Window(o, c)), \A x \in SongFiles(d) : d.time[x] <= Size(d)
  PROVE  Shows(AddFiles(d, Window(o + c, n)).time, Window(o, c + n))
<1> DEFINE w == Window(o, c)
           v == Window(o + c, n)
           t == Window(o, c + n)
           f == AddFiles(d, v)
<1>0. o + c \in Nat /\ c + n \in Nat /\ Size(d) \in Nat /\ d.time \in [FileNames -> Nat]
  BY FilesCount DEF Plain, DirType
<1>1. /\ \A i \in 1 .. Len(w) : i \in 1 .. Len(t) /\ t[i] = w[i] /\ i <= c
      /\ \A j \in 1 .. Len(v) : c + j \in 1 .. Len(t) /\ t[c + j] = v[j]
      /\ \A i \in 1 .. Len(t) : \/ i \in 1 .. Len(w) /\ w[i] = t[i]
                                \/ i - c \in 1 .. Len(v) /\ v[i - c] = t[i]
  BY WindowsJoin
<1>2. \A i, j \in 1 .. Len(t) : t[i] = t[j] => i = j
  BY <1>0, WindowDistinct
<1>3. v \in Seq(1 .. NumSongs) /\ Len(w) \in Nat /\ Len(t) \in Nat /\ Len(v) \in Nat
  <2>1. /\ w \in Seq(1 .. NumSongs) /\ v \in Seq(1 .. NumSongs)
        /\ t \in Seq(1 .. NumSongs)
    BY <1>0, WindowIs
  <2> QED
    BY <2>1
<1>4. SongFiles(d) = {<<w[i], 1>> : i \in 1 .. Len(w)}
  BY DEF Shows, SongFiles, Files
<1>5. \A i, j \in 1 .. Len(w) : i < j => d.time[<<w[i], 1>>] < d.time[<<w[j], 1>>]
  BY DEF Shows
<1>f. /\ Plain(f)
      /\ \A x \in FileNames : f.time[x] = IF x \in New(d, v) THEN Size(d) + Place(x, v)
                                      ELSE d.time[x]
  BY <1>3, AddFilesIs
<1> HIDE DEF w, v, t, f
<1>6. ASSUME NEW j \in 1 .. Len(v), NEW k
      PROVE  <<v[j], k>> \notin SongFiles(d)
  <2> SUFFICES ASSUME <<v[j], k>> \in SongFiles(d) PROVE FALSE
    OBVIOUS
  <2>1. PICK i \in 1 .. Len(w) : <<v[j], k>> = <<w[i], 1>>
    BY <1>4
  <2>2. t[i] = t[c + j] /\ i <= c /\ i \in 1 .. Len(t) /\ c + j \in 1 .. Len(t)
    BY <2>1, <1>1
  <2>3. i = c + j /\ i \in Nat /\ j \in Nat /\ j >= 1
    BY <2>2, <1>2, <1>3
  <2> QED
    BY <2>2, <2>3
<1>7. \A j \in 1 .. Len(v) : v[j] \in 1 .. NumSongs /\ <<v[j], 1>> \in FileNames \ {Photo}
  <2>1. \A j \in 1 .. Len(v) : v[j] \in 1 .. NumSongs
    BY <1>3, SongsOf
  <2> QED
    BY <2>1, FirstName
<1>8. New(d, v) = {<<v[j], 1>> : j \in 1 .. Len(v)}
  <2>1. ASSUME NEW j \in 1 .. Len(v)
        PROVE  <<v[j], 1>> \in New(d, v)
    <3>1. <<v[j], 1>> \in FileNames \ (Files(d) \cup {Photo})
      BY <1>6, <1>7 DEF SongFiles
    <3>2. <<v[j], 1>>[1] = v[j] /\ <<v[j], 1>>[2] = 1 /\ 1 .. <<v[j], 1>>[2] - 1 = {}
      OBVIOUS
    <3>3. v[j] \in Range(v)
      BY <1>3 DEF Range
    <3> QED
      BY <3>1, <3>2, <3>3 DEF New
  <2>2. ASSUME NEW x \in New(d, v)
        PROVE  \E j \in 1 .. Len(v) : x = <<v[j], 1>>
    <3>1. /\ x \in FileNames \ {Photo} /\ x[1] \in Range(v)
          /\ \A k \in 1 .. x[2] - 1 : <<x[1], k>> \in Files(d)
      BY DEF New
    <3>2. x = <<x[1], x[2]>> /\ x[2] \in 1 .. MaxCopies /\ x[2] \in Nat
      BY <3>1, NameIs
    <3>3. PICK j \in 1 .. Len(v) : v[j] = x[1]
      BY <3>1, <1>3 DEF Range
    <3>4. <<v[j], 1>> \notin Files(d)
      BY <1>6, <1>7 DEF SongFiles
    <3>5. x[2] = 1
      <4> SUFFICES ASSUME x[2] # 1 PROVE FALSE
        OBVIOUS
      <4>1. 1 \in 1 .. x[2] - 1
        BY <3>2
      <4> QED
        BY <4>1, <3>1, <3>3, <3>4
    <3> QED
      BY <3>2, <3>3, <3>5
  <2> QED
    BY <2>1, <2>2
<1>9. ASSUME NEW j \in 1 .. Len(v)
      PROVE  f.time[<<v[j], 1>>] = Size(d) + j
  <2>1. \A i \in DOMAIN v : v[i] = v[j] => i = j
    <3>1. ASSUME NEW i \in 1 .. Len(v), v[i] = v[j] PROVE i = j
      <4>1. c + i = c + j
        BY <3>1, <1>1, <1>2
      <4> QED
        BY <4>1, <1>3
    <3> QED
      BY <3>1, <1>3
  <2>2. Place(<<v[j], 1>>, v) = j
    BY <2>1, <1>3 DEF Place
  <2> QED
    BY <2>2, <1>7, <1>8, <1>f
<1>10. ASSUME NEW i \in 1 .. Len(w)
       PROVE  /\ f.time[<<w[i], 1>>] = d.time[<<w[i], 1>>] /\ <<w[i], 1>> \in SongFiles(d)
              /\ f.time[<<w[i], 1>>] <= Size(d)
  <2>1. <<w[i], 1>> \in SongFiles(d)
    BY <1>4
  <2>2. <<w[i], 1>> \in FileNames /\ <<w[i], 1>> \notin New(d, v)
    BY <2>1 DEF SongFiles, Files, New
  <2> QED
    BY <2>1, <2>2, <1>f
<1>11. {x \in FileNames \ {Photo} : f.time[x] > 0} = {<<t[i], 1>> : i \in 1 .. Len(t)}
  <2>1. ASSUME NEW x \in FileNames \ {Photo}, f.time[x] > 0
        PROVE  \E i \in 1 .. Len(t) : x = <<t[i], 1>>
    <3>1. CASE x \in New(d, v)
      BY <3>1, <1>8, <1>1
    <3>2. CASE x \notin New(d, v)
      <4>1. x \in SongFiles(d)
        BY <2>1, <3>2, <1>f DEF SongFiles, Files
      <4> QED
        BY <4>1, <1>4, <1>1
    <3> QED
      BY <3>1, <3>2
  <2>2. ASSUME NEW i \in 1 .. Len(t)
        PROVE  <<t[i], 1>> \in FileNames \ {Photo} /\ f.time[<<t[i], 1>>] > 0
    <3>1. CASE i \in 1 .. Len(w) /\ w[i] = t[i]
      BY <3>1, <1>10 DEF SongFiles, Files
    <3>2. CASE i - c \in 1 .. Len(v) /\ v[i - c] = t[i]
      <4>1. f.time[<<t[i], 1>>] = Size(d) + (i - c)
        BY <3>2, <1>9
      <4>2. Size(d) + (i - c) > 0
        BY <3>2, <1>0, <1>3
      <4>3. <<v[i - c], 1>> \in FileNames \ {Photo}
        BY <3>2, <1>7
      <4> QED
        BY <3>2, <4>1, <4>2, <4>3
    <3> QED
      BY <3>1, <3>2, <1>1
  <2> QED
    BY <2>1, <2>2
<1>12. ASSUME NEW i \in 1 .. Len(t), NEW j \in 1 .. Len(t), i < j
       PROVE  f.time[<<t[i], 1>>] < f.time[<<t[j], 1>>]
  <2>0. i \in Nat /\ j \in Nat
    BY <1>3
  <2>1. CASE i \in 1 .. Len(w) /\ w[i] = t[i] /\ j \in 1 .. Len(w) /\ w[j] = t[j]
    <3>1. d.time[<<w[i], 1>>] < d.time[<<w[j], 1>>]
      BY <1>5, <1>12, <2>1
    <3> QED
      BY <3>1, <2>1, <1>10
  <2>2. CASE i \in 1 .. Len(w) /\ w[i] = t[i] /\ j - c \in 1 .. Len(v) /\ v[j - c] = t[j]
    <3>1. f.time[<<t[j], 1>>] = Size(d) + (j - c) /\ j - c \in Nat /\ j - c > 0
      BY <2>2, <1>9, <1>3
    <3>2. f.time[<<t[i], 1>>] <= Size(d) /\ f.time[<<t[i], 1>>] \in Nat
      BY <2>2, <1>10, <1>0 DEF SongFiles, Files
    <3> QED
      BY <3>1, <3>2, <1>0
  <2>3. CASE i - c \in 1 .. Len(v) /\ v[i - c] = t[i] /\ j \in 1 .. Len(w) /\ w[j] = t[j]
    <3>1. j <= c /\ i - c >= 1
      BY <2>3, <1>1, <1>3
    <3> QED
      BY <3>1, <2>0, <1>12
  <2>4. CASE i - c \in 1 .. Len(v) /\ v[i - c] = t[i] /\ j - c \in 1 .. Len(v) /\ v[j - c] = t[j]
    <3>1. /\ f.time[<<t[i], 1>>] = Size(d) + (i - c)
          /\ f.time[<<t[j], 1>>] = Size(d) + (j - c)
      BY <2>4, <1>9
    <3> QED
      BY <3>1, <2>0, <1>0, <1>12
  <2> QED
    BY <2>1, <2>2, <2>3, <2>4, <1>1
<1> QED
  BY <1>11, <1>12 DEF Shows, t, f, v
-----------------------------------------------------------------------------
(* What the callbacks do: a photo, and the songs of the window.            *)
LEMMA FilledIs ==
  ASSUME ServerInv, NEW d, Plain(d), NEW o \in Nat, NEW n \in Nat,
         d.time[Photo] > 0 => kind = "playlist"
  PROVE  LET f == Filled(d, o, n)
         IN  /\ Plain(f)
             /\ f.time[Photo] > 0 => kind = "playlist"
             /\ f.offset = d.offset /\ f.cnt = d.cnt /\ f.dirs = d.dirs /\ f.counter = d.counter
<1> DEFINE p == WithPhoto(d)
           f == Filled(d, o, n)
<1>1. /\ Plain(p)
      /\ p.time[Photo] > 0 => kind = "playlist"
      /\ p.offset = d.offset /\ p.cnt = d.cnt /\ p.dirs = d.dirs /\ p.counter = d.counter
  BY WithPhotoIs
<1>2. Window(o, n) \in Seq(1 .. NumSongs)
  BY WindowIs
<1>3. f = AddFiles(p, Window(o, n))
  BY DEF Filled
<1> HIDE DEF p, f
<1>4. /\ Plain(f)
      /\ f.offset = p.offset /\ f.cnt = p.cnt /\ f.dirs = p.dirs /\ f.counter = p.counter
      /\ \A x \in FileNames : f.time[x] = IF x \in New(p, Window(o, n))
                                      THEN Size(p) + Place(x, Window(o, n)) ELSE p.time[x]
  <2> DEFINE songs == Window(o, n)
  <2> HIDE DEF songs
  <2>1. /\ Plain(AddFiles(p, songs))
        /\ AddFiles(p, songs).offset = p.offset /\ AddFiles(p, songs).cnt = p.cnt
        /\ AddFiles(p, songs).dirs = p.dirs /\ AddFiles(p, songs).counter = p.counter
        /\ \A x \in FileNames : AddFiles(p, songs).time[x] =
                            IF x \in New(p, songs) THEN Size(p) + Place(x, songs) ELSE p.time[x]
    BY <1>1, <1>2, AddFilesIs DEF songs
  <2> QED
    BY <2>1, <1>3 DEF songs
<1>5. f.time[Photo] = p.time[Photo]
  <2>1. Photo \in FileNames /\ Photo \notin New(p, Window(o, n))
    BY DEF FileNames, New
  <2> QED
    BY <2>1, <1>4
<1> QED
  BY <1>1, <1>4, <1>5 DEF f

LEMMA WindowNames ==
  ASSUME ServerInv, NEW o \in Nat, NEW c \in Nat
  PROVE  \A i \in 1 .. Len(Window(o, c)) : <<Window(o, c)[i], 1>> \in FileNames \ {Photo}
<1> DEFINE w == Window(o, c)
<1>1. w \in Seq(1 .. NumSongs)
  BY WindowIs
<1> HIDE DEF w
<1>2. \A i \in 1 .. Len(w) : w[i] \in 1 .. NumSongs
  BY <1>1, SongsOf
<1>3. \A i \in 1 .. Len(w) : <<w[i], 1>> \in FileNames \ {Photo}
  BY <1>2, FirstName
<1> QED
  BY <1>3 DEF w

(* As Shows looks at songs only.                                           *)
LEMMA ShowsSame ==
  ASSUME NEW t1, NEW t2, NEW w, Shows(t1, w),
         \A i \in 1 .. Len(w) : <<w[i], 1>> \in FileNames \ {Photo},
         \A x \in FileNames \ {Photo} : t2[x] = t1[x]
  PROVE  Shows(t2, w)
BY DEF Shows

LEMMA FilledShows ==
  ASSUME ServerInv, NEW d, Plain(d), NEW o \in Nat, NEW c \in Nat, NEW n \in Nat,
         Shows(d.time, Window(o, c)), \A x \in SongFiles(d) : d.time[x] <= Size(d)
  PROVE  Shows(Filled(d, o + c, n).time, Window(o, c + n))
<1> DEFINE p == WithPhoto(d)
           w == Window(o, c)
<1>1. /\ Plain(p) /\ Size(p) >= Size(d)
      /\ \A x \in FileNames \ {Photo} : p.time[x] = d.time[x]
  BY WithPhotoIs
<1>2. \A i \in 1 .. Len(w) : <<w[i], 1>> \in FileNames \ {Photo}
  <2>1. w \in Seq(1 .. NumSongs)
    BY WindowIs
  <2>2. \A i \in 1 .. Len(w) : w[i] \in 1 .. NumSongs
    BY <2>1, SongsOf
  <2> QED
    BY <2>2, FirstName
<1>3. Shows(p.time, w)
  BY <1>1, <1>2, ShowsSame
<1>4. \A x \in SongFiles(p) : p.time[x] <= Size(p)
  <2>1. Size(p) \in Nat /\ Size(d) \in Nat /\ d.time \in [FileNames -> Nat]
    BY <1>1, FilesCount DEF Plain, DirType
  <2>2. \A x \in SongFiles(p) : /\ x \in SongFiles(d) /\ p.time[x] = d.time[x]
                                /\ d.time[x] \in Nat
    BY <1>1, <2>1 DEF SongFiles, Files
  <2> QED
    BY <1>1, <2>1, <2>2
<1> QED
  BY <1>1, <1>3, <1>4, AddFilesShows DEF Filled

LEMMA EmptyShows ==
  ASSUME ServerInv, NEW t, NEW o \in Nat, \A x \in FileNames \ {Photo} : t[x] = 0
  PROVE  Shows(t, Window(o, 0))
<1>1. 1 .. Len(Window(o, 0)) = {}
  BY WindowOfNone
<1>2. {x \in FileNames \ {Photo} : t[x] > 0} = {}
  OBVIOUS
<1> QED
  BY <1>1, <1>2 DEF Shows

(* A directory without songs shows the window that is asked for.           *)
LEMMA FilledAnew ==
  ASSUME ServerInv, NEW d, Plain(d), NEW o \in Nat, NEW n \in Nat,
         \A x \in FileNames \ {Photo} : d.time[x] = 0
  PROVE  Shows(Filled(d, o, n).time, Window(o, n))
<1>1. Shows(d.time, Window(o, 0))
  BY EmptyShows
<1>2. SongFiles(d) = {}
  BY DEF SongFiles, Files
<1>3. Shows(Filled(d, o + 0, n).time, Window(o, 0 + n))
  BY <1>1, <1>2, FilledShows
<1>4. o + 0 = o /\ 0 + n = n
  OBVIOUS
<1> QED
  BY <1>3, <1>4
-----------------------------------------------------------------------------
(* limitItems leaves the songs of a beginning of the window. *)

LEMMA IntervalCounts ==
  ASSUME NEW m \in Nat
  PROVE  IsFiniteSet(1 .. m) /\ Cardinality(1 .. m) = m
BY FS_Interval

(* Places are left without a gap. *)
LEMMA BeginningOf ==
  ASSUME NEW m \in Nat, NEW I \in SUBSET (1 .. m),
         \A i \in I, j \in 1 .. m : j < i => j \in I
  PROVE  I = 1 .. Cardinality(I)
<1>1. IsFiniteSet(1 .. m)
  BY FS_Interval
<1>2. IsFiniteSet(I) /\ Cardinality(I) \in Nat
  BY <1>1, FS_Subset, FS_CardinalityType
<1> DEFINE k == Cardinality(I)
<1>3. I \subseteq 1 .. k
  <2> SUFFICES ASSUME NEW i \in I PROVE i \in 1 .. k
    OBVIOUS
  <2>1. i \in Nat /\ i \in 1 .. m
    OBVIOUS
  <2>2. 1 .. i \subseteq I
    BY <2>1
  <2>3. Cardinality(1 .. i) <= Cardinality(I)
    BY <1>2, <2>2, FS_Subset
  <2>4. Cardinality(1 .. i) = i
    BY <2>1, FS_Interval
  <2> QED
    BY <1>2, <2>1, <2>3, <2>4
<1>4. IsFiniteSet(1 .. k) /\ Cardinality(1 .. k) = k
  BY <1>2, FS_Interval
<1> QED
  BY <1>3, <1>4, FS_Subset

LEMMA ShrinkShows ==
  ASSUME ServerInv, NEW d, Plain(d), NEW o \in Nat, NEW c \in Nat, NEW n \in Nat, n <= c,
         Shows(d.time, Window(o, c)), Counted(d) = SongFiles(d),
         NEW files \in SUBSET Files(d), NEW dirs \in SUBSET (d.dirs \ {Similar}),
         LimitItems(d, n, files, dirs),
         NEW t \in [FileNames -> Nat],
         \A x \in FileNames : t[x] = IF x \in files THEN d.time[x] ELSE 0
  PROVE  Shows(t, Window(o, n))
<1> DEFINE w == Window(o, c)
           v == Window(o, n)
           m == Len(w)
           I == {i \in 1 .. m : <<w[i], 1>> \in files}
<1>1. /\ m \in Nat /\ Len(v) \in Nat
      /\ \A i \in 1 .. m : <<w[i], 1>> \in FileNames \ {Photo}
  <2>1. w \in Seq(1 .. NumSongs) /\ v \in Seq(1 .. NumSongs)
    BY WindowIs
  <2>2. \A i \in 1 .. m : w[i] \in 1 .. NumSongs
    BY <2>1, SongsOf
  <2> QED
    BY <2>1, <2>2, FirstName
<1>2. \A i, j \in 1 .. m : w[i] = w[j] => i = j
  BY WindowDistinct
<1>3. /\ SongFiles(d) = {<<w[i], 1>> : i \in 1 .. m}
      /\ \A i, j \in 1 .. m : i < j => d.time[<<w[i], 1>>] < d.time[<<w[j], 1>>]
  BY DEF Shows, SongFiles, Files
<1>4. \A i \in Nat : i \in 1 .. Len(v) <=> i \in 1 .. m /\ i <= n
  <2>1. /\ \A i \in Nat : i \in 1 .. m <=> 1 <= i /\ i <= c /\ o + i <= Len(server)
        /\ \A i \in Nat : i \in 1 .. Len(v) <=> 1 <= i /\ i <= n /\ o + i <= Len(server)
    BY WindowIs
  <2> QED
    BY <2>1
<1>5. \A i \in 1 .. Len(v) : i \in 1 .. m /\ v[i] = w[i]
  <2>1. \A i \in 1 .. Len(v) : i \in 1 .. m
    BY <1>1, <1>4
  <2>2. /\ \A i \in 1 .. m : w[i] = server[o + i]
        /\ \A i \in 1 .. Len(v) : v[i] = server[o + i]
    BY WindowIs
  <2> QED
    BY <2>1, <2>2
<1>6. dirs = {} /\ files \subseteq SongFiles(d)
  <2>1. dirs \subseteq Counted(d) /\ files \subseteq Counted(d)
    BY DEF Counted
  <2>2. Counted(d) \subseteq FileNames
    BY DEF SongFiles, Files
  <2>3. dirs \cap FileNames = {}
    BY DirectoryAssumption DEF Plain, DirType, DirNames, FileNames
  <2> QED
    BY <2>1, <2>2, <2>3
<1>7. /\ Cardinality(files) = Min({n, Cardinality(SongFiles(d))})
      /\ \A x \in files, y \in SongFiles(d) \ files : d.time[x] <= d.time[y]
  <2>1. files \cup dirs = files
    BY <1>6
  <2>2. files \subseteq FileNames /\ SongFiles(d) \subseteq FileNames
    BY DEF SongFiles, Files
  <2> QED
    BY <2>1, <2>2 DEF LimitItems
<1> HIDE DEF w, v, m
<1>8. Cardinality(SongFiles(d)) = m
  <2>1. IsFiniteSet(1 .. m) /\ Cardinality(1 .. m) = m
    BY <1>1, IntervalCounts
  <2> DEFINE g == [i \in 1 .. m |-> <<w[i], 1>>]
  <2>2. g \in Bijection(1 .. m, SongFiles(d))
    BY <1>2, <1>3 DEF Bijection, Injection, Surjection, IsInjective
  <2> QED
    BY <2>1, <2>2, FS_Bijection DEF ExistsBijection
<1>9. IsFiniteSet(files) /\ Cardinality(files) = Cardinality(I) /\ IsFiniteSet(I)
  <2>1. IsFiniteSet(I)
    <3>1. IsFiniteSet(1 .. m) /\ I \in SUBSET (1 .. m)
      BY <1>1, IntervalCounts
    <3> HIDE DEF I
    <3> QED
      BY <3>1, FS_Subset
  <2> DEFINE g == [i \in I |-> <<w[i], 1>>]
  <2>2. g \in Bijection(I, files)
    <3>1. \A i \in I : i \in 1 .. m /\ <<w[i], 1>> \in files
      OBVIOUS
    <3>2. \A x \in files : \E i \in I : x = <<w[i], 1>>
      BY <1>3, <1>6
    <3> HIDE DEF I
    <3>3. g \in [I -> files] /\ \A x \in files : \E i \in I : g[i] = x
      BY <3>1, <3>2
    <3>4. \A i, j \in I : g[i] = g[j] => i = j
      BY <3>1, <1>2
    <3> HIDE DEF g
    <3> QED
      BY <3>3, <3>4 DEF Bijection, Injection, Surjection, IsInjective
  <2> QED
    BY <2>1, <2>2, FS_Bijection DEF ExistsBijection
<1>10. I = 1 .. Cardinality(I)
  <2>1. ASSUME NEW i \in I, NEW j \in 1 .. m, j < i PROVE j \in I
    <3> SUFFICES ASSUME j \notin I PROVE FALSE
      OBVIOUS
    <3>1. i \in 1 .. m /\ <<w[i], 1>> \in files /\ <<w[j], 1>> \in SongFiles(d) \ files
      BY <1>3, <2>1
    <3>2. d.time[<<w[i], 1>>] <= d.time[<<w[j], 1>>]
      BY <3>1, <1>7
    <3>3. d.time[<<w[j], 1>>] < d.time[<<w[i], 1>>]
      BY <3>1, <2>1, <1>3
    <3>4. d.time[<<w[i], 1>>] \in Nat /\ d.time[<<w[j], 1>>] \in Nat
      BY <3>1, <1>1 DEF Plain, DirType
    <3> QED
      BY <3>2, <3>3, <3>4
  <2>2. I \in SUBSET (1 .. m)
    OBVIOUS
  <2> HIDE DEF I
  <2> QED
    BY <1>1, <2>1, <2>2, BeginningOf
<1>11. \A i \in Nat : i \in I <=> i \in 1 .. Len(v)
  <2>1. Cardinality(I) = IF n <= m THEN n ELSE m
    <3>1. Min({n, m}) = IF n <= m THEN n ELSE m
      BY <1>1, LeastOfTwo
    <3> HIDE DEF I
    <3> QED
      BY <3>1, <1>7, <1>8, <1>9
  <2> HIDE DEF I
  <2> QED
    BY <1>1, <1>4, <1>10, <2>1
<1>12. \A i \in 1 .. Len(v) : i \in I /\ v[i] = w[i]
  BY <1>1, <1>5, <1>11
<1>13. {x \in FileNames \ {Photo} : t[x] > 0} = {<<v[i], 1>> : i \in 1 .. Len(v)}
  <2>1. ASSUME NEW x \in FileNames \ {Photo}, t[x] > 0
        PROVE  \E i \in 1 .. Len(v) : x = <<v[i], 1>>
    <3>1. x \in files
      BY <2>1
    <3>2. PICK i \in 1 .. m : x = <<w[i], 1>>
      BY <3>1, <1>3, <1>6
    <3>3. i \in I /\ i \in Nat
      BY <3>1, <3>2, <1>1
    <3>4. i \in 1 .. Len(v) /\ v[i] = w[i]
      BY <3>3, <1>5, <1>11
    <3> QED
      BY <3>2, <3>4
  <2>2. ASSUME NEW i \in 1 .. Len(v)
        PROVE  <<v[i], 1>> \in FileNames \ {Photo} /\ t[<<v[i], 1>>] > 0
    <3>1. <<v[i], 1>> \in files
      BY <1>12
    <3>2. /\ <<v[i], 1>> \in FileNames \ {Photo} /\ d.time[<<v[i], 1>>] > 0
      BY <3>1, <1>6 DEF SongFiles, Files
    <3> QED
      BY <3>1, <3>2
  <2> QED
    BY <2>1, <2>2
<1>14. ASSUME NEW i \in 1 .. Len(v), NEW j \in 1 .. Len(v), i < j
       PROVE  t[<<v[i], 1>>] < t[<<v[j], 1>>]
  <2>1. /\ i \in 1 .. m /\ j \in 1 .. m /\ v[i] = w[i] /\ v[j] = w[j]
        /\ <<w[i], 1>> \in files /\ <<w[j], 1>> \in files
    BY <1>12
  <2>2. t[<<w[i], 1>>] = d.time[<<w[i], 1>>] /\ t[<<w[j], 1>>] = d.time[<<w[j], 1>>]
    BY <2>1, <1>1
  <2> QED
    BY <2>1, <2>2, <1>3, <1>14
<1> QED
  BY <1>13, <1>14 DEF Shows, v
-----------------------------------------------------------------------------
(* One of the user's own songs is deleted on VK. *)
LEMMA RemoveFirstIs ==
  ASSUME ServerInv, NEW song, NEW n \in 1 .. Len(server), server[n] = song
  PROVE  RemoveFirst(server, song) = SubSeq(server, 1, n - 1) \o SubSeq(server, n + 1, Len(server))
<1> DEFINE I == {i \in 1 .. Len(server) : server[i] = song}
<1>1. I = {n}
  BY DEF ServerInv
<1>2. n \in Int
  BY DEF ServerInv
<1>3. Min(I) = n
  BY <1>1, <1>2 DEF Min
<1>4. SelectInSeq(server, LAMBDA v : v = song) = n
  BY <1>1, <1>3 DEF SelectInSeq
<1> QED
  BY <1>4 DEF RemoveFirst, RemoveAt

LEMMA RemoveFirstKeeps ==
  ASSUME ServerInv, NEW song
  PROVE  LET s == RemoveFirst(server, song)
         IN  /\ s \in Seq(1 .. NumSongs)
             /\ \A i, j \in 1 .. Len(s) : s[i] = s[j] => i = j
<1>1. CASE ~ (\E i \in 1 .. Len(server) : server[i] = song)
  BY <1>1 DEF RemoveFirst, ServerInv
<1>2. ASSUME NEW n \in 1 .. Len(server), server[n] = song
      PROVE  LET s == RemoveFirst(server, song)
             IN  /\ s \in Seq(1 .. NumSongs)
                 /\ \A i, j \in 1 .. Len(s) : s[i] = s[j] => i = j
  <2> DEFINE S == 1 .. NumSongs
             a == SubSeq(server, 1, n - 1)
             b == SubSeq(server, n + 1, Len(server))
             s == a \o b
             L == Len(server)
  <2>1. /\ L \in Nat /\ n \in Nat /\ 1 <= n /\ n <= L
        /\ \A i \in 1 .. L : server[i] \in S
        /\ \A i, j \in 1 .. L : server[i] = server[j] => i = j
    BY SongsOf DEF ServerInv
  <2> HIDE DEF S, L
  <2>2. /\ a \in Seq(S) /\ Len(a) = n - 1
        /\ \A i \in 1 .. n - 1 : a[i] = server[i]
    <3>1. 1 \in Int /\ n - 1 \in Int /\ \A i \in 1 .. n - 1 : server[i] \in S
      BY <2>1
    <3>2. /\ a \in Seq(S) /\ Len(a) = IF 1 <= n - 1 THEN (n - 1) - 1 + 1 ELSE 0
          /\ \A i \in 1 .. (n - 1) - 1 + 1 : a[i] = server[1 + i - 1]
      BY <3>1, SubSeqProperties
    <3> HIDE DEF a
    <3> QED
      BY <2>1, <3>2
  <2>3. /\ b \in Seq(S) /\ Len(b) = L - n
        /\ \A i \in 1 .. L - n : b[i] = server[n + i]
    <3>1. n + 1 \in Int /\ L \in Int /\ \A i \in n + 1 .. L : server[i] \in S
      BY <2>1
    <3>2. /\ b \in Seq(S) /\ Len(b) = IF n + 1 <= L THEN L - (n + 1) + 1 ELSE 0
          /\ \A i \in 1 .. L - (n + 1) + 1 : b[i] = server[(n + 1) + i - 1]
      BY <3>1, SubSeqProperties DEF L
    <3>3. \A i \in Int : (n + 1) + i - 1 = n + i
      BY <2>1
    <3> HIDE DEF b
    <3> QED
      BY <2>1, <3>2, <3>3
  <2> HIDE DEF a, b
  <2>4. /\ s \in Seq(S) /\ Len(s) = L - 1
        /\ \A i \in 1 .. L - 1 : s[i] = IF i <= n - 1 THEN a[i] ELSE b[i - (n - 1)]
    <3>1. /\ s \in Seq(S) /\ Len(s) = Len(a) + Len(b)
          /\ \A i \in 1 .. Len(a) + Len(b) : s[i] = IF i <= Len(a) THEN a[i] ELSE b[i - Len(a)]
      BY <2>2, <2>3, ConcatProperties
    <3>2. Len(a) + Len(b) = L - 1
      BY <2>1, <2>2, <2>3
    <3> QED
      BY <3>1, <3>2, <2>2
  <2>5. \A i \in 1 .. L - 1 : /\ i <= n - 1 => s[i] = server[i]
                              /\ ~ (i <= n - 1) => s[i] = server[i + 1]
    <3> SUFFICES ASSUME NEW i \in 1 .. L - 1
                 PROVE  /\ i <= n - 1 => s[i] = server[i]
                        /\ ~ (i <= n - 1) => s[i] = server[i + 1]
      OBVIOUS
    <3>1. CASE i <= n - 1
      BY <3>1, <2>1, <2>2, <2>4
    <3>2. CASE ~ (i <= n - 1)
      <4>1. i - (n - 1) \in 1 .. L - n /\ n + (i - (n - 1)) = i + 1
        BY <3>2, <2>1
      <4> QED
        BY <4>1, <3>2, <2>3, <2>4
    <3> QED
      BY <3>1, <3>2
  <2> HIDE DEF s
  <2>6. ASSUME NEW i \in 1 .. L - 1, NEW j \in 1 .. L - 1, s[i] = s[j]
        PROVE  i = j
    <3> DEFINE moved(k) == IF k <= n - 1 THEN k ELSE k + 1
    <3>1. moved(i) \in 1 .. L /\ moved(j) \in 1 .. L
      BY <2>1
    <3>2. server[moved(i)] = server[moved(j)]
      BY <2>5, <2>6
    <3>3. moved(i) = moved(j)
      BY <3>1, <3>2, <2>1
    <3> QED
      BY <3>3, <2>1
  <2>7. RemoveFirst(server, song) = s
    BY <1>2, RemoveFirstIs DEF s, a, b
  <2> QED
    BY <2>4, <2>6, <2>7 DEF S
<1> QED
  BY <1>1, <1>2
-----------------------------------------------------------------------------
(* The invariant. *)
LEMMA NewDirIs ==
  ASSUME NEW o \in Nat, NEW c \in Nat
  PROVE  /\ Plain(NewDir(o, c)) /\ NewDir(o, c).offset = o /\ NewDir(o, c).cnt = c
         /\ NewDir(o, c).dirs = {} /\ NewDir(o, c).counter = NoDir
         /\ \A x \in FileNames : NewDir(o, c).time[x] = 0
BY FS_EmptySet DEF NewDir, Plain, DirType

LEMMA RecordedIs ==
  ASSUME NEW d, NEW o, NEW c, NEW command,
         Plain(d), o \in Nat, c \in Nat, command \in Numbers \cup Intervals
  PROVE  LET r == Recorded(d, o, c, command)
         IN  /\ Plain(r) /\ r.time = d.time /\ r.offset = o /\ r.cnt = c
             /\ r.dirs = d.dirs \cup {command} /\ r.counter = command
<1> DEFINE r == Recorded(d, o, c, command)
           ds == d.dirs \cup {command}
<1>1. d \in DirType /\ IsFiniteSet(d.dirs)
  BY DEF Plain
<1>2. r = [d EXCEPT !.dirs = ds, !.offset = o, !.cnt = c, !.counter = command]
  BY <1>1 DEF Recorded, DirType
<1>3. ds \in SUBSET DirNames
  BY <1>1 DEF DirType, DirNames
<1>4. IsFiniteSet(ds)
  BY <1>1, FS_AddElement
<1> HIDE DEF ds, r
<1>5. /\ r.time = d.time /\ r.offset = o /\ r.cnt = c /\ r.dirs = ds /\ r.counter = command
      /\ r \in DirType
  BY <1>1, <1>2, <1>3 DEF DirType
<1> QED
  BY <1>4, <1>5 DEF Plain, r, ds

LEMMA CommandType ==
  /\ \A c \in Numbers : c = <<c[1]>> /\ c[1] \in Nat
  /\ \A c \in Intervals : c = <<c[1], "-", c[3]>> /\ c[1] \in Nat /\ c[3] \in Nat
BY DirectoryAssumption

(* The query of VK does not change what VK lists.                          *)
LEMMA ShownNext ==
  ASSUME server' = server,
         there' /\ ~ spoiled' => Shows(dir'.time, Window(dir'.offset, dir'.cnt))
  PROVE  ShownInv'
BY DEF ShownInv, Window

LEMMA ServerNext ==
  ASSUME ServerInv, server' = server
  PROVE  ServerInv'
BY DEF ServerInv

LEMMA SongsInitInv == SongsInit => SongsInv
<1> SUFFICES ASSUME SongsInit PROVE SongsInv
  OBVIOUS
<1>1. /\ Plain(dir) /\ dir.offset = 0 /\ dir.cnt = 0 /\ dir.dirs = {} /\ dir.counter = NoDir
      /\ \A x \in FileNames : dir.time[x] = 0
  <2>1. dir = NewDir(0, 0)
    BY DEF SongsInit
  <2>2. 0 \in Nat
    OBVIOUS
  <2> QED
    BY ONLY <2>1, <2>2, NewDirIs
<1>2. TypeInv
  <2>1. there \in BOOLEAN
    <3>1. there = (kind \in {"my", "playlist"})
      BY DEF SongsInit
    <3>2. CASE kind \in {"my", "playlist"}
      <4>1. there = TRUE
        BY <3>1, <3>2
      <4> QED
        BY <4>1
    <3>3. CASE kind \notin {"my", "playlist"}
      <4>1. (kind \in {"my", "playlist"}) = FALSE
        BY <3>3
      <4>2. there = FALSE
        BY ONLY <3>1, <4>1
      <4> QED
        BY <4>2
    <3> QED
      BY <3>2, <3>3
  <2>2. kind \in Controls /\ spoiled \in BOOLEAN
    BY DEF SongsInit
  <2> QED
    BY <1>1, <2>1, <2>2 DEF TypeInv
<1>3. ServerInv
  BY DirectoryAssumption DEF SongsInit, ServerInv
<1>4. ShownInv
  BY <1>1, <1>3, EmptyShows DEF ShownInv
<1>5. PhotoInv
  BY <1>1 DEF PhotoInv, FileNames
<1>6. CounterIsTrue
  BY <1>1 DEF CounterIsTrue
<1> QED
  BY <1>2, <1>3, <1>4, <1>5, <1>6 DEF SongsInv

(* What every step shares.                                                 *)
LEMMA Keeps ==
  ASSUME kind \in Controls, kind' = kind, there' \in BOOLEAN, spoiled' \in BOOLEAN,
         Plain(dir'), ServerInv', ShownInv', dir'.time[Photo] > 0 => kind = "playlist",
         CounterIsTrue'
  PROVE  SongsInv'
BY DEF SongsInv, TypeInv, PhotoInv, Plain, DirType, FileNames, DirNames, Files

LEMMA CreateInv ==
  ASSUME SongsInv, Create \/ CreateFails
  PROVE  SongsInv'
<1> DEFINE d == NewDir(0, NumSearchFiles)
<1>0. /\ kind \in Controls /\ kind' = kind /\ server' = server /\ there' = TRUE
      /\ kind \in {"search", "similar"}
  BY DEF SongsInv, TypeInv, Create, CreateFails, Call
<1>1. NumSearchFiles \in Nat
  BY DirectoryAssumption
<1>2. /\ Plain(d) /\ d.offset = 0 /\ d.cnt = NumSearchFiles /\ d.dirs = {} /\ d.counter = NoDir
      /\ \A x \in FileNames : d.time[x] = 0
  BY <1>1, NewDirIs
<1>3. Photo \in FileNames
  BY DEF FileNames
<1>4. ServerInv /\ ServerInv'
  BY <1>0, ServerNext DEF SongsInv
<1> HIDE DEF d
<1>5. CASE Create
  <2>1. dir' = Filled(d, 0, NumSearchFiles) /\ spoiled' = FALSE
    BY <1>5 DEF Create, d
  <2>2. /\ Plain(dir')
        /\ dir'.time[Photo] > 0 => kind = "playlist"
        /\ dir'.offset = 0 /\ dir'.cnt = NumSearchFiles /\ dir'.dirs = {} /\ dir'.counter = NoDir
    BY <1>1, <1>2, <1>3, <1>4, <2>1, FilledIs
  <2>3. Shows(dir'.time, Window(0, NumSearchFiles))
    BY <1>1, <1>2, <1>4, <2>1, FilledAnew
  <2>4. ShownInv'
    BY <1>0, <2>2, <2>3, ShownNext
  <2>5. CounterIsTrue'
    BY <1>0, <2>2 DEF CounterIsTrue
  <2> QED
    BY <1>0, <1>4, <2>1, <2>2, <2>4, <2>5, Keeps
<1>6. CASE CreateFails
  <2>1. dir' = d /\ spoiled' = TRUE
    BY <1>6 DEF CreateFails, d
  <2>2. ShownInv'
    BY <2>1 DEF ShownInv
  <2>3. CounterIsTrue'
    BY <1>0, <1>2, <2>1 DEF CounterIsTrue
  <2>4. dir'.time[Photo] = 0
    BY <1>2, <1>3, <2>1
  <2> QED
    BY <1>0, <1>2, <1>4, <2>1, <2>2, <2>3, <2>4, Keeps
<1> QED
  BY <1>5, <1>6

(* What holds of a number or an interval before VK is asked.               *)
LEMMA BeforeFacts ==
  ASSUME SongsInv
  PROVE  /\ Plain(dir) /\ dir.offset \in Nat /\ dir.cnt \in Nat /\ dir.time \in [FileNames -> Nat]
         /\ ServerInv /\ Photo \in FileNames /\ kind \in Controls
         /\ dir.counter \in Numbers \cup Intervals \cup {NoDir}
         /\ dir.counter \notin {Refresh, Nested, Similar}
         /\ dir.counter # NoDir => dir.counter \in dir.dirs
         /\ dir.dirs \subseteq DirNames /\ NoDir \notin dir.dirs
         /\ dir.time[Photo] > 0 => kind = "playlist"
<1>1. /\ Plain(dir) /\ ServerInv /\ kind \in Controls
      /\ dir.time[Photo] > 0 => kind = "playlist"
      /\ dir.counter # NoDir => dir.counter \in dir.dirs
  BY DEF SongsInv, TypeInv, PhotoInv, CounterIsTrue
<1>2. /\ dir.offset \in Nat /\ dir.cnt \in Nat /\ dir.time \in [FileNames -> Nat]
      /\ dir.counter \in Numbers \cup Intervals \cup {NoDir} /\ dir.dirs \subseteq DirNames
  BY <1>1 DEF Plain, DirType
<1>3. /\ dir.counter \notin {Refresh, Nested, Similar} /\ NoDir \notin DirNames
  BY <1>2, DirectoryAssumption DEF DirNames
<1> QED
  BY <1>1, <1>2, <1>3 DEF FileNames

LEMMA ShrinkInv ==
  ASSUME SongsInv, NEW n, <<n>> \in Numbers, n \in Nat, Shrink(n)
  PROVE  SongsInv'
<1> DEFINE d == BeforeNumber
<1>0. /\ kind' = kind /\ server' = server /\ there' = there /\ there /\ n <= dir.cnt
  BY DEF Shrink, Command, Call
<1>1. /\ Plain(dir) /\ dir.offset \in Nat /\ dir.cnt \in Nat /\ dir.time \in [FileNames -> Nat]
      /\ ServerInv /\ Photo \in FileNames /\ kind \in Controls
      /\ dir.time[Photo] > 0 => kind = "playlist"
  BY BeforeFacts
<1>2. /\ Plain(d) /\ d.time = dir.time /\ d.offset = dir.offset /\ d.cnt = dir.cnt
      /\ d.dirs \subseteq dir.dirs \ {Refresh, dir.counter}
  BY <1>1, BeforeNumberIs
<1>3. PICK files \in SUBSET Files(d), dirs \in SUBSET (d.dirs \ {Similar}) :
           /\ LimitItems(d, n, files, dirs)
           /\ dir' = Recorded(KeepItems(d, files, dirs \cup {Similar}), d.offset, n, <<n>>)
  BY DEF Shrink
<1>4. spoiled' = (spoiled \/ Counted(d) # SongFiles(d))
  BY DEF Shrink
<1> HIDE DEF d
<1> DEFINE k == KeepItems(d, files, dirs \cup {Similar})
<1>5. /\ Plain(k)
      /\ k.dirs = d.dirs \cap (dirs \cup {Similar})
      /\ \A x \in FileNames : k.time[x] = IF x \in files THEN d.time[x] ELSE 0
  BY <1>2, KeepItemsIs
<1> HIDE DEF k
<1>6. /\ Plain(dir') /\ dir'.time = k.time /\ dir'.offset = dir.offset /\ dir'.cnt = n
      /\ dir'.dirs = k.dirs \cup {<<n>>} /\ dir'.counter = <<n>>
  <2> DEFINE cmd == <<n>>
  <2>1. dir' = Recorded(k, dir.offset, n, cmd) /\ cmd \in Numbers \cup Intervals
    BY <1>2, <1>3 DEF k, cmd
  <2> HIDE DEF cmd
  <2>2. /\ Plain(dir') /\ dir'.time = k.time /\ dir'.offset = dir.offset /\ dir'.cnt = n
        /\ dir'.dirs = k.dirs \cup {cmd} /\ dir'.counter = cmd
    BY <1>1, <1>5, <2>1, RecordedIs
  <2> QED
    BY <2>2 DEF cmd
<1>7. ShownInv'
  <2> SUFFICES ASSUME ~ spoiled' PROVE Shows(dir'.time, Window(dir.offset, n))
    BY <1>0, <1>6, ShownNext
  <2>1. ~ spoiled /\ Counted(d) = SongFiles(d)
    BY <1>4
  <2>2. Shows(d.time, Window(dir.offset, dir.cnt))
    BY <1>0, <1>2, <2>1 DEF SongsInv, ShownInv
  <2>3. k.time \in [FileNames -> Nat]
    BY <1>5 DEF Plain, DirType
  <2>4. Shows(k.time, Window(dir.offset, n))
    BY <1>0, <1>1, <1>2, <1>3, <1>5, <2>1, <2>2, <2>3, ShrinkShows
  <2> QED
    BY <1>6, <2>4
<1>8. dir'.time[Photo] > 0 => kind = "playlist"
  BY <1>1, <1>2, <1>5, <1>6
<1>9. CounterIsTrue'
  <2>1. dir'.counter \in dir'.dirs /\ dir'.counter = <<dir'.cnt>>
    BY <1>6
  <2>2. kind \in {"my", "playlist"} => dir'.dirs \subseteq {<<n>>, Refresh, Similar}
    BY <1>2, <1>5, <1>6 DEF SongsInv, CounterIsTrue
  <2> QED
    BY <1>0, <1>6, <2>1, <2>2 DEF CounterIsTrue
<1>10. ServerInv' /\ spoiled' \in BOOLEAN /\ there' \in BOOLEAN
  <2>1. spoiled \in BOOLEAN /\ there \in BOOLEAN
    BY DEF SongsInv, TypeInv
  <2> QED
    BY <1>0, <1>1, <1>4, <2>1, ServerNext
<1> QED
  BY <1>0, <1>1, <1>6, <1>7, <1>8, <1>9, <1>10, Keeps

(* What a number and an interval share. *)
LEMMA Unshown ==
  ASSUME spoiled' = TRUE \/ there' = FALSE
  PROVE  ShownInv'
BY DEF ShownInv

LEMMA Booleans ==
  ASSUME SongsInv, there' \in {there, TRUE, FALSE}, spoiled' \in {spoiled, TRUE, FALSE}
  PROVE  there' \in BOOLEAN /\ spoiled' \in BOOLEAN
BY DEF SongsInv, TypeInv

LEMMA GrowInv ==
  ASSUME SongsInv, NEW n, <<n>> \in Numbers, n \in Nat, Grow(n)
  PROVE  SongsInv'
<1> DEFINE d == BeforeNumber
           f == Filled(d, d.offset + d.cnt, n - d.cnt)
<1>0. /\ kind' = kind /\ server' = server /\ there' = there /\ there /\ n > dir.cnt
      /\ dir' = Recorded(f, d.offset, n, <<n>>)
      /\ spoiled' = (spoiled \/ \E x \in SongFiles(d) : d.time[x] > Size(d))
  BY DEF Grow, Command, Call
<1>1. /\ Plain(dir) /\ dir.offset \in Nat /\ dir.cnt \in Nat /\ dir.time \in [FileNames -> Nat]
      /\ ServerInv /\ Photo \in FileNames /\ kind \in Controls
      /\ dir.time[Photo] > 0 => kind = "playlist"
  BY BeforeFacts
<1>2. /\ Plain(d) /\ d.time = dir.time /\ d.offset = dir.offset /\ d.cnt = dir.cnt
      /\ d.dirs \subseteq dir.dirs \ {Refresh, dir.counter}
  BY <1>1, BeforeNumberIs
<1> HIDE DEF d
<1>3. /\ d.offset + d.cnt \in Nat /\ n - d.cnt \in Nat /\ d.offset \in Nat /\ d.cnt \in Nat
      /\ d.cnt + (n - d.cnt) = n
  BY <1>0, <1>1, <1>2
<1>4. /\ Plain(f) /\ f.dirs = d.dirs
      /\ f.time[Photo] > 0 => kind = "playlist"
  <2> DEFINE o == d.offset + d.cnt
             m == n - d.cnt
  <2>1. d.time[Photo] > 0 => kind = "playlist"
    BY <1>1, <1>2
  <2>2. o \in Nat /\ m \in Nat /\ f = Filled(d, o, m)
    BY <1>3
  <2> HIDE DEF f, o, m
  <2> QED
    BY <1>1, <1>2, <2>1, <2>2, FilledIs
<1>5. ASSUME ~ spoiled' PROVE Shows(f.time, Window(dir.offset, n))
  <2>1. Shows(d.time, Window(d.offset, d.cnt))
    BY <1>0, <1>2, <1>5 DEF SongsInv, ShownInv
  <2>2. \A x \in SongFiles(d) : d.time[x] <= Size(d)
    <3>1. \A x \in SongFiles(d) : d.time[x] \in Nat
      BY <1>1, <1>2 DEF SongFiles, Files
    <3>2. Size(d) \in Nat
      BY <1>2, FilesCount
    <3>3. ~ (\E x \in SongFiles(d) : d.time[x] > Size(d))
      BY <1>0, <1>5
    <3> QED
      BY <3>1, <3>2, <3>3
  <2>3. Shows(f.time, Window(d.offset, d.cnt + (n - d.cnt)))
    BY <1>1, <1>2, <1>3, <2>1, <2>2, FilledShows
  <2> QED
    BY <1>2, <1>3, <2>3
<1> HIDE DEF f
<1>6. /\ Plain(dir') /\ dir'.time = f.time /\ dir'.offset = dir.offset /\ dir'.cnt = n
      /\ dir'.dirs = d.dirs \cup {<<n>>} /\ dir'.counter = <<n>>
  <2> DEFINE cmd == <<n>>
  <2>1. dir' = Recorded(f, dir.offset, n, cmd) /\ cmd \in Numbers \cup Intervals
    BY <1>0, <1>2 DEF cmd
  <2> HIDE DEF cmd
  <2>2. /\ Plain(dir') /\ dir'.time = f.time /\ dir'.offset = dir.offset /\ dir'.cnt = n
        /\ dir'.dirs = f.dirs \cup {cmd} /\ dir'.counter = cmd
    BY <1>1, <1>4, <2>1, RecordedIs
  <2> QED
    BY <1>4, <2>2 DEF cmd
<1>7. ShownInv'
  BY <1>0, <1>5, <1>6, ShownNext
<1>8. CounterIsTrue'
  <2>1. dir'.counter \in dir'.dirs /\ dir'.counter = <<dir'.cnt>>
    BY <1>6
  <2>2. kind \in {"my", "playlist"} => dir'.dirs \subseteq {<<n>>, Refresh, Similar}
    BY <1>2, <1>6 DEF SongsInv, CounterIsTrue
  <2> QED
    BY <1>0, <1>6, <2>1, <2>2 DEF CounterIsTrue
<1>9. ServerInv' /\ spoiled' \in BOOLEAN /\ there' \in BOOLEAN
  BY <1>0, <1>1, ServerNext, Booleans
<1> QED
  BY <1>0, <1>1, <1>4, <1>6, <1>7, <1>8, <1>9, Keeps

LEMMA GrowFailsInv ==
  ASSUME SongsInv, NEW n, <<n>> \in Numbers, n \in Nat, GrowFails(n)
  PROVE  SongsInv'
<1> DEFINE d == BeforeNumber
<1>0. /\ kind' = kind /\ server' = server /\ there' = there /\ there
      /\ dir' = WithPhoto(d) /\ spoiled' = spoiled
  BY DEF GrowFails, Command, Call
<1>1. /\ Plain(dir) /\ dir.offset \in Nat /\ dir.cnt \in Nat
      /\ ServerInv /\ Photo \in FileNames /\ kind \in Controls
      /\ dir.time[Photo] > 0 => kind = "playlist"
  BY BeforeFacts
<1>2. /\ Plain(d) /\ d.time = dir.time /\ d.offset = dir.offset /\ d.cnt = dir.cnt
      /\ d.dirs \subseteq dir.dirs \ {Refresh, dir.counter}
      /\ d.counter = NoDir
  BY <1>1, BeforeNumberIs
<1> HIDE DEF d
<1>3. /\ Plain(dir') /\ dir'.offset = dir.offset /\ dir'.cnt = dir.cnt
      /\ dir'.dirs = d.dirs /\ dir'.counter = NoDir
      /\ \A x \in FileNames \ {Photo} : dir'.time[x] = dir.time[x]
      /\ dir'.time[Photo] > 0 => kind = "playlist"
  BY <1>0, <1>1, <1>2, WithPhotoIs
<1>4. ShownInv'
  <2> SUFFICES ASSUME ~ spoiled PROVE Shows(dir'.time, Window(dir.offset, dir.cnt))
    BY <1>0, <1>3, ShownNext
  <2>1. Shows(dir.time, Window(dir.offset, dir.cnt))
    BY <1>0 DEF SongsInv, ShownInv
  <2> QED
    BY <1>1, <1>3, <2>1, WindowNames, ShowsSame
<1>5. CounterIsTrue'
  <2>1. kind \in {"my", "playlist"} => dir'.dirs \subseteq {NoDir, Refresh, Similar}
    BY <1>2, <1>3 DEF SongsInv, CounterIsTrue
  <2> QED
    BY <1>0, <1>3, <2>1 DEF CounterIsTrue
<1>6. ServerInv' /\ spoiled' \in BOOLEAN /\ there' \in BOOLEAN
  BY <1>0, <1>1, ServerNext, Booleans
<1> QED
  BY <1>0, <1>1, <1>3, <1>4, <1>5, <1>6, Keeps

(* All items are deleted. *)
LEMMA EmptiedIs ==
  ASSUME SongsInv, NEW dirs
  PROVE  LET e == KeepItems(dir, {}, dirs)
         IN  /\ Plain(e) /\ e.offset = dir.offset /\ e.cnt = dir.cnt
             /\ e.dirs = dir.dirs \cap dirs
             /\ e.counter = IF dir.counter \in dirs THEN dir.counter ELSE NoDir
             /\ \A x \in FileNames : e.time[x] = 0
<1>1. Plain(dir)
  BY BeforeFacts
<1> QED
  BY <1>1, KeepItemsIs

LEMMA IntervalInv ==
  ASSUME SongsInv, NEW o \in Nat, NEW c \in Nat, <<o, "-", c>> \in Intervals, Interval(o, c)
  PROVE  SongsInv'
<1> DEFINE e == Emptied
           f == Filled(e, o, c)
<1>0. /\ kind' = kind /\ server' = server /\ there' = there
      /\ dir' = Recorded(f, o, c, <<o, "-", c>>) /\ spoiled' = FALSE
  BY DEF Interval, Command, Call
<1>1. ServerInv /\ Photo \in FileNames /\ kind \in Controls
  BY BeforeFacts
<1>2. /\ Plain(e) /\ e.dirs = dir.dirs \cap Left(dir)
      /\ \A x \in FileNames : e.time[x] = 0
  BY EmptiedIs DEF Emptied
<1> HIDE DEF e
<1>3. /\ Plain(f) /\ f.dirs = e.dirs
      /\ f.time[Photo] > 0 => kind = "playlist"
  <2>1. e.time[Photo] > 0 => kind = "playlist"
    BY <1>1, <1>2
  <2> QED
    BY <1>1, <1>2, <2>1, FilledIs
<1>4. Shows(f.time, Window(o, c))
  BY <1>1, <1>2, FilledAnew
<1> HIDE DEF f
<1>5. /\ Plain(dir') /\ dir'.time = f.time /\ dir'.offset = o /\ dir'.cnt = c
      /\ dir'.dirs = e.dirs \cup {<<o, "-", c>>} /\ dir'.counter = <<o, "-", c>>
  <2> DEFINE cmd == <<o, "-", c>>
  <2>1. dir' = Recorded(f, o, c, cmd) /\ cmd \in Numbers \cup Intervals
    BY <1>0 DEF cmd
  <2> HIDE DEF cmd
  <2>2. /\ Plain(dir') /\ dir'.time = f.time /\ dir'.offset = o /\ dir'.cnt = c
        /\ dir'.dirs = f.dirs \cup {cmd} /\ dir'.counter = cmd
    BY <1>3, <2>1, RecordedIs
  <2> QED
    BY <1>3, <2>2 DEF cmd
<1>6. ShownInv'
  BY <1>0, <1>4, <1>5, ShownNext
<1>7. CounterIsTrue'
  <2>1. dir'.counter \in dir'.dirs /\ dir'.counter = <<dir'.offset, "-", dir'.cnt>>
    BY <1>5
  <2>2. kind \in {"my", "playlist"} => dir'.dirs \subseteq {dir'.counter, Refresh, Similar}
    BY <1>2, <1>5 DEF Left
  <2> QED
    BY <1>0, <2>1, <2>2 DEF CounterIsTrue
<1>8. ServerInv' /\ spoiled' \in BOOLEAN /\ there' \in BOOLEAN
  BY <1>0, <1>1, ServerNext, Booleans
<1> QED
  BY <1>0, <1>1, <1>3, <1>5, <1>6, <1>7, <1>8, Keeps

LEMMA IntervalFailsInv ==
  ASSUME SongsInv, NEW o \in Nat, NEW c \in Nat, IntervalFails(o, c)
  PROVE  SongsInv'
<1> DEFINE e == Emptied
<1>0. /\ kind' = kind /\ server' = server /\ there' = there
      /\ dir' = WithPhoto(e) /\ spoiled' = TRUE
  BY DEF IntervalFails, Command, Call
<1>1. /\ ServerInv /\ Photo \in FileNames /\ kind \in Controls
      /\ dir.counter # NoDir => dir.counter \in dir.dirs
  BY BeforeFacts
<1>2. /\ Plain(e) /\ e.dirs = dir.dirs \cap Left(dir)
      /\ e.offset = dir.offset /\ e.cnt = dir.cnt
      /\ e.counter = IF dir.counter \in Left(dir) THEN dir.counter ELSE NoDir
      /\ \A x \in FileNames : e.time[x] = 0
  BY EmptiedIs DEF Emptied
<1> HIDE DEF e
<1>3. /\ Plain(dir') /\ dir'.offset = dir.offset /\ dir'.cnt = dir.cnt
      /\ dir'.dirs = e.dirs /\ dir'.counter = e.counter
      /\ dir'.time[Photo] > 0 => kind = "playlist"
  BY <1>0, <1>1, <1>2, WithPhotoIs
<1>4. CounterIsTrue'
  <2>1. /\ dir'.counter # NoDir => dir'.counter = dir.counter
        /\ dir'.counter # NoDir => dir'.counter \in dir'.dirs
    BY <1>1, <1>2, <1>3
  <2>2. kind \in {"my", "playlist"} => dir'.dirs \subseteq {dir'.counter, Refresh, Similar}
    BY <1>2, <1>3 DEF Left
  <2>3. dir'.counter # NoDir =>
          dir'.counter = <<dir'.cnt>> \/ dir'.counter = <<dir'.offset, "-", dir'.cnt>>
    BY <1>3, <2>1 DEF SongsInv, CounterIsTrue
  <2> QED
    BY <1>0, <2>1, <2>2, <2>3 DEF CounterIsTrue
<1>5. ServerInv' /\ spoiled' \in BOOLEAN /\ there' \in BOOLEAN
  BY <1>0, <1>1, ServerNext, Booleans
<1> QED
  BY <1>0, <1>1, <1>3, <1>4, <1>5, Unshown, Keeps

(* A directory is made.                                                    *)
LEMMA WithDirIs ==
  ASSUME NEW d, Plain(d), NEW x \in DirNames
  PROVE  LET r == [d EXCEPT !.dirs = @ \cup {x}]
         IN  /\ Plain(r) /\ r.time = d.time /\ r.offset = d.offset /\ r.cnt = d.cnt
             /\ r.dirs = d.dirs \cup {x} /\ r.counter = d.counter
<1> DEFINE ds == d.dirs \cup {x}
           r == [d EXCEPT !.dirs = ds]
<1>1. d \in DirType /\ IsFiniteSet(d.dirs)
  BY DEF Plain
<1>2. r = [d EXCEPT !.dirs = @ \cup {x}]
  BY <1>1 DEF DirType
<1>3. ds \in SUBSET DirNames
  BY <1>1 DEF DirType
<1>4. IsFiniteSet(ds)
  BY <1>1, FS_AddElement
<1>5. r.dirs = ds
  BY <1>1 DEF DirType
<1> HIDE DEF ds
<1>6. /\ r.time = d.time /\ r.offset = d.offset /\ r.cnt = d.cnt /\ r.counter = d.counter
      /\ r \in DirType
  BY <1>1, <1>3 DEF DirType
<1> HIDE DEF r
<1>7. Plain(r)
  BY <1>4, <1>5, <1>6 DEF Plain
<1>8. r.dirs = d.dirs \cup {x}
  BY <1>5 DEF ds
<1> QED
  BY <1>2, <1>6, <1>7, <1>8

(* All items but similar songs and the counter directory are deleted.      *)
LEMMA BeforeRefreshIs ==
  ASSUME SongsInv
  PROVE  LET e == BeforeRefresh
         IN  /\ Plain(e) /\ e.offset = dir.offset /\ e.cnt = dir.cnt
             /\ e.dirs \subseteq dir.dirs /\ e.counter = dir.counter
             /\ (dir.counter # NoDir => dir.counter \in e.dirs)
             /\ \A x \in FileNames : e.time[x] = 0
<1> DEFINE e == KeepItems(dir, {}, {Similar, dir.counter})
<1>1. dir.counter # NoDir => dir.counter \in dir.dirs
  BY BeforeFacts
<1>2. /\ Plain(e) /\ e.offset = dir.offset /\ e.cnt = dir.cnt
      /\ e.dirs = dir.dirs \cap {Similar, dir.counter}
      /\ e.counter = IF dir.counter \in {Similar, dir.counter} THEN dir.counter ELSE NoDir
      /\ \A x \in FileNames : e.time[x] = 0
  BY EmptiedIs
<1>3. e = BeforeRefresh
  BY DEF BeforeRefresh
<1> HIDE DEF e
<1> QED
  BY <1>1, <1>2, <1>3

LEMMA RefreshInv ==
  ASSUME SongsInv, RefreshSongs
  PROVE  SongsInv'
<1> DEFINE e == BeforeRefresh
           f == Filled(e, dir.offset, dir.cnt)
<1>0. /\ kind' = kind /\ server' = server /\ there' = there
      /\ dir' = [f EXCEPT !.dirs = @ \cup {Refresh}] /\ spoiled' = FALSE
  BY DEF RefreshSongs, Call
<1>1. ServerInv /\ Photo \in FileNames /\ kind \in Controls /\ dir.offset \in Nat /\ dir.cnt \in Nat
  BY BeforeFacts
<1>2. /\ Plain(e) /\ e.offset = dir.offset /\ e.cnt = dir.cnt
      /\ e.dirs \subseteq dir.dirs /\ e.counter = dir.counter
      /\ (dir.counter # NoDir => dir.counter \in e.dirs)
      /\ \A x \in FileNames : e.time[x] = 0
  BY BeforeRefreshIs
<1> HIDE DEF e
<1>3. /\ Plain(f) /\ f.dirs = e.dirs /\ f.offset = dir.offset /\ f.cnt = dir.cnt
      /\ f.counter = dir.counter
      /\ f.time[Photo] > 0 => kind = "playlist"
  <2>1. e.time[Photo] > 0 => kind = "playlist"
    BY <1>1, <1>2
  <2> QED
    BY <1>1, <1>2, <2>1, FilledIs
<1>4. Shows(f.time, Window(dir.offset, dir.cnt))
  BY <1>1, <1>2, FilledAnew
<1> HIDE DEF f
<1>5. /\ Plain(dir') /\ dir'.time = f.time /\ dir'.offset = f.offset /\ dir'.cnt = f.cnt
      /\ dir'.dirs = f.dirs \cup {Refresh} /\ dir'.counter = f.counter
  <2>1. Refresh \in DirNames
    BY DEF DirNames
  <2> QED
    BY <1>0, <1>3, <2>1, WithDirIs
<1>6. ShownInv'
  BY <1>0, <1>3, <1>4, <1>5, ShownNext
<1>7. CounterIsTrue'
  <2>1. dir'.counter # NoDir => dir'.counter \in dir'.dirs
    BY <1>2, <1>3, <1>5
  <2>2. dir'.counter # NoDir =>
          dir'.counter = <<dir'.cnt>> \/ dir'.counter = <<dir'.offset, "-", dir'.cnt>>
    BY <1>3, <1>5 DEF SongsInv, CounterIsTrue
  <2>3. kind \in {"my", "playlist"} => dir'.dirs \subseteq {dir'.counter, Refresh, Similar}
    BY <1>2, <1>3, <1>5 DEF SongsInv, CounterIsTrue
  <2> QED
    BY <1>0, <2>1, <2>2, <2>3 DEF CounterIsTrue
<1>8. ServerInv' /\ spoiled' \in BOOLEAN /\ there' \in BOOLEAN
  BY <1>0, <1>1, ServerNext, Booleans
<1> QED
  BY <1>0, <1>1, <1>3, <1>5, <1>6, <1>7, <1>8, Keeps

LEMMA RefreshFailsInv ==
  ASSUME SongsInv, RefreshFails
  PROVE  SongsInv'
<1> DEFINE e == BeforeRefresh
<1>0. /\ kind' = kind /\ server' = server /\ there' = there
      /\ dir' = WithPhoto(e) /\ spoiled' = TRUE
  BY DEF RefreshFails, Call
<1>1. ServerInv /\ Photo \in FileNames /\ kind \in Controls
  BY BeforeFacts
<1>2. /\ Plain(e) /\ e.offset = dir.offset /\ e.cnt = dir.cnt
      /\ e.dirs \subseteq dir.dirs /\ e.counter = dir.counter
      /\ (dir.counter # NoDir => dir.counter \in e.dirs)
      /\ \A x \in FileNames : e.time[x] = 0
  BY BeforeRefreshIs
<1> HIDE DEF e
<1>3. /\ Plain(dir') /\ dir'.offset = dir.offset /\ dir'.cnt = dir.cnt
      /\ dir'.dirs = e.dirs /\ dir'.counter = dir.counter
      /\ dir'.time[Photo] > 0 => kind = "playlist"
  BY <1>0, <1>1, <1>2, WithPhotoIs
<1>4. CounterIsTrue'
  <2>1. dir'.counter # NoDir => dir'.counter \in dir'.dirs
    BY <1>2, <1>3
  <2>2. dir'.counter # NoDir =>
          dir'.counter = <<dir'.cnt>> \/ dir'.counter = <<dir'.offset, "-", dir'.cnt>>
    BY <1>3 DEF SongsInv, CounterIsTrue
  <2>3. kind \in {"my", "playlist"} => dir'.dirs \subseteq {dir'.counter, Refresh, Similar}
    BY <1>2, <1>3 DEF SongsInv, CounterIsTrue
  <2> QED
    BY <1>0, <2>1, <2>2, <2>3 DEF CounterIsTrue
<1>5. ServerInv' /\ spoiled' \in BOOLEAN /\ there' \in BOOLEAN
  BY <1>0, <1>1, ServerNext, Booleans
<1> QED
  BY <1>0, <1>1, <1>3, <1>4, <1>5, Unshown, Keeps

(* A step that changes neither the songs nor what VK lists.                *)
LEMMA SameSongs ==
  ASSUME SongsInv, server' = server, there' = there, spoiled' = spoiled,
         dir'.time = dir.time, dir'.offset = dir.offset, dir'.cnt = dir.cnt
  PROVE  ShownInv'
BY ShownNext DEF SongsInv, ShownInv

LEMMA MakeOtherInv ==
  ASSUME SongsInv, NEW x \in {Nested, Similar}, MakeOther(x)
  PROVE  SongsInv'
<1>0. /\ kind' = kind /\ server' = server /\ there' = there /\ spoiled' = spoiled
      /\ x = Similar \/ kind = "search"
      /\ dir' = [dir EXCEPT !.dirs = @ \cup {x}]
  BY DEF MakeOther, Command, Call
<1>1. /\ Plain(dir) /\ ServerInv /\ Photo \in FileNames /\ kind \in Controls
      /\ dir.time[Photo] > 0 => kind = "playlist"
  BY BeforeFacts
<1>2. /\ Plain(dir') /\ dir'.time = dir.time /\ dir'.offset = dir.offset /\ dir'.cnt = dir.cnt
      /\ dir'.dirs = dir.dirs \cup {x} /\ dir'.counter = dir.counter
  <2>1. x \in DirNames
    BY DEF DirNames
  <2> QED
    BY <1>0, <1>1, <2>1, WithDirIs
<1>3. CounterIsTrue'
  <2>1. dir'.counter # NoDir =>
          /\ dir'.counter \in dir'.dirs
          /\ dir'.counter = <<dir'.cnt>> \/ dir'.counter = <<dir'.offset, "-", dir'.cnt>>
    BY <1>2 DEF SongsInv, CounterIsTrue
  <2>2. kind \in {"my", "playlist"} => dir'.dirs \subseteq {dir'.counter, Refresh, Similar}
    BY <1>0, <1>2 DEF SongsInv, CounterIsTrue
  <2> QED
    BY <1>0, <2>1, <2>2 DEF CounterIsTrue
<1>4. ServerInv' /\ spoiled' \in BOOLEAN /\ there' \in BOOLEAN
  BY <1>0, <1>1, ServerNext, Booleans
<1> QED
  BY <1>0, <1>1, <1>2, <1>3, <1>4, SameSongs, Keeps

LEMMA DeleteDirInv ==
  ASSUME SongsInv, NEW x \in dir.dirs, DeleteDir(x)
  PROVE  SongsInv'
<1>0. /\ kind' = kind /\ server' = server /\ there' = there /\ spoiled' = spoiled
      /\ dir' = WithoutDir(dir, x)
  BY DEF DeleteDir, Call
<1>1. /\ Plain(dir) /\ ServerInv /\ Photo \in FileNames /\ kind \in Controls
      /\ NoDir \notin dir.dirs
      /\ dir.time[Photo] > 0 => kind = "playlist"
  BY BeforeFacts
<1>2. /\ Plain(dir') /\ dir'.time = dir.time /\ dir'.offset = dir.offset /\ dir'.cnt = dir.cnt
      /\ dir'.dirs = dir.dirs \ {x}
      /\ dir'.counter = IF dir.counter \in dir.dirs \ {x} THEN dir.counter ELSE NoDir
  BY <1>0, <1>1, WithoutDirIs
<1>3. CounterIsTrue'
  <2>1. dir'.counter # NoDir =>
          /\ dir'.counter \in dir'.dirs
          /\ dir'.counter = <<dir'.cnt>> \/ dir'.counter = <<dir'.offset, "-", dir'.cnt>>
    BY <1>2 DEF SongsInv, CounterIsTrue
  <2>2. kind \in {"my", "playlist"} => dir'.dirs \subseteq {dir'.counter, Refresh, Similar}
    BY <1>2 DEF SongsInv, CounterIsTrue
  <2> QED
    BY <1>0, <2>1, <2>2 DEF CounterIsTrue
<1>4. ServerInv' /\ spoiled' \in BOOLEAN /\ there' \in BOOLEAN
  BY <1>0, <1>1, ServerNext, Booleans
<1> QED
  BY <1>0, <1>1, <1>2, <1>3, <1>4, SameSongs, Keeps

LEMMA DeleteFileInv ==
  ASSUME SongsInv, NEW x \in Files(dir), DeleteFile(x)
  PROVE  SongsInv'
<1> DEFINE left == Files(dir) \ {x}
<1>0. /\ kind' = kind /\ there' = there
      /\ dir' = KeepItems(dir, left, dir.dirs)
      /\ server' = IF kind = "my" THEN RemoveFirst(server, x[1]) ELSE server
      /\ spoiled' = (spoiled \/ x # Photo)
  BY DEF DeleteFile, Call
<1>1. /\ Plain(dir) /\ ServerInv /\ Photo \in FileNames /\ kind \in Controls
      /\ NoDir \notin dir.dirs
      /\ dir.time \in [FileNames -> Nat]
      /\ dir.time[Photo] > 0 => kind = "playlist"
  BY BeforeFacts
<1>2. /\ Plain(dir') /\ dir'.offset = dir.offset /\ dir'.cnt = dir.cnt
      /\ dir'.dirs = dir.dirs
      /\ dir'.counter = IF dir.counter \in dir.dirs THEN dir.counter ELSE NoDir
      /\ \A y \in FileNames : dir'.time[y] = IF y \in left THEN dir.time[y] ELSE 0
  <2> HIDE DEF left
  <2>1. /\ Plain(dir') /\ dir'.offset = dir.offset /\ dir'.cnt = dir.cnt
        /\ dir'.dirs = dir.dirs \cap dir.dirs
        /\ dir'.counter = IF dir.counter \in dir.dirs THEN dir.counter ELSE NoDir
        /\ \A y \in FileNames : dir'.time[y] = IF y \in left THEN dir.time[y] ELSE 0
    BY <1>0, <1>1, KeepItemsIs
  <2> QED
    BY <2>1
<1>3. CounterIsTrue'
  <2>1. dir'.counter # NoDir =>
          /\ dir'.counter \in dir'.dirs
          /\ dir'.counter = <<dir'.cnt>> \/ dir'.counter = <<dir'.offset, "-", dir'.cnt>>
    BY <1>2 DEF SongsInv, CounterIsTrue
  <2>2. kind \in {"my", "playlist"} => dir'.dirs \subseteq {dir'.counter, Refresh, Similar}
    <3>1. dir.counter # NoDir => dir.counter \in dir.dirs
      BY BeforeFacts
    <3> QED
      BY <1>1, <1>2, <3>1 DEF SongsInv, CounterIsTrue
  <2> QED
    BY <1>0, <2>1, <2>2 DEF CounterIsTrue
<1>4. CASE x = Photo
  <2>1. kind # "my"
    BY <1>1, <1>4 DEF Files
  <2>2. server' = server /\ spoiled' = spoiled
    <3>1. spoiled \in BOOLEAN
      BY DEF SongsInv, TypeInv
    <3> QED
      BY <1>0, <1>4, <2>1, <3>1
  <2>3. \A y \in FileNames \ {Photo} : dir'.time[y] = dir.time[y]
    BY <1>1, <1>2, <1>4 DEF Files
  <2>4. ShownInv'
    <3>1. /\ dir.offset \in Nat /\ dir.cnt \in Nat
      BY BeforeFacts
    <3> SUFFICES ASSUME there, ~ spoiled PROVE Shows(dir'.time, Window(dir.offset, dir.cnt))
      BY <1>0, <1>2, <2>2, ShownNext
    <3>2. Shows(dir.time, Window(dir.offset, dir.cnt))
      BY DEF SongsInv, ShownInv
    <3> QED
      BY <1>1, <2>3, <3>1, <3>2, WindowNames, ShowsSame
  <2>5. ServerInv' /\ spoiled' \in BOOLEAN /\ there' \in BOOLEAN
    BY <1>0, <1>1, <2>2, ServerNext, Booleans
  <2>6. dir'.time[Photo] > 0 => kind = "playlist"
    BY <1>1, <1>2
  <2> QED
    BY <1>0, <1>1, <1>2, <1>3, <2>4, <2>5, <2>6, Keeps
<1>5. CASE x # Photo
  <2>1. spoiled' = TRUE
    BY <1>0, <1>5
  <2>2. ServerInv'
    <3>1. CASE kind = "my"
      <4>1. server' = RemoveFirst(server, x[1])
        BY <1>0, <3>1
      <4> QED
        BY <1>1, <4>1, RemoveFirstKeeps DEF ServerInv
    <3>2. CASE kind # "my"
      BY <1>0, <1>1, <3>2, ServerNext
    <3> QED
      BY <3>1, <3>2
  <2>3. dir'.time[Photo] > 0 => kind = "playlist"
    BY <1>1, <1>2
  <2>4. there' \in BOOLEAN /\ spoiled' \in BOOLEAN
    BY <1>0, <2>1, Booleans
  <2> QED
    BY <1>0, <1>1, <1>2, <1>3, <2>1, <2>2, <2>3, <2>4, Unshown, Keeps
<1> QED
  BY <1>4, <1>5

LEMMA DeleteInv ==
  ASSUME SongsInv, Delete
  PROVE  SongsInv'
<1>0. /\ kind' = kind /\ server' = server /\ there' = FALSE /\ spoiled' = FALSE
      /\ dir' = NewDir(0, 0) /\ kind \in {"search", "similar"}
  BY DEF Delete, Call
<1>1. ServerInv /\ kind \in Controls /\ Photo \in FileNames
  BY BeforeFacts
<1>2. /\ Plain(dir') /\ dir'.dirs = {} /\ dir'.counter = NoDir
      /\ \A x \in FileNames : dir'.time[x] = 0
  BY <1>0, NewDirIs
<1>3. CounterIsTrue'
  BY <1>0, <1>2 DEF CounterIsTrue
<1>4. ServerInv'
  BY <1>0, <1>1, ServerNext
<1>5. dir'.time[Photo] = 0
  BY <1>1, <1>2
<1>6. ShownInv' /\ there' \in BOOLEAN /\ spoiled' \in BOOLEAN
  BY <1>0, Unshown
<1> QED
  BY <1>0, <1>1, <1>2, <1>3, <1>4, <1>5, <1>6, Keeps

(* A job of the pool changes only what is hidden.                          *)
LEMMA JobInv ==
  ASSUME SongsInv, kind' = kind, server' = server, there' = there, spoiled' = spoiled,
         NEW x, dir' = [dir EXCEPT !.hidden = @ \ {x}]
  PROVE  SongsInv'
<1>1. /\ Plain(dir) /\ ServerInv /\ Photo \in FileNames /\ kind \in Controls
      /\ dir.time[Photo] > 0 => kind = "playlist"
  BY BeforeFacts
<1>2. /\ Plain(dir') /\ dir'.time = dir.time /\ dir'.offset = dir.offset /\ dir'.cnt = dir.cnt
      /\ dir'.dirs = dir.dirs /\ dir'.counter = dir.counter
  BY <1>1 DEF Plain, DirType
<1>3. CounterIsTrue'
  BY <1>2 DEF SongsInv, CounterIsTrue
<1>4. ServerInv' /\ spoiled' \in BOOLEAN /\ there' \in BOOLEAN
  BY <1>1, ServerNext, Booleans
<1> QED
  BY <1>1, <1>2, <1>3, <1>4, SameSongs, Keeps

LEMMA SongsStepInv == SongsInv /\ [SongsNext]_songsVars => SongsInv'
<1> SUFFICES ASSUME SongsInv, [SongsNext]_songsVars PROVE SongsInv'
  OBVIOUS
<1>1. CASE UNCHANGED songsVars
  BY <1>1 DEF songsVars, SongsInv, TypeInv, ServerInv, ShownInv, PhotoInv, CounterIsTrue, Window,
              Plain, Files
<1>2. CASE Commands
  <2>1. CASE Create \/ CreateFails
    BY <2>1, CreateInv
  <2>2. ASSUME NEW c \in Numbers, Shrink(c[1]) \/ Grow(c[1]) \/ GrowFails(c[1])
        PROVE  SongsInv'
    <3>1. <<c[1]>> \in Numbers /\ c[1] \in Nat
      BY CommandType
    <3> QED
      BY <2>2, <3>1, ShrinkInv, GrowInv, GrowFailsInv
  <2>3. ASSUME NEW c \in Intervals, Interval(c[1], c[3]) \/ IntervalFails(c[1], c[3])
        PROVE  SongsInv'
    <3>1. <<c[1], "-", c[3]>> \in Intervals /\ c[1] \in Nat /\ c[3] \in Nat
      BY CommandType
    <3> QED
      BY <2>3, <3>1, IntervalInv, IntervalFailsInv
  <2>4. CASE RefreshSongs
    BY <2>4, RefreshInv
  <2>5. CASE RefreshFails
    BY <2>5, RefreshFailsInv
  <2>6. ASSUME NEW x \in {Nested, Similar}, MakeOther(x)
        PROVE  SongsInv'
    BY <2>6, MakeOtherInv
  <2> QED
    BY <1>2, <2>1, <2>2, <2>3, <2>4, <2>5, <2>6 DEF Commands
<1>3. CASE Deletions
  BY <1>3, DeleteDirInv, DeleteFileInv, DeleteInv DEF Deletions
<1>4. CASE Jobs
  <2>1. PICK i \in DOMAIN jobs : MakeFile(i)
    BY <1>4 DEF Jobs
  <2>2. dir' = [dir EXCEPT !.hidden = @ \ {Head(jobs[i])}]
    BY <2>1 DEF MakeFile
  <2>3. kind' = kind /\ server' = server /\ there' = there /\ spoiled' = spoiled
    BY <2>1 DEF MakeFile
  <2> QED
    BY <2>2, <2>3, JobInv
<1>5. CASE JobThrows
  BY <1>5 DEF JobThrows, SongsInv, TypeInv, ServerInv, ShownInv, PhotoInv, CounterIsTrue, Window,
              Plain, Files
<1> QED
  BY <1>1, <1>2, <1>3, <1>4, <1>5 DEF SongsNext

(* The invariant: VK lists a song once, the songs are those of the window  *)
(* while nothing has spoiled them, only a playlist has a photo, and the    *)
(* counter directory names what is recorded.                               *)
THEOREM DirectoryInvariance == SongsSpec => []SongsInv
<1> QED
  BY SongsInitInv, SongsStepInv, PTL DEF SongsSpec

(* Offset and count say which songs are there, in VK's order by time.      *)
LEMMA ShownIsWindow == SongsInv => WindowShown
<1> SUFFICES ASSUME SongsInv, there, ~ spoiled
             PROVE  LET w == Window(dir.offset, dir.cnt)
                    IN  \E listed \in Bijection(DOMAIN w, SongFiles(dir)) :
                          /\ \A i \in DOMAIN w : listed[i][1] = w[i]
                          /\ \A i, j \in DOMAIN w : i < j =>
                               dir.time[listed[i]] < dir.time[listed[j]]
  BY DEF WindowShown
<1> DEFINE w == Window(dir.offset, dir.cnt)
           listed == [i \in DOMAIN w |-> <<w[i], 1>>]
<1>1. ServerInv /\ dir.offset \in Nat /\ dir.cnt \in Nat
  BY BeforeFacts
<1>2. Shows(dir.time, w)
  BY DEF SongsInv, ShownInv
<1>3. DOMAIN w = 1 .. Len(w)
  <2>1. w \in Seq(1 .. NumSongs)
    BY <1>1, WindowIs
  <2> HIDE DEF w
  <2> QED
    BY <2>1
<1>4. \A i, j \in DOMAIN w : w[i] = w[j] => i = j
  <2>1. \A i, j \in 1 .. Len(w) : w[i] = w[j] => i = j
    BY <1>1, WindowDistinct
  <2> HIDE DEF w
  <2> QED
    BY <1>3, <2>1
<1> HIDE DEF w
<1>5. SongFiles(dir) = {<<w[i], 1>> : i \in DOMAIN w}
  BY <1>2, <1>3 DEF Shows, SongFiles, Files
<1>6. \A i \in DOMAIN w : listed[i] = <<w[i], 1>> /\ listed[i] \in SongFiles(dir)
  BY <1>5
<1>7. listed \in [DOMAIN w -> SongFiles(dir)]
  BY <1>5
<1>8. \A x \in SongFiles(dir) : \E i \in DOMAIN w : listed[i] = x
  BY <1>5
<1>9. \A i, j \in DOMAIN w : listed[i] = listed[j] => i = j
  BY <1>4
<1>10. /\ \A i \in DOMAIN w : listed[i][1] = w[i]
       /\ \A i, j \in DOMAIN w : i < j => dir.time[listed[i]] < dir.time[listed[j]]
  BY <1>2, <1>3, <1>6 DEF Shows
<1> HIDE DEF listed
<1>11. listed \in Bijection(DOMAIN w, SongFiles(dir))
  BY <1>7, <1>8, <1>9 DEF Bijection, Injection, Surjection, IsInjective
<1> QED
  BY <1>10, <1>11 DEF w

THEOREM WindowIsShown == SongsSpec => []WindowShown
<1> QED
  BY DirectoryInvariance, ShownIsWindow, PTL

(* The counter directory names the offset and the count that are recorded, *)
(* whatever has failed, and no other command is left beside it in "My      *)
(* audios" and in playlists.                                               *)
THEOREM CountersAreTrue == SongsSpec => []CounterIsTrue
<1>1. SongsInv => CounterIsTrue
  BY DEF SongsInv
<1> QED
  BY <1>1, DirectoryInvariance, PTL
-----------------------------------------------------------------------------
(* Jobs: the files they have yet to make.                                 *)
Job == Seq(FileNames) \ {<<>>}

(* A job has yet to make the file x. *)
Awaits(js, x) == \E i \in 1 .. Len(js) : \E k \in 1 .. Len(js[i]) : js[i][k] = x

JobsInv == /\ jobs \in Seq(Job)
           /\ dir.hidden \subseteq Files(dir)
           /\ \A x \in dir.hidden : Awaits(jobs, x)

(* The number of files that are older than x. *)
Older(S, t, x) == Cardinality({y \in S : t[y] < t[x]})

LEMMA OlderIs ==
  ASSUME NEW S, IsFiniteSet(S), NEW t, \A x \in S : t[x] \in Nat
  PROVE  /\ \A x \in S : Older(S, t, x) \in 0 .. Cardinality(S) - 1
         /\ \A x, y \in S : t[x] < t[y] => Older(S, t, x) < Older(S, t, y)
<1> DEFINE P(x) == {y \in S : t[y] < t[x]}
<1>1. \A x \in S : P(x) \subseteq S /\ x \notin P(x) /\ IsFiniteSet(P(x))
  BY FS_Subset
<1>2. Cardinality(S) \in Nat /\ \A x \in S : Cardinality(P(x)) \in Nat
  <2> HIDE DEF P
  <2> QED
    BY <1>1, FS_CardinalityType
<1>3. ASSUME NEW x \in S PROVE Cardinality(P(x)) < Cardinality(S)
  <2>1. P(x) \in SUBSET S /\ P(x) # S
    BY <1>1
  <2> HIDE DEF P
  <2>2. Cardinality(P(x)) <= Cardinality(S) /\ (Cardinality(P(x)) = Cardinality(S) => P(x) = S)
    BY <2>1, FS_Subset
  <2> QED
    BY <2>1, <2>2, <1>2
<1>4. ASSUME NEW x \in S, NEW y \in S, t[x] < t[y] PROVE Cardinality(P(x)) < Cardinality(P(y))
  <2>1. P(x) \in SUBSET P(y) /\ x \in P(y) /\ x \notin P(x)
    BY <1>4
  <2>2. IsFiniteSet(P(y)) /\ P(x) # P(y)
    BY <1>1, <2>1
  <2> HIDE DEF P
  <2>3. Cardinality(P(x)) <= Cardinality(P(y)) /\ (Cardinality(P(x)) = Cardinality(P(y)) => P(x) = P(y))
    BY <2>1, <2>2, FS_Subset
  <2> QED
    BY <2>2, <2>3, <1>2
<1>5. \A x \in S : Older(S, t, x) = Cardinality(P(x))
  BY DEF Older
<1> HIDE DEF P
<1> QED
  BY <1>2, <1>3, <1>4, <1>5

(* The files of a job are those that are there, in order. *)
LEMMA InOrderIs ==
  ASSUME NEW d, Plain(d), NEW S, IsFiniteSet(S), S \subseteq FileNames,
         \A x, y \in S : d.time[x] = d.time[y] => x = y
  PROVE  /\ InOrder(d, S) \in Seq(S)
         /\ \A x \in S : \E k \in 1 .. Len(InOrder(d, S)) : InOrder(d, S)[k] = x
<1> DEFINE n == Cardinality(S)
           t == d.time
           r == [x \in S |-> Older(S, t, x) + 1]
           s == [i \in 1 .. n |-> CHOOSE x \in S : r[x] = i]
<1>1. n \in Nat /\ \A x \in S : t[x] \in Nat
  BY FS_CardinalityType DEF Plain, DirType
<1> HIDE DEF t
<1>2. /\ \A x \in S : Older(S, t, x) \in 0 .. n - 1
      /\ \A x, y \in S : t[x] < t[y] => Older(S, t, x) < Older(S, t, y)
  BY <1>1, OlderIs
<1> HIDE DEF n
<1>3. r \in [S -> 1 .. n] /\ \A x, y \in S : t[x] < t[y] => r[x] < r[y]
  BY <1>1, <1>2
<1> HIDE DEF r
<1>4. \A x, y \in S : r[x] = r[y] => x = y
  <2> SUFFICES ASSUME NEW x \in S, NEW y \in S, r[x] = r[y] PROVE x = y
    OBVIOUS
  <2>1. ~ (t[x] < t[y]) /\ ~ (t[y] < t[x]) /\ t[x] \in Nat /\ t[y] \in Nat
    BY <1>1, <1>3
  <2>2. t[x] = t[y]
    BY <2>1
  <2> QED
    BY <2>2 DEF t
<1>5. \A i \in 1 .. n : \E x \in S : r[x] = i
  <2>1. r \in Injection(S, 1 .. n)
    BY <1>3, <1>4 DEF Injection, IsInjective
  <2>2. IsFiniteSet(1 .. n) /\ Cardinality(1 .. n) = n
    BY <1>1, IntervalCounts
  <2>3. r \in Surjection(S, 1 .. n)
    BY <2>1, <2>2, FS_Injection DEF n
  <2> QED
    BY <2>3 DEF Surjection
<1>6. \A i \in 1 .. n : s[i] \in S /\ r[s[i]] = i
  BY <1>5
<1>7. \A x \in S : r[x] \in 1 .. n /\ s[r[x]] = x
  BY <1>3, <1>4, <1>6
<1>8. s \in [1 .. n -> S] /\ DOMAIN s = 1 .. n
  BY <1>6
<1> HIDE DEF s
<1>9. s \in Bijection(1 .. n, S)
  <2>1. \A i, j \in 1 .. n : s[i] = s[j] => i = j
    BY <1>6
  <2> QED
    BY <1>7, <1>8, <2>1 DEF Bijection, Injection, Surjection, IsInjective
<1>10. \A i, j \in DOMAIN s : i < j => t[s[i]] < t[s[j]]
  <2> SUFFICES ASSUME NEW i \in 1 .. n, NEW j \in 1 .. n, i < j PROVE t[s[i]] < t[s[j]]
    BY <1>8
  <2>1. /\ s[i] \in S /\ s[j] \in S /\ r[s[i]] = i /\ r[s[j]] = j
        /\ t[s[i]] \in Nat /\ t[s[j]] \in Nat /\ i \in Nat /\ j \in Nat
    BY <1>1, <1>6
  <2>2. ~ (t[s[j]] < t[s[i]])
    <3> SUFFICES ASSUME t[s[j]] < t[s[i]] PROVE FALSE
      OBVIOUS
    <3>1. r[s[j]] < r[s[i]]
      BY <1>3, <2>1
    <3> QED
      BY <2>1, <3>1
  <2>3. t[s[j]] # t[s[i]]
    <3> SUFFICES ASSUME t[s[j]] = t[s[i]] PROVE FALSE
      OBVIOUS
    <3>1. s[j] = s[i]
      BY <2>1 DEF t
    <3> QED
      BY <2>1, <3>1
  <2> QED
    BY <2>1, <2>2, <2>3
<1> DEFINE c == InOrder(d, S)
<1>11. c \in Bijection(1 .. n, S)
  BY <1>9, <1>10 DEF InOrder, n, t
<1> HIDE DEF c
<1>12. c \in [1 .. n -> S] /\ \A x \in S : \E k \in 1 .. n : c[k] = x
  BY <1>11 DEF Bijection, Injection, Surjection
<1>13. c \in Seq(S) /\ Len(c) = n
  BY <1>1, <1>12
<1> QED
  BY <1>12, <1>13 DEF c

LEMMA AwaitsMore ==
  ASSUME NEW js, NEW x, Awaits(js, x), Len(js) \in Nat, NEW more, Len(more) \in Nat,
         Len(js) <= Len(more), \A i \in 1 .. Len(js) : more[i] = js[i]
  PROVE  Awaits(more, x)
<1>1. PICK i \in 1 .. Len(js) : \E k \in 1 .. Len(js[i]) : js[i][k] = x
  BY DEF Awaits
<1>2. i \in 1 .. Len(more) /\ more[i] = js[i]
  OBVIOUS
<1> QED
  BY <1>1, <1>2 DEF Awaits

(* A job is posted, or none as there is nothing to do. *)
LEMMA OneMore ==
  ASSUME NEW js \in Seq(Job), NEW job \in Seq(FileNames),
         NEW more, more = js \o (IF job # <<>> THEN <<job>> ELSE <<>>)
  PROVE  /\ more \in Seq(Job)
         /\ \A x : Awaits(js, x) => Awaits(more, x)
         /\ \A k \in 1 .. Len(job) : Awaits(more, job[k])
<1>1. Len(js) \in Nat
  OBVIOUS
<1>2. CASE job = <<>>
  <2>1. more = js
    BY <1>2, ConcatEmptySeq
  <2>2. 1 .. Len(job) = {}
    BY <1>2
  <2> QED
    BY <2>1, <2>2
<1>3. CASE job # <<>>
  <2> DEFINE last == <<job>>
  <2>1. more = js \o last /\ job \in Job
    BY <1>3 DEF Job
  <2>2. last \in Seq(Job) /\ Len(last) = 1 /\ last[1] = job
    BY <2>1
  <2> HIDE DEF last
  <2>3. /\ more \in Seq(Job) /\ Len(more) = Len(js) + 1
        /\ \A i \in 1 .. Len(js) + 1 : more[i] = IF i <= Len(js) THEN js[i] ELSE last[i - Len(js)]
    BY <2>1, <2>2, ConcatProperties
  <2>4. /\ \A i \in 1 .. Len(js) : more[i] = js[i]
        /\ Len(js) + 1 \in 1 .. Len(more) /\ more[Len(js) + 1] = job
    BY <2>2, <2>3, <1>1
  <2>5. \A x : Awaits(js, x) => Awaits(more, x)
    <3>1. Len(more) \in Nat /\ Len(js) <= Len(more)
      BY <2>3, <1>1
    <3> QED
      BY <2>4, <3>1, <1>1, AwaitsMore
  <2>6. \A k \in 1 .. Len(job) : Awaits(more, job[k])
    BY <2>4 DEF Awaits
  <2> QED
    BY <2>3, <2>5, <2>6
<1> QED
  BY <1>2, <1>3

(* createFiles and createPhoto post jobs for all new files. *)
LEMMA PostedIs ==
  ASSUME NEW e, NEW d, Plain(e), Plain(d), PostJobs(e, d), jobs \in Seq(Job),
         \A x, y \in SongFiles(d) \ Files(e) : d.time[x] = d.time[y] => x = y
  PROVE  /\ jobs' \in Seq(Job)
         /\ \A x : Awaits(jobs, x) => Awaits(jobs', x)
         /\ \A x \in Files(d) \ Files(e) : Awaits(jobs', x)
<1> DEFINE new == Files(d) \ Files(e)
           rest == new \ {Photo}
           songs == InOrder(d, rest)
           photo == IF Photo \in new THEN <<Photo>> ELSE <<>>
           mid == jobs \o (IF photo # <<>> THEN <<photo>> ELSE <<>>)
<1>1. rest \subseteq FileNames /\ IsFiniteSet(rest)
  <2>1. Files(d) \subseteq FileNames /\ IsFiniteSet(Files(d)) /\ rest \in SUBSET Files(d)
    BY FilesCount
  <2> QED
    BY <2>1, FS_Subset
<1>2. \A x, y \in rest : d.time[x] = d.time[y] => x = y
  BY DEF SongFiles
<1>3. jobs' = mid \o (IF songs # <<>> THEN <<songs>> ELSE <<>>)
  BY DEF PostJobs
<1>4. photo \in Seq(FileNames) /\ (Photo \in new => 1 \in 1 .. Len(photo) /\ photo[1] = Photo)
  <2>1. Photo \in FileNames
    BY DEF FileNames
  <2>2. <<Photo>> \in Seq(FileNames) /\ <<>> \in Seq(FileNames)
    BY <2>1
  <2>3. Len(<<Photo>>) = 1 /\ <<Photo>>[1] = Photo
    OBVIOUS
  <2> QED
    BY <2>2, <2>3
<1> HIDE DEF rest
<1>5. songs \in Seq(rest) /\ \A x \in rest : \E k \in 1 .. Len(songs) : songs[k] = x
  BY <1>1, <1>2, InOrderIs
<1> HIDE DEF songs, photo
<1>6. songs \in Seq(FileNames)
  BY <1>1, <1>5
<1>7. /\ mid \in Seq(Job)
      /\ \A x : Awaits(jobs, x) => Awaits(mid, x)
      /\ \A k \in 1 .. Len(photo) : Awaits(mid, photo[k])
  BY <1>4, OneMore
<1> HIDE DEF mid
<1>8. /\ jobs' \in Seq(Job)
      /\ \A x : Awaits(mid, x) => Awaits(jobs', x)
      /\ \A k \in 1 .. Len(songs) : Awaits(jobs', songs[k])
  BY <1>3, <1>6, <1>7, OneMore
<1>9. Photo \in new => Awaits(jobs', Photo)
  BY <1>4, <1>7, <1>8
<1>10. \A x \in rest : Awaits(jobs', x)
  BY <1>5, <1>8
<1> QED
  BY <1>7, <1>8, <1>9, <1>10 DEF rest

(* What is new in d against e is hidden, and its songs differ in time. *)
Adds(e, d) ==
  /\ Files(e) \subseteq Files(d)
  /\ d.hidden \subseteq e.hidden \cup (Files(d) \ Files(e))
  /\ \A x, y \in SongFiles(d) \ Files(e) : d.time[x] = d.time[y] => x = y

LEMMA AddsSame ==
  ASSUME NEW e, NEW d, NEW r, Adds(e, d), r.time = d.time, r.hidden = d.hidden
  PROVE  Adds(e, r)
BY DEF Adds, Files, SongFiles

LEMMA WithPhotoAdds ==
  ASSUME NEW d, Plain(d)
  PROVE  /\ Adds(d, WithPhoto(d))
         /\ \A x \in Files(WithPhoto(d)) : x \in Files(d) \/ x = Photo
<1>1. CASE WithPhoto(d) = d
  BY <1>1 DEF Adds, SongFiles
<1>2. CASE WithPhoto(d) # d
  <2> DEFINE p == WithPhoto(d)
             t == [d.time EXCEPT ![Photo] = Size(d) + 1]
             h == d.hidden \cup {Photo}
  <2>1. d \in DirType /\ Size(d) \in Nat /\ Photo \in FileNames
    BY FilesCount DEF Plain, FileNames
  <2>2. p = [d EXCEPT !.time = t, !.hidden = h] /\ Photo \notin Files(d)
    BY <1>2, <2>1 DEF WithPhoto, DirType
  <2>3. /\ t[Photo] = Size(d) + 1 /\ t[Photo] > 0
        /\ \A x \in FileNames \ {Photo} : t[x] = d.time[x]
    BY <2>1 DEF DirType
  <2> HIDE DEF t, h, p
  <2>4. p.time = t /\ p.hidden = h
    BY <2>1, <2>2 DEF DirType
  <2>5. Files(p) = Files(d) \cup {Photo}
    BY <2>1, <2>3, <2>4 DEF Files
  <2>6. SongFiles(p) \ Files(d) = {}
    BY <2>5 DEF SongFiles
  <2>7. p.hidden \subseteq d.hidden \cup (Files(p) \ Files(d))
    BY <2>2, <2>4, <2>5 DEF h
  <2>8. Adds(d, p)
    BY <2>5, <2>6, <2>7 DEF Adds
  <2> QED
    BY <2>5, <2>8 DEF p
<1> QED
  BY <1>1, <1>2

LEMMA NewPlaces ==
  ASSUME NEW d, NEW songs \in Seq(1 .. NumSongs),
         NEW x \in New(d, songs), NEW y \in New(d, songs), Place(x, songs) = Place(y, songs)
  PROVE  x = y
<1>1. /\ \E i \in DOMAIN songs : songs[i] = x[1]
      /\ \E i \in DOMAIN songs : songs[i] = y[1]
  BY DEF New, Range
<1>2. songs[Place(x, songs)] = x[1] /\ songs[Place(y, songs)] = y[1]
  BY <1>1 DEF Place
<1>3. x[1] = y[1]
  BY <1>2
<1>4. /\ x = <<x[1], x[2]>> /\ x[2] \in Nat /\ x[2] >= 1
      /\ y = <<y[1], y[2]>> /\ y[2] \in Nat /\ y[2] >= 1
  <2>1. x \in FileNames \ {Photo} /\ y \in FileNames \ {Photo}
    BY DEF New
  <2> QED
    BY <2>1, NameIs
<1>5. /\ \A k \in 1 .. x[2] - 1 : <<x[1], k>> \in Files(d)
      /\ \A k \in 1 .. y[2] - 1 : <<y[1], k>> \in Files(d)
      /\ x \notin Files(d) /\ y \notin Files(d)
  BY DEF New
<1>6. ~ (y[2] < x[2])
  <2> SUFFICES ASSUME y[2] < x[2] PROVE FALSE
    OBVIOUS
  <2>1. y[2] \in 1 .. x[2] - 1
    BY <1>4
  <2>2. <<x[1], y[2]>> \in Files(d)
    BY <2>1, <1>5
  <2> QED
    BY <2>2, <1>3, <1>4, <1>5
<1>7. ~ (x[2] < y[2])
  <2> SUFFICES ASSUME x[2] < y[2] PROVE FALSE
    OBVIOUS
  <2>1. x[2] \in 1 .. y[2] - 1
    BY <1>4
  <2>2. <<y[1], x[2]>> \in Files(d)
    BY <2>1, <1>5
  <2> QED
    BY <2>2, <1>3, <1>4, <1>5
<1>8. x[2] = y[2]
  BY <1>4, <1>6, <1>7
<1> QED
  BY <1>3, <1>4, <1>8

LEMMA AddFilesAdds ==
  ASSUME NEW d, Plain(d), NEW songs \in Seq(1 .. NumSongs)
  PROVE  LET f == AddFiles(d, songs)
         IN  /\ Files(f) = Files(d) \cup New(d, songs)
             /\ f.hidden = d.hidden \cup New(d, songs)
             /\ \A x, y \in New(d, songs) : f.time[x] = f.time[y] => x = y
<1> DEFINE f == AddFiles(d, songs)
           new == New(d, songs)
<1>1. /\ Plain(f) /\ Size(d) \in Nat
      /\ \A x \in FileNames : f.time[x] = IF x \in new THEN Size(d) + Place(x, songs)
                                          ELSE d.time[x]
  BY AddFilesIs, FilesCount
<1>2. f.hidden = d.hidden \cup new
  BY DEF AddFiles, New, Plain, DirType
<1>3. new \subseteq FileNames /\ \A x \in new : Place(x, songs) \in Nat /\ Place(x, songs) >= 1
  <2>1. new \subseteq FileNames
    BY DEF New
  <2>2. ASSUME NEW x \in new PROVE Place(x, songs) \in Nat /\ Place(x, songs) >= 1
    <3>1. \E i \in DOMAIN songs : songs[i] = x[1]
      BY DEF New, Range
    <3>2. Place(x, songs) \in DOMAIN songs
      BY <3>1 DEF Place
    <3> QED
      BY <3>2
  <2> QED
    BY <2>1, <2>2
<1> HIDE DEF f, new
<1>4. \A x \in new : f.time[x] = Size(d) + Place(x, songs) /\ f.time[x] > 0
  BY <1>1, <1>3
<1>5. Files(f) = Files(d) \cup new
  BY <1>1, <1>3, <1>4 DEF Files
<1>6. ASSUME NEW x \in new, NEW y \in new, f.time[x] = f.time[y] PROVE x = y
  <2>1. Place(x, songs) = Place(y, songs)
    BY <1>1, <1>3, <1>4, <1>6
  <2> QED
    BY <2>1, NewPlaces DEF new
<1> QED
  BY <1>2, <1>5, <1>6 DEF f, new

LEMMA FilledAdds ==
  ASSUME ServerInv, NEW d, Plain(d), NEW o \in Nat, NEW n \in Nat
  PROVE  Adds(d, Filled(d, o, n))
<1> DEFINE p == WithPhoto(d)
           w == Window(o, n)
           f == AddFiles(p, w)
<1>1. Plain(p)
  BY WithPhotoIs
<1>2. Adds(d, p) /\ \A x \in Files(p) : x \in Files(d) \/ x = Photo
  BY WithPhotoAdds
<1>3. w \in Seq(1 .. NumSongs)
  BY WindowIs
<1> HIDE DEF p, w
<1>4. /\ Files(f) = Files(p) \cup New(p, w)
      /\ f.hidden = p.hidden \cup New(p, w)
      /\ \A x, y \in New(p, w) : f.time[x] = f.time[y] => x = y
  BY <1>1, <1>3, AddFilesAdds
<1> HIDE DEF f
<1>5. New(p, w) \cap Files(p) = {}
  BY DEF New
<1>6. SongFiles(f) \ Files(d) \subseteq New(p, w)
  BY <1>2, <1>4 DEF SongFiles
<1>7. /\ Files(d) \subseteq Files(f)
      /\ f.hidden \subseteq d.hidden \cup (Files(f) \ Files(d))
  BY <1>2, <1>4, <1>5 DEF Adds
<1>8. Adds(d, f)
  BY <1>4, <1>6, <1>7 DEF Adds
<1> QED
  BY <1>8 DEF Filled, f, p, w

LEMMA HiddenKept ==
  ASSUME NEW d, Plain(d), d.hidden \subseteq Files(d), NEW files, NEW dirs
  PROVE  LET k == KeepItems(d, files, dirs)
         IN  k.hidden \subseteq d.hidden \cap Files(k)
<1> DEFINE k == KeepItems(d, files, dirs)
<1>1. k.hidden = d.hidden \cap files
  BY DEF KeepItems, Plain, DirType
<1>2. \A x \in FileNames : k.time[x] = IF x \in files THEN d.time[x] ELSE 0
  BY KeepItemsIs
<1> HIDE DEF k
<1>3. d.hidden \subseteq FileNames
  BY DEF Plain, DirType
<1> QED
  BY <1>1, <1>2, <1>3 DEF Files, k

LEMMA HiddenBeforeNumber ==
  ASSUME Plain(dir), dir.hidden \subseteq Files(dir)
  PROVE  BeforeNumber.hidden \subseteq dir.hidden \cap Files(BeforeNumber)
<1> DEFINE e == WithoutDir(dir, Refresh)
           d == WithoutDir(e, dir.counter)
<1>1. e.hidden \subseteq dir.hidden \cap Files(e)
  BY HiddenKept DEF WithoutDir
<1>2. Plain(e)
  BY WithoutDirIs
<1> HIDE DEF e
<1>3. d.hidden \subseteq e.hidden \cap Files(d)
  BY <1>1, <1>2, HiddenKept DEF WithoutDir
<1> QED
  BY <1>1, <1>3 DEF BeforeNumber, e

LEMMA HiddenRecorded ==
  ASSUME NEW d, Plain(d), NEW o, NEW c, NEW command
  PROVE  LET r == Recorded(d, o, c, command)
         IN  r.hidden = d.hidden /\ r.time = d.time
BY DEF Recorded, Plain, DirType

LEMMA JobsNext ==
  ASSUME JobsInv, NEW e, Plain(e), e.hidden \subseteq dir.hidden \cap Files(e),
         NEW d, Plain(d), PostJobs(e, d), Adds(e, d),
         dir'.time = d.time, dir'.hidden = d.hidden
  PROVE  JobsInv'
<1>1. /\ jobs' \in Seq(Job)
      /\ \A x : Awaits(jobs, x) => Awaits(jobs', x)
      /\ \A x \in Files(d) \ Files(e) : Awaits(jobs', x)
  BY PostedIs DEF JobsInv, Adds
<1>2. Files(dir') = Files(d)
  BY DEF Files
<1>3. d.hidden \subseteq Files(d)
  BY DEF Adds
<1>4. ASSUME NEW x \in d.hidden PROVE Awaits(jobs', x)
  <2>1. x \in dir.hidden \/ x \in Files(d) \ Files(e)
    BY DEF Adds
  <2> QED
    BY <1>1, <2>1 DEF JobsInv
<1> QED
  BY <1>1, <1>2, <1>3, <1>4 DEF JobsInv, Files, Awaits

LEMMA JobsKept ==
  ASSUME JobsInv, jobs' = jobs, dir'.hidden \subseteq dir.hidden, dir'.hidden \subseteq Files(dir')
  PROVE  JobsInv'
BY DEF JobsInv, Awaits, Files

(* A job goes on with its next file, or has ended. *)
LEMMA RemoveAtKeeps ==
  ASSUME NEW S, NEW s \in Seq(S), NEW n \in 1 .. Len(s)
  PROVE  /\ RemoveAt(s, n) \in Seq(S)
         /\ \A j \in 1 .. Len(s) : j # n =>
              \E k \in 1 .. Len(RemoveAt(s, n)) : RemoveAt(s, n)[k] = s[j]
<1> DEFINE a == SubSeq(s, 1, n - 1)
           b == SubSeq(s, n + 1, Len(s))
           L == Len(s)
<1>1. L \in Nat /\ n \in Nat /\ 1 <= n /\ n <= L /\ \A i \in 1 .. L : s[i] \in S
  BY ElementOfSeq
<1> HIDE DEF L
<1>2. a \in Seq(S) /\ Len(a) = n - 1 /\ \A i \in 1 .. n - 1 : a[i] = s[i]
  <2>1. 1 \in Int /\ n - 1 \in Int /\ \A i \in 1 .. n - 1 : s[i] \in S
    BY <1>1
  <2>2. /\ a \in Seq(S) /\ Len(a) = IF 1 <= n - 1 THEN (n - 1) - 1 + 1 ELSE 0
        /\ \A i \in 1 .. (n - 1) - 1 + 1 : a[i] = s[1 + i - 1]
    BY <2>1, SubSeqProperties
  <2> HIDE DEF a
  <2> QED
    BY <1>1, <2>2
<1>3. b \in Seq(S) /\ Len(b) = L - n /\ \A i \in 1 .. L - n : b[i] = s[n + i]
  <2>1. n + 1 \in Int /\ L \in Int /\ \A i \in n + 1 .. L : s[i] \in S
    BY <1>1
  <2>2. /\ b \in Seq(S) /\ Len(b) = IF n + 1 <= L THEN L - (n + 1) + 1 ELSE 0
        /\ \A i \in 1 .. L - (n + 1) + 1 : b[i] = s[(n + 1) + i - 1]
    BY <2>1, SubSeqProperties DEF L
  <2>3. \A i \in Int : (n + 1) + i - 1 = n + i
    BY <1>1
  <2> HIDE DEF b
  <2> QED
    BY <1>1, <2>2, <2>3
<1> DEFINE r == RemoveAt(s, n)
<1>4. r = a \o b
  BY DEF RemoveAt, L
<1> HIDE DEF a, b, r
<1>5. /\ r \in Seq(S) /\ Len(r) = L - 1
      /\ \A i \in 1 .. L - 1 : r[i] = IF i <= n - 1 THEN a[i] ELSE b[i - (n - 1)]
  <2>1. /\ r \in Seq(S) /\ Len(r) = Len(a) + Len(b)
        /\ \A i \in 1 .. Len(a) + Len(b) : r[i] = IF i <= Len(a) THEN a[i] ELSE b[i - Len(a)]
    BY <1>2, <1>3, <1>4, ConcatProperties
  <2>2. Len(a) + Len(b) = L - 1
    BY <1>1, <1>2, <1>3
  <2> QED
    BY <2>1, <2>2, <1>2
<1>6. ASSUME NEW j \in 1 .. L, j # n PROVE \E k \in 1 .. L - 1 : r[k] = s[j]
  <2>1. CASE j < n
    <3>1. j \in 1 .. L - 1 /\ j <= n - 1 /\ j \in 1 .. n - 1
      BY <2>1, <1>1
    <3>2. r[j] = s[j]
      BY <3>1, <1>2, <1>5
    <3> QED
      BY <3>1, <3>2
  <2>2. CASE j > n
    <3> DEFINE k == j - 1
               i == j - n
    <3>1. /\ k \in 1 .. L - 1 /\ ~ (k <= n - 1) /\ k - (n - 1) = i
          /\ i \in 1 .. L - n /\ n + i = j
      BY <2>2, <1>1
    <3> HIDE DEF k, i
    <3>2. r[k] = s[j]
      BY <3>1, <1>3, <1>5
    <3> QED
      BY <3>1, <3>2
  <2> QED
    BY <2>1, <2>2, <1>1, <1>6
<1> QED
  BY <1>5, <1>6 DEF r, L

LEMMA MakeFileJobs ==
  ASSUME JobsInv, SongsInv, NEW i \in DOMAIN jobs, MakeFile(i)
  PROVE  JobsInv'
<1>1. /\ jobs \in Seq(Job) /\ dir.hidden \subseteq Files(dir)
      /\ \A x \in dir.hidden : Awaits(jobs, x)
  BY DEF JobsInv
<1> DEFINE job == jobs[i]
<1>2. /\ i \in 1 .. Len(jobs) /\ Len(jobs) \in Nat
      /\ job \in Seq(FileNames) /\ job # <<>> /\ Len(job) \in Nat
  <2>1. i \in 1 .. Len(jobs) /\ Len(jobs) \in Nat
    BY <1>1
  <2>2. job \in Job
    BY <1>1, <2>1, ElementOfSeq
  <2> QED
    BY <2>1, <2>2 DEF Job
<1>3. /\ jobs' = IF Len(job) = 1 THEN RemoveAt(jobs, i) ELSE [jobs EXCEPT ![i] = Tail(job)]
      /\ dir' = [dir EXCEPT !.hidden = @ \ {Head(job)}]
  BY <1>1, <1>2 DEF MakeFile
<1> HIDE DEF job
<1>4. /\ Tail(job) \in Seq(FileNames) /\ Len(Tail(job)) = Len(job) - 1
      /\ \A k \in 2 .. Len(job) : k - 1 \in 1 .. Len(Tail(job)) /\ Tail(job)[k - 1] = job[k]
  <2>1. /\ Tail(job) \in Seq(FileNames) /\ Len(Tail(job)) = Len(job) - 1
        /\ \A j \in 1 .. Len(Tail(job)) : Tail(job)[j] = job[j + 1]
    BY <1>2, HeadTailProperties
  <2>2. ASSUME NEW k \in 2 .. Len(job)
        PROVE  k - 1 \in 1 .. Len(job) - 1 /\ (k - 1) + 1 = k
    BY <1>2
  <2> QED
    BY <2>1, <2>2
<1>5. Head(job) = job[1]
  BY <1>2
<1>6. Plain(dir)
  BY BeforeFacts
<1>7. dir'.hidden = dir.hidden \ {Head(job)} /\ Files(dir') = Files(dir)
  BY <1>3, <1>6 DEF Plain, DirType, Files
<1>8. jobs' \in Seq(Job)
  <2>1. CASE Len(job) = 1
    BY <1>1, <1>2, <1>3, <2>1, RemoveAtKeeps
  <2>2. CASE Len(job) # 1
    <3>1. Tail(job) # <<>>
      <4>1. Len(Tail(job)) # 0
        BY <1>2, <1>4, <2>2
      <4>2. Len(<<>>) = 0
        OBVIOUS
      <4> QED
        BY <4>1, <4>2
    <3>2. Tail(job) \in Job
      BY <1>4, <3>1 DEF Job
    <3> QED
      BY <1>1, <1>2, <1>3, <2>2, <3>2, ExceptSeq
  <2> QED
    BY <2>1, <2>2
<1>9. ASSUME NEW x \in dir.hidden, x # Head(job) PROVE Awaits(jobs', x)
  <2>1. PICK a \in 1 .. Len(jobs) : \E k \in 1 .. Len(jobs[a]) : jobs[a][k] = x
    BY <1>1, <1>9 DEF Awaits
  <2>2. PICK k \in 1 .. Len(jobs[a]) : jobs[a][k] = x
    BY <2>1
  <2>3. CASE Len(job) = 1
    <3>1. a # i
      <4> SUFFICES ASSUME a = i PROVE FALSE
        OBVIOUS
      <4>1. job[k] = x /\ k = 1
        BY <2>2, <2>3 DEF job
      <4> QED
        BY <4>1, <1>5, <1>9
    <3>2. PICK b \in 1 .. Len(jobs') : jobs'[b] = jobs[a]
      BY <1>1, <1>2, <1>3, <2>3, <3>1, RemoveAtKeeps
    <3> QED
      BY <2>2, <3>2 DEF Awaits
  <2>4. CASE Len(job) # 1
    <3>1. jobs' = [jobs EXCEPT ![i] = Tail(job)]
      BY <1>3, <2>4
    <3>2. /\ Len(jobs') = Len(jobs)
          /\ \A b \in 1 .. Len(jobs) : jobs'[b] = IF b = i THEN Tail(job) ELSE jobs[b]
      BY <1>1, <1>2, <3>1
    <3>3. CASE a = i
      <4>1. job[k] = x /\ k \in 1 .. Len(job) /\ k # 1
        BY <2>2, <3>3, <1>5, <1>9 DEF job
      <4>2. k \in 2 .. Len(job)
        BY <4>1, <1>2
      <4>3. k - 1 \in 1 .. Len(jobs'[i]) /\ jobs'[i][k - 1] = x
        BY <4>1, <4>2, <1>2, <1>4, <3>2
      <4> QED
        BY <1>2, <3>2, <4>3 DEF Awaits
    <3>4. CASE a # i
      <4>1. a \in 1 .. Len(jobs') /\ jobs'[a] = jobs[a]
        BY <3>2, <3>4
      <4> QED
        BY <2>2, <4>1 DEF Awaits
    <3> QED
      BY <3>3, <3>4
  <2> QED
    BY <2>3, <2>4
<1>10. dir'.hidden \subseteq Files(dir')
  BY <1>1, <1>7
<1>11. \A x \in dir'.hidden : Awaits(jobs', x)
  BY <1>7, <1>9
<1> QED
  BY <1>8, <1>10, <1>11 DEF JobsInv, Files, Awaits

LEMMA CreateJobs ==
  ASSUME SongsInv, JobsInv, SongsInv', Create \/ CreateFails
  PROVE  JobsInv'
<1> DEFINE e == NewDir(0, 0)
           d == NewDir(0, NumSearchFiles)
<1>1. ServerInv /\ Plain(dir')
  BY DEF SongsInv, TypeInv
<1>2. /\ NumSearchFiles \in Nat /\ 0 \in Nat
  BY DirectoryAssumption
<1>3. Plain(e) /\ Plain(d)
  BY <1>2, NewDirIs
<1>4. /\ e.hidden = {} /\ Files(e) = {} /\ d.hidden = {} /\ Files(d) = {}
  BY DEF NewDir, Files
<1> HIDE DEF e, d
<1>5. CASE Create
  <2>1. dir' = Filled(d, 0, NumSearchFiles) /\ PostJobs(e, dir')
    BY <1>5 DEF Create, e, d
  <2>2. Adds(d, dir')
    BY <1>1, <1>2, <1>3, <2>1, FilledAdds
  <2>3. Adds(e, dir')
    BY <1>4, <2>2 DEF Adds
  <2> QED
    BY <1>1, <1>3, <1>4, <2>1, <2>3, JobsNext
<1>6. CASE CreateFails
  <2>1. dir' = d /\ jobs' = jobs
    BY <1>6 DEF CreateFails, d
  <2> QED
    BY <1>4, <2>1, JobsKept
<1> QED
  BY <1>5, <1>6

LEMMA NumberJobs ==
  ASSUME SongsInv, JobsInv, SongsInv', NEW n, n \in Nat, Shrink(n) \/ Grow(n) \/ GrowFails(n)
  PROVE  JobsInv'
<1> DEFINE d == BeforeNumber
<1>1. /\ ServerInv /\ Plain(dir') /\ Plain(dir) /\ dir.hidden \subseteq Files(dir)
      /\ dir.offset \in Nat /\ dir.cnt \in Nat
  BY BeforeFacts DEF SongsInv, TypeInv, JobsInv
<1>2. /\ Plain(d) /\ d.offset = dir.offset /\ d.cnt = dir.cnt
      /\ d.hidden \subseteq dir.hidden \cap Files(d)
  BY <1>1, BeforeNumberIs, HiddenBeforeNumber
<1>3. CASE Shrink(n)
  <2>1. PICK files \in SUBSET Files(d), dirs \in SUBSET (d.dirs \ {Similar}) :
          dir' = Recorded(KeepItems(d, files, dirs \cup {Similar}), d.offset, n, <<n>>)
    BY <1>3 DEF Shrink
  <2>2. jobs' = jobs
    BY <1>3 DEF Shrink
  <2> HIDE DEF d
  <2> DEFINE k == KeepItems(d, files, dirs \cup {Similar})
  <2>3. k.hidden \subseteq d.hidden \cap Files(k) /\ Plain(k)
    BY <1>2, HiddenKept, KeepItemsIs
  <2> HIDE DEF k
  <2>4. dir'.hidden = k.hidden /\ dir'.time = k.time
    BY <2>1, <2>3, HiddenRecorded DEF k
  <2>5. Files(dir') = Files(k)
    BY <2>4 DEF Files
  <2>6. dir'.hidden \subseteq dir.hidden /\ dir'.hidden \subseteq Files(dir')
    BY <1>2, <2>3, <2>4, <2>5
  <2> QED
    BY <2>2, <2>6, JobsKept
<1>4. CASE Grow(n)
  <2> DEFINE o == d.offset + d.cnt
             m == n - d.cnt
             f == Filled(d, o, m)
  <2>1. dir' = Recorded(f, d.offset, n, <<n>>) /\ PostJobs(d, f) /\ n > dir.cnt
    BY <1>4 DEF Grow
  <2> HIDE DEF d
  <2>2. o \in Nat /\ m \in Nat
    BY <1>1, <1>2, <2>1
  <2> HIDE DEF o, m
  <2>3. Adds(d, f)
    BY <1>1, <1>2, <2>2, FilledAdds
  <2>4. Plain(f)
    <3>1. d.time[Photo] > 0 => kind = "playlist"
      BY BeforeFacts, BeforeNumberIs DEF d
    <3> QED
      BY <1>1, <1>2, <2>2, <3>1, FilledIs
  <2> HIDE DEF f
  <2>5. dir'.hidden = f.hidden /\ dir'.time = f.time
    BY <2>1, <2>4, HiddenRecorded
  <2> QED
    BY <1>2, <2>1, <2>3, <2>4, <2>5, JobsNext
<1>5. CASE GrowFails(n)
  <2>1. dir' = WithPhoto(d) /\ PostJobs(d, dir')
    BY <1>5 DEF GrowFails
  <2> HIDE DEF d
  <2>2. Adds(d, dir')
    BY <1>2, <2>1, WithPhotoAdds
  <2> QED
    BY <1>1, <1>2, <2>1, <2>2, JobsNext
<1> QED
  BY <1>3, <1>4, <1>5

(* An interval and a refresh ask for the songs of an emptied directory. *)
LEMMA AnewJobs ==
  ASSUME SongsInv, JobsInv, SongsInv', NEW dirs,
         PostJobs(KeepItems(dir, {}, dirs), dir'),
         Adds(KeepItems(dir, {}, dirs), dir')
  PROVE  JobsInv'
<1> DEFINE e == KeepItems(dir, {}, dirs)
<1>1. /\ Plain(dir') /\ Plain(dir) /\ dir.hidden \subseteq Files(dir)
  BY DEF SongsInv, TypeInv, JobsInv
<1>2. Plain(e) /\ e.hidden \subseteq dir.hidden \cap Files(e)
  BY <1>1, HiddenKept, KeepItemsIs
<1>3. PostJobs(e, dir') /\ Adds(e, dir')
  OBVIOUS
<1> HIDE DEF e
<1> QED
  BY <1>1, <1>2, <1>3, JobsNext

LEMMA IntervalJobs ==
  ASSUME SongsInv, JobsInv, SongsInv', NEW o \in Nat, NEW c \in Nat,
         Interval(o, c) \/ IntervalFails(o, c)
  PROVE  JobsInv'
<1> DEFINE e == KeepItems(dir, {}, Left(dir))
<1>1. ServerInv /\ Plain(dir') /\ Plain(dir) /\ Photo \in FileNames
  BY BeforeFacts DEF SongsInv, TypeInv
<1>2. Plain(e) /\ \A x \in FileNames : e.time[x] = 0
  BY EmptiedIs
<1>3. PostJobs(e, dir')
  BY DEF Interval, IntervalFails, Emptied
<1>4. /\ Interval(o, c) => dir' = Recorded(Filled(e, o, c), o, c, <<o, "-", c>>)
      /\ IntervalFails(o, c) => dir' = WithPhoto(e)
  BY DEF Interval, IntervalFails, Emptied
<1> HIDE DEF e
<1>5. CASE Interval(o, c)
  <2> DEFINE f == Filled(e, o, c)
  <2>1. Adds(e, f)
    BY <1>1, <1>2, FilledAdds
  <2>2. Plain(f)
    <3>1. e.time[Photo] > 0 => kind = "playlist"
      BY <1>1, <1>2
    <3> QED
      BY <1>1, <1>2, <3>1, FilledIs
  <2>3. dir' = Recorded(f, o, c, <<o, "-", c>>)
    BY <1>4, <1>5
  <2> HIDE DEF f
  <2>4. dir'.hidden = f.hidden /\ dir'.time = f.time
    BY <2>2, <2>3, HiddenRecorded
  <2>5. Adds(e, dir')
    BY <2>1, <2>4, AddsSame
  <2> QED
    BY <1>3, <2>5, AnewJobs DEF e
<1>6. CASE IntervalFails(o, c)
  <2>1. Adds(e, dir')
    BY <1>2, <1>4, <1>6, WithPhotoAdds
  <2> QED
    BY <1>3, <2>1, AnewJobs DEF e
<1> QED
  BY <1>5, <1>6

LEMMA RefreshJobs ==
  ASSUME SongsInv, JobsInv, SongsInv', RefreshSongs \/ RefreshFails
  PROVE  JobsInv'
<1> DEFINE e == KeepItems(dir, {}, {Similar, dir.counter})
           f == Filled(e, dir.offset, dir.cnt)
<1>1. /\ ServerInv /\ Plain(dir') /\ Plain(dir) /\ Photo \in FileNames
      /\ dir.offset \in Nat /\ dir.cnt \in Nat
  BY BeforeFacts DEF SongsInv, TypeInv
<1>2. Plain(e) /\ \A x \in FileNames : e.time[x] = 0
  BY EmptiedIs
<1>3. PostJobs(e, dir')
  BY DEF RefreshSongs, RefreshFails, BeforeRefresh
<1>4. /\ RefreshSongs => dir' = [f EXCEPT !.dirs = @ \cup {Refresh}]
      /\ RefreshFails => dir' = WithPhoto(e)
  BY DEF RefreshSongs, RefreshFails, BeforeRefresh
<1> HIDE DEF e
<1>5. CASE RefreshSongs
  <2>1. Adds(e, f)
    BY <1>1, <1>2, FilledAdds
  <2>2. Plain(f)
    <3>1. e.time[Photo] > 0 => kind = "playlist"
      BY <1>1, <1>2
    <3> QED
      BY <1>1, <1>2, <3>1, FilledIs
  <2> HIDE DEF f
  <2>3. dir'.hidden = f.hidden /\ dir'.time = f.time
    BY <1>4, <1>5, <2>2 DEF Plain, DirType
  <2>4. Adds(e, dir')
    BY <2>1, <2>3, AddsSame
  <2> QED
    BY <1>3, <2>4, AnewJobs DEF e
<1>6. CASE RefreshFails
  <2>1. Adds(e, dir')
    BY <1>2, <1>4, <1>6, WithPhotoAdds
  <2> QED
    BY <1>3, <2>1, AnewJobs DEF e
<1> QED
  BY <1>5, <1>6

LEMMA DeletionJobs ==
  ASSUME SongsInv, JobsInv, Deletions
  PROVE  JobsInv'
<1>1. Plain(dir) /\ dir.hidden \subseteq Files(dir)
  BY DEF SongsInv, TypeInv, JobsInv
<1>2. ASSUME NEW files, NEW dirs, dir' = KeepItems(dir, files, dirs), jobs' = jobs
      PROVE  JobsInv'
  <2>1. dir'.hidden \subseteq dir.hidden \cap Files(dir')
    BY <1>1, <1>2, HiddenKept
  <2> QED
    BY <1>2, <2>1, JobsKept
<1>3. ASSUME NEW x \in dir.dirs, DeleteDir(x) PROVE JobsInv'
  BY <1>2, <1>3 DEF DeleteDir, WithoutDir
<1>4. ASSUME NEW x \in Files(dir), DeleteFile(x) PROVE JobsInv'
  BY <1>2, <1>4 DEF DeleteFile
<1>5. CASE Delete
  <2>1. dir'.hidden = {} /\ jobs' = jobs
    BY <1>5 DEF Delete, NewDir
  <2> QED
    BY <2>1, JobsKept
<1> QED
  BY <1>3, <1>4, <1>5 DEF Deletions

LEMMA StepJobs == SongsInv /\ SongsInv' /\ JobsInv /\ [SongsNext]_songsVars => JobsInv'
<1> SUFFICES ASSUME SongsInv, SongsInv', JobsInv, [SongsNext]_songsVars PROVE JobsInv'
  OBVIOUS
<1>1. dir.hidden \subseteq Files(dir)
  BY DEF JobsInv
<1>2. CASE UNCHANGED songsVars \/ JobThrows
  <2>1. dir' = dir /\ jobs' = jobs
    BY <1>2 DEF songsVars, JobThrows
  <2> QED
    BY <1>1, <2>1, JobsKept
<1>3. CASE Commands
  <2>1. CASE Create \/ CreateFails
    BY <2>1, CreateJobs
  <2>2. ASSUME NEW c \in Numbers, Shrink(c[1]) \/ Grow(c[1]) \/ GrowFails(c[1])
        PROVE  JobsInv'
    <3>1. c[1] \in Nat
      BY CommandType
    <3> QED
      BY <2>2, <3>1, NumberJobs
  <2>3. ASSUME NEW c \in Intervals, Interval(c[1], c[3]) \/ IntervalFails(c[1], c[3])
        PROVE  JobsInv'
    <3>1. c[1] \in Nat /\ c[3] \in Nat
      BY CommandType
    <3> QED
      BY <2>3, <3>1, IntervalJobs
  <2>4. CASE RefreshSongs \/ RefreshFails
    BY <2>4, RefreshJobs
  <2>5. ASSUME NEW x \in {Nested, Similar}, MakeOther(x)
        PROVE  JobsInv'
    <3>1. jobs' = jobs /\ dir' = [dir EXCEPT !.dirs = @ \cup {x}]
      BY <2>5 DEF MakeOther
    <3>2. Plain(dir)
      BY BeforeFacts
    <3>3. dir'.hidden = dir.hidden /\ Files(dir') = Files(dir)
      BY <3>1, <3>2 DEF Plain, DirType, Files
    <3> QED
      BY <1>1, <3>1, <3>3, JobsKept
  <2> QED
    BY <1>3, <2>1, <2>2, <2>3, <2>4, <2>5 DEF Commands
<1>4. CASE Deletions
  BY <1>4, DeletionJobs
<1>5. CASE Jobs
  BY <1>5, MakeFileJobs DEF Jobs
<1> QED
  BY <1>2, <1>3, <1>4, <1>5 DEF SongsNext

(* A hidden file is an item of the directory and a job of the pool has yet *)
(* to make it, whatever was deleted, refreshed or asked for meanwhile: so  *)
(* it is not hidden for ever.                                              *)
THEOREM HiddenFilesHaveJobs == SongsSpec => []JobsInv
<1>1. SongsInit => JobsInv
  <2> SUFFICES ASSUME SongsInit PROVE JobsInv
    OBVIOUS
  <2>1. jobs = <<>> /\ dir.hidden = {}
    BY DEF SongsInit, NewDir
  <2> QED
    BY <2>1 DEF JobsInv
<1> QED
  BY <1>1, SongsInitInv, SongsStepInv, StepJobs, PTL DEF SongsSpec

(* Types.                                                                  *)
THEOREM SongsTypeCorrect == SongsSpec => []SongsTypeOK
<1> DEFINE Rest == ended \in BOOLEAN /\ dirCalls \in 0 .. MaxDirCalls
<1>1. SongsInit => Rest
  <2>1. 0 \in 0 .. MaxDirCalls
    BY DirectoryAssumption
  <2> QED
    BY <2>1 DEF SongsInit
<1>2. Rest /\ [SongsNext]_songsVars => Rest'
  <2> SUFFICES ASSUME Rest, [SongsNext]_songsVars PROVE Rest'
    OBVIOUS
  <2>1. CASE UNCHANGED <<ended, dirCalls>>
    BY <2>1
  <2>2. CASE Call
    <3>1. MaxDirCalls \in Nat
      BY DirectoryAssumption
    <3> QED
      BY <2>2, <3>1 DEF Call
  <2>3. CASE JobThrows
    BY <2>3 DEF JobThrows
  <2>4. Call \/ JobThrows \/ UNCHANGED <<ended, dirCalls>>
    BY DEF SongsNext, Commands, Create, CreateFails, Shrink, Grow, GrowFails, Interval,
           IntervalFails, RefreshSongs, RefreshFails, MakeOther, Command, Deletions, DeleteDir,
           DeleteFile, Delete, Jobs, MakeFile, songsVars
  <2> QED
    BY <2>1, <2>2, <2>3, <2>4
<1>3. SongsInv /\ JobsInv /\ Rest => SongsTypeOK
  BY DEF SongsInv, TypeInv, ServerInv, JobsInv, Job, Plain, DirType, DirNames, SongsTypeOK
<1> QED
  BY <1>1, <1>2, <1>3, DirectoryInvariance, HiddenFilesHaveJobs, PTL DEF SongsSpec
=============================================================================

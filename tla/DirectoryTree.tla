---------------------------- MODULE DirectoryTree ----------------------------
(***************************************************************************)
(* The tree of directories and songs below the directory of a control, and *)
(* the calls of FUSE threads that walk it.  Each node has a mutex.  A walk *)
(* locks a child while it holds the parent, keeps the last one or two      *)
(* nodes of its path, and what the call does is done under their locks.    *)
(* A rename walks twice, holding what its first walk has kept.             *)
(*                                                                         *)
(* Locking the next node and then releasing one kept for it is one step,   *)
(* and so is what a call does under its locks with the release of them     *)
(* all: in between a thread only touches what it has locked.               *)
(* A search finds at most one song here.  Which items a counter or refresh *)
(* directory removes is left open, and whether a call is refused.          *)
(***************************************************************************)
EXTENDS Integers, Sequences

CONSTANTS
  Threads,
  Names,     \* names of directories and songs
  Songs,     \* those that songs are given
  Existing,  \* the path that is there from the start
  Calls,     \* the calls made: [kind, path, to]
  MaxNodes,  \* bound: directories and songs ever made
  MaxCalls   \* bound: calls per thread

None  == 0
Root  == 1
Nodes == 1 .. MaxNodes
Kinds == {"lookup", "mkdir", "remove", "rename"}

ASSUME TreeAssumption ==
  /\ Songs \subseteq Names /\ None \notin Names \cup Threads
  /\ MaxNodes \in Nat /\ MaxCalls \in Nat
  /\ Existing \in Seq(Names) /\ Len(Existing) < MaxNodes
  /\ Calls \subseteq [kind : Kinds, path : Seq(Names), to : Seq(Names)]
  /\ \A c \in Calls : /\ c.kind # "lookup" => c.path # <<>>
                      /\ c.kind = "rename" => c.to # <<>>

VARIABLES
  node,    \* the nodes: a directory or not, its items
  next,    \* IdGenerator: the next node
  owner,   \* which thread has the lock of a node
  at,      \* where each thread is
  call,    \* its call
  parts,   \* _parts of the FsPath it walks
  walked,  \* how many nodes of the path it has reached
  first,   \* the FsPath of a rename's first walk
  calls,   \* calls made
  seen     \* what the path has led to, at some time since its walk began

treeVars == <<node, next>>
walkVars == <<at, call, parts, walked, first>>
vars     == <<treeVars, owner, walkVars, calls, seen>>

NoItems == [nm \in Names |-> None]
Unused  == [dir |-> FALSE, items |-> NoItems]
NoCall  == [kind |-> "lookup", path |-> <<>>, to |-> <<>>]

(* The nodes of the path that exists are the first ones, in its order.     *)
InitialNode(n) ==
  IF n > Len(Existing) + 1 THEN Unused
  ELSE [dir   |-> n = Root \/ Existing[n - 1] \notin Songs,
        items |-> [nm \in Names |-> IF n <= Len(Existing) /\ nm = Existing[n]
                                    THEN n + 1 ELSE None]]

Init == /\ node = [n \in Nodes |-> InitialNode(n)]
        /\ next = Len(Existing) + 2
        /\ owner = [n \in Nodes |-> None]
        /\ at = [t \in Threads |-> "idle"]
        /\ call = [t \in Threads |-> NoCall]
        /\ parts = [t \in Threads |-> <<>>]
        /\ walked = [t \in Threads |-> 0]
        /\ first = [t \in Threads |-> <<>>]
        /\ calls = [t \in Threads |-> 0]
        /\ seen = [t \in Threads |-> {}]
-----------------------------------------------------------------------------
Elements(s) == {s[i] : i \in DOMAIN s}

Held(t) == Elements(first[t]) \cup Elements(parts[t])

Walking(t) == at[t] \in {"walk", "rewalk"}

Path(t) == IF at[t] = "rewalk" THEN call[t].to ELSE call[t].path

(* The last argument of findPath: how many nodes are kept. *)
PathSize(t) == IF call[t].kind = "lookup" THEN 1 ELSE 2

(* Where the beginnings of a path lead in a tree, and where all of it does. *)
Reached(tree, path) ==
  LET found[i \in 0 .. Len(path)] ==
        IF i = 0 THEN Root
        ELSE IF found[i - 1] = None THEN None
        ELSE tree[found[i - 1]].items[path[i]]
  IN  found

Lookup(tree, path) == Reached(tree, path)[Len(path)]

(* The node whose lock matters to a call: the one it looks up, or the      *)
(* directory that contains the one it changes.                             *)
Target(c, path) == SubSeq(path, 1, Len(path) - (IF c.kind = "lookup" THEN 0 ELSE 1))

Begin(t, c) ==
  /\ at[t] = "idle" /\ calls[t] < MaxCalls
  /\ at' = [at EXCEPT ![t] = "walk"]
  /\ call' = [call EXCEPT ![t] = c]
  /\ calls' = [calls EXCEPT ![t] = @ + 1]
  /\ seen' = [seen EXCEPT ![t] = {Lookup(node, Target(c, c.path))}]
  /\ UNCHANGED <<treeVars, owner, parts, walked, first>>
-----------------------------------------------------------------------------
(* findPath. *)

Here(t) == parts[t][Len(parts[t])]

Child(t) == node[Here(t)].items[Path(t)[walked[t]]]

(* isPathElementLocked: what the first walk has kept is not locked again.  *)
MayLock(t, n) == n \in Elements(first[t]) \/ owner[n] = None

Releases(t, kept) == kept \ Elements(first[t])

LockRoot(t) ==
  /\ Walking(t) /\ walked[t] = 0
  /\ MayLock(t, Root)
  /\ owner' = [owner EXCEPT ![Root] = t]
  /\ parts' = [parts EXCEPT ![t] = <<Root>>]
  /\ walked' = [walked EXCEPT ![t] = 1]
  /\ UNCHANGED <<treeVars, at, call, first, calls, seen>>

(* Whether the element before the next one is not kept. *)
Passes(t) == walked[t] <= Len(Path(t)) - PathSize(t) + 1

\* Mutant: the parent stays locked.
DescendKeeping(t) ==
  /\ Walking(t) /\ walked[t] \in 1 .. Len(Path(t)) /\ Child(t) # None
  /\ MayLock(t, Child(t))
  /\ owner' = [owner EXCEPT ![Child(t)] = t]
  /\ parts' = [parts EXCEPT ![t] = Append(IF Passes(t) THEN Tail(@) ELSE @, Child(t))]
  /\ walked' = [walked EXCEPT ![t] = @ + 1]
  /\ UNCHANGED <<treeVars, at, call, first, calls, seen>>

Descend(t) ==
  LET gone == IF Passes(t) THEN {Head(parts[t])} ELSE {}
  IN  /\ Walking(t) /\ walked[t] \in 1 .. Len(Path(t)) /\ Child(t) # None
      /\ MayLock(t, Child(t))
      /\ owner' = [n \in Nodes |-> IF n = Child(t) THEN t
                                   ELSE IF n \in Releases(t, gone) THEN None
                                   ELSE owner[n]]
      /\ parts' = [parts EXCEPT ![t] = Append(IF Passes(t) THEN Tail(@) ELSE @, Child(t))]
      /\ walked' = [walked EXCEPT ![t] = @ + 1]
      /\ UNCHANGED <<treeVars, at, call, first, calls, seen>>

\* Mutant: where an element is missing, the one before it is kept.
EndWalkKeeping(t) ==
  /\ Walking(t) /\ walked[t] > 0
  /\ walked[t] # Len(Path(t)) + 1 => Child(t) = None
  /\ at' = [at EXCEPT ![t] = "act"]
  /\ UNCHANGED <<treeVars, owner, call, parts, walked, first, calls, seen>>

\* Mutant: a call walks again with what it has found still locked.
EndWalkAgain(t) ==
  /\ Walking(t) /\ walked[t] > 0
  /\ walked[t] # Len(Path(t)) + 1 => Child(t) = None
  /\ first' = [first EXCEPT ![t] = parts[t]]
  /\ parts' = [parts EXCEPT ![t] = <<>>]
  /\ walked' = [walked EXCEPT ![t] = 0]
  /\ UNCHANGED <<treeVars, owner, at, call, calls, seen>>

(* The walk ends at the end of the path, or where an element is missing.   *)
(* A rename then walks the other path.                                     *)
EndWalk(t) ==
  LET atEnd == walked[t] = Len(Path(t)) + 1
      gone  == IF ~ atEnd /\ Passes(t) THEN {Head(parts[t])} ELSE {}
      kept  == IF ~ atEnd /\ Passes(t) THEN Tail(parts[t]) ELSE parts[t]
  IN  /\ Walking(t) /\ walked[t] > 0
      /\ ~ atEnd => Child(t) = None
      /\ owner' = [n \in Nodes |-> IF n \in Releases(t, gone) THEN None ELSE owner[n]]
      /\ IF call[t].kind = "rename" /\ at[t] = "walk"
         THEN /\ at' = [at EXCEPT ![t] = "rewalk"]
              /\ first' = [first EXCEPT ![t] = kept]
              /\ parts' = [parts EXCEPT ![t] = <<>>]
              /\ walked' = [walked EXCEPT ![t] = 0]
              /\ seen' = [seen EXCEPT ![t] =
                            {Lookup(node, Target(call[t], call[t].to))}]
         ELSE /\ at' = [at EXCEPT ![t] = "act"]
              /\ parts' = [parts EXCEPT ![t] = kept]
              /\ UNCHANGED <<first, walked, seen>>
      /\ UNCHANGED <<treeVars, call, calls>>
-----------------------------------------------------------------------------
(* What the calls do under their locks. *)

Items(d) == {nm \in Names : node[d].items[nm] # None}

RemoveItems(tree, d, gone) ==
  [tree EXCEPT ![d].items = [nm \in Names |-> IF nm \in gone THEN None ELSE @[nm]]]

(* insert adds nothing under a name that is taken. *)
AddItem(tree, d, nm, n, isDir) ==
  IF nm = None \/ tree[d].items[nm] # None THEN tree
  ELSE [tree EXCEPT ![d].items[nm] = n,
                    ![n] = [dir |-> isDir, items |-> NoItems]]

Found == Songs \cup {None}

(* createDir of the controls: a search directory with what was found, or a *)
(* counter or refresh directory, for which items are removed before others *)
(* are added.  A query that fails leaves what was done before it.          *)
Make(tree, d, name) ==
  \/ \E song \in Found :
       node' = AddItem(AddItem(tree, d, name, next, TRUE), next, song, next + 1, FALSE)
  \/ \E gone \in SUBSET Items(d), song \in Found :
       LET less == RemoveItems(tree, d, gone)
       IN  node' \in {less, AddItem(AddItem(less, d, song, next, FALSE), d, name, next + 1, TRUE)}

Fits(n) == next + n - 1 <= MaxNodes

\* Mutant: a rename leaves the nodes of its first walk locked.
ReturnKeepingFirst(t) ==
  /\ owner' = [n \in Nodes |-> IF n \in Elements(parts[t]) THEN None ELSE owner[n]]
  /\ at' = [at EXCEPT ![t] = "idle"]
  /\ parts' = [parts EXCEPT ![t] = <<>>]
  /\ first' = [first EXCEPT ![t] = <<>>]
  /\ walked' = [walked EXCEPT ![t] = 0]
  /\ seen' = [seen EXCEPT ![t] = {}]
  /\ UNCHANGED <<call, calls>>

(* All locks are released, and walks in progress see the changed tree.     *)
Return(t) ==
  /\ owner' = [n \in Nodes |-> IF n \in Held(t) THEN None ELSE owner[n]]
  /\ at' = [at EXCEPT ![t] = "idle"]
  /\ parts' = [parts EXCEPT ![t] = <<>>]
  /\ first' = [first EXCEPT ![t] = <<>>]
  /\ walked' = [walked EXCEPT ![t] = 0]
  /\ seen' = [u \in Threads |->
                IF u = t THEN {}
                ELSE IF ~ Walking(u) THEN seen[u]
                ELSE seen[u] \cup {Lookup(node', Target(call[u], Path(u)))}]
  /\ UNCHANGED <<call, calls>>

NameOf(path) == path[Len(path)]

(* A lookup changes nothing, nor does a call that is refused.              *)
Nothing(t) == at[t] = "act" /\ UNCHANGED treeVars /\ Return(t)

IsDir(s, i) == Len(s) = i /\ node[s[1]].dir

(* getFileSize, deleteDir and deleteFile take the last element of their     *)
(* path before they test that it was found: without one they may end the   *)
(* program.                                                                *)
Die(t) ==
  /\ at[t] = "act" /\ call[t].kind \in {"lookup", "remove"} /\ parts[t] = <<>>
  /\ owner' = [n \in Nodes |-> None]
  /\ at' = [u \in Threads |-> "idle"]
  /\ parts' = [u \in Threads |-> <<>>]
  /\ walked' = [u \in Threads |-> 0]
  /\ first' = [u \in Threads |-> <<>>]
  /\ calls' = [u \in Threads |-> MaxCalls]
  /\ seen' = [u \in Threads |-> {}]
  /\ UNCHANGED <<treeVars, call>>

MakeDir(t) ==
  LET d == parts[t][1]
  IN  /\ at[t] = "act" /\ call[t].kind = "mkdir"
      /\ IsDir(parts[t], 1)
      /\ Fits(2) /\ next' = next + 2
      /\ Make(node, d, NameOf(call[t].path))
      /\ Return(t)

RemoveDir(t) ==
  LET d == parts[t][1]
  IN  /\ at[t] = "act" /\ call[t].kind = "remove"
      /\ Len(parts[t]) = 2
      /\ node' = RemoveItems(node, d, {NameOf(call[t].path)})
      /\ UNCHANGED next
      /\ Return(t)

(* renameFile gives a song its new name in the directory it is in; a song  *)
(* marked for it gets a directory of similar songs beside it.              *)
RenameSong(t) ==
  LET d       == first[t][1]
      renamed == AddItem(RemoveItems(node, d, {NameOf(call[t].path)}),
                         d, NameOf(call[t].to), next, FALSE)
  IN  /\ at[t] = "act" /\ call[t].kind = "rename"
      /\ Len(first[t]) = 2 /\ ~ node[first[t][2]].dir
      /\ IsDir(parts[t], 1)
      /\ Fits(3) /\ next' = next + 3
      /\ \/ node' = renamed
         \/ \E similar \in Names \ Songs, song \in Found :
              /\ renamed[d].items[similar] = None
              /\ node' = AddItem(AddItem(renamed, d, similar, next + 1, TRUE),
                                 next + 1, song, next + 2, FALSE)
      /\ Return(t)

(* A directory that waits for its name is removed, and made under the new  *)
(* name in the same place.                                                 *)
RenameDummy(t) ==
  LET d == first[t][1]
  IN  /\ at[t] = "act" /\ call[t].kind = "rename"
      /\ Len(first[t]) = 2 /\ node[first[t][2]].dir
      /\ IsDir(parts[t], 1) /\ parts[t][1] = d
      /\ Fits(2) /\ next' = next + 2
      /\ Make(RemoveItems(node, d, {NameOf(call[t].path)}), d, NameOf(call[t].to))
      /\ Return(t)
-----------------------------------------------------------------------------
Step(t) == \/ LockRoot(t) \/ Descend(t) \/ EndWalk(t) \/ Nothing(t)
           \/ Die(t) \/ MakeDir(t) \/ RemoveDir(t) \/ RenameSong(t) \/ RenameDummy(t)

(* The node a thread must wait for, if it has to. *)
Wanted(t) == IF ~ Walking(t) THEN None
             ELSE IF walked[t] = 0 THEN Root
             ELSE IF walked[t] <= Len(Path(t)) THEN Child(t)
             ELSE None

WaitsFor(t, u) == /\ Wanted(t) # None /\ owner[Wanted(t)] = u
                  /\ Wanted(t) \notin Elements(first[t])

(* Threads that wait for one another. *)
Cycle(S) == S # {} /\ \A t \in S : \E u \in S : WaitsFor(t, u)

Deadlocked == \E S \in SUBSET Threads : Cycle(S) /\ \E t \in S : at[t] = "rewalk"

Stopped == /\ \/ Deadlocked
              \/ \A t \in Threads : at[t] = "idle" /\ calls[t] = MaxCalls
           /\ UNCHANGED vars

Next == \/ \E t \in Threads, c \in Calls : Begin(t, c)
        \/ \E t \in Threads : Step(t)
        \/ Stopped

Spec == Init /\ [][Next]_vars

(* A thread that can go on does: a query ends, and the calls are so few    *)
(* that a mutex is not for ever taken by others.                           *)
FairSpec == Spec /\ \A t \in Threads : WF_vars(Step(t))
-----------------------------------------------------------------------------
Node == [dir : BOOLEAN, items : [Names -> Nodes \cup {None}]]

(* The state is of the right type, and a path in progress has at most the  *)
(* two nodes it keeps.                                                     *)
TypeOK ==
  /\ node \in [Nodes -> Node]
  /\ next \in Nat
  /\ owner \in [Nodes -> Threads \cup {None}]
  /\ at \in [Threads -> {"idle", "walk", "rewalk", "act"}]
  /\ call \in [Threads -> Calls \cup {NoCall}]
  /\ parts \in [Threads -> Seq(Nodes)] /\ first \in [Threads -> Seq(Nodes)]
  /\ \A t \in Threads : Len(parts[t]) <= 2 /\ Len(first[t]) <= 2
  /\ walked \in [Threads -> Nat]
  /\ calls \in [Threads -> 0 .. MaxCalls]

(* A thread has locked exactly the nodes of its paths: none is forgotten   *)
(* when its walk moves on, ends early or crosses the nodes of a rename's   *)
(* first path, and none is unlocked that it has not locked.                *)
LocksAreOfPaths ==
  \A n \in Nodes, t \in Threads : owner[n] = t <=> n \in Held(t)

(* Threads wait for one another only if one of them is in the second walk  *)
(* of a rename: all other waits go down the tree, from node to newer node. *)
CyclesNeedRename ==
  \A S \in SUBSET Threads : Cycle(S) => \E t \in S : at[t] = "rewalk"

(* The path of a call's last walk, up to the node whose lock matters. *)
Goal(t) == Target(call[t], IF call[t].kind = "rename" /\ at[t] # "walk"
                           THEN call[t].to ELSE call[t].path)

WorksOn(t) == IF parts[t] = <<>> THEN None ELSE parts[t][1]

(* The node a call works on was where its path leads at some moment since  *)
(* it began to walk, whatever has been removed, made and made again on the *)
(* way meanwhile: the call can be taken to have happened at that moment.   *)
(* From the third level on this may fail: a directory the walk has left    *)
(* behind is removed, and what another call then makes further down is     *)
(* found although it was never below the root.  But then there was a       *)
(* moment when the path led to nothing.                                    *)
FoundWasThere ==
  \A t \in Threads : at[t] = "act" =>
    WorksOn(t) \in seen[t] \/ (Len(Goal(t)) > 2 /\ None \in seen[t])

(* Calls end: there comes a moment when none is in progress, unless there  *)
(* is a rename in the way.                                                 *)
AllIdle == \A t \in Threads : at[t] = "idle"

CallsEndUnlessDeadlocked == ~ AllIdle ~> (AllIdle \/ Deadlocked)
=============================================================================

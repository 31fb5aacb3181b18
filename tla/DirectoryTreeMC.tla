--------------------------- MODULE DirectoryTreeMC ---------------------------
(***************************************************************************)
(* DirectoryTree for model checking: one directory with a song in it, and  *)
(* calls of every kind for both and for a second song.                     *)
(***************************************************************************)
EXTENDS DirectoryTree

CONSTANTS a, x, y

MCExisting == <<a, x>>

Of(kind, path) == [kind |-> kind, path |-> path, to |-> <<>>]

MCCalls ==
  {Of("lookup", path) : path \in {<<a, x>>, <<a, a, x>>}}
    \cup {Of("remove", path) : path \in {<<a>>, <<a, x>>}}
    \cup {Of("mkdir", path) : path \in {<<a>>, <<a, a>>}}
    \cup {[kind |-> "rename", path |-> <<a, x>>, to |-> <<a, y>>]}
    \cup {[kind |-> "rename", path |-> <<a>>, to |-> <<y>>]}
=============================================================================

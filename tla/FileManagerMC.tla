---------------------------- MODULE FileManagerMC ----------------------------
(* Handles, songs and threads are interchangeable. *)
EXTENDS FileManager

Symmetry == Permutations(Handles) \cup Permutations(Songs) \cup Permutations(Threads)
=============================================================================

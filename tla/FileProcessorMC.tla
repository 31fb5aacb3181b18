--------------------------- MODULE FileProcessorMC ---------------------------
(***************************************************************************)
(* FileProcessor for model checking: a song of a few bytes, and requests   *)
(* that begin in the tag and go on behind it, or ask for the last byte of  *)
(* a stream of three.                                                      *)
(***************************************************************************)
EXTENDS FileProcessor

FewRequests == {[start |-> 1, size |-> 4]}
MCRequests  == FewRequests \cup {[start |-> 3, size |-> 1]}
=============================================================================

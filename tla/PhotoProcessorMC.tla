--------------------------- MODULE PhotoProcessorMC ---------------------------
(***************************************************************************)
(* PhotoProcessor for model checking: a photo of a few blocks, read from   *)
(* its start and over its end.                                             *)
(***************************************************************************)
EXTENDS PhotoProcessor

MCRequests == {[start |-> 0, size |-> 1], [start |-> 1, size |-> Total]}
=============================================================================

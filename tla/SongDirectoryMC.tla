--------------------------- MODULE SongDirectoryMC ---------------------------
(***************************************************************************)
(* SongDirectory for model checking.                                       *)
(***************************************************************************)
EXTENDS SongDirectory

MCNumbers   == {<<1>>, <<2>>, <<3>>}
MCIntervals == {<<1, "-", 2>>}
=============================================================================

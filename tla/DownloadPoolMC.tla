--------------------------- MODULE DownloadPoolMC ---------------------------
(***************************************************************************)
(* DownloadPool for model checking: one client plays a song, one the same  *)
(* or another one, and one looks up, makes a directory or reads meta.json. *)
(***************************************************************************)
EXTENDS DownloadPool, TLC

CONSTANTS c1, c2, c3, s1, s2

MCCalls == c1 :> {<<"play", s1>>} @@ c2 :> {<<"play", s1>>, <<"play", s2>>}
             @@ c3 :> {<<"look", s1>>, <<"mkdir", s1>>, <<"meta", s1>>}
=============================================================================

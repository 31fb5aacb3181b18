---------------------------- MODULE HttpStreamMC ----------------------------
(***************************************************************************)
(* HttpStream for model checking: one thread downloads, another one reads  *)
(* parts, asks for sizes and queries VK.                                   *)
(***************************************************************************)
EXTENDS HttpStream, TLC

CONSTANTS opener, other

MCThreads  == {opener, other}
MCDoes     == opener :> {"open", "block", "close"} @@ other :> {"part", "size", "query"}
MCMaxCalls == opener :> 3 @@ other :> 2
=============================================================================

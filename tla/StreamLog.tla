------------------------------ MODULE StreamLog ------------------------------
(***************************************************************************)
(* What a download buffer promises its users, whatever it is made of: it   *)
(* is a log of bytes that only ever grows at its end, and that no longer   *)
(* grows once the end of the stream has been signalled.  It gives back     *)
(* what was logged, until it may lose a part at its end: what lies there   *)
(* then, and all that is logged later, reads as junk, in its full length.  *)
(* BlockingBuffer, which keeps the head of the log in memory and spills    *)
(* the rest to a temporary file, is shown to implement this specification; *)
(* FileProcessor drains such a log into the cached file.                   *)
(***************************************************************************)
EXTENDS Naturals, Sequences

CONSTANTS Byte,  \* what the log is made of
          Junk   \* what stands for a byte that was lost

VARIABLES log,      \* every byte accepted so far, in stream order
          readable, \* how many of its first bytes can be read back
          eof       \* the end of the stream (or its failure) was signalled

vars == <<log, readable, eof>>

Extends(new, old) == Len(old) <= Len(new) /\ SubSeq(new, 1, Len(old)) = old

(* What the log gives back for its bytes from .. to - 1, counted from 0.   *)
ReadBack(from, to) ==
  [i \in 1 .. to - from |-> IF from + i - 1 < readable THEN log[from + i] ELSE Junk]

Init == log = <<>> /\ readable = 0 /\ eof = FALSE

(* A block of bytes is accepted at the end of the log; it can be read back *)
(* unless something before it was lost.                                    *)
Accept == /\ ~ eof
          /\ log' \in Seq(Byte)
          /\ Extends(log', log)
          /\ readable' = IF readable = Len(log) THEN Len(log') ELSE readable
          /\ UNCHANGED eof

(* The producer signals that nothing more will come. *)
Finish == eof' = TRUE /\ UNCHANGED <<log, readable>>

(* The end of the log is lost, once and for good. *)
Lose == /\ readable = Len(log)
        /\ readable' \in 0 .. Len(log) - 1
        /\ UNCHANGED <<log, eof>>

Next == Accept \/ Finish \/ Lose

Spec == Init /\ [][Next]_vars
=============================================================================

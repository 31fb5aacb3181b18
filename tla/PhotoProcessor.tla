--------------------------- MODULE PhotoProcessor ---------------------------
(***************************************************************************)
(* The photo of a playlist: its cached file, the processor its handles     *)
(* share, and what the cache records of it from one run of the program to  *)
(* the next.                                                               *)
(*                                                                         *)
(* A photo is downloaded by the first read, in the thread of FUSE and      *)
(* under the processor's mutex.  The manager is reduced to one handle per  *)
(* client, evictions and sizes that cannot be obtained are left to         *)
(* FileManager.  A byte of the photo is its position, 0 one of no file.    *)
(***************************************************************************)
EXTENDS Naturals, Sequences

CONSTANTS
  Clients,   \* bound: each has one handle at a time
  Total,     \* _totalSize: the length of the photo
  Requests,  \* what is read: its start and size
  None, Error

ASSUME PhotoAssumption == /\ Total \in Nat \ {0} /\ Requests # {}
                          /\ Requests \subseteq [start : 0 .. Total, size : Nat]
                          /\ None \notin Clients \cup {"processor", "reader"}

VARIABLES
  pc, object,       \* of a client: its call; what its handle leads to
  request, result,  \* of a client: its last read
  mutex,            \* _readMutex
  file,             \* the PhotoFile of the processor
  pos,              \* position of the HTTP stream
  disk,             \* contents of the cached file
  recorded, saved,  \* its size in the cache and in the file the cache is saved to
  killed            \* the program has been killed

calls == <<pc, object, request, result>>
vars  == <<calls, mutex, file, pos, disk, recorded, saved, killed>>

NoFile(size) == [opened |-> FALSE, closed |-> FALSE, failed |-> FALSE, size |-> size]

Init ==
  /\ pc = [c \in Clients |-> "released"] /\ object = [c \in Clients |-> None]
  /\ request \in [Clients -> Requests]
  /\ result = [c \in Clients |-> None]
  /\ mutex = None /\ file = NoFile(0) /\ pos = 0 /\ disk = <<>>
  /\ recorded = 0 /\ saved = 0 /\ killed = FALSE

Usable == file.opened /\ ~ file.closed

Goes(c, from, to) == pc[c] = from /\ pc' = [pc EXCEPT ![c] = to]

\* Mutant: the size the photo is to have is recorded.
CloseFileWhole ==
  IF Usable THEN file' = [file EXCEPT !.closed = TRUE] /\ recorded' = Total
  ELSE UNCHANGED <<file, recorded>>

(* PhotoFile::close reports the size of a file that was opened, once.      *)
CloseFile ==
  IF Usable THEN file' = [file EXCEPT !.closed = TRUE] /\ recorded' = file.size
  ELSE UNCHANGED <<file, recorded>>
-----------------------------------------------------------------------------
(* A complete photo is served by a reader.  Handles of another one share a *)
(* processor, alive or not, as long as one of them is left.                *)
Sharers(c) == {d \in Clients \ {c} : object[d] = "processor"}

Open(c) ==
  /\ Goes(c, "released", "open")
  /\ IF recorded = Total
     THEN object' = [object EXCEPT ![c] = "reader"] /\ UNCHANGED file
     ELSE /\ object' = [object EXCEPT ![c] = "processor"]
          /\ file' = IF Sharers(c) = {} THEN NoFile(recorded) ELSE file
  /\ result' = [result EXCEPT ![c] = None]
  /\ UNCHANGED <<request, mutex, pos, disk, recorded, saved, killed>>

(* The last handle closes its object.                                      *)
Close(c) ==
  /\ object' = [object EXCEPT ![c] = None]
  /\ IF object[c] = "processor" /\ Sharers(c) = {} THEN CloseFile
     ELSE UNCHANGED <<file, recorded>>

Release(c) ==
  /\ Goes(c, "open", "released") /\ Close(c)
  /\ UNCHANGED <<request, result, mutex, pos, disk, saved, killed>>
-----------------------------------------------------------------------------
BeginRead(c) ==
  /\ Goes(c, "open", "waiting")
  /\ \E r \in Requests : request' = [request EXCEPT ![c] = r]
  /\ result' = [result EXCEPT ![c] = None]
  /\ UNCHANGED <<object, mutex, file, pos, disk, recorded, saved, killed>>

Return(c, bytes) ==
  /\ pc' = [pc EXCEPT ![c] = "open"] /\ result' = [result EXCEPT ![c] = bytes]
  /\ UNCHANGED <<object, request, pos, disk, recorded, saved, killed>>

OnDisk(i) == IF i \in 1 .. Len(disk) THEN disk[i] ELSE 0

(* Reader::read keeps to the size of the file.                             *)
ReaderReads(c) ==
  LET r == request[c]
      n == IF r.start + r.size <= Total THEN r.size ELSE Total - r.start
  IN  /\ pc[c] = "waiting" /\ object[c] = "reader"
      /\ Return(c, [i \in 1 .. n |-> OnDisk(r.start + i)])
      /\ UNCHANGED <<mutex, file>>

\* Mutant: a download that has begun is taken to be complete.
EnterIfBegun(c) ==
  /\ object[c] = "processor" /\ mutex = None /\ mutex' = c
  /\ Goes(c, "waiting", IF file.size # 0 THEN "reading" ELSE "opening")
  /\ IF file.opened \/ file.closed THEN UNCHANGED <<file, disk>>
     ELSE /\ file' = [file EXCEPT !.opened = TRUE]
          /\ disk' = IF file.size = 0 THEN <<>> ELSE disk
  /\ UNCHANGED <<object, request, result, pos, recorded, saved, killed>>

(* PhotoProcessor::read opens the file.  One of which there is nothing is  *)
(* begun anew.                                                             *)
Enter(c) ==
  /\ object[c] = "processor" /\ mutex = None /\ mutex' = c
  /\ Goes(c, "waiting", IF file.size = Total THEN "reading" ELSE "opening")
  /\ IF file.opened \/ file.closed THEN UNCHANGED <<file, disk>>
     ELSE /\ file' = [file EXCEPT !.opened = TRUE]
          /\ disk' = IF file.size = 0 THEN <<>> ELSE disk
  /\ UNCHANGED <<object, request, result, pos, recorded, saved, killed>>

\* Mutant: the stream is opened at its beginning.
StreamOpensAnew(c) ==
  /\ \/ Goes(c, "opening", "downloading") /\ pos' = 0
     \/ Goes(c, "opening", "failing") /\ UNCHANGED pos
  /\ UNCHANGED <<object, request, result, mutex, file, disk, recorded, saved, killed>>

(* The stream is asked for what the file does not have.                    *)
StreamOpens(c) ==
  /\ \/ Goes(c, "opening", "downloading") /\ pos' = file.size
     \/ Goes(c, "opening", "failing") /\ UNCHANGED pos
  /\ UNCHANGED <<object, request, result, mutex, file, disk, recorded, saved, killed>>

(* A closed file takes nothing, and yet the stream is read to its end.     *)
Download(c) ==
  /\ pc[c] = "downloading" /\ pos < Total /\ pos' = pos + 1
  /\ IF Usable THEN disk' = Append(disk, pos + 1) /\ file' = [file EXCEPT !.size = @ + 1]
     ELSE UNCHANGED <<disk, file>>
  /\ UNCHANGED <<calls, mutex, recorded, saved, killed>>

DownloadEnds(c) ==
  /\ \/ Goes(c, "downloading", "reading") /\ pos = Total
     \/ Goes(c, "downloading", "failing")
  /\ UNCHANGED <<object, request, result, mutex, file, pos, disk, recorded, saved, killed>>

(* File::read fills a vector of the size asked for.  A read over the end   *)
(* of the file sets the failbit of its fstream, which nothing clears:      *)
(* later reads leave their vectors as they were made.                      *)
ReadFile(c) ==
  LET r == request[c]
  IN  /\ pc[c] = "reading" /\ mutex' = None
      /\ Return(c, IF Usable THEN [i \in 1 .. r.size |-> IF file.failed THEN 0
                                                         ELSE OnDisk(r.start + i)]
                   ELSE <<>>)
      /\ file' = IF Usable /\ r.start + r.size > Len(disk)
                 THEN [file EXCEPT !.failed = TRUE] ELSE file

(* A failure closes the file for all handles; the manager then closes the  *)
(* handle of this one.                                                     *)
Fail(c) ==
  /\ Goes(c, "failing", "failed") /\ mutex' = None /\ CloseFile
  /\ result' = [result EXCEPT ![c] = Error]
  /\ UNCHANGED <<object, request, pos, disk, saved, killed>>

CloseFailed(c) ==
  /\ Goes(c, "failed", "released") /\ Close(c)
  /\ UNCHANGED <<request, result, mutex, pos, disk, saved, killed>>
-----------------------------------------------------------------------------
(* The cache is saved when the program ends and loaded when it starts.     *)
Restart ==
  /\ \A c \in Clients : pc[c] = "released"
  /\ saved' = recorded
  /\ UNCHANGED <<calls, mutex, file, pos, disk, recorded, killed>>

Kill ==
  /\ ~ killed /\ killed' = TRUE
  /\ pc' = [c \in Clients |-> "released"] /\ object' = [c \in Clients |-> None]
  /\ result' = [c \in Clients |-> None]
  /\ mutex' = None /\ file' = NoFile(0) /\ recorded' = saved
  /\ UNCHANGED <<request, pos, disk, saved>>

Next == \/ \E c \in Clients :
             \/ Open(c) \/ Release(c) \/ BeginRead(c) \/ ReaderReads(c) \/ Enter(c)
             \/ StreamOpens(c) \/ Download(c) \/ DownloadEnds(c) \/ ReadFile(c)
             \/ Fail(c) \/ CloseFailed(c)
        \/ Restart \/ Kill

Spec == Init /\ [][Next]_vars
-----------------------------------------------------------------------------
(* What the variables hold; no size is over that of the photo.             *)
TypeOK ==
  /\ pc \in [Clients -> {"released", "open", "waiting", "opening", "downloading",
                         "reading", "failing", "failed"}]
  /\ object \in [Clients -> {None, "processor", "reader"}]
  /\ request \in [Clients -> Requests]
  /\ mutex \in Clients \cup {None}
  /\ file \in [opened : BOOLEAN, closed : BOOLEAN, failed : BOOLEAN, size : 0 .. Total]
  /\ pos \in 0 .. Total /\ disk \in Seq(1 .. Total)
  /\ recorded \in 0 .. Total /\ saved \in 0 .. Total /\ killed \in BOOLEAN

(* The cached file is the beginning of the photo as long as the sizes say, *)
(* through failures, handles that share a processor an error has closed,   *)
(* and restarts.  A killed program may leave more than the sizes saved,    *)
(* behind which the next one appends.                                      *)
FileIsPhoto ==
  ~ killed => /\ \A i \in 1 .. Len(disk) : disk[i] = i
              /\ Len(disk) = IF Usable THEN file.size ELSE recorded

Asked(c) == [i \in 1 .. request[c].size |->
               IF request[c].start + i <= Total THEN request[c].start + i ELSE 0]

(* What a read of the processor returns is what was asked for, with zeros  *)
(* behind the end, unless a read before it went over the end or failed.    *)
ReadIsExact ==
  [][\A c \in Clients :
       (/\ ~ killed /\ Usable /\ ~ file.failed /\ object[c] = "processor"
        /\ result[c] = None /\ result'[c] \notin {None, Error})
       => result'[c] = Asked(c)]_vars
=============================================================================

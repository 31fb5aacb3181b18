---------------------------- MODULE FileProcessor ----------------------------
(***************************************************************************)
(* The download of one song.  The first read posts a job to the thread     *)
(* pool, the opener: it opens the HTTP stream and the cached file, lets    *)
(* the parser make the ID3v2 tag out of a buffer which a second job, the   *)
(* appender, fills from the stream, writes tag and buffer to the file, and *)
(* then downloads the rest.  Readers take what is in the file from there   *)
(* and the rest from a partial HTTP request.  Three promises order the     *)
(* threads.  An error seen by one reader closes file and stream for all.   *)
(*                                                                         *)
(* The cached file outlives the processor: its recorded sizes tell the     *)
(* next processor where to resume.  They are kept in memory and saved to   *)
(* disk when the program exits, so that a crash loses them.                *)
(*                                                                         *)
(* A byte of the stream is its position; the bytes of the tag are negative *)
(* numbers.  The buffer between appender and parser is taken as the log it *)
(* implements (module StreamLog): what has been appended, its end, and how *)
(* much of it can be read back.                                            *)
(***************************************************************************)
EXTENDS Integers, Sequences

CONSTANTS
  StreamLen,    \* length of the remote stream
  BlockSize,    \* size of the blocks it is read, drained and written in
  InMemory,     \* bytes of it the buffer keeps in memory, in whole blocks
  TagLen,       \* length of the tag the parser makes
  Replaced,     \* length of the stream's own tag, which it replaces
  Readers,      \* the threads that call read
  Requests,     \* the [start, size] they ask for
  MaxSessions,  \* bound: processors made for the song, one after another
  MaxCrashes,   \* bound: crashes of the program
  Junk          \* the content of a block nothing was copied into

ASSUME SizesAssumption == /\ StreamLen \in Nat \ {0}
                          /\ BlockSize \in Nat \ {0}
                          /\ TagLen \in Nat \ {0}
                          /\ Replaced \in 0 .. StreamLen
                          /\ Requests \subseteq [start : Nat, size : Nat \ {0}]
                          /\ MaxSessions \in Nat \ {0}
                          /\ MaxCrashes \in Nat
                          /\ InMemory \in Nat
ASSUME JunkAssumption == Junk \notin Int

VARIABLES
  proc,      \* FileProcessor: its flags and _prependSize
  promise,   \* its three promises
  file,      \* MusicFile: flags, size on disk, prepend size
  stream,    \* HttpStream: bytes read in blocks so far, _closed
  buffer,    \* BlockingBuffer: bytes appended, end signalled, bytes from
             \* the first on that can be read back
  opener,    \* where the opener is
  drained,   \* its offset in the drain loop
  inHand,    \* bytes in its block, not yet written
  appender,  \* where the appender is
  reader,    \* where each reader is
  request,   \* its arguments
  seenSize,  \* fileSize, the size it has found on disk
  result,    \* what its last read has yielded
  owner,     \* what FileManager does with the processor
  disk,      \* contents of the cached file
  recorded,  \* _initialSizesCache's entry of the song
  saved,     \* the same entry as last saved by CacheSaver
  sessions, crashes,
  lost       \* history: the spill of some buffer could not be read back

procVars   == <<proc, promise>>
openerVars == <<opener, drained, inHand>>
readerVars == <<reader, request, seenSize, result>>
cacheVars  == <<disk, recorded, saved>>
history    == <<sessions, crashes, lost>>
vars == <<procVars, file, stream, buffer, openerVars, appender, readerVars, owner,
          cacheVars, history>>

Smaller(a, b) == IF a <= b THEN a ELSE b
Larger(a, b)  == IF a <= b THEN b ELSE a

(* Bytes from .. to - 1 of the remote stream. *)
Bytes(from, to) == [i \in 1 .. to - from |-> from + i - 1]

Tag == [i \in 1 .. TagLen |-> - i]

PrependSize == TagLen - Replaced

(* The song as the file system presents it. *)
VirtualFile == Tag \o Bytes(Replaced, StreamLen)
TotalSize   == StreamLen + PrependSize

NoSizes   == [size |-> 0, prepend |-> 0]
NoRequest == [start |-> 0, size |-> 1]
NoResult  == [status |-> "none", bytes |-> <<>>]

(* A processor and its file, stream and buffer as constructed; the file    *)
(* starts from the sizes recorded when it was last closed.                 *)
NewProcessor == [opened |-> FALSE, closed |-> FALSE, error |-> FALSE,
                 metadataWasRead |-> FALSE, prependSize |-> 0]
NewPromises  == [opened |-> "unset", thread |-> "unset", append |-> "unset"]
NewStream    == [pos |-> 0, closed |-> FALSE]
NewBuffer    == [len |-> 0, eof |-> FALSE, readable |-> 0]
NewFile(sizes) == [opened |-> FALSE, closed |-> FALSE,
                   size |-> sizes.size, prepend |-> sizes.prepend]
ForReaders(e)  == [r \in Readers |-> e]

Init == /\ proc = NewProcessor /\ promise = NewPromises
        /\ file = NewFile(NoSizes) /\ stream = NewStream /\ buffer = NewBuffer
        /\ opener = "off" /\ drained = 0 /\ inHand = 0 /\ appender = "off"
        /\ reader = ForReaders("idle") /\ request = ForReaders(NoRequest)
        /\ seenSize = ForReaders(0) /\ result = ForReaders(NoResult)
        /\ owner = "holds"
        /\ disk = <<>> /\ recorded = NoSizes /\ saved = NoSizes
        /\ sessions = 1 /\ crashes = 0 /\ lost = FALSE

Construct(sizes) ==
  /\ proc' = NewProcessor /\ promise' = NewPromises
  /\ file' = NewFile(sizes) /\ stream' = NewStream /\ buffer' = NewBuffer
  /\ opener' = "off" /\ drained' = 0 /\ inHand' = 0 /\ appender' = "off"
  /\ reader' = ForReaders("idle") /\ request' = ForReaders(NoRequest)
  /\ seenSize' = ForReaders(0) /\ result' = ForReaders(NoResult)
-----------------------------------------------------------------------------
(* Promises.  Satisfying one a second time throws std::future_error.       *)
Satisfy(p, value) ==
  promise' = [promise EXCEPT ![p] = IF @ = "unset" THEN value ELSE "future_error"]

(* MusicFile. *)
FileUsable == file.opened /\ ~ file.closed

(* A song nothing is recorded of starts with an empty file. *)
FileOpen ==
  IF file.opened \/ file.closed THEN UNCHANGED <<file, disk>>
  ELSE /\ file' = [file EXCEPT !.opened = TRUE]
       /\ disk' = IF file.size = 0 THEN <<>> ELSE disk

(* File::write appends to the end of the file, wherever that is. *)
FileWrite(bytes) ==
  IF FileUsable
  THEN /\ file' = [file EXCEPT !.size = @ + Len(bytes)]
       /\ disk' = disk \o bytes
  ELSE UNCHANGED <<file, disk>>

FileRead(start, size) ==
  IF FileUsable THEN SubSeq(disk, start + 1, start + size) ELSE <<>>

(* MusicFile::close records the sizes in the cache. *)
FileClose ==
  IF FileUsable
  THEN /\ file' = [file EXCEPT !.closed = TRUE]
       /\ recorded' = [size |-> file.size, prepend |-> file.prepend]
  ELSE UNCHANGED <<file, recorded>>

(* HttpStream.  A block read returns full blocks up to the end of the      *)
(* stream, and nothing from a closed one.                                  *)
BlockLen == IF stream.closed THEN 0
            ELSE Smaller(BlockSize, StreamLen - stream.pos)

(* A partial read has a connection of its own.  An offset that wrapped     *)
(* below zero is behind the end of the stream.                             *)
PartialRead(offset, size) ==
  IF offset \in 0 .. StreamLen - 1
  THEN Bytes(offset, Smaller(offset + size, StreamLen)) ELSE <<>>

StreamFails == stream' = [stream EXCEPT !.closed = TRUE]
-----------------------------------------------------------------------------
(* The opener, the job posted by the first read. *)

OpenerMove(from, to) == opener = from /\ opener' = to

(* Mutant: the tag in the file is counted as bytes of the stream. *)
OpenStreamAtSize ==
  LET offset == file.size
  IN  /\ \/ /\ offset \in 0 .. StreamLen
            /\ OpenerMove("openStream", "openFile")
            /\ stream' = [stream EXCEPT !.pos = offset]
         \/ OpenerMove("openStream", "failOpened") /\ StreamFails
      /\ UNCHANGED <<procVars, file, buffer, drained, inHand, appender, readerVars,
                     owner, cacheVars, history>>

(* The stream is opened where the file on disk ends; the server refuses an *)
(* offset outside the stream.                                              *)
OpenStream ==
  LET offset == file.size - file.prepend
  IN  /\ \/ /\ offset \in 0 .. StreamLen
            /\ OpenerMove("openStream", "openFile")
            /\ stream' = [stream EXCEPT !.pos = offset]
         \/ OpenerMove("openStream", "failOpened") /\ StreamFails
      /\ UNCHANGED <<procVars, file, buffer, drained, inHand, appender, readerVars,
                     owner, cacheVars, history>>

OpenFile == /\ OpenerMove("openFile", "checkSize")
            /\ FileOpen
            /\ UNCHANGED <<procVars, stream, buffer, drained, inHand, appender,
                           readerVars, owner, recorded, saved, history>>

(* An empty file: the appender is posted and the parser begins.  Otherwise *)
(* tag and prepend size are those of an earlier session.                   *)
CheckSize ==
  /\ IF file.size = 0
     THEN /\ OpenerMove("checkSize", "parse")
          /\ appender' = "read"
          /\ UNCHANGED proc
     ELSE /\ OpenerMove("checkSize", "setOpened")
          /\ proc' = [proc EXCEPT !.prependSize = file.prepend]
          /\ UNCHANGED appender
  /\ UNCHANGED <<promise, file, stream, buffer, drained, inHand, readerVars, owner,
                 cacheVars, history>>

(* The parser returns when it has read the stream's own tag, or its end.   *)
Parse == /\ OpenerMove("parse", "stopAppend")
         /\ buffer.len >= Larger(Replaced, 1) \/ buffer.eof
         /\ UNCHANGED <<procVars, file, stream, buffer, drained, inHand, appender,
                        readerVars, owner, cacheVars, history>>

(* A read of the parser, at its second pass, has taken the temporary file  *)
(* to a negative offset: the file fails for good, and what is not in       *)
(* memory can no longer be read back.  That takes blocks that were spilled *)
(* and, between the passes, a second block put in memory.                  *)
LoseSpill == /\ opener = "parse"
             /\ 2 * BlockSize <= InMemory /\ InMemory < buffer.len
             /\ buffer.readable = buffer.len
             /\ buffer' = [buffer EXCEPT !.readable = InMemory]
             /\ lost' = TRUE
             /\ UNCHANGED <<procVars, file, stream, openerVars, appender, readerVars,
                            owner, cacheVars, sessions, crashes>>

StopAppend == /\ OpenerMove("stopAppend", "awaitAppend")
              /\ proc' = [proc EXCEPT !.metadataWasRead = TRUE]
              /\ UNCHANGED <<promise, file, stream, buffer, drained, inHand, appender,
                             readerVars, owner, cacheVars, history>>

(* Mutant: the opener does not wait for the appender to have stopped. *)
AwaitAppendNotWaiting ==
  /\ OpenerMove("awaitAppend", "setPrepend")
  /\ UNCHANGED <<procVars, file, stream, buffer, drained, inHand, appender,
                 readerVars, owner, cacheVars, history>>

AwaitAppend ==
  /\ promise.append # "unset"
  /\ OpenerMove("awaitAppend",
                IF promise.append = "exception" THEN "failOpened" ELSE "setPrepend")
  /\ UNCHANGED <<procVars, file, stream, buffer, drained, inHand, appender,
                 readerVars, owner, cacheVars, history>>

(* Mutant: the cached file is not told of the prepend size. *)
SetPrependNotStored ==
  /\ OpenerMove("setPrepend", "writeTag")
  /\ proc' = [proc EXCEPT !.prependSize = PrependSize]
  /\ UNCHANGED <<promise, file, stream, buffer, drained, inHand, appender, readerVars,
                 owner, cacheVars, history>>

SetPrepend ==
  /\ OpenerMove("setPrepend", "writeTag")
  /\ proc' = [proc EXCEPT !.prependSize = PrependSize]
  /\ file' = IF FileUsable THEN [file EXCEPT !.prepend = PrependSize] ELSE file
  /\ UNCHANGED <<promise, stream, buffer, drained, inHand, appender, readerVars,
                 owner, cacheVars, history>>

WriteTag == /\ OpenerMove("writeTag", "drain")
            /\ FileWrite(Tag)
            /\ UNCHANGED <<procVars, stream, buffer, drained, inHand, appender,
                           readerVars, owner, recorded, saved, history>>

(* Bytes from .. to - 1 of the stream as the buffer gives them back.       *)
ReadBack(from, to) ==
  [i \in 1 .. to - from |-> IF from + i - 1 < buffer.readable THEN from + i - 1 ELSE Junk]

(* Mutant: the drain begins with the stream's own tag. *)
DrainKeepingTag ==
  LET from  == drained
      block == ReadBack(from, Smaller(from + BlockSize, buffer.len))
  IN  /\ OpenerMove("drain", IF proc.closed \/ block = <<>> THEN "setOpened" ELSE "drain")
      /\ IF proc.closed THEN UNCHANGED <<file, disk, drained>>
         ELSE FileWrite(block) /\ drained' = drained + Len(block)
      /\ UNCHANGED <<procVars, stream, buffer, inHand, appender, readerVars, owner,
                     recorded, saved, history>>

(* One turn of the loop that empties the buffer into the file. *)
Drain ==
  LET from  == drained + Replaced
      block == ReadBack(from, Smaller(from + BlockSize, buffer.len))
  IN  /\ OpenerMove("drain", IF proc.closed \/ block = <<>> THEN "setOpened" ELSE "drain")
      /\ IF proc.closed THEN UNCHANGED <<file, disk, drained>>
         ELSE FileWrite(block) /\ drained' = drained + Len(block)
      /\ UNCHANGED <<procVars, stream, buffer, inHand, appender, readerVars, owner,
                     recorded, saved, history>>

SetOpened == /\ OpenerMove("setOpened", "download")
             /\ Satisfy("opened", "value")
             /\ UNCHANGED <<proc, file, stream, buffer, drained, inHand, appender,
                            readerVars, owner, cacheVars, history>>

(* The download loop up to its write: closed, at the end of the stream,    *)
(* failed, or with a block in hand.                                        *)
Download ==
  /\ \/ /\ proc.closed
        /\ OpenerMove("download", "setThread")
        /\ StreamFails
        /\ UNCHANGED inHand
     \/ /\ ~ proc.closed /\ BlockLen = 0
        /\ OpenerMove("download", "setThread")
        /\ UNCHANGED <<stream, inHand>>
     \/ /\ ~ proc.closed /\ ~ stream.closed
        /\ OpenerMove("download", "raiseError")
        /\ StreamFails
        /\ UNCHANGED inHand
     \/ /\ ~ proc.closed /\ BlockLen > 0
        /\ OpenerMove("download", "write")
        /\ stream' = [stream EXCEPT !.pos = @ + BlockLen]
        /\ inHand' = BlockLen
  /\ UNCHANGED <<procVars, file, buffer, drained, appender, readerVars, owner,
                 cacheVars, history>>

WriteBlock == /\ OpenerMove("write", "download")
              /\ FileWrite(Bytes(stream.pos - inHand, stream.pos))
              /\ inHand' = 0
              /\ UNCHANGED <<procVars, stream, buffer, drained, appender, readerVars,
                             owner, recorded, saved, history>>

SetThread == /\ OpenerMove("setThread", "ended")
             /\ Satisfy("thread", "value")
             /\ UNCHANGED <<proc, file, stream, buffer, drained, inHand, appender,
                            readerVars, owner, cacheVars, history>>

(* Mutant: an exception while opening leaves the waiting readers alone. *)
FailOpenedForgotten ==
  /\ OpenerMove("failOpened", "raiseError")
  /\ UNCHANGED <<procVars, file, stream, buffer, drained, inHand, appender,
                 readerVars, owner, cacheVars, history>>

(* The inner handler passes the exception on to the waiting readers ...    *)
FailOpened == /\ OpenerMove("failOpened", "raiseError")
              /\ Satisfy("opened", "exception")
              /\ UNCHANGED <<proc, file, stream, buffer, drained, inHand, appender,
                             readerVars, owner, cacheVars, history>>

(* ... the outer one to later readers and the destructor. *)
RaiseError == /\ OpenerMove("raiseError", "failThread")
              /\ proc' = [proc EXCEPT !.error = TRUE]
              /\ UNCHANGED <<promise, file, stream, buffer, drained, inHand, appender,
                             readerVars, owner, cacheVars, history>>

(* Mutant: the outer handler raises the flag only. *)
FailThreadForgotten ==
  /\ OpenerMove("failThread", "ended")
  /\ UNCHANGED <<procVars, file, stream, buffer, drained, inHand, appender,
                 readerVars, owner, cacheVars, history>>

FailThread == /\ OpenerMove("failThread", "ended")
              /\ Satisfy("thread", "exception")
              /\ UNCHANGED <<proc, file, stream, buffer, drained, inHand, appender,
                             readerVars, owner, cacheVars, history>>
-----------------------------------------------------------------------------
(* The appender, the job posted by the opener. *)

AppenderMove(from, to) == appender = from /\ appender' = to

(* stream.read and addToBuffer's append; an empty block and an exception   *)
(* end the buffer.                                                         *)
ReadAndAppend ==
  /\ \/ /\ BlockLen > 0
        /\ AppenderMove("read", "check")
        /\ stream' = [stream EXCEPT !.pos = @ + BlockLen]
        /\ buffer' = [buffer EXCEPT !.len = @ + BlockLen,
                                   !.readable = IF @ = buffer.len THEN @ + BlockLen ELSE @]
     \/ /\ BlockLen = 0
        /\ AppenderMove("read", "notifyEof")
        /\ buffer' = [buffer EXCEPT !.eof = TRUE]
        /\ UNCHANGED stream
     \/ /\ ~ stream.closed
        /\ AppenderMove("read", "fail")
        /\ buffer' = [buffer EXCEPT !.eof = TRUE]
        /\ StreamFails
  /\ UNCHANGED <<procVars, file, openerVars, readerVars, owner, cacheVars, history>>

(* addToBuffer's first look at _metadataWasRead decides the notification.  *)
CheckMetadata ==
  /\ AppenderMove("check", "recheck")
  /\ IF proc.metadataWasRead THEN Satisfy("append", "value") ELSE UNCHANGED promise
  /\ UNCHANGED <<proc, file, stream, buffer, openerVars, readerVars, owner, cacheVars,
                 history>>

(* Mutant: the appender does not leave its loop. *)
RecheckGoingOn ==
  /\ AppenderMove("recheck", "read")
  /\ UNCHANGED <<procVars, file, stream, buffer, openerVars, readerVars, owner,
                 cacheVars, history>>

(* Its second look at it decides whether the appender stops. *)
RecheckMetadata ==
  /\ AppenderMove("recheck", IF proc.metadataWasRead THEN "done" ELSE "read")
  /\ UNCHANGED <<procVars, file, stream, buffer, openerVars, readerVars, owner,
                 cacheVars, history>>

NotifyEof == /\ AppenderMove("notifyEof", "done")
             /\ Satisfy("append", "value")
             /\ UNCHANGED <<proc, file, stream, buffer, openerVars, readerVars, owner,
                            cacheVars, history>>

NotifyFailure == /\ AppenderMove("fail", "done")
                 /\ Satisfy("append", "exception")
                 /\ UNCHANGED <<proc, file, stream, buffer, openerVars, readerVars,
                                owner, cacheVars, history>>
-----------------------------------------------------------------------------
(* The readers. *)

ReaderMove(r, from, to) == reader[r] = from /\ reader' = [reader EXCEPT ![r] = to]

Return(r, bytes) ==
  result' = [result EXCEPT ![r] = [status |-> "bytes", bytes |-> bytes]]

(* The first call posts the opener. *)
CallRead(r, req) ==
  /\ owner = "holds"
  /\ ReaderMove(r, "idle", "awaitOpen")
  /\ request' = [request EXCEPT ![r] = req]
  /\ result' = [result EXCEPT ![r] = NoResult]
  /\ proc' = [proc EXCEPT !.opened = TRUE]
  /\ opener' = IF proc.opened THEN opener ELSE "openStream"
  /\ UNCHANGED <<promise, file, stream, buffer, drained, inHand, appender, seenSize,
                 owner, cacheVars, history>>

AwaitOpen(r) ==
  /\ promise.opened # "unset"
  /\ ReaderMove(r, "awaitOpen",
                IF promise.opened = "exception" THEN "closeStream" ELSE "checkError")
  /\ UNCHANGED <<procVars, file, stream, buffer, openerVars, appender, request,
                 seenSize, result, owner, cacheVars, history>>

CheckError(r) ==
  /\ ReaderMove(r, "checkError", IF proc.error THEN "awaitThread" ELSE "size")
  /\ UNCHANGED <<procVars, file, stream, buffer, openerVars, appender, request,
                 seenSize, result, owner, cacheVars, history>>

AwaitThread(r) ==
  /\ promise.thread # "unset"
  /\ ReaderMove(r, "awaitThread",
                IF promise.thread = "exception" THEN "closeStream" ELSE "size")
  /\ UNCHANGED <<procVars, file, stream, buffer, openerVars, appender, request,
                 seenSize, result, owner, cacheVars, history>>

(* The size on disk decides where the bytes are taken from. *)
ReadSize(r) ==
  LET start == request[r].start
      size  == request[r].size
  IN  /\ ReaderMove(r, "size", IF start < file.size THEN "fromFile" ELSE "fromStream")
      /\ seenSize' = [seenSize EXCEPT ![r] = file.size]
      /\ result' = [result EXCEPT ![r] = NoResult]
      /\ UNCHANGED <<procVars, file, stream, buffer, openerVars, appender, request,
                     owner, cacheVars, history>>

(* The part that was on disk; a file closed since then yields no bytes.    *)
FromFile(r) ==
  LET start == request[r].start
      size  == request[r].size
      whole == start + size <= seenSize[r]
  IN  /\ ReaderMove(r, "fromFile", IF whole THEN "idle" ELSE "fromStream")
      /\ Return(r, FileRead(start, Smaller(size, seenSize[r] - start)))
      /\ UNCHANGED <<procVars, file, stream, buffer, openerVars, appender, request,
                     seenSize, owner, cacheVars, history>>

(* Mutant: the position in the stream is not corrected by the tag. *)
FromStreamUncorrected(r) ==
  LET from == Larger(request[r].start, seenSize[r])
      size == request[r].start + request[r].size - from
  IN  /\ \/ /\ ReaderMove(r, "fromStream", "idle")
            /\ Return(r, result[r].bytes \o PartialRead(from, size))
            /\ UNCHANGED stream
         \/ /\ ReaderMove(r, "fromStream", "closeStream")
            /\ result' = [result EXCEPT ![r] = NoResult]
            /\ StreamFails
      /\ UNCHANGED <<procVars, file, buffer, openerVars, appender, request, seenSize,
                     owner, cacheVars, history>>

(* The part that was not.  A failing partial read closes the stream.       *)
FromStream(r) ==
  LET from == Larger(request[r].start, seenSize[r])
      size == request[r].start + request[r].size - from
  IN  /\ \/ /\ ReaderMove(r, "fromStream", "idle")
            /\ Return(r, result[r].bytes \o PartialRead(from - proc.prependSize, size))
            /\ UNCHANGED stream
         \/ /\ ReaderMove(r, "fromStream", "closeStream")
            /\ result' = [result EXCEPT ![r] = NoResult]
            /\ StreamFails
      /\ UNCHANGED <<procVars, file, buffer, openerVars, appender, request, seenSize,
                     owner, cacheVars, history>>

(* The handlers of read: stream, file and processor are closed, then the   *)
(* exception leaves read.                                                  *)
CloseStream(r) ==
  /\ ReaderMove(r, "closeStream", "closeFile")
  /\ StreamFails
  /\ UNCHANGED <<procVars, file, buffer, openerVars, appender, request, seenSize,
                 result, owner, cacheVars, history>>

CloseFile(r) ==
  /\ ReaderMove(r, "closeFile", "setClosed")
  /\ FileClose
  /\ UNCHANGED <<procVars, stream, buffer, openerVars, appender, request, seenSize,
                 result, owner, disk, saved, history>>

SetClosed(r) ==
  /\ ReaderMove(r, "setClosed", "idle")
  /\ proc' = [proc EXCEPT !.closed = TRUE]
  /\ result' = [result EXCEPT ![r] = [status |-> "error", bytes |-> <<>>]]
  /\ UNCHANGED <<promise, file, stream, buffer, openerVars, appender, request,
                 seenSize, owner, cacheVars, history>>
-----------------------------------------------------------------------------
(* The owner.  A handle is released after its reads have returned, and the *)
(* processor is closed with the last one and then destroyed.               *)

Release == /\ owner = "holds" /\ owner' = "closing"
           /\ \A r \in Readers : reader[r] = "idle"
           /\ FileClose
           /\ UNCHANGED <<procVars, stream, buffer, openerVars, appender, readerVars,
                          disk, saved, history>>

FinishClose == /\ owner = "closing" /\ owner' = "destroying"
               /\ proc' = [proc EXCEPT !.closed = TRUE]
               /\ UNCHANGED <<promise, file, stream, buffer, openerVars, appender,
                              readerVars, cacheVars, history>>

(* Mutant: the destructor does not wait for the opener. *)
DestroyNotWaiting ==
  /\ owner = "destroying" /\ owner' = "freed"
  /\ UNCHANGED <<procVars, file, stream, buffer, openerVars, appender, readerVars,
                 cacheVars, history>>

(* The destructor waits for the end of the opener, if there was one.       *)
Destroy == /\ owner = "destroying" /\ owner' = "freed"
           /\ proc.opened => promise.thread # "unset"
           /\ UNCHANGED <<procVars, file, stream, buffer, openerVars, appender,
                          readerVars, cacheVars, history>>

(* The next use of the song; a file that is complete is not downloaded.    *)
Reopen == /\ owner = "freed" /\ owner' = "holds"
          /\ opener \in {"off", "ended"} /\ appender \in {"off", "done"}
          /\ recorded.size # TotalSize
          /\ sessions < MaxSessions
          /\ sessions' = sessions + 1
          /\ Construct(recorded)
          /\ UNCHANGED <<cacheVars, crashes, lost>>

(* The program exits: CommonCache's destructor saves the recorded sizes.   *)
Save == /\ owner = "freed"
        /\ saved' = recorded
        /\ UNCHANGED <<procVars, file, stream, buffer, openerVars, appender,
                       readerVars, owner, disk, recorded, history>>

(* The program dies; the next one finds the file and what was saved.       *)
Crash == /\ crashes < MaxCrashes
         /\ crashes' = crashes + 1
         /\ owner' = "freed"
         /\ recorded' = saved
         /\ Construct(saved)
         /\ UNCHANGED <<disk, saved, sessions, lost>>
-----------------------------------------------------------------------------
Opener == \/ OpenStream \/ OpenFile \/ CheckSize \/ Parse \/ StopAppend \/ AwaitAppend
          \/ SetPrepend \/ WriteTag \/ Drain \/ SetOpened \/ Download \/ WriteBlock
          \/ SetThread \/ FailOpened \/ RaiseError \/ FailThread

Appender == ReadAndAppend \/ CheckMetadata \/ RecheckMetadata \/ NotifyEof
              \/ NotifyFailure

InRead(r) == \/ AwaitOpen(r) \/ CheckError(r) \/ AwaitThread(r) \/ ReadSize(r)
             \/ FromFile(r) \/ FromStream(r) \/ CloseStream(r) \/ CloseFile(r)
             \/ SetClosed(r)

(* The appender has stopped without notifying the opener: it saw the       *)
(* parser's end only at its second look.                                   *)
NotifyLost == appender = "done" /\ promise.append = "unset"

Terminating == owner = "freed" /\ UNCHANGED vars

Hung == NotifyLost /\ opener = "awaitAppend" /\ UNCHANGED vars

Next == \/ Opener \/ Appender \/ LoseSpill
        \/ \E r \in Readers : InRead(r)
        \/ \E r \in Readers, req \in Requests : CallRead(r, req)
        \/ Release \/ FinishClose \/ Destroy \/ Reopen \/ Save \/ Crash
        \/ Terminating \/ Hung

Spec == Init /\ [][Next]_vars

(* The pool runs both jobs, network operations end by an answer or an      *)
(* error (Timer only marks one that ends late as failed), and a            *)
(* destruction that has begun is carried on.                               *)
Fairness == /\ WF_vars(Opener) /\ WF_vars(Appender)
            /\ \A r \in Readers : WF_vars(InRead(r))
            /\ WF_vars(FinishClose \/ Destroy)

FairSpec == Spec /\ Fairness
-----------------------------------------------------------------------------
PromiseStates == {"unset", "value", "exception", "future_error"}
OpenerStates == {"off", "openStream", "openFile", "checkSize", "parse", "stopAppend",
                 "awaitAppend", "setPrepend", "writeTag", "drain", "setOpened",
                 "download", "write", "setThread", "failOpened", "raiseError",
                 "failThread", "ended"}
AppenderStates == {"off", "read", "check", "recheck", "notifyEof", "fail", "done"}
ReaderStates == {"idle", "awaitOpen", "checkError", "awaitThread", "size", "fromFile",
                 "fromStream", "closeStream", "closeFile", "setClosed"}
Cell  == (- TagLen .. - 1) \cup (0 .. StreamLen - 1) \cup {Junk}
Sizes == [size : Nat, prepend : Int]

(* The state is of the right type; neither the stream nor the buffer runs  *)
(* past the end of the remote stream.                                      *)
TypeOK ==
  /\ proc \in [opened : BOOLEAN, closed : BOOLEAN, error : BOOLEAN,
               metadataWasRead : BOOLEAN, prependSize : Int]
  /\ promise \in [opened : PromiseStates, thread : PromiseStates,
                  append : PromiseStates]
  /\ file \in [opened : BOOLEAN, closed : BOOLEAN, size : Nat, prepend : Int]
  /\ stream \in [pos : 0 .. StreamLen, closed : BOOLEAN]
  /\ buffer \in [len : 0 .. StreamLen, eof : BOOLEAN, readable : 0 .. StreamLen]
  /\ opener \in OpenerStates /\ drained \in Nat /\ inHand \in 0 .. BlockSize
  /\ appender \in AppenderStates
  /\ reader \in [Readers -> ReaderStates]
  /\ request \in [Readers -> [start : Nat, size : Nat \ {0}]]
  /\ seenSize \in [Readers -> Nat]
  /\ result \in [Readers -> [status : {"none", "bytes", "error"}, bytes : Seq(Cell)]]
  /\ owner \in {"holds", "closing", "destroying", "freed"}
  /\ disk \in Seq(Cell) /\ recorded \in Sizes /\ saved \in Sizes
  /\ sessions \in 1 .. MaxSessions /\ crashes \in 0 .. MaxCrashes
  /\ lost \in BOOLEAN

(* What stands for the byte of the song at an offset: that byte or, once   *)
(* the spill of a buffer was lost, the junk drained in its place, but only *)
(* for a byte of the stream that was not in memory.                        *)
StandsFor(cell, offset) ==
  \/ cell = VirtualFile[offset + 1]
  \/ lost /\ cell = Junk /\ offset - PrependSize >= InMemory

(* A beginning of the song from an offset on, byte by byte.                *)
StandForSong(cells, start) ==
  \A i \in 1 .. Len(cells) : StandsFor(cells[i], start + i - 1)

(* Short of a crash the cached file is a beginning of the song as          *)
(* presented, its tag included, through every switch between drain,        *)
(* download and sessions, and as long as its size says while it is in use. *)
(* The one exception are bytes drained from a spill that was lost: they    *)
(* are junk, but each in its own place.                                    *)
DiskIsVirtualPrefix ==
  crashes = 0 => /\ Len(disk) <= TotalSize
                 /\ StandForSong(disk, 0)
                 /\ FileUsable => Len(disk) = file.size

(* Whenever the download loop begins a turn, the next byte of the stream   *)
(* is the one that follows the last byte on disk.                          *)
DownloadInStep ==
  opener = "download" /\ FileUsable => stream.pos = file.size - file.prepend

(* The sizes left in the cache are those a download can be resumed from:   *)
(* nothing, or a file that is there and holds the whole tag.               *)
RecordedResumable ==
  \/ recorded = NoSizes
  \/ /\ recorded.size \in TagLen .. Len(disk)
     /\ recorded.prepend = PrependSize

Returned(r) == reader[r] = "idle" /\ result[r].status = "bytes"

(* How many bytes of the song a request covers.                            *)
Wanted(r) ==
  Larger(Smaller(request[r].start + request[r].size, TotalSize) - request[r].start, 0)

(* A read that returns while the file is open has exactly the bytes asked  *)
(* for, whether they came from disk, from the server or from both; on disk *)
(* those of a lost spill are junk.                                         *)
ReadExactWhileOpen ==
  \A r \in Readers : Returned(r) /\ ~ file.closed =>
    /\ Len(result[r].bytes) = Wanted(r)
    /\ StandForSong(result[r].bytes, request[r].start)

(* Appender and opener never use the stream's block reader, or the buffer  *)
(* one appends to and the other drains, at the same time.                  *)
OneStreamReader ==
  appender \in {"read", "check", "notifyEof", "fail"} =>
    opener \in {"parse", "stopAppend", "awaitAppend"}

(* No promise is satisfied twice, which would throw in a pool thread.      *)
NoFutureError == \A p \in DOMAIN promise : promise[p] # "future_error"

(* Once the processor is destroyed no thread is at work in it: the opener  *)
(* has ended, and of the appender nothing is left but a last look at the   *)
(* flag that makes it stop.                                                *)
FreedIsQuiet == owner = "freed" => /\ opener \in {"off", "ended"}
                                   /\ appender \in {"off", "recheck", "done"}

(* A read ends, by value or exception, unless the appender has stopped     *)
(* without telling the opener.                                             *)
ReadEndsUnlessNotifyLost ==
  \A r \in Readers : reader[r] # "idle" ~> (reader[r] = "idle" \/ NotifyLost)

(* The destructor, which joins the opener, ends. *)
DestructorEnds == owner = "destroying" ~> owner = "freed"
=============================================================================

--------------------------- MODULE BlockingBuffer ---------------------------
(***************************************************************************)
(* The buffer between the thread that downloads the head of a song (the    *)
(* appender) and the thread that parses its ID3v2 tag (the reader).  The   *)
(* first bytes stay in memory, the rest goes to a temporary file.          *)
(*                                                                         *)
(* A byte is identified with its position in the remote stream, so that a  *)
(* misplaced byte shows.  The mutex _bufMutex is held by the reader from   *)
(* its call to the return of read, except while it waits on the condition  *)
(* variable; the appender takes it only inside append, which never waits   *)
(* and is therefore one step.  setEOF and notify take no lock: their       *)
(* statements interleave with the reader's.                                *)
(***************************************************************************)
EXTENDS Integers, Sequences

CONSTANTS
  StreamLen,   \* length of the remote stream
  BlockSize,   \* size of the blocks the stream is read and drained in
  MaxMem,      \* _memoryBuffer->maxSize()
  MaxReadLen,  \* longest read the parser issues
  Junk         \* the content of a buffer nothing was copied into

ASSUME SizesAssumption == /\ StreamLen \in Nat
                          /\ BlockSize \in Nat \ {0}
                          /\ MaxMem \in Nat
                          /\ MaxReadLen \in Nat \ {0}
ASSUME JunkAssumption == Junk \notin Nat

VARIABLES
  mem,               \* _memoryBuffer: its curSize bytes
  spill,             \* _fileBuffer: the bytes handed to its write
  spillFailed,       \* failbit of the temporary file's fstream
  sizeLimitReached,  \* _sizeLimitReached
  eof,               \* _eof
  portionRead,       \* _portionRead
  waiting,           \* the reader is in the wait set of _portionReadCond
  apc,               \* where the appender is
  rpc,               \* where the reader is
  call,              \* arguments of the reader's current (or last) read
  block,             \* its destination block: the bytes obtained so far
  entry,             \* bytes the block held when the last pass began
  replaceLen,        \* _replaceLen
  drained            \* what finalRead has returned since the parse ended

bufVars == <<mem, spill, sizeLimitReached>>
allVars == <<mem, spill, spillFailed, sizeLimitReached, eof, portionRead, waiting,
             apc, rpc, call, block, entry, replaceLen, drained>>

Byte == 0 .. StreamLen - 1
Cell == Byte \cup {Junk}

(* Bytes from .. to - 1 of the remote stream. *)
Bytes(from, to) == [i \in 1 .. to - from |-> from + i - 1]

Smaller(a, b) == IF a <= b THEN a ELSE b

Appended == Len(mem) + Len(spill)

(* Reader positions at which _bufMutex is held. *)
LockedAt == {"checkEof", "checkPortion", "wait", "consume", "fill"}

(* metadataWasRead: the parser has returned. *)
ParseEnded == rpc \in {"stopping", "draining", "drained"}

BufferInit == /\ mem = <<>> /\ spill = <<>> /\ spillFailed = FALSE
              /\ sizeLimitReached = FALSE /\ eof = FALSE /\ portionRead = FALSE
              /\ waiting = FALSE
              /\ apc = "fetch" /\ rpc = "idle"
              /\ call = [offset |-> 0, len |-> 0] /\ block = <<>> /\ entry = 0
              /\ replaceLen = 0 /\ drained = <<>>
-----------------------------------------------------------------------------
(* The appender: FileProcessor's loop over stream.read and addToBuffer. *)

(* Mutant: the limit is not sticky, a short block may still go to memory. *)
AppendBlockNotSticky(blk) ==
  IF Len(mem) + Len(blk) > MaxMem
  THEN sizeLimitReached' = TRUE /\ spill' = spill \o blk /\ UNCHANGED mem
  ELSE mem' = mem \o blk /\ UNCHANGED <<spill, sizeLimitReached>>

(* Mutant: every write opens, and so truncates, the temporary file. *)
AppendBlockReopening(blk) ==
  IF sizeLimitReached \/ Len(mem) + Len(blk) > MaxMem
  THEN sizeLimitReached' = TRUE /\ spill' = blk /\ UNCHANGED mem
  ELSE mem' = mem \o blk /\ UNCHANGED <<spill, sizeLimitReached>>

(* append(): the next block of the stream goes to memory while it fits and *)
(* nothing has been spilled yet, to the temporary file from then on.       *)
AppendBlock(blk) ==
  IF sizeLimitReached \/ Len(mem) + Len(blk) > MaxMem
  THEN /\ sizeLimitReached' = TRUE
       /\ spill' = spill \o blk
       /\ UNCHANGED mem
  ELSE /\ mem' = mem \o blk
       /\ UNCHANGED <<spill, sizeLimitReached>>

Store == /\ apc = "fetch"
         /\ rpc \notin LockedAt
         /\ Appended < StreamLen
         /\ AppendBlock(Bytes(Appended, Smaller(Appended + BlockSize, StreamLen)))
         /\ apc' = "flag"
         /\ UNCHANGED <<spillFailed, eof, portionRead, waiting, rpc, call, block,
                        entry, replaceLen, drained>>

(* setEOF(), first statement: the stream returned no bytes, or threw. *)
SetEof == /\ apc = "fetch"
          /\ eof' = TRUE
          /\ apc' = "flag"
          /\ UNCHANGED <<bufVars, spillFailed, portionRead, waiting, rpc, call,
                         block, entry, replaceLen, drained>>

(* Mutant: notify wakes the waiter without setting the flag it tests. *)
SetPortionReadForgotten ==
  /\ apc = "flag"
  /\ apc' = "notify"
  /\ UNCHANGED <<bufVars, spillFailed, eof, portionRead, waiting, rpc, call, block,
                 entry, replaceLen, drained>>

(* notify(), first statement. *)
SetPortionRead == /\ apc = "flag"
                  /\ portionRead' = TRUE
                  /\ apc' = "notify"
                  /\ UNCHANGED <<bufVars, spillFailed, eof, waiting, rpc, call,
                                 block, entry, replaceLen, drained>>

(* notify(), second statement; then the appender goes on or stops. *)
NotifyOne == /\ apc = "notify"
             /\ waiting' = FALSE
             /\ apc' = IF eof \/ ParseEnded THEN "done" ELSE "fetch"
             /\ UNCHANGED <<bufVars, spillFailed, eof, portionRead, rpc, call,
                            block, entry, replaceLen, drained>>
-----------------------------------------------------------------------------
(* The reader: the parser calling read(offset, len) on the buffer. *)

ReaderMove(from, to) == rpc = from /\ rpc' = to

CallRead(offset, len) ==
  /\ ReaderMove("idle", "lock")
  /\ call' = [offset |-> offset, len |-> len]
  /\ block' = <<>>
  /\ entry' = 0
  /\ UNCHANGED <<bufVars, spillFailed, eof, portionRead, waiting, apc, replaceLen,
                 drained>>

Lock == /\ ReaderMove("lock", "checkEof")
        /\ UNCHANGED <<bufVars, spillFailed, eof, portionRead, waiting, apc, call,
                       block, entry, replaceLen, drained>>

(* waitForPortionRead(): nothing to wait for once the stream has ended. *)
CheckEof == /\ ReaderMove("checkEof", IF eof THEN "fill" ELSE "checkPortion")
            /\ UNCHANGED <<bufVars, spillFailed, eof, portionRead, waiting, apc,
                           call, block, entry, replaceLen, drained>>

CheckPortion ==
  /\ ReaderMove("checkPortion", IF portionRead THEN "consume" ELSE "wait")
  /\ UNCHANGED <<bufVars, spillFailed, eof, portionRead, waiting, apc, call, block,
                 entry, replaceLen, drained>>

(* _portionReadCond.wait: release the mutex and join the wait set. *)
Wait == /\ ReaderMove("wait", "blocked")
        /\ waiting' = TRUE
        /\ UNCHANGED <<bufVars, spillFailed, eof, portionRead, apc, call, block,
                       entry, replaceLen, drained>>

(* A condition variable may wake its waiter for no reason. *)
SpuriousWakeup ==
  /\ waiting
  /\ waiting' = FALSE
  /\ UNCHANGED <<bufVars, spillFailed, eof, portionRead, apc, rpc, call, block,
                 entry, replaceLen, drained>>

Reacquire == /\ ~ waiting
             /\ ReaderMove("blocked", "checkPortion")
             /\ UNCHANGED <<bufVars, spillFailed, eof, portionRead, waiting, apc,
                            call, block, entry, replaceLen, drained>>

Consume == /\ ReaderMove("consume", "fill")
           /\ portionRead' = FALSE
           /\ UNCHANGED <<bufVars, spillFailed, eof, waiting, apc, call, block,
                          entry, replaceLen, drained>>

(* FileBuffer::read at a file offset: as many bytes as are wanted and      *)
(* there.  A stream that failed copies nothing into the block.             *)
SpillRead(from, want) ==
  LET to == Smaller(from + want, Len(spill))
  IN  IF from < 0 THEN <<>>
      ELSE IF spillFailed THEN [i \in 1 .. to - from |-> Junk]
      ELSE SubSeq(spill, from + 1, to)

(* readNoLock(): what is in memory from offset on, then what is in the     *)
(* temporary file.  The file offset is computed from the block's whole     *)
(* size, which counts the bytes of earlier passes a second time.           *)
FromMem(offset, want) ==
  IF Len(mem) > offset
  THEN SubSeq(mem, offset + 1, Smaller(offset + want, Len(mem))) ELSE <<>>

\* Mutant: the file offset does not discount what is in memory.
ReadNoLockFileOffset(offset, blk, maxSize) ==
  LET target == maxSize - Len(blk)
      inMem  == blk \o FromMem(offset, target)
  IN  [block  |-> IF Len(inMem) # target /\ sizeLimitReached
                  THEN inMem \o SpillRead(offset + Len(inMem), maxSize - Len(inMem))
                  ELSE inMem,
       failed |-> FALSE]

ReadNoLock(offset, blk, maxSize) ==
  LET target    == maxSize - Len(blk)
      inMem     == blk \o FromMem(offset, target)
      useSpill  == Len(inMem) # target /\ sizeLimitReached
      spillFrom == offset + Len(inMem) - Len(mem)
  IN  [block  |-> IF useSpill
                  THEN inMem \o SpillRead(spillFrom, maxSize - Len(inMem))
                  ELSE inMem,
       \* seekg to a negative position sets the failbit, which nothing clears
       failed |-> useSpill /\ spillFrom < 0]

(* One pass of read: return a full block or, at the end of the stream,     *)
(* whatever there is; otherwise wait for another portion.                  *)
Fill ==
  LET pass == ReadNoLock(call.offset + Len(block), block, call.len)
  IN  /\ ReaderMove("fill", IF Len(pass.block) = call.len \/ eof
                            THEN "idle" ELSE "checkEof")
      /\ block' = pass.block
      /\ entry' = Len(block)
      /\ spillFailed' = (spillFailed \/ pass.failed)
      /\ UNCHANGED <<bufVars, eof, portionRead, waiting, apc, call, replaceLen,
                     drained>>
-----------------------------------------------------------------------------
(* prepend(): the parser replaces the first bytes of the stream, a tag it  *)
(* has read to its end (or to the end of the stream).                      *)
Prepend(replace) ==
  /\ rpc = "idle"
  /\ replace <= Appended \/ eof
  /\ replaceLen' = replace
  /\ UNCHANGED <<bufVars, spillFailed, eof, portionRead, waiting, apc, rpc, call,
                 block, entry, drained>>

(* The parser returns: waitForStopAppend raises _metadataWasRead ...       *)
EndParse == /\ ReaderMove("idle", "stopping")
            /\ UNCHANGED <<bufVars, spillFailed, eof, portionRead, waiting, apc,
                           call, block, entry, replaceLen, drained>>

(* ... and waits for the appender to have stopped. *)
AppendStopped ==
  /\ apc = "done"
  /\ ReaderMove("stopping", "draining")
  /\ UNCHANGED <<bufVars, spillFailed, eof, portionRead, waiting, apc, call, block,
                 entry, replaceLen, drained>>

(* Mutant: finalRead does not skip the replaced tag. *)
FinalReadKeepingTag ==
  LET pass == ReadNoLock(Len(drained), <<>>, BlockSize)
  IN  /\ ReaderMove("draining", IF pass.block = <<>> THEN "drained" ELSE "draining")
      /\ drained' = drained \o pass.block
      /\ spillFailed' = (spillFailed \/ pass.failed)
      /\ UNCHANGED <<bufVars, eof, portionRead, waiting, apc, call, block, entry,
                     replaceLen>>

(* finalRead() into an empty block, until it returns no byte. *)
FinalRead ==
  LET pass == ReadNoLock(Len(drained) + replaceLen, <<>>, BlockSize)
  IN  /\ ReaderMove("draining", IF pass.block = <<>> THEN "drained" ELSE "draining")
      /\ drained' = drained \o pass.block
      /\ spillFailed' = (spillFailed \/ pass.failed)
      /\ UNCHANGED <<bufVars, eof, portionRead, waiting, apc, call, block, entry,
                     replaceLen>>

Terminating == apc = "done" /\ rpc = "drained" /\ UNCHANGED allVars
-----------------------------------------------------------------------------
Appender == Store \/ SetEof \/ SetPortionRead \/ NotifyOne

InRead == Lock \/ CheckEof \/ CheckPortion \/ Wait \/ Reacquire \/ Consume \/ Fill

AfterParse == AppendStopped \/ FinalRead

Parser == \/ \E offset \in 0 .. StreamLen, len \in 1 .. MaxReadLen :
                CallRead(offset, len)
          \/ \E replace \in 0 .. StreamLen : Prepend(replace)
          \/ EndParse

BufferNext == Appender \/ InRead \/ AfterParse \/ Parser \/ SpuriousWakeup \/ Terminating

BufferSpec == BufferInit /\ [][BufferNext]_allVars

(* The appender's network reads return or throw in the end, and a thread   *)
(* that can run does run.  What the parser asks for is its own choice.     *)
Fairness == WF_allVars(Appender) /\ WF_allVars(InRead) /\ WF_allVars(AfterParse)

BufferFairSpec == BufferSpec /\ Fairness
-----------------------------------------------------------------------------
(* What can be read back of the bytes appended: once the temporary file    *)
(* has failed, those in memory.                                            *)
Readable == IF spillFailed THEN Len(mem) ELSE Appended

Log == INSTANCE StreamLog WITH log <- mem \o spill, readable <- Readable

(* The state is of the right type: counters in range, buffers made of      *)
(* stream bytes, and only the failed temporary file yields other cells.    *)
BufferTypeOK ==
  /\ mem \in Seq(Byte) /\ spill \in Seq(Byte)
  /\ spillFailed \in BOOLEAN /\ sizeLimitReached \in BOOLEAN
  /\ eof \in BOOLEAN /\ portionRead \in BOOLEAN /\ waiting \in BOOLEAN
  /\ apc \in {"fetch", "flag", "notify", "done"}
  /\ rpc \in LockedAt \cup {"idle", "lock", "blocked", "stopping", "draining",
                           "drained"}
  /\ call \in [offset : 0 .. StreamLen, len : 0 .. MaxReadLen]
  /\ block \in Seq(Cell) /\ Len(block) <= call.len
  /\ entry \in 0 .. MaxReadLen
  /\ replaceLen \in 0 .. StreamLen
  /\ drained \in Seq(Cell)

(* The two storages together hold a prefix of the remote stream: a short   *)
(* last block that would still fit in memory is not allowed to jump ahead  *)
(* of the blocks already spilled (the sticky _sizeLimitReached).           *)
LogIsStreamPrefix ==
  /\ Appended <= StreamLen
  /\ mem \o spill = Bytes(0, Appended)

(* The buffer is an append-only log that is closed by setEOF: the reader's *)
(* traffic, the spill and the switch between the storages do not show.     *)
(* When its temporary file fails, the log loses what is not in memory.     *)
ImplementsStreamLog == Log!Spec

Returned == rpc = "idle" /\ call.len > 0

(* The bytes the stream offers for the current call, as far as buffered.   *)
Expected == Bytes(call.offset,
                  Smaller(call.offset + call.len, Appended))

(* A read delivers the stream's bytes from its offset on; a short read     *)
(* delivers all there is, and only when the stream has ended.  (Appends    *)
(* made after the return may lengthen what is expected, hence a prefix.)   *)
Delivered == /\ Log!Extends(Expected, block)
             /\ Len(block) < call.len => eof /\ block = Expected

(* Reads are exact as long as nothing was spilled, later within the memory *)
(* buffer, and beyond it when the last pass began with an empty block and  *)
(* the temporary file still works.                                         *)
FreshReadExact ==
  (Returned /\ \/ ~ sizeLimitReached
               \/ call.offset + call.len <= Len(mem)
               \/ entry = 0 /\ ~ spillFailed) => Delivered

(* After the parse the buffer is drained without gap or repetition: what   *)
(* finalRead returned is the log from the end of the replaced tag on, and  *)
(* all of it when the draining is over.  Every byte in memory is exact; a  *)
(* temporary file that failed during the parse gives junk for each byte of *)
(* its own, as many as it holds.                                           *)
DrainExact ==
  /\ drained = Log!ReadBack(replaceLen, replaceLen + Len(drained))
  /\ rpc = "drained" => replaceLen + Len(drained) >= Appended

(* The notification of the end of the stream fell between the reader's     *)
(* test of _portionRead and its wait: nobody will notify again.            *)
EofLost == rpc = "blocked" /\ waiting /\ eof /\ portionRead /\ apc = "done"

Reading == rpc \in LockedAt \cup {"lock", "blocked"}

(* A read terminates, except through the lost notification of the end.     *)
ReadReturnsUnlessEofLost == Reading ~> (rpc = "idle" \/ EofLost)
=============================================================================

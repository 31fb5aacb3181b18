------------------------- MODULE FileProcessor_proofs -------------------------
(***************************************************************************)
(* Theorems about FileProcessor, for every song, block size, number of     *)
(* readers, sessions and crashes.                                          *)
(***************************************************************************)
EXTENDS FileProcessor, SequenceTheorems, TLAPS

(* Slices of the stream and the tag are sequences of cells. *)
LEMMA BytesCells ==
  ASSUME NEW a \in Nat, NEW b \in Int, b <= StreamLen
  PROVE  Bytes(a, b) \in Seq(Cell) /\ Len(Bytes(a, b)) \in Nat
<1>1. CASE a <= b
  BY <1>1, SizesAssumption DEF Bytes, Cell
<1>2. CASE b < a
  <2>1. 1 .. b - a = 1 .. 0
    BY <1>2
  <2>2. Bytes(a, b) = [i \in 1 .. 0 |-> a + i - 1]
    BY <2>1 DEF Bytes
  <2>3. [i \in 1 .. 0 |-> a + i - 1] \in Seq(Cell) /\ Len([i \in 1 .. 0 |-> a + i - 1]) = 0
    OBVIOUS
  <2>4. QED
    BY <2>2, <2>3
<1>3. QED
  BY <1>1, <1>2

(* What the buffer gives back has the length of the slice it stands for.   *)
LEMMA ReadBackCells ==
  ASSUME NEW a \in Nat, NEW b \in Int, b <= StreamLen
  PROVE  /\ ReadBack(a, b) \in Seq(Cell) /\ Len(ReadBack(a, b)) \in Nat
         /\ a <= b => Len(ReadBack(a, b)) = b - a
<1> DEFINE Back(i) == IF a + i - 1 < buffer.readable THEN a + i - 1 ELSE Junk
<1>1. CASE a <= b
  <2>1. b - a \in Nat /\ \A i \in 1 .. b - a : Back(i) \in Cell
    BY <1>1, SizesAssumption DEF Cell
  <2>2. ReadBack(a, b) = [i \in 1 .. b - a |-> Back(i)]
    BY DEF ReadBack
  <2> HIDE DEF Back
  <2>3. ReadBack(a, b) \in Seq(Cell) /\ Len(ReadBack(a, b)) = b - a
    BY <2>1, <2>2
  <2>4. QED
    BY <2>1, <2>3
<1>2. CASE b < a
  <2>1. 1 .. b - a = 1 .. 0
    BY <1>2
  <2>2. ReadBack(a, b) = [i \in 1 .. 0 |-> Back(i)]
    BY <2>1 DEF ReadBack
  <2> HIDE DEF Back
  <2>3. [i \in 1 .. 0 |-> Back(i)] \in Seq(Cell) /\ Len([i \in 1 .. 0 |-> Back(i)]) = 0
    OBVIOUS
  <2>4. QED
    BY <1>2, <2>2, <2>3
<1>3. QED
  BY <1>1, <1>2

LEMMA ReadBackLen ==
  ASSUME NEW a \in Nat, NEW b \in Nat, a <= b, b <= StreamLen
  PROVE  /\ ReadBack(a, b) \in Seq(Cell) /\ Len(ReadBack(a, b)) = b - a
         /\ ReadBack(a, b) = <<>> => a = b
<1>1. b \in Int
  OBVIOUS
<1>2. ReadBack(a, b) \in Seq(Cell) /\ Len(ReadBack(a, b)) = b - a
  BY <1>1, ReadBackCells, Zenon
<1>3. ReadBack(a, b) = <<>> => Len(ReadBack(a, b)) = 0
  OBVIOUS
<1>4. QED
  BY <1>2, <1>3

LEMMA TagCells == Tag \in Seq(Cell) /\ Len(Tag) = TagLen
  BY SizesAssumption DEF Tag, Cell

LEMMA PartialReadCells ==
  ASSUME NEW offset \in Int, NEW size \in Int
  PROVE  PartialRead(offset, size) \in Seq(Cell)
<1>1. CASE offset \in 0 .. StreamLen - 1
  <2>1. /\ offset \in Nat /\ Smaller(offset + size, StreamLen) \in Int
        /\ Smaller(offset + size, StreamLen) <= StreamLen
    BY <1>1, SizesAssumption DEF Smaller
  <2>2. Bytes(offset, Smaller(offset + size, StreamLen)) \in Seq(Cell)
    BY <2>1, BytesCells
  <2>3. QED
    BY <1>1, <2>2 DEF PartialRead
<1>2. CASE offset \notin 0 .. StreamLen - 1
  BY <1>2 DEF PartialRead
<1>3. QED
  BY <1>1, <1>2

LEMMA FileReadCells ==
  ASSUME disk \in Seq(Cell), NEW start \in Nat, NEW size \in Int,
         start + size <= Len(disk)
  PROVE  FileRead(start, size) \in Seq(Cell)
<1>1. Len(disk) \in Nat
  OBVIOUS
<1>2. SubSeq(disk, start + 1, start + size) \in Seq(Cell)
  <2>1. \A i \in start + 1 .. start + size : disk[i] \in Cell
    BY <1>1
  <2>2. start + 1 \in Int /\ start + size \in Int
    OBVIOUS
  <2>3. QED
    BY <2>1, <2>2, SubSeqProperties
<1>3. QED
  BY <1>2 DEF FileRead
-----------------------------------------------------------------------------
(* The inductive invariant, in three parts.                                *)

Opening   == {"openStream", "openFile", "checkSize"}
Parsing   == {"parse", "stopAppend", "awaitAppend"}
Preparing == {"setPrepend", "writeTag", "drain"}

AppendGoesOn == appender \in {"read", "check", "notifyEof", "fail"}

(* How the promises follow the threads. *)
ControlInv ==
  /\ proc.opened <=> opener # "off"
  /\ promise.opened = "unset" <=>
       opener \in {"off", "setOpened", "failOpened"} \cup Opening \cup Parsing \cup Preparing
  /\ promise.thread = "unset" <=> opener # "ended"
  /\ AppendGoesOn \/ appender = "off" => promise.append = "unset"
  /\ appender = "recheck" /\ promise.append # "unset" => proc.metadataWasRead
  /\ appender = "recheck" /\ ~ proc.metadataWasRead => opener \in Parsing
  /\ opener = "awaitAppend" => proc.metadataWasRead
  /\ opener \in Opening \cup {"off"} => appender = "off"
  /\ opener \in Preparing => promise.append # "unset"
  /\ AppendGoesOn => opener \in Parsing
  /\ owner = "freed" => opener \in {"off", "ended"}

(* How far stream and buffer can be. *)
StreamInv ==
  /\ opener \in Opening \cup {"off"} => buffer.len = 0
  /\ buffer.len <= stream.pos /\ inHand <= stream.pos
  /\ opener # "write" => inHand = 0

(* The sizes saved, recorded and in use never run ahead of one another or  *)
(* of the file, and a reader takes from the file only what is there.       *)
SizeInv ==
  /\ saved.size <= recorded.size /\ recorded.size <= file.size
  /\ file.size <= Len(disk)
  /\ \A r \in Readers : reader[r] = "fromFile" =>
        request[r].start < seenSize[r] /\ seenSize[r] <= file.size

IInv == TypeOK /\ ControlInv /\ StreamInv /\ SizeInv

LEMMA InitIInv == Init => IInv
<1> SUFFICES ASSUME Init PROVE IInv
  OBVIOUS
<1>1. TypeOK
  <2>1. /\ <<>> \in Seq(Cell) /\ 0 \in 0 .. StreamLen /\ 0 \in 0 .. BlockSize
        /\ 1 \in 1 .. MaxSessions /\ 0 \in 0 .. MaxCrashes
    BY SizesAssumption
  <2>2. /\ buffer \in [len : 0 .. StreamLen, eof : BOOLEAN, readable : 0 .. StreamLen]
        /\ stream \in [pos : 0 .. StreamLen, closed : BOOLEAN]
    BY <2>1 DEF Init, NewStream, NewBuffer
  <2>3. /\ reader \in [Readers -> ReaderStates]
        /\ request \in [Readers -> [start : Nat, size : Nat \ {0}]]
        /\ seenSize \in [Readers -> Nat]
        /\ result \in [Readers -> [status : {"none", "bytes", "error"}, bytes : Seq(Cell)]]
    BY <2>1 DEF Init, ForReaders, NoRequest, NoResult, ReaderStates
  <2>4. /\ proc \in [opened : BOOLEAN, closed : BOOLEAN, error : BOOLEAN,
                     metadataWasRead : BOOLEAN, prependSize : Int]
        /\ promise \in [opened : PromiseStates, thread : PromiseStates,
                        append : PromiseStates]
        /\ file \in [opened : BOOLEAN, closed : BOOLEAN, size : Nat, prepend : Int]
        /\ recorded \in Sizes /\ saved \in Sizes
    BY DEF Init, NewProcessor, NewPromises, NewFile, NoSizes, PromiseStates, Sizes
  <2>5. QED
    BY <2>1, <2>2, <2>3, <2>4 DEF Init, TypeOK, OpenerStates, AppenderStates
<1>2. ControlInv /\ StreamInv
  BY DEF Init, ControlInv, StreamInv, NewProcessor, NewPromises, NewBuffer, NewStream,
         Opening, Parsing, Preparing, AppendGoesOn
<1>3. SizeInv
  BY DEF Init, SizeInv, NoSizes, NewFile, ForReaders
<1>4. QED
  BY <1>1, <1>2, <1>3 DEF IInv
-----------------------------------------------------------------------------
(* Next, one disjunct per action. *)
LEMMA NextCases ==
  ASSUME [Next]_vars
  PROVE  \/ OpenStream \/ OpenFile \/ CheckSize \/ Parse \/ StopAppend \/ AwaitAppend
         \/ SetPrepend \/ WriteTag \/ Drain \/ SetOpened \/ Download \/ WriteBlock
         \/ SetThread \/ FailOpened \/ RaiseError \/ FailThread
         \/ ReadAndAppend \/ CheckMetadata \/ RecheckMetadata \/ NotifyEof
         \/ NotifyFailure \/ LoseSpill
         \/ \E r \in Readers : InRead(r)
         \/ \E r \in Readers, req \in Requests : CallRead(r, req)
         \/ Release \/ FinishClose \/ Destroy \/ Reopen \/ Save \/ Crash
         \/ UNCHANGED vars
  BY DEF Next, Opener, Appender, Terminating, Hung

(* Nothing but the buffer is touched when its spill is lost. *)
LEMMA LoseFrame ==
  ASSUME TypeOK, LoseSpill
  PROVE  /\ UNCHANGED <<proc, promise, file, stream, opener, drained, inHand, appender,
                        reader, request, seenSize, result, owner, disk, recorded, saved,
                        sessions, crashes>>
         /\ buffer'.len = buffer.len /\ buffer'.eof = buffer.eof
         /\ buffer'.readable = InMemory /\ InMemory < buffer.len /\ lost' = TRUE
         /\ buffer' \in [len : 0 .. StreamLen, eof : BOOLEAN, readable : 0 .. StreamLen]
<1>1. /\ buffer \in [len : 0 .. StreamLen, eof : BOOLEAN, readable : 0 .. StreamLen]
      /\ InMemory \in Nat
  BY SizesAssumption DEF TypeOK
<1>2. InMemory < buffer.len /\ buffer' = [buffer EXCEPT !.readable = InMemory]
  BY DEF LoseSpill
<1>3. InMemory \in 0 .. StreamLen
  <2>1. buffer.len \in 0 .. StreamLen /\ StreamLen \in Nat
    BY <1>1, SizesAssumption
  <2>2. QED
    BY <1>1, <1>2, <2>1
<1>4. /\ buffer'.len = buffer.len /\ buffer'.eof = buffer.eof
      /\ buffer'.readable = InMemory
      /\ buffer' \in [len : 0 .. StreamLen, eof : BOOLEAN, readable : 0 .. StreamLen]
  BY <1>1, <1>2, <1>3
<1>5. QED
  BY <1>2, <1>4 DEF LoseSpill, procVars, openerVars, readerVars, cacheVars

LEMMA ControlNext == IInv /\ [Next]_vars => ControlInv'
<1> SUFFICES ASSUME IInv, [Next]_vars PROVE ControlInv'
  OBVIOUS
<1>0. TypeOK /\ ControlInv
  BY DEF IInv
<1> USE DEF ControlInv, Opening, Parsing, Preparing, AppendGoesOn
<1>1. CASE OpenStream
  BY <1>0, <1>1 DEF TypeOK, PromiseStates, OpenStream, OpenerMove, procVars, openerVars, Satisfy
<1>2. CASE OpenFile
  BY <1>0, <1>2 DEF TypeOK, PromiseStates, OpenFile, OpenerMove, procVars, openerVars, Satisfy
<1>3. CASE CheckSize
  BY <1>0, <1>3 DEF TypeOK, PromiseStates, CheckSize, OpenerMove, procVars, openerVars, Satisfy
<1>4. CASE Parse
  BY <1>0, <1>4 DEF TypeOK, PromiseStates, Parse, OpenerMove, procVars, openerVars, Satisfy
<1>5. CASE StopAppend
  BY <1>0, <1>5 DEF TypeOK, PromiseStates, StopAppend, OpenerMove, procVars, openerVars, Satisfy
<1>6. CASE AwaitAppend
  BY <1>0, <1>6 DEF TypeOK, PromiseStates, AwaitAppend, OpenerMove, procVars, openerVars, Satisfy
<1>7. CASE SetPrepend
  BY <1>0, <1>7 DEF TypeOK, PromiseStates, SetPrepend, OpenerMove, procVars, openerVars, Satisfy
<1>8. CASE WriteTag
  BY <1>0, <1>8 DEF TypeOK, PromiseStates, WriteTag, OpenerMove, procVars, openerVars, Satisfy
<1>9. CASE Drain
  BY <1>0, <1>9 DEF TypeOK, PromiseStates, Drain, OpenerMove, procVars, openerVars, Satisfy
<1>10. CASE SetOpened
  BY <1>0, <1>10 DEF TypeOK, PromiseStates, SetOpened, OpenerMove, procVars, openerVars, Satisfy
<1>11. CASE Download
  BY <1>0, <1>11 DEF TypeOK, PromiseStates, Download, OpenerMove, procVars, openerVars, Satisfy
<1>12. CASE WriteBlock
  BY <1>0, <1>12 DEF TypeOK, PromiseStates, WriteBlock, OpenerMove, procVars, openerVars, Satisfy
<1>13. CASE SetThread
  BY <1>0, <1>13 DEF TypeOK, PromiseStates, SetThread, OpenerMove, procVars, openerVars, Satisfy
<1>14. CASE FailOpened
  BY <1>0, <1>14 DEF TypeOK, PromiseStates, FailOpened, OpenerMove, procVars, openerVars, Satisfy
<1>15. CASE RaiseError
  BY <1>0, <1>15 DEF TypeOK, PromiseStates, RaiseError, OpenerMove, procVars, openerVars, Satisfy
<1>16. CASE FailThread
  BY <1>0, <1>16 DEF TypeOK, PromiseStates, FailThread, OpenerMove, procVars, openerVars, Satisfy
<1>17. CASE ReadAndAppend
  BY <1>0, <1>17 DEF TypeOK, PromiseStates, ReadAndAppend, AppenderMove, procVars, openerVars, Satisfy
<1>18. CASE CheckMetadata
  BY <1>0, <1>18 DEF TypeOK, PromiseStates, CheckMetadata, AppenderMove, procVars, openerVars, Satisfy
<1>19. CASE RecheckMetadata
  BY <1>0, <1>19 DEF TypeOK, PromiseStates, RecheckMetadata, AppenderMove, procVars, openerVars, Satisfy
<1>20. CASE NotifyEof
  BY <1>0, <1>20 DEF TypeOK, PromiseStates, NotifyEof, AppenderMove, procVars, openerVars, Satisfy
<1>21. CASE NotifyFailure
  BY <1>0, <1>21 DEF TypeOK, PromiseStates, NotifyFailure, AppenderMove, procVars, openerVars, Satisfy
<1>22. CASE \E r \in Readers : InRead(r)
  <2>1. PICK r \in Readers : InRead(r)
    BY <1>22
  <2>2. /\ UNCHANGED <<promise, opener, appender, owner>>
        /\ proc' = proc \/ proc' = [proc EXCEPT !.closed = TRUE]
    BY <2>1 DEF InRead, AwaitOpen, CheckError, AwaitThread, ReadSize, FromFile, FromStream,
                CloseStream, CloseFile, SetClosed, procVars, openerVars
  <2>3. QED
    BY <1>0, <2>2 DEF TypeOK
<1>23. CASE \E r \in Readers, req \in Requests : CallRead(r, req)
  <2>1. PICK r \in Readers, req \in Requests : CallRead(r, req)
    BY <1>23
  <2>2. QED
    BY <1>0, <2>1 DEF TypeOK, CallRead
<1>24. CASE Release
  BY <1>0, <1>24 DEF TypeOK, Release, procVars, openerVars
<1>25. CASE FinishClose
  BY <1>0, <1>25 DEF TypeOK, FinishClose, openerVars
<1>26. CASE Destroy
  BY <1>0, <1>26 DEF TypeOK, Destroy, procVars, openerVars
<1>27. CASE Reopen
  BY <1>0, <1>27 DEF TypeOK, Reopen, Construct, NewProcessor, NewPromises
<1>28. CASE Save
  BY <1>0, <1>28 DEF TypeOK, Save, procVars, openerVars
<1>29. CASE Crash
  BY <1>0, <1>29 DEF TypeOK, Crash, Construct, NewProcessor, NewPromises
<1>30. CASE UNCHANGED vars
  BY <1>0, <1>30 DEF vars, procVars, openerVars
<1>31. CASE LoseSpill
  BY <1>0, <1>31, LoseFrame
<1>32. QED
  BY NextCases, <1>1, <1>2, <1>3, <1>4, <1>5, <1>6, <1>7, <1>8, <1>9, <1>10, <1>11, <1>12, <1>13, <1>14, <1>15, <1>16, <1>17, <1>18, <1>19, <1>20, <1>21, <1>22, <1>23, <1>24, <1>25, <1>26, <1>27, <1>28, <1>29, <1>30, <1>31
-----------------------------------------------------------------------------
(* Lemmas about the blocks read and written. *)

LEMMA BlockLenType ==
  ASSUME TypeOK
  PROVE  BlockLen \in 0 .. BlockSize /\ stream.pos + BlockLen \in 0 .. StreamLen
  BY SizesAssumption, SMTT(30) DEF TypeOK, BlockLen, Smaller

LEMMA FileWriteKeeps ==
  ASSUME TypeOK, SizeInv, NEW bytes \in Seq(Cell), FileWrite(bytes)
  PROVE  /\ file' \in [opened : BOOLEAN, closed : BOOLEAN, size : Nat, prepend : Int]
         /\ disk' \in Seq(Cell)
         /\ file.size <= file'.size /\ file'.size <= Len(disk')
<1>1. /\ Len(bytes) \in Nat /\ Len(disk) \in Nat /\ disk \in Seq(Cell)
      /\ file \in [opened : BOOLEAN, closed : BOOLEAN, size : Nat, prepend : Int]
      /\ file.size <= Len(disk)
  BY DEF TypeOK, SizeInv
<1>2. CASE FileUsable
  <2>1. file' = [file EXCEPT !.size = @ + Len(bytes)] /\ disk' = disk \o bytes
    BY <1>2 DEF FileWrite
  <2>2. Len(disk \o bytes) = Len(disk) + Len(bytes) /\ disk \o bytes \in Seq(Cell)
    BY <1>1
  <2>3. file.size \in Nat /\ file.size + Len(bytes) \in Nat
    BY <1>1
  <2>4. /\ file'.size = file.size + Len(bytes)
        /\ file' \in [opened : BOOLEAN, closed : BOOLEAN, size : Nat, prepend : Int]
    BY <1>1, <2>1, <2>3
  <2>5. file.size <= file'.size /\ file'.size <= Len(disk \o bytes)
    BY <1>1, <2>2, <2>3, <2>4
  <2>6. QED
    BY <2>1, <2>2, <2>4, <2>5
<1>3. CASE ~ FileUsable
  BY <1>1, <1>3 DEF FileWrite
<1>4. QED
  BY <1>2, <1>3

(* What a step that uses the cached file does to it. *)
LEMMA FileSteps ==
  ASSUME IInv, OpenFile \/ WriteTag \/ Drain \/ WriteBlock
  PROVE  /\ file' \in [opened : BOOLEAN, closed : BOOLEAN, size : Nat, prepend : Int]
         /\ disk' \in Seq(Cell)
         /\ file.size <= file'.size /\ file'.size <= Len(disk')
<1>1. TypeOK /\ SizeInv /\ StreamInv
  BY DEF IInv
<1>2. CASE OpenFile
  <2>1. /\ file \in [opened : BOOLEAN, closed : BOOLEAN, size : Nat, prepend : Int]
        /\ disk \in Seq(Cell) /\ file.size <= Len(disk)
    BY <1>1 DEF TypeOK, SizeInv
  <2>2. /\ file'.size = file.size
        /\ file' \in [opened : BOOLEAN, closed : BOOLEAN, size : Nat, prepend : Int]
    BY <1>2, <2>1 DEF OpenFile, FileOpen
  <2>3. disk' = disk \/ (disk' = <<>> /\ file.size = 0)
    BY <1>2 DEF OpenFile, FileOpen
  <2>4. CASE disk' = disk
    BY <2>1, <2>2, <2>4
  <2>5. CASE disk' = <<>> /\ file.size = 0
    BY <2>2, <2>5
  <2>6. QED
    BY <2>3, <2>4, <2>5
<1>3. CASE WriteTag
  BY <1>1, <1>3, TagCells, FileWriteKeeps DEF WriteTag
<1>4. CASE Drain
  <2> DEFINE from  == drained + Replaced
             block == ReadBack(from, Smaller(from + BlockSize, buffer.len))
  <2>1. /\ from \in Nat /\ Smaller(from + BlockSize, buffer.len) \in Int
        /\ Smaller(from + BlockSize, buffer.len) <= StreamLen
    BY <1>1, SizesAssumption DEF TypeOK, Smaller
  <2>2. block \in Seq(Cell)
    BY <2>1, ReadBackCells
  <2>3. FileWrite(block) \/ UNCHANGED <<file, disk>>
    BY <1>4 DEF Drain
  <2> HIDE DEF block
  <2>4. QED
    BY <1>1, <2>2, <2>3, FileWriteKeeps DEF TypeOK, SizeInv
<1>5. CASE WriteBlock
  <2>1. /\ stream.pos - inHand \in Nat /\ stream.pos \in Int /\ stream.pos <= StreamLen
    BY <1>1 DEF TypeOK, StreamInv
  <2>2. Bytes(stream.pos - inHand, stream.pos) \in Seq(Cell)
    BY <2>1, BytesCells
  <2>3. QED
    BY <1>1, <1>5, <2>2, FileWriteKeeps DEF WriteBlock
<1>6. QED
  BY <1>2, <1>3, <1>4, <1>5

LEMMA StreamNext == IInv /\ [Next]_vars => StreamInv'
<1> SUFFICES ASSUME IInv, [Next]_vars PROVE StreamInv'
  OBVIOUS
<1>0. TypeOK /\ ControlInv /\ StreamInv
  BY DEF IInv
<1> USE DEF StreamInv, Opening
<1>1. CASE OpenStream
  <2>1. /\ opener = "openStream" /\ UNCHANGED <<buffer, inHand>>
        /\ opener' \in {"openFile", "failOpened"} /\ stream'.pos \in 0 .. StreamLen
    <3>1. stream \in [pos : 0 .. StreamLen, closed : BOOLEAN]
      BY <1>0 DEF TypeOK
    <3>2. QED
      BY <1>1, <3>1 DEF OpenStream, OpenerMove, StreamFails
  <2>2. buffer.len = 0 /\ inHand = 0
    BY <1>0, <2>1
  <2>3. QED
    BY <2>1, <2>2
<1>2. CASE ReadAndAppend
  <2>1. opener \in Parsing /\ opener' = opener /\ inHand' = inHand
    BY <1>0, <1>2 DEF ReadAndAppend, AppenderMove, ControlInv, AppendGoesOn, openerVars
  <2>2. opener' \notin Opening \cup {"off"} /\ opener' # "write" /\ inHand' = 0
    BY <1>0, <2>1 DEF Parsing
  <2>3. stream.pos \in Nat /\ buffer.len \in Nat /\ BlockLen \in Nat
    BY <1>0, BlockLenType DEF TypeOK
  <2>4. \/ stream'.pos = stream.pos /\ buffer'.len = buffer.len
        \/ /\ stream'.pos = stream.pos + BlockLen
           /\ buffer'.len = buffer.len + BlockLen
    BY <1>0, <1>2 DEF TypeOK, ReadAndAppend, StreamFails
  <2>5. buffer'.len <= stream'.pos /\ 0 <= stream'.pos
    BY <1>0, <2>3, <2>4
  <2>6. QED
    BY <2>2, <2>5
<1>3. CASE Download
  <2>1. /\ opener = "download" /\ UNCHANGED buffer
        /\ opener' \in {"setThread", "raiseError", "write"}
    BY <1>3 DEF Download, OpenerMove
  <2>2. stream.pos \in Nat /\ buffer.len \in Nat /\ BlockLen \in Nat /\ inHand = 0
    BY <1>0, <2>1, BlockLenType DEF TypeOK
  <2>3. \/ stream'.pos = stream.pos /\ inHand' = inHand
        \/ /\ stream'.pos = stream.pos + BlockLen /\ inHand' = BlockLen
           /\ opener' = "write"
    BY <1>0, <1>3 DEF TypeOK, Download, OpenerMove, StreamFails
  <2>4. buffer.len <= stream'.pos /\ inHand' <= stream'.pos
    BY <1>0, <2>2, <2>3
  <2>5. QED
    BY <2>1, <2>2, <2>3, <2>4
<1>4. CASE WriteBlock
  BY <1>0, <1>4 DEF TypeOK, WriteBlock, OpenerMove
<1>5. CASE /\ UNCHANGED <<buffer, inHand>> /\ stream'.pos = stream.pos
           /\ opener' \in Opening => opener \in Opening \cup {"off"}
           /\ opener' # "off" \/ opener = "off"
           /\ opener' # "write" => opener # "write" \/ inHand = 0
  BY <1>0, <1>5
<1>6. CASE Reopen \/ Crash
  BY <1>6, SizesAssumption DEF Reopen, Crash, Construct, NewBuffer, NewStream
<1>7. QED
  <2>1. StreamFails => stream'.pos = stream.pos
    BY <1>0 DEF TypeOK, StreamFails
  <2>2. CASE \E r \in Readers : InRead(r)
    BY <1>0, <1>5, <2>1, <2>2
       DEF InRead, AwaitOpen, CheckError, AwaitThread, ReadSize, FromFile, FromStream,
           CloseStream, CloseFile, SetClosed, openerVars
  <2>3. CASE \E r \in Readers, req \in Requests : CallRead(r, req)
    BY <1>0, <1>5, <2>3 DEF CallRead, ControlInv
  <2>4. CASE \/ OpenFile \/ CheckSize \/ Parse \/ StopAppend \/ AwaitAppend
             \/ SetPrepend \/ WriteTag \/ Drain \/ SetOpened
    BY <1>0, <1>5, <2>4
       DEF OpenFile, CheckSize, Parse, StopAppend, AwaitAppend, SetPrepend, WriteTag,
           Drain, SetOpened, OpenerMove
  <2>5. CASE SetThread \/ FailOpened \/ RaiseError \/ FailThread
    BY <1>0, <1>5, <2>5 DEF SetThread, FailOpened, RaiseError, FailThread, OpenerMove
  <2>6. CASE \/ CheckMetadata \/ RecheckMetadata \/ NotifyEof \/ NotifyFailure
             \/ Release \/ FinishClose \/ Destroy \/ Save \/ UNCHANGED vars
    BY <1>0, <1>5, <2>6
       DEF CheckMetadata, RecheckMetadata, NotifyEof, NotifyFailure, Release,
           FinishClose, Destroy, Save, openerVars, vars
  <2>7. CASE LoseSpill
    <3>1. UNCHANGED <<stream, inHand, opener>> /\ buffer'.len = buffer.len
      BY <1>0, <2>7, LoseFrame
    <3>2. QED
      BY <1>0, <3>1
  <2>8. QED
    BY NextCases, <1>1, <1>2, <1>3, <1>4, <1>6, <2>2, <2>3, <2>4, <2>5, <2>6, <2>7
-----------------------------------------------------------------------------
(* A step of the sizes: they only grow while the file is in use. *)
LEMMA FileCloseSteps ==
  ASSUME TypeOK, SizeInv, FileClose
  PROVE  /\ file' \in [opened : BOOLEAN, closed : BOOLEAN, size : Nat, prepend : Int]
         /\ file'.size = file.size
         /\ recorded' \in Sizes
         /\ recorded.size <= recorded'.size /\ recorded'.size <= file.size
<1>1. /\ file \in [opened : BOOLEAN, closed : BOOLEAN, size : Nat, prepend : Int]
      /\ recorded \in Sizes /\ recorded.size <= file.size
  BY DEF TypeOK, SizeInv
<1>2. CASE FileUsable
  <2>1. /\ file' = [file EXCEPT !.closed = TRUE]
        /\ recorded' = [size |-> file.size, prepend |-> file.prepend]
    BY <1>2 DEF FileClose
  <2>2. file.size \in Nat /\ file.size <= file.size
    BY <1>1
  <2>3. QED
    BY <1>1, <2>1, <2>2 DEF Sizes
<1>3. CASE ~ FileUsable
  <2>1. file' = file /\ recorded' = recorded
    BY <1>3 DEF FileClose
  <2>2. recorded.size \in Nat /\ recorded.size <= recorded.size
    BY <1>1 DEF Sizes
  <2>3. QED
    BY <1>1, <2>1, <2>2
<1>4. QED
  BY <1>2, <1>3

LEMMA SizeNext == IInv /\ [Next]_vars => SizeInv'
<1> SUFFICES ASSUME IInv, [Next]_vars PROVE SizeInv'
  OBVIOUS
<1>0. TypeOK /\ SizeInv
  BY DEF IInv
<1>t. /\ saved.size \in Nat /\ recorded.size \in Nat /\ file.size \in Nat
      /\ Len(disk) \in Nat /\ seenSize \in [Readers -> Nat]
      /\ request \in [Readers -> [start : Nat, size : Nat \ {0}]]
      /\ reader \in [Readers -> ReaderStates]
  BY <1>0 DEF TypeOK, Sizes
<1> DEFINE ReaderInv == \A r \in Readers : reader[r] = "fromFile" =>
                          request[r].start < seenSize[r] /\ seenSize[r] <= file.size
<1>r. ReaderInv
  BY <1>0 DEF SizeInv
<1>1. CASE OpenFile \/ WriteTag \/ Drain \/ WriteBlock
  <2>1. UNCHANGED <<saved, recorded, reader, request, seenSize>>
    BY <1>1 DEF OpenFile, WriteTag, Drain, WriteBlock, readerVars
  <2>2. file'.size \in Nat /\ file.size <= file'.size /\ file'.size <= Len(disk')
    BY <1>1, FileSteps
  <2>3. ReaderInv'
    BY <1>t, <1>r, <2>1, <2>2
  <2>4. QED
    BY <1>0, <1>t, <2>1, <2>2, <2>3 DEF SizeInv
<1>2. CASE UNCHANGED <<saved, recorded, disk, reader, request, seenSize>> /\ file'.size = file.size
  BY <1>0, <1>2 DEF SizeInv
<1>3. CASE \E r \in Readers : CloseFile(r)
  <2>1. PICK r \in Readers : CloseFile(r)
    BY <1>3
  <2>2. /\ UNCHANGED <<saved, disk, request, seenSize>> /\ FileClose
        /\ reader' = [reader EXCEPT ![r] = "setClosed"]
    BY <2>1 DEF CloseFile, ReaderMove
  <2>3. file'.size = file.size /\ recorded.size <= recorded'.size
        /\ recorded'.size <= file.size /\ recorded'.size \in Nat
    BY <1>0, <2>2, FileCloseSteps DEF Sizes
  <2>4. ReaderInv'
    BY <1>t, <1>r, <2>2, <2>3
  <2>5. QED
    BY <1>0, <1>t, <2>2, <2>3, <2>4 DEF SizeInv
<1>4. CASE Release
  <2>1. UNCHANGED <<saved, disk, request, seenSize, reader>> /\ FileClose
    BY <1>4 DEF Release, readerVars
  <2>2. file'.size = file.size /\ recorded.size <= recorded'.size
        /\ recorded'.size <= file.size /\ recorded'.size \in Nat
    BY <1>0, <2>1, FileCloseSteps DEF Sizes
  <2>3. QED
    BY <1>0, <1>t, <2>1, <2>2 DEF SizeInv
<1>5. CASE \E r \in Readers : ReadSize(r)
  <2>1. PICK r \in Readers : ReadSize(r)
    BY <1>5
  <2>2. /\ UNCHANGED <<saved, recorded, disk, file, request>>
        /\ reader' = [reader EXCEPT ![r] =
               IF request[r].start < file.size THEN "fromFile" ELSE "fromStream"]
        /\ seenSize' = [seenSize EXCEPT ![r] = file.size]
    BY <2>1 DEF ReadSize, ReaderMove, cacheVars
  <2>3. ReaderInv'
    BY <1>t, <1>r, <2>2
  <2>4. QED
    BY <1>0, <2>2, <2>3 DEF SizeInv
<1>6. CASE \E r \in Readers, req \in Requests : CallRead(r, req)
  <2>1. PICK r \in Readers, req \in Requests : CallRead(r, req)
    BY <1>6
  <2>2. /\ UNCHANGED <<saved, recorded, disk, file, seenSize>>
        /\ reader' = [reader EXCEPT ![r] = "awaitOpen"]
        /\ request' = [request EXCEPT ![r] = req]
    BY <2>1 DEF CallRead, ReaderMove, cacheVars
  <2>3. ReaderInv'
    BY <1>t, <1>r, <2>2
  <2>4. QED
    BY <1>0, <2>2, <2>3 DEF SizeInv
<1>7. CASE \E r \in Readers : \/ AwaitOpen(r) \/ CheckError(r) \/ AwaitThread(r)
                              \/ FromFile(r) \/ FromStream(r) \/ CloseStream(r) \/ SetClosed(r)
  <2>1. PICK r \in Readers : \/ AwaitOpen(r) \/ CheckError(r) \/ AwaitThread(r)
                              \/ FromFile(r) \/ FromStream(r) \/ CloseStream(r) \/ SetClosed(r)
    BY <1>7
  <2>2. /\ UNCHANGED <<saved, recorded, disk, file, seenSize, request>>
        /\ \E to \in ReaderStates \ {"fromFile"} : reader' = [reader EXCEPT ![r] = to]
    BY <2>1 DEF AwaitOpen, CheckError, AwaitThread, FromFile, FromStream, CloseStream,
                SetClosed, ReaderMove, cacheVars, ReaderStates
  <2>3. ReaderInv'
    BY <1>t, <1>r, <2>2
  <2>4. QED
    BY <1>0, <2>2, <2>3 DEF SizeInv
<1>8. CASE Reopen
  <2>1. /\ UNCHANGED <<saved, recorded, disk>> /\ file'.size = recorded.size
        /\ reader' = ForReaders("idle")
    BY <1>8 DEF Reopen, Construct, NewFile, cacheVars
  <2>2. ReaderInv'
    BY <2>1 DEF ForReaders
  <2>3. QED
    BY <1>0, <1>t, <2>1, <2>2 DEF SizeInv
<1>9. CASE Crash
  <2>1. /\ UNCHANGED <<saved, disk>> /\ recorded' = saved /\ file'.size = saved.size
        /\ reader' = ForReaders("idle")
    BY <1>9 DEF Crash, Construct, NewFile
  <2>2. ReaderInv'
    BY <2>1 DEF ForReaders
  <2>3. QED
    BY <1>0, <1>t, <2>1, <2>2 DEF SizeInv
<1>10. CASE Save
  BY <1>0, <1>t, <1>10 DEF Save, readerVars, SizeInv
<1>11. CASE SetPrepend
  <2>1. file'.size = file.size
    BY <1>0, <1>11 DEF SetPrepend, TypeOK
  <2>2. QED
    BY <1>2, <1>11, <2>1 DEF SetPrepend, readerVars, cacheVars
<1>12. QED
  <2>1. CASE \/ OpenStream \/ CheckSize \/ Parse \/ StopAppend \/ AwaitAppend
             \/ SetOpened \/ Download \/ SetThread \/ FailOpened \/ RaiseError
             \/ FailThread
    BY <1>2, <2>1
       DEF OpenStream, CheckSize, Parse, StopAppend, AwaitAppend, SetOpened, Download,
           SetThread, FailOpened, RaiseError, FailThread, readerVars, cacheVars
  <2>2. CASE \/ ReadAndAppend \/ CheckMetadata \/ RecheckMetadata \/ NotifyEof
             \/ NotifyFailure \/ FinishClose \/ Destroy \/ UNCHANGED vars
    BY <1>2, <2>2
       DEF ReadAndAppend, CheckMetadata, RecheckMetadata, NotifyEof, NotifyFailure,
           FinishClose, Destroy, readerVars, cacheVars, vars
  <2>3. CASE \E r \in Readers : InRead(r)
    BY <1>3, <1>5, <1>7, <2>3 DEF InRead
  <2>4. CASE LoseSpill
    BY <1>0, <1>2, <2>4, LoseFrame
  <2>5. QED
    BY NextCases, <1>1, <1>4, <1>6, <1>8, <1>9, <1>10, <1>11, <2>1, <2>2, <2>3, <2>4
-----------------------------------------------------------------------------
(* Types, in the groups of variables the steps change together. *)

ProcType == /\ proc \in [opened : BOOLEAN, closed : BOOLEAN, error : BOOLEAN,
                         metadataWasRead : BOOLEAN, prependSize : Int]
            /\ promise \in [opened : PromiseStates, thread : PromiseStates,
                            append : PromiseStates]
FileType == /\ file \in [opened : BOOLEAN, closed : BOOLEAN, size : Nat, prepend : Int]
            /\ disk \in Seq(Cell)
StreamType == /\ stream \in [pos : 0 .. StreamLen, closed : BOOLEAN]
              /\ buffer \in [len : 0 .. StreamLen, eof : BOOLEAN, readable : 0 .. StreamLen]
ThreadType == /\ opener \in OpenerStates /\ drained \in Nat /\ inHand \in 0 .. BlockSize
              /\ appender \in AppenderStates
ReaderType ==
  /\ reader \in [Readers -> ReaderStates]
  /\ request \in [Readers -> [start : Nat, size : Nat \ {0}]]
  /\ seenSize \in [Readers -> Nat]
  /\ result \in [Readers -> [status : {"none", "bytes", "error"}, bytes : Seq(Cell)]]
OwnerType == /\ owner \in {"holds", "closing", "destroying", "freed"}
             /\ sessions \in 1 .. MaxSessions /\ crashes \in 0 .. MaxCrashes
             /\ lost \in BOOLEAN
SizesType == recorded \in Sizes /\ saved \in Sizes

LEMMA TypeParts ==
  TypeOK <=> /\ ProcType /\ FileType /\ StreamType /\ ThreadType /\ ReaderType
             /\ OwnerType /\ SizesType
  BY DEF TypeOK, ProcType, FileType, StreamType, ThreadType, ReaderType, OwnerType,
         SizesType

(* Satisfying a promise yields one of its states. *)
LEMMA SatisfyType ==
  ASSUME ProcType, UNCHANGED proc, NEW p \in {"opened", "thread", "append"},
         NEW v \in {"value", "exception"}, Satisfy(p, v)
  PROVE  ProcType'
  BY DEF ProcType, Satisfy, PromiseStates

LEMMA ConstructType ==
  ASSUME NEW sizes \in Sizes, Construct(sizes)
  PROVE  /\ ProcType' /\ StreamType' /\ ThreadType' /\ ReaderType'
         /\ file' \in [opened : BOOLEAN, closed : BOOLEAN, size : Nat, prepend : Int]
<1>1. <<>> \in Seq(Cell) /\ 0 \in 0 .. StreamLen /\ 0 \in 0 .. BlockSize
  BY SizesAssumption
<1>2. QED
  BY <1>1 DEF Construct, ProcType, StreamType, ThreadType, ReaderType, NewProcessor,
     NewPromises, NewFile, NewStream, NewBuffer, ForReaders, NoRequest, NoResult,
     PromiseStates, OpenerStates, AppenderStates, ReaderStates, Sizes

(* What the readers' steps yield. *)
LEMMA ReaderNext ==
  ASSUME IInv, NEW r \in Readers, InRead(r)
  PROVE  ReaderType'
<1>0. ReaderType /\ FileType /\ ProcType /\ SizeInv /\ TypeOK
  BY TypeParts DEF IInv
<1>1. CASE AwaitOpen(r) \/ CheckError(r) \/ AwaitThread(r) \/ CloseStream(r) \/ CloseFile(r)
  <2>1. /\ UNCHANGED <<request, seenSize, result>>
        /\ \E to \in ReaderStates : reader' = [reader EXCEPT ![r] = to]
    BY <1>1 DEF AwaitOpen, CheckError, AwaitThread, CloseStream, CloseFile, ReaderMove,
                ReaderStates
  <2>2. QED
    BY <1>0, <2>1 DEF ReaderType
<1>2. CASE ReadSize(r) \/ SetClosed(r)
  <2>1. /\ UNCHANGED request
        /\ \E to \in ReaderStates : reader' = [reader EXCEPT ![r] = to]
    BY <1>2 DEF ReadSize, SetClosed, ReaderMove, ReaderStates
  <2>2. \E s \in {"none", "error"} :
           result' = [result EXCEPT ![r] = [status |-> s, bytes |-> <<>>]]
    BY <1>2 DEF ReadSize, SetClosed, NoResult
  <2>3. seenSize' = seenSize \/ seenSize' = [seenSize EXCEPT ![r] = file.size]
    BY <1>2 DEF ReadSize, SetClosed
  <2>4. file.size \in Nat /\ <<>> \in Seq(Cell)
    BY <1>0 DEF FileType
  <2>5. QED
    BY <1>0, <2>1, <2>2, <2>3, <2>4 DEF ReaderType
<1>3. CASE FromFile(r)
  <2> DEFINE start == request[r].start
             size  == request[r].size
             taken == Smaller(size, seenSize[r] - start)
  <2>1. /\ start \in Nat /\ size \in Nat /\ seenSize[r] \in Nat /\ file.size \in Nat
        /\ disk \in Seq(Cell) /\ Len(disk) \in Nat
    BY <1>0 DEF ReaderType, FileType
  <2>2. start < seenSize[r] /\ seenSize[r] <= file.size /\ file.size <= Len(disk)
    BY <1>0, <1>3 DEF SizeInv, FromFile, ReaderMove
  <2>3. taken \in Int /\ start + taken <= Len(disk)
    BY <2>1, <2>2 DEF Smaller
  <2>4. FileRead(start, taken) \in Seq(Cell)
    BY <2>1, <2>3, FileReadCells
  <2>5. /\ UNCHANGED <<request, seenSize>>
        /\ \E to \in ReaderStates : reader' = [reader EXCEPT ![r] = to]
        /\ result' = [result EXCEPT ![r] =
                        [status |-> "bytes", bytes |-> FileRead(start, taken)]]
    BY <1>3 DEF FromFile, ReaderMove, ReaderStates, Return
  <2> HIDE DEF start, size, taken
  <2>6. QED
    BY <1>0, <2>4, <2>5 DEF ReaderType
<1>4. CASE FromStream(r)
  <2> DEFINE from == Larger(request[r].start, seenSize[r])
             size == request[r].start + request[r].size - from
             part == PartialRead(from - proc.prependSize, size)
  <2>1. /\ request[r].start \in Nat /\ request[r].size \in Nat /\ seenSize[r] \in Nat
        /\ proc.prependSize \in Int /\ result[r].bytes \in Seq(Cell)
    BY <1>0 DEF ReaderType, ProcType
  <2>2. from - proc.prependSize \in Int /\ size \in Int
    BY <2>1 DEF Larger
  <2>3. part \in Seq(Cell)
    BY <2>2, PartialReadCells
  <2>4. \/ result' = [result EXCEPT ![r] =
                         [status |-> "bytes", bytes |-> result[r].bytes \o part]]
        \/ result' = [result EXCEPT ![r] = [status |-> "none", bytes |-> <<>>]]
    BY <1>4 DEF FromStream, Return, NoResult
  <2>5. /\ UNCHANGED <<request, seenSize>>
        /\ \E to \in ReaderStates : reader' = [reader EXCEPT ![r] = to]
    BY <1>4 DEF FromStream, ReaderMove, ReaderStates
  <2> HIDE DEF part
  <2>6. result[r].bytes \o part \in Seq(Cell) /\ <<>> \in Seq(Cell)
    BY <2>1, <2>3
  <2> DEFINE Results == [status : {"none", "bytes", "error"}, bytes : Seq(Cell)]
  <2>7. \E e \in Results : result' = [result EXCEPT ![r] = e]
    <3> DEFINE all == result[r].bytes \o part
    <3>1. \A b \in Seq(Cell) : /\ [status |-> "bytes", bytes |-> b] \in Results
                             /\ [status |-> "none", bytes |-> b] \in Results
      OBVIOUS
    <3>2. /\ [status |-> "bytes", bytes |-> all] \in Results
          /\ [status |-> "none", bytes |-> <<>>] \in Results
      BY <2>6, <3>1
    <3> HIDE DEF Results
    <3>3. QED
      BY <2>4, <3>2
  <2>8. result' \in [Readers -> Results]
    BY <1>0, <2>7 DEF ReaderType
  <2>9. QED
    BY <1>0, <2>5, <2>8 DEF ReaderType
<1>5. QED
  BY <1>1, <1>2, <1>3, <1>4 DEF InRead

LEMMA TypeNext == IInv /\ [Next]_vars => TypeOK'
<1> SUFFICES ASSUME IInv, [Next]_vars PROVE TypeOK'
  OBVIOUS
<1>0. /\ ProcType /\ FileType /\ StreamType /\ ThreadType /\ ReaderType /\ OwnerType
      /\ SizesType /\ TypeOK /\ SizeInv /\ StreamInv
  BY TypeParts DEF IInv
<1>t. ASSUME ProcType', FileType', StreamType', ThreadType', ReaderType', OwnerType',
             SizesType'
      PROVE  TypeOK'
  BY <1>t DEF TypeOK, ProcType, FileType, StreamType, ThreadType, ReaderType, OwnerType,
         SizesType
<1> DEFINE Keeps ==
      /\ (UNCHANGED procVars) => ProcType'
      /\ (UNCHANGED <<file, disk>>) => FileType'
      /\ (UNCHANGED <<stream, buffer>>) => StreamType'
      /\ (UNCHANGED <<openerVars, appender>>) => ThreadType'
      /\ (UNCHANGED readerVars) => ReaderType'
      /\ (UNCHANGED <<owner, history>>) => OwnerType'
      /\ (UNCHANGED <<recorded, saved>>) => SizesType'
<1>k. Keeps
  BY <1>0 DEF ProcType, FileType, StreamType, ThreadType, ReaderType, OwnerType,
              SizesType, procVars, openerVars, readerVars, history
<1>s. StreamFails => stream' \in [pos : 0 .. StreamLen, closed : BOOLEAN]
  BY <1>0 DEF StreamFails, StreamType
<1>1. CASE OpenStream
  <2>1. ThreadType'
    BY <1>0, <1>1 DEF OpenStream, OpenerMove, ThreadType, OpenerStates
  <2>2. StreamType'
    BY <1>0, <1>s, <1>1 DEF OpenStream, StreamType
  <2>3. QED
    BY <1>k, <1>t, <1>1, <2>1, <2>2 DEF OpenStream, cacheVars
<1>2. CASE OpenFile \/ WriteTag \/ Drain \/ WriteBlock
  <2>1. FileType'
    BY <1>2, FileSteps DEF FileType
  <2>2. drained' \in Nat
    <3>1. CASE Drain /\ ~ proc.closed
      <4> DEFINE from  == drained + Replaced
                 block == ReadBack(from, Smaller(from + BlockSize, buffer.len))
      <4>1. /\ from \in Nat /\ Smaller(from + BlockSize, buffer.len) \in Int
            /\ Smaller(from + BlockSize, buffer.len) <= StreamLen
        BY <1>0, SizesAssumption DEF ThreadType, StreamType, Smaller
      <4>2. Len(block) \in Nat
        BY <4>1, ReadBackCells
      <4>3. drained' = drained + Len(block)
        BY <3>1 DEF Drain
      <4> HIDE DEF block
      <4>4. QED
        BY <1>0, <4>2, <4>3 DEF ThreadType
    <3>2. CASE ~ (Drain /\ ~ proc.closed)
      BY <1>0, <1>2, <3>2 DEF OpenFile, WriteTag, Drain, WriteBlock, ThreadType
    <3>3. QED
      BY <3>1, <3>2
  <2>3. inHand' \in 0 .. BlockSize
    BY <1>0, <1>2, SizesAssumption DEF OpenFile, WriteTag, Drain, WriteBlock, ThreadType
  <2>4. opener' \in OpenerStates /\ appender' \in AppenderStates
    BY <1>0, <1>2 DEF OpenFile, WriteTag, Drain, WriteBlock, OpenerMove, ThreadType,
                      OpenerStates
  <2>5. ThreadType'
    BY <2>2, <2>3, <2>4 DEF ThreadType
  <2>6. QED
    BY <1>k, <1>t, <1>2, <2>1, <2>5 DEF OpenFile, WriteTag, Drain, WriteBlock, cacheVars
<1>3. CASE CheckSize \/ StopAppend
  <2>1. ThreadType'
    BY <1>0, <1>3 DEF CheckSize, StopAppend, OpenerMove, ThreadType, OpenerStates, AppenderStates
  <2>2. ProcType'
    BY <1>0, <1>3 DEF CheckSize, StopAppend, ProcType, FileType
  <2>3. QED
    BY <1>k, <1>t, <1>3, <2>1, <2>2 DEF CheckSize, StopAppend, cacheVars
<1>4. CASE Parse \/ AwaitAppend
  <2>1. ThreadType'
    BY <1>0, <1>4 DEF Parse, AwaitAppend, OpenerMove, ThreadType, OpenerStates
  <2>2. QED
    BY <1>k, <1>t, <1>4, <2>1 DEF Parse, AwaitAppend, cacheVars
<1>5. CASE SetPrepend
  <2>1. ThreadType'
    BY <1>0, <1>5 DEF SetPrepend, OpenerMove, ThreadType, OpenerStates
  <2>2. PrependSize \in Int
    BY SizesAssumption DEF PrependSize
  <2>3. ProcType'
    BY <1>0, <1>5, <2>2 DEF SetPrepend, ProcType
  <2>4. FileType'
    BY <1>0, <1>5, <2>2 DEF SetPrepend, FileType, cacheVars
  <2>5. QED
    BY <1>k, <1>t, <1>5, <2>1, <2>3, <2>4 DEF SetPrepend, cacheVars
<1>6. CASE SetOpened \/ SetThread \/ FailOpened \/ FailThread
  <2>1. ThreadType'
    BY <1>0, <1>6 DEF SetOpened, SetThread, FailOpened, FailThread, OpenerMove,
                      ThreadType, OpenerStates
  <2>2. ProcType'
    BY <1>0, <1>6, SatisfyType DEF SetOpened, SetThread, FailOpened, FailThread
  <2>3. QED
    BY <1>k, <1>t, <1>6, <2>1, <2>2
       DEF SetOpened, SetThread, FailOpened, FailThread, cacheVars
<1>7. CASE RaiseError
  <2>1. ThreadType' /\ ProcType'
    BY <1>0, <1>7 DEF RaiseError, OpenerMove, ThreadType, OpenerStates, ProcType
  <2>2. QED
    BY <1>k, <1>t, <1>7, <2>1 DEF RaiseError, cacheVars
<1>8. CASE Download
  <2>1. stream.pos + BlockLen \in 0 .. StreamLen /\ BlockLen \in 0 .. BlockSize
    BY <1>0, BlockLenType
  <2>2. ThreadType'
    BY <1>0, <1>8, <2>1 DEF Download, OpenerMove, ThreadType, OpenerStates
  <2>3. stream' \in [pos : 0 .. StreamLen, closed : BOOLEAN] /\ UNCHANGED buffer
    BY <1>0, <1>s, <1>8, <2>1 DEF Download, StreamType
  <2>4. StreamType'
    BY <1>0, <2>3 DEF StreamType
  <2>5. QED
    BY <1>k, <1>t, <1>8, <2>2, <2>4 DEF Download, cacheVars
<1>9. CASE ReadAndAppend
  <2>1. stream.pos + BlockLen \in 0 .. StreamLen /\ BlockLen \in Nat
    BY <1>0, BlockLenType
  <2>2. buffer.len + BlockLen \in 0 .. StreamLen
    <3>1. /\ buffer.len \in Nat /\ buffer.len <= stream.pos /\ stream.pos \in Nat
          /\ StreamLen \in Nat
      BY <1>0, SizesAssumption DEF StreamInv, StreamType
    <3>2. QED
      BY <2>1, <3>1
  <2>3. ThreadType'
    BY <1>0, <1>9 DEF ReadAndAppend, AppenderMove, ThreadType, AppenderStates, openerVars
  <2>4. stream' \in [pos : 0 .. StreamLen, closed : BOOLEAN]
    BY <1>0, <1>s, <1>9, <2>1 DEF ReadAndAppend, StreamType
  <2>5. buffer' \in [len : 0 .. StreamLen, eof : BOOLEAN, readable : 0 .. StreamLen]
    <3> DEFINE back == IF buffer.readable = buffer.len THEN buffer.readable + BlockLen
                       ELSE buffer.readable
    <3>1. /\ buffer \in [len : 0 .. StreamLen, eof : BOOLEAN, readable : 0 .. StreamLen]
          /\ back \in 0 .. StreamLen
      BY <1>0, <2>2 DEF StreamType
    <3>2. \/ buffer' = [buffer EXCEPT !.len = buffer.len + BlockLen, !.readable = back]
          \/ buffer' = [buffer EXCEPT !.eof = TRUE]
      BY <1>9 DEF ReadAndAppend
    <3> HIDE DEF back
    <3>3. QED
      BY <2>2, <3>1, <3>2
  <2>6. StreamType'
    BY <2>4, <2>5 DEF StreamType
  <2>7. QED
    BY <1>k, <1>t, <1>9, <2>3, <2>6 DEF ReadAndAppend, cacheVars
<1>10. CASE CheckMetadata \/ RecheckMetadata \/ NotifyEof \/ NotifyFailure
  <2>1. ThreadType'
    BY <1>0, <1>10 DEF CheckMetadata, RecheckMetadata, NotifyEof, NotifyFailure,
                      AppenderMove, ThreadType, AppenderStates, openerVars
  <2>2. ProcType'
    BY <1>0, <1>k, <1>10, SatisfyType
       DEF CheckMetadata, RecheckMetadata, NotifyEof, NotifyFailure, procVars
  <2>3. QED
    BY <1>k, <1>t, <1>10, <2>1, <2>2
       DEF CheckMetadata, RecheckMetadata, NotifyEof, NotifyFailure, cacheVars
<1>11. CASE \E r \in Readers : InRead(r)
  <2>1. PICK r \in Readers : InRead(r)
    BY <1>11
  <2>2. ReaderType'
    BY <2>1, ReaderNext
  <2>3. UNCHANGED <<openerVars, appender, owner, history, disk, saved, buffer>>
    BY <2>1 DEF InRead, AwaitOpen, CheckError, AwaitThread, ReadSize, FromFile, FromStream,
                CloseStream, CloseFile, SetClosed, cacheVars
  <2>4. ProcType'
    BY <1>0, <2>1 DEF InRead, AwaitOpen, CheckError, AwaitThread, ReadSize, FromFile,
                FromStream, CloseStream, CloseFile, SetClosed, procVars, ProcType
  <2>5. StreamType'
    BY <1>0, <1>s, <2>1, <2>3
       DEF InRead, AwaitOpen, CheckError, AwaitThread, ReadSize, FromFile,
           FromStream, CloseStream, CloseFile, SetClosed, StreamType
  <2>6. UNCHANGED <<file, recorded>> \/ FileClose
    BY <2>1 DEF InRead, AwaitOpen, CheckError, AwaitThread, ReadSize, FromFile,
           FromStream, CloseStream, CloseFile, SetClosed, cacheVars
  <2>7. FileType' /\ SizesType'
    BY <1>0, <2>3, <2>6, FileCloseSteps DEF FileType, SizesType
  <2>8. QED
    BY <1>k, <1>t, <2>2, <2>3, <2>4, <2>5, <2>7
<1>12. CASE \E r \in Readers, req \in Requests : CallRead(r, req)
  <2>1. PICK r \in Readers, req \in Requests : CallRead(r, req)
    BY <1>12
  <2>2. req \in [start : Nat, size : Nat \ {0}] /\ <<>> \in Seq(Cell)
    BY SizesAssumption
  <2>3. ReaderType'
    BY <1>0, <2>1, <2>2 DEF CallRead, ReaderMove, ReaderType, ReaderStates, NoResult
  <2>4. ThreadType' /\ ProcType'
    BY <1>0, <2>1 DEF CallRead, ThreadType, OpenerStates, ProcType
  <2>5. QED
    BY <1>k, <1>t, <2>1, <2>3, <2>4 DEF CallRead, cacheVars
<1>13. CASE Release
  <2>1. FileType' /\ SizesType'
    BY <1>0, <1>13, FileCloseSteps DEF Release, FileType, SizesType
  <2>2. OwnerType'
    BY <1>0, <1>13 DEF Release, OwnerType, history
  <2>3. QED
    BY <1>k, <1>t, <1>13, <2>1, <2>2 DEF Release
<1>14. CASE FinishClose \/ Destroy
  <2>1. ProcType' /\ OwnerType'
    BY <1>0, <1>14 DEF FinishClose, Destroy, ProcType, OwnerType, history, procVars
  <2>2. QED
    BY <1>k, <1>t, <1>14, <2>1 DEF FinishClose, Destroy, cacheVars
<1>15. CASE Reopen
  <2>1. /\ ProcType' /\ StreamType' /\ ThreadType' /\ ReaderType'
        /\ file' \in [opened : BOOLEAN, closed : BOOLEAN, size : Nat, prepend : Int]
    BY <1>0, <1>15, ConstructType DEF Reopen, SizesType
  <2>2. OwnerType'
    BY <1>0, <1>15, SizesAssumption DEF Reopen, OwnerType
  <2>3. FileType'
    BY <1>0, <1>15, <2>1 DEF Reopen, FileType, cacheVars
  <2>4. QED
    BY <1>k, <1>t, <1>15, <2>1, <2>2, <2>3 DEF Reopen, cacheVars
<1>16. CASE Crash
  <2>1. /\ ProcType' /\ StreamType' /\ ThreadType' /\ ReaderType'
        /\ file' \in [opened : BOOLEAN, closed : BOOLEAN, size : Nat, prepend : Int]
    BY <1>0, <1>16, ConstructType DEF Crash, SizesType
  <2>2. OwnerType'
    BY <1>0, <1>16, SizesAssumption DEF Crash, OwnerType
  <2>3. FileType'
    BY <1>0, <1>16, <2>1 DEF Crash, FileType
  <2>4. SizesType'
    BY <1>0, <1>16 DEF Crash, SizesType
  <2>5. QED
    BY <1>t, <2>1, <2>2, <2>3, <2>4
<1>17. CASE Save
  <2>1. SizesType'
    BY <1>0, <1>17 DEF Save, SizesType
  <2>2. QED
    BY <1>k, <1>t, <1>17, <2>1 DEF Save
<1>18. CASE UNCHANGED vars
  BY <1>k, <1>t, <1>18 DEF vars, cacheVars
<1>19. CASE LoseSpill
  <2>1. /\ UNCHANGED <<procVars, file, disk, openerVars, appender, readerVars, recorded, saved>>
        /\ UNCHANGED <<stream, owner, sessions, crashes>> /\ lost' = TRUE
    BY <1>19 DEF LoseSpill, cacheVars
  <2>2. StreamType' /\ OwnerType'
    BY <1>0, <1>19, <2>1, LoseFrame DEF StreamType, OwnerType
  <2>3. QED
    BY <1>k, <1>t, <2>1, <2>2
<1>20. QED
  BY NextCases, <1>1, <1>2, <1>3, <1>4, <1>5, <1>6, <1>7, <1>8, <1>9, <1>10, <1>11, <1>12, <1>13, <1>14, <1>15, <1>16, <1>17, <1>18, <1>19
-----------------------------------------------------------------------------
LEMMA SpecIInv == Spec => []IInv
<1>1. IInv /\ [Next]_vars => IInv'
  BY ControlNext, StreamNext, SizeNext, TypeNext DEF IInv
<1>2. QED
  BY <1>1, InitIInv, PTL DEF Spec

(* Type correctness of the download of a song. *)
THEOREM ProcessorTypeCorrect == Spec => []TypeOK
<1>1. IInv => TypeOK
  BY DEF IInv
<1>2. QED
  BY <1>1, SpecIInv, PTL

(* notifyAppendStopped, setOpened and the end of the job never satisfy a   *)
(* promise that has been satisfied: an exception out of a pool thread      *)
(* would end the program.                                                  *)
THEOREM PromisesOnce == Spec => []NoFutureError
<1>1. Init => NoFutureError
  BY DEF Init, NewPromises, NoFutureError
<1>2. IInv /\ NoFutureError /\ [Next]_vars => NoFutureError'
  <2> SUFFICES ASSUME IInv, NoFutureError, [Next]_vars PROVE NoFutureError'
    OBVIOUS
  <2>0. /\ ControlInv
        /\ promise \in [opened : PromiseStates, thread : PromiseStates, append : PromiseStates]
    BY DEF IInv, TypeOK
  <2>1. ASSUME NEW p \in {"opened", "thread", "append"}, promise[p] = "unset",
               NEW v \in {"value", "exception"}, Satisfy(p, v)
        PROVE  NoFutureError'
    BY <2>0, <2>1 DEF Satisfy, NoFutureError
  <2>2. ASSUME UNCHANGED promise
        PROVE  NoFutureError'
    BY <2>2 DEF NoFutureError
  <2>3. CASE SetOpened \/ FailOpened
    <3>1. promise.opened = "unset"
      BY <2>0, <2>3 DEF ControlInv, SetOpened, FailOpened, OpenerMove
    <3>2. QED
      BY <2>1, <2>3, <3>1 DEF SetOpened, FailOpened
  <2>4. CASE SetThread \/ FailThread
    <3>1. promise.thread = "unset"
      BY <2>0, <2>4 DEF ControlInv, SetThread, FailThread, OpenerMove
    <3>2. QED
      BY <2>1, <2>4, <3>1 DEF SetThread, FailThread
  <2>5. CASE CheckMetadata \/ NotifyEof \/ NotifyFailure
    <3>1. promise.append = "unset"
      BY <2>0, <2>5 DEF ControlInv, AppendGoesOn, CheckMetadata, NotifyEof, NotifyFailure,
                        AppenderMove
    <3>2. QED
      BY <2>1, <2>2, <2>5, <3>1 DEF CheckMetadata, NotifyEof, NotifyFailure
  <2>6. CASE Reopen \/ Crash
    BY <2>6 DEF Reopen, Crash, Construct, NewPromises, NoFutureError
  <2>7. CASE \E r \in Readers : InRead(r)
    BY <2>2, <2>7 DEF InRead, AwaitOpen, CheckError, AwaitThread, ReadSize, FromFile,
                      FromStream, CloseStream, CloseFile, SetClosed, procVars
  <2>8. CASE \E r \in Readers, req \in Requests : CallRead(r, req)
    BY <2>2, <2>8 DEF CallRead
  <2>9. CASE \/ OpenStream \/ OpenFile \/ CheckSize \/ Parse \/ StopAppend
             \/ AwaitAppend \/ SetPrepend \/ WriteTag \/ Drain \/ Download
             \/ WriteBlock \/ RaiseError
    BY <2>2, <2>9 DEF OpenStream, OpenFile, CheckSize, Parse, StopAppend, AwaitAppend,
         SetPrepend, WriteTag, Drain, Download, WriteBlock, RaiseError, procVars
  <2>10. CASE \/ ReadAndAppend \/ RecheckMetadata \/ Release \/ FinishClose
              \/ Destroy \/ Save \/ LoseSpill \/ UNCHANGED vars
    BY <2>2, <2>10 DEF ReadAndAppend, RecheckMetadata, Release, FinishClose, Destroy,
         Save, LoseSpill, vars, procVars
  <2>11. QED
    BY NextCases, <2>3, <2>4, <2>5, <2>6, <2>7, <2>8, <2>9, <2>10
<1>3. QED
  BY <1>1, <1>2, SpecIInv, PTL DEF Spec

(* The opener does not touch the stream's block reader, nor drain the      *)
(* buffer, while the appender may still read and append: the promise of    *)
(* the appender separates them.                                            *)
THEOREM OneReaderOfStream == Spec => []OneStreamReader
<1>1. IInv => OneStreamReader
  BY DEF IInv, ControlInv, AppendGoesOn, Parsing, OneStreamReader
<1>2. QED
  BY <1>1, SpecIInv, PTL

(* The destructor joins the opener, and when it has, all the appender can  *)
(* still do to the destroyed processor is look at its flag.                *)
THEOREM DestroyedIsQuiet == Spec => []FreedIsQuiet
<1>1. IInv => FreedIsQuiet
  BY DEF IInv, TypeOK, AppenderStates, ControlInv, AppendGoesOn, Parsing, FreedIsQuiet
<1>2. QED
  BY <1>1, SpecIInv, PTL
-----------------------------------------------------------------------------
(* A second inductive invariant, over the first: where the threads are, what *)
(* the sizes of the file can be, where stream and buffer are, what is on   *)
(* disk and what the readers have of it.                                   *)

AllIdle    == \A r \in Readers : reader[r] = "idle"
NoneInside == \A r \in Readers : reader[r] \in {"idle", "awaitOpen"}
SomeWaits  == \E r \in Readers : reader[r] = "awaitOpen"

(* Until the opener has satisfied the promise of the opening some reader   *)
(* waits for it, so that nobody has closed anything.                       *)
OpenInv ==
  /\ owner # "holds" => ~ FileUsable /\ AllIdle
  /\ promise.opened = "unset" =>
       /\ ~ file.closed
       /\ owner = "holds" => ~ proc.closed
       /\ NoneInside
       /\ opener # "off" => owner = "holds" /\ SomeWaits
  /\ opener \in {"off", "openStream", "openFile"} => ~ file.opened
  /\ opener \in {"checkSize", "setOpened"} \cup Parsing \cup Preparing => file.opened
  /\ promise.opened = "value" => file.opened

(* Nothing, or at least the whole tag. *)
Resumable(s) == \/ s.size = 0 /\ s.prepend = 0
                \/ s.size >= TagLen /\ s.prepend = PrependSize

(* Only between setPrepend and writeTag does the file have sizes no download *)
(* could be resumed from.                                                  *)
ResumeInv ==
  /\ Resumable(saved) /\ Resumable(recorded)
  /\ IF opener = "writeTag" THEN file.size = 0 /\ file.prepend = PrependSize
     ELSE Resumable(file)
  /\ opener \in Parsing \cup {"setPrepend"} => file.size = 0
  /\ opener \in {"drain", "setOpened"} \/ promise.opened = "value" => file.size >= TagLen
  /\ opener \in {"writeTag", "drain", "setOpened"} \/ promise.opened = "value" =>
       proc.prependSize = PrependSize
  /\ opener \in {"download", "write"} => promise.opened = "value"

(* The buffer holds the stream's own tag when the opener goes on: the      *)
(* appender notifies it only of the parser's end or of the stream's.       *)
AppendInv ==
  /\ opener \in {"off"} \cup Opening => ~ stream.closed /\ ~ buffer.eof
  /\ appender \in {"read", "check", "recheck"} =>
       ~ buffer.eof /\ (opener \in Parsing => ~ stream.closed)
  /\ appender = "notifyEof" => buffer.len >= Replaced
  /\ opener \in {"off", "parse", "stopAppend"} \cup Opening => ~ proc.metadataWasRead
  /\ opener \in {"stopAppend", "awaitAppend"} => buffer.len >= Replaced \/ buffer.eof
  /\ promise.append = "value" => buffer.len >= Replaced
  /\ opener \in Preparing => promise.append = "value"

(* Where the stream is, by what has reached buffer and file. *)
StageInv ==
  /\ opener \in {"openFile", "checkSize"} => stream.pos = file.size - file.prepend
  /\ opener \in Parsing \cup Preparing => stream.pos = buffer.len
  /\ opener \in {"off", "setPrepend", "writeTag"} \cup Opening \cup Parsing => drained = 0
  /\ opener = "drain" => file.size = TagLen + drained /\ drained + Replaced <= buffer.len
  /\ opener \in {"setOpened", "download"} /\ FileUsable =>
       stream.pos = file.size - file.prepend
  /\ opener = "write" /\ FileUsable => stream.pos - inHand = file.size - file.prepend

(* All of the buffer can be read back, or what was in memory.              *)
SpillInv == buffer.readable = buffer.len \/ (lost /\ InMemory <= buffer.readable)

(* The byte of the song at an offset, and the bytes from a to b - 1.       *)
SongByte(i) == IF i < TagLen THEN - (i + 1) ELSE i - PrependSize
Slice(a, b) == [i \in 1 .. b - a |-> SongByte(a + i - 1)]

(* Cells that stand for the bytes from a to b - 1: those bytes, or junk    *)
(* where a spill that was lost would have been read back.                  *)
Stands(broken, cell, i) ==
  cell = SongByte(i) \/ (broken /\ cell = Junk /\ i - PrependSize >= InMemory)
Covers(broken, cells, a, b) ==
  /\ cells \in Seq(Cell)
  /\ Len(cells) = Larger(b - a, 0)
  /\ \A i \in 1 .. Len(cells) : Stands(broken, cells[i], a + i - 1)

(* Short of a crash the file holds a beginning of the song, of its size.   *)
ContentInv ==
  /\ ~ FileUsable => recorded.size = file.size
  /\ crashes = 0 => file.size <= TotalSize /\ Covers(lost, disk, 0, file.size)

(* What a reader has collected at each place. *)
ReaderHas(r) ==
  /\ reader[r] \in {"checkError", "awaitThread", "size", "fromFile", "fromStream"} =>
       promise.opened = "value"
  /\ reader[r] \in {"fromFile", "fromStream"} =>
       TagLen <= seenSize[r] /\ seenSize[r] <= file.size
  /\ crashes = 0 /\ ~ file.closed =>
       /\ reader[r] = "fromStream" =>
            /\ seenSize[r] < request[r].start + request[r].size
            /\ Covers(lost, result[r].bytes, request[r].start, seenSize[r])
       /\ Returned(r) =>
            Covers(lost, result[r].bytes, request[r].start,
                   Smaller(request[r].start + request[r].size, TotalSize))

ReadInv == \A r \in Readers : ReaderHas(r)

Base == IInv /\ NoFutureError

(* What the steps of the threads leave alone. *)
LEMMA OpenerFrame ==
  ASSUME Opener
  PROVE  /\ UNCHANGED <<reader, request, seenSize, result, owner, recorded, saved,
                        sessions, crashes, lost, buffer>>
  BY DEF Opener, OpenStream, OpenFile, CheckSize, Parse, StopAppend, AwaitAppend,
         SetPrepend, WriteTag, Drain, SetOpened, Download, WriteBlock, SetThread,
         FailOpened, RaiseError, FailThread, readerVars, cacheVars, history

LEMMA AppenderFrame ==
  ASSUME Appender
  PROVE  UNCHANGED <<proc, file, opener, drained, inHand, reader, request, seenSize,
                     result, owner, disk, recorded, saved, sessions, crashes, lost>>
  BY DEF Appender, ReadAndAppend, CheckMetadata, RecheckMetadata, NotifyEof,
         NotifyFailure, procVars, openerVars, readerVars, cacheVars, history, Satisfy

LEMMA ReaderFrame ==
  ASSUME NEW r \in Readers, InRead(r)
  PROVE  /\ UNCHANGED <<promise, buffer, opener, drained, inHand, appender, request,
                        owner, disk, saved, sessions, crashes, lost>>
         /\ UNCHANGED stream \/ StreamFails
         /\ UNCHANGED <<file, recorded>> \/ (reader[r] = "closeFile" /\ FileClose)
         /\ UNCHANGED proc \/ (reader[r] = "setClosed" /\ proc' = [proc EXCEPT !.closed = TRUE])
  BY DEF InRead, AwaitOpen, CheckError, AwaitThread, ReadSize, FromFile, FromStream,
         CloseStream, CloseFile, SetClosed, ReaderMove, procVars, openerVars, cacheVars,
         history

LEMMA StepCases ==
  ASSUME [Next]_vars
  PROVE  \/ Opener \/ Appender \/ LoseSpill
         \/ \E r \in Readers : InRead(r)
         \/ \E r \in Readers, req \in Requests : CallRead(r, req)
         \/ Release \/ FinishClose \/ Destroy \/ Reopen \/ Save \/ Crash
         \/ UNCHANGED vars
  BY DEF Next, Terminating, Hung

FileRecord == [opened : BOOLEAN, closed : BOOLEAN, size : Nat, prepend : Int]

LEMMA FileWriteEffect ==
  ASSUME TypeOK, NEW bytes \in Seq(Cell), FileWrite(bytes)
  PROVE  /\ file'.opened = file.opened /\ file'.closed = file.closed
         /\ file'.prepend = file.prepend
         /\ file'.size = IF FileUsable THEN file.size + Len(bytes) ELSE file.size
         /\ disk' = IF FileUsable THEN disk \o bytes ELSE disk
<1>1. file \in FileRecord /\ Len(bytes) \in Nat
  BY DEF TypeOK, FileRecord
<1>2. CASE FileUsable
  <2> DEFINE sum == file.size + Len(bytes)
  <2>1. file' = [file EXCEPT !.size = sum] /\ disk' = disk \o bytes
    BY <1>1, <1>2 DEF FileWrite, FileRecord
  <2> HIDE DEF sum
  <2>2. /\ file'.opened = file.opened /\ file'.closed = file.closed
        /\ file'.prepend = file.prepend /\ file'.size = sum
    BY <1>1, <2>1 DEF FileRecord
  <2>3. QED
    BY <1>2, <2>1, <2>2 DEF sum
<1>3. CASE ~ FileUsable
  BY <1>3 DEF FileWrite
<1>4. QED
  BY <1>2, <1>3

LEMMA FileOpenEffect ==
  ASSUME TypeOK, FileOpen, ~ file.opened, ~ file.closed
  PROVE  /\ file'.opened /\ file'.closed = file.closed
         /\ file'.size = file.size /\ file'.prepend = file.prepend
         /\ disk' = IF file.size = 0 THEN <<>> ELSE disk
  BY DEF TypeOK, FileOpen

LEMMA FileCloseEffect ==
  ASSUME TypeOK, FileClose
  PROVE  /\ file'.opened = file.opened
         /\ (file'.closed <=> file.closed \/ file.opened)
         /\ file'.size = file.size /\ file'.prepend = file.prepend
         /\ IF FileUsable THEN recorded' = [size |-> file.size, prepend |-> file.prepend]
            ELSE recorded' = recorded
         /\ ~ FileUsable'
  BY DEF TypeOK, FileClose, FileUsable

(* The blocks the drain and the download loop write. *)
DrainFrom  == drained + Replaced
DrainBlock == ReadBack(DrainFrom, Smaller(DrainFrom + BlockSize, buffer.len))
InHandBlock == Bytes(stream.pos - inHand, stream.pos)

LEMMA BlockTypes ==
  ASSUME IInv
  PROVE  DrainBlock \in Seq(Cell) /\ InHandBlock \in Seq(Cell)
<1>0. TypeOK /\ StreamInv
  BY DEF IInv
<1>1. /\ DrainFrom \in Nat /\ Smaller(DrainFrom + BlockSize, buffer.len) \in Int
      /\ Smaller(DrainFrom + BlockSize, buffer.len) <= StreamLen
  BY <1>0, SizesAssumption DEF TypeOK, Smaller, DrainFrom
<1>2. stream.pos - inHand \in Nat /\ stream.pos \in Int /\ stream.pos <= StreamLen
  BY <1>0 DEF TypeOK, StreamInv
<1>3. QED
  BY <1>1, <1>2, BytesCells, ReadBackCells DEF DrainBlock, InHandBlock

(* What the opener's steps do to flags and prepend size of the file.       *)
LEMMA OpenerFile ==
  ASSUME IInv, Opener, opener \in {"off", "openStream", "openFile"} => ~ file.opened,
         opener = "openFile" => ~ file.closed
  PROVE  /\ file'.closed = file.closed
         /\ (file'.opened <=> file.opened \/ opener = "openFile")
         /\ ~ (WriteTag \/ Drain \/ WriteBlock) => file'.size = file.size
         /\ ~ SetPrepend => file'.prepend = file.prepend
<1>0. TypeOK
  BY DEF IInv
<1>t. file \in FileRecord
  BY <1>0 DEF TypeOK, FileRecord
<1>1. CASE OpenFile
  BY <1>0, <1>1, FileOpenEffect DEF OpenFile, OpenerMove
<1>2. CASE SetPrepend
  BY <1>t, <1>2 DEF SetPrepend, OpenerMove, FileRecord
<1>3. CASE WriteTag
  <2>1. opener = "writeTag" /\ FileWrite(Tag)
    BY <1>3 DEF WriteTag, OpenerMove
  <2>2. QED
    BY <1>0, <1>3, <2>1, TagCells, FileWriteEffect
<1>4. CASE Drain
  <2>1. opener = "drain" /\ (UNCHANGED file \/ FileWrite(DrainBlock))
    BY <1>4 DEF Drain, OpenerMove, DrainBlock, DrainFrom
  <2>2. QED
    BY <1>0, <1>4, <2>1, BlockTypes, FileWriteEffect
<1>5. CASE WriteBlock
  <2>1. opener = "write" /\ FileWrite(InHandBlock)
    BY <1>5 DEF WriteBlock, OpenerMove, InHandBlock
  <2>2. QED
    BY <1>0, <1>5, <2>1, BlockTypes, FileWriteEffect
<1>6. CASE UNCHANGED file /\ (opener # "openFile")
  BY <1>6
<1>7. CASE \/ OpenStream \/ CheckSize \/ Parse \/ StopAppend \/ AwaitAppend
           \/ SetOpened \/ Download \/ SetThread \/ FailOpened \/ RaiseError
           \/ FailThread
  BY <1>6, <1>7 DEF OpenStream, CheckSize, Parse, StopAppend, AwaitAppend, SetOpened,
     Download, SetThread, FailOpened, RaiseError, FailThread, OpenerMove
<1>8. QED
  BY <1>1, <1>2, <1>3, <1>4, <1>5, <1>7 DEF Opener

Fresh  == {"off", "openStream", "openFile"}
Opened == {"checkSize", "setOpened"} \cup Parsing \cup Preparing

(* Where the opener's steps lead, and what they do to flags and promise.   *)
LEMMA OpenerPath ==
  ASSUME IInv, Opener
  PROVE  /\ opener # "off" /\ opener' # "off"
         /\ opener' \in Fresh => opener = "openStream"
         /\ opener' \in Opened => opener = "openFile" \/ opener \in Opened
         /\ proc'.closed = proc.closed
         /\ opener = "setOpened" => promise'.opened = "value"
         /\ opener = "failOpened" => promise'.opened = "exception"
         /\ opener \notin {"setOpened", "failOpened"} => promise'.opened = promise.opened
<1>0. /\ proc \in [opened : BOOLEAN, closed : BOOLEAN, error : BOOLEAN,
                   metadataWasRead : BOOLEAN, prependSize : Int]
      /\ promise \in [opened : PromiseStates, thread : PromiseStates,
                      append : PromiseStates]
      /\ opener \in {"setOpened", "failOpened"} => promise.opened = "unset"
  BY DEF IInv, TypeOK, ControlInv
<1> USE DEF OpenerMove, Fresh, Opened, Parsing, Preparing
<1>1. CASE OpenStream \/ OpenFile \/ Parse \/ AwaitAppend
  BY <1>0, <1>1 DEF OpenStream, OpenFile, Parse, AwaitAppend, procVars
<1>2. CASE WriteTag \/ Drain \/ Download \/ WriteBlock
  BY <1>0, <1>2 DEF WriteTag, Drain, Download, WriteBlock, procVars
<1>3. CASE CheckSize \/ StopAppend \/ SetPrepend \/ RaiseError
  BY <1>0, <1>3 DEF CheckSize, StopAppend, SetPrepend, RaiseError
<1>4. CASE SetOpened
  BY <1>0, <1>4 DEF SetOpened, FailOpened, Satisfy
<1>5. CASE FailOpened
  BY <1>0, <1>5 DEF SetOpened, FailOpened, Satisfy
<1>6. CASE SetThread \/ FailThread
  BY <1>0, <1>6 DEF SetThread, FailThread, Satisfy
<1>7. QED
  BY <1>1, <1>2, <1>3, <1>4, <1>5, <1>6 DEF Opener

LEMMA AppenderPromise ==
  ASSUME IInv, Appender
  PROVE  promise'.opened = promise.opened /\ promise'.thread = promise.thread
  BY DEF IInv, TypeOK, Appender, ReadAndAppend, CheckMetadata, RecheckMetadata, NotifyEof,
         NotifyFailure, Satisfy, procVars

LEMMA OpenNext == Base /\ OpenInv /\ [Next]_vars => OpenInv'
<1> SUFFICES ASSUME Base, OpenInv, [Next]_vars PROVE OpenInv'
  OBVIOUS
<1>0. IInv /\ TypeOK /\ ControlInv
  BY DEF Base, IInv
<1>t. /\ file \in FileRecord /\ reader \in [Readers -> ReaderStates]
      /\ proc \in [opened : BOOLEAN, closed : BOOLEAN, error : BOOLEAN,
                   metadataWasRead : BOOLEAN, prependSize : Int]
  BY <1>0 DEF TypeOK, FileRecord
<1>c. promise.opened = "unset" <=>
        opener \in {"off", "setOpened", "failOpened"} \cup Opening \cup Parsing \cup Preparing
  BY <1>0 DEF ControlInv
<1>1. CASE Opener
  <2>1. /\ AllIdle' = AllIdle /\ NoneInside' = NoneInside /\ SomeWaits' = SomeWaits
        /\ owner' = owner
    BY <1>1, OpenerFrame DEF AllIdle, NoneInside, SomeWaits
  <2>2. opener = "openFile" => promise.opened = "unset"
    BY <1>c DEF Opening
  <2>3. /\ file'.closed = file.closed
        /\ file'.opened <=> file.opened \/ opener = "openFile"
    BY <1>0, <1>1, <2>2, OpenerFile DEF OpenInv
  <2>4. /\ opener # "off" /\ opener' # "off"
        /\ opener' \in Fresh => opener = "openStream"
        /\ opener' \in Opened => opener = "openFile" \/ opener \in Opened
        /\ proc'.closed = proc.closed
        /\ promise'.opened = "unset" => promise.opened = "unset"
        /\ promise'.opened = "value" => promise.opened = "value" \/ opener = "setOpened"
    BY <1>0, <1>1, OpenerPath
  <2>5. owner # "holds" => opener # "openFile"
    BY <2>2 DEF OpenInv
  <2>6. QED
    BY <2>1, <2>3, <2>4, <2>5 DEF OpenInv, Fresh, Opened, FileUsable
<1>2. CASE Appender
  <2>1. UNCHANGED <<proc, file, opener, reader, owner>> /\ promise'.opened = promise.opened
    BY <1>0, <1>2, AppenderFrame, AppenderPromise
  <2>2. QED
    BY <2>1 DEF OpenInv, FileUsable, AllIdle, NoneInside, SomeWaits
<1>3. CASE \E r \in Readers : InRead(r)
  <2>1. PICK r \in Readers : InRead(r)
    BY <1>3
  <2>2. /\ UNCHANGED <<promise, opener, owner>>
        /\ UNCHANGED <<file, recorded>> \/ (reader[r] = "closeFile" /\ FileClose)
        /\ UNCHANGED proc \/ (reader[r] = "setClosed" /\ proc' = [proc EXCEPT !.closed = TRUE])
    BY <2>1, ReaderFrame
  <2>3. reader[r] # "idle" /\ (reader[r] = "awaitOpen" => promise.opened # "unset")
    BY <2>1 DEF InRead, AwaitOpen, CheckError, AwaitThread, ReadSize, FromFile, FromStream,
                CloseStream, CloseFile, SetClosed, ReaderMove
  <2>4. owner = "holds" /\ promise.opened # "unset"
    BY <2>3 DEF OpenInv, AllIdle, NoneInside
  <2>5. file'.opened = file.opened
    BY <1>0, <2>2, FileCloseEffect
  <2>6. QED
    BY <2>2, <2>4, <2>5 DEF OpenInv
<1>4. CASE \E r \in Readers, req \in Requests : CallRead(r, req)
  <2>1. PICK r \in Readers, req \in Requests : CallRead(r, req)
    BY <1>4
  <2>2. /\ UNCHANGED <<promise, file, owner>> /\ owner = "holds"
        /\ reader' = [reader EXCEPT ![r] = "awaitOpen"]
        /\ proc' = [proc EXCEPT !.opened = TRUE]
        /\ opener' = opener \/ (opener' = "openStream" /\ ~ proc.opened)
    BY <2>1 DEF CallRead, ReaderMove
  <2>3. /\ NoneInside => NoneInside'
        /\ SomeWaits'
    BY <1>t, <2>2 DEF NoneInside, SomeWaits
  <2>4. proc'.closed = proc.closed
    BY <1>t, <2>2
  <2>5. proc.opened <=> opener # "off"
    BY <1>0 DEF ControlInv
  <2>6. QED
    BY <2>2, <2>3, <2>4, <2>5 DEF OpenInv, Parsing, Preparing
<1>5. CASE Release
  <2>1. /\ UNCHANGED <<proc, promise, opener, reader>> /\ FileClose
        /\ owner = "holds" /\ owner' = "closing" /\ AllIdle
    BY <1>5 DEF Release, procVars, openerVars, readerVars, AllIdle
  <2>2. /\ file'.opened = file.opened /\ ~ FileUsable'
        /\ file'.closed <=> file.closed \/ file.opened
    BY <1>0, <2>1, FileCloseEffect
  <2>3. AllIdle' = AllIdle /\ NoneInside' = NoneInside
    BY <2>1 DEF AllIdle, NoneInside
  <2>4. ~ SomeWaits
    BY <2>1 DEF AllIdle, SomeWaits
  <2>5. promise.opened = "unset" => opener = "off"
    BY <2>4 DEF OpenInv
  <2>6. promise.opened = "unset" => ~ file.opened
    BY <2>5 DEF OpenInv
  <2>7. QED
    BY <2>1, <2>2, <2>3, <2>5, <2>6 DEF OpenInv
<1>6. CASE FinishClose \/ Destroy
  <2>1. /\ UNCHANGED <<promise, opener, reader, file>> /\ owner # "holds" /\ owner' # "holds"
    BY <1>6 DEF FinishClose, Destroy, procVars, openerVars, readerVars
  <2>2. AllIdle' = AllIdle /\ NoneInside' = NoneInside /\ FileUsable' = FileUsable
    BY <2>1 DEF AllIdle, NoneInside, FileUsable
  <2>3. QED
    BY <2>1, <2>2 DEF OpenInv
<1>7. CASE Reopen \/ Crash
  <2>1. \E sizes : Construct(sizes)
    BY <1>7 DEF Reopen, Crash
  <2>2. /\ proc' = NewProcessor /\ promise' = NewPromises /\ ~ file'.opened /\ ~ file'.closed
        /\ opener' = "off" /\ reader' = ForReaders("idle")
    BY <2>1 DEF Construct, NewFile
  <2>3. AllIdle' /\ NoneInside'
    BY <2>2 DEF AllIdle, NoneInside, ForReaders
  <2>4. QED
    BY <2>2, <2>3 DEF OpenInv, FileUsable, NewProcessor, NewPromises, Parsing, Preparing
<1>8. CASE Save \/ UNCHANGED vars
  <2>1. UNCHANGED <<proc, file, opener, reader, owner, promise>>
    BY <1>8 DEF Save, vars, procVars, openerVars, readerVars
  <2>2. QED
    BY <2>1 DEF OpenInv, FileUsable, AllIdle, NoneInside, SomeWaits
<1>9. CASE LoseSpill
  <2>1. UNCHANGED <<proc, file, opener, reader, owner, promise>>
    BY <1>0, <1>9, LoseFrame
  <2>2. QED
    BY <2>1 DEF OpenInv, FileUsable, AllIdle, NoneInside, SomeWaits
<1>10. QED
  BY StepCases, <1>1, <1>2, <1>3, <1>4, <1>5, <1>6, <1>7, <1>8, <1>9

LEMMA PrependSizeType == PrependSize \in Int /\ TagLen \in Nat /\ TagLen > 0 /\ Replaced \in Nat
                         /\ PrependSize = TagLen - Replaced /\ TotalSize \in Nat
                         /\ TotalSize = StreamLen + PrependSize /\ Replaced <= StreamLen
                         /\ StreamLen \in Nat
  BY SizesAssumption DEF PrependSize, TotalSize

(* The sizes the opener's steps leave in file and processor. *)
LEMMA ResumeOpener ==
  ASSUME Base, OpenInv, ResumeInv, Opener
  PROVE  ResumeInv'
<1>0. IInv /\ TypeOK /\ ControlInv
  BY DEF Base, IInv
<1>t. /\ file \in FileRecord
      /\ proc \in [opened : BOOLEAN, closed : BOOLEAN, error : BOOLEAN,
                   metadataWasRead : BOOLEAN, prependSize : Int]
  BY <1>0 DEF TypeOK, FileRecord
<1>c. promise.opened = "unset" <=>
        opener \in {"off", "setOpened", "failOpened"} \cup Opening \cup Parsing \cup Preparing
  BY <1>0 DEF ControlInv
<1>r. UNCHANGED <<saved, recorded>> /\ Resumable(saved) /\ Resumable(recorded)
  BY OpenerFrame DEF ResumeInv
<1>s. Resumable(saved)' /\ Resumable(recorded)'
  BY <1>r DEF Resumable
<1>p. /\ opener = "setOpened" => promise'.opened = "value"
      /\ opener = "failOpened" => promise'.opened = "exception"
      /\ opener \notin {"setOpened", "failOpened"} => promise'.opened = promise.opened
  BY <1>0, OpenerPath
<1>1. CASE SetPrepend
  <2>1. /\ opener = "setPrepend" /\ opener' = "writeTag"
        /\ proc' = [proc EXCEPT !.prependSize = PrependSize]
        /\ file' = IF FileUsable THEN [file EXCEPT !.prepend = PrependSize] ELSE file
    BY <1>1 DEF SetPrepend, OpenerMove
  <2>2. FileUsable /\ file.size = 0
    BY <1>c, <2>1 DEF OpenInv, ResumeInv, FileUsable, Preparing
  <2>3. file'.size = 0 /\ file'.prepend = PrependSize /\ proc'.prependSize = PrependSize
    BY <1>t, <2>1, <2>2 DEF FileRecord
  <2>4. promise'.opened = "unset"
    BY <1>c, <1>p, <2>1 DEF Preparing
  <2>5. QED
    BY <1>s, <2>1, <2>3, <2>4 DEF ResumeInv, Parsing
<1>2. CASE WriteTag
  <2>1. /\ opener = "writeTag" /\ opener' = "drain" /\ FileWrite(Tag) /\ UNCHANGED proc
    BY <1>2 DEF WriteTag, OpenerMove, procVars
  <2>2. FileUsable /\ file.size = 0 /\ file.prepend = PrependSize
    BY <1>c, <2>1 DEF OpenInv, ResumeInv, FileUsable, Preparing
  <2>3. file'.size = TagLen /\ file'.prepend = PrependSize
    BY <1>0, <2>1, <2>2, FileWriteEffect, TagCells, PrependSizeType
  <2>4. proc'.prependSize = PrependSize
    BY <2>1 DEF ResumeInv
  <2>5. promise'.opened = "unset"
    BY <1>c, <1>p, <2>1 DEF Preparing
  <2>6. Resumable(file)'
    BY <2>3, PrependSizeType DEF Resumable
  <2>7. QED
    BY <1>s, <2>1, <2>3, <2>4, <2>5, <2>6, PrependSizeType DEF ResumeInv, Parsing
<1>3. CASE Drain \/ WriteBlock
  <2>1. /\ \/ opener = "drain" /\ opener' \in {"drain", "setOpened"}
           \/ opener = "write" /\ opener' = "download"
        /\ UNCHANGED proc
    BY <1>3 DEF Drain, WriteBlock, OpenerMove, procVars
  <2>2. file.size >= TagLen /\ Resumable(file) /\ proc.prependSize = PrependSize
    BY <2>1 DEF ResumeInv
  <2>3. file.prepend = PrependSize
    BY <1>t, <2>2, PrependSizeType DEF Resumable, FileRecord
  <2>4. file.size <= file'.size /\ file'.size \in Nat
    BY <1>0, <1>3, FileSteps
  <2>5. file'.prepend = file.prepend
    BY <1>0, <1>3, <1>c, <2>1, OpenerFile
       DEF OpenInv, Opening, SetPrepend, Drain, WriteBlock, OpenerMove
  <2>6. file'.size >= TagLen /\ Resumable(file)'
    BY <1>t, <2>2, <2>3, <2>4, <2>5, PrependSizeType DEF Resumable, FileRecord
  <2>7. promise'.opened = promise.opened
    BY <1>p, <2>1
  <2>8. QED
    BY <1>s, <2>1, <2>2, <2>6, <2>7 DEF ResumeInv, Parsing
<1>4. CASE CheckSize
  <2>1. /\ opener = "checkSize" /\ UNCHANGED file
        /\ IF file.size = 0 THEN opener' = "parse" /\ UNCHANGED proc
           ELSE opener' = "setOpened" /\ proc' = [proc EXCEPT !.prependSize = file.prepend]
    BY <1>4 DEF CheckSize, OpenerMove
  <2>2. Resumable(file) /\ Resumable(file)'
    BY <2>1 DEF ResumeInv, Resumable
  <2>3. promise'.opened = "unset"
    BY <1>c, <1>p, <2>1 DEF Opening
  <2>4. CASE file.size = 0
    BY <1>s, <2>1, <2>2, <2>3, <2>4 DEF ResumeInv
  <2>5. CASE file.size # 0
    <3>1. file.size >= TagLen /\ file.prepend = PrependSize
      BY <2>2, <2>5 DEF Resumable
    <3>2. proc'.prependSize = PrependSize
      BY <1>t, <2>1, <2>5, <3>1
    <3>3. QED
      BY <1>s, <2>1, <2>2, <2>3, <2>5, <3>1, <3>2 DEF ResumeInv, Parsing
  <2>6. QED
    BY <2>4, <2>5
<1>5. CASE SetOpened
  <2>1. opener = "setOpened" /\ opener' = "download" /\ UNCHANGED <<file, proc>>
    BY <1>5 DEF SetOpened, OpenerMove
  <2>2. Resumable(file) /\ Resumable(file)'
    BY <2>1 DEF ResumeInv, Resumable
  <2>3. QED
    BY <1>s, <1>p, <2>1, <2>2 DEF ResumeInv, Parsing
<1>6. CASE \/ OpenStream \/ OpenFile \/ Parse \/ StopAppend \/ AwaitAppend
           \/ Download \/ SetThread \/ FailOpened \/ RaiseError \/ FailThread
  <2>1. /\ opener \notin {"writeTag", "setOpened"}
        /\ opener' \notin {"writeTag", "drain", "setOpened"}
        /\ opener' \in Parsing \cup {"setPrepend"} => opener \in Parsing
        /\ opener' \in {"download", "write"} => opener = "download"
    BY <1>6 DEF OpenStream, OpenFile, Parse, StopAppend, AwaitAppend, Download, SetThread,
                FailOpened, RaiseError, FailThread, OpenerMove, Parsing
  <2>2. promise'.opened = "value" => promise.opened = "value"
    BY <1>p, <2>1
  <2>3. proc'.prependSize = proc.prependSize
    BY <1>t, <1>6 DEF OpenStream, OpenFile, Parse, StopAppend, AwaitAppend, Download,
                SetThread, FailOpened, RaiseError, FailThread, procVars
  <2>4. file'.size = file.size /\ file'.prepend = file.prepend
    <3>1. CASE OpenFile
      <4>1. opener = "openFile" /\ FileOpen
        BY <3>1 DEF OpenFile, OpenerMove
      <4>2. ~ file.opened /\ ~ file.closed
        BY <1>c, <4>1 DEF OpenInv, Opening
      <4>3. QED
        BY <1>0, <4>1, <4>2, FileOpenEffect
    <3>2. CASE ~ OpenFile
      BY <1>6, <3>2 DEF OpenStream, Parse, StopAppend, AwaitAppend, Download,
                SetThread, FailOpened, RaiseError, FailThread
    <3>3. QED
      BY <3>1, <3>2
  <2>5. Resumable(file) /\ Resumable(file)'
    BY <2>1, <2>4 DEF ResumeInv, Resumable
  <2>6. opener' \in {"download", "write"} => promise'.opened = "value"
    BY <1>p, <2>1 DEF ResumeInv
  <2>7. QED
    BY <1>s, <2>1, <2>2, <2>3, <2>4, <2>5, <2>6 DEF ResumeInv
<1>7. QED
  BY <1>1, <1>2, <1>3, <1>4, <1>5, <1>6 DEF Opener

LEMMA ResumeNext == Base /\ OpenInv /\ ResumeInv /\ [Next]_vars => ResumeInv'
<1> SUFFICES ASSUME Base, OpenInv, ResumeInv, [Next]_vars PROVE ResumeInv'
  OBVIOUS
<1>0. IInv /\ TypeOK /\ ControlInv
  BY DEF Base, IInv
<1>t. /\ file \in FileRecord
      /\ proc \in [opened : BOOLEAN, closed : BOOLEAN, error : BOOLEAN,
                   metadataWasRead : BOOLEAN, prependSize : Int]
  BY <1>0 DEF TypeOK, FileRecord
<1>c. promise.opened = "unset" <=>
        opener \in {"off", "setOpened", "failOpened"} \cup Opening \cup Parsing \cup Preparing
  BY <1>0 DEF ControlInv
<1>1. ASSUME UNCHANGED <<saved, recorded, opener>>, promise'.opened = promise.opened,
             proc'.prependSize = proc.prependSize,
             file'.size = file.size, file'.prepend = file.prepend
      PROVE  ResumeInv'
  BY <1>1 DEF ResumeInv, Resumable
<1>2. ASSUME FileClose, UNCHANGED <<saved, opener, promise, proc>>,
             promise.opened # "unset" \/ ~ file.opened
      PROVE  ResumeInv'
  <2>1. /\ file'.size = file.size /\ file'.prepend = file.prepend
        /\ IF FileUsable THEN recorded' = [size |-> file.size, prepend |-> file.prepend]
           ELSE recorded' = recorded
    BY <1>0, <1>2, FileCloseEffect
  <2>2. FileUsable => opener # "writeTag"
    BY <1>2, <1>c DEF FileUsable, Preparing
  <2>3. Resumable(recorded)'
    BY <2>1, <2>2 DEF ResumeInv, Resumable
  <2>4. QED
    BY <1>2, <2>1, <2>3 DEF ResumeInv, Resumable
<1>3. CASE Appender
  BY <1>0, <1>1, <1>3, AppenderFrame, AppenderPromise
<1>4. CASE \E r \in Readers : InRead(r)
  <2>1. PICK r \in Readers : InRead(r)
    BY <1>4
  <2>2. /\ UNCHANGED <<promise, opener, saved>>
        /\ UNCHANGED <<file, recorded>> \/ (reader[r] = "closeFile" /\ FileClose)
        /\ UNCHANGED proc \/ (reader[r] = "setClosed" /\ proc' = [proc EXCEPT !.closed = TRUE])
    BY <2>1, ReaderFrame
  <2>3. proc'.prependSize = proc.prependSize
    BY <1>t, <2>2
  <2>4. CASE UNCHANGED <<file, recorded>>
    BY <1>1, <2>2, <2>3, <2>4
  <2>5. CASE reader[r] = "closeFile" /\ FileClose
    <3>1. promise.opened # "unset" /\ UNCHANGED proc
      BY <2>2, <2>5 DEF OpenInv, NoneInside
    <3>2. QED
      BY <1>2, <2>2, <2>5, <3>1
  <2>6. QED
    BY <2>2, <2>4, <2>5
<1>5. CASE \E r \in Readers, req \in Requests : CallRead(r, req)
  <2>1. PICK r \in Readers, req \in Requests : CallRead(r, req)
    BY <1>5
  <2>2. /\ UNCHANGED <<promise, file, saved, recorded>>
        /\ proc' = [proc EXCEPT !.opened = TRUE]
        /\ opener' = opener \/ (opener' = "openStream" /\ ~ proc.opened)
    BY <2>1 DEF CallRead, cacheVars
  <2>3. proc'.prependSize = proc.prependSize
    BY <1>t, <2>2
  <2>4. proc.opened <=> opener # "off"
    BY <1>0 DEF ControlInv
  <2>5. CASE opener' = opener
    BY <1>1, <2>2, <2>3, <2>5
  <2>6. CASE opener = "off" /\ opener' = "openStream"
    BY <2>2, <2>3, <2>6 DEF ResumeInv, Resumable, Parsing
  <2>7. QED
    BY <2>2, <2>4, <2>5, <2>6
<1>6. CASE Release
  <2>1. /\ UNCHANGED <<proc, promise, opener, saved>> /\ FileClose /\ AllIdle
    BY <1>6 DEF Release, procVars, openerVars, AllIdle
  <2>2. promise.opened # "unset" \/ ~ file.opened
    BY <2>1 DEF OpenInv, AllIdle, SomeWaits
  <2>3. QED
    BY <1>2, <2>1, <2>2
<1>7. CASE FinishClose \/ Destroy
  <2>1. UNCHANGED <<promise, opener, file, recorded, saved>>
    BY <1>7 DEF FinishClose, Destroy, procVars, openerVars, cacheVars
  <2>2. proc'.prependSize = proc.prependSize
    BY <1>t, <1>7 DEF FinishClose, Destroy, procVars
  <2>3. QED
    BY <1>1, <2>1, <2>2
<1>8. CASE Reopen
  <2>1. /\ promise' = NewPromises /\ opener' = "off" /\ file' = NewFile(recorded)
        /\ UNCHANGED <<recorded, saved>>
    BY <1>8 DEF Reopen, Construct, cacheVars
  <2>2. Resumable(file)' /\ Resumable(recorded)' /\ Resumable(saved)'
    BY <2>1 DEF ResumeInv, Resumable, NewFile
  <2>3. QED
    BY <2>1, <2>2 DEF ResumeInv, NewPromises, Parsing
<1>9. CASE Crash
  <2>1. /\ promise' = NewPromises /\ opener' = "off" /\ file' = NewFile(saved)
        /\ recorded' = saved /\ UNCHANGED saved
    BY <1>9 DEF Crash, Construct
  <2>2. Resumable(file)' /\ Resumable(recorded)' /\ Resumable(saved)'
    BY <2>1 DEF ResumeInv, Resumable, NewFile
  <2>3. QED
    BY <2>1, <2>2 DEF ResumeInv, NewPromises, Parsing
<1>10. CASE Save
  <2>1. saved' = recorded /\ UNCHANGED <<recorded, opener, promise, proc, file>>
    BY <1>10 DEF Save, procVars, openerVars
  <2>2. QED
    BY <2>1 DEF ResumeInv, Resumable
<1>11. CASE UNCHANGED vars
  BY <1>1, <1>11 DEF vars, procVars, openerVars, cacheVars
<1>12. CASE LoseSpill
  BY <1>0, <1>1, <1>12, LoseFrame
<1>13. QED
  BY StepCases, ResumeOpener, <1>3, <1>4, <1>5, <1>6, <1>7, <1>8, <1>9, <1>10, <1>11, <1>12

(* Nobody but the opener is at work in file and stream while it opens them.*)
LEMMA ReaderInside ==
  ASSUME OpenInv, NEW r \in Readers, InRead(r)
  PROVE  promise.opened # "unset"
<1>1. reader[r] # "idle" /\ (reader[r] = "awaitOpen" => promise.opened # "unset")
  BY DEF InRead, AwaitOpen, CheckError, AwaitThread, ReadSize, FromFile, FromStream,
         CloseStream, CloseFile, SetClosed, ReaderMove
<1>2. QED
  BY <1>1 DEF OpenInv, NoneInside

StreamRecord == [pos : 0 .. StreamLen, closed : BOOLEAN]
BufferRecord == [len : 0 .. StreamLen, eof : BOOLEAN, readable : 0 .. StreamLen]

(* What an append does to the buffer. *)
LEMMA AppendedBlock ==
  ASSUME TypeOK, StreamInv, BlockLen > 0, ReadAndAppend, appender' = "check"
  PROVE  /\ stream' = [stream EXCEPT !.pos = @ + BlockLen]
         /\ buffer'.len = buffer.len + BlockLen /\ buffer'.eof = buffer.eof
         /\ buffer'.readable = IF buffer.readable = buffer.len THEN buffer'.len
                              ELSE buffer.readable
<1> DEFINE sum  == buffer.len + BlockLen
           back == IF buffer.readable = buffer.len THEN buffer.readable + BlockLen
                   ELSE buffer.readable
<1>1. buffer \in BufferRecord
  BY DEF TypeOK, BufferRecord
<1>2. /\ stream' = [stream EXCEPT !.pos = @ + BlockLen]
      /\ buffer' = [buffer EXCEPT !.len = sum, !.readable = back]
  BY DEF ReadAndAppend, AppenderMove
<1> HIDE DEF sum, back
<1>3. buffer'.len = sum /\ buffer'.eof = buffer.eof /\ buffer'.readable = back
  BY <1>1, <1>2 DEF BufferRecord
<1>4. QED
  BY <1>2, <1>3 DEF sum, back

LEMMA AppendOpener ==
  ASSUME Base, AppendInv, Opener
  PROVE  AppendInv'
<1>0. IInv /\ TypeOK /\ ControlInv
  BY DEF Base, IInv
<1>t. /\ proc \in [opened : BOOLEAN, closed : BOOLEAN, error : BOOLEAN,
                   metadataWasRead : BOOLEAN, prependSize : Int]
      /\ promise \in [opened : PromiseStates, thread : PromiseStates,
                      append : PromiseStates]
      /\ stream \in StreamRecord /\ buffer \in BufferRecord
  BY <1>0 DEF TypeOK, StreamRecord, BufferRecord
<1>a. /\ opener \in Opening \cup {"off"} => appender = "off"
      /\ opener \in Preparing => promise.append # "unset"
  BY <1>0 DEF ControlInv
<1>f. UNCHANGED buffer /\ promise.append # "future_error"
  BY <1>t, OpenerFrame DEF Base, NoFutureError
<1> USE DEF Opening, Parsing, Preparing, OpenerMove
<1>1. CASE OpenStream
  <2>1. /\ opener = "openStream" /\ UNCHANGED <<proc, promise, appender>>
        /\ \/ opener' = "openFile" /\ \E n : stream' = [stream EXCEPT !.pos = n]
           \/ opener' = "failOpened"
    BY <1>1 DEF OpenStream, procVars
  <2>2. opener' = "openFile" => stream'.closed = stream.closed
    BY <1>t, <2>1 DEF StreamRecord
  <2>3. QED
    BY <1>a, <1>f, <2>1, <2>2 DEF AppendInv
<1>2. CASE OpenFile
  BY <1>f, <1>2 DEF OpenFile, procVars, AppendInv
<1>3. CASE CheckSize
  <2>1. opener = "checkSize" /\ UNCHANGED <<stream, promise>>
        /\ opener' \in {"parse", "setOpened"} /\ appender' \in {appender, "read"}
    BY <1>3 DEF CheckSize
  <2>2. proc'.metadataWasRead = proc.metadataWasRead
    BY <1>t, <1>3 DEF CheckSize
  <2>3. QED
    BY <1>a, <1>f, <2>1, <2>2 DEF AppendInv
<1>4. CASE Parse
  <2>1. buffer.len >= Replaced \/ buffer.eof
    BY <1>t, <1>4, SizesAssumption DEF Parse, Larger, BufferRecord
  <2>2. QED
    BY <1>f, <1>4, <2>1 DEF Parse, procVars, AppendInv
<1>5. CASE StopAppend
  BY <1>f, <1>5 DEF StopAppend, AppendInv
<1>6. CASE AwaitAppend
  <2>1. opener' = "setPrepend" => promise.append = "value"
    BY <1>t, <1>f, <1>6 DEF AwaitAppend, PromiseStates
  <2>2. QED
    BY <1>f, <1>6, <2>1 DEF AwaitAppend, procVars, AppendInv
<1>7. CASE SetPrepend \/ WriteTag \/ Drain
  <2>1. /\ opener \in Preparing /\ opener' \in Preparing \cup {"setOpened"}
        /\ UNCHANGED <<promise, appender>>
    BY <1>7 DEF SetPrepend, WriteTag, Drain, procVars
  <2>2. QED
    BY <1>f, <2>1 DEF AppendInv
<1>8. CASE \/ SetOpened \/ Download \/ WriteBlock \/ SetThread \/ FailOpened
           \/ RaiseError \/ FailThread
  <2>1. opener' \notin {"off"} \cup Opening \cup Parsing \cup Preparing /\ UNCHANGED appender
    BY <1>8 DEF SetOpened, Download, WriteBlock, SetThread, FailOpened, RaiseError, FailThread
  <2>2. promise'.append = promise.append
    BY <1>t, <1>8 DEF SetOpened, Download, WriteBlock, SetThread, FailOpened, RaiseError,
                      FailThread, procVars, Satisfy
  <2>3. QED
    BY <1>f, <2>1, <2>2 DEF AppendInv
<1>9. QED
  BY <1>1, <1>2, <1>3, <1>4, <1>5, <1>6, <1>7, <1>8 DEF Opener

LEMMA AppendAppender ==
  ASSUME Base, AppendInv, StageInv, Appender
  PROVE  AppendInv'
<1>0. IInv /\ TypeOK /\ ControlInv
  BY DEF Base, IInv
<1>t. /\ promise \in [opened : PromiseStates, thread : PromiseStates,
                      append : PromiseStates]
      /\ stream \in StreamRecord /\ buffer \in BufferRecord
  BY <1>0 DEF TypeOK, StreamRecord, BufferRecord
<1>f. UNCHANGED <<proc, opener>>
  BY AppenderFrame
<1>g. AppendGoesOn => promise.append = "unset" /\ opener \in Parsing
  BY <1>0 DEF ControlInv
<1>i. opener \in Parsing => opener \notin {"off"} \cup Opening /\ opener \notin Preparing
  BY DEF Parsing, Opening, Preparing
<1>1. CASE ReadAndAppend
  <2>1. /\ appender = "read" /\ UNCHANGED promise /\ AppendGoesOn
        /\ opener \in Parsing /\ promise.append = "unset" /\ ~ stream.closed /\ ~ buffer.eof
    BY <1>1, <1>g DEF ReadAndAppend, AppenderMove, AppendGoesOn, AppendInv, procVars
  <2>2. stream.pos = buffer.len /\ stream.pos \in Nat /\ stream.pos <= StreamLen
    BY <1>t, <2>1, SizesAssumption DEF StageInv, StreamRecord
  <2>3. CASE BlockLen > 0 /\ appender' = "check"
    <3>1. /\ BlockLen \in Nat /\ stream' = [stream EXCEPT !.pos = @ + BlockLen]
          /\ buffer'.len = buffer.len + BlockLen /\ buffer'.eof = buffer.eof
      BY <1>0, <1>1, <2>3, BlockLenType, AppendedBlock DEF IInv, Base
    <3>2. buffer'.eof = buffer.eof /\ stream'.closed = stream.closed
          /\ buffer'.len >= buffer.len
      BY <1>t, <3>1 DEF BufferRecord, StreamRecord
    <3>3. buffer.len \in Nat /\ buffer'.len \in Nat /\ Replaced \in Nat
      BY <1>t, <3>1, SizesAssumption DEF BufferRecord
    <3>4. buffer.len >= Replaced => buffer'.len >= Replaced
      BY <3>2, <3>3
    <3>5. QED
      BY <1>f, <1>i, <2>1, <2>3, <3>2, <3>4 DEF AppendInv
  <2>4. CASE BlockLen = 0 /\ appender' = "notifyEof"
             /\ buffer' = [buffer EXCEPT !.eof = TRUE]
    <3>1. buffer.len >= Replaced
      BY <2>1, <2>2, <2>4, SizesAssumption DEF BlockLen, Smaller
    <3>2. buffer'.len = buffer.len
      BY <1>t, <2>4 DEF BufferRecord
    <3>3. QED
      BY <1>f, <1>i, <2>1, <2>4, <3>1, <3>2 DEF AppendInv
  <2>5. CASE appender' = "fail" /\ buffer' = [buffer EXCEPT !.eof = TRUE]
    <3>1. buffer'.len = buffer.len /\ buffer'.eof
      BY <1>t, <2>5 DEF BufferRecord
    <3>2. QED
      BY <1>f, <1>i, <2>1, <2>5, <3>1 DEF AppendInv
  <2>6. QED
    BY <1>1, <2>3, <2>4, <2>5 DEF ReadAndAppend, AppenderMove
<1>2. CASE CheckMetadata
  <2>1. /\ appender = "check" /\ appender' = "recheck" /\ UNCHANGED <<stream, buffer>>
        /\ AppendGoesOn
    BY <1>2 DEF CheckMetadata, AppenderMove, AppendGoesOn
  <2>2. opener \in Parsing /\ promise.append = "unset"
    BY <1>g, <2>1
  <2>3. CASE proc.metadataWasRead
    <3>1. buffer.len >= Replaced
      BY <2>1, <2>2, <2>3 DEF AppendInv, Parsing
    <3>2. QED
      BY <1>f, <1>i, <2>1, <2>2, <3>1 DEF AppendInv
  <2>4. CASE ~ proc.metadataWasRead
    BY <1>2, <1>f, <1>i, <2>1, <2>2, <2>4 DEF CheckMetadata, AppendInv
  <2>5. QED
    BY <2>3, <2>4
<1>3. CASE RecheckMetadata
  BY <1>3, <1>f DEF RecheckMetadata, AppenderMove, procVars, AppendInv
<1>4. CASE NotifyEof
  <2>1. appender = "notifyEof" /\ appender' = "done" /\ UNCHANGED <<stream, buffer>> /\ AppendGoesOn
    BY <1>4 DEF NotifyEof, AppenderMove, AppendGoesOn
  <2>2. opener \in Parsing
    BY <1>g, <2>1
  <2>3. QED
    BY <1>f, <1>i, <2>1, <2>2 DEF AppendInv
<1>5. CASE NotifyFailure
  <2>1. /\ appender = "fail" /\ appender' = "done" /\ UNCHANGED <<stream, buffer>>
        /\ AppendGoesOn
    BY <1>5 DEF NotifyFailure, AppenderMove, AppendGoesOn
  <2>2. opener \in Parsing /\ promise'.append = "exception"
    BY <1>5, <1>g, <1>t, <2>1 DEF NotifyFailure, Satisfy
  <2>3. QED
    BY <1>f, <1>i, <2>1, <2>2 DEF AppendInv
<1>6. QED
  BY <1>1, <1>2, <1>3, <1>4, <1>5 DEF Appender

LEMMA AppendNext ==
  Base /\ OpenInv /\ AppendInv /\ StageInv /\ [Next]_vars => AppendInv'
<1> SUFFICES ASSUME Base, OpenInv, AppendInv, StageInv, [Next]_vars PROVE AppendInv'
  OBVIOUS
<1>0. IInv /\ TypeOK /\ ControlInv
  BY DEF Base, IInv
<1>t. proc \in [opened : BOOLEAN, closed : BOOLEAN, error : BOOLEAN,
                metadataWasRead : BOOLEAN, prependSize : Int]
  BY <1>0 DEF TypeOK
<1>c. /\ proc.opened <=> opener # "off"
      /\ promise.opened = "unset" <=>
        opener \in {"off", "setOpened", "failOpened"} \cup Opening \cup Parsing \cup Preparing
  BY <1>0 DEF ControlInv
<1>1. ASSUME UNCHANGED <<appender, buffer, promise, opener>>,
             proc'.metadataWasRead = proc.metadataWasRead,
             stream'.closed = stream.closed \/ promise.opened # "unset"
      PROVE  AppendInv'
  BY <1>1, <1>c DEF AppendInv
<1>2. CASE \E r \in Readers : InRead(r)
  <2>1. PICK r \in Readers : InRead(r)
    BY <1>2
  <2>2. UNCHANGED <<appender, buffer, promise, opener>> /\ promise.opened # "unset"
    BY <2>1, ReaderFrame, ReaderInside
  <2>3. proc'.metadataWasRead = proc.metadataWasRead
    BY <1>t, <2>1, ReaderFrame
  <2>4. QED
    BY <1>1, <2>2, <2>3
<1>3. CASE \E r \in Readers, req \in Requests : CallRead(r, req)
  <2>1. PICK r \in Readers, req \in Requests : CallRead(r, req)
    BY <1>3
  <2>2. /\ UNCHANGED <<appender, buffer, promise, stream>>
        /\ proc' = [proc EXCEPT !.opened = TRUE]
        /\ opener' = opener \/ (opener' = "openStream" /\ opener = "off")
    BY <1>c, <2>1 DEF CallRead
  <2>3. proc'.metadataWasRead = proc.metadataWasRead
    BY <1>t, <2>2
  <2>4. QED
    BY <2>2, <2>3 DEF AppendInv, Opening, Parsing, Preparing
<1>4. CASE Release \/ FinishClose \/ Destroy \/ Save \/ UNCHANGED vars
  <2>1. UNCHANGED <<appender, buffer, promise, opener, stream>>
    BY <1>4 DEF Release, FinishClose, Destroy, Save, procVars, openerVars, vars
  <2>2. proc'.metadataWasRead = proc.metadataWasRead
    BY <1>4, <1>t DEF Release, FinishClose, Destroy, Save, procVars, vars
  <2>3. QED
    BY <1>1, <2>1, <2>2
<1>5. CASE Reopen \/ Crash
  BY <1>5 DEF Reopen, Crash, Construct, AppendInv, NewProcessor, NewPromises, NewStream,
              NewBuffer, Parsing, Preparing
<1>6. CASE LoseSpill
  <2>1. /\ UNCHANGED <<appender, promise, opener, stream, proc>>
        /\ buffer'.len = buffer.len /\ buffer'.eof = buffer.eof
    BY <1>0, <1>6, LoseFrame
  <2>2. QED
    BY <2>1 DEF AppendInv
<1>7. QED
  BY StepCases, AppendOpener, AppendAppender, <1>2, <1>3, <1>4, <1>5, <1>6

LEMMA BytesLen ==
  ASSUME NEW a \in Int, NEW b \in Int, a <= b
  PROVE  Len(Bytes(a, b)) = b - a /\ (Bytes(a, b) = <<>> => a = b)
<1>1. Len(Bytes(a, b)) = b - a
  BY DEF Bytes
<1>2. Bytes(a, b) = <<>> => Len(Bytes(a, b)) = 0
  OBVIOUS
<1>3. QED
  BY <1>1, <1>2

(* What one turn of the drain does. *)
LEMMA DrainStep ==
  ASSUME Base, OpenInv, ResumeInv, StageInv, Drain
  PROVE  /\ opener = "drain" /\ opener' \in {"drain", "setOpened"}
         /\ FileUsable /\ FileUsable' /\ UNCHANGED <<stream, buffer, proc, promise>>
         /\ file.prepend = PrependSize /\ file'.prepend = PrependSize
         /\ file.size = TagLen + drained /\ file'.size = TagLen + drained'
         /\ DrainFrom <= Smaller(DrainFrom + BlockSize, buffer.len)
         /\ drained' + Replaced = Smaller(DrainFrom + BlockSize, buffer.len)
         /\ drained' \in Nat
         /\ disk' = disk \o DrainBlock
         /\ opener' = "setOpened" => drained' + Replaced = buffer.len
<1>0. IInv /\ TypeOK /\ ControlInv
  BY DEF Base, IInv
<1>t. /\ file \in FileRecord /\ drained \in Nat /\ buffer.len \in Nat /\ BlockSize \in Nat
      /\ BlockSize > 0 /\ buffer.len <= StreamLen
  BY <1>0, SizesAssumption DEF TypeOK, FileRecord
<1>1. /\ opener = "drain" /\ UNCHANGED <<stream, buffer, proc, promise>>
      /\ opener' = IF proc.closed \/ DrainBlock = <<>> THEN "setOpened" ELSE "drain"
      /\ ~ proc.closed => FileWrite(DrainBlock) /\ drained' = drained + Len(DrainBlock)
  BY DEF Drain, OpenerMove, procVars, DrainBlock, DrainFrom
<1>2. FileUsable /\ ~ proc.closed
  <2>1. promise.opened = "unset"
    BY <1>0, <1>1 DEF ControlInv, Preparing
  <2>2. QED
    BY <1>1, <2>1 DEF OpenInv, FileUsable, Preparing
<1>3. /\ file.size = TagLen + drained /\ drained + Replaced <= buffer.len
      /\ file.prepend = PrependSize
  <2>1. file.size = TagLen + drained /\ drained + Replaced <= buffer.len
    BY <1>1 DEF StageInv
  <2>2. Resumable(file)
    BY <1>1 DEF ResumeInv
  <2>3. file.size # 0
    BY <1>t, <2>1, PrependSizeType
  <2>4. QED
    BY <2>1, <2>2, <2>3 DEF Resumable
<1> DEFINE to == Smaller(DrainFrom + BlockSize, buffer.len)
<1>4. /\ DrainFrom \in Nat /\ to \in Nat /\ DrainFrom <= to
      /\ DrainFrom = to => to = buffer.len
  BY <1>t, <1>3, PrependSizeType DEF DrainFrom, Smaller
<1>5. /\ Len(DrainBlock) = to - DrainFrom
      /\ DrainBlock = <<>> => DrainFrom = to
  <2>1. DrainBlock = ReadBack(DrainFrom, to)
    BY DEF DrainBlock
  <2>2. to <= StreamLen
    BY <1>t, <1>4, SizesAssumption DEF Smaller
  <2> HIDE DEF to
  <2>3. /\ Len(ReadBack(DrainFrom, to)) = to - DrainFrom
        /\ ReadBack(DrainFrom, to) = <<>> => DrainFrom = to
    BY <1>4, <2>2, ReadBackLen, Zenon
  <2>4. QED
    BY <2>1, <2>3
<1>6. /\ file'.size = file.size + Len(DrainBlock) /\ file'.prepend = file.prepend
      /\ file'.opened = file.opened /\ file'.closed = file.closed
      /\ disk' = disk \o DrainBlock
  BY <1>0, <1>1, <1>2, BlockTypes, FileWriteEffect
<1> HIDE DEF to
<1>7. drained' + Replaced = to /\ drained' \in Nat /\ file'.size = TagLen + drained'
  <2>1. drained' = drained + (to - DrainFrom) /\ file'.size = file.size + (to - DrainFrom)
    BY <1>1, <1>2, <1>5, <1>6
  <2>2. drained' = to - Replaced /\ to - Replaced >= drained
    BY <1>t, <1>4, <2>1, PrependSizeType DEF DrainFrom
  <2>3. file'.size = TagLen + drained'
    BY <1>t, <1>3, <1>4, <2>1, PrependSizeType DEF DrainFrom
  <2>4. QED
    BY <1>t, <1>4, <2>2, <2>3, PrependSizeType
<1>8. opener' = "setOpened" => to = buffer.len
  BY <1>1, <1>2, <1>4, <1>5
<1>9. QED
  BY <1>1, <1>2, <1>3, <1>4, <1>6, <1>7, <1>8 DEF to, FileUsable

(* What the write of a block does. *)
LEMMA WriteBlockStep ==
  ASSUME Base, StageInv, WriteBlock
  PROVE  /\ opener = "write" /\ opener' = "download" /\ UNCHANGED <<stream, proc, promise>>
         /\ file'.prepend = file.prepend /\ FileUsable' = FileUsable
         /\ FileUsable => /\ file'.size = file.size + inHand
                          /\ disk' = disk \o InHandBlock
                          /\ stream.pos - inHand = file.size - file.prepend
         /\ ~ FileUsable => UNCHANGED <<file, disk>>
<1>0. IInv /\ TypeOK /\ StreamInv
  BY DEF Base, IInv
<1>1. /\ opener = "write" /\ opener' = "download" /\ UNCHANGED <<stream, proc, promise>>
      /\ FileWrite(InHandBlock)
  BY DEF WriteBlock, OpenerMove, procVars, InHandBlock
<1>2. /\ file'.size = IF FileUsable THEN file.size + Len(InHandBlock) ELSE file.size
      /\ file'.prepend = file.prepend /\ file'.opened = file.opened
      /\ file'.closed = file.closed
      /\ disk' = IF FileUsable THEN disk \o InHandBlock ELSE disk
  BY <1>0, <1>1, BlockTypes, FileWriteEffect
<1>3. Len(InHandBlock) = inHand
  <2>1. /\ stream.pos \in Int /\ inHand \in Nat /\ stream.pos - inHand \in Int
        /\ stream.pos - inHand <= stream.pos
    BY <1>0, SizesAssumption DEF TypeOK
  <2>2. Len(InHandBlock) = stream.pos - (stream.pos - inHand)
    BY <2>1, BytesLen DEF InHandBlock
  <2>3. QED
    BY <2>1, <2>2
<1>4. ~ FileUsable => UNCHANGED <<file, disk>>
  BY <1>1 DEF FileWrite
<1>5. FileUsable => stream.pos - inHand = file.size - file.prepend
  BY <1>1 DEF StageInv
<1>6. QED
  BY <1>1, <1>2, <1>3, <1>4, <1>5 DEF FileUsable

(* The tag is written to an empty file. *)
LEMMA WriteTagStep ==
  ASSUME Base, OpenInv, ResumeInv, WriteTag
  PROVE  /\ opener = "writeTag" /\ opener' = "drain" /\ FileUsable /\ FileUsable'
         /\ UNCHANGED <<stream, drained, proc, promise>>
         /\ file.size = 0 /\ file'.size = TagLen /\ disk' = disk \o Tag
<1>0. IInv /\ TypeOK /\ ControlInv
  BY DEF Base, IInv
<1>1. /\ opener = "writeTag" /\ opener' = "drain" /\ FileWrite(Tag)
      /\ UNCHANGED <<stream, drained, proc, promise>>
  BY DEF WriteTag, OpenerMove, procVars
<1>2. FileUsable /\ file.size = 0
  <2>1. promise.opened = "unset"
    BY <1>0, <1>1 DEF ControlInv, Preparing
  <2>2. QED
    BY <1>1, <2>1 DEF OpenInv, ResumeInv, FileUsable, Preparing
<1>3. /\ file'.size = file.size + Len(Tag) /\ disk' = disk \o Tag
      /\ file'.opened = file.opened /\ file'.closed = file.closed
  BY <1>0, <1>1, <1>2, TagCells, FileWriteEffect
<1>4. QED
  BY <1>1, <1>2, <1>3, TagCells, PrependSizeType DEF FileUsable

(* A file opened begins empty or as an earlier session left it. *)
LEMMA OpenFileStep ==
  ASSUME Base, OpenInv, OpenFile
  PROVE  /\ opener = "openFile" /\ opener' = "checkSize"
         /\ UNCHANGED <<stream, drained, proc, promise>>
         /\ file'.size = file.size /\ file'.prepend = file.prepend /\ FileUsable'
         /\ ~ FileUsable
         /\ disk' = IF file.size = 0 THEN <<>> ELSE disk
<1>0. IInv /\ TypeOK /\ ControlInv
  BY DEF Base, IInv
<1>1. /\ opener = "openFile" /\ opener' = "checkSize" /\ FileOpen
      /\ UNCHANGED <<stream, drained, proc, promise>>
  BY DEF OpenFile, OpenerMove, procVars
<1>2. ~ file.opened /\ ~ file.closed
  <2>1. promise.opened = "unset"
    BY <1>0, <1>1 DEF ControlInv, Opening
  <2>2. QED
    BY <1>1, <2>1 DEF OpenInv
<1>3. QED
  BY <1>0, <1>1, <1>2, FileOpenEffect DEF FileUsable

LEMMA StageOpener ==
  ASSUME Base, OpenInv, ResumeInv, AppendInv, StageInv, Opener
  PROVE  StageInv'
<1>0. IInv /\ TypeOK /\ ControlInv /\ StreamInv
  BY DEF Base, IInv
<1>t. /\ file \in FileRecord /\ stream \in StreamRecord /\ buffer \in BufferRecord
      /\ drained \in Nat /\ inHand \in Nat
  BY <1>0, SizesAssumption DEF TypeOK, FileRecord, StreamRecord, BufferRecord
<1>f. UNCHANGED buffer
  BY OpenerFrame
<1> USE DEF Opening, Parsing, Preparing
<1>1. CASE OpenStream
  <2>1. /\ opener = "openStream" /\ UNCHANGED <<file, drained>>
        /\ opener' \in {"openFile", "failOpened"}
        /\ opener' = "openFile" =>
              /\ file.size - file.prepend \in 0 .. StreamLen
              /\ stream' = [stream EXCEPT !.pos = file.size - file.prepend]
    BY <1>1 DEF OpenStream, OpenerMove
  <2>2. opener' = "openFile" => stream'.pos = file.size - file.prepend
    BY <1>t, <2>1 DEF StreamRecord
  <2>3. QED
    BY <2>1, <2>2 DEF StageInv
<1>2. CASE OpenFile
  BY <1>2, OpenFileStep DEF StageInv
<1>3. CASE CheckSize
  <2>1. /\ opener = "checkSize" /\ UNCHANGED <<file, stream, drained>>
        /\ opener' = IF file.size = 0 THEN "parse" ELSE "setOpened"
    BY <1>3 DEF CheckSize, OpenerMove
  <2>2. stream.pos = file.size - file.prepend /\ drained = 0 /\ buffer.len = 0
    BY <1>0, <2>1 DEF StageInv, StreamInv
  <2>3. file.size = 0 => file.prepend = 0
    BY <2>1, PrependSizeType DEF ResumeInv, Resumable
  <2>4. file.size = 0 => stream.pos = buffer.len
    BY <2>2, <2>3
  <2>5. QED
    BY <1>f, <2>1, <2>2, <2>4 DEF StageInv
<1>4. CASE Parse \/ StopAppend \/ AwaitAppend \/ SetPrepend
  <2>1. /\ opener \in Parsing \cup {"setPrepend"} /\ UNCHANGED <<stream, drained>>
        /\ opener' \in Parsing \cup {"setPrepend", "writeTag", "failOpened"}
    BY <1>4 DEF Parse, StopAppend, AwaitAppend, SetPrepend, OpenerMove
  <2>2. QED
    BY <1>f, <2>1 DEF StageInv
<1>5. CASE WriteTag
  <2>1. buffer.len >= Replaced
    BY <1>5, WriteTagStep DEF AppendInv
  <2>2. drained = 0 /\ stream.pos = buffer.len
    BY <1>5, WriteTagStep DEF StageInv
  <2>3. QED
    BY <1>f, <1>5, <2>1, <2>2, WriteTagStep, PrependSizeType DEF StageInv
<1>6. CASE Drain
  <2>1. stream.pos = buffer.len
    BY <1>6, DrainStep DEF StageInv
  <2>2. /\ opener' \in {"drain", "setOpened"} /\ UNCHANGED stream
        /\ file'.size = TagLen + drained' /\ file'.prepend = PrependSize
        /\ drained' \in Nat /\ drained' + Replaced <= buffer.len
        /\ opener' = "setOpened" => drained' + Replaced = buffer.len
    BY <1>t, <1>6, DrainStep, SizesAssumption DEF Smaller, DrainFrom, BufferRecord
  <2>3. opener' = "setOpened" => stream.pos = file'.size - file'.prepend
    BY <2>1, <2>2, PrependSizeType
  <2>4. QED
    BY <1>f, <2>1, <2>2, <2>3 DEF StageInv
<1>7. CASE SetOpened
  BY <1>7 DEF SetOpened, OpenerMove, StageInv, FileUsable
<1>8. CASE Download
  <2>1. /\ opener = "download" /\ UNCHANGED file
        /\ opener' \in {"setThread", "raiseError", "write"}
        /\ opener' = "write" => /\ stream' = [stream EXCEPT !.pos = @ + BlockLen]
                                /\ inHand' = BlockLen
    BY <1>8 DEF Download, OpenerMove
  <2>2. BlockLen \in Nat /\ stream.pos \in Nat
    BY <1>0, <1>t, BlockLenType, SizesAssumption DEF StreamRecord
  <2>3. opener' = "write" => stream'.pos - inHand' = stream.pos
    BY <1>t, <2>1, <2>2 DEF StreamRecord
  <2>4. QED
    BY <2>1, <2>3 DEF StageInv, FileUsable
<1>9. CASE WriteBlock
  <2>1. FileUsable => stream.pos = file'.size - file'.prepend
    <3>1. FileUsable => /\ file'.size = file.size + inHand /\ file'.prepend = file.prepend
                        /\ stream.pos - inHand = file.size - file.prepend
      BY <1>9, WriteBlockStep
    <3>2. stream.pos \in Int /\ file.size \in Int /\ file.prepend \in Int
      BY <1>t, SizesAssumption DEF FileRecord, StreamRecord
    <3>3. QED
      BY <1>t, <3>1, <3>2
  <2>2. QED
    BY <1>9, <2>1, WriteBlockStep DEF StageInv
<1>10. CASE SetThread \/ FailOpened \/ RaiseError \/ FailThread
  BY <1>10 DEF SetThread, FailOpened, RaiseError, FailThread, OpenerMove, StageInv
<1>11. QED
  BY <1>1, <1>2, <1>3, <1>4, <1>5, <1>6, <1>7, <1>8, <1>9, <1>10 DEF Opener

LEMMA StageNext ==
  Base /\ OpenInv /\ ResumeInv /\ AppendInv /\ StageInv /\ [Next]_vars => StageInv'
<1> SUFFICES ASSUME Base, OpenInv, ResumeInv, AppendInv, StageInv, [Next]_vars
             PROVE StageInv'
  OBVIOUS
<1>0. IInv /\ TypeOK /\ ControlInv
  BY DEF Base, IInv
<1>t. stream \in StreamRecord /\ buffer \in BufferRecord
  BY <1>0 DEF TypeOK, StreamRecord, BufferRecord
<1>1. ASSUME UNCHANGED <<drained, inHand, opener>>, stream'.pos = stream.pos,
             buffer'.len = buffer.len, file'.size = file.size,
             file'.prepend = file.prepend, FileUsable' => FileUsable
      PROVE  StageInv'
  BY <1>1 DEF StageInv
<1>2. StreamFails => stream'.pos = stream.pos
  BY <1>t DEF StreamFails, StreamRecord
<1>3. FileClose => file'.size = file.size /\ file'.prepend = file.prepend /\ ~ FileUsable'
  BY <1>0, FileCloseEffect
<1>4. CASE Appender
  <2>1. UNCHANGED <<file, drained, inHand, opener>>
    BY <1>4, AppenderFrame
  <2>2. CASE ReadAndAppend
    <3>1. opener \in Parsing /\ stream.pos = buffer.len
      BY <1>0, <2>2 DEF ControlInv, AppendGoesOn, ReadAndAppend, AppenderMove, StageInv
    <3>2. \/ stream'.pos = stream.pos /\ buffer'.len = buffer.len
          \/ stream'.pos = stream.pos + BlockLen /\ buffer'.len = buffer.len + BlockLen
      <4>1. CASE BlockLen > 0 /\ appender' = "check"
        BY <1>0, <1>t, <2>2, <4>1, AppendedBlock DEF Base, IInv, StreamRecord
      <4>2. CASE ~ (BlockLen > 0 /\ appender' = "check")
        BY <1>t, <1>2, <2>2, <4>2 DEF ReadAndAppend, AppenderMove, BufferRecord
      <4>3. QED
        BY <4>1, <4>2
    <3>3. stream'.pos = buffer'.len
      BY <3>1, <3>2
    <3>4. QED
      BY <2>1, <3>1, <3>3 DEF StageInv, FileUsable, Opening, Parsing
  <2>3. CASE CheckMetadata \/ RecheckMetadata \/ NotifyEof \/ NotifyFailure
    <3>1. UNCHANGED <<stream, buffer>>
      BY <2>3 DEF CheckMetadata, RecheckMetadata, NotifyEof, NotifyFailure
    <3>2. QED
      BY <1>1, <2>1, <3>1 DEF FileUsable
  <2>4. QED
    BY <1>4, <2>2, <2>3 DEF Appender
<1>5. CASE \E r \in Readers : InRead(r)
  <2>1. PICK r \in Readers : InRead(r)
    BY <1>5
  <2>2. UNCHANGED <<buffer, opener, drained, inHand>>
    BY <2>1, ReaderFrame
  <2>3. UNCHANGED file \/ FileClose
    BY <2>1, ReaderFrame
  <2>4. UNCHANGED stream \/ StreamFails
    BY <2>1, ReaderFrame
  <2>5. QED
    BY <1>1, <1>2, <1>3, <2>2, <2>3, <2>4 DEF FileUsable
<1>6. CASE \E r \in Readers, req \in Requests : CallRead(r, req)
  <2>1. PICK r \in Readers, req \in Requests : CallRead(r, req)
    BY <1>6
  <2>2. /\ UNCHANGED <<buffer, stream, file, drained, inHand>>
        /\ opener' = opener \/ (opener' = "openStream" /\ ~ proc.opened)
    BY <2>1 DEF CallRead
  <2>3. proc.opened <=> opener # "off"
    BY <1>0 DEF ControlInv
  <2>4. QED
    BY <2>2, <2>3 DEF StageInv, FileUsable, Opening, Parsing, Preparing
<1>7. CASE Release
  BY <1>1, <1>3, <1>7 DEF Release, openerVars
<1>8. CASE FinishClose \/ Destroy \/ Save \/ UNCHANGED vars
  <2>1. UNCHANGED <<buffer, stream, file, openerVars>>
    BY <1>8 DEF FinishClose, Destroy, Save, vars
  <2>2. QED
    BY <1>1, <2>1 DEF openerVars, FileUsable
<1>9. CASE Reopen \/ Crash
  BY <1>9 DEF Reopen, Crash, Construct, StageInv, Opening, Parsing, Preparing
<1>10. CASE LoseSpill
  <2>1. UNCHANGED <<stream, file, opener, drained, inHand>> /\ buffer'.len = buffer.len
    BY <1>0, <1>10, LoseFrame
  <2>2. QED
    BY <1>1, <2>1 DEF FileUsable
<1>11. QED
  BY StepCases, StageOpener, <1>4, <1>5, <1>6, <1>7, <1>8, <1>9, <1>10

(* What can be read back is what was in memory, at least. *)
LEMMA SpillNext ==
  ASSUME Base, SpillInv, [Next]_vars
  PROVE  SpillInv'
<1>0. IInv /\ TypeOK /\ StreamInv
  BY DEF Base, IInv
<1>t. buffer \in BufferRecord /\ InMemory \in Nat
  BY <1>0, SizesAssumption DEF TypeOK, BufferRecord
<1>1. ASSUME UNCHANGED <<buffer, lost>>
      PROVE  SpillInv'
  BY <1>1 DEF SpillInv
<1>2. CASE Opener
  BY <1>1, <1>2, OpenerFrame
<1>3. CASE Appender
  <2>1. UNCHANGED lost
    BY <1>3, AppenderFrame
  <2>2. CASE ReadAndAppend
    <3>1. CASE BlockLen > 0 /\ appender' = "check"
      <4>1. buffer'.readable = IF buffer.readable = buffer.len THEN buffer'.len
                              ELSE buffer.readable
        BY <1>0, <2>2, <3>1, AppendedBlock
      <4>2. QED
        BY <2>1, <4>1 DEF SpillInv
    <3>2. CASE ~ (BlockLen > 0 /\ appender' = "check")
      <4>1. buffer' = [buffer EXCEPT !.eof = TRUE]
        BY <2>2, <3>2 DEF ReadAndAppend, AppenderMove
      <4>2. buffer'.readable = buffer.readable /\ buffer'.len = buffer.len
        BY <1>t, <4>1 DEF BufferRecord
      <4>3. QED
        BY <2>1, <4>2 DEF SpillInv
    <3>3. QED
      BY <3>1, <3>2
  <2>3. CASE CheckMetadata \/ RecheckMetadata \/ NotifyEof \/ NotifyFailure
    BY <1>1, <2>1, <2>3 DEF CheckMetadata, RecheckMetadata, NotifyEof, NotifyFailure
  <2>4. QED
    BY <1>3, <2>2, <2>3 DEF Appender
<1>4. CASE LoseSpill
  <2>1. buffer'.readable = InMemory /\ lost'
    BY <1>0, <1>4, LoseFrame
  <2>2. QED
    BY <1>t, <2>1 DEF SpillInv
<1>5. CASE \E r \in Readers : InRead(r)
  BY <1>1, <1>5, ReaderFrame
<1>6. CASE \E r \in Readers, req \in Requests : CallRead(r, req)
  BY <1>1, <1>6 DEF CallRead, history
<1>7. CASE Release \/ FinishClose \/ Destroy \/ Save \/ UNCHANGED vars
  BY <1>1, <1>7 DEF Release, FinishClose, Destroy, Save, vars, history
<1>8. CASE Reopen \/ Crash
  BY <1>8 DEF Reopen, Crash, Construct, NewBuffer, SpillInv
<1>9. QED
  BY StepCases, <1>2, <1>3, <1>4, <1>5, <1>6, <1>7, <1>8
-----------------------------------------------------------------------------
(* The song as slices. *)

LEMMA SongByteInt ==
  ASSUME NEW i \in Int
  PROVE  SongByte(i) \in Int
  BY PrependSizeType DEF SongByte

LEMMA SliceLen ==
  ASSUME NEW a \in Int, NEW b \in Int
  PROVE  /\ Slice(a, b) \in Seq(Int)
         /\ a <= b => Len(Slice(a, b)) = b - a
         /\ b <= a => Slice(a, b) = <<>>
<1>1. \A i \in 1 .. b - a : SongByte(a + i - 1) \in Int
  BY SongByteInt
<1>2. CASE a <= b
  <2>1. b - a \in Nat
    BY <1>2
  <2>2. Slice(a, b) \in [1 .. b - a -> Int]
    BY <1>1 DEF Slice
  <2>3. Slice(a, b) \in Seq(Int) /\ Len(Slice(a, b)) = b - a
    BY <2>1, <2>2
  <2>4. b <= a => b - a = 0
    BY <1>2
  <2>5. QED
    BY <2>3, <2>4
<1>3. CASE b < a
  <2>1. 1 .. b - a = 1 .. 0
    BY <1>3
  <2>2. Slice(a, b) = [i \in 1 .. 0 |-> SongByte(a + i - 1)]
    BY <2>1 DEF Slice
  <2>3. Slice(a, b) = <<>>
    BY <2>2
  <2>4. QED
    BY <1>3, <2>3
<1>4. QED
  BY <1>2, <1>3

LEMMA SliceConcat ==
  ASSUME NEW a \in Int, NEW b \in Int, NEW c \in Int, a <= b, b <= c
  PROVE  Slice(a, b) \o Slice(b, c) = Slice(a, c)
<1> DEFINE s == Slice(a, b)
           t == Slice(b, c)
           u == Slice(a, c)
<1>1. /\ s \in Seq(Int) /\ t \in Seq(Int) /\ u \in Seq(Int)
      /\ Len(s) = b - a /\ Len(t) = c - b /\ Len(u) = c - a
  BY SliceLen
<1>2. /\ \A i \in 1 .. b - a : s[i] = SongByte(a + i - 1)
      /\ \A i \in 1 .. c - b : t[i] = SongByte(b + i - 1)
      /\ \A i \in 1 .. c - a : u[i] = SongByte(a + i - 1)
  BY DEF Slice
<1> HIDE DEF s, t, u
<1>3. /\ s \o t \in Seq(Int) /\ Len(s \o t) = c - a
      /\ \A i \in 1 .. c - a :
            (s \o t)[i] = IF i <= b - a THEN s[i] ELSE t[i - (b - a)]
  <2>1. /\ s \o t \in Seq(Int)
        /\ Len(s \o t) = Len(s) + Len(t)
        /\ \A i \in 1 .. Len(s) + Len(t) : (s \o t)[i] =
                     IF i <= Len(s) THEN s[i] ELSE t[i - Len(s)]
    BY <1>1, ConcatProperties
  <2>2. Len(s) + Len(t) = c - a
    BY <1>1
  <2>3. QED
    BY <1>1, <2>1, <2>2
<1>4. \A i \in 1 .. c - a : (s \o t)[i] = u[i]
  <2> SUFFICES ASSUME NEW i \in 1 .. c - a PROVE (s \o t)[i] = u[i]
    OBVIOUS
  <2>1. CASE i <= b - a
    BY <1>2, <1>3, <2>1
  <2>2. CASE ~ (i <= b - a)
    <3>1. i - (b - a) \in 1 .. c - b /\ b + (i - (b - a)) - 1 = a + i - 1
      BY <2>2
    <3>2. t[i - (b - a)] = SongByte(b + (i - (b - a)) - 1)
      BY <1>2, <3>1
    <3>3. (s \o t)[i] = t[i - (b - a)]
      BY <1>3, <2>2
    <3>4. u[i] = SongByte(a + i - 1)
      BY <1>2
    <3>5. QED
      BY <3>1, <3>2, <3>3, <3>4
  <2>3. QED
    BY <2>1, <2>2
<1>5. s \o t = u
  BY <1>1, <1>3, <1>4, SeqEqual
<1>6. QED
  BY <1>5 DEF s, t, u

LEMMA TagSlice == Tag = Slice(0, TagLen)
<1>1. \A i \in 1 .. TagLen : - i = SongByte(0 + i - 1)
  BY PrependSizeType DEF SongByte
<1>2. TagLen - 0 = TagLen
  BY PrependSizeType
<1>3. QED
  BY <1>1, <1>2 DEF Tag, Slice

LEMMA BytesSlice ==
  ASSUME NEW a \in Int, NEW b \in Int, Replaced <= a
  PROVE  Bytes(a, b) = Slice(a + PrependSize, b + PrependSize)
<1>1. \A i \in 1 .. b - a : a + i - 1 = SongByte(a + PrependSize + i - 1)
  BY PrependSizeType DEF SongByte
<1>2. (b + PrependSize) - (a + PrependSize) = b - a
  BY PrependSizeType
<1>3. QED
  BY <1>1, <1>2 DEF Bytes, Slice

LEMMA VirtualSlice == VirtualFile = Slice(0, TotalSize)
<1>1. Bytes(Replaced, StreamLen) = Slice(Replaced + PrependSize, StreamLen + PrependSize)
  BY BytesSlice, PrependSizeType
<1>2. Replaced + PrependSize = TagLen /\ StreamLen + PrependSize = TotalSize
      /\ TagLen <= TotalSize /\ 0 <= TagLen
  BY PrependSizeType
<1>3. Slice(0, TagLen) \o Slice(TagLen, TotalSize) = Slice(0, TotalSize)
  BY <1>2, SliceConcat, PrependSizeType
<1>4. QED
  BY <1>1, <1>2, <1>3, TagSlice DEF VirtualFile
-----------------------------------------------------------------------------
(* Cells that stand for bytes of the song. *)

LEMMA CoversKept ==
  ASSUME NEW l, NEW m, l => m, NEW cells, NEW a, NEW b, Covers(l, cells, a, b)
  PROVE  Covers(m, cells, a, b)
  BY DEF Covers, Stands

(* The bytes themselves stand for them. *)
LEMMA SliceCovers ==
  ASSUME NEW l, NEW a \in Int, NEW b \in Int, NEW cells \in Seq(Cell),
         cells = Slice(a, b)
  PROVE  Covers(l, cells, a, b)
<1>1. Len(cells) = Larger(b - a, 0)
  <2>1. CASE a <= b
    <3>1. Len(cells) = b - a
      BY <2>1, SliceLen
    <3>2. QED
      BY <2>1, <3>1 DEF Larger
  <2>2. CASE b < a
    <3>1. cells = <<>>
      BY <2>2, SliceLen
    <3>2. QED
      BY <2>2, <3>1 DEF Larger
  <2>3. QED
    BY <2>1, <2>2
<1>2. \A i \in 1 .. b - a : cells[i] = SongByte(a + i - 1)
  BY DEF Slice
<1>3. 1 .. Len(cells) \subseteq 1 .. b - a
  BY <1>1 DEF Larger
<1>4. \A i \in 1 .. Len(cells) : Stands(l, cells[i], a + i - 1)
  BY <1>2, <1>3 DEF Stands
<1>5. QED
  BY <1>1, <1>4 DEF Covers

LEMMA CoversConcat ==
  ASSUME NEW l, NEW s, NEW u, NEW a \in Int, NEW b \in Int, NEW c \in Int,
         a <= b, b <= c, Covers(l, s, a, b), Covers(l, u, b, c)
  PROVE  Covers(l, s \o u, a, c)
<1>1. /\ s \in Seq(Cell) /\ u \in Seq(Cell) /\ Len(s) = b - a /\ Len(u) = c - b
  BY DEF Covers, Larger
<1>2. /\ s \o u \in Seq(Cell) /\ Len(s \o u) = Len(s) + Len(u)
      /\ \A i \in 1 .. Len(s) + Len(u) : (s \o u)[i] =
                     IF i <= Len(s) THEN s[i] ELSE u[i - Len(s)]
  BY <1>1, ConcatProperties
<1>3. Len(s \o u) = Larger(c - a, 0)
  BY <1>1, <1>2 DEF Larger
<1>4. ASSUME NEW i \in 1 .. Len(s \o u)
      PROVE  Stands(l, (s \o u)[i], a + i - 1)
  <2>1. i \in Int /\ 1 <= i /\ i <= (b - a) + (c - b)
    BY <1>1, <1>2
  <2>2. CASE i <= b - a
    <3>1. (s \o u)[i] = s[i] /\ i \in 1 .. Len(s)
      BY <1>1, <1>2, <2>1, <2>2
    <3>2. QED
      BY <3>1 DEF Covers
  <2>3. CASE ~ (i <= b - a)
    <3> DEFINE j == i - (b - a)
    <3>1. (s \o u)[i] = u[j] /\ j \in 1 .. Len(u) /\ b + j - 1 = a + i - 1
      BY <1>1, <1>2, <2>1, <2>3
    <3>2. Stands(l, u[j], b + j - 1)
      BY <3>1 DEF Covers
    <3> HIDE DEF j
    <3>3. QED
      BY <3>1, <3>2
  <2>4. QED
    BY <2>2, <2>3
<1>5. QED
  BY <1>2, <1>3, <1>4 DEF Covers

LEMMA CoversSub ==
  ASSUME NEW l, NEW cells, NEW a \in Nat, NEW b \in Int, NEW c \in Nat, a <= b, b <= c,
         Covers(l, cells, 0, c)
  PROVE  Covers(l, SubSeq(cells, a + 1, b), a, b)
<1>1. cells \in Seq(Cell) /\ Len(cells) = c
  BY DEF Covers, Larger
<1>2. /\ a + 1 \in Int /\ b \in Int
      /\ \A i \in a + 1 .. b : cells[i] \in Cell
  BY <1>1
<1>3. /\ SubSeq(cells, a + 1, b) \in Seq(Cell)
      /\ Len(SubSeq(cells, a + 1, b)) = b - a
      /\ \A i \in 1 .. b - a : SubSeq(cells, a + 1, b)[i] = cells[a + i]
  <2>1. SubSeq(cells, a + 1, b) \in Seq(Cell)
    BY <1>2, SubSeqProperties
  <2>2. SubSeq(cells, a + 1, b) = [i \in 1 .. (1 + b - (a + 1)) |-> cells[i + (a + 1) - 1]]
    OBVIOUS
  <2>3. 1 + b - (a + 1) = b - a /\ \A i \in Int : i + (a + 1) - 1 = a + i
    OBVIOUS
  <2>4. SubSeq(cells, a + 1, b) = [i \in 1 .. b - a |-> cells[a + i]]
    BY <2>2, <2>3
  <2>5. QED
    BY <2>1, <2>4
<1>4. ASSUME NEW i \in 1 .. b - a
      PROVE  Stands(l, cells[a + i], a + i - 1)
  <2>1. a + i \in 1 .. Len(cells) /\ 0 + (a + i) - 1 = a + i - 1
    BY <1>1
  <2>2. Stands(l, cells[a + i], 0 + (a + i) - 1)
    BY <2>1 DEF Covers
  <2>3. QED
    BY <2>1, <2>2
<1>5. Larger(b - a, 0) = b - a
  BY DEF Larger
<1>6. QED
  BY <1>3, <1>4, <1>5 DEF Covers

(* What is read back out of the buffer stands for that part of the song.   *)
LEMMA ReadBackCovers ==
  ASSUME SpillInv, TypeOK, NEW from \in Nat, NEW to \in Int,
         Replaced <= from, from <= to, to <= buffer.len
  PROVE  Covers(lost, ReadBack(from, to), from + PrependSize, to + PrependSize)
<1>1. buffer.len \in Nat /\ buffer.len <= StreamLen /\ buffer.readable \in Nat
      /\ InMemory \in Nat
  <2>1. buffer \in BufferRecord
    BY DEF TypeOK, BufferRecord
  <2>2. QED
    BY <2>1, SizesAssumption DEF BufferRecord
<1>2. ReadBack(from, to) \in Seq(Cell) /\ Len(ReadBack(from, to)) = to - from
  <2>1. to \in Nat /\ to <= StreamLen
    BY <1>1, SizesAssumption
  <2>2. QED
    BY <2>1, ReadBackLen, Zenon
<1>3. Len(ReadBack(from, to)) = Larger((to + PrependSize) - (from + PrependSize), 0)
  BY <1>2, PrependSizeType DEF Larger
<1>4. ASSUME NEW i \in 1 .. to - from
      PROVE  Stands(lost, ReadBack(from, to)[i], from + PrependSize + i - 1)
  <2>1. ReadBack(from, to)[i] = IF from + i - 1 < buffer.readable THEN from + i - 1 ELSE Junk
    BY DEF ReadBack
  <2>2. SongByte(from + PrependSize + i - 1) = from + i - 1
    BY PrependSizeType DEF SongByte
  <2>3. CASE from + i - 1 < buffer.readable
    BY <2>1, <2>2, <2>3 DEF Stands
  <2>4. CASE ~ (from + i - 1 < buffer.readable)
    <3>1. lost /\ InMemory <= buffer.readable
      BY <1>1, <2>4 DEF SpillInv
    <3>2. (from + PrependSize + i - 1) - PrependSize >= InMemory
      BY <1>1, <2>4, <3>1, PrependSizeType
    <3>3. QED
      BY <2>1, <2>4, <3>1, <3>2 DEF Stands
  <2>5. QED
    BY <2>3, <2>4
<1>5. QED
  BY <1>2, <1>3, <1>4 DEF Covers

LEMMA ContentOpener ==
  ASSUME Base, OpenInv, ResumeInv, AppendInv, StageInv, SpillInv, ContentInv, Opener
  PROVE  ContentInv'
<1>0. IInv /\ TypeOK /\ ControlInv /\ StreamInv
  BY DEF Base, IInv
<1>t. /\ file.size \in Nat /\ file.prepend \in Int
      /\ stream.pos \in Nat /\ stream.pos <= StreamLen /\ inHand \in Nat
      /\ drained \in Nat /\ buffer.len \in Nat /\ buffer.len <= StreamLen
      /\ BlockSize \in Nat
  BY <1>0, SizesAssumption DEF TypeOK
<1>f. UNCHANGED <<recorded, crashes, lost>>
  BY OpenerFrame
<1>1. CASE OpenFile
  <2>1. Covers(lost, <<>>, 0, 0)
    BY DEF Covers, Larger
  <2>2. file'.size = file.size /\ FileUsable' /\ disk' = IF file.size = 0 THEN <<>> ELSE disk
    BY <1>1, OpenFileStep
  <2>3. QED
    BY <1>f, <2>1, <2>2 DEF ContentInv
<1>2. CASE WriteTag
  <2>1. /\ FileUsable' /\ file.size = 0 /\ file'.size = TagLen /\ disk' = disk \o Tag
    BY <1>2, WriteTagStep
  <2>2. Covers(lost, Tag, 0, TagLen) /\ TagLen \in Int /\ 0 <= TagLen
    BY TagSlice, TagCells, SliceCovers, PrependSizeType
  <2>3. crashes = 0 => Covers(lost, disk', 0, TagLen)
    BY <2>1, <2>2, CoversConcat DEF ContentInv
  <2>4. TagLen <= TotalSize
    BY PrependSizeType
  <2>5. QED
    BY <1>f, <2>1, <2>3, <2>4 DEF ContentInv
<1>3. CASE Drain
  <2> DEFINE to == Smaller(DrainFrom + BlockSize, buffer.len)
  <2>1. /\ FileUsable' /\ disk' = disk \o DrainBlock
        /\ file.size = TagLen + drained /\ file'.size = TagLen + drained'
        /\ DrainFrom <= to /\ drained' + Replaced = to /\ drained' \in Nat
    BY <1>3, DrainStep
  <2>2. DrainBlock = ReadBack(DrainFrom, to)
    BY DEF DrainBlock
  <2>3. to \in Int /\ to <= buffer.len /\ to <= StreamLen
    BY <1>t, PrependSizeType DEF to, Smaller, DrainFrom
  <2> HIDE DEF to
  <2>4. /\ DrainFrom \in Int /\ Replaced <= DrainFrom
        /\ DrainFrom + PrependSize = file.size /\ to + PrependSize = file'.size
        /\ file'.size <= TotalSize
    <3>1. DrainFrom = drained + Replaced /\ drained' = to - Replaced
      <4>1. drained' + Replaced = to /\ drained' \in Nat /\ Replaced \in Nat
        BY <2>1, PrependSizeType
      <4>2. QED
        BY <4>1 DEF DrainFrom
    <3>2. DrainFrom \in Int /\ Replaced <= DrainFrom
      BY <1>t, <3>1, PrependSizeType
    <3>3. DrainFrom + PrependSize = TagLen + drained
      BY <1>t, <3>1, PrependSizeType
    <3>4. to + PrependSize = TagLen + drained' /\ to + PrependSize <= TotalSize
      BY <2>3, <3>1, PrependSizeType
    <3>5. QED
      BY <2>1, <3>2, <3>3, <3>4
  <2>5. Covers(lost, disk, 0, file.size) => Covers(lost, disk \o DrainBlock, 0, file'.size)
    <3>1. DrainFrom \in Nat
      BY <2>4, PrependSizeType
    <3>2. Covers(lost, ReadBack(DrainFrom, to), DrainFrom + PrependSize, to + PrependSize)
      BY <1>0, <2>1, <2>3, <2>4, <3>1, ReadBackCovers
    <3>3. file.size \in Int /\ file'.size \in Int /\ 0 <= file.size /\ file.size <= file'.size
      <4>1. DrainFrom + PrependSize <= to + PrependSize /\ to + PrependSize \in Int
        BY <2>1, <2>3, <2>4, PrependSizeType
      <4>2. file.size <= file'.size /\ file'.size \in Int
        BY <2>4, <4>1
      <4>3. QED
        BY <1>t, <4>2
    <3>4. Covers(lost, DrainBlock, file.size, file'.size)
      BY <2>2, <2>4, <3>2
    <3>5. QED
      BY <3>3, <3>4, CoversConcat
  <2>6. QED
    BY <1>f, <2>1, <2>4, <2>5 DEF ContentInv
<1>4. CASE WriteBlock
  <2>1. /\ opener = "write" /\ FileUsable' = FileUsable
        /\ FileUsable => /\ file'.size = file.size + inHand /\ disk' = disk \o InHandBlock
                         /\ stream.pos - inHand = file.size - file.prepend
        /\ ~ FileUsable => UNCHANGED <<file, disk>>
    BY <1>4, WriteBlockStep
  <2>2. CASE FileUsable
    <3>1. file.size >= TagLen /\ file.prepend = PrependSize
      <4>1. Resumable(file) /\ file.size >= TagLen
        BY <2>1 DEF ResumeInv
      <4>2. QED
        BY <1>t, <4>1, PrependSizeType DEF Resumable
    <3>2. /\ stream.pos - inHand \in Int /\ Replaced <= stream.pos - inHand
          /\ stream.pos - inHand <= stream.pos
          /\ (stream.pos - inHand) + PrependSize = file.size
          /\ stream.pos + PrependSize = file'.size /\ file'.size <= TotalSize
      <4>1. /\ stream.pos - inHand = file.size - PrependSize
            /\ file'.size = file.size + inHand
        BY <2>1, <2>2, <3>1
      <4>2. /\ stream.pos - inHand \in Int /\ stream.pos - inHand <= stream.pos
            /\ (stream.pos - inHand) + PrependSize = file.size
            /\ stream.pos + PrependSize = file.size + inHand
            /\ stream.pos + PrependSize <= TotalSize
        BY <1>t, <4>1, PrependSizeType
      <4>3. Replaced <= stream.pos - inHand
        BY <1>t, <3>1, <4>1, PrependSizeType
      <4>4. QED
        BY <4>1, <4>2, <4>3
    <3>3. Covers(lost, disk, 0, file.size) => Covers(lost, disk \o InHandBlock, 0, file'.size)
      <4>1. InHandBlock = Slice(file.size, file'.size)
        BY <1>t, <3>2, BytesSlice DEF InHandBlock
      <4>2. file.size \in Int /\ file'.size \in Int /\ 0 <= file.size /\ file.size <= file'.size
        BY <1>t, <3>2, PrependSizeType
      <4>3. Covers(lost, InHandBlock, file.size, file'.size)
        BY <1>0, <4>1, <4>2, SliceCovers, BlockTypes
      <4>4. QED
        BY <4>2, <4>3, CoversConcat
    <3>4. QED
      BY <1>f, <2>1, <2>2, <3>2, <3>3 DEF ContentInv
  <2>3. CASE ~ FileUsable
    BY <1>f, <2>1, <2>3 DEF ContentInv
  <2>4. QED
    BY <2>2, <2>3
<1>5. CASE SetPrepend
  <2>1. UNCHANGED disk /\ file' = IF FileUsable THEN [file EXCEPT !.prepend = PrependSize] ELSE file
    BY <1>5 DEF SetPrepend, cacheVars
  <2>2. file \in FileRecord
    BY <1>0 DEF TypeOK, FileRecord
  <2>3. file'.size = file.size /\ file'.opened = file.opened /\ file'.closed = file.closed
    BY <2>1, <2>2 DEF FileRecord
  <2>4. QED
    BY <1>f, <2>1, <2>3 DEF ContentInv, FileUsable
<1>6. CASE \/ OpenStream \/ CheckSize \/ Parse \/ StopAppend \/ AwaitAppend
           \/ SetOpened \/ Download \/ SetThread \/ FailOpened \/ RaiseError \/ FailThread
  <2>1. UNCHANGED <<file, disk>>
    BY <1>6 DEF OpenStream, CheckSize, Parse, StopAppend, AwaitAppend, SetOpened, Download,
                SetThread, FailOpened, RaiseError, FailThread, cacheVars
  <2>2. QED
    BY <1>f, <2>1 DEF ContentInv, FileUsable
<1>7. QED
  BY <1>1, <1>2, <1>3, <1>4, <1>5, <1>6 DEF Opener

LEMMA ContentNext ==
  ASSUME Base, OpenInv, ResumeInv, AppendInv, StageInv, SpillInv, ContentInv, [Next]_vars
  PROVE  ContentInv'
<1>0. IInv /\ TypeOK
  BY DEF Base, IInv
<1>1. ASSUME UNCHANGED <<file, disk, recorded, crashes>>, lost => lost'
      PROVE  ContentInv'
  BY <1>1, CoversKept DEF ContentInv, FileUsable
<1>2. ASSUME FileClose, UNCHANGED <<disk, crashes, lost>>
      PROVE  ContentInv'
  <2>1. /\ file'.size = file.size
        /\ IF FileUsable THEN recorded' = [size |-> file.size, prepend |-> file.prepend]
           ELSE recorded' = recorded
    BY <1>0, <1>2, FileCloseEffect
  <2>2. recorded'.size = file.size
    BY <2>1 DEF ContentInv
  <2>3. QED
    BY <1>2, <2>1, <2>2 DEF ContentInv
<1>3. CASE Appender
  BY <1>1, <1>3, AppenderFrame
<1>4. CASE \E r \in Readers : InRead(r)
  <2>1. PICK r \in Readers : InRead(r)
    BY <1>4
  <2>2. /\ UNCHANGED <<disk, crashes, lost>>
        /\ UNCHANGED <<file, recorded>> \/ FileClose
    BY <2>1, ReaderFrame
  <2>3. QED
    BY <1>1, <1>2, <2>2
<1>5. CASE \E r \in Readers, req \in Requests : CallRead(r, req)
  BY <1>1, <1>5 DEF CallRead, cacheVars, history
<1>6. CASE Release
  BY <1>2, <1>6 DEF Release, history
<1>7. CASE FinishClose \/ Destroy \/ Save \/ UNCHANGED vars
  BY <1>1, <1>7 DEF FinishClose, Destroy, Save, vars, cacheVars, history
<1>8. CASE Reopen
  <2>1. /\ UNCHANGED <<disk, recorded, crashes, lost>> /\ owner = "freed"
        /\ file' = NewFile(recorded)
    BY <1>8 DEF Reopen, Construct, cacheVars
  <2>2. recorded.size = file.size
    BY <2>1 DEF OpenInv, ContentInv
  <2>3. file'.size = recorded.size
    BY <2>1 DEF NewFile
  <2>4. QED
    BY <2>1, <2>2, <2>3 DEF ContentInv
<1>9. CASE Crash
  <2>1. /\ crashes' = crashes + 1 /\ recorded' = saved /\ file' = NewFile(saved)
    BY <1>9 DEF Crash, Construct
  <2>2. crashes \in Nat
    BY <1>0, SizesAssumption DEF TypeOK
  <2>3. crashes' # 0 /\ recorded'.size = file'.size
    BY <2>1, <2>2 DEF NewFile
  <2>4. QED
    BY <2>3 DEF ContentInv
<1>10. CASE LoseSpill
  <2>1. UNCHANGED <<file, disk, recorded, crashes>> /\ lost'
    BY <1>0, <1>10, LoseFrame
  <2>2. QED
    BY <1>1, <2>1
<1>11. QED
  BY StepCases, ContentOpener, <1>3, <1>4, <1>5, <1>6, <1>7, <1>8, <1>9, <1>10
-----------------------------------------------------------------------------
(* What a partial request yields behind the tag. *)
LEMMA PartialSlice ==
  ASSUME NEW from \in Nat, NEW n \in Nat, TagLen <= from
  PROVE  PartialRead(from - PrependSize, n) = Slice(from, Smaller(from + n, TotalSize))
<1> DEFINE offset == from - PrependSize
           last   == Smaller(offset + n, StreamLen)
           until  == Smaller(from + n, TotalSize)
<1>1. /\ offset \in Nat /\ Replaced <= offset /\ last \in Int /\ until \in Int
      /\ offset + PrependSize = from /\ last + PrependSize = until
  BY PrependSizeType DEF Smaller
<1>2. CASE offset \in 0 .. StreamLen - 1
  <2>1. PartialRead(offset, n) = Bytes(offset, last)
    BY <1>2 DEF PartialRead
  <2> HIDE DEF offset, last, until
  <2>2. Bytes(offset, last) = Slice(offset + PrependSize, last + PrependSize)
    BY <1>1, BytesSlice
  <2>3. PartialRead(offset, n) = Slice(from, until)
    BY <1>1, <2>1, <2>2
  <2>4. QED
    BY <2>3 DEF offset, until
<1>3. CASE offset \notin 0 .. StreamLen - 1
  <2>1. PartialRead(offset, n) = <<>>
    BY <1>3 DEF PartialRead
  <2>2. until <= from
    BY <1>1, <1>3, PrependSizeType DEF Smaller
  <2> HIDE DEF until
  <2>3. Slice(from, until) = <<>>
    BY <1>1, <2>2, SliceLen
  <2>4. QED
    BY <2>1, <2>3 DEF until
<1>4. QED
  BY <1>2, <1>3

(* What has been taken from the file and what is then taken from the server*)
(* are together what was asked for.                                        *)
LEMMA Joined ==
  ASSUME NEW l, NEW start \in Nat, NEW size \in Nat \ {0}, NEW seen \in Nat,
         TagLen <= seen, seen <= TotalSize, seen < start + size,
         NEW got, Covers(l, got, start, seen)
  PROVE  Covers(l, got \o PartialRead(Larger(start, seen) - PrependSize,
                                     start + size - Larger(start, seen)),
                start, Smaller(start + size, TotalSize))
<1> DEFINE from  == Larger(start, seen)
           until == Smaller(start + size, TotalSize)
           rest  == PartialRead(from - PrependSize, start + size - from)
<1>1. /\ from \in Nat /\ TagLen <= from /\ start + size - from \in Nat
      /\ from + (start + size - from) = start + size /\ until \in Nat
  BY PrependSizeType DEF Larger, Smaller
<1>2. rest = Slice(from, until)
  <2>1. \A f \in Nat, n \in Nat : TagLen <= f =>
           PartialRead(f - PrependSize, n) = Slice(f, Smaller(f + n, TotalSize))
    BY PartialSlice
  <2>2. rest = Slice(from, Smaller(from + (start + size - from), TotalSize))
    BY <1>1, <2>1, Zenon
  <2>3. QED
    BY <1>1, <2>2
<1>3. rest \in Seq(Cell)
  <2>1. from - PrependSize \in Int /\ start + size - from \in Int
    BY <1>1, PrependSizeType
  <2> HIDE DEF from
  <2>2. QED
    BY <2>1, PartialReadCells
<1> HIDE DEF rest
<1>4. Covers(l, rest, from, until)
  BY <1>1, <1>2, <1>3, SliceCovers
<1>5. CASE start <= seen
  <2>1. from = seen /\ seen <= until /\ start \in Int /\ seen \in Int /\ until \in Int
    BY <1>1, <1>5, PrependSizeType DEF Larger, Smaller
  <2> HIDE DEF from, until
  <2>2. Covers(l, got \o rest, start, until)
    BY <1>4, <1>5, <2>1, CoversConcat
  <2>3. QED
    BY <2>2 DEF from, until, rest
<1>6. CASE seen < start
  <2>1. from = start
    BY <1>6 DEF Larger
  <2> HIDE DEF from, until
  <2>2. got = <<>>
    BY <1>6 DEF Covers, Larger
  <2>3. got \o rest = rest
    BY <1>3, <2>2
  <2>4. Covers(l, got \o rest, start, until)
    BY <1>4, <2>1, <2>3
  <2>5. QED
    BY <2>4 DEF from, until, rest
<1>7. QED
  BY <1>5, <1>6

(* A reader keeps what it has while the others go on. *)
LEMMA ReaderKept ==
  ASSUME TypeOK, FileType', NEW r \in Readers, ReaderHas(r),
         reader'[r] = reader[r], request'[r] = request[r], seenSize'[r] = seenSize[r],
         result'[r] = result[r], crashes' = crashes, lost => lost',
         promise.opened = "value" => promise'.opened = "value",
         file.size <= file'.size, file.closed => file'.closed
  PROVE  ReaderHas(r)'
<1>1. /\ seenSize[r] \in Nat /\ file.size \in Nat /\ file'.size \in Nat
  BY DEF TypeOK, FileType
<1>2. seenSize[r] <= file.size => seenSize'[r] <= file'.size
  BY <1>1
<1>3. \A a, b : Covers(lost, result[r].bytes, a, b) => Covers(lost', result[r].bytes, a, b)
  BY CoversKept
<1>4. QED
  BY <1>2, <1>3 DEF ReaderHas, Returned

(* What a step of the reader itself leaves it. *)
LEMMA ReaderOwnStep ==
  ASSUME Base, OpenInv, ResumeInv, ContentInv, NEW r \in Readers, ReaderHas(r), InRead(r)
  PROVE  ReaderHas(r)'
<1>0. IInv /\ TypeOK /\ SizeInv
  BY DEF Base, IInv
<1> DEFINE start == request[r].start
           size  == request[r].size
<1>t. /\ reader \in [Readers -> ReaderStates]
      /\ seenSize \in [Readers -> Nat] /\ seenSize[r] \in Nat
      /\ result \in [Readers -> [status : {"none", "bytes", "error"}, bytes : Seq(Cell)]]
      /\ start \in Nat /\ size \in Nat /\ size > 0 /\ file.size \in Nat
      /\ promise.opened \in PromiseStates /\ promise.opened # "future_error"
  BY <1>0 DEF TypeOK, Base, NoFutureError
<1>1. CASE AwaitOpen(r) \/ CheckError(r) \/ AwaitThread(r)
  <2>1. UNCHANGED <<promise, file, seenSize, request, result, crashes, lost>>
    BY <1>1 DEF AwaitOpen, CheckError, AwaitThread, procVars, history
  <2>2. /\ reader'[r] \in {"closeStream", "checkError", "awaitThread", "size"}
        /\ reader'[r] # "closeStream" => promise.opened = "value"
    BY <1>1, <1>t DEF AwaitOpen, CheckError, AwaitThread, ReaderMove, PromiseStates, ReaderHas
  <2>3. QED
    BY <2>1, <2>2 DEF ReaderHas, Returned
<1>2. CASE ReadSize(r)
  <2>1. /\ UNCHANGED <<promise, file, request, crashes, lost>>
        /\ reader[r] = "size"
        /\ reader'[r] = IF start < file.size THEN "fromFile" ELSE "fromStream"
        /\ seenSize'[r] = file.size /\ result'[r].bytes = <<>>
    BY <1>2, <1>t DEF ReadSize, ReaderMove, NoResult, procVars, history
  <2>2. promise.opened = "value" /\ file.size >= TagLen
    BY <2>1 DEF ReaderHas, ResumeInv
  <2>3. file.size <= start => file.size < start + size /\ Covers(lost, <<>>, start, file.size)
    BY <1>t DEF Covers, Larger
  <2>4. /\ reader'[r] \in {"fromFile", "fromStream"}
        /\ TagLen <= seenSize'[r] /\ seenSize'[r] <= file'.size
    BY <1>t, <2>1, <2>2
  <2>5. reader'[r] = "fromStream" => file.size <= start
    BY <1>t, <2>1
  <2>6. QED
    BY <2>1, <2>2, <2>3, <2>4, <2>5 DEF ReaderHas, Returned
<1>3. CASE FromFile(r)
  <2> DEFINE taken == Smaller(size, seenSize[r] - start)
             whole == start + size <= seenSize[r]
  <2>1. /\ UNCHANGED <<promise, file, request, seenSize, crashes, lost>> /\ reader[r] = "fromFile"
        /\ reader'[r] = IF whole THEN "idle" ELSE "fromStream"
        /\ result'[r].bytes = FileRead(start, taken)
    BY <1>3, <1>t DEF FromFile, ReaderMove, Return, procVars, history
  <2>2. /\ promise.opened = "value" /\ start < seenSize[r]
        /\ TagLen <= seenSize[r] /\ seenSize[r] <= file.size
    BY <1>0, <2>1 DEF ReaderHas, SizeInv
  <2>3. ASSUME crashes = 0, ~ file.closed
        PROVE  /\ Covers(lost, result'[r].bytes, start, start + taken)
               /\ file.size <= TotalSize
    <3>1. FileUsable /\ Covers(lost, disk, 0, file.size) /\ file.size <= TotalSize
      BY <2>2, <2>3 DEF OpenInv, ContentInv, FileUsable
    <3>2. /\ start + taken \in Int /\ start + taken <= file.size /\ start <= start + taken
      BY <1>t, <2>2 DEF Smaller
    <3> HIDE DEF taken
    <3>3. Covers(lost, SubSeq(disk, start + 1, start + taken), start, start + taken)
      BY <1>t, <3>1, <3>2, CoversSub
    <3>4. QED
      BY <2>1, <3>1, <3>3 DEF FileRead
  <2>4. CASE whole
    <3>1. reader'[r] = "idle" /\ taken = size
      BY <1>t, <2>1, <2>2, <2>4 DEF Smaller
    <3>2. file.size <= TotalSize => Smaller(start + size, TotalSize) = start + size
      BY <1>t, <2>2, <2>4, PrependSizeType DEF Smaller
    <3>3. crashes = 0 /\ ~ file.closed =>
            Covers(lost, result'[r].bytes, start, Smaller(start + size, TotalSize))
      BY <2>3, <3>1, <3>2
    <3>4. QED
      BY <2>1, <3>1, <3>3 DEF ReaderHas
  <2>5. CASE ~ whole
    <3>1. reader'[r] = "fromStream" /\ start + taken = seenSize[r] /\ seenSize[r] < start + size
      BY <1>t, <2>1, <2>2, <2>5 DEF Smaller
    <3>2. crashes = 0 /\ ~ file.closed => Covers(lost, result'[r].bytes, start, seenSize[r])
      BY <2>3, <3>1
    <3>3. QED
      BY <2>1, <2>2, <3>1, <3>2 DEF ReaderHas, Returned
  <2>6. QED
    BY <2>4, <2>5
<1>4. CASE FromStream(r)
  <2> DEFINE from == Larger(start, seenSize[r])
             part == PartialRead(from - proc.prependSize, start + size - from)
  <2>1. /\ UNCHANGED <<promise, file, request, seenSize, crashes, lost>> /\ reader[r] = "fromStream"
        /\ \/ reader'[r] = "idle" /\ result'[r].bytes = result[r].bytes \o part
           \/ reader'[r] = "closeStream"
    <3> DEFINE all == result[r].bytes \o part
    <3>1. /\ UNCHANGED <<promise, file, request, seenSize, crashes, lost>>
          /\ reader[r] = "fromStream"
          /\ \/ /\ reader' = [reader EXCEPT ![r] = "idle"]
                /\ result' = [result EXCEPT ![r] = [status |-> "bytes", bytes |-> all]]
             \/ reader' = [reader EXCEPT ![r] = "closeStream"]
      BY <1>4 DEF FromStream, ReaderMove, Return, procVars, history
    <3> HIDE DEF all
    <3>2. \/ reader'[r] = "idle" /\ result'[r].bytes = all
          \/ reader'[r] = "closeStream"
      BY <1>t, <3>1
    <3>3. QED
      BY <3>1, <3>2 DEF all
  <2>2. /\ promise.opened = "value" /\ proc.prependSize = PrependSize
        /\ TagLen <= seenSize[r] /\ seenSize[r] <= file.size
    BY <2>1 DEF ReaderHas, ResumeInv
  <2>3. ASSUME crashes = 0, ~ file.closed
        PROVE  Covers(lost, result[r].bytes \o part, start, Smaller(start + size, TotalSize))
    <3>1. /\ seenSize[r] < start + size /\ Covers(lost, result[r].bytes, start, seenSize[r])
          /\ file.size <= TotalSize
      BY <2>1, <2>3 DEF ReaderHas, ContentInv
    <3>2. seenSize[r] <= TotalSize /\ size \in Nat \ {0}
      BY <1>t, <2>2, <3>1, PrependSizeType
    <3>3. part = PartialRead(from - PrependSize, start + size - from)
      BY <2>2
    <3>4. Covers(lost, result[r].bytes \o PartialRead(from - PrependSize, start + size - from),
                 start, Smaller(start + size, TotalSize))
      BY <1>t, <2>2, <3>1, <3>2, Joined, Zenon
    <3>5. QED
      BY <3>3, <3>4, Zenon
  <2> HIDE DEF part
  <2>4. QED
    BY <2>1, <2>2, <2>3 DEF ReaderHas, Returned
<1>5. CASE CloseStream(r) \/ CloseFile(r)
  <2>1. reader'[r] \in {"closeFile", "setClosed"}
    BY <1>5, <1>t DEF CloseStream, CloseFile, ReaderMove
  <2>2. QED
    BY <2>1 DEF ReaderHas, Returned
<1>6. CASE SetClosed(r)
  <2>1. reader'[r] = "idle" /\ result'[r].status = "error"
    BY <1>6, <1>t DEF SetClosed, ReaderMove
  <2>2. QED
    BY <2>1 DEF ReaderHas, Returned
<1>7. QED
  BY <1>1, <1>2, <1>3, <1>4, <1>5, <1>6 DEF InRead

LEMMA ReadNext ==
  ASSUME Base, OpenInv, ResumeInv, ContentInv, ReadInv, [Next]_vars
  PROVE  ReadInv'
<1>0. IInv /\ TypeOK /\ ControlInv
  BY DEF Base, IInv
<1>t. /\ file.size \in Nat /\ FileType'
      /\ reader \in [Readers -> ReaderStates] /\ seenSize \in [Readers -> Nat]
      /\ request \in [Readers -> [start : Nat, size : Nat \ {0}]]
      /\ result \in [Readers -> [status : {"none", "bytes", "error"}, bytes : Seq(Cell)]]
  <2>1. TypeOK'
    BY <1>0, TypeNext
  <2>2. QED
    BY <1>0, <2>1 DEF TypeOK, FileType
<1>1. ASSUME UNCHANGED <<reader, request, seenSize, result, crashes>>, lost => lost',
             promise.opened = "value" => promise'.opened = "value",
             file.size <= file'.size, file.closed => file'.closed
      PROVE  ReadInv'
  <2> SUFFICES ASSUME NEW r \in Readers PROVE ReaderHas(r)'
    BY DEF ReadInv
  <2>1. ReaderHas(r)
    BY DEF ReadInv
  <2>2. QED
    BY <1>0, <1>t, <1>1, <2>1, ReaderKept
<1>2. CASE Opener
  <2>1. UNCHANGED <<reader, request, seenSize, result, crashes, lost>>
    BY <1>2, OpenerFrame
  <2>2. promise.opened = "value" => promise'.opened = "value"
    <3>1. opener \in {"setOpened", "failOpened"} => promise.opened = "unset"
      BY <1>0 DEF ControlInv
    <3>2. QED
      BY <1>0, <1>2, <3>1, OpenerPath
  <2>3. file'.closed = file.closed
    <3>1. opener = "openFile" => promise.opened = "unset"
      BY <1>0 DEF ControlInv, Opening
    <3>2. QED
      BY <1>0, <1>2, <3>1, OpenerFile DEF OpenInv
  <2>4. file.size <= file'.size
    <3>1. CASE OpenFile \/ WriteTag \/ Drain \/ WriteBlock
      BY <1>0, <3>1, FileSteps
    <3>2. CASE ~ (OpenFile \/ WriteTag \/ Drain \/ WriteBlock)
      <4>1. opener = "openFile" => promise.opened = "unset"
        BY <1>0 DEF ControlInv, Opening
      <4>2. file'.size = file.size
        BY <1>0, <1>2, <3>2, <4>1, OpenerFile DEF OpenInv
      <4>3. QED
        BY <1>t, <4>2
    <3>3. QED
      BY <3>1, <3>2
  <2>5. QED
    BY <1>1, <2>1, <2>2, <2>3, <2>4
<1>3. CASE Appender
  <2>1. UNCHANGED <<reader, request, seenSize, result, crashes, lost, file>>
        /\ promise'.opened = promise.opened
    BY <1>0, <1>3, AppenderFrame, AppenderPromise
  <2>2. QED
    BY <1>1, <1>t, <2>1
<1>4. CASE \E r \in Readers : InRead(r)
  <2>1. PICK r \in Readers : InRead(r)
    BY <1>4
  <2>2. /\ UNCHANGED <<promise, request, crashes, lost>>
        /\ UNCHANGED <<file, recorded>> \/ FileClose
    BY <2>1, ReaderFrame
  <2>3. file.size <= file'.size /\ (file.closed => file'.closed)
    <3>1. UNCHANGED file \/ (file'.size = file.size /\ (file'.closed <=> file.closed \/ file.opened))
      BY <1>0, <2>2, FileCloseEffect
    <3>2. QED
      BY <1>t, <3>1
  <2>4. \A q \in Readers : q # r => /\ reader'[q] = reader[q] /\ seenSize'[q] = seenSize[q]
                                    /\ result'[q] = result[q]
    BY <1>t, <2>1 DEF InRead, AwaitOpen, CheckError, AwaitThread, ReadSize, FromFile,
       FromStream, CloseStream, CloseFile, SetClosed, ReaderMove, Return
  <2>5. ASSUME NEW q \in Readers PROVE ReaderHas(q)'
    <3>1. ReaderHas(q)
      BY DEF ReadInv
    <3>2. CASE q = r
      BY <2>1, <3>1, <3>2, ReaderOwnStep
    <3>3. CASE q # r
      BY <1>0, <1>t, <2>2, <2>3, <2>4, <3>1, <3>3, ReaderKept
    <3>4. QED
      BY <3>2, <3>3
  <2>6. QED
    BY <2>5 DEF ReadInv
<1>5. CASE \E r \in Readers, req \in Requests : CallRead(r, req)
  <2>1. PICK r \in Readers, req \in Requests : CallRead(r, req)
    BY <1>5
  <2>2. UNCHANGED <<promise, file, seenSize, crashes, lost>> /\ reader'[r] = "awaitOpen"
    BY <1>t, <2>1 DEF CallRead, ReaderMove, history
  <2>3. \A q \in Readers : q # r => /\ reader'[q] = reader[q] /\ request'[q] = request[q]
                                    /\ result'[q] = result[q]
    BY <1>t, <2>1 DEF CallRead, ReaderMove
  <2>4. ASSUME NEW q \in Readers PROVE ReaderHas(q)'
    <3>1. ReaderHas(q)
      BY DEF ReadInv
    <3>2. CASE q = r
      BY <2>2, <3>2 DEF ReaderHas, Returned
    <3>3. CASE q # r
      BY <1>0, <1>t, <2>2, <2>3, <3>1, <3>3, ReaderKept
    <3>4. QED
      BY <3>2, <3>3
  <2>5. QED
    BY <2>4 DEF ReadInv
<1>6. CASE Release
  <2>1. /\ UNCHANGED <<reader, request, seenSize, result, crashes, lost, promise>> /\ FileClose
    BY <1>6 DEF Release, readerVars, procVars, history
  <2>2. file'.size = file.size /\ (file.closed => file'.closed)
    BY <1>0, <2>1, FileCloseEffect
  <2>3. QED
    BY <1>1, <1>t, <2>1, <2>2
<1>7. CASE FinishClose \/ Destroy \/ Save \/ UNCHANGED vars
  <2>1. UNCHANGED <<reader, request, seenSize, result, crashes, lost, promise, file>>
    BY <1>7 DEF FinishClose, Destroy, Save, vars, readerVars, procVars, history
  <2>2. QED
    BY <1>1, <1>t, <2>1
<1>8. CASE Reopen \/ Crash
  <2>1. reader' = ForReaders("idle") /\ result' = ForReaders(NoResult)
    BY <1>8 DEF Reopen, Crash, Construct
  <2>2. ASSUME NEW r \in Readers PROVE ReaderHas(r)'
    BY <2>1 DEF ReaderHas, Returned, ForReaders, NoResult
  <2>3. QED
    BY <2>2 DEF ReadInv
<1>9. CASE LoseSpill
  <2>1. UNCHANGED <<reader, request, seenSize, result, crashes, promise, file>> /\ lost'
    BY <1>0, <1>9, LoseFrame
  <2>2. QED
    BY <1>1, <1>t, <2>1
<1>10. QED
  BY StepCases, <1>2, <1>3, <1>4, <1>5, <1>6, <1>7, <1>8, <1>9
-----------------------------------------------------------------------------
DownloadInv == /\ OpenInv /\ ResumeInv /\ AppendInv /\ StageInv
               /\ SpillInv /\ ContentInv /\ ReadInv

LEMMA InitDownloadInv == Init => DownloadInv
<1> SUFFICES ASSUME Init PROVE DownloadInv
  OBVIOUS
<1>1. /\ proc = NewProcessor /\ promise = NewPromises /\ file = NewFile(NoSizes)
      /\ stream = NewStream /\ buffer = NewBuffer /\ opener = "off" /\ drained = 0
      /\ appender = "off" /\ reader = ForReaders("idle") /\ result = ForReaders(NoResult)
      /\ owner = "holds" /\ disk = <<>> /\ recorded = NoSizes /\ saved = NoSizes
  BY DEF Init
<1>2. OpenInv
  BY <1>1 DEF OpenInv, NewProcessor, NewPromises, NewFile, ForReaders, NoneInside, Parsing,
              Preparing
<1>3. ResumeInv
  BY <1>1 DEF ResumeInv, Resumable, NewPromises, NewFile, NoSizes, Parsing
<1>4. AppendInv
  BY <1>1 DEF AppendInv, NewProcessor, NewPromises, NewStream, NewBuffer, Parsing, Preparing
<1>5. StageInv
  BY <1>1 DEF StageInv, Opening, Parsing, Preparing
<1>6. ContentInv
  <2>1. file.size = 0 /\ recorded.size = 0 /\ disk = <<>>
    BY <1>1 DEF NewFile, NoSizes
  <2>2. Covers(lost, <<>>, 0, 0) /\ 0 <= TotalSize
    BY PrependSizeType DEF Covers, Larger
  <2>3. QED
    BY <2>1, <2>2 DEF ContentInv
<1>7. ReadInv
  BY <1>1 DEF ReadInv, ReaderHas, Returned, ForReaders, NoResult
<1>8. SpillInv
  BY <1>1 DEF SpillInv, NewBuffer
<1>9. QED
  BY <1>2, <1>3, <1>4, <1>5, <1>6, <1>7, <1>8 DEF DownloadInv

LEMMA SpecDownloadInv == Spec => [](Base /\ DownloadInv)
<1>1. Base /\ DownloadInv /\ [Next]_vars => DownloadInv'
  BY OpenNext, ResumeNext, AppendNext, StageNext, SpillNext, ContentNext, ReadNext
     DEF DownloadInv
<1>2. IInv /\ NoFutureError => Base
  BY DEF Base
<1>3. QED
  BY <1>1, <1>2, InitDownloadInv, SpecIInv, PromisesOnce, PTL DEF Spec

(* Whatever the order of closes, failures, crashes and saves, the cache    *)
(* never records sizes a later session could not resume from: the only     *)
(* sizes that are not resumable exist between setPrepend and the write of  *)
(* the tag, and there the promise of the opening keeps every reader that   *)
(* could close the file outside.                                           *)
THEOREM RecordsAreResumable == Spec => []RecordedResumable
<1>1. Base /\ DownloadInv => RecordedResumable
  <2> SUFFICES ASSUME Base, DownloadInv PROVE RecordedResumable
    OBVIOUS
  <2>0. TypeOK /\ SizeInv /\ ResumeInv
    BY DEF Base, IInv, DownloadInv
  <2>1. /\ recorded \in Sizes /\ recorded.size \in Nat /\ file.size \in Nat
        /\ Len(disk) \in Nat /\ recorded.size <= Len(disk)
    <3>1. recorded \in Sizes /\ recorded.size \in Nat /\ file.size \in Nat /\ Len(disk) \in Nat
      BY <2>0 DEF TypeOK, Sizes
    <3>2. recorded.size <= file.size /\ file.size <= Len(disk)
      BY <2>0 DEF SizeInv
    <3>3. QED
      BY <3>1, <3>2
  <2>2. CASE recorded.size = 0 /\ recorded.prepend = 0
    <3>1. recorded = [size |-> 0, prepend |-> 0]
      BY <2>1, <2>2 DEF Sizes
    <3>2. QED
      BY <3>1 DEF RecordedResumable, NoSizes
  <2>3. CASE recorded.size >= TagLen /\ recorded.prepend = PrependSize
    BY <2>1, <2>3, PrependSizeType DEF RecordedResumable
  <2>4. QED
    BY <2>0, <2>2, <2>3 DEF ResumeInv, Resumable
<1>2. QED
  BY <1>1, SpecDownloadInv, PTL

(* The download loop begins each turn where the file ends, whether it was  *)
(* reached through parser and drain or by resuming an earlier session.     *)
THEOREM DownloadsInStep == Spec => []DownloadInStep
<1>1. DownloadInv => DownloadInStep
  BY DEF DownloadInv, StageInv, DownloadInStep
<1>2. QED
  BY <1>1, SpecDownloadInv, PTL

(* Within the song the bytes are those of the virtual file. *)
LEMMA CoversSong ==
  ASSUME NEW cells, NEW a \in Nat, NEW b \in Int, b <= TotalSize, Covers(lost, cells, a, b)
  PROVE  Len(cells) = Larger(b - a, 0) /\ StandForSong(cells, a)
<1>1. Len(cells) = Larger(b - a, 0)
  BY DEF Covers
<1>2. ASSUME NEW i \in 1 .. Len(cells)
      PROVE  StandsFor(cells[i], a + i - 1)
  <2>1. a + i - 1 + 1 \in 1 .. TotalSize - 0 /\ 0 + (a + i - 1 + 1) - 1 = a + i - 1
    BY <1>1, PrependSizeType DEF Larger
  <2>2. \A j \in 1 .. TotalSize - 0 : VirtualFile[j] = SongByte(0 + j - 1)
    BY VirtualSlice DEF Slice
  <2>3. VirtualFile[a + i - 1 + 1] = SongByte(a + i - 1)
    BY <2>1, <2>2
  <2>4. Stands(lost, cells[i], a + i - 1)
    BY DEF Covers
  <2>5. QED
    BY <2>3, <2>4 DEF Stands, StandsFor
<1>3. QED
  BY <1>1, <1>2 DEF StandForSong

(* Short of a crash tag, drained buffer and downloaded blocks follow one   *)
(* another in the file without a gap or a repetition, over any number of   *)
(* sessions; the only bytes that can be wrong are those drained from a     *)
(* spill that was lost, behind what the buffer had in memory.              *)
THEOREM FileIsSongPrefix == Spec => []DiskIsVirtualPrefix
<1>1. Base /\ DownloadInv => DiskIsVirtualPrefix
  <2> SUFFICES ASSUME Base, DownloadInv, crashes = 0
               PROVE  /\ Len(disk) <= TotalSize /\ StandForSong(disk, 0)
                      /\ FileUsable => Len(disk) = file.size
    BY DEF DiskIsVirtualPrefix
  <2>1. file.size \in Nat
    BY DEF Base, IInv, TypeOK
  <2>2. file.size <= TotalSize /\ Covers(lost, disk, 0, file.size)
    BY DEF DownloadInv, ContentInv
  <2>3. Larger(file.size - 0, 0) = file.size
    BY <2>1 DEF Larger
  <2>4. Len(disk) = Larger(file.size - 0, 0) /\ StandForSong(disk, 0)
    <3>1. 0 \in Nat /\ file.size \in Int
      BY <2>1
    <3>2. QED
      BY <2>2, <3>1, CoversSong, Zenon
  <2>5. QED
    BY <2>2, <2>3, <2>4
<1>2. QED
  BY <1>1, SpecDownloadInv, PTL

(* Short of a crash a read that returns while the file is open has as many *)
(* bytes as asked for, each the one of its place in the song, however the  *)
(* download ran on between its look at the size, its read from the file    *)
(* and its request to the server; where it took them from disk, those of a *)
(* lost spill are junk.                                                    *)
THEOREM ReadsAreExact == Spec => [](crashes = 0 => ReadExactWhileOpen)
<1>1. Base /\ DownloadInv => (crashes = 0 => ReadExactWhileOpen)
  <2> SUFFICES ASSUME Base, DownloadInv, crashes = 0, NEW r \in Readers, Returned(r),
                      ~ file.closed
               PROVE  /\ Len(result[r].bytes) = Wanted(r)
                      /\ StandForSong(result[r].bytes, request[r].start)
    BY DEF ReadExactWhileOpen
  <2>1. request[r].start \in Nat /\ request[r].size \in Nat
    BY DEF Base, IInv, TypeOK
  <2> DEFINE until == Smaller(request[r].start + request[r].size, TotalSize)
  <2>2. Covers(lost, result[r].bytes, request[r].start, until)
    BY DEF DownloadInv, ReadInv, ReaderHas
  <2>3. until \in Int /\ until <= TotalSize
    BY <2>1, PrependSizeType DEF Smaller
  <2> HIDE DEF until
  <2>4. /\ Len(result[r].bytes) = Larger(until - request[r].start, 0)
        /\ StandForSong(result[r].bytes, request[r].start)
    BY <2>1, <2>2, <2>3, CoversSong
  <2>5. QED
    BY <2>4 DEF Wanted, until
<1>2. QED
  BY <1>1, SpecDownloadInv, PTL
=============================================================================

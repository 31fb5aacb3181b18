------------------------- MODULE PhotoProcessor_proofs -------------------------
(***************************************************************************)
(* The cached file of a photo is a beginning of it, and reads return what  *)
(* they ask for: for any number of handles, any length and any requests.   *)
(***************************************************************************)
EXTENDS PhotoProcessor, TLAPS

Busy == {"opening", "downloading", "reading", "failing"}

(* The reader inside the processor has its mutex.                          *)
MutexInv ==
  \A c \in Clients : /\ pc[c] \in Busy <=> mutex = c
                     /\ pc[c] \in Busy => object[c] = "processor" /\ file.opened

(* A file that can be written has a handle; one not opened has the size    *)
(* the cache has.                                                          *)
FileInv ==
  /\ \A c \in Clients : pc[c] = "released" => object[c] = None
  /\ Usable => \E c \in Clients : object[c] = "processor"
  /\ file.closed => file.opened
  /\ ~ file.opened => \A c \in Clients : object[c] = "processor" => file.size = recorded

(* Stream and file are in step, and a reader comes to its file last.       *)
StepInv ==
  \A c \in Clients : /\ pc[c] = "downloading" /\ Usable => pos = file.size
                     /\ pc[c] = "reading" /\ Usable => file.size = Total

IInv == TypeOK /\ MutexInv /\ FileInv /\ StepInv /\ FileIsPhoto

LEMMA NoneIsNew == None \notin Clients \cup {"processor", "reader"}
BY PhotoAssumption

LEMMA NoFileType ==
  ASSUME NEW n \in 0 .. Total
  PROVE  /\ NoFile(n) \in [opened : BOOLEAN, closed : BOOLEAN, failed : BOOLEAN, size : 0 .. Total]
         /\ ~ NoFile(n).opened /\ ~ NoFile(n).closed /\ NoFile(n).size = n
BY DEF NoFile

LEMMA InitInv == Init => IInv
<1> SUFFICES ASSUME Init PROVE IInv
  OBVIOUS
<1>1. 0 \in 0 .. Total
  BY PhotoAssumption
<1>2. TypeOK /\ ~ Usable
  <2>1. disk \in Seq(1 .. Total)
    BY DEF Init
  <2>2. file \in [opened : BOOLEAN, closed : BOOLEAN, failed : BOOLEAN, size : 0 .. Total] /\ ~ Usable
    BY <1>1, NoFileType DEF Init, Usable
  <2> QED
    BY <1>1, <2>1, <2>2 DEF Init, TypeOK
<1>3. MutexInv /\ FileInv /\ StepInv
  BY <1>1, <1>2, PhotoAssumption, NoFileType DEF Init, MutexInv, FileInv, StepInv, Busy
<1>4. FileIsPhoto
  BY <1>2 DEF Init, FileIsPhoto
<1> QED
  BY <1>2, <1>3, <1>4 DEF IInv

(* What CloseFile does to a file, and to one that is not usable: nothing.  *)
LEMMA Closed ==
  ASSUME IInv, CloseFile
  PROVE  /\ ~ file'.closed => ~ Usable /\ file' = file
         /\ ~ Usable' /\ file'.opened = file.opened /\ file'.size = file.size
         /\ (file'.closed => file'.opened)
         /\ file' \in [opened : BOOLEAN, closed : BOOLEAN, failed : BOOLEAN, size : 0 .. Total]
         /\ recorded' = IF Usable THEN file.size ELSE recorded
         /\ recorded' \in 0 .. Total
BY DEF IInv, TypeOK, FileInv, CloseFile, Usable

LEMMA FileKept ==
  ASSUME IInv, UNCHANGED <<file, disk, recorded, killed>>
  PROVE  (Usable' <=> Usable) /\ FileIsPhoto'
BY DEF IInv, FileIsPhoto, Usable

(* The file is closed, by a failure or with its last handle.               *)
LEMMA CloseIsPhoto ==
  ASSUME IInv, CloseFile, UNCHANGED <<disk, killed>>
  PROVE  FileIsPhoto'
<1>1. ~ Usable' /\ recorded' = IF Usable THEN file.size ELSE recorded
  BY Closed
<1> QED
  BY <1>1 DEF IInv, FileIsPhoto

LEMMA OpenInv ==
  ASSUME IInv, NEW c \in Clients, Open(c)
  PROVE  IInv'
<1>1. /\ pc[c] = "released" /\ pc' = [pc EXCEPT ![c] = "open"]
      /\ result' = [result EXCEPT ![c] = None]
      /\ UNCHANGED <<request, mutex, pos, disk, recorded, saved, killed>>
  BY DEF Open, Goes
<1>2. recorded \in 0 .. Total
  BY DEF IInv, TypeOK
<1>3. /\ pc'[c] = "open" /\ \A d \in Clients \ {c} : pc'[d] = pc[d]
  BY <1>1 DEF IInv, TypeOK
<1>4. CASE UNCHANGED file /\ \E o \in {"reader", "processor"} :
               /\ object' = [object EXCEPT ![c] = o]
               /\ o = "processor" => Sharers(c) # {}
  <2>1. PICK o \in {"reader", "processor"} : /\ object' = [object EXCEPT ![c] = o]
                                             /\ o = "processor" => Sharers(c) # {}
    BY <1>4
  <2>2. object'[c] = o /\ \A d \in Clients \ {c} : object'[d] = object[d]
    BY <2>1 DEF IInv, TypeOK
  <2>3. TypeOK'
    BY <1>1, <1>4, <2>1 DEF IInv, TypeOK
  <2>4. MutexInv'
    BY <1>1, <1>3, <1>4, <2>2 DEF IInv, MutexInv, Busy
  <2>5. FileInv'
    <3>0. \A d \in Clients : pc'[d] = "released" => object'[d] = None
      BY <1>3, <2>2 DEF IInv, FileInv
    <3>1. Usable' => \E d \in Clients : object'[d] = "processor"
      <4>1. Usable => \E d \in Clients : object[d] = "processor"
        BY DEF IInv, FileInv
      <4>2. object[c] # "processor"
        BY <1>1, PhotoAssumption DEF IInv, FileInv
      <4> QED
        BY <1>4, <2>2, <4>1, <4>2 DEF Usable
    <3>2. ASSUME ~ file.opened, NEW d \in Clients, object'[d] = "processor"
          PROVE  file.size = recorded
      <4>1. CASE d = c
        <5>1. PICK e \in Clients \ {c} : object[e] = "processor"
          BY <2>1, <2>2, <3>2, <4>1 DEF Sharers
        <5> QED
          BY <3>2, <5>1 DEF IInv, FileInv
      <4>2. CASE d # c
        BY <2>2, <3>2, <4>2 DEF IInv, FileInv
      <4> QED
        BY <4>1, <4>2
    <3> QED
      BY <1>1, <1>4, <3>0, <3>1, <3>2 DEF IInv, FileInv
  <2>6. StepInv' /\ FileIsPhoto'
    BY <1>1, <1>3, <1>4, FileKept DEF IInv, StepInv
  <2> QED
    BY <2>3, <2>4, <2>5, <2>6 DEF IInv
<1>5. CASE /\ file' = NoFile(recorded) /\ Sharers(c) = {}
           /\ object' = [object EXCEPT ![c] = "processor"]
  <2>1. object'[c] = "processor" /\ \A d \in Clients \ {c} : object'[d] = object[d]
    BY <1>5 DEF IInv, TypeOK
  <2>2. \A d \in Clients \ {c} : object[d] # "processor"
    BY <1>5 DEF Sharers
  <2>3. \A d \in Clients : pc'[d] \notin Busy /\ mutex # d
    BY <1>1, <1>3, <2>2 DEF IInv, MutexInv, Busy
  <2>4. ~ file'.opened /\ ~ file'.closed /\ file'.size = recorded /\ ~ Usable'
    BY <1>2, <1>5, NoFileType DEF Usable
  <2>5. TypeOK'
    BY <1>1, <1>2, <1>5, NoFileType DEF IInv, TypeOK
  <2>6. MutexInv' /\ StepInv'
    BY <1>1, <2>3 DEF MutexInv, StepInv, Busy
  <2>7. FileInv'
    BY <1>1, <1>3, <2>1, <2>4 DEF IInv, FileInv
  <2>8. ~ Usable
    <3>1. object[c] # "processor"
      BY <1>1, PhotoAssumption DEF IInv, FileInv
    <3> QED
      BY <2>2, <3>1 DEF IInv, FileInv
  <2>9. FileIsPhoto'
    BY <1>1, <2>4, <2>8 DEF IInv, FileIsPhoto
  <2> QED
    BY <2>5, <2>6, <2>7, <2>9 DEF IInv
<1> QED
  BY <1>4, <1>5 DEF Open


(* The handle of a client is closed: it alone may have kept the file open. *)
LEMMA CloseInv ==
  ASSUME IInv, NEW c \in Clients, pc[c] \notin Busy, Close(c),
         pc' = [pc EXCEPT ![c] = "released"],
         UNCHANGED <<request, mutex, pos, disk, saved, killed>>
  PROVE  IInv'
<1>1. pc'[c] = "released" /\ \A d \in Clients \ {c} : pc'[d] = pc[d]
  BY DEF IInv, TypeOK
<1>2. object'[c] = None /\ \A d \in Clients \ {c} : object'[d] = object[d]
  BY DEF IInv, TypeOK, Close
<1>3. object' \in [Clients -> {None, "processor", "reader"}] /\ None # "processor"
  BY NoneIsNew DEF IInv, TypeOK, Close
<1>4. CASE object[c] = "processor" /\ Sharers(c) = {}
  <2>1. CloseFile
    BY <1>4 DEF Close
  <2>2. \A d \in Clients : object'[d] # "processor" /\ pc[d] \notin Busy
    BY <1>2, <1>3, <1>4 DEF Sharers, IInv, MutexInv
  <2>3. TypeOK'
    BY <1>3, <2>1, Closed DEF IInv, TypeOK
  <2>4. MutexInv' /\ StepInv'
    BY <1>1, <2>2 DEF IInv, MutexInv, StepInv, Busy
  <2>5. FileInv'
    BY <1>1, <1>2, <2>1, <2>2, Closed DEF IInv, FileInv
  <2> QED
    BY <2>1, <2>3, <2>4, <2>5, CloseIsPhoto DEF IInv
<1>5. CASE UNCHANGED <<file, recorded>> /\ (object[c] = "processor" => Sharers(c) # {})
  <2>1. TypeOK'
    BY <1>3, <1>5 DEF IInv, TypeOK
  <2>2. MutexInv'
    BY <1>1, <1>2, <1>5 DEF IInv, MutexInv, Busy
  <2>3. StepInv' /\ FileIsPhoto'
    BY <1>1, <1>5, FileKept DEF IInv, StepInv
  <2>4. Usable => \E d \in Clients : object'[d] = "processor"
    <3>1. Sharers(c) # {} => \E d \in Clients : object'[d] = "processor"
      BY <1>2 DEF Sharers
    <3> QED
      BY <1>2, <1>5, <3>1 DEF IInv, FileInv
  <2>5. FileInv'
    BY <1>1, <1>2, <1>3, <1>5, <2>4 DEF IInv, FileInv, Usable
  <2> QED
    BY <2>1, <2>2, <2>3, <2>5 DEF IInv
<1> QED
  BY <1>4, <1>5 DEF Close

(* A step of a call that leaves the photo as it is.                        *)
LEMMA CallInv ==
  ASSUME IInv, NEW c \in Clients,
         NEW next \in {"open", "waiting", "downloading", "reading", "failing"},
         pc[c] # "released", pc' = [pc EXCEPT ![c] = next],
         request' \in [Clients -> Requests],
         pos' \in 0 .. Total, pos' = pos \/ pc[c] \in Busy,
         \/ UNCHANGED <<file, mutex>> /\ (pc[c] \in Busy <=> next \in Busy)
         \/ /\ pc[c] \in Busy /\ next \notin Busy /\ mutex' = None
            /\ file' \in [opened : BOOLEAN, closed : BOOLEAN, failed : BOOLEAN, size : 0 .. Total]
            /\ file'.opened = file.opened /\ file'.closed = file.closed /\ file'.size = file.size,
         next = "downloading" => pos' = file.size,
         next = "reading" /\ Usable => file.size = Total,
         UNCHANGED <<object, disk, recorded, saved, killed>>
  PROVE  IInv'
<1>1. pc'[c] = next /\ \A d \in Clients \ {c} : pc'[d] = pc[d]
  BY DEF IInv, TypeOK
<1>2. /\ file' \in [opened : BOOLEAN, closed : BOOLEAN, failed : BOOLEAN, size : 0 .. Total]
      /\ file'.opened = file.opened /\ file'.closed = file.closed /\ file'.size = file.size
      /\ mutex' \in {mutex, None}
  BY DEF IInv, TypeOK
<1>3. Usable' <=> Usable
  BY <1>2 DEF Usable
<1>4. TypeOK'
  BY <1>2 DEF IInv, TypeOK
<1>5. MutexInv'
  BY <1>1, <1>2, PhotoAssumption DEF IInv, MutexInv, Busy
<1>6. FileInv'
  BY <1>1, <1>2, <1>3 DEF IInv, FileInv
<1>7. StepInv'
  <2>1. \A d \in Clients \ {c} : pc[d] \in Busy => pos' = pos
    BY DEF IInv, MutexInv
  <2> QED
    BY <1>1, <1>2, <1>3, <2>1 DEF IInv, StepInv, Busy
<1>8. FileIsPhoto'
  BY <1>2, <1>3 DEF IInv, FileIsPhoto
<1> QED
  BY <1>4, <1>5, <1>6, <1>7, <1>8 DEF IInv

LEMMA BeginReadInv ==
  ASSUME IInv, NEW c \in Clients, BeginRead(c)
  PROVE  IInv'
<1>1. PICK r \in Requests : request' = [request EXCEPT ![c] = r]
  BY DEF BeginRead
<1>2. request' \in [Clients -> Requests]
  BY <1>1 DEF IInv, TypeOK
<1>3. pc[c] = "open" /\ pos' \in 0 .. Total
  BY DEF BeginRead, Goes, IInv, TypeOK
<1> QED
  BY <1>2, <1>3, CallInv DEF BeginRead, Goes, Busy

LEMMA ReaderReadsInv ==
  ASSUME IInv, NEW c \in Clients, ReaderReads(c)
  PROVE  IInv'
<1>1. /\ pc[c] = "waiting" /\ pc' = [pc EXCEPT ![c] = "open"]
      /\ UNCHANGED <<object, request, mutex, file, pos, disk, recorded, saved, killed>>
  BY DEF ReaderReads, Return
<1>2. pos' \in 0 .. Total /\ request' \in [Clients -> Requests]
  BY <1>1 DEF IInv, TypeOK
<1> QED
  BY <1>1, <1>2, CallInv DEF Busy

LEMMA StreamOpensInv ==
  ASSUME IInv, NEW c \in Clients, StreamOpens(c)
  PROVE  IInv'
<1>1. /\ pc[c] = "opening" /\ request' \in [Clients -> Requests]
      /\ pos \in 0 .. Total /\ file.size \in 0 .. Total
  BY DEF StreamOpens, Goes, IInv, TypeOK
<1>2. CASE Goes(c, "opening", "downloading") /\ pos' = file.size
  BY <1>1, <1>2, CallInv DEF StreamOpens, Goes, Busy
<1>3. CASE Goes(c, "opening", "failing") /\ UNCHANGED pos
  BY <1>1, <1>3, CallInv DEF StreamOpens, Goes, Busy
<1> QED
  BY <1>2, <1>3 DEF StreamOpens

LEMMA DownloadEndsInv ==
  ASSUME IInv, NEW c \in Clients, DownloadEnds(c)
  PROVE  IInv'
<1>1. pc[c] = "downloading" /\ request' \in [Clients -> Requests] /\ pos' \in 0 .. Total
  BY DEF DownloadEnds, Goes, IInv, TypeOK
<1>2. CASE Goes(c, "downloading", "reading") /\ pos = Total
  <2>1. Usable => file.size = Total
    BY <1>1, <1>2 DEF IInv, StepInv
  <2> QED
    BY <1>1, <1>2, <2>1, CallInv DEF DownloadEnds, Goes, Busy
<1>3. CASE Goes(c, "downloading", "failing")
  BY <1>1, <1>3, CallInv DEF DownloadEnds, Goes, Busy
<1> QED
  BY <1>2, <1>3 DEF DownloadEnds

LEMMA ReadFileInv ==
  ASSUME IInv, NEW c \in Clients, ReadFile(c)
  PROVE  IInv'
<1>1. /\ pc[c] = "reading" /\ pc' = [pc EXCEPT ![c] = "open"] /\ mutex' = None
      /\ UNCHANGED <<object, request, pos, disk, recorded, saved, killed>>
      /\ file' \in {file, [file EXCEPT !.failed = TRUE]}
  BY DEF ReadFile, Return
<1>2. /\ file' \in [opened : BOOLEAN, closed : BOOLEAN, failed : BOOLEAN, size : 0 .. Total]
      /\ file'.opened = file.opened /\ file'.closed = file.closed /\ file'.size = file.size
      /\ request' \in [Clients -> Requests] /\ pos' \in 0 .. Total
  BY <1>1 DEF IInv, TypeOK
<1> QED
  BY <1>1, <1>2, CallInv DEF Busy

(* The reader that enters opens the file as the cache has it.              *)
LEMMA EnterInv ==
  ASSUME IInv, NEW c \in Clients, Enter(c)
  PROVE  IInv'
<1> DEFINE next == IF file.size = Total THEN "reading" ELSE "opening"
<1>1. /\ object[c] = "processor" /\ mutex = None /\ mutex' = c
      /\ pc[c] = "waiting" /\ pc' = [pc EXCEPT ![c] = next]
      /\ UNCHANGED <<object, request, result, pos, recorded, saved, killed>>
  BY DEF Enter, Goes
<1>2. next \in Busy /\ next # "downloading" /\ (next = "reading" => file.size = Total)
  BY DEF Busy
<1>3. pc'[c] = next /\ \A d \in Clients \ {c} : pc'[d] = pc[d]
  BY <1>1 DEF IInv, TypeOK
<1>4. /\ file' \in [opened : BOOLEAN, closed : BOOLEAN, failed : BOOLEAN, size : 0 .. Total]
      /\ file'.opened /\ file'.closed = file.closed /\ file'.size = file.size
  <2>1. CASE file.opened \/ file.closed
    BY <2>1 DEF Enter, IInv, TypeOK, FileInv
  <2>2. CASE ~ (file.opened \/ file.closed)
    BY <2>2 DEF Enter, IInv, TypeOK
  <2> QED
    BY <2>1, <2>2
<1>5. disk' \in Seq(1 .. Total)
  <2>1. disk' = <<>> \/ disk' = disk
    BY DEF Enter
  <2>2. disk \in Seq(1 .. Total) /\ <<>> \in Seq(1 .. Total)
    BY DEF IInv, TypeOK
  <2> QED
    BY <2>1, <2>2
<1>6. TypeOK'
  BY <1>1, <1>2, <1>4, <1>5 DEF IInv, TypeOK, Busy
<1>7. MutexInv'
  BY <1>1, <1>2, <1>3, <1>4, NoneIsNew DEF IInv, MutexInv
<1>8. FileInv'
  <2>1. pc'[c] # "released"
    BY <1>2, <1>3 DEF Busy
  <2> QED
    BY <1>1, <1>3, <1>4, <2>1 DEF IInv, FileInv
<1>9. StepInv'
  <2>1. \A d \in Clients \ {c} : pc'[d] \notin Busy
    BY <1>1, <1>3, NoneIsNew DEF IInv, MutexInv
  <2> QED
    BY <1>2, <1>3, <1>4, <2>1 DEF StepInv, Busy
<1>10. FileIsPhoto'
  <2>1. CASE file.opened \/ file.closed
    BY <1>1, <2>1, FileKept DEF Enter
  <2>2. CASE ~ file.opened /\ ~ file.closed
    <3>1. file.size = recorded /\ ~ Usable /\ Usable'
      BY <1>1, <1>4, <2>2 DEF IInv, FileInv, Usable
    <3>2. disk' = IF file.size = 0 THEN <<>> ELSE disk
      BY <2>2 DEF Enter
    <3> QED
      BY <1>1, <1>4, <3>1, <3>2 DEF IInv, FileIsPhoto
  <2> QED
    BY <2>1, <2>2
<1> QED
  BY <1>6, <1>7, <1>8, <1>9, <1>10 DEF IInv

LEMMA DownloadInv ==
  ASSUME IInv, NEW c \in Clients, Download(c)
  PROVE  IInv'
<1>1. /\ pc[c] = "downloading" /\ pos < Total /\ pos' = pos + 1
      /\ UNCHANGED <<pc, object, request, mutex, recorded, saved, killed>>
  BY DEF Download, calls
<1>2. pos' \in 1 .. Total
  BY <1>1, PhotoAssumption DEF IInv, TypeOK
<1>3. \A d \in Clients \ {c} : pc[d] \notin Busy
  BY <1>1 DEF IInv, MutexInv, Busy
<1>4. CASE Usable
  <2>1. disk' = Append(disk, pos + 1) /\ file' = [file EXCEPT !.size = @ + 1] /\ pos = file.size
    BY <1>1, <1>4 DEF Download, IInv, StepInv
  <2>2. /\ file' \in [opened : BOOLEAN, closed : BOOLEAN, failed : BOOLEAN, size : 0 .. Total]
        /\ file'.opened = file.opened /\ file'.closed = file.closed /\ file'.size = pos'
    <3>1. file' = [file EXCEPT !.size = pos']
      BY <1>1, <2>1
    <3>2. file \in [opened : BOOLEAN, closed : BOOLEAN, failed : BOOLEAN, size : 0 .. Total]
          /\ pos' \in 0 .. Total
      BY <1>2 DEF IInv, TypeOK
    <3> QED
      BY <3>1, <3>2
  <2>3. disk' \in Seq(1 .. Total) /\ Len(disk') = Len(disk) + 1 /\ disk'[Len(disk) + 1] = pos + 1
        /\ \A i \in 1 .. Len(disk) : disk'[i] = disk[i]
    BY <1>1, <1>2, <2>1 DEF IInv, TypeOK
  <2>4. TypeOK'
    BY <1>1, <1>2, <2>2, <2>3 DEF IInv, TypeOK
  <2>5. MutexInv'
    BY <1>1, <2>2 DEF IInv, MutexInv
  <2>6. FileInv'
    BY <1>1, <1>4, <2>2 DEF IInv, FileInv, Usable
  <2>7. StepInv'
    BY <1>1, <1>3, <2>2 DEF StepInv, Busy
  <2>8. FileIsPhoto'
    <3>1. Usable'
      BY <1>4, <2>2 DEF Usable
    <3>2. ASSUME ~ killed
          PROVE  Len(disk) = pos /\ \A i \in 1 .. Len(disk) : disk[i] = i
      BY <1>4, <2>1, <3>2 DEF IInv, FileIsPhoto
    <3>3. Len(disk) \in Nat /\ pos \in Nat
      BY <1>2 DEF IInv, TypeOK
    <3> QED
      BY <1>1, <2>2, <2>3, <3>1, <3>2, <3>3 DEF FileIsPhoto
  <2> QED
    BY <2>4, <2>5, <2>6, <2>7, <2>8 DEF IInv
<1>5. CASE ~ Usable
  <2>1. UNCHANGED <<disk, file>>
    BY <1>5 DEF Download
  <2>2. TypeOK' /\ MutexInv' /\ FileInv'
    BY <1>1, <1>2, <2>1 DEF IInv, TypeOK, MutexInv, FileInv, Usable
  <2>3. StepInv' /\ FileIsPhoto'
    BY <1>1, <1>5, <2>1, FileKept DEF StepInv, Usable
  <2> QED
    BY <2>2, <2>3 DEF IInv
<1> QED
  BY <1>4, <1>5

LEMMA FailInv ==
  ASSUME IInv, NEW c \in Clients, Fail(c)
  PROVE  IInv'
<1>1. /\ pc[c] = "failing" /\ pc' = [pc EXCEPT ![c] = "failed"] /\ mutex' = None /\ CloseFile
      /\ UNCHANGED <<object, request, pos, disk, saved, killed>>
  BY DEF Fail, Goes
<1>2. pc'[c] = "failed" /\ \A d \in Clients \ {c} : pc'[d] = pc[d] /\ pc[d] \notin Busy
  BY <1>1 DEF IInv, TypeOK, MutexInv, Busy
<1>3. file.opened
  BY <1>1 DEF IInv, MutexInv, Busy
<1>4. TypeOK'
  BY <1>1, Closed DEF IInv, TypeOK
<1>5. MutexInv' /\ StepInv'
  <2>1. \A d \in Clients : pc'[d] \notin Busy
    BY <1>2 DEF Busy
  <2> QED
    BY <1>1, <2>1, NoneIsNew DEF MutexInv, StepInv, Busy
<1>6. FileInv'
  BY <1>1, <1>2, <1>3, Closed DEF IInv, FileInv
<1>7. FileIsPhoto'
  BY <1>1, CloseIsPhoto
<1> QED
  BY <1>4, <1>5, <1>6, <1>7 DEF IInv

LEMMA RestartInv == IInv /\ Restart => IInv'
<1> SUFFICES ASSUME IInv, Restart PROVE IInv'
  OBVIOUS
<1>1. TypeOK'
  BY DEF IInv, TypeOK, Restart, calls
<1>2. MutexInv' /\ FileInv' /\ StepInv'
  BY DEF IInv, MutexInv, FileInv, StepInv, Usable, Restart, calls
<1>3. FileIsPhoto'
  BY FileKept DEF Restart
<1> QED
  BY <1>1, <1>2, <1>3 DEF IInv

LEMMA KillInv == IInv /\ Kill => IInv'
<1> SUFFICES ASSUME IInv, Kill PROVE IInv'
  OBVIOUS
<1>1. file' \in [opened : BOOLEAN, closed : BOOLEAN, failed : BOOLEAN, size : 0 .. Total]
      /\ ~ file'.opened /\ ~ file'.closed
  <2>1. 0 \in 0 .. Total
    BY PhotoAssumption
  <2> QED
    BY <2>1, NoFileType DEF Kill
<1>2. \A c \in Clients : pc'[c] = "released" /\ object'[c] = None
  BY DEF Kill
<1>3. TypeOK'
  BY <1>1 DEF IInv, TypeOK, Kill
<1>4. MutexInv' /\ StepInv'
  BY <1>2, NoneIsNew DEF MutexInv, StepInv, Busy, Kill
<1>5. FileInv'
  BY <1>1, <1>2, NoneIsNew DEF FileInv, Usable
<1>6. FileIsPhoto'
  BY DEF FileIsPhoto, Kill
<1> QED
  BY <1>3, <1>4, <1>5, <1>6 DEF IInv

LEMMA StepKeepsInv == IInv /\ [Next]_vars => IInv'
<1> SUFFICES ASSUME IInv, [Next]_vars PROVE IInv'
  OBVIOUS
<1>1. ASSUME NEW c \in Clients, Release(c) PROVE IInv'
  BY <1>1, CloseInv DEF Release, Goes, Busy
<1>2. ASSUME NEW c \in Clients, CloseFailed(c) PROVE IInv'
  BY <1>2, CloseInv DEF CloseFailed, Goes, Busy
<1>3. CASE UNCHANGED vars
  <2>1. TypeOK' /\ MutexInv' /\ FileInv' /\ StepInv'
    BY <1>3 DEF IInv, TypeOK, MutexInv, FileInv, StepInv, Usable, vars, calls
  <2> QED
    BY <1>3, <2>1, FileKept DEF IInv, vars
<1> QED
  BY <1>1, <1>2, <1>3, OpenInv, BeginReadInv, ReaderReadsInv, EnterInv, StreamOpensInv,
     DownloadInv, DownloadEndsInv, ReadFileInv, FailInv, RestartInv, KillInv DEF Next

(* The invariant that makes a photo what was downloaded.                   *)
THEOREM Inductive == Spec => []IInv
BY InitInv, StepKeepsInv, PTL DEF Spec

(* Type correctness: the variables of PhotoProcessor.h and PhotoFile.h.    *)
THEOREM TypeCorrect == Spec => []TypeOK
<1>1. IInv => TypeOK
  BY DEF IInv
<1> QED
  BY <1>1, Inductive, PTL

(* PhotoFile::close records what PhotoFile::write has written.             *)
THEOREM CachedFileIsPhoto == Spec => []FileIsPhoto
<1>1. IInv => FileIsPhoto
  BY DEF IInv
<1> QED
  BY <1>1, Inductive, PTL

HasResults == DOMAIN result = Clients

LEMMA Results == Spec => []HasResults
<1>1. Init => HasResults
  BY DEF Init, HasResults
<1>2. HasResults /\ [Next]_vars => HasResults'
  BY DEF HasResults, Next, vars, calls, Open, Release, BeginRead, ReaderReads, Enter, StreamOpens,
         Download, DownloadEnds, ReadFile, Fail, CloseFailed, Restart, Kill, Return
<1> QED
  BY <1>1, <1>2, PTL DEF Spec

Exact(c) ==
  (/\ ~ killed /\ Usable /\ ~ file.failed /\ object[c] = "processor"
   /\ result[c] = None /\ result'[c] \notin {None, Error})
  => result'[c] = Asked(c)

LEMMA OneReadIsExact ==
  ASSUME IInv, HasResults, [Next]_vars, NEW c \in Clients
  PROVE  Exact(c)
<1> SUFFICES ASSUME ~ killed, Usable, ~ file.failed, object[c] = "processor",
                    result[c] = None, result'[c] \notin {None, Error}
             PROVE  result'[c] = Asked(c)
  BY DEF Exact
<1>1. ReadFile(c)
  <2>1. result' # result
    OBVIOUS
  <2>2. ~ Restart /\ ~ Kill
    BY <2>1 DEF Restart, Kill, calls
  <2>3. PICK d \in Clients :
          \/ Open(d) \/ Release(d) \/ BeginRead(d) \/ ReaderReads(d) \/ Enter(d)
          \/ StreamOpens(d) \/ Download(d) \/ DownloadEnds(d) \/ ReadFile(d)
          \/ Fail(d) \/ CloseFailed(d)
    BY <2>1, <2>2 DEF Next, vars, calls
  <2>4. ReaderReads(d) \/ ReadFile(d)
    <3>1. ~ Release(d) /\ ~ Enter(d) /\ ~ StreamOpens(d) /\ ~ Download(d)
          /\ ~ DownloadEnds(d) /\ ~ CloseFailed(d)
      BY <2>1 DEF Release, Enter, StreamOpens, Download, DownloadEnds, CloseFailed, calls
    <3>2. ~ Open(d) /\ ~ BeginRead(d) /\ ~ Fail(d)
      BY DEF Open, BeginRead, Fail, HasResults
    <3> QED
      BY <2>3, <3>1, <3>2
  <2>5. d = c
    BY <2>4 DEF ReaderReads, ReadFile, Return, HasResults
  <2> QED
    BY <2>4, <2>5 DEF ReaderReads
<1> DEFINE r == request[c]
<1>2. pc[c] = "reading" /\ result'[c] = [i \in 1 .. r.size |-> OnDisk(r.start + i)]
  BY <1>1 DEF ReadFile, Return, HasResults
<1>3. file.size = Total /\ Len(disk) = Total /\ \A i \in 1 .. Total : disk[i] = i
  BY <1>2 DEF IInv, StepInv, FileIsPhoto
<1>4. r.start \in Nat /\ r.size \in Nat /\ Total \in Nat
  BY PhotoAssumption DEF IInv, TypeOK
<1>5. \A i \in 1 .. r.size : OnDisk(r.start + i) = IF r.start + i <= Total THEN r.start + i ELSE 0
  BY <1>3, <1>4 DEF OnDisk
<1> QED
  BY <1>2, <1>5 DEF Asked

(* Whatever other handles have read and failed to read: PhotoProcessor     *)
(* reads what is asked for, unless a read went over the end before.        *)
THEOREM ReadsAreExact == Spec => ReadIsExact
<1>1. IInv /\ HasResults /\ [Next]_vars
      => [\A c \in Clients :
            (/\ ~ killed /\ Usable /\ ~ file.failed /\ object[c] = "processor"
             /\ result[c] = None /\ result'[c] \notin {None, Error})
            => result'[c] = Asked(c)]_vars
  BY OneReadIsExact DEF Exact
<1> QED
  BY <1>1, Inductive, Results, PTL DEF Spec, ReadIsExact
=============================================================================

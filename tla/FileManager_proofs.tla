-------------------------- MODULE FileManager_proofs --------------------------
(***************************************************************************)
(* First the tables of the manager: a handle it knows leads to an object,  *)
(* and an open processor is counted as often as handles use it.  Neither   *)
(* depends on what the cache of files does, which IInv leaves open.  Then  *)
(* what tables and cache say of each other, with the lemmas on put, its    *)
(* eviction loop and get of LruCache_proofs: one writer for each song, and *)
(* no file in use that is evicted.                                         *)
(***************************************************************************)
EXTENDS FileManager, LruCache_proofs

Entries == [present : BOOLEAN, processor : Handles \cup {None},
            ids : SUBSET Handles, usages : [Handles -> Nat]]

Reads == [at : {"idle", "reading", "failed"}, handle : Handles \cup {None},
          object : Handles \cup {None, Reader}]

(* What is needed of the type of a processor.                              *)
IsProc(r) ==
  /\ "song" \in DOMAIN r /\ "closed" \in DOMAIN r
  /\ r.song \in Songs \cup {None} /\ r.closed \in BOOLEAN

Made(p) == proc[p].song # None

Shape ==
  /\ mutex \in Handles \cup {None}
  /\ status \in [Handles -> {"unused", "opening", "open", "released"}]
  /\ remFile \in [Handles -> Songs \cup {None}]
  /\ entry \in [Songs -> Entries]
  /\ object \in [Handles -> Handles \cup {None, Reader}]
  /\ thread \in [Threads -> Reads]
  /\ proc = [p \in Handles |-> proc[p]] /\ \A p \in Handles : IsProc(proc[p])

OpenInv ==
  \A h \in Handles :
    /\ status[h] = "unused" => remFile[h] = None
    /\ status[h] \in {"unused", "opening"} => proc[h] = NoProc
    /\ mutex = h => remFile[h] # None /\ status[h] = "opening"

(* Reads in progress, th, have a handle and an object.                     *)
ReadsGood(th) ==
  /\ th \in [Threads -> Reads]
  /\ \A t \in Threads :
       /\ th[t].at # "idle" => th[t].handle # None
       /\ th[t].at = "reading" => th[t].object # None
       /\ th[t].object \in Handles => proc[th[t].object].song # None

(* Steps that make no processor.                                           *)
ProcsKept ==
  /\ proc' = [p \in Handles |-> proc'[p]]
  /\ \A p \in Handles :
       /\ IsProc(proc'[p]) /\ proc'[p].song = proc[p].song
       /\ proc[p].closed => proc'[p].closed
       /\ ~ Made(p) => proc'[p] = proc[p]

ProcInv ==
  /\ \A p \in Handles : proc[p].song = None => proc[p] = NoProc
  /\ \A h \in Handles : object[h] \in Handles => proc[object[h]].song # None
  /\ ReadsGood(thread)

EntryInv ==
  \A s \in Songs :
    /\ IsFiniteSet(entry[s].ids)
    /\ ~ entry[s].present => entry[s].ids = {} /\ entry[s].processor = None
    /\ entry[s].processor # None => proc[entry[s].processor].song = s
    /\ \A p \in Handles : ~ Made(p) => entry[s].usages[p] = 0

HandleInv ==
  /\ \A s \in Songs, h \in Handles : h \in entry[s].ids =>
       /\ remFile[h] = s /\ mutex # h /\ object[h] # None
       /\ object[h] \in Handles => proc[object[h]].song = s
  /\ Running => \A h \in Handles : remFile[h] # None /\ mutex # h => h \in entry[remFile[h]].ids

UsersOf(s, p) == {h \in entry[s].ids : object[h] = p}

UsesInv ==
  \A p \in Handles, s \in Songs : proc[p].song = s /\ ~ proc[p].closed =>
    entry[s].usages[p] > 0 /\ entry[s].usages[p] = Cardinality(UsersOf(s, p))

IInv == Shape /\ OpenInv /\ ProcInv /\ EntryInv /\ HandleInv /\ UsesInv

LEMMA NamesApart ==
  /\ None \notin Handles /\ None \notin Songs /\ Reader \notin Handles /\ Reader # None
  /\ NoProc.song = None /\ IsProc(NoProc)
  /\ NoEntry \in Entries /\ NoEntry.ids = {} /\ ~ NoEntry.present /\ NoEntry.processor = None
  /\ \A p \in Handles : NoEntry.usages[p] = 0
BY ManagerAssumption DEF NoProc, IsProc, NoEntry, Entries

LEMMA InitInv == Init => IInv
<1> SUFFICES ASSUME Init PROVE IInv
  OBVIOUS
<1>1. Shape
  BY NamesApart DEF Init, Shape, Reads, Idle
<1>2. OpenInv /\ ProcInv
  BY NamesApart DEF Init, OpenInv, ProcInv, ReadsGood, Reads, Idle
<1>3. EntryInv
  BY NamesApart, FS_EmptySet DEF Init, EntryInv
<1>4. HandleInv /\ UsesInv
  BY NamesApart DEF Init, HandleInv, UsesInv, Made
<1> QED
  BY <1>1, <1>2, <1>3, <1>4 DEF IInv
-----------------------------------------------------------------------------
(* Steps that leave tables and handles alone and make no processor: they   *)
(* may close processors and move reads.                                    *)
LEMMA QuietStep ==
  ASSUME IInv, Running, UNCHANGED <<mutex, status, tables>>,
         ReadsGood(thread'), ProcsKept
  PROVE  IInv'
<1>1. UNCHANGED <<mutex, status, remFile, entry, object>>
  BY DEF tables
<1>2. Shape'
  BY <1>1 DEF IInv, Shape, ReadsGood, ProcsKept
<1>3. \A p \in Handles : (Made(p)' <=> Made(p)) /\ proc'[p].song = proc[p].song
  BY DEF Made, ProcsKept
<1>4. OpenInv'
  <2>1. \A h \in Handles : proc[h] = NoProc => proc'[h] = NoProc
    BY NamesApart DEF Made, ProcsKept
  <2> QED
    BY <1>1, <2>1 DEF IInv, OpenInv
<1>5. ProcInv'
  <2>1. \A p \in Handles : proc'[p].song = None => proc'[p] = NoProc
    BY DEF IInv, ProcInv, Made, ProcsKept
  <2>2. \A h \in Handles : object'[h] \in Handles => proc'[object'[h]].song # None
    BY <1>1, <1>3 DEF IInv, ProcInv
  <2>3. ReadsGood(thread)'
    BY <1>3 DEF ReadsGood
  <2> QED
    BY <2>1, <2>2, <2>3 DEF ProcInv
<1>6. EntryInv'
  <2>1. \A s \in Songs : entry[s].processor \in Handles \cup {None}
    BY DEF IInv, Shape, Entries
  <2> QED
    BY <1>1, <1>3, <2>1 DEF IInv, EntryInv
<1>7. HandleInv'
  BY <1>1, <1>3 DEF IInv, HandleInv, Shape
<1>8. UsesInv'
  <2> SUFFICES ASSUME NEW p \in Handles, NEW s \in Songs, proc'[p].song = s, ~ proc'[p].closed
               PROVE  /\ entry'[s].usages[p] > 0
                      /\ entry'[s].usages[p] = Cardinality(UsersOf(s, p)')
    BY DEF UsesInv
  <2>1. proc[p].song = s /\ proc[p].closed \in BOOLEAN /\ ~ proc[p].closed
    BY DEF IInv, Shape, IsProc, ProcsKept
  <2>2. UsersOf(s, p)' = UsersOf(s, p)
    BY <1>1 DEF UsersOf
  <2> QED
    BY <1>1, <2>1, <2>2 DEF IInv, UsesInv
<1> QED
  BY <1>2, <1>4, <1>5, <1>6, <1>7, <1>8 DEF IInv

(* An update of one processor that leaves its song alone.                  *)
LEMMA ProcUpdate ==
  ASSUME Shape, NEW p \in Handles, Made(p), NEW r, proc' = [proc EXCEPT ![p] = r],
         IsProc(r), r.song = proc[p].song, proc[p].closed => r.closed
  PROVE  ProcsKept /\ proc'[p] = r /\ \A q \in Handles : q # p => proc'[q] = proc[q]
<1>1. /\ proc' = [q \in Handles |-> proc'[q]] /\ proc'[p] = r
      /\ \A q \in Handles : q # p => proc'[q] = proc[q]
  BY DEF Shape
<1>2. \A q \in Handles : IsProc(proc[q])
  BY DEF Shape
<1> QED
  BY <1>1, <1>2 DEF ProcsKept

LEMMA ProcSame ==
  ASSUME Shape, proc' = proc
  PROVE  ProcsKept
BY DEF Shape, ProcsKept

LEMMA ReadsSame ==
  ASSUME IInv, thread' = thread
  PROVE  ReadsGood(thread')
BY DEF IInv, ProcInv

LEMMA ReadUpdate ==
  ASSUME IInv, NEW t \in Threads, NEW r \in Reads, thread' = [thread EXCEPT ![t] = r],
         r.at # "idle" => r.handle # None, r.at = "reading" => r.object # None,
         r.object \in Handles => proc[r.object].song # None
  PROVE  ReadsGood(thread')
<1>1. ReadsGood(thread)
  BY DEF IInv, ProcInv
<1>2. thread' \in [Threads -> Reads] /\ thread'[t] = r
      /\ \A u \in Threads : u # t => thread'[u] = thread[u]
  BY <1>1 DEF ReadsGood
<1> SUFFICES ASSUME NEW u \in Threads
             PROVE  /\ thread'[u].at # "idle" => thread'[u].handle # None
                    /\ thread'[u].at = "reading" => thread'[u].object # None
                    /\ thread'[u].object \in Handles => proc[thread'[u].object].song # None
  BY <1>2 DEF ReadsGood
<1>3. CASE u = t
  BY <1>2, <1>3
<1>4. CASE u # t
  BY <1>1, <1>2, <1>4 DEF ReadsGood
<1> QED
  BY <1>3, <1>4

LEMMA ClosesOne ==
  ASSUME Shape, NEW p \in Handles, Made(p), CloseProcessor(p)
  PROVE  ProcsKept /\ proc'[p].closed /\ \A q \in Handles : q # p => proc'[q] = proc[q]
<1> DEFINE q == [proc[p] EXCEPT !.closed = TRUE]
           r == [q EXCEPT !.file = IF q.file = "open" THEN "closed" ELSE q.file]
<1>1. proc' = [[proc EXCEPT ![p] = q] EXCEPT ![p] = r]
  BY DEF CloseProcessor, Shape
<1>2. proc' = [proc EXCEPT ![p] = r]
  <2> HIDE DEF q, r
  <2> QED
    BY <1>1 DEF Shape
<1>3. IsProc(proc[p])
  BY DEF Shape
<1>4. IsProc(q) /\ q.song = proc[p].song /\ q.closed
  BY <1>3 DEF IsProc
<1>5. IsProc(r) /\ r.song = proc[p].song /\ r.closed
  <2> HIDE DEF q
  <2> QED
    BY <1>4 DEF IsProc
<1> HIDE DEF r
<1> QED
  BY <1>2, <1>5, ProcUpdate
-----------------------------------------------------------------------------
(* What a processor does on its own, and reads.                            *)
LEMMA JobInv ==
  ASSUME IInv, NEW p \in Handles, OpenerOpens(p) \/ Download(p)
  PROVE  IInv'
<1>1. Running /\ UNCHANGED <<mutex, status, tables, thread>> /\ proc[p].opener \in {"pending", "opened"}
  BY DEF OpenerOpens, Download, OpenerIs
<1>2. Shape /\ IsProc(proc[p])
  BY DEF IInv, Shape
<1>3. PICK r : /\ proc' = [proc EXCEPT ![p] = r]
               /\ \E outcome \in {"opened", "failed"} :
                    \/ r = [proc[p] EXCEPT !.opener = outcome, !.file = "open"]
                    \/ r = [proc[p] EXCEPT !.opener = outcome]
                    \/ r = [proc[p] EXCEPT !.size = @ + 1]
  BY <1>2 DEF OpenerOpens, Download, IsProc
<1>4. IsProc(r) /\ r.song = proc[p].song /\ r.closed = proc[p].closed
  BY <1>2, <1>3 DEF IsProc
<1>5. Made(p)
  <2>1. NoProc.opener = "off"
    BY DEF NoProc
  <2> QED
    BY <1>1, <2>1 DEF Made, IInv, ProcInv
<1>6. ProcsKept
  BY <1>2, <1>3, <1>4, <1>5, ProcUpdate
<1> QED
  BY <1>1, <1>6, ReadsSame, QuietStep

LEMMA BeginReadInv ==
  ASSUME IInv, NEW t \in Threads, NEW h \in Handles, BeginRead(t, h)
  PROVE  IInv'
<1>1. /\ Running /\ mutex = None /\ remFile[h] # None /\ UNCHANGED <<mutex, status, tables>>
      /\ thread' = [thread EXCEPT ![t] = [at |-> "reading", handle |-> h, object |-> object[h]]]
  BY DEF BeginRead, Unlocked
<1>2. Shape /\ object[h] \in Handles \cup {Reader, None}
  BY DEF IInv, Shape
<1>3. object[h] # None /\ (object[h] \in Handles => proc[object[h]].song # None)
  <2>1. remFile[h] \in Songs /\ mutex # h
    BY <1>1, <1>2, NamesApart DEF Shape
  <2>2. h \in entry[remFile[h]].ids
    BY <1>1, <2>1 DEF IInv, HandleInv
  <2> QED
    BY <2>1, <2>2 DEF IInv, HandleInv, ProcInv
<1>4. ReadsGood(thread')
  <2> DEFINE r == [at |-> "reading", handle |-> h, object |-> object[h]]
  <2>1. r \in Reads /\ r.at # "idle" /\ r.handle # None /\ r.object = object[h]
    BY <1>2, NamesApart DEF Reads
  <2>2. thread' = [thread EXCEPT ![t] = r]
    BY <1>1
  <2> HIDE DEF r
  <2> QED
    BY <1>3, <2>1, <2>2, ReadUpdate
<1>5. CASE object[h] # Reader /\ proc' = [proc EXCEPT ![object[h]].opener = "pending"]
  <2> DEFINE p == object[h]
             r == [proc[p] EXCEPT !.opener = "pending"]
  <2>1. p \in Handles /\ Made(p)
    BY <1>2, <1>3, <1>5 DEF Made
  <2>2. proc' = [proc EXCEPT ![p] = r]
    BY <1>5
  <2>3. IsProc(r) /\ r.song = proc[p].song /\ r.closed = proc[p].closed
    BY <1>2, <2>1 DEF Shape, IsProc
  <2> HIDE DEF r, p
  <2>4. ProcsKept
    BY <1>2, <2>1, <2>2, <2>3, ProcUpdate
  <2> QED
    BY <1>1, <1>4, <2>4, QuietStep
<1>6. CASE proc' = proc
  BY <1>1, <1>2, <1>4, <1>6, ProcSame, QuietStep
<1> QED
  BY <1>5, <1>6 DEF BeginRead

LEMMA ReadEndsInv ==
  ASSUME IInv, NEW t \in Threads, ReadReturns(t) \/ ReadThrows(t)
  PROVE  IInv'
<1>1. /\ Running /\ thread[t].at = "reading" /\ UNCHANGED <<mutex, status, tables>>
      /\ thread' = [thread EXCEPT ![t] = Idle] \/ thread' = [thread EXCEPT ![t].at = "failed"]
  BY DEF ReadReturns, ReadThrows, ReadIsAt
<1>2. /\ Shape /\ thread[t] \in Reads /\ thread[t].object # None /\ thread[t].handle # None
      /\ thread[t].object \in Handles => proc[thread[t].object].song # None
  BY <1>1 DEF IInv, ProcInv, ReadsGood
<1>3. ReadsGood(thread')
  <2>1. PICK r : thread' = [thread EXCEPT ![t] = r] /\ (r = Idle \/ r = [thread[t] EXCEPT !.at = "failed"])
    BY <1>1
  <2>2. CASE r = Idle
    <3>1. r \in Reads /\ r.at = "idle" /\ r.object \notin Handles
      BY <2>2, NamesApart DEF Idle, Reads
    <3> QED
      BY <2>1, <3>1, ReadUpdate
  <2>3. CASE r = [thread[t] EXCEPT !.at = "failed"]
    <3>1. r \in Reads /\ r.at = "failed" /\ r.object = thread[t].object /\ r.handle = thread[t].handle
      BY <1>2, <2>3 DEF Reads
    <3> QED
      BY <1>2, <2>1, <3>1, ReadUpdate
  <2> QED
    BY <2>1, <2>2, <2>3
<1>4. CASE proc' = proc
  BY <1>1, <1>2, <1>3, <1>4, ProcSame, QuietStep
<1>5. CASE thread[t].object # Reader /\ CloseProcessor(thread[t].object)
  <2> DEFINE p == thread[t].object
  <2>1. p \in Handles /\ Made(p)
    BY <1>2, <1>5 DEF Reads, Made
  <2>2. CloseProcessor(p)
    BY <1>5
  <2> HIDE DEF p
  <2>3. ProcsKept
    BY <1>2, <2>1, <2>2, ClosesOne
  <2> QED
    BY <1>1, <1>3, <2>3, QuietStep
<1> QED
  BY <1>4, <1>5 DEF ReadReturns, ReadThrows

LEMMA GetFilenameInv ==
  ASSUME IInv, NEW h \in Handles, GetFilename(h)
  PROVE  IInv'
<1>1. Running /\ UNCHANGED <<mutex, status, tables, proc, thread>> /\ Shape
  BY DEF GetFilename, OpenIsAt, IInv
<1> QED
  BY <1>1, ProcSame, ReadsSame, QuietStep
-----------------------------------------------------------------------------
(* Opens.                                                                  *)
LEMMA OpenStarts ==
  ASSUME IInv, NEW h \in Handles, NEW song \in Songs, Open(h, song)
  PROVE  IInv'
<1>1. /\ Running /\ mutex = None /\ status[h] = "unused"
      /\ mutex' = h /\ status' = [status EXCEPT ![h] = "opening"]
      /\ remFile' = [remFile EXCEPT ![h] = song]
      /\ UNCHANGED <<entry, object, proc, thread>>
  BY DEF Open, Unlocked, SetStatus
<1>2. remFile[h] = None /\ proc[h] = NoProc
  BY <1>1 DEF IInv, OpenInv
<1>3. Shape'
  BY <1>1 DEF IInv, Shape
<1>4. /\ remFile'[h] = song /\ status'[h] = "opening"
      /\ \A k \in Handles : k # h => remFile'[k] = remFile[k] /\ status'[k] = status[k]
  BY <1>1 DEF IInv, Shape
<1>5. OpenInv'
  <2> SUFFICES ASSUME NEW k \in Handles
               PROVE  /\ status'[k] = "unused" => remFile'[k] = None
                      /\ status'[k] \in {"unused", "opening"} => proc'[k] = NoProc
                      /\ mutex' = k => remFile'[k] # None /\ status'[k] = "opening"
    BY DEF OpenInv
  <2>1. CASE k = h
    BY <1>1, <1>2, <1>4, <2>1, NamesApart
  <2>2. CASE k # h
    BY <1>1, <1>4, <2>2 DEF IInv, OpenInv
  <2> QED
    BY <2>1, <2>2
<1>6. ProcInv' /\ EntryInv' /\ UsesInv'
  <2>1. ProcInv'
    BY <1>1 DEF IInv, ProcInv, ReadsGood
  <2>2. EntryInv'
    BY <1>1 DEF IInv, EntryInv, Made
  <2>3. \A s \in Songs, p \in Handles : UsersOf(s, p)' = UsersOf(s, p)
    BY <1>1 DEF UsersOf
  <2>4. UsesInv'
    BY <1>1, <2>3 DEF IInv, UsesInv
  <2> QED
    BY <2>1, <2>2, <2>4
<1>7. HandleInv'
  <2>1. ASSUME NEW s \in Songs, NEW k \in Handles, k \in entry'[s].ids
        PROVE  /\ remFile'[k] = s /\ mutex' # k /\ object'[k] # None
               /\ object'[k] \in Handles => proc'[object'[k]].song = s
    <3>1. remFile[k] = s /\ k # h
      BY <1>1, <1>2, <2>1, NamesApart DEF IInv, HandleInv
    <3> QED
      BY <1>1, <1>4, <2>1, <3>1 DEF IInv, HandleInv
  <2>2. ASSUME NEW k \in Handles, remFile'[k] # None, mutex' # k
        PROVE  k \in entry'[remFile'[k]].ids
    BY <1>1, <1>4, <2>2, NamesApart DEF IInv, HandleInv
  <2> QED
    BY <2>1, <2>2 DEF HandleInv
<1> QED
  BY <1>3, <1>5, <1>6, <1>7 DEF IInv

(* An open that goes on, the entry of its song changed.                    *)
LEMMA OpenFails ==
  ASSUME IInv, Running, NEW song \in Songs, NEW f \in Entries,
         UNCHANGED <<mutex, status, remFile, object, proc, thread>>,
         entry' = [entry EXCEPT ![song] = f], f.present, f.ids = entry[song].ids,
         f.processor \in {None, entry[song].processor}, f.usages = entry[song].usages
  PROVE  IInv'
<1>1. /\ entry'[song] = f
      /\ \A s \in Songs : s # song => entry'[s] = entry[s]
  BY DEF IInv, Shape
<1>2. Shape'
  BY DEF IInv, Shape
<1>3. OpenInv' /\ ProcInv'
  BY DEF IInv, OpenInv, ProcInv, ReadsGood
<1>4. \A s \in Songs : entry'[s].ids = entry[s].ids /\ entry'[s].usages = entry[s].usages
  BY <1>1
<1>5. \A p \in Handles : Made(p)' <=> Made(p)
  BY DEF Made
<1>6. EntryInv'
  <2> SUFFICES ASSUME NEW s \in Songs
               PROVE  /\ IsFiniteSet(entry'[s].ids)
                      /\ ~ entry'[s].present => entry'[s].ids = {} /\ entry'[s].processor = None
                      /\ entry'[s].processor # None => proc'[entry'[s].processor].song = s
                      /\ \A p \in Handles : ~ Made(p)' => entry'[s].usages[p] = 0
    BY DEF EntryInv
  <2>1. CASE s = song
    BY <1>1, <1>4, <1>5, <2>1 DEF IInv, EntryInv
  <2>2. CASE s # song
    BY <1>1, <1>5, <2>2 DEF IInv, EntryInv
  <2> QED
    BY <2>1, <2>2
<1>7. HandleInv'
  BY <1>4 DEF IInv, HandleInv, Shape
<1>8. UsesInv'
  <2>1. \A s \in Songs, p \in Handles : UsersOf(s, p)' = UsersOf(s, p)
    BY <1>4 DEF UsersOf
  <2> QED
    BY <1>4, <2>1 DEF IInv, UsesInv
<1> QED
  BY <1>2, <1>3, <1>6, <1>7, <1>8 DEF IInv

(* An open that ends: handle h gets object obj, a reader, a processor of   *)
(* its song, or one made for it.                                           *)
Attaches(h, song, obj, f) ==
  /\ mutex = h /\ remFile[h] = song /\ obj \in Handles \cup {Reader}
  /\ EndOpen(h, "open") /\ UNCHANGED <<remFile, thread>>
  /\ object' = [object EXCEPT ![h] = obj]
  /\ entry' = [entry EXCEPT ![song] = f]
  /\ f \in Entries /\ f.present /\ f.ids = entry[song].ids \cup {h}
  /\ f.processor # None => f.processor \in Handles /\ proc'[f.processor].song = song
  /\ \A q \in Handles : q # obj => f.usages[q] = entry[song].usages[q]
  /\ obj \in Handles =>
       proc'[obj].song = song /\ f.usages[obj] = entry[song].usages[obj] + 1

(* Only the processor named h may be made.                                 *)
MakesAtMost(h, obj) ==
  /\ proc' = [q \in Handles |-> proc'[q]] /\ \A q \in Handles : IsProc(proc'[q])
  /\ \A q \in Handles : q # h => proc'[q] = proc[q]
  /\ obj # h => proc'[h] = proc[h]

LEMMA OpenEnds ==
  ASSUME IInv, Running, NEW h \in Handles, NEW song \in Songs, NEW obj, NEW f,
         Attaches(h, song, obj, f), MakesAtMost(h, obj)
  PROVE  IInv'
<1>1. /\ mutex = h /\ remFile[h] = song /\ obj \in Handles \cup {Reader}
      /\ mutex' = None /\ UNCHANGED <<remFile, thread>>
      /\ status' = [status EXCEPT ![h] = "open"]
      /\ object' = [object EXCEPT ![h] = obj]
      /\ entry' = [entry EXCEPT ![song] = f]
  BY DEF Attaches, EndOpen, SetStatus
<1>2. /\ f \in Entries /\ f.present /\ f.ids = entry[song].ids \cup {h}
      /\ f.processor # None => f.processor \in Handles /\ proc'[f.processor].song = song
      /\ \A q \in Handles : q # obj => f.usages[q] = entry[song].usages[q]
      /\ obj \in Handles =>
           proc'[obj].song = song /\ f.usages[obj] = entry[song].usages[obj] + 1
  BY DEF Attaches
<1>3. /\ object'[h] = obj /\ status'[h] = "open" /\ entry'[song] = f
      /\ \A k \in Handles : k # h => object'[k] = object[k] /\ status'[k] = status[k]
      /\ \A s \in Songs : s # song => entry'[s] = entry[s]
  BY <1>1 DEF IInv, Shape
<1>4. /\ proc[h] = NoProc /\ proc[h].song = None /\ obj # None
      /\ \A s \in Songs : h \notin entry[s].ids
  BY <1>1, NamesApart DEF IInv, OpenInv, HandleInv
<1>5. \A q \in Handles : proc[q].song # None => proc'[q] = proc[q]
  BY <1>4 DEF MakesAtMost
<1>6. Shape'
  BY <1>1, <1>2, NamesApart DEF IInv, Shape, MakesAtMost
<1>7. OpenInv'
  <2> SUFFICES ASSUME NEW k \in Handles
               PROVE  /\ status'[k] = "unused" => remFile'[k] = None
                      /\ status'[k] \in {"unused", "opening"} => proc'[k] = NoProc
                      /\ mutex' = k => remFile'[k] # None /\ status'[k] = "opening"
    BY DEF OpenInv
  <2>1. CASE k = h
    BY <1>1, <1>3, <2>1, NamesApart
  <2>2. CASE k # h
    BY <1>1, <1>3, <2>2, NamesApart DEF IInv, OpenInv, MakesAtMost
  <2> QED
    BY <2>1, <2>2
<1>8. ProcInv'
  <2>1. ASSUME NEW q \in Handles, proc'[q].song = None
        PROVE  proc'[q] = NoProc
    <3>1. CASE q = h
      BY <1>2, <1>4, <2>1, <3>1, NamesApart DEF MakesAtMost
    <3>2. CASE q # h
      BY <2>1, <3>2 DEF IInv, ProcInv, MakesAtMost
    <3> QED
      BY <3>1, <3>2
  <2>2. ASSUME NEW k \in Handles, object'[k] \in Handles
        PROVE  proc'[object'[k]].song # None
    <3>1. CASE k = h
      BY <1>2, <1>3, <2>2, <3>1, NamesApart
    <3>2. CASE k # h
      BY <1>3, <1>5, <2>2, <3>2 DEF IInv, ProcInv
    <3> QED
      BY <3>1, <3>2
  <2>3. ReadsGood(thread)'
    BY <1>1, <1>5 DEF IInv, ProcInv, ReadsGood
  <2> QED
    BY <2>1, <2>2, <2>3 DEF ProcInv
<1>9. EntryInv'
  <2> SUFFICES ASSUME NEW s \in Songs
               PROVE  /\ IsFiniteSet(entry'[s].ids)
                      /\ ~ entry'[s].present => entry'[s].ids = {} /\ entry'[s].processor = None
                      /\ entry'[s].processor # None => proc'[entry'[s].processor].song = s
                      /\ \A p \in Handles : ~ Made(p)' => entry'[s].usages[p] = 0
    BY DEF EntryInv
  <2>1. \A p \in Handles : ~ Made(p)' => ~ Made(p) /\ p # obj
    BY <1>2, <1>5, NamesApart DEF Made
  <2>2. CASE s = song
    <3>1. IsFiniteSet(entry[song].ids)
      BY DEF IInv, EntryInv
    <3>2. IsFiniteSet(f.ids)
      BY <1>2, <3>1, FS_AddElement
    <3>3. \A p \in Handles : ~ Made(p)' => f.usages[p] = 0
      BY <1>2, <2>1 DEF IInv, EntryInv
    <3> QED
      BY <1>2, <1>3, <2>2, <3>2, <3>3
  <2>3. CASE s # song
    <3>1. entry[s].processor \in Handles \cup {None}
      BY DEF IInv, Shape, Entries
    <3> QED
      BY <1>3, <1>5, <2>1, <2>3, <3>1, NamesApart DEF IInv, EntryInv
  <2> QED
    BY <2>2, <2>3
<1>10. HandleInv'
  <2>1. ASSUME NEW s \in Songs, NEW k \in Handles, k \in entry'[s].ids
        PROVE  /\ remFile'[k] = s /\ mutex' # k /\ object'[k] # None
               /\ object'[k] \in Handles => proc'[object'[k]].song = s
    <3>1. CASE k = h
      <4>1. s = song
        BY <1>3, <1>4, <2>1, <3>1
      <4> QED
        BY <1>1, <1>2, <1>3, <1>4, <3>1, <4>1, NamesApart
    <3>2. CASE k # h
      <4>1. k \in entry[s].ids
        BY <1>2, <1>3, <2>1, <3>2
      <4>2. /\ remFile[k] = s /\ object[k] # None
            /\ object[k] \in Handles => proc[object[k]].song = s
        BY <4>1 DEF IInv, HandleInv
      <4> QED
        BY <1>1, <1>3, <1>5, <3>2, <4>2, NamesApart
    <3> QED
      BY <3>1, <3>2
  <2>2. ASSUME NEW k \in Handles, remFile'[k] # None
        PROVE  k \in entry'[remFile'[k]].ids
    <3>1. CASE k = h
      BY <1>1, <1>2, <1>3, <3>1
    <3>2. CASE k # h
      <4>1. remFile[k] \in Songs /\ k \in entry[remFile[k]].ids
        BY <1>1, <2>2, <3>2 DEF IInv, HandleInv, Shape
      <4> QED
        BY <1>1, <1>2, <1>3, <4>1
    <3> QED
      BY <3>1, <3>2
  <2> QED
    BY <2>1, <2>2 DEF HandleInv
<1>11. UsesInv'
  <2> SUFFICES ASSUME NEW p \in Handles, NEW s \in Songs, proc'[p].song = s, ~ proc'[p].closed
               PROVE  /\ entry'[s].usages[p] > 0
                      /\ entry'[s].usages[p] = Cardinality(UsersOf(s, p)')
    BY DEF UsesInv
  <2>1. CASE p = obj
    <3>1. s = song /\ f.usages[p] = entry[song].usages[p] + 1
      BY <1>2, <2>1
    <3>2. UsersOf(s, p)' = UsersOf(s, p) \cup {h} /\ h \notin UsersOf(s, p)
      <4>1. entry[song].ids \subseteq Handles /\ h \notin entry[song].ids
        BY <1>4 DEF IInv, Shape, Entries
      <4> QED
        BY <1>2, <1>3, <2>1, <3>1, <4>1 DEF UsersOf
    <3>3. IsFiniteSet(UsersOf(s, p)) /\ Cardinality(UsersOf(s, p)) \in Nat
      BY FS_Subset, FS_CardinalityType DEF UsersOf, IInv, EntryInv
    <3>4. Cardinality(UsersOf(s, p)') = Cardinality(UsersOf(s, p)) + 1
      BY <3>2, <3>3, FS_AddElement
    <3>5. entry[s].usages[p] = Cardinality(UsersOf(s, p))
      <4>1. CASE Made(p)
        BY <1>5, <4>1 DEF Made, IInv, UsesInv
      <4>2. CASE ~ Made(p)
        <5>1. entry[s].usages[p] = 0
          BY <4>2 DEF IInv, EntryInv
        <5>2. UsersOf(s, p) = {}
          BY <4>2 DEF UsersOf, Made, IInv, ProcInv, Shape, Entries
        <5> QED
          BY <5>1, <5>2, FS_EmptySet
      <4> QED
        BY <4>1, <4>2
    <3> QED
      BY <1>3, <3>1, <3>3, <3>4, <3>5
  <2>2. CASE p # obj
    <3>1. proc'[p] = proc[p]
      BY <2>2 DEF MakesAtMost
    <3>2. entry'[s].usages[p] = entry[s].usages[p]
      BY <1>2, <1>3, <2>2
    <3>3. UsersOf(s, p)' = UsersOf(s, p)
      BY <1>2, <1>3, <1>4, <2>2 DEF UsersOf, IInv, Shape, Entries
    <3> QED
      BY <3>1, <3>2, <3>3 DEF IInv, UsesInv
  <2> QED
    BY <2>1, <2>2
<1> QED
  BY <1>6, <1>7, <1>8, <1>9, <1>10, <1>11 DEF IInv

LEMMA EntryType ==
  ASSUME Shape, NEW s \in Songs
  PROVE  /\ entry[s] \in Entries
         /\ entry[s] = [present |-> entry[s].present, processor |-> entry[s].processor,
                        ids |-> entry[s].ids, usages |-> entry[s].usages]
         /\ entry[s].processor \in Handles \cup {None} /\ entry[s].ids \subseteq Handles
         /\ entry[s].usages \in [Handles -> Nat]
BY DEF Shape, Entries

LEMMA OpenOf ==
  ASSUME IInv, NEW h \in Handles, NEW step, OpenIsAt(h, step)
  PROVE  Running /\ mutex = h /\ Shape /\ remFile[h] \in Songs /\ proc[h] = NoProc
BY NamesApart DEF OpenIsAt, IInv, OpenInv, Shape

LEMMA AttachReaderInv ==
  ASSUME IInv, NEW h \in Handles, AttachReader(h)
  PROVE  IInv'
<1> DEFINE song == remFile[h]
           e    == [entry[song] EXCEPT !.present = TRUE, !.processor = None]
           f    == [e EXCEPT !.ids = @ \cup {h}]
<1>1. Running /\ mutex = h /\ Shape /\ song \in Songs
  BY OpenOf DEF AttachReader
<1>2. /\ e \in Entries /\ e.present /\ e.processor = None
      /\ e.ids = entry[song].ids /\ e.usages = entry[song].usages
  BY <1>1, EntryType DEF Entries
<1>3. /\ f \in Entries /\ f.present /\ f.processor = None
      /\ f.ids = entry[song].ids \cup {h} /\ f.usages = entry[song].usages
  <2> HIDE DEF e
  <2> QED
    BY <1>2 DEF Entries
<1>4. CASE /\ EndOpen(h, "open") /\ UNCHANGED <<remFile, proc, thread>>
           /\ entry' = [entry EXCEPT ![song] = f]
           /\ object' = [object EXCEPT ![h] = Reader]
  <2> HIDE DEF e, f
  <2>1. Attaches(h, song, Reader, f)
    BY <1>1, <1>3, <1>4, NamesApart DEF Attaches, song
  <2>2. MakesAtMost(h, Reader)
    BY <1>1, <1>4 DEF MakesAtMost, Shape
  <2> QED
    BY <1>1, <2>1, <2>2, OpenEnds
<1>5. CASE /\ UNCHANGED <<mutex, status, remFile, object, proc, thread>>
           /\ entry' = [entry EXCEPT ![song] = e]
  <2> HIDE DEF e, f
  <2> QED
    BY <1>1, <1>2, <1>5, OpenFails
<1> QED
  BY <1>4, <1>5 DEF AttachReader

LEMMA AttachedEntry ==
  ASSUME Shape, NEW s \in Songs, NEW h \in Handles, NEW p \in Handles, NEW e \in Entries
  PROVE  /\ Attached(e, h, p) \in Entries /\ Attached(e, h, p).present = e.present
         /\ Attached(e, h, p).ids = e.ids \cup {h} /\ Attached(e, h, p).processor = p
         /\ Attached(e, h, p).usages[p] = e.usages[p] + 1
         /\ \A q \in Handles : q # p => Attached(e, h, p).usages[q] = e.usages[q]
<1> DEFINE e1 == [e EXCEPT !.ids = e.ids \cup {h}]
           e2 == [e1 EXCEPT !.processor = p]
           u  == [e2.usages EXCEPT ![p] = e2.usages[p] + 1]
           f  == [e2 EXCEPT !.usages = u]
<1>1. e1 \in Entries /\ e1.present = e.present /\ e1.ids = e.ids \cup {h} /\ e1.usages = e.usages
  BY DEF Entries
<1> HIDE DEF e1
<1>2. /\ e2 \in Entries /\ e2.present = e.present /\ e2.ids = e.ids \cup {h}
      /\ e2.processor = p /\ e2.usages = e.usages
  BY <1>1 DEF Entries
<1> HIDE DEF e2
<1>3. /\ u \in [Handles -> Nat] /\ u[p] = e.usages[p] + 1
      /\ \A q \in Handles : q # p => u[q] = e.usages[q]
  BY <1>2 DEF Entries
<1> HIDE DEF u
<1>4. /\ f \in Entries /\ f.present = e.present /\ f.ids = e.ids \cup {h}
      /\ f.processor = p /\ f.usages = u
  BY <1>2, <1>3 DEF Entries
<1>5. Attached(e, h, p) = f
  BY DEF Attached, f, e2, e1, u
<1> QED
  BY <1>3, <1>4, <1>5

LEMMA ShareProcessorInv ==
  ASSUME IInv, NEW h \in Handles, ShareProcessor(h)
  PROVE  IInv'
<1> DEFINE song == remFile[h]
           p    == entry[song].processor
           f    == Attached(entry[song], h, p)
<1>1. Running /\ mutex = h /\ Shape /\ song \in Songs /\ proc[h].song = None
  BY OpenOf, NamesApart DEF ShareProcessor
<1>2. /\ EndOpen(h, "open") /\ UNCHANGED <<remFile, proc, thread>> /\ p # None
      /\ entry' = [entry EXCEPT ![song] = f]
      /\ object' = [object EXCEPT ![h] = p]
  BY DEF ShareProcessor
<1>3. entry[song] \in Entries /\ p \in Handles
  BY <1>1, <1>2, EntryType
<1>4. proc[p].song = song /\ entry[song].present
  BY <1>1, <1>2, <1>3 DEF IInv, EntryInv
<1>5. /\ f \in Entries /\ f.present /\ f.ids = entry[song].ids \cup {h} /\ f.processor = p
      /\ f.usages[p] = entry[song].usages[p] + 1
      /\ \A q \in Handles : q # p => f.usages[q] = entry[song].usages[q]
  BY <1>1, <1>3, <1>4, AttachedEntry
<1> HIDE DEF f, p
<1>6. Attaches(h, song, p, f)
  BY <1>1, <1>2, <1>3, <1>4, <1>5 DEF Attaches
<1>7. MakesAtMost(h, p)
  BY <1>1, <1>2 DEF MakesAtMost, Shape
<1> QED
  BY <1>1, <1>6, <1>7, OpenEnds

LEMMA CreateProcessorInv ==
  ASSUME IInv, NEW h \in Handles, CreateProcessor(h)
  PROVE  IInv'
<1> DEFINE song == remFile[h]
           e    == [entry[song] EXCEPT !.present = TRUE]
           f    == Attached(e, h, h)
<1>1. Running /\ mutex = h /\ Shape /\ song \in Songs
  BY OpenOf DEF CreateProcessor
<1>2. entry[song] \in Entries
  BY <1>1, EntryType
<1>3. /\ e \in Entries /\ e.present /\ e.ids = entry[song].ids
      /\ e.processor = entry[song].processor /\ e.usages = entry[song].usages
  BY <1>2 DEF Entries
<1> HIDE DEF e
<1>4. /\ f \in Entries /\ f.present /\ f.ids = entry[song].ids \cup {h} /\ f.processor = h
      /\ f.usages[h] = entry[song].usages[h] + 1
      /\ \A q \in Handles : q # h => f.usages[q] = entry[song].usages[q]
  BY <1>1, <1>3, AttachedEntry
<1> HIDE DEF f
<1>5. CASE /\ EndOpen(h, "open") /\ UNCHANGED <<remFile, thread>>
           /\ \E size : proc' = [proc EXCEPT ![h] = [NoProc EXCEPT !.song = song, !.size = size]]
           /\ entry' = [entry EXCEPT ![song] = f]
           /\ object' = [object EXCEPT ![h] = h]
  <2>1. PICK size : proc' = [proc EXCEPT ![h] = [NoProc EXCEPT !.song = song, !.size = size]]
    BY <1>5
  <2> DEFINE r1 == [NoProc EXCEPT !.song = song]
             r  == [r1 EXCEPT !.size = size]
  <2>2. IsProc(r1) /\ r1.song = song
    BY <1>1, NamesApart DEF IsProc
  <2> HIDE DEF r1
  <2>3. IsProc(r) /\ r.song = song
    BY <2>2 DEF IsProc
  <2>4. proc' = [proc EXCEPT ![h] = r]
    BY <2>1 DEF r1
  <2> HIDE DEF r
  <2>5. MakesAtMost(h, h) /\ proc'[h].song = song
    BY <1>1, <2>3, <2>4 DEF MakesAtMost, Shape
  <2>6. Attaches(h, song, h, f)
    BY <1>1, <1>4, <1>5, <2>5, NamesApart DEF Attaches
  <2> QED
    BY <1>1, <2>5, <2>6, OpenEnds
<1>6. CASE /\ UNCHANGED <<mutex, status, remFile, object, proc, thread>>
           /\ entry' = [entry EXCEPT ![song] = e]
  BY <1>1, <1>3, <1>6, OpenFails
<1> QED
  BY <1>5, <1>6 DEF CreateProcessor, f, e
-----------------------------------------------------------------------------
(* Closes.  What surrounds closeNoLock in each of its callers:             *)
Closing(h) ==
  /\ mutex \in {None, h} /\ mutex' = None
  /\ status' = status \/ status' = [status EXCEPT ![h] = "released"]
  /\ ReadsGood(thread')

(* The handle leaves the entry of its song, whose open processors still    *)
(* have the users that are counted.                                        *)
Leaves(h, song, g) ==
  /\ remFile[h] = song /\ Forget(h)
  /\ entry' = [entry EXCEPT ![song] = g]
  /\ g \in Entries /\ g.ids = entry[song].ids \ {h}
  /\ ~ g.present => g.ids = {} /\ g.processor = None
  /\ g.processor \in {None, entry[song].processor}
  /\ \A p \in Handles : ~ Made(p) => g.usages[p] = 0
  /\ \A p \in Handles : proc'[p].song = song /\ ~ proc'[p].closed =>
       g.usages[p] > 0 /\ g.usages[p] = Cardinality({k \in g.ids : object[k] = p})

LEMMA StatusKept ==
  ASSUME IInv, NEW h \in Handles, Closing(h)
  PROVE  /\ mutex' \in Handles \cup {None} /\ \A k \in Handles : mutex' # k
         /\ status' \in [Handles -> {"unused", "opening", "open", "released"}]
         /\ \A k \in Handles : status'[k] \in {"unused", "opening"} => status'[k] = status[k]
BY NamesApart DEF Closing, IInv, Shape

LEMMA LeaveInv ==
  ASSUME IInv, Running, NEW h \in Handles, NEW song \in Songs, NEW g,
         Closing(h), Leaves(h, song, g), ProcsKept
  PROVE  IInv'
<1>1. /\ remFile' = [remFile EXCEPT ![h] = None] /\ object' = [object EXCEPT ![h] = None]
      /\ entry' = [entry EXCEPT ![song] = g] /\ g \in Entries
      /\ remFile[h] = song /\ g.ids = entry[song].ids \ {h}
  BY DEF Leaves, Forget
<1>2. /\ ~ g.present => g.ids = {} /\ g.processor = None
      /\ g.processor \in {None, entry[song].processor}
      /\ \A p \in Handles : ~ Made(p) => g.usages[p] = 0
  BY DEF Leaves
<1>3. \A p \in Handles : proc'[p].song = song /\ ~ proc'[p].closed =>
        g.usages[p] > 0 /\ g.usages[p] = Cardinality({k \in g.ids : object[k] = p})
  BY DEF Leaves
<1>4. /\ remFile'[h] = None /\ object'[h] = None /\ entry'[song] = g
      /\ \A k \in Handles : k # h => remFile'[k] = remFile[k] /\ object'[k] = object[k]
      /\ \A s \in Songs : s # song => entry'[s] = entry[s]
  BY <1>1 DEF IInv, Shape
<1>5. \A p \in Handles : (Made(p)' <=> Made(p)) /\ proc'[p].song = proc[p].song
  BY DEF Made, ProcsKept
<1>6. \A s \in Songs : entry'[s].ids = entry[s].ids \ {h}
  <2>1. \A s \in Songs : s # song => h \notin entry[s].ids
    BY <1>1 DEF IInv, HandleInv
  <2> QED
    BY <1>1, <1>4, <2>1
<1>7. Shape'
  BY <1>1, StatusKept DEF IInv, Shape, ProcsKept, Closing, ReadsGood
<1>8. OpenInv'
  <2>1. \A k \in Handles : remFile[k] = None => remFile'[k] = None
    BY <1>4
  <2>2. \A k \in Handles : proc[k] = NoProc => proc'[k] = NoProc
    BY NamesApart DEF Made, ProcsKept
  <2> QED
    BY <2>1, <2>2, StatusKept DEF IInv, OpenInv
<1>9. ProcInv'
  <2>1. \A p \in Handles : proc'[p].song = None => proc'[p] = NoProc
    BY DEF IInv, ProcInv, Made, ProcsKept
  <2>2. \A k \in Handles : object'[k] \in Handles => proc'[object'[k]].song # None
    BY <1>4, <1>5, NamesApart DEF IInv, ProcInv
  <2>3. ReadsGood(thread)'
    BY <1>5 DEF ReadsGood, Closing
  <2> QED
    BY <2>1, <2>2, <2>3 DEF ProcInv
<1>10. EntryInv'
  <2> SUFFICES ASSUME NEW s \in Songs
               PROVE  /\ IsFiniteSet(entry'[s].ids)
                      /\ ~ entry'[s].present => entry'[s].ids = {} /\ entry'[s].processor = None
                      /\ entry'[s].processor # None => proc'[entry'[s].processor].song = s
                      /\ \A p \in Handles : ~ Made(p)' => entry'[s].usages[p] = 0
    BY DEF EntryInv
  <2>1. IsFiniteSet(entry'[s].ids)
    <3>1. IsFiniteSet(entry[s].ids)
      BY DEF IInv, EntryInv
    <3> QED
      BY <1>6, <3>1, FS_Subset
  <2>2. entry[s].processor \in Handles \cup {None}
    BY DEF IInv, Shape, Entries
  <2>3. CASE s = song
    BY <1>2, <1>4, <1>5, <2>1, <2>2, <2>3 DEF IInv, EntryInv
  <2>4. CASE s # song
    BY <1>4, <1>5, <2>1, <2>2, <2>4 DEF IInv, EntryInv
  <2> QED
    BY <2>3, <2>4
<1>11. HandleInv'
  <2>1. ASSUME NEW s \in Songs, NEW k \in Handles, k \in entry'[s].ids
        PROVE  /\ remFile'[k] = s /\ mutex' # k /\ object'[k] # None
               /\ object'[k] \in Handles => proc'[object'[k]].song = s
    <3>1. k # h /\ k \in entry[s].ids
      BY <1>6, <2>1
    <3> QED
      BY <1>4, <1>5, <3>1, StatusKept DEF IInv, HandleInv
  <2>2. ASSUME NEW k \in Handles, remFile'[k] # None
        PROVE  k \in entry'[remFile'[k]].ids
    <3>1. k # h /\ remFile'[k] = remFile[k] /\ remFile[k] \in Songs /\ mutex # k
      BY <1>4, <2>2, NamesApart DEF Closing, IInv, Shape
    <3> QED
      BY <1>6, <2>2, <3>1 DEF IInv, HandleInv
  <2> QED
    BY <2>1, <2>2 DEF HandleInv
<1>12. UsesInv'
  <2> SUFFICES ASSUME NEW p \in Handles, NEW s \in Songs, proc'[p].song = s, ~ proc'[p].closed
               PROVE  /\ entry'[s].usages[p] > 0
                      /\ entry'[s].usages[p] = Cardinality(UsersOf(s, p)')
    BY DEF UsesInv
  <2>1. entry[s].ids \subseteq Handles
    BY DEF IInv, Shape, Entries
  <2>2. UsersOf(s, p)' = {k \in entry'[s].ids : object[k] = p}
    BY <1>4, <1>6, <2>1 DEF UsersOf
  <2>3. CASE s = song
    BY <1>3, <1>4, <2>2, <2>3
  <2>4. CASE s # song
    <3>1. proc[p].song = s /\ ~ proc[p].closed
      BY DEF IInv, Shape, IsProc, ProcsKept
    <3>2. UsersOf(s, p)' = UsersOf(s, p)
      BY <1>4, <2>2, <2>4 DEF UsersOf
    <3> QED
      BY <1>4, <2>4, <3>1, <3>2 DEF IInv, UsesInv
  <2> QED
    BY <2>3, <2>4
<1> QED
  BY <1>7, <1>8, <1>9, <1>10, <1>11, <1>12 DEF IInv

(* A close that finds no song, or no handle, and then is the program's     *)
(* last step.                                                              *)
LEMMA CloseNothing ==
  ASSUME IInv, Running, NEW h \in Handles, Closing(h), UNCHANGED <<tables, proc>>,
         remFile[h] = None \/ ~ Running'
  PROVE  IInv'
<1>1. UNCHANGED <<remFile, entry, object, proc>>
  BY DEF tables
<1>2. Shape'
  BY <1>1, StatusKept DEF IInv, Shape, Closing, ReadsGood
<1>3. OpenInv'
  BY <1>1, StatusKept DEF IInv, OpenInv
<1>4. ProcInv'
  <2>1. ReadsGood(thread)'
    BY <1>1 DEF Closing, ReadsGood
  <2> QED
    BY <1>1, <2>1 DEF IInv, ProcInv
<1>5. EntryInv'
  BY <1>1 DEF IInv, EntryInv, Made
<1>6. UsesInv'
  <2>1. \A s \in Songs, p \in Handles : UsersOf(s, p)' = UsersOf(s, p)
    BY <1>1 DEF UsersOf
  <2> QED
    BY <1>1, <2>1 DEF IInv, UsesInv
<1>7. HandleInv'
  <2>1. ASSUME NEW s \in Songs, NEW k \in Handles, k \in entry'[s].ids
        PROVE  /\ remFile'[k] = s /\ mutex' # k /\ object'[k] # None
               /\ object'[k] \in Handles => proc'[object'[k]].song = s
    BY <1>1, <2>1, StatusKept DEF IInv, HandleInv
  <2>2. ASSUME NEW k \in Handles, remFile'[k] # None, Running'
        PROVE  k \in entry'[remFile'[k]].ids
    <3>1. k # h /\ mutex # k
      BY <1>1, <2>2, NamesApart DEF Closing
    <3> QED
      BY <1>1, <2>2, <3>1 DEF IInv, HandleInv
  <2> QED
    BY <2>1, <2>2 DEF HandleInv
<1> QED
  BY <1>2, <1>3, <1>4, <1>5, <1>6, <1>7 DEF IInv

(* A close that finds the handle: f is the entry without it, which becomes *)
(* NoEntry when it was the last.                                           *)
LEMMA CloseFound ==
  ASSUME IInv, Running, NEW h \in Handles, NEW song \in Songs, Closing(h), ProcsKept,
         remFile[h] = song, h \in entry[song].ids, Forget(h), NEW f \in Entries,
         entry' = [entry EXCEPT ![song] = IF entry[song].ids \ {h} = {} THEN NoEntry ELSE f],
         f.ids = entry[song].ids \ {h}, f.present, f.processor = entry[song].processor,
         \A p \in Handles : p # object[h] => f.usages[p] = entry[song].usages[p],
         \/ f.usages = entry[song].usages /\ (object[h] \in Handles => proc'[object[h]].closed)
         \/ /\ object[h] \in Handles /\ entry[song].usages[object[h]] > 1
            /\ f.usages[object[h]] = entry[song].usages[object[h]] - 1
  PROVE  IInv'
<1> DEFINE ids == entry[song].ids \ {h}
           g   == IF ids = {} THEN NoEntry ELSE f
           left(p) == {k \in ids : object[k] = p}
<1>1. g \in Entries /\ g.ids = ids /\ (~ g.present => ids = {} /\ g.processor = None)
      /\ g.processor \in {None, entry[song].processor}
  BY NamesApart
<1>2. ASSUME NEW p \in Handles, ~ Made(p)
      PROVE  g.usages[p] = 0
  <2>1. entry[song].usages[p] = 0
    BY <1>2 DEF IInv, EntryInv
  <2>2. p # object[h]
    BY <1>2 DEF Made, IInv, ProcInv
  <2> QED
    BY <2>1, <2>2, NamesApart
<1>3. ASSUME NEW p \in Handles, proc'[p].song = song, ~ proc'[p].closed
      PROVE  ids # {} /\ f.usages[p] > 0 /\ f.usages[p] = Cardinality(left(p))
  <2>1. proc[p].song = song /\ ~ proc[p].closed
    BY <1>3 DEF IInv, Shape, IsProc, ProcsKept
  <2>2. entry[song].usages[p] > 0 /\ entry[song].usages[p] = Cardinality(UsersOf(song, p))
    BY <2>1 DEF IInv, UsesInv
  <2>3. IsFiniteSet(UsersOf(song, p)) /\ entry[song].usages[p] \in Nat
    BY FS_Subset DEF UsersOf, IInv, EntryInv, Shape, Entries
  <2>4. f.usages[p] > 0 /\ f.usages[p] = Cardinality(left(p))
    <3>1. CASE p = object[h]
      <4>1. /\ entry[song].usages[p] > 1
            /\ f.usages[p] = entry[song].usages[p] - 1
        BY <1>3, <3>1
      <4>2. left(p) = UsersOf(song, p) \ {h} /\ h \in UsersOf(song, p)
        BY <3>1 DEF UsersOf
      <4> HIDE DEF left
      <4>3. Cardinality(left(p)) = Cardinality(UsersOf(song, p)) - 1
        BY <2>3, <4>2, FS_RemoveElement, ZenonT(30)
      <4> QED
        BY <2>2, <2>3, <4>1, <4>3
    <3>2. CASE p # object[h]
      <4>1. left(p) = UsersOf(song, p)
        BY <3>2 DEF UsersOf
      <4> QED
        BY <2>2, <3>2, <4>1
    <3> QED
      BY <3>1, <3>2
  <2>5. ids # {}
    <3>1. left(p) # {}
      BY <2>4, FS_EmptySet
    <3> QED
      BY <3>1
  <2> QED
    BY <2>4, <2>5
<1>4. entry' = [entry EXCEPT ![song] = g]
  OBVIOUS
<1>5. \A p \in Handles : proc'[p].song = song /\ ~ proc'[p].closed =>
        g.usages[p] > 0 /\ g.usages[p] = Cardinality({k \in g.ids : object[k] = p})
  BY <1>1, <1>3
<1> HIDE DEF g, ids
<1>6. Leaves(h, song, g)
  BY <1>1, <1>2, <1>4, <1>5 DEF Leaves, ids
<1> QED
  BY <1>6, LeaveInv

LEMMA CloseInv ==
  ASSUME IInv, Running, NEW h \in Handles, Closing(h), CloseNoLock(h)
  PROVE  IInv'
<1> DEFINE song == remFile[h]
           e    == entry[song]
           obj  == object[h]
           ids  == e.ids \ {h}
<1>1. Shape /\ song \in Songs \cup {None}
  BY DEF IInv, Shape
<1>2. CASE song = None /\ UNCHANGED <<tables, proc, cache, fault>>
  BY <1>2, CloseNothing
<1>3. CASE song # None /\ ~ e.present /\ Forget(h) /\ UNCHANGED <<entry, proc, cache, fault>>
  <2>1. song \in Songs /\ e.ids = {} /\ e.processor = None
    BY <1>1, <1>3 DEF IInv, EntryInv
  <2>2. e \in Entries
    BY <1>1, <2>1, EntryType
  <2>3. ProcsKept
    BY <1>1, <1>3, ProcSame
  <2>4. \A p \in Handles : ~ Made(p) => e.usages[p] = 0
    BY <2>1 DEF IInv, EntryInv
  <2>5. ASSUME NEW p \in Handles, proc'[p].song = song, ~ proc'[p].closed
        PROVE  e.usages[p] > 0 /\ e.usages[p] = Cardinality({k \in e.ids : object[k] = p})
    <3>1. proc[p].song = song /\ ~ proc[p].closed
      BY <1>3, <2>5
    <3> QED
      BY <2>1, <3>1 DEF IInv, UsesInv, UsersOf
  <2>6. entry' = [entry EXCEPT ![song] = e]
    BY <1>1, <1>3, <2>1 DEF Shape
  <2>7. Leaves(h, song, e)
    <3>1. e.ids = e.ids \ {h}
      BY <2>1
    <3> QED
      BY <1>3, <2>1, <2>2, <2>4, <2>5, <2>6, <3>1 DEF Leaves
  <2> HIDE DEF e, song
  <2> QED
    BY <2>1, <2>3, <2>7, LeaveInv
<1>4. CASE fault' = TRUE /\ UNCHANGED <<tables, proc, cache>>
  <2>1. ~ Running'
    BY <1>4 DEF Running
  <2> QED
    BY <1>4, <2>1, CloseNothing
<1>5. CASE /\ song # None /\ h \in e.ids /\ obj # Reader /\ e.usages[obj] > 1
           /\ entry' = [entry EXCEPT ![song] =
                          IF ids = {} THEN NoEntry
                          ELSE [e EXCEPT !.ids = ids, !.usages[obj] = @ - 1]]
           /\ UNCHANGED <<proc, cache>> /\ Forget(h)
  <2>1. song \in Songs /\ e \in Entries /\ e.present
    BY <1>1, <1>5, EntryType DEF IInv, EntryInv
  <2>2. obj \in Handles
    BY <1>1, <1>5, <2>1 DEF IInv, HandleInv, Shape
  <2>3. ProcsKept
    BY <1>1, <1>5, ProcSame
  <2> DEFINE e1 == [e EXCEPT !.ids = ids]
             u  == [e1.usages EXCEPT ![obj] = e1.usages[obj] - 1]
             f  == [e1 EXCEPT !.usages = u]
  <2>4. /\ e1 \in Entries /\ e1.present /\ e1.processor = e.processor
        /\ e1.ids = ids /\ e1.usages = e.usages
    BY <2>1 DEF Entries
  <2>5. entry' = [entry EXCEPT ![song] = IF ids = {} THEN NoEntry ELSE f]
    BY <1>5
  <2> HIDE DEF e1
  <2>6. /\ u \in [Handles -> Nat] /\ u[obj] = e.usages[obj] - 1
        /\ \A p \in Handles : p # obj => u[p] = e.usages[p]
    BY <1>5, <2>1, <2>2, <2>4 DEF Entries
  <2> HIDE DEF u
  <2>7. /\ f \in Entries /\ f.present /\ f.processor = e.processor
        /\ f.ids = ids /\ f.usages = u
    BY <2>4, <2>6 DEF Entries
  <2> HIDE DEF f
  <2> QED
    BY <1>5, <2>1, <2>2, <2>3, <2>5, <2>6, <2>7, CloseFound
<1>6. CASE /\ song # None /\ h \in e.ids
           /\ entry' = [entry EXCEPT ![song] =
                          IF ids = {} THEN NoEntry ELSE [e EXCEPT !.ids = ids]]
           /\ IF obj = Reader THEN UNCHANGED <<proc, cache>> ELSE CloseProcessor(obj)
           /\ Forget(h)
  <2>1. song \in Songs /\ e \in Entries /\ e.present
    BY <1>1, <1>6, EntryType DEF IInv, EntryInv
  <2>2. obj \in Handles \cup {Reader} /\ (obj \in Handles => Made(obj))
    BY <1>1, <1>6, <2>1 DEF IInv, HandleInv, ProcInv, Shape, Made
  <2> DEFINE f == [e EXCEPT !.ids = ids]
  <2>3. /\ f \in Entries /\ f.present /\ f.processor = e.processor
        /\ f.ids = ids /\ f.usages = e.usages
    BY <2>1 DEF Entries
  <2>4. entry' = [entry EXCEPT ![song] = IF ids = {} THEN NoEntry ELSE f]
    BY <1>6
  <2>5. ProcsKept /\ (obj \in Handles => proc'[obj].closed)
    <3>1. CASE obj = Reader
      BY <1>1, <1>6, <3>1, ProcSame, NamesApart
    <3>2. CASE obj # Reader
      BY <1>1, <1>6, <2>2, <3>2, ClosesOne
    <3> QED
      BY <3>1, <3>2
  <2> HIDE DEF f
  <2>6. /\ f.usages = entry[song].usages /\ (object[h] \in Handles => proc'[object[h]].closed)
        /\ f.ids = entry[song].ids \ {h} /\ f.processor = entry[song].processor
        /\ entry' = [entry EXCEPT ![song] = IF entry[song].ids \ {h} = {} THEN NoEntry ELSE f]
    BY <2>3, <2>4, <2>5
  <2>7. \A p \in Handles : p # object[h] => f.usages[p] = entry[song].usages[p]
    BY <2>6
  <2> QED
    BY <1>6, <2>1, <2>3, <2>5, <2>6, <2>7, CloseFound
<1> QED
  BY <1>2, <1>3, <1>4, <1>5, <1>6 DEF CloseNoLock

LEMMA FailOpenInv ==
  ASSUME IInv, NEW h \in Handles, FailOpen(h)
  PROVE  IInv'
<1>1. /\ Running /\ mutex = h /\ mutex' = None /\ UNCHANGED thread
      /\ status' = [status EXCEPT ![h] = "released"] /\ CloseNoLock(h)
  BY DEF FailOpen, OpenIsAt, EndOpen, SetStatus
<1>2. Closing(h)
  BY <1>1, ReadsSame DEF Closing
<1> QED
  BY <1>1, <1>2, CloseInv

LEMMA CloseFailedInv ==
  ASSUME IInv, NEW t \in Threads, CloseFailed(t)
  PROVE  IInv'
<1> DEFINE h == thread[t].handle
<1>1. /\ Running /\ mutex = None /\ thread[t].at = "failed" /\ CloseNoLock(h)
      /\ thread' = [thread EXCEPT ![t] = Idle] /\ UNCHANGED <<mutex, status>>
  BY DEF CloseFailed, Unlocked, ReadIsAt
<1>2. h \in Handles
  BY <1>1 DEF IInv, ProcInv, ReadsGood, Reads
<1>3. Idle \in Reads /\ Idle.at = "idle" /\ Idle.object \notin Handles
  BY NamesApart DEF Idle, Reads
<1>4. ReadsGood(thread')
  BY <1>1, <1>3, ReadUpdate
<1>5. Closing(h)
  BY <1>1, <1>4 DEF Closing
<1> QED
  BY <1>1, <1>2, <1>5, CloseInv

LEMMA ReleaseInv ==
  ASSUME IInv, NEW h \in Handles, Release(h)
  PROVE  IInv'
<1>1. /\ Running /\ mutex = None /\ UNCHANGED <<mutex, thread>> /\ CloseNoLock(h)
      /\ status' = [status EXCEPT ![h] = "released"]
  BY DEF Release, Unlocked, SetStatus
<1>2. Closing(h)
  BY <1>1, ReadsSame DEF Closing
<1> QED
  BY <1>1, <1>2, CloseInv

LEMMA StutterInv ==
  ASSUME IInv, UNCHANGED vars
  PROVE  IInv'
<1>1. /\ UNCHANGED <<mutex, status, remFile, entry, object, proc, thread>>
      /\ Running' <=> Running
  BY DEF vars, tables, cache, Running
<1>2. Shape' /\ OpenInv'
  BY <1>1 DEF IInv, Shape, OpenInv
<1>3. ProcInv'
  BY <1>1 DEF IInv, ProcInv, ReadsGood
<1>4. EntryInv' /\ HandleInv'
  BY <1>1 DEF IInv, EntryInv, HandleInv, Made
<1>5. UsesInv'
  <2>1. \A s \in Songs, p \in Handles : UsersOf(s, p)' = UsersOf(s, p)
    BY <1>1 DEF UsersOf
  <2> QED
    BY <1>1, <2>1 DEF IInv, UsesInv
<1> QED
  BY <1>2, <1>3, <1>4, <1>5 DEF IInv
-----------------------------------------------------------------------------
(* The tables are consistent whatever the cache of files does: every step  *)
(* of an open, a read or a close, and every step of a processor keeps IInv.*)
THEOREM Inductive == Spec => []IInv
<1>1. ASSUME IInv, [Next]_vars
      PROVE  IInv'
  <2>1. ASSUME NEW h \in Handles, NEW s \in Songs, Open(h, s)
        PROVE  IInv'
    BY <1>1, <2>1, OpenStarts
  <2>2. ASSUME NEW h \in Handles, GetFilename(h)
        PROVE  IInv'
    BY <1>1, <2>2, GetFilenameInv
  <2>3. ASSUME NEW h \in Handles, AttachReader(h)
        PROVE  IInv'
    BY <1>1, <2>3, AttachReaderInv
  <2>4. ASSUME NEW h \in Handles, ShareProcessor(h)
        PROVE  IInv'
    BY <1>1, <2>4, ShareProcessorInv
  <2>5. ASSUME NEW h \in Handles, CreateProcessor(h)
        PROVE  IInv'
    BY <1>1, <2>5, CreateProcessorInv
  <2>6. ASSUME NEW h \in Handles, FailOpen(h)
        PROVE  IInv'
    BY <1>1, <2>6, FailOpenInv
  <2>7. ASSUME NEW p \in Handles, OpenerOpens(p) \/ Download(p)
        PROVE  IInv'
    BY <1>1, <2>7, JobInv
  <2>8. ASSUME NEW t \in Threads, NEW h \in Handles, BeginRead(t, h)
        PROVE  IInv'
    BY <1>1, <2>8, BeginReadInv
  <2>9. ASSUME NEW t \in Threads, ReadReturns(t) \/ ReadThrows(t)
        PROVE  IInv'
    BY <1>1, <2>9, ReadEndsInv
  <2>10. ASSUME NEW t \in Threads, CloseFailed(t)
         PROVE  IInv'
    BY <1>1, <2>10, CloseFailedInv
  <2>11. ASSUME NEW h \in Handles, Release(h)
         PROVE  IInv'
    BY <1>1, <2>11, ReleaseInv
  <2>12. CASE UNCHANGED vars
    BY <1>1, <2>12, StutterInv
  <2> QED
    BY <1>1, <2>1, <2>2, <2>3, <2>4, <2>5, <2>6, <2>7, <2>8, <2>9, <2>10, <2>11, <2>12,
       ZenonT(40) DEF Next, Stopped
<1> QED
  BY <1>1, InitInv, PTL DEF Spec

(* A handle the manager knows, and is not just opening, is in the entry of *)
(* its song and has an object: find() in read and closeNoLock, whose       *)
(* results are used without a test, finds it.                              *)
THEOREM HandlesResolve == Spec => []HandleResolves
<1>1. ASSUME IInv PROVE HandleResolves
  <2> SUFFICES ASSUME Running, NEW h \in Handles, remFile[h] # None, mutex # h
               PROVE  h \in entry[remFile[h]].ids /\ object[h] # None
    BY DEF HandleResolves
  <2>1. remFile[h] \in Songs
    BY <1>1 DEF IInv, Shape
  <2> QED
    BY <1>1, <2>1 DEF IInv, HandleInv
<1> QED
  BY <1>1, Inductive, PTL

(* The counts of users are right, for any number of handles, songs and     *)
(* threads, and with failures at any place: an open processor has a user,  *)
(* and the last one to leave is told so by its count.                      *)
THEOREM UsesAreCounted == Spec => []UsesCounted
<1>1. ASSUME IInv PROVE UsesCounted
  <2> SUFFICES ASSUME NEW p \in Handles, proc[p] # NoProc, ~ proc[p].closed
               PROVE  LET e == entry[proc[p].song]
                      IN  /\ e.usages[p] > 0
                          /\ e.usages[p] = Cardinality({h \in e.ids : object[h] = p})
    BY DEF UsesCounted
  <2>1. proc[p].song \in Songs
    BY <1>1 DEF IInv, ProcInv, Shape, IsProc
  <2> QED
    BY <1>1, <2>1 DEF IInv, UsesInv, UsersOf
<1> QED
  BY <1>1, Inductive, PTL
-----------------------------------------------------------------------------
(* The rest of the types.                                                  *)
Flags == /\ opening \in {"no", "filename", "reader", "processor", "failed"}
         /\ opened \subseteq Songs /\ fault \in BOOLEAN

LEMMA CloseKeepsFlags ==
  ASSUME Flags, NEW h \in Handles \cup {None}, CloseNoLock(h)
  PROVE  opened' \subseteq Songs /\ fault' \in BOOLEAN
BY DEF Flags, CloseNoLock, CloseProcessor, FileClosed, cache

LEMMA FlagsInv == IInv /\ Flags /\ [Next]_vars => Flags'
<1> SUFFICES ASSUME IInv, Flags, [Next]_vars PROVE Flags'
  OBVIOUS
<1>1. ASSUME NEW h \in Handles, NEW s \in Songs, Open(h, s) PROVE Flags'
  BY <1>1 DEF Open, Flags, cache
<1>2. ASSUME NEW h \in Handles, GetFilename(h) PROVE Flags'
  <2>1. remFile[h] \in Songs
    BY <1>2 DEF GetFilename, OpenIsAt, IInv, OpenInv, Shape
  <2>2. opened' = opened \cup {remFile[h]} /\ fault' = fault
    BY <1>2 DEF GetFilename
  <2>3. opening' \in {"reader", "processor", "failed"}
    BY <1>2 DEF GetFilename
  <2> QED
    BY <2>1, <2>2, <2>3 DEF Flags
<1>3. ASSUME NEW h \in Handles, AttachReader(h) \/ ShareProcessor(h) \/ CreateProcessor(h) PROVE Flags'
  BY <1>3 DEF AttachReader, ShareProcessor, CreateProcessor, EndOpen, Flags, cache
<1>4. ASSUME NEW h \in Handles, FailOpen(h) PROVE Flags'
  BY <1>4, CloseKeepsFlags DEF FailOpen, EndOpen, Flags
<1>5. ASSUME NEW h \in Handles, Release(h) PROVE Flags'
  BY <1>5, CloseKeepsFlags DEF Release, Flags
<1>6. ASSUME NEW p \in Handles, OpenerOpens(p) \/ Download(p) PROVE Flags'
  BY <1>6 DEF OpenerOpens, Download, Flags, cache
<1>7. ASSUME NEW t \in Threads, NEW h \in Handles, BeginRead(t, h) PROVE Flags'
  BY <1>7 DEF BeginRead, Flags, cache
<1>8. ASSUME NEW t \in Threads, ReadReturns(t) \/ ReadThrows(t) PROVE Flags'
  BY <1>8 DEF ReadReturns, ReadThrows, CloseProcessor, FileClosed, Flags, cache
<1>9. ASSUME NEW t \in Threads, CloseFailed(t) PROVE Flags'
  <2>1. thread[t].handle \in Handles \cup {None}
    BY DEF IInv, Shape, Reads
  <2> QED
    BY <1>9, <2>1, CloseKeepsFlags DEF CloseFailed, Flags
<1>10. CASE UNCHANGED vars
  BY <1>10 DEF Flags, vars, cache
<1> QED
  BY <1>1, <1>2, <1>3, <1>4, <1>5, <1>6, <1>7, <1>8, <1>9, <1>10, ZenonT(40) DEF Next, Stopped

(* Type correctness of the manager's tables, whatever its cache does.      *)
THEOREM TypeCorrect == Spec => []TypeOK
<1>1. Init => Flags
  BY DEF Init, Flags
<1>2. IInv /\ Flags => TypeOK
  BY DEF IInv, Shape, Entries, Reads, Flags, TypeOK
<1> QED
  BY <1>1, <1>2, FlagsInv, Inductive, PTL DEF Spec
-----------------------------------------------------------------------------
(* The cache of files as part of the state.                                *)
SoundInv == ~ vetoed => Sound(files) /\ Cardinality(files.map) <= FilesCacheSize

CacheBase ==
  /\ IsCache(files) /\ (Defined(files) => Linked(files))
  /\ vetoed \in BOOLEAN /\ SoundInv

(* What a step does to the cache, but for the songs of S: what is in use   *)
(* keeps its record, its size and its file.                                *)
CacheStep(S) ==
  /\ CacheBase'
  /\ Defined(files)' =>
       /\ KeepsValues(files, files', S)
       /\ \A x \in opened \ S :
            /\ x \in opened'
            /\ x \in files.map => x \in files'.map
            /\ x \in disk => x \in disk'

LEMMA CacheSame ==
  ASSUME CacheBase, UNCHANGED <<files, opened, vetoed>>, disk \subseteq disk'
  PROVE  CacheStep({})
<1>1. CacheBase' /\ (Defined(files)' <=> Defined(files))
  BY DEF CacheBase, SoundInv, Defined
<1>2. KeepsValues(files, files', {})
  BY DEF KeepsValues
<1> QED
  BY <1>1, <1>2 DEF CacheStep

LEMMA PutStep ==
  ASSUME CacheBase, Defined(files), NEW song \in Songs, NEW size \in Nat, NEW keep,
         PutSize(song, size, keep), opened \ {song} \subseteq keep,
         opened \ {song} \subseteq opened'
  PROVE  /\ CacheStep({song})
         /\ Defined(files)' /\ song \in keep =>
              /\ song \in files'.map /\ (song \in disk => song \in disk')
              /\ song \in files'.map \ files'.dangling => Has(files'.list, song, size)
<1> DEFINE put == Put(files, song, size, FilesCacheSize, keep)
<1>1. /\ files' = put.cache /\ disk' = disk \ put.evicted
      /\ vetoed' = (vetoed \/ Cardinality(put.cache.map) > FilesCacheSize)
  BY DEF PutSize
<1>2. FilesCacheSize \in Nat
  BY ManagerAssumption
<1>3. /\ IsCache(put.cache) /\ put.evicted \cap keep = {}
      /\ Defined(put.cache) =>
           /\ Linked(put.cache) /\ KeepsValues(files, put.cache, {song})
           /\ keep \cap (files.map \cup {song}) \subseteq put.cache.map
           /\ song \in put.cache.map \ put.cache.dangling => Has(put.cache.list, song, size)
  BY <1>2, PutKeeps DEF CacheBase
<1>4. ASSUME ~ vetoed'
      PROVE  Sound(put.cache) /\ Cardinality(put.cache.map) <= FilesCacheSize
  <2>1. Cardinality(put.cache.map) \in Nat
    BY <1>3, FS_CardinalityType DEF IsCache
  <2>2. ~ vetoed /\ Cardinality(put.cache.map) <= FilesCacheSize
    <3>1. ~ vetoed /\ ~ (Cardinality(put.cache.map) > FilesCacheSize)
      BY <1>1, <1>4, Zenon
    <3> QED
      BY <1>2, <2>1, <3>1
  <2>3. Sound(files) /\ Cardinality(files.map) <= FilesCacheSize
    BY <2>2 DEF CacheBase, SoundInv
  <2> QED
    BY <1>2, <2>2, <2>3, PutSound
<1> HIDE DEF put
<1>5. CacheBase'
  <2>1. vetoed' \in BOOLEAN
    BY <1>1
  <2>2. SoundInv'
    BY <1>1, <1>4 DEF SoundInv
  <2> QED
    BY <1>1, <1>3, <2>1, <2>2 DEF CacheBase
<1>6. ASSUME Defined(files)'
      PROVE  /\ KeepsValues(files, files', {song})
             /\ keep \cap (files.map \cup {song}) \subseteq files'.map
             /\ song \in files'.map \ files'.dangling => Has(files'.list, song, size)
  <2>1. Defined(put.cache)
    BY <1>1, <1>6 DEF Defined
  <2> QED
    BY <1>1, <1>3, <2>1
<1>7. keep \cap disk \subseteq disk'
  BY <1>1, <1>3
<1>8. CacheStep({song})
  BY <1>5, <1>6, <1>7 DEF CacheStep
<1> QED
  BY <1>6, <1>7, <1>8

LEMMA GetStep ==
  ASSUME CacheBase, Defined(files), NEW song \in files.map, files' = Get(files, song),
         UNCHANGED <<disk, vetoed>>, opened \subseteq opened'
  PROVE  /\ CacheStep({}) /\ files'.map = files.map
         /\ Defined(files)' => /\ song \notin files.dangling
                               /\ Has(files'.list, song, ValueOf(files', song))
                               /\ files'.dangling = files.dangling
<1>0. IsCache(files) /\ Linked(files)
  BY DEF CacheBase
<1>1. CASE song \in files.dangling
  <2>1. files' = [files EXCEPT !.undefined = TRUE]
    BY <1>1 DEF Get, Uses
  <2>2. IsCache(files') /\ files'.undefined
    BY <1>0, <2>1, CacheUndefined
  <2>3. ~ Defined(files)'
    BY <2>2 DEF Defined
  <2>4. vetoed
    BY <1>1 DEF CacheBase, SoundInv, Sound
  <2>5. CacheBase'
    BY <2>2, <2>3, <2>4 DEF CacheBase, SoundInv
  <2>6. files'.map = files.map
    BY <1>0, <2>1, CacheFields DEF IsCache
  <2> QED
    BY <2>3, <2>5, <2>6 DEF CacheStep
<1>2. CASE song \notin files.dangling
  <2>1. /\ IsCache(files') /\ files'.map = files.map /\ files'.dangling = files.dangling
        /\ Defined(files')
    BY <1>0, <1>2, GetIs
  <2>2. Linked(files') /\ KeepsValues(files, files', {})
    BY <1>0, <1>2, GetKeeps
  <2>3. SoundInv'
    <3>1. ASSUME ~ vetoed' PROVE Sound(files') /\ Cardinality(files'.map) <= FilesCacheSize
      BY <2>1, <3>1, GetSound DEF CacheBase, SoundInv
    <3> QED
      BY <3>1 DEF SoundInv
  <2>4. CacheBase'
    BY <2>1, <2>2, <2>3 DEF CacheBase
  <2>5. CacheStep({})
    BY <2>1, <2>2, <2>4 DEF CacheStep
  <2>6. Has(files'.list, song, ValueOf(files', song))
    <3>1. files' \in Caches /\ song \in files'.map \ files'.dangling
      BY <1>2, <2>1 DEF IsCache
    <3> QED
      BY <2>2, <3>1, LinkedNode
  <2> QED
    BY <1>2, <2>1, <2>5, <2>6
<1> QED
  BY <1>1, <1>2
-----------------------------------------------------------------------------
(* Who uses the processors, and what the cache says of the songs in use.   *)
(* The proof goes by the size recorded: the song of an open processor is   *)
(* Partial, its record being less than the full size if it can be looked   *)
(* up at all, and a song with a reader is Whole, so that no song has both. *)
(* A handle may also keep a processor that a failing read has closed, when *)
(* another open has found the song Whole and the entry has forgotten it.   *)
Procs == [song : Songs \cup {None}, opener : {"off", "pending", "opened", "failed"},
          file : {"unopened", "open", "closed"}, size : Nat, closed : BOOLEAN]

Live(p) == proc[p].song # None /\ ~ proc[p].closed

ObjectInv == \A k \in Handles : object[k] # None => remFile[k] # None /\ mutex # k

ReadersInv ==
  \A t \in Threads : thread[t].at # "idle" =>
    /\ status[thread[t].handle] = "open"
    /\ remFile[thread[t].handle] = None \/ object[thread[t].handle] = thread[t].object
    /\ thread[t].at = "failed" =>
         thread[t].object \in Handles /\ proc[thread[t].object].opener \in {"opened", "failed"}

(* A job that has been started is waited for.                              *)
WaitInv ==
  \A p \in Handles : proc[p].opener = "pending" =>
    /\ Live(p)
    /\ \E t \in Threads : /\ thread[t].at = "reading" /\ thread[t].object = p
                          /\ object[thread[t].handle] = p

(* A processor closed before its first read is not found again.            *)
UnusedInv ==
  \A p \in Handles : proc[p].song # None /\ proc[p].opener = "off" /\ proc[p].closed =>
    /\ \A k \in Handles : object[k] # p
    /\ \A s \in Songs : entry[s].processor # p

FileInv == \A p \in Handles : proc[p].file = "open" => Live(p)

EntryOf == \A p \in Handles : Live(p) => entry[proc[p].song].processor = p

ProcsInv == proc \in [Handles -> Procs]

UseInv == ProcsInv /\ ObjectInv /\ ReadersInv /\ WaitInv /\ UnusedInv /\ FileInv /\ EntryOf

Recorded(o, c, x) == x \in o \cap c.map

Partial(c, x) == x \in c.map \ c.dangling => \E v \in Nat : Has(c.list, x, v) /\ v # FullSize

Whole(o, c, d, x) ==
  Recorded(o, c, x) /\ x \in d /\ (x \in c.map \ c.dangling => Has(c.list, x, FullSize))

LiveInv ==
  \A p \in Handles : Live(p) =>
    /\ Recorded(opened, files, proc[p].song) /\ Partial(files, proc[p].song)
    /\ proc[p].file = "open" => proc[p].song \in disk

ServedInv ==
  \A k \in Handles : object[k] # None =>
    \/ entry[remFile[k]].processor = object[k]
    \/ entry[remFile[k]].processor = None /\ Whole(opened, files, disk, remFile[k])

MakingInv ==
  mutex # None =>
    /\ opening = "reader" =>
         /\ Whole(opened, files, disk, remFile[mutex])
         /\ \A p \in Handles : Live(p) => proc[p].song # remFile[mutex]
    /\ opening = "processor" /\ entry[remFile[mutex]].processor = None =>
         Recorded(opened, files, remFile[mutex]) /\ Partial(files, remFile[mutex])

CacheInv == Defined(files) => LiveInv /\ ServedInv /\ MakingInv

LEMMA SaysKept ==
  ASSUME NEW S, CacheStep(S), Defined(files)', NEW x, x \notin S
  PROVE  /\ Recorded(opened, files, x) => Recorded(opened', files', x)
         /\ Recorded(opened, files, x) /\ x \in disk => x \in disk'
         /\ Partial(files, x) => Partial(files', x)
         /\ Whole(opened, files, disk, x) => Whole(opened', files', disk', x)
<1>1. /\ KeepsValues(files, files', S)
      /\ x \in opened => /\ x \in opened'
                         /\ x \in files.map => x \in files'.map
                         /\ x \in disk => x \in disk'
  BY DEF CacheStep
<1>2. Recorded(opened, files, x) => Recorded(opened', files', x)
  BY <1>1 DEF Recorded
<1>3. Recorded(opened, files, x) /\ x \in disk => x \in disk'
  BY <1>1 DEF Recorded
<1>4. x \in files'.map \ files'.dangling =>
        x \in files.map \ files.dangling /\ \A v : Has(files.list, x, v) => Has(files'.list, x, v)
  BY <1>1 DEF KeepsValues
<1>5. Partial(files, x) => Partial(files', x)
  BY <1>4 DEF Partial
<1>6. Whole(opened, files, disk, x) => Whole(opened', files', disk', x)
  BY <1>2, <1>3, <1>4 DEF Whole
<1> QED
  BY <1>2, <1>3, <1>5, <1>6

(* No song is both.                                                        *)
LEMMA NotBoth ==
  ASSUME CacheBase, NEW x, x \in files.map, Partial(files, x), NEW o, NEW d,
         Whole(o, files, d, x)
  PROVE  x \in files.dangling
<1> SUFFICES ASSUME x \notin files.dangling PROVE FALSE
  OBVIOUS
<1>1. files.list \in Lists
  BY CacheFields DEF CacheBase, IsCache
<1>2. PICK v \in Nat : Has(files.list, x, v) /\ v # FullSize
  BY DEF Partial
<1>3. Has(files.list, x, FullSize)
  BY DEF Whole
<1> QED
  BY <1>1, <1>2, <1>3, HasOne

(* What a step leaves of the records of processors, and of objects.        *)
StaysLive(p, S) ==
  /\ Live(p) /\ proc'[p].song = proc[p].song /\ proc[p].song \notin S
  /\ proc'[p].file = "open" => proc[p].file = "open" \/ proc[p].song \in disk'

StaysServed(k) ==
  /\ object'[k] = object[k] /\ remFile'[k] = remFile[k]
  /\ entry'[remFile[k]].processor = entry[remFile[k]].processor

LEMMA LiveServedKept ==
  ASSUME LiveInv, ServedInv, NEW S, CacheStep(S), Defined(files)',
         \A p \in Handles : Live(p)' =>
           \/ StaysLive(p, S)
           \/ /\ Recorded(opened', files', proc'[p].song) /\ Partial(files', proc'[p].song)
              /\ proc'[p].file # "open",
         \A k \in Handles : object'[k] # None =>
           \/ StaysServed(k) /\ (entry[remFile[k]].processor = None => remFile[k] \notin S)
           \/ entry'[remFile'[k]].processor = object'[k]
           \/ /\ entry'[remFile'[k]].processor = None
              /\ Whole(opened', files', disk', remFile'[k])
  PROVE  LiveInv' /\ ServedInv'
<1>1. LiveInv'
  <2> SUFFICES ASSUME NEW p \in Handles, Live(p)'
               PROVE  /\ Recorded(opened', files', proc'[p].song) /\ Partial(files', proc'[p].song)
                      /\ proc'[p].file = "open" => proc'[p].song \in disk'
    BY DEF LiveInv
  <2>1. CASE StaysLive(p, S)
    <3>1. /\ Live(p) /\ proc'[p].song = proc[p].song /\ proc[p].song \notin S
          /\ proc'[p].file = "open" => proc[p].file = "open" \/ proc[p].song \in disk'
      BY <2>1 DEF StaysLive
    <3>2. /\ Recorded(opened, files, proc[p].song) /\ Partial(files, proc[p].song)
          /\ proc[p].file = "open" => proc[p].song \in disk
      BY <3>1 DEF LiveInv
    <3>3. /\ Recorded(opened', files', proc[p].song) /\ Partial(files', proc[p].song)
          /\ proc[p].song \in disk => proc[p].song \in disk'
      BY <3>1, <3>2, SaysKept
    <3> QED
      BY <3>1, <3>2, <3>3
  <2> QED
    BY <2>1
<1>2. ServedInv'
  <2> SUFFICES ASSUME NEW k \in Handles, object'[k] # None
               PROVE  \/ entry'[remFile'[k]].processor = object'[k]
                      \/ /\ entry'[remFile'[k]].processor = None
                         /\ Whole(opened', files', disk', remFile'[k])
    BY DEF ServedInv
  <2>1. CASE StaysServed(k) /\ (entry[remFile[k]].processor = None => remFile[k] \notin S)
    <3>1. /\ object'[k] = object[k] /\ remFile'[k] = remFile[k]
          /\ entry'[remFile[k]].processor = entry[remFile[k]].processor
      BY <2>1 DEF StaysServed
    <3>2. CASE entry[remFile[k]].processor = object[k]
      BY <3>1, <3>2
    <3>3. CASE entry[remFile[k]].processor = None /\ Whole(opened, files, disk, remFile[k])
      <4>1. Whole(opened', files', disk', remFile[k])
        BY <2>1, <3>3, SaysKept
      <4> QED
        BY <3>1, <3>3, <4>1
    <3> QED
      BY <3>1, <3>2, <3>3 DEF ServedInv
  <2> QED
    BY <2>1
<1> QED
  BY <1>1, <1>2

(* Steps that make no object: processors are only closed, users only       *)
(* leave, and the songs of S, which the cache forgets, had a processor.    *)
LEMMA CacheInvKept ==
  ASSUME CacheInv, EntryOf, Defined(files), NEW S, CacheStep(S),
         \A s \in S : \E p \in Handles : Live(p) /\ proc[p].song = s,
         \A p \in Handles : Live(p)' => StaysLive(p, S),
         \A k \in Handles : object'[k] # None => StaysServed(k),
         \/ mutex' = None \/ opening' \notin {"reader", "processor"}
         \/ mutex' = mutex /\ mutex \in Handles /\ UNCHANGED <<opening, remFile, entry>>
  PROVE  CacheInv'
<1> SUFFICES ASSUME Defined(files)' PROVE LiveInv' /\ ServedInv' /\ MakingInv'
  BY DEF CacheInv
<1>0. LiveInv /\ ServedInv /\ MakingInv
  BY DEF CacheInv
<1>1. ASSUME NEW s \in S
      PROVE  entry[s].processor \in Handles /\ entry[s].processor # None
  BY <1>1, NamesApart DEF EntryOf
<1>2. LiveInv' /\ ServedInv'
  BY <1>0, <1>1, LiveServedKept
<1>3. MakingInv'
  <2>1. CASE mutex' = None \/ opening' \notin {"reader", "processor"}
    BY <2>1 DEF MakingInv
  <2>2. CASE mutex' = mutex /\ mutex \in Handles /\ UNCHANGED <<opening, remFile, entry>>
    <3> DEFINE s == remFile[mutex]
    <3>0. /\ opening = "reader" =>
               /\ Whole(opened, files, disk, s)
               /\ \A p \in Handles : Live(p) => proc[p].song # s
          /\ opening = "processor" /\ entry[s].processor = None =>
               Recorded(opened, files, s) /\ Partial(files, s)
      BY <1>0, <2>2, NamesApart DEF MakingInv
    <3> HIDE DEF s
    <3>1. ASSUME opening = "reader"
          PROVE  /\ Whole(opened', files', disk', s)
                 /\ \A p \in Handles : Live(p)' => proc'[p].song # s
      <4>1. s \notin S
        BY <3>0, <3>1
      <4>2. Whole(opened', files', disk', s)
        BY <3>0, <3>1, <4>1, SaysKept
      <4> QED
        BY <3>0, <3>1, <4>2 DEF StaysLive
    <3>2. ASSUME opening = "processor", entry[s].processor = None
          PROVE  Recorded(opened', files', s) /\ Partial(files', s)
      <4>1. s \notin S
        BY <1>1, <3>2
      <4> QED
        BY <3>0, <3>2, <4>1, SaysKept
    <3> QED
      BY <2>2, <3>1, <3>2 DEF MakingInv, s
  <2> QED
    BY <2>1, <2>2
<1> QED
  BY <1>2, <1>3
-----------------------------------------------------------------------------
(* Steps that leave the tables alone.                                      *)
LEMMA ReadFacts ==
  ASSUME IInv, NEW t \in Threads, thread[t].at # "idle"
  PROVE  /\ thread[t] \in Reads /\ thread[t].handle \in Handles
         /\ thread[t].at = "reading" => thread[t].object \in Handles \cup {Reader}
         /\ thread[t].object \in Handles => Made(thread[t].object)
BY DEF IInv, ProcInv, ReadsGood, Reads, Made

LEMMA ObjectFacts ==
  ASSUME IInv, ObjectInv, Running, NEW k \in Handles, object[k] # None
  PROVE  /\ remFile[k] \in Songs /\ k \in entry[remFile[k]].ids /\ mutex # k
         /\ object[k] \in Handles \cup {Reader}
         /\ object[k] \in Handles => proc[object[k]].song = remFile[k]
<1>1. remFile[k] \in Songs /\ mutex # k /\ object[k] \in Handles \cup {Reader}
  BY DEF ObjectInv, IInv, Shape
<1>2. k \in entry[remFile[k]].ids
  BY <1>1, NamesApart DEF IInv, HandleInv
<1> QED
  BY <1>1, <1>2 DEF IInv, HandleInv

LEMMA ProcFields ==
  ASSUME ProcsInv, NEW p \in Handles
  PROVE  /\ proc[p] \in Procs /\ proc[p].song \in Songs \cup {None}
         /\ proc[p].opener \in {"off", "pending", "opened", "failed"}
         /\ proc[p].file \in {"unopened", "open", "closed"} /\ proc[p].size \in Nat
         /\ proc[p].closed \in BOOLEAN
BY DEF ProcsInv, Procs

(* One processor p becomes r, of the same song.                            *)
Becomes(p, r) ==
  /\ p \in Handles /\ Made(p) /\ r \in Procs /\ r.song = proc[p].song
  /\ proc[p].closed => r.closed
  /\ proc'[p] = r /\ \A q \in Handles : q # p => proc'[q] = proc[q]
  /\ proc' \in [Handles -> Procs]

LEMMA UpdateBecomes ==
  ASSUME ProcsInv, NEW p \in Handles, Made(p), NEW r \in Procs, r.song = proc[p].song,
         proc[p].closed => r.closed, proc' = [proc EXCEPT ![p] = r]
  PROVE  Becomes(p, r)
BY DEF ProcsInv, Becomes

LEMMA QuietUse ==
  ASSUME IInv, UseInv, UNCHANGED <<mutex, status, remFile, entry, object>>,
         NEW p, NEW r, Becomes(p, r),
         r.file = "open" => ~ r.closed,
         r.opener = "off" => r.closed = proc[p].closed /\ proc[p].opener = "off",
         ReadersInv', WaitInv'
  PROVE  UseInv'
<1>1. /\ p \in Handles /\ Made(p) /\ r.song = proc[p].song /\ (proc[p].closed => r.closed)
      /\ proc'[p] = r /\ \A q \in Handles : q # p => proc'[q] = proc[q]
      /\ ProcsInv'
  BY DEF Becomes, ProcsInv
<1>2. ObjectInv'
  BY DEF UseInv, ObjectInv
<1>3. UnusedInv'
  <2> SUFFICES ASSUME NEW q \in Handles, proc'[q].song # None, proc'[q].opener = "off", proc'[q].closed
               PROVE  (\A k \in Handles : object[k] # q) /\ (\A s \in Songs : entry[s].processor # q)
    BY DEF UnusedInv
  <2>1. proc[q].song # None /\ proc[q].opener = "off" /\ proc[q].closed
    BY <1>1
  <2> QED
    BY <2>1 DEF UseInv, UnusedInv
<1>4. FileInv'
  <2> SUFFICES ASSUME NEW q \in Handles, proc'[q].file = "open"
               PROVE  proc'[q].song # None /\ ~ proc'[q].closed
    BY DEF FileInv, Live
  <2>1. CASE q = p
    BY <1>1, <2>1 DEF Made
  <2>2. CASE q # p
    BY <1>1, <2>2 DEF UseInv, FileInv, Live
  <2> QED
    BY <2>1, <2>2
<1>5. EntryOf'
  <2> SUFFICES ASSUME NEW q \in Handles, proc'[q].song # None, ~ proc'[q].closed
               PROVE  entry[proc'[q].song].processor = q
    BY DEF EntryOf, Live
  <2>1. proc'[q].song = proc[q].song /\ proc[q].song # None /\ ~ proc[q].closed
    BY <1>1 DEF Made
  <2> QED
    BY <2>1 DEF UseInv, EntryOf, Live
<1> QED
  BY <1>1, <1>2, <1>3, <1>4, <1>5 DEF UseInv

(* The readers and jobs that are waited for, when no read moves.           *)
LEMMA ReadersKept ==
  ASSUME IInv, UseInv, UNCHANGED <<status, remFile, object, thread>>,
         \A p \in Handles : proc[p].opener \in {"opened", "failed"} =>
                            proc'[p].opener \in {"opened", "failed"}
  PROVE  ReadersInv'
BY DEF UseInv, ReadersInv

LEMMA WaitKept ==
  ASSUME IInv, UseInv, UNCHANGED <<object, thread>>,
         \A p \in Handles : proc'[p].opener = "pending" =>
                              proc[p].opener = "pending" /\ (Live(p) => Live(p)')
  PROVE  WaitInv'
BY DEF UseInv, WaitInv

(* What closing a processor does to it, and to the cache.                  *)
LEMMA Closes ==
  ASSUME ProcsInv, NEW p \in Handles, Made(p), CloseProcessor(p), FileInv,
         CacheBase, Defined(files)
  PROVE  \E r \in Procs :
           /\ Becomes(p, r) /\ r.closed /\ r.file # "open" /\ r.opener = proc[p].opener
           /\ \/ CacheStep({})
              \/ Live(p) /\ CacheStep({proc[p].song})
<1> DEFINE q == [proc[p] EXCEPT !.closed = TRUE]
           r == [q EXCEPT !.file = IF q.file = "open" THEN "closed" ELSE q.file]
<1>1. proc' = [[proc EXCEPT ![p] = q] EXCEPT ![p] = r]
  BY DEF CloseProcessor, ProcsInv
<1>2. proc' = [proc EXCEPT ![p] = r]
  <2> HIDE DEF q, r
  <2> QED
    BY <1>1 DEF ProcsInv
<1>3. /\ proc[p] \in Procs /\ proc[p].song \in Songs /\ proc[p].size \in Nat
  BY ProcFields DEF Made
<1>4. /\ q \in Procs /\ q.song = proc[p].song /\ q.closed /\ q.opener = proc[p].opener
  BY <1>3 DEF Procs
<1>5. /\ r \in Procs /\ r.song = proc[p].song /\ r.closed /\ r.opener = proc[p].opener
      /\ r.file # "open"
  <2> HIDE DEF q
  <2> QED
    BY <1>4 DEF Procs
<1> HIDE DEF r
<1>6. Becomes(p, r)
  BY <1>2, <1>5, UpdateBecomes
<1>7. CASE proc[p].file = "open"
  <2>1. Live(p)
    BY <1>7 DEF FileInv
  <2>2. /\ opened' = opened \ {proc[p].song}
        /\ PutSize(proc[p].song, proc[p].size, opened \ {proc[p].song})
    BY <1>7 DEF CloseProcessor, FileClosed
  <2>3. CacheStep({proc[p].song})
    BY <1>3, <2>2, PutStep
  <2> QED
    BY <1>5, <1>6, <2>1, <2>3
<1>8. CASE proc[p].file # "open"
  <2>1. UNCHANGED <<files, opened, disk, vetoed>>
    BY <1>8 DEF CloseProcessor, cache
  <2>2. CacheStep({})
    BY <2>1, CacheSame
  <2> QED
    BY <1>5, <1>6, <2>2
<1> QED
  BY <1>7, <1>8
-----------------------------------------------------------------------------
(* The objects of the manager and its cache of files agree.                *)
DataInv == UseInv /\ CacheBase /\ CacheInv

LEMMA RunningDefined == Running => Defined(files) /\ ~ fault
BY DEF Running, Defined

(* The cache's side of a step that only changes processor p.               *)
LEMMA QuietCache ==
  ASSUME IInv, DataInv, Running,
         UNCHANGED <<mutex, opening, remFile, entry, object>>,
         NEW S, CacheStep(S), NEW p, NEW r, Becomes(p, r),
         \/ S = {}
         \/ S = {proc[p].song} /\ Live(p) /\ r.closed,
         r.file = "open" => proc[p].file = "open" \/ proc[p].song \in disk'
  PROVE  CacheInv' /\ CacheBase'
<1>1. /\ p \in Handles /\ Made(p) /\ r.song = proc[p].song /\ (proc[p].closed => r.closed)
      /\ proc'[p] = r /\ \A q \in Handles : q # p => proc'[q] = proc[q]
  BY DEF Becomes
<1>2. CacheInv /\ EntryOf /\ Defined(files)
  BY RunningDefined DEF DataInv, UseInv
<1>3. \A s \in S : \E q \in Handles : Live(q) /\ proc[q].song = s
  BY <1>1
<1>4. ASSUME NEW q \in Handles, Live(q)'
      PROVE  StaysLive(q, S)
  <2>1. CASE q = p
    BY <1>1, <1>4, <2>1 DEF Live, StaysLive
  <2>2. CASE q # p
    <3>1. proc'[q] = proc[q] /\ Live(q)
      BY <1>1, <1>4, <2>2 DEF Live
    <3>2. proc[q].song \notin S
      <4> SUFFICES ASSUME proc[q].song = proc[p].song, Live(p) PROVE FALSE
        OBVIOUS
      <4> QED
        BY <1>1, <1>2, <2>2, <3>1 DEF EntryOf
    <3> QED
      BY <3>1, <3>2 DEF StaysLive
  <2> QED
    BY <2>1, <2>2
<1>5. mutex' = None \/ (mutex' = mutex /\ mutex \in Handles)
  BY DEF IInv, Shape
<1>6. \A k \in Handles : StaysServed(k)
  BY DEF StaysServed
<1>7. CacheInv'
  BY <1>2, <1>3, <1>4, <1>5, <1>6, CacheInvKept
<1> QED
  BY <1>7 DEF CacheStep

LEMMA JobData ==
  ASSUME IInv, DataInv, NEW p \in Handles, OpenerOpens(p) \/ Download(p)
  PROVE  DataInv'
<1>1. /\ Running /\ UNCHANGED <<mutex, opening, status, remFile, entry, object, thread>>
      /\ UNCHANGED <<files, opened, vetoed>> /\ proc[p].opener \in {"pending", "opened"}
  BY DEF OpenerOpens, Download, OpenerIs, tables, cache
<1>2. /\ UseInv /\ ProcsInv /\ CacheBase
  BY DEF DataInv, UseInv
<1>3. Live(p)
  BY <1>1 DEF OpenerOpens, Download, OpenerIs, DataInv, UseInv, WaitInv, FileInv
<1>4. /\ proc[p] \in Procs /\ proc[p].song \in Songs /\ Made(p) /\ proc[p].closed = FALSE
      /\ proc[p].size \in Nat
  BY <1>2, <1>3, ProcFields DEF Live, Made
<1>5. PICK r : /\ proc' = [proc EXCEPT ![p] = r] /\ disk \subseteq disk'
               /\ \E outcome \in {"opened", "failed"} :
                    \/ /\ r = [proc[p] EXCEPT !.opener = outcome, !.file = "open"]
                       /\ proc[p].song \in disk' /\ proc[p].opener = "pending"
                    \/ r = [proc[p] EXCEPT !.opener = "failed"]
                    \/ r = [proc[p] EXCEPT !.size = @ + 1] /\ proc[p].opener = "opened"
  BY <1>2 DEF OpenerOpens, Download, OpenerIs, cache, ProcsInv
<1>6. /\ r \in Procs /\ r.song = proc[p].song /\ r.closed = FALSE
      /\ r.opener \in {"opened", "failed"}
      /\ r.file = "open" => proc[p].file = "open" \/ proc[p].song \in disk'
  <2>1. PICK outcome \in {"opened", "failed"} :
             \/ /\ r = [proc[p] EXCEPT !.opener = outcome, !.file = "open"]
                /\ proc[p].song \in disk' /\ proc[p].opener = "pending"
             \/ r = [proc[p] EXCEPT !.opener = "failed"]
             \/ r = [proc[p] EXCEPT !.size = @ + 1] /\ proc[p].opener = "opened"
    BY <1>5
  <2>2. CASE r = [proc[p] EXCEPT !.opener = outcome, !.file = "open"] /\ proc[p].song \in disk'
    <3> DEFINE q == [proc[p] EXCEPT !.opener = outcome]
    <3>1. /\ q \in Procs /\ q.song = proc[p].song /\ q.closed = FALSE /\ q.opener = outcome
          /\ r = [q EXCEPT !.file = "open"]
      BY <1>4, <2>2 DEF Procs
    <3> HIDE DEF q
    <3> QED
      BY <2>2, <3>1 DEF Procs
  <2>3. CASE r = [proc[p] EXCEPT !.opener = "failed"]
    BY <1>4, <2>3 DEF Procs
  <2>4. CASE r = [proc[p] EXCEPT !.size = @ + 1] /\ proc[p].opener = "opened"
    BY <1>4, <2>4 DEF Procs
  <2> QED
    BY <2>1, <2>2, <2>3, <2>4
<1>7. Becomes(p, r)
  BY <1>2, <1>4, <1>5, <1>6, UpdateBecomes
<1>8. proc'[p] = r /\ \A q \in Handles : q # p => proc'[q] = proc[q]
  BY <1>7 DEF Becomes
<1>9. ReadersInv'
  <2>1. \A q \in Handles : proc[q].opener \in {"opened", "failed"} =>
                             proc'[q].opener \in {"opened", "failed"}
    BY <1>6, <1>8
  <2> QED
    BY <1>1, <1>2, <2>1, ReadersKept
<1>10. WaitInv'
  <2>1. \A q \in Handles : proc'[q].opener = "pending" =>
                             proc[q].opener = "pending" /\ (Live(q) => Live(q)')
    BY <1>6, <1>8 DEF Live
  <2> QED
    BY <1>1, <1>2, <2>1, WaitKept
<1>11. UseInv'
  BY <1>1, <1>2, <1>6, <1>7, <1>9, <1>10, QuietUse
<1>12. CacheStep({})
  BY <1>1, <1>2, <1>5, CacheSame
<1>13. CacheInv' /\ CacheBase'
  BY <1>1, <1>6, <1>7, <1>12, QuietCache
<1> QED
  BY <1>11, <1>13 DEF DataInv

(* A read that begins waits for the job it starts.                         *)
LEMMA BeginReadData ==
  ASSUME IInv, DataInv, NEW t \in Threads, NEW h \in Handles, BeginRead(t, h)
  PROVE  DataInv'
<1>0. PICK obj : obj = object[h]
  OBVIOUS
<1> DEFINE new == [at |-> "reading", handle |-> h, object |-> obj]
<1>1. /\ Running /\ mutex = None /\ UNCHANGED <<mutex, opening, status, remFile, entry, object>>
      /\ UNCHANGED <<files, opened, disk, vetoed>> /\ thread[t] = Idle
      /\ status[h] = "open" /\ remFile[h] # None
      /\ thread' = [thread EXCEPT ![t] = new]
  BY <1>0 DEF BeginRead, Unlocked, tables, cache
<1>2. /\ UseInv /\ ProcsInv /\ CacheBase /\ ObjectInv /\ ReadersInv /\ WaitInv
  BY DEF DataInv, UseInv
<1>3. obj # None /\ obj \in Handles \cup {Reader} /\ (obj \in Handles => Made(obj))
  <2>1. remFile[h] \in Songs /\ mutex # h
    BY <1>1, NamesApart DEF IInv, Shape
  <2>2. h \in entry[remFile[h]].ids
    BY <1>1, <2>1 DEF IInv, HandleInv
  <2> QED
    BY <1>0, <2>1, <2>2 DEF IInv, HandleInv, ProcInv, Shape, Made
<1>4. /\ thread'[t] = new /\ \A u \in Threads : u # t => thread'[u] = thread[u]
      /\ thread[t].at = "idle" /\ new.at = "reading" /\ new.handle = h /\ new.object = obj
  BY <1>1 DEF IInv, Shape, Idle
<1> HIDE DEF new
<1>5. ReadersInv'
  <2>1. ASSUME \A p \in Handles : proc[p].opener \in {"opened", "failed"} =>
                                    proc'[p].opener \in {"opened", "failed"}
        PROVE  ReadersInv'
    <3> SUFFICES ASSUME NEW u \in Threads, thread'[u].at # "idle"
                 PROVE  /\ status'[thread'[u].handle] = "open"
                        /\ \/ remFile'[thread'[u].handle] = None
                           \/ object'[thread'[u].handle] = thread'[u].object
                        /\ thread'[u].at = "failed" =>
                             /\ thread'[u].object \in Handles
                             /\ proc'[thread'[u].object].opener \in {"opened", "failed"}
      BY DEF ReadersInv
    <3>1. CASE u = t
      BY <1>0, <1>1, <1>4, <3>1
    <3>2. CASE u # t
      BY <1>1, <1>2, <1>4, <2>1, <3>2 DEF ReadersInv
    <3> QED
      BY <3>1, <3>2
  <2>2. \A p \in Handles : proc[p].opener \in {"opened", "failed"} =>
                             proc'[p].opener \in {"opened", "failed"}
    BY <1>0, <1>2, <1>3 DEF BeginRead, ProcsInv
  <2> QED
    BY <2>1, <2>2
<1>6. ASSUME NEW p \in Handles, proc[p].opener = "pending", Live(p)'
      PROVE  \E u \in Threads : /\ thread'[u].at = "reading" /\ thread'[u].object = p
                                /\ object'[thread'[u].handle] = p
  <2>1. PICK u \in Threads : /\ thread[u].at = "reading" /\ thread[u].object = p
                             /\ object[thread[u].handle] = p
    BY <1>2, <1>6 DEF WaitInv
  <2>2. thread'[u] = thread[u]
    BY <1>4, <2>1
  <2> QED
    BY <1>1, <2>1, <2>2
<1>7. CacheStep({})
  BY <1>1, <1>2, CacheSame
<1>8. CASE obj # Reader /\ proc[obj].opener = "off" /\ proc' = [proc EXCEPT ![obj].opener = "pending"]
  <2> DEFINE r == [proc[obj] EXCEPT !.opener = "pending"]
  <2>1. obj \in Handles /\ Made(obj) /\ proc[obj] \in Procs
    BY <1>2, <1>3, <1>8, ProcFields
  <2>2. proc' = [proc EXCEPT ![obj] = r]
    BY <1>8
  <2>3. /\ r \in Procs /\ r.song = proc[obj].song /\ r.closed = proc[obj].closed
        /\ r.opener = "pending" /\ r.file = proc[obj].file
    BY <2>1 DEF Procs
  <2> HIDE DEF r
  <2>4. Becomes(obj, r)
    BY <1>2, <2>1, <2>2, <2>3, UpdateBecomes
  <2>5. proc'[obj] = r /\ \A q \in Handles : q # obj => proc'[q] = proc[q]
    BY <2>4 DEF Becomes
  <2>6. Live(obj)
    <3>1. proc[obj].song # None
      BY <2>1 DEF Made
    <3> QED
      BY <1>0, <1>8, <2>1, <3>1 DEF Live, DataInv, UseInv, UnusedInv
  <2>7. Live(obj)'
    BY <2>3, <2>5, <2>6 DEF Live
  <2>8. r.file = "open" => ~ r.closed
    BY <2>3, <2>6 DEF Live
  <2>9. WaitInv'
    <3> SUFFICES ASSUME NEW q \in Handles, proc'[q].opener = "pending"
                 PROVE  /\ Live(q)'
                        /\ \E u \in Threads : /\ thread'[u].at = "reading" /\ thread'[u].object = q
                                              /\ object'[thread'[u].handle] = q
      BY DEF WaitInv
    <3>1. CASE q = obj
      <4>1. thread'[t].at = "reading" /\ thread'[t].object = obj /\ object'[thread'[t].handle] = obj
        BY <1>0, <1>1, <1>4
      <4> QED
        BY <2>7, <3>1, <4>1
    <3>2. CASE q # obj
      <4>1. proc[q].opener = "pending" /\ Live(q)'
        BY <1>2, <2>5, <3>2 DEF WaitInv, Live
      <4> QED
        BY <1>6, <4>1
    <3> QED
      BY <3>1, <3>2
  <2>10. UseInv'
    BY <1>1, <1>2, <1>5, <2>3, <2>4, <2>8, <2>9, QuietUse
  <2>11. CacheInv' /\ CacheBase'
    BY <1>1, <1>7, <2>3, <2>4, QuietCache
  <2> QED
    BY <2>10, <2>11 DEF DataInv
<1>9. CASE proc' = proc
  <2>1. WaitInv'
    <3>1. \A p \in Handles : proc[p].opener = "pending" => Live(p)'
      BY <1>2, <1>9 DEF WaitInv, Live
    <3> QED
      BY <1>6, <1>9, <3>1 DEF WaitInv
  <2>2. UseInv'
    BY <1>1, <1>2, <1>5, <1>9, <2>1 DEF UseInv, ProcsInv, ObjectInv, UnusedInv, FileInv, EntryOf, Live
  <2>3. CacheInv' /\ CacheBase'
    BY <1>1, <1>9 DEF DataInv, CacheInv, LiveInv, ServedInv, MakingInv, Live, CacheBase, SoundInv
  <2> QED
    BY <2>2, <2>3 DEF DataInv
<1> QED
  BY <1>0, <1>8, <1>9 DEF BeginRead

LEMMA ReadReturnsData ==
  ASSUME IInv, DataInv, NEW t \in Threads, ReadReturns(t)
  PROVE  DataInv'
<1>0. PICK obj : obj = thread[t].object
  OBVIOUS
<1>1. /\ UNCHANGED <<mutex, opening, status, remFile, entry, object, proc>>
      /\ UNCHANGED <<files, opened, disk, vetoed>>
      /\ thread' = [thread EXCEPT ![t] = Idle] /\ (obj # Reader => proc[obj].opener = "opened")
  BY <1>0 DEF ReadReturns, tables, cache
<1>2. thread'[t].at = "idle" /\ \A u \in Threads : u # t => thread'[u] = thread[u]
  BY <1>1 DEF IInv, Shape, Idle
<1>3. ReadersInv'
  <2> SUFFICES ASSUME NEW u \in Threads, thread'[u].at # "idle"
               PROVE  /\ status[thread'[u].handle] = "open"
                      /\ \/ remFile[thread'[u].handle] = None
                         \/ object[thread'[u].handle] = thread'[u].object
                      /\ thread'[u].at = "failed" =>
                           /\ thread'[u].object \in Handles
                           /\ proc[thread'[u].object].opener \in {"opened", "failed"}
    BY <1>1 DEF ReadersInv
  <2> QED
    BY <1>2 DEF DataInv, UseInv, ReadersInv
<1>4. WaitInv'
  <2> SUFFICES ASSUME NEW p \in Handles, proc[p].opener = "pending"
               PROVE  /\ Live(p)
                      /\ \E u \in Threads : /\ thread'[u].at = "reading" /\ thread'[u].object = p
                                            /\ object[thread'[u].handle] = p
    BY <1>1 DEF WaitInv, Live
  <2>1. /\ Live(p)
        /\ \E u \in Threads : /\ thread[u].at = "reading" /\ thread[u].object = p
                              /\ object[thread[u].handle] = p
    BY DEF DataInv, UseInv, WaitInv
  <2>2. PICK u \in Threads : /\ thread[u].at = "reading" /\ thread[u].object = p
                             /\ object[thread[u].handle] = p
    BY <2>1
  <2>3. u # t
    BY <1>0, <1>1, <2>2, NamesApart
  <2> QED
    BY <1>2, <2>1, <2>2, <2>3
<1>5. UseInv'
  BY <1>1, <1>3, <1>4 DEF DataInv, UseInv, ProcsInv, ObjectInv, UnusedInv, FileInv, EntryOf, Live
<1>6. CacheInv' /\ CacheBase'
  BY <1>1 DEF DataInv, CacheInv, LiveInv, ServedInv, MakingInv, Live, CacheBase, SoundInv
<1> QED
  BY <1>5, <1>6 DEF DataInv

LEMMA ReadThrowsData ==
  ASSUME IInv, DataInv, NEW t \in Threads, ReadThrows(t)
  PROVE  DataInv'
<1>0. PICK p : p = thread[t].object
  OBVIOUS
<1>1. /\ Running /\ UNCHANGED <<mutex, opening, status, remFile, entry, object>>
      /\ thread[t].at = "reading" /\ p # Reader /\ proc[p].opener \in {"opened", "failed"}
      /\ thread' = [thread EXCEPT ![t].at = "failed"] /\ CloseProcessor(p)
  BY <1>0 DEF ReadThrows, ReadIsAt, tables
<1>2. /\ UseInv /\ ProcsInv /\ FileInv /\ ReadersInv /\ WaitInv /\ CacheBase /\ Defined(files)
  BY <1>1, RunningDefined DEF DataInv, UseInv
<1>3. thread[t] \in Reads /\ p \in Handles /\ Made(p)
  <2>1. thread[t].at # "idle"
    BY <1>1
  <2> QED
    BY <1>0, <1>1, <2>1, ReadFacts
<1>4. PICK r \in Procs :
        /\ Becomes(p, r) /\ r.closed /\ r.file # "open" /\ r.opener = proc[p].opener
        /\ \/ CacheStep({})
           \/ Live(p) /\ CacheStep({proc[p].song})
  BY <1>1, <1>2, <1>3, Closes
<1>5. proc'[p] = r /\ \A q \in Handles : q # p => proc'[q] = proc[q]
  BY <1>4 DEF Becomes
<1>6. /\ thread'[t].at = "failed" /\ thread'[t].handle = thread[t].handle
      /\ thread'[t].object = p
      /\ \A u \in Threads : u # t => thread'[u] = thread[u]
  BY <1>0, <1>1, <1>3 DEF IInv, Shape, Reads
<1>7. ReadersInv'
  <2> SUFFICES ASSUME NEW u \in Threads, thread'[u].at # "idle"
               PROVE  /\ status'[thread'[u].handle] = "open"
                      /\ \/ remFile'[thread'[u].handle] = None
                         \/ object'[thread'[u].handle] = thread'[u].object
                      /\ thread'[u].at = "failed" =>
                           /\ thread'[u].object \in Handles
                           /\ proc'[thread'[u].object].opener \in {"opened", "failed"}
    BY DEF ReadersInv
  <2>1. CASE u = t
    BY <1>0, <1>1, <1>2, <1>3, <1>4, <1>5, <1>6, <2>1 DEF ReadersInv
  <2>2. CASE u # t
    <3>1. thread'[u] = thread[u]
      BY <1>6, <2>2
    <3>2. \A q \in Handles : proc[q].opener \in {"opened", "failed"} =>
                               proc'[q].opener \in {"opened", "failed"}
      BY <1>1, <1>4, <1>5
    <3> QED
      BY <1>1, <1>2, <3>1, <3>2 DEF ReadersInv
  <2> QED
    BY <2>1, <2>2
<1>8. WaitInv'
  <2> SUFFICES ASSUME NEW q \in Handles, proc'[q].opener = "pending"
               PROVE  /\ Live(q)'
                      /\ \E u \in Threads : /\ thread'[u].at = "reading" /\ thread'[u].object = q
                                            /\ object'[thread'[u].handle] = q
    BY DEF WaitInv
  <2>1. q # p
    BY <1>1, <1>4, <1>5
  <2>2. proc'[q] = proc[q]
    BY <1>5, <2>1
  <2>3. PICK u \in Threads : /\ thread[u].at = "reading" /\ thread[u].object = q
                             /\ object[thread[u].handle] = q
    BY <1>2, <2>2 DEF WaitInv
  <2>4. u # t
    BY <1>0, <2>1, <2>3
  <2>5. Live(q)'
    BY <1>2, <2>2 DEF WaitInv, Live
  <2> QED
    BY <1>1, <1>6, <2>3, <2>4, <2>5
<1>9. UseInv'
  <2>1. r.opener # "off"
    BY <1>1, <1>4
  <2> QED
    BY <1>1, <1>2, <1>4, <1>7, <1>8, <2>1, QuietUse
<1>10. CacheInv' /\ CacheBase'
  <2>1. CASE CacheStep({})
    BY <1>1, <1>4, <2>1, QuietCache
  <2>2. CASE Live(p) /\ CacheStep({proc[p].song})
    BY <1>1, <1>4, <2>2, QuietCache
  <2> QED
    BY <1>4, <2>1, <2>2
<1> QED
  BY <1>9, <1>10 DEF DataInv
-----------------------------------------------------------------------------
(* Opens.                                                                  *)
LEMMA UseSame ==
  ASSUME UseInv, UNCHANGED <<mutex, status, remFile, entry, object, proc, thread>>
  PROVE  UseInv'
BY DEF UseInv, ProcsInv, ObjectInv, ReadersInv, WaitInv, UnusedInv, FileInv, EntryOf, Live

(* A song whose file is there: its size says whether it is whole.          *)
LEMMA FoundOnDisk ==
  ASSUME IInv, DataInv, Running, NEW h \in Handles, mutex = h, opening = "filename",
         NEW song \in Songs, song = remFile[h], song \in files.map \cap disk,
         UNCHANGED <<mutex, status, remFile, entry, object, proc, thread>>,
         opened' = opened \cup {song}, files' = Get(files, song), UNCHANGED <<disk, vetoed>>,
         \/ opening' = IF ~ files'.undefined /\ ValueOf(files', song) = FullSize
                       THEN "reader" ELSE "processor"
         \/ opening' = "failed"
  PROVE  CacheInv' /\ CacheBase'
<1>1. /\ CacheBase /\ CacheInv /\ Defined(files)
  BY RunningDefined DEF DataInv
<1>2. /\ CacheStep({}) /\ files'.map = files.map
      /\ Defined(files)' => /\ song \notin files.dangling
                            /\ Has(files'.list, song, ValueOf(files', song))
                            /\ files'.dangling = files.dangling
  BY <1>1, GetStep
<1> SUFFICES ASSUME Defined(files)' PROVE LiveInv' /\ ServedInv' /\ MakingInv'
  BY <1>2 DEF CacheInv, CacheStep
<1>3. PICK v : v = ValueOf(files', song)
  OBVIOUS
<1>4. Has(files'.list, song, v) /\ files'.list \in Lists /\ v \in Nat
  <2>1. Has(files'.list, song, v)
    BY <1>2, <1>3
  <2>2. files'.list \in Lists
    BY <1>2, CacheFields DEF CacheStep, CacheBase, IsCache
  <2>3. v \in Nat
    <3>1. PICK i \in 1 .. Len(files'.list) : files'.list[i].value = v
      BY <2>1 DEF Has
    <3>2. files'.list[i] \in ListNodes
      BY <2>2, <3>1, ListNode
    <3> QED
      BY <3>1, <3>2 DEF ListNodes
  <2> QED
    BY <2>1, <2>2, <2>3
<1>5. LiveInv' /\ ServedInv'
  <2>1. \A p \in Handles : Live(p)' => StaysLive(p, {})
    BY DEF Live, StaysLive
  <2>2. \A k \in Handles : object'[k] # None => StaysServed(k)
    BY DEF StaysServed
  <2> QED
    BY <1>1, <1>2, <2>1, <2>2, LiveServedKept DEF CacheInv
<1>6. Recorded(opened', files', song) /\ song \in disk'
  BY <1>2 DEF Recorded
<1>7. ASSUME opening' = "reader"
      PROVE  /\ Whole(opened', files', disk', song)
             /\ \A p \in Handles : Live(p)' => proc'[p].song # song
  <2>1. v = FullSize
    BY <1>3, <1>7
  <2>2. Whole(opened', files', disk', song)
    BY <1>4, <1>6, <2>1 DEF Whole
  <2>3. ASSUME NEW p \in Handles, Live(p)', proc'[p].song = song
        PROVE  FALSE
    <3>1. Partial(files', song)
      BY <1>5, <2>3 DEF LiveInv
    <3>2. song \in files'.map \ files'.dangling
      BY <1>2
    <3>3. PICK w \in Nat : Has(files'.list, song, w) /\ w # FullSize
      BY <3>1, <3>2 DEF Partial
    <3> QED
      BY <1>4, <2>1, <3>3, HasOne
  <2> QED
    BY <2>2, <2>3
<1>8. ASSUME opening' = "processor"
      PROVE  Partial(files', song)
  <2>1. v # FullSize
    BY <1>3, <1>8 DEF Defined
  <2> QED
    BY <1>4, <2>1 DEF Partial
<1>9. MakingInv'
  BY <1>6, <1>7, <1>8 DEF MakingInv
<1> QED
  BY <1>5, <1>9

(* A song without file or record starts from zero.                         *)
LEMMA StartsFromZero ==
  ASSUME IInv, DataInv, Running, NEW h \in Handles, mutex = h, opening = "filename",
         NEW song \in Songs, song = remFile[h], song \notin files.map \cap disk,
         UNCHANGED <<mutex, status, remFile, entry, object, proc, thread>>,
         opened' = opened \cup {song}, PutSize(song, 0, opened'), opening' = "processor"
  PROVE  CacheInv' /\ CacheBase'
<1>1. CacheBase /\ CacheInv /\ Defined(files)
  BY RunningDefined DEF DataInv
<1>2. PICK keep : keep = opened \cup {song}
  OBVIOUS
<1>3. PutSize(song, 0, keep)
  BY <1>2
<1>4. /\ CacheStep({song})
      /\ Defined(files)' => /\ song \in files'.map
                            /\ song \in files'.map \ files'.dangling => Has(files'.list, song, 0)
  BY <1>1, <1>2, <1>3, PutStep
<1> SUFFICES ASSUME Defined(files)' PROVE LiveInv' /\ ServedInv' /\ MakingInv'
  BY <1>4 DEF CacheInv, CacheStep
<1>5. Recorded(opened', files', song) /\ Partial(files', song)
  <2>1. 0 # FullSize
    BY ManagerAssumption
  <2> QED
    BY <1>4, <2>1 DEF Recorded, Partial
<1>6. LiveInv' /\ ServedInv'
  <2>1. ASSUME NEW p \in Handles, Live(p)'
        PROVE  \/ StaysLive(p, {song})
               \/ /\ Recorded(opened', files', proc'[p].song) /\ Partial(files', proc'[p].song)
                  /\ proc'[p].file # "open"
    <3>1. Live(p)
      BY <2>1 DEF Live
    <3>2. CASE proc[p].song = song
      <4>1. Recorded(opened, files, song) /\ (proc[p].file = "open" => song \in disk)
        BY <1>1, <3>1, <3>2 DEF CacheInv, LiveInv
      <4> QED
        BY <1>5, <3>2, <4>1 DEF Recorded
    <3>3. CASE proc[p].song # song
      BY <3>1, <3>3 DEF StaysLive
    <3> QED
      BY <3>2, <3>3
  <2>2. ASSUME NEW k \in Handles, object'[k] # None
        PROVE  \/ StaysServed(k) /\ (entry[remFile[k]].processor = None => remFile[k] \notin {song})
               \/ entry'[remFile'[k]].processor = object'[k]
    <3>1. CASE entry[remFile[k]].processor = object[k]
      BY <3>1
    <3>2. CASE Whole(opened, files, disk, remFile[k])
      <4>1. remFile[k] # song
        BY <3>2 DEF Whole, Recorded
      <4> QED
        BY <4>1 DEF StaysServed
    <3> QED
      BY <1>1, <2>2, <3>1, <3>2 DEF CacheInv, ServedInv
  <2> QED
    BY <1>1, <1>4, <2>1, <2>2, LiveServedKept DEF CacheInv
<1>7. MakingInv'
  BY <1>5 DEF MakingInv
<1> QED
  BY <1>6, <1>7

LEMMA GetFilenameData ==
  ASSUME IInv, DataInv, NEW h \in Handles, GetFilename(h)
  PROVE  DataInv'
<1>0. PICK song : song = remFile[h]
  OBVIOUS
<1>1. /\ Running /\ mutex = h /\ opening = "filename" /\ song \in Songs
      /\ UNCHANGED <<mutex, status, remFile, entry, object, proc, thread>>
      /\ opened' = opened \cup {song}
  BY <1>0, OpenOf DEF GetFilename, OpenIsAt, tables
<1>2. UseInv'
  BY <1>1, UseSame DEF DataInv
<1>3. CASE song \in files.map \cap disk
  <2>1. /\ files' = Get(files, song) /\ UNCHANGED <<disk, vetoed>>
        /\ \/ opening' = IF ~ files'.undefined /\ ValueOf(files', song) = FullSize
                         THEN "reader" ELSE "processor"
           \/ opening' = "failed"
    BY <1>0, <1>3 DEF GetFilename
  <2> QED
    BY <1>0, <1>1, <1>2, <1>3, <2>1, FoundOnDisk DEF DataInv
<1>4. CASE song \notin files.map \cap disk
  <2>1. PutSize(song, 0, opened') /\ opening' = "processor"
    BY <1>0, <1>4 DEF GetFilename
  <2> QED
    BY <1>0, <1>1, <1>2, <1>4, <2>1, StartsFromZero DEF DataInv
<1> QED
  BY <1>3, <1>4

LEMMA OpenData ==
  ASSUME IInv, DataInv, NEW h \in Handles, NEW song \in Songs, Open(h, song)
  PROVE  DataInv'
<1>1. /\ Running /\ mutex = None /\ mutex' = h /\ opening' = "filename" /\ status[h] = "unused"
      /\ status' = [status EXCEPT ![h] = "opening"] /\ remFile' = [remFile EXCEPT ![h] = song]
      /\ UNCHANGED <<entry, object, proc, thread>> /\ UNCHANGED <<files, opened, disk, vetoed>>
  BY DEF Open, Unlocked, SetStatus, cache
<1>2. /\ UseInv /\ CacheBase /\ CacheInv /\ Defined(files)
  BY <1>1, RunningDefined DEF DataInv
<1>3. remFile[h] = None
  BY <1>1 DEF IInv, OpenInv
<1>4. \A k \in Handles : k # h => remFile'[k] = remFile[k] /\ status'[k] = status[k]
  BY <1>1 DEF IInv, Shape
<1>5. \A k \in Handles : object[k] # None => k # h /\ remFile[k] # None
  BY <1>2, <1>3 DEF UseInv, ObjectInv
<1>6. ObjectInv'
  BY <1>1, <1>4, <1>5 DEF ObjectInv
<1>7. ReadersInv'
  <2> SUFFICES ASSUME NEW u \in Threads, thread[u].at # "idle"
               PROVE  /\ status'[thread[u].handle] = "open"
                      /\ \/ remFile'[thread[u].handle] = None
                         \/ object[thread[u].handle] = thread[u].object
                      /\ thread[u].at = "failed" =>
                           /\ thread[u].object \in Handles
                           /\ proc[thread[u].object].opener \in {"opened", "failed"}
    BY <1>1 DEF ReadersInv
  <2>1. thread[u].handle \in Handles
    BY ReadFacts
  <2>2. status[thread[u].handle] = "open"
    BY <1>2 DEF UseInv, ReadersInv
  <2>3. thread[u].handle # h
    BY <1>1, <2>2
  <2> QED
    BY <1>2, <1>4, <2>1, <2>2, <2>3 DEF UseInv, ReadersInv
<1>8. UseInv'
  BY <1>1, <1>2, <1>6, <1>7 DEF UseInv, ProcsInv, WaitInv, UnusedInv, FileInv, EntryOf, Live
<1>9. CacheInv' /\ CacheBase'
  <2>1. CacheStep({})
    BY <1>1, <1>2, CacheSame
  <2>2. \A p \in Handles : Live(p)' => StaysLive(p, {})
    BY <1>1 DEF Live, StaysLive
  <2>3. \A k \in Handles : object'[k] # None => StaysServed(k)
    BY <1>1, <1>4, <1>5 DEF StaysServed
  <2>4. opening' \notin {"reader", "processor"}
    BY <1>1
  <2>5. EntryOf
    BY <1>2 DEF UseInv
  <2>6. CacheInv'
    BY <1>2, <2>1, <2>2, <2>3, <2>4, <2>5, CacheInvKept
  <2> QED
    BY <2>1, <2>6 DEF CacheStep
<1> QED
  BY <1>8, <1>9 DEF DataInv
-----------------------------------------------------------------------------
(* The handle h being opened is no one's yet.                              *)
LEMMA OpenedIsNew ==
  ASSUME IInv, UseInv, NEW h \in Handles, mutex = h
  PROVE  /\ object[h] = None /\ status[h] = "opening" /\ proc[h] = NoProc /\ ~ Live(h)
         /\ \A u \in Threads : thread[u].at # "idle" =>
              thread[u].handle \in Handles /\ thread[u].handle # h
<1>1. object[h] = None
  BY DEF UseInv, ObjectInv
<1>2. status[h] = "opening" /\ proc[h] = NoProc
  BY DEF IInv, OpenInv
<1>3. ~ Live(h)
  BY <1>2 DEF Live, NoProc
<1>4. ASSUME NEW u \in Threads, thread[u].at # "idle"
      PROVE  thread[u].handle \in Handles /\ thread[u].handle # h
  <2>1. thread[u].handle \in Handles
    BY <1>4, ReadFacts
  <2>2. status[thread[u].handle] = "open"
    BY <1>4 DEF UseInv, ReadersInv
  <2> QED
    BY <1>2, <2>1, <2>2
<1> QED
  BY <1>1, <1>2, <1>3, <1>4

LEMMA OpenFailsUse ==
  ASSUME IInv, UseInv, UNCHANGED <<mutex, status, remFile, object, proc, thread>>, EntryOf',
         \A s \in Songs : entry'[s].processor \in {None, entry[s].processor}
  PROVE  UseInv'
<1>1. UnusedInv'
  BY NamesApart DEF UseInv, UnusedInv
<1> QED
  BY <1>1 DEF UseInv, ProcsInv, ObjectInv, ReadersInv, WaitInv, FileInv, Live

LEMMA OpenEndsUse ==
  ASSUME IInv, UseInv, NEW h \in Handles, mutex = h, remFile[h] # None, mutex' = None,
         status' = [status EXCEPT ![h] = "open"],
         NEW obj \in Handles \cup {Reader}, object' = [object EXCEPT ![h] = obj],
         UNCHANGED <<remFile, thread>>, EntryOf', ProcsInv',
         \A q \in Handles : q # h => proc'[q] = proc[q],
         \/ proc'[h] = proc[h]
         \/ proc'[h].opener = "off" /\ ~ proc'[h].closed /\ proc'[h].file # "open",
         \A q \in Handles : proc[q].song # None /\ proc[q].opener = "off" /\ proc[q].closed =>
           obj # q /\ \A s \in Songs : entry'[s].processor # q
  PROVE  UseInv'
<1>1. /\ object[h] = None /\ status[h] = "opening" /\ proc[h] = NoProc /\ ~ Live(h)
      /\ \A u \in Threads : thread[u].at # "idle" =>
           thread[u].handle \in Handles /\ thread[u].handle # h
  BY OpenedIsNew
<1>2. /\ object'[h] = obj
      /\ \A k \in Handles : k # h => object'[k] = object[k] /\ status'[k] = status[k]
  BY DEF IInv, Shape
<1>3. NoProc.opener = "off" /\ NoProc.song = None /\ NoProc.file # "open"
  BY DEF NoProc
<1>4. ObjectInv'
  BY <1>2, NamesApart DEF UseInv, ObjectInv
<1>5. ReadersInv'
  <2> SUFFICES ASSUME NEW u \in Threads, thread[u].at # "idle"
               PROVE  /\ status'[thread[u].handle] = "open"
                      /\ \/ remFile[thread[u].handle] = None
                         \/ object'[thread[u].handle] = thread[u].object
                      /\ thread[u].at = "failed" =>
                           /\ thread[u].object \in Handles
                           /\ proc'[thread[u].object].opener \in {"opened", "failed"}
    BY DEF ReadersInv
  <2>1. thread[u].handle \in Handles /\ thread[u].handle # h
    BY <1>1
  <2>2. ASSUME thread[u].at = "failed"
        PROVE  thread[u].object \in Handles /\ proc'[thread[u].object].opener \in {"opened", "failed"}
    <3>1. thread[u].object \in Handles /\ proc[thread[u].object].opener \in {"opened", "failed"}
      BY <2>2 DEF UseInv, ReadersInv
    <3>2. thread[u].object # h
      BY <1>1, <1>3, <3>1
    <3> QED
      BY <3>1, <3>2
  <2> QED
    BY <1>2, <2>1, <2>2 DEF UseInv, ReadersInv
<1>6. WaitInv'
  <2> SUFFICES ASSUME NEW p \in Handles, proc'[p].opener = "pending"
               PROVE  /\ Live(p)'
                      /\ \E u \in Threads : /\ thread[u].at = "reading" /\ thread[u].object = p
                                            /\ object'[thread[u].handle] = p
    BY DEF WaitInv
  <2>1. p # h
    BY <1>1, <1>3
  <2>2. proc'[p] = proc[p]
    BY <2>1
  <2>3. PICK u \in Threads : /\ thread[u].at = "reading" /\ thread[u].object = p
                             /\ object[thread[u].handle] = p
    BY <2>2 DEF UseInv, WaitInv
  <2>4. Live(p)'
    BY <2>2 DEF UseInv, WaitInv, Live
  <2>5. thread[u].handle \in Handles /\ thread[u].handle # h
    BY <1>1, <2>3
  <2> QED
    BY <1>2, <2>3, <2>4, <2>5
<1>7. UnusedInv'
  <2> SUFFICES ASSUME NEW q \in Handles, proc'[q].song # None, proc'[q].opener = "off", proc'[q].closed
               PROVE  (\A k \in Handles : object'[k] # q) /\ (\A s \in Songs : entry'[s].processor # q)
    BY DEF UnusedInv
  <2>1. q # h
    BY <1>1, <1>3
  <2>2. proc[q].song # None /\ proc[q].opener = "off" /\ proc[q].closed
    BY <2>1
  <2> QED
    BY <1>2, <2>2 DEF UseInv, UnusedInv
<1>8. FileInv'
  <2> SUFFICES ASSUME NEW q \in Handles, proc'[q].file = "open" PROVE Live(q)'
    BY DEF FileInv
  <2>1. q # h
    BY <1>1, <1>3
  <2> QED
    BY <2>1 DEF UseInv, FileInv, Live
<1> QED
  BY <1>4, <1>5, <1>6, <1>7, <1>8 DEF UseInv

LEMMA AttachReaderData ==
  ASSUME IInv, DataInv, NEW h \in Handles, AttachReader(h)
  PROVE  DataInv'
<1>0. PICK song : song = remFile[h]
  OBVIOUS
<1>1. /\ Running /\ mutex = h /\ opening = "reader" /\ Shape /\ song \in Songs
      /\ UNCHANGED <<remFile, proc, thread>> /\ UNCHANGED <<files, opened, disk, vetoed>>
  BY <1>0, OpenOf DEF AttachReader, OpenIsAt, cache
<1>2. /\ UseInv /\ CacheBase /\ CacheInv /\ Defined(files)
  BY <1>1, RunningDefined DEF DataInv
<1>3. /\ Whole(opened, files, disk, song)
      /\ \A p \in Handles : Live(p) => proc[p].song # song
  <2>1. mutex # None
    BY <1>1, NamesApart
  <2> QED
    BY <1>0, <1>1, <1>2, <2>1 DEF CacheInv, MakingInv
<1> DEFINE e == [entry[song] EXCEPT !.present = TRUE, !.processor = None]
           f == [e EXCEPT !.ids = @ \cup {h}]
<1>4. e \in Entries /\ e.processor = None
  BY <1>1, EntryType DEF Entries
<1>5. f.processor = None
  <2> HIDE DEF e
  <2> QED
    BY <1>4 DEF Entries
<1>6. \/ /\ EndOpen(h, "open") /\ object' = [object EXCEPT ![h] = Reader]
         /\ entry' = [entry EXCEPT ![song] = f]
      \/ /\ opening' = "failed" /\ UNCHANGED <<mutex, status, object>>
         /\ entry' = [entry EXCEPT ![song] = e]
  BY <1>0 DEF AttachReader
<1> HIDE DEF e, f
<1>7. /\ entry'[song].processor = None
      /\ \A s \in Songs : s # song => entry'[s].processor = entry[s].processor
  BY <1>1, <1>4, <1>5, <1>6 DEF Shape
<1>8. EntryOf'
  <2> SUFFICES ASSUME NEW p \in Handles, proc[p].song # None, ~ proc[p].closed
               PROVE  entry'[proc[p].song].processor = p
    BY <1>1 DEF EntryOf, Live
  <2>1. Live(p) /\ proc[p].song \in Songs /\ proc[p].song # song
    BY <1>2, <1>3, ProcFields DEF Live, UseInv
  <2> QED
    BY <1>2, <1>7, <2>1 DEF UseInv, EntryOf
<1>9. UseInv'
  <2>1. CASE EndOpen(h, "open") /\ object' = [object EXCEPT ![h] = Reader]
    <3>1. mutex' = None /\ status' = [status EXCEPT ![h] = "open"] /\ remFile[h] # None
      BY <1>0, <1>1, <2>1, NamesApart DEF EndOpen, SetStatus
    <3>2. ProcsInv'
      BY <1>1, <1>2 DEF UseInv, ProcsInv
    <3>3. ASSUME NEW q \in Handles, proc[q].song # None, proc[q].opener = "off", proc[q].closed
          PROVE  Reader # q /\ \A s \in Songs : entry'[s].processor # q
      BY <1>2, <1>7, <3>3, NamesApart DEF UseInv, UnusedInv
    <3> QED
      BY <1>1, <1>2, <1>8, <2>1, <3>1, <3>2, <3>3, OpenEndsUse
  <2>2. CASE UNCHANGED <<mutex, status, object>>
    BY <1>1, <1>2, <1>7, <1>8, <2>2, OpenFailsUse
  <2> QED
    BY <1>6, <2>1, <2>2
<1>10. CacheStep({})
  BY <1>1, <1>2, CacheSame
<1>11. LiveInv' /\ ServedInv'
  <2>1. \A p \in Handles : Live(p)' => StaysLive(p, {})
    BY <1>1 DEF Live, StaysLive
  <2>2. ASSUME NEW k \in Handles, object'[k] # None
        PROVE  \/ StaysServed(k)
               \/ /\ entry'[remFile'[k]].processor = None
                  /\ Whole(opened', files', disk', remFile'[k])
    <3>1. CASE remFile[k] = song
      BY <1>1, <1>3, <1>7, <3>1
    <3>2. CASE remFile[k] # song
      <4>1. k # h
        BY <1>0, <3>2
      <4>2. object'[k] = object[k]
        BY <1>1, <1>6, <4>1 DEF Shape
      <4>3. remFile[k] \in Songs
        BY <1>1, <1>2, <2>2, <4>2 DEF UseInv, ObjectInv, Shape
      <4> QED
        BY <1>1, <1>7, <3>2, <4>2, <4>3 DEF StaysServed
    <3> QED
      BY <3>1, <3>2
  <2>3. LiveInv /\ ServedInv /\ Defined(files)'
    BY <1>1, <1>2 DEF CacheInv
  <2> QED
    BY <1>10, <2>1, <2>2, <2>3, LiveServedKept
<1>12. MakingInv'
  BY <1>6, NamesApart DEF MakingInv, EndOpen
<1> QED
  BY <1>9, <1>10, <1>11, <1>12 DEF DataInv, CacheInv, CacheStep

LEMMA ShareProcessorData ==
  ASSUME IInv, DataInv, NEW h \in Handles, ShareProcessor(h)
  PROVE  DataInv'
<1>0. PICK song, p : song = remFile[h] /\ p = entry[song].processor
  OBVIOUS
<1>1. /\ Running /\ mutex = h /\ Shape /\ song \in Songs /\ p # None
      /\ mutex' = None /\ status' = [status EXCEPT ![h] = "open"]
      /\ UNCHANGED <<remFile, proc, thread>> /\ UNCHANGED <<files, opened, disk, vetoed>>
      /\ entry' = [entry EXCEPT ![song] = Attached(entry[song], h, p)]
      /\ object' = [object EXCEPT ![h] = p]
  BY <1>0, OpenOf DEF ShareProcessor, EndOpen, SetStatus, cache
<1>2. /\ UseInv /\ CacheBase /\ CacheInv /\ Defined(files)
  BY <1>1, RunningDefined DEF DataInv
<1>3. entry[song] \in Entries /\ p \in Handles
  BY <1>0, <1>1, EntryType
<1>4. Attached(entry[song], h, p).processor = p
  BY <1>1, <1>3, AttachedEntry
<1>5. \A s \in Songs : entry'[s].processor = entry[s].processor
  BY <1>0, <1>1, <1>4 DEF Shape
<1>6. EntryOf' /\ ProcsInv'
  <2>1. \A q \in Handles : Live(q) => proc[q].song \in Songs
    BY <1>2, ProcFields DEF Live, UseInv
  <2> QED
    BY <1>1, <1>2, <1>5, <2>1 DEF UseInv, EntryOf, Live, ProcsInv
<1>7. UseInv'
  <2>1. ASSUME NEW q \in Handles, proc[q].song # None, proc[q].opener = "off", proc[q].closed
        PROVE  p # q /\ \A s \in Songs : entry'[s].processor # q
    BY <1>0, <1>1, <1>2, <1>5, <2>1 DEF UseInv, UnusedInv
  <2>2. remFile[h] # None
    BY <1>0, <1>1, NamesApart
  <2> QED
    BY <1>1, <1>2, <1>3, <1>6, <2>1, <2>2, OpenEndsUse
<1>8. CacheStep({})
  BY <1>1, <1>2, CacheSame
<1>9. LiveInv' /\ ServedInv'
  <2>1. \A q \in Handles : Live(q)' => StaysLive(q, {})
    BY <1>1 DEF Live, StaysLive
  <2>2. ASSUME NEW k \in Handles, object'[k] # None
        PROVE  StaysServed(k) \/ entry'[remFile'[k]].processor = object'[k]
    <3>1. CASE k = h
      BY <1>0, <1>1, <1>5, <3>1 DEF Shape
    <3>2. CASE k # h
      <4>1. object'[k] = object[k]
        BY <1>1, <3>2 DEF Shape
      <4>2. remFile[k] \in Songs
        BY <1>1, <1>2, <2>2, <4>1 DEF UseInv, ObjectInv, Shape
      <4> QED
        BY <1>1, <1>5, <4>1, <4>2 DEF StaysServed
    <3> QED
      BY <3>1, <3>2
  <2>3. LiveInv /\ ServedInv /\ Defined(files)'
    BY <1>1, <1>2 DEF CacheInv
  <2> QED
    BY <1>8, <2>1, <2>2, <2>3, LiveServedKept
<1>10. MakingInv'
  BY <1>1 DEF MakingInv
<1> QED
  BY <1>7, <1>8, <1>9, <1>10 DEF DataInv, CacheInv, CacheStep

(* The processor that is made is the only one of its song, and no handle   *)
(* has a reader for it.                                                    *)
LEMMA CreatesData ==
  ASSUME IInv, DataInv, Running, NEW h \in Handles, mutex = h, opening = "processor",
         NEW song \in Songs, song = remFile[h], entry[song].processor = None,
         mutex' = None, status' = [status EXCEPT ![h] = "open"],
         files' = Get(files, song), UNCHANGED <<opened, disk, vetoed, remFile, thread>>,
         NEW r \in Procs, r.song = song, r.opener = "off", r.closed = FALSE, r.file = "unopened",
         proc' = [proc EXCEPT ![h] = r], NEW f, f.processor = h,
         entry' = [entry EXCEPT ![song] = f], object' = [object EXCEPT ![h] = h]
  PROVE  DataInv'
<1>1. /\ UseInv /\ ProcsInv /\ CacheBase /\ CacheInv /\ Defined(files)
  BY RunningDefined DEF DataInv, UseInv
<1>2. Recorded(opened, files, song) /\ Partial(files, song)
  <2>1. mutex # None
    BY NamesApart
  <2> QED
    BY <1>1, <2>1 DEF CacheInv, MakingInv
<1>3. /\ CacheStep({}) /\ files'.map = files.map
      /\ Defined(files)' => song \notin files.dangling
  BY <1>1, <1>2, GetStep DEF Recorded
<1>4. /\ object[h] = None /\ proc[h] = NoProc
  BY <1>1, OpenedIsNew
<1>5. /\ entry'[song].processor = h
      /\ \A s \in Songs : s # song => entry'[s].processor = entry[s].processor
      /\ object'[h] = h /\ \A k \in Handles : k # h => object'[k] = object[k]
      /\ proc'[h] = r /\ \A q \in Handles : q # h => proc'[q] = proc[q]
  BY <1>1 DEF IInv, Shape, ProcsInv
<1>6. ProcsInv'
  BY <1>1 DEF ProcsInv
<1>7. EntryOf'
  <2> SUFFICES ASSUME NEW q \in Handles, proc'[q].song # None, ~ proc'[q].closed
               PROVE  entry'[proc'[q].song].processor = q
    BY DEF EntryOf, Live
  <2>1. CASE q = h
    BY <1>5, <2>1
  <2>2. CASE q # h
    <3>1. Live(q) /\ proc[q].song \in Songs /\ proc'[q] = proc[q]
      BY <1>1, <1>5, <2>2, ProcFields DEF Live
    <3>2. entry[proc[q].song].processor = q
      BY <1>1, <3>1 DEF UseInv, EntryOf
    <3>3. proc[q].song # song
      BY <3>2, NamesApart
    <3> QED
      BY <1>5, <3>1, <3>2, <3>3
  <2> QED
    BY <2>1, <2>2
<1>8. UseInv'
  <2>1. ASSUME NEW q \in Handles, proc[q].song # None, proc[q].opener = "off", proc[q].closed
        PROVE  h # q /\ \A s \in Songs : entry'[s].processor # q
    <3>1. h # q
      BY <1>4, <2>1 DEF NoProc
    <3>2. \A s \in Songs : entry[s].processor # q
      BY <1>1, <2>1 DEF UseInv, UnusedInv
    <3> QED
      BY <1>5, <3>1, <3>2
  <2>2. remFile[h] # None
    BY NamesApart
  <2>3. proc'[h].opener = "off" /\ ~ proc'[h].closed /\ proc'[h].file # "open"
    BY <1>5
  <2>4. h \in Handles \cup {Reader} /\ UNCHANGED <<remFile, thread>>
    OBVIOUS
  <2>5. \A q \in Handles : q # h => proc'[q] = proc[q]
    BY <1>5
  <2> QED
    BY <1>1, <1>6, <1>7, <2>1, <2>2, <2>3, <2>4, <2>5, OpenEndsUse, ZenonT(30)
<1>9. CacheInv'
  <2> SUFFICES ASSUME Defined(files)' PROVE LiveInv' /\ ServedInv' /\ MakingInv'
    BY DEF CacheInv
  <2>1. ASSUME NEW q \in Handles, Live(q)'
        PROVE  \/ StaysLive(q, {})
               \/ /\ Recorded(opened', files', proc'[q].song) /\ Partial(files', proc'[q].song)
                  /\ proc'[q].file # "open"
    <3>1. CASE q = h
      <4>1. Recorded(opened', files', song) /\ Partial(files', song)
        BY <1>2, <1>3, SaysKept
      <4> QED
        BY <1>5, <3>1, <4>1
    <3>2. CASE q # h
      BY <1>5, <2>1, <3>2 DEF Live, StaysLive
    <3> QED
      BY <3>1, <3>2
  <2>2. ASSUME NEW k \in Handles, object'[k] # None
        PROVE  StaysServed(k) \/ entry'[remFile'[k]].processor = object'[k]
    <3>1. CASE k = h
      BY <1>5, <3>1
    <3>2. CASE k # h
      <4>1. object'[k] = object[k] /\ object[k] # None
        BY <1>5, <2>2, <3>2
      <4>2. remFile[k] \in Songs
        BY <1>1, <4>1 DEF UseInv, ObjectInv, IInv, Shape
      <4>3. remFile[k] # song
        <5> SUFFICES ASSUME remFile[k] = song PROVE FALSE
          OBVIOUS
        <5>1. Whole(opened, files, disk, song)
          BY <1>1, <4>1 DEF CacheInv, ServedInv
        <5>2. song \in files.dangling
          BY <1>1, <1>2, <5>1, NotBoth DEF Recorded
        <5> QED
          BY <1>3, <5>2
      <4> QED
        BY <1>5, <4>1, <4>2, <4>3 DEF StaysServed
    <3> QED
      BY <3>1, <3>2
  <2>3. LiveInv' /\ ServedInv'
    BY <1>1, <1>3, <2>1, <2>2, LiveServedKept DEF CacheInv
  <2>4. MakingInv'
    BY DEF MakingInv
  <2> QED
    BY <2>3, <2>4
<1> QED
  BY <1>3, <1>8, <1>9 DEF DataInv, CacheStep

LEMMA CreateProcessorData ==
  ASSUME IInv, DataInv, NEW h \in Handles, CreateProcessor(h)
  PROVE  DataInv'
<1>0. PICK song, size : /\ song = remFile[h]
                        /\ size = IF Uses(files, song) THEN 0 ELSE ValueOf(files, song)
  OBVIOUS
<1>1. /\ Running /\ mutex = h /\ opening = "processor" /\ Shape /\ song \in Songs
      /\ entry[song].processor = None /\ UNCHANGED <<remFile, thread, opened, disk, vetoed>>
  BY <1>0, OpenOf DEF CreateProcessor, OpenIsAt
<1>2. /\ UseInv /\ ProcsInv /\ CacheBase /\ CacheInv /\ Defined(files)
  BY <1>1, RunningDefined DEF DataInv, UseInv
<1> DEFINE e  == [entry[song] EXCEPT !.present = TRUE]
           f  == Attached(e, h, h)
           r1 == [NoProc EXCEPT !.song = song]
           r  == [r1 EXCEPT !.size = size]
<1>3. e \in Entries /\ e.processor = entry[song].processor
  BY <1>1, EntryType DEF Entries
<1>4. f.processor = h
  <2> HIDE DEF e
  <2> QED
    BY <1>1, <1>3, AttachedEntry
<1>5. CASE /\ EndOpen(h, "open") /\ files' = Get(files, song)
           /\ proc' = [proc EXCEPT ![h] = r] /\ entry' = [entry EXCEPT ![song] = f]
           /\ object' = [object EXCEPT ![h] = h]
  <2>1. size \in Nat
    <3>1. CASE Uses(files, song)
      BY <1>0, <3>1
    <3>2. CASE ~ Uses(files, song)
      <4>1. mutex # None
        BY <1>1, NamesApart
      <4>2. song \in files.map \ files.dangling
        BY <1>0, <1>1, <1>2, <3>2, <4>1 DEF CacheInv, MakingInv, Recorded, Uses
      <4>3. Linked(files) /\ files \in Caches
        BY <1>2 DEF CacheBase, IsCache
      <4>4. Has(files.list, song, size)
        BY <1>0, <3>2, <4>2, <4>3, LinkedNode
      <4>5. PICK i \in 1 .. Len(files.list) : files.list[i].value = size
        BY <4>4 DEF Has
      <4>6. files.list \in Lists
        BY <4>3, CacheFields
      <4> QED
        BY <4>5, <4>6, ListNode
    <3> QED
      BY <3>1, <3>2
  <2>2. /\ r1 \in Procs /\ r1.song = song /\ r1.opener = "off" /\ r1.closed = FALSE
        /\ r1.file = "unopened"
    BY <1>1 DEF NoProc, Procs
  <2> HIDE DEF r1
  <2>3. /\ r \in Procs /\ r.song = song /\ r.opener = "off" /\ r.closed = FALSE
        /\ r.file = "unopened"
    BY <2>1, <2>2 DEF Procs
  <2> HIDE DEF e, f, r
  <2>4. mutex' = None /\ status' = [status EXCEPT ![h] = "open"]
    BY <1>5 DEF EndOpen, SetStatus
  <2> QED
    BY <1>0, <1>1, <1>4, <1>5, <2>3, <2>4, CreatesData
<1>6. CASE /\ opening' = "failed" /\ entry' = [entry EXCEPT ![song] = e]
           /\ UNCHANGED <<mutex, status, object, proc, files>>
  <2> HIDE DEF e, f, r1, r
  <2>1. \A s \in Songs : entry'[s].processor = entry[s].processor
    BY <1>1, <1>3, <1>6 DEF Shape
  <2>2. \A q \in Handles : Live(q) => proc[q].song \in Songs
    BY <1>2, ProcFields DEF Live
  <2>3. EntryOf'
    BY <1>2, <1>6, <2>1, <2>2 DEF UseInv, EntryOf, Live
  <2>4. UseInv'
    BY <1>1, <1>2, <1>6, <2>1, <2>3, OpenFailsUse
  <2>5. CacheStep({})
    BY <1>1, <1>2, <1>6, CacheSame
  <2>6. \A q \in Handles : Live(q)' => StaysLive(q, {})
    BY <1>6 DEF Live, StaysLive
  <2>7. \A k \in Handles : object'[k] # None => remFile[k] \in Songs
    BY <1>1, <1>2, <1>6 DEF UseInv, ObjectInv, Shape
  <2>8. \A k \in Handles : object'[k] # None => StaysServed(k)
    BY <1>1, <1>6, <2>1, <2>7 DEF StaysServed
  <2>9. opening' \notin {"reader", "processor"} /\ EntryOf
    BY <1>2, <1>6 DEF UseInv
  <2>10. CacheInv'
    BY <1>2, <2>5, <2>6, <2>8, <2>9, CacheInvKept
  <2> QED
    BY <2>4, <2>5, <2>10 DEF DataInv, CacheStep
<1> QED
  BY <1>0, <1>5, <1>6 DEF CreateProcessor
-----------------------------------------------------------------------------
(* Closes.  Handle h leaves, processor p, if any, is closed with it, and   *)
(* the songs of S may be forgotten.                                        *)
LeavesTables(h) ==
  /\ \A k \in Handles : k # h => object'[k] = object[k] /\ remFile'[k] = remFile[k]
  /\ \/ object'[h] = None /\ remFile'[h] = None
     \/ object'[h] = object[h] /\ remFile'[h] = remFile[h]
  /\ \A s \in Songs : \/ entry'[s].processor = entry[s].processor
                      \/ /\ s = remFile[h] /\ entry[s].ids \ {h} = {}
                         /\ entry'[s] = NoEntry /\ object'[h] = None

LeavesClosed(h, p) ==
  /\ p \in Handles /\ object[h] = p /\ object'[h] = None
  /\ ~ (entry[proc[p].song].usages[p] > 1)
  /\ entry[proc[p].song].ids \ {h} = {} => entry'[proc[p].song].processor = None
  /\ Made(p) /\ proc'[p].song = proc[p].song /\ proc'[p].closed
  /\ proc'[p].file # "open" /\ proc'[p].opener = proc[p].opener

Departs(h, p, S) ==
  /\ LeavesTables(h) /\ ProcsInv' /\ CacheStep(S)
  /\ \A q \in Handles : q # p => proc'[q] = proc[q]
  /\ p # None => LeavesClosed(h, p)
  /\ S = {} \/ (p # None /\ Live(p) /\ S = {proc[p].song})

LEMMA NoneDeparts ==
  ASSUME UseInv, CacheBase, NEW h \in Handles, LeavesTables(h), UNCHANGED <<proc, cache>>
  PROVE  Departs(h, None, {})
<1>1. CacheStep({})
  BY CacheSame DEF cache
<1> QED
  BY <1>1 DEF Departs, UseInv, ProcsInv

(* Whether the entry is dropped with its last user.                        *)
LEMMA LeavesEntry ==
  ASSUME IInv, NEW h \in Handles, NEW song \in Songs, song = remFile[h], Forget(h),
         NEW f, f.processor = entry[song].processor,
         entry' = [entry EXCEPT ![song] = IF entry[song].ids \ {h} = {} THEN NoEntry ELSE f]
  PROVE  /\ LeavesTables(h) /\ object'[h] = None
         /\ entry[song].ids \ {h} = {} => entry'[song].processor = None
<1>1. /\ object'[h] = None /\ remFile'[h] = None
      /\ \A k \in Handles : k # h => object'[k] = object[k] /\ remFile'[k] = remFile[k]
  BY DEF Forget, IInv, Shape
<1>2. /\ entry'[song] = IF entry[song].ids \ {h} = {} THEN NoEntry ELSE f
      /\ \A s \in Songs : s # song => entry'[s] = entry[s]
  BY DEF IInv, Shape
<1>3. \A s \in Songs : \/ entry'[s].processor = entry[s].processor
                       \/ s = remFile[h] /\ entry[s].ids \ {h} = {} /\ entry'[s] = NoEntry
  BY <1>2
<1>4. LeavesTables(h)
  BY <1>1, <1>3 DEF LeavesTables
<1>5. entry[song].ids \ {h} = {} => entry'[song].processor = None
  BY <1>2, NamesApart
<1> QED
  BY <1>1, <1>4, <1>5

LEMMA CloseDeparts ==
  ASSUME IInv, UseInv, CacheBase, Running, NEW h \in Handles, CloseNoLock(h)
  PROVE  \E p \in Handles \cup {None} : \E S : Departs(h, p, S)
<1>0. PICK song, e, obj, ids : /\ song = remFile[h] /\ e = entry[song] /\ obj = object[h]
                               /\ ids = e.ids \ {h}
  OBVIOUS
<1>1. Shape /\ song \in Songs \cup {None} /\ Defined(files) /\ FileInv /\ ProcsInv
  BY <1>0, RunningDefined DEF IInv, Shape, UseInv
<1>2. CASE UNCHANGED <<tables, proc, cache>>
  <2>1. LeavesTables(h)
    BY <1>2 DEF LeavesTables, tables
  <2> QED
    BY <1>2, <2>1, NoneDeparts
<1>3. CASE Forget(h) /\ UNCHANGED <<entry, proc, cache>>
  <2>0. /\ object'[h] = None /\ remFile'[h] = None /\ entry' = entry
        /\ \A k \in Handles : k # h => object'[k] = object[k] /\ remFile'[k] = remFile[k]
    BY <1>1, <1>3 DEF Forget, Shape
  <2>1. LeavesTables(h)
    BY <2>0 DEF LeavesTables
  <2> QED
    BY <1>3, <2>1, NoneDeparts
<1>4. CASE /\ song # None /\ h \in e.ids /\ obj # Reader /\ e.usages[obj] > 1
           /\ entry' = [entry EXCEPT ![song] =
                          IF ids = {} THEN NoEntry
                          ELSE [e EXCEPT !.ids = ids, !.usages[obj] = @ - 1]]
           /\ UNCHANGED <<proc, cache>> /\ Forget(h)
  <2> DEFINE e1 == [e EXCEPT !.ids = ids]
             u  == [e1.usages EXCEPT ![obj] = e1.usages[obj] - 1]
             f  == [e1 EXCEPT !.usages = u]
  <2>0. e \in Entries
    BY <1>0, <1>1, <1>4, EntryType
  <2>1. e1 \in Entries /\ e1.processor = e.processor
    BY <1>0, <2>0 DEF Entries
  <2>2. entry' = [entry EXCEPT ![song] = IF ids = {} THEN NoEntry ELSE f]
    BY <1>4
  <2> HIDE DEF e1
  <2>3. f.processor = e.processor
    BY <2>1 DEF Entries
  <2> HIDE DEF f
  <2>4. LeavesTables(h)
    BY <1>0, <1>1, <1>4, <2>2, <2>3, LeavesEntry
  <2> QED
    BY <1>4, <2>4, NoneDeparts
<1>5. CASE /\ song # None /\ h \in e.ids /\ ~ (obj # Reader /\ e.usages[obj] > 1)
           /\ entry' = [entry EXCEPT ![song] =
                          IF ids = {} THEN NoEntry ELSE [e EXCEPT !.ids = ids]]
           /\ IF obj = Reader THEN UNCHANGED <<proc, cache>> ELSE CloseProcessor(obj)
           /\ Forget(h)
  <2> DEFINE f == [e EXCEPT !.ids = ids]
  <2>1. f.processor = e.processor
    BY <1>0, <1>1, <1>5, EntryType DEF Entries
  <2>2. entry' = [entry EXCEPT ![song] = IF ids = {} THEN NoEntry ELSE f]
    BY <1>5
  <2> HIDE DEF f
  <2>3. /\ LeavesTables(h) /\ object'[h] = None
        /\ ids = {} => entry'[song].processor = None
    BY <1>0, <1>1, <1>5, <2>1, <2>2, LeavesEntry
  <2>4. CASE obj = Reader
    BY <1>5, <2>3, <2>4, NoneDeparts
  <2>5. CASE obj # Reader
    <3>1. obj \in Handles /\ Made(obj) /\ proc[obj].song = song
      BY <1>0, <1>1, <1>5, <2>5 DEF IInv, HandleInv, ProcInv, Shape, Made
    <3>2. PICK r \in Procs :
            /\ Becomes(obj, r) /\ r.closed /\ r.file # "open" /\ r.opener = proc[obj].opener
            /\ \/ CacheStep({})
               \/ Live(obj) /\ CacheStep({proc[obj].song})
      BY <1>1, <1>5, <2>5, <3>1, Closes
    <3>3. /\ proc'[obj] = r /\ r.song = proc[obj].song /\ ProcsInv'
          /\ \A q \in Handles : q # obj => proc'[q] = proc[q]
      BY <3>2 DEF Becomes, ProcsInv
    <3>4. LeavesClosed(h, obj)
      BY <1>0, <1>5, <2>3, <2>5, <3>1, <3>2, <3>3 DEF LeavesClosed
    <3>5. obj # None
      BY <3>1, NamesApart
    <3>6. \E S : CacheStep(S) /\ (S = {} \/ (Live(obj) /\ S = {proc[obj].song}))
      BY <3>2
    <3>7. \E S : Departs(h, obj, S)
      BY <2>3, <3>3, <3>4, <3>5, <3>6 DEF Departs
    <3> QED
      BY <3>1, <3>7
  <2> QED
    BY <2>4, <2>5
<1> QED
  BY <1>0, <1>2, <1>3, <1>4, <1>5 DEF CloseNoLock

(* A processor with two handles is counted twice.                          *)
LEMMA NotLast ==
  ASSUME IInv, ObjectInv, Running, NEW h \in Handles, NEW k \in Handles, k # h,
         NEW p \in Handles, object[h] = p, object[k] = p, ~ proc[p].closed
  PROVE  entry[proc[p].song].usages[p] > 1
<1>1. p # None
  BY NamesApart
<1>2. /\ remFile[h] \in Songs /\ h \in entry[remFile[h]].ids /\ proc[p].song = remFile[h]
      /\ k \in entry[remFile[k]].ids /\ proc[p].song = remFile[k]
  BY <1>1, ObjectFacts
<1>3. PICK s \in Songs : s = proc[p].song
  BY <1>2
<1>4. PICK U : U = UsersOf(s, p)
  OBVIOUS
<1>5. h \in U /\ k \in U /\ U \subseteq entry[s].ids
  BY <1>2, <1>3, <1>4 DEF UsersOf
<1>6. IsFiniteSet(U)
  BY <1>5, FS_Subset DEF IInv, EntryInv
<1>7. /\ Cardinality(U \ {h}) = Cardinality(U) - 1 /\ Cardinality(U) \in Nat
      /\ IsFiniteSet(U \ {h})
  BY <1>5, <1>6, FS_RemoveElement, FS_CardinalityType
<1>8. Cardinality(U \ {h}) # 0
  <2>1. U \ {h} # {}
    BY <1>5
  <2> QED
    BY <1>7, <2>1, FS_EmptySet
<1>9. Cardinality(U) > 1
  BY <1>7, <1>8, FS_CardinalityType
<1>10. entry[s].usages[p] = Cardinality(U)
  BY <1>3, <1>4 DEF IInv, UsesInv
<1> QED
  BY <1>3, <1>9, <1>10

(* What surrounds the close leaves the other handles and their reads, and  *)
(* the reads that wait for a job, alone.                                   *)
LEMMA CloseData ==
  ASSUME IInv, IInv', DataInv, Running, NEW h \in Handles, CloseNoLock(h), mutex' = None,
         \A u \in Threads : thread'[u].at # "idle" =>
           /\ thread'[u] = thread[u] /\ status'[thread[u].handle] = status[thread[u].handle],
         \A q \in Handles, u \in Threads :
           /\ proc[q].opener = "pending" /\ thread[u].at = "reading" /\ thread[u].object = q
           /\ object[thread[u].handle] = q
           => thread[u].handle # h /\ thread'[u] = thread[u]
  PROVE  DataInv'
<1>1. /\ UseInv /\ CacheBase /\ CacheInv /\ Defined(files) /\ ObjectInv /\ EntryOf
  BY RunningDefined DEF DataInv, UseInv
<1>a. PICK p \in Handles \cup {None} : \E S : Departs(h, p, S)
  BY <1>1, CloseDeparts
<1>2. PICK S : Departs(h, p, S)
  BY <1>a
<1>3. /\ ProcsInv' /\ CacheStep(S)
      /\ \A k \in Handles : k # h => object'[k] = object[k] /\ remFile'[k] = remFile[k]
      /\ \/ object'[h] = None /\ remFile'[h] = None
         \/ object'[h] = object[h] /\ remFile'[h] = remFile[h]
      /\ \A s \in Songs : \/ entry'[s].processor = entry[s].processor
                          \/ /\ s = remFile[h] /\ entry[s].ids \ {h} = {}
                             /\ entry'[s] = NoEntry /\ object'[h] = None
      /\ \A q \in Handles : q # p => proc'[q] = proc[q]
      /\ S = {} \/ (p # None /\ Live(p) /\ S = {proc[p].song})
  BY <1>2 DEF Departs, LeavesTables
<1>4. ASSUME p # None PROVE LeavesClosed(h, p)
  BY <1>2, <1>4 DEF Departs
<1>5. ASSUME NEW q \in Handles
      PROVE  /\ proc'[q].song = proc[q].song /\ proc'[q].opener = proc[q].opener
             /\ Live(q)' => q # p /\ Live(q) /\ proc'[q] = proc[q]
             /\ proc'[q].file = "open" => q # p /\ proc'[q] = proc[q]
  <2>1. CASE q = p
    <3>1. LeavesClosed(h, p)
      BY <1>4, <2>1, NamesApart
    <3> QED
      BY <2>1, <3>1 DEF LeavesClosed, Live
  <2>2. CASE q # p
    BY <1>3, <2>2 DEF Live
  <2> QED
    BY <2>1, <2>2
<1>6. ASSUME NEW k \in Handles, k # h, object[k] = p, p # None, ~ proc[p].closed
      PROVE  FALSE
  <2>1. /\ p \in Handles /\ object[h] = p /\ ~ (entry[proc[p].song].usages[p] > 1)
    BY <1>4, <1>6 DEF LeavesClosed
  <2> QED
    BY <1>1, <1>6, <2>1, NotLast
<1>7. ObjectInv'
  <2> SUFFICES ASSUME NEW k \in Handles, object'[k] # None PROVE remFile'[k] # None
    BY NamesApart DEF ObjectInv
  <2>1. object[k] # None /\ remFile'[k] = remFile[k]
    BY <1>3
  <2> QED
    BY <1>1, <2>1 DEF ObjectInv
<1>8. ReadersInv'
  <2> SUFFICES ASSUME NEW u \in Threads, thread'[u].at # "idle"
               PROVE  /\ status'[thread'[u].handle] = "open"
                      /\ \/ remFile'[thread'[u].handle] = None
                         \/ object'[thread'[u].handle] = thread'[u].object
                      /\ thread'[u].at = "failed" =>
                           /\ thread'[u].object \in Handles
                           /\ proc'[thread'[u].object].opener \in {"opened", "failed"}
    BY DEF ReadersInv
  <2>1. /\ thread'[u] = thread[u] /\ status'[thread[u].handle] = status[thread[u].handle]
        /\ thread[u].at # "idle"
    OBVIOUS
  <2>2. PICK k \in Handles : k = thread[u].handle
    BY <2>1, ReadFacts
  <2>3. /\ status[k] = "open" /\ (remFile[k] = None \/ object[k] = thread[u].object)
        /\ thread[u].at = "failed" =>
             thread[u].object \in Handles /\ proc[thread[u].object].opener \in {"opened", "failed"}
    BY <1>1, <2>1, <2>2 DEF UseInv, ReadersInv
  <2>4. remFile'[k] = None \/ object'[k] = thread[u].object
    BY <1>3, <2>3
  <2> QED
    BY <1>5, <2>1, <2>2, <2>3, <2>4
<1>9. WaitInv'
  <2> SUFFICES ASSUME NEW q \in Handles, proc'[q].opener = "pending"
               PROVE  /\ Live(q)'
                      /\ \E u \in Threads : /\ thread'[u].at = "reading" /\ thread'[u].object = q
                                            /\ object'[thread'[u].handle] = q
    BY DEF WaitInv
  <2>1. proc[q].opener = "pending"
    BY <1>5
  <2>2. Live(q)
    BY <1>1, <2>1 DEF UseInv, WaitInv
  <2>3. PICK u \in Threads : /\ thread[u].at = "reading" /\ thread[u].object = q
                             /\ object[thread[u].handle] = q
    BY <1>1, <2>1 DEF UseInv, WaitInv
  <2>4. thread[u].handle # h /\ thread'[u] = thread[u]
    BY <2>1, <2>3
  <2>5. thread[u].handle \in Handles
    BY <2>3, ReadFacts
  <2>6. q # p
    BY <1>6, <2>2, <2>3, <2>4, <2>5, NamesApart DEF Live
  <2>7. Live(q)'
    BY <1>3, <2>2, <2>6 DEF Live
  <2> QED
    BY <1>3, <2>3, <2>4, <2>5, <2>7
<1>10. UnusedInv'
  <2> SUFFICES ASSUME NEW q \in Handles, proc'[q].song # None, proc'[q].opener = "off", proc'[q].closed
               PROVE  (\A k \in Handles : object'[k] # q) /\ (\A s \in Songs : entry'[s].processor # q)
    BY DEF UnusedInv
  <2>1. proc[q].song # None /\ proc[q].opener = "off"
    BY <1>5
  <2>2. CASE proc[q].closed
    <3>1. (\A k \in Handles : object[k] # q) /\ (\A s \in Songs : entry[s].processor # q)
      BY <1>1, <2>1, <2>2 DEF UseInv, UnusedInv
    <3> QED
      BY <1>3, <3>1, NamesApart
  <2>3. CASE ~ proc[q].closed
    <3>1. q = p /\ p # None /\ Live(p)
      BY <1>3, <2>1, <2>3, NamesApart DEF Live
    <3>2. /\ object[h] = p /\ object'[h] = None
          /\ entry[proc[p].song].ids \ {h} = {} => entry'[proc[p].song].processor = None
      BY <1>4, <3>1 DEF LeavesClosed
    <3>3. \A k \in Handles : object'[k] # q
      BY <1>3, <1>6, <2>3, <3>1, <3>2
    <3>4. PICK s \in Songs : s = proc[p].song
      <4>1. proc[p].song \in Songs \cup {None}
        BY <1>1, <3>1, ProcFields DEF UseInv
      <4> QED
        BY <2>1, <3>1, <4>1
    <3>5. entry[s].processor = p
      BY <1>1, <3>1, <3>4 DEF EntryOf
    <3>6. entry[s].ids \ {h} = {}
      <4> SUFFICES ASSUME NEW k \in entry[s].ids, k # h PROVE FALSE
        OBVIOUS
      <4>1. k \in Handles
        BY DEF IInv, Shape, Entries
      <4>2. remFile[k] = s /\ object[k] # None
        BY <4>1 DEF IInv, HandleInv
      <4>3. object[k] = p
        BY <1>1, <3>1, <3>5, <4>1, <4>2 DEF CacheInv, ServedInv
      <4> QED
        BY <1>6, <2>3, <3>1, <4>1, <4>3
    <3>7. ASSUME NEW x \in Songs, entry'[x].processor = q PROVE FALSE
      <4>1. x # s
        BY <3>1, <3>2, <3>4, <3>6, <3>7
      <4>2. entry[x].processor = p
        BY <1>3, <3>1, <3>7, NamesApart
      <4>3. proc[p].song = x
        BY <3>1, <4>2 DEF IInv, EntryInv
      <4> QED
        BY <3>4, <4>1, <4>3
    <3> QED
      BY <3>3, <3>7
  <2> QED
    BY <2>2, <2>3
<1>11. FileInv'
  <2> SUFFICES ASSUME NEW q \in Handles, proc'[q].file = "open" PROVE Live(q)'
    BY DEF FileInv
  <2> QED
    BY <1>1, <1>5 DEF UseInv, FileInv, Live
<1>12. EntryOf'
  <2> SUFFICES ASSUME NEW q \in Handles, Live(q)' PROVE entry'[proc'[q].song].processor = q
    BY DEF EntryOf
  <2>1. Live(q) /\ proc'[q] = proc[q]
    BY <1>5
  <2>2. PICK s \in Songs : s = proc[q].song
    BY <1>1, <2>1, ProcFields DEF UseInv, Live
  <2>3. entry[s].processor = q
    BY <1>1, <2>1, <2>2 DEF EntryOf
  <2>4. proc'[q].song = s /\ ~ proc'[q].closed
    BY <2>1, <2>2 DEF Live
  <2>5. entry'[s].usages[q] > 0
    BY <2>4 DEF IInv, UsesInv
  <2>6. entry'[s] # NoEntry
    BY <2>5, NamesApart
  <2> QED
    BY <1>3, <2>3, <2>4, <2>6
<1>13. UseInv'
  BY <1>3, <1>7, <1>8, <1>9, <1>10, <1>11, <1>12 DEF UseInv
<1>14. CacheInv'
  <2>1. \A s \in S : \E q \in Handles : Live(q) /\ proc[q].song = s
    BY <1>3
  <2>2. ASSUME NEW q \in Handles, Live(q)' PROVE StaysLive(q, S)
    <3>1. q # p /\ Live(q) /\ proc'[q] = proc[q]
      BY <1>5, <2>2
    <3>2. proc[q].song \notin S
      <4> SUFFICES ASSUME proc[q].song \in S PROVE FALSE
        OBVIOUS
      <4>1. p \in Handles /\ Live(p) /\ proc[q].song = proc[p].song
        BY <1>3
      <4> QED
        BY <1>1, <3>1, <4>1 DEF EntryOf
    <3> QED
      BY <3>1, <3>2 DEF StaysLive
  <2>3. ASSUME NEW k \in Handles, object'[k] # None PROVE StaysServed(k)
    <3>1. object'[k] = object[k] /\ remFile'[k] = remFile[k] /\ object[k] # None
      BY <1>3, <2>3
    <3>2. remFile[k] \in Songs /\ k \in entry[remFile[k]].ids
      BY <1>1, <3>1, ObjectFacts
    <3>3. entry'[remFile[k]].processor = entry[remFile[k]].processor
      BY <1>3, <2>3, <3>2
    <3> QED
      BY <3>1, <3>3 DEF StaysServed
  <2> QED
    BY <1>1, <1>3, <2>1, <2>2, <2>3, CacheInvKept
<1> QED
  BY <1>3, <1>13, <1>14 DEF DataInv, CacheStep

LEMMA FailOpenData ==
  ASSUME IInv, DataInv, NEW h \in Handles, FailOpen(h)
  PROVE  DataInv'
<1>1. /\ Running /\ mutex = h /\ mutex' = None /\ thread' = thread
      /\ status' = [status EXCEPT ![h] = "released"] /\ CloseNoLock(h)
  BY DEF FailOpen, OpenIsAt, EndOpen, SetStatus
<1>2. \A u \in Threads : thread[u].at # "idle" =>
        thread[u].handle \in Handles /\ thread[u].handle # h
  BY <1>1, OpenedIsNew DEF DataInv
<1>3. ASSUME NEW u \in Threads, thread[u].at # "idle"
      PROVE  /\ thread'[u] = thread[u] /\ thread[u].handle # h
             /\ status'[thread[u].handle] = status[thread[u].handle]
  BY <1>1, <1>2, <1>3 DEF IInv, Shape
<1>4. \A u \in Threads : thread'[u].at # "idle" => thread[u].at # "idle"
  BY <1>1
<1>5. IInv'
  BY FailOpenInv
<1> QED
  BY <1>1, <1>3, <1>4, <1>5, CloseData

LEMMA ReleaseData ==
  ASSUME IInv, DataInv, NEW h \in Handles, Release(h)
  PROVE  DataInv'
<1>1. /\ Running /\ mutex' = None /\ thread' = thread
      /\ \A u \in Threads : thread[u].handle # h
      /\ status' = [status EXCEPT ![h] = "released"] /\ CloseNoLock(h)
  BY DEF Release, Unlocked, SetStatus
<1>2. ASSUME NEW u \in Threads, thread[u].at # "idle"
      PROVE  /\ thread'[u] = thread[u] /\ thread[u].handle # h
             /\ status'[thread[u].handle] = status[thread[u].handle]
  <2>1. thread[u].handle \in Handles
    BY <1>2, ReadFacts
  <2> QED
    BY <1>1, <2>1 DEF IInv, Shape
<1>3. \A u \in Threads : thread'[u].at # "idle" => thread[u].at # "idle"
  BY <1>1
<1>4. IInv'
  BY ReleaseInv
<1> QED
  BY <1>1, <1>2, <1>3, <1>4, CloseData

(* The handle of a read that failed is not that of a read that waits.      *)
LEMMA CloseFailedData ==
  ASSUME IInv, DataInv, NEW t \in Threads, CloseFailed(t)
  PROVE  DataInv'
<1>0. PICK h : h = thread[t].handle
  OBVIOUS
<1>1. /\ Running /\ mutex' = None /\ thread[t].at = "failed" /\ status' = status
      /\ thread' = [thread EXCEPT ![t] = Idle] /\ CloseNoLock(h)
  BY <1>0 DEF CloseFailed, Unlocked, ReadIsAt
<1>2. h \in Handles
  <2>1. thread[t].at # "idle"
    BY <1>1
  <2> QED
    BY <1>0, <2>1, ReadFacts
<1>3. thread'[t].at = "idle" /\ \A u \in Threads : u # t => thread'[u] = thread[u]
  BY <1>1 DEF IInv, Shape, Idle
<1>4. \A u \in Threads : thread'[u].at # "idle" =>
        /\ thread'[u] = thread[u] /\ status'[thread[u].handle] = status[thread[u].handle]
  BY <1>1, <1>3
<1>5. ASSUME NEW q \in Handles, NEW u \in Threads,
             proc[q].opener = "pending", thread[u].at = "reading", thread[u].object = q,
             object[thread[u].handle] = q
      PROVE  thread[u].handle # h /\ thread'[u] = thread[u]
  <2>1. thread'[u] = thread[u]
    BY <1>1, <1>3, <1>5
  <2>2. /\ remFile[h] = None \/ object[h] = thread[t].object
        /\ thread[t].object \in Handles /\ proc[thread[t].object].opener \in {"opened", "failed"}
    BY <1>0, <1>1 DEF DataInv, UseInv, ReadersInv
  <2>3. object[h] # q
    <3> SUFFICES ASSUME object[h] = q PROVE FALSE
      OBVIOUS
    <3>1. remFile[h] # None
      BY <1>2, NamesApart DEF DataInv, UseInv, ObjectInv
    <3> QED
      BY <1>5, <2>2, <3>1
  <2> QED
    BY <1>5, <2>1, <2>3
<1>6. IInv'
  BY CloseFailedInv
<1> QED
  BY <1>1, <1>2, <1>4, <1>5, <1>6, CloseData

LEMMA StutterData ==
  ASSUME DataInv, UNCHANGED vars
  PROVE  DataInv'
<1>1. /\ UNCHANGED <<mutex, opening, status, remFile, entry, object, proc, thread>>
      /\ UNCHANGED <<files, opened, disk, vetoed>>
  BY DEF vars, tables, cache
<1>2. UseInv'
  BY <1>1, UseSame DEF DataInv
<1> QED
  BY <1>1, <1>2 DEF DataInv, CacheInv, LiveInv, ServedInv, MakingInv, Live, CacheBase, SoundInv

LEMMA InitData == Init => DataInv
<1> SUFFICES ASSUME Init PROVE DataInv
  OBVIOUS
<1>1. \A p \in Handles : proc[p] = NoProc
  BY DEF Init
<1>2. /\ NoProc \in Procs /\ NoProc.song = None /\ NoProc.opener = "off" /\ NoProc.file = "unopened"
  BY DEF NoProc, Procs
<1>3. ProcsInv
  BY <1>2 DEF Init, ProcsInv
<1>4. UseInv
  BY <1>1, <1>2, <1>3 DEF Init, UseInv, ObjectInv, ReadersInv, WaitInv, UnusedInv, FileInv,
     EntryOf, Live, Idle
<1>5. /\ files = Empty /\ Empty.map = {} /\ Empty.list = <<>> /\ Empty.dangling = {}
      /\ vetoed = FALSE
  BY DEF Init, Empty
<1>6. IsCache(files)
  <2>1. Empty \in Caches
    BY DEF Empty, Caches, Lists
  <2> QED
    BY <1>5, <2>1, FS_EmptySet DEF IsCache
<1>7. Linked(files)
  BY <1>5 DEF Linked
<1>8. SoundInv
  <2>1. Cardinality(files.map) <= FilesCacheSize
    BY <1>5, FS_EmptySet, ManagerAssumption
  <2>2. Defined(files)
    BY <1>5 DEF Defined, Empty
  <2>3. Tidy(<<>>, {})
    BY DEF Tidy
  <2>4. Sound(files)
    BY <1>5, <1>6, <2>2, <2>3 DEF Sound
  <2> QED
    BY <2>1, <2>4 DEF SoundInv
<1>9. CacheInv
  BY <1>1, <1>2 DEF Init, CacheInv, LiveInv, ServedInv, MakingInv, Live
<1> QED
  BY <1>4, <1>5, <1>6, <1>7, <1>8, <1>9 DEF DataInv, CacheBase

(* What the manager's objects and its cache of files say of each other is  *)
(* kept by every step of an open, a read, a job and a close.               *)
THEOREM DataInductive == Spec => []DataInv
<1>1. ASSUME IInv, DataInv, [Next]_vars, IInv'
      PROVE  DataInv'
  <2>1. ASSUME NEW h \in Handles, NEW s \in Songs, Open(h, s)
        PROVE  DataInv'
    BY <1>1, <2>1, OpenData
  <2>2. ASSUME NEW h \in Handles, GetFilename(h)
        PROVE  DataInv'
    BY <1>1, <2>2, GetFilenameData
  <2>3. ASSUME NEW h \in Handles, AttachReader(h)
        PROVE  DataInv'
    BY <1>1, <2>3, AttachReaderData
  <2>4. ASSUME NEW h \in Handles, ShareProcessor(h)
        PROVE  DataInv'
    BY <1>1, <2>4, ShareProcessorData
  <2>5. ASSUME NEW h \in Handles, CreateProcessor(h)
        PROVE  DataInv'
    BY <1>1, <2>5, CreateProcessorData
  <2>6. ASSUME NEW h \in Handles, FailOpen(h)
        PROVE  DataInv'
    BY <1>1, <2>6, FailOpenData
  <2>7. ASSUME NEW p \in Handles, OpenerOpens(p) \/ Download(p)
        PROVE  DataInv'
    BY <1>1, <2>7, JobData
  <2>8. ASSUME NEW t \in Threads, NEW h \in Handles, BeginRead(t, h)
        PROVE  DataInv'
    BY <1>1, <2>8, BeginReadData
  <2>9. ASSUME NEW t \in Threads, ReadReturns(t)
        PROVE  DataInv'
    BY <1>1, <2>9, ReadReturnsData
  <2>10. ASSUME NEW t \in Threads, ReadThrows(t)
         PROVE  DataInv'
    BY <1>1, <2>10, ReadThrowsData
  <2>11. ASSUME NEW t \in Threads, CloseFailed(t)
         PROVE  DataInv'
    BY <1>1, <2>11, CloseFailedData
  <2>12. ASSUME NEW h \in Handles, Release(h)
         PROVE  DataInv'
    BY <1>1, <2>12, ReleaseData
  <2>13. CASE UNCHANGED vars
    BY <1>1, <2>13, StutterData
  <2> QED
    BY <1>1, <2>1, <2>2, <2>3, <2>4, <2>5, <2>6, <2>7, <2>8, <2>9, <2>10, <2>11, <2>12, <2>13,
       ZenonT(40) DEF Next, Stopped
<1> QED
  BY <1>1, InitData, Inductive, PTL DEF Spec

(* No two processors have the file of one song open, however opens, reads  *)
(* that fail and releases meet: the one before is closed when its song's   *)
(* entry gets another.                                                     *)
THEOREM NoTwoWriters == Spec => []OneWriter
<1>1. ASSUME DataInv PROVE OneWriter
  <2> SUFFICES ASSUME NEW p \in Handles, NEW q \in Handles, proc[p].file = "open",
                      proc[q].file = "open", proc[p].song = proc[q].song
               PROVE  p = q
    BY DEF OneWriter
  <2>1. Live(p) /\ Live(q)
    BY <1>1 DEF DataInv, UseInv, FileInv
  <2> QED
    BY <1>1, <2>1 DEF DataInv, UseInv, EntryOf
<1> QED
  BY <1>1, DataInductive, PTL

(* The record of a song that is downloaded, read from disk or about to be  *)
(* stays in the cache, and its file on disk, however small the cache is,   *)
(* as long as the program has not met undefined behaviour.                 *)
THEOREM FilesInUseAreKept == Spec => []FilesInUseKept
<1>1. ASSUME IInv, DataInv PROVE FilesInUseKept
  <2> SUFFICES ASSUME Running, NEW s \in Songs
               PROVE  /\ Writing(s) \/ Served(s) \/ Opening(s) => s \in opened \cap files.map
                      /\ Writing(s) \/ Served(s) => s \in disk
    BY DEF FilesInUseKept
  <2>1. /\ LiveInv /\ ServedInv /\ MakingInv /\ FileInv
    BY <1>1, RunningDefined DEF DataInv, CacheInv, UseInv
  <2>2. ASSUME Writing(s) PROVE s \in opened \cap files.map /\ s \in disk
    <3>1. PICK p \in Handles : proc[p].song = s /\ proc[p].file = "open"
      BY <2>2 DEF Writing
    <3>2. Live(p)
      BY <2>1, <3>1 DEF FileInv
    <3> QED
      BY <2>1, <3>1, <3>2 DEF LiveInv, Recorded
  <2>3. ASSUME Served(s) PROVE s \in opened \cap files.map /\ s \in disk
    <3>1. PICK h \in Handles : remFile[h] = s /\ object[h] = Reader
      BY <2>3 DEF Served
    <3>2. entry[s].processor # Reader
      BY <1>1, NamesApart DEF IInv, Shape, Entries
    <3> QED
      BY <2>1, <3>1, <3>2, NamesApart DEF ServedInv, Whole, Recorded
  <2>4. ASSUME Opening(s) PROVE s \in opened \cap files.map
    BY <2>1, <2>4 DEF Opening, MakingInv, Whole, Recorded
  <2> QED
    BY <2>2, <2>3, <2>4
<1> QED
  BY <1>1, Inductive, DataInductive, PTL

(* As long as no eviction has been vetoed, the list and the map of the     *)
(* cache of files name the same songs, each once, and no more of them than *)
(* the cache may hold.                                                     *)
THEOREM CacheIsSound == Spec => []WellFormedUnlessVetoed
<1>1. ASSUME DataInv PROVE WellFormedUnlessVetoed
  BY <1>1, SoundWellFormed DEF DataInv, CacheBase, SoundInv, WellFormedUnlessVetoed
<1> QED
  BY <1>1, DataInductive, PTL
=============================================================================

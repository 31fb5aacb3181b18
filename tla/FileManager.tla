----------------------------- MODULE FileManager -----------------------------
(***************************************************************************)
(* FileManager and the files half of CommonCache: the handles of open      *)
(* songs, the objects behind them, and the cache of song files.            *)
(*                                                                         *)
(* A song that is complete on disk is served by a reader of its own for    *)
(* every handle, another one by a processor its handles share.  A failing  *)
(* read closes processor and handle.  The manager's tables have a mutex,   *)
(* which an open holds while it asks the network, but a read uses its      *)
(* object, and a processor closes its file, without it.                    *)
(*                                                                         *)
(* A processor is named by the handle it was made for.  The size of a song *)
(* may have to be obtained and any attempt to get it may fail; size        *)
(* changes of the remote file are left out.  Sizes on disk count blocks.   *)
(***************************************************************************)
EXTENDS LruCache

CONSTANTS
  Handles,         \* bound: each is given out once
  Threads,         \* the FUSE threads that read
  FullSize,        \* size of a complete song, in blocks
  FilesCacheSize,  \* _max_size of the files cache
  None, Reader     \* no object; a reader made for the handle

ASSUME ManagerAssumption == /\ FullSize \in Nat \ {0}
                            /\ FilesCacheSize \in Nat
                            /\ None \notin Songs \cup Handles \cup {Reader}
                            /\ Reader \notin Handles

VARIABLES
  mutex,    \* _readersMutex: the handle being opened, or None
  opening,  \* where its open is
  status,   \* what FUSE knows of each handle
  remFile,  \* _idToRemFile
  entry,    \* _mp3Readers
  object,   \* the values of the entries' ids
  proc,     \* the processors
  thread,   \* the reads in progress
  files,    \* _initialSizesCache
  opened,   \* _openedFiles
  disk,     \* the songs that have a file in the cache directory
  vetoed,   \* whether an eviction has been vetoed
  fault     \* closeNoLock has dereferenced the end of ids

tables == <<remFile, entry, object>>
cache  == <<files, opened, disk, vetoed>>
vars   == <<mutex, opening, status, tables, proc, thread, cache, fault>>

NoEntry == [present |-> FALSE, processor |-> None, ids |-> {},
            usages |-> [p \in Handles |-> 0]]
NoProc  == [song |-> None, opener |-> "off", file |-> "unopened", size |-> 0,
            closed |-> FALSE]
Idle    == [at |-> "idle", handle |-> None, object |-> None]

Init == /\ mutex = None /\ opening = "no" /\ status = [h \in Handles |-> "unused"]
        /\ remFile = [h \in Handles |-> None]
        /\ entry = [s \in Songs |-> NoEntry]
        /\ object = [h \in Handles |-> None]
        /\ proc = [p \in Handles |-> NoProc]
        /\ thread = [t \in Threads |-> Idle]
        /\ files = Empty /\ opened = {} /\ disk = {} /\ vetoed = FALSE
        /\ fault = FALSE

SetStatus(h, s) == status' = [status EXCEPT ![h] = s]

(* After undefined behaviour the program is taken to have crashed.         *)
Running == ~ fault /\ ~ files.undefined

Unlocked          == Running /\ mutex = None
OpenIsAt(h, step) == Running /\ mutex = h /\ opening = step
ReadIsAt(t, step) == Running /\ thread[t].at = step
OpenerIs(p, step) == Running /\ proc[p].opener = step
-----------------------------------------------------------------------------
(* CommonCache.  An eviction deletes the file. *)

\* Mutant: songs in use are evicted like others.
PutSizeKeepingNone(song, size, keep) ==
  LET put == Put(files, song, size, FilesCacheSize, {})
  IN  /\ files' = put.cache
      /\ disk' = disk \ put.evicted
      /\ UNCHANGED vetoed

PutSize(song, size, keep) ==
  LET put == Put(files, song, size, FilesCacheSize, keep)
  IN  /\ files' = put.cache
      /\ disk' = disk \ put.evicted
      /\ vetoed' = (vetoed \/ Cardinality(put.cache.map) > FilesCacheSize)

(* fileClosed: the song may be evicted again. *)
FileClosed(song, size) ==
  /\ opened' = opened \ {song}
  /\ PutSize(song, size, opened \ {song})

(* Mutant: the processor's file is not closed. *)
CloseProcessorFlagOnly(p) == /\ proc' = [proc EXCEPT ![p].closed = TRUE]
                             /\ UNCHANGED cache

(* MusicFile::close does so for a file that has been opened, once. *)
CloseProcessor(p) ==
  /\ proc' = [proc EXCEPT ![p].closed = TRUE,
                          ![p].file = IF @ = "open" THEN "closed" ELSE @]
  /\ IF proc[p].file = "open" THEN FileClosed(proc[p].song, proc[p].size)
     ELSE UNCHANGED cache
-----------------------------------------------------------------------------
(* closeNoLock.  The last user of an object closes it. *)

Forget(h) == /\ remFile' = [remFile EXCEPT ![h] = None]
             /\ object' = [object EXCEPT ![h] = None]

\* Mutant: the entry is dropped with its object, whoever else has one.
CloseNoLockDropping(h) ==
  LET song == remFile[h]
      e    == entry[song]
      obj  == object[h]
  IN  \/ /\ song = None
         /\ UNCHANGED <<tables, proc, cache, fault>>
      \/ /\ song # None /\ ~ e.present
         /\ Forget(h)
         /\ UNCHANGED <<entry, proc, cache, fault>>
      \/ /\ song # None /\ e.present
         /\ entry' = [entry EXCEPT ![song] = NoEntry]
         /\ IF obj \in Handles THEN CloseProcessor(obj) ELSE UNCHANGED <<proc, cache>>
         /\ Forget(h)
         /\ UNCHANGED fault

CloseNoLock(h) ==
  LET song == remFile[h]
      e    == entry[song]
      obj  == object[h]
      ids  == e.ids \ {h}
      left(f) == IF ids = {} THEN NoEntry ELSE f
  IN  \/ /\ song = None
         /\ UNCHANGED <<tables, proc, cache, fault>>
      \/ /\ song # None /\ ~ e.present
         /\ Forget(h)
         /\ UNCHANGED <<entry, proc, cache, fault>>
      \/ /\ song # None /\ e.present /\ h \notin e.ids
         /\ fault' = TRUE
         /\ UNCHANGED <<tables, proc, cache>>
      \/ /\ song # None /\ h \in e.ids
         /\ IF obj # Reader /\ e.usages[obj] > 1
            THEN /\ entry' = [entry EXCEPT ![song] =
                       left([e EXCEPT !.ids = ids, !.usages[obj] = @ - 1])]
                 /\ UNCHANGED <<proc, cache>>
            ELSE /\ entry' = [entry EXCEPT ![song] = left([e EXCEPT !.ids = ids])]
                 /\ IF obj = Reader THEN UNCHANGED <<proc, cache>>
                    ELSE CloseProcessor(obj)
         /\ Forget(h)
         /\ UNCHANGED fault
-----------------------------------------------------------------------------
(* open, which holds the mutex.  Any step that needs the size of the song  *)
(* may throw, and then the handle is closed.                               *)

Open(h, song) ==
  /\ Unlocked /\ status[h] = "unused"
  /\ mutex' = h /\ opening' = "filename"
  /\ SetStatus(h, "opening")
  /\ remFile' = [remFile EXCEPT ![h] = song]
  /\ UNCHANGED <<entry, object, proc, thread, cache, fault>>

EndOpen(h, s) == mutex' = None /\ opening' = "no" /\ SetStatus(h, s)

(* getFilename: a song with a recorded size and a file is complete if the  *)
(* sizes agree; the record of another one starts from zero.                *)
GetFilename(h) ==
  LET song == remFile[h]
  IN  /\ OpenIsAt(h, "filename")
      /\ opened' = opened \cup {song}
      /\ IF song \in files.map \cap disk
         THEN /\ files' = Get(files, song)
              /\ UNCHANGED <<disk, vetoed>>
              /\ \/ opening' = IF ~ files'.undefined /\ ValueOf(files', song) = FullSize
                               THEN "reader" ELSE "processor"
                 \/ opening' = "failed"
         ELSE PutSize(song, 0, opened') /\ opening' = "processor"
      /\ UNCHANGED <<mutex, status, tables, proc, thread, fault>>

(* A complete song: the entry forgets its processor, and the handle gets a *)
(* reader if the size can be obtained.                                     *)
AttachReader(h) ==
  LET song == remFile[h]
      e    == [entry[song] EXCEPT !.present = TRUE, !.processor = None]
  IN  /\ OpenIsAt(h, "reader")
      /\ \/ /\ EndOpen(h, "open")
            /\ entry' = [entry EXCEPT ![song] = [e EXCEPT !.ids = @ \cup {h}]]
            /\ object' = [object EXCEPT ![h] = Reader]
         \/ /\ opening' = "failed"
            /\ entry' = [entry EXCEPT ![song] = e]
            /\ UNCHANGED <<mutex, status, object>>
      /\ UNCHANGED <<remFile, proc, thread, cache, fault>>

Attached(e, h, p) == [e EXCEPT !.ids = @ \cup {h}, !.processor = p, !.usages[p] = @ + 1]

\* Mutant: the further use is not counted.
ShareProcessorUncounted(h) ==
  LET song == remFile[h]
      p    == entry[song].processor
  IN  /\ OpenIsAt(h, "processor") /\ p # None
      /\ EndOpen(h, "open")
      /\ entry' = [entry EXCEPT ![song].ids = @ \cup {h}]
      /\ object' = [object EXCEPT ![h] = p]
      /\ UNCHANGED <<remFile, proc, thread, cache, fault>>

(* An incomplete one: the handle shares the entry's processor ...          *)
ShareProcessor(h) ==
  LET song == remFile[h]
      p    == entry[song].processor
  IN  /\ OpenIsAt(h, "processor") /\ p # None
      /\ EndOpen(h, "open")
      /\ entry' = [entry EXCEPT ![song] = Attached(@, h, p)]
      /\ object' = [object EXCEPT ![h] = p]
      /\ UNCHANGED <<remFile, proc, thread, cache, fault>>

(* ... or gets a new one, which starts from the size recorded, if that can *)
(* still be read.                                                          *)
CreateProcessor(h) ==
  LET song == remFile[h]
      size == IF Uses(files, song) THEN 0 ELSE ValueOf(files, song)
  IN  /\ OpenIsAt(h, "processor") /\ entry[song].processor = None
      /\ \/ /\ EndOpen(h, "open")
            /\ files' = Get(files, song)
            /\ proc' = [proc EXCEPT ![h] = [NoProc EXCEPT !.song = song, !.size = size]]
            /\ entry' = [entry EXCEPT ![song] = Attached([@ EXCEPT !.present = TRUE], h, h)]
            /\ object' = [object EXCEPT ![h] = h]
         \/ /\ opening' = "failed"
            /\ entry' = [entry EXCEPT ![song].present = TRUE]
            /\ UNCHANGED <<mutex, status, object, proc, files>>
      /\ UNCHANGED <<remFile, thread, opened, disk, vetoed, fault>>

FailOpen(h) ==
  /\ OpenIsAt(h, "failed")
  /\ EndOpen(h, "released")
  /\ CloseNoLock(h)
  /\ UNCHANGED thread
-----------------------------------------------------------------------------
(* The job of a processor: it opens stream and file, or fails, and then    *)
(* downloads.                                                              *)

OpenerOpens(p) ==
  /\ OpenerIs(p, "pending")
  /\ \/ /\ \E outcome \in {"opened", "failed"} :
             proc' = [proc EXCEPT ![p].opener = outcome, ![p].file = "open"]
        /\ disk' = disk \cup {proc[p].song}
     \/ /\ proc' = [proc EXCEPT ![p].opener = "failed"]
        /\ UNCHANGED disk
  /\ UNCHANGED <<mutex, opening, status, tables, thread, files, opened, vetoed, fault>>

Download(p) ==
  /\ OpenerIs(p, "opened") /\ proc[p].file = "open"
  /\ \/ /\ proc[p].size < FullSize
        /\ proc' = [proc EXCEPT ![p].size = @ + 1]
     \/ proc' = [proc EXCEPT ![p].opener = "failed"]
  /\ UNCHANGED <<mutex, opening, status, tables, thread, cache, fault>>
-----------------------------------------------------------------------------
(* read takes a copy of the handle's object under the mutex, uses it       *)
(* without, and closes the handle if that throws.                          *)

BeginRead(t, h) ==
  LET obj == object[h]
  IN  /\ Unlocked /\ thread[t] = Idle
      /\ status[h] = "open" /\ remFile[h] # None
      /\ thread' = [thread EXCEPT ![t] = [at |-> "reading", handle |-> h, object |-> obj]]
      /\ proc' = IF obj # Reader /\ proc[obj].opener = "off"
                 THEN [proc EXCEPT ![obj].opener = "pending"] ELSE proc
      /\ UNCHANGED <<mutex, opening, status, tables, cache, fault>>

ReadReturns(t) ==
  LET obj == thread[t].object
  IN  /\ ReadIsAt(t, "reading")
      /\ obj # Reader => proc[obj].opener = "opened"
      /\ thread' = [thread EXCEPT ![t] = Idle]
      /\ UNCHANGED <<mutex, opening, status, tables, proc, cache, fault>>

(* The processor's read closes the processor before it throws. *)
ReadThrows(t) ==
  LET obj == thread[t].object
  IN  /\ ReadIsAt(t, "reading")
      /\ obj # Reader /\ proc[obj].opener \in {"opened", "failed"}
      /\ thread' = [thread EXCEPT ![t].at = "failed"]
      /\ CloseProcessor(obj)
      /\ UNCHANGED <<mutex, opening, status, tables, fault>>

CloseFailed(t) ==
  /\ Unlocked /\ ReadIsAt(t, "failed")
  /\ thread' = [thread EXCEPT ![t] = Idle]
  /\ CloseNoLock(thread[t].handle)
  /\ UNCHANGED <<mutex, opening, status>>

(* FUSE releases a handle when no read of it is in progress. *)
Release(h) ==
  /\ Unlocked /\ status[h] = "open"
  /\ \A t \in Threads : thread[t].handle # h
  /\ SetStatus(h, "released")
  /\ CloseNoLock(h)
  /\ UNCHANGED <<mutex, opening, thread>>
-----------------------------------------------------------------------------
(* With all handles released, or after a crash, nothing is left to do.     *)
Stopped == (Running => \A h \in Handles : status[h] = "released") /\ UNCHANGED vars

Next == \/ \E h \in Handles, s \in Songs : Open(h, s)
        \/ \E h \in Handles : \/ GetFilename(h) \/ AttachReader(h) \/ ShareProcessor(h)
                              \/ CreateProcessor(h) \/ FailOpen(h) \/ Release(h)
                              \/ OpenerOpens(h) \/ Download(h)
        \/ \E t \in Threads, h \in Handles : BeginRead(t, h)
        \/ \E t \in Threads : ReadReturns(t) \/ ReadThrows(t) \/ CloseFailed(t)
        \/ Stopped

Spec == Init /\ [][Next]_vars
-----------------------------------------------------------------------------
(* What the tables of the manager hold; the cache and the sizes of         *)
(* processors are not looked into.                                         *)
TypeOK ==
  /\ mutex \in Handles \cup {None}
  /\ opening \in {"no", "filename", "reader", "processor", "failed"}
  /\ status \in [Handles -> {"unused", "opening", "open", "released"}]
  /\ remFile \in [Handles -> Songs \cup {None}]
  /\ entry \in [Songs -> [present : BOOLEAN, processor : Handles \cup {None},
                         ids : SUBSET Handles, usages : [Handles -> Nat]]]
  /\ object \in [Handles -> Handles \cup {None, Reader}]
  /\ thread \in [Threads -> [at : {"idle", "reading", "failed"},
                             handle : Handles \cup {None},
                             object : Handles \cup {None, Reader}]]
  /\ opened \subseteq Songs /\ fault \in BOOLEAN

(* A handle the manager knows leads to an object: the lookups of read and  *)
(* close, which do not test their results, find it.                        *)
HandleResolves ==
  Running => \A h \in Handles : remFile[h] # None /\ mutex # h =>
    /\ h \in entry[remFile[h]].ids
    /\ object[h] # None

(* An open processor is used by exactly the handles counted, and by one at *)
(* least, so that the last of them closes it and no other does.            *)
UsesCounted ==
  \A p \in Handles : proc[p] # NoProc /\ ~ proc[p].closed =>
    LET e == entry[proc[p].song]
    IN  e.usages[p] > 0 /\ e.usages[p] = Cardinality({h \in e.ids : object[h] = p})

(* No two processors write the file of one song at a time. *)
OneWriter ==
  \A p, q \in Handles : proc[p].file = "open" /\ proc[q].file = "open"
                            /\ proc[p].song = proc[q].song => p = q

Writing(song) == \E p \in Handles : proc[p].song = song /\ proc[p].file = "open"
Served(song)  == \E h \in Handles : remFile[h] = song /\ object[h] = Reader
Opening(song) == /\ mutex # None /\ remFile[mutex] = song
                 /\ \/ opening = "reader"
                    \/ opening = "processor" /\ entry[song].processor = None

(* The cache keeps the record and the file of a song that is downloaded or *)
(* read from disk, or about to be, however small it is: the object that is *)
(* being made takes the record to be there, and the file to stay.          *)
FilesInUseKept ==
  Running => \A s \in Songs :
    /\ Writing(s) \/ Served(s) \/ Opening(s) => s \in opened \cap files.map
    /\ Writing(s) \/ Served(s) => s \in disk

(* As long as no eviction has been vetoed, list and map of the cache agree *)
(* and it has the size it was given.                                       *)
WellFormedUnlessVetoed ==
  ~ vetoed => WellFormed(files) /\ Cardinality(files.map) <= FilesCacheSize

(* A failing open ends with an exception, not with a dereferenced end().   *)
OpenFailsCleanly == ~ fault
=============================================================================

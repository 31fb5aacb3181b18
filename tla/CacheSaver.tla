----------------------------- MODULE CacheSaver -----------------------------
(***************************************************************************)
(* What the cache of songs leaves behind: the files of the songs and the   *)
(* JSON files CacheSaver reads at a start and writes at an exit, over      *)
(* several runs of the program, each with a bound of its own on the files  *)
(* and each of which may be killed at any step.                            *)
(*                                                                         *)
(* A JSON file is absent (None), Torn (its write was begun and not ended;  *)
(* parsing it throws and the program ends) or has its contents.  Sizes     *)
(* have their own module, so that only the state of their file is here.    *)
(* Songs are played one handle each; FileManager has the others.           *)
(***************************************************************************)
EXTENDS LruCache

CONSTANTS
  FullSize,    \* the length of a complete song
  Bounds,      \* the values of files_cache_size the program is started with
  MaxStarts,   \* bound: starts of the program
  None, Torn

ASSUME SaverAssumption ==
  /\ IsFiniteSet(Songs) /\ FullSize \in Nat \ {0} /\ Bounds \subseteq Nat
  /\ MaxStarts \in Nat /\ None # Torn /\ None \notin Nat
  /\ {None, Torn} \cap Seq([key : Songs, value : Nat]) = {}

VARIABLES
  phase,       \* of the program
  todo,        \* the entries of the JSON file being gone through
  max, files,  \* _max_size and contents of _initialSizesCache
  opened,      \* _openedFiles
  got,         \* of a song being downloaded: the size of its File
  disk,        \* the lengths of the songs' files
  savedFiles, savedSizes, \* the JSON files
  version,     \* the version in meta.json
  starts,
  played,      \* the songs whose files this session has opened to write
  stale,       \* the songs whose files have bytes of a session that was killed
  vetoed       \* an eviction has been vetoed

memory == <<max, files, opened, got>>
savedLists == <<savedFiles, savedSizes, version>>
killings == <<played, stale>>
vars == <<phase, todo, memory, disk, savedLists, starts, killings, vetoed>>

Entry(s, size) == [key |-> s, value |-> size]

(* A new directory, or one of a version before meta.json.                  *)
Init ==
  /\ phase = "off" /\ todo = <<>> /\ max = 0 /\ files = Empty /\ opened = {}
  /\ got = [s \in Songs |-> None]
  /\ \E old \in SUBSET Songs :
       /\ disk = [s \in Songs |-> IF s \in old THEN FullSize ELSE None]
       /\ savedFiles = IF old = {} THEN None
                       ELSE [i \in 1 .. Cardinality(old) |->
                               Entry(SetToSeq(old)[i], FullSize)]
  /\ savedSizes = None /\ version = None
  /\ starts = 0 /\ played = {} /\ stale = {} /\ vetoed = FALSE

Goes(from, to) == phase = from /\ phase' = to
-----------------------------------------------------------------------------
(* CommonCache.  An eviction deletes the file; songs kept are not evicted. *)
PutSize(s, size, kept) ==
  LET put == Put(files, s, size, max, kept)
  IN  /\ files' = put.cache
      /\ disk' = [t \in Songs |-> IF t \in put.evicted THEN None ELSE disk[t]]
      /\ stale' = stale \ put.evicted
      /\ vetoed' = (vetoed \/ Cardinality(put.cache.map) > max)

(* The constructor of CacheSaver reads meta.json.                          *)
Start(bound) ==
  /\ phase = "off" /\ starts < MaxStarts /\ starts' = starts + 1
  /\ phase' = CASE version = Torn      -> "broken"
                [] version = "current" -> "load_sizes"
                [] OTHER               -> "clear"
  /\ max' = bound /\ files' = Empty /\ opened' = {} /\ got' = [s \in Songs |-> None]
  /\ UNCHANGED <<todo, disk, savedLists, killings, vetoed>>

(* clearCache is run for another version, and as an option of the program. *)
StartToClear ==
  /\ phase = "off" /\ version = "current" /\ starts < MaxStarts
  /\ starts' = starts + 1 /\ phase' = "clear"
  /\ UNCHANGED <<todo, memory, disk, savedLists, killings, vetoed>>

Reads(file, then) ==
  IF file = Torn THEN phase' = "broken" /\ UNCHANGED todo
  ELSE phase' = then /\ todo' = IF file = None THEN <<>> ELSE file

ClearSizes ==
  /\ phase = "clear" /\ savedSizes' = None
  /\ Reads(savedFiles, "clear_songs")
  /\ UNCHANGED <<memory, disk, savedFiles, version, starts, killings, vetoed>>

ClearSong ==
  /\ phase = "clear_songs" /\ todo # <<>> /\ todo' = Tail(todo)
  /\ disk' = [disk EXCEPT ![Head(todo).key] = None]
  /\ stale' = stale \ {Head(todo).key}
  /\ UNCHANGED <<phase, memory, savedLists, starts, played, vetoed>>

Cleared ==
  /\ phase = "clear_songs" /\ todo = <<>> /\ savedFiles' = None
  /\ phase' = IF version = "current" THEN "off" ELSE "meta"
  /\ UNCHANGED <<todo, memory, disk, savedSizes, version, starts, killings, vetoed>>

(* A file is written in two steps: it is made empty, and filled.           *)
SaveMeta ==
  /\ \/ phase = "meta" /\ version # Torn /\ version' = Torn /\ UNCHANGED phase
     \/ Goes("meta", "load_sizes") /\ version = Torn /\ version' = "current"
  /\ UNCHANGED <<todo, memory, disk, savedFiles, savedSizes, starts, killings, vetoed>>

LoadSizes ==
  /\ phase = "load_sizes"
  /\ phase' = IF savedSizes = Torn THEN "broken" ELSE "open_files"
  /\ UNCHANGED <<todo, memory, disk, savedLists, starts, killings, vetoed>>

\* Mutant: the entry used last is put last.
OpenFilesReversed ==
  /\ phase = "open_files"
  /\ IF savedFiles = Torn THEN phase' = "broken" /\ UNCHANGED todo
     ELSE phase' = "load_files" /\ todo' = IF savedFiles = None THEN <<>> ELSE Reverse(savedFiles)
  /\ UNCHANGED <<memory, disk, savedLists, starts, killings, vetoed>>

OpenFiles ==
  /\ phase = "open_files" /\ Reads(savedFiles, "load_files")
  /\ UNCHANGED <<memory, disk, savedLists, starts, killings, vetoed>>

\* Mutant: the entries that exceed the bound are not put, and their files stay.
LoadFileThatFits ==
  /\ phase = "load_files" /\ todo # <<>> /\ todo' = Tail(todo)
  /\ IF Cardinality(files.map) < max THEN PutSize(Head(todo).key, Head(todo).value, opened)
     ELSE UNCHANGED <<files, disk, stale, vetoed>>
  /\ UNCHANGED <<phase, max, opened, got, savedLists, starts, played>>

(* Entries are put in the order of the file.                               *)
LoadFile ==
  /\ phase = "load_files" /\ todo # <<>> /\ todo' = Tail(todo)
  /\ PutSize(Head(todo).key, Head(todo).value, opened)
  /\ UNCHANGED <<phase, max, opened, got, savedLists, starts, played>>

Loaded ==
  /\ Goes("load_files", "running") /\ todo = <<>>
  /\ UNCHANGED <<todo, memory, disk, savedLists, starts, killings, vetoed>>
-----------------------------------------------------------------------------
(* A session.  After undefined behaviour nothing is said of it.            *)
Running == phase = "running" /\ ~ files.undefined
Session == UNCHANGED <<phase, todo, max, savedLists, starts>>

(* getFilename: whatever is not in the cache, or has no file, starts anew. *)
GetFilename(s) ==
  /\ Running /\ Session /\ UNCHANGED <<got, played>>
  /\ opened' = opened \cup {s}
  /\ IF s \in files.map /\ disk[s] # None
     THEN files' = Get(files, s) /\ UNCHANGED <<disk, stale, vetoed>>
     ELSE PutSize(s, 0, opened')

(* MusicFile, for a song that was not complete, gets the entry and opens   *)
(* the file.  An entry that dangles after a veto is undefined behaviour.   *)
OpenFile(s) ==
  /\ Running /\ Session
  /\ s \in opened \cap files.map /\ got[s] = None
  /\ ~ Uses(files, s) /\ ValueOf(files, s) < FullSize
  /\ files' = Get(files, s)
  /\ got' = [got EXCEPT ![s] = ValueOf(files, s)]
  /\ disk' = [disk EXCEPT ![s] = IF ValueOf(files, s) = 0 THEN 0 ELSE @]
  /\ played' = played \cup {s}
  /\ stale' = IF ValueOf(files, s) = 0 THEN stale \ {s} ELSE stale
  /\ UNCHANGED <<opened, vetoed>>

(* Blocks are appended to the file.                                        *)
Write(s) ==
  /\ Running /\ Session
  /\ got[s] \in 0 .. FullSize - 1
  /\ got' = [got EXCEPT ![s] = @ + 1]
  /\ disk' = [disk EXCEPT ![s] = IF @ = None THEN None ELSE @ + 1]
  /\ UNCHANGED <<files, opened, killings, vetoed>>

\* Mutant: every song closed is recorded as complete.
CloseFileAsWhole(s) ==
  /\ Running /\ Session
  /\ got[s] # None /\ got' = [got EXCEPT ![s] = None]
  /\ opened' = opened \ {s} /\ UNCHANGED played
  /\ PutSize(s, FullSize, opened')

(* MusicFile::close. *)
CloseFile(s) ==
  /\ Running /\ Session
  /\ got[s] # None /\ got' = [got EXCEPT ![s] = None]
  /\ opened' = opened \ {s} /\ UNCHANGED played
  /\ PutSize(s, got[s], opened')

(* The destructors close what is being downloaded, and the cache is saved. *)
Exit ==
  /\ Running /\ \A s \in Songs : got[s] = None
  /\ phase' = "save_sizes" /\ savedSizes' = Torn
  /\ UNCHANGED <<todo, memory, disk, savedFiles, version, starts, killings, vetoed>>

SavedSizes ==
  /\ Goes("save_sizes", "sizes_saved") /\ savedSizes' = <<>>
  /\ UNCHANGED <<todo, memory, disk, savedFiles, version, starts, killings, vetoed>>

SaveFiles ==
  /\ Goes("sizes_saved", "save_files") /\ savedFiles' = Torn
  /\ UNCHANGED <<todo, memory, disk, savedSizes, version, starts, killings, vetoed>>

SavedFiles ==
  /\ Goes("save_files", "off") /\ savedFiles' = files.list /\ played' = {}
  /\ UNCHANGED <<todo, memory, disk, savedSizes, version, starts, stale, vetoed>>

Kill ==
  /\ phase \notin {"off", "broken"} /\ phase' = "off"
  /\ stale' = stale \cup played /\ played' = {}
  /\ UNCHANGED <<todo, memory, disk, savedLists, starts, vetoed>>

Next == \/ \E bound \in Bounds : Start(bound)
        \/ StartToClear \/ ClearSizes \/ ClearSong \/ Cleared \/ SaveMeta
        \/ LoadSizes \/ OpenFiles \/ LoadFile \/ Loaded
        \/ \E s \in Songs : GetFilename(s) \/ OpenFile(s) \/ Write(s) \/ CloseFile(s)
        \/ Exit \/ SavedSizes \/ SaveFiles \/ SavedFiles \/ Kill

Spec == Init /\ [][Next]_vars
-----------------------------------------------------------------------------
(* The cache is saved with the entry used last first and loaded by put, so *)
(* that a start turns its order round: the song used last is the next to   *)
(* be evicted, and of entries that do not fit the last used ones go.       *)
StartTurnsOrder ==
  [][phase = "load_files" /\ phase' = "running" /\ ~ vetoed =>
       LET old == IF savedFiles = None THEN <<>> ELSE savedFiles
       IN  files.list = Reverse(SubSeq(old, 1 + Max({0, Len(old) - max}), Len(old)))]_vars

(* Every file of a song belongs to an entry, by which it can be evicted,   *)
(* whatever bounds the program was started with and wherever a start, a    *)
(* clearing, a session or a save was cut short.  Left out are the songs    *)
(* that a killed session had begun to write, until their files are deleted *)
(* or written from the start, and what follows a vetoed eviction.          *)
FilesHaveEntries ==
  phase = "running" /\ ~ vetoed =>
    \A s \in Songs \ stale : disk[s] # None => s \in files.map

(* What getFilename takes for complete is complete, whatever was evicted   *)
(* and downloaded again in the sessions before, killed ones too: only the  *)
(* songs a killed session had begun to write are left out, until their     *)
(* files are deleted or written from the start.                            *)
CompleteIsWhole ==
  phase = "running" /\ ~ vetoed =>
    \A s \in files.map \ stale : ValueOf(files, s) = FullSize /\ disk[s] # None
                                   => disk[s] = FullSize
=============================================================================

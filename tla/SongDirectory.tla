---------------------------- MODULE SongDirectory ----------------------------
(***************************************************************************)
(* One directory of songs and the commands given by making directories in  *)
(* it: a number n asks for n songs, o-c for c songs from the o-th on, r    *)
(* for the same songs anew.  Its items are the songs, a playlist's photo,  *)
(* and the directories: those made for commands, searches in a search, and *)
(* one for songs similar to one of its songs.                              *)
(*                                                                         *)
(* A call works under the lock of the directory, its query of VK included, *)
(* and is one step, which may end in an error at the query.  New files are *)
(* hidden until a job of the pool has obtained their size and made them    *)
(* through the mounted file system.  The kernel makes no directory under a *)
(* name that is there, and finds no hidden file.  Equal names of different *)
(* songs, zeros before a number, and songs that VK lists without an        *)
(* address are left out; so are the dummy directories that mkdir makes in  *)
(* place of commands under --create_dummy_dirs, until they are renamed,    *)
(* and that limitItems would count.                                        *)
(***************************************************************************)
EXTENDS Integers, Sequences, FiniteSets, FiniteSetsExt, SequencesExt

CONSTANTS
  Controls,                 \* controls: of "search", "similar", "my", "playlist"
  NumSongs,                 \* songs on VK
  Numbers, Intervals,       \* the commands <<n>> and <<o, "-", c>>
  NumSearchFiles,           \* _settings->getNumSearchFiles()
  MaxDirCalls,              \* bound: calls
  MaxCopies,                \* bound: files of one song
  Photo,                    \* the file of the photo
  Refresh, Nested, Similar, \* directories: of r, of a search, of similar songs
  NoDir                     \* no directory

ASSUME DirectoryAssumption ==
  /\ Controls \subseteq {"search", "similar", "my", "playlist"}
  /\ {NumSongs, NumSearchFiles, MaxDirCalls} \subseteq Nat /\ MaxCopies \in Nat \ {0}
  /\ \A c \in Numbers : c = <<c[1]>> /\ c[1] \in Nat
  /\ \A c \in Intervals : c = <<c[1], "-", c[3]>> /\ {c[1], c[3]} \subseteq Nat
  /\ Photo \notin (1 .. NumSongs) \X (1 .. MaxCopies)
  /\ Refresh # Similar /\ Nested \notin {Refresh, Similar}
  /\ {Refresh, Nested, Similar, NoDir} \cap (Numbers \cup Intervals) = {}
  /\ NoDir \notin {Refresh, Nested, Similar}
  /\ (Numbers \cup Intervals \cup {Refresh, Nested, Similar})
       \cap (((1 .. NumSongs) \X (1 .. MaxCopies)) \cup {Photo}) = {}

VARIABLES
  kind,    \* the control the directory belongs to
  there,   \* whether it is in the tree
  dir,     \* its items and its OffsetCnt
  server,  \* the songs on VK in their order
  jobs,    \* jobs of the pool: the files each has yet to make
  ended,   \* whether an exception in a job has ended the program
  spoiled, \* history: what may have made the songs others than the window
  dirCalls

songsVars == <<kind, there, dir, server, jobs, ended, spoiled, dirCalls>>

(* A file is a song with the number in its name, or the photo.             *)
FileNames == ((1 .. NumSongs) \X (1 .. MaxCopies)) \cup {Photo}

NewDir(o, c) == [dirs |-> {}, time |-> [x \in FileNames |-> 0], hidden |-> {},
                 offset |-> o, cnt |-> c, counter |-> NoDir]

SongsInit == /\ kind \in Controls /\ there = (kind \in {"my", "playlist"})
             /\ dir = NewDir(0, 0) /\ server = [i \in 1 .. NumSongs |-> i]
             /\ jobs = <<>> /\ ended = FALSE /\ spoiled = FALSE /\ dirCalls = 0
-----------------------------------------------------------------------------
Files(d) == {x \in FileNames : d.time[x] > 0}

SongFiles(d) == Files(d) \ {Photo}

Size(d) == Cardinality(Files(d)) + Cardinality(d.dirs)

(* _counterDir and _refreshDir are weak: they go with the directory.       *)
KeepItems(d, files, dirs) ==
  [d EXCEPT !.dirs = @ \cap dirs,
            !.time = [x \in FileNames |-> IF x \in files THEN @[x] ELSE 0],
            !.hidden = @ \cap files,
            !.counter = IF @ \in dirs THEN @ ELSE NoDir]

WithoutDir(d, x) == KeepItems(d, Files(d), d.dirs \ {x})

(* getCounterDirLeaver and getAllDeleter, which both leave similar songs.  *)
Left(d) == {Similar} \cup (IF kind \in {"my", "playlist"} THEN {} ELSE {d.counter})

(* addFilesToDir: a file for each of the songs, with the first number that *)
(* is free; times go on from the number of items.                          *)
AddFiles(d, songs) ==
  LET new == {x \in FileNames \ (Files(d) \cup {Photo}) :
                /\ x[1] \in Range(songs)
                /\ \A k \in 1 .. x[2] - 1 : <<x[1], k>> \in Files(d)}
      place(x) == CHOOSE i \in DOMAIN songs : songs[i] = x[1]
  IN  [d EXCEPT !.time = [x \in FileNames |->
                            IF x \in new THEN Size(d) + place(x) ELSE @[x]],
                !.hidden = @ \cup new]

(* createPhoto, which the playlists' callbacks call before their query.    *)
WithPhoto(d) ==
  IF kind # "playlist" \/ Photo \in Files(d) THEN d
  ELSE [d EXCEPT !.time[Photo] = Size(d) + 1, !.hidden = @ \cup {Photo}]

(* What VK lists; for no songs it is not asked.                            *)
Window(o, c) == SubSeq(server, o + 1, Min({o + c, Len(server)}))

(* The callback of an action: all goes well, or the query throws.          *)
Filled(d, o, c) == AddFiles(WithPhoto(d), Window(o, c))

QueryFails(c) == c > 0

(* A job makes the files of songs in the order they were added in.         *)
InOrder(d, files) ==
  CHOOSE s \in Bijection(1 .. Cardinality(files), files) :
    \A i, j \in DOMAIN s : i < j => d.time[s[i]] < d.time[s[j]]

(* A job for each call of createFiles and createPhoto.                     *)
PostJobs(d1, d2) ==
  LET new   == Files(d2) \ Files(d1)
      songs == InOrder(d2, new \ {Photo})
  IN  jobs' = jobs \o (IF Photo \in new THEN <<<<Photo>>>> ELSE <<>>)
                   \o (IF songs # <<>> THEN <<songs>> ELSE <<>>)

Call == /\ ~ ended /\ dirCalls < MaxDirCalls
        /\ dirCalls' = dirCalls + 1 /\ UNCHANGED <<kind, ended>>
-----------------------------------------------------------------------------
(* A search, or the songs similar to a song.  The directory of a search is *)
(* in the tree before VK is asked.                                         *)
Create ==
  /\ Call /\ ~ there /\ kind \in {"search", "similar"}
  /\ dir' = Filled(NewDir(0, NumSearchFiles), 0, NumSearchFiles)
  /\ there' = TRUE /\ spoiled' = FALSE
  /\ PostJobs(NewDir(0, 0), dir')
  /\ UNCHANGED server

CreateFails ==
  /\ Call /\ ~ there /\ kind = "search" /\ QueryFails(NumSearchFiles)
  /\ dir' = NewDir(0, NumSearchFiles) /\ there' = TRUE /\ spoiled' = TRUE
  /\ UNCHANGED <<server, jobs>>

\* Mutant: the old counter directory stays.
BeforeNumberKeeping == WithoutDir(dir, Refresh)

(* RemoveRefreshDirAct, and the old counter directory goes.                *)
BeforeNumber == WithoutDir(WithoutDir(dir, Refresh), dir.counter)

Recorded(d, o, c, command) ==
  [d EXCEPT !.dirs = @ \cup {command}, !.offset = o, !.cnt = c, !.counter = command]

Command(command) == Call /\ there /\ command \notin dir.dirs /\ UNCHANGED <<there, server>>

Counted(d) == Files(d) \cup (d.dirs \ {Similar})

\* Mutant: the old songs are removed and the new ones kept.
LimitItemsYoungest(d, n, files, dirs) ==
  LET t(x) == IF x \in FileNames THEN d.time[x] ELSE 0
      kept == files \cup dirs
  IN  /\ Cardinality(kept) = Min({n, Cardinality(Counted(d))})
      /\ \A x \in kept, y \in Counted(d) \ kept : t(x) >= t(y)

(* limitItems: of the items counted the n oldest are left, any of them     *)
(* where times are equal.  Directories have time 0.                        *)
LimitItems(d, n, files, dirs) ==
  LET t(x) == IF x \in FileNames THEN d.time[x] ELSE 0
      kept == files \cup dirs
  IN  /\ Cardinality(kept) = Min({n, Cardinality(Counted(d))})
      /\ \A x \in kept, y \in Counted(d) \ kept : t(x) <= t(y)

(* A number that is not greater than the one before.                       *)
Shrink(n) ==
  LET d == BeforeNumber
  IN  /\ Command(<<n>>) /\ n <= dir.cnt
      /\ \E files \in SUBSET Files(d), dirs \in SUBSET (d.dirs \ {Similar}) :
           /\ LimitItems(d, n, files, dirs)
           /\ dir' = Recorded(KeepItems(d, files, dirs \cup {Similar}), d.offset, n, <<n>>)
      /\ spoiled' = (spoiled \/ Counted(d) # SongFiles(d))
      /\ UNCHANGED jobs

(* A greater one: the songs after those that are there.                    *)
Grow(n) ==
  LET d == BeforeNumber
      f == Filled(d, d.offset + d.cnt, n - d.cnt)
  IN  /\ Command(<<n>>) /\ n > dir.cnt
      /\ dir' = Recorded(f, d.offset, n, <<n>>)
      /\ spoiled' = (spoiled \/ \E x \in SongFiles(d) : d.time[x] > Size(d))
      /\ PostJobs(d, f)

GrowFails(n) ==
  /\ Command(<<n>>) /\ n > dir.cnt
  /\ dir' = WithPhoto(BeforeNumber)
  /\ PostJobs(BeforeNumber, dir')
  /\ UNCHANGED spoiled

(* An interval: all items are deleted before VK is asked.                  *)
Emptied == KeepItems(dir, {}, Left(dir))

Interval(o, c) ==
  /\ Command(<<o, "-", c>>)
  /\ dir' = Recorded(Filled(Emptied, o, c), o, c, <<o, "-", c>>)
  /\ spoiled' = FALSE
  /\ PostJobs(Emptied, dir')

IntervalFails(o, c) ==
  /\ Command(<<o, "-", c>>) /\ QueryFails(c)
  /\ dir' = WithPhoto(Emptied) /\ spoiled' = TRUE
  /\ PostJobs(Emptied, dir')

(* RefreshAct, in the user's own songs and in playlists.  The counter      *)
(* directory stays.                                                        *)
BeforeRefresh == KeepItems(dir, {}, {Similar, dir.counter})

RefreshSongs ==
  /\ Call /\ kind \in {"my", "playlist"}
  /\ LET f == Filled(BeforeRefresh, dir.offset, dir.cnt)
     IN  dir' = [f EXCEPT !.dirs = @ \cup {Refresh}]
  /\ spoiled' = FALSE
  /\ PostJobs(BeforeRefresh, dir')
  /\ UNCHANGED <<there, server>>

RefreshFails ==
  /\ Call /\ kind \in {"my", "playlist"} /\ QueryFails(dir.cnt)
  /\ dir' = WithPhoto(BeforeRefresh) /\ spoiled' = TRUE
  /\ PostJobs(BeforeRefresh, dir')
  /\ UNCHANGED <<there, server>>

(* A search in a search, and a directory made by renaming a song.  Their   *)
(* own songs are not in this directory.                                    *)
MakeOther(x) ==
  /\ Command(x)
  /\ \/ x = Nested /\ kind = "search"
     \/ x = Similar /\ \E f \in SongFiles(dir) : f \notin dir.hidden
  /\ dir' = [dir EXCEPT !.dirs = @ \cup {x}]
  /\ UNCHANGED <<jobs, spoiled>>

(* rmdir; in "My audios" only similar songs can be removed.                *)
DeleteDir(x) ==
  /\ Call /\ x \in dir.dirs /\ (kind = "my" => x = Similar)
  /\ dir' = WithoutDir(dir, x)
  /\ UNCHANGED <<there, server, jobs, spoiled>>

(* unlink; one of the user's own songs is deleted on VK first.             *)
DeleteFile(x) ==
  /\ Call /\ x \in Files(dir) \ dir.hidden
  /\ dir' = KeepItems(dir, Files(dir) \ {x}, dir.dirs)
  /\ server' = IF kind = "my" THEN RemoveFirst(server, x[1]) ELSE server
  /\ spoiled' = (spoiled \/ x # Photo)
  /\ UNCHANGED <<there, jobs>>

(* The directory itself is removed; jobs for its files go on.              *)
Delete ==
  /\ Call /\ there /\ kind \in {"search", "similar"}
  /\ there' = FALSE /\ dir' = NewDir(0, 0) /\ spoiled' = FALSE
  /\ UNCHANGED <<server, jobs>>

\* Mutant: a job ends with its first file.
MakeFileOnce(i) ==
  /\ ~ ended /\ i \in DOMAIN jobs
  /\ jobs' = RemoveAt(jobs, i)
  /\ dir' = [dir EXCEPT !.hidden = @ \ {Head(jobs[i])}]
  /\ UNCHANGED <<kind, there, server, ended, spoiled, dirCalls>>

(* A job: the size of its next file is known and the file is made, which   *)
(* finds it hidden, not hidden, or gone.                                   *)
MakeFile(i) ==
  /\ ~ ended /\ i \in DOMAIN jobs
  /\ jobs' = IF Len(jobs[i]) = 1 THEN RemoveAt(jobs, i) ELSE [jobs EXCEPT ![i] = Tail(@)]
  /\ dir' = [dir EXCEPT !.hidden = @ \ {Head(jobs[i])}]
  /\ UNCHANGED <<kind, there, server, ended, spoiled, dirCalls>>

(* The size cannot be obtained: nothing catches the exception.             *)
JobThrows ==
  /\ ~ ended /\ jobs # <<>> /\ ended' = TRUE
  /\ UNCHANGED <<kind, there, dir, server, jobs, spoiled, dirCalls>>
-----------------------------------------------------------------------------
Commands ==
  \/ Create \/ CreateFails
  \/ \E c \in Numbers : Shrink(c[1]) \/ Grow(c[1]) \/ GrowFails(c[1])
  \/ \E c \in Intervals : Interval(c[1], c[3]) \/ IntervalFails(c[1], c[3])
  \/ RefreshSongs \/ RefreshFails
  \/ \E x \in {Nested, Similar} : MakeOther(x)

Deletions == \/ \E x \in dir.dirs : DeleteDir(x)
             \/ \E x \in Files(dir) : DeleteFile(x)
             \/ Delete

Jobs == \E i \in DOMAIN jobs : MakeFile(i)

SongsNext == Commands \/ Deletions \/ Jobs \/ JobThrows

SongsSpec == SongsInit /\ [][SongsNext]_songsVars

(* Jobs of the pool go on, as the size queries they wait for end.          *)
SongsFairSpec == SongsSpec /\ WF_songsVars(Jobs)
-----------------------------------------------------------------------------
(* What the variables hold; a file that is hidden is an item.              *)
SongsTypeOK ==
  /\ kind \in Controls /\ {there, ended, spoiled} \subseteq BOOLEAN
  /\ dir.dirs \subseteq Numbers \cup Intervals \cup {Refresh, Nested, Similar}
  /\ dir.counter \in Numbers \cup Intervals \cup {NoDir}
  /\ dir.time \in [FileNames -> Nat] /\ dir.hidden \subseteq Files(dir)
  /\ dir.offset \in Nat /\ dir.cnt \in Nat
  /\ server \in Seq(1 .. NumSongs) /\ dirCalls \in 0 .. MaxDirCalls
  /\ jobs \in Seq(Seq(FileNames) \ {<<>>})

(* Offset and count say which songs are there: the window of VK's list, in *)
(* its order by time.  Short of a query that failed after the deletion of  *)
(* the songs, the deletion of a song, a smaller number that counted other  *)
(* items, and a greater one after items older than songs had gone.         *)
WindowShown ==
  there /\ ~ spoiled =>
    LET w == Window(dir.offset, dir.cnt)
    IN  \E listed \in Bijection(DOMAIN w, SongFiles(dir)) :
          /\ \A i \in DOMAIN w : listed[i][1] = w[i]
          /\ \A i, j \in DOMAIN w : i < j => dir.time[listed[i]] < dir.time[listed[j]]

(* The counter directory names the offset and the count that are recorded, *)
(* whatever has failed; in "My audios" and in playlists no other command   *)
(* is left beside it.                                                      *)
CounterIsTrue ==
  /\ dir.counter # NoDir =>
       /\ dir.counter \in dir.dirs
       /\ dir.counter = <<dir.cnt>> \/ dir.counter = <<dir.offset, "-", dir.cnt>>
  /\ kind \in {"my", "playlist"} =>
       dir.dirs \subseteq {dir.counter, Refresh, Similar}

(* A hidden file appears or goes, whatever is done to the directory in the *)
(* meantime, unless the program has ended.                                 *)
HiddenAppear == \A x \in FileNames : x \in dir.hidden ~> (x \notin dir.hidden \/ ended)
=============================================================================

# vk-music-fs: a formal model

vk-music-fs is a FUSE file system that shows the music of vk.com as directories
of MP3 files. Directories are searches, playlists or the user's own songs: a
`mkdir` is a query, its songs appear as files. Opening a song downloads it into
a cached file in which a new ID3v2 tag replaces the stream's own; a read takes
what is on disk and the rest from a partial HTTP request. Sizes and file names of songs are
cached between runs of the program.

This directory holds TLA+ modules that follow the C++ code under `src/src`
definition by definition, TLC configurations that check them on small
instances, and proofs that TLAPS checks. `PROJECT.json` maps every definition to
the lines it stands for and lists hazards, runs, mutants and theorems.

Contents: 1 Inventory; 2 Plan; 3 Modules and code; 4 Runs, bounds, fairness;
5 Proofs; 6 What the code does otherwise than it says; 7 What is left out.

## 1 Inventory

| Component | State | Operations | Hard behaviour | What makes it correct |
|---|---|---|---|---|
| Parsing buffer (`mp3core/BlockingBuffer`, `cache/FileBuffer`) | bytes in memory, bytes in a temporary file, flags, a condition variable | `append`, `setEOF`, `notify`, `read`, `clearStart`, `finalRead` | a producer and a consumer thread; two storages; notification without the lock | its bytes are the stream's, in order, each once; reads return |
| Song download (`mp3core/FileProcessor`, `cache/MusicFile`, `cache/File`) | flags, three promises, the cached file with its sizes, the HTTP stream | `read`, the jobs opener and appender, `close`, destructor | four kinds of threads on one object, failures at any network operation, resumed downloads, crashes | reads return the song's bytes; the file is a beginning of the song; the jobs end |
| File manager (`mp3core/FileManager`, `Reader`) | tables of handles, songs, objects and their users | `open`, `read`, `close` | one mutex, but reads without it; a failing read closes for all | a handle leads to an object; the last user closes |
| File cache (`cache/CommonCache`, `lrucache.hpp`, `CacheSaver`) | LRU of files with a veto, LRU of sizes with markers, a condition variable | `getFilename`, `fileClosed`, `getFileSize`, `removeSize`, save, load | queries outside the lock, evictions while in use | a file in use stays; one query per file; callers come back |
| HTTP streams (`net/HttpStream*`, `Timer`) | connection, parser, flag `_isOpened`, timers | `open`, `read`, partial read, `close` | asynchronous operations waited for by promises, timeouts as flags | an operation ends once, with an answer or an error |
| ID3 parsing (`mp3core/Mp3Parser`, taglib) | the tag | `parse` | reads from a growing buffer, seeks | the tag made has the length computed beforehand |
| Thread pool (`common/ThreadPool`) | ten threads | `post` | jobs that wait for jobs; one thread runs the event loop | a posted job runs |
| Photos (`mp3core/PhotoProcessor`, `cache/PhotoFile`, `PhotoCache`) | a cached file with its size, a mutex | `read`, `close` | the first read downloads in its own thread, under the mutex; handles share a processor that may be dead; the file is kept between runs | reads return the photo; the cached file is what the size says |
| Directory tree (`fs/FsUtils`, `FsPath`, `Dir`, `AudioFs`) | nodes with items and a mutex each | `findPath` and what is done at its end | locks taken hand over hand, two paths in a rename | what is locked is unlocked; no deadlock; a path leads where it led at one moment |
| Directory controls (`fs/ctrl`, `fs/actions`) | offset, count and counter directory of a directory, times of songs | `createDir`, `rename`, `deleteDir`, ... | queries that fail between two changes | offset and count say what is in the directory |
| Asynchronous creation (`fs/AsyncFsManager`, `FileObtainer`) | hidden songs | `createFiles` | size queries in the pool, later `mknod` on the own file system | every song appears in the end |
| VK queries, tokens (`net/VkApiQueryMaker`, `token`) | none | requests | none | out of reach: formats |
| FUSE callbacks (`main.cpp`, `main/Application`, `FakeFs`) | table of meta files | one call of the above each | libfuse calls them from many threads | callers of the other components |
| Options, logging, injection, vendored libraries | configuration | read at start | none | not modelled |

How they interact. A FUSE thread calls `AudioFs`, whose control walks the tree
and does its work under the locks of the last nodes of a path, a query of VK
included. `open` and `read` go to `FileManager`, which holds its mutex while it
asks `CommonCache` for file name and size, and makes a `Reader` for a song that
is complete on disk or a `FileProcessor` that all handles of the song share. The
first `read` of a processor posts the opener to the pool; the opener posts the
appender; the appender fills the `BlockingBuffer` the opener's parser reads.
Readers wait on the processor's promises. `MusicFile` writes the cached file and
reports its size to `CommonCache`, which saves all sizes when the program exits.

What is hard to test here, at its line, is the list "hazards" of
`PROJECT.json`: forty entries, from notifications that fall between test and
wait to a photo whose failed download every handle shares. Each names the
properties that would show it going wrong, or says why there is none.

## 2 Plan

In the order in which they were written, the most important first:

1. `BlockingBuffer`, with the abstract `StreamLog` it implements: every byte of
   a song's head passes through it. Done.
2. `FileProcessor`, over several sessions and crashes, on top of the log: the
   heart of the program and most of its concurrency. Done.
3. `FileManager` with `LruCache`: life and death of processors, files in use. Done.
4. `SizeCache`: the marker protocol of `getFileSize`, its exits and restarts. Done.
5. `DirectoryTree`: lock coupling and renames. Done.
6. `HttpStream` with its timers: operations, promises, flags. Done.
7. `DownloadPool`, the composition of callers, locks, manager, processors and
   pool: who waits for whom. Done.
8. `CacheSaver`: starts, exits and kills of the program around the files half of
   the cache. Done.
9. `SongDirectory`: the commands on a directory, and the jobs that make its
   files. Done.
10. `PhotoProcessor`: the photo of a playlist over several runs. Done.

Left: the directory that holds the playlists ("My playlists") and
`AddToMyAudios`, which change the list the other directories are windows of. Every
invariant and action property that a passing run checks is also proved (section 5).

## 3 Modules and code

Conventions. A byte is its position in the stream, so that misplaced bytes show;
tag bytes are negative. Operations under one mutex that cannot wait are one
step; an operation that waits, calls the network or touches shared state without
a lock is split where others can come between. Sets of actions carry the names
of the code they stand for. Definitions commented "Mutant" are variants that
properties must tell from the real one; they are part of no specification.

**StreamLog** is what a download buffer promises: a log that grows at its end
until it is closed, and gives back what was logged, until it may lose a part at its
end (`readable`), of which it then gives junk in the right length (`ReadBack`).

**BlockingBuffer** has the appender (`apc`), the reader (`rpc`) with the call in
progress, memory (`mem`) and temporary file (`spill`), the three flags and the
wait set. `setEOF` and `notify` take no lock in the code, hence their own steps.
After the parse the same module drains the buffer as `FileProcessor` does. What
the file yields after a seek to a negative offset (`spillFailed`) and what an
uncopied buffer holds (`Junk`) follow from the fstream's failbit and from the
uninitialised block. From then on only the bytes in memory can be read back
(`Readable`, the log's `readable`).

**FileProcessor** has a program counter for opener, appender, each reader and
the owner. The promises `opened`, `thread` and `append` are "unset", a value, an
exception, or "future_error" once satisfied twice. `stream`, `file` and `buffer`
are the objects the processor drives; every network operation may also fail.
`disk`, `recorded` and `saved` outlive the processor: the bytes of the cached
file, the sizes in the cache, and those on disk. `Reopen` makes the next
processor from them, `Crash` loses what was not saved. The buffer is the log of
`StreamLog`: the composition is by that interface, and `BlockingBuffer` is shown
to implement it. `LoseSpill` is the log's loss, in a read of the parser: the file
then gives nothing back, and `Drain` writes what `ReadBack` yields, junk included, as
`finalRead` does. Readers read size and file in separate steps, without a lock,
as lines 148 to 153 do.

**LruCache** is the modified `lru_cache` as pure operators on a list and a map.
After a vetoed eviction the loop removes the last node instead of the one it
erased, which leaves a map entry without a node ("dangling"); its later use is
undefined behaviour.

**FileManager** has the mutex, the steps of an open, the tables of the code
(`remFile`, `entry`, `object`), and reads in progress that hold an object after
the lookup. The cache's files half is in it because `fileClosed` and
`getFilename` are called inside the manager's critical section and outside of
it. Processors are reduced to what the manager and the cache see: opened, file
open, size, closed.

**SizeCache** has the sizes cache and the threads inside `getFileSize`: testing,
asleep, obtaining, notifying. Which entry is evicted is left open, which
includes the least recently used one. It also exits, is killed and starts again:
a marker that was saved becomes "stale", one that no thread tends.

**HttpStream** has for each thread its call (`kind`), the asynchronous stage it
is in, where its caller is, and the promise it waits for. `Handle` is the handler
of an operation that ends, `Expires` a timer, which only raises the flag `late`,
or gives up a wait that has a limit. `GiveUp` cancels the operation, whose handler has
still to run (`cancelled`, `Aborted`) while the caller already shuts the connection
down. Handshakes and the shutdown after a failed
read run in handlers: `loop` is the call that keeps the event loop's thread.
`FallSilent` is a peer that answers no more. The stream's own flags (`closed`,
`up`, `left`) are shared by the download and by readers whose partial read fails.

**DownloadPool** composes the pool's queue and threads (`queue`, `running`) with
the locks that calls of FUSE take in order: a directory, a song, the manager's
mutex, the meta files' mutex. A processor is reduced to what waits for the pool:
its opener and whether its appender has fed it. `current` and `handle` are the
manager's entries and objects. The event loop is a job like others.

**CacheSaver** has the phases of a start (reading `meta.json`, clearing, loading
two lists) and of an exit (saving them), the songs' files, and songs that are
played meanwhile. `LruCache` is the cache again. A saved list may be absent,
torn, or have its contents; `Kill` may come between any two steps. `played` and
`stale` are history variables: the songs a session has opened to write, and those
that such a session, killed, has left, until their files are deleted or written anew.

**SongDirectory** has one directory: its files with their times, its command
directories, its `OffsetCnt`, the counter directory the weak pointer leads to,
the songs on VK, and the jobs that make hidden files. One action per command and
one for its failure at the query, which leaves what was changed before it.
`spoiled` is a history variable: it is set by the four things after which the
directory no longer shows the window its `OffsetCnt` names. A number is `<<n>>`, an
interval `<<o, "-", c>>`; `InOrder` is the order in which a job makes its files.

**PhotoProcessor** has the calls of its handles, the mutex, the `PhotoFile` the
handles share (`opened`, `closed`, the fstream's failbit and the size it counts),
the bytes on disk, and the size in the cache and in the saved list. `Enter` opens
the file, `StreamOpens`, `Download` and `DownloadEnds` are the loop of `read`, a
byte at a time, each of which may fail; `Fail` closes file and handle.

**DirectoryTree** has the nodes (`node`, `next` of the `IdGenerator`), the
mutexes (`owner`), and for each thread its call and its walk: `parts` is
`_parts` of the `FsPath`, `walked` how many nodes it has reached, `first` the
path of a rename's first walk. `LockRoot`, `Descend` and `EndWalk` are the
branches of `findPath`; `MakeDir`, `RemoveDir`, `RenameSong`, `RenameDummy` and
`Nothing` are what the calls do under their locks, with the release by
`FsPathUnlocker`; `Die` is the last element of an empty list being used.
Locking the next node and unlocking the one before are one step: between the two
a thread owns both, and what it does there commutes with what others can do.

Modules whose name ends in `MC` add the constants TLC cannot be given in a
configuration; those ending in `_proofs` hold the theorems. `Caches_proofs` speaks of
`CacheSaver` and `SizeCache`, `Streams_proofs` of `HttpStream` and `BlockingBuffer`,
`Directories_proofs` of `DirectoryTree` and `SongDirectory`; as each extends both of
its modules, the operators of the second carry its name (`SizesNext`, `BufferNext`,
`SongsNext`). `LruCache_proofs` has the lemmas on the cache that `FileManager_proofs`
and `Caches_proofs` share.

## 4 Runs, bounds, fairness

Passing runs:

| Run | Instance | Shows |
|---|---|---|
| `buffer_safety` | stream 10, blocks of 3, memory 7, reads up to 4 | order and completeness of the buffered bytes, exactness of reads that begin a pass in one storage, of the drain up to what a failed file holds, refinement of `StreamLog`, and that reads return unless the end's notification was lost |
| `processor` | stream 3, blocks of 1, 2 in memory, tag 2 replacing 1, two readers with requests across tag, disk and stream | exact reads but for lost bytes, turns on the stream, promises once, a quiet end, and that reads and destructor end |
| `processor_sessions` | stream 7, blocks of 2, 4 bytes in memory, one reader, three processors, one crash | the cached file is a beginning of the song, but for lost bytes; downloads are in step with it; sizes saved can be resumed from |
| `manager_safety` | three songs, three handles, two reading threads, complete size 1, cache of 1 file, symmetric | handles resolve, users are counted, one writer per file, files in use stay |
| `sizes` | three threads, two files, one entry, one call each, exits and kills at any point | markers are tended, one query at a time, calls end |
| `tree` | three threads, one call each of eight, seven nodes | locks match paths, circles of waiting need a rename, calls act on what their path led to, or, deep down, at a moment it led nowhere |
| `stream` | a download of one block with three calls, another thread with two of partial read, size query, VK query; one retry | promises outlive operations, shutdowns are alone but for an operation just given up, retries are counted, calls end |
| `pool` | three threads in the pool, two players of one or two songs, one other call | closes wait for no queue, calls come back while a thread is free |
| `restarts` | two songs of length 2, cache bounds 1 or 2, three starts | files, entries and saved lists agree; the order of use after a start |
| `directory` | three songs on VK, four calls, numbers 1 to 3, one interval, four controls | the window, the counter, hidden files |
| `photos` | two handles, photo of three bytes, a read inside and one over the end, one kill, any number of restarts | the cached file is the photo, reads are exact |

Why the bounds are enough. Every buffer boundary is crossed: a last block
shorter than the others, a block that does not fit the memory but would fit
after the limit was reached, reads over the boundary of the storages, of tag and
stream, and of disk and network. Two readers are needed for one to close what
the other uses; three sessions for a resumed download to be interrupted and
resumed again. One byte of the stream behind two blocks in memory is the least a failed
temporary file can lose; in the sessions it loses up to two blocks, the last a short
one. Three handles of three songs with a cache of one file force
evictions, with vetoes, while files are in use. In the tree two threads can make
a deadlock and a third one walk into it; the path that exists has the control's
directory, a directory and a song, so that walks pass nodes they do not keep. Two
threads on a stream are the most `FileProcessor` lets use its own connection; two
size attempts make the retry and the last failure. Three pool threads leave one
for the event loop and two for openers, so that two new songs exhaust it and one
does not, as nine and eight do with ten. Two songs and a bound of one make every
start evict; three starts let what a killed session left be loaded, saved and
loaded again. Three songs and numbers up to three let a directory shrink, grow
and shrink over a photo or a counter. Two handles are enough for a photo to be
shared with a dead processor and opened again. Each
passing run has, for each of its properties, a mutant of a mapped definition
with which TLC finds that property violated under the same bounds: the
interesting cases do occur.

Bounds that are not in the code are the constants `MaxSessions`, `MaxCrashes`,
`MaxCalls`, `MaxDirCalls`, `MaxNodes`, `MaxStarts`, `MaxCopies` (files of one song), `Blocks`
(of a body), `Workers`, the one kill of `PhotoProcessor`, and the finite sets
`Handles` and `Clients`, each member of which makes one call or opens one file
at a time. Where these bounds end behaviours a step `Terminating` or `Stopped`
stutters, so that deadlock is checked everywhere else. Three configurations turn
the check off: in `pool` and `restarts` the program really stops (all threads of
the pool wait for appenders; a torn file ends every start) and in both, and in
`directory`, the calls or starts run out. In `DirectoryTree` it
also stutters in a deadlock with a rename, which the code has; that these are
the only ones is `CyclesNeedRename`, an invariant. `Hung` of `FileProcessor`
likewise is the one state in which the appender has stopped silently.

The violation run `manager_open_bug` checks one property that a test states and
that the code breaks: see section 6.

Fairness. A thread that can take a step inside a call does so in the end (weak
fairness per thread): the scheduler is fair and the pool runs posted jobs. A
network operation ends with an answer or an error: this is assumed of the
environment, not shown, because `Timer` only raises a flag that is looked at when
the operation ends. In `HttpStream`, which has the timers, it is only
assumed of peers that have not fallen silent, and the property says which calls
a silent one keeps: its own, and all of them while it keeps the event loop. In
`DownloadPool` a free thread takes the next job and a job whose next step is
enabled takes it; a network step needs the event loop to run. In
`SongDirectory` only the jobs of the pool are fair. No fairness is assumed of
new calls, of failures, of crashes, of exits or of spurious wakeups. Mutexes are not given out fairly by the code; with the
bounded calls of these runs no thread can be passed over for ever, so that weak
fairness of the steps is enough and claims nothing more.

## 5 Proofs

All of these hold for every value of the constants that satisfies the
assumptions named in the modules: sizes are natural numbers, blocks are not
empty, identifiers of "nothing" are not in the sets, the songs and files of a cache
are finite sets. Each follows one pattern:
an inductive invariant, one lemma per action, then PTL.

"theorems" in `PROJECT.json` lists 43 results. Every invariant and action property
of a passing run is stated by one of them, and so is the refinement of `StreamLog`.

- **BlockingBuffer**: `TypeCorrect`; `StreamPrefix`, from `LogInv`, which adds
  that nothing is in the file before the limit was reached, since only then is
  the file's content the continuation of the memory's; `DrainIsExact`, from
  `DrainInv`, which adds that the appender is done when draining begins, and what a
  failed file gives in place of its bytes;
  `ReadsAreExact` (`FreshReadExact`), from `ReadInv`: what a read has copied out
  of memory is the slice of the stream it asked for, because memory only grows at
  its end, and what it goes on to take from the file is where the block is empty;
  `BufferImplementsLog`, step by step, from `EofInv` (nothing is appended after the end):
  a read whose seek fails is the log's `Lose`, any other leaves the log alone.
- **FileProcessor**: `ProcessorTypeCorrect`, `PromisesOnce`, `OneReaderOfStream`,
  `DestroyedIsQuiet`. The invariant relates each promise to the places of opener
  and appender at which it is unset (`ControlInv`), the stream's position to the
  buffer's length (`StreamInv`), and the four sizes to each other (`SizeInv`):
  without the places nothing says that a promise is still unset when it is
  satisfied. On top of it `RecordsAreResumable`, `DownloadsInStep`,
  `FileIsSongPrefix` and `ReadsAreExact` follow from `DownloadInv`, which is
  inductive only as a whole. `OpenInv` says that until the opening's promise is
  satisfied some reader waits for it, so that nobody has closed anything;
  `ResumeInv` that the sizes recorded and saved are nothing or at least the whole
  tag (`Resumable`), and the file's too unless its tag is being written;
  `AppendInv` that the buffer holds the stream's own tag when the opener goes on
  to replace it; `StageInv` where the stream is, by what has reached buffer and
  file: in the drain, after it, and in later sessions; `ContentInv` that, short
  of a crash, the bytes on disk are the song's beginning, and that the size
  recorded is that of a file not in use; `ReadInv` what a reader has collected
  at each of its places. `SpillInv` says what of a buffer can be read back: all of it
  or, once `lost`, at least what is in memory (`Covers`). Files and reads are, byte by
  byte, the song's or the junk that stands for a lost byte behind those in memory
  (`StandsFor`), as in the runs, as long as there has been no crash; without a lost
  spill they are exact.
- **LruCache**: no state, hence lemmas only. The eviction loop of `put` is a recursive
  function; its invariant (`EvictInv`) says that no kept key goes and no value
  changes, whatever is vetoed. Without vetoes one turn is enough and takes the last
  node (`TurnSound`), so that list and map go on having the same keys, each once, and
  a value is found where it was put (`PutNew`).
- **CacheSaver**: `NoFileIsLost` (`FilesHaveEntries`), `CompleteFilesAreWhole`
  (`CompleteIsWhole`), `StartsTurnOrder`. What they say of a running program is decided
  in the start before: the invariant follows a file's entry through every phase. With the
  program down it is in the JSON file, and there it stays, for a kill, while a session has
  not opened the song to write (`DiskInv`); while the cache is cleared, in the part not gone
  through (`TodoInv`); while it is loaded, among the entries still to be put
  and those in the cache (`LoadInv`: after `d` puts the cache is the last entries
  read, in reverse, as many of the `d` as fit); in a session,
  in the cache, with the file's size unless the song is being downloaded, and then
  with less than the full one (`SessionInv`). `StartsTurnOrder` is `LoadInv` when
  nothing is left to put. `SoundInv` is what makes the puts find no key twice: short of a veto the
  entries saved are distinct.
- **SizeCache**: `SizesTypeCorrect`, `MarkersAreTended`, `OneQueryAtATime`. The
  two invariants are inductive together with the types; the lemmas say what a
  put with its eviction can do to other entries and to their number.
- **DirectoryTree**: `TreeTypeCorrect`, `LocksMatchPaths`, `DeadlocksNeedRename`,
  `FoundNodesWereThere`.
  The invariant says how many nodes a walk keeps at each point of its path
  (`WalkInv`), that items are newer than their directory (`TreeInv`), and that
  locks match paths. `DeadlocksNeedRename` is not inductive: it follows from the
  invariant in each state. A thread in its first walk waits for a child of a node
  it holds, which is newer than that node; around a circle nodes would get newer
  without end, but there is a newest one. `FoundNodesWereThere` needs `SeenInv`:
  what the path leads to now has been seen by the call (`GoalSeen`); a walk under
  way is where its path leads, or has been cut off, and then the path has led to
  nothing meanwhile (`OnWay`; one level above the goal of a path of two, the
  item to be found next has been seen); and a goal once reached is locked, and
  so stays (`Arrived`, `WasThere`).
  Nothing is said by induction over the path: a step changes the items of one
  directory, so that either the whole rest of a path is kept or it is cut
  (`CutOrKept`). The proof corrected the property. As first written it said that
  the node was where the path led, for every path; that is false from the third
  level on, where a directory left behind can be removed and its inside, made
  anew, still be walked into.
- **HttpStream**: `TypeCorrect`, `PromisesOutlive`, `ShutdownsAreAlone`,
  `SizeQueriesGiveUp`. An operation or a handler is there exactly while its
  caller waits with an unset promise, and the calls of a download take turns
  (as `FileProcessor` guarantees): otherwise two calls could use the stream's
  connection at once. `CancelInv` says that the handler of an operation given up is
  outstanding only while its caller shuts the connection down, so that no operation of
  a later stage or call meets it.
- **DownloadPool**: `TypeCorrect`, `CloseWaitsForNoJob`. A close that destroys a
  processor found `_opened` set or its handle was the last one; the invariant
  adds that an opener that has been posted and not taken has a reader waiting
  for it, which keeps its handle, so that no close can be the last one.
- **FileManager**: `TypeCorrect`, `HandlesResolve`, `UsesAreCounted`. The
  invariant `IInv` is of the tables only: `usages` of a processor not closed is the
  number of ids with that object, objects in an entry are of its song, an entry
  that is gone has no ids. It does not depend on the cache: which sizes it has,
  and what it evicts, is left arbitrary.
  `NoTwoWriters`, `FilesInUseAreKept` and `CacheIsSound` follow from `DataInv`,
  proved over `IInv`. Its parts: `UseInv`, that an entry's processor is the open
  one of its song, and that a job has a read that waits for it, so that nothing
  closes its processor; `CacheBase`, on list and map of the cache, which are
  `Sound` until an eviction is vetoed and afterwards still `Linked` (a key that
  can be looked up has a value); `CacheInv`, that the songs of open processors,
  of readers and of opens under way are recorded and opened. `CacheInv` is not
  inductive by itself: if a song could have a processor and a reader, the
  processor's end would give up the file under the reader. That it cannot is read
  off the recorded size, which is the full one for a reader (`Whole`) and less
  for a processor (`Partial`), and so the proof has to follow the values of keys
  through put, its eviction loop and get, with the lemmas of `LruCache_proofs`.
- **PhotoProcessor**: `TypeCorrect`, `CachedFileIsPhoto`, `ReadsAreExact`. The
  invariant adds that a reader is inside the processor exactly while it has the
  mutex, that a file that can be written has a handle, that a processor not yet
  opened starts from the size recorded, and that stream and file are in step
  while a usable file is downloaded. `ReadsAreExact` is an action property: when
  a read returns, the file is whole, and its bytes are those of the photo.
- **SongDirectory**: `WindowIsShown` (`WindowShown`), `CountersAreTrue`
  (`CounterIsTrue`), `HiddenFilesHaveJobs`, `SongsTypeCorrect`. `WindowShown` says that
  the files are in the order of VK's list; the proof needs a form that commands can be
  followed through, `Shows`: the files are one of each song of the window, and their
  times grow with the place in it. A smaller number keeps the oldest files, and so the
  window's beginning, as long as all items that count are songs (else it is `spoiled`).
  A larger one adds songs behind it, later than all there as long as no time exceeds
  the number of items. Both rest on VK listing a song once (`ServerInv`), so that no song
  added is there already. That other commands leave no trace in "My audios" and in
  playlists (`CounterIsTrue`) is inductive by itself, failures included.
  `HiddenFilesHaveJobs` is the safety half of `HiddenAppear`: no file is hidden without a
  job that has yet to make it. Its core is `InOrderIs`: every new file has its place in
  the job posted for it, because the new files have different times; the order the job
  takes is counted off, each file by the number of those older than it (`OlderIs`).

The type invariants of all modules but `CacheSaver`, `StreamLog` and `LruCache`, which
state none (`TypeInv` of `Caches_proofs` has that of the first), are theorems, so that
the runs do not check them again.

Only model-checked: what holds under fairness, since liveness and ENABLED are out of the
prover's reach. These are `ReadReturnsUnlessEofLost`, `ReadEndsUnlessNotifyLost`,
`DestructorEnds`, `CallEndsUnlessStranded`, `CallEndsUnlessSilent`,
`CallsEndUnlessDeadlocked`, `CallEndsUnlessExhausted` and `HiddenAppear`. That a job in
`HiddenFilesHaveJobs` comes to its turn is what is left to TLC of `HiddenAppear`.

## 6 What the code does otherwise than it says

One has a run whose counterexample shows it:

- `manager_open_bug`: an open that fails after its entry was made dereferences
  the end of a table (`FileManager.h:145`).

Seen in the models; a passing run carries the weakened form, where there is one:

- The second pass of a buffered read computes its offset in the temporary file
  from the size of the whole block, so that bytes are skipped or repeated
  (`BlockingBuffer.h:91`; `FreshReadExact` speaks of first passes).
- A read whose file another reader's failure closes between the look at the size
  and the look at the file returns the second half in place of the first
  (`FileProcessor.h:153`, `ReadExactWhileOpen`).
- The appender stops without notifying when parsing ends between its two looks at
  the flag; all readers wait for ever (`FileProcessor.h:59`, `NotifyLost`).
- The next open is given a processor an error has closed (`FileManager.h:56`):
  a photo whose download has failed stays dead, and returns no bytes, until all
  its handles are released.
- The test of the marker and the wait use different mutexes; the notification
  falls between them (`CommonCache.h:104`, "stranded" in `SizeCache`).
- After a crash a download resumes at the saved size and appends behind a longer
  file, so that bytes are in the song twice (`FileProcessor.h:74`); a killed
  program does the same to photos (`PhotoProcessor.h:20`). Hence `crashes = 0`
  in `DiskIsVirtualPrefix` and `~ killed` in `FileIsPhoto`.
- A read over the end of a photo sets the failbit of the shared fstream; later
  reads return zeros (`File.cpp:16`, `failed` in `ReadIsExact`).
- Timers only raise flags, so that a silent peer is waited for without limit; in
  a handshake or a shutdown it keeps the event loop and with it all requests
  (`HttpStreamCommon.cpp:43`). A partial read that fails shuts the download's
  connection down while it is used (`HttpStream.cpp:155`, `torn`). A request given up on
  its timeout shuts its connection down in the caller's thread while the cancelled
  operation's handler runs, on the same SSL stream, in the loop
  (`HttpStreamCommon.cpp:120`, 158, 170, 256, 270, 316, 344; `cancelled` in `ShutdownsAlone`).
- Nine new songs opened at once take all threads of the pool and wait for
  appenders that have none (`ThreadPool.cpp:5`).
- A JSON file torn by a kill ends every later start with a parse error
  (`CacheSaver.cpp:74`, phase "broken"). A session killed while it writes a song leaves
  its file longer, or shorter, than the saved entry says, or without one
  (`CommonCache.h:78`, `stale` of `CacheSaver`). A marker saved as a size is waited for
  for ever by the next program (`CacheSaver.h:66`, "stale"). A start turns the
  order of use round (`CacheSaver.h:52`, `StartTurnsOrder`). Files whose entries
  were not saved are never removed (`CacheSaver.h:86`).
- A search whose query fails is a directory that counts as filled: `README.md:74`
  says of a number that "the parent directory will contain the specified number
  of Mp3 files", but a smaller one asks VK for nothing and shows none
  (`SearchSongNameCtrl.h:57`, `NumberAct.h:37`). `limitItems` counts a photo,
  nested searches and an old counter as songs (`FsUtils.h:41`), times of new songs
  may equal those of older ones (`FsUtils.cpp:139`), and deleting a song of
  "My audios" does not lower its count (`MyAudiosCtrl.h:91`): the causes of
  `spoiled`.
- An exception in a job of the pool, as from a size query, ends the program
  (`AsyncFsManager.h:46`).
- A negative offset makes the temporary file unusable for good: its reads and writes
  count bytes and move none (`BlockingBuffer.h:90`, `File.h:13`), so that the drain
  writes uncopied bytes into the cached song (`FileProcessor.h:101`), with no crash and
  no error, and later sessions play them (`Junk` in `DrainExact`, `lost` in
  `DiskIsVirtualPrefix` and `ReadExactWhileOpen`). The end's
  notification may be lost (`BlockingBuffer.cpp:24`, `EofLost`).
- `getFilename` marks a song as opened and nothing unmarks one that was complete
  or never read, so that the cache outgrows `--files_cache_size`
  (`CommonCache.h:76`).
- Two reads that fail with the same wrong size both remove it, the second time
  through an iterator to nothing (`lrucache.hpp:77`, `fault` of `SizeCache`).
- A rename deadlocks with a lookup or another rename (`DummyDirWrapper.h:48`).
- `renameFile` renames in the old directory, whatever directory the new path is
  in, and loses the song if the name is taken there (`Dir.cpp:82`).
- `getFileSize`, `deleteDir` and `deleteFile` use the last element of a path that
  may be empty (`RemoteFileWrapper.h:83`, `Die` of `DirectoryTree`).
- Songs without an address are left out of a query's answer after the window was
  computed, so that the next window overlaps (`FileObtainer.h:125`); playlists are
  refilled only if offset and count differ (`PlaylistCtrl.h:210`), and removing a
  counter in "My playlists" dereferences an empty optional
  (`PlaylistCtrl.h:154`). Read in the code, outside the models.
- `FakeFs::read` ignores its offset (`FakeFs.h:26`). `FakeFs::close` and `isMetaId` use the table of meta files without its mutex.

## 7 What is left out

Abstractions in what is modelled. `FileManager` leaves out that a remote file
changes its size, and the join of a download under its mutex, which
`DownloadPool` has and `FileProcessor` shows to end (`DestructorEnds`).
`SizeCache` takes a query with its retries as one step, which `HttpStream`
takes apart. `FileProcessor` takes `close` of a stream as one step,
and the tag's length as known. Which reads the parser makes, and so which of them make
two passes, is left open: the spill may be lost whenever memory holds two blocks and more
has been appended, of which the code's 128K and 64K are the case; that the parser itself
reads such bytes is taken to leave its tag's length alone. `HttpStream` leaves out what the handler of an operation that was
given up does to the locals of its call, or once the call has returned (undefined
behaviour), and the contents of answers. `DownloadPool` leaves out photos and evictions.
`CacheSaver` has one handle per song, and only the state of the sizes' file.
`PhotoProcessor` leaves out evictions, photos that VK replaces under the same
id, and queries of the size. `SongDirectory` takes a call, its query included, as
one step under the directory's lock; equal names of different songs, zeros before
a number, songs without an address, the option that makes files synchronously, and
the dummy directories of `--create_dummy_dirs` (`DummyDirWrapper.h:32`), which `getNumFiles`
and `limitItems` would count (`FsUtils.h:41`), are left out. `DirectoryTree` leaves open which items a counter
or refresh directory removes and whether a call is refused, lets a search find at
most one song, and leaves out times, names and hidden songs; deleting or renaming
a control's own directory is not among its calls. After undefined behaviour
other than the above a program is taken to have ended.

Not modelled: building requests and decoding answers in `VkApiQueryMaker`,
`TokenReceiver` and the protobuf helper (formats, no state); `ProgramOptions`,
`OverridableSetting` and `ErrLogger` (read once, or write-only); `diext` (wiring);
the FUSE callbacks beyond those named in `DownloadPool`, each of which is one call
of what is modelled; taglib, nlohmann json, boost and nowide, which are vendored
third-party code and the larger part of the repository's lines. "My playlists"
and `AddToMyAudios` are left (section 2).

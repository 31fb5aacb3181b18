----------------------------- MODULE DownloadPool -----------------------------
(***************************************************************************)
(* The composition: calls of FUSE, the locks they take, and the jobs of    *)
(* the pool they wait for.  The pool has a fixed number of threads; one    *)
(* runs the event loop every network operation needs.  The opener of a     *)
(* song that is new on disk posts an appender and waits for it, keeping    *)
(* its own thread.                                                         *)
(*                                                                         *)
(* A client is a thread of FUSE with one call, or with one handle: it      *)
(* opens a song, reads any number of times and releases.  A processor is   *)
(* named by the client whose open made it.                                 *)
(***************************************************************************)
EXTENDS Naturals, Sequences, FiniteSets

Kinds == {"play", "look", "mkdir", "meta"}

CONSTANTS
  Clients, Songs,
  Calls,      \* [Clients -> SUBSET (Kinds \X Songs)], the calls considered
  Workers,    \* the threads of the pool, ten in the code
  None

ASSUME PoolAssumption == /\ Calls \in [Clients -> SUBSET (Kinds \X Songs)]
                         /\ Workers \in Nat \ {0}
                         /\ None \notin Clients \cup Songs

VARIABLES
  queue, running,          \* the jobs of the pool
  opener, fed,             \* of a processor: its opener; its appender has ended
  failed,                  \* of a processor: _error
  current,                 \* of a song: the processor of its entry
  handle,                  \* of a client: the processor it reads from, or did last
  kind, song, pc,          \* of a client: its call
  dir, locked, mutex, meta \* owners of the locks: the songs' directory, each
                           \* song, _readersMutex, _metaMutex

pool  == <<queue, running>>
procs == <<opener, fed, failed>>
locks == <<dir, locked, mutex, meta>>
vars  == <<pool, procs, current, handle, kind, song, pc, locks>>

Loop        == <<"loop", None>>
Opener(p)   == <<"opener", p>>
Appender(p) == <<"appender", p>>
Create(t)   == <<"create", t>>
Jobs        == {Loop} \cup {Opener(p) : p \in Clients} \cup {Appender(p) : p \in Clients}
                 \cup {Create(t) : t \in Clients}

Init ==
  /\ queue = <<Loop>> /\ running = {}
  /\ opener = [p \in Clients |-> "none"] /\ fed = [p \in Clients |-> FALSE]
  /\ failed = [p \in Clients |-> FALSE]
  /\ current = [s \in Songs |-> None] /\ handle = [t \in Clients |-> None]
  /\ \E calls \in [Clients -> Kinds \X Songs] :
       /\ \A t \in Clients : calls[t] \in Calls[t]
       /\ kind = [t \in Clients |-> calls[t][1]] /\ song = [t \in Clients |-> calls[t][2]]
  /\ pc = [t \in Clients |-> IF kind[t] = "meta" THEN "meta" ELSE "dir"]
  /\ dir = None /\ locked = [s \in Songs |-> None] /\ mutex = None /\ meta = None
-----------------------------------------------------------------------------
(* The pool.  A network operation needs the event loop.                    *)
Online == Loop \in running

Post(j) == queue' = Append(queue, j)

Take ==
  /\ queue # <<>> /\ Cardinality(running) < Workers
  /\ running' = running \cup {Head(queue)} /\ queue' = Tail(queue)
  /\ opener' = [p \in Clients |-> IF Head(queue) = Opener(p) THEN "opening" ELSE opener[p]]
  /\ UNCHANGED <<fed, failed, current, handle, kind, song, pc, locks>>

OpenerGoes(p, from, to) ==
  /\ opener[p] = from /\ opener' = [opener EXCEPT ![p] = to]
  /\ running' = IF to = "ended" THEN running \ {Opener(p)} ELSE running
  /\ UNCHANGED <<current, handle, kind, song, pc, locks>>

StreamOpens(p) ==
  /\ Online
  /\ \/ OpenerGoes(p, "opening", "parsing") /\ Post(Appender(p)) /\ UNCHANGED failed
     \/ OpenerGoes(p, "opening", "downloading") /\ UNCHANGED <<queue, failed>>
     \/ OpenerGoes(p, "opening", "ended") /\ failed' = [failed EXCEPT ![p] = TRUE]
          /\ UNCHANGED queue
  /\ UNCHANGED fed

Append_(p) ==
  /\ Online /\ Appender(p) \in running
  /\ running' = running \ {Appender(p)} /\ fed' = [fed EXCEPT ![p] = TRUE]
  /\ UNCHANGED <<queue, opener, failed, current, handle, kind, song, pc, locks>>

Parsed(p) ==
  /\ fed[p]
  /\ \/ OpenerGoes(p, "parsing", "downloading") /\ UNCHANGED failed
     \/ OpenerGoes(p, "parsing", "ended") /\ failed' = [failed EXCEPT ![p] = TRUE]
  /\ UNCHANGED <<queue, fed>>

Downloaded(p) ==
  /\ Online /\ OpenerGoes(p, "downloading", "ended")
  /\ \/ UNCHANGED failed
     \/ failed' = [failed EXCEPT ![p] = TRUE]
  /\ UNCHANGED <<queue, fed>>

(* createFiles: the size of a song, then a mknod on the own file system,   *)
(* which FUSE hands to createFile.                                         *)
CreateSong(t) ==
  /\ Online /\ Create(t) \in running /\ dir = None
  /\ running' = running \ {Create(t)}
  /\ UNCHANGED <<queue, procs, current, handle, kind, song, pc, locks>>

Job(p) == StreamOpens(p) \/ Append_(p) \/ Parsed(p) \/ Downloaded(p) \/ CreateSong(p)
-----------------------------------------------------------------------------
(* Calls of FUSE.  A walk locks the directory, and a song while it holds   *)
(* the directory; the lookup of meta.json holds _metaMutex around it.      *)
Goes(t, from, to) == pc[t] = from /\ pc' = [pc EXCEPT ![t] = to]
Apart             == UNCHANGED <<kind, song>>

LockMeta(t) ==
  /\ Goes(t, "meta", "dir") /\ meta = None /\ meta' = t
  /\ Apart /\ UNCHANGED <<pool, procs, current, handle, dir, locked, mutex>>

LockDir(t) ==
  /\ Goes(t, "dir", IF kind[t] \in {"play", "look"} THEN "song" ELSE "in_dir")
  /\ dir = None /\ dir' = t
  /\ Apart /\ UNCHANGED <<pool, procs, current, handle, locked, mutex, meta>>

ReadMeta(t) ==
  /\ kind[t] = "meta" /\ Goes(t, "in_dir", "done")
  /\ dir' = None /\ meta' = None
  /\ Apart /\ UNCHANGED <<pool, procs, current, handle, locked, mutex>>

MakeDir(t) ==
  /\ kind[t] = "mkdir" /\ Goes(t, "in_dir", "done")
  /\ Online /\ dir' = None
  /\ UNCHANGED queue \/ Post(Create(t))
  /\ Apart /\ UNCHANGED <<running, procs, current, handle, locked, mutex, meta>>

LockSong(t) ==
  /\ Goes(t, "song", IF kind[t] = "play" THEN "mutex" ELSE "size")
  /\ locked[song[t]] = None /\ locked' = [locked EXCEPT ![song[t]] = t]
  /\ dir' = None
  /\ Apart /\ UNCHANGED <<pool, procs, current, handle, mutex, meta>>

LookedUp(t) ==
  /\ Goes(t, "size", "done") /\ Online
  /\ locked' = [locked EXCEPT ![song[t]] = None]
  /\ Apart /\ UNCHANGED <<pool, procs, current, handle, dir, mutex, meta>>

LockManager(t) ==
  /\ Goes(t, "mutex", "opening") /\ mutex = None /\ mutex' = t
  /\ Apart /\ UNCHANGED <<pool, procs, current, handle, dir, locked, meta>>

(* The size of the song may have to be asked for; that may fail.           *)
OpenFile(t) ==
  /\ Online
  /\ \/ /\ Goes(t, "opening", "open")
        /\ LET p == IF current[song[t]] = None THEN t ELSE current[song[t]]
           IN  /\ current' = [current EXCEPT ![song[t]] = p]
               /\ handle' = [handle EXCEPT ![t] = p]
     \/ Goes(t, "opening", "done") /\ current[song[t]] = None /\ UNCHANGED <<current, handle>>
  /\ mutex' = None /\ locked' = [locked EXCEPT ![song[t]] = None]
  /\ Apart /\ UNCHANGED <<pool, procs, dir, meta>>
-----------------------------------------------------------------------------
(* Reads; the first one of a processor posts its opener.  Each passes by   *)
(* _metaMutex and _readersMutex, which it holds for no wait.               *)
BeginRead(t) ==
  /\ Goes(t, "open", "reading") /\ meta = None /\ mutex = None
  /\ IF opener[handle[t]] = "none"
     THEN Post(Opener(handle[t])) /\ opener' = [opener EXCEPT ![handle[t]] = "queued"]
     ELSE UNCHANGED <<queue, opener>>
  /\ Apart /\ UNCHANGED <<running, fed, failed, current, handle, locks>>

Opened(p) == opener[p] \in {"downloading", "ended"}

\* Mutant: a read does not wait for the opening.
ReadFailsEarly(t) ==
  /\ Goes(t, "reading", "failing")
  /\ Apart /\ UNCHANGED <<pool, procs, current, handle, locks>>

ReadReturns(t) ==
  /\ Goes(t, "reading", "open") /\ Online /\ Opened(handle[t]) /\ ~ failed[handle[t]]
  /\ Apart /\ UNCHANGED <<pool, procs, current, handle, locks>>

ReadFails(t) ==
  /\ Goes(t, "reading", "failing") /\ Online /\ Opened(handle[t])
  /\ Apart /\ UNCHANGED <<pool, procs, current, handle, locks>>

(* closeNoLock erases the entry of a song with its last handle.  Then the  *)
(* destructor of its processor runs, unless a failing read that has given  *)
(* its handle back already still refers to it.                             *)
HasHandle(u) == pc[u] \in {"open", "reading", "failing", "closing"}
Others(t)    == {u \in Clients \ {t} : handle[u] = handle[t]}

CloseNoLock(t) ==
  /\ mutex = None
  /\ current' = [current EXCEPT ![song[t]] =
                   IF \E u \in Others(t) : HasHandle(u) THEN @ ELSE None]
  /\ Apart /\ UNCHANGED <<pool, procs, handle, dir, locked, meta>>

Destroys(t) == /\ current[song[t]] # handle[t]
               /\ \A u \in Others(t) : pc[u] # "dropping"

\* Mutant: the destructor waits for the opening although none was posted.
QuietAlwaysJoins(p) == opener[p] = "ended"

Quiet(p) == opener[p] \in {"none", "ended"}

BeginRelease(t) ==
  /\ Goes(t, "open", "closing")
  /\ Apart /\ UNCHANGED <<pool, procs, current, handle, locks>>

(* A release runs the destructor under _readersMutex, which joins the      *)
(* opener; ...                                                             *)
Release(t) ==
  /\ CloseNoLock(t) /\ Goes(t, "closing", "joining") /\ mutex' = t

Released(t) ==
  /\ Goes(t, "joining", "done") /\ mutex' = None
  /\ Destroys(t) => Quiet(handle[t])
  /\ Apart /\ UNCHANGED <<pool, procs, current, handle, dir, locked, meta>>

(* ... a failing read after it has left it.                                *)
CloseFailed(t) ==
  /\ CloseNoLock(t) /\ Goes(t, "failing", "dropping") /\ UNCHANGED mutex

Dropped(t) ==
  /\ Goes(t, "dropping", "done")
  /\ Destroys(t) => Quiet(handle[t])
  /\ Apart /\ UNCHANGED <<pool, procs, current, handle, locks>>

Call(t) == \/ LockMeta(t) \/ LockDir(t) \/ ReadMeta(t) \/ MakeDir(t) \/ LockSong(t)
           \/ LookedUp(t) \/ LockManager(t) \/ OpenFile(t) \/ ReadReturns(t) \/ ReadFails(t)
           \/ Release(t) \/ Released(t) \/ CloseFailed(t) \/ Dropped(t)
-----------------------------------------------------------------------------
(* Every thread of the pool but the loop's runs an opener that waits for   *)
(* an appender no thread has taken.                                        *)
Starved(p) == opener[p] = "parsing" /\ ~ fed[p] /\ Appender(p) \notin running

Exhausted == /\ Cardinality(running) = Workers
             /\ running \subseteq {Loop} \cup {Opener(p) : p \in {q \in Clients : Starved(q)}}

Next == \/ Take
        \/ \E p \in Clients : Job(p)
        \/ \E t \in Clients : BeginRead(t) \/ BeginRelease(t) \/ Call(t)

Spec == Init /\ [][Next]_vars

(* Threads go on with what they have begun; a network operation ends.      *)
FairSpec == /\ Spec /\ WF_vars(Take)
            /\ \A t \in Clients : WF_vars(Job(t)) /\ WF_vars(Call(t))
-----------------------------------------------------------------------------
(* The destructor of a processor joins an opener, under the mutex of all   *)
(* opens and closes, only when that opener has a thread and is past the    *)
(* wait for its appender: a close never waits for the pool.                *)
JoinsRunningOpener ==
  \A t \in Clients :
    pc[t] \in {"joining", "dropping"} /\ Destroys(t) =>
      LET p == handle[t]
      IN  \/ Quiet(p)
          \/ opener[p] = "downloading" /\ Opener(p) \in running

(* Every call comes back, locks and waits for jobs included, unless every  *)
(* thread of the pool has been given to an opener that waits for its       *)
(* appender.                                                               *)
CallEndsUnlessExhausted ==
  \A t \in Clients : pc[t] \notin {"open", "done"}
                       ~> pc[t] \in {"open", "done"} \/ Exhausted

TypeOK ==
  /\ queue \in Seq(Jobs) /\ running \subseteq Jobs
  /\ opener \in [Clients -> {"none", "queued", "opening", "parsing", "downloading", "ended"}]
  /\ fed \in [Clients -> BOOLEAN] /\ failed \in [Clients -> BOOLEAN]
  /\ current \in [Songs -> Clients \cup {None}] /\ handle \in [Clients -> Clients \cup {None}]
  /\ kind \in [Clients -> Kinds] /\ song \in [Clients -> Songs]
  /\ pc \in [Clients -> {"meta", "dir", "in_dir", "song", "size", "mutex", "opening", "open",
                         "reading", "failing", "closing", "joining", "dropping", "done"}]
  /\ dir \in Clients \cup {None} /\ locked \in [Songs -> Clients \cup {None}]
  /\ mutex \in Clients \cup {None} /\ meta \in Clients \cup {None}
=============================================================================

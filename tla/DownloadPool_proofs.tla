------------------------- MODULE DownloadPool_proofs -------------------------
(***************************************************************************)
(* A close waits for no job that the pool has not given a thread to.  The  *)
(* argument: an opener that is posted, opening or waiting for its appender *)
(* has a read waiting for it; a read has a handle; the entry of a song is  *)
(* erased with its last handle, and a destructor runs only after that.     *)
(***************************************************************************)
EXTENDS DownloadPool, TLAPS

(* The queue holds an opener once, until it has a thread.                  *)
QueueInv ==
  \A p \in Clients, i \in 1..Len(queue) : queue[i] = Opener(p) =>
    /\ opener[p] = "queued"
    /\ \A j \in 1..Len(queue) : queue[j] = Opener(p) => j = i

OpenerInv ==
  \A p \in Clients : opener[p] \in {"opening", "parsing", "downloading"} => Opener(p) \in running

ReadInv ==
  \A p \in Clients : opener[p] \in {"queued", "opening", "parsing"} =>
    \E u \in Clients : pc[u] = "reading" /\ handle[u] = p

HandleInv ==
  /\ \A u \in Clients : HasHandle(u) => handle[u] # None /\ current[song[u]] = handle[u]
  /\ \A u \in Clients : pc[u] \in {"joining", "dropping"} => handle[u] # None
  /\ \A u \in Clients : handle[u] # None => song[handle[u]] = song[u]
  /\ \A s \in Songs : current[s] # None => song[current[s]] = s

IInv == TypeOK /\ QueueInv /\ OpenerInv /\ ReadInv /\ HandleInv

LEMMA JobsApart ==
  ASSUME NEW p \in Clients, NEW q \in Clients
  PROVE  /\ Opener(p) = Opener(q) => p = q
         /\ Opener(p) # Appender(q) /\ Opener(p) # Create(q) /\ Opener(p) # Loop
         /\ Opener(p) \in Jobs /\ Appender(p) \in Jobs /\ Create(p) \in Jobs
BY DEF Opener, Appender, Create, Loop, Jobs
-----------------------------------------------------------------------------
(* Posting a job, and taking the oldest one.                               *)
LEMMA PostType ==
  ASSUME queue \in Seq(Jobs), NEW j \in Jobs, Post(j)
  PROVE  queue' \in Seq(Jobs)
BY DEF Post

LEMMA PostOther ==
  ASSUME queue \in Seq(Jobs), NEW j \in Jobs, Post(j), QueueInv, opener' = opener,
         \A p \in Clients : j # Opener(p)
  PROVE  QueueInv'
<1>1. Len(queue') = Len(queue) + 1 /\ queue'[Len(queue) + 1] = j /\ Len(queue) \in Nat
      /\ \A i \in 1..Len(queue) : queue'[i] = queue[i]
  BY DEF Post
<1> SUFFICES ASSUME NEW p \in Clients, NEW i \in 1..Len(queue'), queue'[i] = Opener(p)
             PROVE  /\ opener[p] = "queued"
                    /\ \A k \in 1..Len(queue') : queue'[k] = Opener(p) => k = i
  BY DEF QueueInv
<1>2. \A k \in 1..Len(queue') : queue'[k] = Opener(p) => k \in 1..Len(queue)
  BY <1>1
<1>3. opener[p] = "queued" /\ \A k \in 1..Len(queue) : queue[k] = Opener(p) => k = i
  BY <1>1, <1>2 DEF QueueInv
<1> QED
  BY <1>1, <1>2, <1>3

LEMMA PostOpener ==
  ASSUME queue \in Seq(Jobs), NEW q \in Clients, Post(Opener(q)), QueueInv,
         opener[q] = "none", opener' = [opener EXCEPT ![q] = "queued"],
         opener \in [Clients -> {"none", "queued", "opening", "parsing", "downloading", "ended"}]
  PROVE  QueueInv'
<1>1. Len(queue') = Len(queue) + 1 /\ queue'[Len(queue) + 1] = Opener(q)
      /\ \A i \in 1..Len(queue) : queue'[i] = queue[i] /\ queue[i] # Opener(q)
  BY JobsApart DEF Post, QueueInv
<1> SUFFICES ASSUME NEW p \in Clients, NEW i \in 1..Len(queue'), queue'[i] = Opener(p)
             PROVE  /\ opener'[p] = "queued"
                    /\ \A j \in 1..Len(queue') : queue'[j] = Opener(p) => j = i
  BY DEF QueueInv
<1>n. Len(queue) \in Nat
  OBVIOUS
<1>2. CASE p = q
  BY <1>1, <1>2, <1>n
<1>3. CASE p # q
  <2>1. i \in 1..Len(queue) /\ queue[i] = Opener(p)
    BY <1>1, <1>3, <1>n, JobsApart
  <2>2. opener[p] = "queued" /\ \A j \in 1..Len(queue) : queue[j] = Opener(p) => j = i
    BY <2>1 DEF QueueInv
  <2>3. \A j \in 1..Len(queue') : queue'[j] = Opener(p) => j \in 1..Len(queue)
    BY <1>1, <1>3, <1>n, JobsApart
  <2> QED
    BY <1>1, <1>3, <2>2, <2>3
<1> QED
  BY <1>2, <1>3

LEMMA TakeQueue ==
  ASSUME TypeOK, QueueInv, Take
  PROVE  QueueInv' /\ queue' \in Seq(Jobs) /\ running' \subseteq Jobs /\ Head(queue) \in Jobs
<1>1. queue \in Seq(Jobs) /\ queue # <<>> /\ queue' = Tail(queue) /\ running \subseteq Jobs
      /\ running' = running \cup {Head(queue)}
  BY DEF Take, TypeOK
<1>2. Len(queue) \in Nat \ {0} /\ Head(queue) = queue[1] /\ Head(queue) \in Jobs
      /\ queue' \in Seq(Jobs) /\ Len(queue') = Len(queue) - 1
      /\ \A i \in 1..Len(queue') : queue'[i] = queue[i + 1]
  BY <1>1
<1>3. opener' = [p \in Clients |-> IF Head(queue) = Opener(p) THEN "opening" ELSE opener[p]]
  BY DEF Take
<1>4. QueueInv'
  <2> SUFFICES ASSUME NEW p \in Clients, NEW i \in 1..Len(queue'), queue'[i] = Opener(p)
               PROVE  /\ opener'[p] = "queued"
                      /\ \A j \in 1..Len(queue') : queue'[j] = Opener(p) => j = i
    BY DEF QueueInv
  <2>1. i + 1 \in 1..Len(queue) /\ queue[i + 1] = Opener(p) /\ 1 \in 1..Len(queue) /\ i + 1 # 1
    BY <1>2
  <2>2. opener[p] = "queued" /\ \A j \in 1..Len(queue) : queue[j] = Opener(p) => j = i + 1
    BY <2>1 DEF QueueInv
  <2>3. Head(queue) # Opener(p)
    BY <1>2, <2>1, <2>2
  <2>4. \A j \in 1..Len(queue') : j + 1 \in 1..Len(queue) /\ queue'[j] = queue[j + 1]
    BY <1>2
  <2> QED
    BY <1>2, <1>3, <2>2, <2>3, <2>4
<1> QED
  BY <1>1, <1>2, <1>4
-----------------------------------------------------------------------------
LEMMA InitInv == Init => IInv
<1> SUFFICES ASSUME Init PROVE IInv
  OBVIOUS
<1>1. TypeOK
  <2>1. PICK calls \in [Clients -> Kinds \X Songs] :
          kind = [t \in Clients |-> calls[t][1]] /\ song = [t \in Clients |-> calls[t][2]]
    BY DEF Init
  <2>2. kind \in [Clients -> Kinds] /\ song \in [Clients -> Songs]
    BY <2>1
  <2>3. queue \in Seq(Jobs) /\ running \subseteq Jobs
    BY DEF Init, Jobs
  <2> QED
    BY <2>2, <2>3, PoolAssumption DEF Init, TypeOK
<1>2. QueueInv
  <2>1. queue = <<Loop>> /\ Len(queue) = 1 /\ queue[1] = Loop
    BY DEF Init
  <2> QED
    BY <2>1, JobsApart DEF QueueInv
<1>3. OpenerInv /\ ReadInv
  BY DEF Init, OpenerInv, ReadInv
<1>4. HandleInv
  BY DEF Init, HandleInv, HasHandle
<1> QED
  BY <1>1, <1>2, <1>3, <1>4 DEF IInv

(* A step that leaves the queue alone and makes no posted opener another.  *)
LEMMA QueueSame ==
  ASSUME QueueInv, queue' = queue,
         \A p \in Clients : opener[p] = "queued" => opener'[p] = "queued"
  PROVE  QueueInv'
BY DEF QueueInv, Opener

(* A step in which no client leaves a read whose opener is not done.       *)
LEMMA ReadsGoOn ==
  ASSUME ReadInv,
         \A p \in Clients : opener'[p] \in {"queued", "opening", "parsing"} =>
           opener[p] \in {"queued", "opening", "parsing"},
         \A u \in Clients : pc[u] = "reading" =>
           pc'[u] = "reading" /\ handle'[u] = handle[u]
  PROVE  ReadInv'
BY DEF ReadInv

(* The jobs of the pool and the clients: each step of a job leaves the     *)
(* clients alone.                                                          *)
LEMMA HandleSame ==
  ASSUME HandleInv, UNCHANGED <<current, handle, song, pc>>
  PROVE  HandleInv'
BY DEF HandleInv, HasHandle

LEMMA TakeInv ==
  ASSUME IInv, Take
  PROVE  IInv'
<1>1. TypeOK'
  BY TakeQueue DEF Take, IInv, TypeOK, locks
<1>2. QueueInv'
  BY TakeQueue DEF IInv
<1>3. \A p \in Clients : Head(queue) = Opener(p) => opener[p] = "queued"
  <2>1. queue \in Seq(Jobs) /\ queue # <<>>
    BY DEF IInv, TypeOK, Take
  <2>2. 1 \in 1..Len(queue) /\ Head(queue) = queue[1]
    BY <2>1
  <2> QED
    BY <2>2 DEF IInv, QueueInv
<1>4. OpenerInv'
  BY DEF IInv, OpenerInv, Take, TypeOK
<1>5. ReadInv'
  BY <1>3, ReadsGoOn DEF IInv, Take, TypeOK
<1>6. HandleInv'
  BY HandleSame DEF IInv, Take
<1> QED
  BY <1>1, <1>2, <1>4, <1>5, <1>6 DEF IInv

(* An opener goes on: from a thread of its own, which it gives back.       *)
LEMMA OpenerGoesInv ==
  ASSUME IInv, NEW p \in Clients, NEW from, NEW to, OpenerGoes(p, from, to),
         from \in {"opening", "parsing", "downloading"},
         to \in {"parsing", "downloading", "ended"}, from = "downloading" => to = "ended"
  PROVE  OpenerInv' /\ ReadInv' /\ HandleInv'
         /\ opener' \in [Clients -> {"none", "queued", "opening", "parsing", "downloading", "ended"}]
         /\ running' \subseteq Jobs
         /\ \A q \in Clients : opener[q] = "queued" => opener'[q] = "queued"
<1>1. opener' = [opener EXCEPT ![p] = to] /\ opener[p] = from
      /\ UNCHANGED <<current, handle, song, pc>>
      /\ running' = IF to = "ended" THEN running \ {Opener(p)} ELSE running
  BY DEF OpenerGoes
<1>2. OpenerInv'
  BY <1>1, JobsApart DEF IInv, TypeOK, OpenerInv
<1>3. ReadInv'
  BY <1>1, ReadsGoOn DEF IInv, TypeOK
<1>4. HandleInv'
  BY <1>1, HandleSame DEF IInv
<1> QED
  BY <1>1, <1>2, <1>3, <1>4 DEF IInv, TypeOK

LEMMA JobInv ==
  ASSUME IInv, NEW p \in Clients, Job(p)
  PROVE  IInv'
<1>1. CASE StreamOpens(p)
  <2>1. PICK to \in {"parsing", "downloading", "ended"} : OpenerGoes(p, "opening", to)
    BY <1>1 DEF StreamOpens
  <2>2. /\ OpenerInv' /\ ReadInv' /\ HandleInv' /\ running' \subseteq Jobs
        /\ opener' \in [Clients -> {"none", "queued", "opening", "parsing", "downloading", "ended"}]
        /\ \A q \in Clients : opener[q] = "queued" => opener'[q] = "queued"
    BY <2>1, OpenerGoesInv
  <2>3. fed' = fed /\ failed' \in [Clients -> BOOLEAN]
        /\ UNCHANGED <<current, handle, kind, song, pc, locks>>
    BY <1>1 DEF StreamOpens, OpenerGoes, IInv, TypeOK
  <2>4. QueueInv' /\ queue' \in Seq(Jobs)
    <3>1. CASE Post(Appender(p)) /\ opener' = [opener EXCEPT ![p] = "parsing"]
               /\ opener[p] = "opening"
      <4>1. queue' \in Seq(Jobs)
        BY <3>1, PostType, JobsApart DEF IInv, TypeOK
      <4>2. Len(queue') = Len(queue) + 1 /\ queue'[Len(queue) + 1] = Appender(p)
            /\ Len(queue) \in Nat /\ \A i \in 1..Len(queue) : queue'[i] = queue[i]
        <5>1. queue \in Seq(Jobs) /\ Appender(p) \in Jobs
          BY JobsApart DEF IInv, TypeOK
        <5> QED
          BY <3>1, <5>1 DEF Post
      <4>3. ASSUME NEW q \in Clients, NEW i \in 1..Len(queue'), queue'[i] = Opener(q)
            PROVE  i \in 1..Len(queue) /\ queue[i] = Opener(q)
        BY <4>2, <4>3, JobsApart
      <4>4. QueueInv'
        BY <4>3, <2>2 DEF QueueInv, IInv, Opener
      <4> QED
        BY <4>1, <4>4
    <3>2. CASE queue' = queue
      BY <2>2, <3>2, QueueSame DEF IInv, TypeOK
    <3> QED
      BY <1>1, <3>1, <3>2 DEF StreamOpens, OpenerGoes
  <2> QED
    BY <2>2, <2>3, <2>4 DEF IInv, TypeOK, locks
<1>2. CASE Append_(p)
  <2>1. UNCHANGED <<queue, opener, failed, current, handle, kind, song, pc, locks>>
        /\ running' = running \ {Appender(p)} /\ fed' = [fed EXCEPT ![p] = TRUE]
    BY <1>2 DEF Append_
  <2>2. OpenerInv'
    BY <2>1, JobsApart DEF IInv, OpenerInv, Opener
  <2>3. ReadInv' /\ HandleInv' /\ QueueInv'
    BY <2>1, HandleSame, QueueSame DEF IInv, ReadInv
  <2> QED
    BY <2>1, <2>2, <2>3 DEF IInv, TypeOK, locks
<1>3. CASE Parsed(p)
  <2>1. PICK to \in {"downloading", "ended"} : OpenerGoes(p, "parsing", to)
    BY <1>3 DEF Parsed
  <2>2. /\ OpenerInv' /\ ReadInv' /\ HandleInv' /\ running' \subseteq Jobs
        /\ opener' \in [Clients -> {"none", "queued", "opening", "parsing", "downloading", "ended"}]
        /\ \A q \in Clients : opener[q] = "queued" => opener'[q] = "queued"
    BY <2>1, OpenerGoesInv
  <2>3. fed' = fed /\ queue' = queue /\ failed' \in [Clients -> BOOLEAN]
        /\ UNCHANGED <<current, handle, kind, song, pc, locks>>
    BY <1>3 DEF Parsed, OpenerGoes, IInv, TypeOK
  <2>4. QueueInv'
    BY <2>2, <2>3, QueueSame DEF IInv
  <2> QED
    BY <2>2, <2>3, <2>4 DEF IInv, TypeOK, locks
<1>4. CASE Downloaded(p)
  <2>1. OpenerGoes(p, "downloading", "ended")
    BY <1>4 DEF Downloaded
  <2>2. /\ OpenerInv' /\ ReadInv' /\ HandleInv' /\ running' \subseteq Jobs
        /\ opener' \in [Clients -> {"none", "queued", "opening", "parsing", "downloading", "ended"}]
        /\ \A q \in Clients : opener[q] = "queued" => opener'[q] = "queued"
    BY <2>1, OpenerGoesInv
  <2>3. fed' = fed /\ queue' = queue /\ failed' \in [Clients -> BOOLEAN]
        /\ UNCHANGED <<current, handle, kind, song, pc, locks>>
    BY <1>4 DEF Downloaded, OpenerGoes, IInv, TypeOK
  <2>4. QueueInv'
    BY <2>2, <2>3, QueueSame DEF IInv
  <2> QED
    BY <2>2, <2>3, <2>4 DEF IInv, TypeOK, locks
<1>5. CASE CreateSong(p)
  <2>1. UNCHANGED <<queue, procs, current, handle, kind, song, pc, locks>>
        /\ running' = running \ {Create(p)}
    BY <1>5 DEF CreateSong
  <2>2. OpenerInv'
    BY <2>1, JobsApart DEF IInv, OpenerInv, Opener, procs
  <2>3. ReadInv' /\ HandleInv' /\ QueueInv'
    BY <2>1, HandleSame, QueueSame DEF IInv, ReadInv, procs
  <2> QED
    BY <2>1, <2>2, <2>3 DEF IInv, TypeOK, locks, procs
<1> QED
  BY <1>1, <1>2, <1>3, <1>4, <1>5 DEF Job
-----------------------------------------------------------------------------
(* Calls.  Most of them leave the pool, the processors and the entries     *)
(* alone.                                                                  *)
Names == {"meta", "dir", "in_dir", "song", "size", "mutex", "opening", "open",
          "reading", "failing", "closing", "joining", "dropping", "done"}

LEMMA GoesFacts ==
  ASSUME TypeOK, NEW t \in Clients, NEW from, NEW to \in Names, Goes(t, from, to)
  PROVE  pc \in [Clients -> Names] /\ pc' \in [Clients -> Names] /\ pc[t] = from /\ pc'[t] = to
         /\ \A u \in Clients : u # t => pc'[u] = pc[u]
BY DEF TypeOK, Goes, Names

LEMMA PoolSame ==
  ASSUME QueueInv, OpenerInv, UNCHANGED <<queue, running, opener>>
  PROVE  QueueInv' /\ OpenerInv'
BY DEF QueueInv, OpenerInv

(* A call that goes on with the handle it has, or without one.             *)
LEMMA GoesInv ==
  ASSUME IInv, NEW t \in Clients, NEW from, NEW to \in Names, Goes(t, from, to),
         UNCHANGED <<pool, procs, current, handle>>, Apart,
         from = "reading" => Opened(handle[t]),
         to \in {"open", "reading", "failing", "closing"} =>
           from \in {"open", "reading", "failing", "closing"},
         to \in {"joining", "dropping"} => from \in {"closing", "failing"}
  PROVE  QueueInv' /\ OpenerInv' /\ ReadInv' /\ HandleInv' /\ pc' \in [Clients -> Names]
<1>1. /\ pc' \in [Clients -> Names] /\ pc[t] = from /\ pc'[t] = to
      /\ \A u \in Clients : u # t => pc'[u] = pc[u]
  BY GoesFacts DEF IInv
<1>2. QueueInv' /\ OpenerInv'
  BY PoolSame DEF IInv, pool, procs
<1>3. ReadInv'
  <2> SUFFICES ASSUME NEW p \in Clients, opener'[p] \in {"queued", "opening", "parsing"}
               PROVE  \E u \in Clients : pc'[u] = "reading" /\ handle'[u] = p
    BY DEF ReadInv
  <2>1. PICK u \in Clients : pc[u] = "reading" /\ handle[u] = p
    BY DEF IInv, ReadInv, procs
  <2>2. u # t
    BY <1>1, <2>1 DEF Opened, procs
  <2> QED
    BY <1>1, <2>1, <2>2
<1>4. HandleInv'
  <2>1. UNCHANGED <<current, handle, song>>
    BY DEF Apart
  <2>2. \A u \in Clients : HasHandle(u)' => HasHandle(u)
    BY <1>1 DEF HasHandle
  <2>3. \A u \in Clients : pc'[u] \in {"joining", "dropping"} =>
          HasHandle(u) \/ pc[u] \in {"joining", "dropping"}
    BY <1>1 DEF HasHandle
  <2>4. \A u \in Clients : pc'[u] \in {"joining", "dropping"} => handle'[u] # None
    BY <2>1, <2>3 DEF IInv, HandleInv
  <2>5. \A u \in Clients : HasHandle(u)' => handle'[u] # None /\ current'[song'[u]] = handle'[u]
    BY <2>1, <2>2 DEF IInv, HandleInv
  <2> QED
    BY <2>1, <2>4, <2>5 DEF IInv, HandleInv
<1> QED
  BY <1>1, <1>2, <1>3, <1>4

LEMMA WalkInv ==
  ASSUME IInv, NEW t \in Clients,
         LockMeta(t) \/ LockDir(t) \/ ReadMeta(t) \/ LockSong(t) \/ LookedUp(t) \/ LockManager(t)
  PROVE  IInv'
<1>0. t \in Clients \cup {None} /\ None \in Clients \cup {None} /\ song[t] \in Songs
  BY DEF IInv, TypeOK
<1>1. ASSUME NEW from, NEW to \in Names, Goes(t, from, to), Apart,
             UNCHANGED <<pool, procs, current, handle>>,
             from # "reading", to \notin {"open", "reading", "failing", "closing", "joining", "dropping"},
             dir' \in Clients \cup {None}, locked' \in [Songs -> Clients \cup {None}],
             mutex' \in Clients \cup {None}, meta' \in Clients \cup {None}
      PROVE  IInv'
  <2>1. QueueInv' /\ OpenerInv' /\ ReadInv' /\ HandleInv' /\ pc' \in [Clients -> Names]
    BY <1>1, GoesInv
  <2> QED
    BY <1>1, <2>1 DEF IInv, TypeOK, pool, procs, Apart, Names
<1>2. CASE LockMeta(t)
  BY <1>0, <1>1, <1>2 DEF LockMeta, IInv, TypeOK, Names
<1>3. CASE LockDir(t)
  BY <1>0, <1>1, <1>3 DEF LockDir, IInv, TypeOK, Names
<1>4. CASE ReadMeta(t)
  BY <1>0, <1>1, <1>4 DEF ReadMeta, IInv, TypeOK, Names
<1>5. CASE LockSong(t)
  BY <1>0, <1>1, <1>5 DEF LockSong, IInv, TypeOK, Names
<1>6. CASE LookedUp(t)
  BY <1>0, <1>1, <1>6 DEF LookedUp, IInv, TypeOK, Names
<1>7. CASE LockManager(t)
  BY <1>0, <1>1, <1>7 DEF LockManager, IInv, TypeOK, Names
<1> QED
  BY <1>2, <1>3, <1>4, <1>5, <1>6, <1>7

LEMMA MakeDirInv ==
  ASSUME IInv, NEW t \in Clients, MakeDir(t)
  PROVE  IInv'
<1>1. /\ UNCHANGED <<running, procs, current, handle, kind, song, locked, mutex, meta>>
      /\ dir' = None /\ Goes(t, "in_dir", "done")
  BY DEF MakeDir, Apart
<1>2. /\ pc' \in [Clients -> Names] /\ pc[t] = "in_dir" /\ pc'[t] = "done"
      /\ \A u \in Clients : u # t => pc'[u] = pc[u]
  BY <1>1, GoesFacts DEF IInv, Names
<1>3. QueueInv' /\ queue' \in Seq(Jobs)
  <2>1. queue \in Seq(Jobs) /\ QueueInv /\ opener' = opener /\ Create(t) \in Jobs
        /\ \A p \in Clients : Create(t) # Opener(p)
    BY <1>1, JobsApart DEF IInv, TypeOK, procs
  <2>2. CASE Post(Create(t))
    BY <2>1, <2>2, PostOther, PostType
  <2>3. CASE queue' = queue
    BY <2>1, <2>3, QueueSame
  <2> QED
    BY <2>2, <2>3 DEF MakeDir
<1>4. OpenerInv'
  BY <1>1 DEF IInv, OpenerInv, procs
<1>5. ReadInv'
  BY <1>1, <1>2, ReadsGoOn DEF IInv, procs
<1>6. HandleInv'
  <2>1. \A u \in Clients : /\ HasHandle(u)' => HasHandle(u)
                           /\ pc'[u] \in {"joining", "dropping"} => pc[u] \in {"joining", "dropping"}
    BY <1>2 DEF HasHandle
  <2> QED
    BY <1>1, <2>1 DEF IInv, HandleInv
<1>7. TypeOK'
  BY <1>1, <1>2, <1>3 DEF IInv, TypeOK, Names, procs
<1> QED
  BY <1>3, <1>4, <1>5, <1>6, <1>7 DEF IInv

(* An open: the processor of the entry, or one of its own name.            *)
LEMMA OpenFileInv ==
  ASSUME IInv, NEW t \in Clients, OpenFile(t)
  PROVE  IInv'
<1>1. /\ UNCHANGED <<pool, procs, kind, song, dir, meta>> /\ mutex' = None
      /\ locked' = [locked EXCEPT ![song[t]] = None]
  BY DEF OpenFile, Apart
<1>2. CASE Goes(t, "opening", "done") /\ UNCHANGED <<current, handle>>
  <2>1. QueueInv' /\ OpenerInv' /\ ReadInv' /\ HandleInv' /\ pc' \in [Clients -> Names]
    BY <1>1, <1>2, GoesInv DEF Names, Apart
  <2> QED
    BY <1>1, <1>2, <2>1 DEF IInv, TypeOK, Names, pool, procs
<1>3. ASSUME Goes(t, "opening", "open"),
             NEW p, p = IF current[song[t]] = None THEN t ELSE current[song[t]],
             current' = [current EXCEPT ![song[t]] = p], handle' = [handle EXCEPT ![t] = p]
      PROVE  IInv'
  <2>1. /\ pc' \in [Clients -> Names] /\ pc[t] = "opening" /\ pc'[t] = "open"
        /\ \A u \in Clients : u # t => pc'[u] = pc[u]
    BY <1>3, GoesFacts DEF IInv, Names
  <2>2. p \in Clients /\ song[p] = song[t] /\ song[t] \in Songs /\ p # None
    BY <1>3, PoolAssumption DEF IInv, TypeOK, HandleInv
  <2>3. TypeOK'
    BY <1>1, <1>3, <2>1, <2>2 DEF IInv, TypeOK, Names, pool, procs
  <2>4. QueueInv' /\ OpenerInv'
    BY <1>1, PoolSame DEF IInv, pool, procs
  <2>5. ReadInv'
    BY <1>1, <1>3, <2>1, ReadsGoOn DEF IInv, TypeOK, procs
  <2>6. \A u \in Clients : HasHandle(u)' => handle'[u] # None /\ current'[song'[u]] = handle'[u]
    <3> SUFFICES ASSUME NEW u \in Clients, HasHandle(u)'
                 PROVE  handle'[u] # None /\ current'[song'[u]] = handle'[u]
      OBVIOUS
    <3>1. CASE u = t
      BY <1>1, <1>3, <2>2, <3>1 DEF IInv, TypeOK
    <3>2. CASE u # t
      <4>1. HasHandle(u)
        BY <2>1, <3>2 DEF HasHandle
      <4>2. handle[u] # None /\ current[song[u]] = handle[u] /\ handle'[u] = handle[u]
        BY <1>3, <3>2, <4>1 DEF IInv, HandleInv, TypeOK
      <4>3. current'[song[u]] = current[song[u]]
        BY <1>3, <4>2 DEF IInv, TypeOK
      <4> QED
        BY <1>1, <4>2, <4>3
    <3> QED
      BY <3>1, <3>2
  <2>7. \A u \in Clients : pc'[u] \in {"joining", "dropping"} => handle'[u] # None
    BY <1>3, <2>1, <2>2 DEF IInv, TypeOK, HandleInv
  <2>8. \A u \in Clients : handle'[u] # None => song'[handle'[u]] = song'[u]
    BY <1>1, <1>3, <2>2 DEF IInv, TypeOK, HandleInv
  <2>9. \A s \in Songs : current'[s] # None => song'[current'[s]] = s
    BY <1>1, <1>3, <2>2 DEF IInv, TypeOK, HandleInv
  <2> QED
    BY <2>3, <2>4, <2>5, <2>6, <2>7, <2>8, <2>9 DEF IInv, HandleInv
<1> QED
  BY <1>2, <1>3 DEF OpenFile

LEMMA BeginReadInv ==
  ASSUME IInv, NEW t \in Clients, BeginRead(t)
  PROVE  IInv'
<1>1. /\ UNCHANGED <<running, fed, failed, current, handle, kind, song, locks>>
      /\ Goes(t, "open", "reading")
  BY DEF BeginRead, Apart
<1>2. /\ pc' \in [Clients -> Names] /\ pc[t] = "open" /\ pc'[t] = "reading"
      /\ \A u \in Clients : u # t => pc'[u] = pc[u]
  BY <1>1, GoesFacts DEF IInv, Names
<1>3. handle[t] \in Clients
  BY <1>2 DEF IInv, TypeOK, HandleInv, HasHandle
<1>4. HandleInv'
  <2>1. \A u \in Clients : /\ HasHandle(u)' => HasHandle(u)
                           /\ pc'[u] \in {"joining", "dropping"} => pc[u] \in {"joining", "dropping"}
    BY <1>2 DEF HasHandle
  <2> QED
    BY <1>1, <2>1 DEF IInv, HandleInv
<1>5. CASE UNCHANGED <<queue, opener>>
  <2>1. QueueInv' /\ OpenerInv'
    BY <1>1, <1>5, PoolSame DEF IInv
  <2>2. ReadInv'
    BY <1>1, <1>2, <1>5, ReadsGoOn DEF IInv
  <2>3. TypeOK'
    BY <1>1, <1>2, <1>5 DEF IInv, TypeOK, Names, locks
  <2> QED
    BY <1>4, <2>1, <2>2, <2>3 DEF IInv
<1>6. CASE /\ Post(Opener(handle[t])) /\ opener[handle[t]] = "none"
           /\ opener' = [opener EXCEPT ![handle[t]] = "queued"]
  <2>1. queue \in Seq(Jobs) /\ QueueInv
        /\ opener \in [Clients -> {"none", "queued", "opening", "parsing", "downloading", "ended"}]
    BY DEF IInv, TypeOK
  <2>a. Opener(handle[t]) \in Jobs
    BY <1>3, JobsApart
  <2>2. QueueInv' /\ queue' \in Seq(Jobs)
    BY <1>3, <1>6, <2>1, <2>a, PostOpener, PostType
  <2>3. OpenerInv'
    BY <1>1, <1>3, <1>6 DEF IInv, TypeOK, OpenerInv
  <2>4. ReadInv'
    <3> SUFFICES ASSUME NEW p \in Clients, opener'[p] \in {"queued", "opening", "parsing"}
                 PROVE  \E u \in Clients : pc'[u] = "reading" /\ handle'[u] = p
      BY DEF ReadInv
    <3>1. CASE p = handle[t]
      BY <1>1, <1>2, <3>1
    <3>2. CASE p # handle[t]
      <4>1. opener[p] \in {"queued", "opening", "parsing"}
        BY <1>3, <1>6, <3>2 DEF IInv, TypeOK
      <4> QED
        BY <1>1, <1>2, <4>1 DEF IInv, ReadInv
    <3> QED
      BY <3>1, <3>2
  <2>5. TypeOK'
    BY <1>1, <1>2, <1>3, <1>6, <2>2 DEF IInv, TypeOK, Names, locks
  <2> QED
    BY <1>4, <2>2, <2>3, <2>4, <2>5 DEF IInv
<1> QED
  BY <1>5, <1>6 DEF BeginRead

LEMMA EndInv ==
  ASSUME IInv, NEW t \in Clients,
         ReadReturns(t) \/ ReadFails(t) \/ BeginRelease(t) \/ Released(t) \/ Dropped(t)
  PROVE  IInv'
<1>1. ASSUME NEW from, NEW to \in Names, Goes(t, from, to), Apart,
             UNCHANGED <<pool, procs, current, handle, dir, locked, meta>>,
             from = "reading" => Opened(handle[t]),
             to \in {"open", "reading", "failing", "closing"} =>
               from \in {"open", "reading", "failing", "closing"},
             to \notin {"joining", "dropping"}, mutex' \in Clients \cup {None}
      PROVE  IInv'
  <2>1. QueueInv' /\ OpenerInv' /\ ReadInv' /\ HandleInv' /\ pc' \in [Clients -> Names]
    BY <1>1, GoesInv
  <2> QED
    BY <1>1, <2>1 DEF IInv, TypeOK, pool, procs, Apart, Names
<1>2. mutex \in Clients \cup {None}
  BY DEF IInv, TypeOK
<1>3. CASE ReadReturns(t)
  BY <1>1, <1>2, <1>3 DEF ReadReturns, Names, locks
<1>4. CASE ReadFails(t)
  BY <1>1, <1>2, <1>4 DEF ReadFails, Names, locks
<1>5. CASE BeginRelease(t)
  BY <1>1, <1>2, <1>5 DEF BeginRelease, Names, locks
<1>6. CASE Released(t)
  BY <1>1, <1>6 DEF Released, Names, locks
<1>7. CASE Dropped(t)
  BY <1>1, <1>2, <1>7 DEF Dropped, Names, locks
<1> QED
  BY <1>3, <1>4, <1>5, <1>6, <1>7

(* A close: the entry stays while another handle of the song is there.     *)
LEMMA CloseInv ==
  ASSUME IInv, NEW t \in Clients, Release(t) \/ CloseFailed(t)
  PROVE  IInv'
<1>1. PICK from \in {"closing", "failing"}, to \in {"joining", "dropping"} : Goes(t, from, to)
  BY DEF Release, CloseFailed
<1>2. /\ pc' \in [Clients -> Names] /\ pc[t] = from /\ pc'[t] = to
      /\ \A u \in Clients : u # t => pc'[u] = pc[u]
  <2>1. to \in Names /\ TypeOK
    BY DEF Names, IInv
  <2> QED
    BY <1>1, <2>1, GoesFacts
<1>3. /\ UNCHANGED <<pool, procs, handle, dir, locked, meta, kind, song>>
      /\ mutex' \in Clients \cup {None}
      /\ current' = [current EXCEPT ![song[t]] =
                       IF \E u \in Others(t) : HasHandle(u) THEN @ ELSE None]
  <2>1. CloseNoLock(t) /\ mutex' \in {t, mutex}
    BY DEF Release, CloseFailed
  <2>2. mutex' \in Clients \cup {None}
    BY <2>1 DEF IInv, TypeOK
  <2> QED
    BY <2>1, <2>2 DEF CloseNoLock, Apart
<1>4. HasHandle(t) /\ handle[t] # None /\ current[song[t]] = handle[t] /\ song[t] \in Songs
  BY <1>2 DEF HasHandle, IInv, HandleInv, TypeOK
<1>5. TypeOK'
  BY <1>2, <1>3 DEF IInv, TypeOK, Names, pool, procs
<1>6. QueueInv' /\ OpenerInv'
  BY <1>3, PoolSame DEF IInv, pool, procs
<1>7. ReadInv'
  BY <1>2, <1>3, ReadsGoOn DEF IInv, procs
<1>8. \A u \in Clients : HasHandle(u)' => handle'[u] # None /\ current'[song'[u]] = handle'[u]
  <2> SUFFICES ASSUME NEW u \in Clients, HasHandle(u)'
               PROVE  handle[u] # None /\ current'[song[u]] = handle[u]
    BY <1>3
  <2>1. u # t /\ HasHandle(u)
    BY <1>2 DEF HasHandle
  <2>2. handle[u] # None /\ current[song[u]] = handle[u] /\ song[u] \in Songs
    BY <2>1 DEF IInv, HandleInv, TypeOK
  <2>3. CASE song[u] = song[t]
    <3>1. u \in Others(t)
      BY <1>4, <2>1, <2>2, <2>3 DEF Others
    <3> QED
      BY <1>3, <2>1, <2>2, <3>1 DEF IInv, TypeOK
  <2>4. CASE song[u] # song[t]
    BY <1>3, <2>2, <2>4 DEF IInv, TypeOK
  <2> QED
    BY <2>3, <2>4
<1>9. \A u \in Clients : pc'[u] \in {"joining", "dropping"} => handle'[u] # None
  BY <1>2, <1>3, <1>4 DEF IInv, HandleInv
<1>10. \A s \in Songs : current'[s] # None => current'[s] = current[s]
  BY <1>3 DEF IInv, TypeOK
<1> QED
  BY <1>3, <1>5, <1>6, <1>7, <1>8, <1>9, <1>10 DEF IInv, HandleInv
-----------------------------------------------------------------------------
LEMMA StutterInv == IInv /\ UNCHANGED vars => IInv'
<1> SUFFICES ASSUME IInv, UNCHANGED vars PROVE IInv'
  OBVIOUS
<1>1. QueueInv' /\ OpenerInv' /\ ReadInv'
  BY PoolSame, ReadsGoOn DEF IInv, vars, pool, procs
<1>2. HandleInv'
  BY HandleSame DEF IInv, vars
<1>3. TypeOK'
  BY DEF IInv, TypeOK, vars, pool, procs, locks
<1> QED
  BY <1>1, <1>2, <1>3 DEF IInv

(* The inductive invariant of the composition.                             *)
THEOREM Inductive == Spec => []IInv
<1>1. IInv /\ [Next]_vars => IInv'
  <2> SUFFICES ASSUME IInv, [Next]_vars PROVE IInv'
    OBVIOUS
  <2>1. CASE Take
    BY <2>1, TakeInv
  <2>2. ASSUME NEW p \in Clients, Job(p) PROVE IInv'
    BY <2>2, JobInv
  <2>3. ASSUME NEW t \in Clients, BeginRead(t) \/ BeginRelease(t) \/ Call(t) PROVE IInv'
    BY <2>3, WalkInv, MakeDirInv, OpenFileInv, BeginReadInv, EndInv, CloseInv DEF Call
  <2>4. CASE UNCHANGED vars
    BY <2>4, StutterInv
  <2> QED
    BY <2>1, <2>2, <2>3, <2>4 DEF Next
<1> QED
  BY <1>1, InitInv, PTL DEF Spec

(* The queue holds jobs only, and every client, lock and processor is in a *)
(* state that the code gives it.                                           *)
THEOREM TypeCorrect == Spec => []TypeOK
<1>1. IInv => TypeOK
  BY DEF IInv
<1> QED
  BY <1>1, Inductive, PTL

(* A close never waits for the pool: the destructor of a processor joins   *)
(* an opener only when it has a thread and downloads.                      *)
THEOREM CloseWaitsForNoJob == Spec => []JoinsRunningOpener
<1>1. IInv => JoinsRunningOpener
  <2> SUFFICES ASSUME IInv, NEW t \in Clients, pc[t] \in {"joining", "dropping"}, Destroys(t)
               PROVE  \/ Quiet(handle[t])
                      \/ opener[handle[t]] = "downloading" /\ Opener(handle[t]) \in running
    BY DEF JoinsRunningOpener
  <2>1. handle[t] \in Clients /\ song[handle[t]] = song[t]
    BY DEF IInv, TypeOK, HandleInv
  <2>2. ASSUME NEW u \in Clients, pc[u] = "reading", handle[u] = handle[t] PROVE FALSE
    <3>1. current[song[u]] = handle[t]
      BY <2>2 DEF IInv, HandleInv, HasHandle
    <3>2. song[u] = song[t]
      BY <2>1, <2>2 DEF IInv, HandleInv, TypeOK
    <3> QED
      BY <3>1, <3>2 DEF Destroys
  <2>3. opener[handle[t]] \notin {"queued", "opening", "parsing"}
    BY <2>1, <2>2 DEF IInv, ReadInv
  <2> QED
    BY <2>1, <2>3 DEF IInv, TypeOK, OpenerInv, Quiet
<1> QED
  BY <1>1, Inductive, PTL
=============================================================================

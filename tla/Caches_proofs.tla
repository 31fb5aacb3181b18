---------------------------- MODULE Caches_proofs -----------------------------
(***************************************************************************)
(* Theorems about the two caches that CacheSaver.cpp saves.  The cache of  *)
(* files, through starts, sessions, saves and kills: CacheSaver, for every *)
(* finite set of songs, all bounds the program is started with and every   *)
(* number of starts.  The cache of sizes, with threads that ask for them:  *)
(* SizeCache, for every set of threads, every finite set of files, and     *)
(* every bound of the cache and of the calls.                              *)
(***************************************************************************)
EXTENDS CacheSaver, SizeCache, LruCache_proofs
-----------------------------------------------------------------------------
(* What a JSON file lists.                                                 *)
Listed(json) == IF json \in {None, Torn} THEN <<>> ELSE json

Distinct(l) == \A i, j \in 1 .. Len(l) : l[i].key = l[j].key => i = j

Starting == {"off", "broken", "clear", "clear_songs", "meta", "load_sizes", "open_files"}
Ending   == {"save_sizes", "sizes_saved", "save_files"}

(* Types.  The cache is sound while it is loaded, as nothing is kept then. *)
TypeInv ==
  /\ phase \in Starting \cup Ending \cup {"load_files", "running"}
  /\ todo \in Lists /\ max \in Nat
  /\ IsCache(files) /\ (Defined(files) => Linked(files))
  /\ got \in [Songs -> (0 .. FullSize) \cup {None}]
  /\ disk \in [Songs -> Nat \cup {None}]
  /\ savedFiles \in Lists \cup {None, Torn}
  /\ played \subseteq Songs /\ (phase \in Starting \cup {"load_files"} => played = {})
  /\ vetoed \in BOOLEAN
  /\ opened \subseteq Songs

(* A start that goes on to load the cache begins with nothing in memory.   *)
Fresh == files = Empty /\ opened = {} /\ got = [s \in Songs |-> None]

FreshInv ==
  \/ phase \in {"meta", "load_sizes", "open_files"}
  \/ phase \in {"clear", "clear_songs"} /\ version # "current"
  => Fresh

(* The JSON file while its entries are gone through.                       *)
Old  == Listed(savedFiles)
Done == Len(Old) - Len(todo)

Continues(l, old, d) == \A j \in 1 .. Len(l) : l[j] = old[d + j]

TodoInv ==
  phase \in {"clear_songs", "load_files"} => Done \in Nat /\ Continues(todo, Old, Done)

(* The entries put are in the cache, the last one first, as far as they    *)
(* fit.                                                                    *)
Loads(c, old, d, bound) ==
  /\ Len(c.list) = IF d <= bound THEN d ELSE bound
  /\ \A j \in 1 .. Len(c.list) : c.list[j] = old[d + 1 - j]

LoadInv ==
  phase = "load_files" =>
    /\ savedFiles # Torn /\ opened = {} /\ got = [s \in Songs |-> None]
    /\ Sound(files) /\ Len(files.list) <= max
    /\ Distinct(Old) => Loads(files, Old, Done, max)

(* Short of a veto the cache is sound, and what is saved of it.            *)
SoundInv ==
  ~ vetoed =>
    /\ Distinct(Old)
    /\ phase \in {"running"} \cup Ending => Sound(files) /\ Len(files.list) <= max

(* The file of a song, but what a killed session has written.              *)
Intact(s) == disk[s] # None /\ s \notin stale

EntryAt(i, s) == i \in 1 .. Len(Old) /\ Old[i] = Entry(s, disk[s])

(* The entries by which a song's file can be evicted: those on disk, so    *)
(* that a session may be killed as long as it has not opened the file to   *)
(* write, and those not put yet or kept when put.                          *)
DiskInv ==
  ~ vetoed =>
    /\ savedFiles # Torn =>
         \A s \in Songs \ played : Intact(s) => \E i \in 1 .. Len(Old) : EntryAt(i, s)
    /\ phase = "clear_songs" =>
         \A s \in Songs : Intact(s) => \E i \in Done + 1 .. Len(Old) : EntryAt(i, s)
    /\ phase = "load_files" =>
         \A s \in Songs : Intact(s) =>
           \E i \in Done - Len(files.list) + 1 .. Len(Old) : EntryAt(i, s)

(* In a session: an entry has its file's size, but while the song is       *)
(* downloaded; then it is less than full.                                  *)
SongInv(s) ==
  /\ Intact(s) => /\ s \in files.map
                  /\ got[s] = None => Has(files.list, s, disk[s])
                  /\ got[s] # None => disk[s] = got[s]
  /\ got[s] # None => /\ phase = "running" /\ s \in opened /\ s \in played
                      /\ \A v \in Nat : Has(files.list, s, v) => v # FullSize

SessionInv ==
  ~ vetoed /\ phase \in {"running"} \cup Ending => \A s \in Songs : SongInv(s)

IInv == TypeInv /\ FreshInv /\ TodoInv /\ LoadInv /\ SoundInv /\ DiskInv /\ SessionInv
-----------------------------------------------------------------------------
LEMMA Apart ==
  /\ None \notin Nat /\ None # Torn /\ None \notin Lists /\ Torn \notin Lists
  /\ FullSize \in Nat \ {0} /\ Bounds \subseteq Nat
BY SaverAssumption DEF Lists, ListNodes

LEMMA EmptySound ==
  /\ Sound(Empty) /\ Linked(Empty) /\ Empty.list = <<>> /\ Len(Empty.list) = 0
  /\ Defined(Empty) /\ <<>> \in Lists
<1>1. /\ Empty.list = <<>> /\ Empty.map = {} /\ Empty.dangling = {} /\ Empty.undefined = FALSE
      /\ Empty \in Caches
  BY DEF Empty, Caches, Lists
<1>2. IsFiniteSet({}) /\ Len(<<>>) = 0 /\ <<>> \in Lists
  BY FS_EmptySet DEF Lists
<1> QED
  BY <1>1, <1>2 DEF Sound, Linked, IsCache, Defined, Tidy

LEMMA OldList ==
  ASSUME savedFiles \in Lists \cup {None, Torn}
  PROVE  Old \in Lists /\ Len(Old) \in Nat
<1>1. Old \in Lists
  BY EmptySound DEF Old, Listed
<1> QED
  BY <1>1, ListNode

(* The directory of an older version: its songs are listed once.           *)
LEMMA ListingSongs ==
  ASSUME NEW S \in SUBSET Songs
  PROVE  LET l == [i \in 1 .. Cardinality(S) |-> Entry(SetToSeq(S)[i], FullSize)]
         IN  /\ l \in Lists /\ Distinct(l)
             /\ \A s \in S : \E i \in 1 .. Len(l) : l[i] = Entry(s, FullSize)
<1> DEFINE n == Cardinality(S)
           f == SetToSeq(S)
           l == [i \in 1 .. n |-> Entry(f[i], FullSize)]
<1>1. IsFiniteSet(S) /\ n \in Nat
  BY FS_Subset, FS_CardinalityType, SaverAssumption
<1>2. \E g \in [1 .. n -> S] : IsInjective(g)
  <2>1. \E g : ExistsBijection(1 .. n, S) /\ g \in Bijection(1 .. n, S)
    BY <1>1, FS_NatBijection, FS_CountingElements DEF ExistsBijection
  <2> QED
    BY <2>1 DEF Bijection, Injection, IsInjective
<1>3. f \in [1 .. n -> S] /\ IsInjective(f)
  BY <1>2 DEF SetToSeq
<1>4. \A s \in S : \E i \in 1 .. n : f[i] = s
  <2>1. f \in Injection(1 .. n, S) /\ Cardinality(1 .. n) = n
    BY <1>1, <1>3, FS_Interval DEF Injection
  <2> HIDE DEF f
  <2>2. f \in Surjection(1 .. n, S)
    BY <1>1, <2>1, FS_Injection
  <2> QED
    BY <2>2 DEF Surjection
<1> HIDE DEF f, n
<1>5. \A i \in 1 .. n : Entry(f[i], FullSize) \in ListNodes
  BY <1>3, Apart DEF Entry, ListNodes
<1>6. l \in Lists /\ Len(l) = n
  BY <1>1, <1>5 DEF Lists
<1>7. Distinct(l)
  BY <1>3, <1>6 DEF Distinct, IsInjective, Entry
<1>8. \A s \in S : \E i \in 1 .. Len(l) : l[i] = Entry(s, FullSize)
  BY <1>4, <1>6
<1> QED
  BY <1>6, <1>7, <1>8 DEF f, n

LEMMA InitInv == Init => IInv
<1> SUFFICES ASSUME Init PROVE IInv
  OBVIOUS
<1>1. /\ phase = "off" /\ todo = <<>> /\ max = 0 /\ files = Empty /\ opened = {}
      /\ got = [s \in Songs |-> None] /\ played = {} /\ vetoed = FALSE
  BY DEF Init
<1>2. PICK old \in SUBSET Songs :
        /\ disk = [s \in Songs |-> IF s \in old THEN FullSize ELSE None]
        /\ savedFiles = IF old = {} THEN None
                        ELSE [i \in 1 .. Cardinality(old) |-> Entry(SetToSeq(old)[i], FullSize)]
  BY DEF Init
<1> DEFINE l == [i \in 1 .. Cardinality(old) |-> Entry(SetToSeq(old)[i], FullSize)]
<1>3. /\ l \in Lists /\ Distinct(l)
      /\ \A s \in old : \E i \in 1 .. Len(l) : l[i] = Entry(s, FullSize)
  BY ListingSongs
<1> HIDE DEF l
<1>4. savedFiles = IF old = {} THEN None ELSE l
  BY <1>2 DEF l
<1>5. Old = IF old = {} THEN <<>> ELSE l
  BY <1>3, <1>4, Apart DEF Old, Listed
<1>6. TypeInv
  <2>1. IsCache(files) /\ Linked(files)
    BY <1>1, EmptySound DEF Sound
  <2>2. savedFiles \in Lists \cup {None, Torn} /\ todo \in Lists
    BY <1>1, <1>3, <1>4, EmptySound
  <2>3. disk \in [Songs -> Nat \cup {None}]
    BY <1>2, Apart
  <2> QED
    BY <1>1, <2>1, <2>2, <2>3 DEF TypeInv, Starting
<1>7. Distinct(Old)
  BY <1>3, <1>5 DEF Distinct
<1>8. ASSUME NEW s \in Songs, Intact(s) PROVE \E i \in 1 .. Len(Old) : EntryAt(i, s)
  <2>1. s \in old /\ disk[s] = FullSize
    BY <1>2, <1>8 DEF Intact
  <2>2. PICK i \in 1 .. Len(l) : l[i] = Entry(s, FullSize)
    BY <1>3, <2>1
  <2> QED
    BY <1>5, <2>1, <2>2 DEF EntryAt
<1>9. DiskInv
  BY <1>1, <1>8 DEF DiskInv
<1> QED
  BY <1>1, <1>6, <1>7, <1>9 DEF IInv, FreshInv, TodoInv, LoadInv, SoundInv, SessionInv, Ending
-----------------------------------------------------------------------------
(* Before the cache is loaded.                                             *)
LEMMA StartingKept ==
  ASSUME IInv, phase \in Starting, phase' \in Starting \ {"clear_songs"},
         todo' \in Lists, max' = max, files' = files, opened' = opened, got' = got,
         UNCHANGED <<disk, savedFiles, played, stale, vetoed>>, FreshInv'
  PROVE  IInv'
<1>1. Old' = Old
  BY DEF Old, Listed
<1>2. TypeInv'
  BY DEF IInv, TypeInv, Linked, Defined
<1>3. phase' \notin {"clear_songs", "load_files", "running", "save_sizes", "sizes_saved", "save_files"}
  BY DEF Starting
<1>4. TodoInv' /\ LoadInv' /\ SessionInv'
  BY <1>3 DEF TodoInv, LoadInv, SessionInv, Ending
<1>5. SoundInv'
  BY <1>1, <1>3 DEF IInv, SoundInv, Ending
<1>6. DiskInv'
  BY <1>1, <1>3 DEF IInv, DiskInv, Starting, Intact, EntryAt
<1> QED
  BY <1>2, <1>4, <1>5, <1>6 DEF IInv

LEMMA StartInv == ASSUME IInv, NEW bound \in Bounds, Start(bound) PROVE IInv'
<1>1. Old' = Old /\ phase \in Starting
  BY DEF Start, Old, Listed, savedLists, killings, Starting
<1>2. /\ phase' \in {"broken", "load_sizes", "clear"} /\ max' \in Nat /\ files' = Empty /\ opened' = {}
      /\ got' = [s \in Songs |-> None] /\ phase = "off"
      /\ UNCHANGED <<todo, disk, savedFiles, played, stale, vetoed>>
  BY Apart DEF Start, savedLists, killings
<1>3. TypeInv' /\ FreshInv'
  <2>1. IsCache(files)' /\ Linked(files)'
    BY <1>2, EmptySound DEF Sound
  <2>2. FreshInv'
    BY <1>2 DEF FreshInv, Fresh
  <2> QED
    BY <1>2, <2>1, <2>2 DEF IInv, TypeInv, Starting
<1>4. TodoInv' /\ LoadInv' /\ SessionInv'
  BY <1>2 DEF TodoInv, LoadInv, SessionInv, Ending
<1>5. SoundInv'
  BY <1>1, <1>2 DEF IInv, SoundInv, Ending
<1>6. DiskInv'
  BY <1>1, <1>2 DEF IInv, DiskInv, Starting, Intact, EntryAt
<1> QED
  BY <1>3, <1>4, <1>5, <1>6 DEF IInv

LEMMA StartToClearInv == ASSUME IInv, StartToClear PROVE IInv'
<1>1. phase \in Starting /\ phase' \in Starting \ {"clear_songs"}
  BY DEF StartToClear, Starting
<1>2. /\ UNCHANGED <<todo, max, files, opened, got, disk, savedFiles, played, stale, vetoed>>
  BY DEF StartToClear, memory, savedLists, killings
<1>3. todo' \in Lists
  BY <1>2 DEF IInv, TypeInv
<1>4. FreshInv'
  BY DEF StartToClear, FreshInv, savedLists, killings
<1> QED
  BY <1>1, <1>2, <1>3, <1>4, StartingKept

(* What reading the file of songs gives: all its entries are to be done.   *)
LEMMA ReadsAll ==
  ASSUME TypeInv, NEW then, Reads(savedFiles, then), UNCHANGED savedFiles
  PROVE  /\ \/ phase' = "broken" /\ todo' = todo
            \/ phase' = then /\ todo' = Old /\ savedFiles # Torn
         /\ Old' = Old /\ Old \in Lists /\ todo' \in Lists
<1>1. Old' = Old /\ Old \in Lists
  BY OldList DEF Old, Listed, TypeInv
<1>2. CASE savedFiles = Torn
  BY <1>1, <1>2 DEF Reads, TypeInv
<1>3. CASE savedFiles # Torn
  <2>1. phase' = then /\ todo' = IF savedFiles = None THEN <<>> ELSE savedFiles
    BY <1>3 DEF Reads
  <2>2. todo' = Old
    BY <1>3, <2>1 DEF Old, Listed
  <2> QED
    BY <1>1, <1>3, <2>1, <2>2
<1> QED
  BY <1>2, <1>3

LEMMA ReadFromStart ==
  ASSUME Old \in Lists, todo' = Old, Old' = Old
  PROVE  Len(Old) \in Nat /\ Done' = 0 /\ TodoInv'
<1>1. Len(Old) \in Nat
  BY ListNode
<1>2. Done' = Len(Old') - Len(todo')
  BY DEF Done
<1>3. Done' = 0
  BY <1>1, <1>2
<1>4. \A j \in 1 .. Len(Old) : 0 + j = j
  BY <1>1
<1> QED
  BY <1>1, <1>3, <1>4 DEF TodoInv, Continues

LEMMA ClearSizesInv == ASSUME IInv, ClearSizes PROVE IInv'
<1>1. /\ phase = "clear" /\ Reads(savedFiles, "clear_songs")
      /\ UNCHANGED <<max, files, opened, got, disk, savedFiles, played, stale, vetoed>>
  BY DEF ClearSizes, memory, killings
<1>2. TypeInv
  BY DEF IInv
<1>3. /\ \/ phase' = "broken" /\ todo' = todo
         \/ phase' = "clear_songs" /\ todo' = Old /\ savedFiles # Torn
      /\ Old' = Old /\ Old \in Lists /\ todo' \in Lists
  BY <1>1, <1>2, ReadsAll
<1>4. CASE phase' = "broken"
  <2>1. FreshInv'
    BY <1>4 DEF FreshInv
  <2> QED
    BY <1>1, <1>3, <1>4, <2>1, StartingKept DEF Starting
<1>5. CASE phase' = "clear_songs" /\ todo' = Old /\ savedFiles # Torn
  <2>1. Done' = 0 /\ Len(Old) \in Nat
    BY <1>3, <1>5, ReadFromStart
  <2>2. TypeInv' /\ FreshInv'
    <3>1. FreshInv'
      BY <1>1, <1>5 DEF ClearSizes, IInv, FreshInv, Fresh
    <3> QED
      BY <1>1, <1>3, <1>5, <3>1 DEF IInv, TypeInv, Starting, Linked, Defined
  <2>3. TodoInv'
    BY <1>3, <1>5, ReadFromStart
  <2>4. LoadInv' /\ SessionInv' /\ SoundInv'
    BY <1>1, <1>3, <1>5 DEF IInv, LoadInv, SessionInv, SoundInv, Ending
  <2>5. DiskInv'
    <3>1. Done' + 1 = 1
      BY <2>1
    <3>2. ~ vetoed => \A s \in Songs : Intact(s) => \E i \in 1 .. Len(Old) : EntryAt(i, s)
      BY <1>1, <1>3, <1>5 DEF IInv, TypeInv, DiskInv, Starting
    <3>3. \A s \in Songs : /\ Intact(s)' <=> Intact(s)
                           /\ \A i : EntryAt(i, s)' <=> EntryAt(i, s)
      BY <1>1, <1>3 DEF Intact, EntryAt
    <3> QED
      BY <1>1, <1>3, <1>5, <3>1, <3>2, <3>3 DEF DiskInv
  <2> QED
    BY <2>2, <2>3, <2>4, <2>5 DEF IInv
<1> QED
  BY <1>3, <1>4, <1>5

LEMMA ListTail ==
  ASSUME NEW l \in Lists, l # <<>>
  PROVE  /\ Len(l) \in Nat \ {0} /\ Head(l) = l[1] /\ Head(l) \in ListNodes
         /\ Tail(l) \in Lists /\ Len(Tail(l)) = Len(l) - 1
         /\ \A j \in 1 .. Len(l) - 1 : Tail(l)[j] = l[j + 1]
BY HeadTailProperties, EmptySeq, LenProperties DEF Lists

(* The next entry is done: the lists, and with the variables.              *)
LEMMA NextOfList ==
  ASSUME NEW l \in Lists, NEW old, NEW n \in Nat, NEW d \in Nat,
         l # <<>>, d = n - Len(l), Continues(l, old, d)
  PROVE  /\ n - Len(Tail(l)) = d + 1 /\ d + 1 \in 1 .. n /\ Head(l) = old[d + 1]
         /\ Head(l) \in ListNodes /\ Tail(l) \in Lists /\ Continues(Tail(l), old, d + 1)
<1> DEFINE m == Tail(l)
<1>1. /\ Len(l) \in Nat \ {0} /\ Head(l) = l[1] /\ Head(l) \in ListNodes
      /\ m \in Lists /\ Len(m) = Len(l) - 1
      /\ \A j \in 1 .. Len(l) - 1 : m[j] = l[j + 1]
  BY ListTail
<1> HIDE DEF m
<1>2. n - Len(m) = d + 1 /\ d + 1 \in 1 .. n /\ 1 \in 1 .. Len(l)
  BY <1>1
<1>3. \A j \in 1 .. Len(m) : m[j] = old[(d + 1) + j]
  <2> TAKE j \in 1 .. Len(m)
  <2>1. j \in 1 .. Len(l) - 1 /\ j + 1 \in 1 .. Len(l) /\ (d + 1) + j = d + (j + 1)
    BY <1>1
  <2> QED
    BY <1>1, <2>1 DEF Continues
<1> QED
  BY <1>1, <1>2, <1>3 DEF Continues, m

TakesNext == phase \in {"clear_songs", "load_files"} /\ todo # <<>> /\ todo' = Tail(todo)

LEMMA NextEntry ==
  ASSUME TypeInv, TodoInv, TakesNext, phase' = phase, Old' = Old
  PROVE  /\ Done \in Nat /\ Done' = Done + 1 /\ Done + 1 \in 1 .. Len(Old) /\ Len(Old) \in Nat
         /\ Head(todo) = Old[Done + 1] /\ Head(todo) \in ListNodes
         /\ todo' \in Lists /\ TodoInv'
<1>1. /\ todo \in Lists /\ Len(Old) \in Nat /\ Done \in Nat /\ Continues(todo, Old, Done)
      /\ todo # <<>> /\ todo' = Tail(todo)
  BY OldList DEF TypeInv, TodoInv, TakesNext
<1>2. Done = Len(Old) - Len(todo) /\ Done' = Len(Old) - Len(todo')
  BY DEF Done
<1>3. /\ Len(Old) - Len(Tail(todo)) = Done + 1 /\ Done + 1 \in 1 .. Len(Old)
      /\ Head(todo) = Old[Done + 1] /\ Head(todo) \in ListNodes
      /\ Tail(todo) \in Lists /\ Continues(Tail(todo), Old, Done + 1)
  BY <1>1, <1>2, NextOfList
<1>4. Done' = Done + 1
  BY <1>1, <1>2, <1>3
<1>5. TodoInv'
  BY <1>1, <1>3, <1>4 DEF TodoInv
<1> QED
  BY <1>1, <1>3, <1>4, <1>5

LEMMA ClearSongInv == ASSUME IInv, ClearSong PROVE IInv'
<1>1. /\ phase = "clear_songs" /\ phase' = phase /\ todo # <<>> /\ todo' = Tail(todo)
      /\ disk' = [disk EXCEPT ![Head(todo).key] = None] /\ stale' = stale \ {Head(todo).key}
      /\ UNCHANGED <<max, files, opened, got, savedFiles, played, vetoed>>
  BY DEF ClearSong, memory, savedLists, killings
<1>2. Old' = Old
  BY <1>1 DEF Old, Listed
<1>3. /\ Done \in Nat /\ Done' = Done + 1 /\ Done + 1 \in 1 .. Len(Old) /\ Len(Old) \in Nat
      /\ Head(todo) = Old[Done + 1] /\ Head(todo) \in ListNodes /\ todo' \in Lists /\ TodoInv'
  BY <1>1, <1>2, NextEntry DEF IInv, TakesNext
<1> DEFINE k == Head(todo).key
<1>4. k \in Songs /\ Old[Done + 1].key = k
  BY <1>3 DEF ListNodes
<1>5. /\ \A s \in Songs : disk'[s] = IF s = k THEN None ELSE disk[s]
      /\ stale' = stale \ {k}
  BY <1>1 DEF IInv, TypeInv
<1>6. TypeInv' /\ FreshInv'
  <2>0. FreshInv'
    BY <1>1 DEF ClearSong, savedLists, killings, IInv, FreshInv, Fresh
  <2>1. disk' \in [Songs -> Nat \cup {None}]
    BY <1>1 DEF IInv, TypeInv
  <2> QED
    BY <1>1, <1>3, <2>0, <2>1 DEF IInv, TypeInv, Starting, Linked, Defined
<1>7. LoadInv' /\ SessionInv' /\ SoundInv'
  BY <1>1, <1>2 DEF IInv, LoadInv, SessionInv, SoundInv, Ending
<1> HIDE DEF k
<1>8. ASSUME NEW s \in Songs, Intact(s)'
      PROVE  /\ Intact(s) /\ s # k /\ \A i : EntryAt(i, s)' <=> EntryAt(i, s)
             /\ \A i : EntryAt(i, s) => i # Done + 1
  <2>1. s # k /\ disk'[s] = disk[s]
    BY <1>5, <1>8 DEF Intact
  <2>2. Intact(s) /\ \A i : EntryAt(i, s)' <=> EntryAt(i, s)
    BY <1>2, <1>5, <1>8, <2>1 DEF Intact, EntryAt
  <2>3. \A i : EntryAt(i, s) => i # Done + 1
    BY <1>4, <2>1 DEF EntryAt, Entry
  <2> QED
    BY <2>1, <2>2, <2>3
<1>9. ASSUME ~ vetoed, NEW s \in Songs, Intact(s)'
      PROVE  \E i \in Done' + 1 .. Len(Old') : EntryAt(i, s)'
  <2>1. PICK i \in Done + 1 .. Len(Old) : EntryAt(i, s)
    BY <1>1, <1>8, <1>9 DEF IInv, DiskInv
  <2>2. i # Done + 1
    BY <1>8, <1>9, <2>1
  <2>3. i \in Done' + 1 .. Len(Old')
    BY <1>2, <1>3, <2>1, <2>2
  <2> QED
    BY <1>8, <1>9, <2>1, <2>3
<1>10. DiskInv'
  <2>1. \A i \in Done' + 1 .. Len(Old') : i \in 1 .. Len(Old')
    BY <1>2, <1>3
  <2> QED
    BY <1>1, <1>9, <2>1 DEF DiskInv
<1> QED
  BY <1>3, <1>6, <1>7, <1>10 DEF IInv

LEMMA ClearedInv == ASSUME IInv, Cleared PROVE IInv'
<1>1. /\ phase = "clear_songs" /\ todo = <<>> /\ savedFiles' = None /\ phase' \in {"off", "meta"}
      /\ UNCHANGED <<todo, max, files, opened, got, disk, played, stale, vetoed>>
  BY DEF Cleared, memory, killings
<1>2. Len(Old) \in Nat /\ Len(todo) = 0 /\ Done = Len(Old) - Len(todo)
  BY <1>1, OldList, EmptySound DEF IInv, TypeInv, Done
<1>3. Done + 1 .. Len(Old) = {}
  BY <1>2
<1>4. Old' = <<>> /\ Distinct(Old')
  <2>1. Old' = <<>>
    BY <1>1 DEF Old, Listed
  <2>2. Len(<<>>) = 0 /\ 1 .. 0 = {}
    BY EmptySound
  <2>3. Distinct(<<>>)
    BY <2>2 DEF Distinct
  <2> QED
    BY <2>1, <2>3
<1>5. TypeInv' /\ FreshInv'
  <2>1. FreshInv'
    BY <1>1 DEF Cleared, IInv, FreshInv, Fresh
  <2> QED
    BY <1>1, <2>1 DEF IInv, TypeInv, Starting, Linked, Defined
<1>6. ~ vetoed => \A s \in Songs : ~ Intact(s)
  BY <1>1, <1>3 DEF IInv, DiskInv
<1>7. DiskInv'
  BY <1>1, <1>6, Apart DEF DiskInv, Intact
<1> QED
  BY <1>1, <1>4, <1>5, <1>7 DEF IInv, TodoInv, LoadInv, SoundInv, SessionInv, Ending

LEMMA SaveMetaInv == ASSUME IInv, SaveMeta PROVE IInv'
<1>1. phase \in Starting /\ phase' \in Starting \ {"clear_songs"}
  BY DEF SaveMeta, Goes, Starting
<1>2. UNCHANGED <<todo, max, files, opened, got, disk, savedFiles, played, stale, vetoed>>
  BY DEF SaveMeta, memory, killings
<1>3. todo' \in Lists
  BY <1>2 DEF IInv, TypeInv
<1>4. FreshInv'
  BY <1>2 DEF SaveMeta, Goes, IInv, FreshInv, Fresh
<1> QED
  BY <1>1, <1>2, <1>3, <1>4, StartingKept

LEMMA LoadSizesInv == ASSUME IInv, LoadSizes PROVE IInv'
<1>1. phase \in Starting /\ phase' \in Starting \ {"clear_songs"}
  BY DEF LoadSizes, Starting
<1>2. UNCHANGED <<todo, max, files, opened, got, disk, savedFiles, played, stale, vetoed>>
  BY DEF LoadSizes, memory, savedLists, killings
<1>3. todo' \in Lists
  BY <1>2 DEF IInv, TypeInv
<1>4. FreshInv'
  BY <1>2 DEF LoadSizes, Goes, IInv, FreshInv, Fresh
<1> QED
  BY <1>1, <1>2, <1>3, <1>4, StartingKept
-----------------------------------------------------------------------------
(* The cache is loaded.                                                    *)
LEMMA OpenFilesInv == ASSUME IInv, OpenFiles PROVE IInv'
<1>1. /\ phase = "open_files" /\ Reads(savedFiles, "load_files")
      /\ UNCHANGED <<max, files, opened, got, disk, savedFiles, played, stale, vetoed>>
  BY DEF OpenFiles, memory, savedLists, killings
<1>2. TypeInv /\ Fresh
  BY <1>1 DEF IInv, FreshInv
<1>3. /\ \/ phase' = "broken" /\ todo' = todo
         \/ phase' = "load_files" /\ todo' = Old /\ savedFiles # Torn
      /\ Old' = Old /\ Old \in Lists /\ todo' \in Lists
  BY <1>1, <1>2, ReadsAll
<1>4. CASE phase' = "broken"
  <2>1. FreshInv'
    BY <1>4 DEF FreshInv
  <2> QED
    BY <1>1, <1>3, <1>4, <2>1, StartingKept DEF Starting
<1>5. CASE phase' = "load_files" /\ todo' = Old /\ savedFiles # Torn
  <2>1. Done' = 0 /\ Len(Old) \in Nat /\ TodoInv'
    BY <1>3, <1>5, ReadFromStart
  <2>2. TypeInv' /\ FreshInv' /\ SessionInv' /\ SoundInv'
    BY <1>1, <1>3, <1>5 DEF IInv, TypeInv, FreshInv, SessionInv, SoundInv, Starting, Ending, Linked, Defined
  <2>3. LoadInv'
    <3>1. Sound(files)' /\ Len(files'.list) = 0 /\ max' \in Nat
      BY <1>1, <1>2, EmptySound DEF Fresh, TypeInv
    <3>2. Loads(files', Old', Done', max')
      BY <2>1, <3>1 DEF Loads
    <3> QED
      BY <1>1, <1>2, <1>3, <1>5, <3>1, <3>2 DEF LoadInv, Fresh
  <2>4. DiskInv'
    <3>1. Done' - Len(files'.list) + 1 = 1
      BY <1>1, <1>2, <2>1, EmptySound DEF Fresh
    <3>2. ~ vetoed => \A s \in Songs : Intact(s) => \E i \in 1 .. Len(Old) : EntryAt(i, s)
      BY <1>1, <1>3, <1>5 DEF IInv, TypeInv, DiskInv, Starting
    <3>3. \A s \in Songs : /\ Intact(s)' <=> Intact(s)
                           /\ \A i : EntryAt(i, s)' <=> EntryAt(i, s)
      BY <1>1, <1>3 DEF Intact, EntryAt
    <3> QED
      BY <1>1, <1>3, <1>5, <3>1, <3>2, <3>3 DEF DiskInv
  <2> QED
    BY <2>1, <2>2, <2>3, <2>4 DEF IInv
<1> QED
  BY <1>3, <1>4, <1>5

LEMMA SoundSize ==
  ASSUME NEW c, Sound(c)
  PROVE  /\ c.list \in Lists /\ Len(c.list) \in Nat /\ IsFiniteSet(c.map)
         /\ Cardinality(c.map) = Len(c.list)
BY CacheFields, ListNode, TidySize DEF Sound, IsCache

(* One entry more is put.  Entries whose song is not evicted are among     *)
(* those put and kept, or not put yet.                                     *)
StillThere(c, old, d, p) ==
  \A i \in d - Len(c.list) + 1 .. Len(old) :
    old[i].key \notin p.evicted => i \in (d + 1) - Len(p.cache.list) + 1 .. Len(old)

LEMMA LoadsNext ==
  ASSUME NEW old \in Lists, NEW d \in Nat, NEW bound \in Nat, NEW c, NEW p,
         Sound(c), Distinct(old), d + 1 \in 1 .. Len(old), Loads(c, old, d, bound),
         p = Put(c, old[d + 1].key, old[d + 1].value, bound, {})
  PROVE  Loads(p.cache, old, d + 1, bound) /\ StillThere(c, old, d, p)
<1> DEFINE k == old[d + 1].key
           v == old[d + 1].value
           n == Len(c.list)
           l == p.cache.list
<1>1. n \in Nat /\ Len(old) \in Nat /\ n <= d /\ n <= bound
  BY SoundSize, ListNode DEF Loads
<1>2. /\ k \in Songs /\ v \in Nat /\ old[d + 1] = [key |-> k, value |-> v]
  BY ListNode DEF ListNodes
<1>3. \A j \in 1 .. n : c.list[j] = old[d + 1 - j] /\ d + 1 - j \in 1 .. Len(old)
  <2>1. \A j \in 1 .. n : c.list[j] = old[d + 1 - j]
    BY DEF Loads
  <2>2. \A j \in 1 .. n : d + 1 - j \in 1 .. Len(old)
    <3> HIDE DEF n, k, v, l
    <3> QED
      BY <1>1
  <2> QED
    BY <2>1, <2>2
<1>4. k \notin c.map
  <2> SUFFICES ASSUME k \in c.map PROVE FALSE
    OBVIOUS
  <2>1. PICK j \in 1 .. n : c.list[j].key = k
    BY DEF Sound, Tidy
  <2>2. d + 1 - j = d + 1
    BY <1>3, <2>1 DEF Distinct
  <2> QED
    BY <1>1, <2>2
<1> HIDE DEF k, v
<1>5. /\ Len(l) = IF n < bound THEN n + 1 ELSE bound
      /\ \A j \in 1 .. Len(l) : l[j] = IF j = 1 THEN old[d + 1] ELSE c.list[j - 1]
      /\ n = bound => p.evicted = {IF bound = 0 THEN k ELSE c.list[bound].key}
  BY <1>1, <1>2, <1>4, PutNew, SMTT(30) DEF k, v
<1> HIDE DEF l
<1>a. Len(l) \in Nat /\ Len(l) <= n + 1
  BY <1>1, <1>5
<1>6. Len(l) = IF d + 1 <= bound THEN d + 1 ELSE bound
  BY <1>1, <1>5 DEF Loads
<1>7. ASSUME NEW j \in 1 .. Len(l) PROVE l[j] = old[(d + 1) + 1 - j]
  <2>1. CASE j = 1
    BY <1>5, <2>1
  <2>2. CASE j # 1
    <3>1. j - 1 \in 1 .. n /\ d + 1 - (j - 1) = (d + 1) + 1 - j
      <4> HIDE DEF n
      <4> QED
        BY <1>1, <1>a, <2>2
    <3> QED
      BY <1>3, <1>5, <2>2, <3>1
  <2> QED
    BY <2>1, <2>2
<1>8. ASSUME NEW i \in d - n + 1 .. Len(old), old[i].key \notin p.evicted
      PROVE  i \in (d + 1) - Len(l) + 1 .. Len(old)
  <2>1. CASE n < bound
    BY <1>1, <1>5, <2>1
  <2>2. CASE n = bound
    <3>1. p.evicted = {old[d - n + 1].key}
      <4>1. CASE bound = 0
        BY <1>5, <2>2, <4>1 DEF k
      <4>2. CASE bound # 0
        <5>1. n \in 1 .. n /\ d + 1 - n = d - n + 1
          BY <1>1, <2>2, <4>2
        <5> QED
          BY <1>3, <1>5, <2>2, <4>2, <5>1
      <4> QED
        BY <4>1, <4>2
    <3>2. i # d - n + 1
      BY <1>8, <3>1
    <3> QED
      BY <1>1, <1>5, <2>2, <3>2
  <2> QED
    BY <1>1, <2>1, <2>2
<1> QED
  BY <1>6, <1>7, <1>8 DEF l, Loads, StillThere

LEMMA LoadFileInv == ASSUME IInv, LoadFile PROVE IInv'
<1>1. /\ phase = "load_files" /\ phase' = phase /\ todo # <<>> /\ todo' = Tail(todo)
      /\ PutSize(Head(todo).key, Head(todo).value, opened)
      /\ UNCHANGED <<max, opened, got, savedFiles, played>>
  BY DEF LoadFile, savedLists, killings
<1>2. Old' = Old /\ Old \in Lists /\ max \in Nat
  BY <1>1, OldList DEF Old, Listed, IInv, TypeInv
<1>3. /\ Done \in Nat /\ Done' = Done + 1 /\ Done + 1 \in 1 .. Len(Old) /\ Len(Old) \in Nat
      /\ Head(todo) = Old[Done + 1] /\ Head(todo) \in ListNodes /\ todo' \in Lists /\ TodoInv'
  BY <1>1, <1>2, NextEntry DEF IInv, TakesNext
<1>4. /\ opened = {} /\ got = [s \in Songs |-> None] /\ Sound(files) /\ Len(files.list) <= max
      /\ Distinct(Old) => Loads(files, Old, Done, max)
  BY <1>1 DEF IInv, LoadInv
<1> DEFINE k == Head(todo).key
           v == Head(todo).value
           p == Put(files, k, v, max, {})
<1>5. /\ files' = p.cache /\ vetoed' = (vetoed \/ Cardinality(p.cache.map) > max)
      /\ disk' = [t \in Songs |-> IF t \in p.evicted THEN None ELSE disk[t]]
      /\ stale' = stale \ p.evicted
  BY <1>1, <1>4 DEF PutSize
<1>6. k \in Songs /\ v \in Nat
  BY <1>3 DEF ListNodes
<1> HIDE DEF k, v
<1>7. Cardinality(files.map) <= max
  BY <1>4, SoundSize
<1>8. Sound(p.cache) /\ Cardinality(p.cache.map) <= max
  BY <1>2, <1>4, <1>6, <1>7, PutSound, PutEvicts
<1>9. Distinct(Old) => Loads(p.cache, Old, Done + 1, max) /\ StillThere(files, Old, Done, p)
  <2> SUFFICES ASSUME Distinct(Old)
               PROVE  Loads(p.cache, Old, Done + 1, max) /\ StillThere(files, Old, Done, p)
    OBVIOUS
  <2>1. p = Put(files, Old[Done + 1].key, Old[Done + 1].value, max, {})
    BY <1>3 DEF k, v
  <2>2. Loads(files, Old, Done, max)
    BY <1>4
  <2> HIDE DEF p
  <2> QED
    BY <1>2, <1>3, <1>4, <2>1, <2>2, LoadsNext
<1> HIDE DEF p
<1>10. Sound(files') /\ Cardinality(files'.map) <= max /\ Len(files'.list) <= max
  <2>1. Cardinality(p.cache.map) = Len(p.cache.list)
    BY <1>8, SoundSize
  <2> QED
    BY <1>5, <1>8, <2>1
<1>11. Cardinality(p.cache.map) \in Nat
  BY <1>8, SoundSize
<1>12. vetoed' = vetoed
  <2>1. ~ (Cardinality(p.cache.map) > max)
    BY <1>2, <1>8, <1>11
  <2> QED
    BY <1>5, <2>1 DEF IInv, TypeInv
<1>13. \A s \in Songs : disk'[s] = IF s \in p.evicted THEN None ELSE disk[s]
  BY <1>5
<1>14. TypeInv'
  <2>1. disk' \in [Songs -> Nat \cup {None}]
    BY <1>5 DEF IInv, TypeInv
  <2>2. IsCache(files') /\ Linked(files')
    BY <1>10, SoundLinked
  <2> QED
    BY <1>1, <1>3, <1>12, <2>1, <2>2 DEF IInv, TypeInv
<1>15. FreshInv' /\ SessionInv'
  BY <1>1 DEF FreshInv, SessionInv, Ending
<1>16. LoadInv'
  BY <1>1, <1>2, <1>3, <1>4, <1>5, <1>9, <1>10 DEF IInv, LoadInv
<1>17. SoundInv'
  BY <1>1, <1>2, <1>12 DEF IInv, SoundInv, Ending
<1>18. ASSUME ~ vetoed, NEW s \in Songs, Intact(s)'
       PROVE  \E i \in Done' - Len(files'.list) + 1 .. Len(Old') : i \in 1 .. Len(Old') /\ EntryAt(i, s)'
  <2>1. s \notin p.evicted /\ disk'[s] = disk[s] /\ Intact(s)
    BY <1>5, <1>13, <1>18 DEF Intact
  <2>2. PICK i \in Done - Len(files.list) + 1 .. Len(Old) : EntryAt(i, s)
    BY <1>1, <1>18, <2>1 DEF IInv, DiskInv
  <2>3. i \in 1 .. Len(Old) /\ Old[i] = Entry(s, disk[s]) /\ Old[i].key = s
    BY <2>2 DEF EntryAt, Entry
  <2>4. Distinct(Old)
    BY <1>18 DEF IInv, SoundInv
  <2>5. i \in (Done + 1) - Len(p.cache.list) + 1 .. Len(Old)
    BY <1>9, <2>1, <2>2, <2>3, <2>4 DEF StillThere
  <2>6. i \in Done' - Len(files'.list) + 1 .. Len(Old')
    BY <1>2, <1>3, <1>5, <2>5
  <2> QED
    BY <1>2, <2>1, <2>3, <2>6 DEF EntryAt
<1>19. DiskInv'
  <2> QED
    BY <1>1, <1>12, <1>18 DEF DiskInv
<1> QED
  BY <1>3, <1>14, <1>15, <1>16, <1>17, <1>19 DEF IInv

LEMMA LoadedInv == ASSUME IInv, Loaded PROVE IInv'
<1>1. /\ phase = "load_files" /\ phase' = "running" /\ todo = <<>>
      /\ UNCHANGED <<todo, max, files, opened, got, disk, savedFiles, played, stale, vetoed>>
  BY DEF Loaded, Goes, memory, savedLists, killings
<1>2. Old' = Old /\ Old \in Lists /\ Len(Old) \in Nat
  BY <1>1, OldList DEF Old, Listed, IInv, TypeInv
<1>3. Done = Len(Old)
  BY <1>1, <1>2, EmptySound DEF Done
<1>4. /\ opened = {} /\ got = [s \in Songs |-> None] /\ Sound(files) /\ Len(files.list) <= max
      /\ Distinct(Old) => Loads(files, Old, Done, max)
  BY <1>1 DEF IInv, LoadInv
<1>5. TypeInv' /\ FreshInv' /\ TodoInv' /\ LoadInv'
  BY <1>1 DEF IInv, TypeInv, FreshInv, TodoInv, LoadInv, Starting, Linked, Defined
<1>6. SoundInv'
  BY <1>1, <1>2, <1>4 DEF IInv, SoundInv
<1>7. DiskInv'
  BY <1>1, <1>2 DEF IInv, DiskInv, Intact, EntryAt
<1>8. ASSUME ~ vetoed, NEW s \in Songs PROVE SongInv(s)'
  <2>1. Distinct(Old)
    BY <1>8 DEF IInv, SoundInv
  <2>2. Loads(files, Old, Done, max) /\ Len(files.list) \in Nat /\ files.list \in Lists
    BY <1>4, <2>1, SoundSize
  <2>3. ASSUME Intact(s) PROVE s \in files.map /\ Has(files.list, s, disk[s])
    <3>1. PICK i \in Done - Len(files.list) + 1 .. Len(Old) : EntryAt(i, s)
      BY <1>1, <1>8, <2>3 DEF IInv, DiskInv
    <3>2. PICK j \in 1 .. Len(files.list) : j = Len(Old) + 1 - i
      <4>1. i \in Len(Old) - Len(files.list) + 1 .. Len(Old)
        BY <1>3, <3>1
      <4>2. \A n, o \in Nat : \A h \in o - n + 1 .. o : o + 1 - h \in 1 .. n
        OBVIOUS
      <4> QED
        BY <1>2, <2>2, <4>1, <4>2
    <3>3. Done + 1 - j = i
      BY <1>2, <1>3, <2>2, <3>1, <3>2
    <3>4. files.list[j] = Entry(s, disk[s])
      BY <2>2, <3>1, <3>3 DEF Loads, EntryAt
    <3>5. files.list[j].key = s /\ files.list[j].value = disk[s]
      BY <3>4 DEF Entry
    <3>6. s \in files.map /\ FirstAt(files.list, s, j)
      <4>1. /\ \A a, b \in 1 .. Len(files.list) : files.list[a].key = files.list[b].key => a = b
            /\ \A a \in 1 .. Len(files.list) : files.list[a].key \in files.map
        BY <1>4 DEF Sound, Tidy
      <4> QED
        BY <2>2, <3>2, <3>5, <4>1 DEF FirstAt
    <3> QED
      BY <3>5, <3>6 DEF Has
  <2>4. got[s] = None
    BY <1>4
  <2> QED
    BY <1>1, <2>3, <2>4 DEF SongInv, Intact
<1>9. SessionInv'
  BY <1>1, <1>8 DEF SessionInv
<1> QED
  BY <1>5, <1>6, <1>7, <1>9 DEF IInv
-----------------------------------------------------------------------------
(* A session.                                                              *)
LEMMA SessionStep ==
  ASSUME IInv, Running, Session, IsCache(files'), Defined(files') => Linked(files'),
         got' \in [Songs -> (0 .. FullSize) \cup {None}], disk' \in [Songs -> Nat \cup {None}],
         opened' \subseteq Songs, vetoed' \in BOOLEAN, vetoed => vetoed',
         played' \subseteq Songs, played \subseteq played',
         ~ vetoed' => /\ Sound(files') /\ Len(files'.list) <= max
                      /\ \A s \in Songs : SongInv(s)'
                      /\ \A s \in Songs \ played' : Intact(s)' => Intact(s) /\ disk'[s] = disk[s]
  PROVE  IInv'
<1>1. phase = "running" /\ UNCHANGED <<phase, todo, max, savedFiles>>
  BY DEF Running, Session, savedLists, killings
<1>2. Old' = Old
  BY <1>1 DEF Old, Listed
<1>3. IsCache(files)' /\ (Defined(files)' => Linked(files)')
  OBVIOUS
<1>4. TypeInv'
  BY <1>1, <1>3 DEF IInv, TypeInv, Starting
<1>5. FreshInv' /\ TodoInv' /\ LoadInv'
  BY <1>1 DEF FreshInv, TodoInv, LoadInv
<1>6. SoundInv'
  BY <1>1, <1>2 DEF IInv, SoundInv
<1>7. DiskInv'
  <2> SUFFICES ASSUME ~ vetoed', savedFiles # Torn, NEW s \in Songs \ played', Intact(s)'
               PROVE  \E i \in 1 .. Len(Old) : EntryAt(i, s)'
    BY <1>1, <1>2 DEF DiskInv
  <2>1. Intact(s) /\ disk'[s] = disk[s] /\ s \in Songs \ played /\ ~ vetoed
    OBVIOUS
  <2>2. PICK i \in 1 .. Len(Old) : EntryAt(i, s)
    BY <2>1 DEF IInv, DiskInv
  <2> QED
    BY <1>2, <2>1, <2>2 DEF EntryAt
<1>8. SessionInv'
  BY <1>1 DEF SessionInv
<1> QED
  BY <1>4, <1>5, <1>6, <1>7, <1>8 DEF IInv

LEMMA RunningState ==
  ASSUME IInv, Running
  PROVE  /\ phase = "running" /\ max \in Nat /\ IsCache(files) /\ Linked(files) /\ Defined(files)
         /\ got \in [Songs -> (0 .. FullSize) \cup {None}] /\ disk \in [Songs -> Nat \cup {None}]
         /\ opened \subseteq Songs /\ played \subseteq Songs /\ vetoed \in BOOLEAN /\ files.list \in Lists
         /\ ~ vetoed => Sound(files) /\ Len(files.list) <= max /\ Cardinality(files.map) <= max
         /\ ~ vetoed => \A s \in Songs : SongInv(s)
<1>1. /\ phase = "running" /\ max \in Nat /\ IsCache(files) /\ Linked(files) /\ Defined(files)
      /\ got \in [Songs -> (0 .. FullSize) \cup {None}] /\ disk \in [Songs -> Nat \cup {None}]
      /\ opened \subseteq Songs /\ played \subseteq Songs /\ vetoed \in BOOLEAN
  BY DEF IInv, TypeInv, Running, Defined
<1>2. files.list \in Lists
  BY <1>1, CacheFields DEF IsCache
<1>3. ~ vetoed => Sound(files) /\ Len(files.list) <= max
  BY <1>1 DEF IInv, SoundInv
<1>4. ~ vetoed => Cardinality(files.map) <= max
  BY <1>3, SoundSize
<1>5. ~ vetoed => \A s \in Songs : SongInv(s)
  BY <1>1 DEF IInv, SessionInv
<1> QED
  BY <1>1, <1>2, <1>3, <1>4, <1>5

LEMMA HasKey ==
  ASSUME NEW c, Sound(c), NEW t, NEW v, Has(c.list, t, v)
  PROVE  t \in c.map
<1>1. PICK i \in 1 .. Len(c.list) : FirstAt(c.list, t, i)
  BY DEF Has
<1>2. c.list[i].key = t
  BY <1>1 DEF FirstAt
<1>3. c.list[i].key \in c.map
  BY DEF Sound, Tidy
<1> QED
  BY <1>2, <1>3

(* Of a sound cache that keeps the values of another: it has no others.    *)
LEMMA KeptBack ==
  ASSUME NEW c, NEW d, Sound(c), Sound(d), NEW S, KeepsValues(c, d, S),
         NEW t, t \notin S, NEW v, Has(d.list, t, v)
  PROVE  Has(c.list, t, v)
<1>1. c.list \in Lists /\ d.list \in Lists /\ c.dangling = {} /\ d.dangling = {} /\ Linked(c)
  BY SoundSize, SoundLinked DEF Sound
<1>2. t \in d.map
  BY HasKey
<1>3. t \in c.map /\ \A w : Has(c.list, t, w) => Has(d.list, t, w)
  BY <1>1, <1>2 DEF KeepsValues
<1>4. PICK w \in Nat : Has(c.list, t, w)
  BY <1>1, <1>3 DEF Linked
<1>5. w = v
  BY <1>1, <1>3, <1>4, HasOne
<1> QED
  BY <1>4, <1>5

LEMMA PutSizeIs ==
  ASSUME IInv, Running, NEW s \in Songs, NEW size \in Nat, NEW kept, PutSize(s, size, kept)
  PROVE  /\ IsCache(files') /\ (Defined(files') => Linked(files'))
         /\ disk' \in [Songs -> Nat \cup {None}] /\ vetoed' \in BOOLEAN /\ (vetoed => vetoed')
         /\ ~ vetoed' =>
              /\ Sound(files') /\ Len(files'.list) <= max
              /\ \A t \in Songs : Intact(t)' =>
                   Intact(t) /\ disk'[t] = disk[t] /\ (t \in files.map \cup {s} => t \in files'.map)
              /\ \A t \in Songs, v \in Nat : t # s =>
                   /\ Has(files'.list, t, v) => Has(files.list, t, v)
                   /\ Has(files.list, t, v) /\ t \in files'.map => Has(files'.list, t, v)
              /\ \A v \in Nat : Has(files'.list, s, v) => v = size
              /\ s \in files'.map => Has(files'.list, s, size)
<1> DEFINE p == Put(files, s, size, max, kept)
<1>1. /\ files' = p.cache /\ vetoed' = (vetoed \/ Cardinality(p.cache.map) > max)
      /\ disk' = [t \in Songs |-> IF t \in p.evicted THEN None ELSE disk[t]]
      /\ stale' = stale \ p.evicted
  BY DEF PutSize
<1>2. /\ max \in Nat /\ IsCache(files) /\ Linked(files) /\ Defined(files) /\ vetoed \in BOOLEAN
      /\ disk \in [Songs -> Nat \cup {None}]
      /\ ~ vetoed => Sound(files) /\ Len(files.list) <= max /\ Cardinality(files.map) <= max
  BY RunningState
<1>3. /\ IsCache(p.cache)
      /\ Defined(p.cache) =>
           /\ Linked(p.cache) /\ KeepsValues(files, p.cache, {s})
           /\ s \in p.cache.map \ p.cache.dangling => Has(p.cache.list, s, size)
  BY <1>2, PutKeeps
<1>4. ~ vetoed => Sound(p.cache) /\ (files.map \cup {s}) \ p.cache.map \subseteq p.evicted
  BY <1>2, PutSound, PutEvicts
<1> HIDE DEF p
<1>5. disk' \in [Songs -> Nat \cup {None}]
  BY <1>1, <1>2
<1>6. vetoed' \in BOOLEAN /\ (vetoed => vetoed')
  BY <1>1, <1>2
<1>7. ASSUME ~ vetoed'
      PROVE  /\ Sound(files') /\ Len(files'.list) <= max
             /\ \A t \in Songs : Intact(t)' =>
                  Intact(t) /\ disk'[t] = disk[t] /\ (t \in files.map \cup {s} => t \in files'.map)
             /\ \A t \in Songs, v \in Nat : t # s =>
                  /\ Has(files'.list, t, v) => Has(files.list, t, v)
                  /\ Has(files.list, t, v) /\ t \in files'.map => Has(files'.list, t, v)
             /\ \A v \in Nat : Has(files'.list, s, v) => v = size
             /\ s \in files'.map => Has(files'.list, s, size)
  <2>1. ~ vetoed /\ ~ (Cardinality(p.cache.map) > max)
    BY <1>1, <1>7
  <2>2. /\ Sound(files) /\ Sound(files') /\ KeepsValues(files, files', {s})
        /\ files'.dangling = {} /\ files'.list \in Lists
    BY <1>1, <1>2, <1>3, <1>4, <2>1, SoundSize DEF Sound
  <2>3. Len(files'.list) <= max
    <3>1. Cardinality(files'.map) = Len(files'.list) /\ Len(files'.list) \in Nat
      BY <2>2, SoundSize
    <3> QED
      BY <1>1, <1>2, <2>1, <3>1
  <2>4. \A t \in Songs : Intact(t)' =>
          Intact(t) /\ disk'[t] = disk[t] /\ (t \in files.map \cup {s} => t \in files'.map)
    BY <1>1, <1>4, <2>1 DEF Intact
  <2>5. ASSUME NEW t \in Songs, NEW v \in Nat, t # s
        PROVE  /\ Has(files'.list, t, v) => Has(files.list, t, v)
               /\ Has(files.list, t, v) /\ t \in files'.map => Has(files'.list, t, v)
    <3>1. Has(files'.list, t, v) => Has(files.list, t, v)
      BY <2>2, <2>5, KeptBack
    <3>2. t \in files'.map => t \in (files'.map \ files'.dangling) \ {s}
      BY <2>2, <2>5
    <3> QED
      BY <2>2, <3>1, <3>2 DEF KeepsValues
  <2>6. s \in files'.map => Has(files'.list, s, size)
    BY <1>1, <1>3, <2>2 DEF Sound
  <2>7. ASSUME NEW v \in Nat, Has(files'.list, s, v) PROVE v = size
    <3>1. s \in files'.map
      BY <2>2, <2>7, HasKey
    <3> QED
      BY <2>2, <2>6, <2>7, <3>1, HasOne
  <2> QED
    BY <2>2, <2>3, <2>4, <2>5, <2>6, <2>7
<1>8. IsCache(files') /\ (Defined(files') => Linked(files'))
  BY <1>1, <1>3
<1> QED
  BY <1>5, <1>6, <1>7, <1>8

(* get moves an entry.                                                     *)
LEMMA GetIsThat ==
  ASSUME IInv, Running, NEW s \in files.map, files' = Get(files, s)
  PROVE  /\ IsCache(files') /\ (Defined(files') => Linked(files'))
         /\ ~ vetoed =>
              /\ Sound(files') /\ Len(files'.list) <= max /\ files'.map = files.map
              /\ \A t \in Songs, v \in Nat : Has(files'.list, t, v) <=> Has(files.list, t, v)
<1>1. /\ IsCache(files) /\ Linked(files) /\ Defined(files) /\ max \in Nat
      /\ ~ vetoed => Sound(files) /\ Len(files.list) <= max /\ Cardinality(files.map) <= max
  BY RunningState
<1>2. IsCache(files') /\ (Defined(files') => Linked(files'))
  <2>1. CASE Uses(files, s)
    <3>1. files' = [files EXCEPT !.undefined = TRUE]
      BY <2>1 DEF Get
    <3> QED
      BY <1>1, <3>1, CacheUndefined DEF Defined
  <2>2. CASE ~ Uses(files, s)
    <3>1. s \notin files.dangling
      BY <2>2 DEF Uses
    <3> QED
      BY <1>1, <3>1, GetIs, GetKeeps
  <2> QED
    BY <2>1, <2>2
<1>3. ASSUME ~ vetoed
      PROVE  /\ Sound(files') /\ Len(files'.list) <= max /\ files'.map = files.map
             /\ \A t \in Songs, v \in Nat : Has(files'.list, t, v) <=> Has(files.list, t, v)
  <2>1. Sound(files) /\ Sound(files') /\ files'.map = files.map
    BY <1>1, <1>3, GetSound
  <2>2. files.dangling = {} /\ files'.dangling = {}
    BY <2>1 DEF Sound
  <2>3. KeepsValues(files, files', {})
    BY <1>1, <2>2, GetKeeps
  <2>4. Len(files'.list) <= max
    BY <1>1, <1>3, <2>1, SoundSize
  <2>5. ASSUME NEW t \in Songs, NEW v \in Nat
        PROVE  Has(files'.list, t, v) <=> Has(files.list, t, v)
    <3>1. Has(files'.list, t, v) => Has(files.list, t, v)
      BY <2>1, <2>3, KeptBack
    <3>2. ASSUME Has(files.list, t, v) PROVE Has(files'.list, t, v)
      <4>1. t \in files.map
        BY <2>1, <3>2, HasKey
      <4> QED
        BY <2>1, <2>2, <2>3, <3>2, <4>1 DEF KeepsValues
    <3> QED
      BY <3>1, <3>2
  <2> QED
    BY <2>1, <2>4, <2>5
<1> QED
  BY <1>2, <1>3

LEMMA GetFilenameInv == ASSUME IInv, NEW s \in Songs, GetFilename(s) PROVE IInv'
<1>1. /\ Running /\ Session /\ got' = got /\ played' = played /\ opened' = opened \cup {s}
  BY DEF GetFilename
<1>2. /\ phase = "running" /\ phase' = phase
      /\ got' \in [Songs -> (0 .. FullSize) \cup {None}] /\ disk \in [Songs -> Nat \cup {None}]
      /\ opened' \subseteq Songs /\ played' \subseteq Songs /\ vetoed \in BOOLEAN
      /\ ~ vetoed => \A t \in Songs : SongInv(t)
  BY <1>1, RunningState DEF Session
<1>3. CASE s \in files.map /\ disk[s] # None
  <2>1. files' = Get(files, s) /\ UNCHANGED <<disk, stale, vetoed>>
    BY <1>3 DEF GetFilename
  <2>2. /\ IsCache(files') /\ (Defined(files') => Linked(files'))
        /\ ~ vetoed =>
             /\ Sound(files') /\ Len(files'.list) <= max /\ files'.map = files.map
             /\ \A t \in Songs, v \in Nat : Has(files'.list, t, v) <=> Has(files.list, t, v)
    BY <1>1, <1>3, <2>1, GetIsThat
  <2>3. ASSUME ~ vetoed, NEW t \in Songs PROVE SongInv(t)'
    <3>1. disk[t] # None => disk[t] \in Nat
      BY <1>2
    <3>2. SongInv(t)
      BY <1>2, <2>3
    <3> QED
      BY <1>1, <1>2, <2>1, <2>2, <2>3, <3>1, <3>2 DEF SongInv, Intact
  <2>4. \A t \in Songs : Intact(t)' => Intact(t) /\ disk'[t] = disk[t]
    BY <2>1 DEF Intact
  <2> QED
    BY <1>1, <1>2, <2>1, <2>2, <2>3, <2>4, SessionStep
<1>4. CASE ~ (s \in files.map /\ disk[s] # None)
  <2>1. PutSize(s, 0, opened')
    BY <1>4 DEF GetFilename
  <2>2. /\ IsCache(files') /\ (Defined(files') => Linked(files'))
        /\ disk' \in [Songs -> Nat \cup {None}] /\ vetoed' \in BOOLEAN /\ (vetoed => vetoed')
        /\ ~ vetoed' =>
             /\ Sound(files') /\ Len(files'.list) <= max
             /\ \A t \in Songs : Intact(t)' =>
                  Intact(t) /\ disk'[t] = disk[t] /\ (t \in files.map \cup {s} => t \in files'.map)
             /\ \A t \in Songs, v \in Nat : t # s =>
                  /\ Has(files'.list, t, v) => Has(files.list, t, v)
                  /\ Has(files.list, t, v) /\ t \in files'.map => Has(files'.list, t, v)
             /\ \A v \in Nat : Has(files'.list, s, v) => v = 0
    BY <1>1, <2>1, PutSizeIs
  <2>3. ASSUME ~ vetoed', NEW t \in Songs PROVE SongInv(t)'
    <3>1. ~ vetoed /\ SongInv(t) /\ SongInv(s) /\ (disk[t] # None => disk[t] \in Nat)
      BY <1>2, <2>2, <2>3
    <3>2. ~ Intact(s)
      BY <1>4, <3>1 DEF SongInv, Intact
    <3>3. CASE t = s
      <4>1. ~ Intact(t)'
        BY <2>2, <2>3, <3>2, <3>3
      <4>2. \A v \in Nat : Has(files'.list, t, v) => v # FullSize
        BY <2>2, <2>3, <3>3, Apart
      <4> QED
        BY <1>1, <1>2, <3>1, <3>3, <4>1, <4>2 DEF SongInv
    <3>4. CASE t # s
      <4>1. ASSUME Intact(t)'
            PROVE  /\ t \in files'.map /\ (got'[t] = None => Has(files'.list, t, disk'[t]))
                   /\ (got'[t] # None => disk'[t] = got'[t])
        <5>1. disk'[t] = disk[t] /\ Intact(t) /\ disk[t] \in Nat
          BY <2>2, <2>3, <3>1, <4>1 DEF Intact
        <5>2. t \in files.map /\ t \in files'.map
          BY <2>2, <2>3, <3>1, <4>1, <5>1 DEF SongInv, Intact
        <5> QED
          BY <1>1, <2>2, <2>3, <3>1, <3>4, <5>1, <5>2 DEF SongInv
      <4>2. got'[t] # None => /\ phase' = "running" /\ t \in opened' /\ t \in played'
                              /\ \A v \in Nat : Has(files'.list, t, v) => v # FullSize
        BY <1>1, <1>2, <2>2, <2>3, <3>1, <3>4 DEF SongInv
      <4> QED
        BY <4>1, <4>2 DEF SongInv
    <3> QED
      BY <3>3, <3>4
  <2>4. ~ vetoed' => \A t \in Songs : Intact(t)' => Intact(t) /\ disk'[t] = disk[t]
    BY <2>2
  <2> QED
    BY <1>1, <1>2, <2>2, <2>3, <2>4, SessionStep
<1> QED
  BY <1>3, <1>4

LEMMA OpenFileInv == ASSUME IInv, NEW s \in Songs, OpenFile(s) PROVE IInv'
<1> DEFINE value == ValueOf(files, s)
<1>1. /\ Running /\ Session /\ s \in opened /\ s \in files.map /\ got[s] = None
      /\ s \notin files.dangling /\ value < FullSize /\ files' = Get(files, s)
      /\ got' = [got EXCEPT ![s] = value]
      /\ disk' = [disk EXCEPT ![s] = IF value = 0 THEN 0 ELSE @]
      /\ played' = played \cup {s}
      /\ stale' = IF value = 0 THEN stale \ {s} ELSE stale
      /\ UNCHANGED <<opened, vetoed>>
  BY DEF OpenFile, Uses
<1>2. /\ phase = "running" /\ phase' = phase /\ IsCache(files) /\ Linked(files) /\ files.list \in Lists
      /\ got \in [Songs -> (0 .. FullSize) \cup {None}] /\ disk \in [Songs -> Nat \cup {None}]
      /\ opened' \subseteq Songs /\ played' \subseteq Songs /\ vetoed' \in BOOLEAN
      /\ ~ vetoed => \A t \in Songs : SongInv(t)
  BY <1>1, RunningState DEF Session
<1>3. value \in 0 .. FullSize /\ value # FullSize /\ value # None /\ Has(files.list, s, value)
  <2>1. Has(files.list, s, value) /\ value \in Nat
    BY <1>1, <1>2, LinkedNode DEF IsCache
  <2> HIDE DEF value
  <2>2. FullSize \in Nat /\ None \notin Nat
    BY Apart
  <2> QED
    BY <1>1, <2>1, <2>2
<1> HIDE DEF value
<1>4. /\ \A t \in Songs : got'[t] = IF t = s THEN value ELSE got[t]
      /\ \A t \in Songs : disk'[t] = IF t = s /\ value = 0 THEN 0 ELSE disk[t]
      /\ got' \in [Songs -> (0 .. FullSize) \cup {None}] /\ disk' \in [Songs -> Nat \cup {None}]
  BY <1>1, <1>2, <1>3
<1>5. /\ IsCache(files') /\ (Defined(files') => Linked(files'))
      /\ ~ vetoed =>
           /\ Sound(files') /\ Len(files'.list) <= max /\ files'.map = files.map
           /\ \A t \in Songs, v \in Nat : Has(files'.list, t, v) <=> Has(files.list, t, v)
  BY <1>1, GetIsThat
<1>6. ASSUME ~ vetoed, NEW t \in Songs PROVE SongInv(t)'
  <2>1. SongInv(t) /\ (disk[t] # None => disk[t] \in Nat)
    BY <1>2, <1>6
  <2>2. CASE t = s
    <3>1. got'[t] = value
      BY <1>4, <2>2
    <3>2. Intact(t)' => t \in files'.map
      BY <1>1, <1>5, <1>6, <2>2
    <3>3. Intact(t)' => disk'[t] = value
      <4>1. CASE value = 0
        BY <1>4, <2>2, <4>1
      <4>2. CASE value # 0
        <5> SUFFICES ASSUME Intact(t)' PROVE disk'[t] = value
          OBVIOUS
        <5>1. disk'[t] = disk[t] /\ Intact(t)
          BY <1>1, <1>4, <4>2 DEF Intact
        <5>2. Has(files.list, s, disk[t])
          BY <1>1, <2>1, <2>2, <5>1 DEF SongInv
        <5>3. value = disk[t]
          BY <1>2, <1>3, <5>2, HasOne
        <5> QED
          BY <5>1, <5>3
      <4> QED
        BY <4>1, <4>2
    <3>4. \A v \in Nat : Has(files'.list, t, v) => v # FullSize
      BY <1>2, <1>3, <1>5, <1>6, <2>2, HasOne
    <3> QED
      BY <1>1, <1>2, <1>3, <2>2, <3>1, <3>2, <3>3, <3>4 DEF SongInv
  <2>3. CASE t # s
    <3>1. got'[t] = got[t] /\ disk'[t] = disk[t] /\ (t \in stale' <=> t \in stale)
      BY <1>1, <1>4, <2>3
    <3> QED
      BY <1>1, <1>2, <1>5, <1>6, <2>1, <3>1 DEF SongInv, Intact
  <2> QED
    BY <2>2, <2>3
<1>7. \A t \in Songs \ played' : Intact(t)' => Intact(t) /\ disk'[t] = disk[t]
  BY <1>1, <1>4 DEF Intact
<1> QED
  BY <1>1, <1>2, <1>4, <1>5, <1>6, <1>7, SessionStep

LEMMA WriteInv == ASSUME IInv, NEW s \in Songs, Write(s) PROVE IInv'
<1>1. /\ Running /\ Session /\ got[s] \in 0 .. FullSize - 1
      /\ got' = [got EXCEPT ![s] = @ + 1]
      /\ disk' = [disk EXCEPT ![s] = IF @ = None THEN None ELSE @ + 1]
      /\ UNCHANGED <<files, opened, played, stale, vetoed>>
  BY DEF Write, killings
<1>2. /\ phase = "running" /\ phase' = phase /\ IsCache(files) /\ Linked(files)
      /\ got \in [Songs -> (0 .. FullSize) \cup {None}] /\ disk \in [Songs -> Nat \cup {None}]
      /\ opened' \subseteq Songs /\ played' \subseteq Songs /\ vetoed' \in BOOLEAN
      /\ ~ vetoed => Sound(files) /\ Len(files.list) <= max
      /\ ~ vetoed => \A t \in Songs : SongInv(t)
  BY <1>1, RunningState DEF Session
<1>3. got[s] + 1 \in 0 .. FullSize /\ got[s] # None /\ got[s] + 1 # None
  BY <1>1, Apart
<1>4. /\ \A t \in Songs : got'[t] = IF t = s THEN got[s] + 1 ELSE got[t]
      /\ \A t \in Songs : disk'[t] = IF t # s \/ disk[t] = None THEN disk[t] ELSE disk[t] + 1
      /\ got' \in [Songs -> (0 .. FullSize) \cup {None}]
  BY <1>1, <1>2, <1>3
<1>5. disk' \in [Songs -> Nat \cup {None}]
  <2>1. disk[s] # None => disk[s] + 1 \in Nat
    BY <1>2
  <2> QED
    BY <1>1, <1>2, <2>1
<1>6. ASSUME ~ vetoed, NEW t \in Songs PROVE SongInv(t)'
  <2>1. SongInv(t)
    BY <1>2, <1>6
  <2>2. CASE t = s
    <3>1. got'[t] = got[t] + 1 /\ got'[t] # None
      BY <1>3, <1>4, <2>2
    <3>2. Intact(t)' => Intact(t) /\ disk'[t] = disk[t] + 1
      BY <1>1, <1>4, <2>2 DEF Intact
    <3> QED
      BY <1>1, <1>2, <1>3, <2>1, <2>2, <3>1, <3>2 DEF SongInv
  <2>3. CASE t # s
    <3>1. got'[t] = got[t] /\ disk'[t] = disk[t]
      BY <1>4, <2>3
    <3> QED
      BY <1>1, <1>2, <2>1, <3>1 DEF SongInv, Intact
  <2> QED
    BY <2>2, <2>3
<1>7. ~ vetoed' => \A t \in Songs \ played' : Intact(t)' => Intact(t) /\ disk'[t] = disk[t]
  <2> SUFFICES ASSUME ~ vetoed', NEW t \in Songs \ played', Intact(t)'
               PROVE  Intact(t) /\ disk'[t] = disk[t]
    OBVIOUS
  <2>1. s \in played
    BY <1>1, <1>2, <1>3 DEF SongInv
  <2> QED
    BY <1>1, <1>4, <2>1 DEF Intact
<1> QED
  BY <1>1, <1>2, <1>4, <1>5, <1>6, <1>7, SessionStep

LEMMA CloseFileInv == ASSUME IInv, NEW s \in Songs, CloseFile(s) PROVE IInv'
<1>1. /\ Running /\ Session /\ got[s] # None /\ got' = [got EXCEPT ![s] = None]
      /\ opened' = opened \ {s} /\ played' = played /\ PutSize(s, got[s], opened')
  BY DEF CloseFile
<1>2. /\ phase = "running" /\ phase' = phase
      /\ got \in [Songs -> (0 .. FullSize) \cup {None}] /\ disk \in [Songs -> Nat \cup {None}]
      /\ opened' \subseteq Songs /\ played' \subseteq Songs
      /\ ~ vetoed => \A t \in Songs : SongInv(t)
  BY <1>1, RunningState DEF Session
<1>3. /\ got[s] \in Nat /\ got' \in [Songs -> (0 .. FullSize) \cup {None}]
      /\ \A t \in Songs : got'[t] = IF t = s THEN None ELSE got[t]
  BY <1>1, <1>2, Apart
<1>4. /\ IsCache(files') /\ (Defined(files') => Linked(files'))
      /\ disk' \in [Songs -> Nat \cup {None}] /\ vetoed' \in BOOLEAN /\ (vetoed => vetoed')
      /\ ~ vetoed' =>
           /\ Sound(files') /\ Len(files'.list) <= max
           /\ \A t \in Songs : Intact(t)' =>
                Intact(t) /\ disk'[t] = disk[t] /\ (t \in files.map \cup {s} => t \in files'.map)
           /\ \A t \in Songs, v \in Nat : t # s =>
                /\ Has(files'.list, t, v) => Has(files.list, t, v)
                /\ Has(files.list, t, v) /\ t \in files'.map => Has(files'.list, t, v)
           /\ s \in files'.map => Has(files'.list, s, got[s])
  BY <1>1, <1>3, PutSizeIs
<1>5. ASSUME ~ vetoed', NEW t \in Songs PROVE SongInv(t)'
  <2>1. SongInv(t) /\ (disk[t] # None => disk[t] \in Nat)
    BY <1>2, <1>4, <1>5
  <2>2. CASE t = s
    <3>1. got'[t] = None
      BY <1>3, <2>2
    <3>2. Intact(t)' => t \in files'.map /\ Has(files'.list, t, disk'[t])
      BY <1>1, <1>4, <1>5, <2>1, <2>2 DEF SongInv, Intact
    <3> QED
      BY <3>1, <3>2 DEF SongInv
  <2>3. CASE t # s
    <3>1. got'[t] = got[t]
      BY <1>3, <2>3
    <3>2. ASSUME Intact(t)'
          PROVE  /\ t \in files'.map /\ (got'[t] = None => Has(files'.list, t, disk'[t]))
                 /\ (got'[t] # None => disk'[t] = got'[t])
      <4>1. disk'[t] = disk[t] /\ Intact(t) /\ disk[t] \in Nat
        BY <1>4, <1>5, <2>1, <3>2 DEF Intact
      <4>2. t \in files.map /\ t \in files'.map
        BY <1>4, <1>5, <2>1, <3>2, <4>1 DEF SongInv, Intact
      <4> QED
        BY <1>4, <1>5, <2>1, <2>3, <3>1, <4>1, <4>2 DEF SongInv
    <3>3. got'[t] # None => /\ phase' = "running" /\ t \in opened' /\ t \in played'
                            /\ \A v \in Nat : Has(files'.list, t, v) => v # FullSize
      BY <1>1, <1>2, <1>4, <1>5, <2>1, <2>3, <3>1 DEF SongInv
    <3> QED
      BY <3>2, <3>3 DEF SongInv
  <2> QED
    BY <2>2, <2>3
<1>6. ~ vetoed' => \A t \in Songs : Intact(t)' => Intact(t) /\ disk'[t] = disk[t]
  BY <1>4
<1> QED
  BY <1>1, <1>2, <1>3, <1>4, <1>5, <1>6, SessionStep
-----------------------------------------------------------------------------
(* The end of a session, and of the program at any step.                   *)
LEMMA EndingKept ==
  ASSUME IInv, phase \in {"running"} \cup Ending, phase' \in Ending,
         phase = "running" => \A s \in Songs : got[s] = None,
         UNCHANGED <<todo, max, files, opened, got, disk, played, stale, vetoed>>,
         savedFiles' \in {Torn, savedFiles}
  PROVE  IInv'
<1>1. /\ TypeInv /\ phase' \notin Starting \cup {"load_files", "running"}
      /\ phase' \in {"save_sizes", "sizes_saved", "save_files"}
  BY DEF IInv, Starting, Ending
<1>2. ~ vetoed => Distinct(Old')
  <2>1. CASE savedFiles' = Torn
    <3>1. Old' = <<>> /\ Len(<<>>) = 0
      BY <2>1, EmptySound DEF Old, Listed
    <3> QED
      BY <3>1 DEF Distinct
  <2>2. CASE savedFiles' = savedFiles
    <3>1. Old' = Old
      BY <2>2 DEF Old, Listed
    <3> QED
      BY <3>1 DEF IInv, SoundInv
  <2> QED
    BY <2>1, <2>2
<1>3. TypeInv'
  BY <1>1 DEF TypeInv, Linked, Defined, Ending
<1>4. FreshInv' /\ TodoInv' /\ LoadInv'
  BY <1>1 DEF FreshInv, TodoInv, LoadInv
<1>5. SoundInv'
  BY <1>2 DEF IInv, SoundInv
<1>6. DiskInv'
  <2>1. savedFiles' # Torn => savedFiles # Torn /\ Old' = Old
    BY DEF Old, Listed
  <2> QED
    BY <1>1, <2>1 DEF IInv, DiskInv, Intact, EntryAt
<1>7. SessionInv'
  <2> SUFFICES ASSUME ~ vetoed, NEW s \in Songs PROVE SongInv(s)'
    BY DEF SessionInv
  <2>1. SongInv(s)
    BY DEF IInv, SessionInv
  <2>2. got[s] = None
    BY <2>1 DEF SongInv, Ending
  <2> QED
    BY <2>1, <2>2 DEF SongInv, Intact
<1> QED
  BY <1>3, <1>4, <1>5, <1>6, <1>7 DEF IInv

(* In the phases of the end nothing is being downloaded.                   *)
LEMMA ExitInv == ASSUME IInv, Exit PROVE IInv'
<1>1. /\ phase = "running" /\ phase' = "save_sizes" /\ \A s \in Songs : got[s] = None
      /\ UNCHANGED <<todo, max, files, opened, got, disk, savedFiles, played, stale, vetoed>>
  BY DEF Exit, Running, memory, killings
<1> QED
  BY <1>1, EndingKept DEF Ending

LEMMA SavedSizesInv == ASSUME IInv, SavedSizes PROVE IInv'
<1>1. /\ phase = "save_sizes" /\ phase' = "sizes_saved"
      /\ UNCHANGED <<todo, max, files, opened, got, disk, savedFiles, played, stale, vetoed>>
  BY DEF SavedSizes, Goes, memory, killings
<1> QED
  BY <1>1, EndingKept DEF Ending

LEMMA SaveFilesInv == ASSUME IInv, SaveFiles PROVE IInv'
<1>1. /\ phase = "sizes_saved" /\ phase' = "save_files" /\ savedFiles' = Torn
      /\ UNCHANGED <<todo, max, files, opened, got, disk, played, stale, vetoed>>
  BY DEF SaveFiles, Goes, memory, killings
<1> QED
  BY <1>1, EndingKept DEF Ending

(* What is saved lists the songs on disk with their sizes.                 *)
LEMMA SavedFilesInv == ASSUME IInv, SavedFiles PROVE IInv'
<1>1. /\ phase = "save_files" /\ phase' = "off" /\ savedFiles' = files.list /\ played' = {}
      /\ UNCHANGED <<todo, max, files, opened, got, disk, stale, vetoed>>
  BY DEF SavedFiles, Goes, memory, killings
<1>2. files.list \in Lists
  BY CacheFields DEF IInv, TypeInv, IsCache
<1>3. savedFiles' \notin {None, Torn} /\ Old' = files.list
  BY <1>1, <1>2, Apart DEF Old, Listed
<1>4. TypeInv' /\ FreshInv' /\ TodoInv' /\ LoadInv' /\ SessionInv'
  BY <1>1, <1>2 DEF IInv, TypeInv, FreshInv, TodoInv, LoadInv, SessionInv, Starting, Ending, Linked, Defined
<1>5. SoundInv'
  <2>1. ~ vetoed => Distinct(files.list)
    BY <1>1 DEF IInv, SoundInv, Ending, Sound, Tidy, Distinct
  <2> QED
    BY <1>1, <1>3, <2>1 DEF SoundInv, Ending
<1>6. ASSUME ~ vetoed, NEW s \in Songs, Intact(s)'
      PROVE  \E i \in 1 .. Len(Old') : EntryAt(i, s)'
  <2>1. Intact(s) /\ disk' = disk
    BY <1>1, <1>6 DEF Intact
  <2>2. SongInv(s)
    BY <1>1, <1>6 DEF IInv, SessionInv, Ending
  <2>3. Has(files.list, s, disk[s])
    BY <1>1, <2>1, <2>2 DEF SongInv
  <2>4. PICK i \in 1 .. Len(files.list) : FirstAt(files.list, s, i) /\ files.list[i].value = disk[s]
    BY <2>3 DEF Has
  <2>5. files.list[i] \in ListNodes /\ files.list[i].key = s
    BY <1>2, <2>4, ListNode DEF FirstAt
  <2>6. files.list[i] = Entry(s, disk[s])
    BY <2>4, <2>5 DEF ListNodes, Entry
  <2> QED
    BY <1>3, <2>1, <2>4, <2>6 DEF EntryAt
<1>7. DiskInv'
  BY <1>1, <1>3, <1>6 DEF DiskInv
<1> QED
  BY <1>4, <1>5, <1>7 DEF IInv

LEMMA KillInv == ASSUME IInv, Kill PROVE IInv'
<1>1. /\ phase # "off" /\ phase' = "off"
      /\ stale' = stale \cup played /\ played' = {}
      /\ UNCHANGED <<todo, max, files, opened, got, disk, savedFiles, vetoed>>
  BY DEF Kill, memory, savedLists, killings
<1>2. Old' = Old
  BY <1>1 DEF Old, Listed
<1>3. TypeInv'
  BY <1>1 DEF IInv, TypeInv, Starting, Linked, Defined
<1>4. FreshInv' /\ TodoInv' /\ LoadInv' /\ SessionInv'
  BY <1>1 DEF FreshInv, TodoInv, LoadInv, SessionInv, Ending
<1>5. SoundInv'
  BY <1>1, <1>2 DEF IInv, SoundInv, Ending
<1>6. DiskInv'
  <2>1. \A s \in Songs : /\ Intact(s)' => Intact(s) /\ s \notin played
                         /\ \A i : EntryAt(i, s)' <=> EntryAt(i, s)
    BY <1>1, <1>2 DEF Intact, EntryAt
  <2> QED
    BY <1>1, <1>2, <2>1 DEF IInv, DiskInv
<1> QED
  BY <1>3, <1>4, <1>5, <1>6 DEF IInv

LEMMA StepInv == ASSUME IInv, [Next]_vars PROVE IInv'
<1>1. CASE UNCHANGED vars
  <2>1. UNCHANGED <<phase, todo, max, files, opened, got, disk, savedFiles, version, played, stale, vetoed>>
    BY <1>1 DEF vars, memory, savedLists, killings
  <2>2. Old' = Old /\ Done' = Done
    BY <2>1 DEF Old, Listed, Done
  <2>3. TypeInv' /\ FreshInv'
    BY <2>1 DEF IInv, TypeInv, FreshInv, Fresh, Linked, Defined
  <2>4. TodoInv' /\ LoadInv' /\ SoundInv'
    BY <2>1, <2>2 DEF IInv, TodoInv, LoadInv, SoundInv
  <2>5. DiskInv'
    <3>1. \A s \in Songs : /\ Intact(s)' <=> Intact(s)
                           /\ \A i : EntryAt(i, s)' <=> EntryAt(i, s)
      BY <2>1, <2>2 DEF Intact, EntryAt
    <3> QED
      BY <2>1, <2>2, <3>1 DEF IInv, DiskInv
  <2>6. SessionInv'
    BY <2>1 DEF IInv, SessionInv, SongInv, Intact
  <2> QED
    BY <2>3, <2>4, <2>5, <2>6 DEF IInv
<1>2. CASE \E bound \in Bounds : Start(bound)
  BY <1>2, StartInv
<1>3. CASE StartToClear \/ ClearSizes \/ ClearSong \/ Cleared \/ SaveMeta
  BY <1>3, StartToClearInv, ClearSizesInv, ClearSongInv, ClearedInv, SaveMetaInv
<1>4. CASE LoadSizes \/ OpenFiles \/ LoadFile \/ Loaded
  BY <1>4, LoadSizesInv, OpenFilesInv, LoadFileInv, LoadedInv
<1>5. CASE \E s \in Songs : GetFilename(s) \/ OpenFile(s) \/ Write(s) \/ CloseFile(s)
  BY <1>5, GetFilenameInv, OpenFileInv, WriteInv, CloseFileInv
<1>6. CASE Exit \/ SavedSizes \/ SaveFiles \/ SavedFiles \/ Kill
  BY <1>6, ExitInv, SavedSizesInv, SaveFilesInv, SavedFilesInv, KillInv
<1> QED
  BY <1>1, <1>2, <1>3, <1>4, <1>5, <1>6 DEF Next

(* The inductive invariant: what a JSON file and the cache list, of each   *)
(* song on disk, in every phase of a run of the program.                   *)
THEOREM SaverInvariance == Spec => []IInv
<1>1. Init => IInv
  BY InitInv
<1>2. IInv /\ [Next]_vars => IInv'
  BY StepInv
<1> QED
  BY <1>1, <1>2, PTL DEF Spec

(* Whatever bounds the program is started with, and wherever a start, a    *)
(* clearing, a session or a save was killed, the file of a song has an     *)
(* entry by which it can be evicted: short of a vetoed eviction, and but   *)
(* for the songs a killed session had begun to write.                      *)
THEOREM NoFileIsLost == Spec => []FilesHaveEntries
<1>1. IInv => FilesHaveEntries
  BY DEF IInv, SessionInv, SongInv, Intact, FilesHaveEntries
<1> QED
  BY <1>1, SaverInvariance, PTL

(* What getFilename takes for complete is complete, with any bounds,       *)
(* downloads, evictions and downloads of what was evicted, in sessions     *)
(* that end and in sessions that are killed: short of a vetoed eviction,   *)
(* and but for the songs a killed session had begun to write.              *)
THEOREM CompleteFilesAreWhole == Spec => []CompleteIsWhole
<1>1. IInv => CompleteIsWhole
  <2> SUFFICES ASSUME IInv, phase = "running", ~ vetoed, NEW s \in files.map \ stale,
                      ValueOf(files, s) = FullSize, disk[s] # None
               PROVE  disk[s] = FullSize
    BY DEF CompleteIsWhole
  <2>1. Sound(files)
    BY DEF IInv, SoundInv
  <2>2. files \in Caches /\ Linked(files) /\ files.dangling = {} /\ s \in Songs /\ files.list \in Lists
    BY <2>1, SoundLinked, CacheFields DEF IsCache, Sound
  <2>3. Has(files.list, s, FullSize)
    BY <2>2, LinkedNode
  <2>4. SongInv(s)
    BY <2>2 DEF IInv, SessionInv
  <2>5. got[s] = None
    BY <2>3, <2>4, Apart DEF SongInv
  <2>6. Has(files.list, s, disk[s])
    BY <2>4, <2>5 DEF SongInv, Intact
  <2> QED
    BY <2>2, <2>3, <2>6, HasOne
<1> QED
  BY <1>1, SaverInvariance, PTL

(* The list reversed, without the first entries that do not fit.           *)
LEMMA LoadedReversed ==
  ASSUME NEW c, NEW old \in Lists, NEW bound \in Nat, c.list \in Lists, Loads(c, old, Len(old), bound)
  PROVE  c.list = Reverse(SubSeq(old, 1 + Max({0, Len(old) - bound}), Len(old)))
<1> DEFINE n  == Len(old)
           lo == Max({0, n - bound})
           b  == SubSeq(old, 1 + lo, n)
           r  == Reverse(b)
<1>1. n \in Nat /\ \A i \in 1 .. n : old[i] \in ListNodes
  BY ListNode
<1>2. Len(c.list) = (IF n <= bound THEN n ELSE bound) /\ \A j \in 1 .. Len(c.list) : c.list[j] = old[n + 1 - j]
  BY DEF Loads
<1> HIDE DEF n
<1>3. lo = IF n <= bound THEN 0 ELSE n - bound
  <2>1. \E x \in {0, n - bound} : \A y \in {0, n - bound} : x >= y
    BY <1>1
  <2>2. lo \in {0, n - bound} /\ \A y \in {0, n - bound} : lo >= y
    BY <2>1 DEF Max
  <2> HIDE DEF lo
  <2> QED
    BY <1>1, <2>2
<1> HIDE DEF lo
<1>4. lo \in 0 .. n /\ Len(c.list) = n - lo
  BY <1>1, <1>2, <1>3
<1>5. b \in Lists /\ Len(b) = n - lo /\ \A i \in 1 .. n - lo : b[i] = old[lo + i]
  <2>1. 1 + lo \in Int /\ n \in Int /\ \A i \in 1 + lo .. n : old[i] \in ListNodes
    BY <1>1, <1>4
  <2>2. /\ b \in Seq(ListNodes) /\ Len(b) = IF 1 + lo <= n THEN n - (1 + lo) + 1 ELSE 0
        /\ \A i \in 1 .. n - (1 + lo) + 1 : b[i] = old[(1 + lo) + i - 1]
    BY <2>1, SubSeqProperties
  <2> HIDE DEF b
  <2>3. Len(b) = n - lo
    BY <1>1, <1>4, <2>2
  <2>4. ASSUME NEW i \in 1 .. n - lo PROVE b[i] = old[lo + i]
    <3>1. i \in 1 .. n - (1 + lo) + 1 /\ (1 + lo) + i - 1 = lo + i
      BY <1>1, <1>4
    <3> QED
      BY <2>2, <3>1
  <2> QED
    BY <2>2, <2>3, <2>4 DEF Lists
<1> HIDE DEF b
<1>6. /\ r = [i \in 1 .. n - lo |-> b[((n - lo) - i) + 1]]
      /\ \A i \in 1 .. n - lo : ((n - lo) - i) + 1 \in 1 .. n - lo
  BY <1>1, <1>4, <1>5 DEF Reverse
<1>7. r \in Lists /\ Len(r) = n - lo
  <2>1. \A i \in 1 .. n - lo : b[((n - lo) - i) + 1] \in ListNodes
    BY <1>5, <1>6, ListNode
  <2> DEFINE m == n - lo
             g == [i \in 1 .. m |-> b[(m - i) + 1]]
  <2>2. m \in Nat /\ r = g /\ \A i \in 1 .. m : b[(m - i) + 1] \in ListNodes
    BY <1>1, <1>4, <1>6, <2>1
  <2> HIDE DEF m, r
  <2>3. g \in Seq(ListNodes)
    BY <2>2, IsASeq
  <2>4. Len(g) = m
    BY <2>2
  <2> QED
    BY <2>2, <2>3, <2>4 DEF Lists, m
<1>8. ASSUME NEW j \in 1 .. n - lo PROVE r[j] = c.list[j]
  <2>1. r[j] = b[((n - lo) - j) + 1]
    BY <1>6
  <2>2. b[((n - lo) - j) + 1] = old[lo + (((n - lo) - j) + 1)]
    BY <1>5, <1>6
  <2>3. lo + (((n - lo) - j) + 1) = n + 1 - j
    BY <1>1, <1>4
  <2>4. c.list[j] = old[n + 1 - j]
    BY <1>2, <1>4
  <2> QED
    BY <2>1, <2>2, <2>3, <2>4
<1> HIDE DEF r
<1>9. c.list = r
  BY <1>4, <1>7, <1>8, SeqEqual DEF Lists
<1> QED
  BY <1>9 DEF r, b, lo, n

(* A start turns the order of use round, and of entries that do not fit    *)
(* those used last go, for every list saved and every bound.               *)
THEOREM StartsTurnOrder == Spec => StartTurnsOrder
<1> DEFINE old  == IF savedFiles = None THEN <<>> ELSE savedFiles
           Step == phase = "load_files" /\ phase' = "running" /\ ~ vetoed =>
                     files.list = Reverse(SubSeq(old, 1 + Max({0, Len(old) - max}), Len(old)))
<1>1. IInv /\ [Next]_vars => [Step]_vars
  <2> SUFFICES ASSUME IInv, [Next]_vars, phase = "load_files", phase' = "running", ~ vetoed
               PROVE  files.list = Reverse(SubSeq(old, 1 + Max({0, Len(old) - max}), Len(old)))
    OBVIOUS
  <2>1. Loaded
    <3>1. ~ Start(max) /\ ~ UNCHANGED vars /\ \A bound \in Bounds : ~ Start(bound)
      BY DEF Start, vars
    <3>2. ~ (StartToClear \/ ClearSizes \/ ClearSong \/ Cleared \/ SaveMeta)
      BY DEF StartToClear, ClearSizes, ClearSong, Cleared, SaveMeta, Goes
    <3>3. ~ (LoadSizes \/ OpenFiles \/ LoadFile)
      BY DEF LoadSizes, OpenFiles, LoadFile
    <3>4. \A s \in Songs : ~ (GetFilename(s) \/ OpenFile(s) \/ Write(s) \/ CloseFile(s))
      BY DEF GetFilename, OpenFile, Write, CloseFile, Running
    <3>5. ~ (Exit \/ SavedSizes \/ SaveFiles \/ SavedFiles \/ Kill)
      BY DEF Exit, SavedSizes, SaveFiles, SavedFiles, Kill, Goes, Running
    <3> QED
      BY <3>1, <3>2, <3>3, <3>4, <3>5 DEF Next
  <2>2. todo = <<>> /\ Old \in Lists /\ Len(Old) \in Nat /\ max \in Nat
    BY <2>1, OldList DEF Loaded, IInv, TypeInv
  <2>3. Done = Len(Old)
    BY <2>2, EmptySound DEF Done
  <2>4. savedFiles # Torn /\ Sound(files) /\ Loads(files, Old, Done, max)
    BY DEF IInv, LoadInv, SoundInv
  <2>5. files.list = Reverse(SubSeq(Old, 1 + Max({0, Len(Old) - max}), Len(Old)))
    BY <2>2, <2>3, <2>4, SoundSize, LoadedReversed
  <2>6. Old = old
    BY <2>4 DEF Old, Listed
  <2> QED
    BY <2>5, <2>6
<1>2. [Step]_vars => [phase = "load_files" /\ phase' = "running" /\ ~ vetoed =>
                        LET o == IF savedFiles = None THEN <<>> ELSE savedFiles
                        IN  files.list = Reverse(SubSeq(o, 1 + Max({0, Len(o) - max}), Len(o)))]_vars
  OBVIOUS
<1> QED
  BY <1>1, <1>2, SaverInvariance, PTL DEF Spec, StartTurnsOrder
-----------------------------------------------------------------------------
(* SizeCache. *)
(* Fewer entries present, fewer counted. *)
LEMMA PresentCounts ==
  ASSUME NEW s \in [Files -> Values]
  PROVE  /\ Present(s) \subseteq Files /\ IsFiniteSet(Present(s))
         /\ Cardinality(Present(s)) \in Nat
<1>1. Present(s) \subseteq Files
  BY DEF Present
<1>2. IsFiniteSet(Present(s))
  BY <1>1, FS_Subset, SizeAssumption
<1>3. QED
  BY <1>1, <1>2, FS_CardinalityType

LEMMA OneMore ==
  ASSUME NEW S, IsFiniteSet(S), NEW x
  PROVE  /\ IsFiniteSet(S \cup {x})
         /\ Cardinality(S \cup {x}) \in Nat
         /\ Cardinality(S \cup {x}) <= Cardinality(S) + 1
<1>1. /\ IsFiniteSet(S \cup {x})
      /\ Cardinality(S \cup {x}) = IF x \in S THEN Cardinality(S) ELSE Cardinality(S) + 1
  BY FS_AddElement
<1>2. Cardinality(S) \in Nat
  BY FS_CardinalityType
<1>3. QED
  BY <1>1, <1>2

LEMMA OneLess ==
  ASSUME NEW S, IsFiniteSet(S), NEW x \in S
  PROVE  Cardinality(S \ {x}) = Cardinality(S) - 1
<1>1. Cardinality(S \ {x}) = IF x \in S THEN Cardinality(S) - 1 ELSE Cardinality(S)
  BY FS_RemoveElement
<1>2. QED
  BY <1>1

(* What putting a value does to the cache: it stays within its bound,      *)
(* other entries keep their value or disappear, and if no marker is lost   *)
(* they are all still there.                                               *)
LEMMA PutEffect ==
  ASSUME SizesOK, NEW f \in Files, NEW v \in {"obtaining", "known"}, PutEntry(f, v)
  PROVE  /\ sizes' \in [Files -> Values]
         /\ Cardinality(Present(sizes')) <= MaxSize
         /\ markerLost' \in BOOLEAN
         /\ sizes'[f] \in {v, "absent"}
         /\ \A g \in Files \ {f} : sizes'[g] \in {sizes[g], "absent"}
         /\ ~ markerLost' =>
              /\ ~ markerLost
              /\ v = "obtaining" => sizes'[f] = v
              /\ \A g \in Files \ {f} : sizes[g] = "obtaining" => sizes'[g] = "obtaining"
<1> DEFINE new     == [sizes EXCEPT ![f] = v]
           others  == Present(new) \ {f}
           victims == IF others = {} THEN {f} ELSE others
<1>1. sizes \in [Files -> Values] /\ markerLost \in BOOLEAN
  BY DEF SizesOK, Values
<1>2. new \in [Files -> Values] /\ new[f] = v /\ \A g \in Files \ {f} : new[g] = sizes[g]
  BY <1>1 DEF Values
<1>3. CASE Cardinality(Present(new)) <= MaxSize
  <2>1. sizes' = new /\ markerLost' = markerLost
    BY <1>3 DEF PutEntry
  <2>2. QED
    BY <1>1, <1>2, <1>3, <2>1
<1>4. CASE ~ (Cardinality(Present(new)) <= MaxSize)
  <2>1. PICK victim \in victims : /\ sizes' = [new EXCEPT ![victim] = "absent"]
                                  /\ markerLost' = (markerLost \/ new[victim] = "obtaining")
    BY <1>4 DEF PutEntry
  <2>2. f \in Present(new) /\ victim \in Present(new) /\ victim \in Files
    BY <1>2, <2>1 DEF Present
  <2>3. sizes' \in [Files -> Values]
    BY <1>2, <2>1, <2>2 DEF Values
  <2>4. /\ sizes'[victim] = "absent"
        /\ \A g \in Files \ {victim} : sizes'[g] = new[g]
    BY <1>2, <2>1, <2>2
  <2>5. Cardinality(Present(sizes')) <= MaxSize
    <3>1. Present(new) \subseteq Present(sizes) \cup {f}
      BY <1>1, <1>2 DEF Present
    <3>2. /\ IsFiniteSet(Present(sizes)) /\ Cardinality(Present(sizes)) \in Nat
          /\ IsFiniteSet(Present(new)) /\ Cardinality(Present(new)) \in Nat
      BY <1>1, <1>2, PresentCounts
    <3>3. /\ IsFiniteSet(Present(sizes) \cup {f})
          /\ Cardinality(Present(sizes) \cup {f}) \in Nat
          /\ Cardinality(Present(sizes) \cup {f}) <= Cardinality(Present(sizes)) + 1
      BY <3>2, OneMore
    <3>4. Cardinality(Present(new)) <= Cardinality(Present(sizes) \cup {f})
      BY <3>1, <3>3, FS_Subset
    <3>6. Cardinality(Present(sizes)) <= MaxSize
      BY DEF SizesOK
    <3>7. Cardinality(Present(new)) <= MaxSize + 1
      BY <3>2, <3>3, <3>4, <3>6, SizeAssumption
    <3>8. Present(sizes') = Present(new) \ {victim}
      BY <1>2, <2>3, <2>4 DEF Present
    <3>9. Cardinality(Present(sizes')) = Cardinality(Present(new)) - 1
      <4>1. Cardinality(Present(new) \ {victim}) = Cardinality(Present(new)) - 1
        <5> HIDE DEF new
        <5>1. QED
          BY <2>2, <3>2, OneLess
      <4>2. QED
        BY <3>8, <4>1
    <3>10. QED
      BY <3>2, <3>7, <3>9, SizeAssumption
  <2>6. ~ markerLost' => ~ markerLost /\ new[victim] # "obtaining"
    BY <2>1
  <2>7. QED
    BY <1>1, <1>2, <2>1, <2>3, <2>4, <2>5, <2>6
<1>5. QED
  BY <1>3, <1>4

(* Removing an entry leaves the others alone. *)
LEMMA RemoveEffect ==
  ASSUME SizesOK, NEW f \in Files, RemoveEntry(f)
  PROVE  /\ sizes' \in [Files -> Values]
         /\ Cardinality(Present(sizes')) <= MaxSize
         /\ fault' \in BOOLEAN
         /\ sizes'[f] = "absent"
         /\ \A g \in Files \ {f} : sizes'[g] = sizes[g]
<1>1. sizes \in [Files -> Values]
  BY DEF SizesOK, Values
<1>2. sizes' = [sizes EXCEPT ![f] = "absent"] /\ fault' = (sizes[f] = "absent")
  BY DEF RemoveEntry
<1>3. sizes' \in [Files -> Values]
  BY <1>1, <1>2 DEF Values
<1>4. Present(sizes') \subseteq Present(sizes)
  BY <1>1, <1>2 DEF Present
<1>5. IsFiniteSet(Present(sizes)) /\ Cardinality(Present(sizes)) \in Nat
  BY <1>1, PresentCounts
<1>6. Cardinality(Present(sizes')) <= Cardinality(Present(sizes))
  BY <1>4, <1>5, FS_Subset
<1>7. Cardinality(Present(sizes')) \in Nat /\ Cardinality(Present(sizes)) <= MaxSize
  BY <1>3, PresentCounts DEF SizesOK
<1>8. Cardinality(Present(sizes')) <= MaxSize
  BY <1>5, <1>6, <1>7, SizeAssumption
<1>9. QED
  BY <1>1, <1>2, <1>3, <1>8
-----------------------------------------------------------------------------
SizesIInv == SizesOK /\ MarkerHasObtainer /\ OneQueryPerFile

Places == Obtaining \cup Asleep \cup {"idle", "check", "sleep", "notify"}

(* Only the thread itself moves, save for the notification.                *)
LEMMA Moved ==
  ASSUME SizesOK, NEW t \in Threads, NEW from, NEW to \in Places, Passes(t, from, to)
  PROVE  /\ at[t] = from /\ at'[t] = to /\ at' \in [Threads -> Places]
         /\ \A u \in Threads \ {t} : at'[u] = at[u]
BY DEF Passes, SizesOK, Places

LEMMA SizesInitInv == SizesInit => SizesIInv /\ SavedOK
<1> SUFFICES ASSUME SizesInit PROVE SizesIInv /\ SavedOK
  OBVIOUS
<1>1. Present(sizes) = {}
  BY DEF SizesInit, Present
<1>2. Cardinality(Present(sizes)) <= MaxSize
  BY <1>1, FS_EmptySet, SizeAssumption
<1>3. SizesOK
  <2>1. at \in [Threads -> Obtaining \cup Asleep \cup {"idle", "check", "sleep", "notify"}]
    BY DEF SizesInit
  <2>2. calls \in [Threads -> 0 .. MaxCalls] /\ file \in [Threads -> Files \cup {NoFile}]
    BY SizeAssumption DEF SizesInit
  <2>3. /\ sizes \in [Files -> Values]
        /\ \A t \in Threads : at[t] # "idle" => file[t] \in Files
        /\ sized \subseteq Files /\ markerLost \in BOOLEAN /\ fault \in BOOLEAN
    BY DEF SizesInit, Values
  <2>4. QED
    BY <1>2, <2>1, <2>2, <2>3 DEF SizesOK, Values
<1>4. MarkerHasObtainer /\ OneQueryPerFile
  BY DEF SizesInit, MarkerHasObtainer, OneQueryPerFile, Obtains, Obtaining
<1>5. SavedOK
  BY <1>3 DEF SizesInit, SizesOK, SavedOK
<1>6. QED
  BY <1>3, <1>4, <1>5 DEF SizesIInv
-----------------------------------------------------------------------------
(* A step in which one thread moves outside the obtaining part, or within  *)
(* it, keeps the two invariants if it leaves the cache alone.              *)
LEMMA MoveKeeps ==
  ASSUME SizesIInv, NEW t \in Threads, NEW from \in Places, NEW to \in Places,
         Passes(t, from, to), UNCHANGED <<sizes, markerLost>>,
         from \in Obtaining <=> to \in Obtaining,
         \/ UNCHANGED file
         \/ from = "idle" /\ \E f \in Files : file' = [file EXCEPT ![t] = f]
  PROVE  MarkerHasObtainer' /\ OneQueryPerFile'
<1>1. /\ at[t] = from /\ at'[t] = to
      /\ \A u \in Threads \ {t} : at'[u] = at[u]
  BY Moved DEF SizesIInv
<1>2. \A u \in Threads, f \in Files : Obtains(u, f)' <=> Obtains(u, f)
  <2>1. CASE UNCHANGED file
    BY <1>1, <2>1 DEF Obtains
  <2>2. CASE from = "idle" /\ \E f \in Files : file' = [file EXCEPT ![t] = f]
    <3>1. from \notin Obtaining
      BY <2>2 DEF Obtaining
    <3>2. \A u \in Threads \ {t} : file'[u] = file[u]
      BY <2>2 DEF SizesIInv, SizesOK
    <3>3. QED
      BY <1>1, <3>1, <3>2 DEF Obtains
  <2>3. QED
    BY <2>1, <2>2
<1>3. QED
  BY <1>2 DEF SizesIInv, MarkerHasObtainer, OneQueryPerFile

(* The thread that sets a marker becomes the one that obtains the size.    *)
LEMMA SetMarkerKeeps ==
  ASSUME SizesIInv, NEW t \in Threads, SetMarker(t)
  PROVE  MarkerHasObtainer' /\ OneQueryPerFile'
<1> DEFINE f == file[t]
<1>1. /\ at[t] = "check" /\ at'[t] = "query" /\ \A u \in Threads \ {t} : at'[u] = at[u]
  BY Moved DEF SizesIInv, SetMarker, Places, Obtaining
<1>2. f \in Files /\ sizes[f] = "absent" /\ PutEntry(f, "obtaining") /\ file' = file
  BY <1>1 DEF SizesIInv, SizesOK, SetMarker
<1>3. /\ \A g \in Files \ {f} : sizes'[g] \in {sizes[g], "absent"}
      /\ ~ markerLost' =>
           /\ ~ markerLost /\ sizes'[f] = "obtaining"
           /\ \A g \in Files \ {f} : sizes[g] = "obtaining" => sizes'[g] = "obtaining"
  BY <1>2, PutEffect DEF SizesIInv
<1>4. \A u \in Threads, g \in Files : Obtains(u, g)' <=> Obtains(u, g) \/ (u = t /\ g = f)
  BY <1>1, <1>2 DEF Obtains, Obtaining
<1> HIDE DEF f
<1>5. MarkerHasObtainer'
  <2> SUFFICES ASSUME NEW g \in Files, sizes'[g] = "obtaining"
               PROVE  \E u \in Threads : Obtains(u, g)'
    BY DEF MarkerHasObtainer
  <2>1. CASE g = f
    BY <2>1, <1>4
  <2>2. CASE g # f
    <3>1. sizes[g] = "obtaining"
      BY <2>2, <1>3
    <3>2. QED
      BY <3>1, <1>4 DEF SizesIInv, MarkerHasObtainer
  <2>3. QED
    BY <2>1, <2>2
<1>6. OneQueryPerFile'
  <2> SUFFICES ASSUME ~ markerLost', NEW g \in Files, NEW u \in Threads, Obtains(u, g)'
               PROVE  /\ sizes'[g] = "obtaining"
                      /\ \A w \in Threads : Obtains(w, g)' => w = u
    BY DEF OneQueryPerFile
  <2>1. \A w \in Threads : ~ Obtains(w, f)
    BY <1>2, <1>3 DEF SizesIInv, OneQueryPerFile
  <2>2. CASE g = f
    BY <1>3, <1>4, <2>1, <2>2
  <2>3. CASE g # f
    <3>1. Obtains(u, g) /\ sizes[g] = "obtaining" /\ \A w \in Threads : Obtains(w, g) => w = u
      BY <1>3, <1>4, <2>3 DEF SizesIInv, OneQueryPerFile
    <3>2. QED
      BY <1>3, <1>4, <2>3, <3>1
  <2>4. QED
    BY <2>2, <2>3
<1>7. QED
  BY <1>5, <1>6

(* A thread stops obtaining a size when its marker is gone: overwritten by *)
(* the size or removed.                                                    *)
LEMMA EndKeeps ==
  ASSUME SizesIInv, NEW t \in Threads, NEW from \in Obtaining, Passes(t, from, "notify"),
         UNCHANGED file, sizes'[file[t]] # "obtaining",
         \A g \in Files \ {file[t]} : sizes'[g] \in {sizes[g], "absent"},
         ~ markerLost' =>
           /\ ~ markerLost
           /\ \A g \in Files \ {file[t]} : sizes[g] = "obtaining" => sizes'[g] = "obtaining"
  PROVE  MarkerHasObtainer' /\ OneQueryPerFile'
<1> DEFINE f == file[t]
<1>1. /\ at[t] \in Obtaining /\ at'[t] = "notify" /\ \A u \in Threads \ {t} : at'[u] = at[u]
  BY Moved DEF SizesIInv, Places
<1>2. f \in Files /\ Obtains(t, f)
  BY <1>1 DEF SizesIInv, SizesOK, Obtains, Obtaining
<1>3. \A u \in Threads, g \in Files : Obtains(u, g)' <=> Obtains(u, g) /\ u # t
  BY <1>1 DEF Obtains, Obtaining
<1>4. \A g \in Files \ {f} : ~ Obtains(t, g)
  BY DEF Obtains
<1>5. MarkerHasObtainer'
  <2> SUFFICES ASSUME NEW g \in Files, sizes'[g] = "obtaining"
               PROVE  \E u \in Threads : Obtains(u, g)'
    BY DEF MarkerHasObtainer
  <2>1. g # f /\ sizes[g] = "obtaining"
    OBVIOUS
  <2>2. PICK u \in Threads : Obtains(u, g)
    BY <2>1 DEF SizesIInv, MarkerHasObtainer
  <2>3. QED
    BY <1>3, <1>4, <2>1, <2>2
<1>6. OneQueryPerFile'
  <2> SUFFICES ASSUME ~ markerLost', NEW g \in Files, NEW u \in Threads, Obtains(u, g)'
               PROVE  /\ sizes'[g] = "obtaining"
                      /\ \A w \in Threads : Obtains(w, g)' => w = u
    BY DEF OneQueryPerFile
  <2>1. Obtains(u, g) /\ u # t /\ ~ markerLost
    BY <1>3
  <2>2. sizes[g] = "obtaining" /\ \A w \in Threads : Obtains(w, g) => w = u
    BY <2>1 DEF SizesIInv, OneQueryPerFile
  <2>3. g # f
    BY <1>2, <2>1, <2>2
  <2>4. QED
    BY <1>3, <2>2, <2>3
<1>7. QED
  BY <1>5, <1>6
-----------------------------------------------------------------------------
(* The types that depend on where the threads are. *)
LEMMA MovedTypes ==
  ASSUME SizesOK, NEW t \in Threads, NEW from, NEW to \in Places, Passes(t, from, to),
         file' \in [Threads -> Files \cup {NoFile}],
         \A u \in Threads \ {t} : file'[u] = file[u],
         to # "idle" => file'[t] \in Files
  PROVE  /\ at' \in [Threads -> Places]
         /\ \A u \in Threads : at'[u] # "idle" => file'[u] \in Files
BY Moved DEF SizesOK

(* A start takes over what was saved, with every marker stale and no       *)
(* thread in a call.                                                       *)
LEMMA StartsKeeps ==
  ASSUME SavedOK', Starts
  PROVE  SizesIInv'
<1> USE DEF Starts
<1>1. sizes' \in [Files -> Values] /\ \A f \in Files : sizes'[f] # "obtaining"
  BY DEF SavedOK, Values
<1>2. Present(sizes') = Present(saved')
  BY <1>1 DEF SavedOK, Present
<1>3. SizesOK'
  <2>1. Cardinality(Present(sizes'))  <= MaxSize
    BY <1>2 DEF SavedOK
  <2>2. /\ calls' \in [Threads -> 0 .. MaxCalls] /\ file' \in [Threads -> Files \cup {NoFile}]
        /\ at' \in [Threads -> Obtaining \cup Asleep \cup {"idle", "check", "sleep", "notify"}]
        /\ \A t \in Threads : at'[t] # "idle" => file'[t] \in Files
    BY SizeAssumption
  <2>3. QED
    BY <1>1, <2>1, <2>2 DEF SizesOK, Present
<1>4. MarkerHasObtainer' /\ OneQueryPerFile'
  BY <1>1 DEF MarkerHasObtainer, OneQueryPerFile, Obtains, Obtaining
<1>5. QED
  BY <1>3, <1>4 DEF SizesIInv

LEMMA SizesStepInv == SizesIInv /\ SavedOK /\ [SizesNext]_sizesVars => SizesIInv' /\ SavedOK'
<1> SUFFICES ASSUME SizesIInv, SavedOK, [SizesNext]_sizesVars PROVE SizesIInv' /\ SavedOK'
  OBVIOUS
<1> USE DEF Places
<1>0. SizesOK
  BY DEF SizesIInv
<1>1. ASSUME NEW t \in Threads, NEW f \in Files, Call(t, f) PROVE SizesIInv'
  <2>1. /\ Passes(t, "idle", "check") /\ file' = [file EXCEPT ![t] = f]
        /\ calls' = [calls EXCEPT ![t] = @ + 1] /\ calls[t] < MaxCalls
        /\ UNCHANGED <<sizes, sized, markerLost, fault>>
    BY <1>1 DEF Call
  <2>2. /\ file' \in [Threads -> Files \cup {NoFile}] /\ file'[t] = f
        /\ \A u \in Threads \ {t} : file'[u] = file[u]
    BY <1>0, <2>1 DEF SizesOK
  <2>3. /\ at' \in [Threads -> Places]
        /\ \A u \in Threads : at'[u] # "idle" => file'[u] \in Files
    BY <1>0, <2>1, <2>2, MovedTypes
  <2>4. calls' \in [Threads -> 0 .. MaxCalls]
    BY <1>0, <2>1, SizeAssumption DEF SizesOK
  <2>5. SizesOK'
    BY <1>0, <2>1, <2>2, <2>3, <2>4 DEF SizesOK, Present
  <2>6. MarkerHasObtainer' /\ OneQueryPerFile'
    BY <2>1, MoveKeeps DEF Obtaining
  <2>7. QED
    BY <2>5, <2>6 DEF SizesIInv
<1>2. ASSUME NEW t \in Threads, NEW from \in Places, NEW to \in Places, Passes(t, from, to),
             from # "idle", from \in Obtaining <=> to \in Obtaining,
             UNCHANGED <<sizes, file, calls, markerLost, fault>>, sized' \subseteq Files
      PROVE  SizesIInv'
  <2>1. file[t] \in Files
    BY <1>0, <1>2 DEF SizesOK, Passes
  <2>2. /\ at' \in [Threads -> Places]
        /\ \A u \in Threads : at'[u] # "idle" => file'[u] \in Files
    BY <1>0, <1>2, <2>1, MovedTypes DEF SizesOK
  <2>3. SizesOK'
    BY <1>0, <1>2, <2>2 DEF SizesOK, Present
  <2>4. MarkerHasObtainer' /\ OneQueryPerFile'
    BY <1>2, MoveKeeps
  <2>5. QED
    BY <2>3, <2>4 DEF SizesIInv
<1>3. ASSUME NEW t \in Threads, ReturnKnown(t) PROVE SizesIInv'
  <2>1. file[t] \in Files
    BY <1>0, <1>3 DEF ReturnKnown, Passes, SizesOK
  <2>2. QED
    BY <1>0, <1>2, <1>3, <2>1 DEF ReturnKnown, SizesOK, Obtaining
<1>4. ASSUME NEW t \in Threads, SeeMarker(t) PROVE SizesIInv'
  BY <1>0, <1>2, <1>4 DEF SeeMarker, SizesOK, Obtaining
<1>5. ASSUME NEW t \in Threads, SetMarker(t) PROVE SizesIInv'
  <2>1. file[t] \in Files
    BY <1>0, <1>5 DEF SetMarker, Passes, SizesOK
  <2>2. /\ at' \in [Threads -> Places]
        /\ \A u \in Threads : at'[u] # "idle" => file'[u] \in Files
    BY <1>0, <1>5, <2>1, MovedTypes DEF SizesOK, SetMarker, Obtaining
  <2>3. /\ sizes' \in [Files -> Values] /\ Cardinality(Present(sizes')) <= MaxSize
        /\ markerLost' \in BOOLEAN
    BY <1>0, <1>5, <2>1, PutEffect DEF SetMarker
  <2>4. SizesOK'
    BY <1>0, <1>5, <2>2, <2>3 DEF SizesOK, SetMarker, Values, Present
  <2>5. QED
    BY <1>5, <2>4, SetMarkerKeeps DEF SizesIInv
<1>6. ASSUME NEW t \in Threads, Sleep(t) PROVE SizesIInv'
  BY <1>0, <1>2, <1>6 DEF Sleep, SizesOK, Obtaining, Asleep
<1>7. ASSUME NEW t \in Threads, SpuriousWakeup(t) PROVE SizesIInv'
  BY <1>0, <1>2, <1>7 DEF SpuriousWakeup, Passes, SizesOK, Obtaining, Asleep
<1>8. ASSUME NEW t \in Threads, Query(t) PROVE SizesIInv'
  BY <1>0, <1>2, <1>8 DEF Query, SizesOK, Obtaining
<1>9. ASSUME NEW t \in Threads, Store(t) PROVE SizesIInv'
  <2>1. file[t] \in Files /\ file' = file
    BY <1>0, <1>9 DEF Store, Passes, SizesOK
  <2>2. /\ at' \in [Threads -> Places]
        /\ \A u \in Threads : at'[u] # "idle" => file'[u] \in Files
    BY <1>0, <1>9, <2>1, MovedTypes DEF SizesOK, Store
  <2>3. /\ sizes' \in [Files -> Values] /\ Cardinality(Present(sizes')) <= MaxSize
        /\ markerLost' \in BOOLEAN /\ sizes'[file[t]] # "obtaining"
        /\ \A g \in Files \ {file[t]} : sizes'[g] \in {sizes[g], "absent"}
        /\ ~ markerLost' =>
             /\ ~ markerLost
             /\ \A g \in Files \ {file[t]} : sizes[g] = "obtaining" => sizes'[g] = "obtaining"
    BY <1>0, <1>9, <2>1, PutEffect DEF Store
  <2>4. SizesOK'
    BY <1>0, <1>9, <2>1, <2>2, <2>3 DEF SizesOK, Store, Values, Present
  <2>5. MarkerHasObtainer' /\ OneQueryPerFile'
    BY <1>9, <2>1, <2>3, EndKeeps DEF Store, Obtaining
  <2>6. QED
    BY <2>4, <2>5 DEF SizesIInv
<1>10. ASSUME NEW t \in Threads, Forget(t) PROVE SizesIInv'
  <2>1. file[t] \in Files /\ file' = file /\ markerLost' = markerLost
    BY <1>0, <1>10 DEF Forget, Passes, SizesOK
  <2>2. /\ at' \in [Threads -> Places]
        /\ \A u \in Threads : at'[u] # "idle" => file'[u] \in Files
    BY <1>0, <1>10, <2>1, MovedTypes DEF SizesOK, Forget
  <2>3. /\ sizes' \in [Files -> Values] /\ Cardinality(Present(sizes')) <= MaxSize
        /\ fault' \in BOOLEAN /\ sizes'[file[t]] = "absent"
        /\ \A g \in Files \ {file[t]} : sizes'[g] = sizes[g]
    BY <1>0, <1>10, <2>1, RemoveEffect DEF Forget
  <2>4. SizesOK'
    BY <1>0, <1>10, <2>1, <2>2, <2>3 DEF SizesOK, Forget, Values, Present
  <2>5. MarkerHasObtainer' /\ OneQueryPerFile'
    BY <1>10, <2>1, <2>3, EndKeeps DEF Forget, Obtaining
  <2>6. QED
    BY <2>4, <2>5 DEF SizesIInv
<1>11. ASSUME NEW t \in Threads, Notify(t) PROVE SizesIInv'
  <2>1. /\ \A u \in Threads : at'[u] = at[u] \/ at'[u] \in {"idle", "check"}
        /\ \A u \in Threads : at[u] \in Obtaining => at'[u] = at[u]
        /\ at[t] = "notify" /\ at' \in [Threads -> Places]
        /\ \A u \in Threads : at'[u] # "idle" => at[u] # "idle"
        /\ UNCHANGED <<sizes, file, calls, sized, markerLost, fault>>
    BY <1>0, <1>11 DEF Notify, SizesOK, Obtaining, Asleep
  <2>2. SizesOK'
    BY <1>0, <2>1 DEF SizesOK, Present
  <2>3. \A u \in Threads, f \in Files : Obtains(u, f)' <=> Obtains(u, f)
    BY <2>1 DEF Obtains, Obtaining
  <2>4. MarkerHasObtainer' /\ OneQueryPerFile'
    BY <2>1, <2>3 DEF SizesIInv, MarkerHasObtainer, OneQueryPerFile
  <2>5. QED
    BY <2>2, <2>4 DEF SizesIInv
<1>12. ASSUME NEW f \in Files, RemoveSize(f) PROVE SizesIInv'
  <2>1. /\ sizes' \in [Files -> Values] /\ Cardinality(Present(sizes')) <= MaxSize
        /\ fault' \in BOOLEAN /\ sizes'[f] = "absent"
        /\ \A g \in Files \ {f} : sizes'[g] = sizes[g]
    BY <1>0, <1>12, RemoveEffect DEF RemoveSize
  <2>2. /\ UNCHANGED <<at, file, calls, sized>>
        /\ markerLost' = (markerLost \/ sizes[f] = "obtaining")
    BY <1>12 DEF RemoveSize
  <2>3. markerLost' \in BOOLEAN
    BY <2>2
  <2>4. SizesOK'
    BY <1>0, <2>1, <2>2, <2>3 DEF SizesOK, Values, Present
  <2>5. \A u \in Threads, g \in Files : Obtains(u, g)' <=> Obtains(u, g)
    BY <2>2 DEF Obtains
  <2>6. MarkerHasObtainer'
    BY <2>1, <2>5 DEF SizesIInv, MarkerHasObtainer
  <2>7. OneQueryPerFile'
    BY <2>1, <2>2, <2>5 DEF SizesIInv, OneQueryPerFile
  <2>8. QED
    BY <2>4, <2>6, <2>7 DEF SizesIInv
<1>13. ASSUME UNCHANGED sizesVars PROVE SizesIInv'
  BY <1>13 DEF SizesIInv, SizesOK, MarkerHasObtainer, OneQueryPerFile, Obtains, Present, sizesVars
<1>14. ASSUME UNCHANGED saved PROVE SavedOK'
  BY <1>14 DEF SavedOK, Present
<1>15. ASSUME SizesExit PROVE SizesIInv' /\ SavedOK'
  <2>1. SavedOK'
    BY <1>0, <1>15 DEF SizesExit, SavedOK, SizesOK, Present
  <2>2. QED
    BY <1>15, <2>1, StartsKeeps DEF SizesExit
<1>16. ASSUME SizesKill PROVE SizesIInv' /\ SavedOK'
  <2>1. SavedOK'
    BY <1>14, <1>16 DEF SizesKill
  <2>2. QED
    BY <1>16, <2>1, StartsKeeps DEF SizesKill
<1>17. ASSUME NEW t \in Threads, NEW f \in Files, Call(t, f) PROVE UNCHANGED saved
  BY <1>17 DEF Call
<1>18. ASSUME NEW t \in Threads, InCall(t) \/ SpuriousWakeup(t) PROVE UNCHANGED saved
  BY <1>18 DEF InCall, ReturnKnown, SeeMarker, SetMarker, Sleep, Query, Store, Forget, Notify,
               SpuriousWakeup
<1>19. ASSUME NEW f \in Files, RemoveSize(f) PROVE UNCHANGED saved
  BY <1>19 DEF RemoveSize
<1>20. UNCHANGED sizesVars => UNCHANGED saved
  BY DEF sizesVars
<1>21. CASE \E t \in Threads : InCall(t)
  BY <1>3, <1>4, <1>5, <1>6, <1>8, <1>9, <1>10, <1>11, <1>14, <1>18, <1>21 DEF InCall
<1>22. QED
  BY <1>1, <1>7, <1>12, <1>13, <1>14, <1>15, <1>16, <1>17, <1>18, <1>19, <1>20, <1>21 DEF SizesNext

THEOREM Invariance == SizesSpec => [](SizesIInv /\ SavedOK)
<1>1. SizesInit => SizesIInv /\ SavedOK
  BY SizesInitInv
<1>2. SizesIInv /\ SavedOK /\ [SizesNext]_sizesVars => SizesIInv' /\ SavedOK'
  BY SizesStepInv
<1>3. QED
  BY <1>1, <1>2, PTL DEF SizesSpec

(* The types, and the bound of the cache and of what is saved of it. *)
THEOREM SizesTypeCorrect == SizesSpec => []SizesTypeOK
<1>1. SizesIInv /\ SavedOK => SizesTypeOK
  BY DEF SizesIInv, SizesTypeOK
<1>2. QED
  BY <1>1, Invariance, PTL

(* Every marker this program has set has a thread that will take it away:  *)
(* in whatever order calls, failures, evictions and removals come, none of *)
(* them is left over.  A marker loaded from the saved sizes is "stale".    *)
THEOREM MarkersAreTended == SizesSpec => []MarkerHasObtainer
<1>1. SizesIInv => MarkerHasObtainer
  BY DEF SizesIInv
<1>2. QED
  BY <1>1, Invariance, PTL

(* While no marker is lost, one thread at a time asks for a file's size.   *)
THEOREM OneQueryAtATime == SizesSpec => []OneQueryPerFile
<1>1. SizesIInv => OneQueryPerFile
  BY DEF SizesIInv
<1>2. QED
  BY <1>1, Invariance, PTL
=============================================================================

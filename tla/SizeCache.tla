------------------------------ MODULE SizeCache ------------------------------
(***************************************************************************)
(* The sizes half of CommonCache.  A size that is not cached is obtained   *)
(* from the server without a lock; a marker in the cache keeps others from *)
(* asking for the same file, and they wait for a condition variable.  They *)
(* test the marker under one mutex and wait under another one, without a   *)
(* predicate.                                                              *)
(*                                                                         *)
(* Which entry a full cache evicts is left open, except that it is not the *)
(* one being put (the cache evicts the least recently used).  Removing an  *)
(* entry that is absent erases through an iterator to nothing: undefined   *)
(* behaviour, after which the program is taken to have crashed.            *)
(*                                                                         *)
(* The cache is saved when the program exits, and loaded by the next one;  *)
(* a program that is killed leaves what was saved before.  A marker that   *)
(* was saved is a marker to the next program too, called "stale" here: no  *)
(* thread of that program obtains its size.                                *)
(***************************************************************************)
EXTENDS Integers, FiniteSets

CONSTANTS
  Threads,
  Files,
  MaxSize,    \* _max_size of the sizes cache
  MaxCalls,   \* bound: calls of getFileSize per thread
  NoFile      \* no file

ASSUME SizeAssumption == /\ MaxSize \in Nat /\ MaxCalls \in Nat
                         /\ IsFiniteSet(Files) /\ NoFile \notin Files

VARIABLES
  sizes,      \* _sizesCache: "absent", "obtaining" or "stale" (the marker), "known"
  saved,      \* the sizes file
  at,         \* where each thread is
  file,       \* the file it asks for
  calls,      \* the calls made so far
  sized,      \* the files a size has been returned of
  markerLost, \* whether a marker has been evicted or removed by others
  fault       \* whether an absent entry has been removed

sizesVars == <<sizes, saved, at, file, calls, sized, markerLost, fault>>

SizesInit == /\ sizes = [f \in Files |-> "absent"] /\ saved = sizes
             /\ at = [t \in Threads |-> "idle"]
             /\ file = [t \in Threads |-> NoFile]
             /\ calls = [t \in Threads |-> 0]
             /\ sized = {} /\ markerLost = FALSE /\ fault = FALSE
-----------------------------------------------------------------------------
Present(s) == {f \in DOMAIN s : s[f] # "absent"}

PutEntry(f, v) ==
  LET new     == [sizes EXCEPT ![f] = v]
      others  == Present(new) \ {f}
      victims == IF others = {} THEN {f} ELSE others
  IN  IF Cardinality(Present(new)) <= MaxSize
      THEN sizes' = new /\ UNCHANGED markerLost
      ELSE \E victim \in victims :
             /\ sizes' = [new EXCEPT ![victim] = "absent"]
             /\ markerLost' = (markerLost \/ new[victim] = "obtaining")

RemoveEntry(f) == /\ fault' = (sizes[f] = "absent")
                  /\ sizes' = [sizes EXCEPT ![f] = "absent"]

Passes(t, from, to) == ~ fault /\ at[t] = from /\ at' = [at EXCEPT ![t] = to]
-----------------------------------------------------------------------------
Call(t, f) ==
  /\ Passes(t, "idle", "check")
  /\ calls[t] < MaxCalls
  /\ calls' = [calls EXCEPT ![t] = @ + 1]
  /\ file' = [file EXCEPT ![t] = f]
  /\ UNCHANGED <<saved, sizes, sized, markerLost, fault>>

(* Under _sizesMutex: a size that is known is returned, ...                *)
ReturnKnown(t) ==
  /\ Passes(t, "check", "idle")
  /\ sizes[file[t]] = "known"
  /\ sized' = sized \cup {file[t]}
  /\ UNCHANGED <<saved, sizes, file, calls, markerLost, fault>>

(* ... one that is being obtained is waited for, ...                       *)
SeeMarker(t) ==
  /\ Passes(t, "check", "sleep")
  /\ sizes[file[t]] \in {"obtaining", "stale"}
  /\ UNCHANGED <<saved, sizes, file, calls, sized, markerLost, fault>>

\* Mutant: the marker is forgotten.
SetMarkerNot(t) ==
  /\ Passes(t, "check", "query")
  /\ sizes[file[t]] = "absent"
  /\ UNCHANGED <<saved, sizes, file, calls, sized, markerLost, fault>>

(* ... and one that is absent gets the marker.                             *)
SetMarker(t) ==
  /\ Passes(t, "check", "query")
  /\ sizes[file[t]] = "absent"
  /\ PutEntry(file[t], "obtaining")
  /\ UNCHANGED <<saved, file, calls, sized, fault>>

Obtaining == {"query", "store", "forget"}

(* The wait begins.  With no notification under way the thread is stranded *)
(* unless a later call happens to notify.                                  *)
Sleep(t) ==
  /\ Passes(t, "sleep", IF \E u \in Threads : at[u] \in Obtaining \cup {"notify"}
                        THEN "waiting" ELSE "stranded")
  /\ UNCHANGED <<saved, sizes, file, calls, sized, markerLost, fault>>

Asleep == {"waiting", "stranded"}

SpuriousWakeup(t) ==
  /\ ~ fault /\ at[t] \in Asleep
  /\ at' = [at EXCEPT ![t] = "check"]
  /\ UNCHANGED <<saved, sizes, file, calls, sized, markerLost, fault>>

(* Mp3SizeObtainer::getSize, with all its retries.                         *)
Query(t) ==
  /\ \E to \in {"store", "forget"} : Passes(t, "query", to)
  /\ UNCHANGED <<saved, sizes, file, calls, sized, markerLost, fault>>

Store(t) ==
  /\ Passes(t, "store", "notify")
  /\ PutEntry(file[t], "known")
  /\ sized' = sized \cup {file[t]}
  /\ UNCHANGED <<saved, file, calls, fault>>

\* Mutant: a failed query leaves its marker.
ForgetNotRemoving(t) ==
  /\ Passes(t, "forget", "notify")
  /\ UNCHANGED <<saved, sizes, file, calls, sized, markerLost, fault>>

Forget(t) ==
  /\ Passes(t, "forget", "notify")
  /\ RemoveEntry(file[t])
  /\ UNCHANGED <<saved, file, calls, sized, markerLost>>

\* Mutant: notify_one.
NotifyOne(t) ==
  /\ ~ fault /\ at[t] = "notify"
  /\ IF \E u \in Threads : at[u] \in Asleep
     THEN \E u \in Threads : /\ at[u] \in Asleep
                             /\ at' = [at EXCEPT ![t] = "idle", ![u] = "check"]
     ELSE at' = [at EXCEPT ![t] = "idle"]
  /\ UNCHANGED <<saved, sizes, file, calls, sized, markerLost, fault>>

(* notify_all, and the call ends. *)
Notify(t) ==
  /\ ~ fault /\ at[t] = "notify"
  /\ at' = [u \in Threads |-> IF u = t THEN "idle"
                              ELSE IF at[u] \in Asleep THEN "check" ELSE at[u]]
  /\ UNCHANGED <<saved, sizes, file, calls, sized, markerLost, fault>>

(* removeSize: a size returned earlier has turned out wrong.  Every read   *)
(* that waits for the opening of the song learns so, and removes it.       *)
RemoveSize(f) ==
  /\ ~ fault /\ f \in sized
  /\ RemoveEntry(f)
  /\ markerLost' = (markerLost \/ sizes[f] = "obtaining")
  /\ UNCHANGED <<saved, at, file, calls, sized>>

(* The next program: its cache is what the file says.                      *)
Starts == /\ sizes' = [f \in Files |-> IF saved'[f] = "obtaining" THEN "stale" ELSE saved'[f]]
          /\ at' = [t \in Threads |-> "idle"] /\ file' = [t \in Threads |-> NoFile]
          /\ calls' = [t \in Threads |-> 0]
          /\ sized' = {} /\ markerLost' = FALSE /\ fault' = FALSE

(* An exit does not wait for jobs of the pool that obtain sizes.           *)
SizesExit == ~ fault /\ saved' = sizes /\ Starts

SizesKill == saved' = saved /\ Starts
-----------------------------------------------------------------------------
InCall(t) == \/ ReturnKnown(t) \/ SeeMarker(t) \/ SetMarker(t) \/ Sleep(t)
             \/ Query(t) \/ Store(t) \/ Forget(t) \/ Notify(t)

SizesNext == \/ \E t \in Threads, f \in Files : Call(t, f)
             \/ \E t \in Threads : InCall(t) \/ SpuriousWakeup(t)
             \/ \E f \in Files : RemoveSize(f)
             \/ SizesExit \/ SizesKill

SizesSpec == SizesInit /\ [][SizesNext]_sizesVars

(* A thread that can go on does, and a query ends: its request and its     *)
(* answer are waited for with a timeout, the connection by assumption.     *)
(* Nothing is assumed of new calls or of spurious wakeups.                 *)
SizesFairSpec == SizesSpec /\ \A t \in Threads : WF_sizesVars(InCall(t))
-----------------------------------------------------------------------------
Values == {"absent", "obtaining", "stale", "known"}

(* The state is of the right type, and the cache within its bound. *)
SizesOK ==
  /\ sizes \in [Files -> Values]
  /\ Cardinality(Present(sizes)) <= MaxSize
  /\ at \in [Threads -> Obtaining \cup Asleep \cup {"idle", "check", "sleep", "notify"}]
  /\ file \in [Threads -> Files \cup {NoFile}]
  /\ \A t \in Threads : at[t] # "idle" => file[t] \in Files
  /\ calls \in [Threads -> 0 .. MaxCalls]
  /\ sized \subseteq Files
  /\ markerLost \in BOOLEAN /\ fault \in BOOLEAN

SavedOK == saved \in [Files -> Values] /\ Cardinality(Present(saved)) <= MaxSize

SizesTypeOK == SizesOK /\ SavedOK

Obtains(t, f) == at[t] \in Obtaining /\ file[t] = f

(* A marker the program has set stands for a thread that is obtaining the  *)
(* size and will take the marker away, however its query ends and whatever *)
(* has been evicted, removed or loaded meanwhile; without one all who need *)
(* the size wait for ever.                                                 *)
MarkerHasObtainer ==
  \A f \in Files : sizes[f] = "obtaining" => \E t \in Threads : Obtains(t, f)

(* As long as no marker has been evicted or removed by others, a file's    *)
(* size is asked for by one thread at a time, and a failing query finds    *)
(* its marker where it removes it.                                         *)
OneQueryPerFile ==
  ~ markerLost => \A f \in Files : \A t \in Threads : Obtains(t, f) =>
                    /\ sizes[f] = "obtaining"
                    /\ \A u \in Threads : Obtains(u, f) => u = t

(* A call returns or throws, unless the thread has gone to sleep after the *)
(* last notification or at a marker of an earlier program, or the program  *)
(* has crashed.                                                            *)
CallEndsUnlessStranded ==
  \A t \in Threads : at[t] # "idle" ~> (at[t] \in {"idle", "stranded"} \/ fault)
=============================================================================

---------------------------- MODULE Streams_proofs ----------------------------
(***************************************************************************)
(* Theorems about the streams of a download and the buffer a song is       *)
(* parsed through.                                                         *)
(***************************************************************************)
EXTENDS HttpStream, BlockingBuffer, SequenceTheorems, FiniteSetTheorems, TLAPS
-----------------------------------------------------------------------------
(* HttpStream: handlers and callers of the streams.  A handler that is     *)
(* still to run, or that keeps the event loop, belongs to a caller that    *)
(* waits and whose promise is unsatisfied; the two exclude each other.     *)
(* What ends a call needs its promise, so that neither is left behind.     *)
(* With the turns that FileProcessor takes this makes the uses of a        *)
(* connection exclude each other until a partial read has failed.          *)
CallInv ==
  \A t \in Threads : op[t] =>
    /\ pc[t] = "waiting" /\ promise[t] = "unset"
    /\ loop = Nobody \/ loop.of # t
    /\ stage[t] \in 1 .. Len(Stages[kind[t]])
    /\ kind[t] = "block" => left > 0

LoopInv ==
  loop # Nobody =>
    /\ pc[loop.of] = "waiting" /\ promise[loop.of] = "unset"
    /\ loop.at = "handshake" =>
         kind[loop.of] # "block" /\ stage[loop.of] \in 1 .. Len(Stages[kind[loop.of]]) - 1

TurnInv ==
  \A t, u \in Threads :
    pc[t] # "idle" /\ kind[t] \in InTurn /\ pc[u] # "idle" /\ kind[u] \in InTurn => t = u

PartInv ==
  \A t \in Threads : kind[t] = "part" /\ pc[t] \in {"closing", "setting", "shutting"} => torn

SizeInv ==
  \A t \in Threads :
    /\ failures[t] <= NumSizeRetries + 1
    /\ kind[t] # "size" => failures[t] = 0
    /\ kind[t] = "size" =>
         /\ pc[t] \notin {"closing", "setting"}
         /\ pc[t] # "idle" => failures[t] <= NumSizeRetries
         /\ pc[t] = "idle" => (promise[t] = "network" <=> failures[t] = NumSizeRetries + 1)
         /\ pc[t] \in {"idle", "shutting"} => promise[t] # "unset"

IInv == TypeOK /\ CallInv /\ LoopInv /\ TurnInv /\ PartInv /\ SizeInv

(* The stages of a call: only answers end one.                             *)
LEMMA StageFacts ==
  /\ Kinds = {"open", "block", "part", "close", "size", "query"}
  /\ \A k \in Kinds : Len(Stages[k]) \in 0 .. 4
  /\ \A k \in Kinds \ {"close"} : Len(Stages[k]) >= 1
  /\ \A k \in Kinds : \A n \in 1 .. Len(Stages[k]) :
       /\ Stages[k][n] \in {"connect", "write"} => n < Len(Stages[k]) /\ k # "block"
       /\ Stages[k][n] = "header" /\ k = "part" => n < Len(Stages[k])
       /\ Stages[k][n] = "header" => k # "block"
<1>1. Kinds = {"open", "block", "part", "close", "size", "query"}
  BY DEF Kinds, Stages
<1>2. ASSUME NEW k \in Kinds
      PROVE  /\ Len(Stages[k]) \in 0 .. 4
             /\ k # "close" => Len(Stages[k]) >= 1
             /\ \A n \in 1 .. Len(Stages[k]) :
                  /\ Stages[k][n] \in {"connect", "write"} => n < Len(Stages[k]) /\ k # "block"
                  /\ Stages[k][n] = "header" /\ k = "part" => n < Len(Stages[k])
                  /\ Stages[k][n] = "header" => k # "block"
  <2>1. CASE k = "open"
    <3>1. Stages[k] = <<"connect", "write", "header">>
      BY <2>1 DEF Stages
    <3> QED
      BY <2>1, <3>1
  <2>2. CASE k = "block"
    <3>1. Stages[k] = <<"body">>
      BY <2>2 DEF Stages
    <3> QED
      BY <2>2, <3>1
  <2>3. CASE k = "part"
    <3>1. Stages[k] = <<"connect", "write", "header", "body">>
      BY <2>3 DEF Stages
    <3> QED
      BY <2>3, <3>1
  <2>4. CASE k = "close"
    <3>1. Stages[k] = <<>>
      BY <2>4 DEF Stages
    <3> QED
      BY <2>4, <3>1
  <2>5. CASE k = "size"
    <3>1. Stages[k] = <<"connect", "timed", "timed">>
      BY <2>5 DEF Stages
    <3> QED
      BY <2>5, <3>1
  <2>6. CASE k = "query"
    <3>1. Stages[k] = <<"connect", "write", "timed", "timed">>
      BY <2>6 DEF Stages
    <3> QED
      BY <2>6, <3>1
  <2> QED
    BY <1>1, <2>1, <2>2, <2>3, <2>4, <2>5, <2>6
<1> QED
  BY <1>1, <1>2

LEMMA InitInv == Init => IInv
<1> SUFFICES ASSUME Init PROVE IInv
  OBVIOUS
<1>1. TypeOK
  <2>1. "close" \in Kinds
    BY StageFacts
  <2>2. \A t \in Threads : MaxCalls[t] \in Nat /\ Blocks \in Nat
    BY StreamAssumption
  <2>3. /\ kind \in [Threads -> Kinds] /\ stage \in [Threads -> 0 .. 4]
        /\ pc \in [Threads -> {"idle", "waiting", "closing", "setting", "shutting"}]
        /\ failures \in [Threads -> Nat]
        /\ promise \in [Threads -> {"unset", "ok", "network", "http", "wrong"}]
    BY <2>1 DEF Init
  <2>4. op \in [Threads -> BOOLEAN] /\ late \in [Threads -> BOOLEAN]
    BY DEF Init
  <2>5. loop = Nobody /\ closed \in BOOLEAN /\ up = "no" /\ torn \in BOOLEAN /\ silent = {} /\ cancelled = {}
    BY DEF Init
  <2>6. left = 0 /\ calls \in [Threads -> Nat] /\ \A t \in Threads : calls[t] = 0
    BY DEF Init
  <2>7. left \in 0 .. Blocks /\ \A t \in Threads : calls[t] \in 0 .. MaxCalls[t]
    BY <2>2, <2>6, StreamAssumption
  <2> QED
    BY <2>3, <2>4, <2>5, <2>6, <2>7 DEF TypeOK
<1>2. CallInv /\ LoopInv /\ TurnInv /\ PartInv /\ SizeInv
  BY StreamAssumption DEF Init, CallInv, LoopInv, TurnInv, PartInv, SizeInv
<1> QED
  BY <1>1, <1>2 DEF IInv
-----------------------------------------------------------------------------
(* A promise is satisfied while it is unsatisfied only.                    *)
LEMMA SatisfyOnce ==
  ASSUME TypeOK, NEW t \in Threads, promise[t] = "unset", NEW r \in {"ok", "network", "http", "wrong"},
         Satisfy(t, r)
  PROVE  /\ promise' = [promise EXCEPT ![t] = r]
         /\ promise' \in [Threads -> {"unset", "ok", "network", "http", "wrong"}]
BY DEF Satisfy, TypeOK

LEMMA StartsStage ==
  ASSUME TypeOK, NEW t \in Threads, NEW n \in 0 .. 4, Starts(t, n)
  PROVE  /\ stage' = [stage EXCEPT ![t] = n] /\ op' = [op EXCEPT ![t] = TRUE]
         /\ stage' \in [Threads -> 0 .. 4] /\ op' \in [Threads -> BOOLEAN]
         /\ late' \in [Threads -> BOOLEAN]
BY DEF Starts, TypeOK

(* A step of the loop on behalf of t leaves callers where they are, and    *)
(* ends or goes on with an operation whose caller waits.                   *)
LEMMA LoopStep ==
  ASSUME IInv, NEW t \in Threads, pc[t] = "waiting", promise[t] = "unset",
         UNCHANGED <<kind, pc, failures, calls, torn, silent, cancelled>>,
         op' \in [Threads -> BOOLEAN], \A u \in Threads \ {t} : op'[u] = op[u],
         late' \in [Threads -> BOOLEAN],
         stage' \in [Threads -> 0 .. 4], \A u \in Threads \ {t} : stage'[u] = stage[u],
         promise' \in [Threads -> {"unset", "ok", "network", "http", "wrong"}],
         \A u \in Threads \ {t} : promise'[u] = promise[u],
         op'[t] => promise'[t] = "unset" /\ stage'[t] \in 1 .. Len(Stages[kind[t]])
                   /\ loop' = Nobody /\ kind[t] # "block",
         \/ loop' = Nobody
         \/ /\ promise'[t] = "unset"
            /\ loop' \in [at : {"handshake", "shutdown"}, of : {t},
                          result : {"ok", "network", "http", "wrong"}]
            /\ loop'.at = "handshake" =>
                 kind[t] # "block" /\ stage'[t] \in 1 .. Len(Stages[kind[t]]) - 1,
         closed' \in BOOLEAN, up' \in {"no", "made", "open"}, left' \in 0 .. Blocks,
         left' # left => kind[t] \in InTurn
  PROVE  IInv'
<1>1. TypeOK'
  BY DEF IInv, TypeOK
<1>2. CallInv'
  <2> SUFFICES ASSUME NEW u \in Threads, op'[u]
               PROVE  /\ pc[u] = "waiting" /\ promise'[u] = "unset"
                      /\ loop' = Nobody \/ loop'.of # u
                      /\ stage'[u] \in 1 .. Len(Stages[kind[u]])
                      /\ kind[u] = "block" => left' > 0
    BY DEF CallInv
  <2>1. CASE u = t
    BY <2>1
  <2>2. CASE u # t
    <3>1. /\ pc[u] = "waiting" /\ promise[u] = "unset" /\ stage[u] \in 1 .. Len(Stages[kind[u]])
          /\ kind[u] = "block" => left > 0
      BY <2>2 DEF IInv, CallInv
    <3>2. kind[u] = "block" => kind[t] \notin InTurn
      BY <2>2, <3>1 DEF IInv, TurnInv, InTurn
    <3>3. loop' = Nobody \/ loop'.of # u
      BY <2>2
    <3> QED
      BY <2>2, <3>1, <3>2, <3>3
  <2> QED
    BY <2>1, <2>2
<1>3. LoopInv'
  BY DEF LoopInv
<1>4. TurnInv' /\ PartInv'
  BY DEF IInv, TurnInv, PartInv
<1>5. SizeInv'
  <2> SUFFICES ASSUME NEW u \in Threads
               PROVE  /\ failures[u] <= NumSizeRetries + 1
                      /\ kind[u] # "size" => failures[u] = 0
                      /\ kind[u] = "size" =>
                           /\ pc[u] \notin {"closing", "setting"}
                           /\ pc[u] # "idle" => failures[u] <= NumSizeRetries
                           /\ pc[u] = "idle" => (promise'[u] = "network" <=> failures[u] = NumSizeRetries + 1)
                           /\ pc[u] \in {"idle", "shutting"} => promise'[u] # "unset"
    BY DEF SizeInv
  <2>1. pc[u] \in {"idle", "shutting"} => promise'[u] = promise[u]
    OBVIOUS
  <2> QED
    BY <2>1 DEF IInv, SizeInv
<1> QED
  BY <1>1, <1>2, <1>3, <1>4, <1>5 DEF IInv

(* The handlers of operations.                                             *)
LEMMA OverOp ==
  ASSUME TypeOK, NEW t \in Threads, Over(t)
  PROVE  /\ op' \in [Threads -> BOOLEAN] /\ ~ op'[t] /\ \A u \in Threads \ {t} : op'[u] = op[u]
         /\ late' \in [Threads -> BOOLEAN] /\ stage' = stage
BY DEF Over, TypeOK

Results == {"ok", "network", "http", "wrong"}

(* The loop is free, and what follows satisfies the promise or keeps it.   *)
LEMMA EndsOrShuts ==
  ASSUME TypeOK, NEW t \in Threads, promise[t] = "unset", loop = Nobody, NEW r \in Results,
         Ends(t, r) \/ ShutsDown(t, r)
  PROVE  /\ promise' \in [Threads -> {"unset", "ok", "network", "http", "wrong"}]
         /\ \A u \in Threads \ {t} : promise'[u] = promise[u]
         /\ \/ loop' = Nobody
            \/ /\ promise'[t] = "unset"
               /\ loop' \in [at : {"handshake", "shutdown"}, of : {t}, result : Results]
               /\ loop'.at = "shutdown"
<1>1. CASE Ends(t, r)
  BY <1>1, SatisfyOnce DEF Ends, Results, TypeOK
<1>2. CASE ShutsDown(t, r)
  BY <1>2 DEF ShutsDown, Results, TypeOK
<1> QED
  BY <1>1, <1>2

(* An operation is over, and no other one of the call is begun.            *)
LEMMA OverStep ==
  ASSUME IInv, NEW t \in Threads, Handles(t), Over(t), NEW r \in Results,
         Ends(t, r) \/ ShutsDown(t, r),
         closed' \in BOOLEAN, up' \in {"no", "made", "open"}, left' \in 0 .. Blocks,
         left' # left => kind[t] \in InTurn
  PROVE  IInv'
<1>1. pc[t] = "waiting" /\ promise[t] = "unset" /\ loop = Nobody
  BY DEF Handles, IInv, CallInv
<1>2. TypeOK /\ UNCHANGED <<kind, pc, failures, calls, torn, silent, cancelled>>
  BY DEF Handles, IInv
<1>3. /\ op' \in [Threads -> BOOLEAN] /\ ~ op'[t] /\ \A u \in Threads \ {t} : op'[u] = op[u]
      /\ late' \in [Threads -> BOOLEAN] /\ stage' = stage
  BY <1>2, OverOp
<1>4. /\ promise' \in [Threads -> {"unset", "ok", "network", "http", "wrong"}]
      /\ \A u \in Threads \ {t} : promise'[u] = promise[u]
      /\ \/ loop' = Nobody
         \/ /\ promise'[t] = "unset"
            /\ loop' \in [at : {"handshake", "shutdown"}, of : {t}, result : Results]
            /\ loop'.at = "shutdown"
  BY <1>1, <1>2, EndsOrShuts
<1>5. stage' \in [Threads -> 0 .. 4]
  BY <1>2, <1>3 DEF TypeOK
<1> QED
  BY <1>1, <1>2, <1>3, <1>4, <1>5, LoopStep DEF Results

(* The next operation of a call is begun by the handler of the last one.   *)
LEMMA NextOp ==
  ASSUME IInv, NEW t \in Threads, Handles(t), Starts(t, stage[t] + 1), stage[t] < Len(Stages[kind[t]]),
         kind[t] # "block", UNCHANGED <<promise, loop, stream>>
  PROVE  IInv'
<1>1. pc[t] = "waiting" /\ promise[t] = "unset" /\ loop = Nobody
      /\ stage[t] \in 1 .. Len(Stages[kind[t]])
  BY DEF Handles, IInv, CallInv
<1>2. TypeOK /\ UNCHANGED <<kind, pc, failures, calls, torn, silent, cancelled>>
  BY DEF Handles, IInv
<1>3. Len(Stages[kind[t]]) \in 0 .. 4
  BY <1>2, StageFacts DEF TypeOK
<1>4. stage[t] + 1 \in 0 .. 4 /\ stage[t] + 1 \in 1 .. Len(Stages[kind[t]])
  <2> DEFINE last == Len(Stages[kind[t]])
             n    == stage[t]
  <2>1. n \in 1 .. last /\ last \in 0 .. 4 /\ n < last
    BY <1>1, <1>3
  <2> HIDE DEF last, n
  <2>2. n + 1 \in 0 .. 4 /\ n + 1 \in 1 .. last
    BY <2>1
  <2> QED
    BY <2>2 DEF last, n
<1>5. /\ stage' = [stage EXCEPT ![t] = stage[t] + 1] /\ op' = [op EXCEPT ![t] = TRUE]
      /\ stage' \in [Threads -> 0 .. 4] /\ op' \in [Threads -> BOOLEAN]
      /\ late' \in [Threads -> BOOLEAN]
  BY <1>2, <1>4, StartsStage
<1>6. /\ stage'[t] = stage[t] + 1 /\ op'[t]
      /\ \A u \in Threads \ {t} : stage'[u] = stage[u] /\ op'[u] = op[u]
  BY <1>2, <1>5 DEF TypeOK
<1>7. /\ promise' \in [Threads -> {"unset", "ok", "network", "http", "wrong"}] /\ promise' = promise
      /\ loop' = Nobody /\ closed' \in BOOLEAN /\ up' \in {"no", "made", "open"}
      /\ left' = left /\ left' \in 0 .. Blocks
  BY <1>1, <1>2 DEF TypeOK, stream
<1> QED
  BY <1>1, <1>2, <1>4, <1>5, <1>6, <1>7, LoopStep

LEMMA HandledStage ==
  ASSUME IInv, NEW t \in Threads, Handles(t)
  PROVE  /\ kind[t] \in Kinds /\ stage[t] \in 1 .. Len(Stages[kind[t]])
         /\ pc[t] = "waiting" /\ promise[t] = "unset" /\ loop = Nobody
         /\ closed \in BOOLEAN /\ up \in {"no", "made", "open"} /\ left \in 0 .. Blocks
         /\ Stage(t) \in {"connect", "write"} =>
              stage[t] < Len(Stages[kind[t]]) /\ kind[t] # "block"
         /\ Stage(t) = "header" /\ kind[t] = "part" => stage[t] < Len(Stages[kind[t]])
<1>1. kind[t] \in Kinds /\ stage[t] \in 1 .. Len(Stages[kind[t]])
      /\ pc[t] = "waiting" /\ promise[t] = "unset" /\ loop = Nobody
      /\ closed \in BOOLEAN /\ up \in {"no", "made", "open"} /\ left \in 0 .. Blocks
  BY DEF Handles, IInv, CallInv, TypeOK
<1>2. Stage(t) = Stages[kind[t]][stage[t]]
  BY DEF Stage
<1> QED
  BY <1>1, <1>2, StageFacts

LEMMA ErrsInv ==
  ASSUME IInv, NEW t \in Threads, Errs(t)
  PROVE  IInv'
<1>1. Handles(t) /\ Over(t) /\ UNCHANGED stream
  BY DEF Errs
<1>2. PICK r \in Results : Ends(t, r) \/ ShutsDown(t, r)
  BY DEF Errs, Fails, Results
<1>3. closed' \in BOOLEAN /\ up' \in {"no", "made", "open"} /\ left' \in 0 .. Blocks /\ left' = left
  BY <1>1, HandledStage DEF stream
<1> QED
  BY <1>1, <1>2, <1>3, OverStep

LEMMA TimedOverInv ==
  ASSUME IInv, NEW t \in Threads, TimedOver(t)
  PROVE  IInv'
<1>1. Handles(t) /\ Over(t) /\ UNCHANGED stream
  BY DEF TimedOver
<1>2. PICK r \in Results : Ends(t, r)
  BY DEF TimedOver, Results
<1>3. closed' \in BOOLEAN /\ up' \in {"no", "made", "open"} /\ left' \in 0 .. Blocks /\ left' = left
  BY <1>1, HandledStage DEF stream
<1> QED
  BY <1>1, <1>2, <1>3, OverStep

LEMMA PartReadInv ==
  ASSUME IInv, NEW t \in Threads, PartRead(t)
  PROVE  IInv'
<1>1. Handles(t) /\ Over(t) /\ UNCHANGED stream /\ ShutsDown(t, "ok")
  BY DEF PartRead
<1>2. "ok" \in Results
  BY DEF Results
<1>3. closed' \in BOOLEAN /\ up' \in {"no", "made", "open"} /\ left' \in 0 .. Blocks /\ left' = left
  BY <1>1, HandledStage DEF stream
<1> QED
  BY <1>1, <1>2, <1>3, OverStep

LEMMA BlockReadInv ==
  ASSUME IInv, NEW t \in Threads, BlockRead(t)
  PROVE  IInv'
<1>1. Handles(t) /\ Over(t) /\ kind[t] = "block" /\ left' = left - 1 /\ up' = up
  BY DEF BlockRead
<1>2. Ends(t, "ok") \/ ShutsDown(t, "ok")
  BY DEF BlockRead, LoopCloses
<1>3. closed' = closed \/ closed' = TRUE
  BY DEF BlockRead, LoopCloses
<1>4. left > 0
  BY <1>1 DEF Handles, IInv, CallInv
<1>5. closed \in BOOLEAN /\ up' \in {"no", "made", "open"} /\ left \in 0 .. Blocks
  BY <1>1, HandledStage
<1>6. left' \in 0 .. Blocks
  BY <1>1, <1>4, <1>5, StreamAssumption
<1>7. closed' \in BOOLEAN
  BY <1>3, <1>5
<1>8. "ok" \in Results /\ kind[t] \in InTurn
  BY <1>1 DEF Results, InTurn
<1> QED
  BY <1>1, <1>2, <1>5, <1>6, <1>7, <1>8, OverStep

LEMMA ConnectedInv ==
  ASSUME IInv, NEW t \in Threads, Connected(t)
  PROVE  IInv'
<1>1. Handles(t) /\ Over(t) /\ Stage(t) = "connect" /\ UNCHANGED <<promise, stream>>
      /\ loop' = [at |-> "handshake", of |-> t, result |-> "ok"]
  BY DEF Connected
<1>2. TypeOK /\ UNCHANGED <<kind, pc, failures, calls, torn, silent, cancelled>>
  BY <1>1 DEF Handles, IInv
<1>3. /\ op' \in [Threads -> BOOLEAN] /\ ~ op'[t] /\ \A u \in Threads \ {t} : op'[u] = op[u]
      /\ late' \in [Threads -> BOOLEAN] /\ stage' = stage
  BY <1>1, <1>2, OverOp
<1>4. /\ pc[t] = "waiting" /\ promise[t] = "unset" /\ kind[t] # "block"
      /\ stage[t] \in 1 .. Len(Stages[kind[t]]) /\ stage[t] < Len(Stages[kind[t]])
      /\ kind[t] \in Kinds
  BY <1>1, HandledStage
<1>5. stage[t] \in 1 .. Len(Stages[kind[t]]) - 1
  <2> DEFINE last == Len(Stages[kind[t]])
             n    == stage[t]
  <2>1. n \in 1 .. last /\ last \in 0 .. 4 /\ n < last
    BY <1>4, StageFacts
  <2> HIDE DEF last, n
  <2>2. n \in 1 .. last - 1
    BY <2>1
  <2> QED
    BY <2>2 DEF last, n
<1>6. loop' \in [at : {"handshake", "shutdown"}, of : {t}, result : {"ok", "network", "http", "wrong"}]
  BY <1>1
<1>7. /\ promise' \in [Threads -> {"unset", "ok", "network", "http", "wrong"}] /\ promise' = promise
      /\ closed' \in BOOLEAN /\ up' \in {"no", "made", "open"}
      /\ left' = left /\ left' \in 0 .. Blocks /\ stage' \in [Threads -> 0 .. 4]
  BY <1>1, <1>2, <1>3 DEF TypeOK, stream
<1> QED
  BY <1>2, <1>3, <1>4, <1>5, <1>6, <1>7, LoopStep

LEMMA WrittenInv ==
  ASSUME IInv, NEW t \in Threads, Written(t)
  PROVE  IInv'
<1>1. Handles(t) /\ UNCHANGED stream /\ Stage(t) = "write"
  BY DEF Written
<1>2. stage[t] < Len(Stages[kind[t]]) /\ kind[t] # "block"
  BY <1>1, HandledStage
<1>3. CASE Over(t) /\ Ends(t, "ok")
  <2>1. "ok" \in Results
    BY DEF Results
  <2>2. closed' \in BOOLEAN /\ up' \in {"no", "made", "open"} /\ left' \in 0 .. Blocks /\ left' = left
    BY <1>1, HandledStage DEF stream
  <2> QED
    BY <1>1, <1>3, <2>1, <2>2, OverStep
<1>4. CASE Starts(t, stage[t] + 1) /\ UNCHANGED <<promise, loop>>
  BY <1>1, <1>2, <1>4, NextOp
<1> QED
  BY <1>3, <1>4 DEF Written

LEMMA HeaderReadInv ==
  ASSUME IInv, NEW t \in Threads, HeaderRead(t)
  PROVE  IInv'
<1>1. Handles(t) /\ Stage(t) = "header"
  BY DEF HeaderRead
<1>2. closed \in BOOLEAN /\ up \in {"no", "made", "open"} /\ left \in 0 .. Blocks
  BY <1>1, HandledStage
<1>3. CASE kind[t] = "part" /\ Starts(t, stage[t] + 1) /\ UNCHANGED <<promise, loop, stream>>
  <2>1. stage[t] < Len(Stages[kind[t]]) /\ kind[t] # "block"
    BY <1>1, <1>3, HandledStage
  <2> QED
    BY <1>1, <1>3, <2>1, NextOp
<1>4. ASSUME Over(t), NEW r \in Results, Ends(t, r) \/ ShutsDown(t, r),
             closed' \in {closed, TRUE}, up' \in {up, "open"}, left' \in {left, Blocks},
             left' # left => kind[t] = "open"
      PROVE  IInv'
  <2>1. closed' \in BOOLEAN /\ up' \in {"no", "made", "open"}
    BY <1>2, <1>4
  <2>2. left' \in 0 .. Blocks
    BY <1>2, <1>4, StreamAssumption
  <2>3. left' # left => kind[t] \in InTurn
    BY <1>4 DEF InTurn
  <2> QED
    BY <1>1, <1>4, <2>1, <2>2, <2>3, OverStep
<1>5. "ok" \in Results /\ "wrong" \in Results
  BY DEF Results
<1>6. CASE /\ kind[t] = "open" /\ Over(t) /\ Ends(t, "ok")
           /\ left' = Blocks /\ up' = "open" /\ UNCHANGED closed
  BY <1>4, <1>5, <1>6
<1>7. CASE kind[t] = "open" /\ Over(t) /\ LoopCloses(t, "wrong") /\ UNCHANGED <<left, up>>
  BY <1>4, <1>5, <1>7 DEF LoopCloses
<1>8. CASE /\ Over(t) /\ UNCHANGED stream
           /\ \E r \in {"http", "wrong"} : Fails(t, r) /\ (r = "wrong" => kind[t] = "part")
  <2>1. PICK r \in Results : Ends(t, r) \/ ShutsDown(t, r)
    BY <1>8 DEF Fails, Results
  <2> QED
    BY <1>4, <1>8, <2>1 DEF stream
<1> QED
  BY <1>3, <1>6, <1>7, <1>8 DEF HeaderRead

LEMMA HandleInv ==
  ASSUME IInv, NEW t \in Threads, Handle(t)
  PROVE  IInv'
BY ErrsInv, ConnectedInv, WrittenInv, HeaderReadInv, PartReadInv, BlockReadInv, TimedOverInv DEF Handle

(* The loop is free again.                                                 *)
LEMMA LoopFacts ==
  ASSUME IInv, loop # Nobody
  PROVE  /\ loop.of \in Threads /\ pc[loop.of] = "waiting" /\ promise[loop.of] = "unset"
         /\ ~ op[loop.of] /\ loop.result \in Results /\ TypeOK
BY DEF IInv, TypeOK, LoopInv, CallInv, Results

LEMMA HandshakeInv ==
  ASSUME IInv, HandshakeEnds
  PROVE  IInv'
<1>1. loop # Nobody /\ loop.at = "handshake" /\ loop' = Nobody
  BY DEF HandshakeEnds
<1> DEFINE t == loop.of
<1>2. t \in Threads /\ pc[t] = "waiting" /\ promise[t] = "unset" /\ ~ op[t] /\ TypeOK
  BY <1>1, LoopFacts
<1>3. kind[t] # "block" /\ stage[t] \in 1 .. Len(Stages[kind[t]]) - 1 /\ kind[t] \in Kinds
  BY <1>1, <1>2 DEF IInv, LoopInv, TypeOK
<1>4. UNCHANGED <<kind, pc, failures, calls, closed, left, torn, silent, cancelled>>
  BY DEF HandshakeEnds
<1>5. CASE (Satisfy(t, "network") \/ Satisfy(t, "ok")) /\ UNCHANGED <<stage, op, late, up>>
  <2>1. PICK r \in {"ok", "network", "http", "wrong"} : Satisfy(t, r)
    BY <1>5
  <2>2. promise' = [promise EXCEPT ![t] = r]
        /\ promise' \in [Threads -> {"unset", "ok", "network", "http", "wrong"}]
    BY <1>2, <2>1, SatisfyOnce
  <2>3. \A u \in Threads \ {t} : promise'[u] = promise[u]
    BY <1>2, <2>2 DEF TypeOK
  <2>4. /\ op' \in [Threads -> BOOLEAN] /\ late' \in [Threads -> BOOLEAN] /\ stage' \in [Threads -> 0 .. 4]
        /\ closed' \in BOOLEAN /\ up' \in {"no", "made", "open"} /\ left' \in 0 .. Blocks
        /\ ~ op'[t] /\ op' = op /\ stage' = stage /\ left' = left
    BY <1>2, <1>4, <1>5 DEF TypeOK
  <2> HIDE DEF t
  <2> QED
    BY <1>1, <1>2, <1>4, <2>2, <2>3, <2>4, LoopStep
<1>6. CASE Starts(t, stage[t] + 1) /\ promise' = promise /\ up' \in {"made", up}
  <2>1. stage[t] + 1 \in 0 .. 4 /\ stage[t] + 1 \in 1 .. Len(Stages[kind[t]])
    <3> DEFINE last == Len(Stages[kind[t]])
               n    == stage[t]
    <3>1. n \in 1 .. last - 1 /\ last \in 0 .. 4
      BY <1>3, StageFacts
    <3> HIDE DEF last, n
    <3>2. n + 1 \in 0 .. 4 /\ n + 1 \in 1 .. last
      BY <3>1
    <3> QED
      BY <3>2 DEF last, n
  <2>2. /\ stage' = [stage EXCEPT ![t] = stage[t] + 1] /\ op' = [op EXCEPT ![t] = TRUE]
        /\ stage' \in [Threads -> 0 .. 4] /\ op' \in [Threads -> BOOLEAN]
        /\ late' \in [Threads -> BOOLEAN]
    BY <1>2, <1>6, <2>1, StartsStage
  <2>3. /\ stage'[t] = stage[t] + 1
        /\ \A u \in Threads \ {t} : stage'[u] = stage[u] /\ op'[u] = op[u]
    BY <1>2, <2>2 DEF TypeOK
  <2>4. /\ promise' \in [Threads -> {"unset", "ok", "network", "http", "wrong"}]
        /\ closed' \in BOOLEAN /\ up' \in {"no", "made", "open"} /\ left' \in 0 .. Blocks /\ left' = left
    BY <1>2, <1>4, <1>6 DEF TypeOK
  <2> HIDE DEF t
  <2> QED
    BY <1>1, <1>2, <1>3, <1>4, <1>6, <2>1, <2>2, <2>3, <2>4, LoopStep
<1> QED
  BY <1>5, <1>6 DEF HandshakeEnds

LEMMA ShutdownInv ==
  ASSUME IInv, ShutdownEnds
  PROVE  IInv'
<1>1. loop # Nobody /\ loop' = Nobody /\ Satisfy(loop.of, loop.result)
      /\ UNCHANGED <<kind, stage, pc, failures, calls, op, late, stream, torn, silent, cancelled>>
  BY DEF ShutdownEnds
<1> DEFINE t == loop.of
<1>2. t \in Threads /\ pc[t] = "waiting" /\ promise[t] = "unset" /\ ~ op[t] /\ TypeOK
      /\ loop.result \in {"ok", "network", "http", "wrong"}
  BY <1>1, LoopFacts DEF Results
<1>3. promise' = [promise EXCEPT ![t] = loop.result]
      /\ promise' \in [Threads -> {"unset", "ok", "network", "http", "wrong"}]
  BY <1>1, <1>2, SatisfyOnce
<1>4. \A u \in Threads \ {t} : promise'[u] = promise[u]
  BY <1>2, <1>3 DEF TypeOK
<1>5. /\ op' \in [Threads -> BOOLEAN] /\ late' \in [Threads -> BOOLEAN] /\ stage' \in [Threads -> 0 .. 4]
      /\ closed' \in BOOLEAN /\ up' \in {"no", "made", "open"} /\ left' \in 0 .. Blocks
      /\ ~ op'[t] /\ op' = op /\ stage' = stage /\ left' = left
  BY <1>1, <1>2 DEF TypeOK, stream
<1> HIDE DEF t
<1> QED
  BY <1>1, <1>2, <1>3, <1>4, <1>5, LoopStep
-----------------------------------------------------------------------------
(* Callers.  A step of one leaves the others and the loop alone; it does   *)
(* not run on while the loop works for it.                                 *)
SizeOf(t) ==
  /\ failures[t] <= NumSizeRetries + 1
  /\ kind[t] # "size" => failures[t] = 0
  /\ kind[t] = "size" =>
       /\ pc[t] \notin {"closing", "setting"}
       /\ pc[t] # "idle" => failures[t] <= NumSizeRetries
       /\ pc[t] = "idle" => (promise[t] = "network" <=> failures[t] = NumSizeRetries + 1)
       /\ pc[t] \in {"idle", "shutting"} => promise[t] # "unset"

LEMMA CallerStep ==
  ASSUME IInv, NEW t \in Threads, loop = Nobody \/ loop.of # t, UNCHANGED <<loop, left, up>>, TypeOK',
         \A u \in Threads \ {t} : /\ pc'[u] = pc[u] /\ kind'[u] = kind[u] /\ stage'[u] = stage[u]
                                 /\ promise'[u] = promise[u] /\ op'[u] = op[u]
                                 /\ failures'[u] = failures[u],
         op'[t] => /\ pc'[t] = "waiting" /\ promise'[t] = "unset"
                   /\ stage'[t] \in 1 .. Len(Stages[kind'[t]])
                   /\ kind'[t] = "block" => left > 0,
         kind'[t] \in InTurn /\ pc'[t] # "idle" =>
           \/ kind[t] \in InTurn /\ pc[t] # "idle"
           \/ \A u \in Threads \ {t} : pc[u] = "idle" \/ kind[u] \notin InTurn,
         kind'[t] = "part" /\ pc'[t] \in {"closing", "setting", "shutting"} => torn',
         torn => torn', SizeOf(t)'
  PROVE  IInv'
<1>1. CallInv'
  <2> SUFFICES ASSUME NEW u \in Threads, op'[u]
               PROVE  /\ pc'[u] = "waiting" /\ promise'[u] = "unset"
                      /\ loop' = Nobody \/ loop'.of # u
                      /\ stage'[u] \in 1 .. Len(Stages[kind'[u]])
                      /\ kind'[u] = "block" => left' > 0
    BY DEF CallInv
  <2>1. CASE u = t
    BY <2>1
  <2>2. CASE u # t
    BY <2>2 DEF IInv, CallInv
  <2> QED
    BY <2>1, <2>2
<1>2. LoopInv'
  <2>1. loop # Nobody => loop.of \in Threads \ {t}
    BY LoopFacts
  <2> QED
    BY <2>1 DEF IInv, LoopInv
<1>3. TurnInv'
  <2> SUFFICES ASSUME NEW u \in Threads, NEW v \in Threads, u # v,
                      pc'[u] # "idle", kind'[u] \in InTurn, pc'[v] # "idle", kind'[v] \in InTurn
               PROVE  FALSE
    BY DEF TurnInv
  <2>1. CASE u # t /\ v # t
    BY <2>1 DEF IInv, TurnInv
  <2>2. CASE u = t
    BY <2>2 DEF IInv, TurnInv
  <2>3. CASE v = t
    BY <2>3 DEF IInv, TurnInv
  <2> QED
    BY <2>1, <2>2, <2>3
<1>4. PartInv'
  BY DEF IInv, PartInv
<1>5. SizeInv'
  <2> SUFFICES ASSUME NEW u \in Threads PROVE SizeOf(u)'
    BY DEF SizeInv, SizeOf
  <2>1. CASE u # t
    BY <2>1 DEF IInv, SizeInv, SizeOf
  <2> QED
    BY <2>1
<1> QED
  BY <1>1, <1>2, <1>3, <1>4, <1>5 DEF IInv

LEMMA NotOfLoop ==
  ASSUME IInv, NEW t \in Threads, pc[t] # "waiting" \/ promise[t] # "unset" \/ op[t]
  PROVE  loop = Nobody \/ loop.of # t
BY DEF IInv, LoopInv, CallInv

LEMMA NoOp ==
  ASSUME IInv, NEW t \in Threads, pc[t] # "waiting" \/ promise[t] # "unset"
  PROVE  ~ op[t]
BY DEF IInv, CallInv

(* Where a call only goes on to another place.                             *)
LEMMA GoesFacts ==
  ASSUME TypeOK, NEW t \in Threads, NEW from, NEW to \in {"idle", "waiting", "closing", "setting", "shutting"},
         Goes(t, from, to)
  PROVE  /\ pc' \in [Threads -> {"idle", "waiting", "closing", "setting", "shutting"}]
         /\ pc[t] = from /\ pc'[t] = to /\ \A u \in Threads \ {t} : pc'[u] = pc[u]
BY DEF TypeOK, Goes

LEMMA GoOn ==
  ASSUME IInv, NEW t \in Threads, NEW from, NEW to \in {"idle", "closing", "setting", "shutting"},
         Goes(t, from, to), from # "idle", from # "waiting" \/ promise[t] # "unset",
         UNCHANGED <<kind, stage, promise, failures, calls, op, late, loop, up, left, silent>>,
         cancelled' \subseteq Threads,
         closed' \in BOOLEAN, torn' \in BOOLEAN, torn => torn',
         kind[t] = "part" /\ to # "idle" => torn',
         kind[t] = "size" => /\ to \notin {"closing", "setting"}
                             /\ to = "idle" => promise[t] \notin {"network", "unset"}
  PROVE  IInv'
<1>1. /\ pc' \in [Threads -> {"idle", "waiting", "closing", "setting", "shutting"}]
      /\ pc[t] = from /\ pc'[t] = to /\ \A u \in Threads \ {t} : pc'[u] = pc[u] /\ TypeOK
  <2>1. to \in {"idle", "waiting", "closing", "setting", "shutting"} /\ TypeOK
    BY DEF IInv
  <2> QED
    BY <2>1, GoesFacts
<1>2. TypeOK'
  BY <1>1 DEF IInv, TypeOK, Conns
<1>3. loop = Nobody \/ loop.of # t
  BY <1>1, NotOfLoop
<1>4. ~ op'[t]
  BY <1>1, NoOp
<1>5. SizeOf(t)'
  <2>1. SizeOf(t) /\ failures[t] \in Nat /\ NumSizeRetries \in Nat
    BY StreamAssumption DEF IInv, SizeInv, SizeOf, TypeOK
  <2>2. kind[t] = "size" => pc[t] \in {"waiting", "shutting"}
    BY <1>1, <2>1 DEF SizeOf, IInv, TypeOK
  <2>3. kind[t] = "size" => promise[t] # "unset"
    BY <1>1, <2>1, <2>2 DEF SizeOf
  <2> QED
    BY <1>1, <2>1, <2>2, <2>3 DEF SizeOf
<1> QED
  BY <1>1, <1>2, <1>3, <1>4, <1>5, CallerStep

LEMMA SucceedsInv ==
  ASSUME IInv, NEW t \in Threads, Succeeds(t)
  PROVE  IInv'
<1>1. PICK to \in {"idle", "shutting"} :
        Goes(t, "waiting", to) /\ (kind[t] \in Queries <=> to = "shutting")
  BY DEF Succeeds
<1>2. /\ promise[t] = "ok" /\ closed' = closed /\ torn' = torn /\ TypeOK
      /\ UNCHANGED <<kind, stage, promise, failures, calls, op, late, loop, up, left, silent>>
  BY DEF Succeeds, stream, IInv
<1>c. cancelled' \subseteq Threads
  BY DEF Succeeds, IInv, TypeOK
<1>3. closed' \in BOOLEAN /\ torn' \in BOOLEAN
  BY <1>2 DEF TypeOK
<1>4. kind[t] = "part" => to = "idle"
  BY <1>1 DEF Queries
<1> QED
  BY <1>c, <1>1, <1>2, <1>3, <1>4, GoOn

LEMMA ThrowsInv ==
  ASSUME IInv, NEW t \in Threads, Throws(t)
  PROVE  IInv'
<1>1. PICK to \in {"idle", "closing", "shutting"} :
        /\ Goes(t, "waiting", to)
        /\ kind[t] \in Queries => to = IF promise[t] = "network" THEN "shutting" ELSE "idle"
  BY DEF Throws
<1>2. /\ promise[t] # "unset" /\ closed' = closed /\ torn' = (torn \/ kind[t] = "part") /\ TypeOK
      /\ UNCHANGED <<kind, stage, promise, failures, calls, op, late, loop, up, left, silent>>
  BY DEF Throws, stream, IInv
<1>c. cancelled' \subseteq Threads
  BY DEF Throws, IInv, TypeOK
<1>3. closed' \in BOOLEAN /\ torn' \in BOOLEAN
  BY <1>2 DEF TypeOK
<1>4. kind[t] = "size" => to \notin {"closing", "setting"} /\ (to = "idle" => promise[t] # "network")
  BY <1>1 DEF Queries
<1> QED
  BY <1>c, <1>1, <1>2, <1>3, <1>4, GoOn

LEMMA TestClosedInv ==
  ASSUME IInv, NEW t \in Threads, TestClosed(t) \/ SetClosed(t)
  PROVE  IInv'
<1>1. PICK from \in {"closing", "setting"}, to \in {"idle", "setting", "shutting"} : Goes(t, from, to)
  BY DEF TestClosed, SetClosed
<1>2. /\ closed' \in {closed, TRUE} /\ torn' = torn /\ TypeOK
      /\ UNCHANGED <<kind, stage, promise, failures, calls, op, late, loop, up, left, silent>>
  BY DEF TestClosed, SetClosed, stream, IInv
<1>c. cancelled' \subseteq Threads
  BY DEF TestClosed, SetClosed, IInv, TypeOK
<1>3. closed' \in BOOLEAN /\ torn' \in BOOLEAN
  BY <1>2 DEF TypeOK
<1>4. pc[t] = from
  BY <1>1 DEF Goes
<1>5. kind[t] # "size"
  BY <1>4 DEF IInv, SizeInv
<1>6. kind[t] = "part" => torn
  BY <1>4 DEF IInv, PartInv
<1> QED
  BY <1>c, <1>1, <1>2, <1>3, <1>5, <1>6, GoOn

LEMMA GiveUpInv ==
  ASSUME IInv, NEW t \in Threads, GiveUp(t)
  PROVE  IInv'
<1>1. /\ Goes(t, "waiting", "shutting") /\ op[t] /\ Stage(t) = "timed" /\ TypeOK
      /\ op' = [op EXCEPT ![t] = FALSE] /\ promise' = [promise EXCEPT ![t] = "http"]
      /\ UNCHANGED <<kind, stage, failures, calls, late, loop, stream, torn, silent>>
      /\ cancelled' \subseteq Threads
  BY DEF GiveUp, IInv, TypeOK
<1>2. /\ pc' \in [Threads -> {"idle", "waiting", "closing", "setting", "shutting"}]
      /\ pc[t] = "waiting" /\ pc'[t] = "shutting" /\ \A u \in Threads \ {t} : pc'[u] = pc[u]
  BY <1>1, GoesFacts
<1>3. op' \in [Threads -> BOOLEAN] /\ promise' \in [Threads -> {"unset", "ok", "network", "http", "wrong"}]
  BY <1>1 DEF TypeOK
<1>4. ~ op'[t] /\ \A u \in Threads \ {t} : op'[u] = op[u] /\ promise'[u] = promise[u]
  BY <1>1 DEF TypeOK
<1>5. TypeOK'
  BY <1>1, <1>2, <1>3 DEF TypeOK, stream, Conns
<1>6. loop = Nobody \/ loop.of # t
  BY <1>1, NotOfLoop
<1>7. kind[t] # "part"
  <2>1. kind[t] \in Kinds /\ stage[t] \in 1 .. Len(Stages[kind[t]])
    BY <1>1 DEF IInv, CallInv, TypeOK
  <2>2. ASSUME kind[t] = "part" PROVE Stage(t) # "timed"
    <3>1. Stages["part"] = <<"connect", "write", "header", "body">>
      BY DEF Stages
    <3>2. \A n \in 1 .. 4 : Stages["part"][n] # "timed"
      BY <3>1
    <3>3. Len(Stages["part"]) = 4
      BY <3>1
    <3> QED
      BY <2>1, <2>2, <3>2, <3>3 DEF Stage
  <2> QED
    BY <1>1, <2>2
<1>8. SizeOf(t)'
  <2>1. SizeOf(t)
    BY DEF IInv, SizeInv, SizeOf
  <2>2. promise'[t] = "http"
    BY <1>1 DEF TypeOK
  <2> QED
    BY <1>1, <1>2, <2>1, <2>2 DEF SizeOf
<1>9. UNCHANGED <<loop, left, up>>
  BY <1>1 DEF stream
<1> QED
  BY <1>1, <1>2, <1>4, <1>5, <1>6, <1>7, <1>8, <1>9, CallerStep

(* A caller begins an operation.                                           *)
LEMMA StartsInv ==
  ASSUME IInv, NEW t \in Threads, NEW n \in 0 .. 4, Starts(t, n),
         pc[t] # "waiting" \/ promise[t] # "unset",
         pc' \in [Threads -> {"idle", "waiting", "closing", "setting", "shutting"}],
         pc'[t] = "waiting", \A u \in Threads \ {t} : pc'[u] = pc[u],
         kind' \in [Threads -> Kinds], \A u \in Threads \ {t} : kind'[u] = kind[u],
         n \in 1 .. Len(Stages[kind'[t]]), kind'[t] = "block" => left > 0,
         kind'[t] \in InTurn =>
           \/ kind[t] \in InTurn /\ pc[t] # "idle"
           \/ \A u \in Threads \ {t} : pc[u] = "idle" \/ kind[u] \notin InTurn,
         failures' \in [Threads -> Nat], \A u \in Threads \ {t} : failures'[u] = failures[u],
         failures'[t] <= NumSizeRetries, kind'[t] # "size" => failures'[t] = 0,
         promise' = [promise EXCEPT ![t] = "unset"], silent' \subseteq silent,
         calls' \in [Threads -> Nat], \A u \in Threads : calls'[u] \in 0 .. MaxCalls[u],
         UNCHANGED <<loop, stream, torn>>, cancelled' \subseteq Threads
  PROVE  IInv'
<1>1. TypeOK
  BY DEF IInv
<1>2. /\ stage' = [stage EXCEPT ![t] = n] /\ op' = [op EXCEPT ![t] = TRUE]
      /\ stage' \in [Threads -> 0 .. 4] /\ op' \in [Threads -> BOOLEAN]
      /\ late' \in [Threads -> BOOLEAN]
  BY <1>1, StartsStage
<1>3. /\ stage'[t] = n /\ promise'[t] = "unset"
      /\ promise' \in [Threads -> {"unset", "ok", "network", "http", "wrong"}]
      /\ \A u \in Threads \ {t} : stage'[u] = stage[u] /\ op'[u] = op[u] /\ promise'[u] = promise[u]
  BY <1>1, <1>2 DEF TypeOK
<1>4. TypeOK'
  BY <1>1, <1>2, <1>3 DEF TypeOK, stream
<1>5. loop = Nobody \/ loop.of # t
  BY NotOfLoop
<1>6. SizeOf(t)'
  <2>1. failures'[t] \in Nat /\ NumSizeRetries \in Nat
    BY StreamAssumption
  <2> QED
    BY <2>1 DEF SizeOf
<1>7. UNCHANGED <<loop, left, up>>
  BY DEF stream
<1> QED
  BY <1>3, <1>4, <1>5, <1>6, <1>7, CallerStep

LEMMA NextStageInv ==
  ASSUME IInv, NEW t \in Threads, NextStage(t)
  PROVE  IInv'
<1>1. /\ pc[t] = "waiting" /\ kind[t] \in Queries /\ promise[t] = "ok"
      /\ stage[t] < Len(Stages[kind[t]]) /\ Starts(t, stage[t] + 1)
      /\ promise' = [promise EXCEPT ![t] = "unset"]
      /\ UNCHANGED <<kind, pc, failures, calls, loop, stream, torn, silent, cancelled>>
  BY DEF NextStage
<1>2. TypeOK
  BY DEF IInv
<1>3. stage[t] + 1 \in 0 .. 4 /\ stage[t] + 1 \in 1 .. Len(Stages[kind[t]])
  <2> DEFINE last == Len(Stages[kind[t]])
             n    == stage[t]
  <2>1. n \in 0 .. 4 /\ last \in 0 .. 4 /\ n < last
    BY <1>1, <1>2, StageFacts DEF TypeOK
  <2> HIDE DEF last, n
  <2>2. n + 1 \in 0 .. 4 /\ n + 1 \in 1 .. last
    BY <2>1
  <2> QED
    BY <2>2 DEF last, n
<1>4. kind[t] \notin InTurn /\ kind[t] # "block"
  BY <1>1 DEF Queries, InTurn
<1>5. failures[t] <= NumSizeRetries /\ (kind[t] # "size" => failures[t] = 0)
  BY <1>1, StreamAssumption DEF IInv, SizeInv
<1>6. /\ silent' \subseteq silent /\ pc'[t] = "waiting" /\ kind' = kind /\ failures' = failures /\ pc' = pc
  BY <1>1
<1>7. /\ pc' \in [Threads -> {"idle", "waiting", "closing", "setting", "shutting"}]
      /\ kind' \in [Threads -> Kinds] /\ failures' \in [Threads -> Nat]
      /\ calls' \in [Threads -> Nat] /\ \A u \in Threads : calls'[u] \in 0 .. MaxCalls[u]
      /\ cancelled' \subseteq Threads
  BY <1>1, <1>2 DEF TypeOK
<1> QED
  BY <1>1, <1>3, <1>4, <1>5, <1>6, <1>7, StartsInv

LEMMA BeginInv ==
  ASSUME IInv, NEW t \in Threads, NEW k \in Kinds, Begin(t, k)
  PROVE  IInv'
<1>1. TypeOK
  BY DEF IInv
<1>2. /\ Goes(t, "idle", IF k = "close" THEN "closing" ELSE "waiting") /\ MayBegin(t, k)
      /\ kind' = [kind EXCEPT ![t] = k] /\ calls' = [calls EXCEPT ![t] = @ + 1]
      /\ failures' = [failures EXCEPT ![t] = 0]
      /\ promise' = [promise EXCEPT ![t] = IF k = "close" THEN "ok" ELSE "unset"]
      /\ UNCHANGED <<loop, stream, torn, cancelled>>
  BY DEF Begin
<1>3. /\ pc' \in [Threads -> {"idle", "waiting", "closing", "setting", "shutting"}]
      /\ pc[t] = "idle" /\ pc'[t] = (IF k = "close" THEN "closing" ELSE "waiting")
      /\ \A u \in Threads \ {t} : pc'[u] = pc[u]
  <2>1. (IF k = "close" THEN "closing" ELSE "waiting") \in {"idle", "waiting", "closing", "setting", "shutting"}
    OBVIOUS
  <2> QED
    BY <1>1, <1>2, <2>1, GoesFacts
<1>4. /\ kind' \in [Threads -> Kinds] /\ kind'[t] = k
      /\ failures' \in [Threads -> Nat] /\ failures'[t] = 0
      /\ \A u \in Threads \ {t} : kind'[u] = kind[u] /\ failures'[u] = failures[u]
  BY <1>1, <1>2 DEF TypeOK
<1>5. calls' \in [Threads -> Nat] /\ \A u \in Threads : calls'[u] \in 0 .. MaxCalls[u]
  <2>a. calls' \in [Threads -> Nat]
    BY <1>1, <1>2 DEF TypeOK
  <2> SUFFICES ASSUME NEW u \in Threads PROVE calls'[u] \in 0 .. MaxCalls[u]
    BY <2>a
  <2>1. calls[u] \in 0 .. MaxCalls[u] /\ MaxCalls[u] \in Nat
    BY <1>1, StreamAssumption DEF TypeOK
  <2>2. CASE u = t
    <3>1. calls[t] < MaxCalls[t]
      BY <1>2 DEF MayBegin
    <3>2. calls'[t] = calls[t] + 1
      BY <1>1, <1>2 DEF TypeOK
    <3> QED
      BY <2>1, <2>2, <3>1, <3>2
  <2>3. CASE u # t
    BY <1>2, <2>1, <2>3
  <2> QED
    BY <2>2, <2>3
<1>6. k \in InTurn => \A u \in Threads \ {t} : pc[u] = "idle" \/ kind[u] \notin InTurn
  BY <1>2 DEF MayBegin
<1>7. CASE k = "close"
  <2>1. UNCHANGED <<stage, op, late, silent>>
    BY <1>7 DEF Begin
  <2>2. promise' \in [Threads -> {"unset", "ok", "network", "http", "wrong"}]
        /\ \A u \in Threads \ {t} : promise'[u] = promise[u]
    BY <1>1, <1>2 DEF TypeOK
  <2>3. TypeOK'
    BY <1>1, <1>2, <1>3, <1>4, <1>5, <2>1, <2>2 DEF TypeOK, stream, Conns
  <2>4. loop = Nobody \/ loop.of # t
    BY <1>3, NotOfLoop
  <2>5. ~ op'[t]
    BY <1>3, <2>1, NoOp
  <2>6. SizeOf(t)'
    BY <1>4, <1>7, StreamAssumption DEF SizeOf
  <2>7. UNCHANGED <<loop, left, up>> /\ torn' = torn
    BY <1>2 DEF stream
  <2>8. \A u \in Threads \ {t} : /\ pc'[u] = pc[u] /\ kind'[u] = kind[u] /\ stage'[u] = stage[u]
                                 /\ promise'[u] = promise[u] /\ op'[u] = op[u]
                                 /\ failures'[u] = failures[u]
    BY <1>3, <1>4, <2>1, <2>2
  <2> QED
    BY <1>4, <1>6, <1>7, <2>3, <2>4, <2>5, <2>6, <2>7, <2>8, CallerStep
<1>8. CASE k # "close"
  <2>1. Starts(t, 1) /\ silent' \subseteq silent
    BY <1>8 DEF Begin
  <2>2. 1 \in 0 .. 4 /\ 1 \in 1 .. Len(Stages[k]) /\ 0 <= NumSizeRetries
    BY <1>8, StageFacts, StreamAssumption
  <2>3. k = "block" => left > 0
    BY <1>2 DEF MayBegin
  <2>4. promise' = [promise EXCEPT ![t] = "unset"]
    BY <1>2, <1>8
  <2>5. pc'[t] = "waiting" /\ pc[t] # "waiting" /\ cancelled' \subseteq Threads
    BY <1>1, <1>2, <1>3, <1>8 DEF TypeOK
  <2> QED
    BY <1>2, <1>3, <1>4, <1>5, <1>6, <2>1, <2>2, <2>3, <2>4, <2>5, StartsInv
<1> QED
  BY <1>7, <1>8

LEMMA ShutInv ==
  ASSUME IInv, NEW t \in Threads, Shut(t)
  PROVE  IInv'
<1>1. /\ TypeOK /\ pc[t] = "shutting" /\ UNCHANGED <<kind, calls, loop, stream, torn>>
      /\ cancelled' \subseteq Threads
  BY DEF IInv, Shut, TypeOK
<1>2. closed' = closed /\ closed' \in BOOLEAN /\ torn' \in BOOLEAN /\ torn' = torn /\ UNCHANGED <<left, up>>
  BY <1>1 DEF TypeOK, stream
<1>3. kind[t] = "part" => torn
  BY <1>1 DEF IInv, PartInv
<1>4. CASE ~ (kind[t] = "size" /\ promise[t] = "network")
  <2>1. Goes(t, "shutting", "idle") /\ UNCHANGED <<stage, op, late, promise, failures, silent>>
    BY <1>4 DEF Shut
  <2>2. ASSUME kind[t] = "size" PROVE SizeOf(t)'
    <3>1. pc'[t] = "idle"
      BY <1>1, <2>1, GoesFacts
    <3>2. promise[t] # "unset"
      BY <1>1, <2>2 DEF IInv, SizeInv
    <3>3. failures[t] <= NumSizeRetries /\ failures[t] \in Nat /\ NumSizeRetries \in Nat
      BY <1>1, <2>2, StreamAssumption DEF IInv, SizeInv, TypeOK
    <3> QED
      BY <1>1, <1>4, <2>1, <2>2, <3>1, <3>2, <3>3 DEF SizeOf
  <2>3. "shutting" # "idle" /\ "shutting" # "waiting"
    OBVIOUS
  <2>4. kind[t] = "size" => promise[t] \notin {"network", "unset"}
    BY <1>1, <1>4 DEF IInv, SizeInv
  <2> QED
    BY <1>1, <1>2, <1>3, <2>1, <2>3, <2>4, GoOn
<1>5. CASE kind[t] = "size" /\ promise[t] = "network"
  <2>1. failures' = [failures EXCEPT ![t] = @ + 1] /\ failures[t] \in 0 .. NumSizeRetries
    BY <1>1, <1>5, StreamAssumption DEF Shut, IInv, SizeInv, TypeOK
  <2>2. failures' \in [Threads -> Nat] /\ failures'[t] = failures[t] + 1
        /\ \A u \in Threads \ {t} : failures'[u] = failures[u]
    BY <1>1, <2>1 DEF TypeOK
  <2>3. CASE LastFailure(t)
    <3>1. Goes(t, "shutting", "idle") /\ UNCHANGED <<stage, op, late, promise, silent>>
      BY <1>5, <2>3 DEF Shut
    <3>2. /\ pc' \in [Threads -> {"idle", "waiting", "closing", "setting", "shutting"}]
          /\ pc'[t] = "idle" /\ \A u \in Threads \ {t} : pc'[u] = pc[u]
      BY <1>1, <3>1, GoesFacts
    <3>3. TypeOK'
      BY <1>1, <2>2, <3>1, <3>2 DEF TypeOK, stream, Conns
    <3>4. loop = Nobody \/ loop.of # t
      BY <1>1, NotOfLoop
    <3>5. ~ op'[t]
      BY <1>1, <3>1, NoOp
    <3>6. SizeOf(t)'
      BY <1>1, <1>5, <2>1, <2>2, <2>3, <3>1, <3>2, StreamAssumption DEF SizeOf, LastFailure
    <3>7. loop' = loop /\ kind'[t] = "size" /\ pc'[t] = "idle"
          /\ \A u \in Threads \ {t} : /\ pc'[u] = pc[u] /\ kind'[u] = kind[u] /\ stage'[u] = stage[u]
                                     /\ promise'[u] = promise[u] /\ op'[u] = op[u]
                                     /\ failures'[u] = failures[u]
      BY <1>1, <1>5, <2>2, <3>1, <3>2
    <3> QED
      BY <1>2, <3>3, <3>4, <3>5, <3>6, <3>7, CallerStep
  <2>4. CASE ~ LastFailure(t)
    <3>1. /\ Goes(t, "shutting", "waiting") /\ Starts(t, 1)
          /\ promise' = [promise EXCEPT ![t] = "unset"] /\ silent' \subseteq silent
      BY <1>5, <2>4 DEF Shut
    <3>2. /\ pc' \in [Threads -> {"idle", "waiting", "closing", "setting", "shutting"}]
          /\ pc'[t] = "waiting" /\ \A u \in Threads \ {t} : pc'[u] = pc[u]
      BY <1>1, <3>1, GoesFacts
    <3>3. failures'[t] <= NumSizeRetries
      BY <2>1, <2>2, <2>4, StreamAssumption DEF LastFailure
    <3>4. 1 \in 0 .. 4 /\ 1 \in 1 .. Len(Stages[kind'[t]]) /\ kind' \in [Threads -> Kinds]
      BY <1>1, <1>5, StageFacts DEF TypeOK
    <3>5. kind'[t] = "size" /\ kind' = kind /\ kind'[t] \notin InTurn
      BY <1>1, <1>5 DEF InTurn
    <3>6. calls' \in [Threads -> Nat] /\ \A u \in Threads : calls'[u] \in 0 .. MaxCalls[u]
      BY <1>1 DEF TypeOK
    <3> QED
      BY <1>1, <2>2, <3>1, <3>2, <3>3, <3>4, <3>5, <3>6, StartsInv
  <2> QED
    BY <2>3, <2>4
<1> QED
  BY <1>4, <1>5

(* Timers only raise flags, peers fall silent, and the handler of a        *)
(* cancelled operation has nothing left to do.                             *)
LEMMA OutsideInv ==
  ASSUME IInv, UNCHANGED <<kind, stage, pc, promise, failures, calls, op, loop, stream, torn>>,
         late' \in [Threads -> BOOLEAN], silent' \subseteq Conns,
         cancelled' \subseteq Threads
  PROVE  IInv'
<1>1. TypeOK'
  BY DEF IInv, TypeOK, stream
<1>2. CallInv' /\ LoopInv'
  BY DEF IInv, CallInv, LoopInv, stream
<1>3. TurnInv' /\ PartInv' /\ SizeInv'
  BY DEF IInv, TurnInv, PartInv, SizeInv
<1> QED
  BY <1>1, <1>2, <1>3 DEF IInv

(* The inductive invariant of the streams.                                 *)
THEOREM Inductive == Spec => []IInv
<1>1. IInv /\ [Next]_vars => IInv'
  <2> SUFFICES ASSUME IInv, [Next]_vars PROVE IInv'
    OBVIOUS
  <2>a. late \in [Threads -> BOOLEAN] /\ silent \subseteq Conns /\ cancelled \subseteq Threads
    BY DEF IInv, TypeOK
  <2>1. ASSUME NEW t \in Threads, NEW k \in Kinds, Begin(t, k) PROVE IInv'
    BY <2>1, BeginInv
  <2>2. ASSUME NEW t \in Threads, Expires(t) PROVE IInv'
    <3>1. late' \in [Threads -> BOOLEAN]
      BY <2>2, <2>a DEF Expires
    <3> QED
      BY <2>2, <2>a, <3>1, OutsideInv DEF Expires, caller
  <2>3. ASSUME NEW t \in Threads, Handle(t) PROVE IInv'
    BY <2>3, HandleInv
  <2>4. ASSUME NEW t \in Threads, Call(t) PROVE IInv'
    BY <2>4, NextStageInv, SucceedsInv, ThrowsInv, GiveUpInv, TestClosedInv, ShutInv DEF Call
  <2>5. ASSUME NEW c \in Conns, FallSilent(c) PROVE IInv'
    BY <2>5, <2>a, OutsideInv DEF FallSilent, caller
  <2>6. CASE UNCHANGED vars
    BY <2>6, <2>a, OutsideInv DEF vars, caller
  <2>7. ASSUME NEW t \in Threads, Aborted(t) PROVE IInv'
    BY <2>7, <2>a, OutsideInv DEF Aborted, caller
  <2> QED
    BY <2>1, <2>2, <2>3, <2>4, <2>5, <2>6, <2>7, HandshakeInv, ShutdownInv DEF Next, Stopped
<1> QED
  BY <1>1, InitInv, PTL DEF Spec

(* The state of every call, of the loop and of the stream is one that the  *)
(* code gives it; no promise is satisfied twice.                           *)
THEOREM TypeCorrect == Spec => []TypeOK
<1>1. IInv => TypeOK
  BY DEF IInv
<1> QED
  BY <1>1, Inductive, PTL

(* Whatever timers, peers and other calls do, a handler finds the promise  *)
(* of a caller that waits.                                                 *)
THEOREM PromisesOutlive == Spec => []PromiseOutlivesOperation
<1>1. IInv => PromiseOutlivesOperation
  <2> SUFFICES ASSUME IInv, NEW t \in Threads
               PROVE  /\ op[t] \/ (loop # Nobody /\ loop.of = t)
                           => pc[t] = "waiting" /\ promise[t] = "unset"
                      /\ promise[t] # "future_error"
                      /\ op[t] => (loop = Nobody \/ loop.of # t)
    BY DEF PromiseOutlivesOperation
  <2>1. promise[t] \in {"unset", "ok", "network", "http", "wrong"}
    BY DEF IInv, TypeOK
  <2> QED
    BY <2>1 DEF IInv, CallInv, LoopInv
<1> QED
  BY <1>1, Inductive, PTL

(* A cancelled operation is one of a query that is closing its connection. *)
CancelInv == \A t \in cancelled : pc[t] = "shutting" /\ kind[t] \in Queries

LEMMA TimedIsQuery ==
  ASSUME IInv, NEW t \in Threads, op[t], Stage(t) = "timed"
  PROVE  kind[t] \in Queries
<1>1. kind[t] \in Kinds /\ stage[t] \in 1 .. Len(Stages[kind[t]])
  BY DEF IInv, CallInv, TypeOK
<1>2. kind[t] \in {"open", "block", "part", "close", "size", "query"}
  BY <1>1, StageFacts
<1>3. /\ Stages["open"] = <<"connect", "write", "header">> /\ Stages["block"] = <<"body">>
      /\ Stages["part"] = <<"connect", "write", "header", "body">>
      /\ Stages["close"] = <<>>
  BY DEF Stages
<1>4. /\ \A n \in 1 .. 3 : Stages["open"][n] # "timed"
      /\ \A n \in 1 .. 1 : Stages["block"][n] # "timed"
      /\ \A n \in 1 .. 4 : Stages["part"][n] # "timed"
      /\ Len(Stages["open"]) = 3 /\ Len(Stages["block"]) = 1
      /\ Len(Stages["part"]) = 4 /\ Len(Stages["close"]) = 0
  BY <1>3
<1>5. kind[t] \notin {"open", "block", "part", "close"}
  BY <1>1, <1>4 DEF Stage
<1> QED
  BY <1>2, <1>5 DEF Queries

LEMMA CancelNext == IInv /\ CancelInv /\ [Next]_vars => CancelInv'
<1> SUFFICES ASSUME IInv, CancelInv, [Next]_vars PROVE CancelInv'
  OBVIOUS
<1>0. /\ TypeOK /\ cancelled \subseteq Threads
      /\ kind \in [Threads -> Kinds]
      /\ pc \in [Threads -> {"idle", "waiting", "closing", "setting", "shutting"}]
  BY DEF IInv, TypeOK
<1>1. ASSUME NEW t \in Threads, pc[t] # "shutting", UNCHANGED cancelled,
             \A u \in Threads \ {t} : pc'[u] = pc[u] /\ kind'[u] = kind[u]
      PROVE  CancelInv'
  BY <1>0, <1>1 DEF CancelInv
<1>2. ASSUME UNCHANGED <<pc, kind>>, cancelled' \subseteq cancelled
      PROVE  CancelInv'
  BY <1>2 DEF CancelInv
<1>3. ASSUME NEW t \in Threads, NEW k \in Kinds, Begin(t, k) PROVE CancelInv'
  BY <1>0, <1>1, <1>3 DEF Begin, Goes
<1>4. ASSUME NEW t \in Threads, NextStage(t) \/ Expires(t) \/ Handle(t) \/ Aborted(t)
      PROVE  CancelInv'
  BY <1>2, <1>4 DEF NextStage, Expires, Handle, Errs, Connected, Written, HeaderRead,
     PartRead, BlockRead, TimedOver, Handles, Aborted, caller
<1>5. ASSUME NEW t \in Threads, Succeeds(t) \/ Throws(t) \/ TestClosed(t) \/ SetClosed(t)
      PROVE  CancelInv'
  BY <1>0, <1>1, <1>5 DEF Succeeds, Throws, TestClosed, SetClosed, Goes
<1>6. ASSUME NEW t \in Threads, GiveUp(t) PROVE CancelInv'
  <2>1. kind[t] \in Queries /\ UNCHANGED kind /\ pc' = [pc EXCEPT ![t] = "shutting"]
        /\ cancelled' = cancelled \cup {t}
    BY <1>6, TimedIsQuery DEF GiveUp, Goes
  <2> QED
    BY <1>0, <2>1 DEF CancelInv
<1>7. ASSUME NEW t \in Threads, Shut(t) PROVE CancelInv'
  <2>1. /\ UNCHANGED kind /\ cancelled' = cancelled \ {t}
        /\ \A u \in Threads \ {t} : pc'[u] = pc[u]
    BY <1>0, <1>7 DEF Shut, Goes
  <2> QED
    BY <1>0, <2>1 DEF CancelInv
<1>8. CASE \/ HandshakeEnds \/ ShutdownEnds \/ UNCHANGED vars
           \/ \E c \in Conns : FallSilent(c)
  BY <1>2, <1>8 DEF HandshakeEnds, ShutdownEnds, FallSilent, vars, caller
<1> QED
  BY <1>3, <1>4, <1>5, <1>6, <1>7, <1>8 DEF Next, Call, Stopped

(* No connection is shut down under an operation or another shutdown of    *)
(* it, unless a partial read has failed; a query that has given up on a    *)
(* timeout has one cancelled operation under its own shutdown, and nothing *)
(* else.                                                                   *)
THEOREM ShutdownsAreAlone == Spec => []ShutdownsAlone
<1>1. IInv /\ CancelInv => ShutdownsAlone
  <2> SUFFICES ASSUME IInv, CancelInv, NEW c \in Conns, ~ (c = Main /\ torn)
               PROVE  \/ Cardinality(Uses(c)) <= 1
                      \/ Uses(c) = {<<c, "cancelled">>, <<c, "caller">>}
    BY DEF ShutdownsAlone
  <2>1. TypeOK /\ CallInv /\ LoopInv /\ TurnInv /\ PartInv
    BY DEF IInv
  <2> DEFINE Runs(x) == op[x] /\ Conn(x) = c
             Calls(x) == pc[x] = "shutting" /\ Shuts(x) = c
             Loops(x) == loop # Nobody /\ loop.of = x /\ Conn(x) = c
             Is(w, x) == \/ w = <<x, "operation">> /\ Runs(x)
                         \/ w = <<x, "caller">> /\ Calls(x)
                         \/ w = <<x, "loop">> /\ Loops(x)
  <2>2. ASSUME NEW x \in Threads, NEW y \in Threads,
               Runs(x) \/ Calls(x) \/ Loops(x), Runs(y) \/ Calls(y) \/ Loops(y)
        PROVE  x = y
    <3>1. ASSUME NEW z \in Threads, Runs(z) \/ Calls(z) \/ Loops(z)
          PROVE  IF c = Main THEN kind[z] \in InTurn /\ pc[z] # "idle" ELSE z = c
      <4>1. CASE Runs(z) \/ Loops(z)
        <5>1. pc[z] = "waiting"
          BY <2>1, <4>1 DEF CallInv, LoopInv
        <5> QED
          BY <4>1, <5>1, StreamAssumption DEF Conn
      <4>2. CASE Calls(z)
        <5>1. CASE kind[z] \in Queries
          BY <4>2, <5>1, StreamAssumption DEF Shuts
        <5>2. CASE kind[z] \notin Queries
          <6>1. c = Main /\ kind[z] # "part"
            BY <2>1, <4>2, <5>2 DEF Shuts, PartInv
          <6>2. kind[z] \in {"open", "block", "part", "close", "size", "query"}
            BY <2>1, StageFacts DEF TypeOK
          <6> QED
            BY <4>2, <5>2, <6>1, <6>2 DEF InTurn, Queries
        <5> QED
          BY <5>1, <5>2
      <4> QED
        BY <3>1, <4>1, <4>2
    <3> QED
      BY <2>1, <2>2, <3>1 DEF TurnInv
  <2>3. ASSUME NEW x \in Threads
        PROVE  ~ (Runs(x) /\ Calls(x)) /\ ~ (Runs(x) /\ Loops(x)) /\ ~ (Calls(x) /\ Loops(x))
    BY <2>1 DEF CallInv, LoopInv
  <2>c. \A u \in cancelled : u \in Threads /\ Calls(u) = (u = c) /\ (Conn(u) = c <=> u = c)
    <3> SUFFICES ASSUME NEW u \in cancelled
                 PROVE  u \in Threads /\ Calls(u) = (u = c) /\ (Conn(u) = c <=> u = c)
      OBVIOUS
    <3>1. u \in Threads /\ pc[u] = "shutting" /\ kind[u] \in Queries
      BY <2>1 DEF TypeOK, CancelInv
    <3>2. kind[u] \notin InTurn
      BY <3>1 DEF Queries, InTurn
    <3> QED
      BY <3>1, <3>2 DEF Conn, Shuts
  <2>4. ASSUME NEW w \in Uses(c)
        PROVE  \/ \E x \in Threads : Is(w, x)
               \/ c \in cancelled /\ w = <<c, "cancelled">>
    <3>1. LoopConn = c => loop # Nobody /\ loop.of \in Threads /\ Conn(loop.of) = c
      <4>1. Nobody # c
        BY StreamAssumption DEF Conns
      <4> QED
        BY <4>1, LoopFacts DEF LoopConn
    <3>2. CASE w \in {<<x, "operation">> : x \in {u \in Threads : op[u] /\ Conn(u) = c}}
      <4>1. PICK x \in {u \in Threads : op[u] /\ Conn(u) = c} : w = <<x, "operation">>
        BY <3>2
      <4>2. x \in Threads /\ Runs(x)
        OBVIOUS
      <4> HIDE DEF Runs, Calls, Loops
      <4> QED
        BY <4>1, <4>2
    <3>3. CASE w \in {<<x, "caller">> : x \in {u \in Threads : pc[u] = "shutting" /\ Shuts(u) = c}}
      <4>1. PICK x \in {u \in Threads : pc[u] = "shutting" /\ Shuts(u) = c} : w = <<x, "caller">>
        BY <3>3
      <4>2. x \in Threads /\ Calls(x)
        OBVIOUS
      <4> HIDE DEF Runs, Calls, Loops
      <4> QED
        BY <4>1, <4>2
    <3>4. CASE LoopConn = c /\ w = <<loop.of, "loop">>
      BY <3>1, <3>4
    <3>5. CASE w \in {<<x, "cancelled">> : x \in {u \in cancelled : Conn(u) = c}}
      <4>1. PICK x \in {u \in cancelled : Conn(u) = c} : w = <<x, "cancelled">>
        BY <3>5
      <4>2. x = c /\ c \in cancelled
        BY <2>c
      <4> QED
        BY <4>1, <4>2
    <3> QED
      BY <3>2, <3>3, <3>4, <3>5 DEF Uses
  <2>5. ASSUME c \notin cancelled PROVE \A v, w \in Uses(c) : v = w
    <3> SUFFICES ASSUME NEW v \in Uses(c), NEW w \in Uses(c) PROVE v = w
      OBVIOUS
    <3>1. PICK x \in Threads : Is(v, x)
      BY <2>4, <2>5
    <3>2. PICK y \in Threads : Is(w, y)
      BY <2>4, <2>5
    <3> HIDE DEF Runs, Calls, Loops
    <3>3. x = y
      BY <2>2, <3>1, <3>2
    <3> QED
      BY <2>3, <3>1, <3>2, <3>3
  <2>6. CASE c \in cancelled
    <3>1. c \in Threads /\ Calls(c) /\ Conn(c) = c
      BY <2>6, <2>c
    <3>2. \A w \in Uses(c) : w = <<c, "caller">> \/ w = <<c, "cancelled">>
      <4> SUFFICES ASSUME NEW w \in Uses(c), w # <<c, "cancelled">> PROVE w = <<c, "caller">>
        OBVIOUS
      <4>1. PICK x \in Threads : Is(w, x)
        BY <2>4
      <4> HIDE DEF Runs, Calls, Loops
      <4>2. x = c
        BY <2>2, <3>1, <4>1
      <4> QED
        BY <2>3, <3>1, <4>1, <4>2
    <3>3. <<c, "caller">> \in Uses(c)
      <4>1. c \in {u \in Threads : pc[u] = "shutting" /\ Shuts(u) = c}
        BY <3>1
      <4> QED
        BY <4>1 DEF Uses
    <3>4. <<c, "cancelled">> \in Uses(c)
      <4>1. c \in {u \in cancelled : Conn(u) = c}
        BY <2>6, <3>1
      <4> QED
        BY <4>1 DEF Uses
    <3> QED
      BY <3>2, <3>3, <3>4
  <2>7. CASE Uses(c) = {}
    BY <2>7, FS_EmptySet
  <2>8. CASE c \notin cancelled /\ Uses(c) # {}
    <3>1. PICK v : Uses(c) = {v}
      BY <2>5, <2>8
    <3>2. Cardinality({v}) = 1
      BY FS_Singleton
    <3> QED
      BY <3>1, <3>2
  <2> QED
    BY <2>6, <2>7, <2>8
<1>2. Init => CancelInv
  BY DEF Init, CancelInv
<1> QED
  BY <1>1, <1>2, CancelNext, Inductive, PTL DEF Spec

(* A size query makes NumSizeRetries + 1 attempts and no more.             *)
THEOREM SizeQueriesGiveUp == Spec => []SizeQueryGivesUp
<1>1. IInv => SizeQueryGivesUp
  BY DEF IInv, SizeInv, SizeQueryGivesUp
<1> QED
  BY <1>1, Inductive, PTL
-----------------------------------------------------------------------------
(* BlockingBuffer, for every stream length, block size, memory limit and   *)
(* read length.                                                            *)
(* A function on the empty interval is the empty sequence. *)
LEMMA EmptyFunction ==
  ASSUME NEW n, n = 1 .. 0, NEW e
  PROVE  [i \in n |-> e] = <<>>
  BY EmptySeq

(* A slice of the stream is a sequence of naturals of the obvious length. *)
LEMMA BytesNat ==
  ASSUME NEW a \in Nat, NEW b \in Nat
  PROVE  /\ Bytes(a, b) \in Seq(Nat)
         /\ Len(Bytes(a, b)) = IF a <= b THEN b - a ELSE 0
         /\ \A i \in 1 .. b - a : Bytes(a, b)[i] = a + i - 1
         /\ b <= a => Bytes(a, b) = <<>>
<1>1. CASE a <= b
  BY <1>1 DEF Bytes
<1>2. CASE b < a
  <2>1. 1 .. b - a = 1 .. 0
    BY <1>2
  <2>2. Bytes(a, b) = [i \in 1 .. 0 |-> a + i - 1]
    BY <2>1 DEF Bytes
  <2>3. [i \in 1 .. 0 |-> a + i - 1] \in Seq(Nat) /\ Len([i \in 1 .. 0 |-> a + i - 1]) = 0
    OBVIOUS
  <2>4. QED
    BY <1>2, <2>1, <2>2, <2>3
<1>3. QED
  BY <1>1, <1>2

LEMMA BytesByte ==
  ASSUME NEW a \in Nat, NEW b \in Nat, b <= StreamLen
  PROVE  Bytes(a, b) \in Seq(Byte)
  BY SizesAssumption DEF Bytes, Byte

(* Adjacent slices join. *)
LEMMA BytesConcat ==
  ASSUME NEW a \in Nat, NEW b \in Nat, NEW c \in Nat, a <= b, b <= c
  PROVE  Bytes(a, b) \o Bytes(b, c) = Bytes(a, c)
  BY DEF Bytes

(* A slice of a slice. *)
LEMMA BytesSubSeq ==
  ASSUME NEW a \in Nat, NEW b \in Nat, NEW i \in Nat, NEW j \in Nat,
         1 <= i, i <= j + 1, j <= b - a
  PROVE  SubSeq(Bytes(a, b), i, j) = Bytes(a + i - 1, a + j)
  BY DEF Bytes

(* The same from the k-th byte of the slice on. *)
LEMMA BytesTail ==
  ASSUME NEW a \in Nat, NEW b \in Nat, NEW k \in Nat, NEW t \in Nat,
         k <= t, t <= b - a
  PROVE  SubSeq(Bytes(a, b), k + 1, t) = Bytes(a + k, a + t)
  BY DEF Bytes
-----------------------------------------------------------------------------
(* Lemmas about one pass of readNoLock. *)

LEMMA SpillReadType ==
  ASSUME BufferTypeOK, NEW from \in Int, NEW want \in Nat
  PROVE  SpillRead(from, want) \in Seq(Cell) /\ Len(SpillRead(from, want)) <= want
<1>1. Len(spill) \in Nat /\ spill \in Seq(Cell)
  BY DEF BufferTypeOK, Cell
<1>2. CASE from < 0
  BY <1>2 DEF SpillRead
<1>3. CASE from >= 0 /\ Smaller(from + want, Len(spill)) < from
  <2>1. Smaller(from + want, Len(spill)) = Len(spill) /\ Len(spill) < from
    BY <1>1, <1>3 DEF Smaller
  <2>2. SpillRead(from, want) = <<>>
    <3>1. CASE spillFailed
      <4>1. 1 .. Len(spill) - from = 1 .. 0
        BY <1>1, <2>1
      <4>2. [i \in 1 .. Len(spill) - from |-> Junk] = <<>>
        BY <4>1, EmptyFunction
      <4>3. QED
        BY <1>3, <2>1, <3>1, <4>2 DEF SpillRead
    <3>2. CASE ~ spillFailed
      BY <1>1, <1>3, <2>1, <3>2, SubSeqEmpty DEF SpillRead
    <3>3. QED
      BY <3>1, <3>2
  <2>3. QED
    BY <2>2
<1>4. CASE from >= 0 /\ from <= Smaller(from + want, Len(spill))
  <2>1. /\ from \in Nat /\ Smaller(from + want, Len(spill)) \in Nat
        /\ Smaller(from + want, Len(spill)) <= Len(spill)
        /\ Smaller(from + want, Len(spill)) - from <= want
    BY <1>1, <1>4 DEF Smaller
  <2>2. CASE spillFailed
    BY <1>4, <2>1, <2>2 DEF SpillRead, Cell
  <2>3. CASE ~ spillFailed
    BY <1>1, <1>4, <2>1, <2>3 DEF SpillRead
  <2>4. QED
    BY <2>2, <2>3
<1>5. QED
  BY <1>1, <1>2, <1>3, <1>4 DEF Smaller

LEMMA FromMemType ==
  ASSUME BufferTypeOK, NEW offset \in Nat, NEW want \in Nat
  PROVE  FromMem(offset, want) \in Seq(Cell) /\ Len(FromMem(offset, want)) <= want
<1>1. Len(mem) \in Nat /\ mem \in Seq(Cell)
  BY DEF BufferTypeOK, Cell
<1>2. CASE Len(mem) > offset
  <2>1. /\ Smaller(offset + want, Len(mem)) \in Nat
        /\ Smaller(offset + want, Len(mem)) <= Len(mem)
        /\ offset <= Smaller(offset + want, Len(mem))
        /\ Smaller(offset + want, Len(mem)) - offset <= want
    BY <1>1, <1>2 DEF Smaller
  <2>2. QED
    BY <1>1, <1>2, <2>1 DEF FromMem
<1>3. CASE ~ (Len(mem) > offset)
  BY <1>3 DEF FromMem
<1>4. QED
  BY <1>2, <1>3

(* A pass only adds cells to the block, and never more than fit. *)
LEMMA PassType ==
  ASSUME BufferTypeOK, NEW offset \in Nat, NEW maxSize \in Nat,
         NEW blk \in Seq(Cell), Len(blk) <= maxSize
  PROVE  LET pass == ReadNoLock(offset, blk, maxSize)
         IN  /\ pass.block \in Seq(Cell)
             /\ Len(pass.block) <= maxSize
             /\ pass.failed \in BOOLEAN
             /\ pass.failed => sizeLimitReached
<1> DEFINE target == maxSize - Len(blk)
           inMem  == blk \o FromMem(offset, target)
           from   == offset + Len(inMem) - Len(mem)
           want   == maxSize - Len(inMem)
<1>1. Len(blk) \in Nat /\ target \in Nat /\ Len(mem) \in Nat
  BY DEF BufferTypeOK
<1>2. FromMem(offset, target) \in Seq(Cell) /\ Len(FromMem(offset, target)) <= target
  BY <1>1, FromMemType
<1>3. /\ inMem \in Seq(Cell) /\ Len(inMem) <= maxSize
      /\ Len(inMem) \in Nat /\ want \in Nat /\ from \in Int
  BY <1>1, <1>2
<1>4. SpillRead(from, want) \in Seq(Cell) /\ Len(SpillRead(from, want)) <= want
  BY <1>3, SpillReadType
<1>5. /\ inMem \o SpillRead(from, want) \in Seq(Cell)
      /\ Len(inMem \o SpillRead(from, want)) <= maxSize
  BY <1>3, <1>4
<1>6. /\ ReadNoLock(offset, blk, maxSize).block
           \in {inMem, inMem \o SpillRead(from, want)}
      /\ ReadNoLock(offset, blk, maxSize).failed
           = ((Len(inMem) # target /\ sizeLimitReached) /\ from < 0)
  BY DEF ReadNoLock
<1> HIDE DEF target, inMem, from, want
<1>7. QED
  BY <1>3, <1>5, <1>6 DEF BufferTypeOK
-----------------------------------------------------------------------------
(* What the appender's step does to the two storages. *)
LEMMA StoreBlock ==
  ASSUME BufferTypeOK, Store
  PROVE  \E to \in Nat :
           /\ Appended < to /\ to <= StreamLen
           /\ Bytes(Appended, to) \in Seq(Byte)
           /\ \/ /\ sizeLimitReached' = TRUE /\ mem' = mem
                 /\ spill' = spill \o Bytes(Appended, to)
              \/ /\ ~ sizeLimitReached /\ sizeLimitReached' = sizeLimitReached
                 /\ spill' = spill /\ mem' = mem \o Bytes(Appended, to)
<1> DEFINE to == Smaller(Appended + BlockSize, StreamLen)
<1>1. Appended \in Nat /\ Appended < StreamLen
  BY DEF BufferTypeOK, Appended, Store
<1>2. to \in Nat /\ Appended < to /\ to <= StreamLen
  BY <1>1, SizesAssumption DEF Smaller
<1>3. Bytes(Appended, to) \in Seq(Byte)
  BY <1>1, <1>2, BytesByte
<1>4. AppendBlock(Bytes(Appended, to))
  BY DEF Store
<1> HIDE DEF to
<1>5. QED
  BY <1>2, <1>3, <1>4 DEF AppendBlock

(* The state stays of the right type; in particular a pass of read never   *)
(* copies more into the block than was asked for.                          *)
LEMMA TypeInit == BufferInit => BufferTypeOK
<1> SUFFICES ASSUME BufferInit PROVE BufferTypeOK
  OBVIOUS
<1>1. /\ mem \in Seq(Byte) /\ spill \in Seq(Byte) /\ block \in Seq(Cell)
      /\ drained \in Seq(Cell) /\ Len(block) <= call.len
  BY DEF BufferInit
<1>2. /\ call \in [offset : 0 .. StreamLen, len : 0 .. MaxReadLen]
      /\ entry \in 0 .. MaxReadLen /\ replaceLen \in 0 .. StreamLen
  BY SizesAssumption DEF BufferInit
<1>3. QED
  BY <1>1, <1>2, Zenon DEF BufferInit, BufferTypeOK, LockedAt

LEMMA TypeNext == BufferTypeOK /\ [BufferNext]_allVars => BufferTypeOK'
<1> SUFFICES ASSUME BufferTypeOK, [BufferNext]_allVars PROVE BufferTypeOK'
  OBVIOUS
<1>1. CASE Store
  <2>1. PICK to \in Nat :
           /\ Bytes(Appended, to) \in Seq(Byte)
           /\ \/ /\ sizeLimitReached' = TRUE /\ mem' = mem
                 /\ spill' = spill \o Bytes(Appended, to)
              \/ /\ sizeLimitReached' = sizeLimitReached
                 /\ spill' = spill /\ mem' = mem \o Bytes(Appended, to)
    BY <1>1, StoreBlock
  <2>2. mem' \in Seq(Byte) /\ spill' \in Seq(Byte)
    <3>1. mem \in Seq(Byte) /\ spill \in Seq(Byte)
      BY DEF BufferTypeOK
    <3>2. /\ mem \o Bytes(Appended, to) \in Seq(Byte)
          /\ spill \o Bytes(Appended, to) \in Seq(Byte)
      BY <2>1, <3>1
    <3>3. QED
      BY <2>1, <3>1, <3>2, ZenonT(40)
  <2>3. sizeLimitReached' \in BOOLEAN
    BY <2>1, Zenon DEF BufferTypeOK
  <2>4. QED
    BY <1>1, <2>2, <2>3 DEF BufferTypeOK, Store, LockedAt
<1>2. CASE SetEof \/ SetPortionRead \/ NotifyOne \/ SpuriousWakeup
  BY <1>2, ZenonT(30) DEF BufferTypeOK, SetEof, SetPortionRead, NotifyOne, SpuriousWakeup, bufVars,
              LockedAt
<1>3. CASE Lock \/ CheckEof \/ CheckPortion \/ Wait \/ Reacquire \/ Consume
  BY <1>3 DEF BufferTypeOK, Lock, CheckEof, CheckPortion, Wait, Reacquire, Consume,
              ReaderMove, bufVars, LockedAt
<1>4. CASE Fill
  <2> DEFINE pass == ReadNoLock(call.offset + Len(block), block, call.len)
  <2>1. /\ block \in Seq(Cell) /\ Len(block) <= call.len /\ Len(block) \in Nat
        /\ call.len \in 0 .. MaxReadLen /\ call.offset + Len(block) \in Nat
    BY SizesAssumption DEF BufferTypeOK
  <2>2. /\ pass.block \in Seq(Cell) /\ Len(pass.block) <= call.len
        /\ pass.failed \in BOOLEAN
    BY <2>1, SizesAssumption, PassType
  <2>3. /\ block' = pass.block /\ entry' = Len(block) /\ call' = call
        /\ spillFailed' \in BOOLEAN
    BY <1>4, <2>2 DEF Fill
  <2>4. block' \in Seq(Cell) /\ Len(block') <= call'.len /\ entry' \in 0 .. MaxReadLen
    BY <2>1, <2>2, <2>3, SizesAssumption
  <2>5. QED
    BY <1>4, <2>3, <2>4 DEF BufferTypeOK, Fill, ReaderMove, bufVars, LockedAt
<1>5. CASE \E offset \in 0 .. StreamLen, len \in 1 .. MaxReadLen : CallRead(offset, len)
  BY <1>5, SizesAssumption DEF BufferTypeOK, CallRead, ReaderMove, bufVars, LockedAt
<1>6. CASE \E replace \in 0 .. StreamLen : Prepend(replace)
  BY <1>6 DEF BufferTypeOK, Prepend, bufVars, LockedAt
<1>7. CASE EndParse \/ AppendStopped
  BY <1>7 DEF BufferTypeOK, EndParse, AppendStopped, ReaderMove, bufVars, LockedAt
<1>8. CASE FinalRead
  <2> DEFINE pass == ReadNoLock(Len(drained) + replaceLen, <<>>, BlockSize)
  <2>1. /\ Len(drained) + replaceLen \in Nat /\ BlockSize \in Nat
        /\ <<>> \in Seq(Cell) /\ Len(<<>>) <= BlockSize
    BY SizesAssumption DEF BufferTypeOK
  <2>2. pass.block \in Seq(Cell) /\ pass.failed \in BOOLEAN
    BY <2>1, PassType
  <2>3. drained' = drained \o pass.block /\ spillFailed' \in BOOLEAN
    BY <1>8, <2>2 DEF FinalRead
  <2>4. drained' \in Seq(Cell)
    BY <2>2, <2>3 DEF BufferTypeOK
  <2>5. QED
    BY <1>8, <2>3, <2>4 DEF BufferTypeOK, FinalRead, ReaderMove, bufVars, LockedAt
<1>9. CASE Terminating \/ UNCHANGED allVars
  BY <1>9 DEF BufferTypeOK, Terminating, allVars, LockedAt
<1>10. QED
  BY <1>1, <1>2, <1>3, <1>4, <1>5, <1>6, <1>7, <1>8, <1>9
     DEF BufferNext, Appender, InRead, AfterParse, Parser

(* Type correctness of the buffer and its two threads. *)
THEOREM BufferTypeCorrect == BufferSpec => []BufferTypeOK
  BY TypeInit, TypeNext, PTL DEF BufferSpec
-----------------------------------------------------------------------------
(* The contents of the two storages. *)

(* The strengthening of LogIsStreamPrefix: each storage holds a known      *)
(* slice of the stream, and the temporary file is used (and can fail) only *)
(* once the memory limit has been reached, which is for good and by a      *)
(* block that went to the file.                                            *)
LogInv == /\ Appended <= StreamLen
          /\ mem = Bytes(0, Len(mem))
          /\ spill = Bytes(Len(mem), Appended)
          /\ ~ sizeLimitReached => spill = <<>> /\ ~ spillFailed
          /\ sizeLimitReached => Len(mem) < Appended

LEMMA LogInit == BufferInit => LogInv
<1> SUFFICES ASSUME BufferInit PROVE LogInv
  OBVIOUS
<1>1. mem = <<>> /\ spill = <<>> /\ ~ spillFailed /\ Len(mem) = 0 /\ Appended = 0
  BY DEF BufferInit, Appended
<1>2. Bytes(0, 0) = <<>>
  BY BytesNat
<1>3. QED
  BY <1>1, <1>2, SizesAssumption DEF LogInv, BufferInit

LEMMA LogNext == BufferTypeOK /\ LogInv /\ [BufferNext]_allVars => LogInv'
<1> SUFFICES ASSUME BufferTypeOK, LogInv, [BufferNext]_allVars PROVE LogInv'
  OBVIOUS
<1>1. CASE Store
  <2>1. PICK to \in Nat :
           /\ Appended < to /\ to <= StreamLen
           /\ Bytes(Appended, to) \in Seq(Byte)
           /\ \/ /\ sizeLimitReached' = TRUE /\ mem' = mem
                 /\ spill' = spill \o Bytes(Appended, to)
              \/ /\ ~ sizeLimitReached /\ sizeLimitReached' = sizeLimitReached
                 /\ spill' = spill /\ mem' = mem \o Bytes(Appended, to)
    BY <1>1, StoreBlock
  <2>2. /\ Len(mem) \in Nat /\ Appended \in Nat /\ Len(mem) <= Appended
        /\ mem \in Seq(Byte) /\ spill \in Seq(Byte) /\ Len(spill) \in Nat
    BY DEF BufferTypeOK, Appended
  <2>3. Len(Bytes(Appended, to)) = to - Appended
    BY <2>1, <2>2, BytesNat
  <2>4. spillFailed' = spillFailed
    BY <1>1 DEF Store
  <2>5. CASE /\ sizeLimitReached' = TRUE /\ mem' = mem
             /\ spill' = spill \o Bytes(Appended, to)
    <3>1. Bytes(Len(mem), Appended) \o Bytes(Appended, to) = Bytes(Len(mem), to)
      <4>1. Appended <= to
        BY <2>1, <2>2
      <4>2. QED
        BY <2>1, <2>2, <4>1, BytesConcat, ZenonT(40)
    <3>2. spill' = Bytes(Len(mem), to)
      BY <2>5, <3>1, Zenon DEF LogInv
    <3>3. Len(spill') = to - Len(mem)
      <4>1. Len(Bytes(Len(mem), to)) = to - Len(mem)
        BY <2>1, <2>2, BytesNat
      <4>2. QED
        BY <3>2, <4>1
    <3>4. Appended' = to
      BY <2>1, <2>2, <2>5, <3>3 DEF Appended
    <3>5. QED
      BY <2>1, <2>2, <2>5, <3>2, <3>4 DEF LogInv
  <2>6. CASE /\ ~ sizeLimitReached /\ sizeLimitReached' = sizeLimitReached
             /\ spill' = spill /\ mem' = mem \o Bytes(Appended, to)
    <3>1. spill = <<>> /\ Appended = Len(mem) /\ ~ spillFailed
      BY <2>2, <2>6 DEF LogInv, Appended
    <3>2. mem' = Bytes(0, to)
      <4>1. 0 \in Nat /\ 0 <= Appended /\ Appended <= to
        BY <2>1, <2>2
      <4>2. Bytes(0, Appended) \o Bytes(Appended, to) = Bytes(0, to)
        BY <2>1, <2>2, <4>1, BytesConcat, ZenonT(40)
      <4>3. QED
        BY <2>6, <3>1, <4>2, Zenon DEF LogInv
    <3>3. Len(mem') = to
      BY <2>1, <3>2, BytesNat
    <3>4. Appended' = to
      <4>1. spill' = <<>> /\ Len(<<>>) = 0
        BY <2>6, <3>1, EmptySeq
      <4>2. QED
        BY <2>1, <3>3, <4>1 DEF Appended
    <3>5. Bytes(to, to) = <<>>
      BY <2>1, BytesNat
    <3>6. QED
      BY <2>1, <2>4, <2>6, <3>1, <3>2, <3>3, <3>4, <3>5 DEF LogInv
  <2>7. QED
    BY <2>1, <2>5, <2>6
<1>2. CASE Fill
  <2>1. /\ block \in Seq(Cell) /\ Len(block) <= call.len /\ Len(block) \in Nat
        /\ call.len \in 0 .. MaxReadLen /\ call.offset + Len(block) \in Nat
    BY SizesAssumption DEF BufferTypeOK
  <2>2. ReadNoLock(call.offset + Len(block), block, call.len).failed => sizeLimitReached
    BY <2>1, SizesAssumption, PassType
  <2>3. QED
    BY <1>2, <2>2 DEF LogInv, Fill, bufVars, Appended
<1>3. CASE FinalRead
  <2>1. /\ Len(drained) + replaceLen \in Nat /\ BlockSize \in Nat
        /\ <<>> \in Seq(Cell) /\ Len(<<>>) <= BlockSize
    BY SizesAssumption DEF BufferTypeOK
  <2>2. ReadNoLock(Len(drained) + replaceLen, <<>>, BlockSize).failed => sizeLimitReached
    BY <2>1, PassType
  <2>3. QED
    BY <1>3, <2>2 DEF LogInv, FinalRead, bufVars, Appended
<1>4. CASE UNCHANGED <<bufVars, spillFailed>>
  BY <1>4 DEF LogInv, bufVars, Appended
<1>5. QED
  <2>1. Store \/ Fill \/ FinalRead \/ UNCHANGED <<bufVars, spillFailed>>
    BY DEF BufferNext, Appender, InRead, AfterParse, Parser, SetEof, SetPortionRead,
           NotifyOne, SpuriousWakeup, Lock, CheckEof, CheckPortion, Wait, Reacquire,
           Consume, CallRead, Prepend, EndParse, AppendStopped, Terminating, allVars,
           bufVars
  <2>2. QED
    BY <1>1, <1>2, <1>3, <1>4, <2>1

LEMMA LogInvariant == BufferSpec => []LogInv
  BY BufferTypeCorrect, LogInit, LogNext, PTL DEF BufferSpec

(* Memory and temporary file together always hold a prefix of the stream.  *)
THEOREM StreamPrefix == BufferSpec => []LogIsStreamPrefix
<1>1. BufferTypeOK /\ LogInv => LogIsStreamPrefix
  <2> SUFFICES ASSUME BufferTypeOK, LogInv PROVE LogIsStreamPrefix
    OBVIOUS
  <2>1. /\ 0 \in Nat /\ Len(mem) \in Nat /\ Appended \in Nat
        /\ 0 <= Len(mem) /\ Len(mem) <= Appended
    BY DEF BufferTypeOK, Appended
  <2>2. Bytes(0, Len(mem)) \o Bytes(Len(mem), Appended) = Bytes(0, Appended)
    BY <2>1, BytesConcat, ZenonT(40)
  <2>3. QED
    BY <2>2 DEF LogInv, LogIsStreamPrefix
<1>2. QED
  BY <1>1, BufferTypeCorrect, LogInvariant, PTL
-----------------------------------------------------------------------------
(* What a pass copies, given the contents of the storages. *)

LEMMA StoredSizes ==
  ASSUME BufferTypeOK, LogInv
  PROVE  /\ Len(mem) \in Nat /\ Len(spill) \in Nat /\ Appended \in Nat
         /\ Appended = Len(mem) + Len(spill) /\ Len(mem) <= Appended
         /\ ~ sizeLimitReached => Appended = Len(mem)
<1>1. Len(mem) \in Nat /\ Len(spill) \in Nat /\ Len(<<>>) = 0
  BY DEF BufferTypeOK
<1>2. ~ sizeLimitReached => Len(spill) = 0
  BY <1>1 DEF LogInv
<1>3. QED
  BY <1>1, <1>2 DEF Appended

(* Bytes from .. to - 1 of the stream as the buffer gives them back.       *)
Back(from, to) ==
  [i \in 1 .. to - from |-> IF from + i - 1 < Readable THEN from + i - 1 ELSE Junk]

LEMMA ReadableSize ==
  ASSUME BufferTypeOK, LogInv
  PROVE  /\ Readable \in Nat /\ Len(mem) <= Readable /\ Readable <= Appended
         /\ spillFailed => Readable = Len(mem)
         /\ ~ spillFailed => Readable = Appended
  BY StoredSizes DEF Readable

LEMMA BackLen ==
  ASSUME NEW from \in Nat, NEW to \in Nat
  PROVE  /\ Len(Back(from, to)) = IF from <= to THEN to - from ELSE 0
         /\ to <= from => Back(from, to) = <<>>
<1>1. CASE from <= to
  BY <1>1 DEF Back
<1>2. CASE to < from
  <2>1. 1 .. to - from = 1 .. 0
    BY <1>2
  <2>2. Back(from, to) = <<>>
    BY <2>1, EmptySeq DEF Back
  <2>3. QED
    BY <1>2, <2>2, EmptySeq
<1>3. QED
  BY <1>1, <1>2

(* Adjacent parts join. *)
LEMMA BackConcat ==
  ASSUME BufferTypeOK, LogInv,
         NEW a \in Nat, NEW b \in Nat, NEW c \in Nat, a <= b, b <= c
  PROVE  Back(a, b) \o Back(b, c) = Back(a, c)
<1>1. Readable \in Nat
  BY ReadableSize
<1>2. QED
  BY <1>1 DEF Back

(* Below the limit of what can be read back, the bytes are the stream's.   *)
LEMMA BackBytes ==
  ASSUME BufferTypeOK, LogInv, NEW from \in Nat, NEW to \in Nat, to <= Readable
  PROVE  Back(from, to) = Bytes(from, to)
<1>1. Readable \in Nat
  BY ReadableSize
<1>2. \A i \in 1 .. to - from : from + i - 1 < Readable
  BY <1>1
<1>3. QED
  BY <1>2 DEF Back, Bytes

(* What the log this buffer implements gives back. *)
LEMMA LogReadBack ==
  ASSUME BufferTypeOK, LogInv, NEW from \in Nat, NEW to \in Nat
  PROVE  Log!ReadBack(from, to) = Back(from, to)
<1>1. Readable \in Nat /\ Readable <= Appended /\ Appended \in Nat
  BY ReadableSize, StoredSizes
<1>2. mem \o spill = Bytes(0, Appended)
  <2>1. Len(mem) \in Nat /\ 0 <= Len(mem) /\ Len(mem) <= Appended
    BY StoredSizes
  <2>2. Bytes(0, Len(mem)) \o Bytes(Len(mem), Appended) = Bytes(0, Appended)
    BY <1>1, <2>1, BytesConcat, ZenonT(40)
  <2>3. QED
    BY <2>2 DEF LogInv
<1>3. ASSUME NEW i \in 1 .. to - from, from + i - 1 < Readable
      PROVE  (mem \o spill)[from + i] = from + i - 1
  <2>1. from + i \in 1 .. Appended - 0
    BY <1>1, <1>3
  <2>2. Bytes(0, Appended)[from + i] = 0 + (from + i) - 1
    BY <1>1, <2>1, BytesNat
  <2>3. QED
    BY <1>2, <2>2
<1>4. QED
  BY <1>3 DEF Log!ReadBack, Back

(* Slices of the two storages are slices of the stream. *)
LEMMA MemSlice ==
  ASSUME NEW k \in Nat, NEW t \in Nat, k <= t, t <= Len(mem), Len(mem) \in Nat,
         mem = Bytes(0, Len(mem))
  PROVE  SubSeq(mem, k + 1, t) = Bytes(k, t)
<1>1. 0 \in Nat /\ t <= Len(mem) - 0
  OBVIOUS
<1>2. SubSeq(Bytes(0, Len(mem)), k + 1, t) = Bytes(0 + k, 0 + t)
  BY <1>1, BytesTail, ZenonT(40)
<1>3. 0 + k = k /\ 0 + t = t
  OBVIOUS
<1>4. QED
  BY <1>2, <1>3, ZenonT(40)

LEMMA SpillSlice ==
  ASSUME NEW k \in Nat, NEW t \in Nat, k <= t, t <= Appended - Len(mem),
         Appended \in Nat, Len(mem) \in Nat, spill = Bytes(Len(mem), Appended)
  PROVE  SubSeq(spill, k + 1, t) = Bytes(Len(mem) + k, Len(mem) + t)
<1>1. SubSeq(Bytes(Len(mem), Appended), k + 1, t) = Bytes(Len(mem) + k, Len(mem) + t)
  BY BytesTail, ZenonT(40)
<1>2. QED
  BY <1>1, ZenonT(40)

LEMMA FromMemBytes ==
  ASSUME BufferTypeOK, LogInv, NEW offset \in Nat, NEW want \in Nat
  PROVE  FromMem(offset, want) = Bytes(offset, Smaller(offset + want, Len(mem)))
<1> DEFINE to == Smaller(offset + want, Len(mem))
<1>1. Len(mem) \in Nat /\ to \in Nat /\ to <= Len(mem) /\ offset + want \in Nat
  BY StoredSizes DEF Smaller
<1>2. CASE Len(mem) > offset
  <2>1. offset <= to
    BY <1>1, <1>2 DEF Smaller
  <2>2. mem = Bytes(0, Len(mem))
    BY DEF LogInv
  <2> HIDE DEF to
  <2>3. SubSeq(mem, offset + 1, to) = Bytes(offset, to)
    BY <1>1, <2>1, <2>2, MemSlice, ZenonT(40)
  <2>4. QED
    BY <1>2, <2>3 DEF FromMem, to
<1>3. CASE ~ (Len(mem) > offset)
  <2>1. to <= offset
    BY <1>1, <1>3
  <2> HIDE DEF to
  <2>2. Bytes(offset, to) = <<>>
    BY <1>1, <2>1, BytesNat
  <2>3. QED
    BY <1>3, <2>2 DEF FromMem, to
<1>4. QED
  BY <1>2, <1>3

LEMMA SpillReadBytes ==
  ASSUME BufferTypeOK, LogInv, ~ spillFailed, NEW from \in Nat, NEW want \in Nat
  PROVE  SpillRead(from, want)
           = Bytes(Len(mem) + from, Smaller(Len(mem) + from + want, Appended))
<1> DEFINE to == Smaller(from + want, Len(spill))
<1>1. /\ Len(mem) \in Nat /\ Len(spill) \in Nat /\ Appended \in Nat
      /\ Appended - Len(mem) = Len(spill)
      /\ to \in Nat /\ to <= Len(spill) /\ Len(mem) + from \in Nat
      /\ Smaller(Len(mem) + from + want, Appended) = Len(mem) + to
      /\ Len(mem) + to \in Nat
  BY StoredSizes DEF Smaller
<1>2. SpillRead(from, want) = SubSeq(spill, from + 1, to)
  <2>1. ~ (from < 0)
    OBVIOUS
  <2>2. QED
    BY <2>1, Zenon DEF SpillRead
<1> HIDE DEF to
<1>3. CASE from <= to
  <2>1. spill = Bytes(Len(mem), Appended) /\ to <= Appended - Len(mem)
    BY <1>1 DEF LogInv
  <2>2. SubSeq(spill, from + 1, to) = Bytes(Len(mem) + from, Len(mem) + to)
    BY <1>1, <1>3, <2>1, SpillSlice, ZenonT(40)
  <2>3. QED
    BY <1>1, <1>2, <2>2
<1>4. CASE to < from
  <2>1. SubSeq(spill, from + 1, to) = <<>>
    BY <1>1, <1>4, SubSeqEmpty
  <2>2. Bytes(Len(mem) + from, Len(mem) + to) = <<>>
    BY <1>1, <1>4, BytesNat
  <2>3. QED
    BY <1>1, <1>2, <2>1, <2>2
<1>5. QED
  BY <1>1, <1>3, <1>4

(* The same of a temporary file that may have failed. *)
LEMMA SpillReadBack ==
  ASSUME BufferTypeOK, LogInv, NEW from \in Nat, NEW want \in Nat
  PROVE  SpillRead(from, want)
           = Back(Len(mem) + from, Smaller(Len(mem) + from + want, Appended))
<1> DEFINE end == Smaller(Len(mem) + from + want, Appended)
           to  == Smaller(from + want, Len(spill))
<1>1. /\ Len(mem) \in Nat /\ Len(spill) \in Nat /\ Appended \in Nat
      /\ Appended = Len(mem) + Len(spill)
      /\ Len(mem) + from \in Nat /\ end \in Nat /\ end <= Appended
      /\ to \in Nat /\ end = Len(mem) + to
  BY StoredSizes DEF Smaller
<1>2. CASE ~ spillFailed
  <2>1. SpillRead(from, want) = Bytes(Len(mem) + from, end)
    BY <1>2, SpillReadBytes
  <2>2. Readable = Appended
    BY <1>2, ReadableSize
  <2> HIDE DEF end
  <2>3. Back(Len(mem) + from, end) = Bytes(Len(mem) + from, end)
    BY <1>1, <2>2, BackBytes
  <2>4. QED
    BY <2>1, <2>3 DEF end
<1>3. CASE spillFailed
  <2>1. SpillRead(from, want) = [i \in 1 .. to - from |-> Junk]
    <3>1. ~ (from < 0)
      OBVIOUS
    <3>2. QED
      BY <1>3, <3>1, Zenon DEF SpillRead
  <2>2. Readable = Len(mem)
    BY <1>3, ReadableSize
  <2> HIDE DEF end, to
  <2>3. 1 .. to - from = 1 .. end - (Len(mem) + from)
    BY <1>1
  <2>4. \A i \in 1 .. end - (Len(mem) + from) : ~ (Len(mem) + from + i - 1 < Readable)
    BY <1>1, <2>2
  <2>5. Back(Len(mem) + from, end) = [i \in 1 .. end - (Len(mem) + from) |-> Junk]
    BY <2>4, Zenon DEF Back
  <2>6. QED
    BY <2>1, <2>3, <2>5 DEF end
<1>4. QED
  BY <1>2, <1>3

(* A pass into an empty block returns what the buffer can give back there. *)
LEMMA BackPass ==
  ASSUME BufferTypeOK, LogInv,
         NEW offset \in Nat, NEW maxSize \in Nat
  PROVE  LET pass == ReadNoLock(offset, <<>>, maxSize)
         IN  /\ pass.block = Back(offset, Smaller(offset + maxSize, Appended))
             /\ pass.failed = FALSE
<1> DEFINE inMem == <<>> \o FromMem(offset, maxSize - Len(<<>>))
           m     == Len(mem)
           from  == offset + Len(inMem) - m
           want  == maxSize - Len(inMem)
<1>1. /\ m \in Nat /\ Appended \in Nat /\ m <= Appended
      /\ ~ sizeLimitReached => Appended = m
  BY StoredSizes
<1>2. maxSize - Len(<<>>) = maxSize
  BY EmptySeq
<1>3. inMem = FromMem(offset, maxSize)
  BY <1>2, FromMemType, ConcatEmptySeq
<1>4. inMem = Back(offset, Smaller(offset + maxSize, m))
  <2> DEFINE end == Smaller(offset + maxSize, m)
  <2>1. end \in Nat /\ end <= m /\ m <= Readable /\ Readable \in Nat
    BY <1>1, ReadableSize DEF Smaller
  <2>2. inMem = Bytes(offset, end)
    BY <1>3, FromMemBytes
  <2> HIDE DEF end, inMem, m
  <2>3. Back(offset, end) = Bytes(offset, end)
    BY <1>1, <2>1, BackBytes
  <2>4. QED
    BY <2>2, <2>3 DEF end
<1>5. /\ ReadNoLock(offset, <<>>, maxSize).block
           = IF Len(inMem) # maxSize /\ sizeLimitReached
             THEN inMem \o SpillRead(from, want) ELSE inMem
      /\ ReadNoLock(offset, <<>>, maxSize).failed
           = ((Len(inMem) # maxSize /\ sizeLimitReached) /\ from < 0)
  BY <1>2 DEF ReadNoLock
<1> HIDE DEF inMem
<1>6. CASE offset + maxSize <= m
  <2>1. /\ Smaller(offset + maxSize, m) = offset + maxSize
        /\ Smaller(offset + maxSize, Appended) = offset + maxSize
        /\ offset + maxSize \in Nat
    BY <1>1, <1>6 DEF Smaller
  <2>2. Len(Back(offset, offset + maxSize)) = maxSize
    BY <2>1, BackLen
  <2>3. inMem = Back(offset, offset + maxSize) /\ Len(inMem) = maxSize
    BY <1>4, <2>1, <2>2
  <2>4. QED
    BY <1>5, <2>1, <2>3, ZenonT(40)
<1>7. CASE offset <= m /\ m < offset + maxSize
  <2>1. Smaller(offset + maxSize, m) = m
    BY <1>1, <1>7 DEF Smaller
  <2>2. Len(Back(offset, m)) = m - offset
    BY <1>1, <1>7, BackLen
  <2>3. inMem = Back(offset, m) /\ Len(inMem) = m - offset
    BY <1>4, <2>1, <2>2
  <2>4. from = 0 /\ want = offset + maxSize - m /\ want \in Nat /\ Len(inMem) # maxSize
    BY <1>1, <1>7, <2>3
  <2>5. ReadNoLock(offset, <<>>, maxSize).failed = FALSE
    <3>1. ~ (from < 0)
      BY <2>4
    <3>2. QED
      BY <1>5, <3>1, ZenonT(40)
  <2>6. CASE sizeLimitReached
    <3>1. /\ m + 0 = m /\ 0 \in Nat
          /\ m + 0 + want = offset + maxSize
          /\ m <= Smaller(offset + maxSize, Appended)
          /\ Smaller(offset + maxSize, Appended) \in Nat
      BY <1>1, <1>7, <2>4 DEF Smaller
    <3>2. SpillRead(from, want) = Back(m, Smaller(offset + maxSize, Appended))
      <4>1. SpillRead(0, want) = Back(m + 0, Smaller(m + 0 + want, Appended))
        BY <2>4, <3>1, SpillReadBack, ZenonT(40)
      <4>2. QED
        BY <2>4, <3>1, <4>1, ZenonT(40)
    <3>3. Back(offset, m) \o Back(m, Smaller(offset + maxSize, Appended))
            = Back(offset, Smaller(offset + maxSize, Appended))
      BY <1>1, <1>7, <3>1, BackConcat, ZenonT(40)
    <3>4. ReadNoLock(offset, <<>>, maxSize).block = inMem \o SpillRead(from, want)
      BY <1>5, <2>4, <2>6, ZenonT(40)
    <3>5. QED
      BY <2>3, <2>5, <3>2, <3>3, <3>4, ZenonT(40)
  <2>7. CASE ~ sizeLimitReached
    <3>1. Smaller(offset + maxSize, Appended) = m
      BY <1>1, <1>7, <2>7 DEF Smaller
    <3>2. QED
      BY <1>5, <2>3, <2>5, <2>7, <3>1, ZenonT(40)
  <2>8. QED
    BY <2>6, <2>7
<1>8. CASE m < offset
  <2>1. Smaller(offset + maxSize, m) = m
    BY <1>1, <1>8 DEF Smaller
  <2>2. inMem = <<>> /\ Len(inMem) = 0
    <3>1. Back(offset, m) = <<>>
      BY <1>1, <1>8, BackLen
    <3>2. QED
      BY <1>4, <2>1, <3>1, EmptySeq
  <2>3. from = offset - m /\ from \in Nat /\ want = maxSize /\ want \in Nat
        /\ m + from = offset /\ m + from + want = offset + maxSize
    BY <1>1, <1>8, <2>2
  <2>4. SpillRead(from, want) = Back(offset, Smaller(offset + maxSize, Appended))
    <3>1. SpillRead(from, want) = Back(m + from, Smaller(m + from + want, Appended))
      BY <2>3, SpillReadBack, ZenonT(40)
    <3>2. QED
      BY <2>3, <3>1, ZenonT(40)
  <2>5. ReadNoLock(offset, <<>>, maxSize).failed = FALSE
    <3>1. ~ (from < 0)
      BY <2>3
    <3>2. QED
      BY <1>5, <3>1, ZenonT(40)
  <2>6. CASE sizeLimitReached /\ maxSize # 0
    <3>1. SpillRead(from, want) \in Seq(Cell)
      BY <2>3, SpillReadType
    <3>2. inMem \o SpillRead(from, want) = SpillRead(from, want)
      BY <2>2, <3>1, ConcatEmptySeq
    <3>3. ReadNoLock(offset, <<>>, maxSize).block = inMem \o SpillRead(from, want)
      BY <1>5, <2>2, <2>6
    <3>4. QED
      BY <2>4, <2>5, <3>2, <3>3
  <2>7. CASE ~ sizeLimitReached \/ maxSize = 0
    <3>1. /\ Smaller(offset + maxSize, Appended) \in Nat
          /\ Smaller(offset + maxSize, Appended) <= offset
      BY <1>1, <1>8, <2>7 DEF Smaller
    <3>2. Back(offset, Smaller(offset + maxSize, Appended)) = <<>>
      BY <3>1, BackLen
    <3>3. ReadNoLock(offset, <<>>, maxSize).block = inMem
      BY <1>5, <2>2, <2>7
    <3>4. QED
      BY <2>2, <2>5, <3>2, <3>3
  <2>8. QED
    BY <2>6, <2>7
<1>9. offset + maxSize <= m \/ (offset <= m /\ m < offset + maxSize) \/ m < offset
  BY <1>1
<1>10. QED
  BY <1>6, <1>7, <1>8, <1>9, ZenonT(40)

(* While the temporary file works, that is what the stream has there.      *)
LEMMA FreshPass ==
  ASSUME BufferTypeOK, LogInv, ~ spillFailed,
         NEW offset \in Nat, NEW maxSize \in Nat
  PROVE  LET pass == ReadNoLock(offset, <<>>, maxSize)
         IN  /\ pass.block = Bytes(offset, Smaller(offset + maxSize, Appended))
             /\ pass.failed = FALSE
<1> DEFINE end == Smaller(offset + maxSize, Appended)
<1>1. end \in Nat /\ end <= Readable
  BY StoredSizes, ReadableSize DEF Smaller
<1> HIDE DEF end
<1>2. Back(offset, end) = Bytes(offset, end)
  BY <1>1, BackBytes
<1>3. QED
  BY <1>2, BackPass DEF end
-----------------------------------------------------------------------------
(* The drain after the parse. *)

(* Draining starts with nothing drained, and only once the appender has    *)
(* stopped: from then on the log is fixed, and so is what it gives back,   *)
(* because a pass into an empty block takes no file to a negative offset.  *)
DrainInv == /\ rpc \notin {"draining", "drained"} => drained = <<>>
            /\ rpc \in {"draining", "drained"} => apc = "done"
            /\ drained = Back(replaceLen, replaceLen + Len(drained))
            /\ rpc = "drained" => replaceLen + Len(drained) >= Appended

LEMMA NothingDrained ==
  ASSUME NEW r \in Nat, replaceLen' = r, drained' = <<>>, rpc' \notin {"draining", "drained"}
  PROVE  DrainInv'
<1>1. Len(<<>>) = 0 /\ r + 0 = r
  BY EmptySeq
<1>2. 1 .. r - r = 1 .. 0
  OBVIOUS
<1>3. Back(r, r)' = <<>>
  BY <1>2, EmptySeq DEF Back
<1>4. Back(r, r + Len(<<>>))' = <<>>
  BY <1>1, <1>3
<1>5. Back(replaceLen, replaceLen + Len(drained))' = <<>>
  BY <1>4
<1>6. QED
  BY <1>5 DEF DrainInv

LEMMA DrainInit == BufferInit => DrainInv
<1> SUFFICES ASSUME BufferInit PROVE DrainInv
  OBVIOUS
<1>1. drained = <<>> /\ Len(drained) = 0 /\ replaceLen = 0 /\ rpc = "idle"
  BY DEF BufferInit
<1>2. Back(0, 0) = <<>>
  BY BackLen
<1>3. QED
  BY <1>1, <1>2 DEF DrainInv

(* One finalRead continues the drained bytes by the log's next ones.       *)
LEMMA FinalReadExact ==
  ASSUME BufferTypeOK, LogInv, DrainInv, FinalRead
  PROVE  DrainInv'
<1> DEFINE o    == Len(drained) + replaceLen
           e    == Smaller(o + BlockSize, Appended)
           pass == ReadNoLock(o, <<>>, BlockSize)
<1>1. /\ Len(drained) \in Nat /\ replaceLen \in Nat /\ BlockSize \in Nat
      /\ BlockSize > 0 /\ Appended \in Nat /\ o \in Nat /\ e \in Nat
      /\ replaceLen <= o /\ replaceLen + Len(drained) = o
  BY SizesAssumption, StoredSizes DEF BufferTypeOK, Smaller
<1>2. pass.block = Back(o, e) /\ pass.failed = FALSE
  BY <1>1, BackPass
<1>3. /\ rpc = "draining" /\ apc' = apc /\ replaceLen' = replaceLen
      /\ drained' = drained \o Back(o, e)
      /\ spillFailed' = (spillFailed \/ FALSE)
      /\ UNCHANGED <<mem, spill>>
      /\ rpc' = IF Back(o, e) = <<>> THEN "drained" ELSE "draining"
  BY <1>2 DEF FinalRead, ReaderMove, bufVars
<1>4. /\ Appended' = Appended
      /\ \A from, to : Back(from, to)' = Back(from, to)
  <2>1. spillFailed' = spillFailed
    BY <1>3 DEF BufferTypeOK
  <2>2. Readable' = Readable /\ Appended' = Appended
    BY <1>3, <2>1 DEF Readable, Appended
  <2>3. QED
    BY <2>2, Zenon DEF Back
<1>5. drained = Back(replaceLen, o)
  BY <1>1 DEF DrainInv
<1> HIDE DEF o, e, pass
<1>6. CASE o <= e
  <2>1. replaceLen <= e
    BY <1>1, <1>6
  <2>2. Back(replaceLen, o) \o Back(o, e) = Back(replaceLen, e)
    BY <1>1, <1>6, BackConcat, ZenonT(40)
  <2>3. drained' = Back(replaceLen, e)
    BY <1>3, <1>5, <2>2, Zenon
  <2>4. Len(Back(replaceLen, e)) = e - replaceLen /\ Len(Back(o, e)) = e - o
    BY <1>1, <1>6, <2>1, BackLen
  <2>5. replaceLen' + Len(drained') = e
    BY <1>1, <1>3, <2>3, <2>4
  <2>6. rpc' = "drained" => e >= Appended
    <3>1. rpc' = "drained" => e - o = 0
      BY <1>3, <2>4, EmptySeq
    <3>2. QED
      BY <1>1, <3>1 DEF Smaller, e
  <2>7. drained' = Back(replaceLen, replaceLen + Len(drained))'
    BY <1>3, <1>4, <2>3, <2>5
  <2>8. QED
    BY <1>3, <1>4, <2>5, <2>6, <2>7 DEF DrainInv
<1>7. CASE ~ (o <= e)
  <2>1. Back(o, e) = <<>>
    BY <1>1, <1>7, BackLen
  <2>2. drained' = drained
    BY <1>3, <2>1 DEF BufferTypeOK
  <2>3. o >= Appended
    BY <1>1, <1>7 DEF Smaller, e
  <2>4. replaceLen' + Len(drained') = o
    BY <1>1, <1>3, <2>2
  <2>5. drained' = Back(replaceLen, replaceLen + Len(drained))'
    BY <1>3, <1>4, <1>5, <2>2, <2>4
  <2>6. QED
    BY <1>3, <1>4, <2>3, <2>4, <2>5 DEF DrainInv
<1>8. QED
  BY <1>6, <1>7

LEMMA DrainNext == BufferTypeOK /\ LogInv /\ DrainInv /\ [BufferNext]_allVars => DrainInv'
<1> SUFFICES ASSUME BufferTypeOK, LogInv, DrainInv, [BufferNext]_allVars PROVE DrainInv'
  OBVIOUS
<1>r. replaceLen \in Nat
  BY DEF BufferTypeOK
<1>1. CASE FinalRead
  BY <1>1, FinalReadExact
<1>2. CASE Store
  <2>1. /\ apc = "fetch" /\ rpc' = rpc /\ drained' = drained /\ replaceLen' = replaceLen
    BY <1>2 DEF Store
  <2>2. rpc \notin {"draining", "drained"} /\ drained = <<>>
    BY <2>1 DEF DrainInv
  <2>3. QED
    BY <1>r, <2>1, <2>2, NothingDrained
<1>3. CASE Fill
  <2>1. /\ rpc = "fill" /\ rpc' \in {"idle", "checkEof"} /\ drained' = drained
        /\ replaceLen' = replaceLen
    BY <1>3 DEF Fill, ReaderMove
  <2>2. drained = <<>>
    BY <2>1 DEF DrainInv
  <2>3. QED
    BY <1>r, <2>1, <2>2, NothingDrained
<1>4. CASE \E replace \in 0 .. StreamLen : Prepend(replace)
  <2>1. PICK replace \in 0 .. StreamLen : Prepend(replace)
    BY <1>4
  <2>2. /\ drained = <<>> /\ drained' = drained /\ rpc' = "idle"
        /\ replaceLen' = replace /\ replace \in Nat
    BY <2>1 DEF Prepend, DrainInv
  <2>3. QED
    BY <2>2, NothingDrained
<1>5. ASSUME UNCHANGED <<bufVars, spillFailed, replaceLen, drained>>
      PROVE  /\ Appended' = Appended
             /\ Back(replaceLen, replaceLen + Len(drained))'
                  = Back(replaceLen, replaceLen + Len(drained))
  BY <1>5 DEF bufVars, Appended, Readable, Back
<1>6. CASE AppendStopped
  <2>1. /\ UNCHANGED <<bufVars, spillFailed, replaceLen, drained>>
        /\ rpc = "stopping" /\ rpc' = "draining" /\ apc' = "done"
    BY <1>6 DEF AppendStopped, ReaderMove
  <2>2. QED
    BY <1>5, <2>1 DEF DrainInv
<1>7. CASE /\ UNCHANGED <<bufVars, spillFailed, replaceLen, drained>>
           /\ \/ rpc' = rpc /\ (apc' = apc \/ apc # "done")
              \/ rpc \notin {"draining", "drained"} /\ rpc' \notin {"draining", "drained"}
  BY <1>5, <1>7 DEF DrainInv
<1>8. QED
  <2>1. \/ FinalRead \/ Store \/ Fill \/ AppendStopped
        \/ \E replace \in 0 .. StreamLen : Prepend(replace)
        \/ /\ UNCHANGED <<bufVars, spillFailed, replaceLen, drained>>
           /\ \/ rpc' = rpc /\ (apc' = apc \/ apc # "done")
              \/ rpc \notin {"draining", "drained"} /\ rpc' \notin {"draining", "drained"}
    BY DEF BufferNext, Appender, InRead, AfterParse, Parser, SetEof, SetPortionRead,
           NotifyOne, SpuriousWakeup, Lock, CheckEof, CheckPortion, Wait, Reacquire,
           Consume, CallRead, EndParse, Terminating, allVars, bufVars, ReaderMove
  <2>2. QED
    BY <1>1, <1>2, <1>3, <1>4, <1>6, <1>7, <2>1

(* finalRead returns the log from the end of the replaced tag on, without  *)
(* gap or repetition, and all of it by the time the drain ends.  If the    *)
(* parse has taken the temporary file to a negative offset, every byte in  *)
(* memory is exact still, and each of the file's is junk in its own place. *)
THEOREM DrainIsExact == BufferSpec => []DrainExact
<1>1. BufferSpec => []DrainInv
  BY BufferTypeCorrect, LogInvariant, DrainInit, DrainNext, PTL DEF BufferSpec
<1>2. BufferTypeOK /\ LogInv /\ DrainInv => DrainExact
  <2> SUFFICES ASSUME BufferTypeOK, LogInv, DrainInv PROVE DrainExact
    OBVIOUS
  <2>1. replaceLen \in Nat /\ replaceLen + Len(drained) \in Nat
    BY DEF BufferTypeOK
  <2>2. Log!ReadBack(replaceLen, replaceLen + Len(drained))
          = Back(replaceLen, replaceLen + Len(drained))
    BY <2>1, LogReadBack
  <2>3. QED
    BY <2>2 DEF DrainInv, DrainExact
<1>3. QED
  BY <1>1, <1>2, BufferTypeCorrect, LogInvariant, PTL
-----------------------------------------------------------------------------
(* The buffer implements the abstract log. *)

(* No block is stored once the end of the stream has been signalled. *)
EofInv == eof => apc # "fetch"

LEMMA EofInvariant == BufferSpec => []EofInv
<1>1. BufferInit => EofInv
  BY DEF BufferInit, EofInv
<1>2. EofInv /\ [BufferNext]_allVars => EofInv'
  <2> SUFFICES ASSUME EofInv, [BufferNext]_allVars PROVE EofInv'
    OBVIOUS
  <2>1. CASE NotifyOne
    BY <2>1 DEF NotifyOne, EofInv
  <2>2. CASE apc' \in {"flag", "notify"}
    BY <2>2 DEF EofInv
  <2>3. CASE UNCHANGED <<eof, apc>>
    BY <2>3 DEF EofInv
  <2>4. QED
    BY <2>1, <2>2, <2>3
       DEF BufferNext, Appender, InRead, AfterParse, Parser, Store, SetEof, SetPortionRead,
           SpuriousWakeup, Lock, CheckEof, CheckPortion, Wait, Reacquire, Consume, Fill,
           FinalRead, CallRead, Prepend, EndParse, AppendStopped, Terminating, allVars,
           bufVars
<1>3. QED
  BY <1>1, <1>2, PTL DEF BufferSpec

LEMMA AppendExtends ==
  ASSUME NEW s \in Seq(Byte), NEW t \in Seq(Byte)
  PROVE  s \o t \in Seq(Byte) /\ Log!Extends(s \o t, s)
  BY DEF Log!Extends

LEMMA StoreAccepts ==
  ASSUME BufferTypeOK, BufferTypeOK', LogInv, EofInv, Store
  PROVE  Log!Accept
<1>1. ~ eof /\ eof' = eof
  BY DEF Store, EofInv
<1>2. PICK to \in Nat :
         /\ Bytes(Appended, to) \in Seq(Byte)
         /\ \/ mem' = mem /\ spill' = spill \o Bytes(Appended, to)
            \/ /\ ~ sizeLimitReached
               /\ spill' = spill /\ mem' = mem \o Bytes(Appended, to)
  BY StoreBlock
<1>3. mem \in Seq(Byte) /\ spill \in Seq(Byte) /\ mem \o spill \in Seq(Byte)
  BY DEF BufferTypeOK
<1>4. (mem \o spill)' = (mem \o spill) \o Bytes(Appended, to)
  <2> DEFINE blk == Bytes(Appended, to)
  <2> HIDE DEF blk
  <2>1. blk \in Seq(Byte)
    BY <1>2 DEF blk
  <2>2. CASE mem' = mem /\ spill' = spill \o blk
    <3>1. mem \o (spill \o blk) = (mem \o spill) \o blk
      BY <1>3, <2>1
    <3>2. QED
      BY <2>2, <3>1 DEF blk
  <2>3. CASE ~ sizeLimitReached /\ spill' = spill /\ mem' = mem \o blk
    <3>1. spill = <<>>
      BY <2>3 DEF LogInv
    <3>2. mem \o <<>> = mem /\ (mem \o blk) \o <<>> = mem \o blk
      BY <1>3, <2>1
    <3>3. QED
      BY <2>3, <3>1, <3>2 DEF blk
  <2>4. QED
    BY <1>2, <2>2, <2>3 DEF blk
<1>5. (mem \o spill)' \in Seq(Byte) /\ Log!Extends((mem \o spill)', mem \o spill)
  BY <1>2, <1>3, <1>4, AppendExtends
<1>6. Readable' = IF Readable = Len(mem \o spill) THEN Len((mem \o spill)') ELSE Readable
  <2>1. Len(mem \o spill) = Appended
    BY <1>3 DEF BufferTypeOK, Appended
  <2>2. Len((mem \o spill)') = Appended'
    BY DEF BufferTypeOK, Appended
  <2>3. spillFailed' = spillFailed
    BY DEF Store
  <2>4. CASE ~ spillFailed
    BY <2>1, <2>2, <2>3, <2>4 DEF Readable
  <2>5. CASE spillFailed
    <3>1. sizeLimitReached /\ Len(mem) < Appended
      BY <2>5 DEF LogInv, BufferTypeOK
    <3>2. mem' = mem
      BY <1>2, <3>1
    <3>3. Len(mem) # Appended
      BY <3>1, StoredSizes
    <3>4. QED
      BY <2>1, <2>3, <2>5, <3>2, <3>3 DEF Readable
  <2>6. QED
    BY <2>4, <2>5
<1>7. QED
  BY <1>1, <1>5, <1>6 DEF Log!Accept

(* A pass that fails the temporary file loses what is spilled; any other   *)
(* does not show.                                                          *)
LEMMA PassLoses ==
  ASSUME BufferTypeOK, LogInv, UNCHANGED <<mem, spill, eof>>,
         NEW failed \in BOOLEAN, failed => sizeLimitReached,
         spillFailed' = (spillFailed \/ failed)
  PROVE  Log!Lose \/ UNCHANGED Log!vars
<1>1. CASE spillFailed \/ ~ failed
  <2>1. spillFailed' = spillFailed
    BY <1>1 DEF BufferTypeOK
  <2>2. QED
    BY <2>1 DEF Log!vars, Readable, Appended
<1>2. CASE ~ spillFailed /\ failed
  <2>1. Readable = Appended /\ Readable' = Len(mem) /\ Len(mem) < Appended
    BY <1>2 DEF Readable, LogInv
  <2>2. Len(mem \o spill) = Appended /\ Len(mem) \in Nat /\ Appended \in Nat
    BY DEF BufferTypeOK, Appended
  <2>3. QED
    BY <2>1, <2>2 DEF Log!Lose
<1>3. QED
  BY <1>1, <1>2

(* BlockingBuffer refines StreamLog: every step of the two threads appends *)
(* to the log, ends it, loses the spill or does not show.                  *)
THEOREM BufferImplementsLog == BufferSpec => ImplementsStreamLog
<1>1. BufferInit => Log!Init
  <2> SUFFICES ASSUME BufferInit PROVE Log!Init
    OBVIOUS
  <2>1. mem = <<>> /\ spill = <<>> /\ ~ spillFailed /\ ~ eof /\ eof \in BOOLEAN
    BY DEF BufferInit
  <2>2. Readable = 0
    BY <2>1, EmptySeq DEF Readable, Appended
  <2>3. QED
    BY <2>1, <2>2 DEF Log!Init
<1>2. /\ BufferTypeOK /\ BufferTypeOK' /\ LogInv /\ EofInv /\ [BufferNext]_allVars
      => [Log!Next]_(Log!vars)
  <2> SUFFICES ASSUME BufferTypeOK, BufferTypeOK', LogInv, EofInv, [BufferNext]_allVars
               PROVE  Log!Next \/ UNCHANGED Log!vars
    OBVIOUS
  <2>1. CASE Store
    BY <2>1, StoreAccepts DEF Log!Next
  <2>2. CASE SetEof
    BY <2>2 DEF SetEof, bufVars, Readable, Appended, Log!Next, Log!Finish
  <2>3. CASE Fill
    <3> DEFINE pass == ReadNoLock(call.offset + Len(block), block, call.len)
    <3>1. /\ block \in Seq(Cell) /\ Len(block) <= call.len
          /\ call.len \in Nat /\ call.offset + Len(block) \in Nat
      BY SizesAssumption DEF BufferTypeOK
    <3>2. pass.failed \in BOOLEAN /\ (pass.failed => sizeLimitReached)
      BY <3>1, PassType
    <3>3. UNCHANGED <<mem, spill, eof>> /\ spillFailed' = (spillFailed \/ pass.failed)
      BY <2>3 DEF Fill, bufVars
    <3> HIDE DEF pass
    <3>4. QED
      BY <3>2, <3>3, PassLoses DEF Log!Next
  <2>4. CASE FinalRead
    <3> DEFINE pass == ReadNoLock(Len(drained) + replaceLen, <<>>, BlockSize)
    <3>1. /\ Len(drained) + replaceLen \in Nat /\ BlockSize \in Nat
          /\ <<>> \in Seq(Cell) /\ Len(<<>>) <= BlockSize
      BY SizesAssumption DEF BufferTypeOK
    <3>2. pass.failed \in BOOLEAN /\ (pass.failed => sizeLimitReached)
      BY <3>1, PassType
    <3>3. UNCHANGED <<mem, spill, eof>> /\ spillFailed' = (spillFailed \/ pass.failed)
      BY <2>4 DEF FinalRead, bufVars
    <3> HIDE DEF pass
    <3>4. QED
      BY <3>2, <3>3, PassLoses DEF Log!Next
  <2>5. CASE UNCHANGED <<bufVars, spillFailed, eof>>
    BY <2>5 DEF bufVars, Readable, Appended, Log!vars
  <2>6. QED
    BY <2>1, <2>2, <2>3, <2>4, <2>5
       DEF BufferNext, Appender, InRead, AfterParse, Parser, SetPortionRead, NotifyOne,
           SpuriousWakeup, Lock, CheckEof, CheckPortion, Wait, Reacquire, Consume,
           CallRead, Prepend, EndParse, AppendStopped, Terminating, allVars, bufVars
<1>3. QED
  BY <1>1, <1>2, BufferTypeCorrect, LogInvariant, EofInvariant, PTL
     DEF BufferSpec, ImplementsStreamLog, Log!Spec
-----------------------------------------------------------------------------
(* What a read delivers while later bytes arrive. *)

(* The reads that never needed the temporary file: nothing is spilled yet, *)
(* or the wanted bytes are all in memory.                                  *)
FromMemory == ~ sizeLimitReached \/ call.offset + call.len <= Len(mem)

(* Such a read has collected, pass by pass, a slice of the stream without  *)
(* gap or repetition, which ends in memory.  (Once the file is involved    *)
(* the passes after the first compute a wrong file offset, and nothing is  *)
(* known of the block.)                                                    *)
MemorySlice ==
  FromMemory => /\ block = Bytes(call.offset, call.offset + Len(block))
                /\ block = <<>> \/ call.offset + Len(block) <= Len(mem)

(* The strengthening of FreshReadExact. *)
ReadInv == MemorySlice /\ FreshReadExact

LEMMA CallSizes ==
  ASSUME BufferTypeOK
  PROVE  /\ call.offset \in Nat /\ call.len \in Nat /\ Len(block) \in Nat
         /\ block \in Seq(Cell) /\ Len(block) <= call.len
         /\ call.offset + Len(block) \in Nat
  BY SizesAssumption DEF BufferTypeOK

(* Memory that holds the wanted bytes after an append held them before it, *)
(* or nothing was spilled before.                                          *)
LEMMA FromMemoryBefore ==
  ASSUME BufferTypeOK, Store, FromMemory'
  PROVE  FromMemory
<1>1. PICK to \in Nat :
         \/ mem' = mem
         \/ ~ sizeLimitReached
  BY StoreBlock
<1>2. call' = call
  BY DEF Store
<1>3. sizeLimitReached => sizeLimitReached'
  BY StoreBlock
<1>4. QED
  BY <1>1, <1>2, <1>3 DEF FromMemory

(* One pass over the memory continues the slice.  What the pass then asks  *)
(* of the temporary file, if it does, is no byte at all.                   *)
LEMMA MemoryPass ==
  ASSUME BufferTypeOK, LogInv, ReadInv, FromMemory
  PROVE  ReadNoLock(call.offset + Len(block), block, call.len).block = Expected
<1> DEFINE o == call.offset
           n == call.len
           b == Len(block)
           m == Len(mem)
           e == Smaller(o + n, m)
           inMem == block \o FromMem(o + b, n - b)
           from  == o + b + Len(inMem) - m
           want  == n - Len(inMem)
<1>1. /\ o \in Nat /\ n \in Nat /\ b \in Nat /\ b <= n /\ o + b \in Nat /\ n - b \in Nat
      /\ m \in Nat /\ Appended \in Nat /\ m <= Appended
      /\ ~ sizeLimitReached => Appended = m
      /\ block \in Seq(Cell)
  BY CallSizes, StoredSizes
<1>2. e = Smaller(o + n, Appended) /\ e \in Nat
  BY <1>1 DEF Smaller, FromMemory
<1>3. Expected = Bytes(o, e)
  BY <1>2 DEF Expected
<1>4. FromMem(o + b, n - b) = Bytes(o + b, e)
  <2>1. (o + b) + (n - b) = o + n
    BY <1>1
  <2>2. FromMem(o + b, n - b) = Bytes(o + b, Smaller((o + b) + (n - b), Len(mem)))
    BY <1>1, FromMemBytes
  <2>3. QED
    BY <2>1, <2>2
<1>5. inMem = Bytes(o, e)
  <2>1. CASE block = <<>>
    <3>1. b = 0 /\ o + b = o
      BY <1>1, <2>1
    <3>2. FromMem(o + b, n - b) = Bytes(o, e)
      BY <1>4, <3>1
    <3>3. FromMem(o + b, n - b) \in Seq(Cell)
      BY <1>1, FromMemType
    <3>4. QED
      BY <2>1, <3>2, <3>3, ConcatEmptySeq
  <2>2. CASE o + b <= m
    <3>1. block = Bytes(o, o + b)
      BY DEF ReadInv, MemorySlice
    <3>2. o <= o + b /\ o + b <= e
      BY <1>1, <2>2 DEF Smaller
    <3>3. Bytes(o, o + b) \o Bytes(o + b, e) = Bytes(o, e)
      <4> HIDE DEF o, b, e
      <4>1. QED
        BY <1>1, <1>2, <3>2, BytesConcat, ZenonT(40)
    <3>4. QED
      BY <1>4, <3>1, <3>3
  <2>3. QED
    BY <2>1, <2>2 DEF ReadInv, MemorySlice
<1>6. ReadNoLock(o + b, block, n).block
        = IF Len(inMem) # n - b /\ sizeLimitReached
          THEN inMem \o SpillRead(from, want) ELSE inMem
  BY DEF ReadNoLock
<1>7. CASE sizeLimitReached
  <2>1. o + n <= m
    BY <1>7 DEF FromMemory
  <2>2. e = o + n
    BY <1>1, <2>1 DEF Smaller
  <2>3. Len(Bytes(o, o + n)) = n
    <3>1. o + n \in Nat /\ o <= o + n /\ (o + n) - o = n
      <4>1. o \in Nat /\ n \in Nat
        BY <1>1
      <4> HIDE DEF o, n
      <4>2. QED
        BY <4>1
    <3>2. Len(Bytes(o, o + n)) = IF o <= o + n THEN (o + n) - o ELSE 0
      BY <1>1, <3>1, BytesNat, Zenon
    <3>3. QED
      BY <3>1, <3>2
  <2>4. Len(inMem) = n
    BY <1>5, <2>2, <2>3
  <2>5. want = 0 /\ want \in Nat /\ from \in Int
    BY <1>1, <2>4, SMTT(30)
  <2>6. SpillRead(from, want) \in Seq(Cell) /\ Len(SpillRead(from, want)) <= want
    BY <2>5, SpillReadType
  <2>7. SpillRead(from, want) = <<>>
    BY <2>5, <2>6, EmptySeq
  <2>8. inMem \o SpillRead(from, want) = inMem
    <3>1. inMem \in Seq(Cell)
      BY <1>1, FromMemType, ConcatProperties
    <3>2. QED
      BY <2>7, <3>1, ConcatEmptySeq
  <2>9. QED
    BY <1>3, <1>5, <1>6, <2>8
<1>8. CASE ~ sizeLimitReached
  BY <1>3, <1>5, <1>6, <1>8
<1>9. QED
  BY <1>7, <1>8

LEMMA ExtendsItself ==
  ASSUME NEW S, NEW s \in Seq(S)
  PROVE  Log!Extends(s, s)
<1>1. SubSeq(s, 1, Len(s)) = s
  OBVIOUS
<1>2. QED
  BY <1>1 DEF Log!Extends

(* What was delivered is still a delivery when the appender stores another *)
(* block: a full block is still expected, and nothing is stored after the  *)
(* end of the stream.                                                      *)
LEMMA DeliveredKept ==
  ASSUME BufferTypeOK, LogInv, EofInv, Returned, Delivered, Store
  PROVE  Delivered'
<1> DEFINE o == call.offset
           n == call.len
<1>1. o \in Nat /\ n \in Nat /\ n > 0 /\ Len(block) \in Nat /\ Len(block) <= n
  BY CallSizes DEF Returned
<1>2. call' = call /\ block' = block /\ eof' = eof /\ ~ eof
  BY DEF Store, EofInv
<1>3. Len(block) = n
  BY <1>1, <1>2 DEF Delivered
<1>4. Appended \in Nat /\ Appended' \in Nat /\ Appended <= Appended'
  <2>1. PICK to \in Nat :
           /\ Appended < to
           /\ Bytes(Appended, to) \in Seq(Byte)
           /\ \/ mem' = mem /\ spill' = spill \o Bytes(Appended, to)
              \/ spill' = spill /\ mem' = mem \o Bytes(Appended, to)
    BY StoreBlock
  <2> DEFINE blk == Bytes(Appended, to)
  <2> HIDE DEF blk
  <2>2. blk \in Seq(Byte) /\ mem \in Seq(Byte) /\ spill \in Seq(Byte)
    BY <2>1 DEF blk, BufferTypeOK
  <2>3. /\ Len(blk) \in Nat /\ Len(mem) \in Nat /\ Len(spill) \in Nat
        /\ Len(mem \o blk) = Len(mem) + Len(blk)
        /\ Len(spill \o blk) = Len(spill) + Len(blk)
    BY <2>2
  <2>4. \/ mem' = mem /\ spill' = spill \o blk
        \/ spill' = spill /\ mem' = mem \o blk
    BY <2>1 DEF blk
  <2>5. QED
    BY <2>3, <2>4 DEF Appended
<1>5. Len(Expected) >= n
  BY <1>3 DEF Delivered, Log!Extends
<1>6. o + n <= Appended
  <2> DEFINE e == Smaller(o + n, Appended)
  <2>1. e \in Nat /\ e <= Appended /\ e <= o + n
    BY <1>1, <1>4 DEF Smaller
  <2>2. Len(Expected) = IF o <= e THEN e - o ELSE 0
    <3>1. Expected = Bytes(o, e)
      BY DEF Expected
    <3> HIDE DEF e
    <3>2. QED
      BY <1>1, <2>1, <3>1, BytesNat, Zenon
  <2> HIDE DEF e
  <2>3. QED
    BY <1>1, <1>4, <1>5, <2>1, <2>2
<1>7. /\ Smaller(o + n, Appended) = o + n
      /\ Smaller(o + n, Appended') = o + n
  BY <1>1, <1>4, <1>6 DEF Smaller
<1>8. Expected' = Expected
  BY <1>2, <1>7 DEF Expected
<1>9. QED
  BY <1>2, <1>8 DEF Delivered, Log!Extends

LEMMA FillSlice ==
  ASSUME BufferTypeOK, LogInv, ReadInv, Fill
  PROVE  MemorySlice'
<1> SUFFICES ASSUME FromMemory'
             PROVE  /\ block' = Bytes(call'.offset, call'.offset + Len(block'))
                    /\ block' = <<>> \/ call'.offset + Len(block') <= Len(mem')
  BY DEF MemorySlice
<1> DEFINE e == Smaller(call.offset + call.len, Appended)
<1>1. /\ block' = ReadNoLock(call.offset + Len(block), block, call.len).block
      /\ call' = call /\ mem' = mem /\ sizeLimitReached' = sizeLimitReached
  BY DEF Fill, bufVars
<1>2. FromMemory
  BY <1>1 DEF FromMemory
<1>3. block' = Bytes(call.offset, e)
  BY <1>1, <1>2, MemoryPass DEF Expected
<1>4. /\ call.offset \in Nat /\ call.len \in Nat
      /\ Appended \in Nat /\ Len(mem) \in Nat /\ e \in Nat /\ e <= Len(mem)
  BY <1>2, CallSizes, StoredSizes DEF Smaller, FromMemory
<1> HIDE DEF e
<1>5. /\ Len(block') = IF call.offset <= e THEN e - call.offset ELSE 0
      /\ e <= call.offset => block' = <<>>
  BY <1>3, <1>4, BytesNat, Zenon
<1>6. CASE call.offset < e
  <2>1. call.offset + Len(block') = e
    BY <1>4, <1>5, <1>6
  <2>2. QED
    BY <1>1, <1>3, <1>4, <2>1
<1>7. CASE ~ (call.offset < e)
  <2>1. e <= call.offset
    BY <1>4, <1>7
  <2>2. block' = <<>>
    BY <1>5, <2>1
  <2>3. Bytes(call.offset, call.offset + Len(<<>>)) = <<>>
    <3>1. call.offset + Len(<<>>) = call.offset
      BY <1>4, EmptySeq
    <3>2. Bytes(call.offset, call.offset) = <<>>
      <4>1. call.offset \in Nat /\ call.offset <= call.offset
        BY <1>4
      <4>2. QED
        BY <4>1, BytesNat, Zenon
    <3>3. QED
      BY <3>1, <3>2, Zenon
  <2>4. QED
    BY <1>1, <2>2, <2>3, Zenon
<1>8. QED
  BY <1>6, <1>7

LEMMA FillDelivers ==
  ASSUME BufferTypeOK, BufferTypeOK', LogInv, ReadInv, Fill
  PROVE  FreshReadExact'
<1> SUFFICES ASSUME Returned', FromMemory' \/ (entry' = 0 /\ ~ spillFailed')
             PROVE  Delivered'
  BY DEF FreshReadExact, FromMemory
<1> DEFINE pass == ReadNoLock(call.offset + Len(block), block, call.len)
<1>1. /\ block' = pass.block /\ entry' = Len(block) /\ (spillFailed => spillFailed')
      /\ call' = call /\ mem' = mem /\ spill' = spill /\ eof' = eof
      /\ sizeLimitReached' = sizeLimitReached
      /\ rpc' = IF Len(pass.block) = call.len \/ eof THEN "idle" ELSE "checkEof"
  BY DEF Fill, bufVars, ReaderMove
<1>2. Len(block') = call'.len \/ eof'
  BY <1>1 DEF Returned
<1>3. Expected' = Expected
  BY <1>1 DEF Expected, Appended
<1>4. block' = Expected
  <2>1. CASE FromMemory
    BY <1>1, <2>1, MemoryPass
  <2>2. CASE entry' = 0 /\ ~ spillFailed'
    <3>1. /\ block = <<>> /\ call.offset + Len(block) = call.offset
          /\ call.offset \in Nat /\ call.len \in Nat /\ ~ spillFailed
      <4>1. /\ call.offset \in Nat /\ call.len \in Nat /\ block \in Seq(Cell)
            /\ Len(block) = 0 /\ ~ spillFailed
        BY <1>1, <2>2, CallSizes
      <4>2. block = <<>>
        BY <4>1, EmptySeq
      <4>3. QED
        BY <4>1, <4>2
    <3>2. ReadNoLock(call.offset, <<>>, call.len).block = Expected
      BY <3>1, FreshPass DEF Expected
    <3>3. QED
      BY <1>1, <3>1, <3>2
  <2>3. FromMemory' => FromMemory
    BY <1>1 DEF FromMemory
  <2>4. QED
    BY <2>1, <2>2, <2>3
<1>5. QED
  <2>1. block' = Expected'
    BY <1>3, <1>4
  <2>2. Log!Extends(Expected', block')
    <3>1. block' \in Seq(Cell)
      BY DEF BufferTypeOK
    <3>2. QED
      BY <2>1, <3>1, ExtendsItself
  <2>3. QED
    BY <1>2, <2>1, <2>2 DEF Delivered

LEMMA ReadInit == BufferInit => ReadInv
<1> SUFFICES ASSUME BufferInit PROVE ReadInv
  OBVIOUS
<1>1. /\ block = <<>> /\ Len(block) = 0 /\ call.offset = 0 /\ call.len = 0
  BY DEF BufferInit
<1>2. Bytes(0, 0) = <<>>
  BY BytesNat
<1>3. QED
  BY <1>1, <1>2 DEF ReadInv, MemorySlice, FreshReadExact, Returned

LEMMA ReadNext ==
  BufferTypeOK /\ BufferTypeOK' /\ LogInv /\ EofInv /\ ReadInv /\ [BufferNext]_allVars => ReadInv'
<1> SUFFICES ASSUME BufferTypeOK, BufferTypeOK', LogInv, EofInv, ReadInv, [BufferNext]_allVars
             PROVE  ReadInv'
  OBVIOUS
<1>1. CASE Fill
  BY <1>1, FillSlice, FillDelivers DEF ReadInv, MemorySlice
<1>2. CASE Store
  <2>1. /\ block' = block /\ call' = call /\ rpc' = rpc /\ entry' = entry
        /\ spillFailed' = spillFailed
    BY <1>2 DEF Store
  <2>2. FromMemory' => FromMemory
    BY <1>2, FromMemoryBefore
  <2>3. Len(mem) \in Nat /\ Len(mem') \in Nat /\ Len(mem) <= Len(mem')
    <3>1. PICK to \in Nat : /\ Bytes(Appended, to) \in Seq(Byte)
                            /\ mem' = mem \/ mem' = mem \o Bytes(Appended, to)
      BY <1>2, StoreBlock
    <3> DEFINE blk == Bytes(Appended, to)
    <3> HIDE DEF blk
    <3>2. blk \in Seq(Byte) /\ mem \in Seq(Byte) /\ (mem' = mem \/ mem' = mem \o blk)
      BY <3>1 DEF blk, BufferTypeOK
    <3>3. QED
      BY <3>2
  <2>4. MemorySlice'
    <3> SUFFICES ASSUME FromMemory'
                 PROVE  /\ block' = Bytes(call'.offset, call'.offset + Len(block'))
                        /\ block' = <<>> \/ call'.offset + Len(block') <= Len(mem')
      BY DEF MemorySlice
    <3>1. /\ block = Bytes(call.offset, call.offset + Len(block))
          /\ block = <<>> \/ call.offset + Len(block) <= Len(mem)
      BY <2>2 DEF ReadInv, MemorySlice
    <3>2. call.offset + Len(block) \in Nat
      BY CallSizes
    <3>3. QED
      BY <2>1, <2>3, <3>1, <3>2
  <2>5. FreshReadExact'
    <3> SUFFICES ASSUME Returned', FromMemory' \/ (entry' = 0 /\ ~ spillFailed')
                 PROVE  Delivered'
      BY DEF FreshReadExact, FromMemory
    <3>1. Returned /\ (FromMemory \/ (entry = 0 /\ ~ spillFailed))
      BY <2>1, <2>2 DEF Returned
    <3>2. Delivered
      BY <3>1 DEF ReadInv, FreshReadExact, FromMemory
    <3>3. QED
      BY <1>2, <3>1, <3>2, DeliveredKept
  <2>6. QED
    BY <2>4, <2>5 DEF ReadInv, MemorySlice
<1>3. CASE \E offset \in 0 .. StreamLen, len \in 1 .. MaxReadLen : CallRead(offset, len)
  <2>1. /\ block' = <<>> /\ Len(block') = 0 /\ rpc' # "idle"
        /\ call'.offset \in Nat /\ call'.offset + Len(block') = call'.offset
    <3>1. block' = <<>> /\ rpc' = "lock"
      BY <1>3 DEF CallRead, ReaderMove
    <3>2. call'.offset \in 0 .. StreamLen
      BY DEF BufferTypeOK
    <3>3. QED
      BY <3>1, <3>2, SizesAssumption
  <2>2. Bytes(call'.offset, call'.offset) = <<>>
    BY <2>1, BytesNat
  <2>3. QED
    BY <2>1, <2>2 DEF ReadInv, MemorySlice, FreshReadExact, Returned
<1>4. CASE SetEof
  <2>1. /\ UNCHANGED <<mem, spill, sizeLimitReached, spillFailed, rpc, call, block, entry>>
        /\ eof'
    BY <1>4 DEF SetEof, bufVars
  <2>2. Delivered => Delivered'
    BY <2>1 DEF Delivered, Expected, Appended, Log!Extends
  <2>3. QED
    BY <2>1, <2>2 DEF ReadInv, MemorySlice, FreshReadExact, Returned, FromMemory
<1>5. CASE /\ UNCHANGED <<bufVars, eof, call, block, entry>>
           /\ spillFailed => spillFailed'
           /\ rpc' = rpc \/ rpc' # "idle"
  <2>1. UNCHANGED <<mem, spill, sizeLimitReached, eof, call, block, entry>>
    BY <1>5 DEF bufVars
  <2>2. Delivered => Delivered'
    BY <2>1 DEF Delivered, Expected, Appended, Log!Extends
  <2>3. (FromMemory' => FromMemory) /\ (Returned' => Returned)
    BY <1>5, <2>1 DEF FromMemory, Returned
  <2>4. FreshReadExact'
    <3> SUFFICES ASSUME Returned', FromMemory' \/ (entry' = 0 /\ ~ spillFailed')
                 PROVE  Delivered'
      BY DEF FreshReadExact, FromMemory
    <3>1. Returned /\ (FromMemory \/ (entry = 0 /\ ~ spillFailed))
      BY <1>5, <2>1, <2>3
    <3>2. QED
      BY <2>2, <3>1 DEF ReadInv, FreshReadExact, FromMemory
  <2>5. MemorySlice'
    BY <2>1, <2>3 DEF ReadInv, MemorySlice
  <2>6. QED
    BY <2>4, <2>5 DEF ReadInv, MemorySlice
<1>6. QED
  <2>1. \/ Fill \/ Store \/ SetEof
        \/ \E offset \in 0 .. StreamLen, len \in 1 .. MaxReadLen : CallRead(offset, len)
        \/ /\ UNCHANGED <<bufVars, eof, call, block, entry>>
           /\ spillFailed => spillFailed'
           /\ rpc' = rpc \/ rpc' # "idle"
    BY DEF BufferNext, Appender, InRead, AfterParse, Parser, SetPortionRead, NotifyOne,
           SpuriousWakeup, Lock, CheckEof, CheckPortion, Wait, Reacquire, Consume,
           FinalRead, Prepend, EndParse, AppendStopped, Terminating, allVars, bufVars,
           ReaderMove
  <2>2. QED
    BY <1>1, <1>2, <1>3, <1>4, <1>5, <2>1

(* A read that never needed the temporary file, or whose last pass began   *)
(* with an empty block while the file works, delivers the stream's bytes   *)
(* in place and in order, and is short only at the end of the stream.      *)
THEOREM ReadsAreExact == BufferSpec => []FreshReadExact
<1>1. BufferSpec => []ReadInv
  BY BufferTypeCorrect, LogInvariant, EofInvariant, ReadInit, ReadNext, PTL DEF BufferSpec
<1>2. ReadInv => FreshReadExact
  BY DEF ReadInv, MemorySlice
<1>3. QED
  BY <1>1, <1>2, PTL
=============================================================================

------------------------------ MODULE HttpStream ------------------------------
(***************************************************************************)
(* HttpStream and HttpStreamCommon.  A call goes through stages, each an   *)
(* asynchronous operation whose handler the one thread of the event loop   *)
(* runs; the caller waits for a promise.  A Timer around each operation    *)
(* only raises a flag its handler looks at when the operation is over.     *)
(* Stages of queries are waited for with a limit instead, and given up.    *)
(*                                                                         *)
(* Handshakes, and the shutdowns of closeStream, are not asynchronous:     *)
(* they keep the thread that runs them, the event loop too, until the peer *)
(* answers.                                                                *)
(*                                                                         *)
(* `open` and `block` use the stream's own connection, Main; a partial     *)
(* read, a size query and a query of VK make one, named by their thread.   *)
(* An operation given up has been cancelled, but its handler has still to  *)
(* run, in the loop, while the caller shuts the connection down.  What it  *)
(* does to the locals of its call, and what it does when the call has      *)
(* returned, is undefined behaviour and left out.                          *)
(***************************************************************************)
EXTENDS Naturals, Sequences, FiniteSets

CONSTANTS
  Threads,
  Does,           \* [Threads -> SUBSET Kinds], what each thread calls
  Main,           \* the connection of the stream
  Nobody,
  Blocks,         \* the blocks of the stream's body
  NumSizeRetries,
  MaxCalls        \* bound: calls of each thread

Stages == [open  |-> <<"connect", "write", "header">>,
           block |-> <<"body">>,
           part  |-> <<"connect", "write", "header", "body">>,
           close |-> <<>>,
           size  |-> <<"connect", "timed", "timed">>,
           query |-> <<"connect", "write", "timed", "timed">>]

Kinds   == DOMAIN Stages
InTurn  == {"open", "block", "close"}   \* calls that FileProcessor takes turns for
Queries == {"size", "query"}

ASSUME StreamAssumption == /\ Does \in [Threads -> SUBSET Kinds]
                           /\ Main \notin Threads /\ Nobody \notin Threads \cup {Main}
                           /\ NumSizeRetries \in Nat /\ Blocks \in Nat
                           /\ MaxCalls \in [Threads -> Nat]

VARIABLES
  kind, stage, pc,  \* each thread's call, its stage, where the caller is
  op,       \* it has an operation in the network
  late,     \* the operation's Timer has expired
  promise,  \* "unset", or what the caller will find; the last call's result
  failures, \* failed attempts of a size query
  loop,     \* what keeps the event loop, or Nobody
  closed,   \* _closed
  up,       \* _stream: "no", a connection ("made"), or one with its header read ("open")
  left,     \* blocks of the body still to come; the parser is done at 0
  torn,     \* a partial read has failed, which closes the stream
  silent,   \* connections whose peer no longer answers
  cancelled, \* calls given up whose operation's handler has still to run
  calls

caller == <<kind, stage, pc, promise, failures, calls>>
stream == <<closed, up, left>>
vars   == <<caller, op, late, loop, stream, torn, silent, cancelled>>

Conns   == Threads \cup {Main}
Conn(t) == IF kind[t] \in InTurn THEN Main ELSE t       \* of its operation
Shuts(t) == IF kind[t] \in Queries THEN t ELSE Main      \* what the caller closes

Init ==
  /\ kind = [t \in Threads |-> "close"] /\ stage = [t \in Threads |-> 0]
  /\ pc = [t \in Threads |-> "idle"] /\ op = [t \in Threads |-> FALSE]
  /\ late = [t \in Threads |-> FALSE] /\ promise = [t \in Threads |-> "unset"]
  /\ failures = [t \in Threads |-> 0] /\ calls = [t \in Threads |-> 0]
  /\ loop = Nobody /\ closed = FALSE /\ up = "no" /\ left = 0
  /\ torn = FALSE /\ silent = {} /\ cancelled = {}
-----------------------------------------------------------------------------
(* The caller begins, and begins the next stage of a query.                *)
Goes(t, from, to) == pc[t] = from /\ pc' = [pc EXCEPT ![t] = to]

Starts(t, n) ==
  /\ stage' = [stage EXCEPT ![t] = n]
  /\ op' = [op EXCEPT ![t] = TRUE]
  /\ late' = [late EXCEPT ![t] = FALSE]

MayBegin(t, k) ==
  /\ k \in Does[t] /\ calls[t] < MaxCalls[t]
  /\ k \in InTurn => \A u \in Threads \ {t} : pc[u] = "idle" \/ kind[u] \notin InTurn
  /\ k = "open"  => up = "no" \/ closed
  /\ k = "block" => up = "open" /\ ~ closed /\ left > 0
  /\ k = "part"  => up = "open"

Begin(t, k) ==
  /\ Goes(t, "idle", IF k = "close" THEN "closing" ELSE "waiting")
  /\ MayBegin(t, k)
  /\ kind' = [kind EXCEPT ![t] = k]
  /\ calls' = [calls EXCEPT ![t] = @ + 1]
  /\ failures' = [failures EXCEPT ![t] = 0]
  /\ promise' = [promise EXCEPT ![t] = IF k = "close" THEN "ok" ELSE "unset"]
  /\ IF k = "close" THEN UNCHANGED <<stage, op, late, silent>>
     ELSE Starts(t, 1) /\ silent' = IF k = "block" THEN silent
                                    ELSE silent \ {IF k = "open" THEN Main ELSE t}
  /\ UNCHANGED <<loop, stream, torn, cancelled>>

NextStage(t) ==
  /\ pc[t] = "waiting" /\ kind[t] \in Queries
  /\ promise[t] = "ok" /\ stage[t] < Len(Stages[kind[t]])
  /\ Starts(t, stage[t] + 1)
  /\ promise' = [promise EXCEPT ![t] = "unset"]
  /\ UNCHANGED <<kind, pc, failures, calls, loop, stream, torn, silent, cancelled>>
-----------------------------------------------------------------------------
(* Timers, and peers.                                                      *)
Stage(t) == Stages[kind[t]][stage[t]]

\* Mutant: a timer that ends the call itself.
ExpiresAtOnce(t) ==
  /\ loop = Nobody /\ op[t] /\ Stage(t) # "timed" /\ ~ late[t]
  /\ late' = [late EXCEPT ![t] = TRUE]
  /\ promise' = [promise EXCEPT ![t] = "http"]
  /\ UNCHANGED <<kind, stage, pc, failures, calls, op, loop, stream, torn, silent, cancelled>>

Expires(t) ==
  /\ loop = Nobody /\ op[t] /\ Stage(t) # "timed" /\ ~ late[t]
  /\ late' = [late EXCEPT ![t] = TRUE]
  /\ UNCHANGED <<caller, op, loop, stream, torn, silent, cancelled>>

FallSilent(c) ==
  /\ silent = {} /\ silent' = {c}
  /\ UNCHANGED <<caller, op, late, loop, stream, torn, cancelled>>
-----------------------------------------------------------------------------
(* The handlers, run by the event loop when an operation is over, with its *)
(* outcome.  A promise satisfied twice throws out of the loop.             *)
Satisfy(t, r) ==
  promise' = [promise EXCEPT ![t] = IF @ = "unset" THEN r ELSE "future_error"]

(* A handler ends by satisfying the promise, perhaps after a shutdown that *)
(* keeps the loop.                                                         *)
Ends(t, r)       == Satisfy(t, r) /\ UNCHANGED loop
ShutsDown(t, r)  == loop' = [at |-> "shutdown", of |-> t, result |-> r]
                    /\ UNCHANGED promise

Fails(t, r) == IF Stage(t) = "write" \/ (kind[t] = "part" /\ Stage(t) # "connect")
               THEN ShutsDown(t, r) ELSE Ends(t, r)

Handles(t) ==
  /\ loop = Nobody /\ op[t]
  /\ UNCHANGED <<kind, pc, failures, calls, torn, silent, cancelled>>

Over(t) == /\ op' = [op EXCEPT ![t] = FALSE] /\ late' = [late EXCEPT ![t] = FALSE]
           /\ UNCHANGED stage

Errs(t) ==
  /\ Handles(t) /\ Over(t) /\ Stage(t) # "timed"
  /\ Fails(t, IF late[t] THEN "http" ELSE "network")
  /\ UNCHANGED stream

Connected(t) ==
  /\ Handles(t) /\ ~ late[t] /\ Over(t) /\ Stage(t) = "connect"
  /\ loop' = [at |-> "handshake", of |-> t, result |-> "ok"]
  /\ UNCHANGED <<promise, stream>>

Written(t) ==
  /\ Handles(t) /\ ~ late[t] /\ Stage(t) = "write"
  /\ IF kind[t] \in Queries THEN Over(t) /\ Ends(t, "ok")
     ELSE Starts(t, stage[t] + 1) /\ UNCHANGED <<promise, loop>>
  /\ UNCHANGED stream

(* close, called by a handler.                                             *)
LoopCloses(t, r) == IF closed THEN Ends(t, r) /\ UNCHANGED closed
                    ELSE ShutsDown(t, r) /\ closed' = TRUE

HeaderRead(t) ==
  /\ Handles(t) /\ ~ late[t] /\ Stage(t) = "header"
  /\ \/ /\ kind[t] = "open" /\ Over(t) /\ Ends(t, "ok")
        /\ left' = Blocks /\ up' = "open" /\ UNCHANGED closed
     \/ kind[t] = "open" /\ Over(t) /\ LoopCloses(t, "wrong") /\ UNCHANGED <<left, up>>
     \/ kind[t] = "part" /\ Starts(t, stage[t] + 1) /\ UNCHANGED <<promise, loop, stream>>
     \/ /\ Over(t) /\ UNCHANGED stream       \* a bad status
        /\ \E r \in {"http", "wrong"} : Fails(t, r) /\ (r = "wrong" => kind[t] = "part")

PartRead(t) ==
  /\ Handles(t) /\ ~ late[t] /\ Over(t) /\ kind[t] = "part" /\ Stage(t) = "body"
  /\ ShutsDown(t, "ok")
  /\ UNCHANGED stream

BlockRead(t) ==
  /\ Handles(t) /\ ~ late[t] /\ Over(t) /\ kind[t] = "block"
  /\ left' = left - 1
  /\ IF left' = 0 THEN LoopCloses(t, "ok") ELSE Ends(t, "ok") /\ UNCHANGED closed
  /\ UNCHANGED up

(* An operation waited for by a future; an answer may have a bad status.   *)
TimedOver(t) ==
  /\ Handles(t) /\ Over(t) /\ Stage(t) = "timed"
  /\ \E r \in {"ok", "network", "http"} : Ends(t, r) /\ (r = "http" => kind[t] = "query" /\ stage[t] = 3)
  /\ UNCHANGED stream

Handle(t) == \/ Errs(t)
             \/ Connected(t) \/ Written(t) \/ HeaderRead(t)
             \/ PartRead(t) \/ BlockRead(t) \/ TimedOver(t)

HandshakeEnds ==
  /\ loop # Nobody /\ loop.at = "handshake" /\ loop' = Nobody
  /\ LET t == loop.of
     IN  \/ Satisfy(t, "network") /\ UNCHANGED <<stage, op, late, up>>
         \/ /\ kind[t] \in Queries
            /\ Satisfy(t, "ok") /\ UNCHANGED <<stage, op, late, up>>
         \/ /\ kind[t] \notin Queries
            /\ Starts(t, stage[t] + 1)
            /\ up' = IF kind[t] = "open" THEN "made" ELSE up
            /\ UNCHANGED promise
  /\ UNCHANGED <<kind, pc, failures, calls, closed, left, torn, silent, cancelled>>

\* Mutant: a shutdown in the loop forgets whom it was for.
ShutdownEndsMute ==
  /\ loop # Nobody /\ loop.at = "shutdown" /\ loop' = Nobody
  /\ UNCHANGED <<caller, op, late, stream, torn, silent, cancelled>>

ShutdownEnds ==
  /\ loop # Nobody /\ loop.at = "shutdown" /\ loop' = Nobody
  /\ Satisfy(loop.of, loop.result)
  /\ UNCHANGED <<kind, stage, pc, failures, calls, op, late, stream, torn, silent, cancelled>>
-----------------------------------------------------------------------------
(* The caller goes on.  A query closes its connection after its last stage *)
(* and after an error of the network; the stream is closed by an exception *)
(* other than the wrong size, and by FileProcessor when a part failed.     *)
Succeeds(t) ==
  /\ Goes(t, "waiting", IF kind[t] \in Queries THEN "shutting" ELSE "idle")
  /\ promise[t] = "ok" /\ (kind[t] \in Queries => stage[t] = Len(Stages[kind[t]]))
  /\ UNCHANGED <<kind, stage, promise, failures, calls, op, late, loop, stream, torn, silent, cancelled>>

Throws(t) ==
  /\ promise[t] \notin {"unset", "ok"}
  /\ Goes(t, "waiting", CASE kind[t] \in Queries -> IF promise[t] = "network" THEN "shutting" ELSE "idle"
                          [] kind[t] = "open" /\ promise[t] = "wrong" -> "idle"
                          [] OTHER -> "closing")
  /\ torn' = (torn \/ kind[t] = "part")
  /\ UNCHANGED <<kind, stage, promise, failures, calls, op, late, loop, stream, silent, cancelled>>

\* Mutant: the operation given up is not cancelled.
GiveUpOnly(t) ==
  /\ Goes(t, "waiting", "shutting")
  /\ op[t] /\ Stage(t) = "timed"
  /\ promise' = [promise EXCEPT ![t] = "http"]
  /\ UNCHANGED <<kind, stage, failures, calls, op, late, loop, stream, torn, silent, cancelled>>

(* The caller's wait has timed out: it cancels the operation and goes on.  *)
GiveUp(t) ==
  /\ Goes(t, "waiting", "shutting")
  /\ op[t] /\ Stage(t) = "timed"
  /\ op' = [op EXCEPT ![t] = FALSE]
  /\ cancelled' = cancelled \cup {t}
  /\ promise' = [promise EXCEPT ![t] = "http"]
  /\ UNCHANGED <<kind, stage, failures, calls, late, loop, stream, torn, silent>>

(* The handler of a cancelled operation runs.                              *)
Aborted(t) ==
  /\ loop = Nobody /\ t \in cancelled
  /\ cancelled' = cancelled \ {t}
  /\ UNCHANGED <<caller, op, late, loop, stream, torn, silent>>

(* close, called by the caller: the flag is tested, then set.              *)
TestClosed(t) ==
  /\ Goes(t, "closing", IF closed THEN "idle" ELSE "setting")
  /\ UNCHANGED <<kind, stage, promise, failures, calls, op, late, loop, stream, torn, silent, cancelled>>

SetClosed(t) ==
  /\ Goes(t, "setting", IF up # "no" THEN "shutting" ELSE "idle")
  /\ closed' = TRUE
  /\ UNCHANGED <<kind, stage, promise, failures, calls, op, late, loop, up, left, torn, silent, cancelled>>

\* Mutant: the counter compared as in `while (i <= retries)` after its increment.
LastFailureLate(t) == failures[t] = NumSizeRetries + 1

LastFailure(t) == failures[t] = NumSizeRetries

Shut(t) ==
  /\ pc[t] = "shutting"
  /\ IF kind[t] = "size" /\ promise[t] = "network"
     THEN /\ failures' = [failures EXCEPT ![t] = @ + 1]
          /\ IF LastFailure(t)
             THEN Goes(t, "shutting", "idle") /\ UNCHANGED <<stage, op, late, promise, silent>>
             ELSE /\ Goes(t, "shutting", "waiting") /\ Starts(t, 1)
                  /\ promise' = [promise EXCEPT ![t] = "unset"]
                  /\ silent' = silent \ {t}
     ELSE Goes(t, "shutting", "idle") /\ UNCHANGED <<stage, op, late, promise, failures, silent>>
  /\ cancelled' = cancelled \ {t}
  /\ UNCHANGED <<kind, calls, loop, stream, torn>>
-----------------------------------------------------------------------------
Call(t)   == \/ NextStage(t) \/ Succeeds(t) \/ Throws(t) \/ GiveUp(t)
             \/ TestClosed(t) \/ SetClosed(t) \/ Shut(t)
Stopped   == /\ \/ silent # {}
                \/ \A t \in Threads : pc[t] = "idle" /\ \A k \in Kinds : ~ MayBegin(t, k)
             /\ UNCHANGED vars

Next == \/ \E t \in Threads : \/ \E k \in Kinds : Begin(t, k)
                              \/ Expires(t) \/ Handle(t) \/ Call(t) \/ Aborted(t)
        \/ HandshakeEnds \/ ShutdownEnds
        \/ \E c \in Conns : FallSilent(c)
        \/ Stopped

Spec == Init /\ [][Next]_vars

(* A peer that has not fallen silent answers.  No fairness of timers.      *)
LoopConn == IF loop = Nobody THEN Nobody ELSE Conn(loop.of)

FairSpec ==
  /\ Spec
  /\ \A t \in Threads : /\ WF_vars(Handle(t) /\ Conn(t) \notin silent)
                        /\ WF_vars(pc[t] # "shutting" /\ Call(t))
                        /\ WF_vars(Shut(t) /\ Shuts(t) \notin silent)
  /\ WF_vars((HandshakeEnds \/ ShutdownEnds) /\ LoopConn \notin silent)
-----------------------------------------------------------------------------
TypeOK ==
  /\ kind \in [Threads -> Kinds] /\ stage \in [Threads -> 0 .. 4]
  /\ pc \in [Threads -> {"idle", "waiting", "closing", "setting", "shutting"}]
  /\ op \in [Threads -> BOOLEAN]
  /\ late \in [Threads -> BOOLEAN] /\ failures \in [Threads -> Nat]
  /\ promise \in [Threads -> {"unset", "ok", "network", "http", "wrong"}]
  /\ loop \in {Nobody} \cup [at : {"handshake", "shutdown"}, of : Threads,
                              result : {"ok", "network", "http", "wrong"}]
  /\ closed \in BOOLEAN /\ up \in {"no", "made", "open"} /\ left \in 0 .. Blocks /\ torn \in BOOLEAN
  /\ silent \subseteq Conns /\ cancelled \subseteq Threads
  /\ calls \in [Threads -> Nat] /\ \A t \in Threads : calls[t] \in 0 .. MaxCalls[t]

(* A handler that is still to run, or that keeps the loop, finds the       *)
(* promise of its call, a local of a caller that waits for it, and         *)
(* unsatisfied: what expires or fails on the way ends a call once.  (An    *)
(* operation given up on a timeout is the exception, and is in cancelled.) *)
PromiseOutlivesOperation ==
  \A t \in Threads :
    /\ op[t] \/ (loop # Nobody /\ loop.of = t)
         => pc[t] = "waiting" /\ promise[t] = "unset"
    /\ promise[t] # "future_error"
    /\ op[t] => (loop = Nobody \/ loop.of # t)

(* Operations on a connection and shutdowns of it that are in progress; a  *)
(* cancelled operation is one until its handler has run.                   *)
Uses(c) ==
  {<<t, "operation">> : t \in {u \in Threads : op[u] /\ Conn(u) = c}}
  \cup {<<t, "caller">> : t \in {u \in Threads : pc[u] = "shutting" /\ Shuts(u) = c}}
  \cup {<<t, "cancelled">> : t \in {u \in cancelled : Conn(u) = c}}
  \cup {<<u, "loop">> : u \in IF LoopConn = c THEN {loop.of} ELSE {}}

(* No connection is shut down while an operation or another shutdown of it *)
(* is in progress, which the SSL stream does not allow, with two           *)
(* exceptions: once a partial read has failed, it closes the stream others *)
(* may be reading, or closing; and a query that has given an operation up  *)
(* shuts its connection down while the cancelled operation, and no other,  *)
(* may still use it.                                                       *)
ShutdownsAlone ==
  \A c \in Conns : \/ Cardinality(Uses(c)) <= 1
                   \/ c = Main /\ torn
                   \/ Uses(c) = {<<c, "cancelled">>, <<c, "caller">>}

(* A size query ends with an error of the network only after               *)
(* NumSizeRetries + 1 attempts; an attempt whose limit has passed is the   *)
(* last one.                                                               *)
SizeQueryGivesUp ==
  \A t \in Threads :
    /\ failures[t] <= NumSizeRetries + 1
    /\ pc[t] = "idle" /\ kind[t] = "size" =>
         (promise[t] = "network") = (failures[t] = NumSizeRetries + 1)

(* A call comes back, whatever other calls do and whichever timers expire, *)
(* unless a peer of its own has fallen silent, or one that has keeps the   *)
(* thread of the event loop in a handshake or a shutdown.                  *)
CallEndsUnlessSilent ==
  \A t \in Threads :
    pc[t] # "idle" ~> \/ pc[t] = "idle" \/ {Conn(t), Shuts(t)} \cap silent # {}
                      \/ LoopConn \in silent
=============================================================================

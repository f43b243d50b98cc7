------------------------------ MODULE SpinPool ------------------------------
(***************************************************************************)
(* The spin-barrier pool of crates/larql-compute/src/cpu/spin_pool.rs: the *)
(* workers poll an epoch, and a call publishes its closure in shared       *)
(* fields, bumps the epoch, takes its own share of the chunks as           *)
(* participant 0 and waits until the chunks have been counted.             *)
(*                                                                         *)
(* Every load and store of an atomic is a step of its own.  A closure is   *)
(* the number of its call.  Callers take turns under dispatch_lock, so one *)
(* point, pc[0], is enough for all of them.                                *)
(***************************************************************************)
EXTENDS Integers

CONSTANTS
  N,          \* n_threads: the participants, of which N - 1 are workers
  Widths,     \* the numbers of chunks of the calls
  Panics,     \* the calls whose bodies may panic, or dispatch themselves
  MaxCalls    \* the bound of a run of TLC

ASSUME SpinAssumption ==
  /\ N \in Nat \ {0, 1}
  /\ Widths \subseteq Nat \ {0}
  /\ Panics \subseteq Nat
  /\ MaxCalls \in Nat

Workers == 1 .. N - 1
Participants == 0 .. N - 1
Calls == 1 .. MaxCalls

VARIABLES
  epoch, data, tramp, num, completed, panicked, payload, shutdown, \* Shared
  pc, seen,             \* where each participant is, and the epoch it has seen
  myNum, myTramp, myData, c,       \* its locals in run_chunks
  inBody,               \* its IN_BODY
  call,                 \* the number of the last call
  width,                \* the chunks of each call
  outcome,              \* Pending, Done, or the call whose panic was raised
  begun,                \* the chunks of each call that were begun
  late                  \* the workers on their way when the last call took the lock

shared == <<epoch, data, tramp, num, completed, panicked, payload, shutdown>>
locals == <<myNum, myTramp, myData, c>>
history == <<call, width, outcome, begun, late>>
vars == <<shared, pc, seen, locals, inBody, history>>

Null == 0
Pending == -1
Done == 0

Publishing == {"store_data", "store_tramp", "store_num", "store_completed", "store_panicked", "bump"}
InChunk == {"body", "nested", "tail"}
Running == {"num", "tramp", "data", "call", "swap", "payload", "count"} \cup InChunk
Points == Publishing \cup Running
            \cup {"free", "barrier", "check", "take", "drop", "join", "dropped",
                  "wait", "awake", "exit"}

TypeOK ==
  /\ epoch \in Nat /\ num \in Nat /\ completed \in Nat
  /\ data \in Calls \cup {Null} /\ tramp \in Calls \cup {Null} /\ payload \in Calls \cup {Null}
  /\ panicked \in BOOLEAN /\ shutdown \in BOOLEAN
  /\ pc \in [Participants -> Points]
  /\ seen \in [Workers -> Nat]
  /\ myNum \in [Participants -> Nat] /\ c \in [Participants -> Nat]
  /\ myTramp \in [Participants -> Calls \cup {Null}]
  /\ myData \in [Participants -> Calls \cup {Null}]
  /\ inBody \in [Participants -> BOOLEAN]
  /\ call \in Calls \cup {0}
  /\ width \in [Calls -> Widths \cup {0}]
  /\ outcome \in [Calls -> Calls \cup {Pending, Done}]
  /\ begun \in [Calls -> SUBSET Nat]
  /\ late \subseteq Workers

Init ==
  /\ epoch = 0 /\ data = Null /\ tramp = Null /\ num = 0 /\ completed = 0
  /\ panicked = FALSE /\ payload = Null /\ shutdown = FALSE
  /\ pc = [i \in Participants |-> IF i = 0 THEN "free" ELSE "wait"]
  /\ seen = [i \in Workers |-> 0]
  /\ myNum = [i \in Participants |-> 0] /\ c = [i \in Participants |-> 0]
  /\ myTramp = [i \in Participants |-> Null] /\ myData = [i \in Participants |-> Null]
  /\ inBody = [i \in Participants |-> FALSE]
  /\ call = 0
  /\ width = [k \in Calls |-> 0]
  /\ outcome = [k \in Calls |-> Pending]
  /\ begun = [k \in Calls |-> {}]
  /\ late = {}

Step(i, at, to) == pc[i] = at /\ pc' = [pc EXCEPT ![i] = to]

-----------------------------------------------------------------------------
(* for_each_chunk, up to the participation *)

\* Worker i has not finished with the last epoch.
OnTheWay(i) == pc[i] # "wait" \/ seen[i] # epoch

Lock ==
  /\ Step(0, "free", "store_data")
  /\ call < MaxCalls /\ call' = call + 1
  /\ \E w \in Widths : width' = [width EXCEPT ![call'] = w]
  /\ late' = {i \in Workers : OnTheWay(i)}
  /\ UNCHANGED <<shared, seen, locals, inBody, outcome, begun>>

StoreData ==
  /\ Step(0, "store_data", "store_tramp") /\ data' = call
  /\ UNCHANGED <<epoch, tramp, num, completed, panicked, payload, shutdown, seen, locals, inBody,
                 history>>

StoreTramp ==
  /\ Step(0, "store_tramp", "store_num") /\ tramp' = call
  /\ UNCHANGED <<epoch, data, num, completed, panicked, payload, shutdown, seen, locals, inBody,
                 history>>

StoreNum ==
  /\ Step(0, "store_num", "store_completed") /\ num' = width[call]
  /\ UNCHANGED <<epoch, data, tramp, completed, panicked, payload, shutdown, seen, locals, inBody,
                 history>>

StoreCompleted ==
  /\ Step(0, "store_completed", "store_panicked") /\ completed' = 0
  /\ UNCHANGED <<epoch, data, tramp, num, panicked, payload, shutdown, seen, locals, inBody,
                 history>>

StorePanicked ==
  /\ Step(0, "store_panicked", "bump") /\ panicked' = FALSE
  /\ UNCHANGED <<epoch, data, tramp, num, completed, payload, shutdown, seen, locals, inBody,
                 history>>

Bump ==
  /\ Step(0, "bump", "num") /\ epoch' = epoch + 1
  /\ UNCHANGED <<data, tramp, num, completed, panicked, payload, shutdown, seen, locals, inBody,
                 history>>

-----------------------------------------------------------------------------
(* run_chunks *)

Finished(i) == IF i = 0 THEN "barrier" ELSE "wait"

LoadNum(i) ==
  /\ Step(i, "num", "tramp") /\ myNum' = [myNum EXCEPT ![i] = num]
  /\ UNCHANGED <<shared, seen, myTramp, myData, c, inBody, history>>

LoadTramp(i) ==
  /\ Step(i, "tramp", IF tramp = Null \/ myNum[i] = 0 THEN Finished(i) ELSE "data")
  /\ myTramp' = [myTramp EXCEPT ![i] = tramp]
  /\ UNCHANGED <<shared, seen, myNum, myData, c, inBody, history>>

LoadData(i) ==
  /\ Step(i, "data", IF i < myNum[i] THEN "call" ELSE Finished(i))
  /\ myData' = [myData EXCEPT ![i] = data]
  /\ c' = [c EXCEPT ![i] = i]
  /\ UNCHANGED <<shared, seen, myNum, myTramp, inBody, history>>

\* Mutant of CallBody: IN_BODY is not set.
CallBodyUnmarked(i) ==
  /\ Step(i, "call", "body")
  /\ begun' = [begun EXCEPT ![myData[i]] = @ \cup {c[i]}]
  /\ UNCHANGED <<shared, seen, locals, inBody, call, width, outcome, late>>

CallBody(i) ==
  /\ Step(i, "call", "body")
  /\ inBody' = [inBody EXCEPT ![i] = TRUE]
  /\ begun' = [begun EXCEPT ![myData[i]] = @ \cup {c[i]}]
  /\ UNCHANGED <<shared, seen, locals, call, width, outcome, late>>

\* The body calls for_each_chunk on the same pool: serial within a body, else
\* it waits for dispatch_lock.
CallNested(i) ==
  /\ myData[i] \in Panics /\ Step(i, "body", "nested")
  /\ UNCHANGED <<shared, seen, locals, inBody, history>>

RunNested(i) ==
  /\ inBody[i] /\ Step(i, "nested", "tail")
  /\ UNCHANGED <<shared, seen, locals, inBody, history>>

ReturnBody(i) ==
  /\ pc[i] \in {"body", "tail"}
  /\ \E to \in {"count"} \cup (IF myData[i] \in Panics THEN {"swap"} ELSE {}) : pc' = [pc EXCEPT ![i] = to]
  /\ inBody' = [inBody EXCEPT ![i] = FALSE]
  /\ UNCHANGED <<shared, seen, locals, history>>

\* Mutant of SwapPanicked: the payload is dropped with the unwound frame.
SwapPanickedLost(i) ==
  /\ Step(i, "swap", "count") /\ panicked' = TRUE
  /\ UNCHANGED <<epoch, data, tramp, num, completed, payload, shutdown, seen, locals, inBody,
                 history>>

SwapPanicked(i) ==
  /\ Step(i, "swap", IF panicked THEN "count" ELSE "payload")
  /\ panicked' = TRUE
  /\ UNCHANGED <<epoch, data, tramp, num, completed, payload, shutdown, seen, locals, inBody,
                 history>>

KeepPayload(i) ==
  /\ Step(i, "payload", "count") /\ payload' = myData[i]
  /\ UNCHANGED <<epoch, data, tramp, num, completed, panicked, shutdown, seen, locals, inBody,
                 history>>

Count(i) ==
  /\ Step(i, "count", IF c[i] + N < myNum[i] THEN "call" ELSE Finished(i))
  /\ completed' = completed + 1
  /\ c' = [c EXCEPT ![i] = @ + N]
  /\ UNCHANGED <<epoch, data, tramp, num, panicked, payload, shutdown, seen, myNum, myTramp,
                 myData, inBody, history>>

RunChunks(i) ==
  \/ LoadNum(i) \/ LoadTramp(i) \/ LoadData(i) \/ CallBody(i) \/ CallNested(i) \/ RunNested(i)
  \/ ReturnBody(i) \/ SwapPanicked(i) \/ KeepPayload(i) \/ Count(i)

-----------------------------------------------------------------------------
(* for_each_chunk, from the barrier on *)

Barrier ==
  /\ Step(0, "barrier", "check") /\ completed >= width[call]
  /\ UNCHANGED <<shared, seen, locals, inBody, history>>

CheckPanicked ==
  /\ Step(0, "check", IF panicked THEN "take" ELSE "free")
  /\ outcome' = IF panicked THEN outcome ELSE [outcome EXCEPT ![call] = Done]
  /\ UNCHANGED <<shared, seen, locals, inBody, call, width, begun, late>>

\* Without a payload the call just returns.
TakePayload ==
  /\ Step(0, "take", "free")
  /\ payload' = Null
  /\ outcome' = [outcome EXCEPT ![call] = IF payload = Null THEN Done ELSE payload]
  /\ UNCHANGED <<epoch, data, tramp, num, completed, panicked, shutdown, seen, locals, inBody,
                 call, width, begun, late>>

Caller ==
  \/ StoreData \/ StoreTramp \/ StoreNum \/ StoreCompleted \/ StorePanicked \/ Bump
  \/ Barrier \/ CheckPanicked \/ TakePayload

-----------------------------------------------------------------------------
(* worker_loop, and the end of the pool *)

Wake(i) ==
  /\ epoch # seen[i] /\ Step(i, "wait", "awake")
  /\ seen' = [seen EXCEPT ![i] = epoch]
  /\ UNCHANGED <<shared, locals, inBody, history>>

\* spin_loop, yield_now and park_timeout only come back to these loads.
WaitEnds(i) ==
  /\ epoch = seen[i] /\ shutdown /\ Step(i, "wait", "exit")
  /\ UNCHANGED <<shared, seen, locals, inBody, history>>

Begin(i) ==
  /\ Step(i, "awake", IF shutdown THEN "exit" ELSE "num")
  /\ UNCHANGED <<shared, seen, locals, inBody, history>>

Worker(i) == Wake(i) \/ WaitEnds(i) \/ Begin(i) \/ RunChunks(i)

Drop ==
  /\ Step(0, "free", "drop") /\ shutdown' = TRUE
  /\ UNCHANGED <<epoch, data, tramp, num, completed, panicked, payload, seen, locals, inBody,
                 history>>

DropBump ==
  /\ Step(0, "drop", "join") /\ epoch' = epoch + 1
  /\ UNCHANGED <<data, tramp, num, completed, panicked, payload, shutdown, seen, locals, inBody,
                 history>>

Join ==
  /\ \A i \in Workers : pc[i] = "exit"
  /\ Step(0, "join", "dropped")
  /\ UNCHANGED <<shared, seen, locals, inBody, history>>

Next ==
  \/ Lock \/ Caller \/ RunChunks(0) \/ Drop \/ DropBump \/ Join
  \/ \E i \in Workers : Worker(i)

Spec == Init /\ [][Next]_vars

\* The system runs every thread, and a body ends.
FairSpec ==
  /\ Spec
  /\ WF_vars(Caller \/ RunChunks(0) \/ DropBump \/ Join)
  /\ \A i \in Workers : WF_vars(Worker(i))

-----------------------------------------------------------------------------
(* Properties *)

\* The safety comment of trampoline: a thread that runs a chunk runs it with the
\* closure of a call that has not returned, through that closure's own
\* trampoline.  A call to which nobody comes late (late = {}) keeps it.
ClosureAlive ==
  late = {} => \A i \in Participants : pc[i] \in InChunk =>
                 outcome[myData[i]] = Pending /\ myTramp[i] = myData[i]

OnceOnly ==
  \A i \in Participants : pc[i] = "call" /\ pc'[i] = "body" => c[i] \notin begun[myData[i]]

\* What the comment on completed says of any call: each chunk is run once.  A
\* worker that had no chunk in the call before, and is late, runs one twice.
EachChunkOnce == [][OnceOnly]_vars

\* What is left of it: nobody comes late to a call unless an earlier one had fewer
\* chunks than there are threads.
WideBefore == \A k \in Calls : k < call => width[k] >= N

NobodyLate == WideBefore => late = {}

\* The call as its caller sees it: the chunks not begun, the chunks in a body,
\* whether a chunk has panicked, and how the call ended.
Todo == IF call = 0 THEN {} ELSE (0 .. width[call] - 1) \ begun[call]

InBodies == {c[i] : i \in {j \in Participants : pc[j] \in InChunk}}

Failed ==
  /\ call # 0 /\ pc[0] \notin Publishing
  /\ panicked \/ \E i \in Participants : pc[i] \in {"swap", "payload"}

Result ==
  IF call = 0 THEN "ok"
  ELSE IF outcome[call] = Pending THEN "busy"
  ELSE IF outcome[call] = Done THEN "ok" ELSE "raised"

ForEach ==
  INSTANCE ForEachChunk WITH
    todo <- Todo, running <- InBodies, failed <- Failed, result <- Result

\* The pool does for its callers what a serial loop does (for_each_chunk), in
\* every call to which nobody comes late, of whatever width; and nobody does
\* until a call has been narrower than the pool.
RunsLikeALoop ==
  /\ ForEach!Init
  /\ [][late' = {} => ForEach!Next]_ForEach!abstract
  /\ []NobodyLate

\* A call that has the lock returns, and a body that dispatches does not wait
\* for itself (the barrier of for_each_chunk, IN_BODY); and the drop of a pool
\* ends, as no worker sleeps through it (Drop of SpinPool).
CallsReturn ==
  /\ \A k \in Calls : call = k ~> outcome[k] # Pending
  /\ pc[0] = "drop" ~> pc[0] = "dropped"
==============================================================================

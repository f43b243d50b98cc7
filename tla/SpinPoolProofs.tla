--------------------------- MODULE SpinPoolProofs ---------------------------
(***************************************************************************)
(* Proofs about SpinPool, for any number of threads, chunks and calls: in  *)
(* a call to which nobody comes late the barrier of for_each_chunk is      *)
(* sound and the pool implements ForEachChunk, and nobody is late before a *)
(* call narrower than the pool.                                            *)
(***************************************************************************)
EXTENDS SpinPool, FiniteSetTheorems, TLAPS

\* Between the bump of a call and its barrier.
Open == pc[0] \in Running \cup {"barrier"}

\* Behind the barrier, and before the next call.
Closing == pc[0] \in {"check", "take", "free"}

\* Chunk c[i] has been begun by i and is not counted.
Flying == InChunk \cup {"swap", "payload", "count"}

Loading == {"num", "tramp", "data"}

Claimed == {c[i] : i \in {j \in Participants : pc[j] \in Flying}}

\* The chunks of participant i in any call.
Own(i) == {i + m * N : m \in Nat}

\* Participant i has run none of its chunks of the open call.
Before(i) ==
  \/ pc[i] \in Loading
  \/ i # 0 /\ (pc[i] = "awake" \/ (pc[i] = "wait" /\ seen[i] # epoch))

\* Participant i has no chunk in the last call.
NoChunk(i) == call # 0 /\ i >= width[call]

\* What holds whoever comes late: where threads can be, what the caller has
\* published, and that the calls to come are untouched.
BaseInv ==
  /\ pc[0] \notin {"wait", "awake", "exit"}
  /\ shutdown <=> pc[0] \in {"drop", "join", "dropped"}
  /\ \A i \in Workers : /\ pc[i] \in Running \cup {"wait", "awake", "exit"}
                        /\ pc[i] = "exit" => shutdown
  /\ pc[0] \in Publishing \cup {"check", "take"} \/ Open => call # 0 /\ outcome[call] = Pending
  /\ pc[0] \in {"free", "drop", "join", "dropped"} /\ call # 0 => outcome[call] # Pending
  /\ \A k \in Calls : k <= call => width[k] \in Widths
  /\ \A k \in Calls : k > call => outcome[k] = Pending /\ begun[k] = {}
  /\ data <= call /\ \A i \in Participants : myData[i] <= call
  /\ pc[0] \in Publishing \ {"store_data"} \/ (pc[0] \notin Publishing /\ call # 0) => data = call
  /\ \/ pc[0] \in {"store_num", "store_completed", "store_panicked", "bump"}
     \/ pc[0] \notin Publishing /\ call # 0
     => tramp = call
  /\ \/ pc[0] \in {"store_completed", "store_panicked", "bump"}
     \/ pc[0] \notin Publishing /\ call # 0
     => num = width[call]
  /\ pc[0] = "take" => panicked

\* Where the workers can be if nobody came late: every one waits while a call is
\* published, and behind the barrier only those without a chunk are on their way.
PlaceInv ==
  /\ pc[0] \in Publishing => \A i \in Workers : ~OnTheWay(i)
  /\ Open => \A i \in Workers : pc[i] # "wait" => seen[i] = epoch
  /\ Closing => \A i \in Workers :
       ~OnTheWay(i) \/ (NoChunk(i) /\ pc[i] \in Loading \cup {"wait", "awake"})
  /\ shutdown => \A i \in Workers :
       pc[i] \in {"wait", "awake", "exit"} \/ (NoChunk(i) /\ pc[i] \in Loading)

\* What has been done of the call when it is published, and when it is over.
DoneInv ==
  /\ pc[0] \in Publishing => begun[call] = {}
  /\ pc[0] \in {"check", "take"} => begun[call] = 0 .. width[call] - 1
  /\ pc[0] \in {"store_panicked", "bump"} => completed = 0
  /\ pc[0] = "bump" => ~panicked

\* What each participant has loaded, and where it is among its own chunks.
LocalOf(i) ==
  /\ pc[i] \in Running \ {"num"} => myNum[i] = width[call]
  /\ pc[i] \in {"data", "call"} \cup Flying => myTramp[i] = call
  /\ pc[i] \in {"call"} \cup Flying =>
       myData[i] = call /\ c[i] \in Own(i) /\ c[i] < width[call]

LocalInv == pc[0] \notin Publishing => \A i \in Participants : LocalOf(i)

\* Participant i goes through its chunks in order.
OrderOf(i) ==
  \A x \in begun[call] \cap Own(i) :
    /\ ~Before(i)
    /\ pc[i] = "call" => x < c[i]
    /\ pc[i] \in Flying => x <= c[i]

OrderInv == Open => \A i \in Participants : OrderOf(i)

\* completed is the number of the chunks begun and no longer in flight.
CountInv ==
  Open => /\ begun[call] \subseteq 0 .. width[call] - 1
          /\ Claimed \subseteq begun[call]
          /\ completed = Cardinality(begun[call] \ Claimed)

\* The first panic of a call has left its payload, or is about to.
PanicInv ==
  Open \/ pc[0] \in {"check", "take"} =>
    /\ \A i \in Participants : pc[i] = "payload" => panicked
    /\ panicked => payload = call \/ \E i \in Participants : pc[i] = "payload"

GoodInv == PlaceInv /\ DoneInv /\ LocalInv /\ OrderInv /\ CountInv /\ PanicInv

SpinInv == BaseInv /\ (late = {} => GoodInv)

-----------------------------------------------------------------------------
\* The participants are the caller and the workers.
LEMMA Who == Participants = Workers \cup {0} /\ 0 \notin Workers /\ Participants \subseteq Nat
BY SpinAssumption DEF Participants, Workers

\* The steps, one by one.
LEMMA Steps ==
  ASSUME Next
  PROVE  \/ Lock \/ StoreData \/ StoreTramp \/ StoreNum \/ StoreCompleted \/ StorePanicked \/ Bump
         \/ Barrier \/ CheckPanicked \/ TakePayload \/ Drop \/ DropBump \/ Join
         \/ \E i \in Workers : Wake(i) \/ WaitEnds(i) \/ Begin(i)
         \/ \E i \in Participants : RunChunks(i)
BY Who DEF Next, Caller, Worker

\* With TypeOK, what makes it inductive: a call that publishes has a number.
TypeInv == TypeOK /\ (pc[0] \in Publishing => call # 0)

\* The types hold at the start.
LEMMA TypeInit == Init => TypeInv
<1> SUFFICES ASSUME Init PROVE TypeInv
  OBVIOUS
<1>1. pc \in [Participants -> Points] /\ pc[0] \notin Publishing
  BY SpinAssumption DEF Init, Points, Participants, Publishing
<1> QED  BY <1>1 DEF Init, TypeInv, TypeOK, Null, Pending

\* A step of the caller keeps the types.
LEMMA TypeCaller ==
  ASSUME TypeInv,
         \/ Lock \/ StoreData \/ StoreTramp \/ StoreNum \/ StoreCompleted \/ StorePanicked \/ Bump
         \/ Barrier \/ CheckPanicked \/ TakePayload \/ Drop \/ DropBump \/ Join
  PROVE  TypeInv'
<1> USE SpinAssumption DEF TypeInv, TypeOK, Step, Points, Running, Publishing, Participants, Null,
        shared, locals, history
<1>1. CASE Lock
  <2>1. call' \in Calls /\ call' # 0
    BY <1>1 DEF Lock, Calls
  <2> QED  BY <1>1, <2>1 DEF Lock
<1>2. CASE StoreData
  BY <1>2 DEF StoreData
<1>3. CASE StoreTramp
  BY <1>3 DEF StoreTramp
<1>4. CASE StoreNum
  <2>1. width[call] \in Nat
    BY <1>4 DEF StoreNum
  <2> QED  BY <1>4, <2>1 DEF StoreNum
<1>5. CASE StoreCompleted
  BY <1>5 DEF StoreCompleted
<1>6. CASE StorePanicked
  BY <1>6 DEF StorePanicked
<1>7. CASE Bump
  BY <1>7 DEF Bump
<1>8. CASE Barrier \/ Join
  BY <1>8 DEF Barrier, Join
<1>9. CASE CheckPanicked
  <2>1. outcome' \in [Calls -> Calls \cup {Pending, Done}]
    BY <1>9 DEF CheckPanicked
  <2> QED  BY <1>9, <2>1 DEF CheckPanicked
<1>10. CASE TakePayload
  <2>1. outcome' \in [Calls -> Calls \cup {Pending, Done}]
    BY <1>10 DEF TakePayload
  <2> QED  BY <1>10, <2>1 DEF TakePayload
<1>11. CASE Drop
  BY <1>11 DEF Drop
<1>12. CASE DropBump
  BY <1>12 DEF DropBump
<1> QED  BY <1>1, <1>2, <1>3, <1>4, <1>5, <1>6, <1>7, <1>8, <1>9, <1>10, <1>11, <1>12

\* So does a step of a worker's loop.
LEMMA TypeWorker ==
  ASSUME TypeInv, NEW i \in Workers, Wake(i) \/ WaitEnds(i) \/ Begin(i)
  PROVE  TypeInv'
<1> USE SpinAssumption DEF TypeInv, TypeOK, Step, Points, Running, Publishing, Participants,
        Workers, shared, locals, history
<1>1. CASE Wake(i)
  <2>1. seen' \in [Workers -> Nat] /\ pc' \in [Participants -> Points]
    BY <1>1 DEF Wake
  <2>2. pc'[0] = pc[0]
    BY <1>1 DEF Wake
  <2> QED  BY <1>1, <2>1, <2>2 DEF Wake
<1>2. CASE WaitEnds(i)
  BY <1>2 DEF WaitEnds
<1>3. CASE Begin(i)
  BY <1>3 DEF Begin
<1> QED  BY <1>1, <1>2, <1>3

\* And a step of run_chunks.
LEMMA TypeRunChunks ==
  ASSUME TypeInv, NEW i \in Participants, RunChunks(i)
  PROVE  TypeInv'
<1> USE SpinAssumption DEF TypeInv, TypeOK, Step, Points, Running, InChunk, Publishing,
        Participants, Finished, shared, locals, history
<1>1. CASE LoadNum(i)
  BY <1>1 DEF LoadNum
<1>2. CASE LoadTramp(i)
  BY <1>2 DEF LoadTramp
<1>3. CASE LoadData(i)
  BY <1>3 DEF LoadData
<1>4. CASE CallBody(i)
  <2>1. begun' \in [Calls -> SUBSET Nat]
    <3>1. c[i] \in Nat
      OBVIOUS
    <3> QED  BY <1>4, <3>1 DEF CallBody
  <2> QED  BY <1>4, <2>1 DEF CallBody
<1>5. CASE CallNested(i)
  BY <1>5 DEF CallNested
<1>6. CASE RunNested(i)
  BY <1>6 DEF RunNested
<1>7. CASE ReturnBody(i)
  BY <1>7 DEF ReturnBody
<1>8. CASE SwapPanicked(i)
  BY <1>8 DEF SwapPanicked
<1>9. CASE KeepPayload(i)
  BY <1>9 DEF KeepPayload
<1>10. CASE Count(i)
  BY <1>10 DEF Count
<1> QED
  BY <1>1, <1>2, <1>3, <1>4, <1>5, <1>6, <1>7, <1>8, <1>9, <1>10 DEF RunChunks

\* Every step keeps the types.
LEMMA TypeNext == TypeInv /\ [Next]_vars => TypeInv'
<1>1. ASSUME TypeInv, Next PROVE TypeInv'
  BY <1>1, Steps, TypeCaller, TypeWorker, TypeRunChunks
<1>2. ASSUME TypeInv, UNCHANGED vars PROVE TypeInv'
  BY <1>2 DEF TypeInv, TypeOK, vars, shared, locals, history
<1> QED  BY <1>1, <1>2

\* SpinPool is type correct for any number of threads, chunks and calls.
THEOREM PoolType == Spec => []TypeOK
<1>1. TypeInv => TypeOK
  BY DEF TypeInv
<1> QED  BY <1>1, TypeInit, TypeNext, PTL DEF Spec

-----------------------------------------------------------------------------
\* A participant's first chunk is its own number.
LEMMA OwnFirst == \A i \in Participants : i \in Own(i)
<1> SUFFICES ASSUME NEW i \in Participants PROVE i \in Own(i)
  OBVIOUS
<1>1. i = i + 0 * N
  BY SpinAssumption DEF Participants
<1> QED  BY <1>1 DEF Own

\* The next one is N further.
LEMMA OwnNext ==
  ASSUME NEW i \in Participants, NEW x \in Own(i)
  PROVE  x \in Nat /\ x + N \in Own(i)
<1>1. PICK m \in Nat : x = i + m * N
  BY DEF Own
<1>2. i \in Nat /\ N \in Nat
  BY SpinAssumption DEF Participants
<1>3. m * N \in Nat /\ (m + 1) * N = m * N + N
  BY <1>2
<1>4. x + N = i + (m + 1) * N
  BY <1>1, <1>2, <1>3
<1> QED  BY <1>1, <1>2, <1>3, <1>4 DEF Own

\* Two participants own no chunk in common.
LEMMA OwnDisjoint ==
  ASSUME NEW i \in Participants, NEW j \in Participants, NEW x \in Own(i), x \in Own(j)
  PROVE  i = j
<1>1. PICK m \in Nat : x = i + m * N
  BY DEF Own
<1>2. PICK k \in Nat : x = j + k * N
  BY DEF Own
<1>3. i \in Nat /\ j \in Nat /\ N \in Nat /\ i < N /\ j < N
  BY SpinAssumption DEF Participants
<1>4. ASSUME NEW a \in Nat, NEW b \in Nat, a < b PROVE a * N + N <= b * N
  <2>1. PICK e \in Nat : b = a + 1 + e
    <3>1. b - a - 1 \in Nat /\ b = a + 1 + (b - a - 1)
      BY <1>4
    <3> QED  BY <3>1
  <2>2. b * N = a * N + N + e * N /\ e * N \in Nat /\ a * N \in Nat
    BY <1>3, <2>1
  <2> QED  BY <1>3, <2>2
<1>5. m * N \in Nat /\ k * N \in Nat
  BY <1>3
<1>6. ~(m < k) /\ ~(k < m)
  BY <1>1, <1>2, <1>3, <1>4, <1>5
<1> QED  BY <1>1, <1>2, <1>3, <1>5, <1>6

-----------------------------------------------------------------------------
\* The whole invariant holds at the start.
LEMMA SpinInit == Init => SpinInv
<1> SUFFICES ASSUME Init PROVE SpinInv
  OBVIOUS
<1>1. pc[0] = "free" /\ \A i \in Workers : pc[i] = "wait" /\ seen[i] = epoch
  BY Who DEF Init
<1>2. ~Open /\ pc[0] \notin Publishing \cup {"check", "take"} /\ ~shutdown /\ call = 0
  BY <1>1 DEF Open, Running, InChunk, Publishing, Init
<1>3. BaseInv
  <2>1. \A k \in Calls : ~(k <= call)
    BY <1>2 DEF Calls
  <2>2. \A k \in Calls : outcome[k] = Pending /\ begun[k] = {}
    BY DEF Init
  <2>3. data <= call /\ \A i \in Participants : myData[i] <= call
    BY <1>2 DEF Init, Null
  <2> QED  BY <1>1, <1>2, <2>1, <2>2, <2>3 DEF BaseInv
<1>4. PlaceInv
  BY <1>1, <1>2 DEF PlaceInv, OnTheWay
<1>5. LocalInv
  BY Who DEF LocalInv, LocalOf, Init, Running, Flying, InChunk
<1>6. DoneInv
  BY <1>1 DEF DoneInv, Publishing
<1> QED
  BY <1>2, <1>3, <1>4, <1>5, <1>6 DEF SpinInv, GoodInv, OrderInv, CountInv, PanicInv

-----------------------------------------------------------------------------
(* What holds whoever comes late. *)

\* A step of the caller outside run_chunks.
CallerStep ==
  \/ Lock \/ StoreData \/ StoreTramp \/ StoreNum \/ StoreCompleted \/ StorePanicked \/ Bump
  \/ Barrier \/ CheckPanicked \/ TakePayload \/ Drop \/ DropBump \/ Join

\* It moves the caller alone, and nothing of the workers.
LEMMA CallerFrame ==
  ASSUME TypeInv, CallerStep
  PROVE  /\ \A i \in Workers : pc'[i] = pc[i]
         /\ UNCHANGED <<seen, myNum, myTramp, myData, c, begun>>
         /\ Lock \/ UNCHANGED <<call, width, late>>
BY Who DEF CallerStep, TypeInv, TypeOK, Step, Lock, StoreData, StoreTramp, StoreNum,
   StoreCompleted, StorePanicked, Bump, Barrier, CheckPanicked, TakePayload, Drop, DropBump, Join,
   locals, history

\* Where the caller goes.
LEMMA CallerPlace ==
  ASSUME TypeInv, BaseInv, CallerStep
  PROVE  /\ pc'[0] \notin {"wait", "awake", "exit"}
         /\ shutdown' <=> pc'[0] \in {"drop", "join", "dropped"}
         /\ shutdown => shutdown'
<1> USE Who DEF TypeInv, TypeOK, BaseInv, Step, shared
<1>1. CASE Lock \/ StoreData \/ StoreTramp \/ StoreNum \/ StoreCompleted \/ StorePanicked \/ Bump
  BY <1>1 DEF Lock, StoreData, StoreTramp, StoreNum, StoreCompleted, StorePanicked, Bump
<1>2. CASE Barrier \/ CheckPanicked \/ TakePayload
  BY <1>2 DEF Barrier, CheckPanicked, TakePayload
<1>3. CASE Drop \/ DropBump \/ Join
  BY <1>3 DEF Drop, DropBump, Join
<1> QED  BY <1>1, <1>2, <1>3 DEF CallerStep

LEMMA BaseLock ==
  ASSUME TypeInv, BaseInv, Lock
  PROVE  BaseInv'
<1>1. /\ call' = call + 1 /\ call' \in Calls /\ call' # 0 /\ call \in Nat /\ call < call'
      /\ pc[0] = "free" /\ pc'[0] = "store_data" /\ CallerStep
  <2>1. call \in Nat /\ call < MaxCalls /\ call' = call + 1 /\ MaxCalls \in Nat
    BY SpinAssumption DEF Lock, Calls, TypeInv, TypeOK
  <2>2. call' \in Calls /\ call' # 0 /\ call < call'
    BY <2>1 DEF Calls
  <2>3. pc[0] = "free" /\ pc'[0] = "store_data"
    BY Who DEF Lock, Step, TypeInv, TypeOK
  <2> QED  BY <2>1, <2>2, <2>3 DEF CallerStep
<1>2. \A k \in Calls : k <= call' => k <= call \/ k = call'
  BY <1>1 DEF Calls
<1>3. \A k \in Calls : k > call' => k > call
  BY <1>1 DEF Calls
<1>4. \A k \in Calls : k <= call' => width'[k] \in Widths
  BY <1>1, <1>2 DEF Lock, TypeInv, TypeOK, BaseInv
<1>5. UNCHANGED <<data, outcome, begun, myData>> /\ outcome'[call'] = Pending
  BY <1>1 DEF Lock, BaseInv, shared, locals
<1>6. data' <= call' /\ \A i \in Participants : myData'[i] <= call'
  <2>1. data \in Nat /\ \A i \in Participants : myData[i] \in Nat
    BY SpinAssumption DEF TypeInv, TypeOK, Calls, Null
  <2> QED  BY <1>1, <1>5, <2>1 DEF BaseInv
<1>7. pc'[0] \in Publishing /\ pc'[0] \notin Running
  BY <1>1 DEF Publishing, Running, InChunk
<1>8. UNCHANGED shutdown
  BY DEF Lock, shared
<1> QED
  BY <1>1, <1>3, <1>4, <1>5, <1>6, <1>7, <1>8, CallerFrame, CallerPlace DEF BaseInv, Open

LEMMA BaseStore ==
  ASSUME TypeInv, BaseInv,
         StoreData \/ StoreTramp \/ StoreNum \/ StoreCompleted \/ StorePanicked \/ Bump
  PROVE  BaseInv'
<1>1. /\ UNCHANGED <<call, width, outcome, begun, myData, shutdown>>
      /\ pc[0] \in Publishing /\ call # 0 /\ CallerStep
  BY DEF StoreData, StoreTramp, StoreNum, StoreCompleted, StorePanicked, Bump, Step, Publishing,
     TypeInv, history, locals, CallerStep
<1>2. /\ \A i \in Workers : /\ pc'[i] \in Running \cup {"wait", "awake", "exit"}
                            /\ pc'[i] = "exit" => shutdown'
      /\ pc'[0] \notin {"wait", "awake", "exit"}
      /\ shutdown' <=> pc'[0] \in {"drop", "join", "dropped"}
  BY <1>1, CallerFrame, CallerPlace DEF BaseInv
<1>3. /\ pc'[0] \in Publishing \cup {"num"} /\ pc'[0] # "store_data"
      /\ outcome'[call'] = Pending
      /\ data' = call
      /\ pc'[0] \in {"store_num", "store_completed", "store_panicked", "bump", "num"} => tramp' = call
      /\ pc'[0] \in {"store_completed", "store_panicked", "bump", "num"} => num' = width[call]
  BY <1>1, Who DEF StoreData, StoreTramp, StoreNum, StoreCompleted, StorePanicked, Bump, Step,
     TypeInv, TypeOK, BaseInv, Publishing
<1>4. pc'[0] \notin {"free", "drop", "join", "dropped", "take"}
  BY <1>3 DEF Publishing
<1>5. data' <= call' /\ \A i \in Participants : myData'[i] <= call'
  <2>1. call \in Int
    BY SpinAssumption DEF TypeInv, TypeOK, Calls
  <2> QED  BY <1>1, <1>3, <2>1 DEF BaseInv
<1>6. /\ pc'[0] \in Publishing => pc'[0] # "num"
      /\ pc'[0] \notin Publishing => pc'[0] = "num"
  BY <1>3 DEF Publishing
<1> QED  BY <1>1, <1>2, <1>3, <1>4, <1>5, <1>6 DEF BaseInv

LEMMA BaseEnd ==
  ASSUME TypeInv, BaseInv, Barrier \/ CheckPanicked \/ TakePayload \/ Drop \/ DropBump \/ Join
  PROVE  BaseInv'
<1>1. /\ UNCHANGED <<call, width, begun, myData, data, tramp, num, panicked>> /\ CallerStep
      /\ pc[0] \notin Publishing /\ pc'[0] \notin Publishing
  BY Who DEF Barrier, CheckPanicked, TakePayload, Drop, DropBump, Join, Step, Publishing,
     TypeInv, TypeOK, shared, history, locals, CallerStep
<1>2. /\ \A i \in Workers : /\ pc'[i] \in Running \cup {"wait", "awake", "exit"}
                            /\ pc'[i] = "exit" => shutdown'
      /\ pc'[0] \notin {"wait", "awake", "exit"}
      /\ shutdown' <=> pc'[0] \in {"drop", "join", "dropped"}
  BY <1>1, CallerFrame, CallerPlace DEF BaseInv
<1>3. \A k \in Calls : k > call => outcome'[k] = Pending
  <2>1. \A k \in Calls : k > call => k # call /\ outcome[k] = Pending
    BY SpinAssumption DEF Calls, BaseInv, TypeInv, TypeOK
  <2> QED
    BY <2>1 DEF TypeInv, TypeOK, Barrier, CheckPanicked, TakePayload, Drop, DropBump, Join, history
<1>4. /\ pc'[0] \in {"check", "take"} => call # 0 /\ outcome'[call] = Pending
      /\ pc'[0] \in {"free", "drop", "join", "dropped"} /\ call # 0 => outcome'[call] # Pending
      /\ pc'[0] = "take" => panicked
      /\ pc'[0] \in {"check", "take", "free", "drop", "join", "dropped"}
  <2> USE Who DEF TypeInv, TypeOK, Step
  <2>1. CASE Barrier
    BY <2>1 DEF Barrier, BaseInv, Open, history
  <2>2. payload # Pending /\ Done # Pending
    BY DEF Pending, Done, Null, Calls
  <2>3. CASE CheckPanicked
    <3>1. pc[0] = "check" /\ call # 0 /\ call \in Calls /\ outcome[call] = Pending
      BY <2>3 DEF CheckPanicked, BaseInv
    <3>2. CASE panicked
      BY <2>3, <3>1, <3>2 DEF CheckPanicked
    <3>3. CASE ~panicked
      <4>1. outcome'[call] = Done /\ pc'[0] = "free"
        BY <2>3, <3>1, <3>3 DEF CheckPanicked
      <4> QED  BY <2>2, <4>1
    <3> QED  BY <3>2, <3>3
  <2>4. CASE TakePayload
    <3>1. pc[0] = "take" /\ call \in Calls
      BY <2>4 DEF TakePayload, BaseInv
    <3>2. outcome'[call] \in {Done, payload} /\ pc'[0] = "free"
      BY <2>4, <3>1 DEF TakePayload
    <3> QED  BY <2>2, <3>2
  <2>5. CASE Drop \/ DropBump \/ Join
    BY <2>5 DEF Drop, DropBump, Join, BaseInv, history
  <2> QED  BY <2>1, <2>3, <2>4, <2>5
<1>5. ~Open'
  BY <1>4 DEF Open, Running, InChunk
<1> QED  BY <1>1, <1>2, <1>3, <1>4, <1>5 DEF BaseInv

\* A step of run_chunks changes nothing of the others, and no call to come.
LEMMA RunFrame ==
  ASSUME TypeInv, BaseInv, NEW i \in Participants, RunChunks(i)
  PROVE  /\ pc[i] \in Running /\ pc'[i] \in Running \cup {Finished(i)}
         /\ UNCHANGED <<epoch, data, tramp, num, shutdown, seen, call, width, outcome, late>>
         /\ \A j \in Participants : j # i =>
              /\ pc'[j] = pc[j] /\ c'[j] = c[j] /\ myNum'[j] = myNum[j]
              /\ myTramp'[j] = myTramp[j] /\ myData'[j] = myData[j]
         /\ (Open' <=> Open) /\ (i = 0 => Open)
<1>1. TypeOK
  BY DEF TypeInv
<1>2. UNCHANGED <<epoch, data, tramp, num, shutdown, seen, call, width, outcome, late>>
  BY DEF RunChunks, LoadNum, LoadTramp, LoadData, CallBody, CallNested, RunNested, ReturnBody,
     SwapPanicked, KeepPayload, Count, shared, history
<1>3. \A j \in Participants : j # i => pc'[j] = pc[j]
  BY <1>1 DEF TypeOK, RunChunks, Step, LoadNum, LoadTramp, LoadData, CallBody, CallNested,
     RunNested, ReturnBody, SwapPanicked, KeepPayload, Count
<1>4. \A j \in Participants : j # i =>
        /\ c'[j] = c[j] /\ myNum'[j] = myNum[j]
        /\ myTramp'[j] = myTramp[j] /\ myData'[j] = myData[j]
  BY <1>1 DEF TypeOK, RunChunks, LoadNum, LoadTramp, LoadData, CallBody, CallNested,
     RunNested, ReturnBody, SwapPanicked, KeepPayload, Count, locals
<1>5. pc[i] \in Running
  BY DEF RunChunks, Step, LoadNum, LoadTramp, LoadData, CallBody, CallNested,
     RunNested, ReturnBody, SwapPanicked, KeepPayload, Count, Running, InChunk
<1>6. pc'[i] \in Running \cup {Finished(i)}
  BY <1>1 DEF TypeOK, RunChunks, Step, LoadNum, LoadTramp, LoadData, CallBody, CallNested,
     RunNested, ReturnBody, SwapPanicked, KeepPayload, Count, Running, InChunk
<1>7. (Open' <=> Open) /\ (i = 0 => Open)
  <2>1. CASE i = 0
    BY <1>5, <1>6, <2>1 DEF Open, Finished
  <2>2. CASE i # 0
    BY <1>3, <2>2, Who DEF Open
  <2> QED  BY <2>1, <2>2
<1> QED  BY <1>2, <1>3, <1>4, <1>5, <1>6, <1>7

LEMMA BaseRun ==
  ASSUME TypeInv, BaseInv, NEW i \in Participants, RunChunks(i)
  PROVE  BaseInv'
<1>1. TypeOK
  BY DEF TypeInv
<1>2. \A j \in Participants : myData'[j] <= call
  <2>1. myData'[i] \in {myData[i], data}
    BY <1>1 DEF TypeOK, RunChunks, LoadNum, LoadTramp, LoadData, CallBody, CallNested, RunNested,
       ReturnBody, SwapPanicked, KeepPayload, Count, locals
  <2> QED  BY <2>1, RunFrame DEF BaseInv
<1>3. \A k \in Calls : k > call => begun'[k] = begun[k]
  <2>1. begun' = begun \/ begun' = [begun EXCEPT ![myData[i]] = @ \cup {c[i]}]
    BY DEF RunChunks, LoadNum, LoadTramp, LoadData, CallBody, CallNested, RunNested,
       ReturnBody, SwapPanicked, KeepPayload, Count, history
  <2>2. \A k \in Calls : k > call => k # myData[i]
    <3>1. myData[i] <= call /\ myData[i] \in Int /\ call \in Int
      BY <1>1, SpinAssumption DEF BaseInv, TypeOK, Calls, Null
    <3> QED  BY <3>1 DEF Calls
  <2> QED  BY <1>1, <2>1, <2>2 DEF TypeOK
<1>4. panicked => panicked'
  BY DEF RunChunks, LoadNum, LoadTramp, LoadData, CallBody, CallNested, RunNested,
     ReturnBody, SwapPanicked, KeepPayload, Count, shared
<1>5. CASE i = 0
  <2>1. pc'[0] \in Running \cup {"barrier"} /\ Open /\ Open'
    BY <1>5, RunFrame DEF Finished
  <2>2. (Running \cup {"barrier"}) \cap (Publishing \cup
          {"wait", "awake", "exit", "free", "check", "take", "drop", "join", "dropped"}) = {}
    BY DEF Running, InChunk, Publishing
  <2>3. \A j \in Workers : pc'[j] = pc[j]
    BY <1>5, RunFrame, Who
  <2>4. pc[0] \in Running \cup {"barrier"}
    BY <2>1 DEF Open
  <2> QED  BY <1>2, <1>3, <2>1, <2>2, <2>3, <2>4, RunFrame DEF BaseInv
<1>6. CASE i # 0
  <2>1. pc'[0] = pc[0]
    BY <1>6, RunFrame, Who
  <2>2. \A j \in Workers : /\ pc'[j] \in Running \cup {"wait", "awake", "exit"}
                           /\ pc'[j] = "exit" => shutdown
    <3>1. pc'[i] \in Running \cup {"wait"} /\ "exit" \notin Running \cup {"wait"}
      BY <1>6, RunFrame DEF Finished, Running, InChunk
    <3> QED  BY <3>1, RunFrame, Who DEF BaseInv
  <2> QED  BY <1>2, <1>3, <1>4, <2>1, <2>2, RunFrame DEF BaseInv
<1> QED  BY <1>5, <1>6

LEMMA BaseLoop ==
  ASSUME TypeInv, BaseInv, NEW i \in Workers, Wake(i) \/ WaitEnds(i) \/ Begin(i)
  PROVE  BaseInv' /\ UNCHANGED <<shared, locals, history>> /\ pc'[0] = pc[0]
<1>1. /\ UNCHANGED <<shared, locals, history>> /\ pc'[0] = pc[0]
      /\ \A j \in Workers : j # i => pc'[j] = pc[j]
      /\ pc'[i] \in {"awake", "exit", "num"} /\ (pc'[i] = "exit" => shutdown)
  BY Who DEF Wake, WaitEnds, Begin, Step, TypeInv, TypeOK
<1>2. Open' <=> Open
  BY <1>1 DEF Open
<1>3. \A j \in Workers : /\ pc'[j] \in Running \cup {"wait", "awake", "exit"}
                         /\ pc'[j] = "exit" => shutdown
  BY <1>1 DEF BaseInv, Running
<1> QED  BY <1>1, <1>2, <1>3 DEF BaseInv, shared, locals, history

-----------------------------------------------------------------------------
(* A call to which nobody comes late. *)

\* Where the caller is excludes the other places.
LEMMA Apart ==
  /\ pc[0] \in Publishing => ~Open /\ ~Closing /\ pc[0] \notin {"drop", "join", "dropped"}
  /\ Open => ~Closing /\ pc[0] \notin Publishing \cup {"drop", "join", "dropped"}
  /\ Closing => pc[0] \notin Publishing \cup {"drop", "join", "dropped"}
BY DEF Open, Closing, Publishing, Running, InChunk

\* The lock: nobody is on the way, and nothing of the call is done.
LEMMA LockGood ==
  ASSUME TypeInv, SpinInv, Lock, late' = {}
  PROVE  GoodInv'
<1>1. BaseInv' /\ pc'[0] = "store_data" /\ call' \in Calls
  <2>1. BaseInv'
    BY BaseLock DEF SpinInv
  <2>2. pc'[0] = "store_data"
    BY Who DEF Lock, Step, TypeInv, TypeOK
  <2>3. call' \in Calls
    BY SpinAssumption DEF Lock, TypeInv, TypeOK, Calls
  <2> QED  BY <2>1, <2>2, <2>3
<1>2. pc'[0] \in Publishing /\ ~Open' /\ ~Closing' /\ ~shutdown'
  BY <1>1 DEF Publishing, Open, Closing, Running, InChunk, BaseInv
<1>3. \A i \in Workers : ~OnTheWay(i)'
  <2>1. \A i \in Workers : ~OnTheWay(i)
    BY DEF Lock
  <2>2. UNCHANGED <<seen, epoch>> /\ \A i \in Workers : pc'[i] = pc[i]
    BY CallerFrame DEF Lock, CallerStep, shared
  <2> QED  BY <2>1, <2>2 DEF OnTheWay
<1>4. begun'[call'] = {}
  <2>1. call' > call
    BY SpinAssumption DEF Lock, TypeInv, TypeOK, Calls
  <2> QED  BY <1>1, <2>1 DEF Lock, SpinInv, BaseInv
<1>5. PlaceInv' /\ DoneInv'
  BY <1>1, <1>2, <1>3, <1>4 DEF PlaceInv, DoneInv
<1> QED
  BY <1>1, <1>2, <1>5 DEF GoodInv, LocalInv, OrderInv, CountInv, PanicInv

\* The stores that publish the call.
LEMMA StoreGood ==
  ASSUME TypeInv, BaseInv, GoodInv,
         StoreData \/ StoreTramp \/ StoreNum \/ StoreCompleted \/ StorePanicked
  PROVE  GoodInv'
<1>1. BaseInv' /\ CallerStep /\ UNCHANGED <<epoch, call, begun>>
  BY BaseStore DEF StoreData, StoreTramp, StoreNum, StoreCompleted, StorePanicked, CallerStep,
     history
<1>2. /\ pc[0] \in Publishing /\ pc'[0] \in Publishing
      /\ pc'[0] \in {"store_panicked", "bump"} => completed' = 0
      /\ pc'[0] = "bump" => ~panicked'
  BY Who DEF StoreData, StoreTramp, StoreNum, StoreCompleted, StorePanicked, Step, TypeInv,
     TypeOK, Publishing, GoodInv, DoneInv
<1>3. ~Open' /\ ~Closing' /\ ~shutdown' /\ pc'[0] \notin {"check", "take"}
  BY <1>1, <1>2 DEF Publishing, Open, Closing, Running, InChunk, BaseInv
<1>4. \A i \in Workers : ~OnTheWay(i)'
  BY <1>1, <1>2, CallerFrame DEF GoodInv, PlaceInv, OnTheWay
<1>5. PlaceInv' /\ DoneInv'
  BY <1>1, <1>2, <1>3, <1>4 DEF PlaceInv, DoneInv, GoodInv
<1> QED
  BY <1>2, <1>3, <1>5 DEF GoodInv, LocalInv, OrderInv, CountInv, PanicInv

\* Behind the barrier, and in the drop.
LEMMA EndGood ==
  ASSUME TypeInv, BaseInv, GoodInv, CheckPanicked \/ TakePayload \/ Drop \/ DropBump \/ Join
  PROVE  GoodInv'
<1>1. /\ BaseInv' /\ CallerStep
      /\ UNCHANGED <<call, width, begun, panicked, seen, myNum, myTramp, myData, c>>
      /\ \A i \in Workers : pc'[i] = pc[i]
  BY BaseEnd, CallerFrame DEF CheckPanicked, TakePayload, Drop, DropBump, Join, CallerStep,
     history, shared
<1>2. /\ pc[0] \in {"check", "take", "free", "drop", "join"}
      /\ pc'[0] \in {"take", "free", "drop", "join", "dropped"}
      /\ pc'[0] \in {"take", "free"} => Closing /\ epoch' = epoch
      /\ pc'[0] = "take" => pc[0] = "check" /\ payload' = payload
      /\ pc'[0] = "drop" => Closing
      /\ pc'[0] \in {"join", "dropped"} => shutdown
  BY Who DEF CheckPanicked, TakePayload, Drop, DropBump, Join, Step, TypeInv, TypeOK, Closing,
     shared, BaseInv
<1>3. /\ ~Open /\ ~Open' /\ pc[0] \notin Publishing \cup Running
      /\ pc'[0] \notin Publishing \cup Running
  BY <1>2 DEF Publishing, Open, Running, InChunk
<1>4. PlaceInv'
  <2>1. \A i \in Workers : NoChunk(i)' <=> NoChunk(i)
    BY <1>1 DEF NoChunk
  <2>2. CASE pc'[0] \in {"take", "free"}
    <3>1. Closing /\ ~shutdown'
      BY <1>1, <1>2, <2>2 DEF BaseInv
    <3>2. \A i \in Workers : OnTheWay(i)' <=> OnTheWay(i)
      BY <1>1, <1>2, <2>2 DEF OnTheWay
    <3> QED  BY <1>1, <1>3, <2>1, <3>1, <3>2 DEF PlaceInv, GoodInv
  <2>3. CASE pc'[0] \in {"drop", "join", "dropped"}
    <3>1. ~Closing'
      BY <2>3 DEF Closing
    <3>2. \A i \in Workers : \/ pc[i] \in {"wait", "awake", "exit"}
                             \/ NoChunk(i) /\ pc[i] \in Loading
      <4>1. CASE Closing
        BY <4>1 DEF PlaceInv, GoodInv, OnTheWay
      <4>2. CASE shutdown
        BY <4>2 DEF PlaceInv, GoodInv
      <4> QED  BY <1>2, <2>3, <4>1, <4>2
    <3> QED  BY <1>1, <1>3, <2>1, <3>1, <3>2 DEF PlaceInv
  <2> QED  BY <1>2, <2>2, <2>3
<1>5. DoneInv'
  BY <1>1, <1>2, <1>3 DEF DoneInv, GoodInv, Publishing
<1>6. LocalInv'
  <2> SUFFICES ASSUME NEW i \in Participants PROVE LocalOf(i)'
    BY DEF LocalInv
  <2>1. CASE i = 0
    BY <1>3, <2>1 DEF LocalOf, Running, Flying, InChunk
  <2>2. CASE i # 0
    BY <1>1, <1>3, <2>2, Who DEF LocalOf, LocalInv, GoodInv
  <2> QED  BY <2>1, <2>2
<1>7. PanicInv'
  <2>1. CASE pc'[0] = "take"
    <3>1. pc[0] = "check" /\ payload' = payload
      BY <1>2, <2>1
    <3>2. \A i \in Workers : pc[i] # "payload"
      BY <3>1 DEF GoodInv, PlaceInv, Closing, OnTheWay, Loading
    <3>3. \A i \in Participants : pc[i] # "payload" /\ pc'[i] # "payload"
      BY <1>1, <2>1, <3>1, <3>2, Who
    <3> QED  BY <1>1, <3>1, <3>3 DEF PanicInv, GoodInv
  <2>2. CASE pc'[0] # "take"
    BY <1>2, <1>3, <2>2 DEF PanicInv
  <2> QED  BY <2>1, <2>2
<1> QED
  BY <1>3, <1>4, <1>5, <1>6, <1>7 DEF GoodInv, OrderInv, CountInv

\* The bump opens the call: no worker has seen it, and nothing is begun.
LEMMA BumpGood ==
  ASSUME TypeInv, BaseInv, GoodInv, Bump
  PROVE  GoodInv'
<1>1. TypeOK /\ BaseInv' /\ UNCHANGED <<call, begun, completed, panicked, seen>>
  BY BaseStore DEF TypeInv, Bump, history
<1>2. pc[0] = "bump" /\ pc[0] \in Publishing /\ pc'[0] = "num"
  BY Who DEF Bump, Step, TypeInv, TypeOK, Publishing
<1>3. Open' /\ ~Closing' /\ ~shutdown' /\ pc'[0] \notin Publishing
  BY <1>1, <1>2 DEF Publishing, Open, Closing, Running, BaseInv
<1>4. \A i \in Workers : pc[i] = "wait" /\ pc'[i] = "wait" /\ seen'[i] # epoch'
  <2>1. \A i \in Workers : pc[i] = "wait" /\ seen[i] = epoch /\ pc'[i] = pc[i]
    BY <1>2, CallerFrame DEF GoodInv, PlaceInv, OnTheWay, CallerStep
  <2> QED  BY <1>1, <2>1 DEF Bump, TypeOK
<1>5. \A i \in Participants : pc'[i] \in {"wait", "num"}
  BY <1>2, <1>4, Who
<1>6. begun'[call'] = {} /\ completed' = 0 /\ ~panicked'
  BY <1>1, <1>2 DEF GoodInv, DoneInv
<1>7. PlaceInv'
  BY <1>3, <1>4 DEF PlaceInv
<1>8. DoneInv'
  BY <1>2, <1>3 DEF DoneInv
<1>9. LocalInv' /\ PanicInv'
  BY <1>5, <1>6 DEF LocalInv, LocalOf, PanicInv, Flying, InChunk, Running
<1>10. OrderInv'
  BY <1>6 DEF OrderInv, OrderOf
<1>11. CountInv'
  <2>1. Claimed' = {}
    BY <1>5 DEF Claimed, Flying, InChunk
  <2> QED  BY <1>6, <2>1, FS_EmptySet DEF CountInv
<1> QED  BY <1>7, <1>8, <1>9, <1>10, <1>11 DEF GoodInv

-----------------------------------------------------------------------------
\* A step of run_chunks is made in an open call, or by a worker without a chunk
\* that only loads.
LEMMA RunWhere ==
  ASSUME TypeInv, BaseInv, GoodInv, NEW i \in Participants, RunChunks(i)
  PROVE  /\ pc[0] \notin Publishing
         /\ Open \/ (i \in Workers /\ NoChunk(i) /\ pc[i] \in Loading /\ (Closing \/ shutdown))
<1>1. pc[i] \in Running /\ (i = 0 => Open)
  BY RunFrame
<1>2. pc[i] \notin {"wait", "awake", "exit"}
  BY <1>1 DEF Running, InChunk
<1>3. ASSUME i \in Workers
      PROVE  /\ pc[0] \notin Publishing
             /\ Closing \/ shutdown => NoChunk(i) /\ pc[i] \in Loading
  BY <1>2, <1>3 DEF GoodInv, PlaceInv, OnTheWay
<1>4. Open \/ Closing \/ shutdown \/ pc[0] \in Publishing
  <2>1. pc[0] \in Points
    BY Who DEF TypeInv, TypeOK
  <2> QED  BY <2>1 DEF Points, Open, Closing, Publishing, BaseInv
<1> QED  BY <1>1, <1>3, <1>4, Who, Apart

\* It keeps the places and, but for what is begun, what is done.
LEMMA RunPlace ==
  ASSUME TypeInv, BaseInv, GoodInv, NEW i \in Participants, RunChunks(i),
         ~Open => pc'[i] \in Loading \cup {"wait"}
  PROVE  PlaceInv'
<1>1. /\ pc[0] \notin Publishing /\ PlaceInv
      /\ UNCHANGED <<epoch, seen, shutdown, call, width>>
      /\ \A j \in Participants : j # i => pc'[j] = pc[j]
      /\ pc[i] \in Running
      /\ (Open' <=> Open)
  BY RunWhere, RunFrame DEF GoodInv
<1>2. \A j \in Workers : NoChunk(j)' <=> NoChunk(j)
  BY <1>1 DEF NoChunk
<1>3. CASE Open
  <2>1. pc'[0] \notin Publishing /\ ~Closing' /\ ~shutdown
    BY <1>1, <1>3 DEF Open, Closing, Publishing, Running, InChunk, BaseInv
  <2>2. \A j \in Workers : pc'[j] # "wait" => seen[j] = epoch
    <3>1. pc[i] # "wait"
      BY <1>1 DEF Running, InChunk
    <3> QED  BY <1>1, <1>3, <3>1, Who DEF PlaceInv
  <2> QED  BY <1>1, <2>1, <2>2 DEF PlaceInv
<1>4. CASE ~Open
  <2>1. i \in Workers /\ i # 0 /\ NoChunk(i) /\ pc'[0] = pc[0]
    BY <1>1, <1>4, RunWhere, Who
  <2>2. \A j \in Workers : j # i => (OnTheWay(j)' <=> OnTheWay(j)) /\ pc'[j] = pc[j]
    BY <1>1, Who DEF OnTheWay
  <2>3. (Closing' <=> Closing) /\ pc'[i] \in Loading \cup {"wait"} /\ "wait" \notin Loading
    BY <1>4, <2>1 DEF Closing, Loading
  <2> QED  BY <1>1, <1>2, <1>4, <2>1, <2>2, <2>3 DEF PlaceInv
<1> QED  BY <1>3, <1>4

\* The other participants stay where they are among their own chunks.
LEMMA RunOthers ==
  ASSUME TypeInv, BaseInv, GoodInv, NEW i \in Participants, RunChunks(i),
         begun'[call] \subseteq begun[call] \cup Own(i),
         NEW j \in Participants, j # i
  PROVE  LocalOf(j)' /\ (Open => OrderOf(j)')
<1>1. LocalOf(j) /\ (Open => OrderOf(j))
  BY RunWhere DEF GoodInv, LocalInv, OrderInv
<1>2. LocalOf(j)'
  BY <1>1, RunFrame DEF LocalOf
<1>3. ASSUME Open PROVE OrderOf(j)'
  <2> SUFFICES ASSUME NEW x \in begun'[call] \cap Own(j)
               PROVE  /\ ~Before(j)'
                      /\ pc'[j] = "call" => x < c'[j]
                      /\ pc'[j] \in Flying => x <= c'[j]
    BY RunFrame DEF OrderOf
  <2>1. x \in begun[call]
    BY OwnDisjoint
  <2>2. Before(j)' = Before(j)
    BY RunFrame DEF Before
  <2> QED  BY <1>1, <1>3, <2>1, <2>2, RunFrame DEF OrderOf
<1> QED  BY <1>2, <1>3

\* What is begun in an open call is finite.
LEMMA FiniteBegun ==
  ASSUME TypeInv, BaseInv, CountInv, Open
  PROVE  /\ width[call] \in Nat \ {0}
         /\ IsFiniteSet(0 .. width[call] - 1)
         /\ Cardinality(0 .. width[call] - 1) = width[call]
         /\ IsFiniteSet(begun[call] \ Claimed)
<1>1. call \in Calls /\ call <= call
  BY SpinAssumption DEF TypeInv, TypeOK, BaseInv, Calls
<1>2. width[call] \in Widths
  BY <1>1 DEF BaseInv
<1>3. width[call] \in Nat \ {0}
  BY <1>2, SpinAssumption
<1>4. 0 \in Int /\ width[call] - 1 \in Int
  BY <1>3
<1>5. IsFiniteSet(0 .. width[call] - 1)
      /\ Cardinality(0 .. width[call] - 1)
           = IF 0 > width[call] - 1 THEN 0 ELSE width[call] - 1 - 0 + 1
  BY <1>4, FS_Interval
<1>6. begun[call] \ Claimed \in SUBSET (0 .. width[call] - 1)
  BY DEF CountInv
<1>7. IsFiniteSet(begun[call] \ Claimed)
  BY <1>5, <1>6, FS_Subset
<1> QED  BY <1>3, <1>5, <1>7

\* Behind a step of run_chunks what is done of the call is as it was, if a worker
\* without a chunk begins none.
LEMMA RunDone ==
  ASSUME TypeInv, BaseInv, GoodInv, NEW i \in Participants, RunChunks(i), ~Open => begun' = begun
  PROVE  DoneInv'
<1>1. pc[0] \notin Publishing /\ (Open' <=> Open) /\ UNCHANGED <<call, width>>
  BY RunWhere, RunFrame
<1>2. CASE Open
  <2>1. pc'[0] \notin Publishing \cup {"check", "take"}
    BY <1>1, <1>2 DEF Open, Publishing, Running, InChunk
  <2> QED  BY <2>1 DEF DoneInv, Publishing
<1>3. CASE ~Open
  <2>1. pc'[0] = pc[0]
    BY <1>3, RunWhere, RunFrame, Who
  <2> QED  BY <1>1, <1>3, <2>1 DEF DoneInv, GoodInv, Publishing
<1> QED  BY <1>2, <1>3

\* The loads: i takes up its first chunk, or finds that it has none.
LEMMA LoadGood ==
  ASSUME TypeInv, BaseInv, GoodInv, NEW i \in Participants,
         LoadNum(i) \/ LoadTramp(i) \/ LoadData(i)
  PROVE  GoodInv' /\ UNCHANGED <<begun, panicked>> /\ pc'[i] \in Loading \cup {"call", "wait"}
<1>1. RunChunks(i) /\ TypeOK
  BY DEF RunChunks, TypeInv
<1>2. /\ UNCHANGED <<epoch, seen, call, width>> /\ pc[0] \notin Publishing /\ (Open' <=> Open)
      /\ \A j \in Participants : j # i => pc'[j] = pc[j] /\ c'[j] = c[j]
  BY <1>1, RunFrame, RunWhere
<1>3. UNCHANGED <<begun, completed, panicked, payload>>
  BY DEF LoadNum, LoadTramp, LoadData, shared, history
<1>4. /\ call \in Calls /\ call # Null /\ tramp = call /\ data = call /\ num = width[call]
      /\ width[call] \in Nat \ {0}
  <2>1. call # 0 /\ call \in Calls /\ call <= call
    BY <1>1, RunWhere, SpinAssumption DEF BaseInv, NoChunk, TypeOK, Calls
  <2>2. width[call] \in Nat \ {0}
    BY <2>1, SpinAssumption DEF BaseInv
  <2> QED  BY <1>2, <2>1, <2>2 DEF BaseInv, Null
<1>5. LocalOf(i) /\ (Open => OrderOf(i)) /\ i \in Nat
  BY <1>2, Who DEF GoodInv, LocalInv, OrderInv
<1>6. ~Open => i >= width[call] /\ i # 0
  BY <1>1, RunWhere, Who DEF NoChunk
<1>7. /\ pc[i] \in Loading /\ pc'[i] \in Loading \cup {"call", "wait"}
      /\ pc'[i] = "call" => i < width[call] /\ c'[i] = i
      /\ pc'[i] = "wait" => i # 0 /\ i >= width[call] /\ pc[i] = "data"
      /\ LocalOf(i)'
  <2> USE <1>1, <1>2 DEF TypeOK, Step
  <2>1. CASE LoadNum(i)
    BY <1>4, <2>1 DEF LoadNum, LocalOf, Flying, InChunk, Loading
  <2>2. CASE LoadTramp(i)
    <3>1. myNum[i] = width[call]
      BY <1>5, <2>2 DEF LoadTramp, LocalOf, Running
    <3> QED  BY <1>4, <2>2, <3>1 DEF LoadTramp, LocalOf, Flying, InChunk, Loading
  <2>3. CASE LoadData(i)
    <3>1. myNum[i] = width[call] /\ myTramp[i] = call
      BY <1>5, <2>3 DEF LoadData, LocalOf, Running
    <3>2. /\ pc[i] = "data" /\ c'[i] = i /\ myData'[i] = call
          /\ pc'[i] = (IF i < width[call] THEN "call" ELSE Finished(i))
      BY <1>4, <2>3, <3>1 DEF LoadData
    <3>3. UNCHANGED <<myNum, myTramp>> /\ i \in Own(i)
      BY <2>3, OwnFirst DEF LoadData
    <3>4. CASE i < width[call]
      BY <3>1, <3>2, <3>3, <3>4 DEF LocalOf, Loading
    <3>5. CASE ~(i < width[call])
      <4>1. i # 0 /\ i >= width[call] /\ pc'[i] = "wait"
        BY <1>4, <1>5, <3>2, <3>5 DEF Finished
      <4> QED  BY <3>2, <4>1 DEF LocalOf, Loading, Running, Flying, InChunk
    <3> QED  BY <3>4, <3>5
  <2> QED  BY <2>1, <2>2, <2>3
<1>8. \A j \in Participants : LocalOf(j)' /\ (Open => OrderOf(j)')
  <2>1. Open => begun[call] \cap Own(i) = {}
    BY <1>5, <1>7 DEF OrderOf, Before
  <2>2. Open => OrderOf(i)'
    BY <1>2, <1>3, <2>1 DEF OrderOf
  <2> QED  BY <1>1, <1>2, <1>3, <1>7, <2>2, RunOthers
<1>9. CountInv'
  <2>1. Claimed' = Claimed
    <3>1. \A j \in Participants :
            (pc'[j] \in Flying <=> pc[j] \in Flying) /\ (pc[j] \in Flying => c'[j] = c[j])
      BY <1>2, <1>7 DEF Flying, InChunk, Loading
    <3> QED  BY <3>1 DEF Claimed
  <2> QED  BY <1>2, <1>3, <2>1 DEF GoodInv, CountInv
<1>10. PanicInv'
  <2>1. \A j \in Participants : pc'[j] = "payload" <=> pc[j] = "payload"
    BY <1>2, <1>7 DEF Loading
  <2>2. Open' \/ pc'[0] \in {"check", "take"} <=> Open \/ pc[0] \in {"check", "take"}
    BY <1>1, <1>2, RunWhere, RunFrame, Who
  <2> QED  BY <1>2, <1>3, <2>1, <2>2 DEF GoodInv, PanicInv
<1>11. ~Open => pc'[i] \in Loading \cup {"wait"}
  BY <1>4, <1>5, <1>6, <1>7
<1> QED
  BY <1>1, <1>2, <1>3, <1>7, <1>8, <1>9, <1>10, <1>11, RunPlace, RunDone
  DEF GoodInv, LocalInv, OrderInv

\* The other steps of run_chunks are made in an open call.
LEMMA WorkOpen ==
  ASSUME TypeInv, BaseInv, GoodInv, NEW i \in Participants,
         \/ CallBody(i) \/ CallNested(i) \/ RunNested(i) \/ ReturnBody(i) \/ SwapPanicked(i)
         \/ KeepPayload(i) \/ Count(i)
  PROVE  /\ RunChunks(i) /\ Open /\ Open' /\ call \in Calls
         /\ UNCHANGED <<epoch, seen, call, width>>
         /\ \A j \in Participants : j # i => pc'[j] = pc[j] /\ c'[j] = c[j]
         /\ LocalOf(i) /\ OrderOf(i)
<1>1. RunChunks(i)
  BY DEF RunChunks
<1>2. pc[i] \notin Loading
  BY DEF CallBody, CallNested, RunNested, ReturnBody, SwapPanicked, KeepPayload, Count, Step, Loading
<1>3. Open /\ pc[0] \notin Publishing
  BY <1>1, <1>2, RunWhere
<1>4. call \in Calls
  BY <1>3 DEF BaseInv, TypeInv, TypeOK
<1> QED  BY <1>1, <1>3, <1>4, RunFrame DEF GoodInv, LocalInv, OrderInv

\* The body is entered: the chunk has not been begun before, and is in flight.
LEMMA BodyGood ==
  ASSUME TypeInv, BaseInv, GoodInv, NEW i \in Participants, CallBody(i)
  PROVE  GoodInv' /\ c[i] \notin begun[myData[i]] /\ myData[i] = call
<1>1. RunChunks(i) /\ TypeOK
  BY DEF RunChunks, TypeInv
<1>2. /\ Open /\ Open' /\ UNCHANGED <<epoch, seen, call, width>>
      /\ \A j \in Participants : j # i => pc'[j] = pc[j]
  BY WorkOpen
<1>3. UNCHANGED <<completed, panicked, payload, myNum, myTramp, myData, c>>
  BY DEF CallBody, shared, locals
<1>4. LocalOf(i) /\ OrderOf(i) /\ call \in Calls
  BY WorkOpen
<1>5. pc[i] = "call" /\ pc'[i] = "body"
  BY <1>1 DEF CallBody, Step, TypeOK
<1>6. myData[i] = call /\ c[i] \in Own(i) /\ c[i] < width[call] /\ c[i] \in Nat
  BY <1>1, <1>4, <1>5 DEF LocalOf, TypeOK
<1>7. c[i] \notin begun[call]
  BY <1>4, <1>5, <1>6 DEF OrderOf
<1>8. /\ begun'[call] = begun[call] \cup {c[i]}
      /\ \A k \in Calls : k # call => begun'[k] = begun[k]
  BY <1>1, <1>4, <1>6 DEF CallBody, TypeOK
<1>9. \A j \in Participants : LocalOf(j)' /\ OrderOf(j)'
  <2>1. LocalOf(i)'
    BY <1>2, <1>3, <1>4, <1>5 DEF LocalOf, Running, Flying, InChunk
  <2>2. OrderOf(i)'
    <3>1. \A x \in begun[call] \cap Own(i) : x < c[i] /\ x \in Nat
      BY <1>4, <1>5, OwnNext DEF OrderOf
    <3>2. ~Before(i)'
      BY <1>5 DEF Before, Loading
    <3> QED  BY <1>2, <1>3, <1>5, <1>6, <1>8, <3>1, <3>2 DEF OrderOf
  <2> QED  BY <1>1, <1>6, <1>8, <2>1, <2>2, RunOthers, <1>2
<1>10. CountInv'
  <2>1. Claimed' = Claimed \cup {c[i]}
    <3>1. \A j \in Participants : pc'[j] \in Flying <=> pc[j] \in Flying \/ j = i
      BY <1>2, <1>5 DEF Flying, InChunk
    <3> QED  BY <1>3, <3>1 DEF Claimed
  <2>2. begun'[call] \ Claimed' = begun[call] \ Claimed
    BY <1>7, <1>8, <2>1
  <2>3. width[call] \in Nat
    BY <1>2, FiniteBegun DEF GoodInv
  <2>4. c[i] \in 0 .. width[call] - 1
    BY <1>6, <2>3
  <2>5. CountInv
    BY DEF GoodInv
  <2> QED  BY <1>2, <1>3, <1>8, <2>1, <2>2, <2>4, <2>5 DEF CountInv
<1>11. PanicInv'
  <2>1. \A j \in Participants : pc'[j] = "payload" <=> pc[j] = "payload"
    BY <1>2, <1>5
  <2> QED  BY <1>2, <1>3, <2>1 DEF GoodInv, PanicInv
<1> QED
  BY <1>1, <1>6, <1>7, <1>8, <1>9, <1>10, <1>11, <1>2, RunPlace, RunDone
  DEF GoodInv, LocalInv, OrderInv

\* The chunk is in flight until it is counted.
LEMMA FlightGood ==
  ASSUME TypeInv, BaseInv, GoodInv, NEW i \in Participants,
         \/ CallNested(i) \/ RunNested(i) \/ ReturnBody(i) \/ SwapPanicked(i) \/ KeepPayload(i)
  PROVE  GoodInv'
<1>1. RunChunks(i) /\ TypeOK
  BY DEF RunChunks, TypeInv
<1>2. /\ Open /\ Open' /\ UNCHANGED <<epoch, seen, call, width>>
      /\ \A j \in Participants : j # i => pc'[j] = pc[j]
  BY WorkOpen
<1>3. UNCHANGED <<completed, myNum, myTramp, myData, c, begun>>
  BY DEF CallNested, RunNested, ReturnBody, SwapPanicked, KeepPayload, shared, locals, history
<1>4. LocalOf(i) /\ OrderOf(i)
  BY WorkOpen
<1>5. pc[i] \in Flying /\ pc'[i] \in Flying
  BY <1>1 DEF CallNested, RunNested, ReturnBody, SwapPanicked, KeepPayload, Step, TypeOK,
     Flying, InChunk
<1>6. \A j \in Participants : LocalOf(j)' /\ OrderOf(j)'
  <2>1. /\ pc[i] \in Running \ {"num"}
        /\ pc'[i] \notin {"call", "num", "tramp", "data", "wait", "awake"}
    BY <1>5 DEF Flying, Running, InChunk
  <2>2. LocalOf(i)'
    BY <1>2, <1>3, <1>4, <1>5, <2>1 DEF LocalOf
  <2>3. OrderOf(i)'
    BY <1>2, <1>3, <1>4, <1>5, <2>1 DEF OrderOf, Before, Loading
  <2> QED  BY <1>1, <1>3, <2>2, <2>3, RunOthers, <1>2
<1>7. CountInv'
  <2>1. Claimed' = Claimed
    <3>1. \A j \in Participants : pc'[j] \in Flying <=> pc[j] \in Flying
      BY <1>2, <1>5
    <3> QED  BY <1>3, <3>1 DEF Claimed
  <2> QED  BY <1>2, <1>3, <2>1 DEF GoodInv, CountInv
<1>8. PanicInv'
  <2>1. PanicInv
    BY DEF GoodInv
  <2>2. CASE CallNested(i) \/ RunNested(i) \/ ReturnBody(i)
    <3>1. UNCHANGED <<panicked, payload>> /\ pc[i] # "payload" /\ pc'[i] # "payload"
      BY <1>1, <2>2 DEF CallNested, RunNested, ReturnBody, Step, TypeOK, shared
    <3> QED  BY <1>2, <2>1, <3>1 DEF PanicInv
  <2>3. CASE SwapPanicked(i)
    <3>1. pc[i] = "swap" /\ pc'[i] = (IF panicked THEN "count" ELSE "payload")
      BY <1>1, <2>3 DEF SwapPanicked, Step, TypeOK
    <3>2. panicked' /\ payload' = payload
      BY <2>3 DEF SwapPanicked
    <3> QED  BY <1>2, <2>1, <3>1, <3>2 DEF PanicInv
  <2>4. CASE KeepPayload(i)
    <3>1. pc[i] = "payload" /\ pc'[i] = "count" /\ payload' = myData[i] /\ panicked' = panicked
      BY <1>1, <2>4 DEF KeepPayload, Step, TypeOK
    <3>2. myData[i] = call
      BY <1>4, <1>5 DEF LocalOf
    <3> QED  BY <1>2, <2>1, <3>1, <3>2 DEF PanicInv
  <2> QED  BY <2>2, <2>3, <2>4
<1> QED
  BY <1>1, <1>3, <1>6, <1>7, <1>8, <1>2, RunPlace, RunDone
  DEF GoodInv, LocalInv, OrderInv

\* The chunk is counted, once, and i goes on to its next one.
LEMMA CountGood ==
  ASSUME TypeInv, BaseInv, GoodInv, NEW i \in Participants, Count(i)
  PROVE  GoodInv'
<1>1. RunChunks(i) /\ TypeOK
  BY DEF RunChunks, TypeInv
<1>2. /\ Open /\ Open' /\ UNCHANGED <<epoch, seen, call, width>>
      /\ \A j \in Participants : j # i => pc'[j] = pc[j] /\ c'[j] = c[j]
  BY WorkOpen
<1>3. UNCHANGED <<panicked, payload, myNum, myTramp, myData, begun>>
  BY DEF Count, history
<1>4. LocalOf(i) /\ OrderOf(i) /\ call \in Calls
  BY WorkOpen
<1>5. pc[i] = "count" /\ c'[i] = c[i] + N /\ completed' = completed + 1
  BY <1>1 DEF Count, Step, TypeOK
<1>6. /\ myNum[i] = width[call] /\ myTramp[i] = call /\ myData[i] = call /\ c[i] \in Own(i)
      /\ c[i] \in Nat /\ c'[i] \in Own(i)
  BY <1>4, <1>5, OwnNext DEF LocalOf, Running, Flying
<1>7. pc'[i] = (IF c'[i] < width[call] THEN "call" ELSE Finished(i))
  BY <1>1, <1>5, <1>6 DEF Count, Step, TypeOK
<1>8. Finished(i) \in {"barrier", "wait"}
  BY DEF Finished
<1>9. \A j \in Participants : LocalOf(j)' /\ OrderOf(j)'
  <2>1. LocalOf(i)'
    BY <1>2, <1>3, <1>6, <1>7, <1>8 DEF LocalOf, Running, Flying, InChunk
  <2>2. ~Before(i)'
    <3>1. CASE i = 0
      BY <1>7, <1>8, <3>1 DEF Before, Loading
    <3>2. CASE i # 0
      <4>1. seen[i] = epoch
        BY <1>2, <1>5, <3>2, Who DEF GoodInv, PlaceInv
      <4> QED  BY <1>2, <1>7, <1>8, <3>2, <4>1 DEF Before, Loading
    <3> QED  BY <3>1, <3>2
  <2>3. OrderOf(i)'
    <3>1. \A x \in begun[call] \cap Own(i) : x <= c[i] /\ x \in Nat
      BY <1>4, <1>5, OwnNext DEF OrderOf, Flying
    <3>2. \A x \in begun[call] \cap Own(i) : x < c'[i]
      BY <1>5, <1>6, <3>1, SpinAssumption
    <3> QED  BY <1>2, <1>3, <1>7, <1>8, <2>2, <3>2 DEF OrderOf, Flying, InChunk
  <2> QED  BY <1>1, <1>3, <2>1, <2>3, RunOthers, <1>2
<1>10. CountInv'
  <2>1. CountInv /\ c[i] \in Claimed
    BY <1>5 DEF GoodInv, Claimed, Flying
  <2>2. Claimed' = Claimed \ {c[i]}
    <3>1. \A j \in Participants : pc'[j] \in Flying <=> pc[j] \in Flying /\ j # i
      BY <1>2, <1>5, <1>7, <1>8 DEF Flying, InChunk
    <3>2. \A j \in Participants : pc[j] \in Flying /\ j # i => c[j] # c[i]
      BY <1>2, <1>6, OwnDisjoint, Apart DEF GoodInv, LocalInv, LocalOf
    <3> QED  BY <1>2, <3>1, <3>2 DEF Claimed
  <2>3. begun[call] \ Claimed' = (begun[call] \ Claimed) \cup {c[i]}
    BY <1>2, <2>1, <2>2 DEF CountInv
  <2>4. IsFiniteSet(begun[call] \ Claimed)
    BY <1>2, FiniteBegun DEF GoodInv
  <2>5. Cardinality(begun[call] \ Claimed') = Cardinality(begun[call] \ Claimed) + 1
    BY <2>1, <2>3, <2>4, FS_AddElement
  <2> QED  BY <1>2, <1>3, <1>5, <2>1, <2>2, <2>5 DEF CountInv
<1>11. PanicInv'
  <2>1. \A j \in Participants : pc'[j] = "payload" <=> pc[j] = "payload"
    BY <1>2, <1>5, <1>7, <1>8
  <2> QED  BY <1>2, <1>3, <2>1 DEF GoodInv, PanicInv
<1> QED
  BY <1>1, <1>3, <1>9, <1>10, <1>11, <1>2, RunPlace, RunDone
  DEF GoodInv, LocalInv, OrderInv

-----------------------------------------------------------------------------
\* When the barrier passes, every chunk has been run and no thread is at one: a
\* worker with a chunk left, or at one, has not counted it.  The others may still
\* be on their way to find that they have none.
LEMMA BarrierPasses ==
  ASSUME TypeInv, BaseInv, GoodInv, Open, completed >= width[call], pc[0] = "barrier"
  PROVE  /\ begun[call] = 0 .. width[call] - 1
         /\ \A i \in Workers :
              ~OnTheWay(i) \/ (NoChunk(i) /\ pc[i] \in Loading \cup {"wait", "awake"})
<1>1. width[call] \in Nat
  BY FiniteBegun DEF GoodInv
<1>2. begun[call] \ Claimed = 0 .. width[call] - 1
  <2>1. begun[call] \ Claimed \in SUBSET (0 .. width[call] - 1)
    BY DEF GoodInv, CountInv
  <2>2. Cardinality(begun[call] \ Claimed) <= width[call]
    BY <2>1, FiniteBegun, FS_Subset DEF GoodInv
  <2>3. completed = Cardinality(begun[call] \ Claimed) /\ completed \in Nat
    BY DEF GoodInv, CountInv, TypeInv, TypeOK
  <2>4. Cardinality(begun[call] \ Claimed) = width[call]
    BY <1>1, <2>2, <2>3
  <2> QED  BY <2>1, <2>4, FiniteBegun, FS_Subset DEF GoodInv
<1>3. ASSUME NEW i \in Workers
      PROVE  ~OnTheWay(i) \/ (NoChunk(i) /\ pc[i] \in Loading \cup {"wait", "awake"})
  <2>1. LocalOf(i) /\ OrderOf(i) /\ i \in Participants /\ i \in Nat /\ i # 0
    BY Who, Apart DEF GoodInv, LocalInv, OrderInv
  <2>2. pc[i] \notin Flying
    BY <1>2, <2>1 DEF Claimed, LocalOf, GoodInv, CountInv, TypeInv, TypeOK
  <2>3. pc[i] # "call"
    <3> SUFFICES ASSUME pc[i] = "call" PROVE FALSE
      OBVIOUS
    <3>1. c[i] \in Nat /\ c[i] < width[call] /\ c[i] \in Own(i)
      BY <2>1 DEF LocalOf, TypeInv, TypeOK
    <3>2. c[i] \in 0 .. width[call] - 1
      BY <1>1, <3>1
    <3>3. c[i] < c[i]
      BY <1>2, <2>1, <3>1, <3>2 DEF OrderOf
    <3> QED  BY <3>1, <3>3
  <2>4. pc[i] \in Running \cup {"wait", "awake"}
    <3>1. ~shutdown
      BY DEF BaseInv
    <3> QED  BY <3>1 DEF BaseInv
  <2>5. pc[i] \in Loading \cup {"wait", "awake"}
    BY <2>2, <2>3, <2>4 DEF Running, Flying, Loading
  <2>6. CASE i < width[call]
    <3>1. i \in begun[call] \cap Own(i)
      BY <1>1, <1>2, <2>1, <2>6, OwnFirst
    <3>2. ~Before(i)
      BY <2>1, <3>1 DEF OrderOf
    <3> QED  BY <2>1, <2>5, <3>2 DEF Before, OnTheWay
  <2>7. CASE ~(i < width[call])
    BY <1>1, <2>1, <2>5, <2>7 DEF NoChunk, BaseInv
  <2> QED  BY <2>6, <2>7
<1> QED  BY <1>2, <1>3 DEF GoodInv, CountInv

\* So the caller leaves no thread at a chunk.
LEMMA BarrierGood ==
  ASSUME TypeInv, BaseInv, GoodInv, Barrier
  PROVE  GoodInv'
<1>1. /\ pc[0] = "barrier" /\ pc'[0] = "check" /\ Open /\ ~Open' /\ Closing' /\ ~shutdown'
      /\ pc'[0] \notin Publishing
  BY Who DEF Barrier, Step, TypeInv, TypeOK, Open, Closing, Running, InChunk, BaseInv, shared,
     Publishing
<1>2. /\ UNCHANGED <<shared, seen, history, locals>>
      /\ \A i \in Workers : pc'[i] = pc[i]
  BY CallerFrame DEF Barrier, CallerStep
<1>3. /\ begun[call] = 0 .. width[call] - 1
      /\ \A i \in Workers :
           ~OnTheWay(i) \/ (NoChunk(i) /\ pc[i] \in Loading \cup {"wait", "awake"})
  BY <1>1, BarrierPasses DEF Barrier
<1>4. PlaceInv'
  <2>1. \A i \in Workers : (OnTheWay(i)' <=> OnTheWay(i)) /\ (NoChunk(i)' <=> NoChunk(i))
    BY <1>2 DEF OnTheWay, NoChunk, shared, history
  <2> QED  BY <1>1, <1>2, <1>3, <2>1 DEF PlaceInv
<1>5. DoneInv'
  BY <1>1, <1>2, <1>3 DEF DoneInv, history, Publishing
<1>6. LocalInv'
  <2> SUFFICES ASSUME NEW i \in Participants PROVE LocalOf(i)'
    BY DEF LocalInv
  <2>1. CASE i = 0
    BY <1>1, <2>1 DEF LocalOf, Running, Flying, InChunk
  <2>2. CASE i # 0
    BY <1>1, <1>2, <2>2, Who, Apart DEF LocalOf, LocalInv, GoodInv, locals, history
  <2> QED  BY <2>1, <2>2
<1>7. PanicInv'
  <2>1. \A i \in Participants : pc'[i] # "payload" /\ pc[i] # "payload"
    BY <1>1, <1>2, <1>3, Who DEF OnTheWay, Loading
  <2> QED  BY <1>1, <1>2, <2>1 DEF PanicInv, GoodInv, shared, history
<1> QED  BY <1>1, <1>4, <1>5, <1>6, <1>7 DEF GoodInv, OrderInv, CountInv

\* A worker's loop touches none of its chunks.
LEMMA LoopGood ==
  ASSUME TypeInv, BaseInv, GoodInv, NEW i \in Workers, Wake(i) \/ WaitEnds(i) \/ Begin(i)
  PROVE  GoodInv'
<1>1. TypeOK /\ UNCHANGED <<shared, locals, history>> /\ pc'[0] = pc[0]
  BY BaseLoop DEF TypeInv
<1>2. /\ (Open' <=> Open) /\ (Closing' <=> Closing)
      /\ \A j \in Participants : j # i => pc'[j] = pc[j]
      /\ \A j \in Workers : j # i => pc'[j] = pc[j] /\ seen'[j] = seen[j]
  BY <1>1, Who DEF Wake, WaitEnds, Begin, Step, TypeOK, Open, Closing
<1>3. \/ pc[i] = "wait" /\ seen[i] # epoch /\ pc'[i] = "awake" /\ seen'[i] = epoch
      \/ pc[i] = "wait" /\ seen[i] = epoch /\ shutdown /\ pc'[i] = "exit" /\ seen' = seen
      \/ pc[i] = "awake" /\ shutdown /\ pc'[i] = "exit" /\ seen' = seen
      \/ pc[i] = "awake" /\ ~shutdown /\ pc'[i] = "num" /\ seen' = seen
  BY <1>1, Who DEF Wake, WaitEnds, Begin, Step, TypeOK
<1>4. pc[0] \notin Publishing
  <2>1. pc[0] \in Publishing => ~OnTheWay(i) /\ ~shutdown
    BY Apart DEF GoodInv, PlaceInv, BaseInv
  <2> QED  BY <1>3, <2>1 DEF OnTheWay
<1>5. /\ Open => ~shutdown /\ ~Closing
      /\ Closing => ~shutdown
  BY Apart DEF BaseInv
<1>6. PlaceInv'
  <2>1. \A j \in Workers : /\ NoChunk(j)' <=> NoChunk(j)
                           /\ j # i => (OnTheWay(j)' <=> OnTheWay(j))
    BY <1>1, <1>2 DEF NoChunk, OnTheWay, shared, history
  <2>2. UNCHANGED <<epoch, shutdown>>
    BY <1>1 DEF shared
  <2>3. Open => \A j \in Workers : pc'[j] # "wait" => seen'[j] = epoch
    BY <1>2, <1>3, <1>5 DEF GoodInv, PlaceInv
  <2>4. Closing => \A j \in Workers :
          ~OnTheWay(j)' \/ (NoChunk(j) /\ pc'[j] \in Loading \cup {"wait", "awake"})
    <3>1. Closing => NoChunk(i) /\ pc'[i] \in Loading \cup {"awake"}
      BY <1>3, <1>5 DEF GoodInv, PlaceInv, OnTheWay, Loading
    <3> QED  BY <1>2, <2>1, <3>1 DEF GoodInv, PlaceInv
  <2>5. shutdown => \A j \in Workers :
          pc'[j] \in {"wait", "awake", "exit"} \/ (NoChunk(j) /\ pc'[j] \in Loading)
    BY <1>2, <1>3 DEF GoodInv, PlaceInv
  <2> QED  BY <1>1, <1>2, <1>4, <2>1, <2>2, <2>3, <2>4, <2>5 DEF PlaceInv
<1>7. DoneInv'
  BY <1>1 DEF GoodInv, DoneInv, shared, history
<1>8. \A j \in Participants : LocalOf(j)' /\ (Open => OrderOf(j)')
  <2> TAKE j \in Participants
  <2>1. CASE j # i
    <3>1. Before(j)' = Before(j)
      BY <1>1, <1>2, <2>1, Who DEF Before, shared
    <3> QED
      BY <1>1, <1>2, <1>4, <2>1, <3>1
      DEF GoodInv, LocalInv, OrderInv, LocalOf, OrderOf, shared, locals, history
  <2>2. CASE j = i
    <3>1. LocalOf(i)'
      BY <1>3 DEF LocalOf, Running, Flying, InChunk
    <3>2. Open => pc'[i] \in {"awake", "num"} /\ Before(i)
      BY <1>3, <1>5, Who DEF Before
    <3> QED
      BY <1>1, <2>2, <3>1, <3>2 DEF GoodInv, OrderInv, OrderOf, Flying, InChunk, history
  <2> QED  BY <2>1, <2>2
<1>9. CountInv'
  <2>1. Claimed' = Claimed
    BY <1>1, <1>2, <1>3 DEF Claimed, Flying, InChunk, locals
  <2> QED  BY <1>1, <1>2, <2>1 DEF GoodInv, CountInv, shared, history
<1>10. PanicInv'
  <2>1. \A j \in Participants : pc'[j] = "payload" <=> pc[j] = "payload"
    BY <1>2, <1>3
  <2> QED  BY <1>1, <1>2, <2>1 DEF GoodInv, PanicInv, shared, history
<1> QED  BY <1>1, <1>2, <1>6, <1>7, <1>8, <1>9, <1>10 DEF GoodInv, LocalInv, OrderInv

-----------------------------------------------------------------------------
\* Only the lock finds out who is late.
LEMMA LateKept ==
  ASSUME TypeInv, BaseInv, Next
  PROVE  Lock \/ late' = late
<1>1. CASE CallerStep
  BY <1>1, CallerFrame
<1>2. CASE \E i \in Workers : Wake(i) \/ WaitEnds(i) \/ Begin(i)
  BY <1>2, BaseLoop DEF history
<1>3. CASE \E i \in Participants : RunChunks(i)
  BY <1>3, RunFrame
<1> QED  BY <1>1, <1>2, <1>3, Steps DEF CallerStep

\* Every step keeps the invariant.
LEMMA SpinNext == TypeInv /\ SpinInv /\ [Next]_vars => SpinInv'
<1>1. ASSUME TypeInv, SpinInv, Next PROVE SpinInv'
  <2>1. BaseInv'
    BY <1>1, Steps, BaseLock, BaseStore, BaseEnd, BaseRun, BaseLoop DEF SpinInv
  <2>2. ASSUME late' = {} PROVE GoodInv'
    <3>1. CASE Lock
      BY <1>1, <2>2, <3>1, LockGood
    <3>2. CASE ~Lock
      <4>1. BaseInv /\ GoodInv
        BY <1>1, <2>2, <3>2, LateKept DEF SpinInv
      <4>2. CASE \E i \in Participants : RunChunks(i)
        BY <1>1, <4>1, <4>2, LoadGood, BodyGood, FlightGood, CountGood DEF RunChunks
      <4>3. CASE \E i \in Workers : Wake(i) \/ WaitEnds(i) \/ Begin(i)
        BY <1>1, <4>1, <4>3, LoopGood
      <4> QED
        BY <1>1, <3>2, <4>1, <4>2, <4>3, Steps, StoreGood, EndGood, BumpGood, BarrierGood
    <3> QED  BY <3>1, <3>2
  <2> QED  BY <2>1, <2>2 DEF SpinInv
<1>2. ASSUME SpinInv, UNCHANGED vars PROVE SpinInv'
  <2>1. /\ Open' = Open /\ Claimed' = Claimed /\ Closing' = Closing
        /\ \A i : NoChunk(i)' = NoChunk(i) /\ OnTheWay(i)' = OnTheWay(i)
    BY <1>2 DEF Open, Closing, Claimed, NoChunk, OnTheWay, vars, shared, locals, history
  <2>2. BaseInv'
    BY <1>2, <2>1 DEF SpinInv, BaseInv, vars, shared, locals, history
  <2>3. ASSUME late' = {} PROVE GoodInv'
    <3>1. GoodInv
      BY <1>2, <2>3 DEF SpinInv, vars, history
    <3> QED
      BY <1>2, <2>1, <3>1
      DEF GoodInv, PlaceInv, DoneInv, LocalInv, LocalOf, OrderInv, OrderOf, Before, CountInv,
          PanicInv, vars, shared, locals, history
  <2> QED  BY <2>2, <2>3 DEF SpinInv
<1> QED  BY <1>1, <1>2

\* Nobody is late while every call has had a chunk for every thread.
LEMMA LateNext == TypeInv /\ SpinInv /\ NobodyLate /\ [Next]_vars => NobodyLate'
<1> SUFFICES ASSUME TypeInv, SpinInv, NobodyLate, [Next]_vars, WideBefore' PROVE late' = {}
  BY DEF NobodyLate
<1>1. CASE Lock
  <2>1. call' = call + 1 /\ call \in Nat /\ pc[0] = "free"
    BY <1>1, SpinAssumption, Who DEF Lock, Step, TypeInv, TypeOK, Calls
  <2>2. \A k \in Calls : k <= call => width[k] >= N
    <3>1. ASSUME NEW k \in Calls, k <= call PROVE width[k] >= N
      <4>1. k < call' /\ k # call'
        BY <2>1, <3>1 DEF Calls
      <4>2. width'[k] = width[k]
        BY <1>1, <4>1 DEF Lock, TypeInv, TypeOK
      <4> QED  BY <4>1, <4>2 DEF WideBefore
    <3> QED  BY <3>1
  <2>3. WideBefore
    BY <2>1, <2>2 DEF WideBefore, Calls
  <2>4. GoodInv
    BY <2>3 DEF NobodyLate, SpinInv
  <2>5. ASSUME NEW i \in Workers PROVE ~NoChunk(i)
    <3> SUFFICES ASSUME call # 0 PROVE ~(i >= width[call])
      BY DEF NoChunk
    <3>1. call \in Calls /\ call <= call
      BY <2>1 DEF TypeInv, TypeOK
    <3>2. width[call] >= N /\ width[call] \in Widths
      BY <2>2, <3>1 DEF SpinInv, BaseInv
    <3>3. i \in Nat /\ i < N /\ N \in Nat
      BY SpinAssumption DEF Workers
    <3>4. width[call] \in Nat
      BY <3>2, SpinAssumption
    <3> QED  BY <3>2, <3>3, <3>4
  <2>6. \A i \in Workers : ~OnTheWay(i)
    BY <2>1, <2>4, <2>5 DEF GoodInv, PlaceInv, Closing
  <2> QED  BY <1>1, <2>6 DEF Lock
<1>2. CASE Next /\ ~Lock
  <2>1. late' = late
    BY <1>2, LateKept DEF SpinInv
  <2>2. UNCHANGED <<call, width>>
    BY <1>2, Steps, CallerFrame, RunFrame, BaseLoop DEF CallerStep, SpinInv, history
  <2> QED  BY <2>1, <2>2 DEF NobodyLate, WideBefore
<1>3. CASE UNCHANGED vars
  BY <1>3 DEF NobodyLate, WideBefore, vars, history
<1> QED  BY <1>1, <1>2, <1>3

\* The invariants hold throughout.
LEMMA SpinAlways == Spec => [](TypeInv /\ SpinInv /\ NobodyLate)
<1>1. Init => NobodyLate
  BY DEF Init, NobodyLate
<1> QED  BY <1>1, TypeInit, TypeNext, SpinInit, SpinNext, LateNext, PTL DEF Spec

\* No thread is in a body of a call that has returned: in a call to which nobody
\* comes late, of whatever width, the barrier of for_each_chunk keeps the closure
\* until every trampoline call is over.
THEOREM ClosureAlwaysAlive == Spec => []ClosureAlive
<1>1. TypeInv /\ SpinInv => ClosureAlive
  <2> SUFFICES ASSUME TypeInv, SpinInv, late = {}, NEW i \in Participants, pc[i] \in InChunk
               PROVE  outcome[myData[i]] = Pending /\ myTramp[i] = myData[i]
    BY DEF ClosureAlive
  <2>1. GoodInv /\ BaseInv /\ pc[i] \in Flying /\ pc[i] \in Running
    BY DEF Flying, Running, SpinInv
  <2>2. Open
    <3>1. CASE i = 0
      BY <2>1, <3>1 DEF Open
    <3>2. CASE i # 0
      <4>1. pc[i] \notin Loading \cup {"wait", "awake", "exit"}
        BY DEF InChunk, Loading
      <4>2. ~Closing /\ ~shutdown /\ pc[0] \notin Publishing
        BY <2>1, <3>2, <4>1, Who DEF GoodInv, PlaceInv, OnTheWay
      <4>3. pc[0] \in Points
        BY Who DEF TypeInv, TypeOK
      <4> QED  BY <2>1, <4>2, <4>3 DEF Points, Open, Closing, BaseInv
    <3> QED  BY <3>1, <3>2
  <2>3. LocalOf(i) /\ outcome[call] = Pending
    BY <2>1, <2>2, Apart DEF GoodInv, BaseInv, LocalInv
  <2> QED  BY <2>1, <2>3 DEF LocalOf
<1> QED  BY <1>1, SpinAlways, PTL

\* Each chunk of a call to which nobody comes late is run once, as the comment on
\* completed says of any call.
THEOREM ChunksOnlyOnce == Spec => [][late = {} => OnceOnly]_vars
<1>1. ASSUME TypeInv, SpinInv, [Next]_vars PROVE [late = {} => OnceOnly]_vars
  <2> SUFFICES ASSUME Next, late = {}, NEW i \in Participants, pc[i] = "call", pc'[i] = "body"
               PROVE  CallBody(i)
    BY <1>1, BodyGood DEF SpinInv, OnceOnly
  <2>1. \A j \in Participants : RunChunks(j) => i = j
    BY <1>1, RunFrame DEF SpinInv
  <2>2. i = 0 \/ i \in Workers
    BY Who
  <2>3. \E j \in Participants : RunChunks(j)
    BY <1>1, Steps, Who
    DEF TypeInv, TypeOK, Step, Lock, StoreData, StoreTramp, StoreNum, StoreCompleted,
        StorePanicked, Bump, Barrier, CheckPanicked, TakePayload, Drop, DropBump, Join, Wake,
        WaitEnds, Begin
  <2> QED
    BY <1>1, <2>1, <2>3
    DEF RunChunks, TypeInv, TypeOK, Step, LoadNum, LoadTramp, LoadData, CallNested, RunNested,
        ReturnBody, SwapPanicked, KeepPayload, Count, Finished
<1> QED  BY <1>1, SpinAlways, PTL DEF Spec

-----------------------------------------------------------------------------
\* Outside an open call no thread is at a chunk.
LEMMA ClosedQuiet ==
  ASSUME TypeInv, BaseInv, GoodInv, ~Open
  PROVE  /\ \A i \in Participants : pc[i] \notin InChunk \cup {"swap", "payload"}
         /\ InBodies = {}
<1>1. pc[0] \in Publishing \/ Closing \/ shutdown
  <2>1. pc[0] \in Points
    BY Who DEF TypeInv, TypeOK
  <2> QED  BY <2>1 DEF Points, Open, Closing, BaseInv
<1>2. \A i \in Workers : pc[i] \in Loading \cup {"wait", "awake", "exit"}
  BY <1>1 DEF GoodInv, PlaceInv, OnTheWay
<1>3. pc[0] \notin InChunk \cup {"swap", "payload"}
  BY DEF Open, Running
<1>4. \A i \in Participants : pc[i] \notin InChunk \cup {"swap", "payload"}
  BY <1>2, <1>3, Who DEF Loading, InChunk
<1> QED  BY <1>4 DEF InBodies

\* In an open call the chunk of a thread in a body is no other thread's.
LEMMA ChunksDiffer ==
  ASSUME TypeInv, BaseInv, GoodInv, Open, NEW i \in Participants, NEW j \in Participants, i # j,
         pc[i] \in Flying \cup {"call"}, pc[j] \in Flying \cup {"call"}
  PROVE  c[i] # c[j]
<1>1. c[i] \in Own(i) /\ c[j] \in Own(j)
  BY Apart DEF GoodInv, LocalInv, LocalOf
<1> QED  BY <1>1, OwnDisjoint

\* A step by which the caller sees no difference.
Unseen == UNCHANGED <<Todo, InBodies, Failed, Result>>

\* The lock is the call, whatever became of the call before it.
LEMMA LockRefines ==
  ASSUME TypeInv, SpinInv, Lock, late' = {}
  PROVE  ForEach!Call
<1>1. /\ call' \in Calls /\ call' = call + 1 /\ call' > call /\ pc[0] = "free"
      /\ pc'[0] = "store_data" /\ UNCHANGED <<outcome, begun, c>>
  BY SpinAssumption, Who DEF Lock, Step, TypeInv, TypeOK, Calls, locals
<1>2. PICK w \in Widths : width' = [width EXCEPT ![call'] = w]
  BY DEF Lock
<1>3. width'[call'] = w /\ begun'[call'] = {} /\ outcome'[call'] = Pending /\ call' # 0
  BY <1>1, <1>2 DEF TypeInv, TypeOK, SpinInv, BaseInv, Calls
<1>4. Result' = "busy" /\ Todo' = 0 .. w - 1
  BY <1>3 DEF Result, Todo
<1>5. Result # "busy"
  BY <1>1 DEF Result, SpinInv, BaseInv
<1>6. Failed' = FALSE
  BY <1>1 DEF Failed, Publishing
<1>7. InBodies = {} /\ InBodies' = {}
  <2>1. \A i \in Workers : pc[i] = "wait" /\ pc'[i] = "wait"
    BY CallerFrame DEF Lock, OnTheWay, CallerStep
  <2>2. \A i \in Participants : pc[i] \notin InChunk /\ pc'[i] \notin InChunk
    BY <1>1, <2>1, Who DEF InChunk
  <2> QED  BY <2>2 DEF InBodies
<1> QED  BY <1>4, <1>5, <1>6, <1>7 DEF ForEach!Call

\* What ends a call is the return.
LEMMA ClosedRefines ==
  ASSUME TypeInv, BaseInv, GoodInv,
         \/ StoreData \/ StoreTramp \/ StoreNum \/ StoreCompleted \/ StorePanicked
         \/ CheckPanicked \/ TakePayload \/ Drop \/ DropBump \/ Join
  PROVE  Unseen \/ ForEach!Return
<1>1. ~Open /\ TypeOK /\ BaseInv /\ DoneInv /\ PanicInv
  BY DEF TypeInv, GoodInv, Open, Running, InChunk, Step, StoreData, StoreTramp, StoreNum,
     StoreCompleted, StorePanicked, CheckPanicked, TakePayload, Drop, DropBump, Join
<1>2. /\ pc'[0] \notin Running
      /\ \A i \in Participants : i # 0 => pc'[i] = pc[i]
  BY <1>1, Who DEF Running, InChunk, TypeOK, Step, StoreData, StoreTramp, StoreNum, StoreCompleted,
     StorePanicked, CheckPanicked, TakePayload, Drop, DropBump, Join
<1>3. \A i \in Participants : /\ pc[i] \notin InChunk \cup {"swap", "payload"}
                              /\ pc'[i] \notin InChunk \cup {"swap", "payload"}
  BY <1>1, <1>2, ClosedQuiet DEF Running
<1>4. InBodies = {} /\ InBodies' = {}
  BY <1>3 DEF InBodies
<1>5. /\ Failed <=> call # 0 /\ pc[0] \notin Publishing /\ panicked
      /\ Failed' <=> call' # 0 /\ pc'[0] \notin Publishing /\ panicked'
  BY <1>3 DEF Failed
<1>6. CASE StoreData \/ StoreTramp \/ StoreNum \/ StoreCompleted \/ StorePanicked
  <2>1. UNCHANGED <<call, width, outcome, begun>> /\ pc[0] \in Publishing /\ pc'[0] \in Publishing
    BY <1>1, <1>6, Who DEF StoreData, StoreTramp, StoreNum, StoreCompleted, StorePanicked, Step,
       TypeOK, history, Publishing
  <2> QED  BY <1>4, <2>1 DEF Unseen, Todo, Result, Failed
<1>7. CASE CheckPanicked /\ panicked
  <2>1. /\ UNCHANGED <<call, width, outcome, begun, panicked>>
        /\ pc[0] \notin Publishing /\ pc'[0] \notin Publishing
    BY <1>1, <1>7, Who DEF CheckPanicked, Step, TypeOK, shared, Publishing
  <2> QED  BY <1>4, <1>5, <2>1 DEF Unseen, Todo, Result, Failed
<1>8. CASE TakePayload \/ (CheckPanicked /\ ~panicked)
  <2>1. /\ UNCHANGED <<call, width, begun, panicked>> /\ pc[0] \in {"check", "take"}
        /\ pc'[0] = "free"
    BY <1>1, <1>8, Who DEF CheckPanicked, TakePayload, Step, TypeOK, shared
  <2>2. /\ call # 0 /\ call \in Calls /\ outcome[call] = Pending
        /\ begun[call] = 0 .. width[call] - 1
    BY <1>1, <2>1 DEF BaseInv, DoneInv, TypeOK
  <2>3. Todo = {} /\ Todo' = {} /\ Result = "busy"
    BY <2>1, <2>2 DEF Todo, Result
  <2>4. Failed <=> panicked
    BY <1>5, <2>1, <2>2 DEF Publishing
  <2>5. Failed' = Failed
    BY <1>5, <2>1 DEF Publishing, Failed
  <2>6. CASE TakePayload
    <3>1. panicked /\ payload = call
      BY <1>1, <1>3, <2>6 DEF BaseInv, PanicInv, TakePayload, Step
    <3>2. outcome'[call] = call
      BY <1>1, <2>2, <2>6, <3>1 DEF TakePayload, TypeOK, Null
    <3>3. Result' = "raised"
      BY <2>1, <2>2, <3>2 DEF Result, Pending, Done, Calls
    <3> QED  BY <1>4, <2>3, <2>4, <2>5, <3>1, <3>3 DEF ForEach!Return
  <2>7. CASE CheckPanicked /\ ~panicked
    <3>1. outcome'[call] = Done
      BY <1>1, <2>2, <2>7 DEF CheckPanicked, TypeOK
    <3>2. Result' = "ok"
      BY <2>1, <2>2, <3>1 DEF Result, Pending, Done
    <3> QED  BY <1>4, <2>3, <2>4, <2>5, <2>7, <3>2 DEF ForEach!Return
  <2> QED  BY <1>8, <2>6, <2>7
<1>9. CASE Drop \/ DropBump \/ Join
  <2>1. /\ UNCHANGED <<call, width, outcome, begun, panicked>>
        /\ pc[0] \notin Publishing /\ pc'[0] \notin Publishing
    BY <1>1, <1>9, Who DEF Drop, DropBump, Join, Step, TypeOK, shared, history, Publishing
  <2> QED  BY <1>4, <1>5, <2>1 DEF Unseen, Todo, Result, Failed
<1> QED  BY <1>6, <1>7, <1>8, <1>9

\* The bump, the barrier and the workers' loops are not seen.
LEMMA QuietRefines ==
  ASSUME TypeInv, BaseInv, GoodInv,
         Bump \/ Barrier \/ \E i \in Workers : Wake(i) \/ WaitEnds(i) \/ Begin(i)
  PROVE  Unseen
<1>1. UNCHANGED <<call, width, outcome, begun, panicked, c>>
  BY DEF Bump, Barrier, Wake, WaitEnds, Begin, shared, locals, history
<1>2. \A j \in Participants :
        /\ pc'[j] \in InChunk <=> pc[j] \in InChunk
        /\ pc'[j] \in {"swap", "payload"} <=> pc[j] \in {"swap", "payload"}
  BY DEF TypeInv, TypeOK, Step, Bump, Barrier, Wake, WaitEnds, Begin, InChunk
<1>3. InBodies' = InBodies
  BY <1>1, <1>2 DEF InBodies
<1>4. Failed' = Failed
  <2>1. CASE Bump
    <3>1. pc[0] = "bump" /\ ~Open /\ ~panicked
      BY <2>1 DEF Bump, Step, GoodInv, DoneInv, Open, Running, InChunk
    <3>2. \A j \in Participants : pc[j] \notin {"swap", "payload"}
      BY <3>1, ClosedQuiet
    <3> QED  BY <1>1, <1>2, <3>1, <3>2 DEF Failed, Publishing
  <2>2. CASE Barrier \/ \E i \in Workers : Wake(i) \/ WaitEnds(i) \/ Begin(i)
    <3>1. pc'[0] \in Publishing <=> pc[0] \in Publishing
      BY <2>2, Who DEF TypeInv, TypeOK, Step, Barrier, Wake, WaitEnds, Begin, Publishing
    <3> QED  BY <1>1, <1>2, <3>1 DEF Failed
  <2> QED  BY <2>1, <2>2
<1> QED  BY <1>1, <1>3, <1>4 DEF Unseen, Todo, Result

\* In run_chunks, the entry of a body begins its chunk and the return ends it.
LEMMA RunRefines ==
  ASSUME TypeInv, BaseInv, GoodInv, NEW i \in Participants, RunChunks(i)
  PROVE  Unseen \/ ForEach!Start(c[i]) \/ ForEach!Finish(c[i])
<1>1. /\ UNCHANGED <<call, width, outcome>> /\ TypeOK
      /\ \A j \in Participants : j # i => pc'[j] = pc[j] /\ c'[j] = c[j]
      /\ pc'[i] \in Running \cup {Finished(i)}
  BY RunFrame DEF TypeInv
<1>2. /\ call # 0 /\ call \in Calls /\ Result' = Result
      /\ pc[0] \notin Publishing /\ pc'[0] \notin Publishing
  <2>1. pc[0] \notin Publishing /\ (Open' <=> Open)
    BY RunWhere, RunFrame
  <2>2. call # 0 /\ call \in Calls
    BY <1>1, RunWhere DEF BaseInv, NoChunk, TypeOK
  <2>3. pc'[0] \notin Publishing
    <3>1. CASE i = 0
      BY <2>1, <3>1, RunFrame DEF Open, Running, InChunk, Publishing
    <3>2. CASE i # 0
      BY <1>1, <2>1, <3>2, Who
    <3> QED  BY <3>1, <3>2
  <2> QED  BY <1>1, <2>1, <2>2, <2>3 DEF Result
<1>3. CASE CallBody(i)
  <2>1. c[i] \notin begun[call] /\ myData[i] = call
    BY <1>3, BodyGood
  <2>2. pc[i] = "call" /\ pc'[i] = "body" /\ UNCHANGED <<c, panicked>>
    BY <1>1, <1>3 DEF CallBody, Step, TypeOK, locals, shared
  <2>3. begun'[call] = begun[call] \cup {c[i]}
    BY <1>1, <1>2, <1>3, <2>1 DEF CallBody, TypeOK
  <2>4. c[i] \in 0 .. width[call] - 1
    <3>1. c[i] \in Nat /\ c[i] < width[call]
      BY <1>1, <1>2, <2>2 DEF GoodInv, LocalInv, LocalOf, TypeOK
    <3> QED  BY <1>3, <3>1, FiniteBegun, WorkOpen DEF GoodInv
  <2>5. c[i] \in Todo /\ Todo' = Todo \ {c[i]}
    BY <1>1, <1>2, <2>1, <2>3, <2>4 DEF Todo
  <2>6. InBodies' = InBodies \cup {c[i]}
    <3>1. \A j \in Participants : pc'[j] \in InChunk <=> pc[j] \in InChunk \/ j = i
      BY <1>1, <2>2 DEF InChunk
    <3> QED  BY <2>2, <3>1 DEF InBodies
  <2>7. Failed' = Failed
    BY <1>1, <1>2, <2>2 DEF Failed
  <2> QED  BY <1>2, <2>5, <2>6, <2>7 DEF ForEach!Start
<1>4. ASSUME ~CallBody(i) PROVE Todo' = Todo
  <2>1. begun' = begun
    BY <1>4 DEF RunChunks, LoadNum, LoadTramp, LoadData, CallNested, RunNested, ReturnBody,
       SwapPanicked, KeepPayload, Count, history
  <2> QED  BY <1>1, <2>1 DEF Todo
<1>5. CASE ReturnBody(i)
  <2>1. /\ pc[i] \in InChunk /\ pc'[i] \in {"count", "swap"} /\ UNCHANGED <<c, panicked>>
        /\ ~CallBody(i)
    BY <1>1, <1>5 DEF ReturnBody, CallBody, Step, TypeOK, InChunk, locals, shared
  <2>2. InBodies' = InBodies \ {c[i]} /\ c[i] \in InBodies
    <3>1. \A j \in Participants : pc'[j] \in InChunk <=> pc[j] \in InChunk /\ j # i
      BY <1>1, <2>1 DEF InChunk
    <3>2. \A j \in Participants : pc[j] \in InChunk /\ j # i => c[j] # c[i]
      BY <1>1, <1>5, <2>1, ChunksDiffer, WorkOpen DEF Flying
    <3> QED  BY <2>1, <3>1, <3>2 DEF InBodies
  <2>3. Failed' = Failed \/ Failed' = TRUE
    BY <1>1, <1>2, <2>1 DEF Failed, InChunk
  <2> QED  BY <1>2, <1>4, <2>1, <2>2, <2>3 DEF ForEach!Finish
<1>6. CASE \/ LoadNum(i) \/ LoadTramp(i) \/ LoadData(i) \/ CallNested(i) \/ RunNested(i)
           \/ SwapPanicked(i) \/ KeepPayload(i) \/ Count(i)
  <2>1. /\ ~CallBody(i) /\ (pc'[i] \in InChunk <=> pc[i] \in InChunk)
        /\ pc[i] \in InChunk => c'[i] = c[i]
    BY <1>1, <1>6 DEF LoadNum, LoadTramp, LoadData, CallNested, RunNested, SwapPanicked,
       KeepPayload, Count, CallBody, Step, TypeOK, InChunk, Finished, locals
  <2>2. InBodies' = InBodies
    <3>1. \A j \in Participants :
            (pc'[j] \in InChunk <=> pc[j] \in InChunk) /\ (pc[j] \in InChunk => c'[j] = c[j])
      BY <1>1, <2>1
    <3> QED  BY <3>1 DEF InBodies
  <2>3. Failed' = Failed
    <3>1. CASE SwapPanicked(i)
      <4>1. pc[i] = "swap" /\ panicked'
        BY <3>1 DEF SwapPanicked, Step
      <4> QED  BY <1>1, <1>2, <4>1 DEF Failed
    <3>2. CASE KeepPayload(i)
      <4>1. pc[i] = "payload" /\ panicked' = panicked /\ panicked
        BY <1>1, <3>2, WorkOpen DEF KeepPayload, Step, GoodInv, PanicInv
      <4> QED  BY <1>1, <1>2, <4>1 DEF Failed
    <3>3. CASE \/ LoadNum(i) \/ LoadTramp(i) \/ LoadData(i) \/ CallNested(i) \/ RunNested(i)
               \/ Count(i)
      <4>1. /\ panicked' = panicked
            /\ pc[i] \notin {"swap", "payload"} /\ pc'[i] \notin {"swap", "payload"}
        BY <1>1, <3>3 DEF LoadNum, LoadTramp, LoadData, CallNested, RunNested, Count, Step,
           TypeOK, Finished, shared
      <4> QED  BY <1>1, <1>2, <4>1 DEF Failed
    <3> QED  BY <1>6, <3>1, <3>2, <3>3
  <2> QED  BY <1>2, <1>4, <2>1, <2>2, <2>3 DEF Unseen
<1> QED  BY <1>3, <1>5, <1>6 DEF RunChunks

\* The pool implements ForEachChunk in every call to which nobody comes late: to
\* its callers it is a loop over the chunks, however the threads' steps fall.  And
\* nobody comes late until a call has been narrower than the pool.
THEOREM PoolRunsLikeALoop == Spec => RunsLikeALoop
<1>1. Init => ForEach!Init
  <2> SUFFICES ASSUME Init PROVE ForEach!Init
    OBVIOUS
  <2>1. call = 0 /\ \A i \in Participants : pc[i] \notin InChunk
    BY DEF Init, InChunk
  <2> QED  BY <2>1 DEF ForEach!Init, Todo, InBodies, Failed, Result
<1>2. ASSUME TypeInv, SpinInv, [Next]_vars
      PROVE  [late' = {} => ForEach!Next]_ForEach!abstract
  <2>1. CASE UNCHANGED vars
    BY <2>1 DEF vars, shared, locals, history, ForEach!abstract, Todo, InBodies, Failed, Result
  <2>2. CASE Next /\ late' = {}
    <3>1. CASE Lock
      BY <1>2, <2>2, <3>1, LockRefines DEF ForEach!Next
    <3>2. CASE ~Lock
      <4>1. BaseInv /\ GoodInv
        BY <1>2, <2>2, <3>2, LateKept DEF SpinInv
      <4>2. Unseen => UNCHANGED ForEach!abstract
        BY DEF Unseen, ForEach!abstract
      <4>3. ASSUME NEW i \in Participants, RunChunks(i)
            PROVE  Unseen \/ ForEach!Next
        BY <1>2, <4>1, <4>3, RunRefines DEF ForEach!Next, ForEach!Start, ForEach!Finish
      <4> QED
        BY <1>2, <2>2, <3>2, <4>1, <4>2, <4>3, Steps, ClosedRefines, QuietRefines
        DEF ForEach!Next
    <3> QED  BY <3>1, <3>2
  <2> QED  BY <1>2, <2>1, <2>2
<1> QED  BY <1>1, <1>2, SpinAlways, PTL DEF RunsLikeALoop, Spec
=============================================================================

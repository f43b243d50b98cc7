----------------------------- MODULE GridProofs -----------------------------
(***************************************************************************)
(* Proofs about the grid, for all numbers of servers, streams, layers and  *)
(* replicas, all channel capacities and all budgets: its types, the layer  *)
(* index, the protocol of the Join streams (StreamsInv is inductive) and   *)
(* that it keeps what SpareOffer promises.                                 *)
(***************************************************************************)
EXTENDS GridInvariant, SequenceTheorems, TLAPS

-----------------------------------------------------------------------------
(* Types of the operators the model is built from. *)

\* The placeholders of free slots are a slice, an entry and a job.
LEMMA NoSliceType == NoSlice \in Slice
  BY ModelsAssumption, MaxLayerAssumption, MaxExpertAssumption DEF NoSlice, Slice, Layers

\* What register_with_sender inserts for an announced slice is a server entry.
LEMMA NewEntryType ==
  ASSUME NEW x \in Slice, NEW h \in Hashes
  PROVE  NewEntry(x, h) \in ServerEntry
  BY DEF NewEntry, ServerEntry, Lat, NoLat

\* The placeholder of a server that is not registered is an entry.
LEMMA NoEntryType == NoEntry \in ServerEntry
  BY NoSliceType, NewEntryType DEF NoEntry, Hashes

\* The placeholder of a process without an assignment is an AssignMsg.
LEMMA NoJobType == NoJob \in AssignMsg
  BY NoSliceType DEF NoJob, NoSlice, AssignMsg, Assign, Hashes

\* The placeholder owner of a free slot is a process.
LEMMA NobodyType == Nobody \in Procs
  BY ProcsAssumption DEF Nobody

\* The layer indexes of any server map have their type.
LEMMA TablesType ==
  ASSUME NEW D \in SUBSET Streams, NEW I
  PROVE  /\ RouteTable(D, I) \in [Models \X Layers -> SUBSET Streams]
         /\ AnyModelTable(D, I) \in [Layers -> SUBSET Streams]
  BY DEF RouteTable, AnyModelTable, Owners

\* What a loop of try_assign_gap sends: AssignMsgs, to spares only.
LEMMA AssignmentsType ==
  ASSUME NEW D \in SUBSET Streams, info \in [Streams -> ServerEntry],
         NEW work \in SUBSET Slice, NEW spares, NEW sorted,
         NEW f \in Assignments(D, work, spares, sorted)
  PROVE  /\ DOMAIN f \subseteq spares
         /\ \A t \in DOMAIN f : f[t] \in AssignMsg
<1>1. PICK p \in Placements(Fillable(D, work), spares, sorted) :
        \E o \in OriginChoices(D, p) :
          f = [t \in DOMAIN p |-> Assign(p[t], info[o[t]].hash)]
  BY DEF Assignments
<1>2. PICK o \in OriginChoices(D, p) :
        f = [t \in DOMAIN p |-> Assign(p[t], info[o[t]].hash)]
  BY <1>1
<1>3. PICK S \in SUBSET spares : p \in [S -> Fillable(D, work)]
  BY DEF Placements, Injection
<1>4. \A t \in DOMAIN p : p[t] \in Slice
  BY <1>3 DEF Fillable
<1>5. \A t \in DOMAIN p : o[t] \in Streams
  BY <1>2 DEF OriginChoices
<1>6. \A t \in DOMAIN p : info[o[t]].hash \in Hashes
  BY <1>5 DEF ServerEntry
<1>7. \A t \in DOMAIN p : f[t] \in AssignMsg
  BY <1>2, <1>4, <1>6 DEF Assign, AssignMsg
<1> QED
  BY <1>2, <1>3, <1>7

\* Every gap and every under-replicated slice is a slice.
LEMMA WorkType ==
  ASSUME NEW D \in SUBSET Streams, info \in [Streams -> ServerEntry]
  PROVE  /\ \A gaps \in CoverageGaps(D, info) : gaps \in SUBSET Slice
         /\ UnderReplicated(D, info, Target, elevated) \in SUBSET Slice
         /\ OverReplicated(D, info, Target, elevated) \in SUBSET Slice
<1>1. \A gaps \in CoverageGaps(D, info) : gaps \in SUBSET Slice
  BY DEF CoverageGaps, GapsGiven
<1>2. LiveSlices(D, info) \in SUBSET Slice
  BY DEF LiveSlices, ServerEntry
<1> QED
  BY <1>1, <1>2 DEF UnderReplicated, OverReplicated

-----------------------------------------------------------------------------
(* Types of the channel operations. *)

\* A message sent into a channel with room keeps its type and capacity.
LEMMA AppendType ==
  ASSUME NEW S, NEW q \in Seq(S), NEW m \in S, Len(q) < Cap
  PROVE  Append(q, m) \in Seq(S) /\ Len(Append(q, m)) <= Cap
  BY AppendProperties, LenProperties, CapAssumption

\* try_send keeps a channel within its type and its capacity.
LEMMA PushedType ==
  ASSUME NetTypeOK, NEW s \in Streams, NEW m \in RouterMessage
  PROVE  Pushed(s, m) \in Seq(RouterMessage) /\ Len(Pushed(s, m)) <= Cap
  BY AppendType DEF NetTypeOK, Pushed, Sendable

\* Taking the next message keeps the other channels as they are.
LEMMA TakesType ==
  ASSUME NetTypeOK, NEW s \in Streams, NEW ty, Takes(s, ty)
  PROVE  /\ up' \in [Streams -> Seq(ServerMessage)]
         /\ \A t \in Streams : Len(up'[t]) <= Cap
         /\ Head(up[s]) \in ServerMessage
         /\ Head(up[s]).type = ty
<1>1. /\ up[s] \in Seq(ServerMessage)
      /\ up[s] # <<>>
      /\ Len(up[s]) <= Cap
  BY DEF NetTypeOK, Takes
<1>2. /\ Head(up[s]) \in ServerMessage
      /\ Tail(up[s]) \in Seq(ServerMessage)
      /\ Len(Tail(up[s])) = Len(up[s]) - 1
  BY <1>1, HeadTailProperties
<1>3. Len(Tail(up[s])) <= Cap
  BY <1>1, <1>2, LenProperties, CapAssumption
<1> QED
  BY <1>1, <1>2, <1>3 DEF NetTypeOK, Takes

\* A server that receives gets a router message and shortens one channel.
LEMMA ReceivesType ==
  ASSUME NetTypeOK, NEW s \in Streams, NEW ty, Receives(s, ty)
  PROVE  /\ down' \in [Streams -> Seq(RouterMessage)]
         /\ \A t \in Streams : Len(down'[t]) <= Cap
         /\ Head(down[s]) \in RouterMessage
         /\ Head(down[s]).type = ty
<1>1. /\ down[s] \in Seq(RouterMessage)
      /\ down[s] # <<>>
      /\ Len(down[s]) <= Cap
  BY DEF NetTypeOK, Receives
<1>2. /\ Head(down[s]) \in RouterMessage
      /\ Tail(down[s]) \in Seq(RouterMessage)
      /\ Len(Tail(down[s])) = Len(down[s]) - 1
  BY <1>1, HeadTailProperties
<1>3. Len(Tail(down[s])) <= Cap
  BY <1>1, <1>2, LenProperties, CapAssumption
<1> QED
  BY <1>1, <1>2, <1>3 DEF NetTypeOK, Receives

\* A server that sends keeps its channel within type and capacity.
LEMMA SendUpType ==
  ASSUME NetTypeOK, NEW s \in Streams, NEW m \in ServerMessage,
         CanSendUp(s), SendUp(s, m)
  PROVE  /\ up' \in [Streams -> Seq(ServerMessage)]
         /\ \A t \in Streams : Len(up'[t]) <= Cap
  BY AppendType DEF NetTypeOK, CanSendUp, SendUp

\* A hang-up leaves prefixes and empty channels.
LEMMA HangupType ==
  ASSUME NetTypeOK, NEW s \in Streams, Hangup(s)
  PROVE  NetTypeOK'
<1>1. <<>> \in Seq(RouterMessage) /\ Len(<<>>) = 0
  BY EmptySeq
<1>2. /\ down' \in [Streams -> Seq(RouterMessage)]
      /\ \A t \in Streams : Len(down'[t]) <= Cap
  BY <1>1, CapAssumption DEF NetTypeOK, Hangup
<1>3. CASE link[s] = "open"
  <2>1. PICK k \in 0 .. Len(up[s]) : up' = [up EXCEPT ![s] = SubSeq(@, 1, k)]
    BY <1>3 DEF Hangup
  <2>2. up[s] \in Seq(ServerMessage) /\ Len(up[s]) \in Nat /\ Len(up[s]) <= Cap
    BY LenProperties DEF NetTypeOK
  <2>3. \A i \in 1 .. k : up[s][i] \in ServerMessage
    BY <2>2, ElementOfSeq
  <2>4. /\ SubSeq(up[s], 1, k) \in Seq(ServerMessage)
        /\ Len(SubSeq(up[s], 1, k)) <= Cap
    BY <2>2, <2>3, SubSeqProperties, CapAssumption
  <2> QED
    BY <1>2, <1>3, <2>1, <2>4 DEF NetTypeOK, Hangup
<1>4. CASE link[s] # "open"
  BY <1>2, <1>4, NobodyType DEF NetTypeOK, Hangup
<1> QED
  BY <1>3, <1>4

-----------------------------------------------------------------------------
(* Type correctness, one lemma per component. *)

\* The fields of a message, by its type.
LEMMA MessageFields ==
  ASSUME NEW m \in ServerMessage
  PROVE  /\ m.type = "announce" => m.slice \in Slice /\ m.hash \in Hashes
         /\ m.type = "ready" => m.slice \in Slice
         /\ m.type = "heartbeat" => m.beat \in Beats
  BY DEF ServerMessage

\* The three messages the router sends are router messages.
LEMMA RouterMessages ==
  /\ Ack \in RouterMessage
  /\ Unassign \in RouterMessage
  /\ AssignMsg \subseteq RouterMessage
  BY DEF RouterMessage, Ack, Unassign

\* The messages the server sends are server messages.
LEMMA ServerMessages ==
  /\ \A x \in Slice, h \in Hashes : Announce(x, h) \in ServerMessage
  /\ \A x \in Slice : Ready(x) \in ServerMessage
  /\ \A b \in Beats : Heartbeat(b) \in ServerMessage
  /\ Dropping \in ServerMessage /\ Available \in ServerMessage /\ Refuse \in ServerMessage
  BY DEF ServerMessage, Announce, Ready, Heartbeat, Dropping, Available, Refuse

\* The five variables of the servers map and its indexes.
StateTypeOK ==
  /\ serving \subseteq Streams
  /\ info \in [Streams -> ServerEntry]
  /\ senders \subseteq Streams
  /\ routeTable \in [Models \X Layers -> SUBSET Streams]
  /\ anyTable \in [Layers -> SUBSET Streams]

\* register_with_sender keeps the tables well typed.
LEMMA RegisterType ==
  ASSUME StateTypeOK, NEW s \in Streams, NEW x \in Slice, NEW h \in Hashes,
         RegisterWithSender(s, x, h)
  PROVE  StateTypeOK'
<1>1. /\ serving' \in SUBSET Streams
      /\ senders' \in SUBSET Streams
      /\ info' \in [Streams -> ServerEntry]
  BY NewEntryType DEF StateTypeOK, RegisterWithSender
<1> QED
  BY <1>1, TablesType DEF StateTypeOK, RegisterWithSender, Rebuild

\* deregister keeps them well typed, whatever ids it is given.
LEMMA DeregisterType ==
  ASSUME StateTypeOK, NEW S, Deregister(S)
  PROVE  StateTypeOK'
<1>1. /\ serving' \in SUBSET Streams
      /\ senders' \in SUBSET Streams
      /\ info' \in [Streams -> ServerEntry]
  BY NoEntryType DEF StateTypeOK, Deregister
<1>2. CASE S \cap serving = {}
  BY <1>1, <1>2 DEF StateTypeOK, Deregister
<1>3. CASE S \cap serving # {}
  <2>1. routeTable' = RouteTable(serving', info') /\ anyTable' = AnyModelTable(serving', info')
    BY <1>3 DEF Deregister, Rebuild
  <2> QED
    BY <1>1, <2>1, TablesType DEF StateTypeOK
<1> QED
  BY <1>2, <1>3

\* update_heartbeat keeps them well typed, for a known id and an unknown one.
LEMMA HeartbeatType ==
  ASSUME StateTypeOK, NEW s \in Streams, NEW b \in Beats, UpdateHeartbeat(s, b)
  PROVE  StateTypeOK'
<1>1. b \in [load : Nat, rate : Nat, lat : [Layers -> Lat]]
  BY BeatsAssumption
<1>2. info[s] \in ServerEntry
  BY DEF StateTypeOK
<1>3. Refreshed(info[s], b) \in ServerEntry
  BY <1>1, <1>2 DEF ServerEntry, Refreshed
<1> QED
  BY <1>3 DEF StateTypeOK, UpdateHeartbeat

\* Filling gaps and replicating keep the pool and the channels well formed,
\* and only take spares out of the pool.
FillType ==
  /\ pool' \subseteq pool
  /\ down' \in [Streams -> Seq(RouterMessage)]
  /\ \A t \in Streams : Len(down'[t]) <= Cap

\* Sending a set of assignments keeps the channels within type and capacity.
LEMMA DeliveredType ==
  ASSUME NetTypeOK, NEW f, \A t \in DOMAIN f : f[t] \in AssignMsg
  PROVE  /\ Delivered(f) \in [Streams -> Seq(RouterMessage)]
         /\ \A t \in Streams : Len(Delivered(f)[t]) <= Cap
<1>1. \A t \in Streams : t \in DOMAIN f =>
         Pushed(t, f[t]) \in Seq(RouterMessage) /\ Len(Pushed(t, f[t])) <= Cap
  BY PushedType, RouterMessages
<1>2. \A t \in Streams : down[t] \in Seq(RouterMessage) /\ Len(down[t]) <= Cap
  BY DEF NetTypeOK
<1> QED
  BY <1>1, <1>2 DEF Delivered

\* try_fill_all_gaps keeps the pool and the channels well typed.
LEMMA FillAllGapsType ==
  ASSUME NetTypeOK, StateTypeOK, NEW D \in SUBSET Streams, FillAllGaps(D)
  PROVE  FillType
<1>0. PICK gaps \in CoverageGaps(D, info) : \E f \in Assignments(D, gaps, pool, FALSE) :
        pool' = pool \ DOMAIN f /\ down' = Delivered(f)
  BY DEF FillAllGaps
<1>1. PICK f \in Assignments(D, gaps, pool, FALSE) :
        pool' = pool \ DOMAIN f /\ down' = Delivered(f)
  BY <1>0
<1>2. gaps \in SUBSET Slice
  BY WorkType DEF StateTypeOK
<1>3. \A t \in DOMAIN f : f[t] \in AssignMsg
  BY <1>2, AssignmentsType DEF StateTypeOK
<1> QED
  BY <1>1, <1>3, DeliveredType DEF FillType

\* So does try_replicate_from_available, after any earlier assignments.
LEMMA ReplicateAfterType ==
  ASSUME NetTypeOK, StateTypeOK, NEW D \in SUBSET Streams,
         NEW f, \A t \in DOMAIN f : f[t] \in AssignMsg,
         ReplicateAfter(D, f)
  PROVE  FillType
<1>1. PICK g \in Assignments(D, UnderReplicated(D, info, Target, elevated),
                             pool \ DOMAIN f, TRUE) :
        /\ pool' = (pool \ DOMAIN f) \ DOMAIN g
        /\ down' = [t \in Streams |-> IF t \in DOMAIN g THEN Pushed(t, g[t])
                                      ELSE Delivered(f)[t]]
  BY DEF ReplicateAfter
<1>2. \A t \in DOMAIN g : g[t] \in AssignMsg
  BY WorkType, AssignmentsType DEF StateTypeOK
<1>3. \A t \in Streams : t \in DOMAIN g =>
         Pushed(t, g[t]) \in Seq(RouterMessage) /\ Len(Pushed(t, g[t])) <= Cap
  BY <1>2, PushedType, RouterMessages
<1>4. \A t \in Streams :
         Delivered(f)[t] \in Seq(RouterMessage) /\ Len(Delivered(f)[t]) <= Cap
  BY DeliveredType
<1> QED
  BY <1>1, <1>3, <1>4 DEF FillType

\* So does the pair of them, as the handlers and the tick call it.
LEMMA FillAndReplicateType ==
  ASSUME NetTypeOK, StateTypeOK, NEW D \in SUBSET Streams, FillAndReplicate(D)
  PROVE  FillType
<1>0. PICK gaps \in CoverageGaps(D, info) : \E f \in Assignments(D, gaps, pool, FALSE) :
        ReplicateAfter(D, f)
  BY DEF FillAndReplicate
<1>1. PICK f \in Assignments(D, gaps, pool, FALSE) : ReplicateAfter(D, f)
  BY <1>0
<1>2. \A t \in DOMAIN f : f[t] \in AssignMsg
  BY WorkType, AssignmentsType DEF StateTypeOK
<1> QED
  BY <1>1, <1>2, ReplicateAfterType

\* The rest of RouterTypeOK.
TaskTypeOK ==
  /\ tpc \in [Streams -> {"none", "read", "ack", "scan", "gaps", "spare", "bye"}]
  /\ reg \subseteq Streams
  /\ avail \subseteq Streams
  /\ todo \in [Streams -> SUBSET Slice]

TickTypeOK ==
  /\ rpc \in {"evict", "evictWrite", "hot", "under", "over", "overSend",
              "imbalance", "imbalanceSend"}
  /\ stale \subseteq Streams
  /\ plan \subseteq Victim
  /\ tracker \subseteq Models \X Layers

\* The router's type by component, for a step that changes some of them.
LEMMA RouterTypeParts ==
  /\ RouterTypeOK <=> /\ StateTypeOK /\ pool \subseteq Streams /\ elevated \subseteq Slice
                      /\ TaskTypeOK /\ TickTypeOK
  /\ RouterTypeOK' <=> /\ StateTypeOK' /\ (pool \subseteq Streams)' /\ (elevated \subseteq Slice)'
                       /\ TaskTypeOK' /\ TickTypeOK'
  BY DEF RouterTypeOK, StateTypeOK, TaskTypeOK, TickTypeOK

\* A stream's task keeps the router and the network well typed.
LEMMA TaskType ==
  ASSUME NetTypeOK, RouterTypeOK, NEW s \in Streams, TaskStep(s)
  PROVE  NetTypeOK' /\ RouterTypeOK'
<1> USE DEF RouterTypeOK
<1> StateTypeOK /\ TaskTypeOK /\ TickTypeOK /\ pool \subseteq Streams /\ elevated \subseteq Slice
  BY DEF StateTypeOK, TaskTypeOK, TickTypeOK
<1>1. CASE HandleAnnounce(s)
  <2>1. /\ Takes(s, "announce")
        /\ RegisterWithSender(s, Head(up[s]).slice, Head(up[s]).hash)
    BY <1>1 DEF HandleAnnounce
  <2>2. StateTypeOK'
    BY <2>1, TakesType, MessageFields, RegisterType
  <2>3. NetTypeOK'
    BY <1>1, <2>1, TakesType DEF HandleAnnounce, NetTypeOK
  <2>4. TaskTypeOK' /\ TickTypeOK' /\ (pool \subseteq Streams)' /\ (elevated \subseteq Slice)'
    BY <1>1 DEF HandleAnnounce, TaskTypeOK, TickTypeOK, rebVars
  <2> QED
    BY <2>2, <2>3, <2>4, RouterTypeParts
<1>2. CASE HandleReady(s)
  <2>1. /\ Takes(s, "ready")
        /\ RegisterWithSender(s, Head(up[s]).slice, "none")
    BY <1>2 DEF HandleReady
  <2>2. StateTypeOK'
    BY <2>1, TakesType, MessageFields, RegisterType DEF Hashes
  <2>3. NetTypeOK'
    BY <1>2, <2>1, TakesType DEF HandleReady, NetTypeOK
  <2>4. TaskTypeOK' /\ TickTypeOK' /\ (pool \subseteq Streams)' /\ (elevated \subseteq Slice)'
    BY <1>2 DEF HandleReady, TaskTypeOK, TickTypeOK, rebVars
  <2> QED
    BY <2>2, <2>3, <2>4, RouterTypeParts
<1>3. CASE SendAck(s)
  <2>1. NetTypeOK'
    <3>1. <<>> \in Seq(ServerMessage) /\ Len(<<>>) = 0
      BY EmptySeq
    <3>2. CASE Sendable(s) /\ down' = [down EXCEPT ![s] = Append(@, Ack)] /\ UNCHANGED up
      BY <1>3, <3>2, AppendType, RouterMessages DEF SendAck, Sendable, NetTypeOK
    <3>3. CASE up' \in {up, [up EXCEPT ![s] = <<>>]} /\ UNCHANGED down
      <4>1. CASE up' = up
        BY <1>3, <3>3, <4>1 DEF SendAck, NetTypeOK
      <4>2. CASE up' = [up EXCEPT ![s] = <<>>]
        <5>1. \A t \in Streams : up'[t] \in Seq(ServerMessage) /\ Len(up'[t]) <= Cap
          BY <3>1, <4>2, CapAssumption DEF NetTypeOK
        <5> QED
          BY <1>3, <3>3, <4>2, <5>1 DEF SendAck, NetTypeOK
      <4> QED
        BY <3>3, <4>1, <4>2
    <3> QED
      BY <1>3, <3>2, <3>3 DEF SendAck
  <2>2. StateTypeOK'
    BY <1>3 DEF SendAck, StateTypeOK, stateVars
  <2>3. TaskTypeOK' /\ TickTypeOK' /\ (pool \subseteq Streams)' /\ (elevated \subseteq Slice)'
    BY <1>3 DEF SendAck, TaskTypeOK, TickTypeOK, rebVars
  <2> QED
    BY <2>1, <2>2, <2>3, RouterTypeParts
<1>4. CASE HandleHeartbeat(s)
  <2>1. Takes(s, "heartbeat") /\ UpdateHeartbeat(s, Head(up[s]).beat)
    BY <1>4 DEF HandleHeartbeat
  <2>2. StateTypeOK'
    BY <2>1, TakesType, MessageFields, HeartbeatType
  <2>3. NetTypeOK'
    BY <1>4, <2>1, TakesType DEF HandleHeartbeat, NetTypeOK
  <2>4. TaskTypeOK' /\ TickTypeOK' /\ (pool \subseteq Streams)' /\ (elevated \subseteq Slice)'
    BY <1>4 DEF HandleHeartbeat, TaskTypeOK, TickTypeOK, rebVars, taskVars
  <2> QED
    BY <2>2, <2>3, <2>4, RouterTypeParts
<1>5. CASE HandleDropping(s)
  <2>1. Takes(s, "dropping") /\ Deregister({s}) /\ FillAndReplicate(serving \ {s})
    BY <1>5 DEF HandleDropping
  <2>2. StateTypeOK'
    BY <2>1, DeregisterType
  <2>3. FillType
    BY <2>1, FillAndReplicateType DEF StateTypeOK
  <2>4. NetTypeOK'
    BY <1>5, <2>1, <2>3, TakesType DEF HandleDropping, NetTypeOK, FillType
  <2>5. TaskTypeOK' /\ TickTypeOK' /\ (pool \subseteq Streams)' /\ (elevated \subseteq Slice)'
    BY <1>5, <2>3 DEF HandleDropping, TaskTypeOK, TickTypeOK, rebVars, FillType
  <2> QED
    BY <2>2, <2>4, <2>5, RouterTypeParts
<1>6. CASE HandleAvailable(s)
  <2>1. Takes(s, "available")
    BY <1>6 DEF HandleAvailable
  <2>2. NetTypeOK'
    BY <1>6, <2>1, TakesType DEF HandleAvailable, NetTypeOK
  <2>3. StateTypeOK'
    BY <1>6 DEF HandleAvailable, StateTypeOK, stateVars
  <2>4. TaskTypeOK' /\ TickTypeOK' /\ (pool \subseteq Streams)' /\ (elevated \subseteq Slice)'
    BY <1>6 DEF HandleAvailable, TaskTypeOK, TickTypeOK, rebVars
  <2> QED
    BY <2>2, <2>3, <2>4, RouterTypeParts
<1>7. CASE ScanGaps(s)
  <2>1. PICK gaps \in CoverageGaps(serving, info) :
          /\ todo' = [todo EXCEPT ![s] = gaps]
          /\ tpc' = [tpc EXCEPT ![s] = IF gaps = {} THEN "spare" ELSE "gaps"]
    BY <1>7 DEF ScanGaps
  <2>2. gaps \in SUBSET Slice
    BY WorkType DEF StateTypeOK
  <2>3. NetTypeOK'
    BY <1>7 DEF ScanGaps, NetTypeOK, netVars
  <2>4. StateTypeOK'
    BY <1>7 DEF ScanGaps, StateTypeOK, stateVars
  <2>5. TaskTypeOK' /\ TickTypeOK' /\ (pool \subseteq Streams)' /\ (elevated \subseteq Slice)'
    BY <1>7, <2>1, <2>2 DEF ScanGaps, TaskTypeOK, TickTypeOK, rebVars
  <2> QED
    BY <2>3, <2>4, <2>5, RouterTypeParts
<1>8. CASE TryGap(s)
  <2>1. PICK g \in todo[s] :
          \/ GapDone(s, g) /\ UNCHANGED <<pool, down>>
          \/ \E o \in Origins(serving, info, g), t \in Fitting(s) :
               /\ pool' = pool \ {t}
               /\ down' = [down EXCEPT ![t] = Pushed(t, Assign(g, info[o].hash))]
               /\ \/ /\ todo' = [todo EXCEPT ![s] = {}]
                     /\ tpc' = [tpc EXCEPT ![s] = "read"]
                  \/ GapDone(s, g)
    BY <1>8 DEF TryGap
  <2>2. g \in Slice
    BY DEF TaskTypeOK
  <2>3. /\ (pool \subseteq Streams)'
        /\ down' \in [Streams -> Seq(RouterMessage)]
        /\ \A t \in Streams : Len(down'[t]) <= Cap
    <3>1. CASE UNCHANGED <<pool, down>>
      BY <3>1 DEF NetTypeOK
    <3>2. CASE \E o \in Origins(serving, info, g), t \in Fitting(s) :
                 /\ pool' = pool \ {t}
                 /\ down' = [down EXCEPT ![t] = Pushed(t, Assign(g, info[o].hash))]
      <4>1. PICK o \in Origins(serving, info, g), t \in Fitting(s) :
                 /\ pool' = pool \ {t}
                 /\ down' = [down EXCEPT ![t] = Pushed(t, Assign(g, info[o].hash))]
        BY <3>2
      <4>2. t \in Streams /\ info[o].hash \in Hashes
        BY DEF Fitting, Origins, StateTypeOK, ServerEntry
      <4>3. Assign(g, info[o].hash) \in RouterMessage
        BY <2>2, <4>2, RouterMessages DEF Assign, AssignMsg
      <4>4. /\ Pushed(t, Assign(g, info[o].hash)) \in Seq(RouterMessage)
            /\ Len(Pushed(t, Assign(g, info[o].hash))) <= Cap
        BY <4>2, <4>3, PushedType
      <4> QED
        BY <4>1, <4>2, <4>4 DEF NetTypeOK
    <3> QED
      BY <2>1, <3>1, <3>2
  <2>4. tpc' \in [Streams -> {"none", "read", "ack", "scan", "gaps", "spare", "bye"}]
        /\ todo' \in [Streams -> SUBSET Slice]
    BY <2>1 DEF GapDone, TaskTypeOK
  <2>5. NetTypeOK'
    BY <1>8, <2>3 DEF TryGap, NetTypeOK
  <2>6. StateTypeOK'
    BY <1>8 DEF TryGap, StateTypeOK, stateVars
  <2>7. TaskTypeOK' /\ TickTypeOK' /\ (elevated \subseteq Slice)'
    BY <1>8, <2>4 DEF TryGap, TaskTypeOK, TickTypeOK, rebVars
  <2> QED
    BY <2>3, <2>5, <2>6, <2>7, RouterTypeParts
<1>9. CASE UseSpare(s)
  <2>1. FillType
    <3>1. \A t \in DOMAIN NoAssignment : NoAssignment[t] \in AssignMsg
      BY DEF NoAssignment
    <3> QED
      BY <1>9, <3>1, ReplicateAfterType DEF UseSpare, StateTypeOK
  <2>2. NetTypeOK'
    BY <1>9, <2>1 DEF UseSpare, NetTypeOK, FillType
  <2>3. StateTypeOK'
    BY <1>9 DEF UseSpare, StateTypeOK, stateVars
  <2>4. TaskTypeOK' /\ TickTypeOK' /\ (pool \subseteq Streams)' /\ (elevated \subseteq Slice)'
    BY <1>9, <2>1 DEF UseSpare, TaskTypeOK, TickTypeOK, rebVars, FillType
  <2> QED
    BY <2>2, <2>3, <2>4, RouterTypeParts
<1>10. CASE HandleRefuse(s)
  <2>1. NetTypeOK'
    BY <1>10, TakesType DEF HandleRefuse, NetTypeOK
  <2> QED
    BY <1>10, <2>1 DEF HandleRefuse, routerVars, stateVars, taskVars, rebVars
<1>11. CASE CloseServing(s)
  <2>1. StateTypeOK' /\ FillType
    <3>1. CASE s \in reg
      BY <1>11, <3>1, DeregisterType, FillAndReplicateType DEF CloseServing, StateTypeOK
    <3>2. CASE s \notin reg
      BY <1>11, <3>2 DEF CloseServing, StateTypeOK, stateVars, FillType, NetTypeOK
    <3> QED
      BY <3>1, <3>2
  <2>2. NetTypeOK'
    BY <1>11, <2>1 DEF CloseServing, NetTypeOK, FillType
  <2>3. TaskTypeOK' /\ TickTypeOK' /\ (pool \subseteq Streams)' /\ (elevated \subseteq Slice)'
    BY <1>11, <2>1 DEF CloseServing, TaskTypeOK, TickTypeOK, rebVars, FillType
  <2> QED
    BY <2>1, <2>2, <2>3, RouterTypeParts
<1>12. CASE CloseSpare(s)
  <2>1. NetTypeOK'
    BY <1>12, NobodyType DEF CloseSpare, NetTypeOK
  <2>2. StateTypeOK'
    BY <1>12 DEF CloseSpare, StateTypeOK, stateVars
  <2>3. TaskTypeOK' /\ TickTypeOK' /\ (pool \subseteq Streams)' /\ (elevated \subseteq Slice)'
    BY <1>12 DEF CloseSpare, TaskTypeOK, TickTypeOK, rebVars
  <2> QED
    BY <2>1, <2>2, <2>3, RouterTypeParts
<1> QED
  BY <1>1, <1>2, <1>3, <1>4, <1>5, <1>6, <1>7, <1>8, <1>9, <1>10, <1>11, <1>12 DEF TaskStep

\* So does the rebalancer's tick.
LEMMA TickType ==
  ASSUME NetTypeOK, RouterTypeOK, RebalancerStep
  PROVE  NetTypeOK' /\ RouterTypeOK'
<1> USE DEF RouterTypeOK
<1> StateTypeOK /\ TaskTypeOK /\ TickTypeOK /\ pool \subseteq Streams /\ elevated \subseteq Slice
  BY DEF StateTypeOK, TaskTypeOK, TickTypeOK
<1>1. CASE EvictRead
  BY <1>1 DEF EvictRead, StateTypeOK, TaskTypeOK, TickTypeOK, NetTypeOK,
              stateVars, taskVars, netVars
<1>2. CASE EvictWrite
  <2>1. StateTypeOK' /\ FillType
    BY <1>2, DeregisterType, FillAllGapsType DEF EvictWrite, StateTypeOK
  <2>2. NetTypeOK'
    BY <1>2, <2>1 DEF EvictWrite, NetTypeOK, FillType
  <2>3. TaskTypeOK' /\ TickTypeOK' /\ (pool \subseteq Streams)' /\ (elevated \subseteq Slice)'
    BY <1>2, <2>1 DEF EvictWrite, TaskTypeOK, TickTypeOK, taskVars, FillType
  <2> QED
    BY <2>1, <2>2, <2>3, RouterTypeParts
<1>3. CASE CheckHotShards
  <2>1. HotSlices(serving, info, HotThreshold) \subseteq Slice
    BY DEF HotSlices, LiveSlices, StateTypeOK, ServerEntry
  <2>2. NetTypeOK' /\ StateTypeOK'
    BY <1>3 DEF CheckHotShards, NetTypeOK, netVars, StateTypeOK, stateVars
  <2>3. TaskTypeOK' /\ TickTypeOK' /\ (pool \subseteq Streams)' /\ (elevated \subseteq Slice)'
    BY <1>3, <2>1 DEF CheckHotShards, TaskTypeOK, TickTypeOK, taskVars
  <2> QED
    BY <2>2, <2>3, RouterTypeParts
<1>4. CASE CheckUnderReplication
  <2>1. FillType
    <3>1. \A t \in DOMAIN NoAssignment : NoAssignment[t] \in AssignMsg
      BY DEF NoAssignment
    <3> QED
      BY <1>4, <3>1, ReplicateAfterType DEF CheckUnderReplication, StateTypeOK
  <2>2. NetTypeOK' /\ StateTypeOK'
    BY <1>4, <2>1 DEF CheckUnderReplication, NetTypeOK, FillType, StateTypeOK, stateVars
  <2>3. TaskTypeOK' /\ TickTypeOK' /\ (pool \subseteq Streams)' /\ (elevated \subseteq Slice)'
    BY <1>4, <2>1 DEF CheckUnderReplication, TaskTypeOK, TickTypeOK, taskVars, FillType
  <2> QED
    BY <2>2, <2>3, RouterTypeParts
<1>5. CASE PlanOverReplication
  <2> DEFINE over == OverReplicated(serving, info, Target, elevated)
  <2>1. PICK f \in [over -> Streams] : plan' = {[sid |-> f[x], slice |-> x] : x \in over}
    BY <1>5 DEF PlanOverReplication
  <2>2. over \in SUBSET Slice
    BY WorkType DEF StateTypeOK
  <2>3. (plan \subseteq Victim)'
    BY <2>1, <2>2 DEF Victim
  <2>4. NetTypeOK' /\ StateTypeOK'
    BY <1>5 DEF PlanOverReplication, NetTypeOK, netVars, StateTypeOK, stateVars
  <2>5. TaskTypeOK' /\ TickTypeOK' /\ (pool \subseteq Streams)' /\ (elevated \subseteq Slice)'
    BY <1>5, <2>3 DEF PlanOverReplication, TaskTypeOK, TickTypeOK, taskVars
  <2> QED
    BY <2>4, <2>5, RouterTypeParts
<1>6. ASSUME NEW v \in plan, NEW next \in {"imbalance", "evict"}, TellVictim(v, next)
      PROVE  NetTypeOK' /\ RouterTypeOK'
  <2>1. v.sid \in Streams
    BY DEF TickTypeOK, Victim
  <2>2. NetTypeOK'
    BY <1>6, <2>1, PushedType, RouterMessages DEF TellVictim, NetTypeOK
  <2>3. StateTypeOK'
    BY <1>6 DEF TellVictim, StateTypeOK, stateVars
  <2>4. TaskTypeOK' /\ TickTypeOK' /\ (pool \subseteq Streams)' /\ (elevated \subseteq Slice)'
    BY <1>6 DEF TellVictim, TaskTypeOK, TickTypeOK, taskVars
  <2> QED
    BY <2>2, <2>3, <2>4, RouterTypeParts
<1>7. CASE SendOverReplication
  BY <1>6, <1>7 DEF SendOverReplication
<1>8. CASE PlanImbalance
  <2>1. NetTypeOK' /\ StateTypeOK'
    BY <1>8 DEF PlanImbalance, NetTypeOK, netVars, StateTypeOK, stateVars
  <2>2. (plan \subseteq Victim)' /\ (tracker \subseteq Models \X Layers)'
    <3>1. CASE pool = {}
      BY <1>8, <3>1 DEF PlanImbalance, TickTypeOK
    <3>2. CASE pool # {}
      <4> DEFINE keys == Models \X Layers
                 slow == {k \in keys : Imbalanced(serving, info, k, ImbalanceFactor)}
                 fine == {k \in keys : Balanced(serving, info, k, ImbalanceFactor)}
      <4>1. PICK ripe \in SUBSET (slow \cap tracker) : \E f \in [ripe -> Streams] :
              /\ plan' = {[sid |-> f[k], slice |-> Layer1(k)] : k \in ripe}
              /\ tracker' = ((tracker \ fine) \cup slow) \ ripe
        BY <1>8, <3>2 DEF PlanImbalance
      <4>2. PICK f \in [ripe -> Streams] :
              plan' = {[sid |-> f[k], slice |-> Layer1(k)] : k \in ripe}
        BY <4>1
      <4>3. \A k \in keys : Layer1(k) \in Slice
        BY MaxExpertAssumption DEF Layer1, Slice
      <4>4. \A k \in ripe : [sid |-> f[k], slice |-> Layer1(k)] \in Victim
        BY <4>3 DEF Victim
      <4>5. (plan \subseteq Victim)'
        BY <4>2, <4>4
      <4>6. slow \subseteq Models \X Layers
        OBVIOUS
      <4>7. (tracker \subseteq Models \X Layers)'
        BY <4>1, <4>6 DEF TickTypeOK
      <4> QED
        BY <4>5, <4>7
    <3> QED
      BY <3>1, <3>2
  <2>3. TaskTypeOK' /\ TickTypeOK' /\ (pool \subseteq Streams)' /\ (elevated \subseteq Slice)'
    BY <1>8, <2>2 DEF PlanImbalance, TaskTypeOK, TickTypeOK, taskVars
  <2> QED
    BY <2>1, <2>3, RouterTypeParts
<1>9. CASE SendImbalance
  BY <1>6, <1>9 DEF SendImbalance
<1> QED
  BY <1>1, <1>2, <1>3, <1>4, <1>5, <1>7, <1>8, <1>9 DEF RebalancerStep

\* A message of type "assign" is an AssignMsg.
LEMMA AssignType ==
  ASSUME NEW m \in RouterMessage, m.type = "assign"
  PROVE  m \in AssignMsg
  BY DEF RouterMessage

\* What a spare loads is a slice: the dense one of the layer range it was given.
LEMMA DenseType ==
  ASSUME NEW x \in Slice
  PROVE  DenseOf(x) \in Slice
  BY MaxExpertAssumption DEF DenseOf, Slice

\* The end of a turn keeps the servers and the network well typed.
LEMMA LeaveType ==
  ASSUME NetTypeOK, ServerTypeOK, NEW s \in Streams, Leave(s)
  PROVE  NetTypeOK' /\ ServerTypeOK'
  BY HangupType, NoJobType DEF Leave, ServerTypeOK

\* So does every step of an announce loop.
LEMMA ServerType ==
  ASSUME NetTypeOK, ServerTypeOK, NEW s \in Streams, ServerStep(s)
  PROVE  NetTypeOK' /\ ServerTypeOK'
<1>1. ASSUME NEW m \in ServerMessage, CanSendUp(s), SendUp(s, m), UNCHANGED <<link, peer, down>>
      PROVE  NetTypeOK'
  BY <1>1, SendUpType DEF NetTypeOK
<1>2. ASSUME NEW ty, Receives(s, ty), UNCHANGED <<link, peer, up>>
      PROVE  NetTypeOK'
  BY <1>2, ReceivesType DEF NetTypeOK
<1>3. CASE \E b \in Beats : SendHeartbeat(s, b)
  BY <1>1, <1>3, ServerMessages DEF SendHeartbeat, procVars, ServerTypeOK
<1>4. CASE ServeIgnores(s)
  BY <1>2, <1>4 DEF ServeIgnores, procVars, ServerTypeOK
<1>5. CASE ServeUnassign(s)
  BY <1>2, <1>5 DEF ServeUnassign, ServerTypeOK
<1>6. CASE Drained(s)
  BY <1>1, <1>6, ServerMessages DEF Drained, ServerTypeOK
<1>7. CASE EnterModeB(s)
  BY <1>1, <1>7, ServerMessages DEF EnterModeB, ServerTypeOK
<1>8. CASE DropReturns(s) \/ AvailAck(s) \/ StreamError(s)
  BY <1>8, LeaveType DEF DropReturns, AvailAck, StreamError
<1>9. CASE AvailAssign(s)
  <2>1. NetTypeOK'
    BY <1>2, <1>9 DEF AvailAssign
  <2>2. Head(down[s]) \in AssignMsg
    BY <1>9, ReceivesType, AssignType DEF AvailAssign
  <2> QED
    BY <1>9, <2>1, <2>2 DEF AvailAssign, ServerTypeOK
<1>10. CASE AvailIgnores(s)
  BY <1>2, <1>10 DEF AvailIgnores, procVars, ServerTypeOK
<1>11. CASE LoadOk(s)
  <2>1. job[s].slice \in Slice /\ peer[s] \in Procs
    BY DEF ServerTypeOK, AssignMsg, NetTypeOK
  <2>2. DenseOf(job[s].slice) \in Slice
    BY <2>1, DenseType
  <2>3. NetTypeOK'
    BY <1>1, <1>11, <2>2, ServerMessages DEF LoadOk
  <2> QED
    BY <1>11, <2>1, <2>2, <2>3, NoJobType DEF LoadOk, ServerTypeOK
<1>12. CASE LoadFail(s)
  <2>1. NetTypeOK'
    BY <1>1, <1>12, ServerMessages DEF LoadFail
  <2> QED
    BY <1>12, <2>1, NoJobType DEF LoadFail, ServerTypeOK
<1> QED
  BY <1>3, <1>4, <1>5, <1>6, <1>7, <1>8, <1>9, <1>10, <1>11, <1>12 DEF ServerStep

\* A server that connects puts one well-typed message on its stream.
LEMMA JoinType ==
  ASSUME TypeOK, NEW p \in Procs, NEW s \in Streams, Join(p, s)
  PROVE  TypeOK'
<1> USE DEF TypeOK
<1>1. Home[p] \in Slice
  BY HomeAssumption DEF DenseSlices
<1>2. FirstMessage(p) \in ServerMessage
  BY <1>1, ServerMessages DEF FirstMessage, Hashes
<1>3. <<FirstMessage(p)>> \in Seq(ServerMessage) /\ Len(<<FirstMessage(p)>>) = 1
  BY <1>2
<1>4. NetTypeOK'
  <2>1. \A t \in Streams : up'[t] \in Seq(ServerMessage) /\ Len(up'[t]) <= Cap
    BY <1>3, CapAssumption DEF Join, Connect, NetTypeOK
  <2> QED
    BY <2>1 DEF Join, Connect, NetTypeOK
<1>5. ServerTypeOK'
  BY DEF Join, Connect, ServerTypeOK
<1>6. RouterTypeOK'
  BY DEF Join, RouterTypeOK, stateVars, rebVars
<1> QED
  BY <1>4, <1>5, <1>6 DEF Join

\* The disturbances keep every part well typed.
LEMMA DisturbType ==
  ASSUME TypeOK, Disturb
  PROVE  TypeOK'
<1> USE DEF TypeOK
<1> StateTypeOK /\ TaskTypeOK /\ TickTypeOK /\ pool \subseteq Streams /\ elevated \subseteq Slice
  BY DEF RouterTypeOK, StateTypeOK, TaskTypeOK, TickTypeOK
<1>1. ASSUME NEW k \in Kinds, Spend(k)
      PROVE  (left \in [Kinds -> Nat])'
  BY <1>1 DEF Spend
<1>2. CASE Spend("fault") /\ (\E s \in Streams : Fault(s)) /\ UNCHANGED routerVars
  <2>1. NetTypeOK' /\ ServerTypeOK'
    BY <1>2, LeaveType DEF Fault
  <2> QED
    BY <1>1, <1>2, <2>1 DEF Kinds, routerVars, stateVars, taskVars, rebVars, RouterTypeOK
<1>3. CASE Spend("lapse") /\ (\E s \in Streams : Lapse(s)) /\ UNCHANGED procVars
  <2>1. PICK s \in Streams : Lapse(s)
    BY <1>3
  <2>2. (info \in [Streams -> ServerEntry])'
    BY <2>1 DEF Lapse, StateTypeOK, ServerEntry
  <2>3. RouterTypeOK' /\ NetTypeOK'
    BY <2>1, <2>2 DEF Lapse, RouterTypeOK, taskVars, rebVars, netVars, NetTypeOK
  <2> QED
    BY <1>1, <1>3, <2>3 DEF Kinds, procVars, ServerTypeOK
<1>4. CASE Spend("restart") /\ Restart /\ UNCHANGED procVars
  <2>1. /\ <<>> \in Seq(ServerMessage) /\ <<>> \in Seq(RouterMessage)
        /\ Len(<<>>) = 0
    BY EmptySeq
  <2>2. NetTypeOK'
    BY <1>4, <2>1, NobodyType, CapAssumption DEF Restart, NetTypeOK
  <2>3. StateTypeOK'
    BY <1>4, TablesType, NoEntryType DEF Restart, Rebuild, StateTypeOK
  <2>4. TaskTypeOK' /\ TickTypeOK' /\ (pool \subseteq Streams)' /\ (elevated \subseteq Slice)'
    BY <1>4 DEF Restart, TaskTypeOK, TickTypeOK
  <2> QED
    BY <1>1, <1>4, <2>2, <2>3, <2>4, RouterTypeParts DEF Kinds, procVars, ServerTypeOK
<1>5. CASE Spend("drain") /\ (\E s \in Streams : DrainServer(s)) /\ UNCHANGED procVars
  <2>1. PICK s \in Streams : DrainServer(s)
    BY <1>5
  <2>2. NetTypeOK'
    BY <2>1, PushedType, RouterMessages DEF DrainServer, NetTypeOK
  <2> QED
    BY <1>1, <1>5, <2>1, <2>2 DEF Kinds, DrainServer, routerVars, stateVars, taskVars, rebVars,
                                  RouterTypeOK, procVars, ServerTypeOK
<1>6. CASE /\ Spend("assign") /\ UNCHANGED procVars
           /\ \E x \in AdminSlices, h \in Hashes :
                AssignAny(x, h) \/ \E t \in Streams : AssignNamed(x, h, t)
  <2>1. PICK x \in AdminSlices, h \in Hashes :
          AssignAny(x, h) \/ \E t \in Streams : AssignNamed(x, h, t)
    BY <1>6
  <2>2. PICK t \in pool : down' = [down EXCEPT ![t] = Pushed(t, Assign(x, h))]
    BY <2>1 DEF AssignAny, AssignNamed
  <2>3. Assign(x, h) \in RouterMessage
    BY AdminAssumption, RouterMessages DEF DenseSlices, Assign, AssignMsg
  <2>4. t \in Streams
    OBVIOUS
  <2>5. Pushed(t, Assign(x, h)) \in Seq(RouterMessage) /\ Len(Pushed(t, Assign(x, h))) <= Cap
    BY <2>3, <2>4, PushedType
  <2>6. NetTypeOK'
    BY <2>1, <2>2, <2>4, <2>5 DEF AssignAny, AssignNamed, NetTypeOK
  <2>7. RouterTypeOK'
    BY <2>1 DEF AssignAny, AssignNamed, RouterTypeOK, stateVars, taskVars, rebVars
  <2> QED
    BY <1>1, <1>6, <2>6, <2>7 DEF Kinds, procVars, ServerTypeOK
<1> QED
  BY <1>2, <1>3, <1>4, <1>5, <1>6 DEF Disturb

\* The grid starts well typed.
LEMMA InitType == Init => TypeOK
<1> SUFFICES ASSUME Init PROVE TypeOK
  OBVIOUS
<1>1. /\ <<>> \in Seq(ServerMessage) /\ <<>> \in Seq(RouterMessage)
      /\ Len(<<>>) = 0
  BY EmptySeq
<1>2. NetTypeOK
  BY <1>1, NobodyType, CapAssumption DEF Init, NetInit, NetTypeOK
<1>3. StateTypeOK
  BY TablesType, NoEntryType DEF Init, RouterInit, StateTypeOK
<1>4. RouterTypeOK
  BY <1>3 DEF Init, RouterInit, RouterTypeOK, StateTypeOK
<1>5. ServerTypeOK
  BY NoJobType, StoredAssumption DEF Init, ServerInit, ServerTypeOK, DenseSlices
<1> QED
  BY <1>2, <1>4, <1>5, BudgetAssumption DEF Init, TypeOK

\* Every step keeps the types.
LEMMA NextType ==
  ASSUME TypeOK, [Next]_vars
  PROVE  TypeOK'
<1>1. CASE \E p \in Procs, s \in Streams : Join(p, s)
  BY <1>1, JoinType
<1>2. CASE RouterNext
  <2>1. NetTypeOK' /\ RouterTypeOK'
    BY <1>2, TaskType, TickType DEF RouterNext, TypeOK
  <2> QED
    BY <1>2, <2>1 DEF RouterNext, TypeOK, procVars, ServerTypeOK
<1>3. CASE ServerNext
  <2>1. NetTypeOK' /\ ServerTypeOK'
    BY <1>3, ServerType DEF ServerNext, TypeOK
  <2> QED
    BY <1>3, <2>1 DEF ServerNext, TypeOK, routerVars, stateVars, taskVars, rebVars, RouterTypeOK
<1>4. CASE Disturb
  BY <1>4, DisturbType
<1>5. CASE UNCHANGED vars
  BY <1>5 DEF vars, routerVars, procVars, netVars, stateVars, taskVars, rebVars,
              TypeOK, NetTypeOK, RouterTypeOK, ServerTypeOK
<1> QED
  BY <1>1, <1>2, <1>3, <1>4, <1>5 DEF Next

(***************************************************************************)
(* Type correctness: every table, channel and program counter keeps its    *)
(* type, the layer of every planned victim exists, and no channel of the   *)
(* grid ever holds more than its capacity, whatever the numbers of         *)
(* servers, streams and layers.                                            *)
(***************************************************************************)
THEOREM TypeCorrect == Spec => []TypeOK
  BY InitType, NextType, PTL DEF Spec

-----------------------------------------------------------------------------
(***************************************************************************)
(* The layer index.  IndexInStep is inductive on top of TypeOK: every step *)
(* that changes the servers map goes through register, deregister or       *)
(* restart, which rebuild the index, except for the two that only refresh  *)
(* an entry (heartbeat, lapse) and the deregister of unknown ids, which    *)
(* leave every slice where it was.                                         *)
(***************************************************************************)

\* The index depends on nothing but the slices of the servers in the map.
LEMMA SameSlices ==
  ASSUME NEW D, NEW I, NEW J, \A s \in D : I[s].slice = J[s].slice
  PROVE  RouteTable(D, I) = RouteTable(D, J) /\ AnyModelTable(D, I) = AnyModelTable(D, J)
<1>1. \A m, l : Owners(D, I, m, l) = Owners(D, J, m, l)
  BY DEF Owners
<1>2. RouteTable(D, I) = RouteTable(D, J)
  BY <1>1 DEF RouteTable
<1>3. \A l : {s \in D : I[s].slice.ls <= l /\ l <= I[s].slice.le}
               = {s \in D : J[s].slice.ls <= l /\ l <= J[s].slice.le}
  OBVIOUS
<1>4. AnyModelTable(D, I) = AnyModelTable(D, J)
  BY <1>3 DEF AnyModelTable
<1> QED
  BY <1>2, <1>4

\* register_with_sender rebuilds the index.
LEMMA RegisterIndex ==
  ASSUME IndexInStep, NEW s, NEW x, NEW h, RegisterWithSender(s, x, h)
  PROVE  IndexInStep'
  BY DEF IndexInStep, RegisterWithSender, Rebuild

\* deregister rebuilds it if it removes a server, and need not otherwise.
LEMMA DeregisterIndex ==
  ASSUME StateTypeOK, IndexInStep, NEW S, Deregister(S)
  PROVE  IndexInStep'
<1>1. senders' = serving'
  BY DEF IndexInStep, Deregister
<1>2. CASE S \cap serving = {}
  <2>1. serving' = serving
    BY <1>2 DEF Deregister
  <2>2. \A s \in serving : info'[s].slice = info[s].slice
    BY <1>2 DEF Deregister, StateTypeOK
  <2>3. /\ RouteTable(serving, info') = RouteTable(serving, info)
        /\ AnyModelTable(serving, info') = AnyModelTable(serving, info)
    BY <2>2, SameSlices
  <2>4. routeTable' = routeTable /\ anyTable' = anyTable
    BY <1>2 DEF Deregister
  <2> QED
    BY <1>1, <2>1, <2>3, <2>4 DEF IndexInStep
<1>3. CASE S \cap serving # {}
  BY <1>1, <1>3 DEF IndexInStep, Deregister, Rebuild
<1> QED
  BY <1>2, <1>3

\* A step that only refreshes entries leaves the index right.
LEMMA RefreshIndex ==
  ASSUME IndexInStep, UNCHANGED <<serving, senders, routeTable, anyTable>>,
         \A s \in serving : info'[s].slice = info[s].slice
  PROVE  IndexInStep'
<1>1. /\ RouteTable(serving, info') = RouteTable(serving, info)
      /\ AnyModelTable(serving, info') = AnyModelTable(serving, info)
  BY SameSlices
<1> QED
  BY <1>1 DEF IndexInStep

\* Every step leaves the index right.
LEMMA NextIndex ==
  ASSUME TypeOK, IndexInStep, [Next]_vars
  PROVE  IndexInStep'
<1> StateTypeOK
  BY DEF TypeOK, RouterTypeOK, StateTypeOK
<1>1. ASSUME UNCHANGED stateVars PROVE IndexInStep'
  BY <1>1 DEF stateVars, IndexInStep
<1>2. ASSUME NEW s \in Streams, TaskStep(s) PROVE IndexInStep'
  <2>1. CASE HandleAnnounce(s) \/ HandleReady(s)
    BY <2>1, RegisterIndex DEF HandleAnnounce, HandleReady
  <2>2. CASE HandleHeartbeat(s)
    <3>1. \A t \in serving : info'[t].slice = info[t].slice
      BY <2>2 DEF HandleHeartbeat, UpdateHeartbeat, Refreshed, StateTypeOK, ServerEntry
    <3> QED
      BY <2>2, <3>1, RefreshIndex DEF HandleHeartbeat, UpdateHeartbeat
  <2>3. CASE HandleDropping(s)
    BY <2>3, DeregisterIndex DEF HandleDropping
  <2>4. CASE CloseServing(s)
    BY <1>1, <2>4, DeregisterIndex DEF CloseServing
  <2>5. CASE \/ SendAck(s) \/ HandleAvailable(s) \/ ScanGaps(s) \/ TryGap(s)
             \/ UseSpare(s) \/ HandleRefuse(s) \/ CloseSpare(s)
    BY <1>1, <2>5 DEF SendAck, HandleAvailable, ScanGaps, TryGap, UseSpare, HandleRefuse,
                      CloseSpare, routerVars
  <2> QED
    BY <1>2, <2>1, <2>2, <2>3, <2>4, <2>5 DEF TaskStep
<1>3. ASSUME RebalancerStep PROVE IndexInStep'
  <2>1. CASE EvictWrite
    BY <2>1, DeregisterIndex DEF EvictWrite
  <2>2. CASE ~ EvictWrite
    BY <1>1, <1>3, <2>2 DEF RebalancerStep, EvictRead, CheckHotShards, CheckUnderReplication,
                            PlanOverReplication, SendOverReplication, PlanImbalance,
                            SendImbalance, TellVictim
  <2> QED
    BY <2>1, <2>2
<1>4. ASSUME Disturb PROVE IndexInStep'
  <2>1. CASE \E s \in Streams : Lapse(s)
    <3>1. \A t \in serving : info'[t].slice = info[t].slice
      BY <2>1 DEF Lapse, StateTypeOK, ServerEntry
    <3> QED
      BY <2>1, <3>1, RefreshIndex DEF Lapse
  <2>2. CASE Restart
    BY <2>2 DEF Restart, Rebuild, IndexInStep
  <2>3. CASE UNCHANGED routerVars
    BY <1>1, <2>3 DEF routerVars
  <2>4. CASE \/ \E s \in Streams : DrainServer(s)
             \/ \E x \in AdminSlices, h \in Hashes :
                  AssignAny(x, h) \/ \E t \in Streams : AssignNamed(x, h, t)
    BY <1>1, <2>4 DEF DrainServer, AssignAny, AssignNamed, routerVars
  <2> QED
    BY <1>4, <2>1, <2>2, <2>3, <2>4 DEF Disturb
<1>5. CASE \E p \in Procs, s \in Streams : Join(p, s)
  BY <1>1, <1>5 DEF Join
<1>6. CASE RouterNext
  BY <1>2, <1>3, <1>6 DEF RouterNext
<1>7. CASE ServerNext \/ UNCHANGED vars
  BY <1>1, <1>7 DEF ServerNext, vars, routerVars
<1>8. CASE Disturb
  BY <1>4, <1>8
<1> QED
  BY <1>5, <1>6, <1>7, <1>8 DEF Next

(***************************************************************************)
(* route() and the heartbeat, drain and admin paths never disagree about   *)
(* who serves what: the layer index answers as the servers map does, and   *)
(* every serving server, and no other, can be told to leave.               *)
(***************************************************************************)
THEOREM IndexIsRight == Spec => []IndexInStep
<1>1. Init => IndexInStep
  BY DEF Init, RouterInit, IndexInStep
<1>2. TypeOK /\ IndexInStep /\ [Next]_vars => IndexInStep'
  BY NextIndex
<1> QED
  BY <1>1, <1>2, TypeCorrect, PTL DEF Spec

-----------------------------------------------------------------------------
(***************************************************************************)
(* StreamsInv is inductive.  A step changes what one stream sees in few    *)
(* ways: messages are added at the end of a channel, taken from its front  *)
(* or lost from its end, and spares are handed out.                        *)
(***************************************************************************)
-----------------------------------------------------------------------------
(* Where messages are in a channel, after the channel operations. *)

\* Positions are positive numbers.
LEMMA AtIsNat ==
  ASSUME NEW S, NEW q \in Seq(S), NEW ty, NEW i \in At(q, ty)
  PROVE  i \in Nat /\ 1 <= i /\ i <= Len(q)
  BY LenProperties DEF At

\* An empty channel holds nothing.
LEMMA AtEmpty == \A ty : At(<<>>, ty) = {}
  BY DEF At

\* A message is added at the end: one position more for its own type ...
LEMMA AtAppend ==
  ASSUME NEW S, NEW q \in Seq(S), NEW m \in S
  PROVE  At(Append(q, m), m.type) = At(q, m.type) \cup {Len(q) + 1}
<1>1. /\ Len(q) \in Nat
      /\ Len(Append(q, m)) = Len(q) + 1
      /\ \A i \in 1 .. Len(q) : Append(q, m)[i] = q[i]
      /\ Append(q, m)[Len(q) + 1] = m
  BY AppendProperties, LenProperties
<1>2. 1 .. (Len(q) + 1) = (1 .. Len(q)) \cup {Len(q) + 1}
  BY <1>1
<1> QED
  BY <1>1, <1>2 DEF At

\* ... and the same positions for every other.
LEMMA AtAppendOther ==
  ASSUME NEW S, NEW q \in Seq(S), NEW m \in S, NEW ty, ty # m.type
  PROVE  At(Append(q, m), ty) = At(q, ty)
<1>1. /\ Len(q) \in Nat
      /\ Len(Append(q, m)) = Len(q) + 1
      /\ \A i \in 1 .. Len(q) : Append(q, m)[i] = q[i]
      /\ Append(q, m)[Len(q) + 1] = m
  BY AppendProperties, LenProperties
<1>2. 1 .. (Len(q) + 1) = (1 .. Len(q)) \cup {Len(q) + 1}
  BY <1>1
<1> QED
  BY <1>1, <1>2 DEF At

\* The first message is taken and the others move up.
LEMMA AtTail ==
  ASSUME NEW S, NEW q \in Seq(S), q # <<>>, NEW ty
  PROVE  /\ \A i \in At(Tail(q), ty) : i + 1 \in At(q, ty)
         /\ \A i \in At(q, ty) : i = 1 \/ i - 1 \in At(Tail(q), ty)
         /\ 1 \in At(q, ty) <=> Head(q).type = ty
<1>1. /\ Len(q) \in Nat \ {0}
      /\ Len(Tail(q)) = Len(q) - 1
      /\ \A i \in 1 .. Len(Tail(q)) : Tail(q)[i] = q[i + 1]
      /\ Head(q) = q[1]
  BY HeadTailProperties, EmptySeq
<1> QED
  BY <1>1 DEF At

\* Only the first k messages survive.
LEMMA AtPrefix ==
  ASSUME NEW S, NEW q \in Seq(S), NEW k \in 0 .. Len(q), NEW ty
  PROVE  At(SubSeq(q, 1, k), ty) = {i \in At(q, ty) : i <= k}
<1>1. Len(q) \in Nat
  BY LenProperties
<1>2. \A i \in 1 .. k : q[i] \in S
  BY <1>1, ElementOfSeq
<1>3. Len(SubSeq(q, 1, k)) = k /\ \A i \in 1 .. k : SubSeq(q, 1, k)[i] = q[i]
  BY <1>1, <1>2, SubSeqProperties
<1> QED
  BY <1>1, <1>3 DEF At

-----------------------------------------------------------------------------
(* Spares that are handed out. *)

\* What a hand-out does to stream t: nothing, or it leaves the pool, and an
\* AssignMsg is on its way if the channel took it.
HandOut(t) ==
  \/ down'[t] = down[t] /\ (t \in pool' => t \in pool)
  \/ /\ t \in pool /\ t \notin pool' /\ link[t] = "open"
     /\ \E m \in AssignMsg : down'[t] = Append(down[t], m)

\* try_send of an assignment to a spare that leaves the pool is a hand-out.
LEMMA PushHandsOut ==
  ASSUME NEW t \in pool, t \notin pool', NEW m \in AssignMsg, down'[t] = Pushed(t, m)
  PROVE  HandOut(t)
  BY DEF HandOut, Pushed, Sendable

\* try_replicate_from_available, after any earlier assignments.
LEMMA ReplicateHandsOut ==
  ASSUME StateTypeOK, NEW D \in SUBSET Streams,
         NEW f, DOMAIN f \subseteq pool, \A t \in DOMAIN f : f[t] \in AssignMsg,
         ReplicateAfter(D, f), NEW t \in Streams
  PROVE  HandOut(t)
<1>1. PICK g \in Assignments(D, UnderReplicated(D, info, Target, elevated),
                             pool \ DOMAIN f, TRUE) :
        /\ pool' = (pool \ DOMAIN f) \ DOMAIN g
        /\ down' = [u \in Streams |-> IF u \in DOMAIN g THEN Pushed(u, g[u])
                                      ELSE Delivered(f)[u]]
  BY DEF ReplicateAfter
<1>2. /\ DOMAIN g \subseteq pool \ DOMAIN f
      /\ \A u \in DOMAIN g : g[u] \in AssignMsg
  BY WorkType, AssignmentsType DEF StateTypeOK
<1>3. CASE t \in DOMAIN g
  BY <1>1, <1>2, <1>3, PushHandsOut
<1>4. CASE t \notin DOMAIN g /\ t \in DOMAIN f
  BY <1>1, <1>4, PushHandsOut DEF Delivered
<1>5. CASE t \notin DOMAIN g /\ t \notin DOMAIN f
  BY <1>1, <1>5 DEF HandOut, Delivered
<1> QED
  BY <1>3, <1>4, <1>5

\* The same with no earlier assignments.
LEMMA ReplicateOnlyHandsOut ==
  ASSUME StateTypeOK, NEW D \in SUBSET Streams,
         ReplicateAfter(D, NoAssignment), NEW t \in Streams
  PROVE  HandOut(t)
<1>1. DOMAIN NoAssignment \subseteq pool /\ \A u \in DOMAIN NoAssignment : NoAssignment[u] \in AssignMsg
  BY DEF NoAssignment
<1> QED
  BY <1>1, ReplicateHandsOut

\* try_fill_all_gaps, then try_replicate_from_available.
LEMMA FillAndReplicateHandsOut ==
  ASSUME StateTypeOK, NEW D \in SUBSET Streams, FillAndReplicate(D), NEW t \in Streams
  PROVE  HandOut(t)
<1>1. PICK gaps \in CoverageGaps(D, info) : \E f \in Assignments(D, gaps, pool, FALSE) :
        ReplicateAfter(D, f)
  BY DEF FillAndReplicate
<1>2. PICK f \in Assignments(D, gaps, pool, FALSE) : ReplicateAfter(D, f)
  BY <1>1
<1>3. DOMAIN f \subseteq pool /\ \A u \in DOMAIN f : f[u] \in AssignMsg
  BY WorkType, AssignmentsType DEF StateTypeOK
<1> QED
  BY <1>2, <1>3, ReplicateHandsOut

\* try_fill_all_gaps alone.
LEMMA FillHandsOut ==
  ASSUME StateTypeOK, NEW D \in SUBSET Streams, FillAllGaps(D), NEW t \in Streams
  PROVE  HandOut(t)
<1>1. PICK gaps \in CoverageGaps(D, info) : \E f \in Assignments(D, gaps, pool, FALSE) :
        pool' = pool \ DOMAIN f /\ down' = Delivered(f)
  BY DEF FillAllGaps
<1>2. PICK f \in Assignments(D, gaps, pool, FALSE) :
        pool' = pool \ DOMAIN f /\ down' = Delivered(f)
  BY <1>1
<1>3. DOMAIN f \subseteq pool /\ \A u \in DOMAIN f : f[u] \in AssignMsg
  BY WorkType, AssignmentsType DEF StateTypeOK
<1>4. CASE t \in DOMAIN f
  BY <1>2, <1>3, <1>4, PushHandsOut DEF Delivered
<1>5. CASE t \notin DOMAIN f
  BY <1>2, <1>5 DEF HandOut, Delivered
<1> QED
  BY <1>4, <1>5

\* One gap of the Available handler.
LEMMA TryGapHandsOut ==
  ASSUME NetTypeOK, RouterTypeOK, NEW s \in Streams, TryGap(s), NEW t \in Streams
  PROVE  HandOut(t)
<1>1. CASE UNCHANGED <<pool, down>>
  BY <1>1 DEF HandOut
<1>2. CASE \E g \in todo[s], o \in Streams, u \in pool :
             /\ pool' = pool \ {u}
             /\ down' = [down EXCEPT ![u] = Pushed(u, Assign(g, info[o].hash))]
  <2>1. PICK g \in todo[s], o \in Streams, u \in pool :
             /\ pool' = pool \ {u}
             /\ down' = [down EXCEPT ![u] = Pushed(u, Assign(g, info[o].hash))]
    BY <1>2
  <2>2. Assign(g, info[o].hash) \in AssignMsg
    BY DEF RouterTypeOK, ServerEntry, Assign, AssignMsg
  <2>3. CASE t = u
    BY <2>1, <2>2, <2>3, PushHandsOut DEF NetTypeOK
  <2>4. CASE t # u
    BY <2>1, <2>4 DEF HandOut, NetTypeOK
  <2> QED
    BY <2>3, <2>4
<1> QED
  BY <1>1, <1>2 DEF TryGap, Fitting, Origins, RouterTypeOK

\* An operator's assignment, which leaves the pool alone when a named spare cannot be told.
LEMMA AdminHandsOut ==
  ASSUME NetTypeOK, RouterTypeOK, NEW x \in AdminSlices, NEW h \in Hashes,
         AssignAny(x, h) \/ \E u \in Streams : AssignNamed(x, h, u), NEW t \in Streams
  PROVE  HandOut(t)
<1>1. Assign(x, h) \in AssignMsg
  BY AdminAssumption DEF DenseSlices, Assign, AssignMsg
<1>2. PICK u \in pool :
        /\ down' = [down EXCEPT ![u] = Pushed(u, Assign(x, h))]
        /\ \/ pool' = pool \ {u}
           \/ pool' = pool /\ ~ Sendable(u)
  BY DEF AssignAny, AssignNamed
<1>3. CASE t # u
  BY <1>2, <1>3 DEF HandOut, NetTypeOK
<1>4. CASE t = u /\ pool' = pool \ {u}
  BY <1>1, <1>2, <1>4, PushHandsOut DEF NetTypeOK
<1>5. CASE t = u /\ pool' = pool /\ ~ Sendable(u)
  BY <1>2, <1>5 DEF HandOut, Pushed, NetTypeOK
<1> QED
  BY <1>2, <1>3, <1>4, <1>5

\* What a hand-out means for the messages on their way to the server.
LEMMA HandOutAt ==
  ASSUME NetTypeOK, NEW t \in Streams, OfferInv(t), HandOut(t)
  PROVE  /\ t \in pool' => t \in pool
         /\ link[t] # "open" => down'[t] = down[t]
         /\ At(down'[t], "unassign") = At(down[t], "unassign")
         /\ \/ At(down'[t], "assign") = At(down[t], "assign")
            \/ /\ t \in pool /\ t \notin pool' /\ link[t] = "open"
               /\ At(down'[t], "assign") = {Len(down[t]) + 1}
<1>1. CASE down'[t] = down[t] /\ (t \in pool' => t \in pool)
  BY <1>1
<1>2. CASE /\ t \in pool /\ t \notin pool' /\ link[t] = "open"
           /\ \E m \in AssignMsg : down'[t] = Append(down[t], m)
  <2>1. PICK m \in AssignMsg : down'[t] = Append(down[t], m)
    BY <1>2
  <2>2. m \in RouterMessage /\ m.type = "assign"
    BY RouterMessages DEF AssignMsg
  <2>3. down[t] \in Seq(RouterMessage)
    BY DEF NetTypeOK
  <2>4. /\ At(down'[t], "unassign") = At(down[t], "unassign")
        /\ At(down'[t], "assign") = At(down[t], "assign") \cup {Len(down[t]) + 1}
    <3>1. At(Append(down[t], m), m.type) = At(down[t], m.type) \cup {Len(down[t]) + 1}
      BY <2>2, <2>3, AtAppend
    <3>2. At(Append(down[t], m), "unassign") = At(down[t], "unassign")
      BY <2>2, <2>3, AtAppendOther
    <3> QED
      BY <2>1, <2>2, <3>1, <3>2
  <2> QED
    BY <1>2, <2>4 DEF OfferInv
<1> QED
  BY <1>1, <1>2 DEF HandOut

-----------------------------------------------------------------------------
(* The invariant of one stream, change by change. *)

\* A step that does nothing else to stream t keeps its invariant: the router
\* may hand t out, forget that it serves, and its task may move on.
Quiet(t) ==
  /\ link'[t] = link[t] /\ up'[t] = up[t] /\ pc'[t] = pc[t]
  /\ t \in serving' => t \in serving
  /\ t \in reg' <=> t \in reg
  /\ t \in avail' <=> t \in avail
  /\ \/ tpc'[t] = tpc[t]
     \/ tpc[t] \notin {"none", "bye"} /\ tpc'[t] \notin {"none", "bye"}
  /\ HandOut(t)

\* A stream the step does not write to keeps its invariant.
LEMMA QuietStream ==
  ASSUME NetTypeOK, NEW t \in Streams, StreamInv(t), Quiet(t)
  PROVE  StreamInv(t)'
<1> USE DEF StreamInv, Quiet
<1>1. /\ t \in pool' => t \in pool
      /\ link[t] # "open" => down'[t] = down[t]
      /\ At(down'[t], "unassign") = At(down[t], "unassign")
      /\ \/ At(down'[t], "assign") = At(down[t], "assign")
         \/ /\ t \in pool /\ t \notin pool' /\ link[t] = "open"
            /\ At(down'[t], "assign") = {Len(down[t]) + 1}
  BY HandOutAt
<1>2. LinkInv(t)'
  BY <1>1 DEF LinkInv
<1>3. GhostInv(t)'
  BY <1>1 DEF GhostInv
<1>4. OfferInv(t)'
  BY <1>1 DEF OfferInv
<1>5. Claimed(t)' => Claimed(t)
  BY <1>1 DEF Claimed
<1>6. ModeAInv(t)' /\ AnnounceInv(t)'
  BY <1>1, <1>5 DEF ModeAInv, AnnounceInv
<1>7. ServeInv(t)'
  BY <1>1 DEF ServeInv
<1> QED
  BY <1>2, <1>3, <1>4, <1>6, <1>7

\* The messages of stream s after the task took the first, of type ty.
LEMMA TakesAt ==
  ASSUME NetTypeOK, NEW s \in Streams, NEW ty, Takes(s, ty)
  PROVE  /\ \A x : \A i \in At(up[s], x) : i \in Nat /\ 1 <= i
         /\ \A x : \A i \in At(up'[s], x) : i \in Nat /\ 1 <= i /\ i + 1 \in At(up[s], x)
         /\ \A x : \A i \in At(up[s], x) : i = 1 \/ i - 1 \in At(up'[s], x)
         /\ \A x : 1 \in At(up[s], x) <=> x = ty
         /\ \A t \in Streams \ {s} : up'[t] = up[t]
         /\ tpc[s] = "read"
<1>1. /\ up[s] \in Seq(ServerMessage) /\ up[s] # <<>>
      /\ up'[s] = Tail(up[s])
      /\ Head(up[s]).type = ty
      /\ \A t \in Streams \ {s} : up'[t] = up[t]
      /\ tpc[s] = "read"
  BY DEF NetTypeOK, Takes
<1>2. Tail(up[s]) \in Seq(ServerMessage)
  BY <1>1, HeadTailProperties
<1> QED
  BY <1>1, <1>2, AtIsNat, AtTail

\* What the other streams see of the step of one stream's task.
LEMMA TaskOthers ==
  ASSUME NetTypeOK, RouterTypeOK, NEW s \in Streams, TaskStep(s), UNCHANGED pc,
         NEW t \in Streams \ {s}
  PROVE  Quiet(t)
<1> StateTypeOK /\ tpc \in [Streams -> {"none", "read", "ack", "scan", "gaps", "spare", "bye"}]
  BY DEF RouterTypeOK, StateTypeOK
<1> serving \in SUBSET Streams /\ serving \ {s} \in SUBSET Streams
  BY DEF StateTypeOK
<1> USE DEF NetTypeOK
<1>1. CASE HandleAnnounce(s) \/ HandleReady(s)
  BY <1>1 DEF HandleAnnounce, HandleReady, Takes, RegisterWithSender, Quiet, HandOut
<1>2. CASE SendAck(s)
  BY <1>2 DEF SendAck, Quiet, HandOut, stateVars
<1>3. CASE HandleHeartbeat(s) \/ HandleRefuse(s)
  BY <1>3 DEF HandleHeartbeat, UpdateHeartbeat, HandleRefuse, Takes, Quiet, HandOut,
              taskVars, routerVars, stateVars
<1>4. CASE HandleDropping(s)
  <2>1. HandOut(t)
    BY <1>4, FillAndReplicateHandsOut DEF HandleDropping
  <2> QED
    BY <1>4, <2>1 DEF HandleDropping, Takes, Deregister, Quiet
<1>5. CASE HandleAvailable(s)
  BY <1>5 DEF HandleAvailable, Takes, Quiet, HandOut, stateVars
<1>6. CASE ScanGaps(s)
  BY <1>6 DEF ScanGaps, Quiet, HandOut, stateVars, netVars
<1>7. CASE TryGap(s)
  <2>1. tpc'[t] = tpc[t]
    BY <1>7 DEF TryGap, GapDone
  <2>2. HandOut(t)
    BY <1>7, TryGapHandsOut
  <2> QED
    BY <1>7, <2>1, <2>2 DEF TryGap, Quiet, stateVars
<1>8. CASE UseSpare(s)
  <2>1. HandOut(t)
    BY <1>8, ReplicateOnlyHandsOut DEF UseSpare
  <2> QED
    BY <1>8, <2>1 DEF UseSpare, Quiet, stateVars
<1>9. CASE CloseServing(s)
  <2>1. HandOut(t) /\ (t \in serving' => t \in serving)
    <3>1. CASE s \in reg
      BY <1>9, <3>1, FillAndReplicateHandsOut DEF CloseServing, Deregister
    <3>2. CASE s \notin reg
      BY <1>9, <3>2 DEF CloseServing, HandOut, stateVars
    <3> QED
      BY <3>1, <3>2
  <2> QED
    BY <1>9, <2>1 DEF CloseServing, Quiet
<1>10. CASE CloseSpare(s)
  BY <1>10 DEF CloseSpare, Quiet, HandOut, stateVars
<1> QED
  BY <1>1, <1>2, <1>3, <1>4, <1>5, <1>6, <1>7, <1>8, <1>9, <1>10 DEF TaskStep

\* A registration keeps the invariant of its own stream: the message that
\* asks for it shows that s is neither serving nor a spare, and that no
\* other announcement or offer is on its way.
LEMMA RegisterOwn ==
  ASSUME NetTypeOK, NEW s \in Streams, StreamInv(s),
         HandleAnnounce(s) \/ HandleReady(s), RouterTypeOK, UNCHANGED pc
  PROVE  StreamInv(s)'
<1> USE DEF StreamInv
<1>1. PICK ty \in {"announce", "ready"} : Takes(s, ty)
  BY DEF HandleAnnounce, HandleReady
<1>2. /\ link'[s] = link[s] /\ down'[s] = down[s] /\ pc'[s] = pc[s]
      /\ s \in pool' <=> s \in pool
      /\ s \in serving' /\ s \in reg' /\ tpc'[s] = "ack"
      /\ s \in avail' <=> s \in avail /\ ~ HandleReady(s)
  BY <1>1 DEF HandleAnnounce, HandleReady, RegisterWithSender, RouterTypeOK, Takes
<1>3. /\ \A x : \A i \in At(up[s], x) : i \in Nat /\ 1 <= i
      /\ \A x : \A i \in At(up'[s], x) : i \in Nat /\ 1 <= i /\ i + 1 \in At(up[s], x)
      /\ \A x : 1 \in At(up[s], x) <=> x = ty
      /\ tpc[s] = "read"
  BY <1>1, TakesAt
<1>4. /\ s \notin pool /\ At(down[s], "assign") = {} /\ pc[s] \notin {"load", "dropped"}
      /\ At(up'[s], "ready") = {} /\ At(up'[s], "available") = {}
      /\ At(up'[s], "announce") = {}
  <2>1. CASE ty = "announce"
    <3>1. ~ Claimed(s) /\ pc[s] \in {"serve", "gone"} /\ \A i \in At(up[s], "announce") : i = 1
      BY <1>3, <2>1 DEF AnnounceInv
    <3> QED
      BY <1>3, <3>1 DEF Claimed
  <2>2. CASE ty = "ready"
    <3>1. 1 \in At(up[s], "ready")
      BY <1>3, <2>2
    <3>2. /\ s \notin pool /\ At(down[s], "assign") = {} /\ pc[s] # "load"
          /\ At(up[s], "available") = {} /\ \A i \in At(up[s], "ready") : i = 1
      BY <3>1 DEF OfferInv
    <3>3. Claimed(s)
      BY <3>1 DEF Claimed
    <3>4. pc[s] # "dropped" /\ At(up[s], "announce") = {}
      BY <3>3 DEF ModeAInv, AnnounceInv
    <3> QED
      BY <1>3, <3>2, <3>4
  <2> QED
    BY <2>1, <2>2
<1>5. LinkInv(s)'
  BY <1>2, <1>3 DEF LinkInv
<1>6. GhostInv(s)'
  BY <1>2, <1>4 DEF GhostInv
<1>7. OfferInv(s)'
  BY <1>2, <1>4 DEF OfferInv
<1>8. ~ Claimed(s)'
  BY <1>2, <1>4 DEF Claimed
<1>9. ModeAInv(s)' /\ AnnounceInv(s)'
  BY <1>4, <1>8 DEF ModeAInv, AnnounceInv
<1>10. ServeInv(s)'
  BY <1>2, <1>4 DEF ServeInv
<1> QED
  BY <1>5, <1>6, <1>7, <1>9, <1>10

\* Taking a heartbeat or a refusal keeps it.
LEMMA SkipOwn ==
  ASSUME NetTypeOK, NEW s \in Streams, StreamInv(s), NEW ty \in {"heartbeat", "refuse"},
         Takes(s, ty), UNCHANGED <<link, down, pc, pool, serving, reg, avail, tpc>>
  PROVE  StreamInv(s)'
<1> USE DEF StreamInv
<1>1. /\ \A x : \A i \in At(up[s], x) : i \in Nat /\ 1 <= i
      /\ \A x : \A i \in At(up'[s], x) : i \in Nat /\ 1 <= i /\ i + 1 \in At(up[s], x)
      /\ \A x : \A i \in At(up[s], x) : i = 1 \/ i - 1 \in At(up'[s], x)
      /\ \A x : 1 \in At(up[s], x) <=> x = ty
      /\ tpc[s] = "read"
  BY TakesAt
<1>2. LinkInv(s)'
  BY <1>1 DEF LinkInv
<1>3. GhostInv(s)'
  BY DEF GhostInv
<1>4. At(up'[s], "announce") = {}
  BY <1>1 DEF AnnounceInv
<1>5. OfferInv(s)'
  BY <1>1 DEF OfferInv
<1>6. Claimed(s)' => Claimed(s)
  BY <1>1 DEF Claimed
<1>7. ModeAInv(s)' /\ AnnounceInv(s)'
  BY <1>4, <1>6 DEF ModeAInv, AnnounceInv
<1>8. ServeInv(s)'
  <2> SUFFICES ASSUME s \in serving PROVE ServeInv(s)'
    BY DEF ServeInv
  <2>1. At(up[s], "dropping") # {} => At(up'[s], "dropping") # {}
    BY <1>1
  <2>2. \A i \in At(up'[s], "available") : \E j \in At(up'[s], "dropping") : j < i
    <3>1. TAKE i \in At(up'[s], "available")
    <3>2. PICK j \in At(up[s], "dropping") : j < i + 1
      BY <1>1 DEF ServeInv
    <3> QED
      BY <1>1, <3>2
  <2>3. At(up'[s], "ready") = {}
    BY <1>1 DEF ServeInv
  <2> QED
    BY <2>1, <2>2, <2>3 DEF ServeInv
<1> QED
  BY <1>2, <1>3, <1>5, <1>7, <1>8

\* DroppingMsg: the server is forgotten, and s itself may be handed out.
LEMMA DroppingOwn ==
  ASSUME NetTypeOK, RouterTypeOK, NEW s \in Streams, StreamInv(s), HandleDropping(s), UNCHANGED pc
  PROVE  StreamInv(s)'
<1> USE DEF StreamInv
<1> StateTypeOK /\ serving \ {s} \in SUBSET Streams
  BY DEF RouterTypeOK, StateTypeOK
<1>1. /\ link'[s] = link[s] /\ pc'[s] = pc[s] /\ tpc'[s] = tpc[s]
      /\ s \notin serving'
      /\ s \in avail' <=> s \in avail
      /\ Takes(s, "dropping") /\ HandOut(s)
  BY FillAndReplicateHandsOut DEF HandleDropping, Deregister
<1>2. /\ \A x : \A i \in At(up[s], x) : i \in Nat /\ 1 <= i
      /\ \A x : \A i \in At(up'[s], x) : i \in Nat /\ 1 <= i /\ i + 1 \in At(up[s], x)
      /\ \A x : 1 \in At(up[s], x) <=> x = "dropping"
      /\ tpc[s] = "read"
  BY <1>1, TakesAt
<1>3. /\ s \in pool' => s \in pool
      /\ link[s] # "open" => down'[s] = down[s]
      /\ At(down'[s], "unassign") = At(down[s], "unassign")
      /\ \/ At(down'[s], "assign") = At(down[s], "assign")
         \/ /\ s \in pool /\ s \notin pool' /\ link[s] = "open"
            /\ At(down'[s], "assign") = {Len(down[s]) + 1}
  BY <1>1, HandOutAt
<1>4. LinkInv(s)'
  BY <1>1, <1>2, <1>3 DEF LinkInv
<1>5. GhostInv(s)'
  BY <1>1, <1>3 DEF GhostInv
<1>6. OfferInv(s)'
  BY <1>1, <1>2, <1>3 DEF OfferInv
<1>7. Claimed(s)' => Claimed(s)
  BY <1>1, <1>2, <1>3 DEF Claimed
<1>8. At(up'[s], "announce") = {}
  BY <1>2 DEF AnnounceInv
<1>9. ModeAInv(s)' /\ AnnounceInv(s)' /\ ServeInv(s)'
  BY <1>1, <1>7, <1>8 DEF ModeAInv, AnnounceInv, ServeInv
<1> QED
  BY <1>4, <1>5, <1>6, <1>9

\* AvailableMsg: the offer moves from the channel into the pool.
LEMMA AvailableOwn ==
  ASSUME NetTypeOK, RouterTypeOK, NEW s \in Streams, StreamInv(s), HandleAvailable(s), UNCHANGED pc
  PROVE  StreamInv(s)'
<1> USE DEF StreamInv
<1>1. /\ link'[s] = link[s] /\ pc'[s] = pc[s] /\ down'[s] = down[s] /\ tpc'[s] = "scan"
      /\ s \in serving' <=> s \in serving
      /\ s \in reg' <=> s \in reg
      /\ s \in avail' /\ s \in pool'
      /\ Takes(s, "available")
  BY DEF HandleAvailable, stateVars, RouterTypeOK
<1>2. /\ \A x : \A i \in At(up[s], x) : i \in Nat /\ 1 <= i
      /\ \A x : \A i \in At(up'[s], x) : i \in Nat /\ 1 <= i /\ i + 1 \in At(up[s], x)
      /\ \A x : 1 \in At(up[s], x) <=> x = "available"
      /\ tpc[s] = "read"
  BY <1>1, TakesAt
<1>3. /\ At(up[s], "ready") = {} /\ At(down[s], "assign") = {} /\ pc[s] # "load"
      /\ \A i \in At(up[s], "available") : i = 1
  BY <1>2 DEF OfferInv
<1>4. At(up'[s], "ready") = {} /\ At(up'[s], "available") = {}
  BY <1>2, <1>3
<1>5. s \notin serving
  BY <1>2 DEF ServeInv
<1>6. Claimed(s)
  BY <1>2 DEF Claimed
<1>7. At(up'[s], "announce") = {} /\ pc[s] \notin {"serve", "drain", "dropped"}
  BY <1>2, <1>6 DEF AnnounceInv, ModeAInv
<1>8. LinkInv(s)' /\ GhostInv(s)'
  BY <1>1, <1>2, <1>5 DEF LinkInv, GhostInv
<1>9. OfferInv(s)'
  BY <1>1, <1>3, <1>4 DEF OfferInv
<1>10. ModeAInv(s)' /\ AnnounceInv(s)' /\ ServeInv(s)'
  BY <1>1, <1>5, <1>7 DEF ModeAInv, AnnounceInv, ServeInv
<1> QED
  BY <1>8, <1>9, <1>10

\* The Ack joins the channel, or the end of the stream is noticed.
LEMMA AckOwn ==
  ASSUME NetTypeOK, RouterTypeOK, NEW s \in Streams, StreamInv(s), SendAck(s), UNCHANGED pc
  PROVE  StreamInv(s)'
<1> USE DEF StreamInv
<1>1. /\ link'[s] = link[s] /\ pc'[s] = pc[s]
      /\ tpc[s] = "ack" /\ tpc'[s] = "read"
      /\ UNCHANGED <<serving, pool, reg, avail>>
  BY DEF SendAck, stateVars, RouterTypeOK
<1>2. CASE Sendable(s) /\ down' = [down EXCEPT ![s] = Append(@, Ack)] /\ UNCHANGED up
  <2>1. down'[s] = Append(down[s], Ack) /\ down[s] \in Seq(RouterMessage) /\ link[s] = "open"
    BY <1>2 DEF NetTypeOK, Sendable
  <2>2. \A ty \in {"assign", "unassign"} : At(down'[s], ty) = At(down[s], ty)
    <3>1. Ack \in RouterMessage /\ Ack.type = "ack"
      BY RouterMessages DEF Ack
    <3> QED
      BY <2>1, <3>1, AtAppendOther
  <2>3. LinkInv(s)' /\ GhostInv(s)'
    BY <1>1, <1>2, <2>1 DEF LinkInv, GhostInv
  <2>4. OfferInv(s)' /\ (Claimed(s)' => Claimed(s))
    BY <1>1, <1>2, <2>2 DEF OfferInv, Claimed
  <2>5. ModeAInv(s)' /\ AnnounceInv(s)' /\ ServeInv(s)'
    BY <1>1, <1>2, <2>2, <2>4 DEF ModeAInv, AnnounceInv, ServeInv
  <2> QED
    BY <2>3, <2>4, <2>5
<1>3. CASE UNCHANGED <<up, down>>
  <2>1. Quiet(s)
    BY <1>1, <1>3 DEF Quiet, HandOut
  <2> QED
    BY <2>1, QuietStream
<1>4. CASE up'[s] = <<>> /\ link[s] = "cut" /\ UNCHANGED down
  <2>1. \A ty : At(up'[s], ty) = {}
    BY <1>4, AtEmpty
  <2>2. pc[s] = "gone"
    BY <1>4 DEF LinkInv
  <2>3. LinkInv(s)' /\ GhostInv(s)'
    BY <1>1, <1>4 DEF LinkInv, GhostInv
  <2>4. OfferInv(s)'
    BY <1>1, <1>4, <2>1 DEF OfferInv
  <2>5. ModeAInv(s)' /\ AnnounceInv(s)' /\ ServeInv(s)'
    BY <1>1, <1>4, <2>1, <2>2 DEF ModeAInv, AnnounceInv, ServeInv
  <2> QED
    BY <2>3, <2>4, <2>5
<1>5. \/ Sendable(s) /\ down' = [down EXCEPT ![s] = Append(@, Ack)] /\ UNCHANGED up
      \/ UNCHANGED <<up, down>>
      \/ up'[s] = <<>> /\ link[s] = "cut" /\ UNCHANGED down
  BY DEF SendAck, NetTypeOK
<1> QED
  BY <1>2, <1>3, <1>4, <1>5

\* The clean-ups: an empty stream loses its entry, then its spare.
LEMMA CloseOwn ==
  ASSUME NetTypeOK, RouterTypeOK, NEW s \in Streams, StreamInv(s),
         CloseServing(s) \/ CloseSpare(s), UNCHANGED pc
  PROVE  StreamInv(s)'
<1> USE DEF StreamInv
<1> StateTypeOK /\ serving \ {s} \in SUBSET Streams
  BY DEF RouterTypeOK, StateTypeOK
<1>1. /\ link[s] = "cut" /\ up[s] = <<>> /\ up'[s] = <<>> /\ down[s] = <<>>
  BY DEF CloseServing, CloseSpare, LinkInv
<1>2. pc[s] = "gone" /\ pc'[s] = "gone"
  BY <1>1 DEF LinkInv
<1>3. \A ty : At(up'[s], ty) = {}
  BY <1>1, AtEmpty
<1>4. /\ down'[s] = <<>> /\ s \notin serving'
      /\ s \in pool' => s \in avail' /\ tpc'[s] = "bye" /\ link'[s] = "cut"
      /\ \/ tpc'[s] = "bye" /\ link'[s] = "cut"
         \/ tpc'[s] = "none" /\ link'[s] = "free"
  <2>1. CASE CloseServing(s)
    <3>1. tpc'[s] = "bye" /\ link'[s] = "cut" /\ (s \in avail' <=> s \in avail)
      BY <1>1, <2>1 DEF CloseServing, RouterTypeOK
    <3>2. CASE s \in reg
      <4>1. s \notin serving' /\ HandOut(s)
        BY <2>1, <3>2, FillAndReplicateHandsOut DEF CloseServing, Deregister
      <4>2. down'[s] = <<>> /\ (s \in pool' => s \in pool)
        BY <1>1, <4>1, HandOutAt
      <4> QED
        BY <3>1, <4>1, <4>2 DEF GhostInv
    <3>3. CASE s \notin reg
      BY <1>1, <2>1, <3>1, <3>3 DEF CloseServing, stateVars, GhostInv
    <3> QED
      BY <3>2, <3>3
  <2>2. CASE CloseSpare(s)
    BY <1>1, <2>2 DEF CloseSpare, GhostInv, stateVars, RouterTypeOK, NetTypeOK
  <2> QED
    BY <2>1, <2>2
<1>5. At(down'[s], "assign") = {}
  BY <1>4, AtEmpty
<1>6. LinkInv(s)' /\ GhostInv(s)'
  BY <1>1, <1>2, <1>4 DEF LinkInv, GhostInv
<1>7. OfferInv(s)'
  BY <1>2, <1>3, <1>5 DEF OfferInv
<1>8. ModeAInv(s)' /\ AnnounceInv(s)' /\ ServeInv(s)'
  BY <1>2, <1>3, <1>4 DEF ModeAInv, AnnounceInv, ServeInv
<1> QED
  BY <1>6, <1>7, <1>8

\* The steps of the Available handler after the first only hand spares out.
LEMMA HandlerOwn ==
  ASSUME NetTypeOK, RouterTypeOK, NEW s \in Streams,
         ScanGaps(s) \/ TryGap(s) \/ UseSpare(s), UNCHANGED pc
  PROVE  Quiet(s)
<1> StateTypeOK /\ serving \in SUBSET Streams
  BY DEF RouterTypeOK, StateTypeOK
<1>1. CASE ScanGaps(s)
  BY <1>1 DEF ScanGaps, Quiet, HandOut, stateVars, netVars, RouterTypeOK
<1>2. CASE TryGap(s)
  <2>1. tpc[s] = "gaps" /\ tpc'[s] \in {"gaps", "spare", "read"}
    BY <1>2 DEF TryGap, GapDone, RouterTypeOK
  <2>2. HandOut(s)
    BY <1>2, TryGapHandsOut
  <2> QED
    BY <1>2, <2>1, <2>2 DEF TryGap, Quiet, stateVars
<1>3. CASE UseSpare(s)
  <2>1. HandOut(s)
    BY <1>3, ReplicateOnlyHandsOut DEF UseSpare
  <2> QED
    BY <1>3, <2>1 DEF UseSpare, Quiet, stateVars, RouterTypeOK
<1> QED
  BY <1>1, <1>2, <1>3

\* Every step of a stream's task keeps the invariant of every stream.
LEMMA TaskStreams ==
  ASSUME NetTypeOK, RouterTypeOK, StreamsInv, NEW s \in Streams, TaskStep(s), UNCHANGED pc,
         NEW t \in Streams
  PROVE  StreamInv(t)'
<1> StreamInv(t) /\ StreamInv(s)
  BY DEF StreamsInv
<1>1. CASE t # s
  BY <1>1, TaskOthers, QuietStream
<1>2. CASE t = s
  <2>1. CASE HandleAnnounce(s) \/ HandleReady(s)
    BY <1>2, <2>1, RegisterOwn
  <2>2. CASE SendAck(s)
    BY <1>2, <2>2, AckOwn
  <2>3. CASE HandleHeartbeat(s)
    BY <1>2, <2>3, SkipOwn DEF HandleHeartbeat, UpdateHeartbeat, taskVars
  <2>4. CASE HandleRefuse(s)
    BY <1>2, <2>4, SkipOwn DEF HandleRefuse, routerVars, stateVars, taskVars
  <2>5. CASE HandleDropping(s)
    BY <1>2, <2>5, DroppingOwn
  <2>6. CASE HandleAvailable(s)
    BY <1>2, <2>6, AvailableOwn
  <2>7. CASE ScanGaps(s) \/ TryGap(s) \/ UseSpare(s)
    BY <1>2, <2>7, HandlerOwn, QuietStream
  <2>8. CASE CloseServing(s) \/ CloseSpare(s)
    BY <1>2, <2>8, CloseOwn
  <2> QED
    BY <2>1, <2>2, <2>3, <2>4, <2>5, <2>6, <2>7, <2>8 DEF TaskStep
<1> QED
  BY <1>1, <1>2

\* Telling a serving server to leave: it has announced itself long ago.
LEMMA UnassignOwn ==
  ASSUME NetTypeOK, NEW s \in Streams, StreamInv(s), s \in serving,
         down'[s] = Pushed(s, Unassign),
         link'[s] = link[s], up'[s] = up[s], pc'[s] = pc[s], tpc'[s] = tpc[s],
         UNCHANGED <<serving, pool, reg, avail>>
  PROVE  StreamInv(s)'
<1> USE DEF StreamInv
<1>1. CASE ~ Sendable(s)
  <2>1. Quiet(s)
    BY <1>1 DEF Quiet, HandOut, Pushed
  <2> QED
    BY <2>1, QuietStream
<1>2. CASE Sendable(s)
  <2>1. down'[s] = Append(down[s], Unassign) /\ down[s] \in Seq(RouterMessage) /\ link[s] = "open"
    BY <1>2 DEF NetTypeOK, Pushed, Sendable
  <2>2. At(down'[s], "assign") = At(down[s], "assign")
    <3>1. Unassign \in RouterMessage /\ Unassign.type = "unassign"
      BY RouterMessages DEF Unassign
    <3> QED
      BY <2>1, <3>1, AtAppendOther
  <2>3. At(up[s], "announce") = {}
    BY DEF AnnounceInv
  <2>4. LinkInv(s)' /\ GhostInv(s)'
    BY <2>1 DEF LinkInv, GhostInv
  <2>5. OfferInv(s)' /\ (Claimed(s)' => Claimed(s))
    BY <2>2 DEF OfferInv, Claimed
  <2>6. ModeAInv(s)' /\ AnnounceInv(s)' /\ ServeInv(s)'
    BY <2>2, <2>3, <2>5 DEF ModeAInv, AnnounceInv, ServeInv
  <2> QED
    BY <2>4, <2>5, <2>6
<1> QED
  BY <1>1, <1>2

\* Every step of the rebalancer keeps the invariant of every stream.
LEMMA TickStreams ==
  ASSUME NetTypeOK, RouterTypeOK, IndexInStep, StreamsInv, RebalancerStep, UNCHANGED pc,
         NEW t \in Streams
  PROVE  StreamInv(t)'
<1> StateTypeOK /\ StreamInv(t) /\ serving \in SUBSET Streams
  BY DEF RouterTypeOK, StateTypeOK, StreamsInv
<1>1. CASE EvictRead \/ CheckHotShards \/ PlanOverReplication \/ PlanImbalance
  <2>1. Quiet(t)
    BY <1>1 DEF EvictRead, CheckHotShards, PlanOverReplication, PlanImbalance, Quiet, HandOut,
                stateVars, taskVars, netVars
  <2> QED
    BY <2>1, QuietStream
<1>2. CASE EvictWrite
  <2>1. HandOut(t)
    BY <1>2, FillHandsOut DEF EvictWrite
  <2>2. Quiet(t)
    BY <1>2, <2>1 DEF EvictWrite, Deregister, Quiet, taskVars
  <2> QED
    BY <2>2, QuietStream
<1>3. CASE CheckUnderReplication
  <2>1. HandOut(t)
    BY <1>3, ReplicateOnlyHandsOut DEF CheckUnderReplication
  <2>2. Quiet(t)
    BY <1>3, <2>1 DEF CheckUnderReplication, Quiet, stateVars, taskVars
  <2> QED
    BY <2>2, QuietStream
<1>4. ASSUME NEW v \in plan, NEW next, TellVictim(v, next) PROVE StreamInv(t)'
  <2>1. CASE v.sid = t /\ t \in senders
    <3>1. t \in serving /\ down'[t] = Pushed(t, Unassign)
      BY <1>4, <2>1 DEF IndexInStep, TellVictim, NetTypeOK
    <3> QED
      BY <1>4, <3>1, UnassignOwn DEF TellVictim, stateVars, taskVars
  <2>2. CASE v.sid # t \/ v.sid \notin senders
    <3>1. Quiet(t)
      BY <1>4, <2>2 DEF TellVictim, Quiet, HandOut, stateVars, taskVars, NetTypeOK
    <3> QED
      BY <3>1, QuietStream
  <2> QED
    BY <2>1, <2>2
<1>5. CASE SendOverReplication \/ SendImbalance
  BY <1>4, <1>5 DEF SendOverReplication, SendImbalance
<1> QED
  BY <1>1, <1>2, <1>3, <1>5 DEF RebalancerStep

-----------------------------------------------------------------------------
(* The servers' side. *)

\* The messages of s after the server sent one, which a lost stream swallows.
LEMMA SendUpAt ==
  ASSUME NetTypeOK, NEW s \in Streams, NEW m \in ServerMessage, SendUp(s, m)
  PROVE  /\ \A t \in Streams \ {s} : up'[t] = up[t]
         /\ link[s] # "open" => up'[s] = up[s]
         /\ link[s] = "open" => At(up'[s], m.type) = At(up[s], m.type) \cup {Len(up[s]) + 1}
         /\ \A x : x # m.type => At(up'[s], x) = At(up[s], x)
         /\ \A x : \A i \in At(up[s], x) : i \in Nat /\ i < Len(up[s]) + 1
         /\ Len(up[s]) \in Nat
<1>1. up[s] \in Seq(ServerMessage) /\ Len(up[s]) \in Nat
  BY LenProperties DEF NetTypeOK
<1>2. \A x : \A i \in At(up[s], x) : i \in Nat /\ i < Len(up[s]) + 1
  BY <1>1, AtIsNat
<1>3. CASE link[s] = "open"
  <2>1. up'[s] = Append(up[s], m) /\ \A t \in Streams \ {s} : up'[t] = up[t]
    BY <1>3 DEF SendUp, NetTypeOK
  <2>2. /\ At(Append(up[s], m), m.type) = At(up[s], m.type) \cup {Len(up[s]) + 1}
        /\ \A x : x # m.type => At(Append(up[s], m), x) = At(up[s], x)
    <3>1. At(Append(up[s], m), m.type) = At(up[s], m.type) \cup {Len(up[s]) + 1}
      BY <1>1, AtAppend
    <3>2. \A x : x # m.type => At(Append(up[s], m), x) = At(up[s], x)
      BY <1>1, AtAppendOther
    <3> QED
      BY <3>1, <3>2
  <2>3. /\ At(up'[s], m.type) = At(up[s], m.type) \cup {Len(up[s]) + 1}
        /\ \A x : x # m.type => At(up'[s], x) = At(up[s], x)
    BY <2>1, <2>2
  <2> QED
    BY <1>1, <1>2, <1>3, <2>1, <2>3
<1>4. CASE link[s] # "open"
  BY <1>1, <1>2, <1>4 DEF SendUp
<1> QED
  BY <1>3, <1>4

\* The messages to s after the server took the first, of type ty.
LEMMA ReceivesAt ==
  ASSUME NetTypeOK, NEW s \in Streams, NEW ty, Receives(s, ty)
  PROVE  /\ \A t \in Streams \ {s} : down'[t] = down[t]
         /\ down[s] # <<>>
         /\ \A x : \A i \in At(down[s], x) : i \in Nat /\ 1 <= i
         /\ \A x : \A i \in At(down'[s], x) : i \in Nat /\ 1 <= i /\ i + 1 \in At(down[s], x)
         /\ \A x : 1 \in At(down[s], x) <=> x = ty
<1>1. /\ down[s] \in Seq(RouterMessage) /\ down[s] # <<>>
      /\ down'[s] = Tail(down[s])
      /\ Head(down[s]).type = ty
      /\ \A t \in Streams \ {s} : down'[t] = down[t]
  BY DEF NetTypeOK, Receives
<1>2. Tail(down[s]) \in Seq(RouterMessage)
  BY <1>1, HeadTailProperties
<1> QED
  BY <1>1, <1>2, AtIsNat, AtTail

\* What the router knows of stream s stays as it is.
RouterSame == UNCHANGED <<serving, pool, reg, avail, tpc>>

\* A message that is neither an announcement nor an offer nor a ReadyMsg.
LEMMA SendOwn ==
  ASSUME NetTypeOK, NEW s \in Streams, StreamInv(s), RouterSame,
         NEW m \in ServerMessage, m.type \in {"heartbeat", "dropping", "refuse"}, SendUp(s, m),
         UNCHANGED <<link, down>>, pc[s] \in {"serve", "drain", "dropped", "load"},
         \/ pc'[s] = pc[s]
         \/ pc[s] = "drain" /\ pc'[s] = "dropped" /\ m.type = "dropping"
         \/ pc[s] = "load" /\ pc'[s] = "avail"
  PROVE  StreamInv(s)'
<1> USE DEF StreamInv, RouterSame
<1>1. /\ \A x \in {"available", "ready", "announce"} : At(up'[s], x) = At(up[s], x)
      /\ At(up[s], "dropping") \subseteq At(up'[s], "dropping")
      /\ link[s] # "open" => up'[s] = up[s]
      /\ link[s] = "open" /\ m.type = "dropping" => At(up'[s], "dropping") # {}
  BY SendUpAt
<1>2. link[s] \in {"open", "lost"}
  BY DEF LinkInv, NetTypeOK
<1>3. LinkInv(s)' /\ GhostInv(s)'
  BY <1>1, <1>2 DEF LinkInv, GhostInv
<1>4. OfferInv(s)' /\ (Claimed(s)' => Claimed(s))
  BY <1>1 DEF OfferInv, Claimed
<1>5. ModeAInv(s)'
  BY <1>4 DEF ModeAInv
<1>6. AnnounceInv(s)'
  BY <1>1, <1>4 DEF AnnounceInv, Claimed
<1>7. ServeInv(s)'
  BY <1>1, <1>2 DEF ServeInv, LinkInv, GhostInv
<1> QED
  BY <1>3, <1>4, <1>5, <1>6, <1>7

\* The first offer, or the offer after a drain.
LEMMA OfferOwn ==
  ASSUME NetTypeOK, NEW s \in Streams, StreamInv(s), RouterSame, EnterModeB(s), pc'[s] = "avail"
  PROVE  StreamInv(s)'
<1> USE DEF StreamInv, RouterSame
<1>0. pc[s] = "dropped" /\ SendUp(s, Available) /\ UNCHANGED <<link, down>>
  BY DEF EnterModeB
<1>1. Available \in ServerMessage /\ Available.type = "available"
  BY ServerMessages DEF Available
<1>2. /\ \A x \in {"ready", "announce", "dropping"} : At(up'[s], x) = At(up[s], x)
      /\ link[s] # "open" => up'[s] = up[s]
      /\ link[s] = "open" => At(up'[s], "available") = At(up[s], "available") \cup {Len(up[s]) + 1}
      /\ \A x : \A i \in At(up[s], x) : i < Len(up[s]) + 1
  BY <1>0, <1>1, SendUpAt
<1>3. link[s] \in {"open", "lost"} /\ ~ Claimed(s)
  BY <1>0 DEF LinkInv, NetTypeOK, ModeAInv
<1>4. At(up[s], "announce") = {}
  BY <1>0 DEF AnnounceInv
<1>5. LinkInv(s)' /\ GhostInv(s)'
  BY <1>0, <1>2, <1>3 DEF LinkInv, GhostInv
<1>6. CASE link[s] = "open"
  <2>1. At(up'[s], "available") = {Len(up[s]) + 1}
    BY <1>2, <1>3, <1>6 DEF Claimed
  <2>2. OfferInv(s)'
    BY <1>0, <1>2, <1>3, <2>1 DEF OfferInv, Claimed
  <2>3. ServeInv(s)'
    BY <1>0, <1>2, <1>3, <2>1 DEF ServeInv, Claimed
  <2> QED
    BY <1>2, <1>4, <1>5, <2>2, <2>3 DEF ModeAInv, AnnounceInv
<1>7. CASE link[s] = "lost"
  <2>1. OfferInv(s)'
    BY <1>0, <1>2, <1>3, <1>7 DEF OfferInv, Claimed
  <2>2. ServeInv(s)'
    BY <1>7 DEF ServeInv, LinkInv, GhostInv
  <2> QED
    BY <1>2, <1>4, <1>5, <2>1, <2>2 DEF ModeAInv, AnnounceInv
<1> QED
  BY <1>3, <1>6, <1>7

\* The shard is loaded: the claim moves from the loader into the ReadyMsg.
LEMMA LoadOkOwn ==
  ASSUME NetTypeOK, ServerTypeOK, NEW s \in Streams, StreamInv(s), RouterSame, LoadOk(s)
  PROVE  StreamInv(s)'
<1> USE DEF StreamInv, RouterSame
<1> DEFINE m == Ready(DenseOf(job[s].slice))
<1>0. pc[s] = "load" /\ pc'[s] = "avail" /\ SendUp(s, m) /\ UNCHANGED <<link, down>>
  BY DEF LoadOk, ServerTypeOK
<1>1. m \in ServerMessage /\ m.type = "ready"
  <2>1. job[s].slice \in Slice
    BY DEF ServerTypeOK, AssignMsg
  <2> QED
    BY <2>1, DenseType, ServerMessages DEF Ready
<1> HIDE DEF m
<1>2. /\ \A x \in {"available", "announce", "dropping"} : At(up'[s], x) = At(up[s], x)
      /\ link[s] # "open" => up'[s] = up[s]
      /\ link[s] = "open" => At(up'[s], "ready") = At(up[s], "ready") \cup {Len(up[s]) + 1}
  BY <1>0, <1>1, SendUpAt
<1>3. link[s] \in {"open", "lost"} /\ Claimed(s) /\ s \notin serving
  BY <1>0 DEF LinkInv, NetTypeOK, Claimed, ServeInv
<1>4. At(up[s], "announce") = {}
  BY <1>0 DEF AnnounceInv
<1>5. LinkInv(s)' /\ GhostInv(s)'
  BY <1>0, <1>2, <1>3 DEF LinkInv, GhostInv
<1>6. OfferInv(s)'
  <2>1. /\ At(up[s], "available") = {} /\ s \notin pool /\ At(down[s], "assign") = {}
        /\ At(up[s], "ready") = {}
    BY <1>0 DEF OfferInv
  <2>2. At(up'[s], "ready") = {} \/ At(up'[s], "ready") = {Len(up[s]) + 1}
    BY <1>2, <1>3, <2>1
  <2> QED
    BY <1>0, <1>2, <2>1, <2>2 DEF OfferInv
<1> QED
  BY <1>0, <1>2, <1>3, <1>4, <1>5, <1>6 DEF ModeAInv, AnnounceInv, ServeInv

\* A message that Mode A reads, or an UnassignMsg that Mode B ignores.
LEMMA ReceiveOwn ==
  ASSUME NetTypeOK, NEW s \in Streams, StreamInv(s), RouterSame,
         NEW ty \in {"ack", "assign", "unassign"}, Receives(s, ty), UNCHANGED <<link, up>>,
         \/ pc[s] \in {"serve", "avail"} /\ pc'[s] = pc[s]
         \/ pc[s] = "serve" /\ pc'[s] = "drain" /\ ty = "unassign"
  PROVE  StreamInv(s)'
<1> USE DEF StreamInv, RouterSame
<1>1. /\ down[s] # <<>>
      /\ \A x : \A i \in At(down'[s], x) : i \in Nat /\ i + 1 \in At(down[s], x)
      /\ 1 \in At(down[s], ty)
  BY ReceivesAt
<1>2. link[s] = "open"
  BY <1>1 DEF LinkInv, NetTypeOK
<1>3. LinkInv(s)' /\ GhostInv(s)'
  BY <1>2 DEF LinkInv, GhostInv
<1>4. OfferInv(s)'
  BY <1>1 DEF OfferInv
<1>5. Claimed(s)' => Claimed(s)
  BY <1>1 DEF Claimed
<1>6. ModeAInv(s)'
  BY <1>5 DEF ModeAInv
<1>7. AnnounceInv(s)'
  BY <1>1, <1>5 DEF AnnounceInv
<1>8. ServeInv(s)'
  BY <1>1 DEF ServeInv
<1> QED
  BY <1>3, <1>4, <1>6, <1>7, <1>8

\* An AssignMsg in Mode B: the claim moves from the channel to the loader.
LEMMA AssignOwn ==
  ASSUME NetTypeOK, NEW s \in Streams, StreamInv(s), RouterSame,
         Receives(s, "assign"), UNCHANGED <<link, up>>, pc[s] = "avail", pc'[s] = "load"
  PROVE  StreamInv(s)'
<1> USE DEF StreamInv, RouterSame
<1>1. /\ down[s] # <<>>
      /\ \A x : \A i \in At(down'[s], x) : i \in Nat /\ 1 <= i /\ i + 1 \in At(down[s], x)
      /\ 1 \in At(down[s], "assign")
  BY ReceivesAt
<1>2. link[s] = "open"
  BY <1>1 DEF LinkInv, NetTypeOK
<1>3. /\ \A i \in At(down[s], "assign") : i = 1
      /\ At(up[s], "available") = {} /\ At(up[s], "ready") = {} /\ s \notin pool
  BY <1>1 DEF OfferInv
<1>4. At(down'[s], "assign") = {}
  BY <1>1, <1>3
<1>5. Claimed(s) /\ s \notin serving
  BY <1>1 DEF Claimed, ServeInv
<1>6. At(up[s], "announce") = {}
  BY <1>5 DEF AnnounceInv
<1>7. LinkInv(s)' /\ GhostInv(s)'
  BY <1>2 DEF LinkInv, GhostInv
<1>8. OfferInv(s)'
  BY <1>3, <1>4 DEF OfferInv
<1> QED
  BY <1>5, <1>6, <1>7, <1>8 DEF ModeAInv, AnnounceInv, ServeInv

\* The end of a turn: a prefix of the messages is still to be read.
LEMMA LeaveOwn ==
  ASSUME NetTypeOK, ServerTypeOK, NEW s \in Streams, StreamInv(s), RouterSame, Leave(s),
         link[s] \in {"open", "lost"}
  PROVE  StreamInv(s)'
<1> USE DEF StreamInv, RouterSame
<1>1. pc'[s] = "gone" /\ down'[s] = <<>>
  BY DEF Leave, Hangup, ServerTypeOK, NetTypeOK
<1>2. \A ty : At(down'[s], ty) = {}
  BY <1>1, AtEmpty
<1>3. CASE link[s] = "open"
  <2>1. PICK k \in 0 .. Len(up[s]) : up' = [up EXCEPT ![s] = SubSeq(@, 1, k)]
    BY <1>3 DEF Leave, Hangup
  <2>2. link'[s] = "cut" /\ up'[s] = SubSeq(up[s], 1, k) /\ up[s] \in Seq(ServerMessage)
    BY <1>3, <2>1 DEF Leave, Hangup, NetTypeOK
  <2>3. \A ty : \A i : i \in At(up'[s], ty) <=> i \in At(up[s], ty) /\ i <= k
    <3> TAKE ty
    <3>1. At(SubSeq(up[s], 1, k), ty) = {i \in At(up[s], ty) : i <= k}
      BY <2>2, AtPrefix
    <3> QED
      BY <2>2, <3>1
  <2>4. tpc[s] # "bye"
    BY <1>3 DEF LinkInv
  <2>5. LinkInv(s)' /\ GhostInv(s)'
    BY <1>1, <2>2, <2>4 DEF LinkInv, GhostInv
  <2>6. OfferInv(s)'
    BY <1>1, <1>2, <2>3 DEF OfferInv
  <2>7. Claimed(s)' => Claimed(s)
    BY <1>1, <1>2, <2>3 DEF Claimed
  <2>8. ModeAInv(s)' /\ AnnounceInv(s)'
    BY <1>1, <1>2, <2>3, <2>7 DEF ModeAInv, AnnounceInv
  <2>9. ServeInv(s)'
    <3> SUFFICES ASSUME s \in serving PROVE ServeInv(s)'
      BY DEF ServeInv
    <3>1. \A i \in At(up'[s], "available") : \E j \in At(up'[s], "dropping") : j < i
      <4>1. TAKE i \in At(up'[s], "available")
      <4>2. i \in At(up[s], "available") /\ i <= k
        BY <2>3
      <4>3. PICK j \in At(up[s], "dropping") : j < i
        BY <4>2 DEF ServeInv
      <4>4. i \in Nat /\ j \in Nat
        BY <2>2, <4>2, AtIsNat
      <4>5. j <= k
        BY <4>2, <4>3, <4>4
      <4> QED
        BY <2>3, <4>3, <4>5
    <3>2. At(up'[s], "ready") = {}
      BY <2>3 DEF ServeInv
    <3> QED
      BY <1>1, <1>2, <3>1, <3>2 DEF ServeInv
  <2> QED
    BY <2>5, <2>6, <2>8, <2>9
<1>4. CASE link[s] = "lost"
  <2>1. up'[s] = <<>> /\ link'[s] = "free" /\ tpc[s] = "none"
    BY <1>4 DEF Leave, Hangup, NetTypeOK, LinkInv
  <2>2. \A ty : At(up'[s], ty) = {}
    BY <2>1, AtEmpty
  <2>3. s \notin serving /\ s \notin pool
    BY <2>1 DEF GhostInv
  <2>4. LinkInv(s)' /\ GhostInv(s)'
    BY <1>1, <2>1, <2>3 DEF LinkInv, GhostInv
  <2>5. OfferInv(s)'
    BY <1>1, <1>2, <2>2, <2>3 DEF OfferInv
  <2> QED
    BY <1>1, <2>2, <2>3, <2>4, <2>5 DEF ModeAInv, AnnounceInv, ServeInv
<1> QED
  BY <1>3, <1>4

\* What the other streams see of a server's step or fault.
LEMMA ServerOthers ==
  ASSUME NetTypeOK, ServerTypeOK, NEW s \in Streams, ServerStep(s) \/ Leave(s), RouterSame,
         NEW t \in Streams \ {s}
  PROVE  Quiet(t)
<1>1. ASSUME Leave(s) PROVE link'[t] = link[t] /\ up'[t] = up[t] /\ down'[t] = down[t] /\ pc'[t] = pc[t]
  BY <1>1 DEF Leave, Hangup, NetTypeOK, ServerTypeOK
<1>2. link'[t] = link[t] /\ up'[t] = up[t] /\ down'[t] = down[t] /\ pc'[t] = pc[t]
  BY <1>1 DEF ServerStep, SendHeartbeat, ServeIgnores, ServeUnassign, Drained, EnterModeB,
              DropReturns, AvailAssign, AvailIgnores, AvailAck, LoadOk, LoadFail, StreamError,
              Receives, SendUp, procVars, NetTypeOK, ServerTypeOK
<1> QED
  BY <1>2 DEF Quiet, HandOut, RouterSame

\* Every step of an announce loop keeps the invariant of its stream.
LEMMA ServerOwn ==
  ASSUME NetTypeOK, ServerTypeOK, NEW s \in Streams, StreamInv(s), ServerStep(s), RouterSame
  PROVE  StreamInv(s)'
<1>1. CASE \E b \in Beats : SendHeartbeat(s, b)
  <2>1. PICK b \in Beats : SendHeartbeat(s, b)
    BY <1>1
  <2>2. Heartbeat(b) \in ServerMessage /\ Heartbeat(b).type = "heartbeat"
    BY ServerMessages DEF Heartbeat
  <2> QED
    BY <2>1, <2>2, SendOwn DEF SendHeartbeat, procVars
<1>2. CASE ServeIgnores(s)
  BY <1>2, ReceiveOwn DEF ServeIgnores, procVars
<1>3. CASE ServeUnassign(s)
  BY <1>3, ReceiveOwn DEF ServeUnassign, ServerTypeOK
<1>4. CASE Drained(s)
  <2>1. Dropping \in ServerMessage /\ Dropping.type = "dropping"
    BY ServerMessages DEF Dropping
  <2> QED
    BY <1>4, <2>1, SendOwn DEF Drained, ServerTypeOK
<1>5. CASE EnterModeB(s)
  BY <1>5, OfferOwn DEF EnterModeB, ServerTypeOK
<1>6. CASE DropReturns(s) \/ AvailAck(s) \/ StreamError(s)
  <2>1. Leave(s) /\ pc[s] # "gone"
    BY <1>6 DEF DropReturns, AvailAck, StreamError
  <2>2. link[s] \in {"open", "lost"}
    BY <2>1 DEF StreamInv, LinkInv, NetTypeOK
  <2> QED
    BY <2>1, <2>2, LeaveOwn
<1>7. CASE AvailAssign(s)
  BY <1>7, AssignOwn DEF AvailAssign, ServerTypeOK
<1>8. CASE AvailIgnores(s)
  BY <1>8, ReceiveOwn DEF AvailIgnores, procVars
<1>9. CASE LoadOk(s)
  BY <1>9, LoadOkOwn
<1>10. CASE LoadFail(s)
  <2>1. Refuse \in ServerMessage /\ Refuse.type = "refuse"
    BY ServerMessages DEF Refuse
  <2> QED
    BY <1>10, <2>1, SendOwn DEF LoadFail, ServerTypeOK
<1> QED
  BY <1>1, <1>2, <1>3, <1>4, <1>5, <1>6, <1>7, <1>8, <1>9, <1>10 DEF ServerStep

\* A new stream starts with its first message and nothing else.
LEMMA JoinStreams ==
  ASSUME TypeOK, StreamsInv, NEW p \in Procs, NEW s \in Streams, Join(p, s), NEW t \in Streams
  PROVE  StreamInv(t)'
<1> StreamInv(t) /\ NetTypeOK /\ ServerTypeOK /\ RouterTypeOK
  BY DEF StreamsInv, TypeOK
<1>1. CASE t # s
  <2>1. Quiet(t)
    BY <1>1 DEF Join, Connect, Quiet, HandOut, NetTypeOK, ServerTypeOK, RouterTypeOK, stateVars
  <2> QED
    BY <2>1, QuietStream
<1>2. CASE t = s
  <2> USE DEF StreamInv
  <2> DEFINE m == FirstMessage(p)
  <2>1. link[s] = "free" /\ down[s] = <<>> /\ tpc[s] = "none"
    BY <1>2 DEF Join, Connect, LinkInv
  <2>2. s \notin serving /\ s \notin pool
    BY <1>2, <2>1 DEF GhostInv
  <2>3. /\ link'[s] = "open" /\ up'[s] = <<m>> /\ down'[s] = <<>> /\ tpc'[s] = "read"
        /\ pc'[s] = IF p \in ModeA THEN "serve" ELSE "avail"
        /\ s \notin serving' /\ s \notin pool'
    BY <2>1, <2>2 DEF Join, Connect, NetTypeOK, ServerTypeOK, RouterTypeOK, stateVars
  <2>4. m.type = IF p \in ModeA THEN "announce" ELSE "available"
    BY DEF FirstMessage, Announce, Available
  <2> HIDE DEF m
  <2>5. \A ty : At(up'[s], ty) = IF m.type = ty THEN {1} ELSE {}
    BY <2>3 DEF At
  <2>6. \A ty : At(down'[s], ty) = {}
    BY <2>3, AtEmpty
  <2>7. LinkInv(s)' /\ GhostInv(s)'
    BY <2>3 DEF LinkInv, GhostInv
  <2>8. OfferInv(s)'
    BY <2>3, <2>4, <2>5, <2>6 DEF OfferInv
  <2>9. p \in ModeA => ~ Claimed(s)'
    BY <2>3, <2>4, <2>5, <2>6 DEF Claimed
  <2>10. ModeAInv(s)'
    BY <2>3, <2>9 DEF ModeAInv
  <2>11. AnnounceInv(s)'
    BY <2>3, <2>4, <2>5, <2>6, <2>9 DEF AnnounceInv
  <2>12. ServeInv(s)'
    BY <2>3 DEF ServeInv
  <2> QED
    BY <1>2, <2>7, <2>8, <2>10, <2>11, <2>12
<1> QED
  BY <1>1, <1>2

\* A restart of the router empties every channel and every table.
LEMMA RestartStreams ==
  ASSUME NetTypeOK, StreamsInv, Restart, UNCHANGED pc, NEW t \in Streams
  PROVE  StreamInv(t)'
<1> USE DEF StreamInv
<1> StreamInv(t)
  BY DEF StreamsInv
<1>1. /\ up'[t] = <<>> /\ down'[t] = <<>> /\ tpc'[t] = "none" /\ pc'[t] = pc[t]
      /\ t \notin serving' /\ t \notin pool'
      /\ link'[t] = IF link[t] = "open" THEN "lost" ELSE IF link[t] = "cut" THEN "free" ELSE link[t]
  BY DEF Restart
<1>2. \A ty : At(up'[t], ty) = {} /\ At(down'[t], ty) = {}
  BY <1>1, AtEmpty
<1>3. link[t] \in {"free", "open", "cut", "lost"}
  BY DEF NetTypeOK
<1>4. LinkInv(t)' /\ GhostInv(t)'
  BY <1>1, <1>3 DEF LinkInv, GhostInv
<1>5. OfferInv(t)'
  BY <1>1, <1>2 DEF OfferInv
<1>6. ModeAInv(t)' /\ AnnounceInv(t)' /\ ServeInv(t)'
  BY <1>1, <1>2 DEF ModeAInv, Claimed, AnnounceInv, ServeInv
<1> QED
  BY <1>4, <1>5, <1>6

\* The disturbances keep the invariant of every stream.
LEMMA DisturbStreams ==
  ASSUME TypeOK, IndexInStep, StreamsInv, Disturb, NEW t \in Streams
  PROVE  StreamInv(t)'
<1> StreamInv(t) /\ NetTypeOK /\ ServerTypeOK /\ RouterTypeOK
  BY DEF StreamsInv, TypeOK
<1>1. CASE (\E s \in Streams : Fault(s)) /\ UNCHANGED routerVars
  <2>1. PICK s \in Streams : link[s] = "open" /\ Leave(s)
    BY <1>1 DEF Fault
  <2>2. RouterSame
    BY <1>1 DEF RouterSame, routerVars, stateVars, taskVars
  <2>3. CASE t = s
    BY <2>1, <2>2, <2>3, LeaveOwn
  <2>4. CASE t # s
    BY <2>1, <2>2, <2>4, ServerOthers, QuietStream
  <2> QED
    BY <2>3, <2>4
<1>2. CASE (\E s \in Streams : Lapse(s)) /\ UNCHANGED procVars
  <2>1. Quiet(t)
    BY <1>2 DEF Lapse, Quiet, HandOut, taskVars, netVars, procVars
  <2> QED
    BY <2>1, QuietStream
<1>3. CASE Restart /\ UNCHANGED procVars
  BY <1>3, RestartStreams DEF procVars
<1>4. CASE (\E s \in Streams : DrainServer(s)) /\ UNCHANGED procVars
  <2>1. PICK s \in Streams : DrainServer(s)
    BY <1>4
  <2>2. CASE t = s
    BY <1>4, <2>1, <2>2, UnassignOwn
       DEF DrainServer, routerVars, stateVars, taskVars, procVars, NetTypeOK
  <2>3. CASE t # s
    <3>1. Quiet(t)
      BY <1>4, <2>1, <2>3 DEF DrainServer, Quiet, HandOut, routerVars, stateVars, taskVars,
                              procVars, NetTypeOK
    <3> QED
      BY <3>1, QuietStream
  <2> QED
    BY <2>2, <2>3
<1>5. CASE /\ UNCHANGED procVars
           /\ \E x \in AdminSlices, h \in Hashes :
                AssignAny(x, h) \/ \E u \in Streams : AssignNamed(x, h, u)
  <2>1. PICK x \in AdminSlices, h \in Hashes :
          AssignAny(x, h) \/ \E u \in Streams : AssignNamed(x, h, u)
    BY <1>5
  <2>4. HandOut(t)
    BY <2>1, AdminHandsOut
  <2>5. Quiet(t)
    BY <1>5, <2>1, <2>4 DEF AssignAny, AssignNamed, Quiet, stateVars, taskVars, procVars
  <2> QED
    BY <2>5, QuietStream
<1> QED
  BY <1>1, <1>2, <1>3, <1>4, <1>5 DEF Disturb

\* The invariant is kept by every step, given the types and the index.
LEMMA NextStreams ==
  ASSUME TypeOK, IndexInStep, StreamsInv, [Next]_vars
  PROVE  StreamsInv'
<1> SUFFICES ASSUME NEW t \in Streams PROVE StreamInv(t)'
  BY DEF StreamsInv
<1> StreamInv(t) /\ NetTypeOK /\ ServerTypeOK /\ RouterTypeOK
  BY DEF StreamsInv, TypeOK
<1>1. CASE \E p \in Procs, s \in Streams : Join(p, s)
  BY <1>1, JoinStreams
<1>2. CASE RouterNext
  BY <1>2, TaskStreams, TickStreams DEF RouterNext, procVars
<1>3. CASE ServerNext
  <2>1. PICK s \in Streams : ServerStep(s)
    BY <1>3 DEF ServerNext
  <2>2. RouterSame
    BY <1>3 DEF ServerNext, RouterSame, routerVars, stateVars, taskVars
  <2>3. CASE t = s
    BY <2>1, <2>2, <2>3, ServerOwn
  <2>4. CASE t # s
    BY <2>1, <2>2, <2>4, ServerOthers, QuietStream
  <2> QED
    BY <2>3, <2>4
<1>4. CASE Disturb
  BY <1>4, DisturbStreams
<1>5. CASE UNCHANGED vars
  <2>1. Quiet(t)
    BY <1>5 DEF vars, routerVars, procVars, netVars, stateVars, taskVars, Quiet, HandOut
  <2> QED
    BY <2>1, QuietStream
<1> QED
  BY <1>1, <1>2, <1>3, <1>4, <1>5 DEF Next

\* All streams are free at first.
LEMMA InitStreams == Init => StreamsInv
<1> SUFFICES ASSUME Init, NEW s \in Streams PROVE StreamInv(s)
  BY DEF StreamsInv
<1>1. /\ link[s] = "free" /\ up[s] = <<>> /\ down[s] = <<>> /\ pc[s] = "gone" /\ tpc[s] = "none"
      /\ serving = {} /\ pool = {}
  BY DEF Init, NetInit, RouterInit, ServerInit
<1>2. \A ty : At(up[s], ty) = {} /\ At(down[s], ty) = {}
  BY <1>1, AtEmpty
<1> QED
  BY <1>1, <1>2 DEF StreamInv, LinkInv, GhostInv, OfferInv, ModeAInv, AnnounceInv, ServeInv

(***************************************************************************)
(* Every stream keeps the protocol of offers, drops and announcements, in  *)
(* every reachable state of every instance.                                *)
(***************************************************************************)
THEOREM StreamsKeepProtocol == Spec => []StreamsInv
<1>1. TypeOK /\ IndexInStep /\ StreamsInv /\ [Next]_vars => StreamsInv'
  BY NextStreams
<1> QED
  BY <1>1, InitStreams, TypeCorrect, IndexIsRight, PTL DEF Spec

-----------------------------------------------------------------------------
(* What the invariant is for. *)

\* What GridState lists has a live task that will remove it.
THEOREM GhostsNever == Spec => []NoGhosts
<1>1. StreamsInv => NoGhosts
  BY DEF StreamsInv, StreamInv, GhostInv, NoGhosts
<1> QED
  BY <1>1, StreamsKeepProtocol, PTL

\* No stream is a serving replica and a spare at once.
THEOREM ServingNeverSpare == Spec => []ServingIsNoSpare
<1>1. TypeOK /\ StreamsInv => ServingIsNoSpare
  BY DEF TypeOK, RouterTypeOK, StreamsInv, StreamInv, ServeInv, ServingIsNoSpare
<1> QED
  BY <1>1, TypeCorrect, StreamsKeepProtocol, PTL

\* No AssignMsg is ever on its way to a server that is not in Mode B.
THEOREM AssignsMeetModeB == Spec => []AssignMeetsModeB
<1>1. ASSUME TypeOK, StreamsInv PROVE AssignMeetsModeB
  <2> SUFFICES ASSUME NEW s \in Streams, At(down[s], "assign") # {} PROVE pc[s] = "avail"
    BY DEF AssignMeetsModeB
  <2>1. StreamInv(s) /\ Claimed(s)
    BY <1>1 DEF StreamsInv, Claimed
  <2>2. pc[s] \notin {"serve", "drain", "dropped", "load"}
    BY <2>1 DEF StreamInv, ModeAInv, OfferInv
  <2>3. pc[s] # "gone"
    <3>1. down[s] # <<>>
      BY AtEmpty
    <3> QED
      BY <2>1, <3>1 DEF StreamInv, LinkInv
  <2> QED
    BY <1>1, <2>2, <2>3 DEF TypeOK, ServerTypeOK
<1> QED
  BY <1>1, TypeCorrect, StreamsKeepProtocol, PTL

\* The five kinds of claims, one by one.
LEMMA ClaimKinds ==
  ASSUME NEW s
  PROVE  Claims(s) = {<<"offered", i>>  : i \in At(up[s], "available")}
                \cup (IF s \in pool THEN {<<"pooled", 0>>} ELSE {})
                \cup {<<"assigned", i>> : i \in At(down[s], "assign")}
                \cup (IF pc[s] = "load" THEN {<<"loading", 0>>} ELSE {})
                \cup {<<"ready", i>>    : i \in At(up[s], "ready")}
<1>1. {<<"pooled", 0>> : t \in pool \cap {s}} = IF s \in pool THEN {<<"pooled", 0>>} ELSE {}
  OBVIOUS
<1>2. {<<"loading", 0>> : t \in {u \in {s} : pc[u] = "load"}}
        = IF pc[s] = "load" THEN {<<"loading", 0>>} ELSE {}
  OBVIOUS
<1> QED
  BY <1>1, <1>2 DEF Claims

\* A spare's offer is in one place at a time, so that no spare is ever given
\* two shards and no late ReadyMsg registers a server that is in the pool.
THEOREM ClaimsAreUnique == Spec => []OneClaim
<1>1. ASSUME StreamsInv PROVE OneClaim
  <2> SUFFICES ASSUME NEW s \in Streams, NEW c \in Claims(s), NEW d \in Claims(s) PROVE c = d
    BY DEF OneClaim
  <2>1. OfferInv(s)
    BY <1>1 DEF StreamsInv, StreamInv
  <2>2. \A e \in Claims(s) :
          \/ \E i \in At(up[s], "available") : e = <<"offered", i>>
          \/ s \in pool /\ e = <<"pooled", 0>>
          \/ \E i \in At(down[s], "assign") : e = <<"assigned", i>>
          \/ pc[s] = "load" /\ e = <<"loading", 0>>
          \/ \E i \in At(up[s], "ready") : e = <<"ready", i>>
    BY ClaimKinds
  <2>3. CASE \E i \in At(up[s], "available") : c = <<"offered", i>>
    BY <2>1, <2>2, <2>3 DEF OfferInv
  <2>4. CASE s \in pool /\ c = <<"pooled", 0>>
    BY <2>1, <2>2, <2>4 DEF OfferInv
  <2>5. CASE \E i \in At(down[s], "assign") : c = <<"assigned", i>>
    BY <2>1, <2>2, <2>5 DEF OfferInv
  <2>6. CASE pc[s] = "load" /\ c = <<"loading", 0>>
    BY <2>1, <2>2, <2>6 DEF OfferInv
  <2>7. CASE \E i \in At(up[s], "ready") : c = <<"ready", i>>
    BY <2>1, <2>2, <2>7 DEF OfferInv
  <2> QED
    BY <2>2, <2>3, <2>4, <2>5, <2>6, <2>7
<1> QED
  BY <1>1, StreamsKeepProtocol, PTL

-----------------------------------------------------------------------------
(* The promise of SpareOffer: where an offer goes in each step. *)

\* Where the offer of s is, when it is in one place.
Place(s) ==
  IF At(up[s], "available") # {} THEN "offered"
  ELSE IF s \in pool THEN "pooled"
  ELSE IF At(down[s], "assign") # {} THEN "assigned"
  ELSE IF pc[s] = "load" THEN "loading"
  ELSE IF At(up[s], "ready") # {} THEN "ready"
  ELSE "none"

\* So it is what Grid calls the offer of s.
LEMMA PlaceIsOffer == \A s : OfferInv(s) => OfferOf(s) = Place(s)
<1> SUFFICES ASSUME NEW s, OfferInv(s) PROVE OfferOf(s) = Place(s)
  OBVIOUS
<1>1. \A e \in Claims(s) :
        \/ \E i \in At(up[s], "available") : e = <<"offered", i>>
        \/ s \in pool /\ e = <<"pooled", 0>>
        \/ \E i \in At(down[s], "assign") : e = <<"assigned", i>>
        \/ pc[s] = "load" /\ e = <<"loading", 0>>
        \/ \E i \in At(up[s], "ready") : e = <<"ready", i>>
  BY ClaimKinds
<1>2. /\ \A i \in At(up[s], "available") : <<"offered", i>> \in Claims(s)
      /\ s \in pool => <<"pooled", 0>> \in Claims(s)
      /\ \A i \in At(down[s], "assign") : <<"assigned", i>> \in Claims(s)
      /\ pc[s] = "load" => <<"loading", 0>> \in Claims(s)
      /\ \A i \in At(up[s], "ready") : <<"ready", i>> \in Claims(s)
  BY ClaimKinds
<1>3. ASSUME NEW e \in Claims(s) PROVE e[1] = Place(s)
  BY <1>1, <1>3 DEF OfferInv, Place
<1>4. Claims(s) = {} => Place(s) = "none"
  BY <1>2 DEF Place
<1>5. CASE Claims(s) # {}
  <2>1. (CHOOSE c \in Claims(s) : TRUE) \in Claims(s)
    BY <1>5
  <2> QED
    BY <1>3, <1>5, <2>1 DEF OfferOf
<1> QED
  BY <1>4, <1>5 DEF OfferOf

\* The moves of SpareOffer, for the places.
Moves(s) ==
  \/ Place(s) = "none" /\ Place(s)' = "offered" /\ (s \in serving' <=> s \in serving)
  \/ /\ <<Place(s), Place(s)'>> \in
          {<<"offered", "pooled">>, <<"pooled", "assigned">>, <<"assigned", "loading">>, <<"loading", "ready">>}
     /\ s \notin serving /\ s \notin serving'
  \/ /\ Place(s) \in {"ready", "none"} /\ Place(s)' = "none"
     /\ s \notin serving /\ s \in serving'
  \/ Place(s)' \in {Place(s), "none"} /\ (s \in serving' => s \in serving)

\* An offer is handed out, or stays.
LEMMA QuietMoves ==
  ASSUME NetTypeOK, NEW t \in Streams, StreamInv(t), Quiet(t)
  PROVE  Moves(t)
<1>1. /\ t \in pool' => t \in pool
      /\ \/ At(down'[t], "assign") = At(down[t], "assign")
         \/ /\ t \in pool /\ t \notin pool'
            /\ At(down'[t], "assign") = {Len(down[t]) + 1}
  BY HandOutAt DEF StreamInv, Quiet
<1>2. /\ up'[t] = up[t] /\ pc'[t] = pc[t] /\ (t \in serving' => t \in serving)
      /\ OfferInv(t) /\ ServeInv(t)
  BY DEF Quiet, StreamInv
<1> QED
  BY <1>1, <1>2 DEF Moves, Place, OfferInv, ServeInv

\* A ReadyMsg uses the offer up, an AnnounceMsg comes with none.
LEMMA RegisterMoves ==
  ASSUME NetTypeOK, NEW s \in Streams, StreamInv(s),
         HandleAnnounce(s) \/ HandleReady(s), RouterTypeOK, UNCHANGED pc
  PROVE  Moves(s)
<1> USE DEF StreamInv
<1>1. PICK ty \in {"announce", "ready"} : Takes(s, ty)
  BY DEF HandleAnnounce, HandleReady
<1>2. /\ down'[s] = down[s] /\ pc'[s] = pc[s] /\ s \in serving'
      /\ s \in pool' <=> s \in pool
  BY <1>1 DEF HandleAnnounce, HandleReady, RegisterWithSender, RouterTypeOK, Takes
<1>3. /\ \A x : \A i \in At(up'[s], x) : i \in Nat /\ 1 <= i /\ i + 1 \in At(up[s], x)
      /\ \A x : 1 \in At(up[s], x) <=> x = ty
  BY <1>1, TakesAt
<1>4. CASE ty = "announce"
  <2>1. ~ Claimed(s) /\ s \notin serving
    BY <1>3, <1>4 DEF AnnounceInv
  <2>2. ~ Claimed(s)'
    BY <1>2, <1>3, <2>1 DEF Claimed
  <2> QED
    BY <1>2, <2>1, <2>2 DEF Claimed, Place, Moves
<1>5. CASE ty = "ready"
  <2>1. 1 \in At(up[s], "ready")
    BY <1>3, <1>5
  <2>2. /\ s \notin pool /\ At(down[s], "assign") = {} /\ pc[s] # "load" /\ s \notin serving
        /\ At(up[s], "available") = {} /\ \A i \in At(up[s], "ready") : i = 1
    BY <2>1 DEF OfferInv, ServeInv
  <2>3. At(up'[s], "ready") = {} /\ At(up'[s], "available") = {}
    BY <1>3, <2>2
  <2> QED
    BY <1>2, <2>1, <2>2, <2>3 DEF Place, Moves
<1> QED
  BY <1>4, <1>5

\* A message that is no offer is taken from up; s may be handed out meanwhile.
LEMMA SkipMoves ==
  ASSUME NetTypeOK, NEW s \in Streams, StreamInv(s), NEW ty \in {"heartbeat", "refuse", "dropping"},
         Takes(s, ty), UNCHANGED pc, s \in serving' => s \in serving, HandOut(s)
  PROVE  Moves(s)
<1> USE DEF StreamInv
<1>1. /\ \A x : \A i \in At(up[s], x) : i \in Nat /\ 1 <= i
      /\ \A x : \A i \in At(up'[s], x) : i \in Nat /\ 1 <= i /\ i + 1 \in At(up[s], x)
      /\ \A x : \A i \in At(up[s], x) : i = 1 \/ i - 1 \in At(up'[s], x)
      /\ \A x : 1 \in At(up[s], x) <=> x = ty
  BY TakesAt
<1>2. /\ At(up'[s], "available") = {} <=> At(up[s], "available") = {}
      /\ At(up'[s], "ready") = {} <=> At(up[s], "ready") = {}
  BY <1>1
<1>3. /\ s \in pool' => s \in pool
      /\ \/ At(down'[s], "assign") = At(down[s], "assign")
         \/ /\ s \in pool /\ s \notin pool'
            /\ At(down'[s], "assign") = {Len(down[s]) + 1}
  BY HandOutAt
<1> QED
  BY <1>2, <1>3 DEF Moves, Place, OfferInv, ServeInv

\* An AvailableMsg: from the channel to the pool.
LEMMA AvailableMoves ==
  ASSUME NetTypeOK, RouterTypeOK, NEW s \in Streams, StreamInv(s), HandleAvailable(s), UNCHANGED pc
  PROVE  Moves(s)
<1> USE DEF StreamInv
<1>1. s \in pool' /\ serving' = serving /\ Takes(s, "available")
  BY DEF HandleAvailable, stateVars
<1>2. /\ \A x : \A i \in At(up[s], x) : i \in Nat /\ 1 <= i
      /\ \A x : \A i \in At(up'[s], x) : i \in Nat /\ 1 <= i /\ i + 1 \in At(up[s], x)
      /\ 1 \in At(up[s], "available")
  BY <1>1, TakesAt
<1>3. At(up'[s], "available") = {} /\ s \notin serving
  <2>1. \A i \in At(up[s], "available") : i = 1
    BY <1>2 DEF OfferInv
  <2>2. s \notin serving
    BY <1>2 DEF ServeInv
  <2> QED
    BY <1>2, <2>1, <2>2
<1> QED
  BY <1>1, <1>2, <1>3 DEF Place, Moves

\* The Ack is no assignment; a stream that ended may lose what nobody reads.
LEMMA AckMoves ==
  ASSUME NetTypeOK, RouterTypeOK, NEW s \in Streams, StreamInv(s), SendAck(s), UNCHANGED pc
  PROVE  Moves(s)
<1> USE DEF StreamInv
<1>1. UNCHANGED <<serving, pool>>
  BY DEF SendAck, stateVars
<1>2. CASE Sendable(s) /\ down' = [down EXCEPT ![s] = Append(@, Ack)] /\ UNCHANGED up
  <2>1. down'[s] = Append(down[s], Ack) /\ down[s] \in Seq(RouterMessage)
    BY <1>2 DEF NetTypeOK
  <2>2. At(down'[s], "assign") = At(down[s], "assign")
    <3>1. Ack \in RouterMessage /\ Ack.type = "ack"
      BY RouterMessages DEF Ack
    <3> QED
      BY <2>1, <3>1, AtAppendOther
  <2> QED
    BY <1>1, <1>2, <2>2 DEF Place, Moves
<1>3. CASE UNCHANGED <<up, down>>
  BY <1>1, <1>3 DEF Place, Moves
<1>4. CASE up'[s] = <<>> /\ link[s] = "cut" /\ UNCHANGED down
  <2>1. \A ty : At(up'[s], ty) = {}
    BY <1>4, AtEmpty
  <2>2. pc[s] = "gone" /\ At(down[s], "assign") = {}
    BY <1>4, AtEmpty DEF LinkInv
  <2> QED
    BY <1>1, <1>4, <2>1, <2>2 DEF Place, Moves, OfferInv
<1>5. \/ Sendable(s) /\ down' = [down EXCEPT ![s] = Append(@, Ack)] /\ UNCHANGED up
      \/ UNCHANGED <<up, down>>
      \/ up'[s] = <<>> /\ link[s] = "cut" /\ UNCHANGED down
  BY DEF SendAck, NetTypeOK
<1> QED
  BY <1>2, <1>3, <1>4, <1>5

\* The clean-ups: the offer lapses.
LEMMA CloseMoves ==
  ASSUME NetTypeOK, RouterTypeOK, NEW s \in Streams, StreamInv(s),
         CloseServing(s) \/ CloseSpare(s), UNCHANGED pc
  PROVE  Moves(s)
<1> USE DEF StreamInv
<1> StateTypeOK /\ serving \ {s} \in SUBSET Streams
  BY DEF RouterTypeOK, StateTypeOK
<1>1. /\ link[s] = "cut" /\ up'[s] = up[s] /\ pc[s] = "gone" /\ pc'[s] = pc[s]
      /\ up[s] = <<>> /\ down[s] = <<>>
  BY DEF CloseServing, CloseSpare, LinkInv
<1>2. \A ty : At(up[s], ty) = {} /\ At(down[s], ty) = {}
  BY <1>1, AtEmpty
<1>3. down'[s] = down[s] /\ (s \in pool' => s \in pool) /\ (s \in serving' => s \in serving)
  <2>1. CASE CloseServing(s) /\ s \in reg
    <3>1. HandOut(s) /\ s \notin serving'
      BY <2>1, FillAndReplicateHandsOut DEF CloseServing, Deregister
    <3> QED
      BY <1>1, <3>1, HandOutAt
  <2>2. CASE ~ (CloseServing(s) /\ s \in reg)
    BY <2>2 DEF CloseServing, CloseSpare, stateVars
  <2> QED
    BY <2>1, <2>2
<1> QED
  BY <1>1, <1>2, <1>3 DEF Place, Moves

\* Every step of a stream's task moves every offer as SpareOffer says.
LEMMA TaskMoves ==
  ASSUME NetTypeOK, RouterTypeOK, StreamsInv, NEW s \in Streams, TaskStep(s), UNCHANGED pc,
         NEW t \in Streams
  PROVE  Moves(t)
<1> StreamInv(t) /\ StreamInv(s) /\ StateTypeOK /\ serving \ {s} \in SUBSET Streams
  BY DEF StreamsInv, RouterTypeOK, StateTypeOK
<1>1. CASE t # s
  BY <1>1, TaskOthers, QuietMoves
<1>2. CASE t = s
  <2>1. CASE HandleAnnounce(s) \/ HandleReady(s)
    BY <1>2, <2>1, RegisterMoves
  <2>2. CASE SendAck(s)
    BY <1>2, <2>2, AckMoves
  <2>3. CASE HandleHeartbeat(s)
    BY <1>2, <2>3, SkipMoves DEF HandleHeartbeat, UpdateHeartbeat, HandOut
  <2>4. CASE HandleRefuse(s)
    BY <1>2, <2>4, SkipMoves DEF HandleRefuse, routerVars, stateVars, HandOut
  <2>5. CASE HandleDropping(s)
    <3>1. HandOut(s) /\ Takes(s, "dropping") /\ s \notin serving'
      BY <2>5, FillAndReplicateHandsOut DEF HandleDropping, Deregister
    <3> QED
      BY <1>2, <3>1, SkipMoves
  <2>6. CASE HandleAvailable(s)
    BY <1>2, <2>6, AvailableMoves
  <2>7. CASE ScanGaps(s) \/ TryGap(s) \/ UseSpare(s)
    BY <1>2, <2>7, HandlerOwn, QuietMoves
  <2>8. CASE CloseServing(s) \/ CloseSpare(s)
    BY <1>2, <2>8, CloseMoves
  <2> QED
    BY <2>1, <2>2, <2>3, <2>4, <2>5, <2>6, <2>7, <2>8 DEF TaskStep
<1> QED
  BY <1>1, <1>2

\* An offer may lapse, or stay.
LEMMA Stays ==
  ASSUME NEW s, Place(s)' \in {Place(s), "none"}, s \in serving' => s \in serving
  PROVE  Moves(s)
BY DEF Moves

\* To tell a server to leave is no assignment.
LEMMA UnassignMoves ==
  ASSUME NetTypeOK, NEW s \in Streams, down'[s] = Pushed(s, Unassign),
         up'[s] = up[s], pc'[s] = pc[s], UNCHANGED <<serving, pool>>
  PROVE  Moves(s)
<1>1. down[s] \in Seq(RouterMessage) /\ Unassign \in RouterMessage /\ Unassign.type = "unassign"
  BY RouterMessages DEF NetTypeOK, Unassign
<1>2. At(down'[s], "assign") = At(down[s], "assign")
  BY <1>1, AtAppendOther DEF Pushed
<1>3. Place(s)' = Place(s)
  BY <1>2 DEF Place
<1> QED
  BY <1>3, Stays

\* The rebalancer hands spares out, and tells servers to leave.
LEMMA TickMoves ==
  ASSUME NetTypeOK, RouterTypeOK, IndexInStep, StreamsInv, RebalancerStep, UNCHANGED pc,
         NEW t \in Streams
  PROVE  Moves(t)
<1> StateTypeOK /\ StreamInv(t) /\ serving \in SUBSET Streams
  BY DEF RouterTypeOK, StateTypeOK, StreamsInv
<1>1. CASE EvictRead \/ CheckHotShards \/ PlanOverReplication \/ PlanImbalance
  <2>1. UNCHANGED <<serving, pool, up, down>>
    BY <1>1 DEF EvictRead, CheckHotShards, PlanOverReplication, PlanImbalance, stateVars, netVars
  <2>2. Place(t)' = Place(t)
    BY <2>1 DEF Place
  <2> QED
    BY <2>1, <2>2, Stays
<1>2. CASE EvictWrite
  <2>1. HandOut(t)
    BY <1>2, FillHandsOut DEF EvictWrite
  <2>2. Quiet(t)
    BY <1>2, <2>1 DEF EvictWrite, Deregister, Quiet, taskVars
  <2> QED
    BY <2>2, QuietMoves
<1>3. CASE CheckUnderReplication
  <2>1. HandOut(t)
    BY <1>3, ReplicateOnlyHandsOut DEF CheckUnderReplication
  <2>2. Quiet(t)
    BY <1>3, <2>1 DEF CheckUnderReplication, Quiet, stateVars, taskVars
  <2> QED
    BY <2>2, QuietMoves
<1>4. ASSUME NEW v \in plan, NEW next, TellVictim(v, next) PROVE Moves(t)
  <2>1. CASE v.sid = t /\ t \in senders
    BY <1>4, <2>1, UnassignMoves DEF TellVictim, stateVars, NetTypeOK
  <2>2. CASE v.sid # t \/ v.sid \notin senders
    <3>1. down'[t] = down[t] /\ UNCHANGED <<up, serving, pool>>
      BY <1>4, <2>2 DEF TellVictim, stateVars, NetTypeOK
    <3> QED
      BY <3>1, Stays DEF Place
  <2> QED
    BY <2>1, <2>2
<1>5. CASE SendOverReplication \/ SendImbalance
  BY <1>4, <1>5 DEF SendOverReplication, SendImbalance
<1> QED
  BY <1>1, <1>2, <1>3, <1>5 DEF RebalancerStep

\* A server that sends no offer and no ReadyMsg: a refused load lapses.
LEMMA SendMoves ==
  ASSUME NetTypeOK, NEW s \in Streams, StreamInv(s), RouterSame,
         NEW m \in ServerMessage, m.type \in {"heartbeat", "dropping", "refuse"}, SendUp(s, m),
         UNCHANGED down, pc'[s] = pc[s] \/ pc'[s] # "load"
  PROVE  Moves(s)
<1>1. \A x \in {"available", "ready"} : At(up'[s], x) = At(up[s], x)
  BY SendUpAt
<1> QED
  BY <1>1, Stays DEF Place, RouterSame, StreamInv, OfferInv

\* An offer after a drain: the server is in Mode A, so it has made none.
LEMMA OfferMoves ==
  ASSUME NetTypeOK, NEW s \in Streams, StreamInv(s), RouterSame, EnterModeB(s), pc'[s] = "avail"
  PROVE  Moves(s)
<1>0. pc[s] = "dropped" /\ SendUp(s, Available) /\ UNCHANGED down
  BY DEF EnterModeB
<1>1. Available \in ServerMessage /\ Available.type = "available"
  BY ServerMessages DEF Available
<1>2. At(up'[s], "ready") = At(up[s], "ready")
  BY <1>0, <1>1, SendUpAt
<1>3. ~ Claimed(s)
  BY <1>0 DEF StreamInv, ModeAInv
<1>4. Place(s) = "none" /\ Place(s)' \in {"none", "offered"}
  BY <1>0, <1>2, <1>3 DEF Place, Claimed, RouterSame
<1> QED
  BY <1>4 DEF Moves, RouterSame

\* The shard is loaded.
LEMMA LoadOkMoves ==
  ASSUME NetTypeOK, ServerTypeOK, NEW s \in Streams, StreamInv(s), RouterSame, LoadOk(s)
  PROVE  Moves(s)
<1> DEFINE m == Ready(DenseOf(job[s].slice))
<1>0. pc[s] = "load" /\ pc'[s] = "avail" /\ SendUp(s, m) /\ UNCHANGED down
  BY DEF LoadOk, ServerTypeOK
<1>1. m \in ServerMessage /\ m.type = "ready"
  <2>1. job[s].slice \in Slice
    BY DEF ServerTypeOK, AssignMsg
  <2> QED
    BY <2>1, DenseType, ServerMessages DEF Ready
<1> HIDE DEF m
<1>2. At(up'[s], "available") = At(up[s], "available")
  BY <1>0, <1>1, SendUpAt
<1>3. /\ At(up[s], "available") = {} /\ s \notin pool /\ At(down[s], "assign") = {} /\ s \notin serving
  BY <1>0 DEF StreamInv, OfferInv, ServeInv
<1>4. Place(s) = "loading" /\ Place(s)' \in {"ready", "none"} /\ s \notin serving'
  BY <1>0, <1>2, <1>3 DEF Place, RouterSame
<1> QED
  BY <1>3, <1>4 DEF Moves

\* A message that Mode A reads, or an UnassignMsg, is no assignment that anybody waits for.
LEMMA ReceiveMoves ==
  ASSUME NetTypeOK, NEW s \in Streams, StreamInv(s), RouterSame,
         NEW ty \in {"ack", "assign", "unassign"}, Receives(s, ty), UNCHANGED up,
         \/ pc[s] \in {"serve", "avail"} /\ pc'[s] = pc[s]
         \/ pc[s] = "serve" /\ pc'[s] = "drain"
  PROVE  Moves(s)
<1>1. /\ \A x : \A i \in At(down'[s], x) : i \in Nat /\ i + 1 \in At(down[s], x)
      /\ \A x : 1 \in At(down[s], x) <=> x = ty
  BY ReceivesAt
<1>2. Place(s)' \in {Place(s), "none"}
  BY <1>1 DEF Place, RouterSame, StreamInv, OfferInv
<1> QED
  BY <1>2, Stays DEF RouterSame

\* An AssignMsg in Mode B: from the channel to the loader.
LEMMA AssignMoves ==
  ASSUME NetTypeOK, NEW s \in Streams, StreamInv(s), RouterSame,
         Receives(s, "assign"), UNCHANGED up, pc[s] = "avail", pc'[s] = "load"
  PROVE  Moves(s)
<1>1. /\ \A i \in At(down'[s], "assign") : i \in Nat /\ 1 <= i /\ i + 1 \in At(down[s], "assign")
      /\ 1 \in At(down[s], "assign")
  BY ReceivesAt
<1>2. \A i \in At(down[s], "assign") : i = 1
  BY <1>1 DEF StreamInv, OfferInv
<1>3. At(up[s], "available") = {} /\ s \notin pool /\ s \notin serving
  BY <1>1 DEF StreamInv, OfferInv, ServeInv
<1>4. At(down'[s], "assign") = {}
  BY <1>1, <1>2
<1>5. Place(s) = "assigned" /\ Place(s)' = "loading" /\ s \notin serving'
  BY <1>1, <1>3, <1>4 DEF Place, RouterSame
<1> QED
  BY <1>3, <1>5 DEF Moves

\* A stream that ends may lose the offer, and brings none about.
LEMMA LeaveMoves ==
  ASSUME NetTypeOK, ServerTypeOK, NEW s \in Streams, StreamInv(s), RouterSame, Leave(s)
  PROVE  Moves(s)
<1>1. pc'[s] = "gone" /\ down'[s] = <<>>
  BY DEF Leave, Hangup, ServerTypeOK, NetTypeOK
<1>2. \A ty : At(down'[s], ty) = {}
  BY <1>1, AtEmpty
<1>3. \A ty : At(up'[s], ty) \subseteq At(up[s], ty)
  <2>1. CASE link[s] = "open"
    <3>1. PICK k \in 0 .. Len(up[s]) : up' = [up EXCEPT ![s] = SubSeq(@, 1, k)]
      BY <2>1 DEF Leave, Hangup
    <3>2. up'[s] = SubSeq(up[s], 1, k) /\ up[s] \in Seq(ServerMessage)
      BY <3>1 DEF NetTypeOK
    <3> TAKE ty
    <3>3. At(SubSeq(up[s], 1, k), ty) = {i \in At(up[s], ty) : i <= k}
      BY <3>2, AtPrefix
    <3> QED
      BY <3>2, <3>3
  <2>2. CASE link[s] # "open"
    BY <2>2 DEF Leave, Hangup
  <2> QED
    BY <2>1, <2>2
<1>4. Place(s)' \in {Place(s), "none"}
  BY <1>1, <1>2, <1>3 DEF Place, RouterSame, StreamInv, OfferInv
<1> QED
  BY <1>4, Stays DEF RouterSame

\* Every step of an announce loop moves the offer of its stream as SpareOffer says.
LEMMA ServerMoves ==
  ASSUME NetTypeOK, ServerTypeOK, NEW s \in Streams, StreamInv(s), ServerStep(s), RouterSame
  PROVE  Moves(s)
<1>1. CASE \E b \in Beats : SendHeartbeat(s, b)
  <2>1. PICK b \in Beats : SendHeartbeat(s, b)
    BY <1>1
  <2>2. Heartbeat(b) \in ServerMessage /\ Heartbeat(b).type = "heartbeat"
    BY ServerMessages DEF Heartbeat
  <2> QED
    BY <2>1, <2>2, SendMoves DEF SendHeartbeat, procVars
<1>2. CASE ServeIgnores(s) \/ AvailIgnores(s)
  BY <1>2, ReceiveMoves DEF ServeIgnores, AvailIgnores, procVars
<1>3. CASE ServeUnassign(s)
  BY <1>3, ReceiveMoves DEF ServeUnassign, ServerTypeOK
<1>4. CASE Drained(s)
  <2>1. Dropping \in ServerMessage /\ Dropping.type = "dropping"
    BY ServerMessages DEF Dropping
  <2> QED
    BY <1>4, <2>1, SendMoves DEF Drained, ServerTypeOK
<1>5. CASE EnterModeB(s)
  BY <1>5, OfferMoves DEF EnterModeB, ServerTypeOK
<1>6. CASE DropReturns(s) \/ AvailAck(s) \/ StreamError(s)
  BY <1>6, LeaveMoves DEF DropReturns, AvailAck, StreamError
<1>7. CASE AvailAssign(s)
  BY <1>7, AssignMoves DEF AvailAssign, ServerTypeOK
<1>8. CASE LoadOk(s)
  BY <1>8, LoadOkMoves
<1>9. CASE LoadFail(s)
  <2>1. Refuse \in ServerMessage /\ Refuse.type = "refuse"
    BY ServerMessages DEF Refuse
  <2> QED
    BY <1>9, <2>1, SendMoves DEF LoadFail, ServerTypeOK
<1> QED
  BY <1>1, <1>2, <1>3, <1>4, <1>5, <1>6, <1>7, <1>8, <1>9 DEF ServerStep

\* A new stream of Mode B comes with an offer, one of Mode A with none.
LEMMA JoinMoves ==
  ASSUME TypeOK, StreamsInv, NEW p \in Procs, NEW s \in Streams, Join(p, s), NEW t \in Streams
  PROVE  Moves(t)
<1> StreamInv(t) /\ NetTypeOK /\ ServerTypeOK /\ RouterTypeOK
  BY DEF StreamsInv, TypeOK
<1>1. CASE t # s
  <2>1. Quiet(t)
    BY <1>1 DEF Join, Connect, Quiet, HandOut, NetTypeOK, ServerTypeOK, RouterTypeOK, stateVars
  <2> QED
    BY <2>1, QuietMoves
<1>2. CASE t = s
  <2>1. /\ link[s] = "free" /\ up[s] = <<>> /\ down[s] = <<>> /\ pc[s] = "gone"
        /\ s \notin serving /\ s \notin pool
    BY <1>2 DEF Join, Connect, StreamInv, LinkInv, GhostInv
  <2>2. /\ down'[s] = <<>> /\ pc'[s] # "load" /\ up'[s] = <<FirstMessage(p)>>
        /\ s \notin serving' /\ s \notin pool'
    BY <2>1 DEF Join, Connect, NetTypeOK, ServerTypeOK, stateVars
  <2>3. \A ty : At(up[s], ty) = {} /\ At(down[s], ty) = {} /\ At(down'[s], ty) = {}
    BY <2>1, <2>2, AtEmpty
  <2>4. At(up'[s], "ready") = {}
    BY <2>2 DEF At, FirstMessage, Announce, Available
  <2>5. Place(s) = "none" /\ Place(s)' \in {"none", "offered"}
    BY <2>1, <2>2, <2>3, <2>4 DEF Place
  <2> QED
    BY <1>2, <2>1, <2>2, <2>5 DEF Moves
<1> QED
  BY <1>1, <1>2

\* Disturbances make no offers.
LEMMA DisturbMoves ==
  ASSUME TypeOK, IndexInStep, StreamsInv, Disturb, NEW t \in Streams
  PROVE  Moves(t)
<1> StreamInv(t) /\ NetTypeOK /\ ServerTypeOK /\ RouterTypeOK
  BY DEF StreamsInv, TypeOK
<1>1. CASE (\E s \in Streams : Fault(s)) /\ UNCHANGED routerVars
  <2>1. PICK s \in Streams : Leave(s)
    BY <1>1 DEF Fault
  <2>2. RouterSame
    BY <1>1 DEF RouterSame, routerVars, stateVars, taskVars
  <2> QED
    BY <2>1, <2>2, LeaveMoves, ServerOthers, QuietMoves
<1>2. CASE (\E s \in Streams : Lapse(s)) /\ UNCHANGED procVars
  BY <1>2, Stays DEF Lapse, netVars, procVars, Place
<1>3. CASE Restart /\ UNCHANGED procVars
  <2>1. /\ up'[t] = <<>> /\ down'[t] = <<>> /\ pc' = pc /\ t \notin pool' /\ t \notin serving'
    BY <1>3 DEF Restart, procVars
  <2>2. \A ty : At(up'[t], ty) = {} /\ At(down'[t], ty) = {}
    BY <2>1, AtEmpty
  <2>3. Place(t)' \in {Place(t), "none"}
    BY <2>1, <2>2 DEF Place, StreamInv, OfferInv
  <2> QED
    BY <2>1, <2>3, Stays
<1>4. CASE (\E s \in Streams : DrainServer(s)) /\ UNCHANGED procVars
  <2>1. PICK s \in Streams : DrainServer(s)
    BY <1>4
  <2>2. UNCHANGED <<up, pc, serving, pool>>
    BY <1>4, <2>1 DEF DrainServer, routerVars, stateVars, procVars
  <2>3. down'[t] = IF t = s THEN Pushed(s, Unassign) ELSE down[t]
    BY <2>1 DEF DrainServer, NetTypeOK
  <2>4. CASE t = s
    BY <2>2, <2>3, <2>4, UnassignMoves
  <2>5. CASE t # s
    BY <2>2, <2>3, <2>5, Stays DEF Place
  <2> QED
    BY <2>4, <2>5
<1>5. CASE /\ UNCHANGED procVars
           /\ \E x \in AdminSlices, h \in Hashes :
                AssignAny(x, h) \/ \E u \in Streams : AssignNamed(x, h, u)
  <2>1. PICK x \in AdminSlices, h \in Hashes :
          AssignAny(x, h) \/ \E u \in Streams : AssignNamed(x, h, u)
    BY <1>5
  <2>2. HandOut(t)
    BY <2>1, AdminHandsOut
  <2>3. Quiet(t)
    BY <1>5, <2>1, <2>2 DEF AssignAny, AssignNamed, Quiet, stateVars, taskVars, procVars
  <2> QED
    BY <2>3, QuietMoves
<1> QED
  BY <1>1, <1>2, <1>3, <1>4, <1>5 DEF Disturb

\* Every step moves every offer as SpareOffer says.
LEMMA NextMoves ==
  ASSUME TypeOK, IndexInStep, StreamsInv, [Next]_vars, NEW t \in Streams
  PROVE  Moves(t)
<1> StreamInv(t) /\ NetTypeOK /\ ServerTypeOK /\ RouterTypeOK
  BY DEF StreamsInv, TypeOK
<1>1. CASE \E p \in Procs, s \in Streams : Join(p, s)
  BY <1>1, JoinMoves
<1>2. CASE RouterNext
  BY <1>2, TaskMoves, TickMoves DEF RouterNext, procVars
<1>3. CASE ServerNext
  <2>1. PICK s \in Streams : ServerStep(s)
    BY <1>3 DEF ServerNext
  <2>2. RouterSame
    BY <1>3 DEF ServerNext, RouterSame, routerVars, stateVars, taskVars
  <2>3. CASE t = s
    BY <2>1, <2>2, <2>3, ServerMoves
  <2>4. CASE t # s
    BY <2>1, <2>2, <2>4, ServerOthers, QuietMoves
  <2> QED
    BY <2>3, <2>4
<1>4. CASE Disturb
  BY <1>4, DisturbMoves
<1>5. CASE UNCHANGED vars
  BY <1>5, Stays DEF vars, routerVars, procVars, netVars, stateVars, Place
<1> QED
  BY <1>1, <1>2, <1>3, <1>4, <1>5 DEF Next

(***************************************************************************)
(* The grid implements SpareOffer: at most one shard per offer, and a      *)
(* spare becomes a replica only when its shard is loaded.  A step of the   *)
(* grid moves each offer by at most one of the abstract steps.             *)
(***************************************************************************)
THEOREM GridKeepsOffers == Spec => OfferSpec
<1>1. Init => Abstract!Init
  <2> SUFFICES ASSUME Init PROVE Abstract!Init
    OBVIOUS
  <2>1. StreamsInv
    BY InitStreams
  <2>2. ASSUME NEW s \in Streams PROVE OfferOf(s) = "none"
    <3>1. up[s] = <<>> /\ down[s] = <<>> /\ pc[s] = "gone" /\ s \notin pool
      BY DEF Init, NetInit, RouterInit, ServerInit
    <3>2. Place(s) = "none"
      BY <3>1, AtEmpty DEF Place
    <3> QED
      BY <2>1, <3>2, PlaceIsOffer DEF StreamsInv, StreamInv
  <2> QED
    BY <2>2 DEF Abstract!Init, Init, RouterInit
<1>2. (\A s : OfferInv(s) => OfferOf(s) = Place(s))'
  BY PlaceIsOffer, PTL
<1>3. ASSUME TypeOK, IndexInStep, StreamsInv, StreamsInv', [Next]_vars
      PROVE  Abstract!Next
  <2> SUFFICES ASSUME NEW s \in Streams PROVE Abstract!Move(s)
    BY DEF Abstract!Next
  <2>1. Moves(s)
    BY <1>3, NextMoves
  <2>2. OfferInv(s) /\ OfferInv(s)'
    BY <1>3 DEF StreamsInv, StreamInv
  <2>3. OfferOf(s) = Place(s) /\ OfferOf(s)' = Place(s)'
    BY <1>2, <2>2, PlaceIsOffer
  <2> QED
    BY <2>1, <2>3 DEF Moves, Abstract!Move, Abstract!Offers, Abstract!Passes, Abstract!Registers,
       Abstract!Announces, Abstract!Lapses
<1> QED
  BY <1>1, <1>3, TypeCorrect, IndexIsRight, StreamsKeepProtocol, PTL DEF OfferSpec, Abstract!Spec, Spec
=============================================================================

----------------------------- MODULE GridRouter -----------------------------
(***************************************************************************)
(* The router's side of the grid: GridState, the task that serves one Join *)
(* stream (grid/service.rs), the rebalancer task (tasks/rebalancer) and    *)
(* the admin calls.                                                        *)
(*                                                                         *)
(* GridState sits behind one lock.  A step of this module is what the code *)
(* does under one acquisition of it; where a handler releases the lock and *)
(* takes it again (Available, eviction, over-replication, imbalance, the   *)
(* stream's clean-up), or has to await a send (the Ack), it is several     *)
(* steps and other tasks run in between.                                   *)
(***************************************************************************)
EXTENDS GridNet, Functions

CONSTANTS
  Ram,              \* ram_bytes each process advertises
  Target,           \* --target-replicas, clamped to at least 1
  HotThreshold,     \* --hot-shard-rps, 0 when the check is disabled
  DemoteThreshold,  \* HotThreshold times the demote ratio, which is in (0, 1]
  ImbalanceFactor,  \* --rebalance-threshold
  AdminSlices       \* the ranges an operator may assign

ASSUME RamAssumption    == Ram \in [Procs -> Nat]
ASSUME TargetAssumption == Target \in Nat \ {0}
ASSUME HotAssumption    == /\ HotThreshold \in Nat
                           /\ DemoteThreshold \in 0 .. HotThreshold
                           /\ HotThreshold > 0 => DemoteThreshold > 0
ASSUME FactorAssumption == ImbalanceFactor \in Nat \ {0}
ASSUME AdminAssumption  == AdminSlices \subseteq DenseSlices

VARIABLES
  serving,     \* the keys of GridState.servers
  info,        \* their ServerEntry
  senders,     \* the keys of GridState.serving_senders
  routeTable,  \* GridState.route_table
  anyTable,    \* GridState.any_model_table
  pool,        \* the keys of GridState.available_servers
  elevated,    \* GridState.elevated_ranges
  tpc,         \* where the task of each stream is
  reg,         \* streams whose task has registered_model = Some(..)
  avail,       \* streams whose task has is_available = true
  todo,        \* the gaps an Available handler has yet to try
  rpc,         \* where the rebalancer's tick is
  stale,       \* the ids that the eviction read as stale
  plan,        \* the victims that a tick chose and has not yet told
  tracker      \* the keys of ImbalanceTracker.first_seen

stateVars == <<serving, info, senders, routeTable, anyTable>>
taskVars  == <<tpc, reg, avail, todo>>
rebVars   == <<rpc, stale, plan, tracker>>
routerVars == <<stateVars, pool, elevated, taskVars, rebVars>>

-----------------------------------------------------------------------------
NoSlice == [model |-> CHOOSE m \in Models : TRUE,
            ls |-> 0, le |-> 0, es |-> 0, ee |-> 0]

ServerEntry == [slice : Slice, hash : Hashes, load : Nat, rate : Nat,
                lat : [Layers -> Lat], old : BOOLEAN]

\* A freshly registered entry.  old: no heartbeat within the timeout.
NewEntry(x, h) ==
  [slice |-> x, hash |-> h, load |-> 0, rate |-> 0,
   lat |-> [l \in Layers |-> NoLat], old |-> FALSE]

NoEntry == NewEntry(NoSlice, "none")

Victim == [sid : Streams, slice : Slice]

RouterTypeOK ==
  /\ serving \subseteq Streams
  /\ info \in [Streams -> ServerEntry]
  /\ senders \subseteq Streams
  /\ routeTable \in [Models \X Layers -> SUBSET Streams]
  /\ anyTable \in [Layers -> SUBSET Streams]
  /\ pool \subseteq Streams
  /\ elevated \subseteq Slice
  /\ tpc \in [Streams -> {"none", "read", "ack", "scan", "gaps", "spare", "bye"}]
  /\ reg \subseteq Streams
  /\ avail \subseteq Streams
  /\ todo \in [Streams -> SUBSET Slice]
  /\ rpc \in {"evict", "evictWrite", "hot", "under", "over", "overSend",
              "imbalance", "imbalanceSend"}
  /\ stale \subseteq Streams
  /\ plan \subseteq Victim
  /\ tracker \subseteq Models \X Layers

RouterInit ==
  /\ serving = {}
  /\ info = [s \in Streams |-> NoEntry]
  /\ senders = {}
  /\ routeTable = RouteTable({}, info)
  /\ anyTable = AnyModelTable({}, info)
  /\ pool = {}
  /\ elevated = {}
  /\ tpc = [s \in Streams |-> "none"]
  /\ reg = {}
  /\ avail = {}
  /\ todo = [s \in Streams |-> {}]
  /\ rpc = "evict"
  /\ stale = {}
  /\ plan = {}
  /\ tracker = {}

-----------------------------------------------------------------------------
(* GridState operations. *)

Rebuild ==
  /\ routeTable' = RouteTable(serving', info')
  /\ anyTable' = AnyModelTable(serving', info')

RegisterWithSender(s, x, h) ==
  /\ senders' = senders \cup {s}
  /\ serving' = serving \cup {s}
  /\ info' = [info EXCEPT ![s] = NewEntry(x, h)]
  /\ Rebuild

\* Mutant of Deregister: the layer index is not rebuilt.
DeregisterKeepsRoutes(S) ==
  /\ senders' = senders \ S
  /\ serving' = serving \ S
  /\ info' = [s \in Streams |-> IF s \in S THEN NoEntry ELSE info[s]]
  /\ UNCHANGED <<routeTable, anyTable>>

\* deregister for every id of S, under one lock.
Deregister(S) ==
  /\ senders' = senders \ S
  /\ serving' = serving \ S
  /\ info' = [s \in Streams |-> IF s \in S THEN NoEntry ELSE info[s]]
  /\ IF S \cap serving = {} THEN UNCHANGED <<routeTable, anyTable>> ELSE Rebuild

\* Entry e after heartbeat b; a layer the heartbeat does not list keeps its
\* latency.
Refreshed(e, b) ==
  [e EXCEPT !.load = b.load, !.rate = b.rate, !.old = FALSE,
            !.lat = [l \in Layers |-> IF b.lat[l] = NoLat THEN e.lat[l] ELSE b.lat[l]]]

UpdateHeartbeat(s, b) ==
  /\ info' = IF s \in serving THEN [info EXCEPT ![s] = Refreshed(info[s], b)] ELSE info
  /\ UNCHANGED <<serving, senders, routeTable, anyTable>>

(***************************************************************************)
(* A loop of try_assign_gap(.., min_ram = 0) over the slices of work, in   *)
(* order, while servers D are live and spares are in the pool: a slice     *)
(* with no origin is passed over, every other takes some spare while there *)
(* is one.  Under-replicated slices are sorted; gaps are sorted within a   *)
(* model, and the models come in HashMap order.  An outcome gives every    *)
(* spare it took the message sent to it.                                   *)
(***************************************************************************)
Fillable(D, work) == {x \in work : Origins(D, info, x) # {}}

InOrder(done, rest, sorted) ==
  \A x \in done, y \in rest : SliceLT(y, x) => ~ sorted /\ x.model # y.model

Placements(work, spares, sorted) ==
  UNION {{f \in Injection(S, work) : InOrder(Range(f), work \ Range(f), sorted)} :
           S \in {T \in SUBSET spares :
                    Cardinality(T) = Min({Cardinality(work), Cardinality(spares)})}}

OriginChoices(D, f) ==
  {o \in [DOMAIN f -> D] : \A t \in DOMAIN f : o[t] \in Origins(D, info, f[t])}

Assignments(D, work, spares, sorted) ==
  UNION {{[t \in DOMAIN f |-> Assign(f[t], info[o[t]].hash)] : o \in OriginChoices(D, f)} :
           f \in Placements(Fillable(D, work), spares, sorted)}

\* The spares of the outcome f leave the pool whether or not the send worked.
Delivered(f) ==
  [t \in Streams |-> IF t \in DOMAIN f THEN Pushed(t, f[t]) ELSE down[t]]

\* try_fill_all_gaps when D are live.
FillAllGaps(D) ==
  \E gaps \in CoverageGaps(D, info) : \E f \in Assignments(D, gaps, pool, FALSE) :
    /\ pool' = pool \ DOMAIN f
    /\ down' = Delivered(f)

\* Mutant of ReplicateAfter: a spare is looked up and not taken out.
ReplicateKeepsSpare(D, f) ==
  \E g \in Assignments(D, UnderReplicated(D, info, Target, elevated),
                        pool \ DOMAIN f, TRUE) :
    /\ pool' = pool \ DOMAIN f
    /\ down' = [t \in Streams |-> IF t \in DOMAIN g THEN Pushed(t, g[t])
                                  ELSE Delivered(f)[t]]

\* try_replicate_from_available when D are live and f was already assigned.
ReplicateAfter(D, f) ==
  \E g \in Assignments(D, UnderReplicated(D, info, Target, elevated),
                        pool \ DOMAIN f, TRUE) :
    /\ pool' = (pool \ DOMAIN f) \ DOMAIN g
    /\ down' = [t \in Streams |-> IF t \in DOMAIN g THEN Pushed(t, g[t])
                                  ELSE Delivered(f)[t]]

\* try_fill_all_gaps, then try_replicate_from_available, under one lock.
FillAndReplicate(D) ==
  \E gaps \in CoverageGaps(D, info) : \E f \in Assignments(D, gaps, pool, FALSE) :
    ReplicateAfter(D, f)

-----------------------------------------------------------------------------
(* The task of one Join stream. *)

\* The task takes the next message, which has type ty.
Takes(s, ty) ==
  /\ tpc[s] = "read"
  /\ up[s] # <<>>
  /\ Head(up[s]).type = ty
  /\ up' = [up EXCEPT ![s] = Tail(@)]

HandleAnnounce(s) ==
  /\ Takes(s, "announce")
  /\ RegisterWithSender(s, Head(up[s]).slice, Head(up[s]).hash)
  /\ reg' = reg \cup {s}
  /\ tpc' = [tpc EXCEPT ![s] = "ack"]
  /\ UNCHANGED <<pool, elevated, avail, todo, rebVars, link, peer, down>>

\* Mutant of HandleReady: registered_model stays None.
ReadyForgotten(s) ==
  /\ Takes(s, "ready")
  /\ RegisterWithSender(s, Head(up[s]).slice, "none")
  /\ avail' = avail \ {s}
  /\ tpc' = [tpc EXCEPT ![s] = "ack"]
  /\ UNCHANGED <<pool, elevated, reg, todo, rebVars, link, peer, down>>

\* ReadyMsg carries no hash, so the new replica is registered with none.
HandleReady(s) ==
  /\ Takes(s, "ready")
  /\ RegisterWithSender(s, Head(up[s]).slice, "none")
  /\ reg' = reg \cup {s}
  /\ avail' = avail \ {s}
  /\ tpc' = [tpc EXCEPT ![s] = "ack"]
  /\ UNCHANGED <<pool, elevated, todo, rebVars, link, peer, down>>

(***************************************************************************)
(* tx.send(ack).await, outside the lock: it waits for room in the channel. *)
(* When the server is gone the send fails once the receiver was dropped,   *)
(* and the task stops reading; before that it still succeeds.              *)
(***************************************************************************)
SendAck(s) ==
  /\ tpc[s] = "ack"
  /\ \/ /\ Sendable(s)
        /\ down' = [down EXCEPT ![s] = Append(@, Ack)]
        /\ UNCHANGED up
     \/ /\ link[s] = "cut"
        /\ up' \in {up, [up EXCEPT ![s] = <<>>]}
        /\ UNCHANGED down
  /\ tpc' = [tpc EXCEPT ![s] = "read"]
  /\ UNCHANGED <<stateVars, pool, elevated, reg, avail, todo, rebVars, link, peer>>

HandleHeartbeat(s) ==
  /\ Takes(s, "heartbeat")
  /\ UpdateHeartbeat(s, Head(up[s]).beat)
  /\ UNCHANGED <<pool, elevated, taskVars, rebVars, link, peer, down>>

\* Mutant of HandleDropping: the entry stays in the servers map.
DroppingKeepsEntry(s) ==
  /\ Takes(s, "dropping")
  /\ FillAndReplicate(serving)
  /\ reg' = reg \ {s}
  /\ UNCHANGED <<stateVars, elevated, tpc, avail, todo, rebVars, link, peer>>

HandleDropping(s) ==
  /\ Takes(s, "dropping")
  /\ Deregister({s})
  /\ FillAndReplicate(serving \ {s})
  /\ reg' = reg \ {s}
  /\ UNCHANGED <<elevated, tpc, avail, todo, rebVars, link, peer>>

\* The first of the Available handler's critical sections.
HandleAvailable(s) ==
  /\ Takes(s, "available")
  /\ pool' = pool \cup {s}
  /\ avail' = avail \cup {s}
  /\ tpc' = [tpc EXCEPT ![s] = "scan"]
  /\ UNCHANGED <<stateVars, elevated, reg, todo, rebVars, link, peer, down>>

\* The second: read the coverage gaps.
ScanGaps(s) ==
  /\ tpc[s] = "scan"
  /\ \E gaps \in CoverageGaps(serving, info) :
       /\ todo' = [todo EXCEPT ![s] = gaps]
       /\ tpc' = [tpc EXCEPT ![s] = IF gaps = {} THEN "spare" ELSE "gaps"]
  /\ UNCHANGED <<stateVars, pool, elevated, reg, avail, rebVars, netVars>>

\* The gap the task tries next: in order within a model.
NextGap(s, g) ==
  /\ g \in todo[s]
  /\ \A y \in todo[s] : SliceLT(y, g) => y.model # g.model

GapDone(s, g) ==
  /\ todo' = [todo EXCEPT ![s] = @ \ {g}]
  /\ tpc' = [tpc EXCEPT ![s] = IF todo[s] = {g} THEN "spare" ELSE "gaps"]

\* The pool entries with at least the memory of the server that just joined.
Fitting(s) == {t \in pool : Ram[peer[t]] >= Ram[peer[s]]}

\* Mutant of TryGap: a spare is looked up and not taken out.
TryGapKeepsSpare(s) ==
  /\ tpc[s] = "gaps"
  /\ \E g \in todo[s] :
       /\ NextGap(s, g)
       /\ \E o \in Origins(serving, info, g), t \in Fitting(s) :
            down' = [down EXCEPT ![t] = Pushed(t, Assign(g, info[o].hash))]
       /\ GapDone(s, g)
  /\ UNCHANGED <<stateVars, pool, elevated, reg, avail, rebVars, link, peer, up>>

\* The third, once per gap read before: the gap may be filled by now, the
\* spare gone.  A successful send ends the handler.
TryGap(s) ==
  /\ tpc[s] = "gaps"
  /\ \E g \in todo[s] :
       /\ NextGap(s, g)
       /\ \/ /\ Origins(serving, info, g) = {} \/ Fitting(s) = {}
             /\ GapDone(s, g)
             /\ UNCHANGED <<pool, down>>
          \/ \E o \in Origins(serving, info, g), t \in Fitting(s) :
               /\ pool' = pool \ {t}
               /\ down' = [down EXCEPT ![t] = Pushed(t, Assign(g, info[o].hash))]
               /\ \/ /\ Sendable(t) \/ link[t] = "cut"
                     /\ todo' = [todo EXCEPT ![s] = {}]
                     /\ tpc' = [tpc EXCEPT ![s] = "read"]
                  \/ /\ ~ Sendable(t)
                     /\ GapDone(s, g)
  /\ UNCHANGED <<stateVars, elevated, reg, avail, rebVars, link, peer, up>>

NoAssignment == [t \in {} |-> Ack]

\* The last: no gap took a spare, so top up an under-replicated slice.
UseSpare(s) ==
  /\ tpc[s] = "spare"
  /\ ReplicateAfter(serving, NoAssignment)
  /\ tpc' = [tpc EXCEPT ![s] = "read"]
  /\ UNCHANGED <<stateVars, elevated, reg, avail, todo, rebVars, link, peer, up>>

\* Logged only.
HandleRefuse(s) ==
  /\ Takes(s, "refuse")
  /\ UNCHANGED <<routerVars, link, peer, down>>

\* The stream ended and the task has read what there was: two clean-ups,
\* each under its own lock.
CloseServing(s) ==
  /\ tpc[s] = "read"
  /\ link[s] = "cut"
  /\ up[s] = <<>>
  /\ IF s \in reg
     THEN Deregister({s}) /\ FillAndReplicate(serving \ {s})
     ELSE UNCHANGED <<stateVars, pool, down>>
  /\ tpc' = [tpc EXCEPT ![s] = "bye"]
  /\ UNCHANGED <<elevated, reg, avail, todo, rebVars, link, peer, up>>

\* Mutant of CloseSpare: the spare stays in the pool.
CloseKeepsSpare(s) ==
  /\ tpc[s] = "bye"
  /\ reg' = reg \ {s}
  /\ avail' = avail \ {s}
  /\ tpc' = [tpc EXCEPT ![s] = "none"]
  /\ link' = [link EXCEPT ![s] = "free"]
  /\ peer' = [peer EXCEPT ![s] = Nobody]
  /\ UNCHANGED <<stateVars, pool, elevated, todo, rebVars, up, down>>

CloseSpare(s) ==
  /\ tpc[s] = "bye"
  /\ pool' = IF s \in avail THEN pool \ {s} ELSE pool
  /\ reg' = reg \ {s}
  /\ avail' = avail \ {s}
  /\ tpc' = [tpc EXCEPT ![s] = "none"]
  /\ link' = [link EXCEPT ![s] = "free"]
  /\ peer' = [peer EXCEPT ![s] = Nobody]
  /\ UNCHANGED <<stateVars, elevated, todo, rebVars, up, down>>

TaskStep(s) ==
  \/ HandleAnnounce(s) \/ HandleReady(s) \/ SendAck(s) \/ HandleHeartbeat(s)
  \/ HandleDropping(s) \/ HandleAvailable(s) \/ ScanGaps(s) \/ TryGap(s)
  \/ UseSpare(s) \/ HandleRefuse(s) \/ CloseServing(s) \/ CloseSpare(s)

-----------------------------------------------------------------------------
(* The rebalancer's tick: one step per acquisition of the lock. *)

\* Time passes: the last heartbeat of s is now older than the timeout.
Lapse(s) ==
  /\ s \in serving
  /\ ~ info[s].old
  /\ info' = [info EXCEPT ![s] = [@ EXCEPT !.old = TRUE]]
  /\ UNCHANGED <<serving, senders, routeTable, anyTable, pool, elevated,
                 taskVars, rebVars, netVars>>

EvictRead ==
  /\ rpc = "evict"
  /\ stale' = {s \in serving : info[s].old}
  /\ rpc' = IF stale' = {} THEN "hot" ELSE "evictWrite"
  /\ UNCHANGED <<stateVars, pool, elevated, taskVars, plan, tracker, netVars>>

\* Mutant of EvictWrite: the gaps are filled but nothing is evicted.
EvictNothing ==
  /\ rpc = "evictWrite"
  /\ FillAllGaps(serving)
  /\ stale' = {}
  /\ rpc' = "hot"
  /\ UNCHANGED <<stateVars, elevated, taskVars, plan, tracker, link, peer, up>>

EvictWrite ==
  /\ rpc = "evictWrite"
  /\ Deregister(stale)
  /\ FillAllGaps(serving \ stale)
  /\ stale' = {}
  /\ rpc' = "hot"
  /\ UNCHANGED <<elevated, taskVars, plan, tracker, link, peer, up>>

\* Mutant of CheckHotShards: no demotion.
NeverDemote ==
  /\ rpc = "hot"
  /\ elevated' = elevated \cup HotSlices(serving, info, HotThreshold)
  /\ rpc' = "under"
  /\ UNCHANGED <<stateVars, pool, taskVars, stale, plan, tracker, netVars>>

CheckHotShards ==
  /\ rpc = "hot"
  /\ elevated' = IF HotThreshold = 0 THEN elevated
                 ELSE (elevated \cup HotSlices(serving, info, HotThreshold))
                        \ (elevated \ HotSlices(serving, info, DemoteThreshold))
  /\ rpc' = "under"
  /\ UNCHANGED <<stateVars, pool, taskVars, stale, plan, tracker, netVars>>

\* Mutant of CheckUnderReplication: the tick skips it.
SkipUnderReplication ==
  /\ rpc = "under"
  /\ rpc' = "over"
  /\ UNCHANGED <<stateVars, pool, elevated, taskVars, stale, plan, tracker, netVars>>

CheckUnderReplication ==
  /\ rpc = "under"
  /\ ReplicateAfter(serving, NoAssignment)
  /\ rpc' = "over"
  /\ UNCHANGED <<stateVars, elevated, taskVars, stale, plan, tracker, link, peer, up>>

\* One least-loaded victim per over-replicated slice, from one snapshot.
PlanOverReplication ==
  LET over == OverReplicated(serving, info, Target, elevated)
  IN  /\ rpc = "over"
      /\ \E f \in [over -> Streams] :
           /\ \A x \in over : f[x] \in LeastLoaded(serving, info, x)
           /\ plan' = {[sid |-> f[x], slice |-> x] : x \in over}
      /\ rpc' = IF over = {} THEN "imbalance" ELSE "overSend"
      /\ UNCHANGED <<stateVars, pool, elevated, taskVars, stale, tracker, netVars>>

\* Tell victim v, if it still has a sender, and go on at pc next after the last.
TellVictim(v, next) ==
  /\ down' = IF v.sid \in senders
             THEN [down EXCEPT ![v.sid] = Pushed(v.sid, Unassign)]
             ELSE down
  /\ plan' = plan \ {v}
  /\ rpc' = IF plan = {v} THEN next ELSE rpc
  /\ UNCHANGED <<stateVars, pool, elevated, taskVars, stale, tracker, link, peer, up>>

SendOverReplication ==
  /\ rpc = "overSend"
  /\ \E v \in plan :
       /\ \A w \in plan : ~ SliceLT(w.slice, v.slice)
       /\ TellVictim(v, "imbalance")

(***************************************************************************)
(* check_imbalance: without a spare nothing happens.  The layers in ripe   *)
(* were recorded by an earlier tick, long enough ago: their slowest server *)
(* becomes a victim and the record is cleared.                             *)
(***************************************************************************)
Layer1(k) == [model |-> k[1], ls |-> k[2], le |-> k[2], es |-> 0, ee |-> 0]

PlanImbalance ==
  LET keys  == Models \X Layers
      slow  == {k \in keys : Imbalanced(serving, info, k, ImbalanceFactor)}
      fine  == {k \in keys : Balanced(serving, info, k, ImbalanceFactor)}
  IN  /\ rpc = "imbalance"
      /\ IF pool = {}
         THEN plan' = {} /\ tracker' = tracker
         ELSE \E ripe \in SUBSET (slow \cap tracker) : \E f \in [ripe -> Streams] :
                /\ \A k \in ripe : f[k] \in Slowest(serving, info, k)
                /\ plan' = {[sid |-> f[k], slice |-> Layer1(k)] : k \in ripe}
                /\ tracker' = ((tracker \ fine) \cup slow) \ ripe
      /\ rpc' = IF plan' = {} THEN "evict" ELSE "imbalanceSend"
      /\ UNCHANGED <<stateVars, pool, elevated, taskVars, stale, netVars>>

SendImbalance ==
  /\ rpc = "imbalanceSend"
  /\ \E v \in plan : TellVictim(v, "evict")

RebalancerStep ==
  \/ EvictRead \/ EvictWrite \/ CheckHotShards \/ CheckUnderReplication
  \/ PlanOverReplication \/ SendOverReplication
  \/ PlanImbalance \/ SendImbalance

-----------------------------------------------------------------------------
(* Admin calls, and a restart of the router process. *)

DrainServer(s) ==
  /\ s \in serving
  /\ s \in senders
  /\ down' = [down EXCEPT ![s] = Pushed(s, Unassign)]
  /\ UNCHANGED <<routerVars, link, peer, up>>

\* The origin of an admin assignment: explicit, or some live replica's.
AdminHash(x, h) ==
  \/ h \in {"none", "sha256"}
  \/ \E o \in Origins(serving, info, x) : h = info[o].hash

AssignAny(x, h) ==
  /\ AdminHash(x, h)
  /\ \E t \in pool :
       /\ pool' = pool \ {t}
       /\ down' = [down EXCEPT ![t] = Pushed(t, Assign(x, h))]
  /\ UNCHANGED <<stateVars, elevated, taskVars, rebVars, link, peer, up>>

\* The entry of a named target goes back into the pool when the send fails.
AssignNamed(x, h, t) ==
  /\ AdminHash(x, h)
  /\ t \in pool
  /\ \/ /\ Sendable(t) \/ link[t] = "cut"
        /\ pool' = pool \ {t}
     \/ /\ ~ Sendable(t)
        /\ pool' = pool
  /\ down' = [down EXCEPT ![t] = Pushed(t, Assign(x, h))]
  /\ UNCHANGED <<stateVars, elevated, taskVars, rebVars, link, peer, up>>

\* Everything the router knows is in memory.
Restart ==
  /\ serving' = {} /\ senders' = {} /\ pool' = {} /\ elevated' = {}
  /\ info' = [s \in Streams |-> NoEntry]
  /\ Rebuild
  /\ tpc' = [s \in Streams |-> "none"]
  /\ reg' = {} /\ avail' = {}
  /\ todo' = [s \in Streams |-> {}]
  /\ rpc' = "evict" /\ stale' = {} /\ plan' = {} /\ tracker' = {}
  /\ link' = [s \in Streams |->
                CASE link[s] = "open" -> "lost"
                  [] link[s] = "cut"  -> "free"
                  [] OTHER            -> link[s]]
  /\ peer' = [s \in Streams |-> IF link[s] = "cut" THEN Nobody ELSE peer[s]]
  /\ up' = [s \in Streams |-> <<>>]
  /\ down' = [s \in Streams |-> <<>>]

\* No part of the router still mentions stream id s, so a slot can be reused.
Forgotten(s) ==
  /\ s \notin stale
  /\ \A v \in plan : v.sid # s
=============================================================================

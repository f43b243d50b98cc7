-------------------------------- MODULE Grid --------------------------------
(***************************************************************************)
(* The self-assembling grid: the router and its shard servers, with the    *)
(* disturbances of their environment (connection faults, heartbeats that   *)
(* stay away, router restarts, admin calls), each limited by a budget.     *)
(***************************************************************************)
EXTENDS GridRouter, GridServer

CONSTANT Budget  \* how often each kind of disturbance may happen

Kinds == {"fault", "lapse", "restart", "drain", "assign"}

ASSUME BudgetAssumption == Budget \in [Kinds -> Nat]

VARIABLE left  \* what is left of the budget

vars == <<routerVars, procVars, netVars, left>>

TypeOK ==
  /\ NetTypeOK
  /\ RouterTypeOK
  /\ ServerTypeOK
  /\ left \in [Kinds -> Nat]

Init ==
  /\ NetInit
  /\ RouterInit
  /\ ServerInit
  /\ left = Budget

Spend(k) ==
  /\ left[k] > 0
  /\ left' = [left EXCEPT ![k] = @ - 1]

\* The Join call starts the router's task and returns the server_id to it.
Join(p, s) ==
  /\ Connect(p, s)
  /\ Forgotten(s)
  /\ tpc' = [tpc EXCEPT ![s] = "read"]
  /\ UNCHANGED <<stateVars, pool, elevated, reg, avail, todo, rebVars, left>>

RouterNext ==
  /\ \/ \E s \in Streams : TaskStep(s)
     \/ RebalancerStep
  /\ UNCHANGED <<procVars, left>>

ServerNext ==
  /\ \E s \in Streams : ServerStep(s)
  /\ UNCHANGED <<routerVars, left>>

Disturb ==
  \/ Spend("fault") /\ (\E s \in Streams : Fault(s)) /\ UNCHANGED routerVars
  \/ Spend("lapse") /\ (\E s \in Streams : Lapse(s)) /\ UNCHANGED procVars
  \/ Spend("restart") /\ Restart /\ UNCHANGED procVars
  \/ Spend("drain") /\ (\E s \in Streams : DrainServer(s)) /\ UNCHANGED procVars
  \/ Spend("assign") /\ UNCHANGED procVars
       /\ \E x \in AdminSlices, h \in Hashes :
            AssignAny(x, h) \/ \E t \in Streams : AssignNamed(x, h, t)

Next ==
  \/ \E p \in Procs, s \in Streams : Join(p, s)
  \/ RouterNext
  \/ ServerNext
  \/ Disturb

Spec == Init /\ [][Next]_vars

(***************************************************************************)
(* Fairness.  tokio polls every ready task, so each stream's task, the     *)
(* rebalancer and each server's receive loop keep going.  A send that      *)
(* waits for room in an mpsc channel queues behind at most one other       *)
(* sender, so the loop's sends are strongly fair.  So is a reconnect,      *)
(* because the router never runs out of ids as the finitely many slots do. *)
(* Nothing is assumed of the environment, nor of heartbeats, which a host  *)
(* that hangs or a half-open connection keeps back.                        *)
(***************************************************************************)
LoopStep(s) ==
  \/ ServeIgnores(s) \/ ServeUnassign(s) \/ DropReturns(s)
  \/ AvailAssign(s) \/ AvailIgnores(s) \/ AvailAck(s) \/ StreamError(s)

LoopSend(s) == Drained(s) \/ EnterModeB(s) \/ LoadOk(s) \/ LoadFail(s)

Fairness ==
  /\ WF_vars(RebalancerStep /\ UNCHANGED <<procVars, left>>)
  /\ \A p \in Procs : SF_vars(\E s \in Streams : Join(p, s))
  /\ \A s \in Streams :
       /\ WF_vars(TaskStep(s) /\ UNCHANGED <<procVars, left>>)
       /\ WF_vars(LoopStep(s) /\ UNCHANGED <<routerVars, left>>)
       /\ SF_vars(LoopSend(s) /\ UNCHANGED <<routerVars, left>>)

FairSpec == Spec /\ Fairness

-----------------------------------------------------------------------------
(* Safety. *)

\* Where messages of type ty are in the channel q.
At(q, ty) == {i \in 1 .. Len(q) : q[i].type = ty}

(***************************************************************************)
(* Whatever GridState still lists has a stream task that is alive and will *)
(* remove it when the stream ends: the registered_model and is_available   *)
(* flags of the task (service.rs) never run behind the tables.             *)
(***************************************************************************)
NoGhosts ==
  \A s \in Streams :
    /\ s \in serving => s \in reg /\ tpc[s] \notin {"none", "bye"}
    /\ s \in pool => s \in avail /\ tpc[s] # "none"

(***************************************************************************)
(* A stream is never both a serving replica and a spare, although neither  *)
(* the Ready nor the Announce handler takes it out of available_servers.   *)
(***************************************************************************)
ServingIsNoSpare == serving \cap pool = {}

(***************************************************************************)
(* The offer of a spare is in one place at a time: on its way in an        *)
(* AvailableMsg, in the pool, in an AssignMsg, in the loader, or in the    *)
(* ReadyMsg.  So a spare is never given two shards, and a late ReadyMsg    *)
(* never registers a server that was returned to the pool.                 *)
(***************************************************************************)
Claims(s) ==
       {<<"offered", i>>  : i \in At(up[s], "available")}
  \cup {<<"pooled", 0>>   : t \in pool \cap {s}}
  \cup {<<"assigned", i>> : i \in At(down[s], "assign")}
  \cup {<<"loading", 0>>  : t \in {u \in {s} : pc[u] = "load"}}
  \cup {<<"ready", i>>    : i \in At(up[s], "ready")}

OneClaim == \A s \in Streams : \A c, d \in Claims(s) : c = d

\* The grid keeps the promise of SpareOffer.
OfferOf(s) == IF Claims(s) = {} THEN "none" ELSE (CHOOSE c \in Claims(s) : TRUE)[1]

Abstract == INSTANCE SpareOffer WITH offer <- [s \in Streams |-> OfferOf(s)]

OfferSpec == Abstract!Spec

(***************************************************************************)
(* An AssignMsg is only ever read by a server in Mode B: try_once calls    *)
(* the other case a router bug (announce.rs, the Assign arm of Mode A).    *)
(***************************************************************************)
AssignMeetsModeB ==
  \A s \in Streams : At(down[s], "assign") # {} => pc[s] = "avail"

(***************************************************************************)
(* The layer index answers as the servers map does, and exactly the        *)
(* serving servers can be told to leave.                                   *)
(***************************************************************************)
IndexInStep ==
  /\ routeTable = RouteTable(serving, info)
  /\ anyTable = AnyModelTable(serving, info)
  /\ senders = serving

-----------------------------------------------------------------------------
(* Liveness, under FairSpec. *)

\* A server whose stream ended is eventually neither routed to nor assigned.
DepartedIsRemoved ==
  \A s \in Streams : link[s] = "cut" ~> s \notin serving \cup pool

\* A server that was told to leave eventually stops being routed to.
DrainEnds == \A s \in Streams : pc[s] = "drain" ~> s \notin serving

\* Once the disturbances are over every Mode A server is in the grid again,
\* for good (run_announce reconnects; the router keeps no state on disk).  Unless
\* one falls silent: the router evicts it, and its open stream never announces it again.
GridReforms ==
  [](\A s \in serving : ~ info[s].old)
    => <>[](\A p \in ModeA : \E s \in serving : peer[s] = p /\ link[s] = "open")

\* A spare does not idle for ever while some slice is short of replicas and
\* nothing changes that (the under-replication tick of the rebalancer).
SpareIsUsed ==
  []<>(pool = {} \/ UnderReplicated(serving, info, Target, elevated) = {})

\* A server whose heartbeats stay away is eventually evicted, unless one
\* arrives after all: the tick never gets stuck before the eviction.
StaleIsSettled ==
  \A s \in Streams :
    s \in serving /\ info[s].old ~> s \notin serving \/ ~ info[s].old

\* The hot-shard bump follows the rate: a slice whose rate stays low, or which no
\* server holds any more, loses it; one that stays in or above the band between
\* the two thresholds after it was elevated keeps it, so it does not flap.
HotShardsFollow ==
  \A x \in {Home[p] : p \in ModeA} :
    /\ <>[](x \notin HotSlices(serving, info, DemoteThreshold)) => <>[](x \notin elevated)
    /\ <>[](x \in HotSlices(serving, info, DemoteThreshold)) /\ []<>(x \in elevated)
         => <>[](x \in elevated)
=============================================================================

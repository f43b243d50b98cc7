----------------------------- MODULE MCLiveness -----------------------------
(***************************************************************************)
(* Two fair instances of the grid in one run of TLC: the instance is       *)
(* chosen in the initial state and never changes.                          *)
(*   used    a server and a spare, a fault and a host that falls silent    *)
(*   reform  the server alone, whose rate changes, drained by hand, and a  *)
(*           restart of the router                                         *)
(***************************************************************************)
EXTENDS MCGrid

VARIABLE instance

\* In used nobody has requests to answer; in reform the spare never comes.
Confined ==
  IF instance = "used"
  THEN \A s \in Streams : \A i \in At(up[s], "heartbeat") : up[s][i].beat \in IdleBeat
  ELSE \A s \in Streams : link[s] = "free" \/ peer[s] # b1

LiveInit ==
  /\ NetInit /\ RouterInit /\ ServerInit
  /\ \/ instance = "used" /\ left = Fault1Lapse1
     \/ instance = "reform" /\ left = DrainRestart

LiveNext == Next /\ UNCHANGED instance /\ Confined'

\* The fairness of Grid, without the connections of a spare that never comes.
LiveFairness ==
  /\ WF_vars(RebalancerStep /\ UNCHANGED <<procVars, left>>)
  /\ \A p \in Procs :
       SF_vars(\E s \in Streams : (p = b1 => instance = "used") /\ Join(p, s))
  /\ \A s \in Streams :
       /\ WF_vars(TaskStep(s) /\ UNCHANGED <<procVars, left>>)
       /\ WF_vars(LoopStep(s) /\ UNCHANGED <<routerVars, left>>)
       /\ SF_vars(LoopSend(s) /\ UNCHANGED <<routerVars, left>>)

LiveSpec == LiveInit /\ [][LiveNext]_<<vars, instance>> /\ LiveFairness
=============================================================================

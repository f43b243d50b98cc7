----------------------------- MODULE MCRebalance -----------------------------
(***************************************************************************)
(* Three instances of the grid in one run of TLC: the instance is chosen   *)
(* in the initial state and never changes.                                 *)
(*   gaps     three servers with nested ranges, a spare and the operator   *)
(*   surplus  more replicas than the target, servers that re-enter, faults *)
(*   uneven   a fast and a slow replica, and a spare                       *)
(* The constants of the .cfg are those of gaps; the others have fewer      *)
(* processes, and use fewer of the streams.                                *)
(***************************************************************************)
EXTENDS MCGrid

CONSTANTS s3, s4  \* streams

VARIABLE instance

At0(ms) == [Beat(0, 0, NoLat) EXCEPT !.lat[0] = ms]
FastSlowAt0 == {At0(1), At0(3)}

Two == {a1, a2}
TwoHome == [p \in Two |-> Whole]
TwoStore == [p \in Two |-> {}]
TwoRam == [p \in Two |-> 1]

Surplus == INSTANCE GridInvariant WITH
  Procs <- Two, ModeA <- Two, Reenter <- Two,
  Beats <- IdleBeat, Home <- TwoHome, Stored <- TwoStore,
  Ram <- TwoRam, AdminSlices <- NoSlices, Budget <- Fault1

NoProcs == {}
Three == {a1, a2, b1}
ThreeHome == [p \in Three |-> Whole]
ThreeStore == [p \in Three |-> {}]
ThreeRam == [p \in Three |-> 1]

Uneven == INSTANCE GridInvariant WITH
  Procs <- Three, ModeA <- Two, Reenter <- NoProcs,
  Beats <- FastSlowAt0, Home <- ThreeHome, Stored <- ThreeStore,
  Ram <- ThreeRam, Target <- 2, AdminSlices <- NoSlices, Budget <- Calm

Unused(S) == \A s \in S : link[s] = "free"

RebalanceInit ==
  \/ instance = "gaps" /\ Init
  \/ instance = "surplus" /\ Surplus!Init
  \/ instance = "uneven" /\ Uneven!Init

RebalanceNext ==
  /\ \/ instance = "gaps" /\ Next
     \/ instance = "surplus" /\ Surplus!Next /\ Unused({s3, s4})'
     \/ instance = "uneven" /\ Uneven!Next /\ Unused({s4})'
  /\ UNCHANGED instance

RebalanceSpec == RebalanceInit /\ [][RebalanceNext]_<<vars, instance>>
==============================================================================

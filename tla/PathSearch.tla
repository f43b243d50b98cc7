----------------------------- MODULE PathSearch -----------------------------
(***************************************************************************)
(* search_internal of crates/larql-core/src/algo/shortest_path.rs, which   *)
(* is Dijkstra's algorithm or, with a heuristic, A*.  The heap keeps the   *)
(* entries of a node whose cost was lowered since, and an entry's cost is  *)
(* not looked at when it is popped.                                        *)
(*                                                                         *)
(* An edge is <<subject, relation, object>>.  Its weight is not negative:  *)
(* it is 1 - confidence, and with_confidence clamps a confidence.          *)
(***************************************************************************)
EXTENDS Integers, FiniteSets, FiniteSetsExt

CONSTANTS
  Nodes, Labels, From, To,
  Possible,         \* the edges a graph may have
  Weights,          \* the weights an edge may have
  Heuristics,       \* the functions of Nodes the caller may give
  Infinity,         \* more than the cost of any path
  NoEdge

ASSUME PathAssumption ==
  /\ IsFiniteSet(Nodes) /\ From \in Nodes /\ To \in Nodes
  /\ Possible \subseteq Nodes \X Labels \X Nodes
  /\ NoEdge \notin Possible
  /\ Weights \subseteq Nat /\ Infinity \in Nat \ {0}
  /\ Heuristics \subseteq [Nodes -> Nat]

VARIABLES
  weight, heuristic,        \* the arguments: the edges with their weights, the estimate
  at,                       \* where the search is
  dist, prev, heap,         \* of the search; a node without an entry is at Infinity
  node, todo                \* the node that is expanded, its edges left

arguments == <<weight, heuristic>>
pathVars == <<arguments, at, dist, prev, heap, node, todo>>

\* No node gets two entries of one cost, for every push lowers its cost: the
\* heap is a set.
Entry(n, cost) == <<cost + heuristic[n], n>>

PathTypeOK ==
  /\ DOMAIN weight \subseteq Possible /\ weight \in [DOMAIN weight -> Weights]
  /\ heuristic \in Heuristics
  /\ at \in {"pop", "relax", "found", "none"}
  /\ dist \in [Nodes -> 0 .. Infinity]
  /\ prev \in [Nodes -> DOMAIN weight \cup {NoEdge}]
  /\ \A entry \in heap :
       \E n \in Nodes : \E cost \in dist[n] .. Infinity - 1 : entry = Entry(n, cost)
  /\ node \in Nodes /\ todo \subseteq DOMAIN weight

-----------------------------------------------------------------------------
(* The cheapest walk, to compare with *)

\* From the costs of walks of some length, those of walks that may be longer by an edge.
OneMore(w, cost) ==
  [v \in Nodes |-> Min({cost[v]} \cup {cost[e[1]] + w[e] : e \in {x \in DOMAIN w : x[3] = v}})]

\* The cost to every node of a cheapest walk of at most n edges.
CostWithin(w, from, n) ==
  LET cost[m \in 0 .. n] == IF m = 0 THEN [v \in Nodes |-> IF v = from THEN 0 ELSE Infinity]
                            ELSE OneMore(w, cost[m - 1])
  IN  cost[n]

Distance(w, from, to) == CostWithin(w, from, Cardinality(Nodes))[to]

-----------------------------------------------------------------------------
(* search_internal *)

PathInit ==
  /\ \E E \in SUBSET Possible : weight \in [E -> Weights]
  /\ heuristic \in Heuristics
  /\ at = "pop"
  /\ dist = [n \in Nodes |-> IF n = From THEN 0 ELSE Infinity]
  /\ prev = [n \in Nodes |-> NoEdge]
  /\ heap = {Entry(From, 0)}
  /\ node = From /\ todo = {}

\* The heap gives one of its cheapest entries.
Pop ==
  /\ at = "pop"
  /\ \E entry \in heap :
       /\ \A other \in heap : entry[1] <= other[1]
       /\ heap' = heap \ {entry}
       /\ node' = entry[2]
       /\ IF entry[2] = To THEN at' = "found" /\ UNCHANGED todo
          ELSE at' = "relax" /\ todo' = {e \in DOMAIN weight : e[1] = entry[2]}
  /\ UNCHANGED <<arguments, dist, prev>>

Empty ==
  /\ at = "pop" /\ heap = {} /\ at' = "none"
  /\ UNCHANGED <<arguments, dist, prev, heap, node, todo>>

next_cost(e) == dist[node] + weight[e]

Better(e) == next_cost(e) < dist[e[3]]

\* Mutant of Predecessor: the first edge to a node stays.
PredecessorFirst(e) == IF prev[e[3]] = NoEdge THEN e ELSE prev[e[3]]

Predecessor(e) == e

\* The edges of a node are in the order they were added, which is any order.
Relax(e) ==
  /\ at = "relax" /\ e \in todo /\ todo' = todo \ {e}
  /\ IF Better(e)
     THEN /\ dist' = [dist EXCEPT ![e[3]] = next_cost(e)]
          /\ prev' = [prev EXCEPT ![e[3]] = Predecessor(e)]
          /\ heap' = heap \cup {Entry(e[3], next_cost(e))}
     ELSE UNCHANGED <<dist, prev, heap>>
  /\ UNCHANGED <<arguments, at, node>>

Expanded ==
  /\ at = "relax" /\ todo = {} /\ at' = "pop"
  /\ UNCHANGED <<arguments, dist, prev, heap, node, todo>>

PathNext == Pop \/ Empty \/ Expanded \/ \E e \in Possible : Relax(e)

PathSpec == PathInit /\ [][PathNext]_pathVars

-----------------------------------------------------------------------------
(* Properties *)

Admissible == \A n \in Nodes : heuristic[n] <= Distance(weight, n, To)

\* With a heuristic that never overestimates the cost is that of a cheapest
\* walk, and no path is found only if there is none: though an entry may be
\* stale when it is popped, and though the heuristic may be inconsistent (the
\* early return of search_internal when the target is popped).
AnswerIsShortest ==
  /\ at = "found" /\ Admissible => dist[To] = Distance(weight, From, To)
  /\ at = "none" => Distance(weight, From, To) = Infinity

\* The way back from the target along the predecessors, n edges of it.
Back(n) ==
  LET back[m \in 0 .. n] ==
        IF m = 0 THEN [at |-> To, cost |-> 0]
        ELSE LET b == back[m - 1]
                 e == prev[b.at]
             IN  IF e = NoEdge THEN b ELSE [at |-> e[1], cost |-> b.cost + weight[e]]
  IN  back[n]

\* The predecessors lead back from the target to the start, and the weights of
\* the path that is returned add up to the cost that is returned with it, also
\* where two nodes have several edges ("multiedge paths and costs agree") and
\* whatever the heuristic: a predecessor is never lowered between the push of
\* the target and its pop.
PathAgrees ==
  at = "found" =>
    /\ prev[From] = NoEdge
    /\ Back(Cardinality(Nodes)) = [at |-> From, cost |-> dist[To]]

\* The cost and the path that search_internal returns are right, and it finds a path if
\* there is one (AnswerIsShortest, PathAgrees).
PathIsShortest == PathTypeOK /\ AnswerIsShortest /\ PathAgrees
==============================================================================

------------------------------- MODULE MCGraph -------------------------------
(***************************************************************************)
(* The graph of larql-core, the two searches on it and the extraction that *)
(* fills it, in one run of TLC: the part is chosen in the initial state    *)
(* and never changes.  The parts of the extraction are BfsExtract with     *)
(* fewer entities, runs or faults.                                         *)
(*   graph     the calls of KnowledgeGraph                                 *)
(*   search    extract_bfs alone, which may stop at max_entities           *)
(*   resume    runs that are killed and resumed, with a model that answers *)
(*   faults    also failed requests and writes, names of several bytes     *)
(*   path      the path search, with estimates good and bad                *)
(***************************************************************************)
EXTENDS KnowledgeGraph, BfsExtract, PathSearch

CONSTANTS n1, n2, n3, n4, n5, r, q

VARIABLE part

-----------------------------------------------------------------------------
(* The graph *)

\* A pair of edges between the same entities, and a loop.
SomeTriples == {<<n1, r, n2>>, <<n1, q, n2>>, <<n1, r, n1>>}

\* Either is the better one, by its confidence or by its source.
SomePayloads ==
  {[confidence |-> 1, source |-> "manual"], [confidence |-> 2, source |-> "document"]}

default_source_priority(s) ==
  CASE s = "manual" -> 5 [] s = "document" -> 2

-----------------------------------------------------------------------------
(* The extraction *)

Four == {n1, n2, n3, n4}
OneSeed == <<n1>>

Know(f) == [p \in Words \X Templates |-> IF p \in DOMAIN f THEN f[p] ELSE NoAnswer]

\* A short and a long way to n3, on to n4, and a loop back to the beginning.
TwoWays ==
  [p \in {<<n1, r>>, <<n1, q>>, <<n2, r>>, <<n3, r>>, <<n4, r>>} |->
     CASE p = <<n1, r>> -> n2 [] p = <<n1, q>> -> n3 [] p = <<n2, r>> -> n3
       [] p = <<n3, r>> -> n4 [] p = <<n4, r>> -> n1]

\* A chain, with an answer that is not followed.
Chain ==
  [p \in {<<n1, r>>, <<n2, r>>, <<n2, q>>, <<n3, r>>} |->
     CASE p = <<n1, r>> -> n2 [] p = <<n2, r>> -> n3 [] p = <<n2, q>> -> n5 [] p = <<n3, r>> -> n4]

SomeKnowledge == {Know(TwoWays), Know(Chain)}
Yes == TRUE
No == FALSE
Zero == 0
Two == 2
Three == 3

Search == INSTANCE BfsExtract WITH
  MaxEntities <- Three, Flaky <- No, DiskFails <- No, Wide <- No, MaxRuns <- Two, MaxFaults <- Zero
Resumed == INSTANCE BfsExtract WITH Flaky <- No, DiskFails <- No, Wide <- No
Faulty == INSTANCE BfsExtract WITH MaxEntities <- Two, MaxRuns <- Two

-----------------------------------------------------------------------------
(* The path search *)

\* Two ways that cross, a second edge beside one of them, and a loop.
Crossing ==
  {<<n1, r, n2>>, <<n1, q, n2>>, <<n1, r, n3>>, <<n2, r, n3>>, <<n3, r, n2>>, <<n2, r, n4>>, <<n3, r, n4>>}

\* Weights that add up to an estimate, and to less.
FewWeights == {0, 3}
Estimates == {h \in [Four -> {0, 3}] \cup [Four -> {0, 4}] : h[n1] = 0}

-----------------------------------------------------------------------------

GraphRunInit ==
  /\ part \in {"graph", "search", "resume", "faults", "path"}
  /\ Init
  /\ BfsInit /\ (part \in {"graph", "path"} => know = Know(Chain))
  /\ part = "path" \/ (weight = <<>> /\ heuristic = [n \in Four |-> 0])
  /\ PathInit

GraphRunNext ==
  /\ \/ part = "graph" /\ Next /\ UNCHANGED <<bfsVars, pathVars>>
     \/ /\ \/ part = "search" /\ Search!BfsNext
           \/ part = "resume" /\ Resumed!BfsNext
           \/ part = "faults" /\ Faulty!BfsNext
        /\ UNCHANGED <<vars, pathVars>>
     \/ part = "path" /\ PathNext /\ UNCHANGED <<vars, bfsVars>>
  /\ UNCHANGED part

GraphRunSpec == GraphRunInit /\ [][GraphRunNext]_<<part, vars, bfsVars, pathVars>>
==============================================================================

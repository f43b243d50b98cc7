------------------------------ MODULE TripleMap ------------------------------
(***************************************************************************)
(* What the graph of crates/larql-core/src/core/graph.rs promises: a map   *)
(* from triples to the confidence and the source of their edge.  Merging   *)
(* another graph decides every triple on its own.                          *)
(***************************************************************************)
EXTENDS Integers

CONSTANTS
  Triples, Payloads,        \* a payload has a confidence and a source
  Priority(_)               \* of a source

VARIABLES map, call         \* the map, and the last call with its arguments

Maps == UNION {[T -> Payloads] : T \in SUBSET Triples}

With(m, t, p) == [u \in DOMAIN m \cup {t} |-> IF u = t THEN p ELSE m[u]]

Init == map = [t \in {} |-> 0] /\ call = <<"new">>

Add(t, p) ==
  /\ call' = <<"add", t, p>>
  /\ map' = IF t \in DOMAIN map THEN map ELSE With(map, t, p)

Insert(t, p) == call' = <<"insert", t, p>> /\ map' = With(map, t, p)

Remove(t) == call' = <<"remove", t>> /\ map' = [u \in DOMAIN map \ {t} |-> map[u]]

Deduplicate == call' = <<"deduplicate">> /\ UNCHANGED map

ListNodes == call' = <<"nodes">> /\ UNCHANGED map

\* Whether a strategy takes the other graph's edge.
Wins(strategy, new, old) ==
  \/ strategy = "MaxConfidence" /\ new.confidence > old.confidence
  \/ strategy = "SourcePriority" /\ Priority(new.source) > Priority(old.source)

Merge(strategy, other) ==
  /\ call' = <<"merge", strategy, other>>
  /\ map' = [t \in DOMAIN map \cup DOMAIN other |->
               IF t \notin DOMAIN map THEN other[t]
               ELSE IF t \in DOMAIN other /\ Wins(strategy, other[t], map[t]) THEN other[t]
               ELSE map[t]]

Next ==
  \/ \E t \in Triples : Remove(t) \/ \E p \in Payloads : Add(t, p) \/ Insert(t, p)
  \/ Deduplicate \/ ListNodes
  \/ \E other \in Maps, s \in {"Union", "MaxConfidence", "SourcePriority"} : Merge(s, other)

Spec == Init /\ [][Next]_<<map, call>>
==============================================================================

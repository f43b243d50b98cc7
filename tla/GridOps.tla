------------------------------- MODULE GridOps -------------------------------
(***************************************************************************)
(* The pure part of the router's grid state (crates/larql-router/src/grid): *)
(* what the methods of GridState compute from the servers map.             *)
(*                                                                         *)
(* A server map is passed as two arguments: D, its set of keys, and I, a   *)
(* function that gives the ServerEntry of every key.  Model ids are        *)
(* numbers that rank as the strings they stand for.  A method that picks   *)
(* "some" element in HashMap iteration order returns here the set of all   *)
(* its possible answers.                                                   *)
(***************************************************************************)
EXTENDS Integers, FiniteSets, FiniteSetsExt

CONSTANTS
  Models,     \* the model ids, as numbers in string order
  MaxLayer,   \* layers are 0..MaxLayer
  MaxExpert   \* expert ids are 0..MaxExpert

ASSUME ModelsAssumption    == Models # {} /\ Models \subseteq Nat
ASSUME MaxLayerAssumption  == MaxLayer \in Nat
ASSUME MaxExpertAssumption == MaxExpert \in Nat

Layers == 0 .. MaxLayer

(***************************************************************************)
(* The 5-tuple that identifies a shard slice; layer and expert bounds are  *)
(* inclusive and 0/0 experts mean "dense".                                 *)
(***************************************************************************)
Slice == [model : Models, ls : Layers, le : Layers,
          es : 0 .. MaxExpert, ee : 0 .. MaxExpert]

IsDense(x) == x.es = 0 /\ x.ee = 0

\* The slices that servers announce and operators assign.
DenseSlices == {x \in Slice : IsDense(x) /\ x.ls <= x.le}

\* The dense slice of the same layer range.
DenseOf(x) == [model |-> x.model, ls |-> x.ls, le |-> x.le, es |-> 0, ee |-> 0]

\* Order of the tuples (model, ls, le, es, ee): what out.sort() uses.
SliceLT(a, b) ==
  \/ a.model < b.model
  \/ /\ a.model = b.model
     /\ \/ a.ls < b.ls
        \/ a.ls = b.ls /\ a.le < b.le
        \/ a.ls = b.ls /\ a.le = b.le /\ a.es < b.es
        \/ a.ls = b.ls /\ a.le = b.le /\ a.es = b.es /\ a.ee < b.ee

-----------------------------------------------------------------------------
(* Replica counting and the replication targets. *)

Replicas(D, I, x) == {s \in D : I[s].slice = x}

LiveSlices(D, I) == {I[s].slice : s \in D}

EffectiveTarget(target, elevated, x) ==
  target + (IF x \in elevated THEN 1 ELSE 0)

OverReplicated(D, I, target, elevated) ==
  {x \in LiveSlices(D, I) :
     Cardinality(Replicas(D, I, x)) > EffectiveTarget(target, elevated, x)}

UnderReplicated(D, I, target, elevated) ==
  {x \in LiveSlices(D, I) :
     Cardinality(Replicas(D, I, x)) < EffectiveTarget(target, elevated, x)}

LeastLoaded(D, I, x) ==
  {s \in Replicas(D, I, x) :
     \A t \in Replicas(D, I, x) : I[s].load <= I[t].load}

-----------------------------------------------------------------------------
(* Origins: a live server whose slice covers the wanted one. *)

CoversSlice(have, want) ==
  /\ have.model = want.model
  /\ have.ls <= want.ls
  /\ have.le >= want.le
  /\ \/ IsDense(want)
     \/ IsDense(have)
     \/ have.es <= want.es /\ have.ee >= want.ee

Origins(D, I, want) == {s \in D : CoversSlice(I[s].slice, want)}

-----------------------------------------------------------------------------
(***************************************************************************)
(* coverage_gaps: the ranges of one model are sorted by their start, and a *)
(* gap is reported between the end of a range and the start of the next.   *)
(* Ranges with equal starts keep HashMap order, so the end that precedes   *)
(* the next start is that of ANY range with the previous start.            *)
(***************************************************************************)
Starts(D, I, m) == {I[s].slice.ls : s \in {t \in D : I[t].slice.model = m}}

EndsAt(D, I, m, a) ==
  {I[s].slice.le : s \in {t \in D : I[t].slice.model = m /\ I[t].slice.ls = a}}

NextStart(D, I, m, a, b) ==
  /\ a < b
  /\ ~ \E c \in Starts(D, I, m) : a < c /\ c < b

\* One dense slice for every gap, when last[m, a] is the end that the sort
\* left last among the ranges of model m that start at a.
GapsGiven(D, I, last) ==
  {g \in Slice :
     /\ IsDense(g)
     /\ g.ls <= g.le
     /\ \E a \in Starts(D, I, g.model), b \in Starts(D, I, g.model) :
          /\ NextStart(D, I, g.model, a, b)
          /\ g.ls = last[<<g.model, a>>] + 1
          /\ g.le = b - 1}

StartKeys(D, I) ==
  {k \in Models \X Layers : k[2] \in Starts(D, I, k[1])}

CoverageGaps(D, I) ==
  {GapsGiven(D, I, last) :
     last \in {f \in [StartKeys(D, I) -> Layers] :
                 \A k \in StartKeys(D, I) : f[k] \in EndsAt(D, I, k[1], k[2])}}

-----------------------------------------------------------------------------
(* Hot shards, and the per-layer latency imbalance. *)

HotSlices(D, I, threshold) ==
  {x \in LiveSlices(D, I) :
     threshold > 0 /\ \E s \in Replicas(D, I, x) : I[s].rate > threshold}

NoLat == -1

Lat == Nat \cup {NoLat}

\* The servers that report a latency for layer k[2] of model k[1].
Reporting(D, I, k) ==
  {s \in D : I[s].slice.model = k[1] /\ I[s].lat[k[2]] # NoLat}

Fastest(D, I, k) == Min({I[s].lat[k[2]] : s \in Reporting(D, I, k)})

Slowest(D, I, k) ==
  {s \in Reporting(D, I, k) :
     \A t \in Reporting(D, I, k) : I[t].lat[k[2]] <= I[s].lat[k[2]]}

Imbalanced(D, I, k, factor) ==
  /\ Cardinality(Reporting(D, I, k)) >= 2
  /\ Fastest(D, I, k) > 0
  /\ \E s \in Reporting(D, I, k) : I[s].lat[k[2]] > factor * Fastest(D, I, k)

\* Layers whose record the tick clears: one reporter, or a ratio within the
\* threshold.  A zero minimum leaves the record alone.
Balanced(D, I, k, factor) ==
  \/ Cardinality(Reporting(D, I, k)) = 1
  \/ /\ Cardinality(Reporting(D, I, k)) >= 2
     /\ Fastest(D, I, k) > 0
     /\ ~ Imbalanced(D, I, k, factor)

-----------------------------------------------------------------------------
(* The layer index that route() looks up. *)

Owners(D, I, m, l) ==
  {s \in D : I[s].slice.model = m /\ I[s].slice.ls <= l /\ l <= I[s].slice.le}

RouteTable(D, I) == [k \in Models \X Layers |-> Owners(D, I, k[1], k[2])]

AnyModelTable(D, I) ==
  [l \in Layers |-> {s \in D : I[s].slice.ls <= l /\ l <= I[s].slice.le}]
=============================================================================

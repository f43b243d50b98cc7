---------------------------- MODULE PatchOverlay ----------------------------
(***************************************************************************)
(* PatchedVindex: patches and direct edits over a base index               *)
(* (crates/larql-vindex/src/patch/overlay.rs, overlay_apply.rs).           *)
(*                                                                         *)
(* A gate vector is represented by the magnitude of its score against one  *)
(* fixed query, metadata by its c_score, and the up and down vectors of a  *)
(* feature, which are set and read alike, by one value.  apply_patch       *)
(* resolves the operations of a patch one by one, and rebuild_overrides    *)
(* does so for every patch that is left: one action per operation, with    *)
(* everything else shut out meanwhile (&mut self).                         *)
(***************************************************************************)
EXTENDS KnnStore, Integers, SequencesExt

CONSTANTS
  Features,
  BaseScore,    \* score of a feature of the base, None where the base has no such feature
  BaseMeta,     \* metadata of the base
  Metas, Gates, Vecs,   \* what patches and edits may bring
  Patches,      \* the patch files: sequences of operations
  TopK,         \* the k of a query
  Absent,       \* no entry in overrides_meta (None: an entry that says there is no metadata)
  MaxPatches,   \* bound on the patches applied at a time
  MaxEdits      \* bound on direct edits

VARIABLES
  patches,   \* the applied patches, in order
  queue,     \* the patches apply_patch and rebuild_overrides still have to resolve
  pos,       \* the next operation of the first of them
  touched,   \* touched_layers
  meta, gate, deleted,    \* overrides_meta, overrides_gate, deleted
  vec,       \* up_overrides and down_overrides, kept by the base
  cache,     \* gate_cache: the gate matrix of a layer
  edits

maps == <<meta, gate, deleted, vec>>
queueVars == <<queue, pos, touched>>
overlayVars == <<patches, queue, pos, touched, meta, gate, deleted, vec, cache, edits>>
vars == <<overlayVars, knnVars>>

Keys == Layers \X Features

ASSUME BaseAssumption ==
  /\ Features \subseteq Nat /\ IsFiniteSet(Features)
  /\ BaseScore \in [Keys -> Nat \cup {None}]
  /\ BaseMeta \in [Keys -> Nat \cup {None}]

ASSUME BoundsAssumption == TopK \in Nat /\ MaxPatches \in Nat /\ MaxEdits \in Nat

ASSUME AbsentAssumption ==
  /\ None # Absent /\ {None, Absent} \cap Metas = {}
  /\ Gates \subseteq Nat /\ None \notin Nat \cup Vecs

Op ==
  [op: {"insert", "update"}, key: Keys, meta: Metas \cup {None},
   gate: Gates \cup {None}, vec: Vecs \cup {None}]
  \cup [op: {"delete"}, key: Keys]
  \cup [op: {"insert_knn"}, layer: Layers, entry: KnnEntries]
  \cup [op: {"delete_knn"}, entity: {e.entity : e \in KnnEntries}]

ASSUME PatchesAssumption == Patches \subseteq Seq(Op)

Init ==
  /\ patches = <<>> /\ queue = <<>> /\ pos = 1 /\ touched = {} /\ edits = 0
  /\ meta = [k \in Keys |-> Absent]
  /\ gate = [k \in Keys |-> None]
  /\ deleted = {}
  /\ vec = [k \in Keys |-> None]
  /\ cache = [l \in Layers |-> None]
  /\ KnnInit

Resolved == queue = <<>>

-----------------------------------------------------------------------------
(* Reading *)

\* feature_meta
FeatureMeta(k) ==
  IF meta[k] # Absent THEN meta[k]
  ELSE IF k \in deleted THEN None ELSE BaseMeta[k]

Overridden(l) == {f \in Features : gate[<<l, f>>] # None}

Deleted(l) == {f \in Features : <<l, f>> \in deleted}

\* The matrix layer_gate_cache flattens overrides_gate into.
Snapshot(l) == [f \in Overridden(l) |-> gate[<<l, f>>]]

BaseHits(l) == {<<f, BaseScore[<<l, f>>]>> : f \in {g \in Features : BaseScore[<<l, g>>] # None}}

\* The ways to keep the n best of some hits.
Best(H, n) ==
  {S \in SUBSET H :
     /\ Cardinality(S) = IF n < Cardinality(H) THEN n ELSE Cardinality(H)
     /\ \A x \in S, y \in H \ S : x[2] >= y[2]}

\* Mutant of Oversample: the base is asked for as many hits as the caller wants.
OversampleNone(n) == n

\* top_k.saturating_mul(2)
Oversample(n) == 2 * n

\* gate_knn: the hits of the base, scores replaced or added from the matrix, deletions dropped.
Merge(l, hits) ==
  LET row == IF cache[l] # None THEN cache[l] ELSE Snapshot(l)
      kept == {h \in hits : h[1] \notin DOMAIN row}
  IN {h \in kept \cup {<<f, row[f]>> : f \in DOMAIN row} : h[1] \notin Deleted(l)}

GateKnn(l) ==
  IF Overridden(l) = {} /\ Deleted(l) = {} THEN Best(BaseHits(l), TopK)
  ELSE UNION {Best(Merge(l, hits), TopK) : hits \in Best(BaseHits(l), Oversample(TopK))}

\* Free both in the base and in the overlay, else the weakest of the base that
\* no gate override claims: the lowest feature where several will do.
FindFree(l) ==
  LET slots == {f \in Features : BaseScore[<<l, f>>] # None /\ gate[<<l, f>>] = None}
      unused == {f \in slots : BaseMeta[<<l, f>>] = None}
      weakest == {f \in slots : \A g \in slots : BaseMeta[<<l, f>>] <= BaseMeta[<<l, g>>]}
      First(S) == CHOOSE f \in S : \A g \in S : f <= g
  IN CASE unused # {} -> First(unused)
       [] unused = {} /\ slots # {} -> First(weakest)
       [] OTHER -> None

-----------------------------------------------------------------------------
(* Direct edits *)

\* invalidate_gate_cache_layer
Invalidate(L) == cache' = [l \in Layers |-> IF l \in L THEN None ELSE cache[l]]

Editing ==
  /\ Resolved /\ Exclusive
  /\ edits < MaxEdits /\ edits' = edits + 1
  /\ UNCHANGED <<patches, queueVars, knnVars>>

InsertFeature(k, g, m) ==
  /\ Editing
  /\ meta' = [meta EXCEPT ![k] = m]
  /\ gate' = [gate EXCEPT ![k] = g]
  /\ deleted' = deleted \ {k}
  /\ Invalidate({k[1]})
  /\ UNCHANGED vec

DeleteFeature(k) ==
  /\ Editing
  /\ meta' = [meta EXCEPT ![k] = None]
  /\ deleted' = deleted \cup {k}
  /\ gate' = [gate EXCEPT ![k] = None]
  /\ Invalidate({k[1]})
  /\ UNCHANGED vec

UpdateFeatureMeta(k, m) ==
  /\ Editing
  /\ meta' = [meta EXCEPT ![k] = m]
  /\ UNCHANGED <<gate, deleted, vec, cache>>

\* set_up_vector, set_down_vector
SetVector(k, v) ==
  /\ Editing
  /\ vec' = [vec EXCEPT ![k] = v]
  /\ UNCHANGED <<meta, gate, deleted, cache>>

\* Nothing happens to a slot without a gate override.
SetGateOverride(k, g) ==
  /\ Editing
  /\ gate[k] # None
  /\ gate' = [gate EXCEPT ![k] = g]
  /\ Invalidate({k[1]})
  /\ UNCHANGED <<meta, deleted, vec>>

\* knn_store.add and the two removals, called through the overlay's field.
EditKnn ==
  /\ Resolved
  /\ edits < MaxEdits /\ edits' = edits + 1
  /\ \/ \E l \in Layers, e \in KnnEntries : Add(l, e)
     \/ \E e \in KnnEntries : RemoveMatching(OfEdge(e.entity, e.relation))
  /\ UNCHANGED <<patches, queueVars, maps, cache>>

-----------------------------------------------------------------------------
(* Patches *)

\* apply_patch is called.
ApplyPatch(p) ==
  /\ Resolved /\ Exclusive
  /\ Len(patches) < MaxPatches
  /\ queue' = <<p>> /\ pos' = 1 /\ touched' = {}
  /\ UNCHANGED <<patches, maps, cache, edits, knnVars>>

Given(new, old) == IF new = None THEN old ELSE new

Current == queue[1][pos]

Resolving ==
  /\ ~Resolved
  /\ pos <= Len(queue[1])
  /\ pos' = pos + 1
  /\ UNCHANGED <<patches, queue, cache, edits>>

\* PatchOp::Insert always has metadata, from down_meta or from the target.
ResolveInsert ==
  /\ Resolving
  /\ Current.op = "insert"
  /\ LET k == Current.key
     IN /\ meta' = [meta EXCEPT ![k] = Current.meta]
        /\ deleted' = deleted \ {k}
        /\ gate' = [gate EXCEPT ![k] = Given(Current.gate, @)]
        /\ touched' = IF Current.gate # None THEN touched \cup {k[1]} ELSE touched
        /\ vec' = [vec EXCEPT ![k] = Given(Current.vec, @)]
  /\ UNCHANGED knnVars

ResolveUpdate ==
  /\ Resolving
  /\ Current.op = "update"
  /\ LET k == Current.key
     IN /\ meta' = [meta EXCEPT ![k] = Given(Current.meta, @)]
        /\ gate' = [gate EXCEPT ![k] = Given(Current.gate, @)]
        /\ touched' = IF Current.gate # None THEN touched \cup {k[1]} ELSE touched
        /\ vec' = [vec EXCEPT ![k] = Given(Current.vec, @)]
  /\ UNCHANGED <<deleted, knnVars>>

\* Mutant of ResolveDelete: the gate override stays behind.
ResolveDeleteMetaOnly ==
  /\ Resolving
  /\ Current.op = "delete"
  /\ meta' = [meta EXCEPT ![Current.key] = None]
  /\ deleted' = deleted \cup {Current.key}
  /\ UNCHANGED <<gate, touched, vec, knnVars>>

ResolveDelete ==
  /\ Resolving
  /\ Current.op = "delete"
  /\ LET k == Current.key
     IN /\ meta' = [meta EXCEPT ![k] = None]
        /\ deleted' = deleted \cup {k}
        /\ gate' = [gate EXCEPT ![k] = None]
        /\ touched' = IF gate[k] # None THEN touched \cup {k[1]} ELSE touched
  /\ UNCHANGED <<vec, knnVars>>

ResolveKnn ==
  /\ Resolving
  /\ \/ Current.op = "insert_knn" /\ Add(Current.layer, Current.entry)
     \/ Current.op = "delete_knn" /\ RemoveMatching(OfEntity(Current.entity))
  /\ UNCHANGED <<touched, maps>>

\* Mutant of EndPatch: no cached matrix is dropped.
EndPatchKeepsCache ==
  /\ ~Resolved
  /\ pos > Len(queue[1])
  /\ patches' = Append(patches, queue[1])
  /\ queue' = Tail(queue) /\ pos' = 1 /\ touched' = {}
  /\ UNCHANGED <<maps, cache, edits, knnVars>>

\* The end of apply_patch.
EndPatch ==
  /\ ~Resolved
  /\ pos > Len(queue[1])
  /\ Invalidate(touched)
  /\ patches' = Append(patches, queue[1])
  /\ queue' = Tail(queue) /\ pos' = 1 /\ touched' = {}
  /\ UNCHANGED <<maps, edits, knnVars>>

\* remove_patch, up to the loop of rebuild_overrides; the base keeps its vectors.
RemovePatch(i) ==
  /\ Resolved
  /\ i \in 1..Len(patches)
  /\ queue' = RemoveAt(patches, i) /\ pos' = 1 /\ touched' = {}
  /\ patches' = <<>>
  /\ meta' = [k \in Keys |-> Absent]
  /\ gate' = [k \in Keys |-> None]
  /\ deleted' = {}
  /\ Invalidate(Layers)
  /\ KnnReset
  /\ UNCHANGED <<vec, edits>>

-----------------------------------------------------------------------------
(* Queries *)

\* gate_knn flattens the overrides of a layer unless it finds them cached.
\* Readers that do so together store the same matrix.
GateQuery(l) ==
  /\ Resolved
  /\ Overridden(l) # {} /\ cache[l] = None
  /\ cache' = [cache EXCEPT ![l] = Snapshot(l)]
  /\ UNCHANGED <<patches, queueVars, maps, edits, knnVars>>

Reading == Resolved /\ KnnRead /\ UNCHANGED overlayVars

Edit ==
  \/ \E l \in Layers, f \in Features, g \in Gates, m \in Metas :
       f = FindFree(l) /\ InsertFeature(<<l, f>>, g, m)
  \/ \E k \in Keys : DeleteFeature(k)
  \/ \E k \in Keys, m \in Metas : UpdateFeatureMeta(k, m)
  \/ \E k \in Keys, v \in Vecs : SetVector(k, v)
  \/ \E k \in Keys, g \in Gates : SetGateOverride(k, g)
  \/ EditKnn

Resolve ==
  \/ ResolveInsert \/ ResolveUpdate \/ ResolveDelete \/ ResolveKnn \/ EndPatch

Next ==
  \/ Edit
  \/ \E p \in Patches : ApplyPatch(p)
  \/ \E i \in 1..MaxPatches : RemovePatch(i)
  \/ Resolve
  \/ \E l \in Layers : GateQuery(l)
  \/ Reading

Spec == Init /\ [][Next]_vars

-----------------------------------------------------------------------------
(* Properties *)

TypeOK ==
  /\ patches \in Seq(Seq(Op)) /\ queue \in Seq(Seq(Op))
  /\ pos \in Nat \ {0}
  /\ pos <= (IF Resolved THEN 1 ELSE Len(queue[1]) + 1)
  /\ touched \subseteq Layers
  /\ meta \in [Keys -> Metas \cup {None, Absent}]
  /\ gate \in [Keys -> Gates \cup {None}]
  /\ deleted \subseteq Keys
  /\ vec \in [Keys -> Vecs \cup {None}]
  /\ edits \in 0..MaxEdits

\* A cached gate matrix is the matrix of the present overrides: every mutator
\* that reaches overrides_gate drops what it makes stale, per layer.
CacheInStep ==
  Resolved => \A l \in Layers : cache[l] # None => cache[l] = Snapshot(l)

\* The hits of a layer as they should be: every feature that is not deleted,
\* with its override if it has one.
TrueHits(l) ==
  {<<f, Given(gate[<<l, f>>], BaseScore[<<l, f>>])>> :
     f \in {g \in Features \ Deleted(l) : ~(gate[<<l, g>>] = None /\ BaseScore[<<l, g>>] = None)}}

Disturbed(l) == {f \in Overridden(l) \cup Deleted(l) : BaseScore[<<l, f>>] # None}

\* As long as no more than k features of a layer are overridden or deleted, a
\* query for k finds the k best of what the overlay shows.
QueryFindsBest ==
  Resolved =>
    \A l \in Layers : Cardinality(Disturbed(l)) <= TopK => GateKnn(l) \subseteq Best(TrueHits(l), TopK)

-----------------------------------------------------------------------------
(* What the patches in force say, operation by operation from the last *)

\* The last of some operations that satisfies a test, 0 if there is none.
LastOf(ops, Test(_)) ==
  LET at == {i \in DOMAIN ops : Test(ops[i])}
  IN IF at = {} THEN 0 ELSE CHOOSE i \in at : \A j \in at : j <= i

On(x, k, kinds) == x.op \in kinds /\ x.key = k

ReplayMeta(ops, k) ==
  LET i == LastOf(ops, LAMBDA x : \/ On(x, k, {"insert", "delete"})
                                  \/ On(x, k, {"update"}) /\ x.meta # None)
  IN IF i = 0 THEN Absent ELSE IF ops[i].op = "delete" THEN None ELSE ops[i].meta

ReplayGate(ops, k) ==
  LET i == LastOf(ops, LAMBDA x : \/ On(x, k, {"delete"})
                                  \/ On(x, k, {"insert", "update"}) /\ x.gate # None)
  IN IF i = 0 \/ ops[i].op = "delete" THEN None ELSE ops[i].gate

ReplayDeleted(ops) ==
  {k \in Keys : LET i == LastOf(ops, LAMBDA x : On(x, k, {"insert", "delete"}))
                IN i # 0 /\ ops[i].op = "delete"}

ReplayVec(ops, k) ==
  LET i == LastOf(ops, LAMBDA x : On(x, k, {"insert", "update"}) /\ x.vec # None)
  IN IF i = 0 THEN None ELSE ops[i].vec

ReplayKnn(ops, l) ==
  {e \in KnnEntries :
     LET i == LastOf(ops, LAMBDA x : \/ x.op = "insert_knn" /\ x.layer = l /\ x.entry = e
                                     \/ x.op = "delete_knn" /\ x.entity = e.entity)
     IN i # 0 /\ ops[i].op = "insert_knn"}

ReplaysMaps(ops) ==
  /\ \A k \in Keys : meta[k] = ReplayMeta(ops, k)
  /\ deleted = ReplayDeleted(ops)
  /\ \A l \in Layers : knn[l] = ReplayKnn(ops, l)

ReplaysGates(ops) == \A k \in Keys : gate[k] = ReplayGate(ops, k)

ReplaysVectors(ops) == \A k \in Keys : vec[k] = ReplayVec(ops, k)

\* As long as nothing was edited directly, the maps and the store are what the
\* patches in force say, each key decided by the last operation about it: applying
\* in any order and removing from anywhere in the list leaves nothing else behind
\* (apply_patch, remove_patch, rebuild_overrides).
OverlayIsReplay ==
  Resolved /\ edits = 0 =>
    ReplaysMaps(FlattenSeq(patches)) /\ ReplaysGates(FlattenSeq(patches))
=============================================================================

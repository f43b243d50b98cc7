------------------------------ MODULE LqlProofs ------------------------------
(***************************************************************************)
(* The retrieval store, the overlay and the session over it, for any base, *)
(* any patches and statements, any number of readers, and any order of     *)
(* patches, removals and direct edits:                                     *)
(*   a query of the store answers from its present entries;                *)
(*   a query of the overlay reads no gate matrix of other overrides, and   *)
(*   finds the best of what the overlay shows;                             *)
(*   without direct edits the overlay is the replay of its patches;        *)
(*   under a session's statements the overlay keeps its invariant, a       *)
(*   recording that goes on keeps what it has, and the operations recorded *)
(*   replay to the overlay as long as everything that changed it was       *)
(*   recorded.                                                             *)
(***************************************************************************)
EXTENDS LqlSession, SequenceTheorems, FiniteSetTheorems, TLAPS

-----------------------------------------------------------------------------
(* The retrieval store.  Between the two mutexes of rebuild_layer the matrix is new *)
(* and the layer still marked, and another reader may be anywhere: what is          *)
(* inductive is what each reader knows at its position.                             *)

\* A query in progress is about a layer with entries; once past the rebuild, the matrix
\* of the layer is the one of its entries.
Position(r) ==
  LET q == reader[r]
  IN /\ q.pc # "idle" => q.layer \in Layers /\ knn[q.layer] # {}
     /\ q.pc \in {"clean", "look"} => matrix[q.layer] = knn[q.layer]
     /\ q.pc = "answered" => q.rows = knn[q.layer]

KnnInv == KnnTypeOK /\ MatrixInStep /\ \A r \in Readers : Position(r)

\* The record of a reader that moves to another position.
LEMMA ReaderStep ==
  ASSUME KnnTypeOK, NEW r \in Readers, NEW q,
         q \in Query,
         reader' = [reader EXCEPT ![r] = q]
  PROVE  /\ reader' \in [Readers -> Query]
         /\ reader'[r] = q
         /\ \A s \in Readers \ {r} : reader'[s] = reader[s]
BY DEF KnnTypeOK

\* The store starts empty.
LEMMA KnnInvInit == KnnInit => KnnInv
<1> SUFFICES ASSUME KnnInit PROVE KnnInv
  OBVIOUS
<1>1. KnnTypeOK
  BY DEF KnnInit, KnnTypeOK, Query, Idle
<1>2. MatrixInStep
  BY DEF KnnInit, MatrixInStep
<1>3. ASSUME NEW r \in Readers PROVE Position(r)
  BY DEF KnnInit, Position, Idle
<1> QED
  BY <1>1, <1>2, <1>3 DEF KnnInv

-----------------------------------------------------------------------------
(* Mutators exclude readers, so only the marks matter *)

\* While a mutator runs no query is in progress.
LEMMA IdlePosition ==
  ASSUME Exclusive, reader' = reader
  PROVE  \A r \in Readers : Position(r)'
BY DEF Exclusive, Position

\* add marks the layer, so its old matrix is not relied on.
LEMMA AddKeeps == ASSUME KnnInv, NEW l \in Layers, NEW e \in KnnEntries, Add(l, e) PROVE KnnInv'
<1>1. KnnTypeOK'
  BY DEF KnnInv, KnnTypeOK, Add
<1>2. MatrixInStep'
  BY DEF KnnInv, KnnTypeOK, MatrixInStep, Add
<1>3. \A r \in Readers : Position(r)'
  BY IdlePosition DEF Add
<1> QED
  BY <1>1, <1>2, <1>3 DEF KnnInv

\* A removal marks the layers that lose an entry; the others keep theirs.
LEMMA RemoveKeeps == ASSUME KnnInv, NEW gone, RemoveMatching(gone) PROVE KnnInv'
<1>1. KnnTypeOK'
  BY DEF KnnInv, KnnTypeOK, RemoveMatching
<1>2. MatrixInStep'
  <2> SUFFICES ASSUME NEW l \in Layers, knn'[l] # {}, l \notin dirty' PROVE matrix'[l] = knn'[l]
    BY DEF MatrixInStep
  <2>1. knn'[l] = knn[l] \ gone /\ matrix'[l] = matrix[l] /\ l \notin dirty /\ knn[l] \cap gone = {}
    BY DEF RemoveMatching
  <2>2. knn'[l] = knn[l]
    BY <2>1
  <2> QED
    BY <2>1, <2>2 DEF KnnInv, MatrixInStep
<1>3. \A r \in Readers : Position(r)'
  BY IdlePosition DEF RemoveMatching
<1> QED
  BY <1>1, <1>2, <1>3 DEF KnnInv

\* An empty store has no layer to be in step.
LEMMA ResetKeeps == ASSUME KnnInv, KnnReset PROVE KnnInv'
<1>1. KnnTypeOK'
  BY DEF KnnInv, KnnTypeOK, KnnReset
<1>2. MatrixInStep'
  BY DEF MatrixInStep, KnnReset
<1>3. \A r \in Readers : Position(r)'
  BY IdlePosition DEF KnnReset
<1> QED
  BY <1>1, <1>2, <1>3 DEF KnnInv

-----------------------------------------------------------------------------
(* query_knn *)

\* A query that starts on an unmarked layer finds its matrix in step.
LEMMA AskKeeps == ASSUME KnnInv, NEW r \in Readers, NEW l \in Layers, Ask(r, l) PROVE KnnInv'
<1> DEFINE q == [pc |-> IF l \in dirty THEN "build" ELSE "look", layer |-> l, rows |-> None]
<1>1. UNCHANGED <<knn, matrix, dirty>> /\ knn[l] # {} /\ reader' = [reader EXCEPT ![r] = q]
  BY DEF Ask
<1>0. q \in Query /\ q.pc \in {"build", "look"} /\ (q.pc = "look" => l \notin dirty) /\ q.layer = l
  BY DEF Query
<1>2. /\ reader' \in [Readers -> Query]
      /\ reader'[r] = q
      /\ \A s \in Readers \ {r} : reader'[s] = reader[s]
  BY <1>0, <1>1, ReaderStep DEF KnnInv
<1>3. Position(r)'
  BY <1>0, <1>1, <1>2 DEF KnnInv, MatrixInStep, Position
<1>4. \A s \in Readers \ {r} : Position(s)'
  BY <1>1, <1>2 DEF KnnInv, Position
<1> QED
  BY <1>1, <1>2, <1>3, <1>4 DEF KnnInv, KnnTypeOK, MatrixInStep

\* A rebuild of a layer that another reader is past leaves it as it is.
LEMMA RebuildKeeps == ASSUME KnnInv, NEW r \in Readers, Rebuild(r) PROVE KnnInv'
<1> DEFINE l == reader[r].layer
           q == [reader[r] EXCEPT !.pc = "clean"]
<1>1. /\ l \in Layers /\ knn[l] # {}
      /\ matrix' = [matrix EXCEPT ![l] = knn[l]] /\ reader' = [reader EXCEPT ![r] = q]
      /\ UNCHANGED <<knn, dirty>>
  BY DEF Rebuild, KnnInv, Position
<1>2. reader[r] \in Query
  BY DEF KnnInv, KnnTypeOK
<1>3. q \in Query
      /\ q.pc = "clean" /\ q.layer = l
  BY <1>2 DEF Query
<1>4. /\ reader' \in [Readers -> Query]
      /\ reader'[r] = q
      /\ \A s \in Readers \ {r} : reader'[s] = reader[s]
  BY <1>1, <1>3, ReaderStep DEF KnnInv
<1>5. matrix' \in [Layers -> (SUBSET KnnEntries) \cup {None}] /\ matrix'[l] = knn[l]
      /\ \A k \in Layers \ {l} : matrix'[k] = matrix[k]
  BY <1>1 DEF KnnInv, KnnTypeOK
<1>6. KnnTypeOK'
  BY <1>1, <1>4, <1>5 DEF KnnInv, KnnTypeOK
<1>7. MatrixInStep'
  BY <1>1, <1>5 DEF KnnInv, MatrixInStep
<1>8. Position(r)'
  BY <1>1, <1>3, <1>4, <1>5 DEF Position
<1>9. ASSUME NEW s \in Readers \ {r} PROVE Position(s)'
  <2>1. Position(s) /\ reader'[s] = reader[s] /\ knn' = knn
    BY <1>1, <1>4 DEF KnnInv
  <2>2. CASE reader[s].pc \in {"clean", "look"}
    BY <2>1, <2>2, <1>5 DEF Position
  <2>3. CASE reader[s].pc \notin {"clean", "look"}
    BY <2>1, <2>3 DEF Position
  <2> QED
    BY <2>2, <2>3
<1> QED
  BY <1>6, <1>7, <1>8, <1>9 DEF KnnInv

\* The mark is removed when the matrix is the one of the entries.
LEMMA UnmarkKeeps == ASSUME KnnInv, NEW r \in Readers, Unmark(r) PROVE KnnInv'
<1> DEFINE l == reader[r].layer
           q == [reader[r] EXCEPT !.pc = "look"]
<1>1. /\ l \in Layers /\ knn[l] # {} /\ matrix[l] = knn[l]
      /\ dirty' = dirty \ {l} /\ reader' = [reader EXCEPT ![r] = q]
      /\ UNCHANGED <<knn, matrix>>
  BY DEF Unmark, KnnInv, Position
<1>2. reader[r] \in Query
  BY DEF KnnInv, KnnTypeOK
<1>3. q \in Query
      /\ q.pc = "look" /\ q.layer = l
  BY <1>2 DEF Query
<1>4. /\ reader' \in [Readers -> Query]
      /\ reader'[r] = q
      /\ \A s \in Readers \ {r} : reader'[s] = reader[s]
  BY <1>1, <1>3, ReaderStep DEF KnnInv
<1>5. KnnTypeOK'
  BY <1>1, <1>4 DEF KnnInv, KnnTypeOK
<1>6. MatrixInStep'
  BY <1>1 DEF KnnInv, MatrixInStep
<1>7. Position(r)'
  BY <1>1, <1>3, <1>4 DEF Position
<1>8. \A s \in Readers \ {r} : Position(s)'
  BY <1>1, <1>4 DEF KnnInv, Position
<1> QED
  BY <1>5, <1>6, <1>7, <1>8 DEF KnnInv

\* The rows a query uses are the entries.
LEMMA LookUpKeeps == ASSUME KnnInv, NEW r \in Readers, LookUp(r) PROVE KnnInv'
<1> DEFINE l == reader[r].layer
           q == [reader[r] EXCEPT !.pc = "answered", !.rows = matrix[l]]
<1>1. /\ l \in Layers /\ knn[l] # {} /\ matrix[l] = knn[l] /\ reader' = [reader EXCEPT ![r] = q]
      /\ UNCHANGED <<knn, matrix, dirty>>
  BY DEF LookUp, KnnInv, Position
<1>2. reader[r] \in Query
      /\ matrix[l] \in (SUBSET KnnEntries) \cup {None}
  BY <1>1 DEF KnnInv, KnnTypeOK
<1>3. q \in Query
      /\ q.pc = "answered" /\ q.layer = l /\ q.rows = matrix[l]
  BY <1>2 DEF Query
<1>4. /\ reader' \in [Readers -> Query]
      /\ reader'[r] = q
      /\ \A s \in Readers \ {r} : reader'[s] = reader[s]
  BY <1>1, <1>3, ReaderStep DEF KnnInv
<1>5. Position(r)'
  BY <1>1, <1>3, <1>4 DEF Position
<1>6. \A s \in Readers \ {r} : Position(s)'
  BY <1>1, <1>4 DEF KnnInv, Position
<1> QED
  BY <1>1, <1>4, <1>5, <1>6 DEF KnnInv, KnnTypeOK, MatrixInStep

\* A query that returns leaves the store as it is.
LEMMA ReturnKeeps == ASSUME KnnInv, NEW r \in Readers, Return(r) PROVE KnnInv'
<1>1. UNCHANGED <<knn, matrix, dirty>> /\ reader' = [reader EXCEPT ![r] = Idle]
  BY DEF Return
<1>2. /\ reader' \in [Readers -> Query]
      /\ reader'[r] = Idle
      /\ \A s \in Readers \ {r} : reader'[s] = reader[s]
  BY <1>1, ReaderStep DEF KnnInv, Idle, Query
<1>3. Position(r)'
  BY <1>2 DEF Position, Idle
<1>4. \A s \in Readers \ {r} : Position(s)'
  BY <1>1, <1>2 DEF KnnInv, Position
<1> QED
  BY <1>1, <1>2, <1>3, <1>4 DEF KnnInv, KnnTypeOK, MatrixInStep

-----------------------------------------------------------------------------
(* Theorems *)

\* Every step keeps the invariant.
LEMMA KnnInvNext == KnnInv /\ [KnnNext]_knnVars => KnnInv'
<1> SUFFICES ASSUME KnnInv, [KnnNext]_knnVars PROVE KnnInv'
  OBVIOUS
<1>1. CASE KnnRead
  BY <1>1, AskKeeps, RebuildKeeps, UnmarkKeeps, LookUpKeeps, ReturnKeeps DEF KnnRead
<1>2. CASE KnnWrite
  BY <1>2, AddKeeps, RemoveKeeps, ResetKeeps DEF KnnWrite
<1>3. CASE UNCHANGED knnVars
  <2>1. \A r \in Readers : Position(r)'
    BY <1>3 DEF KnnInv, Position, knnVars
  <2> QED
    BY <1>3, <2>1 DEF KnnInv, KnnTypeOK, MatrixInStep, knnVars
<1> QED
  BY <1>1, <1>2, <1>3 DEF KnnNext

\* A layer that is not marked has the key matrix of its present entries, for any number
\* of concurrent queries (KnnStore::query_knn, rebuild_layer).
THEOREM MatrixAlwaysInStep == KnnSpec => []MatrixInStep
<1>1. KnnInv => MatrixInStep
  BY DEF KnnInv
<1> QED
  BY <1>1, KnnInvInit, KnnInvNext, PTL DEF KnnSpec

\* Every query that ends indexed the entries with the rows of those very entries.
THEOREM AnswersIndexEntries == KnnSpec => []AnswerIndexesEntries
<1>1. KnnInv => AnswerIndexesEntries
  BY DEF KnnInv, Position, AnswerIndexesEntries
<1> QED
  BY <1>1, KnnInvInit, KnnInvNext, PTL DEF KnnSpec

-----------------------------------------------------------------------------
(* The overlay.  apply_patch changes overrides_gate first and drops the matrices of *)
(* the layers it touched at its end, so what is inductive is that the matrices of   *)
(* the other layers are right all along.                                            *)

\* Outside the layers that the patch being resolved has touched, a cached matrix is right.
CacheInv == \A l \in Layers \ touched : cache[l] # None => cache[l] = Snapshot(l)

IInv ==
  /\ TypeOK
  /\ CacheInv
  /\ cache = [l \in Layers |-> cache[l]]
  /\ Resolved => touched = {}

-----------------------------------------------------------------------------
(* Gate matrices *)

\* A matrix depends on the overrides of its own layer only.
LEMMA SnapshotLocal ==
  ASSUME NEW l, \A f \in Features : gate'[<<l, f>>] = gate[<<l, f>>]
  PROVE  Snapshot(l)' = Snapshot(l)
<1>1. Overridden(l)' = Overridden(l)
  BY DEF Overridden
<1>2. \A f \in Overridden(l) : gate'[<<l, f>>] = gate[<<l, f>>]
  BY DEF Overridden
<1> QED
  BY <1>1, <1>2 DEF Snapshot

\* Changing the override of one slot leaves the matrices of other layers as they are.
LEMMA OtherLayers ==
  ASSUME TypeOK, NEW k \in Keys, NEW g, gate' = [gate EXCEPT ![k] = g], NEW l \in Layers, l # k[1]
  PROVE  Snapshot(l)' = Snapshot(l)
<1>1. ASSUME NEW f \in Features PROVE gate'[<<l, f>>] = gate[<<l, f>>]
  <2>1. <<l, f>> \in Keys /\ <<l, f>> # k
    BY DEF Keys
  <2> QED
    BY <2>1 DEF TypeOK
<1> QED
  BY <1>1, SnapshotLocal

\* An edit of one slot that drops the matrix of its layer.
LEMMA EditKeepsCache ==
  ASSUME IInv, NEW k \in Keys, NEW g, gate' = [gate EXCEPT ![k] = g], Invalidate({k[1]}), touched' = touched
  PROVE  CacheInv' /\ cache' = [l \in Layers |-> cache'[l]]
<1>1. cache' = [l \in Layers |-> IF l \in {k[1]} THEN None ELSE cache[l]]
  BY DEF Invalidate
<1>2. ASSUME NEW l \in Layers \ touched', cache'[l] # None PROVE cache'[l] = Snapshot(l)'
  <2>1. l # k[1] /\ cache'[l] = cache[l]
    BY <1>1, <1>2
  <2>2. Snapshot(l)' = Snapshot(l)
    BY <2>1, OtherLayers DEF IInv
  <2> QED
    BY <1>2, <2>1, <2>2 DEF IInv, CacheInv
<1> QED
  BY <1>1, <1>2 DEF CacheInv

\* A step that leaves the overrides and the matrices alone.
LEMMA SameKeepsCache ==
  ASSUME IInv, gate' = gate, cache' = cache, touched \subseteq touched'
  PROVE  CacheInv' /\ cache' = [l \in Layers |-> cache'[l]]
<1>1. ASSUME NEW l \in Layers \ touched', cache'[l] # None PROVE cache'[l] = Snapshot(l)'
  <2>1. Snapshot(l)' = Snapshot(l)
    BY SnapshotLocal
  <2> QED
    BY <1>1, <2>1 DEF IInv, CacheInv
<1> QED
  BY <1>1 DEF IInv, CacheInv

\* An operation of a patch: the layer is touched, or the slot keeps its override.
LEMMA ResolveKeepsCache ==
  ASSUME IInv, NEW k \in Keys, NEW g, gate' = [gate EXCEPT ![k] = g], cache' = cache,
         \/ touched' = touched \cup {k[1]}
         \/ touched' = touched /\ g = gate[k]
  PROVE  CacheInv' /\ cache' = [l \in Layers |-> cache'[l]]
<1>1. CASE touched' = touched \cup {k[1]}
  <2>1. ASSUME NEW l \in Layers \ touched', cache'[l] # None PROVE cache'[l] = Snapshot(l)'
    <3>1. l # k[1] /\ l \notin touched
      BY <1>1, <2>1
    <3>2. Snapshot(l)' = Snapshot(l)
      BY <3>1, OtherLayers DEF IInv
    <3> QED
      BY <2>1, <3>1, <3>2 DEF IInv, CacheInv
  <2> QED
    BY <2>1 DEF IInv, CacheInv
<1>2. CASE touched' = touched /\ g = gate[k]
  <2>1. gate' = gate
    BY <1>2 DEF IInv, TypeOK
  <2> QED
    BY <1>2, <2>1, SameKeepsCache
<1> QED
  BY <1>1, <1>2

-----------------------------------------------------------------------------
(* Operations *)

\* The fields of an operation, by its kind.
LEMMA OpFields ==
  ASSUME NEW x \in Op
  PROVE  /\ x.op \in {"insert", "update"} => /\ x.key \in Keys
                                             /\ x.meta \in Metas \cup {None}
                                             /\ x.gate \in Gates \cup {None}
                                             /\ x.vec \in Vecs \cup {None}
         /\ x.op = "delete" => x.key \in Keys
BY DEF Op

\* The operation that apply_patch is at is one of the patch.
LEMMA CurrentIsOp ==
  ASSUME TypeOK, ~Resolved, pos <= Len(queue[1])
  PROVE  Current \in Op
<1>1. queue \in Seq(Seq(Op)) /\ queue # <<>> /\ pos \in Nat \ {0}
  BY DEF TypeOK, Resolved
<1>2. queue[1] \in Seq(Op)
  BY <1>1
<1> QED
  BY <1>1, <1>2 DEF Current

-----------------------------------------------------------------------------
(* Direct edits *)

\* What every direct edit leaves alone.
LEMMA EditingFrame ==
  ASSUME IInv, Editing
  PROVE  /\ patches' = patches /\ queue' = queue /\ pos' = pos /\ touched' = touched
         /\ edits' \in 0 .. MaxEdits
         /\ Resolved' = Resolved
BY BoundsAssumption DEF IInv, TypeOK, Editing, queueVars, Resolved

\* insert_feature drops the matrix of the layer.
LEMMA InsertFeatureKeeps ==
  ASSUME IInv, NEW k \in Keys, NEW g \in Gates, NEW m \in Metas, InsertFeature(k, g, m)
  PROVE  IInv'
<1>1. Editing /\ meta' = [meta EXCEPT ![k] = m] /\ gate' = [gate EXCEPT ![k] = g]
      /\ deleted' = deleted \ {k} /\ Invalidate({k[1]}) /\ vec' = vec
  BY DEF InsertFeature
<1>2. /\ patches' = patches /\ queue' = queue /\ pos' = pos /\ touched' = touched
      /\ edits' \in 0 .. MaxEdits /\ Resolved' = Resolved
  BY <1>1, EditingFrame
<1>3. CacheInv' /\ cache' = [l \in Layers |-> cache'[l]]
  BY <1>1, <1>2, EditKeepsCache
<1>4. TypeOK'
  BY <1>1, <1>2 DEF IInv, TypeOK
<1> QED
  BY <1>2, <1>3, <1>4 DEF IInv

\* delete_feature drops it too.
LEMMA DeleteFeatureKeeps == ASSUME IInv, NEW k \in Keys, DeleteFeature(k) PROVE IInv'
<1>1. Editing /\ meta' = [meta EXCEPT ![k] = None] /\ gate' = [gate EXCEPT ![k] = None]
      /\ deleted' = deleted \cup {k} /\ Invalidate({k[1]}) /\ vec' = vec
  BY DEF DeleteFeature
<1>2. /\ patches' = patches /\ queue' = queue /\ pos' = pos /\ touched' = touched
      /\ edits' \in 0 .. MaxEdits /\ Resolved' = Resolved
  BY <1>1, EditingFrame
<1>3. CacheInv' /\ cache' = [l \in Layers |-> cache'[l]]
  BY <1>1, <1>2, EditKeepsCache
<1>4. TypeOK'
  BY <1>1, <1>2 DEF IInv, TypeOK
<1> QED
  BY <1>2, <1>3, <1>4 DEF IInv

\* update_feature_meta reaches no gate.
LEMMA UpdateMetaKeeps ==
  ASSUME IInv, NEW k \in Keys, NEW m \in Metas, UpdateFeatureMeta(k, m) PROVE IInv'
<1>1. Editing /\ meta' = [meta EXCEPT ![k] = m]
      /\ gate' = gate /\ deleted' = deleted /\ vec' = vec /\ cache' = cache
  BY DEF UpdateFeatureMeta
<1>2. /\ patches' = patches /\ queue' = queue /\ pos' = pos /\ touched' = touched
      /\ edits' \in 0 .. MaxEdits /\ Resolved' = Resolved
  BY <1>1, EditingFrame
<1>3. CacheInv' /\ cache' = [l \in Layers |-> cache'[l]]
  BY <1>1, <1>2, SameKeepsCache
<1>4. TypeOK'
  BY <1>1, <1>2 DEF IInv, TypeOK
<1> QED
  BY <1>2, <1>3, <1>4 DEF IInv

\* Neither do the up and down vectors.
LEMMA SetVectorKeeps ==
  ASSUME IInv, NEW k \in Keys, NEW v \in Vecs, SetVector(k, v) PROVE IInv'
<1>1. Editing /\ vec' = [vec EXCEPT ![k] = v]
      /\ gate' = gate /\ deleted' = deleted /\ meta' = meta /\ cache' = cache
  BY DEF SetVector
<1>2. /\ patches' = patches /\ queue' = queue /\ pos' = pos /\ touched' = touched
      /\ edits' \in 0 .. MaxEdits /\ Resolved' = Resolved
  BY <1>1, EditingFrame
<1>3. CacheInv' /\ cache' = [l \in Layers |-> cache'[l]]
  BY <1>1, <1>2, SameKeepsCache
<1>4. TypeOK'
  BY <1>1, <1>2 DEF IInv, TypeOK
<1> QED
  BY <1>2, <1>3, <1>4 DEF IInv

\* set_gate_override drops the matrix of the layer.
LEMMA SetGateKeeps ==
  ASSUME IInv, NEW k \in Keys, NEW g \in Gates, SetGateOverride(k, g) PROVE IInv'
<1>1. Editing /\ gate' = [gate EXCEPT ![k] = g] /\ Invalidate({k[1]})
      /\ meta' = meta /\ deleted' = deleted /\ vec' = vec
  BY DEF SetGateOverride
<1>2. /\ patches' = patches /\ queue' = queue /\ pos' = pos /\ touched' = touched
      /\ edits' \in 0 .. MaxEdits /\ Resolved' = Resolved
  BY <1>1, EditingFrame
<1>3. CacheInv' /\ cache' = [l \in Layers |-> cache'[l]]
  BY <1>1, <1>2, EditKeepsCache
<1>4. TypeOK'
  BY <1>1, <1>2 DEF IInv, TypeOK
<1> QED
  BY <1>2, <1>3, <1>4 DEF IInv

\* The retrieval store is apart from the overrides.
LEMMA EditKnnKeeps == ASSUME IInv, EditKnn PROVE IInv'
<1>1. /\ patches' = patches /\ queue' = queue /\ pos' = pos /\ touched' = touched
      /\ meta' = meta /\ gate' = gate /\ deleted' = deleted /\ vec' = vec /\ cache' = cache
      /\ edits < MaxEdits /\ edits' = edits + 1
  BY DEF EditKnn, queueVars, maps
<1>2. CacheInv' /\ cache' = [l \in Layers |-> cache'[l]]
  BY <1>1, SameKeepsCache
<1>3. edits' \in 0 .. MaxEdits
  BY <1>1, BoundsAssumption DEF IInv, TypeOK
<1>4. TypeOK'
  BY <1>1, <1>3 DEF IInv, TypeOK, Resolved
<1> QED
  BY <1>1, <1>2, <1>4 DEF IInv, Resolved

\* Every direct edit keeps the invariant.
LEMMA EditKeeps == ASSUME IInv, Edit PROVE IInv'
<1>1. ASSUME NEW l \in Layers, NEW f \in Features, NEW g \in Gates, NEW m \in Metas, InsertFeature(<<l, f>>, g, m)
      PROVE  IInv'
  <2>1. <<l, f>> \in Keys
    BY DEF Keys
  <2> QED
    BY <1>1, <2>1, InsertFeatureKeeps
<1> QED
  BY <1>1, DeleteFeatureKeeps, UpdateMetaKeeps, SetVectorKeeps, SetGateKeeps, EditKnnKeeps DEF Edit

-----------------------------------------------------------------------------
(* Patches *)

\* A patch that is handed to apply_patch, and the list that rebuild_overrides works off.
LEMMA ApplyKeeps == ASSUME IInv, NEW p \in Seq(Op), ApplyPatch(p) PROVE IInv'
<1>1. /\ queue' = <<p>> /\ pos' = 1 /\ touched' = {} /\ patches' = patches /\ edits' = edits
      /\ meta' = meta /\ gate' = gate /\ deleted' = deleted /\ vec' = vec /\ cache' = cache
      /\ touched = {}
  BY DEF ApplyPatch, maps, IInv
<1>2. CacheInv' /\ cache' = [l \in Layers |-> cache'[l]]
  BY <1>1, SameKeepsCache
<1>3. queue' \in Seq(Seq(Op)) /\ queue'[1] = p /\ ~Resolved' /\ Len(p) \in Nat
  BY <1>1 DEF Resolved
<1>4. TypeOK'
  BY <1>1, <1>3 DEF IInv, TypeOK
<1> QED
  BY <1>2, <1>3, <1>4 DEF IInv

\* What every operation of a patch leaves alone.
LEMMA ResolvingFrame ==
  ASSUME IInv, Resolving
  PROVE  /\ patches' = patches /\ queue' = queue /\ cache' = cache /\ edits' = edits
         /\ ~Resolved /\ ~Resolved' /\ Current \in Op
         /\ pos' \in Nat \ {0} /\ pos' <= Len(queue[1]) + 1
<1>1. ~Resolved /\ pos <= Len(queue[1]) /\ pos' = pos + 1 /\ queue' = queue
  BY DEF Resolving
<1>2. queue \in Seq(Seq(Op)) /\ queue # <<>>
  BY <1>1 DEF IInv, TypeOK, Resolved
<1>3. Len(queue[1]) \in Nat
  BY <1>2
<1>4. Current \in Op
  BY <1>1, CurrentIsOp DEF IInv
<1> QED
  BY <1>1, <1>3, <1>4 DEF IInv, TypeOK, Resolving, Resolved

\* An operation brings a value of its kind or leaves the old one.
LEMMA GivenType ==
  ASSUME NEW S, NEW new \in S \cup {None}, NEW old \in S \cup {None}
  PROVE  Given(new, old) \in S \cup {None}
BY DEF Given

\* An insert without a gate leaves the override of the slot as it was.
LEMMA ResolveInsertKeeps == ASSUME IInv, ResolveInsert PROVE IInv'
<1> DEFINE k == Current.key
           g == Given(Current.gate, gate[k])
<1>1. Resolving /\ Current.op = "insert"
      /\ meta' = [meta EXCEPT ![k] = Current.meta] /\ deleted' = deleted \ {k}
      /\ gate' = [gate EXCEPT ![k] = g] /\ vec' = [vec EXCEPT ![k] = Given(Current.vec, vec[k])]
      /\ touched' = IF Current.gate # None THEN touched \cup {k[1]} ELSE touched
  BY DEF ResolveInsert
<1>2. /\ patches' = patches /\ queue' = queue /\ cache' = cache /\ edits' = edits
      /\ ~Resolved /\ ~Resolved' /\ Current \in Op
      /\ pos' \in Nat \ {0} /\ pos' <= Len(queue[1]) + 1
  BY <1>1, ResolvingFrame
<1>3. k \in Keys /\ Current.meta \in Metas \cup {None} /\ Current.gate \in Gates \cup {None}
      /\ Current.vec \in Vecs \cup {None}
  BY <1>1, <1>2, OpFields
<1>4. k[1] \in Layers /\ gate[k] \in Gates \cup {None} /\ vec[k] \in Vecs \cup {None}
  BY <1>3 DEF Keys, IInv, TypeOK
<1>5. g \in Gates \cup {None} /\ Given(Current.vec, vec[k]) \in Vecs \cup {None}
      /\ (Current.gate = None => g = gate[k])
  BY <1>3, <1>4, GivenType DEF Given
<1>6. CacheInv' /\ cache' = [l \in Layers |-> cache'[l]]
  BY <1>1, <1>2, <1>3, <1>5, ResolveKeepsCache
<1>7. touched' \subseteq Layers
  BY <1>1, <1>4 DEF IInv, TypeOK
<1>8. TypeOK'
  BY <1>1, <1>2, <1>3, <1>5, <1>7 DEF IInv, TypeOK
<1> QED
  BY <1>2, <1>6, <1>8 DEF IInv

\* So does an update.
LEMMA ResolveUpdateKeeps == ASSUME IInv, ResolveUpdate PROVE IInv'
<1> DEFINE k == Current.key
           g == Given(Current.gate, gate[k])
           m == Given(Current.meta, meta[k])
<1>1. Resolving /\ Current.op = "update" /\ deleted' = deleted
      /\ meta' = [meta EXCEPT ![k] = m]
      /\ gate' = [gate EXCEPT ![k] = g] /\ vec' = [vec EXCEPT ![k] = Given(Current.vec, vec[k])]
      /\ touched' = IF Current.gate # None THEN touched \cup {k[1]} ELSE touched
  BY DEF ResolveUpdate
<1>2. /\ patches' = patches /\ queue' = queue /\ cache' = cache /\ edits' = edits
      /\ ~Resolved /\ ~Resolved' /\ Current \in Op
      /\ pos' \in Nat \ {0} /\ pos' <= Len(queue[1]) + 1
  BY <1>1, ResolvingFrame
<1>3. k \in Keys /\ Current.meta \in Metas \cup {None} /\ Current.gate \in Gates \cup {None}
      /\ Current.vec \in Vecs \cup {None}
  BY <1>1, <1>2, OpFields
<1>4. k[1] \in Layers /\ gate[k] \in Gates \cup {None} /\ vec[k] \in Vecs \cup {None}
      /\ meta[k] \in Metas \cup {None, Absent}
  BY <1>3 DEF Keys, IInv, TypeOK
<1>5. g \in Gates \cup {None} /\ Given(Current.vec, vec[k]) \in Vecs \cup {None}
      /\ m \in Metas \cup {None, Absent} /\ (Current.gate = None => g = gate[k])
  BY <1>3, <1>4, GivenType DEF Given
<1>6. CacheInv' /\ cache' = [l \in Layers |-> cache'[l]]
  BY <1>1, <1>2, <1>3, <1>5, ResolveKeepsCache
<1>7. touched' \subseteq Layers
  BY <1>1, <1>4 DEF IInv, TypeOK
<1>8. TypeOK'
  BY <1>1, <1>2, <1>5, <1>7 DEF IInv, TypeOK
<1> QED
  BY <1>2, <1>6, <1>8 DEF IInv

\* A delete that finds no override does not touch the layer, and changes no matrix.
LEMMA ResolveDeleteKeeps == ASSUME IInv, ResolveDelete PROVE IInv'
<1> DEFINE k == Current.key
<1>1. Resolving /\ Current.op = "delete" /\ deleted' = deleted \cup {k} /\ vec' = vec
      /\ meta' = [meta EXCEPT ![k] = None] /\ gate' = [gate EXCEPT ![k] = None]
      /\ touched' = IF gate[k] # None THEN touched \cup {k[1]} ELSE touched
  BY DEF ResolveDelete
<1>2. /\ patches' = patches /\ queue' = queue /\ cache' = cache /\ edits' = edits
      /\ ~Resolved /\ ~Resolved' /\ Current \in Op
      /\ pos' \in Nat \ {0} /\ pos' <= Len(queue[1]) + 1
  BY <1>1, ResolvingFrame
<1>3. k \in Keys /\ k[1] \in Layers
  BY <1>1, <1>2, OpFields DEF Keys
<1>4. CacheInv' /\ cache' = [l \in Layers |-> cache'[l]]
  BY <1>1, <1>2, <1>3, ResolveKeepsCache
<1>5. touched' \subseteq Layers
  BY <1>1, <1>3 DEF IInv, TypeOK
<1>6. TypeOK'
  BY <1>1, <1>2, <1>3, <1>5 DEF IInv, TypeOK
<1> QED
  BY <1>2, <1>4, <1>6 DEF IInv

\* Operations on the retrieval store touch no layer.
LEMMA ResolveKnnKeeps == ASSUME IInv, ResolveKnn PROVE IInv'
<1>1. Resolving /\ touched' = touched /\ meta' = meta /\ gate' = gate /\ deleted' = deleted /\ vec' = vec
  BY DEF ResolveKnn, maps
<1>2. /\ patches' = patches /\ queue' = queue /\ cache' = cache /\ edits' = edits
      /\ ~Resolved /\ ~Resolved' /\ Current \in Op
      /\ pos' \in Nat \ {0} /\ pos' <= Len(queue[1]) + 1
  BY <1>1, ResolvingFrame
<1>3. CacheInv' /\ cache' = [l \in Layers |-> cache'[l]]
  BY <1>1, <1>2, SameKeepsCache
<1>4. TypeOK'
  BY <1>1, <1>2 DEF IInv, TypeOK
<1> QED
  BY <1>2, <1>3, <1>4 DEF IInv

\* At the end of apply_patch the touched layers lose their matrices, and nothing is
\* touched any more.
LEMMA EndPatchKeeps == ASSUME IInv, EndPatch PROVE IInv'
<1>1. /\ ~Resolved /\ patches' = Append(patches, queue[1]) /\ queue' = Tail(queue) /\ pos' = 1
      /\ touched' = {} /\ Invalidate(touched)
      /\ meta' = meta /\ gate' = gate /\ deleted' = deleted /\ vec' = vec /\ edits' = edits
  BY DEF EndPatch, maps
<1>2. cache' = [l \in Layers |-> IF l \in touched THEN None ELSE cache[l]]
  BY <1>1 DEF Invalidate
<1>3. ASSUME NEW l \in Layers, cache'[l] # None PROVE cache'[l] = Snapshot(l)'
  <2>1. l \notin touched /\ cache'[l] = cache[l]
    BY <1>2, <1>3
  <2>2. Snapshot(l)' = Snapshot(l)
    BY <1>1, SnapshotLocal
  <2> QED
    BY <1>3, <2>1, <2>2 DEF IInv, CacheInv
<1>4. queue \in Seq(Seq(Op)) /\ queue # <<>> /\ patches \in Seq(Seq(Op))
  BY <1>1 DEF IInv, TypeOK, Resolved
<1>5. queue[1] \in Seq(Op) /\ Tail(queue) \in Seq(Seq(Op))
  BY <1>4, HeadTailProperties
<1>6. ~Resolved' => Len(queue'[1]) \in Nat
  BY <1>1, <1>5 DEF Resolved
<1>7. patches' \in Seq(Seq(Op)) /\ queue' \in Seq(Seq(Op))
  BY <1>1, <1>4, <1>5
<1>8. TypeOK'
  BY <1>1, <1>6, <1>7 DEF IInv, TypeOK
<1> QED
  BY <1>1, <1>2, <1>3, <1>8 DEF IInv, CacheInv

\* rebuild_overrides begins without overrides and without matrices.
LEMMA RemoveKeepsOverlay == ASSUME IInv, NEW i, RemovePatch(i) PROVE IInv'
<1>1. /\ i \in 1 .. Len(patches) /\ queue' = RemoveAt(patches, i) /\ pos' = 1 /\ touched' = {}
      /\ patches' = <<>> /\ meta' = [k \in Keys |-> Absent] /\ gate' = [k \in Keys |-> None]
      /\ deleted' = {} /\ Invalidate(Layers) /\ vec' = vec /\ edits' = edits
  BY DEF RemovePatch
<1>2. cache' = [l \in Layers |-> None]
  BY <1>1 DEF Invalidate
<1>3. patches \in Seq(Seq(Op)) /\ Len(patches) \in Nat
  BY DEF IInv, TypeOK
<1>4. SubSeq(patches, 1, i - 1) \in Seq(Seq(Op)) /\ SubSeq(patches, i + 1, Len(patches)) \in Seq(Seq(Op))
  <2>1. \A j \in 1 .. (i - 1) : patches[j] \in Seq(Op)
    BY <1>1, <1>3
  <2>2. \A j \in (i + 1) .. Len(patches) : patches[j] \in Seq(Op)
    BY <1>1, <1>3
  <2>3. i - 1 \in Int /\ i + 1 \in Int /\ Len(patches) \in Int
    BY <1>1, <1>3
  <2> QED
    BY <2>1, <2>2, <2>3, SubSeqProperties
<1>5. queue' \in Seq(Seq(Op))
  BY <1>1, <1>4, ConcatProperties DEF RemoveAt
<1>6. ~Resolved' => Len(queue'[1]) \in Nat
  BY <1>5 DEF Resolved
<1>7. TypeOK'
  BY <1>1, <1>5, <1>6 DEF IInv, TypeOK
<1> QED
  BY <1>1, <1>2, <1>7 DEF IInv, CacheInv

-----------------------------------------------------------------------------
(* Queries *)

\* A query that finds no matrix stores the one of now.
LEMMA GateQueryKeeps == ASSUME IInv, NEW l \in Layers, GateQuery(l) PROVE IInv'
<1>1. /\ cache' = [cache EXCEPT ![l] = Snapshot(l)] /\ gate' = gate
      /\ patches' = patches /\ queue' = queue /\ pos' = pos /\ touched' = touched
      /\ meta' = meta /\ deleted' = deleted /\ vec' = vec /\ edits' = edits
  BY DEF GateQuery, queueVars, maps
<1>2. cache'[l] = Snapshot(l) /\ (\A j \in Layers \ {l} : cache'[j] = cache[j])
      /\ cache' = [j \in Layers |-> cache'[j]]
  BY <1>1 DEF IInv
<1>3. ASSUME NEW j \in Layers \ touched', cache'[j] # None PROVE cache'[j] = Snapshot(j)'
  <2>1. Snapshot(j)' = Snapshot(j)
    BY <1>1, SnapshotLocal
  <2>2. CASE j = l
    BY <1>2, <2>1, <2>2
  <2>3. CASE j # l
    BY <1>1, <1>2, <1>3, <2>1, <2>3 DEF IInv, CacheInv
  <2> QED
    BY <2>2, <2>3
<1>4. TypeOK'
  BY <1>1 DEF IInv, TypeOK, Resolved
<1> QED
  BY <1>1, <1>2, <1>3, <1>4 DEF IInv, CacheInv, Resolved

\* Steps of the store's readers, and stuttering.
LEMMA FrameKeeps == ASSUME IInv, UNCHANGED overlayVars PROVE IInv'
<1>1. /\ cache' = cache /\ gate' = gate
      /\ patches' = patches /\ queue' = queue /\ pos' = pos /\ touched' = touched
      /\ meta' = meta /\ deleted' = deleted /\ vec' = vec /\ edits' = edits
  BY DEF overlayVars
<1>2. CacheInv' /\ cache' = [l \in Layers |-> cache'[l]]
  BY <1>1, SameKeepsCache
<1>3. TypeOK'
  BY <1>1 DEF IInv, TypeOK, Resolved
<1> QED
  BY <1>1, <1>2, <1>3 DEF IInv, Resolved

-----------------------------------------------------------------------------
(* Theorems *)

\* An overlay starts without overrides.
LEMMA OverlayInit == Init => IInv
<1> SUFFICES ASSUME Init PROVE IInv
  OBVIOUS
<1>1. TypeOK
  BY BoundsAssumption DEF Init, TypeOK, Resolved
<1> QED
  BY <1>1 DEF Init, IInv, CacheInv, Resolved

\* Every step keeps the invariant.
LEMMA OverlayNext == IInv /\ [Next]_vars => IInv'
<1> SUFFICES ASSUME IInv, [Next]_vars PROVE IInv'
  OBVIOUS
<1>1. CASE Resolve
  BY <1>1, ResolveInsertKeeps, ResolveUpdateKeeps, ResolveDeleteKeeps, ResolveKnnKeeps, EndPatchKeeps
  DEF Resolve
<1>2. CASE Reading
  BY <1>2, FrameKeeps DEF Reading
<1>3. CASE UNCHANGED vars
  BY <1>3, FrameKeeps DEF vars
<1> QED
  BY <1>1, <1>2, <1>3, EditKeeps, ApplyKeeps, RemoveKeepsOverlay, GateQueryKeeps, PatchesAssumption DEF Next

\* The variables of an overlay keep their types, for any base and any patches.
THEOREM OverlayType == Spec => []TypeOK
<1>1. IInv => TypeOK
  BY DEF IInv
<1> QED
  BY <1>1, OverlayInit, OverlayNext, PTL DEF Spec

\* No query of an overlay at rest finds a gate matrix of other overrides than the
\* present ones (invalidate_gate_cache_layer), for any base and any patches.
THEOREM CacheAlwaysInStep == Spec => []CacheInStep
<1>1. IInv => CacheInStep
  BY DEF IInv, CacheInv, CacheInStep
<1> QED
  BY <1>1, OverlayInit, OverlayNext, PTL DEF Spec

-----------------------------------------------------------------------------
(* Sequences of operations: induction over their length, FlattenSeq, and what an *)
(* operation at the end changes in a replay                                      *)

\* A set that has 0 and with a number the next one has all of them.
LEMMA SetInduction ==
  ASSUME NEW A, 0 \in A, \A n \in A \cap Nat : n + 1 \in A
  PROVE  Nat \subseteq A
<1> DEFINE B == {1 .. n : n \in Nat \ A}
<1> SUFFICES ASSUME ~ (Nat \subseteq A) PROVE FALSE
  OBVIOUS
<1>1. B # {}
  OBVIOUS
<1>2. B \subseteq FiniteSubsetsOf(Nat)
  <2>1. \A n \in Nat : IsFiniteSet(1 .. n) /\ 1 .. n \in SUBSET Nat
    BY FS_Interval
  <2> QED
    BY <2>1 DEF FiniteSubsetsOf
<1>3. PICK S \in B : \A T \in B : ~ (<<T, S>> \in StrictSubsetOrdering(Nat))
  BY <1>1, <1>2, FS_StrictSubsetOrderingWellFounded, WFMin
<1>4. PICK n \in Nat \ A : S = 1 .. n
  BY <1>3
<1>5. n - 1 \in Nat /\ n - 1 \notin A
  <2> HIDE DEF B
  <2>1. n \in Nat /\ n # 0 /\ n \notin A
    BY <1>4
  <2>2. n - 1 \in Nat /\ (n - 1) + 1 = n
    BY <2>1
  <2> QED
    BY <2>1, <2>2
<1>6. <<1 .. (n - 1), 1 .. n>> \in StrictSubsetOrdering(Nat)
  <2>1. n \in 1 .. n /\ n \notin 1 .. (n - 1) /\ 1 .. (n - 1) \subseteq 1 .. n
    BY <1>4, <1>5
  <2> QED
    BY <2>1, <1>4, <1>5 DEF StrictSubsetOrdering
<1> QED
  BY <1>3, <1>4, <1>5, <1>6

\* The function that FlattenSeq is defined by, up to n.
Flattens(f, ps, n) == f = [i \in 1 .. n |-> IF i = 1 THEN ps[i] ELSE f[i - 1] \o ps[i]]

\* What the function is at each place.
LEMMA FlattensAt ==
  ASSUME NEW f, NEW ps, NEW n \in Nat, Flattens(f, ps, n)
  PROVE  \A i \in 1 .. n : f[i] = IF i = 1 THEN ps[i] ELSE f[i - 1] \o ps[i]
BY DEF Flattens

\* It exists.
LEMMA FlattensExists ==
  ASSUME NEW ps, NEW m \in Nat
  PROVE  \E f : Flattens(f, ps, m)
<1> DEFINE A == {n \in Nat : \E f : Flattens(f, ps, n)}
<1>1. 0 \in A
  <2>1. PICK f : f = [i \in 1 .. 0 |-> 0]
    OBVIOUS
  <2>2. Flattens(f, ps, 0)
    BY <2>1 DEF Flattens
  <2> QED
    BY <2>2
<1>2. ASSUME NEW n \in A \cap Nat PROVE n + 1 \in A
  <2>1. PICK f : Flattens(f, ps, n)
    BY <1>2
  <2> HIDE DEF A
  <2>2. PICK g : g = [i \in 1 .. (n + 1) |-> IF i <= n THEN f[i] ELSE IF i = 1 THEN ps[i] ELSE f[n] \o ps[i]]
    OBVIOUS
  <2>3. \A i \in 1 .. (n + 1) : g[i] = IF i = 1 THEN ps[i] ELSE g[i - 1] \o ps[i]
    <3> SUFFICES ASSUME NEW i \in 1 .. (n + 1) PROVE g[i] = IF i = 1 THEN ps[i] ELSE g[i - 1] \o ps[i]
      OBVIOUS
    <3>1. i # 1 => i - 1 \in 1 .. n /\ g[i - 1] = f[i - 1]
      BY <2>2
    <3>2. CASE i <= n
      BY <3>1, <3>2, <2>1, <2>2, FlattensAt
    <3>3. CASE i = n + 1
      BY <3>1, <3>3, <2>2
    <3> QED
      BY <3>2, <3>3
  <2>4. Flattens(g, ps, n + 1)
    BY <2>2, <2>3 DEF Flattens
  <2> QED
    BY <2>4 DEF A
<1> HIDE DEF A
<1>3. m \in A
  BY <1>1, <1>2, SetInduction
<1> QED
  BY <1>3 DEF A

\* FlattenSeq is its last value.
LEMMA FlattenIsLast ==
  ASSUME NEW ps, Len(ps) \in Nat \ {0}
  PROVE  \E f : Flattens(f, ps, Len(ps)) /\ FlattenSeq(ps) = f[Len(ps)]
<1>1. \E f : f = [i \in 1 .. Len(ps) |-> IF i = 1 THEN ps[i] ELSE f[i - 1] \o ps[i]]
  BY FlattensExists DEF Flattens
<1> QED
  BY <1>1 DEF FlattenSeq, Flattens

\* The values are sequences, and depend only on the sequences before.
LEMMA FlattensSame ==
  ASSUME NEW S, NEW n \in Nat, NEW f, NEW g, NEW m \in Nat, n <= m,
         NEW ps, NEW qs,
         \A i \in 1 .. n : ps[i] = qs[i] /\ ps[i] \in Seq(S),
         Flattens(f, ps, n), Flattens(g, qs, m)
  PROVE  \A i \in 1 .. n : f[i] = g[i] /\ f[i] \in Seq(S)
<1> DEFINE A == {k \in Nat : k \in 1 .. n => f[k] = g[k] /\ f[k] \in Seq(S)}
<1>1. 0 \in A
  OBVIOUS
<1>2. ASSUME NEW k \in A \cap Nat PROVE k + 1 \in A
  <2> SUFFICES ASSUME k + 1 \in 1 .. n PROVE f[k + 1] = g[k + 1] /\ f[k + 1] \in Seq(S)
    OBVIOUS
  <2>1. k \in 1 .. n => f[k] = g[k] /\ f[k] \in Seq(S)
    BY <1>2
  <2> HIDE DEF A
  <2>2. k + 1 \in 1 .. m /\ (k + 1) - 1 = k /\ (k + 1 # 1 => k \in 1 .. n)
    <3>1. k \in Nat
      OBVIOUS
    <3> QED
      BY <3>1
  <2>3. f[k + 1] = IF k + 1 = 1 THEN ps[k + 1] ELSE f[k] \o ps[k + 1]
    BY <2>2, FlattensAt
  <2>4. g[k + 1] = IF k + 1 = 1 THEN qs[k + 1] ELSE g[k] \o qs[k + 1]
    BY <2>2, FlattensAt
  <2>5. CASE k + 1 = 1
    BY <2>3, <2>4, <2>5
  <2>6. CASE k + 1 # 1
    <3>1. f[k + 1] = f[k] \o ps[k + 1] /\ g[k + 1] = g[k] \o qs[k + 1]
      BY <2>3, <2>4, <2>6
    <3>2. f[k] = g[k] /\ f[k] \in Seq(S) /\ ps[k + 1] = qs[k + 1] /\ ps[k + 1] \in Seq(S)
      BY <2>1, <2>2, <2>6
    <3>3. f[k] \o ps[k + 1] \in Seq(S)
      BY <3>2, ConcatProperties
    <3> QED
      BY <3>1, <3>2, <3>3
  <2> QED
    BY <2>5, <2>6
<1> HIDE DEF A
<1>3. Nat \subseteq A
  BY <1>1, <1>2, SetInduction
<1> QED
  BY <1>3 DEF A

\* A patch more: its operations come last.
LEMMA FlattenAppend ==
  ASSUME NEW S, NEW ps \in Seq(Seq(S)), NEW p \in Seq(S)
  PROVE  /\ FlattenSeq(Append(ps, p)) = FlattenSeq(ps) \o p
         /\ FlattenSeq(ps) \in Seq(S)
<1>1. PICK qs : qs = Append(ps, p)
  OBVIOUS
<1>2. PICK n : n = Len(ps)
  OBVIOUS
<1>3. n \in Nat /\ Len(qs) = n + 1 /\ qs[n + 1] = p /\ \A i \in 1 .. n : ps[i] = qs[i] /\ ps[i] \in Seq(S)
  BY <1>1, <1>2
<1>4. PICK g : Flattens(g, qs, n + 1) /\ FlattenSeq(qs) = g[n + 1]
  BY <1>3, FlattenIsLast
<1>5. g[n + 1] = IF n + 1 = 1 THEN qs[n + 1] ELSE g[(n + 1) - 1] \o qs[n + 1]
  BY <1>3, <1>4, FlattensAt
<1>6. CASE n = 0
  <2>1. ps = <<>> /\ FlattenSeq(ps) = <<>>
    BY <1>2, <1>6, EmptySeq DEF FlattenSeq
  <2>2. <<>> \o p = p /\ <<>> \in Seq(S)
    BY ConcatEmptySeq, EmptySeq
  <2>3. n + 1 = 1
    BY <1>6
  <2>4. FlattenSeq(qs) = p
    BY <1>3, <1>4, <1>5, <2>3
  <2> QED
    BY <1>1, <2>1, <2>2, <2>4
<1>7. CASE n # 0
  <2>1. PICK f : Flattens(f, ps, n) /\ FlattenSeq(ps) = f[n]
    BY <1>2, <1>3, <1>7, FlattenIsLast
  <2>2. f[n] = g[n] /\ f[n] \in Seq(S)
    <3>1. PICK m \in Nat : m = n + 1
      BY <1>3
    <3>2. n \in 1 .. n /\ n \in Nat /\ n <= m
      BY <1>3, <1>7, <3>1
    <3>3. Flattens(g, qs, m)
      BY <1>4, <3>1
    <3>4. \A i \in 1 .. n : f[i] = g[i] /\ f[i] \in Seq(S)
      BY <1>3, <2>1, <3>2, <3>3, FlattensSame
    <3> QED
      BY <3>2, <3>4
  <2>3. (n + 1) - 1 = n /\ n + 1 # 1
    BY <1>3, <1>7
  <2> QED
    BY <1>1, <1>3, <1>4, <1>5, <2>1, <2>2, <2>3
<1> QED
  BY <1>6, <1>7

\* The greatest of some places, 0 if there is none.
Latest(at) == IF at = {} THEN 0 ELSE CHOOSE i \in at : \A j \in at : j <= i

\* Among the first n places there is a greatest.
LEMMA LatestIsIn ==
  ASSUME NEW n \in Nat, NEW at \in SUBSET (1 .. n), at # {}
  PROVE  Latest(at) \in at
<1> DEFINE A == {m \in Nat : \A S \in SUBSET (1 .. m) : S # {} => \E i \in S : \A j \in S : j <= i}
<1>1. 0 \in A
  <2>1. 1 .. 0 = {}
    OBVIOUS
  <2> QED
    BY <2>1
<1>2. ASSUME NEW m \in A \cap Nat PROVE m + 1 \in A
  <2> SUFFICES ASSUME NEW S \in SUBSET (1 .. (m + 1)), S # {} PROVE \E i \in S : \A j \in S : j <= i
    OBVIOUS
  <2>1. \A T \in SUBSET (1 .. m) : T # {} => \E i \in T : \A j \in T : j <= i
    BY <1>2
  <2> HIDE DEF A
  <2>2. CASE m + 1 \in S
    <3>1. \A j \in S : j <= m + 1
      OBVIOUS
    <3> QED
      BY <2>2, <3>1
  <2>3. CASE m + 1 \notin S
    <3>1. S \in SUBSET (1 .. m)
      <4>1. \A j \in S : j \in 1 .. (m + 1) /\ j # m + 1
        BY <2>3
      <4>2. m \in Nat
        OBVIOUS
      <4>3. \A j \in S : j \in 1 .. m
        BY <4>1, <4>2
      <4> QED
        BY <4>3
    <3> QED
      BY <2>1, <3>1
  <2> QED
    BY <2>2, <2>3
<1> HIDE DEF A
<1>3. n \in A
  BY <1>1, <1>2, SetInduction
<1>4. \E i \in at : \A j \in at : j <= i
  BY <1>3 DEF A
<1> QED
  BY <1>4 DEF Latest

\* A place behind all of them is the greatest.
LEMMA LatestIsLast ==
  ASSUME NEW n \in Nat, NEW at \in SUBSET (1 .. n)
  PROVE  Latest(at \cup {n + 1}) = n + 1
<1>1. \A j \in at \cup {n + 1} : j \in Nat /\ j <= n + 1
  OBVIOUS
<1>2. \A i \in at \cup {n + 1} : (\A j \in at \cup {n + 1} : j <= i) => i = n + 1
  <2> SUFFICES ASSUME NEW i \in at \cup {n + 1}, \A j \in at \cup {n + 1} : j <= i PROVE i = n + 1
    OBVIOUS
  <2>1. n + 1 <= i /\ i <= n + 1 /\ i \in Nat
    BY <1>1
  <2> QED
    BY <2>1
<1> QED
  BY <1>1, <1>2 DEF Latest

\* The place of one more operation is the greatest if it counts.
LEMMA LatestNew ==
  ASSUME NEW n \in Nat, NEW at \in SUBSET (1 .. n), NEW new, new = at \cup {n + 1}
  PROVE  Latest(new) # 0 /\ Latest(new) = n + 1
BY LatestIsLast

\* If not, the greatest is one of the places before.
LEMMA LatestOld ==
  ASSUME NEW n \in Nat, NEW at \in SUBSET (1 .. n)
  PROVE  Latest(at) # 0 => Latest(at) \in 1 .. n
<1>1. CASE at = {}
  BY <1>1 DEF Latest
<1>2. CASE at # {}
  BY <1>2, LatestIsIn
<1> QED
  BY <1>1, <1>2

\* The operations that have a say in the metadata, the override, the deletion and the
\* vectors of a slot, and in a fact.
SetsMeta(x, k) == On(x, k, {"insert", "delete"}) \/ (On(x, k, {"update"}) /\ x.meta # None)
SetsGate(x, k) == On(x, k, {"delete"}) \/ (On(x, k, {"insert", "update"}) /\ x.gate # None)
SetsDeleted(x, k) == On(x, k, {"insert", "delete"})
SetsVec(x, k) == On(x, k, {"insert", "update"}) /\ x.vec # None
SetsFact(x, l, e) ==
  \/ x.op = "insert_knn" /\ x.layer = l /\ x.entry = e
  \/ x.op = "delete_knn" /\ x.entity = e.entity

\* Where they are, after one more.
LEMMA PlacesAppend ==
  ASSUME NEW S, NEW ops \in Seq(S), NEW x \in S, NEW s, s = Append(ops, x)
  PROVE  \E n \in Nat : /\ DOMAIN ops = 1 .. n /\ DOMAIN s = 1 .. (n + 1)
                        /\ s[n + 1] = x /\ \A i \in 1 .. n : s[i] = ops[i]
<1>1. PICK n \in Nat : n = Len(ops)
  OBVIOUS
<1>2. /\ DOMAIN ops = 1 .. n /\ DOMAIN s = 1 .. (n + 1)
      /\ s[n + 1] = x /\ \A i \in 1 .. n : s[i] = ops[i]
  BY <1>1
<1> QED
  BY <1>2

\* The metadata of a slot, after one more operation.
LEMMA ReplayMetaAppend ==
  ASSUME NEW S, NEW ops \in Seq(S), NEW x \in S, NEW k
  PROVE  ReplayMeta(Append(ops, x), k) =
           IF SetsMeta(x, k) THEN IF x.op = "delete" THEN None ELSE x.meta ELSE ReplayMeta(ops, k)
<1>1. PICK s : s = Append(ops, x)
  OBVIOUS
<1>2. PICK at : at = {i \in DOMAIN ops : SetsMeta(ops[i], k)}
  OBVIOUS
<1>3. PICK new : new = {i \in DOMAIN s : SetsMeta(s[i], k)}
  OBVIOUS
<1>4. PICK t \in BOOLEAN : t = SetsMeta(x, k)
  BY DEF SetsMeta, On
<1>5. PICK n \in Nat : /\ DOMAIN ops = 1 .. n /\ DOMAIN s = 1 .. (n + 1)
                       /\ s[n + 1] = x /\ \A i \in 1 .. n : s[i] = ops[i]
  BY <1>1, PlacesAppend
<1>6. at \in SUBSET (1 .. n) /\ (t => new = at \cup {n + 1}) /\ (~t => new = at)
  BY <1>2, <1>3, <1>4, <1>5
<1>7. /\ t => Latest(new) # 0 /\ s[Latest(new)] = x
      /\ ~t => Latest(new) = Latest(at)
      /\ Latest(at) # 0 => s[Latest(at)] = ops[Latest(at)]
  BY <1>5, <1>6, LatestNew, LatestOld
<1>8. ReplayMeta(ops, k) = IF Latest(at) = 0 THEN Absent
                           ELSE IF ops[Latest(at)].op = "delete" THEN None ELSE ops[Latest(at)].meta
  BY <1>2 DEF ReplayMeta, LastOf, Latest, SetsMeta
<1>9. ReplayMeta(s, k) = IF Latest(new) = 0 THEN Absent
                         ELSE IF s[Latest(new)].op = "delete" THEN None ELSE s[Latest(new)].meta
  BY <1>3 DEF ReplayMeta, LastOf, Latest, SetsMeta
<1> QED
  BY <1>1, <1>4, <1>7, <1>8, <1>9

\* Its override.
LEMMA ReplayGateAppend ==
  ASSUME NEW S, NEW ops \in Seq(S), NEW x \in S, NEW k
  PROVE  ReplayGate(Append(ops, x), k) =
           IF SetsGate(x, k) THEN IF x.op = "delete" THEN None ELSE x.gate ELSE ReplayGate(ops, k)
<1>1. PICK s : s = Append(ops, x)
  OBVIOUS
<1>2. PICK at : at = {i \in DOMAIN ops : SetsGate(ops[i], k)}
  OBVIOUS
<1>3. PICK new : new = {i \in DOMAIN s : SetsGate(s[i], k)}
  OBVIOUS
<1>4. PICK t \in BOOLEAN : t = SetsGate(x, k)
  BY DEF SetsGate, On
<1>5. PICK n \in Nat : /\ DOMAIN ops = 1 .. n /\ DOMAIN s = 1 .. (n + 1)
                       /\ s[n + 1] = x /\ \A i \in 1 .. n : s[i] = ops[i]
  BY <1>1, PlacesAppend
<1>6. at \in SUBSET (1 .. n) /\ (t => new = at \cup {n + 1}) /\ (~t => new = at)
  BY <1>2, <1>3, <1>4, <1>5
<1>7. /\ t => Latest(new) # 0 /\ s[Latest(new)] = x
      /\ ~t => Latest(new) = Latest(at)
      /\ Latest(at) # 0 => s[Latest(at)] = ops[Latest(at)]
  BY <1>5, <1>6, LatestNew, LatestOld
<1>8. ReplayGate(ops, k) =
        IF Latest(at) = 0 \/ ops[Latest(at)].op = "delete" THEN None ELSE ops[Latest(at)].gate
  BY <1>2 DEF ReplayGate, LastOf, Latest, SetsGate
<1>9. ReplayGate(s, k) =
        IF Latest(new) = 0 \/ s[Latest(new)].op = "delete" THEN None ELSE s[Latest(new)].gate
  BY <1>3 DEF ReplayGate, LastOf, Latest, SetsGate
<1> QED
  BY <1>1, <1>4, <1>7, <1>8, <1>9

\* Its vectors.
LEMMA ReplayVecAppend ==
  ASSUME NEW S, NEW ops \in Seq(S), NEW x \in S, NEW k
  PROVE  ReplayVec(Append(ops, x), k) = IF SetsVec(x, k) THEN x.vec ELSE ReplayVec(ops, k)
<1>1. PICK s : s = Append(ops, x)
  OBVIOUS
<1>2. PICK at : at = {i \in DOMAIN ops : SetsVec(ops[i], k)}
  OBVIOUS
<1>3. PICK new : new = {i \in DOMAIN s : SetsVec(s[i], k)}
  OBVIOUS
<1>4. PICK t \in BOOLEAN : t = SetsVec(x, k)
  BY DEF SetsVec, On
<1>5. PICK n \in Nat : /\ DOMAIN ops = 1 .. n /\ DOMAIN s = 1 .. (n + 1)
                       /\ s[n + 1] = x /\ \A i \in 1 .. n : s[i] = ops[i]
  BY <1>1, PlacesAppend
<1>6. at \in SUBSET (1 .. n) /\ (t => new = at \cup {n + 1}) /\ (~t => new = at)
  BY <1>2, <1>3, <1>4, <1>5
<1>7. /\ t => Latest(new) # 0 /\ s[Latest(new)] = x
      /\ ~t => Latest(new) = Latest(at)
      /\ Latest(at) # 0 => s[Latest(at)] = ops[Latest(at)]
  BY <1>5, <1>6, LatestNew, LatestOld
<1>8. ReplayVec(ops, k) = IF Latest(at) = 0 THEN None ELSE ops[Latest(at)].vec
  BY <1>2 DEF ReplayVec, LastOf, Latest, SetsVec
<1>9. ReplayVec(s, k) = IF Latest(new) = 0 THEN None ELSE s[Latest(new)].vec
  BY <1>3 DEF ReplayVec, LastOf, Latest, SetsVec
<1> QED
  BY <1>1, <1>4, <1>7, <1>8, <1>9

\* Whether it is deleted.
LEMMA ReplayDeletedAppend ==
  ASSUME NEW S, NEW ops \in Seq(S), NEW x \in S, NEW k
  PROVE  k \in ReplayDeleted(Append(ops, x)) <=>
           IF SetsDeleted(x, k) THEN k \in Keys /\ x.op = "delete" ELSE k \in ReplayDeleted(ops)
<1>1. PICK s : s = Append(ops, x)
  OBVIOUS
<1>2. PICK at : at = {i \in DOMAIN ops : SetsDeleted(ops[i], k)}
  OBVIOUS
<1>3. PICK new : new = {i \in DOMAIN s : SetsDeleted(s[i], k)}
  OBVIOUS
<1>4. PICK t \in BOOLEAN : t = SetsDeleted(x, k)
  BY DEF SetsDeleted, On
<1>5. PICK n \in Nat : /\ DOMAIN ops = 1 .. n /\ DOMAIN s = 1 .. (n + 1)
                       /\ s[n + 1] = x /\ \A i \in 1 .. n : s[i] = ops[i]
  BY <1>1, PlacesAppend
<1>6. at \in SUBSET (1 .. n) /\ (t => new = at \cup {n + 1}) /\ (~t => new = at)
  BY <1>2, <1>3, <1>4, <1>5
<1>7. /\ t => Latest(new) # 0 /\ s[Latest(new)] = x
      /\ ~t => Latest(new) = Latest(at)
      /\ Latest(at) # 0 => s[Latest(at)] = ops[Latest(at)]
  BY <1>5, <1>6, LatestNew, LatestOld
<1>8. k \in ReplayDeleted(ops) <=> k \in Keys /\ Latest(at) # 0 /\ ops[Latest(at)].op = "delete"
  BY <1>2 DEF ReplayDeleted, LastOf, Latest, SetsDeleted
<1>9. k \in ReplayDeleted(s) <=> k \in Keys /\ Latest(new) # 0 /\ s[Latest(new)].op = "delete"
  BY <1>3 DEF ReplayDeleted, LastOf, Latest, SetsDeleted
<1> QED
  BY <1>1, <1>4, <1>7, <1>8, <1>9

\* Whether a fact is in the store.
LEMMA ReplayKnnAppend ==
  ASSUME NEW S, NEW ops \in Seq(S), NEW x \in S, NEW l, NEW e
  PROVE  e \in ReplayKnn(Append(ops, x), l) <=>
           IF SetsFact(x, l, e) THEN e \in KnnEntries /\ x.op = "insert_knn" ELSE e \in ReplayKnn(ops, l)
<1>1. PICK s : s = Append(ops, x)
  OBVIOUS
<1>2. PICK at : at = {i \in DOMAIN ops : SetsFact(ops[i], l, e)}
  OBVIOUS
<1>3. PICK new : new = {i \in DOMAIN s : SetsFact(s[i], l, e)}
  OBVIOUS
<1>4. PICK t \in BOOLEAN : t = SetsFact(x, l, e)
  BY DEF SetsFact, On
<1>5. PICK n \in Nat : /\ DOMAIN ops = 1 .. n /\ DOMAIN s = 1 .. (n + 1)
                       /\ s[n + 1] = x /\ \A i \in 1 .. n : s[i] = ops[i]
  BY <1>1, PlacesAppend
<1>6. at \in SUBSET (1 .. n) /\ (t => new = at \cup {n + 1}) /\ (~t => new = at)
  BY <1>2, <1>3, <1>4, <1>5
<1>7. /\ t => Latest(new) # 0 /\ s[Latest(new)] = x
      /\ ~t => Latest(new) = Latest(at)
      /\ Latest(at) # 0 => s[Latest(at)] = ops[Latest(at)]
  BY <1>5, <1>6, LatestNew, LatestOld
<1>8. e \in ReplayKnn(ops, l) <=> e \in KnnEntries /\ Latest(at) # 0 /\ ops[Latest(at)].op = "insert_knn"
  BY <1>2 DEF ReplayKnn, LastOf, Latest, SetsFact
<1>9. e \in ReplayKnn(s, l) <=> e \in KnnEntries /\ Latest(new) # 0 /\ s[Latest(new)].op = "insert_knn"
  BY <1>3 DEF ReplayKnn, LastOf, Latest, SetsFact
<1> QED
  BY <1>1, <1>4, <1>7, <1>8, <1>9

-----------------------------------------------------------------------------
(* An overlay that is the replay of some operations, and one operation more *)

\* The maps and the store change as an operation says.
Performed(x) ==
  /\ \A k \in Keys :
       /\ meta'[k] = IF SetsMeta(x, k) THEN IF x.op = "delete" THEN None ELSE x.meta ELSE meta[k]
       /\ k \in deleted' <=> IF SetsDeleted(x, k) THEN x.op = "delete" ELSE k \in deleted
  /\ deleted' \subseteq Keys
  /\ \A l \in Layers :
       /\ knn'[l] \subseteq KnnEntries
       /\ \A e \in KnnEntries :
            e \in knn'[l] <=> IF SetsFact(x, l, e) THEN x.op = "insert_knn" ELSE e \in knn[l]

\* So do the overrides.
PerformedOnGates(x) ==
  \A k \in Keys :
    gate'[k] = IF SetsGate(x, k) THEN IF x.op = "delete" THEN None ELSE x.gate ELSE gate[k]

\* And the vectors.
PerformedOnVectors(x) == \A k \in Keys : vec'[k] = IF SetsVec(x, k) THEN x.vec ELSE vec[k]

LEMMA MapsReplayMore ==
  ASSUME NEW ops \in Seq(Op), NEW x \in Op, ReplaysMaps(ops), Performed(x),
         NEW s, s = Append(ops, x)
  PROVE  ReplaysMaps(s)'
<1>1. ASSUME NEW k \in Keys PROVE meta'[k] = ReplayMeta(s, k)
  <2>1. meta[k] = ReplayMeta(ops, k)
    BY DEF ReplaysMaps
  <2>2. meta'[k] = IF SetsMeta(x, k) THEN IF x.op = "delete" THEN None ELSE x.meta ELSE meta[k]
    BY DEF Performed
  <2> QED
    BY <2>1, <2>2, ReplayMetaAppend
<1>2. deleted' = ReplayDeleted(s)
  <2>1. deleted = ReplayDeleted(ops)
    BY DEF ReplaysMaps
  <2>2. \A k \in Keys : k \in deleted' <=> IF SetsDeleted(x, k) THEN x.op = "delete" ELSE k \in deleted
    BY DEF Performed
  <2>3. \A k \in Keys : k \in deleted' <=> k \in ReplayDeleted(s)
    BY <2>1, <2>2, ReplayDeletedAppend
  <2>4. deleted' \subseteq Keys /\ ReplayDeleted(s) \subseteq Keys
    BY DEF Performed, ReplayDeleted
  <2> QED
    BY <2>3, <2>4
<1>3. ASSUME NEW l \in Layers PROVE knn'[l] = ReplayKnn(s, l)
  <2>1. knn[l] = ReplayKnn(ops, l)
    BY DEF ReplaysMaps
  <2>2. \A e \in KnnEntries :
          e \in knn'[l] <=> IF SetsFact(x, l, e) THEN x.op = "insert_knn" ELSE e \in knn[l]
    BY DEF Performed
  <2>3. \A e \in KnnEntries : e \in knn'[l] <=> e \in ReplayKnn(s, l)
    BY <2>1, <2>2, ReplayKnnAppend
  <2>4. knn'[l] \subseteq KnnEntries /\ ReplayKnn(s, l) \subseteq KnnEntries
    BY DEF Performed, ReplayKnn
  <2> QED
    BY <2>3, <2>4
<1> QED
  BY <1>1, <1>2, <1>3 DEF ReplaysMaps

LEMMA GatesReplayMore ==
  ASSUME NEW ops \in Seq(Op), NEW x \in Op, ReplaysGates(ops), PerformedOnGates(x),
         NEW s, s = Append(ops, x)
  PROVE  ReplaysGates(s)'
<1>1. ASSUME NEW k \in Keys PROVE gate'[k] = ReplayGate(s, k)
  <2>1. gate[k] = ReplayGate(ops, k)
    BY DEF ReplaysGates
  <2>2. gate'[k] = IF SetsGate(x, k) THEN IF x.op = "delete" THEN None ELSE x.gate ELSE gate[k]
    BY DEF PerformedOnGates
  <2> QED
    BY <2>1, <2>2, ReplayGateAppend
<1> QED
  BY <1>1 DEF ReplaysGates

LEMMA VectorsReplayMore ==
  ASSUME NEW ops \in Seq(Op), NEW x \in Op, ReplaysVectors(ops), PerformedOnVectors(x),
         NEW s, s = Append(ops, x)
  PROVE  ReplaysVectors(s)'
<1>1. ASSUME NEW k \in Keys PROVE vec'[k] = ReplayVec(s, k)
  <2>1. vec[k] = ReplayVec(ops, k)
    BY DEF ReplaysVectors
  <2>2. vec'[k] = IF SetsVec(x, k) THEN x.vec ELSE vec[k]
    BY DEF PerformedOnVectors
  <2> QED
    BY <2>1, <2>2, ReplayVecAppend
<1> QED
  BY <1>1 DEF ReplaysVectors

\* A step that leaves the maps and the store alone.
LEMMA MapsReplaySame ==
  ASSUME NEW ops, ReplaysMaps(ops), meta' = meta, deleted' = deleted, knn' = knn
  PROVE  ReplaysMaps(ops)'
BY DEF ReplaysMaps

\* A fresh overlay is the replay of nothing.
LEMMA ReplayOfNothing ==
  /\ \A k : ReplayMeta(<<>>, k) = Absent /\ ReplayGate(<<>>, k) = None /\ ReplayVec(<<>>, k) = None
  /\ ReplayDeleted(<<>>) = {}
  /\ \A l : ReplayKnn(<<>>, l) = {}
<1>1. \A k : ReplayMeta(<<>>, k) = Absent
  BY DEF ReplayMeta, LastOf
<1>2. \A k : ReplayGate(<<>>, k) = None
  BY DEF ReplayGate, LastOf
<1>3. \A k : ReplayVec(<<>>, k) = None
  BY DEF ReplayVec, LastOf
<1>4. ReplayDeleted(<<>>) = {}
  BY DEF ReplayDeleted, LastOf
<1>5. \A l : ReplayKnn(<<>>, l) = {}
  BY DEF ReplayKnn, LastOf
<1> QED
  BY <1>1, <1>2, <1>3, <1>4, <1>5

\* The operations in force: those of the patches in force, and those of the patch that
\* is being resolved, up to the next one.
InForce ==
  IF Resolved THEN FlattenSeq(patches) ELSE FlattenSeq(patches) \o SubSeq(queue[1], 1, pos - 1)

ReplayInv == edits = 0 => ReplaysMaps(InForce) /\ ReplaysGates(InForce)

\* An operation at the end of a concatenation.
LEMMA ConcatAppend ==
  ASSUME NEW S, NEW s \in Seq(S), NEW t \in Seq(S), NEW x \in S
  PROVE  s \o Append(t, x) = Append(s \o t, x)
<1>1. Append(t, x) = t \o <<x>> /\ <<x>> \in Seq(S)
  BY AppendIsConcat
<1>2. s \o t \in Seq(S)
  BY ConcatProperties
<1>3. Append(s \o t, x) = (s \o t) \o <<x>>
  BY <1>2, AppendIsConcat
<1> QED
  BY <1>1, <1>3, ConcatAssociative

\* The first of some patches, up to n of its operations.
LEMMA PrefixAppend ==
  ASSUME NEW S, NEW q \in Seq(S), NEW n \in 1 .. Len(q)
  PROVE  /\ SubSeq(q, 1, n - 1) \in Seq(S) /\ q[n] \in S
         /\ SubSeq(q, 1, n) = Append(SubSeq(q, 1, n - 1), q[n])
<1>1. Len(q) \in Nat /\ 1 \in 1 .. Len(q) /\ n - 1 \in Int
  BY LenProperties
<1>2. \A i \in 1 .. (n - 1) : q[i] \in S
  BY <1>1, ElementOfSeq
<1>3. SubSeq(q, 1, n - 1) \in Seq(S)
  BY <1>1, <1>2, SubSeqProperties
<1>4. SubSeq(q, 1, n) = SubSeq(q, 1, n - 1) \o <<q[n]>>
  BY <1>1, SubSeqRecursiveSecond
<1>5. q[n] \in S
  BY ElementOfSeq
<1> QED
  BY <1>3, <1>4, <1>5, AppendIsConcat

\* The types of what is in force.
LEMMA InForceType ==
  ASSUME IInv
  PROVE  /\ FlattenSeq(patches) \in Seq(Op)
         /\ ~Resolved => queue[1] \in Seq(Op) /\ Tail(queue) \in Seq(Seq(Op))
<1>1. FlattenSeq(patches) \in Seq(Op)
  <2>1. patches \in Seq(Seq(Op)) /\ <<>> \in Seq(Op)
    BY EmptySeq DEF IInv, TypeOK
  <2> QED
    BY <2>1, FlattenAppend
<1>2. ~Resolved => queue[1] \in Seq(Op) /\ Tail(queue) \in Seq(Seq(Op))
  <2>1. queue \in Seq(Seq(Op)) /\ (~Resolved => queue # <<>>)
    BY DEF IInv, TypeOK, Resolved
  <2>2. ~Resolved => Head(queue) \in Seq(Op) /\ Tail(queue) \in Seq(Seq(Op)) /\ Head(queue) = queue[1]
    BY <2>1, HeadTailProperties
  <2> QED
    BY <2>2
<1> QED
  BY <1>1, <1>2

\* While a patch is resolved, the next operation comes into force.
LEMMA InForceMore ==
  ASSUME IInv, Resolving
  PROVE  InForce \in Seq(Op) /\ Current \in Op /\ InForce' = Append(InForce, Current)
<1>1. /\ patches' = patches /\ queue' = queue /\ ~Resolved /\ ~Resolved' /\ Current \in Op
  BY ResolvingFrame
<1>2. pos' = pos + 1 /\ pos \in 1 .. Len(queue[1]) /\ pos' - 1 = pos
  <2>1. queue[1] \in Seq(Op) /\ pos \in Nat \ {0} /\ pos <= Len(queue[1]) /\ pos' = pos + 1
    BY <1>1, InForceType DEF Resolving, IInv, TypeOK
  <2>2. Len(queue[1]) \in Nat
    BY <2>1, LenProperties
  <2> QED
    BY <2>1, <2>2
<1>3. PICK q \in Seq(Op) : q = queue[1]
  BY <1>1, InForceType
<1>4. PICK f \in Seq(Op) : f = FlattenSeq(patches)
  BY InForceType
<1>5. PICK n \in 1 .. Len(q) : n = pos
  BY <1>2, <1>3
<1>6. PICK t \in Seq(Op) : t = SubSeq(q, 1, n - 1) /\ SubSeq(q, 1, n) = Append(t, q[n])
  BY PrefixAppend
<1>7. InForce = f \o t
  BY <1>1, <1>3, <1>4, <1>5, <1>6 DEF InForce
<1>8. InForce' = f \o SubSeq(q, 1, n)
  BY <1>1, <1>2, <1>3, <1>4, <1>5 DEF InForce
<1>9. Current = q[n]
  BY <1>3, <1>5 DEF Current
<1>10. f \o t \in Seq(Op) /\ f \o Append(t, q[n]) = Append(f \o t, q[n])
  BY <1>1, <1>9, ConcatProperties, ConcatAppend
<1> QED
  BY <1>1, <1>6, <1>7, <1>8, <1>9, <1>10

\* apply_patch begins and ends without a change of what is in force.
LEMMA InForceApply ==
  ASSUME IInv, NEW p \in Seq(Op), ApplyPatch(p)
  PROVE  InForce' = InForce
<1>1. Resolved /\ ~Resolved' /\ queue' = <<p>> /\ pos' = 1 /\ patches' = patches
  BY DEF ApplyPatch, Resolved
<1>2. queue'[1] = p /\ pos' - 1 = 0
  BY <1>1
<1>3. SubSeq(p, 1, 0) = <<>>
  BY SubSeqEmpty
<1>4. FlattenSeq(patches) \o <<>> = FlattenSeq(patches)
  BY InForceType, ConcatEmptySeq
<1> QED
  BY <1>1, <1>2, <1>3, <1>4 DEF InForce

LEMMA InForceEnd ==
  ASSUME IInv, EndPatch
  PROVE  InForce' = InForce
<1>1. ~Resolved /\ pos > Len(queue[1]) /\ patches' = Append(patches, queue[1])
      /\ queue' = Tail(queue) /\ pos' = 1
  BY DEF EndPatch
<1>2. PICK q \in Seq(Op) : q = queue[1]
  BY <1>1, InForceType
<1>3. PICK f \in Seq(Op) : f = FlattenSeq(patches)
  BY InForceType
<1>4. pos - 1 = Len(q)
  <2>1. pos \in Nat /\ pos <= Len(q) + 1 /\ pos > Len(q) /\ Len(q) \in Nat
    BY <1>1, <1>2, LenProperties DEF IInv, TypeOK
  <2> QED
    BY <2>1
<1>5. InForce = f \o q
  BY <1>1, <1>2, <1>3, <1>4, SubSeqFull DEF InForce
<1>6. FlattenSeq(patches') = f \o q
  <2>1. patches \in Seq(Seq(Op))
    BY DEF IInv, TypeOK
  <2> QED
    BY <1>1, <1>2, <1>3, <2>1, FlattenAppend
<1>7. f \o q \in Seq(Op)
  BY ConcatProperties
<1>8. InForce' = FlattenSeq(patches')
  <2>1. CASE Resolved'
    BY <2>1 DEF InForce
  <2>2. CASE ~Resolved'
    <3>1. SubSeq(queue'[1], 1, pos' - 1) = <<>>
      BY <1>1, SubSeqEmpty
    <3>2. (f \o q) \o <<>> = f \o q
      BY <1>7, ConcatEmptySeq
    <3> QED
      BY <1>6, <2>2, <3>1, <3>2 DEF InForce
  <2> QED
    BY <2>1, <2>2
<1> QED
  BY <1>5, <1>6, <1>8

\* rebuild_overrides begins with nothing in force.
LEMMA InForceRemove ==
  ASSUME IInv, NEW i, RemovePatch(i)
  PROVE  InForce' = <<>>
<1>1. patches' = <<>> /\ pos' = 1
  BY DEF RemovePatch
<1>2. FlattenSeq(patches') = <<>>
  BY <1>1 DEF FlattenSeq
<1>3. SubSeq(queue'[1], 1, pos' - 1) = <<>>
  BY <1>1, SubSeqEmpty
<1>4. <<>> \o <<>> = <<>>
  OBVIOUS
<1> QED
  BY <1>2, <1>3, <1>4 DEF InForce

-----------------------------------------------------------------------------
(* Each operation of a patch does what the replay says of it *)

\* What an operation on a slot leaves of the retrieval store.
LEMMA FactsStay ==
  ASSUME KnnTypeOK, NEW x, x.op \notin {"insert_knn", "delete_knn"}, knn' = knn
  PROVE  \A l \in Layers :
           /\ knn'[l] \subseteq KnnEntries
           /\ \A e \in KnnEntries :
                e \in knn'[l] <=> IF SetsFact(x, l, e) THEN x.op = "insert_knn" ELSE e \in knn[l]
BY DEF KnnTypeOK, SetsFact

LEMMA InsertPerforms ==
  ASSUME IInv, KnnTypeOK, ResolveInsert
  PROVE  Performed(Current) /\ PerformedOnGates(Current) /\ PerformedOnVectors(Current)
<1>1. PICK x \in Op : x = Current
  BY ResolvingFrame DEF ResolveInsert
<1>2. x.op = "insert" /\ x.key \in Keys
  BY <1>1, OpFields DEF ResolveInsert
<1>3. /\ meta' = [meta EXCEPT ![x.key] = x.meta]
      /\ deleted' = deleted \ {x.key}
      /\ gate' = [gate EXCEPT ![x.key] = Given(x.gate, gate[x.key])]
      /\ vec' = [vec EXCEPT ![x.key] = Given(x.vec, vec[x.key])]
      /\ knn' = knn
  BY <1>1 DEF ResolveInsert, knnVars
<1>4. /\ DOMAIN meta = Keys /\ DOMAIN gate = Keys /\ DOMAIN vec = Keys /\ deleted \subseteq Keys
  BY DEF IInv, TypeOK
<1>5. \A k \in Keys : /\ SetsMeta(x, k) <=> x.key = k
                      /\ SetsDeleted(x, k) <=> x.key = k
                      /\ SetsGate(x, k) <=> x.key = k /\ x.gate # None
                      /\ SetsVec(x, k) <=> x.key = k /\ x.vec # None
  BY <1>2 DEF SetsMeta, SetsDeleted, SetsGate, SetsVec, On
<1>6. Performed(x)
  BY <1>2, <1>3, <1>4, <1>5, FactsStay DEF Performed
<1>7. PerformedOnGates(x)
  BY <1>2, <1>3, <1>4, <1>5 DEF PerformedOnGates, Given
<1>8. PerformedOnVectors(x)
  BY <1>2, <1>3, <1>4, <1>5 DEF PerformedOnVectors, Given
<1> QED
  BY <1>1, <1>6, <1>7, <1>8

LEMMA UpdatePerforms ==
  ASSUME IInv, KnnTypeOK, ResolveUpdate
  PROVE  Performed(Current) /\ PerformedOnGates(Current) /\ PerformedOnVectors(Current)
<1>1. PICK x \in Op : x = Current
  BY ResolvingFrame DEF ResolveUpdate
<1>2. x.op = "update" /\ x.key \in Keys
  BY <1>1, OpFields DEF ResolveUpdate
<1>3. /\ meta' = [meta EXCEPT ![x.key] = Given(x.meta, meta[x.key])]
      /\ deleted' = deleted
      /\ gate' = [gate EXCEPT ![x.key] = Given(x.gate, gate[x.key])]
      /\ vec' = [vec EXCEPT ![x.key] = Given(x.vec, vec[x.key])]
      /\ knn' = knn
  BY <1>1 DEF ResolveUpdate, knnVars
<1>4. /\ DOMAIN meta = Keys /\ DOMAIN gate = Keys /\ DOMAIN vec = Keys /\ deleted \subseteq Keys
  BY DEF IInv, TypeOK
<1>5. \A k \in Keys : /\ SetsMeta(x, k) <=> x.key = k /\ x.meta # None
                      /\ ~SetsDeleted(x, k)
                      /\ SetsGate(x, k) <=> x.key = k /\ x.gate # None
                      /\ SetsVec(x, k) <=> x.key = k /\ x.vec # None
  BY <1>2 DEF SetsMeta, SetsDeleted, SetsGate, SetsVec, On
<1>6. Performed(x)
  BY <1>2, <1>3, <1>4, <1>5, FactsStay DEF Performed, Given
<1>7. PerformedOnGates(x)
  BY <1>2, <1>3, <1>4, <1>5 DEF PerformedOnGates, Given
<1>8. PerformedOnVectors(x)
  BY <1>2, <1>3, <1>4, <1>5 DEF PerformedOnVectors, Given
<1> QED
  BY <1>1, <1>6, <1>7, <1>8

LEMMA DeletePerforms ==
  ASSUME IInv, KnnTypeOK, ResolveDelete
  PROVE  Performed(Current) /\ PerformedOnGates(Current) /\ PerformedOnVectors(Current)
<1>1. PICK x \in Op : x = Current
  BY ResolvingFrame DEF ResolveDelete
<1>2. x.op = "delete" /\ x.key \in Keys
  BY <1>1, OpFields DEF ResolveDelete
<1>3. /\ meta' = [meta EXCEPT ![x.key] = None]
      /\ deleted' = deleted \cup {x.key}
      /\ gate' = [gate EXCEPT ![x.key] = None]
      /\ vec' = vec /\ knn' = knn
  BY <1>1 DEF ResolveDelete, knnVars
<1>4. /\ DOMAIN meta = Keys /\ DOMAIN gate = Keys /\ deleted \subseteq Keys
  BY DEF IInv, TypeOK
<1>5. \A k \in Keys : /\ SetsMeta(x, k) <=> x.key = k
                      /\ SetsDeleted(x, k) <=> x.key = k
                      /\ SetsGate(x, k) <=> x.key = k
                      /\ ~SetsVec(x, k)
  BY <1>2 DEF SetsMeta, SetsDeleted, SetsGate, SetsVec, On
<1>6. Performed(x)
  BY <1>2, <1>3, <1>4, <1>5, FactsStay DEF Performed
<1>7. PerformedOnGates(x) /\ PerformedOnVectors(x)
  BY <1>2, <1>3, <1>4, <1>5 DEF PerformedOnGates, PerformedOnVectors
<1> QED
  BY <1>1, <1>6, <1>7

\* An operation on the retrieval store.
LEMMA KnnPerforms ==
  ASSUME IInv, KnnTypeOK, ResolveKnn
  PROVE  Performed(Current) /\ PerformedOnGates(Current) /\ PerformedOnVectors(Current)
<1>1. PICK x \in Op : x = Current
  BY ResolvingFrame DEF ResolveKnn
<1>2. /\ meta' = meta /\ deleted' = deleted /\ gate' = gate /\ vec' = vec /\ deleted \subseteq Keys
      /\ \/ x.op = "insert_knn" /\ Add(x.layer, x.entry)
         \/ x.op = "delete_knn" /\ RemoveMatching(OfEntity(x.entity))
  BY <1>1 DEF ResolveKnn, maps, IInv, TypeOK
<1>3. x.op \in {"insert_knn", "delete_knn"}
  BY <1>2
<1>4. \A k \in Keys : ~SetsMeta(x, k) /\ ~SetsDeleted(x, k) /\ ~SetsGate(x, k) /\ ~SetsVec(x, k)
  BY <1>3 DEF SetsMeta, SetsDeleted, SetsGate, SetsVec, On
<1>5. ASSUME NEW l \in Layers
      PROVE  /\ knn'[l] \subseteq KnnEntries
             /\ \A e \in KnnEntries :
                  e \in knn'[l] <=> IF SetsFact(x, l, e) THEN x.op = "insert_knn" ELSE e \in knn[l]
  <2>1. knn[l] \subseteq KnnEntries /\ knn \in [Layers -> SUBSET KnnEntries]
    BY DEF KnnTypeOK
  <2>2. CASE x.op = "insert_knn" /\ Add(x.layer, x.entry)
    <3>1. x.layer \in Layers /\ x.entry \in KnnEntries
      BY <2>2 DEF Op
    <3>2. knn' = [knn EXCEPT ![x.layer] = knn[x.layer] \cup {x.entry}]
      BY <2>2 DEF Add
    <3>3. knn'[l] = IF l = x.layer THEN knn[l] \cup {x.entry} ELSE knn[l]
      BY <2>1, <3>1, <3>2
    <3> QED
      BY <2>1, <2>2, <3>1, <3>3 DEF SetsFact
  <2>3. CASE x.op = "delete_knn" /\ RemoveMatching(OfEntity(x.entity))
    <3>1. knn'[l] = knn[l] \ OfEntity(x.entity)
      BY <2>3 DEF RemoveMatching
    <3> QED
      BY <2>1, <2>3, <3>1 DEF SetsFact, OfEntity
  <2> QED
    BY <1>2, <2>2, <2>3
<1>6. Performed(x)
  BY <1>2, <1>4, <1>5 DEF Performed
<1>7. PerformedOnGates(x) /\ PerformedOnVectors(x)
  BY <1>2, <1>4 DEF PerformedOnGates, PerformedOnVectors
<1> QED
  BY <1>1, <1>6, <1>7

\* Whatever the operation is.
LEMMA ResolvePerforms ==
  ASSUME IInv, KnnTypeOK, ResolveInsert \/ ResolveUpdate \/ ResolveDelete \/ ResolveKnn
  PROVE  Resolving /\ Performed(Current) /\ PerformedOnGates(Current) /\ PerformedOnVectors(Current)
<1>1. Resolving
  BY DEF ResolveInsert, ResolveUpdate, ResolveDelete, ResolveKnn
<1> QED
  BY <1>1, InsertPerforms, UpdatePerforms, DeletePerforms, KnnPerforms

-----------------------------------------------------------------------------
(* The overlay and its store together *)

\* Every step of an overlay is one of its store, or leaves the store alone.
LEMMA StoreNext == ASSUME TypeOK, KnnInv, [Next]_vars PROVE KnnInv'
<1>1. ASSUME NEW l \in Layers, NEW e \in KnnEntries, Add(l, e) PROVE KnnInv'
  BY <1>1, AddKeeps
<1>2. ASSUME NEW gone, RemoveMatching(gone) PROVE KnnInv'
  BY <1>2, RemoveKeeps
<1>3. ASSUME UNCHANGED knnVars PROVE KnnInv'
  BY <1>3, KnnInvNext
<1>4. CASE Edit
  <2>1. CASE EditKnn
    BY <1>1, <1>2, <2>1 DEF EditKnn
  <2>2. CASE Editing
    BY <1>3, <2>2 DEF Editing
  <2> QED
    BY <1>4, <2>1, <2>2 DEF Edit, InsertFeature, DeleteFeature, UpdateFeatureMeta, SetVector, SetGateOverride
<1>5. CASE Resolve
  <2>1. CASE ResolveKnn
    <3>1. CASE Current.op = "insert_knn" /\ Add(Current.layer, Current.entry)
      <4>1. Current \in Op
        BY <2>1, CurrentIsOp DEF ResolveKnn, Resolving
      <4>2. Current.layer \in Layers /\ Current.entry \in KnnEntries
        BY <3>1, <4>1 DEF Op
      <4> QED
        BY <1>1, <3>1, <4>2
    <3>2. CASE RemoveMatching(OfEntity(Current.entity))
      BY <1>2, <3>2
    <3> QED
      BY <2>1, <3>1, <3>2 DEF ResolveKnn
  <2>2. CASE UNCHANGED knnVars
    BY <1>3, <2>2
  <2> QED
    BY <1>5, <2>1, <2>2 DEF Resolve, ResolveInsert, ResolveUpdate, ResolveDelete, EndPatch
<1>6. CASE Reading
  BY <1>6, KnnInvNext DEF Reading, KnnNext
<1>7. CASE \E i \in 1 .. MaxPatches : RemovePatch(i)
  BY <1>7, ResetKeeps DEF RemovePatch
<1>8. CASE UNCHANGED vars
  BY <1>3, <1>8 DEF vars
<1> QED
  BY <1>3, <1>4, <1>5, <1>6, <1>7, <1>8 DEF Next, ApplyPatch, GateQuery

\* What is inductive about the two.
OverlayInv == IInv /\ KnnInv /\ ReplayInv

LEMMA OverlayInvInit == Init => OverlayInv
<1> SUFFICES ASSUME Init PROVE OverlayInv
  OBVIOUS
<1>1. IInv /\ KnnInv
  BY OverlayInit, KnnInvInit DEF Init
<1>2. InForce = <<>>
  <2>1. Resolved /\ patches = <<>>
    BY DEF Init, Resolved
  <2> QED
    BY <2>1 DEF InForce, FlattenSeq
<1>3. ReplaysMaps(<<>>) /\ ReplaysGates(<<>>)
  BY ReplayOfNothing DEF Init, KnnInit, ReplaysMaps, ReplaysGates
<1> QED
  BY <1>1, <1>2, <1>3 DEF OverlayInv, ReplayInv

\* A step that changes neither what is in force nor the maps and the store.
LEMMA ReplaySame ==
  ASSUME ReplayInv, InForce' = InForce, UNCHANGED <<meta, deleted, gate, knn, edits>>
  PROVE  ReplayInv'
<1>1. PICK ops : ops = InForce
  OBVIOUS
<1>2. InForce' = ops
  BY <1>1
<1>3. (ReplaysMaps(ops) => ReplaysMaps(ops)') /\ (ReplaysGates(ops) => ReplaysGates(ops)')
  BY DEF ReplaysMaps, ReplaysGates
<1> QED
  BY <1>1, <1>2, <1>3 DEF ReplayInv, ReplaysMaps, ReplaysGates

LEMMA ReplayNext == ASSUME IInv, KnnTypeOK, ReplayInv, [Next]_vars PROVE ReplayInv'
<1>1. CASE Edit
  <2>1. edits' = edits + 1
    BY <1>1 DEF Edit, InsertFeature, DeleteFeature, UpdateFeatureMeta, SetVector, SetGateOverride, Editing, EditKnn
  <2>2. edits \in Nat
    BY BoundsAssumption DEF IInv, TypeOK
  <2>3. edits' # 0
    BY <2>1, <2>2
  <2> QED
    BY <2>3 DEF ReplayInv
<1>2. CASE ResolveInsert \/ ResolveUpdate \/ ResolveDelete \/ ResolveKnn
  <2>1. Resolving /\ Performed(Current) /\ PerformedOnGates(Current)
    BY <1>2, ResolvePerforms
  <2>2. PICK ops \in Seq(Op), x \in Op : ops = InForce /\ x = Current /\ InForce' = Append(ops, x)
    BY <2>1, InForceMore
  <2>3. PICK s : s = Append(ops, x)
    OBVIOUS
  <2>4. Performed(x) /\ PerformedOnGates(x) /\ edits' = edits
    BY <2>1, <2>2 DEF Resolving
  <2>5. edits' = 0 => ReplaysMaps(s)' /\ ReplaysGates(s)'
    BY <2>2, <2>3, <2>4, MapsReplayMore, GatesReplayMore DEF ReplayInv
  <2> QED
    BY <2>2, <2>3, <2>5 DEF ReplayInv, ReplaysMaps, ReplaysGates
<1>3. CASE EndPatch
  <2>1. UNCHANGED <<meta, deleted, gate, knn, edits>>
    BY <1>3 DEF EndPatch, maps, knnVars
  <2> QED
    BY <1>3, <2>1, InForceEnd, ReplaySame
<1>4. ASSUME NEW p \in Patches, ApplyPatch(p) PROVE ReplayInv'
  <2>1. UNCHANGED <<meta, deleted, gate, knn, edits>>
    BY <1>4 DEF ApplyPatch, maps, knnVars
  <2>2. p \in Seq(Op)
    BY PatchesAssumption
  <2> QED
    BY <1>4, <2>1, <2>2, InForceApply, ReplaySame
<1>5. ASSUME NEW i, RemovePatch(i) PROVE ReplayInv'
  <2>1. InForce' = <<>>
    BY <1>5, InForceRemove
  <2>2. /\ meta' = [k \in Keys |-> Absent] /\ gate' = [k \in Keys |-> None] /\ deleted' = {}
        /\ knn' = [l \in Layers |-> {}]
    BY <1>5 DEF RemovePatch, KnnReset
  <2>3. ReplaysMaps(<<>>)' /\ ReplaysGates(<<>>)'
    BY <2>2, ReplayOfNothing DEF ReplaysMaps, ReplaysGates
  <2> QED
    BY <2>1, <2>3 DEF ReplayInv, ReplaysMaps, ReplaysGates
<1>6. CASE (\E l \in Layers : GateQuery(l)) \/ Reading \/ UNCHANGED vars
  <2>1. UNCHANGED <<patches, queue, pos, meta, deleted, gate, knn, edits>>
    BY <1>6 DEF GateQuery, Reading, KnnRead, Ask, Rebuild, Unmark, LookUp, Return, vars, overlayVars,
               queueVars, knnVars, maps
  <2>2. InForce' = InForce
    BY <2>1 DEF InForce, Resolved
  <2> QED
    BY <2>1, <2>2, ReplaySame
<1> QED
  BY <1>1, <1>2, <1>3, <1>4, <1>5, <1>6 DEF Next, Resolve

LEMMA OverlayInvNext == OverlayInv /\ [Next]_vars => OverlayInv'
BY OverlayNext, StoreNext, ReplayNext DEF OverlayInv, IInv, KnnInv

\* As long as nothing was edited directly, an overlay at rest is what the patches in
\* force say, for any base and any patches, in any order of applying and removing
\* (apply_patch, remove_patch, rebuild_overrides).
THEOREM OverlayAlwaysReplays == Spec => []OverlayIsReplay
<1>1. OverlayInv => OverlayIsReplay
  BY DEF OverlayInv, ReplayInv, InForce, OverlayIsReplay
<1> QED
  BY <1>1, OverlayInvInit, OverlayInvNext, PTL DEF Spec

\* The answers that an overlay's readers find index the entries they were found in.
THEOREM OverlayAnswersIndexEntries == Spec => []AnswerIndexesEntries
<1>1. OverlayInv => AnswerIndexesEntries
  BY DEF OverlayInv, KnnInv, Position, AnswerIndexesEntries
<1> QED
  BY <1>1, OverlayInvInit, OverlayInvNext, PTL DEF Spec

-----------------------------------------------------------------------------
(* Queries: asking the base for 2k hits is enough as long as no more than k of *)
(* them are disturbed                                                          *)

\* Each of some hits with a feature of its own, among some features.
LEMMA HitsCount ==
  ASSUME NEW H, NEW F, IsFiniteSet(F), \A h \in H : h[1] \in F,
         \A g, h \in H : g[1] = h[1] => g = h
  PROVE  IsFiniteSet(H) /\ Cardinality(H) <= Cardinality(F)
<1>1. [h \in H |-> h[1]] \in Injection(H, F)
  BY DEF Injection, IsInjective
<1> QED
  BY <1>1, FS_Injection

\* The k best of some hits M are k best of T, when M lacks only hits that k others in M beat.
LEMMA BestOfEnough ==
  ASSUME NEW T, IsFiniteSet(T), NEW M \in SUBSET T, NEW G \in SUBSET M,
         NEW K \in Nat, Cardinality(G) >= K,
         \A x \in T : x[2] \in Nat,
         \A g \in G, y \in T \ M : g[2] >= y[2],
         NEW S \in Best(M, K)
  PROVE  S \in Best(T, K)
<1>1. /\ S \subseteq M /\ \A x \in S, y \in M \ S : x[2] >= y[2]
      /\ Cardinality(S) = IF K < Cardinality(M) THEN K ELSE Cardinality(M)
  BY DEF Best
<1>2. /\ IsFiniteSet(M) /\ Cardinality(M) <= Cardinality(T)
      /\ Cardinality(M) \in Nat /\ Cardinality(T) \in Nat
  BY FS_Subset, FS_CardinalityType
<1>3. /\ IsFiniteSet(G) /\ Cardinality(G) <= Cardinality(M) /\ Cardinality(G) \in Nat
  BY <1>2, FS_Subset, FS_CardinalityType
<1>4. Cardinality(S) = K /\ (K < Cardinality(T) \/ K = Cardinality(T))
  BY <1>1, <1>2, <1>3
<1>5. IsFiniteSet(S)
  BY <1>1, <1>2, FS_Subset
<1>6. ASSUME NEW x \in S, NEW y \in T \ S PROVE x[2] >= y[2]
  <2>1. CASE y \in M
    BY <1>1, <2>1
  <2>2. CASE y \notin M
    <3> SUFFICES ASSUME ~(x[2] >= y[2]) PROVE FALSE
      OBVIOUS
    <3>1. ASSUME NEW g \in G PROVE g \in S
      <4>1. g[2] >= y[2] /\ g[2] \in Nat /\ y[2] \in Nat /\ x[2] \in Nat
        BY <1>1, <2>2
      <4>2. ~(x[2] >= g[2])
        BY <4>1
      <4> QED
        BY <1>1, <4>2
    <3>2. G \in SUBSET S
      BY <3>1
    <3>3. Cardinality(G) <= Cardinality(S) /\ (Cardinality(S) = Cardinality(G) => S = G)
      BY <1>5, <3>2, FS_Subset
    <3>4. S = G
      BY <1>3, <1>4, <3>3
    <3> QED
      BY <2>2, <3>4
  <2> QED
    BY <2>1, <2>2
<1> QED
  BY <1>1, <1>4, <1>6 DEF Best

\* The scores of a layer are numbers, and a feature has one hit.
LEMMA HitsOfLayer ==
  ASSUME TypeOK, NEW l \in Layers
  PROVE  /\ IsFiniteSet(BaseHits(l)) /\ IsFiniteSet(TrueHits(l)) /\ IsFiniteSet(Disturbed(l))
         /\ \A h \in BaseHits(l) : /\ h[1] \in Features /\ BaseScore[<<l, h[1]>>] # None
                                   /\ h = <<h[1], BaseScore[<<l, h[1]>>]>> /\ h[2] \in Nat
         /\ \A h \in TrueHits(l) : h[2] \in Nat
<1>1. \A f \in Features : /\ BaseScore[<<l, f>>] \in Nat \cup {None}
                          /\ gate[<<l, f>>] \in Nat \cup {None}
  BY BaseAssumption, AbsentAssumption DEF TypeOK, Keys
<1>2. \A h \in BaseHits(l) : /\ h[1] \in Features /\ BaseScore[<<l, h[1]>>] # None
                             /\ h = <<h[1], BaseScore[<<l, h[1]>>]>> /\ h[2] \in Nat
  <2> TAKE h \in BaseHits(l)
  <2>1. PICK f \in Features : BaseScore[<<l, f>>] # None /\ h = <<f, BaseScore[<<l, f>>]>>
    BY DEF BaseHits
  <2>2. h[1] = f /\ h[2] = BaseScore[<<l, f>>]
    BY <2>1
  <2> QED
    BY <1>1, <2>1, <2>2
<1>3. \A h \in TrueHits(l) : /\ h[1] \in Features /\ h[2] \in Nat
                             /\ h = <<h[1], Given(gate[<<l, h[1]>>], BaseScore[<<l, h[1]>>])>>
  <2> TAKE h \in TrueHits(l)
  <2>1. PICK f \in Features : /\ ~(gate[<<l, f>>] = None /\ BaseScore[<<l, f>>] = None)
                              /\ h = <<f, Given(gate[<<l, f>>], BaseScore[<<l, f>>])>>
    BY DEF TrueHits
  <2>2. h[1] = f /\ h[2] = Given(gate[<<l, f>>], BaseScore[<<l, f>>])
    BY <2>1
  <2>3. Given(gate[<<l, f>>], BaseScore[<<l, f>>]) \in Nat
    BY <1>1, <2>1 DEF Given
  <2> QED
    BY <2>1, <2>2, <2>3
<1>4. IsFiniteSet(BaseHits(l)) /\ IsFiniteSet(TrueHits(l))
  <2>1. \A g, h \in BaseHits(l) : g[1] = h[1] => g = h
    BY <1>2
  <2>2. \A g, h \in TrueHits(l) : g[1] = h[1] => g = h
    BY <1>3
  <2>3. (\A h \in BaseHits(l) : h[1] \in Features) /\ (\A h \in TrueHits(l) : h[1] \in Features)
    BY <1>2, <1>3
  <2>4. IsFiniteSet(Features)
    BY BaseAssumption
  <2> QED
    BY <2>1, <2>2, <2>3, <2>4, HitsCount
<1>5. Disturbed(l) \in SUBSET Features
  BY DEF Disturbed, Overridden, Deleted
<1> QED
  BY <1>2, <1>3, <1>4, <1>5, FS_Subset, BaseAssumption

\* What gate_knn makes of some hits of the base when the cached matrix is right.
LEMMA MergeIs ==
  ASSUME NEW l \in Layers, cache[l] # None => cache[l] = Snapshot(l), NEW hits
  PROVE  Merge(l, hits) =
           {h \in hits : h[1] \notin Overridden(l) \cup Deleted(l)}
             \cup {<<f, gate[<<l, f>>]>> : f \in Overridden(l) \ Deleted(l)}
<1>1. PICK row : row = Snapshot(l)
  OBVIOUS
<1>2. DOMAIN row = Overridden(l) /\ \A f \in Overridden(l) : row[f] = gate[<<l, f>>]
  BY <1>1 DEF Snapshot
<1>3. Merge(l, hits) = {h \in {g \in hits : g[1] \notin DOMAIN row} \cup {<<f, row[f]>> : f \in DOMAIN row} :
                          h[1] \notin Deleted(l)}
  BY <1>1 DEF Merge
<1>4. {<<f, row[f]>> : f \in DOMAIN row} = {<<f, gate[<<l, f>>]>> : f \in Overridden(l)}
  BY <1>2
<1>5. \A h \in {<<f, gate[<<l, f>>]>> : f \in Overridden(l)} :
        h[1] \notin Deleted(l) <=> h \in {<<f, gate[<<l, f>>]>> : f \in Overridden(l) \ Deleted(l)}
  <2> TAKE h \in {<<f, gate[<<l, f>>]>> : f \in Overridden(l)}
  <2>1. PICK f \in Overridden(l) : h = <<f, gate[<<l, f>>]>>
    OBVIOUS
  <2>2. h[1] = f
    BY <2>1
  <2>3. ASSUME NEW j \in Overridden(l) \ Deleted(l), h = <<j, gate[<<l, j>>]>> PROVE f \notin Deleted(l)
    BY <2>2, <2>3
  <2> QED
    BY <2>1, <2>2, <2>3
<1>6. {<<f, gate[<<l, f>>]>> : f \in Overridden(l) \ Deleted(l)}
        \subseteq {<<f, gate[<<l, f>>]>> : f \in Overridden(l)}
  OBVIOUS

<1> QED
  BY <1>2, <1>3, <1>4, <1>5, <1>6

\* All hits of the base make the hits that the overlay shows.
LEMMA TrueHitsAre ==
  ASSUME TypeOK, NEW l \in Layers
  PROVE  TrueHits(l) = {h \in BaseHits(l) : h[1] \notin Overridden(l) \cup Deleted(l)}
                         \cup {<<f, gate[<<l, f>>]>> : f \in Overridden(l) \ Deleted(l)}
BY DEF TrueHits, BaseHits, Overridden, Deleted, Given

\* From 2k of the base's best, k are left undisturbed, and they beat every hit left out.
LEMMA OversampledMerge ==
  ASSUME TypeOK, NEW l \in Layers, cache[l] # None => cache[l] = Snapshot(l),
         Cardinality(Disturbed(l)) <= TopK,
         NEW hits \in Best(BaseHits(l), Oversample(TopK)), NEW S \in Best(Merge(l, hits), TopK)
  PROVE  S \in Best(TrueHits(l), TopK)
<1> DEFINE shown == {<<f, gate[<<l, f>>]>> : f \in Overridden(l) \ Deleted(l)}
           out == Overridden(l) \cup Deleted(l)
<1>1. PICK B, T, M, D, G : /\ B = BaseHits(l) /\ T = TrueHits(l) /\ M = Merge(l, hits)
                           /\ D = Disturbed(l) /\ G = {h \in hits : h[1] \notin out}
  OBVIOUS
<1>2. /\ IsFiniteSet(B) /\ IsFiniteSet(T) /\ IsFiniteSet(D)
      /\ \A h \in B : h[1] \in Features /\ BaseScore[<<l, h[1]>>] # None
                      /\ h = <<h[1], BaseScore[<<l, h[1]>>]>> /\ h[2] \in Nat
      /\ \A h \in T : h[2] \in Nat
  BY <1>1, HitsOfLayer
<1>3. /\ hits \subseteq B /\ \A x \in hits, y \in B \ hits : x[2] >= y[2]
      /\ Cardinality(hits) = IF 2 * TopK < Cardinality(B) THEN 2 * TopK ELSE Cardinality(B)
  BY <1>1 DEF Best, Oversample
<1>4. M = G \cup shown /\ T = {h \in B : h[1] \notin out} \cup shown
  BY <1>1, MergeIs, TrueHitsAre
<1>5. TopK \in Nat
  BY BoundsAssumption
<1>6. CASE hits = B
  BY <1>1, <1>4, <1>6
<1>7. CASE hits # B
  <2> HIDE DEF shown, out
  <2>1. /\ IsFiniteSet(hits) /\ Cardinality(hits) \in Nat /\ Cardinality(B) \in Nat
        /\ (Cardinality(B) = Cardinality(hits) => B = hits)
    BY <1>2, <1>3, FS_Subset, FS_CardinalityType
  <2>2. Cardinality(hits) = 2 * TopK
    BY <1>3, <1>7, <2>1
  <2>3. hits \cap G = G /\ IsFiniteSet(G)
    BY <1>1, <2>1, FS_Subset
  <2>4. Cardinality(hits \ G) = Cardinality(hits) - Cardinality(G)
    BY <2>1, <2>3, FS_Difference
  <2>5. Cardinality(hits \ G) <= Cardinality(D)
    <3>1. \A h \in hits \ G : h[1] \in D
      BY <1>1, <1>2, <1>3 DEF out, Disturbed
    <3>2. \A g, h \in hits \ G : g[1] = h[1] => g = h
      BY <1>2, <1>3
    <3> QED
      BY <1>2, <3>1, <3>2, HitsCount
  <2>6. Cardinality(G) >= TopK
    <3>1. Cardinality(G) \in Nat /\ Cardinality(D) \in Nat /\ Cardinality(D) <= TopK
      BY <1>1, <1>2, <2>3, FS_CardinalityType
    <3>2. Cardinality(hits \ G) \in Int
      BY <2>1, <2>4, <3>1
    <3> QED
      BY <1>5, <2>2, <2>4, <2>5, <3>1, <3>2
  <2>7. M \in SUBSET T /\ G \in SUBSET M
    BY <1>1, <1>3, <1>4
  <2>8. ASSUME NEW g \in G, NEW y \in T \ M PROVE g[2] >= y[2]
    <3>1. g \in hits /\ y \in B /\ y \notin hits
      BY <1>1, <1>4, <2>8
    <3> QED
      BY <1>3, <3>1
  <2> QED
    BY <1>1, <1>2, <1>5, <2>6, <2>7, <2>8, BestOfEnough
<1> QED
  BY <1>6, <1>7

\* Without overrides and deletions the layer shows the hits of the base.
LEMMA UndisturbedHits ==
  ASSUME TypeOK, NEW l \in Layers, Overridden(l) = {}, Deleted(l) = {}
  PROVE  TrueHits(l) = BaseHits(l)
BY TrueHitsAre

\* A query of an overlay at rest for k hits finds k best of what the overlay shows, as
\* long as no more than k features of the layer are disturbed: for any base, any patches
\* and edits, and any k (gate_knn's saturating_mul(2)).
THEOREM QueriesAlwaysFindBest == Spec => []QueryFindsBest
<1>1. IInv => QueryFindsBest
  <2> SUFFICES ASSUME IInv, Resolved, NEW l \in Layers, Cardinality(Disturbed(l)) <= TopK,
                      NEW S \in GateKnn(l)
               PROVE  S \in Best(TrueHits(l), TopK)
    BY DEF QueryFindsBest
  <2>1. TypeOK /\ (cache[l] # None => cache[l] = Snapshot(l))
    BY DEF IInv, CacheInv
  <2>2. CASE Overridden(l) = {} /\ Deleted(l) = {}
    BY <2>1, <2>2, UndisturbedHits DEF GateKnn
  <2>3. CASE ~ (Overridden(l) = {} /\ Deleted(l) = {})
    <3>1. PICK hits \in Best(BaseHits(l), Oversample(TopK)) : S \in Best(Merge(l, hits), TopK)
      BY <2>3 DEF GateKnn
    <3> QED
      BY <2>1, <3>1, OversampledMerge
  <2> QED
    BY <2>2, <2>3
<1> QED
  BY <1>1, OverlayInit, OverlayNext, PTL DEF Spec

-----------------------------------------------------------------------------
(* An LQL session over that overlay *)

\* What the variables of a session hold; the residuals of an installed edge are kept
\* with it, and a recording begun by a statement has no path.
SessionTypeOK ==
  /\ rec \in Logged \cup {None}
  /\ auto \in BOOLEAN /\ plain \in BOOLEAN
  /\ rec # None /\ auto => rec.path = ""
  /\ DOMAIN files = Paths /\ \A p \in Paths : files[p] # None => files[p].ops \in Seq(Op)
  /\ raw \subseteq Keys /\ edges \subseteq raw
  /\ todo \subseteq Layers \X KnnEntries
  /\ closed \in Seq(Op)

SInv == IInv /\ KnnInv /\ SessionTypeOK

-----------------------------------------------------------------------------
(* FindFree and install_slots *)

\* A set of numbers has a least.
LEMMA LeastExists ==
  ASSUME NEW S, S \subseteq Nat, S # {}
  PROVE  \E m \in S : \A n \in S : m <= n
<1> SUFFICES ASSUME \A m \in S : \E n \in S : ~(m <= n) PROVE FALSE
  OBVIOUS
<1> DEFINE A == {n \in Nat : \A k \in S : n <= k}
<1>1. 0 \in A
  OBVIOUS
<1>2. ASSUME NEW n \in A \cap Nat PROVE n + 1 \in A
  <2>1. n \notin S
    OBVIOUS
  <2>2. ASSUME NEW k \in S PROVE n + 1 <= k
    <3>1. n <= k /\ n # k /\ k \in Nat /\ n \in Nat
      BY <2>1
    <3> QED
      BY <3>1
  <2>3. n + 1 \in Nat
    OBVIOUS
  <2> QED
    BY <2>2, <2>3
<1> HIDE DEF A
<1>3. Nat \subseteq A
  BY <1>1, <1>2, SetInduction
<1>4. PICK k \in S : TRUE
  OBVIOUS
<1>5. k + 1 \in A /\ k \in Nat
  BY <1>3
<1>6. k + 1 <= k
  BY <1>5 DEF A
<1> QED
  BY <1>5, <1>6

\* A slot that is found is one of the layer.
LEMMA FindFreeIsFeature ==
  ASSUME NEW l \in Layers, FindFree(l) # None
  PROVE  FindFree(l) \in Features
<1> DEFINE slots == {f \in Features : BaseScore[<<l, f>>] # None /\ gate[<<l, f>>] = None}
           unused == {f \in slots : BaseMeta[<<l, f>>] = None}
           weakest == {f \in slots : \A g \in slots : BaseMeta[<<l, f>>] <= BaseMeta[<<l, g>>]}
           First(S) == CHOOSE f \in S : \A g \in S : f <= g
<1>1. FindFree(l) = CASE unused # {} -> First(unused)
                      [] unused = {} /\ slots # {} -> First(weakest)
                      [] OTHER -> None
  BY DEF FindFree
<1>2. slots \subseteq Features /\ slots \subseteq Nat /\ unused \subseteq slots /\ weakest \subseteq slots
  BY BaseAssumption
<1>3. CASE unused # {}
  <2>1. \E m \in unused : \A n \in unused : m <= n
    BY <1>2, <1>3, LeastExists
  <2>2. First(unused) \in unused
    BY <2>1
  <2> QED
    BY <1>1, <1>2, <1>3, <2>2
<1>4. CASE unused = {} /\ slots # {}
  <2>1. \A f \in slots : BaseMeta[<<l, f>>] \in Nat
    <3> TAKE f \in slots
    <3>1. <<l, f>> \in Keys /\ f \notin unused
      BY <1>2, <1>4 DEF Keys
    <3> QED
      BY <3>1, BaseAssumption
  <2>2. PICK W : W = {BaseMeta[<<l, f>>] : f \in slots}
    OBVIOUS
  <2>3. W \subseteq Nat /\ W # {}
    BY <1>4, <2>1, <2>2
  <2>4. PICK w \in W : \A v \in W : w <= v
    BY <2>3, LeastExists
  <2>5. weakest # {}
    BY <2>2, <2>4
  <2>6. \E m \in weakest : \A n \in weakest : m <= n
    BY <1>2, <2>5, LeastExists
  <2>7. First(weakest) \in weakest
    BY <2>6
  <2> QED
    BY <1>1, <1>2, <1>4, <2>7
<1>5. unused # {} \/ (unused = {} /\ slots # {})
  BY <1>1
<1> QED
  BY <1>3, <1>4, <1>5

\* An install writes to slots of its own layer, and without residuals to one alone.
LEMMA SlotsOfLayer ==
  ASSUME raw \subseteq Keys, NEW l \in Layers, FindFree(l) # None
  PROVE  /\ <<l, FindFree(l)>> \in Keys
         /\ <<l, FindFree(l)>> \in Slots(l) /\ Slots(l) \subseteq Keys
         /\ \A x \in Slots(l) : x[1] = l
         /\ raw = {} => Slots(l) = {<<l, FindFree(l)>>}
<1>1. FindFree(l) \in Features
  BY FindFreeIsFeature
<1> QED
  BY <1>1 DEF Slots, Keys

\* install_slots drops the matrix of the one layer it writes to.
LEMMA InstallKeeps ==
  ASSUME IInv, Resolved, NEW k \in Keys, NEW m \in Metas, NEW S \in SUBSET Keys, k \in S,
         \A x \in S : x[1] = k[1], NEW G \in [S -> Gates], NEW V \in [S -> Vecs], Install(k, m, G, V)
  PROVE  IInv'
<1>1. /\ meta' = [meta EXCEPT ![k] = m] /\ deleted' = deleted \ {k} /\ Invalidate({k[1]})
      /\ gate' = [x \in Keys |-> IF x \in S /\ (x = k \/ gate[x] # None) THEN G[x] ELSE gate[x]]
      /\ vec' = [x \in Keys |-> IF x \in S THEN V[x] ELSE vec[x]]
      /\ patches' = patches /\ queue' = queue /\ pos' = pos /\ touched' = touched
      /\ edits < MaxEdits /\ edits' = edits + 1
  BY DEF Install, queueVars
<1>2. cache' = [l \in Layers |-> IF l \in {k[1]} THEN None ELSE cache[l]]
  BY <1>1 DEF Invalidate
<1>3. ASSUME NEW l \in Layers \ touched', cache'[l] # None PROVE cache'[l] = Snapshot(l)'
  <2>1. l # k[1] /\ cache'[l] = cache[l]
    BY <1>2, <1>3
  <2>2. ASSUME NEW f \in Features PROVE gate'[<<l, f>>] = gate[<<l, f>>]
    <3>1. <<l, f>> \in Keys /\ <<l, f>> \notin S
      BY <2>1 DEF Keys
    <3> QED
      BY <1>1, <3>1
  <2>3. Snapshot(l)' = Snapshot(l)
    BY <2>2, SnapshotLocal
  <2> QED
    BY <1>1, <1>3, <2>1, <2>3 DEF IInv, CacheInv
<1>4. edits' \in 0 .. MaxEdits
  BY <1>1, BoundsAssumption DEF IInv, TypeOK
<1>5. gate' \in [Keys -> Gates \cup {None}] /\ vec' \in [Keys -> Vecs \cup {None}]
      /\ meta' \in [Keys -> Metas \cup {None, Absent}]
  BY <1>1 DEF IInv, TypeOK
<1>6. TypeOK'
  BY <1>1, <1>4, <1>5 DEF IInv, TypeOK, Resolved
<1> QED
  BY <1>1, <1>2, <1>3, <1>6 DEF IInv, CacheInv, Resolved

\* A step of a session that changes nothing of the overlay but its vectors.
LEMMA VectorsKeep ==
  ASSUME IInv, edits < MaxEdits, edits' = edits + 1, vec' \in [Keys -> Vecs \cup {None}],
         UNCHANGED <<patches, queueVars, meta, gate, deleted, cache>>
  PROVE  IInv'
<1>1. /\ cache' = cache /\ gate' = gate
      /\ patches' = patches /\ queue' = queue /\ pos' = pos /\ touched' = touched
      /\ meta' = meta /\ deleted' = deleted
  BY DEF queueVars
<1>2. CacheInv' /\ cache' = [l \in Layers |-> cache'[l]]
  BY <1>1, SameKeepsCache
<1>3. edits' \in 0 .. MaxEdits
  BY BoundsAssumption DEF IInv, TypeOK
<1>4. TypeOK'
  BY <1>1, <1>3 DEF IInv, TypeOK, Resolved
<1> QED
  BY <1>1, <1>2, <1>4 DEF IInv, Resolved

-----------------------------------------------------------------------------
(* Recording *)

\* ensure_patch_session and what a statement records.
LEMMA EnsureKeeps ==
  ASSUME SessionTypeOK, NEW ops \in Seq(Op), EnsureSession(ops)
  PROVE  /\ Ensured \in Logged /\ rec' \in Logged /\ rec' # None /\ auto' \in BOOLEAN
         /\ rec'.path = Ensured.path /\ rec'.ops = Ensured.ops \o ops
         /\ auto' => rec'.path = ""
<1>1. Ensured \in Logged
  <2>1. CASE rec = None
    BY <2>1, EmptySeq DEF Ensured, Logged
  <2>2. CASE rec # None
    BY <2>2 DEF Ensured, SessionTypeOK
  <2> QED
    BY <2>1, <2>2
<1>2. PICK E \in Logged : E = Ensured
  BY <1>1
<1>3. E.path \in Paths \cup {""} /\ E.ops \in Seq(Op) /\ E.ops \o ops \in Seq(Op)
  <2>1. E.path \in Paths \cup {""} /\ E.ops \in Seq(Op)
    BY DEF Logged
  <2> QED
    BY <2>1, ConcatProperties
<1>4. rec' = [E EXCEPT !.ops = E.ops \o ops]
  BY <1>2 DEF EnsureSession
<1>5. rec' \in Logged /\ rec'.path = E.path /\ rec'.ops = E.ops \o ops
  BY <1>3, <1>4 DEF Logged
<1>6. ASSUME auto' PROVE E.path = ""
  <2>1. CASE rec = None
    <3>1. E = [path |-> "", ops |-> <<>>]
      BY <1>2, <2>1 DEF Ensured
    <3> QED
      BY <3>1
  <2>2. CASE rec # None
    <3>1. auto
      BY <1>6, <2>2 DEF EnsureSession
    <3>2. E = rec
      BY <1>2, <2>2 DEF Ensured
    <3> QED
      BY <2>2, <3>1, <3>2 DEF SessionTypeOK
  <2> QED
    BY <2>1, <2>2
<1>7. auto' \in BOOLEAN
  BY DEF EnsureSession, SessionTypeOK
<1> QED
  BY <1>2, <1>5, <1>6, <1>7, LoggedAssumption

\* A statement that records some operations and changes nothing else of the session.
LEMMA RecordingKeepsType ==
  ASSUME SessionTypeOK, NEW ops \in Seq(Op), EnsureSession(ops), files' = files, closed' = closed,
         todo' = todo, plain' \in BOOLEAN, raw' \subseteq Keys, edges' \subseteq raw'
  PROVE  SessionTypeOK'
BY EnsureKeeps DEF SessionTypeOK

\* One operation, of each kind.
LEMMA InsertOpIsOp ==
  ASSUME NEW k \in Keys, NEW m \in Metas, NEW S, k \in S, NEW G \in [S -> Gates], NEW V \in [S -> Vecs]
  PROVE  InsertOp(k, m, G, V) \in Op /\ <<InsertOp(k, m, G, V)>> \in Seq(Op)
<1>1. InsertOp(k, m, G, V) \in Op
  BY DEF InsertOp, Op
<1> QED
  BY <1>1

LEMMA OtherOpsAreOps ==
  /\ \A l \in Layers, e \in KnnEntries :
       [op |-> "insert_knn", layer |-> l, entry |-> e] \in Op
       /\ <<[op |-> "insert_knn", layer |-> l, entry |-> e]>> \in Seq(Op)
  /\ \A k \in Keys : [op |-> "delete", key |-> k] \in Op /\ <<[op |-> "delete", key |-> k]>> \in Seq(Op)
  /\ \A k \in Keys, m \in Metas :
       [op |-> "update", key |-> k, meta |-> m, gate |-> None, vec |-> None] \in Op
       /\ <<[op |-> "update", key |-> k, meta |-> m, gate |-> None, vec |-> None]>> \in Seq(Op)
<1>1. \A l \in Layers, e \in KnnEntries : [op |-> "insert_knn", layer |-> l, entry |-> e] \in Op
  BY DEF Op
<1>2. \A k \in Keys : [op |-> "delete", key |-> k] \in Op
  BY DEF Op
<1>3. \A k \in Keys, m \in Metas :
        [op |-> "update", key |-> k, meta |-> m, gate |-> None, vec |-> None] \in Op
  BY DEF Op
<1> QED
  BY <1>1, <1>2, <1>3

\* What refresh_recorded_patch_ops_for_slots makes of an operation.
Reworked(x, y) ==
  \/ y = x
  \/ /\ x.op = "insert" /\ y.op = "insert" /\ y.key = x.key /\ y.meta = x.meta

LEMMA RefreshedIs ==
  ASSUME NEW ops \in Seq(Op), NEW S \in SUBSET Keys,
         NEW G \in [Keys -> Gates \cup {None}], NEW V \in [Keys -> Vecs \cup {None}]
  PROVE  /\ Refreshed(ops, S, G, V) \in Seq(Op) /\ Len(Refreshed(ops, S, G, V)) = Len(ops)
         /\ \A i \in DOMAIN ops : Reworked(ops[i], Refreshed(ops, S, G, V)[i])
<1>1. PICK n \in Nat : n = Len(ops) /\ DOMAIN ops = 1 .. n
  BY LenProperties
<1>2. ASSUME NEW i \in DOMAIN ops
      PROVE  Refreshed(ops, S, G, V)[i] \in Op /\ Reworked(ops[i], Refreshed(ops, S, G, V)[i])
  <2>1. PICK x \in Op : x = ops[i]
    BY ElementOfSeq, <1>1
  <2>2. PICK y : y = Refreshed(ops, S, G, V)[i]
    OBVIOUS
  <2>3. y = IF x.op = "insert" /\ x.key \in S
            THEN [x EXCEPT !.gate = Given(G[x.key], x.gate), !.vec = Given(V[x.key], x.vec)]
            ELSE x
    BY <2>1, <2>2 DEF Refreshed
  <2>4. CASE x.op = "insert" /\ x.key \in S
    <3>1. /\ x.key \in Keys /\ x.meta \in Metas \cup {None}
          /\ x.gate \in Gates \cup {None} /\ x.vec \in Vecs \cup {None}
      BY <2>4, OpFields
    <3>2. x = [op |-> "insert", key |-> x.key, meta |-> x.meta, gate |-> x.gate, vec |-> x.vec]
      BY <2>4 DEF Op
    <3>3. PICK g \in Gates \cup {None}, v \in Vecs \cup {None} :
            g = Given(G[x.key], x.gate) /\ v = Given(V[x.key], x.vec)
      BY <3>1, GivenType
    <3>4. y = [op |-> "insert", key |-> x.key, meta |-> x.meta, gate |-> g, vec |-> v]
      BY <2>3, <2>4, <3>2, <3>3
    <3> QED
      BY <2>1, <2>2, <2>4, <3>1, <3>4 DEF Op, Reworked
  <2> QED
    BY <2>1, <2>2, <2>3, <2>4 DEF Reworked
<1>3. PICK t : t = Refreshed(ops, S, G, V)
  OBVIOUS
<1>4. t = [i \in 1 .. n |-> t[i]] /\ \A i \in 1 .. n : t[i] \in Op
  BY <1>1, <1>2, <1>3 DEF Refreshed
<1>5. t \in Seq(Op) /\ Len(t) = n
  BY <1>1, <1>4, IsASeq, LenProperties
<1> QED
  BY <1>1, <1>2, <1>3, <1>5

-----------------------------------------------------------------------------
(* Statements keep the types and the overlay's invariant *)

\* A statement that leaves the store alone, and stuttering.
LEMMA StoreSame == ASSUME KnnInv, UNCHANGED knnVars PROVE KnnInv'
BY KnnInvNext

\* INSERT in compose mode, whether balancing succeeds or fails after the install.
LEMMA InsertComposeKeeps ==
  ASSUME SInv, NEW l \in Layers, NEW m \in Metas, InsertCompose(l, m)
  PROVE  SInv'
<1>1. Resolved /\ FindFree(l) # None /\ UNCHANGED knnVars /\ UNCHANGED <<files, todo, closed>>
  BY DEF InsertCompose, Ready
<1>2. PICK G \in [Slots(l) -> Gates], V \in [Slots(l) -> Vecs] :
        LET k == <<l, FindFree(l)>>
        IN /\ Install(k, m, G, V)
           /\ Captured(k)
           /\ \/ EnsureSession(<<InsertOp(k, m, G, V)>>) /\ Registered(k) /\ UNCHANGED plain
              \/ BalanceFails /\ EnsureSession(<<>>) /\ plain' = FALSE /\ UNCHANGED edges
  BY DEF InsertCompose
<1>3. PICK k : k = <<l, FindFree(l)>>
  OBVIOUS
<1>4. /\ k \in Keys /\ k \in Slots(l) /\ Slots(l) \in SUBSET Keys /\ \A x \in Slots(l) : x[1] = k[1]
  BY <1>1, <1>3, SlotsOfLayer DEF SInv, SessionTypeOK
<1>5. IInv'
  BY <1>1, <1>2, <1>3, <1>4, InstallKeeps DEF SInv
<1>6. KnnInv'
  BY <1>1, StoreSame DEF SInv
<1>7. raw \subseteq raw' /\ raw' \subseteq Keys /\ edges \subseteq raw' /\ (Weighted => k \in raw')
  BY <1>2, <1>3, <1>4 DEF Captured, SInv, SessionTypeOK
<1>8. CASE EnsureSession(<<InsertOp(k, m, G, V)>>) /\ Registered(k) /\ UNCHANGED plain
  <2>1. edges' \subseteq raw'
    BY <1>7, <1>8 DEF Registered
  <2>2. <<InsertOp(k, m, G, V)>> \in Seq(Op)
    BY <1>4, InsertOpIsOp
  <2>3. plain' \in BOOLEAN
    BY <1>8 DEF SInv, SessionTypeOK
  <2>4. SessionTypeOK'
    BY <1>1, <1>7, <1>8, <2>1, <2>2, <2>3, RecordingKeepsType DEF SInv
  <2> QED
    BY <1>5, <1>6, <2>4 DEF SInv
<1>9. CASE BalanceFails /\ EnsureSession(<<>>) /\ plain' = FALSE /\ UNCHANGED edges
  <2>1. <<>> \in Seq(Op) /\ edges' \subseteq raw'
    BY <1>7, <1>9
  <2>2. SessionTypeOK'
    BY <1>1, <1>7, <1>9, <2>1, RecordingKeepsType DEF SInv
  <2> QED
    BY <1>5, <1>6, <2>2 DEF SInv
<1> QED
  BY <1>2, <1>3, <1>8, <1>9

\* INSERT in store mode.
LEMMA InsertKnnKeeps ==
  ASSUME SInv, NEW l \in Layers, NEW e \in KnnEntries, InsertKnn(l, e)
  PROVE  SInv'
<1>1. /\ edits < MaxEdits /\ edits' = edits + 1 /\ Add(l, e)
      /\ EnsureSession(<<[op |-> "insert_knn", layer |-> l, entry |-> e]>>)
      /\ UNCHANGED <<patches, queueVars, maps, cache, files, applied, raw, edges, todo, closed, plain>>
  BY DEF InsertKnn
<1>2. IInv'
  <2>1. UNCHANGED <<patches, queueVars, meta, gate, deleted, cache>> /\ vec' \in [Keys -> Vecs \cup {None}]
    BY <1>1 DEF maps, SInv, IInv, TypeOK
  <2> QED
    BY <1>1, <2>1, VectorsKeep DEF SInv
<1>3. KnnInv'
  BY <1>1, AddKeeps DEF SInv
<1>4. SessionTypeOK'
  <2>1. <<[op |-> "insert_knn", layer |-> l, entry |-> e]>> \in Seq(Op)
    BY OtherOpsAreOps
  <2>2. plain' \in BOOLEAN /\ raw' \subseteq Keys /\ edges' \subseteq raw'
    BY <1>1 DEF SInv, SessionTypeOK
  <2> QED
    BY <1>1, <2>1, <2>2, RecordingKeepsType DEF SInv
<1> QED
  BY <1>2, <1>3, <1>4 DEF SInv

LEMMA DeleteEdgeKeeps == ASSUME SInv, NEW k \in Keys, DeleteEdge(k) PROVE SInv'
<1>1. /\ DeleteFeature(k) /\ EnsureSession(<<[op |-> "delete", key |-> k]>>)
      /\ UNCHANGED <<files, applied, raw, edges, todo, closed, plain>>
  BY DEF DeleteEdge
<1>2. IInv' /\ KnnInv'
  BY <1>1, DeleteFeatureKeeps, StoreSame DEF SInv, DeleteFeature, Editing
<1>3. SessionTypeOK'
  <2>1. <<[op |-> "delete", key |-> k]>> \in Seq(Op)
    BY OtherOpsAreOps
  <2>2. plain' \in BOOLEAN /\ raw' \subseteq Keys /\ edges' \subseteq raw'
    BY <1>1 DEF SInv, SessionTypeOK
  <2> QED
    BY <1>1, <2>1, <2>2, RecordingKeepsType DEF SInv
<1> QED
  BY <1>2, <1>3 DEF SInv

LEMMA UpdateEdgeKeeps == ASSUME SInv, NEW k \in Keys, NEW m \in Metas, UpdateEdge(k, m) PROVE SInv'
<1>1. /\ UpdateFeatureMeta(k, m)
      /\ EnsureSession(<<[op |-> "update", key |-> k, meta |-> m, gate |-> None, vec |-> None]>>)
      /\ UNCHANGED <<files, applied, raw, edges, todo, closed, plain>>
  BY DEF UpdateEdge
<1>2. IInv' /\ KnnInv'
  BY <1>1, UpdateMetaKeeps, StoreSame DEF SInv, UpdateFeatureMeta, Editing
<1>3. SessionTypeOK'
  <2>1. <<[op |-> "update", key |-> k, meta |-> m, gate |-> None, vec |-> None]>> \in Seq(Op)
    BY OtherOpsAreOps
  <2>2. plain' \in BOOLEAN /\ raw' \subseteq Keys /\ edges' \subseteq raw'
    BY <1>1 DEF SInv, SessionTypeOK
  <2> QED
    BY <1>1, <2>1, <2>2, RecordingKeepsType DEF SInv
<1> QED
  BY <1>2, <1>3 DEF SInv

LEMMA MergeEdgeKeeps == ASSUME SInv, NEW k \in Keys, NEW m \in Metas, MergeEdge(k, m) PROVE SInv'
<1>1. /\ UpdateFeatureMeta(k, m) /\ plain' = FALSE
      /\ UNCHANGED <<rec, auto, files, applied, raw, edges, todo, closed>>
  BY DEF MergeEdge, Unrecorded
<1>2. IInv' /\ KnnInv'
  BY <1>1, UpdateMetaKeeps, StoreSame DEF SInv, UpdateFeatureMeta, Editing
<1>3. SessionTypeOK'
  BY <1>1 DEF SInv, SessionTypeOK
<1> QED
  BY <1>2, <1>3 DEF SInv

LEMMA MatchesNothingKeeps == ASSUME SInv, MatchesNothing PROVE SInv'
<1>1. EnsureSession(<<>>) /\ UNCHANGED <<vars, files, applied, raw, edges, todo, closed, plain>>
  BY DEF MatchesNothing
<1>2. IInv' /\ KnnInv'
  BY <1>1, FrameKeeps, StoreSame DEF SInv, vars
<1>3. SessionTypeOK'
  <2>1. plain' \in BOOLEAN /\ raw' \subseteq Keys /\ edges' \subseteq raw'
    BY <1>1 DEF SInv, SessionTypeOK
  <2>2. <<>> \in Seq(Op)
    OBVIOUS
  <2> QED
    BY <1>1, <2>1, <2>2, RecordingKeepsType DEF SInv
<1> QED
  BY <1>2, <1>3 DEF SInv

\* REBALANCE writes vectors of installed edges, and refreshes their recorded inserts.
LEMMA RebalanceKeeps ==
  ASSUME SInv, Rebalance
  PROVE  SInv' /\ (rec # None => /\ rec' # None /\ rec'.path = rec.path
                                 /\ rec'.ops \in Seq(Op) /\ Len(rec'.ops) = Len(rec.ops)
                                 /\ \A i \in DOMAIN rec.ops : Reworked(rec.ops[i], rec'.ops[i]))
<1>1. /\ edits < MaxEdits /\ edits' = edits + 1
      /\ \E V \in [edges -> Vecs] :
           vec' = [x \in Keys |-> IF x \in edges /\ vec[x] # None THEN V[x] ELSE vec[x]]
      /\ rec' = IF rec = None THEN None ELSE [rec EXCEPT !.ops = Refreshed(rec.ops, edges, gate, vec')]
      /\ UNCHANGED <<patches, queueVars, meta, gate, deleted, cache, knnVars>>
      /\ UNCHANGED <<auto, files, applied, raw, edges, todo, closed, plain>>
  BY DEF Rebalance
<1>2. vec' \in [Keys -> Vecs \cup {None}] /\ gate \in [Keys -> Gates \cup {None}] /\ edges \in SUBSET Keys
  BY <1>1 DEF SInv, SessionTypeOK, IInv, TypeOK
<1>3. IInv' /\ KnnInv'
  BY <1>1, <1>2, VectorsKeep, StoreSame DEF SInv
<1>4. rec # None =>
        /\ rec' \in Logged /\ rec' # None /\ rec'.path = rec.path
        /\ rec'.ops \in Seq(Op) /\ Len(rec'.ops) = Len(rec.ops)
        /\ \A i \in DOMAIN rec.ops : Reworked(rec.ops[i], rec'.ops[i])
  <2> SUFFICES ASSUME rec # None
               PROVE  /\ rec' \in Logged /\ rec' # None /\ rec'.path = rec.path
                      /\ rec'.ops \in Seq(Op) /\ Len(rec'.ops) = Len(rec.ops)
                      /\ \A i \in DOMAIN rec.ops : Reworked(rec.ops[i], rec'.ops[i])
    OBVIOUS
  <2>1. rec.path \in Paths \cup {""} /\ rec.ops \in Seq(Op) /\ rec \in Logged
    BY DEF SInv, SessionTypeOK, Logged
  <2>2. PICK t : t = Refreshed(rec.ops, edges, gate, vec')
    OBVIOUS
  <2>3. /\ t \in Seq(Op) /\ Len(t) = Len(rec.ops)
        /\ \A i \in DOMAIN rec.ops : Reworked(rec.ops[i], t[i])
    BY <1>2, <2>1, <2>2, RefreshedIs
  <2>4. rec' = [rec EXCEPT !.ops = t]
    BY <1>1, <2>2
  <2>5. rec' \in Logged /\ rec'.path = rec.path /\ rec'.ops = t
    BY <2>1, <2>3, <2>4 DEF Logged
  <2> QED
    BY <2>3, <2>5, LoggedAssumption
<1>5. SessionTypeOK'
  BY <1>1, <1>4 DEF SInv, SessionTypeOK
<1> QED
  BY <1>3, <1>4, <1>5 DEF SInv

\* COMPACT MINOR: the entries there are, and the promotion of one of them.
LEMMA PromoteKeeps ==
  ASSUME SInv, NEW x \in todo, Promote(x) \/ PromotionFailsLate(x)
  PROVE  SInv' /\ (rec # None => \/ rec' = rec
                                 \/ \E o \in Op : rec'.path = rec.path /\ rec'.ops = Append(rec.ops, o))
<1>1. Resolved /\ FindFree(x[1]) # None /\ x[1] \in Layers /\ x[2] \in KnnEntries /\ x[2].target \in Metas
  BY FactsAssumption DEF Promote, PromotionFailsLate, SInv, SessionTypeOK
<1>2. PICK l, k, m : l = x[1] /\ k = <<l, FindFree(l)>> /\ m = x[2].target
  OBVIOUS
<1>3. PICK G \in [Slots(l) -> Gates], V \in [Slots(l) -> Vecs] :
        /\ Install(k, m, G, V) /\ Captured(k)
        /\ \/ /\ Registered(k) /\ auto' = auto
              /\ rec' = IF rec = None THEN None ELSE [rec EXCEPT !.ops = Append(rec.ops, InsertOp(k, m, G, V))]
           \/ UNCHANGED <<rec, auto, edges>>
  BY <1>2 DEF Promote, PromotionFailsLate
<1>4. /\ k \in Keys /\ k \in Slots(l) /\ Slots(l) \in SUBSET Keys /\ \A y \in Slots(l) : y[1] = k[1]
  BY <1>1, <1>2, SlotsOfLayer DEF SInv, SessionTypeOK
<1>5. IInv'
  BY <1>1, <1>2, <1>3, <1>4, InstallKeeps DEF SInv
<1>6. KnnInv'
  BY RemoveKeeps, StoreSame DEF SInv, Promote, PromotionFailsLate
<1>7. UNCHANGED <<files, closed>> /\ todo' = todo \ {x} /\ plain' = FALSE
  BY DEF Promote, PromotionFailsLate
<1>8. raw \subseteq raw' /\ raw' \subseteq Keys /\ edges' \subseteq raw'
  BY <1>3, <1>4 DEF Captured, Registered, SInv, SessionTypeOK
<1>9. InsertOp(k, m, G, V) \in Op
  BY <1>1, <1>2, <1>4, InsertOpIsOp
<1>10. auto' = auto /\ (rec = None => rec' = None)
       /\ (rec # None => /\ rec' \in Logged /\ rec' # None /\ rec'.path = rec.path
                         /\ \/ rec' = rec
                            \/ rec'.ops = Append(rec.ops, InsertOp(k, m, G, V)))
  <2>1. CASE UNCHANGED <<rec, auto, edges>>
    BY <2>1 DEF SInv, SessionTypeOK
  <2>2. CASE auto' = auto /\ rec = None /\ rec' = None
    BY <2>2
  <2>3. CASE auto' = auto /\ rec # None /\ rec' = [rec EXCEPT !.ops = Append(rec.ops, InsertOp(k, m, G, V))]
    <3>1. rec \in Logged /\ rec.path \in Paths \cup {""} /\ rec.ops \in Seq(Op)
      BY <2>3 DEF SInv, SessionTypeOK, Logged
    <3>2. PICK t \in Seq(Op) : t = Append(rec.ops, InsertOp(k, m, G, V))
      BY <1>9, <3>1, AppendProperties
    <3>3. rec' = [rec EXCEPT !.ops = t]
      BY <2>3, <3>2
    <3>4. rec' \in Logged /\ rec'.path = rec.path /\ rec'.ops = t
      BY <3>1, <3>3 DEF Logged
    <3> QED
      BY <2>3, <3>2, <3>4, LoggedAssumption
  <2> QED
    BY <1>3, <2>1, <2>2, <2>3
<1>11. SessionTypeOK'
  BY <1>7, <1>8, <1>10 DEF SInv, SessionTypeOK
<1> QED
  BY <1>5, <1>6, <1>9, <1>10, <1>11 DEF SInv

LEMMA CompactKeeps ==
  ASSUME SInv, CompactMinor \/ (\E x \in todo : PromotionFails(x))
  PROVE  SInv'
<1>1. UNCHANGED <<vars, rec, auto, files, applied, raw, edges, closed, plain>>
      /\ todo' \subseteq Layers \X KnnEntries
  BY DEF CompactMinor, PromotionFails, SInv, SessionTypeOK
<1>2. IInv' /\ KnnInv'
  BY <1>1, FrameKeeps, StoreSame DEF SInv, vars
<1> QED
  BY <1>1, <1>2 DEF SInv, SessionTypeOK

\* USE begins a fresh overlay.
LEMMA UseKeeps == ASSUME SInv, Use PROVE SInv'
<1>1. /\ edits < MaxEdits /\ edits' = edits + 1
      /\ patches' = <<>> /\ queue' = <<>> /\ pos' = 1 /\ touched' = {}
      /\ meta' = [k \in Keys |-> Absent] /\ gate' = [k \in Keys |-> None] /\ deleted' = {}
      /\ vec' = [k \in Keys |-> None] /\ Invalidate(Layers) /\ KnnReset
      /\ rec' = None /\ auto' = FALSE /\ closed' = <<>> /\ plain' = TRUE
      /\ UNCHANGED <<files, raw, edges, todo>>
  BY DEF Use
<1>2. cache' = [l \in Layers |-> None]
  BY <1>1 DEF Invalidate
<1>3. edits' \in 0 .. MaxEdits
  BY <1>1, BoundsAssumption DEF SInv, IInv, TypeOK
<1>4. TypeOK'
  BY <1>1, <1>3 DEF TypeOK, Resolved
<1>5. IInv'
  BY <1>1, <1>2, <1>4 DEF IInv, CacheInv
<1>6. KnnInv'
  BY <1>1, ResetKeeps DEF SInv
<1>7. <<>> \in Seq(Op)
  OBVIOUS
<1>8. SessionTypeOK'
  BY <1>1, <1>7 DEF SInv, SessionTypeOK
<1> QED
  BY <1>5, <1>6, <1>8 DEF SInv

-----------------------------------------------------------------------------
(* Patch statements *)

LEMMA BeginPatchKeeps ==
  ASSUME SInv, NEW p \in Paths, BeginPatch(p)
  PROVE  SInv' /\ rec' # None /\ (rec # None => rec.path = "" /\ rec'.ops = rec.ops)
               /\ (rec = None => rec'.ops = <<>>)
<1>1. /\ rec = None \/ auto
      /\ rec' = [path |-> p, ops |-> IF auto /\ rec # None THEN rec.ops ELSE <<>>]
      /\ auto' = FALSE /\ UNCHANGED <<vars, files, applied, raw, edges, todo, closed, plain>>
  BY DEF BeginPatch
<1>2. IInv' /\ KnnInv'
  BY <1>1, FrameKeeps, StoreSame DEF SInv, vars
<1>3. <<>> \in Seq(Op)
  OBVIOUS
<1>4. PICK t \in Seq(Op) : t = IF auto /\ rec # None THEN rec.ops ELSE <<>>
  <2>1. rec # None => rec.ops \in Seq(Op)
    BY DEF SInv, SessionTypeOK, Logged
  <2> QED
    BY <1>3, <2>1
<1>5. rec' \in Logged /\ rec' # None /\ rec'.ops = t
  <2>1. rec' = [path |-> p, ops |-> t]
    BY <1>1, <1>4
  <2>2. rec' \in Logged /\ rec'.ops = t
    BY <2>1 DEF Logged
  <2> QED
    BY <2>2, LoggedAssumption
<1>6. SessionTypeOK'
  BY <1>1, <1>5 DEF SInv, SessionTypeOK
<1>7. rec # None => auto /\ rec.path = ""
  BY <1>1 DEF SInv, SessionTypeOK
<1> QED
  BY <1>2, <1>4, <1>5, <1>6, <1>7 DEF SInv

LEMMA SavePatchKeeps == ASSUME SInv, NEW written, SavePatch(written) PROVE SInv'
<1>1. /\ rec # None /\ rec' = None /\ closed' = closed \o rec.ops
      /\ \/ rec.path # "" /\ files' = [files EXCEPT ![rec.path] = [ops |-> rec.ops, description |-> None]]
            /\ auto' = FALSE
         \/ UNCHANGED <<files, auto>>
      /\ UNCHANGED <<vars, applied, raw, edges, todo, plain>>
  BY DEF SavePatch
<1>2. IInv' /\ KnnInv'
  BY <1>1, FrameKeeps, StoreSame DEF SInv, vars
<1>3. rec.ops \in Seq(Op) /\ rec.path \in Paths \cup {""}
  BY <1>1 DEF SInv, SessionTypeOK, Logged
<1>4. closed' \in Seq(Op)
  BY <1>1, <1>3, ConcatProperties DEF SInv, SessionTypeOK
<1>5. DOMAIN files' = Paths /\ \A p \in Paths : files'[p] # None => files'[p].ops \in Seq(Op)
  <2>1. DOMAIN files = Paths /\ \A p \in Paths : files[p] # None => files[p].ops \in Seq(Op)
    BY DEF SInv, SessionTypeOK
  <2>2. PICK f : f = [ops |-> rec.ops, description |-> None]
    OBVIOUS
  <2>3. f.ops \in Seq(Op)
    BY <1>3, <2>2
  <2>4. CASE rec.path # "" /\ files' = [files EXCEPT ![rec.path] = f]
    BY <2>1, <2>3, <2>4
  <2> QED
    BY <1>1, <2>1, <2>2, <2>4
<1>6. SessionTypeOK'
  BY <1>1, <1>4, <1>5 DEF SInv, SessionTypeOK
<1> QED
  BY <1>2, <1>6 DEF SInv

LEMMA ApplyFileKeeps == ASSUME SInv, NEW p \in Paths, ApplyFile(p) PROVE SInv'
<1>1. /\ files[p] # None /\ ApplyPatch(files[p].ops) /\ plain' = FALSE
      /\ UNCHANGED <<rec, auto, files, raw, edges, todo, closed>>
  BY DEF ApplyFile
<1>2. files[p].ops \in Seq(Op) /\ UNCHANGED knnVars
  BY <1>1 DEF SInv, SessionTypeOK, ApplyPatch
<1>3. IInv' /\ KnnInv'
  BY <1>1, <1>2, ApplyKeeps, StoreSame DEF SInv
<1> QED
  BY <1>1, <1>3 DEF SInv, SessionTypeOK

LEMMA RemoveFileKeeps == ASSUME SInv, NEW p \in Paths, RemoveFile(p) PROVE SInv'
<1>1. PICK i : RemovePatch(i)
  BY DEF RemoveFile
<1>2. plain' = FALSE /\ UNCHANGED <<rec, auto, files, raw, edges, todo, closed>> /\ KnnReset
  BY <1>1 DEF RemoveFile, RemovePatch
<1>3. IInv' /\ KnnInv'
  BY <1>1, <1>2, RemoveKeepsOverlay, ResetKeeps DEF SInv
<1> QED
  BY <1>2, <1>3 DEF SInv, SessionTypeOK

-----------------------------------------------------------------------------
(* The invariant, and what it says of the overlay under a session *)

LEMMA SInvInit == LqlInit => SInv
<1> SUFFICES ASSUME LqlInit PROVE SInv
  OBVIOUS
<1>1. IInv /\ KnnInv
  BY OverlayInit, KnnInvInit DEF LqlInit, Init
<1>2. <<>> \in Seq(Op)
  OBVIOUS
<1>3. SessionTypeOK
  BY <1>2, DiskAssumption DEF LqlInit, SessionTypeOK
<1> QED
  BY <1>1, <1>3 DEF SInv

\* Resolving and reading are steps of the overlay.
LEMMA OverlayStepKeeps ==
  ASSUME SInv, Resolve \/ (\E l \in Layers : GateQuery(l)), UNCHANGED lqlVars
  PROVE  SInv'
<1>1. [Next]_vars
  BY DEF Next
<1>2. IInv' /\ KnnInv'
  BY <1>1, OverlayNext, StoreNext DEF SInv, IInv
<1> QED
  BY <1>2 DEF SInv, SessionTypeOK, lqlVars

LEMMA SInvNext == SInv /\ [LqlNext]_sessionVars => SInv'
<1> SUFFICES ASSUME SInv, [LqlNext]_sessionVars PROVE SInv'
  OBVIOUS
<1>1. CASE Statement
  BY <1>1, InsertComposeKeeps, InsertKnnKeeps, DeleteEdgeKeeps, UpdateEdgeKeeps, MergeEdgeKeeps,
     RebalanceKeeps, CompactKeeps, PromoteKeeps, MatchesNothingKeeps, UseKeeps DEF Statement
<1>2. CASE PatchStatement
  BY <1>2, BeginPatchKeeps, SavePatchKeeps, ApplyFileKeeps, RemoveFileKeeps DEF PatchStatement
<1>3. CASE (Resolve \/ \E l \in Layers : GateQuery(l)) /\ UNCHANGED lqlVars
  BY <1>3, OverlayStepKeeps
<1>4. CASE UNCHANGED sessionVars
  <2>1. IInv' /\ KnnInv'
    BY <1>4, FrameKeeps, StoreSame DEF SInv, sessionVars, vars
  <2> QED
    BY <1>4, <2>1 DEF SInv, SessionTypeOK, sessionVars, lqlVars
<1> QED
  BY <1>1, <1>2, <1>3, <1>4 DEF LqlNext

\* A session's variables keep their types, and so do those of the overlay under it.
THEOREM SessionType == LqlSpec => [](SessionTypeOK /\ TypeOK)
<1>1. SInv => SessionTypeOK /\ TypeOK
  BY DEF SInv, IInv
<1> QED
  BY <1>1, SInvInit, SInvNext, PTL DEF LqlSpec

\* No statement of a session leaves a gate matrix of other overrides behind: install_slots
\* writes to several slots, and all of them are of the layer whose matrix it drops.
THEOREM SessionKeepsCache == LqlSpec => []CacheInStep
<1>1. SInv => CacheInStep
  BY DEF SInv, IInv, CacheInv, CacheInStep
<1> QED
  BY <1>1, SInvInit, SInvNext, PTL DEF LqlSpec

-----------------------------------------------------------------------------
(* A recording only grows *)

\* One step of RecordingOnlyGrows.
Grows ==
  rec # None /\ rec' # None =>
    /\ Len(rec.ops) <= Len(rec'.ops)
    /\ \A i \in DOMAIN rec.ops : rec'.ops[i].op = rec.ops[i].op
    /\ rec'.path # rec.path => rec.path = "" /\ rec'.ops = rec.ops

\* A sequence keeps its elements when another is put behind it.
LEMMA ConcatKeeps ==
  ASSUME NEW S, NEW s \in Seq(S), NEW t \in Seq(S)
  PROVE  Len(s) <= Len(s \o t) /\ \A i \in DOMAIN s : (s \o t)[i] = s[i]
<1>1. /\ Len(s \o t) = Len(s) + Len(t) /\ Len(s) \in Nat /\ Len(t) \in Nat /\ DOMAIN s = 1 .. Len(s)
      /\ \A i \in 1 .. Len(s) + Len(t) : (s \o t)[i] = IF i <= Len(s) THEN s[i] ELSE t[i - Len(s)]
  BY ConcatProperties, LenProperties
<1>2. Len(s) <= Len(s \o t)
  BY <1>1
<1>3. ASSUME NEW i \in DOMAIN s PROVE (s \o t)[i] = s[i]
  <2>1. i \in 1 .. Len(s) + Len(t) /\ i <= Len(s)
    BY <1>1
  <2> QED
    BY <1>1, <2>1
<1> QED
  BY <1>2, <1>3

LEMMA EnsureGrows ==
  ASSUME SessionTypeOK, NEW ops \in Seq(Op), EnsureSession(ops), rec # None
  PROVE  Grows
<1>1. rec'.path = rec.path /\ rec'.ops = rec.ops \o ops /\ rec.ops \in Seq(Op)
  BY EnsureKeeps DEF Ensured, SessionTypeOK, Logged
<1> QED
  BY <1>1, ConcatKeeps DEF Grows

LEMMA StepGrows == ASSUME SInv, [LqlNext]_sessionVars, rec # None PROVE Grows
<1>1. rec \in Logged /\ rec.ops \in Seq(Op) /\ Len(rec.ops) \in Nat
  <2>1. rec \in Logged /\ rec.ops \in Seq(Op)
    BY DEF SInv, SessionTypeOK, Logged
  <2> QED
    BY <2>1, LenProperties
<1>2. ASSUME rec' = rec PROVE Grows
  BY <1>1, <1>2 DEF Grows
<1>3. ASSUME rec' = None PROVE Grows
  BY <1>3 DEF Grows
<1>4. ASSUME NEW ops \in Seq(Op), EnsureSession(ops) PROVE Grows
  BY <1>4, EnsureGrows DEF SInv
<1>5. <<>> \in Seq(Op)
  OBVIOUS
<1>6. ASSUME NEW l \in Layers, NEW m \in Metas, InsertCompose(l, m) PROVE Grows
  <2>1. <<l, FindFree(l)>> \in Keys /\ <<l, FindFree(l)>> \in Slots(l)
    BY <1>6, SlotsOfLayer DEF InsertCompose, SInv, SessionTypeOK
  <2>2. PICK k : k = <<l, FindFree(l)>>
    OBVIOUS
  <2>3. PICK G \in [Slots(l) -> Gates], V \in [Slots(l) -> Vecs] :
          EnsureSession(<<InsertOp(k, m, G, V)>>) \/ EnsureSession(<<>>)
    BY <1>6, <2>2 DEF InsertCompose
  <2>4. <<InsertOp(k, m, G, V)>> \in Seq(Op)
    BY <2>1, <2>2, InsertOpIsOp
  <2> QED
    BY <1>4, <1>5, <2>3, <2>4
<1>7. ASSUME NEW x \in todo, Promote(x) \/ PromotionFailsLate(x) PROVE Grows
  <2>1. CASE rec' = rec
    BY <1>2, <2>1
  <2>2. ASSUME NEW o \in Op, rec'.path = rec.path /\ rec'.ops = Append(rec.ops, o) PROVE Grows
    <3>1. Append(rec.ops, o) = rec.ops \o <<o>> /\ <<o>> \in Seq(Op)
      BY <1>1, AppendIsConcat
    <3> QED
      BY <1>1, <2>2, <3>1, ConcatKeeps DEF Grows
  <2> QED
    BY <1>7, <2>1, <2>2, PromoteKeeps
<1>8. CASE Rebalance
  <2>1. /\ rec'.path = rec.path /\ rec'.ops \in Seq(Op) /\ Len(rec'.ops) = Len(rec.ops)
        /\ \A i \in DOMAIN rec.ops : Reworked(rec.ops[i], rec'.ops[i])
    BY <1>8, RebalanceKeeps
  <2>2. \A i \in DOMAIN rec.ops : rec'.ops[i].op = rec.ops[i].op
    BY <2>1 DEF Reworked
  <2> QED
    BY <1>1, <2>1, <2>2 DEF Grows
<1>9. ASSUME NEW p \in Paths, BeginPatch(p) PROVE Grows
  <2>1. rec.path = "" /\ rec'.ops = rec.ops
    BY <1>9, BeginPatchKeeps
  <2>2. Len(rec.ops) <= Len(rec'.ops)
    <3>1. PICK n \in Nat : n = Len(rec.ops)
      BY <1>1
    <3>2. Len(rec'.ops) = n
      BY <2>1, <3>1
    <3> QED
      BY <3>1, <3>2
  <2>3. \A i \in DOMAIN rec.ops : rec'.ops[i].op = rec.ops[i].op
    BY <2>1
  <2> QED
    BY <2>1, <2>2, <2>3 DEF Grows
<1>10. ASSUME NEW l \in Layers, NEW e \in KnnEntries, InsertKnn(l, e) PROVE Grows
  BY <1>4, <1>10, OtherOpsAreOps DEF InsertKnn
<1>11. ASSUME NEW k \in Keys, DeleteEdge(k) PROVE Grows
  BY <1>4, <1>11, OtherOpsAreOps DEF DeleteEdge
<1>12. ASSUME NEW k \in Keys, NEW m \in Metas, UpdateEdge(k, m) PROVE Grows
  BY <1>4, <1>12, OtherOpsAreOps DEF UpdateEdge
<1>13. CASE MatchesNothing
  BY <1>4, <1>5, <1>13 DEF MatchesNothing
<1>14. CASE Use \/ (\E written \in BOOLEAN : SavePatch(written))
  BY <1>3, <1>14 DEF Use, SavePatch
<1>15. CASE \/ \E k \in Keys, m \in Metas : MergeEdge(k, m)
            \/ CompactMinor \/ (\E x \in todo : PromotionFails(x))
            \/ \E p \in Paths : ApplyFile(p) \/ RemoveFile(p)
            \/ UNCHANGED lqlVars
            \/ UNCHANGED sessionVars
  BY <1>2, <1>15 DEF MergeEdge, Unrecorded, CompactMinor, PromotionFails, ApplyFile, RemoveFile,
                     lqlVars, sessionVars
<1> QED
  BY <1>6, <1>7, <1>8, <1>9, <1>10, <1>11, <1>12, <1>13, <1>14, <1>15
  DEF LqlNext, Statement, PatchStatement

\* A recording that goes on keeps what it has, in order, and only an anonymous one gets
\* another path: for any statements in any order (ensure_patch_session, BEGIN PATCH,
\* refresh_recorded_patch_ops_for_slots).
THEOREM RecordingsOnlyGrow == LqlSpec => RecordingOnlyGrows
<1>1. SInv /\ [LqlNext]_sessionVars => [Grows]_sessionVars
  BY StepGrows DEF Grows
<1> QED
  BY <1>1, SInvInit, SInvNext, PTL DEF LqlSpec, RecordingOnlyGrows, Grows

-----------------------------------------------------------------------------
(* The recording replays.  In between statements nothing of the overlay is         *)
(* unrecorded: what is inductive is that a session that never applied, removed,    *)
(* merged or promoted anything is at rest and is the replay of what it recorded.   *)

PlainInv ==
  plain => /\ Resolved
           /\ ReplaysMaps(Recorded)
           /\ raw = {} => ReplaysGates(Recorded) /\ ReplaysVectors(Recorded)

\* What is recorded, and one more operation.
LEMMA RecordedType == ASSUME SessionTypeOK PROVE Recorded \in Seq(Op)
<1>1. closed \in Seq(Op) /\ (rec # None => rec.ops \in Seq(Op))
  BY DEF SessionTypeOK, Logged
<1>2. <<>> \in Seq(Op)
  OBVIOUS
<1> QED
  BY <1>1, <1>2, ConcatProperties DEF Recorded

LEMMA RecordedEnsured ==
  ASSUME SessionTypeOK, NEW ops \in Seq(Op), EnsureSession(ops), closed' = closed
  PROVE  Recorded' = Recorded \o ops
<1>1. PICK c \in Seq(Op), s \in Seq(Op) : c = closed /\ s = Ensured.ops
  BY EnsureKeeps DEF SessionTypeOK, Logged
<1>2. Recorded = c \o s
  BY <1>1 DEF Recorded, Ensured
<1>3. Recorded' = c \o (s \o ops)
  BY <1>1, EnsureKeeps DEF Recorded
<1>4. c \o (s \o ops) = (c \o s) \o ops
  BY ConcatAssociative
<1> QED
  BY <1>2, <1>3, <1>4

LEMMA RecordedMore ==
  ASSUME SessionTypeOK, NEW x \in Op, EnsureSession(<<x>>), closed' = closed
  PROVE  Recorded' = Append(Recorded, x)
<1>1. <<x>> \in Seq(Op) /\ Recorded \in Seq(Op)
  BY RecordedType
<1>2. PICK s \in Seq(Op) : s = Recorded
  BY <1>1
<1>3. Recorded' = s \o <<x>>
  BY <1>1, <1>2, RecordedEnsured
<1>4. Append(s, x) = s \o <<x>>
  BY AppendIsConcat
<1> QED
  BY <1>2, <1>3, <1>4

LEMMA RecordedNothing ==
  ASSUME SessionTypeOK, EnsureSession(<<>>), closed' = closed
  PROVE  Recorded' = Recorded
<1>1. <<>> \in Seq(Op)
  OBVIOUS
<1>2. Recorded' = Recorded \o <<>>
  BY <1>1, RecordedEnsured
<1> QED
  BY <1>2, RecordedType, ConcatEmptySeq

\* A step that changes neither what is recorded nor the overlay.
LEMMA PlainSame ==
  ASSUME PlainInv, Recorded' = Recorded, raw' = raw, plain' => plain,
         UNCHANGED <<queue, meta, deleted, gate, vec, knn>>
  PROVE  PlainInv'
<1>1. PICK ops : ops = Recorded
  OBVIOUS
<1>2. Recorded' = ops
  BY <1>1
<1>3. /\ ReplaysMaps(ops) => ReplaysMaps(ops)'
      /\ ReplaysGates(ops) => ReplaysGates(ops)'
      /\ ReplaysVectors(ops) => ReplaysVectors(ops)'
  BY DEF ReplaysMaps, ReplaysGates, ReplaysVectors
<1>4. Resolved => Resolved'
  BY DEF Resolved
<1> QED
  BY <1>1, <1>2, <1>3, <1>4 DEF PlainInv, ReplaysMaps, ReplaysGates, ReplaysVectors

\* A statement that records what it performs.
LEMMA PlainMore ==
  ASSUME SessionTypeOK, PlainInv, NEW x \in Op, EnsureSession(<<x>>), closed' = closed,
         plain' = plain, queue' = queue, Performed(x),
         raw \subseteq raw', raw' = {} => PerformedOnGates(x) /\ PerformedOnVectors(x)
  PROVE  PlainInv'
<1>1. PICK ops \in Seq(Op) : ops = Recorded
  BY RecordedType
<1>2. PICK s : s = Append(ops, x)
  OBVIOUS
<1>3. Recorded' = s
  BY <1>1, <1>2, RecordedMore
<1>4. ReplaysMaps(ops) => ReplaysMaps(s)'
  BY <1>2, MapsReplayMore
<1>5. raw' = {} => (ReplaysGates(ops) => ReplaysGates(s)') /\ (ReplaysVectors(ops) => ReplaysVectors(s)')
  BY <1>2, GatesReplayMore, VectorsReplayMore
<1>6. (Resolved => Resolved') /\ (raw' = {} => raw = {})
  BY DEF Resolved
<1> QED
  BY <1>1, <1>3, <1>4, <1>5, <1>6 DEF PlainInv, ReplaysMaps, ReplaysGates, ReplaysVectors

\* Operations that say the same of the maps and of the store.
SameReplay(s, t) ==
  /\ \A k : ReplayMeta(t, k) = ReplayMeta(s, k)
  /\ ReplayDeleted(t) = ReplayDeleted(s)
  /\ \A l : ReplayKnn(t, l) = ReplayKnn(s, l)

LEMMA ReworkedReplays ==
  ASSUME NEW n \in Nat, NEW s, NEW t, DOMAIN s = 1 .. n, DOMAIN t = 1 .. n,
         \A i \in 1 .. n : Reworked(s[i], t[i])
  PROVE  SameReplay(s, t)
<1>1. \A i \in 1 .. n : t[i].op = s[i].op
  BY DEF Reworked
<1>2. ASSUME NEW k PROVE ReplayMeta(t, k) = ReplayMeta(s, k)
  <2>1. \A i \in 1 .. n : /\ SetsMeta(t[i], k) <=> SetsMeta(s[i], k)
                          /\ SetsMeta(s[i], k) /\ s[i].op # "delete" => t[i].meta = s[i].meta
    BY DEF Reworked, On, SetsMeta
  <2>2. PICK at : at = {i \in DOMAIN s : SetsMeta(s[i], k)}
    OBVIOUS
  <2>3. at = {i \in DOMAIN t : SetsMeta(t[i], k)} /\ at \in SUBSET (1 .. n)
    BY <2>1, <2>2
  <2>4. ReplayMeta(s, k) = IF Latest(at) = 0 THEN Absent
                           ELSE IF s[Latest(at)].op = "delete" THEN None ELSE s[Latest(at)].meta
    BY <2>2 DEF ReplayMeta, LastOf, Latest, SetsMeta
  <2>5. ReplayMeta(t, k) = IF Latest(at) = 0 THEN Absent
                           ELSE IF t[Latest(at)].op = "delete" THEN None ELSE t[Latest(at)].meta
    BY <2>3 DEF ReplayMeta, LastOf, Latest, SetsMeta
  <2>6. Latest(at) # 0 => Latest(at) \in at
    BY <2>3, LatestIsIn DEF Latest
  <2>7. Latest(at) # 0 => Latest(at) \in 1 .. n /\ SetsMeta(s[Latest(at)], k)
    BY <2>2, <2>3, <2>6
  <2> QED
    BY <1>1, <2>1, <2>4, <2>5, <2>7
<1>3. ReplayDeleted(t) = ReplayDeleted(s)
  <2>1. ASSUME NEW k \in Keys PROVE k \in ReplayDeleted(t) <=> k \in ReplayDeleted(s)
    <3>1. \A i \in 1 .. n : SetsDeleted(t[i], k) <=> SetsDeleted(s[i], k)
      BY DEF Reworked, On, SetsDeleted
    <3>2. PICK at : at = {i \in DOMAIN s : SetsDeleted(s[i], k)}
      OBVIOUS
    <3>3. at = {i \in DOMAIN t : SetsDeleted(t[i], k)} /\ at \in SUBSET (1 .. n)
      BY <3>1, <3>2
    <3>4. k \in ReplayDeleted(s) <=> Latest(at) # 0 /\ s[Latest(at)].op = "delete"
      BY <3>2 DEF ReplayDeleted, LastOf, Latest, SetsDeleted
    <3>5. k \in ReplayDeleted(t) <=> Latest(at) # 0 /\ t[Latest(at)].op = "delete"
      BY <3>3 DEF ReplayDeleted, LastOf, Latest, SetsDeleted
    <3>6. Latest(at) # 0 => Latest(at) \in 1 .. n
      BY <3>3, LatestOld
    <3> QED
      BY <1>1, <3>4, <3>5, <3>6
  <2> QED
    BY <2>1 DEF ReplayDeleted
<1>4. ASSUME NEW l PROVE ReplayKnn(t, l) = ReplayKnn(s, l)
  <2>1. ASSUME NEW e \in KnnEntries PROVE e \in ReplayKnn(t, l) <=> e \in ReplayKnn(s, l)
    <3>1. \A i \in 1 .. n : SetsFact(t[i], l, e) <=> SetsFact(s[i], l, e)
      BY DEF Reworked, SetsFact
    <3>2. PICK at : at = {i \in DOMAIN s : SetsFact(s[i], l, e)}
      OBVIOUS
    <3>3. at = {i \in DOMAIN t : SetsFact(t[i], l, e)} /\ at \in SUBSET (1 .. n)
      BY <3>1, <3>2
    <3>4. e \in ReplayKnn(s, l) <=> Latest(at) # 0 /\ s[Latest(at)].op = "insert_knn"
      BY <3>2 DEF ReplayKnn, LastOf, Latest, SetsFact
    <3>5. e \in ReplayKnn(t, l) <=> Latest(at) # 0 /\ t[Latest(at)].op = "insert_knn"
      BY <3>3 DEF ReplayKnn, LastOf, Latest, SetsFact
    <3>6. Latest(at) # 0 => Latest(at) \in 1 .. n
      BY <3>3, LatestOld
    <3> QED
      BY <1>1, <3>4, <3>5, <3>6
  <2> QED
    BY <2>1 DEF ReplayKnn
<1> QED
  BY <1>2, <1>3, <1>4 DEF SameReplay

\* Behind the same operations as before.
LEMMA ReworkedBehind ==
  ASSUME NEW c \in Seq(Op), NEW s \in Seq(Op), NEW t \in Seq(Op), Len(t) = Len(s),
         \A i \in DOMAIN s : Reworked(s[i], t[i])
  PROVE  \E n \in Nat : /\ DOMAIN (c \o s) = 1 .. n /\ DOMAIN (c \o t) = 1 .. n
                        /\ \A i \in 1 .. n : Reworked((c \o s)[i], (c \o t)[i])
<1>1. PICK m \in Nat, j \in Nat : m = Len(c) /\ j = Len(s) /\ DOMAIN s = 1 .. j
  BY LenProperties
<1>2. /\ DOMAIN (c \o s) = 1 .. (m + j) /\ DOMAIN (c \o t) = 1 .. (m + j)
      /\ \A i \in 1 .. (m + j) : /\ (c \o s)[i] = IF i <= m THEN c[i] ELSE s[i - m]
                                 /\ (c \o t)[i] = IF i <= m THEN c[i] ELSE t[i - m]
  <2>1. /\ c \o s \in Seq(Op) /\ Len(c \o s) = Len(c) + Len(s)
        /\ \A i \in 1 .. Len(c) + Len(s) : (c \o s)[i] = IF i <= Len(c) THEN c[i] ELSE s[i - Len(c)]
    BY ConcatProperties
  <2>2. /\ c \o t \in Seq(Op) /\ Len(c \o t) = Len(c) + Len(t)
        /\ \A i \in 1 .. Len(c) + Len(t) : (c \o t)[i] = IF i <= Len(c) THEN c[i] ELSE t[i - Len(c)]
    BY ConcatProperties
  <2>3. Len(t) = j
    BY <1>1
  <2>4. DOMAIN (c \o s) = 1 .. Len(c \o s) /\ DOMAIN (c \o t) = 1 .. Len(c \o t)
    BY <2>1, <2>2, LenProperties
  <2> QED
    BY <1>1, <2>1, <2>2, <2>3, <2>4
<1>3. ASSUME NEW i \in 1 .. (m + j) PROVE Reworked((c \o s)[i], (c \o t)[i])
  <2>1. CASE i <= m
    BY <1>2, <2>1 DEF Reworked
  <2>2. CASE ~(i <= m)
    <3>1. i - m \in 1 .. j
      BY <1>1, <2>2
    <3> QED
      BY <1>1, <1>2, <2>2, <3>1
  <2> QED
    BY <2>1, <2>2
<1> QED
  BY <1>1, <1>2, <1>3

LEMMA RebalanceReplays == ASSUME SInv, PlainInv, Rebalance PROVE PlainInv'
<1>1. /\ UNCHANGED <<patches, queueVars, meta, gate, deleted, cache, knnVars>>
      /\ UNCHANGED <<auto, files, applied, raw, edges, todo, closed, plain>>
      /\ edges # {} /\ (rec = None => rec' = None)
  BY DEF Rebalance
<1>2. raw' # {}
  BY <1>1 DEF SInv, SessionTypeOK
<1>3. ReplaysMaps(Recorded) => ReplaysMaps(Recorded)'
  <2>1. CASE rec = None
    <3>1. PICK ops : ops = Recorded /\ Recorded' = ops
      BY <1>1, <2>1 DEF Recorded
    <3>2. ReplaysMaps(ops) => ReplaysMaps(ops)'
      BY <1>1 DEF ReplaysMaps, knnVars
    <3> QED
      BY <3>1, <3>2 DEF ReplaysMaps
  <2>2. CASE rec # None
    <3>1. /\ rec' # None /\ rec'.ops \in Seq(Op) /\ Len(rec'.ops) = Len(rec.ops)
          /\ \A i \in DOMAIN rec.ops : Reworked(rec.ops[i], rec'.ops[i])
      BY <2>2, RebalanceKeeps
    <3>2. rec.ops \in Seq(Op) /\ closed \in Seq(Op)
      BY <2>2 DEF SInv, SessionTypeOK, Logged
    <3>3. PICK c \in Seq(Op), s \in Seq(Op), t \in Seq(Op) : c = closed /\ s = rec.ops /\ t = rec'.ops
      BY <3>1, <3>2
    <3>4. PICK n \in Nat : /\ DOMAIN (c \o s) = 1 .. n /\ DOMAIN (c \o t) = 1 .. n
                           /\ \A i \in 1 .. n : Reworked((c \o s)[i], (c \o t)[i])
      BY <3>1, <3>3, ReworkedBehind
    <3>5. PICK u, v : u = c \o s /\ v = c \o t
      OBVIOUS
    <3>6. Recorded = u /\ Recorded' = v
      BY <1>1, <2>2, <3>1, <3>3, <3>5 DEF Recorded
    <3>7. SameReplay(u, v)
      <4>1. DOMAIN u = 1 .. n /\ DOMAIN v = 1 .. n /\ \A i \in 1 .. n : Reworked(u[i], v[i])
        BY <3>4, <3>5
      <4> QED
        BY <4>1, ReworkedReplays
    <3>8. ReplaysMaps(u) => ReplaysMaps(v)'
      BY <1>1, <3>7 DEF ReplaysMaps, SameReplay, knnVars
    <3> QED
      BY <3>6, <3>8 DEF ReplaysMaps
  <2> QED
    BY <2>1, <2>2
<1>4. Resolved => Resolved'
  BY <1>1 DEF Resolved, queueVars
<1> QED
  BY <1>1, <1>2, <1>3, <1>4 DEF PlainInv

\* An install is the insert recorded for it: of the metadata, and where no residuals
\* are kept, of the gate and the vectors too, since then it writes to one slot.
LEMMA InsertComposeReplays ==
  ASSUME SInv, PlainInv, NEW l \in Layers, NEW m \in Metas, InsertCompose(l, m)
  PROVE  PlainInv'
<1>1. FindFree(l) # None /\ UNCHANGED knnVars /\ closed' = closed
  BY DEF InsertCompose
<1>2. PICK k : k = <<l, FindFree(l)>>
  OBVIOUS
<1>3. PICK G \in [Slots(l) -> Gates], V \in [Slots(l) -> Vecs] :
        /\ Install(k, m, G, V) /\ Captured(k)
        /\ \/ EnsureSession(<<InsertOp(k, m, G, V)>>) /\ plain' = plain
           \/ plain' = FALSE
  BY <1>2 DEF InsertCompose
<1>4. /\ k \in Keys /\ k \in Slots(l) /\ Slots(l) \subseteq Keys /\ (raw = {} => Slots(l) = {k})
  BY <1>1, <1>2, SlotsOfLayer DEF SInv, SessionTypeOK
<1>5. CASE plain' = FALSE
  BY <1>5 DEF PlainInv
<1>6. CASE EnsureSession(<<InsertOp(k, m, G, V)>>) /\ plain' = plain
  <2>1. PICK x \in Op : x = InsertOp(k, m, G, V)
    BY <1>4, InsertOpIsOp
  <2>2. /\ x.op = "insert" /\ x.key = k /\ x.meta = m /\ x.gate = G[k] /\ x.vec = V[k]
    BY <2>1 DEF InsertOp
  <2>3. G[k] # None /\ V[k] # None
    BY <1>4, AbsentAssumption
  <2>4. /\ meta' = [meta EXCEPT ![k] = m] /\ deleted' = deleted \ {k}
        /\ gate' = [y \in Keys |-> IF y \in Slots(l) /\ (y = k \/ gate[y] # None) THEN G[y] ELSE gate[y]]
        /\ vec' = [y \in Keys |-> IF y \in Slots(l) THEN V[y] ELSE vec[y]]
        /\ queue' = queue /\ knn' = knn
    BY <1>1, <1>3 DEF Install, queueVars, knnVars
  <2>5. DOMAIN meta = Keys /\ deleted \subseteq Keys
    BY DEF SInv, IInv, TypeOK
  <2>6. \A y \in Keys : /\ SetsMeta(x, y) <=> y = k
                        /\ SetsDeleted(x, y) <=> y = k
                        /\ SetsGate(x, y) <=> y = k
                        /\ SetsVec(x, y) <=> y = k
    BY <2>2, <2>3 DEF SetsMeta, SetsDeleted, SetsGate, SetsVec, On
  <2>7. Performed(x)
    BY <2>2, <2>4, <2>5, <2>6, FactsStay DEF Performed, SInv, KnnInv
  <2>8. raw \subseteq raw'
    BY <1>3 DEF Captured
  <2>9. ASSUME raw' = {} PROVE PerformedOnGates(x) /\ PerformedOnVectors(x)
    <3>1. Slots(l) = {k}
      BY <1>4, <2>8, <2>9
    <3> QED
      BY <2>2, <2>4, <2>6, <3>1 DEF PerformedOnGates, PerformedOnVectors
  <2> QED
    BY <1>1, <1>6, <2>1, <2>4, <2>7, <2>8, <2>9, PlainMore DEF SInv
<1> QED
  BY <1>3, <1>5, <1>6

LEMMA InsertKnnReplays ==
  ASSUME SInv, PlainInv, NEW l \in Layers, NEW e \in KnnEntries, InsertKnn(l, e)
  PROVE  PlainInv'
<1>1. PICK x \in Op : x = [op |-> "insert_knn", layer |-> l, entry |-> e]
  BY OtherOpsAreOps
<1>2. /\ EnsureSession(<<x>>) /\ Add(l, e) /\ closed' = closed /\ plain' = plain /\ raw' = raw
      /\ queue' = queue /\ meta' = meta /\ gate' = gate /\ deleted' = deleted /\ vec' = vec
  BY <1>1 DEF InsertKnn, queueVars, maps
<1>3. x.op = "insert_knn" /\ x.layer = l /\ x.entry = e
  BY <1>1
<1>4. \A k \in Keys : ~SetsMeta(x, k) /\ ~SetsDeleted(x, k) /\ ~SetsGate(x, k) /\ ~SetsVec(x, k)
  BY <1>3 DEF SetsMeta, SetsDeleted, SetsGate, SetsVec, On
<1>5. ASSUME NEW j \in Layers
      PROVE  /\ knn'[j] \subseteq KnnEntries
             /\ \A f \in KnnEntries :
                  f \in knn'[j] <=> IF SetsFact(x, j, f) THEN x.op = "insert_knn" ELSE f \in knn[j]
  <2>1. knn[j] \subseteq KnnEntries /\ knn \in [Layers -> SUBSET KnnEntries]
    BY DEF SInv, KnnInv, KnnTypeOK
  <2>2. knn' = [knn EXCEPT ![l] = knn[l] \cup {e}]
    BY <1>2 DEF Add
  <2>3. knn'[j] = IF j = l THEN knn[j] \cup {e} ELSE knn[j]
    BY <2>1, <2>2
  <2> QED
    BY <1>3, <2>1, <2>3 DEF SetsFact
<1>6. deleted \subseteq Keys
  BY DEF SInv, IInv, TypeOK
<1>7. Performed(x) /\ PerformedOnGates(x) /\ PerformedOnVectors(x)
  <2>1. Performed(x)
    BY <1>2, <1>4, <1>5, <1>6 DEF Performed
  <2> QED
    BY <1>2, <1>4, <2>1 DEF PerformedOnGates, PerformedOnVectors
<1> QED
  BY <1>2, <1>7, PlainMore DEF SInv

LEMMA DeleteEdgeReplays == ASSUME SInv, PlainInv, NEW k \in Keys, DeleteEdge(k) PROVE PlainInv'
<1>1. PICK x \in Op : x = [op |-> "delete", key |-> k]
  BY OtherOpsAreOps
<1>2. /\ EnsureSession(<<x>>) /\ closed' = closed /\ plain' = plain /\ raw' = raw
      /\ meta' = [meta EXCEPT ![k] = None] /\ deleted' = deleted \cup {k}
      /\ gate' = [gate EXCEPT ![k] = None] /\ vec' = vec /\ queue' = queue /\ knn' = knn
  BY <1>1 DEF DeleteEdge, DeleteFeature, Editing, queueVars, knnVars
<1>3. x.op = "delete" /\ x.key = k
  BY <1>1
<1>4. DOMAIN meta = Keys /\ DOMAIN gate = Keys /\ deleted \subseteq Keys
  BY DEF SInv, IInv, TypeOK
<1>5. \A y \in Keys : /\ SetsMeta(x, y) <=> y = k
                      /\ SetsDeleted(x, y) <=> y = k
                      /\ SetsGate(x, y) <=> y = k
                      /\ ~SetsVec(x, y)
  BY <1>3 DEF SetsMeta, SetsDeleted, SetsGate, SetsVec, On
<1>6. Performed(x)
  BY <1>2, <1>3, <1>4, <1>5, FactsStay DEF Performed, SInv, KnnInv
<1>7. PerformedOnGates(x) /\ PerformedOnVectors(x)
  BY <1>2, <1>3, <1>4, <1>5 DEF PerformedOnGates, PerformedOnVectors
<1> QED
  BY <1>2, <1>6, <1>7, PlainMore DEF SInv

LEMMA UpdateEdgeReplays ==
  ASSUME SInv, PlainInv, NEW k \in Keys, NEW m \in Metas, UpdateEdge(k, m)
  PROVE  PlainInv'
<1>1. PICK x \in Op : x = [op |-> "update", key |-> k, meta |-> m, gate |-> None, vec |-> None]
  BY OtherOpsAreOps
<1>2. /\ EnsureSession(<<x>>) /\ closed' = closed /\ plain' = plain /\ raw' = raw
      /\ meta' = [meta EXCEPT ![k] = m] /\ deleted' = deleted
      /\ gate' = gate /\ vec' = vec /\ queue' = queue /\ knn' = knn
  BY <1>1 DEF UpdateEdge, UpdateFeatureMeta, Editing, queueVars, knnVars
<1>3. x.op = "update" /\ x.key = k /\ x.meta = m /\ m # None /\ x.gate = None /\ x.vec = None
  BY <1>1, AbsentAssumption
<1>4. DOMAIN meta = Keys /\ deleted \subseteq Keys
  BY DEF SInv, IInv, TypeOK
<1>5. \A y \in Keys : /\ SetsMeta(x, y) <=> y = k
                      /\ ~SetsDeleted(x, y) /\ ~SetsGate(x, y) /\ ~SetsVec(x, y)
  BY <1>3 DEF SetsMeta, SetsDeleted, SetsGate, SetsVec, On
<1>6. Performed(x)
  BY <1>2, <1>3, <1>4, <1>5, FactsStay DEF Performed, SInv, KnnInv
<1>7. PerformedOnGates(x) /\ PerformedOnVectors(x)
  BY <1>2, <1>3, <1>5 DEF PerformedOnGates, PerformedOnVectors
<1> QED
  BY <1>2, <1>6, <1>7, PlainMore DEF SInv

\* BEGIN PATCH and SAVE PATCH move what is recorded and lose nothing of it.
LEMMA BeginSaveReplay ==
  ASSUME SInv, PlainInv,
         (\E p \in Paths : BeginPatch(p)) \/ (\E written \in BOOLEAN : SavePatch(written))
  PROVE  PlainInv'
<1>1. UNCHANGED <<vars, raw, plain>>
  BY DEF BeginPatch, SavePatch
<1>2. ASSUME NEW p \in Paths, BeginPatch(p) PROVE Recorded' = Recorded
  <2>1. closed' = closed
    BY <1>2 DEF BeginPatch
  <2>2. rec' # None /\ (rec # None => rec'.ops = rec.ops) /\ (rec = None => rec'.ops = <<>>)
    BY <1>2, BeginPatchKeeps
  <2> QED
    BY <2>1, <2>2 DEF Recorded
<1>3. ASSUME NEW written, SavePatch(written) PROVE Recorded' = Recorded
  <2>1. rec # None /\ rec' = None /\ closed' = closed \o rec.ops
    BY <1>3 DEF SavePatch
  <2>2. PICK c \in Seq(Op), s \in Seq(Op) : c = closed /\ s = rec.ops
    BY <2>1 DEF SInv, SessionTypeOK, Logged
  <2>3. Recorded = c \o s /\ Recorded' = (c \o s) \o <<>>
    BY <2>1, <2>2 DEF Recorded
  <2>4. c \o s \in Seq(Op)
    BY ConcatProperties
  <2>5. (c \o s) \o <<>> = c \o s
    BY <2>4, ConcatEmptySeq
  <2> QED
    BY <2>3, <2>5
<1>4. Recorded' = Recorded
  BY <1>2, <1>3
<1> QED
  BY <1>1, <1>4, PlainSame DEF vars, overlayVars, knnVars

\* USE begins with nothing recorded on a fresh overlay.
LEMMA UseReplays == ASSUME Use PROVE PlainInv'
<1>1. /\ queue' = <<>> /\ meta' = [k \in Keys |-> Absent] /\ gate' = [k \in Keys |-> None]
      /\ deleted' = {} /\ vec' = [k \in Keys |-> None] /\ KnnReset
      /\ rec' = None /\ closed' = <<>>
  BY DEF Use
<1>2. Recorded' = <<>>
  <2>1. <<>> \o <<>> = <<>>
    OBVIOUS
  <2> QED
    BY <1>1, <2>1 DEF Recorded
<1>3. knn' = [l \in Layers |-> {}]
  BY <1>1 DEF KnnReset
<1>4. ReplaysMaps(<<>>)' /\ ReplaysGates(<<>>)' /\ ReplaysVectors(<<>>)'
  BY <1>1, <1>3, ReplayOfNothing DEF ReplaysMaps, ReplaysGates, ReplaysVectors
<1> QED
  BY <1>1, <1>2, <1>4 DEF PlainInv, Resolved, ReplaysMaps, ReplaysGates, ReplaysVectors

\* What is not recorded is no longer plain, and the rest changes nothing that counts.
LEMMA OtherStepsReplay ==
  ASSUME SInv, PlainInv,
         \/ MatchesNothing \/ CompactMinor
         \/ \E k \in Keys, m \in Metas : MergeEdge(k, m)
         \/ \E x \in todo : Promote(x) \/ PromotionFails(x) \/ PromotionFailsLate(x)
         \/ \E p \in Paths : ApplyFile(p) \/ RemoveFile(p)
         \/ (Resolve \/ \E l \in Layers : GateQuery(l)) /\ UNCHANGED lqlVars
         \/ UNCHANGED sessionVars
  PROVE  PlainInv'
<1>1. CASE plain' = FALSE
  BY <1>1 DEF PlainInv
<1>2. CASE ~plain /\ plain' = plain
  BY <1>2 DEF PlainInv
<1>3. CASE MatchesNothing
  <2>1. EnsureSession(<<>>) /\ UNCHANGED <<vars, raw, closed, plain>>
    BY <1>3 DEF MatchesNothing
  <2>2. Recorded' = Recorded
    BY <2>1, RecordedNothing DEF SInv
  <2> QED
    BY <2>1, <2>2, PlainSame DEF vars, overlayVars, knnVars
<1>4. CASE /\ UNCHANGED <<rec, closed, raw, plain>>
           /\ UNCHANGED <<queue, meta, deleted, gate, vec, knn>>
  <2>1. Recorded' = Recorded
    BY <1>4 DEF Recorded
  <2> QED
    BY <1>4, <2>1, PlainSame
<1>5. CASE CompactMinor \/ (\E x \in todo : PromotionFails(x)) \/ UNCHANGED sessionVars
  BY <1>4, <1>5 DEF CompactMinor, PromotionFails, sessionVars, lqlVars, vars, overlayVars, knnVars
<1>6. CASE (\E l \in Layers : GateQuery(l)) /\ UNCHANGED lqlVars
  BY <1>4, <1>6 DEF GateQuery, lqlVars, queueVars, maps, knnVars
<1>7. CASE Resolve /\ UNCHANGED lqlVars
  <2>1. ~Resolved /\ plain' = plain
    BY <1>7 DEF Resolve, ResolveInsert, ResolveUpdate, ResolveDelete, ResolveKnn, Resolving, EndPatch, lqlVars
  <2> QED
    BY <1>2, <2>1 DEF PlainInv
<1>8. CASE \/ \E k \in Keys, m \in Metas : MergeEdge(k, m)
           \/ \E x \in todo : Promote(x) \/ PromotionFailsLate(x)
           \/ \E p \in Paths : ApplyFile(p) \/ RemoveFile(p)
  BY <1>1, <1>8 DEF MergeEdge, Promote, PromotionFailsLate, ApplyFile, RemoveFile
<1> QED
  BY <1>3, <1>5, <1>6, <1>7, <1>8

LEMMA PlainNext == SInv /\ PlainInv /\ [LqlNext]_sessionVars => PlainInv'
<1> SUFFICES ASSUME SInv, PlainInv, [LqlNext]_sessionVars PROVE PlainInv'
  OBVIOUS
<1> QED
  BY InsertComposeReplays, InsertKnnReplays, DeleteEdgeReplays, UpdateEdgeReplays, RebalanceReplays,
     UseReplays, BeginSaveReplay, OtherStepsReplay DEF LqlNext, Statement, PatchStatement

LEMMA PlainInit == LqlInit => PlainInv
<1> SUFFICES ASSUME LqlInit PROVE PlainInv
  OBVIOUS
<1>1. Recorded = <<>>
  <2>1. <<>> \o <<>> = <<>>
    OBVIOUS
  <2> QED
    BY <2>1 DEF LqlInit, Recorded
<1>2. ReplaysMaps(<<>>) /\ ReplaysGates(<<>>) /\ ReplaysVectors(<<>>)
  BY ReplayOfNothing DEF LqlInit, Init, KnnInit, ReplaysMaps, ReplaysGates, ReplaysVectors
<1> QED
  BY <1>1, <1>2 DEF LqlInit, Init, PlainInv, Resolved

\* What a session recorded, saved or not, replayed on a fresh overlay gives the overlay,
\* as long as whatever changed it was recorded: for any statements in any order.
THEOREM RecordingsReplay == LqlSpec => []RecordingReplays
<1>1. PlainInv => RecordingReplays
  BY DEF PlainInv, RecordingReplays
<1> QED
  BY <1>1, SInvInit, SInvNext, PlainInit, PlainNext, PTL DEF LqlSpec
==============================================================================

----------------------------- MODULE LqlSession -----------------------------
(***************************************************************************)
(* The mutating statements of an LQL session over a local vindex           *)
(* (crates/larql-lql/src/executor/mod.rs, mutation/, compact.rs,           *)
(* lifecycle/use_cmd.rs), on top of the overlay they change.               *)
(*                                                                         *)
(* A session runs one statement at a time.  Entities, relations and        *)
(* targets are reduced to the keys and values they resolve to; what the    *)
(* forward passes compute (refined gates, balanced vectors) is any value.  *)
(* A DELETE or UPDATE that matches several features is as many steps.      *)
(***************************************************************************)
EXTENDS PatchOverlay

CONSTANTS
  Statements,   \* the kinds of statement the session runs, "balance_error" where balancing may fail
  Weighted,     \* has_model_weights: residuals are captured and installs are balanced
  Paths,        \* names of patch files
  Disk          \* the patch files there are at the start: operations and a description

VARIABLES
  rec,       \* patch_recording: a path ("" when anonymous) and operations, or None
  auto,      \* auto_patch
  files,     \* the patch files on disk
  applied,   \* where each applied patch was loaded from, and its description
  raw, edges,     \* the keys of raw_install_residuals, and those of installed_edges
  todo,      \* COMPACT MINOR: the entries still to promote
  closed,    \* history: the operations of recordings that SAVE PATCH ended since the last USE
  plain      \* history: since then, whatever changed the overlay was recorded

lqlVars == <<rec, auto, files, applied, raw, edges, todo, closed, plain>>
sessionVars == <<vars, lqlVars>>

ASSUME DiskAssumption ==
  DOMAIN Disk = Paths /\ \A p \in Paths : Disk[p] = None \/ Disk[p].ops \in Seq(Op)

\* PatchRecording
Logged == [path: Paths \cup {""}, ops: Seq(Op)]

ASSUME LoggedAssumption == None \notin Logged

\* A promoted fact's target becomes the metadata of a feature.
ASSUME FactsAssumption == \A e \in KnnEntries : e.target \in Metas

LqlInit ==
  /\ Init
  /\ rec = None /\ auto = FALSE
  /\ files = Disk
  /\ applied = <<>> /\ raw = {} /\ edges = {} /\ todo = {} /\ closed = <<>> /\ plain = TRUE

\* The statement prompt: no statement is running.
Ready(kind) == kind \in Statements /\ Resolved /\ Exclusive /\ todo = {}

-----------------------------------------------------------------------------
(* Recording *)

\* ensure_patch_session
Ensured == IF rec = None THEN [path |-> "", ops |-> <<>>] ELSE rec

EnsureSession(ops) ==
  /\ rec' = [Ensured EXCEPT !.ops = @ \o ops]
  /\ auto' = (auto \/ rec = None)

Unrecorded == UNCHANGED <<rec, auto>>

\* An anonymous recording becomes a named one; a named one must be saved first.
BeginPatch(p) ==
  /\ Ready("begin")
  /\ rec = None \/ auto
  /\ rec' = [path |-> p, ops |-> IF auto /\ rec # None THEN rec.ops ELSE <<>>]
  /\ auto' = FALSE
  /\ UNCHANGED <<vars, files, applied, raw, edges, todo, closed, plain>>

\* The recording is taken first: it is gone when the path is empty or the write fails.
SavePatch(written) ==
  /\ Ready("save")
  /\ rec # None
  /\ rec' = None
  /\ closed' = closed \o rec.ops
  /\ \/ /\ written /\ rec.path # ""
        /\ files' = [files EXCEPT ![rec.path] = [ops |-> rec.ops, description |-> None]]
        /\ auto' = FALSE
     \/ /\ ~written \/ rec.path = ""
        /\ UNCHANGED <<files, auto>>
  /\ UNCHANGED <<vars, applied, raw, edges, todo, plain>>

ApplyFile(p) ==
  /\ Ready("apply")
  /\ files[p] # None
  /\ ApplyPatch(files[p].ops)
  /\ applied' = Append(applied, [path |-> p, description |-> files[p].description])
  /\ plain' = FALSE
  /\ UNCHANGED <<rec, auto, files, raw, edges, todo, closed>>

\* The first applied patch whose description is the path given.
RemoveFile(p) ==
  LET found == {i \in DOMAIN applied : applied[i].description = p}
      i == CHOOSE i \in found : \A j \in found : i <= j
  IN /\ Ready("remove")
     /\ found # {}
     /\ RemovePatch(i)
     /\ applied' = RemoveAt(applied, i)
     /\ plain' = FALSE
     /\ UNCHANGED <<rec, auto, files, raw, edges, todo, closed>>

\* USE: a fresh overlay and no recording; the session's other caches stay.
Use ==
  /\ Ready("use")
  /\ edits < MaxEdits /\ edits' = edits + 1
  /\ patches' = <<>> /\ queue' = <<>> /\ pos' = 1 /\ touched' = {}
  /\ meta' = [k \in Keys |-> Absent]
  /\ gate' = [k \in Keys |-> None]
  /\ deleted' = {}
  /\ vec' = [k \in Keys |-> None]
  /\ Invalidate(Layers)
  /\ KnnReset
  /\ rec' = None /\ auto' = FALSE
  /\ applied' = <<>> /\ closed' = <<>>
  /\ plain' = TRUE
  /\ UNCHANGED <<files, raw, edges, todo>>

-----------------------------------------------------------------------------
(* INSERT, DELETE, UPDATE, MERGE, REBALANCE *)

\* install_slots: insert_feature and the vectors at k, then the refine pass over
\* the slots of the layer whose residuals the session has: set_gate_override
\* passes over a slot without a gate, set_up_vector does not.
Install(k, m, G, V) ==
  /\ edits < MaxEdits /\ edits' = edits + 1
  /\ meta' = [meta EXCEPT ![k] = m]
  /\ deleted' = deleted \ {k}
  /\ gate' = [x \in Keys |-> IF x \in DOMAIN G /\ (x = k \/ gate[x] # None) THEN G[x] ELSE gate[x]]
  /\ vec' = [x \in Keys |-> IF x \in DOMAIN V THEN V[x] ELSE vec[x]]
  /\ Invalidate({k[1]})
  /\ UNCHANGED <<patches, queueVars>>

\* What a compose install at layer l may write, and where.
Slots(l) == {<<l, FindFree(l)>>} \cup (IF Weighted THEN {x \in raw : x[1] = l} ELSE {})

InsertOp(k, m, G, V) == [op |-> "insert", key |-> k, meta |-> m, gate |-> G[k], vec |-> V[k]]

Captured(k) == raw' = IF Weighted THEN raw \cup {k} ELSE raw

Registered(k) == edges' = IF Weighted THEN edges \cup {k} ELSE edges

\* balance_installed and cross_fact_regression_check read the weights again.
BalanceFails == Weighted /\ "balance_error" \in Statements

InsertCompose(l, m) ==
  /\ Ready("insert")
  /\ FindFree(l) # None
  /\ \E G \in [Slots(l) -> Gates], V \in [Slots(l) -> Vecs] :
       LET k == <<l, FindFree(l)>>
       IN /\ Install(k, m, G, V)
          /\ Captured(k)
          /\ \/ EnsureSession(<<InsertOp(k, m, G, V)>>) /\ Registered(k) /\ UNCHANGED plain
             \/ BalanceFails /\ EnsureSession(<<>>) /\ plain' = FALSE /\ UNCHANGED edges
  /\ UNCHANGED <<knnVars, files, applied, todo, closed>>

InsertKnn(l, e) ==
  /\ Ready("insert_knn")
  /\ edits < MaxEdits /\ edits' = edits + 1
  /\ Add(l, e)
  /\ EnsureSession(<<[op |-> "insert_knn", layer |-> l, entry |-> e]>>)
  /\ UNCHANGED <<patches, queueVars, maps, cache, files, applied, raw, edges, todo, closed, plain>>

\* A slot that WHERE pins by layer and feature is taken as it is, one that was inserted or
\* one that is empty; other candidates come from the base.
DeleteEdge(k) ==
  /\ Ready("delete")
  /\ DeleteFeature(k)
  /\ EnsureSession(<<[op |-> "delete", key |-> k]>>)
  /\ UNCHANGED <<files, applied, raw, edges, todo, closed, plain>>

\* Mutant of UpdateEdge: the recorded update carries a gate the statement never set.
UpdateEdgeWithGate(k, m) ==
  /\ Ready("update")
  /\ FeatureMeta(k) # None
  /\ UpdateFeatureMeta(k, m)
  /\ EnsureSession(<<[op |-> "update", key |-> k, meta |-> m, gate |-> BaseScore[k], vec |-> None]>>)
  /\ UNCHANGED <<files, applied, raw, edges, todo, closed, plain>>

UpdateEdge(k, m) ==
  /\ Ready("update")
  /\ FeatureMeta(k) # None
  /\ UpdateFeatureMeta(k, m)
  /\ EnsureSession(<<[op |-> "update", key |-> k, meta |-> m, gate |-> None, vec |-> None]>>)
  /\ UNCHANGED <<files, applied, raw, edges, todo, closed, plain>>

\* An INSERT without a free slot, a DELETE or UPDATE without a match: a recording is begun.
MatchesNothing ==
  /\ \E kind \in {"insert", "delete", "update"} : Ready(kind)
  /\ EnsureSession(<<>>)
  /\ UNCHANGED <<vars, files, applied, raw, edges, todo, closed, plain>>

\* One feature that MERGE takes from the source vindex; no recording is started or extended.
MergeEdge(k, m) ==
  /\ Ready("merge")
  /\ UpdateFeatureMeta(k, m)
  /\ Unrecorded
  /\ plain' = FALSE
  /\ UNCHANGED <<files, applied, raw, edges, todo, closed>>

\* Mutant of Refreshed: the operations that are not refreshed are left out.
RefreshedOnly(ops, S, G, V) ==
  LET kept == SelectSeq(ops, LAMBDA x : x.op = "insert" /\ x.key \in S)
  IN [i \in DOMAIN kept |-> [kept[i] EXCEPT !.gate = Given(G[kept[i].key], @), !.vec = Given(V[kept[i].key], @)]]

\* refresh_recorded_patch_ops_for_slots
Refreshed(ops, S, G, V) ==
  [i \in DOMAIN ops |->
     IF ops[i].op = "insert" /\ ops[i].key \in S
     THEN [ops[i] EXCEPT !.gate = Given(G[ops[i].key], @), !.vec = Given(V[ops[i].key], @)]
     ELSE ops[i]]

Rebalance ==
  /\ Ready("rebalance")
  /\ edges # {}
  /\ edits < MaxEdits /\ edits' = edits + 1
  /\ \E V \in [edges -> Vecs] :
       vec' = [x \in Keys |-> IF x \in edges /\ vec[x] # None THEN V[x] ELSE vec[x]]
  /\ rec' = IF rec = None THEN None ELSE [rec EXCEPT !.ops = Refreshed(@, edges, gate, vec')]
  /\ UNCHANGED <<patches, queueVars, meta, gate, deleted, cache, knnVars>>
  /\ UNCHANGED <<auto, files, applied, raw, edges, todo, closed, plain>>

-----------------------------------------------------------------------------
(* COMPACT MINOR *)

CompactMinor ==
  /\ Ready("compact")
  /\ \E l \in Layers : knn[l] # {}
  /\ todo' = {x \in Layers \X KnnEntries : x[2] \in knn[x[1]]}
  /\ UNCHANGED <<vars, rec, auto, files, applied, raw, edges, closed, plain>>

\* The entry is inserted in compose mode and everything of its edge leaves the store.
Promote(x) ==
  /\ x \in todo /\ Resolved
  /\ FindFree(x[1]) # None
  /\ \E G \in [Slots(x[1]) -> Gates], V \in [Slots(x[1]) -> Vecs] :
       LET k == <<x[1], FindFree(x[1])>>
       IN /\ Install(k, x[2].target, G, V)
          /\ Captured(k) /\ Registered(k)
          /\ rec' = IF rec = None THEN None
                    ELSE [rec EXCEPT !.ops = Append(@, InsertOp(k, x[2].target, G, V))]
  /\ RemoveMatching(OfEdge(x[2].entity, x[2].relation))
  /\ todo' = todo \ {x}
  /\ plain' = FALSE
  /\ UNCHANGED <<auto, files, applied, closed>>

\* The insert failed before it changed anything.
PromotionFails(x) ==
  /\ x \in todo /\ Resolved
  /\ todo' = todo \ {x}
  /\ UNCHANGED <<vars, rec, auto, files, applied, raw, edges, closed, plain>>

\* It failed after the install: the entry stays in the store as well.
PromotionFailsLate(x) ==
  /\ x \in todo /\ Resolved /\ BalanceFails
  /\ FindFree(x[1]) # None
  /\ \E G \in [Slots(x[1]) -> Gates], V \in [Slots(x[1]) -> Vecs] :
       Install(<<x[1], FindFree(x[1])>>, x[2].target, G, V)
  /\ Captured(<<x[1], FindFree(x[1])>>)
  /\ todo' = todo \ {x}
  /\ plain' = FALSE
  /\ UNCHANGED <<knnVars, rec, auto, files, applied, edges, closed>>

-----------------------------------------------------------------------------

Statement ==
  \/ \E l \in Layers, m \in Metas : InsertCompose(l, m)
  \/ \E l \in Layers, e \in KnnEntries : InsertKnn(l, e)
  \/ \E k \in Keys : DeleteEdge(k)
  \/ \E k \in Keys, m \in Metas : UpdateEdge(k, m) \/ MergeEdge(k, m)
  \/ Rebalance
  \/ CompactMinor
  \/ \E x \in todo : Promote(x) \/ PromotionFails(x) \/ PromotionFailsLate(x)
  \/ MatchesNothing
  \/ Use

PatchStatement ==
  \/ \E p \in Paths : BeginPatch(p) \/ ApplyFile(p) \/ RemoveFile(p)
  \/ \E written \in BOOLEAN : SavePatch(written)

LqlNext ==
  \/ Statement
  \/ PatchStatement
  \/ (Resolve \/ \E l \in Layers : GateQuery(l)) /\ UNCHANGED lqlVars

LqlSpec == LqlInit /\ [][LqlNext]_sessionVars

-----------------------------------------------------------------------------
(* Properties *)

Recorded == closed \o (IF rec = None THEN <<>> ELSE rec.ops)

\* As long as whatever changed the overlay was recorded, the operations the session
\* recorded, saved or not, replayed on a fresh overlay give the overlay: the features
\* and the facts of the store, and where no residuals are captured, which a refine pass
\* would use, also the vectors (SAVE PATCH, then APPLY PATCH).
RecordingReplays ==
  Resolved /\ plain =>
    /\ ReplaysMaps(Recorded)
    /\ raw = {} => ReplaysGates(Recorded) /\ ReplaysVectors(Recorded)

\* A recording that goes on keeps what it has, in order; only REBALANCE touches the
\* vectors in it.  BEGIN PATCH over an anonymous recording keeps its operations.
RecordingOnlyGrows ==
  [][rec # None /\ rec' # None =>
       /\ Len(rec.ops) <= Len(rec'.ops)
       /\ \A i \in DOMAIN rec.ops : rec'.ops[i].op = rec.ops[i].op
       /\ rec'.path # rec.path => rec.path = "" /\ rec'.ops = rec.ops]_sessionVars
=============================================================================

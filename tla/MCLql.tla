------------------------------- MODULE MCLql -------------------------------
(***************************************************************************)
(* The overlay by itself and under an LQL session, in one run of TLC: the  *)
(* part is chosen in the initial state and never changes.                  *)
(*   store       the retrieval store alone, with two readers               *)
(*   patches     patch files that meet on the same keys, no other edits    *)
(*   edits       direct edits and a patch, one reader                      *)
(*   recording   a session over a vindex without weights, no files         *)
(*   session     all statements, with weights and a file on disk           *)
(***************************************************************************)
EXTENDS LqlSession

CONSTANTS r1, r2

VARIABLE part

lqlRunVars == <<sessionVars, part>>

\* Layer 0 has three features, one of them without metadata; layer 1 has one.
Score == (<<0, 0>> :> 9) @@ (<<0, 1>> :> 7) @@ (<<0, 2>> :> 5)
         @@ (<<1, 0>> :> 6) @@ (<<1, 1>> :> None) @@ (<<1, 2>> :> None)
Meta == (<<0, 0>> :> 2) @@ (<<0, 1>> :> None) @@ (<<0, 2>> :> 8)
        @@ (<<1, 0>> :> 4) @@ (<<1, 1>> :> None) @@ (<<1, 2>> :> None)

\* Two facts about one entity and one about another.
France == [entity |-> "france", relation |-> "capital", target |-> 1]
Franc == [entity |-> "france", relation |-> "currency", target |-> 3]
Spain == [entity |-> "spain", relation |-> "capital", target |-> 3]
AllFacts == {France, Franc, Spain}
Capitals == {France, Spain}
OneFact == {France}

InsertsOp(k, m, g, v) == [op |-> "insert", key |-> k, meta |-> m, gate |-> g, vec |-> v]
UpdatesOp(k, m, g, v) == [op |-> "update", key |-> k, meta |-> m, gate |-> g, vec |-> v]
DeletesOp(k) == [op |-> "delete", key |-> k]
InsertsKnnOp(l, e) == [op |-> "insert_knn", layer |-> l, entry |-> e]
DeletesKnnOp(x) == [op |-> "delete_knn", entity |-> x]

\* The files meet on the same keys: gates with and without metadata, both layers in
\* one file, a delete behind an insert, an update of what another file deletes.
AllPatches ==
  {<<InsertsOp(<<0, 0>>, 3, 1, 1), InsertsKnnOp(0, France)>>,
   <<DeletesOp(<<0, 0>>), InsertsOp(<<1, 0>>, 1, 8, None)>>,
   <<UpdatesOp(<<0, 0>>, None, 8, None), DeletesKnnOp("france")>>,
   <<InsertsOp(<<0, 1>>, 1, None, None), DeletesOp(<<1, 0>>), InsertsKnnOp(1, France)>>,
   <<UpdatesOp(<<0, 0>>, 1, None, 2), InsertsKnnOp(0, France)>>}

OnePatch == {<<InsertsOp(<<0, 0>>, 3, 1, 1), DeletesOp(<<1, 0>>), InsertsKnnOp(0, France)>>}

\* A file whose author gave it its path as description.
Named == [ops |-> <<DeletesOp(<<0, 0>>), InsertsOp(<<0, 0>>, 1, 1, None)>>, description |-> "b.vlp"]
Blank == [p \in Paths |-> None]
OneFile == [p \in Paths |-> Named]

One == {1}
Both == {1, 8}
Recordable == {"insert", "insert_knn", "delete", "update", "begin", "save", "use"}
AllStatements == Recordable \cup {"merge", "rebalance", "compact", "apply", "remove", "balance_error"}

NoEdits == 0
OneApplied == 1
TwoEdits == 2
ThreeEdits == 3
Unweighted == FALSE

Patching == INSTANCE PatchOverlay WITH MaxEdits <- NoEdits, KnnEntries <- Capitals
DirectEdits == INSTANCE PatchOverlay WITH
  Patches <- OnePatch, MaxPatches <- OneApplied, MaxEdits <- TwoEdits, KnnEntries <- Capitals, Vecs <- One
Recording == INSTANCE LqlSession WITH
  KnnEntries <- OneFact, Metas <- One, Gates <- One,
  Vecs <- One, MaxEdits <- ThreeEdits, Statements <- Recordable, Weighted <- Unweighted, Disk <- Blank
Session == INSTANCE LqlSession WITH
  KnnEntries <- OneFact, Metas <- One, Gates <- One,
  Vecs <- One, MaxEdits <- ThreeEdits, MaxPatches <- OneApplied, Statements <- AllStatements, Disk <- OneFile

LqlRunInit == LqlInit /\ part \in {"store", "patches", "edits", "recording", "session"}

\* Queries of r2 are for the store alone.
OneReader == reader'[r2] = reader[r2]

\* What changes the overlay under no session is not recorded.
NoSession == plain' = FALSE /\ UNCHANGED <<rec, auto, files, applied, raw, edges, todo, closed>>

\* The calls of the store, each of them a direct edit of the overlay.
StoreNext == KnnNext /\ edits' = 1 /\ UNCHANGED <<patches, queueVars, maps, cache>>

\* The sessions work on layer 0 alone, and the last one on two features of it.
Leaves(layers) == \A k \in layers : meta'[k] = meta[k] /\ gate'[k] = gate[k]

LqlRunNext ==
  /\ \/ part = "store" /\ StoreNext /\ NoSession
     \/ part = "patches" /\ Patching!Next /\ OneReader /\ NoSession
     \/ part = "edits" /\ DirectEdits!Next /\ OneReader /\ NoSession
     \/ part = "recording" /\ Recording!LqlNext /\ Leaves({1} \X Features)
     \/ part = "session" /\ Session!LqlNext /\ Leaves(({1} \X Features) \cup {<<0, 2>>})
  /\ UNCHANGED part

LqlRunSpec == LqlRunInit /\ [][LqlRunNext]_lqlRunVars
=============================================================================

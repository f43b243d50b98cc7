------------------------------ MODULE KnnStore ------------------------------
(***************************************************************************)
(* The retrieval-override store (crates/larql-vindex/src/patch/            *)
(* knn_store.rs): entries per layer, and key matrices built from them on   *)
(* demand.                                                                 *)
(*                                                                         *)
(* Mutators take &mut self, so they exclude every reader.  query_knn takes *)
(* &self: readers run side by side (the request server holds the overlay   *)
(* under a read lock) and lock key_matrices and dirty, two mutexes, one    *)
(* after the other.  Each acquisition is one action.  The rows of a matrix *)
(* are in the order of the entries, and both are only ever copied or       *)
(* filtered in order, so a set of entries stands for either.               *)
(***************************************************************************)
EXTENDS Naturals, FiniteSets

CONSTANTS
  Layers,
  KnnEntries,   \* the facts: records with an entity and a relation (lower case) and a target
  Readers,      \* threads that may query at the same time
  None          \* the absent value of an Option or of a map

VARIABLES
  knn,      \* entries: the entries of every layer, {} where the map has no such layer
  matrix,   \* key_matrices
  dirty,    \* the layers whose matrix must be rebuilt
  reader    \* a query in progress: its position, its layer and the matrix it used

knnVars == <<knn, matrix, dirty, reader>>

Idle == [pc |-> "idle", layer |-> None, rows |-> None]

Query ==
  [pc: {"idle", "build", "clean", "look", "answered"},
   layer: Layers \cup {None}, rows: (SUBSET KnnEntries) \cup {None}]

KnnTypeOK ==
  /\ knn \in [Layers -> SUBSET KnnEntries]
  /\ matrix \in [Layers -> (SUBSET KnnEntries) \cup {None}]
  /\ dirty \subseteq Layers
  /\ reader \in [Readers -> Query]

KnnInit ==
  /\ knn = [l \in Layers |-> {}]
  /\ matrix = [l \in Layers |-> None]
  /\ dirty = {}
  /\ reader = [r \in Readers |-> Idle]

\* No shared borrow is alive.
Exclusive == \A r \in Readers : reader[r].pc = "idle"

-----------------------------------------------------------------------------
(* Mutators *)

Add(l, e) ==
  /\ Exclusive
  /\ knn' = [knn EXCEPT ![l] = @ \cup {e}]
  /\ dirty' = dirty \cup {l}
  /\ UNCHANGED <<matrix, reader>>

\* remove_by_entity and remove_by_entity_relation: only the layers that lost an entry are marked.
RemoveMatching(gone) ==
  /\ Exclusive
  /\ knn' = [l \in Layers |-> knn[l] \ gone]
  /\ dirty' = dirty \cup {l \in Layers : knn[l] \cap gone # {}}
  /\ UNCHANGED <<matrix, reader>>

OfEntity(x) == {e \in KnnEntries : e.entity = x}

OfEdge(x, rel) == {e \in OfEntity(x) : e.relation = rel}

\* rebuild_overrides replaces the store by a default one.
KnnReset ==
  /\ Exclusive
  /\ knn' = [l \in Layers |-> {}]
  /\ matrix' = [l \in Layers |-> None]
  /\ dirty' = {}
  /\ UNCHANGED reader

-----------------------------------------------------------------------------
(* query_knn *)

\* Mutant of Ask: a matrix that exists is taken to be current.
AskTrustsMatrix(r, l) ==
  /\ reader[r].pc = "idle"
  /\ knn[l] # {}
  /\ reader' = [reader EXCEPT ![r] =
       [pc |-> IF matrix[l] = None THEN "build" ELSE "look", layer |-> l, rows |-> None]]
  /\ UNCHANGED <<knn, matrix, dirty>>

\* An empty layer answers at once.
Ask(r, l) ==
  /\ reader[r].pc = "idle"
  /\ knn[l] # {}
  /\ reader' = [reader EXCEPT ![r] =
       [pc |-> IF l \in dirty THEN "build" ELSE "look", layer |-> l, rows |-> None]]
  /\ UNCHANGED <<knn, matrix, dirty>>

\* rebuild_layer, first mutex: the matrix is replaced.
Rebuild(r) ==
  /\ reader[r].pc = "build"
  /\ matrix' = [matrix EXCEPT ![reader[r].layer] = knn[reader[r].layer]]
  /\ reader' = [reader EXCEPT ![r].pc = "clean"]
  /\ UNCHANGED <<knn, dirty>>

\* rebuild_layer, second mutex: the mark is removed.
Unmark(r) ==
  /\ reader[r].pc = "clean"
  /\ dirty' = dirty \ {reader[r].layer}
  /\ reader' = [reader EXCEPT ![r].pc = "look"]
  /\ UNCHANGED <<knn, matrix>>

\* Scores are computed from the matrix and its row numbers index the entries.
LookUp(r) ==
  /\ reader[r].pc = "look"
  /\ reader' = [reader EXCEPT ![r].pc = "answered", ![r].rows = matrix[reader[r].layer]]
  /\ UNCHANGED <<knn, matrix, dirty>>

Return(r) ==
  /\ reader[r].pc = "answered"
  /\ reader' = [reader EXCEPT ![r] = Idle]
  /\ UNCHANGED <<knn, matrix, dirty>>

KnnRead ==
  \E r \in Readers :
    \/ \E l \in Layers : Ask(r, l)
    \/ Rebuild(r) \/ Unmark(r) \/ LookUp(r) \/ Return(r)

KnnWrite ==
  \/ \E l \in Layers, e \in KnnEntries : Add(l, e)
  \/ \E e \in KnnEntries : RemoveMatching(OfEntity(e.entity))
  \/ \E e \in KnnEntries : RemoveMatching(OfEdge(e.entity, e.relation))
  \/ KnnReset

KnnNext == KnnRead \/ KnnWrite

KnnSpec == KnnInit /\ [][KnnNext]_knnVars

-----------------------------------------------------------------------------
(* Properties *)

\* A layer that is not marked has the matrix of its present entries: whatever
\* the order in which several readers rebuild and unmark it.
MatrixInStep ==
  \A l \in Layers : knn[l] # {} /\ l \notin dirty => matrix[l] = knn[l]

\* The rows that a finished query indexed the entries with are those entries:
\* no query answers from a matrix of another moment or finds none at all.
AnswerIndexesEntries ==
  \A r \in Readers : reader[r].pc = "answered" => reader[r].rows = knn[reader[r].layer]
=============================================================================

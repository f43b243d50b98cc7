--------------------------- MODULE KnowledgeGraph ---------------------------
(***************************************************************************)
(* The graph of crates/larql-core/src/core/graph.rs: the edges in a        *)
(* vector, the set of their triples, three indexes of positions in the     *)
(* vector, and the nodes, which are computed when they are asked for and   *)
(* kept until an edge is pushed; and the merge of                          *)
(* crates/larql-core/src/algo/merge.rs.                                    *)
(*                                                                         *)
(* A name is one token of the keyword index.  A node's type is inferred    *)
(* from the relations in and out of it, which stand for it.  Of an edge's  *)
(* payload the confidence and the source are kept.                         *)
(***************************************************************************)
EXTENDS Integers, Sequences, FiniteSets

CONSTANTS
  Entities, Relations,
  Triples,                  \* the triples <<subject, relation, object>> of the callers
  Payloads,                 \* records of a confidence and a source
  Priority(_),
  NoNodes,                  \* the cache of nodes is empty
  MaxEdges,                 \* bound: the edges of a graph
  MaxOther                  \* bound: the edges of a graph that is merged

ASSUME GraphAssumption ==
  /\ Triples \subseteq Entities \X Relations \X Entities
  /\ \A p \in Payloads : p.confidence \in Nat /\ Priority(p.source) \in Nat
  /\ MaxEdges \in Nat /\ MaxOther \in Nat

VARIABLES graph, call       \* the graph, and the last call with its arguments

vars == <<graph, call>>

Names == Entities \cup Relations
Edges == [triple : Triples, payload : Payloads]

\* Of an entity: the relations of its edges out and in, and their numbers.  One with
\* no edges, which the map of nodes does not have, has neither.
Node == [out_rels : SUBSET Relations, in_rels : SUBSET Relations, out_degree : Nat, in_degree : Nat]

Graphs ==
  [edges : Seq(Edges), edge_set : SUBSET Triples,
   adjacency : [Entities -> Seq(Relations \X Entities \X Nat)],
   reverse : [Entities -> Seq(Relations \X Entities \X Nat)],
   keyword_index : [Names -> Seq(Nat)],
   nodes : {NoNodes} \cup [Entities -> Node]]

TypeOK == graph \in Graphs

New ==
  [edges |-> <<>>, edge_set |-> {},
   adjacency |-> [e \in Entities |-> <<>>], reverse |-> [e \in Entities |-> <<>>],
   keyword_index |-> [n \in Names |-> <<>>],
   nodes |-> NoNodes]

-----------------------------------------------------------------------------
(* Construction *)

push_edge(g, edge) ==
  LET t   == edge.triple
      idx == Len(g.edges) + 1
  IN  [edges |-> Append(g.edges, edge),
       edge_set |-> g.edge_set \cup {t},
       adjacency |-> [g.adjacency EXCEPT ![t[1]] = Append(@, <<t[2], t[3], idx>>)],
       reverse |-> [g.reverse EXCEPT ![t[3]] = Append(@, <<t[2], t[1], idx>>)],
       keyword_index |-> [n \in Names |->
          IF n \in {t[1], t[2], t[3]} THEN Append(g.keyword_index[n], idx) ELSE g.keyword_index[n]],
       nodes |-> NoNodes]

try_add_edge(g, edge) == IF edge.triple \in g.edge_set THEN g ELSE push_edge(g, edge)

\* Where the index of its subject has a triple.
Found(g, t) ==
  LET entries == g.adjacency[t[1]]
  IN  {k \in DOMAIN entries : entries[k][1] = t[2] /\ entries[k][2] = t[3]}

find_edge_index(g, t) ==
  g.adjacency[t[1]][CHOOSE k \in Found(g, t) : \A j \in Found(g, t) : k <= j][3]

\* A payload that is the same is a Duplicate, which is not replaced.
insert_edge(g, edge) ==
  IF Found(g, edge.triple) = {} THEN push_edge(g, edge)
  ELSE [g EXCEPT !.edges = [@ EXCEPT ![find_edge_index(g, edge.triple)] = edge]]

\* The graph of the edges at the positions in kept, added again in their order.
rebuild_indexes(edges, kept) ==
  LET rebuilt[n \in 0 .. Len(edges)] ==
        IF n = 0 THEN New
        ELSE IF n \in kept THEN try_add_edge(rebuilt[n - 1], edges[n])
        ELSE rebuilt[n - 1]
  IN  rebuilt[Len(edges)]

\* Mutant of remove_edge: the indexes are not rebuilt.
remove_edge_alone(g, t) ==
  IF t \notin g.edge_set THEN g
  ELSE LET idx == find_edge_index(g, t)
       IN  [g EXCEPT !.edges = SubSeq(@, 1, idx - 1) \o SubSeq(@, idx + 1, Len(@)),
                     !.edge_set = @ \ {t}, !.nodes = NoNodes]

remove_edge(g, t) ==
  IF t \notin g.edge_set THEN g
  ELSE rebuild_indexes(g.edges, {n \in DOMAIN g.edges : g.edges[n].triple # t})

\* The relations and the number of the edges out of and into every entity.
NodesOf(edges) ==
  LET out(e) == {n \in DOMAIN edges : edges[n].triple[1] = e}
      in(e)  == {n \in DOMAIN edges : edges[n].triple[3] = e}
      rels(N) == {edges[n].triple[2] : n \in N}
  IN  [e \in Entities |->
         [out_rels |-> rels(out(e)), in_rels |-> rels(in(e)),
          out_degree |-> Cardinality(out(e)), in_degree |-> Cardinality(in(e))]]

ensure_nodes(g) == IF g.nodes # NoNodes THEN g ELSE [g EXCEPT !.nodes = NodesOf(g.edges)]

-----------------------------------------------------------------------------
(* Merge *)

Higher(strategy, new, old) ==
  \/ strategy = "MaxConfidence" /\ new.payload.confidence > old.payload.confidence
  \/ strategy = "SourcePriority" /\ Priority(new.payload.source) > Priority(old.payload.source)

\* Mutant of merged: an edge that wins is added to the one it beats.
merged_added(strategy, g, edge) ==
  IF edge.triple \notin g.edge_set THEN try_add_edge(g, edge)
  ELSE IF Higher(strategy, edge, g.edges[find_edge_index(g, edge.triple)])
  THEN try_add_edge(g, edge)
  ELSE g

\* One edge of the other graph: the edge that is beaten is removed first, for
\* add_edge skips a triple that is there.
merged(strategy, g, edge) ==
  IF edge.triple \notin g.edge_set THEN try_add_edge(g, edge)
  ELSE IF Higher(strategy, edge, g.edges[find_edge_index(g, edge.triple)])
  THEN try_add_edge(remove_edge(g, edge.triple), edge)
  ELSE g

merge_graphs(strategy, g, edges) ==
  LET acc[n \in 0 .. Len(edges)] ==
        IF n = 0 THEN g ELSE merged(strategy, acc[n - 1], edges[n])
  IN  acc[Len(edges)]

\* The edges of the graphs that may be merged: their triples differ.
Others ==
  {edges \in UNION {[1 .. n -> Edges] : n \in 0 .. MaxOther} :
     \A i, j \in DOMAIN edges : edges[i].triple = edges[j].triple => i = j}

-----------------------------------------------------------------------------
(* The calls *)

Init == graph = New /\ call = <<"new">>

Becomes(g, c) == Len(g.edges) <= MaxEdges /\ graph' = g /\ call' = c

AddEdge(edge) ==
  Becomes(try_add_edge(graph, edge), <<"add", edge.triple, edge.payload>>)
InsertEdge(edge) ==
  Becomes(insert_edge(graph, edge), <<"insert", edge.triple, edge.payload>>)
RemoveEdge(t) == Becomes(remove_edge(graph, t), <<"remove", t>>)

\* The edges that are kept come out of a hash map, in any order; every triple
\* is there once, so whatever the strategy all of them are kept.
Deduplicate ==
  LET Positions == DOMAIN graph.edges
  IN  \E f \in [Positions -> Positions] :
        /\ \A i, j \in Positions : f[i] = f[j] => i = j
        /\ Becomes(rebuild_indexes([i \in Positions |-> graph.edges[f[i]]], Positions),
                   <<"deduplicate">>)

AskNodes == Becomes(ensure_nodes(graph), <<"nodes">>)

\* What exists and get_edge answer.
Answers(g) == [t \in g.edge_set |-> g.edges[find_edge_index(g, t)].payload]

Merge(strategy, edges) ==
  Becomes(merge_graphs(strategy, graph, edges),
          <<"merge", strategy, Answers(rebuild_indexes(edges, DOMAIN edges))>>)

Next ==
  \/ \E edge \in Edges : AddEdge(edge) \/ InsertEdge(edge)
  \/ \E t \in Triples : RemoveEdge(t)
  \/ Deduplicate \/ AskNodes
  \/ \E edges \in Others, s \in {"Union", "MaxConfidence", "SourcePriority"} : Merge(s, edges)

Spec == Init /\ [][Next]_vars

-----------------------------------------------------------------------------
(* Properties *)

\* An index lists the lines of the positions in S, in the order of the vector.
InStep(entries, S, line) ==
  /\ \A k \in DOMAIN entries : \E n \in S : entries[k] = line[n]
  /\ \A n \in S : \E k \in DOMAIN entries : entries[k] = line[n]
  /\ \A j, k \in DOMAIN entries, m, n \in S :
       j < k /\ entries[j] = line[m] /\ entries[k] = line[n] => m < n

\* After any calls no triple is in the vector twice, and the set of triples and
\* the three indexes list the edges of the vector, each at its position, and
\* nothing else: replacing, removing and merging leave no stale position
\* (push_edge, rebuild_indexes).
IndexesAgree(g) ==
  LET Positions == DOMAIN g.edges
      t(n) == g.edges[n].triple
  IN  /\ g.edge_set = {t(n) : n \in Positions}
      /\ \A m, n \in Positions : t(m) = t(n) => m = n
      /\ \A e \in Entities :
           /\ InStep(g.adjacency[e], {n \in Positions : t(n)[1] = e},
                     [n \in Positions |-> <<t(n)[2], t(n)[3], n>>])
           /\ InStep(g.reverse[e], {n \in Positions : t(n)[3] = e},
                     [n \in Positions |-> <<t(n)[2], t(n)[1], n>>])
      /\ \A e \in Names :
           InStep(g.keyword_index[e], {n \in Positions : e \in {t(n)[1], t(n)[2], t(n)[3]}},
                  [n \in Positions |-> n])

\* The nodes that are kept are those of the edges, though insert_edge replaces
\* an edge and keeps them (the cache of ensure_nodes).
NodesFresh(g) == g.nodes # NoNodes => g.nodes = NodesOf(g.edges)

\* The indexes and the cached nodes of the graph follow its edges, whatever the calls
\* (push_edge, rebuild_indexes, ensure_nodes).
GraphInStep == TypeOK /\ IndexesAgree(graph) /\ NodesFresh(graph)

Abstract == INSTANCE TripleMap WITH map <- Answers(graph)

\* The graph is the map of its triples: adding keeps what is there, inserting
\* replaces it, deduplicating changes nothing, and merging takes the other
\* graph's edge of a triple exactly when the strategy prefers it, whatever the
\* order of the edges (try_add_edge, insert_edge, merge_graphs_with_options).
IsTripleMap == Abstract!Spec
==============================================================================

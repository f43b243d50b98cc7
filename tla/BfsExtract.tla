----------------------------- MODULE BfsExtract -----------------------------
(***************************************************************************)
(* `larql bfs`: extract_bfs of crates/larql-core/src/engine/bfs.rs probes  *)
(* a model for the relations of an entity and follows the answers, its     *)
(* caller appends every new edge to a checkpoint log, and a later run may  *)
(* resume from that log (crates/larql-core/src/io/checkpoint.rs).          *)
(*                                                                         *)
(* A fact is an edge, <<subject, relation, object>>; confidences only      *)
(* decide whether an answer counts, and are in what the model knows.  A    *)
(* line of the log is the sequence of what was written to it: whole edges, *)
(* and Torn or Cut for the beginning of one, Cut inside a character.       *)
(***************************************************************************)
EXTENDS Integers, Sequences, FiniteSets

CONSTANTS
  Words,            \* the entities
  Templates,        \* the prompt templates, named by their relations
  Seeds,            \* the sequence of the seed entities
  Followed,         \* the entities should_follow_entity accepts
  Knowledge,        \* what the model may know: functions of <<entity, relation>>
  NoAnswer,         \* an answer that is empty or below min_confidence
  MaxDepth, MaxEntities,
  Flaky,            \* whether a request to the model may fail
  DiskFails,        \* whether a write to the log may fail
  Wide,             \* whether names have characters of several bytes
  Torn, Cut,        \* the beginning of an edge in the log; Cut ends inside a character
  Nothing,          \* no edge; no output file, or one that was cut short
  MaxRuns,          \* bound: runs of the command
  MaxFaults         \* bound: kills and failed writes

Facts == Words \X Templates \X Words

\* What the parameters are.  The list of the seeds comes from str::split, so it has one.
Parameters ==
  /\ Seeds \in Seq(Words) /\ Seeds # <<>>
  /\ Followed \subseteq Words
  /\ NoAnswer \notin Words
  /\ Knowledge \subseteq [Words \X Templates -> Words \cup {NoAnswer}]
  /\ MaxDepth \in Nat /\ MaxEntities \in Nat /\ MaxRuns \in Nat /\ MaxFaults \in Nat
  /\ {Torn, Cut} \cap Facts = {}

ASSUME BfsAssumption == Parameters

Pieces == IF Wide THEN {Torn, Cut} ELSE {Torn}

VARIABLES
  know,                     \* what the model answers
  pc,                       \* where the process is, "off" if there is none
  queue, visited,           \* of extract_bfs; visited has the depth of each visit
  entity, left,             \* the entity that is probed, and its templates left
  found,                    \* the graph of extract_bfs
  pending,                  \* the edge that is being appended
  lines, ended,             \* the log, and whether its last line has its newline
  output,                   \* the saved graph
  acked, runs, faults,      \* history: appends that returned Ok; runs and faults so far
  missed                    \* history: a request of this run for something known failed

progress == <<queue, visited, entity, left, found>>
log == <<lines, ended>>
bfsVars == <<know, pc, progress, pending, log, output, acked, runs, faults, missed>>

BfsTypeOK ==
  /\ know \in Knowledge
  /\ pc \in {"off", "next", "probe", "json", "newline", "save"}
  /\ queue \in Seq(Words \X (0 .. MaxDepth))
  /\ \E V \in SUBSET Words : visited \in [V -> 0 .. MaxDepth] /\ Cardinality(V) <= MaxEntities
  /\ entity \in Words /\ left \subseteq Templates
  /\ found \subseteq Facts /\ pending \in Facts \cup {Nothing}
  /\ lines \in Seq(Seq(Facts \cup Pieces)) /\ ended \in BOOLEAN
  /\ output \in (SUBSET Facts) \cup {Nothing}
  /\ acked \subseteq Facts /\ runs \in 0 .. MaxRuns /\ faults \in 0 .. MaxFaults
  /\ missed \in BOOLEAN

-----------------------------------------------------------------------------
(* CheckpointLog *)

\* write_all of some bytes: they go on the last line if it has no newline.
Written(piece) ==
  IF ended THEN Append(lines, <<piece>>)
  ELSE [lines EXCEPT ![Len(lines)] = Append(@, piece)]

\* A line is an edge if it is the JSON of one and nothing else.
Replay(ls) == {e \in Facts : \E n \in DOMAIN ls : ls[n] = <<e>>}

\* BufRead::lines fails on a line that is not UTF-8, and replay with it.
Readable(ls) == \A n \in DOMAIN ls : \A k \in DOMAIN ls[n] : ls[n][k] # Cut

-----------------------------------------------------------------------------
(* A run *)

BfsInit ==
  /\ know \in Knowledge
  /\ pc = "off"
  /\ queue = <<>> /\ visited = <<>>
  /\ entity = Seeds[1] /\ left = {}
  /\ found = {} /\ pending = Nothing
  /\ lines = <<>> /\ ended = TRUE
  /\ output = Nothing
  /\ acked = {} /\ runs = 0 /\ faults = 0 /\ missed = FALSE

\* Mutant of Begin: the entities that have edges count as visited.
BeginBehind(g) ==
  /\ pc = "off" /\ pc' = "next"
  /\ found' = g
  /\ queue' = [n \in DOMAIN Seeds |-> <<Seeds[n], 0>>]
  /\ visited' = [e \in {edge[1] : edge \in g} |-> 0]
  /\ runs < MaxRuns /\ runs' = runs + 1 /\ missed' = FALSE
  /\ UNCHANGED <<know, entity, left, pending, log, output, acked, faults>>

\* Only the graph is resumed: the queue and the visited set start again.
Begin(g) ==
  /\ pc = "off" /\ pc' = "next"
  /\ found' = g
  /\ queue' = [n \in DOMAIN Seeds |-> <<Seeds[n], 0>>]
  /\ visited' = <<>>
  /\ runs < MaxRuns /\ runs' = runs + 1 /\ missed' = FALSE
  /\ UNCHANGED <<know, entity, left, pending, log, output, acked, faults>>

\* Without --resume the log of the same output is still appended to.
Start == Begin({})

Resume == Readable(lines) /\ Begin(Replay(lines))

-----------------------------------------------------------------------------
(* extract_bfs *)

Popped == Head(queue)

SkipEntity ==
  /\ pc = "next" /\ queue # <<>>
  /\ Popped[1] \in DOMAIN visited \/ Popped[2] > MaxDepth
  /\ queue' = Tail(queue)
  /\ UNCHANGED <<know, pc, visited, entity, left, found, pending, log, output, acked, runs, faults, missed>>

VisitEntity ==
  /\ pc = "next" /\ queue # <<>>
  /\ Popped[1] \notin DOMAIN visited /\ Popped[2] <= MaxDepth
  /\ Cardinality(DOMAIN visited) < MaxEntities
  /\ pc' = "probe"
  /\ queue' = Tail(queue)
  /\ entity' = Popped[1]
  /\ visited' = [e \in DOMAIN visited \cup {Popped[1]} |->
                   IF e = Popped[1] THEN Popped[2] ELSE visited[e]]
  /\ left' = Templates
  /\ UNCHANGED <<know, found, pending, log, output, acked, runs, faults, missed>>

\* The queue is empty, or max_entities have been visited.
EndSearch ==
  /\ pc = "next" /\ pc' = "save"
  /\ \/ queue = <<>>
     \/ /\ queue # <<>>
        /\ Popped[1] \notin DOMAIN visited /\ Popped[2] <= MaxDepth
        /\ Cardinality(DOMAIN visited) >= MaxEntities
  /\ UNCHANGED <<know, progress, pending, log, output, acked, runs, faults, missed>>

Queued(obj) ==
  IF obj \in DOMAIN visited \/ visited[entity] >= MaxDepth \/ obj \notin Followed THEN queue
  ELSE Append(queue, <<obj, visited[entity] + 1>>)

\* The order of the templates is that of a hash map.
Probe(r) ==
  LET obj  == know[<<entity, r>>]
      edge == <<entity, r, obj>>
  IN  /\ pc = "probe" /\ r \in left /\ left' = left \ {r}
      /\ obj # NoAnswer
      /\ queue' = Queued(obj)
      /\ found' = found \cup {edge}
      /\ IF edge \in found THEN UNCHANGED <<pc, pending>>
         ELSE pc' = "json" /\ pending' = edge
      /\ UNCHANGED <<know, visited, entity, log, output, acked, runs, faults, missed>>

\* No answer, or the request has failed.
ProbeFails(r) ==
  /\ pc = "probe" /\ r \in left /\ left' = left \ {r}
  /\ Flaky \/ know[<<entity, r>>] = NoAnswer
  /\ missed' = (missed \/ know[<<entity, r>>] # NoAnswer)
  /\ UNCHANGED <<know, pc, queue, visited, entity, found, pending, log, output, acked, runs, faults>>

EndEntity ==
  /\ pc = "probe" /\ left = {} /\ pc' = "next"
  /\ UNCHANGED <<know, progress, pending, log, output, acked, runs, faults, missed>>

-----------------------------------------------------------------------------
(* on_edge, which appends to the log, and the end of the command *)

WriteJson ==
  /\ pc = "json" /\ pc' = "newline"
  /\ lines' = Written(pending) /\ ended' = FALSE
  /\ UNCHANGED <<know, progress, pending, output, acked, runs, faults, missed>>

\* Mutant of WriteNewline: write! instead of writeln!.
WriteNoNewline ==
  /\ pc = "newline" /\ pc' = "probe"
  /\ acked' = acked \cup {pending} /\ pending' = Nothing
  /\ UNCHANGED <<know, progress, log, output, runs, faults, missed>>

WriteNewline ==
  /\ pc = "newline" /\ pc' = "probe"
  /\ ended' = TRUE
  /\ acked' = acked \cup {pending} /\ pending' = Nothing
  /\ UNCHANGED <<know, progress, lines, output, runs, faults, missed>>

\* What a write that is stopped has left in the log.
Stopped ==
  \/ UNCHANGED log
  \/ /\ pc = "json"
     /\ \E piece \in Pieces : lines' = Written(piece)
     /\ ended' = FALSE

\* on_edge drops the error of append.
AppendFails ==
  /\ DiskFails /\ pc \in {"json", "newline"} /\ pc' = "probe"
  /\ Stopped
  /\ pending' = Nothing
  /\ faults < MaxFaults /\ faults' = faults + 1
  /\ UNCHANGED <<know, progress, output, acked, runs, missed>>

\* Nothing is written at all, which is what on_edge does with every edge of a
\* run whose log could not be opened.
AppendsNothing ==
  /\ DiskFails /\ pc = "json" /\ pc' = "probe"
  /\ pending' = Nothing
  /\ UNCHANGED <<know, progress, log, output, acked, runs, faults, missed>>

Save ==
  /\ pc = "save" /\ pc' = "off"
  /\ output' = found
  /\ UNCHANGED <<know, progress, pending, log, acked, runs, faults, missed>>

\* fs::write truncates the output before it writes it.
Kill ==
  /\ pc # "off" /\ pc' = "off"
  /\ Stopped
  /\ output' \in {output} \cup (IF pc = "save" THEN {Nothing} ELSE {})
  /\ pending' = Nothing
  /\ faults < MaxFaults /\ faults' = faults + 1
  /\ UNCHANGED <<know, progress, acked, runs, missed>>

Run ==
  \/ SkipEntity \/ VisitEntity \/ EndSearch \/ EndEntity
  \/ \E r \in Templates : Probe(r) \/ ProbeFails(r)
  \/ WriteJson \/ WriteNewline \/ AppendFails \/ AppendsNothing \/ Save

BfsNext == Start \/ Resume \/ Run \/ Kill

BfsSpec == BfsInit /\ [][BfsNext]_bfsVars

-----------------------------------------------------------------------------
(* Properties *)

\* The entities that are followed from those at depth n.
Answered(S) == {know[<<e, r>>] : e \in S, r \in Templates} \cap Followed

\* The entities within n steps of the seeds.
Within[n \in 0 .. MaxDepth] ==
  IF n = 0 THEN {Seeds[k] : k \in DOMAIN Seeds}
  ELSE Within[n - 1] \cup Answered(Within[n - 1])

\* The search visits every entity at its distance from the seeds, whatever the
\* order of the templates: max_depth cuts nothing that is nearer (extract_bfs).
\* A failed request may make a way longer, and never shorter.
VisitedAtDistance ==
  \A e \in DOMAIN visited :
    /\ e \in Within[visited[e]]
    /\ ~missed /\ visited[e] > 0 => e \notin Within[visited[e] - 1]

\* The edges a run without faults finds.
Reachable ==
  {edge \in Facts : edge[1] \in Within[MaxDepth] /\ edge[3] = know[<<edge[1], edge[2]>>]}

\* A fault costs the log at most one edge whose append returned Ok: the one
\* that is appended to the torn line (CheckpointLog::append).
LossBounded == Cardinality(acked \ Replay(lines)) <= faults

\* The extraction goes where it should and loses no more than it must
\* (extract_bfs, CheckpointLog::append).
ExtractionHolds == BfsTypeOK /\ VisitedAtDistance /\ LossBounded

\* Whatever was killed and resumed before, and whatever the log has lost, a run whose
\* own requests were answered and that max_entities did not stop saves what one run
\* without faults saves (--resume).
SavesAll == [][Save /\ queue = <<>> /\ ~missed => output' = Reachable]_bfsVars
==============================================================================

--------------------------- MODULE KnowledgeProofs ---------------------------
(***************************************************************************)
(* BfsExtract: the search visits every entity at its distance, a fault     *)
(* costs the log one edge, and a run that is not disturbed saves all that  *)
(* can be reached, whatever came before it.                                *)
(* KnowledgeGraph: after any calls the indexes follow the edges, and the   *)
(* graph is the map of its triples.                                        *)
(* PathSearch: the path that is returned is a cheapest one.                *)
(***************************************************************************)
EXTENDS KnowledgeGraph, BfsExtract, PathSearch, FiniteSetTheorems, SequenceTheorems, WellFoundedInduction, TLAPS

Probing == pc \in {"probe", "json", "newline"}

TypeInv ==
  /\ BfsTypeOK
  /\ IsFiniteSet(DOMAIN visited)
  /\ pc \in {"json", "newline"} => pending \in Facts
  /\ Probing => entity \in DOMAIN visited
  /\ ~ended => lines # <<>>

LEMMA BfsTypes ==
  ASSUME BfsTypeOK
  PROVE  /\ know \in Knowledge
         /\ know \in [Words \X Templates -> Words \cup {NoAnswer}]
         /\ DOMAIN visited \subseteq Words /\ visited \in [DOMAIN visited -> 0 .. MaxDepth]
         /\ Cardinality(DOMAIN visited) <= MaxEntities
BY BfsAssumption DEF BfsTypeOK, Parameters

-----------------------------------------------------------------------------
(* The log *)

\* What a write does to the log: it goes to a line of its own, or to the last one.
LEMMA WrittenLog ==
  ASSUME NEW S, lines \in Seq(Seq(S)), ended \in BOOLEAN, ~ended => lines # <<>>, NEW p \in S
  PROVE  /\ Written(p) \in Seq(Seq(S)) /\ Written(p) # <<>>
         /\ Len(Written(p)) = IF ended THEN Len(lines) + 1 ELSE Len(lines)
         /\ \A n \in 1 .. Len(Written(p)) - 1 : n \in DOMAIN lines /\ Written(p)[n] = lines[n]
         /\ Written(p)[Len(Written(p))] =
              IF ended THEN <<p>> ELSE Append(lines[Len(lines)], p)
<1>1. CASE ended
  <2>1. Written(p) = Append(lines, <<p>>) /\ <<p>> \in Seq(S)
    BY <1>1 DEF Written
  <2> QED
    BY <1>1, <2>1, AppendProperties
<1>2. CASE ~ended
  <2>1. lines # <<>> /\ Len(lines) \in Nat \ {0} /\ Len(lines) \in DOMAIN lines
    BY <1>2
  <2>2. PICK l : l = Append(lines[Len(lines)], p)
    OBVIOUS
  <2>3. l \in Seq(S)
    BY <2>1, <2>2, AppendProperties
  <2>4. Written(p) = [lines EXCEPT ![Len(lines)] = l]
    BY <1>2, <2>2 DEF Written
  <2>5. PICK w : w = Written(p)
    OBVIOUS
  <2>6. /\ w \in Seq(Seq(S)) /\ Len(w) = Len(lines)
        /\ \A n \in 1 .. Len(lines) : w[n] = IF n = Len(lines) THEN l ELSE lines[n]
    BY <2>1, <2>3, <2>4, <2>5, ExceptSeq
  <2>7. w # <<>> /\ w[Len(w)] = l
    BY <2>1, <2>6
  <2>8. ASSUME NEW n \in 1 .. Len(w) - 1 PROVE n \in DOMAIN lines /\ w[n] = lines[n]
    <3>1. n \in 1 .. Len(lines) /\ n # Len(lines) /\ DOMAIN lines = 1 .. Len(lines)
      BY <2>1, <2>6
    <3> QED
      BY <3>1, <2>6
  <2> QED
    BY <1>2, <2>2, <2>5, <2>6, <2>7, <2>8
<1> QED
  BY <1>1, <1>2

LEMMA PiecesType ==
  ASSUME TypeInv, NEW p \in Facts \cup Pieces
  PROVE  Written(p) \in Seq(Seq(Facts \cup Pieces)) /\ Written(p) # <<>>
<1>1. lines \in Seq(Seq(Facts \cup Pieces)) /\ ended \in BOOLEAN /\ (~ended => lines # <<>>)
  BY DEF TypeInv, BfsTypeOK
<1>2. PICK S : S = Facts \cup Pieces
  OBVIOUS
<1> QED
  BY <1>1, <1>2, WrittenLog

\* A write that is stopped leaves a log.
LEMMA StoppedType ==
  ASSUME TypeInv, Stopped
  PROVE  /\ lines' \in Seq(Seq(Facts \cup Pieces)) /\ ended' \in BOOLEAN
         /\ ~ended' => lines' # <<>>
BY PiecesType DEF Stopped, TypeInv, BfsTypeOK, log

-----------------------------------------------------------------------------
(* Types *)

LEMMA TypeStart == BfsInit => TypeInv
<1> SUFFICES ASSUME BfsInit PROVE TypeInv
  OBVIOUS
<1>1. visited = <<>> /\ DOMAIN visited = {} /\ visited \in [{} -> 0 .. MaxDepth]
  BY DEF BfsInit
<1>2. IsFiniteSet({}) /\ Cardinality({}) = 0
  BY FS_EmptySet
<1>3. Seeds[1] \in Words
  BY BfsAssumption DEF Parameters
<1>4. \E V \in SUBSET Words : visited \in [V -> 0 .. MaxDepth] /\ Cardinality(V) <= MaxEntities
  BY <1>1, <1>2, BfsAssumption DEF Parameters
<1>5. queue \in Seq(Words \X (0 .. MaxDepth)) /\ lines \in Seq(Seq(Facts \cup Pieces))
  BY DEF BfsInit
<1>6. runs \in 0 .. MaxRuns /\ faults \in 0 .. MaxFaults
  BY BfsAssumption DEF BfsInit, Parameters
<1>7. BfsTypeOK
  BY <1>3, <1>4, <1>5, <1>6 DEF BfsInit, BfsTypeOK
<1> QED
  BY <1>1, <1>2, <1>7 DEF BfsInit, TypeInv, Probing

LEMMA BeginType ==
  ASSUME TypeInv, NEW g \in SUBSET Facts, Begin(g)
  PROVE  TypeInv'
<1>1. visited' = <<>> /\ DOMAIN visited' = {} /\ visited' \in [{} -> 0 .. MaxDepth]
  BY DEF Begin
<1>2. IsFiniteSet({}) /\ Cardinality({}) = 0
  BY FS_EmptySet
<1>3. queue' \in Seq(Words \X (0 .. MaxDepth))
  <2>1. Seeds \in Seq(Words) /\ MaxDepth \in Nat
    BY BfsAssumption DEF Parameters
  <2>2. queue' = [n \in 1 .. Len(Seeds) |-> <<Seeds[n], 0>>]
    BY <2>1 DEF Begin
  <2>3. \A n \in 1 .. Len(Seeds) : <<Seeds[n], 0>> \in Words \X (0 .. MaxDepth)
    BY <2>1
  <2> QED
    BY <2>1, <2>2, <2>3
<1>4. \E V \in SUBSET Words : visited' \in [V -> 0 .. MaxDepth] /\ Cardinality(V) <= MaxEntities
  BY <1>1, <1>2, BfsAssumption DEF Parameters
<1>5. runs' \in 0 .. MaxRuns
  BY BfsAssumption DEF TypeInv, BfsTypeOK, Begin, Parameters
<1> QED
  BY <1>1, <1>2, <1>3, <1>4, <1>5 DEF Begin, TypeInv, BfsTypeOK, Probing, log

LEMMA VisitType == ASSUME TypeInv, VisitEntity PROVE TypeInv'
<1>1. /\ queue \in Seq(Words \X (0 .. MaxDepth)) /\ queue # <<>>
      /\ Popped \in Words \X (0 .. MaxDepth) /\ Tail(queue) \in Seq(Words \X (0 .. MaxDepth))
  BY DEF VisitEntity, TypeInv, BfsTypeOK, Popped
<1>2. PICK V : V = DOMAIN visited
  OBVIOUS
<1>3. PICK W : W = V \cup {Popped[1]}
  OBVIOUS
<1>4. /\ V \subseteq Words /\ IsFiniteSet(V) /\ Popped[1] \notin V
      /\ visited \in [V -> 0 .. MaxDepth] /\ Cardinality(V) < MaxEntities
  BY <1>2, BfsTypes DEF TypeInv, VisitEntity
<1>5. IsFiniteSet(W) /\ Cardinality(W) = Cardinality(V) + 1 /\ Cardinality(V) \in Nat
  BY <1>3, <1>4, FS_AddElement, FS_CardinalityType
<1>6. W \subseteq Words /\ visited' \in [W -> 0 .. MaxDepth] /\ DOMAIN visited' = W
  BY <1>1, <1>2, <1>3, <1>4 DEF VisitEntity
<1>7. Cardinality(W) <= MaxEntities
  BY <1>4, <1>5, BfsAssumption DEF Parameters
<1> QED
  BY <1>1, <1>3, <1>5, <1>6, <1>7 DEF VisitEntity, TypeInv, BfsTypeOK, Probing, log

\* The steps that leave the visits alone.
LEMMA KeepsVisits ==
  ASSUME TypeInv, UNCHANGED <<know, visited, entity>>,
         pc' \in {"off", "next", "probe", "json", "newline", "save"},
         Probing' => Probing,
         queue' \in Seq(Words \X (0 .. MaxDepth)), left' \subseteq Templates, found' \subseteq Facts,
         pending' \in Facts \cup {Nothing}, pc' \in {"json", "newline"} => pending' \in Facts,
         lines' \in Seq(Seq(Facts \cup Pieces)), ended' \in BOOLEAN, ~ended' => lines' # <<>>,
         output' \in (SUBSET Facts) \cup {Nothing}, acked' \subseteq Facts,
         runs' \in 0 .. MaxRuns, faults' \in 0 .. MaxFaults, missed' \in BOOLEAN
  PROVE  TypeInv'
BY DEF TypeInv, BfsTypeOK, Probing

LEMMA ProbeType ==
  ASSUME TypeInv, NEW r \in Templates, Probe(r)
  PROVE  TypeInv'
<1>1. PICK obj : obj = know[<<entity, r>>]
  OBVIOUS
<1>2. entity \in Words /\ entity \in DOMAIN visited /\ visited[entity] \in 0 .. MaxDepth
  BY BfsTypes DEF TypeInv, BfsTypeOK, Probe, Probing
<1>3. obj \in Words /\ <<entity, r, obj>> \in Facts
  BY <1>1, <1>2, BfsTypes DEF TypeInv, Probe, Facts
<1>4. queue' = queue \/ (visited[entity] < MaxDepth /\ queue' = Append(queue, <<obj, visited[entity] + 1>>))
  <2>1. queue' = Queued(obj)
    BY <1>1 DEF Probe
  <2>2. MaxDepth \in Nat
    BY BfsAssumption DEF Parameters
  <2> QED
    BY <1>2, <2>1, <2>2 DEF Queued
<1>5. visited[entity] < MaxDepth => <<obj, visited[entity] + 1>> \in Words \X (0 .. MaxDepth)
  BY <1>2, <1>3, BfsAssumption DEF Parameters
<1>6. queue' \in Seq(Words \X (0 .. MaxDepth))
  <2>1. PICK Q : Q = Words \X (0 .. MaxDepth)
    OBVIOUS
  <2>2. queue \in Seq(Q) /\ (visited[entity] < MaxDepth => <<obj, visited[entity] + 1>> \in Q)
    BY <1>5, <2>1 DEF TypeInv, BfsTypeOK
  <2>3. queue' \in Seq(Q)
    BY <1>4, <2>2, AppendProperties
  <2> QED
    BY <2>1, <2>3
<1>7. /\ left' \subseteq Templates /\ found' \subseteq Facts
      /\ pc' \in {"probe", "json"} /\ pending' \in Facts \cup {Nothing}
      /\ (pc' = "json" => pending' \in Facts)
  BY <1>1, <1>3 DEF TypeInv, BfsTypeOK, Probe
<1>8. UNCHANGED <<know, visited, entity, lines, ended, output, acked, runs, faults, missed>> /\ Probing
  BY DEF Probe, log, Probing
<1> QED
  BY <1>6, <1>7, <1>8, KeepsVisits DEF TypeInv, BfsTypeOK

\* The steps of a run that neither visit nor find.
Quiet ==
  \/ SkipEntity \/ EndSearch \/ EndEntity \/ \E r \in Templates : ProbeFails(r)
  \/ WriteJson \/ WriteNewline \/ AppendFails \/ AppendsNothing \/ Save \/ Kill

LEMMA QuietSteps ==
  ASSUME TypeInv, Quiet
  PROVE  /\ UNCHANGED <<know, visited, entity, found, runs>>
         /\ queue' = queue \/ (queue # <<>> /\ queue' = Tail(queue))
         /\ left' \subseteq left
         /\ pc' \in {"off", "next", "probe", "newline", "save"}
         /\ Probing' => Probing
BY DEF Quiet, SkipEntity, EndSearch, EndEntity, ProbeFails, WriteJson, WriteNewline, AppendFails, AppendsNothing, Save,
       Kill, progress, Probing

LEMMA QuietLog ==
  ASSUME TypeInv, Quiet
  PROVE  /\ lines' \in Seq(Seq(Facts \cup Pieces)) /\ ended' \in BOOLEAN /\ (~ended' => lines' # <<>>)
<1>1. CASE WriteJson
  <2>1. pending \in Facts \cup Pieces
    BY <1>1 DEF WriteJson, TypeInv
  <2> QED
    BY <1>1, <2>1, PiecesType DEF WriteJson
<1>2. CASE AppendFails \/ Kill
  BY <1>2, StoppedType DEF AppendFails, Kill
<1>3. CASE ~ WriteJson /\ ~ AppendFails /\ ~ Kill
  BY <1>3 DEF Quiet, TypeInv, BfsTypeOK, SkipEntity, EndSearch, EndEntity, ProbeFails, WriteNewline,
         AppendsNothing, Save, log
<1> QED
  BY <1>1, <1>2, <1>3

LEMMA QuietType == ASSUME TypeInv, Quiet PROVE TypeInv'
<1>1. /\ UNCHANGED <<know, visited, entity, found, runs>>
      /\ left' \subseteq left
      /\ pc' \in {"off", "next", "probe", "newline", "save"}
      /\ Probing' => Probing
  BY QuietSteps
<1>2. queue' \in Seq(Words \X (0 .. MaxDepth))
  <2>1. queue \in Seq(Words \X (0 .. MaxDepth))
    BY DEF TypeInv, BfsTypeOK
  <2>2. queue # <<>> => Tail(queue) \in Seq(Words \X (0 .. MaxDepth))
    BY <2>1, HeadTailProperties
  <2> QED
    BY <2>1, <2>2, QuietSteps
<1>3. /\ pending' \in Facts \cup {Nothing} /\ (pc' \in {"json", "newline"} => pending' \in Facts)
      /\ acked' \subseteq Facts
  BY DEF Quiet, TypeInv, BfsTypeOK, SkipEntity, EndSearch, EndEntity, ProbeFails, WriteJson, WriteNewline,
         AppendFails, AppendsNothing, Save, Kill
<1>4. output' \in (SUBSET Facts) \cup {Nothing}
  BY DEF Quiet, TypeInv, BfsTypeOK, SkipEntity, EndSearch, EndEntity, ProbeFails, WriteJson, WriteNewline,
         AppendFails, AppendsNothing, Save, Kill
<1>5. faults' \in 0 .. MaxFaults
  <2>1. faults' = faults \/ (faults < MaxFaults /\ faults' = faults + 1)
    BY DEF Quiet, SkipEntity, EndSearch, EndEntity, ProbeFails, WriteJson, WriteNewline, AppendFails, AppendsNothing, Save, Kill
  <2> QED
    BY <2>1, BfsAssumption DEF TypeInv, BfsTypeOK, Parameters
<1>6. missed' \in BOOLEAN
  BY DEF Quiet, TypeInv, BfsTypeOK, SkipEntity, EndSearch, EndEntity, ProbeFails, WriteJson, WriteNewline,
         AppendFails, AppendsNothing, Save, Kill
<1> QED
  <2>1. left' \subseteq Templates /\ found' \subseteq Facts /\ runs' \in 0 .. MaxRuns
    BY <1>1 DEF TypeInv, BfsTypeOK
  <2>2. UNCHANGED <<know, visited, entity>>
        /\ pc' \in {"off", "next", "probe", "json", "newline", "save"}
    BY <1>1
  <2>3. lines' \in Seq(Seq(Facts \cup Pieces)) /\ ended' \in BOOLEAN /\ (~ended' => lines' # <<>>)
    BY QuietLog
  <2> QED
    BY <1>1, <1>2, <1>3, <1>4, <1>5, <1>6, <2>1, <2>2, <2>3, KeepsVisits

\* What a step is.
LEMMA BfsSteps ==
  ASSUME TypeInv, BfsNext
  PROVE  \/ \E g \in SUBSET Facts : Begin(g) /\ (g = {} \/ g = Replay(lines))
         \/ VisitEntity
         \/ \E r \in Templates : Probe(r)
         \/ Quiet
<1>1. Replay(lines) \subseteq Facts
  BY DEF Replay
<1> QED
  BY <1>1 DEF BfsNext, Start, Resume, Run, Quiet

LEMMA TypeNext == TypeInv /\ [BfsNext]_bfsVars => TypeInv'
<1>1. ASSUME TypeInv, BfsNext PROVE TypeInv'
  BY <1>1, BfsSteps, BeginType, VisitType, ProbeType, QuietType
<1>2. ASSUME TypeInv, UNCHANGED bfsVars PROVE TypeInv'
  BY <1>2 DEF TypeInv, BfsTypeOK, Probing, bfsVars, progress, log
<1> QED
  BY <1>1, <1>2

-----------------------------------------------------------------------------
(* A fault costs one edge *)

LastOf(line) == line[Len(line)]

\* The lines of several pieces, and the one without a newline that nobody is writing: each
\* of them has cost a fault.
Spoiled ==
  {n \in DOMAIN lines :
     Len(lines[n]) >= 2 \/ (n = Len(lines) /\ ~ended /\ pc # "newline")}

LogInv ==
  /\ \A n \in DOMAIN lines : lines[n] # <<>>
  /\ pc = "newline" => ~ended /\ LastOf(lines[Len(lines)]) = pending
  /\ \A e \in acked : \E n \in DOMAIN lines : LastOf(lines[n]) = e /\ (n = Len(lines) => ended)
  /\ Cardinality(Spoiled) <= faults

LEMMA LogStart == BfsInit => LogInv
<1> SUFFICES ASSUME BfsInit PROVE LogInv
  OBVIOUS
<1>1. lines = <<>> /\ DOMAIN lines = {} /\ Spoiled = {}
  BY DEF BfsInit, Spoiled
<1> QED
  BY <1>1, FS_EmptySet DEF BfsInit, LogInv

LEMMA LogTypes ==
  ASSUME TypeInv
  PROVE  /\ \E S : lines \in Seq(Seq(S)) /\ S = Facts \cup Pieces
         /\ DOMAIN lines = 1 .. Len(lines) /\ Len(lines) \in Nat
         /\ ended \in BOOLEAN /\ (~ended => Len(lines) \in DOMAIN lines)
         /\ faults \in Nat
         /\ IsFiniteSet(Spoiled) /\ Cardinality(Spoiled) \in Nat
<1>1. PICK S : S = Facts \cup Pieces
  OBVIOUS
<1>2. lines \in Seq(Seq(S)) /\ ended \in BOOLEAN /\ (~ended => lines # <<>>) /\ faults \in Nat
  BY <1>1, BfsAssumption DEF TypeInv, BfsTypeOK, Parameters
<1>3. DOMAIN lines = 1 .. Len(lines) /\ Len(lines) \in Nat /\ (~ended => Len(lines) \in DOMAIN lines)
  BY <1>2
<1>4. IsFiniteSet(1 .. Len(lines)) /\ Spoiled \subseteq 1 .. Len(lines)
  BY <1>3, FS_Interval DEF Spoiled
<1> QED
  BY <1>1, <1>2, <1>3, <1>4, FS_Subset, FS_CardinalityType

\* The count of the spoiled lines, when no line or one line more is spoiled.
LEMMA SpoiledCount ==
  ASSUME TypeInv, TypeInv', Cardinality(Spoiled) <= faults, NEW x,
         \/ Spoiled' \subseteq Spoiled /\ faults' >= faults
         \/ Spoiled' \subseteq Spoiled \cup {x} /\ faults' = faults + 1
  PROVE  Cardinality(Spoiled') <= faults'
<1>1. /\ IsFiniteSet(Spoiled) /\ Cardinality(Spoiled) \in Nat /\ faults \in Nat
      /\ faults' \in Nat /\ Cardinality(Spoiled') \in Nat
  <2>1. (IsFiniteSet(Spoiled) /\ Cardinality(Spoiled) \in Nat /\ faults \in Nat)'
    BY LogTypes, PTL
  <2> QED
    BY <2>1, LogTypes
<1>2. PICK S, T : S = Spoiled /\ T = Spoiled'
  OBVIOUS
<1>3. T \subseteq S => Cardinality(T) <= Cardinality(S)
  BY <1>1, <1>2, FS_Subset
<1>4. T \subseteq S \cup {x} => Cardinality(T) <= Cardinality(S) + 1
  <2>1. IsFiniteSet(S \cup {x}) /\ Cardinality(S \cup {x}) \in {Cardinality(S), Cardinality(S) + 1}
    BY <1>1, <1>2, FS_AddElement
  <2>2. T \subseteq S \cup {x} => Cardinality(T) <= Cardinality(S \cup {x})
    BY <2>1, FS_Subset
  <2> QED
    BY <1>1, <1>2, <2>1, <2>2
<1> QED
  BY <1>1, <1>2, <1>3, <1>4

\* A step that leaves the log alone.
LEMMA LogUntouched ==
  ASSUME TypeInv, TypeInv', LogInv, UNCHANGED <<lines, ended, acked>>,
         pc # "newline", pc' # "newline", faults' >= faults
  PROVE  LogInv'
<1>1. Spoiled' = Spoiled
  BY DEF Spoiled
<1>2. Cardinality(Spoiled') <= faults'
  BY <1>1, SpoiledCount DEF LogInv
<1> QED
  BY <1>2 DEF LogInv

\* A fault between the two writes of a line.
LEMMA LogCut ==
  ASSUME TypeInv, TypeInv', LogInv, UNCHANGED <<lines, ended, acked>>, pc' # "newline", faults' = faults + 1
  PROVE  LogInv'
<1>1. Spoiled' \subseteq Spoiled \cup {Len(lines)}
  BY DEF Spoiled
<1>2. Cardinality(Spoiled') <= faults'
  BY <1>1, SpoiledCount DEF LogInv
<1> QED
  BY <1>2 DEF LogInv

\* What a write to the log leaves as it was.
LEMMA LogWritten ==
  ASSUME TypeInv, LogInv, pc = "json", NEW p \in Facts \cup Pieces, lines' = Written(p), ended' = FALSE
  PROVE  /\ lines' # <<>> /\ DOMAIN lines' = 1 .. Len(lines') /\ Len(lines') \in DOMAIN lines'
         /\ \A n \in DOMAIN lines' : lines'[n] # <<>>
         /\ \A n \in DOMAIN lines' \ {Len(lines')} : n \in DOMAIN lines /\ lines'[n] = lines[n]
         /\ \A n \in DOMAIN lines :
              (n = Len(lines) => ended) => n \in DOMAIN lines' /\ n # Len(lines') /\ lines'[n] = lines[n]
         /\ LastOf(lines'[Len(lines')]) = p
         /\ ~ended => Len(lines') = Len(lines) /\ Len(lines) \in Spoiled
         /\ ended => Len(lines'[Len(lines')]) = 1
<1>1. PICK S : lines \in Seq(Seq(S)) /\ S = Facts \cup Pieces
  BY LogTypes
<1>2. /\ DOMAIN lines = 1 .. Len(lines) /\ Len(lines) \in Nat /\ p \in S
      /\ ended \in BOOLEAN /\ (~ended => lines # <<>> /\ Len(lines) \in DOMAIN lines)
  BY <1>1, LogTypes DEF TypeInv
<1>3. PICK w : w = Written(p)
  OBVIOUS
<1>4. /\ w \in Seq(Seq(S)) /\ w # <<>>
      /\ Len(w) = IF ended THEN Len(lines) + 1 ELSE Len(lines)
      /\ \A n \in 1 .. Len(w) - 1 : n \in DOMAIN lines /\ w[n] = lines[n]
      /\ w[Len(w)] = IF ended THEN <<p>> ELSE Append(lines[Len(lines)], p)
  BY <1>1, <1>2, <1>3, WrittenLog
<1>5. DOMAIN w = 1 .. Len(w) /\ Len(w) \in Nat \ {0}
  BY <1>4
<1>6. \A n \in DOMAIN w \ {Len(w)} : n \in DOMAIN lines /\ w[n] = lines[n]
  <2>1. PICK k : k = Len(w)
    OBVIOUS
  <2>2. k \in Nat
    BY <1>5, <2>1
  <2>3. \A n \in 1 .. k : n # k => n \in 1 .. k - 1
    BY <2>2
  <2> QED
    BY <1>4, <1>5, <2>1, <2>3
<1>7. \A n \in DOMAIN lines : (n = Len(lines) => ended) => n \in DOMAIN w /\ n # Len(w) /\ w[n] = lines[n]
  <2>1. PICK k, m : k = Len(w) /\ m = Len(lines)
    OBVIOUS
  <2>2. m \in Nat /\ k = IF ended THEN m + 1 ELSE m
    BY <1>2, <1>4, <2>1
  <2>3. \A n \in 1 .. m : (n = m => ended) => n \in 1 .. k - 1 /\ n \in 1 .. k /\ n # k
    BY <2>2
  <2> QED
    BY <1>2, <1>4, <1>5, <2>1, <2>3
<1>8. w[Len(w)] # <<>> /\ LastOf(w[Len(w)]) = p /\ (ended => Len(w[Len(w)]) = 1)
  <2>1. CASE ended
    BY <1>4, <2>1 DEF LastOf
  <2>2. CASE ~ended
    <3>1. PICK l : l = lines[Len(lines)]
      OBVIOUS
    <3>2. l \in Seq(S)
      BY <1>1, <1>2, <2>2, <3>1
    <3>3. Append(l, p) # <<>> /\ Len(Append(l, p)) = Len(l) + 1 /\ Append(l, p)[Len(l) + 1] = p
      BY <1>2, <3>2, AppendProperties
    <3> QED
      BY <1>4, <2>2, <3>1, <3>3 DEF LastOf
  <2> QED
    BY <2>1, <2>2
<1>9. \A n \in DOMAIN w : w[n] # <<>>
  BY <1>6, <1>8 DEF LogInv
<1>10. ~ended => Len(w) = Len(lines) /\ Len(lines) \in Spoiled
  BY <1>2, <1>4 DEF Spoiled
<1> QED
  BY <1>3, <1>4, <1>5, <1>6, <1>7, <1>8, <1>9, <1>10

\* The JSON of an edge, whole or in part.
LEMMA LogGrows ==
  ASSUME TypeInv, TypeInv', LogInv, pc = "json", NEW p \in Facts \cup Pieces, lines' = Written(p), ended' = FALSE,
         UNCHANGED acked,
         \/ pc' = "newline" /\ pending' = p /\ faults' = faults
         \/ pc' # "newline" /\ faults' = faults + 1
  PROVE  LogInv'
<1>1. \A n \in DOMAIN lines' \ {Len(lines')} : n \in Spoiled' => n \in Spoiled
  BY LogWritten DEF Spoiled
<1>2. Spoiled' \subseteq Spoiled \cup {Len(lines')}
  BY <1>1 DEF Spoiled
<1>3. pc' = "newline" => Spoiled' \subseteq Spoiled
  <2> SUFFICES ASSUME pc' = "newline", Len(lines') \in Spoiled' PROVE Len(lines') \in Spoiled
    BY <1>2
  <2>1. Len(lines'[Len(lines')]) >= 2
    BY DEF Spoiled
  <2>2. ~ended
    <3>1. PICK k : k = Len(lines'[Len(lines')])
      OBVIOUS
    <3>2. k >= 2 /\ (ended => k = 1)
      BY <2>1, <3>1, LogWritten
    <3> QED
      BY <3>2
  <2> QED
    BY <2>2, LogWritten
<1>4. faults' >= faults
  BY LogTypes
<1>5. Cardinality(Spoiled') <= faults'
  BY <1>2, <1>3, <1>4, SpoiledCount DEF LogInv
<1>6. \A e \in acked' : \E n \in DOMAIN lines' : LastOf(lines'[n]) = e /\ (n = Len(lines') => ended')
  BY LogWritten DEF LogInv
<1>7. \A n \in DOMAIN lines' : lines'[n] # <<>>
  BY LogWritten
<1>8. pc' = "newline" => ~ended' /\ LastOf(lines'[Len(lines')]) = pending'
  BY LogWritten
<1> QED
  BY <1>5, <1>6, <1>7, <1>8 DEF LogInv

LEMMA LogNewline == ASSUME TypeInv, TypeInv', LogInv, WriteNewline PROVE LogInv'
<1>1. Len(lines) \in DOMAIN lines /\ LastOf(lines[Len(lines)]) = pending
  BY LogTypes DEF WriteNewline, LogInv
<1>2. UNCHANGED <<lines, faults>> /\ ended' = TRUE /\ acked' = acked \cup {pending} /\ pc' = "probe"
  BY DEF WriteNewline
<1>3. Spoiled' \subseteq Spoiled /\ faults' >= faults
  BY <1>2, LogTypes DEF Spoiled
<1>4. Cardinality(Spoiled') <= faults'
  BY <1>3, SpoiledCount DEF LogInv
<1> QED
  BY <1>1, <1>2, <1>4 DEF LogInv

LEMMA LogStops ==
  ASSUME TypeInv, TypeInv', LogInv, Stopped, UNCHANGED acked, pc' # "newline", faults' = faults + 1
  PROVE  LogInv'
<1>1. CASE UNCHANGED log
  BY <1>1, LogCut DEF log
<1>2. CASE ~ UNCHANGED log
  BY <1>2, LogGrows DEF Stopped
<1> QED
  BY <1>1, <1>2

LEMMA LogNext ==
  ASSUME TypeInv, TypeInv', LogInv, [BfsNext]_bfsVars
  PROVE  LogInv'
<1>1. CASE WriteJson
  <2>1. pending \in Facts /\ pending' = pending /\ lines' = Written(pending) /\ ended' = FALSE
        /\ pc = "json" /\ pc' = "newline" /\ acked' = acked /\ faults' = faults
    BY <1>1 DEF WriteJson, TypeInv
  <2> QED
    BY <2>1, LogGrows
<1>2. CASE WriteNewline
  BY <1>2, LogNewline
<1>3. CASE AppendFails \/ Kill
  BY <1>3, LogStops DEF AppendFails, Kill
<1>4. CASE \/ \E g \in SUBSET Facts : Begin(g)
           \/ VisitEntity \/ \E r \in Templates : Probe(r) \/ ProbeFails(r)
           \/ SkipEntity \/ EndSearch \/ EndEntity \/ AppendsNothing \/ Save
  <2>1. UNCHANGED <<lines, ended, acked, faults>> /\ pc # "newline" /\ pc' # "newline"
    BY <1>4 DEF Begin, VisitEntity, Probe, ProbeFails, SkipEntity, EndSearch, EndEntity, AppendsNothing,
         Save, log
  <2>2. faults' >= faults
    BY <2>1, LogTypes
  <2> QED
    BY <2>1, <2>2, LogUntouched
<1>5. CASE UNCHANGED bfsVars
  BY <1>5 DEF LogInv, Spoiled, LastOf, bfsVars, log
<1> QED
  BY <1>1, <1>2, <1>3, <1>4, <1>5, BfsSteps DEF Quiet

LEMMA LossFromLog ==
  ASSUME TypeInv, LogInv
  PROVE  LossBounded
<1>1. PICK f : f = [n \in Spoiled |-> LastOf(lines[n])]
  OBVIOUS
<1>2. PICK T : T = {f[n] : n \in Spoiled}
  OBVIOUS
<1>3. f \in Surjection(Spoiled, T)
  BY <1>1, <1>2 DEF Surjection
<1>4. IsFiniteSet(T) /\ Cardinality(T) <= Cardinality(Spoiled)
  BY <1>3, LogTypes, FS_Surjection
<1>5. acked \ Replay(lines) \subseteq T
  <2> SUFFICES ASSUME NEW e \in acked, e \notin Replay(lines) PROVE e \in T
    OBVIOUS
  <2>1. PICK n \in DOMAIN lines : LastOf(lines[n]) = e
    BY DEF LogInv
  <2>2. PICK S : lines \in Seq(Seq(S))
    BY LogTypes
  <2>3. PICK l : l = lines[n]
    OBVIOUS
  <2>4. l \in Seq(S) /\ l # <<>> /\ l[Len(l)] = e
    BY <2>1, <2>2, <2>3 DEF LogInv, LastOf
  <2>5. Len(l) # 1
    <3> SUFFICES ASSUME Len(l) = 1 PROVE FALSE
      OBVIOUS
    <3>1. l = <<e>>
      BY <2>4
    <3> QED
      BY <2>3, <3>1 DEF Replay, TypeInv, BfsTypeOK
  <2>6. Len(l) >= 2
    <3>1. Len(l) \in Nat /\ Len(l) # 0
      BY <2>4, EmptySeq
    <3>2. PICK k : k = Len(l)
      OBVIOUS
    <3>3. k \in Nat /\ k # 0 /\ k # 1
      BY <2>5, <3>1, <3>2
    <3>4. k >= 2
      BY <3>3
    <3> QED
      BY <3>2, <3>4
  <2>7. n \in Spoiled /\ f[n] = e
    BY <1>1, <2>1, <2>3, <2>6 DEF Spoiled
  <2> QED
    BY <1>2, <2>7
<1>6. PICK L : L = acked \ Replay(lines)
  OBVIOUS
<1>7. IsFiniteSet(L) /\ Cardinality(L) <= Cardinality(T)
  BY <1>4, <1>5, <1>6, FS_Subset
<1> QED
  BY <1>4, <1>6, <1>7, LogTypes, FS_CardinalityType DEF LossBounded, LogInv

-----------------------------------------------------------------------------
(* The distance from the seeds *)

\* A set that has 0 and with a number the next one has all of them.
LEMMA SetInduction ==
  ASSUME NEW A, 0 \in A, \A n \in A \cap Nat : n + 1 \in A
  PROVE  Nat \subseteq A
<1> DEFINE B == {1 .. n : n \in Nat \ A}
<1> SUFFICES ASSUME ~ (Nat \subseteq A) PROVE FALSE
  OBVIOUS
<1>1. B # {}
  OBVIOUS
<1>2. B \subseteq FiniteSubsetsOf(Nat)
  <2>1. \A n \in Nat : IsFiniteSet(1 .. n) /\ 1 .. n \in SUBSET Nat
    BY FS_Interval
  <2> QED
    BY <2>1 DEF FiniteSubsetsOf
<1>3. PICK S \in B : \A T \in B : ~ (<<T, S>> \in StrictSubsetOrdering(Nat))
  BY <1>1, <1>2, FS_StrictSubsetOrderingWellFounded, WFMin
<1>4. PICK n \in Nat \ A : S = 1 .. n
  BY <1>3
<1>5. n - 1 \in Nat /\ n - 1 \notin A
  <2> HIDE DEF B
  <2>1. n \in Nat /\ n # 0 /\ n \notin A
    BY <1>4
  <2>2. n - 1 \in Nat /\ (n - 1) + 1 = n
    BY <2>1
  <2> QED
    BY <2>1, <2>2
<1>6. <<1 .. (n - 1), 1 .. n>> \in StrictSubsetOrdering(Nat)
  <2>1. n \in 1 .. n /\ n \notin 1 .. (n - 1) /\ 1 .. (n - 1) \subseteq 1 .. n
    BY <1>4, <1>5
  <2> QED
    BY <2>1, <1>4, <1>5 DEF StrictSubsetOrdering
<1> QED
  BY <1>3, <1>4, <1>5, <1>6

\* The function that Within is defined by, up to n.
Distances(f, n) ==
  f = [k \in 0 .. n |-> IF k = 0 THEN {Seeds[i] : i \in DOMAIN Seeds} ELSE f[k - 1] \cup Answered(f[k - 1])]

LEMMA DistancesExist == ASSUME NEW n \in Nat PROVE \E f : Distances(f, n)
<1> DEFINE A == {m \in Nat : \E f : Distances(f, m)}
<1>1. 0 \in A
  <2>1. PICK f : f = [k \in 0 .. 0 |-> {Seeds[i] : i \in DOMAIN Seeds}]
    OBVIOUS
  <2>2. Distances(f, 0)
    BY <2>1 DEF Distances
  <2> QED
    BY <2>2
<1>2. ASSUME NEW m \in A \cap Nat PROVE m + 1 \in A
  <2>1. PICK f : Distances(f, m)
    BY <1>2
  <2> HIDE DEF A
  <2>2. PICK g : g = [k \in 0 .. (m + 1) |-> IF k <= m THEN f[k] ELSE f[m] \cup Answered(f[m])]
    OBVIOUS
  <2>3. ASSUME NEW k \in 0 .. (m + 1)
        PROVE  g[k] = IF k = 0 THEN {Seeds[i] : i \in DOMAIN Seeds} ELSE g[k - 1] \cup Answered(g[k - 1])
    <3>1. k # 0 => k - 1 \in 0 .. m /\ g[k - 1] = f[k - 1]
      BY <2>2
    <3>2. CASE k <= m
      <4>1. k \in 0 .. m /\ g[k] = f[k]
        BY <3>2, <2>2
      <4>2. f[k] = IF k = 0 THEN {Seeds[i] : i \in DOMAIN Seeds} ELSE f[k - 1] \cup Answered(f[k - 1])
        BY <4>1, <2>1 DEF Distances
      <4> QED
        BY <3>1, <4>1, <4>2
    <3>3. CASE k = m + 1
      <4>1. m \in Nat
        OBVIOUS
      <4>2. k # 0 /\ k - 1 = m /\ ~ (k <= m)
        BY <3>3, <4>1
      <4>3. g[k] = f[m] \cup Answered(f[m]) /\ g[k - 1] = f[m]
        BY <3>1, <4>2, <2>2
      <4> QED
        BY <4>2, <4>3
    <3> QED
      BY <3>2, <3>3
  <2>4. Distances(g, m + 1)
    BY <2>2, <2>3 DEF Distances
  <2> QED
    BY <2>4 DEF A
<1> HIDE DEF A
<1>3. n \in A
  BY <1>1, <1>2, SetInduction
<1> QED
  BY <1>3 DEF A

LEMMA WithinAt ==
  ASSUME NEW n \in 0 .. MaxDepth
  PROVE  Within[n] = IF n = 0 THEN {Seeds[i] : i \in DOMAIN Seeds}
                     ELSE Within[n - 1] \cup Answered(Within[n - 1])
<1>1. MaxDepth \in Nat
  BY BfsAssumption DEF Parameters
<1>2. \E f : f = [k \in 0 .. MaxDepth |-> IF k = 0 THEN {Seeds[i] : i \in DOMAIN Seeds}
                                          ELSE f[k - 1] \cup Answered(f[k - 1])]
  BY <1>1, DistancesExist DEF Distances
<1> QED
  BY <1>2 DEF Within

\* Who is near is also within any greater distance.
LEMMA WithinGrows ==
  ASSUME NEW n \in 0 .. MaxDepth, NEW m \in 0 .. MaxDepth, n <= m
  PROVE  Within[n] \subseteq Within[m]
<1>1. MaxDepth \in Nat
  BY BfsAssumption DEF Parameters
<1> DEFINE A == {k \in Nat : n + k <= MaxDepth => Within[n] \subseteq Within[n + k]}
<1>2. 0 \in A
  OBVIOUS
<1>3. ASSUME NEW k \in A \cap Nat PROVE k + 1 \in A
  <2>1. n + k <= MaxDepth => Within[n] \subseteq Within[n + k]
    BY <1>3
  <2> HIDE DEF A
  <2>2. ASSUME n + (k + 1) <= MaxDepth PROVE Within[n] \subseteq Within[n + (k + 1)]
    <3>1. n + (k + 1) \in 0 .. MaxDepth /\ n + (k + 1) # 0 /\ (n + (k + 1)) - 1 = n + k /\ n + k <= MaxDepth
      BY <1>1, <2>2
    <3>2. Within[n + (k + 1)] = Within[n + k] \cup Answered(Within[n + k])
      BY <3>1, WithinAt
    <3> QED
      BY <2>1, <3>1, <3>2
  <2> QED
    BY <2>2 DEF A
<1> HIDE DEF A
<1>4. m - n \in A
  BY <1>1, <1>2, <1>3, SetInduction
<1>5. n + (m - n) = m
  OBVIOUS
<1> QED
  BY <1>4, <1>5 DEF A

LEMMA WithinStays == ASSUME UNCHANGED know PROVE Within' = Within
BY DEF Within, Answered

\* An answer is one step further.
LEMMA WithinAnswered ==
  ASSUME NEW n \in 0 .. MaxDepth, n < MaxDepth, NEW e \in Within[n], NEW r \in Templates,
         know[<<e, r>>] \in Followed
  PROVE  know[<<e, r>>] \in Within[n + 1]
<1>1. n + 1 \in 0 .. MaxDepth /\ n + 1 # 0 /\ (n + 1) - 1 = n
  BY BfsAssumption DEF Parameters
<1>2. Within[n + 1] = Within[n] \cup Answered(Within[n])
  BY <1>1, WithinAt
<1> QED
  BY <1>2 DEF Answered

-----------------------------------------------------------------------------
(* The queue is sorted, and what is in it is where it says *)

SearchInv ==
  /\ \A e \in DOMAIN visited : e \in Within[visited[e]]
  /\ \A k \in DOMAIN queue : queue[k][1] \in Within[queue[k][2]]
  /\ \A k, l \in DOMAIN queue : k <= l => queue[k][2] <= queue[l][2]
  /\ \A k, l \in DOMAIN queue : queue[l][2] <= queue[k][2] + 1
  /\ \A e \in DOMAIN visited, k \in DOMAIN queue : visited[e] <= queue[k][2]
  /\ Probing => /\ \A e \in DOMAIN visited : visited[e] <= visited[entity]
                /\ \A k \in DOMAIN queue : queue[k][2] <= visited[entity] + 1

LEMMA SearchTypes ==
  ASSUME TypeInv
  PROVE  /\ MaxDepth \in Nat
         /\ DOMAIN queue = 1 .. Len(queue) /\ Len(queue) \in Nat
         /\ \A k \in DOMAIN queue : queue[k][1] \in Words /\ queue[k][2] \in 0 .. MaxDepth
         /\ \A e \in DOMAIN visited : e \in Words /\ visited[e] \in 0 .. MaxDepth
         /\ queue # <<>> => /\ 1 \in DOMAIN queue /\ Popped = queue[1]
                            /\ DOMAIN Tail(queue) = 1 .. (Len(queue) - 1)
                            /\ \A k \in 1 .. (Len(queue) - 1) :
                                 k + 1 \in DOMAIN queue /\ Tail(queue)[k] = queue[k + 1]
<1>1. PICK Q : Q = Words \X (0 .. MaxDepth)
  OBVIOUS
<1>2. queue \in Seq(Q)
  BY <1>1 DEF TypeInv, BfsTypeOK
<1>3. MaxDepth \in Nat
  BY BfsAssumption DEF Parameters
<1>4. DOMAIN queue = 1 .. Len(queue) /\ Len(queue) \in Nat /\ \A k \in DOMAIN queue : queue[k] \in Q
  BY <1>2
<1>5. \A k \in DOMAIN queue : queue[k][1] \in Words /\ queue[k][2] \in 0 .. MaxDepth
  BY <1>1, <1>4
<1>6. \A e \in DOMAIN visited : e \in Words /\ visited[e] \in 0 .. MaxDepth
  BY BfsTypes DEF TypeInv
<1>7. ASSUME queue # <<>>
      PROVE  /\ 1 \in DOMAIN queue /\ Popped = queue[1]
             /\ DOMAIN Tail(queue) = 1 .. (Len(queue) - 1)
             /\ \A k \in 1 .. (Len(queue) - 1) : k + 1 \in DOMAIN queue /\ Tail(queue)[k] = queue[k + 1]
  <2>1. Tail(queue) \in Seq(Q) /\ Len(Tail(queue)) = Len(queue) - 1
        /\ \A k \in 1 .. Len(Tail(queue)) : Tail(queue)[k] = queue[k + 1]
    BY <1>2, <1>7, HeadTailProperties
  <2>2. Len(queue) \in Nat /\ Len(queue) # 0
    BY <1>2, <1>7, EmptySeq
  <2>3. DOMAIN Tail(queue) = 1 .. (Len(queue) - 1)
    BY <2>1
  <2>4. 1 \in 1 .. Len(queue) /\ \A k \in 1 .. (Len(queue) - 1) : k + 1 \in 1 .. Len(queue)
    BY <2>2
  <2> QED
    BY <1>4, <2>1, <2>3, <2>4 DEF Popped
<1> QED
  BY <1>3, <1>4, <1>5, <1>6, <1>7

LEMMA SearchStart == BfsInit => SearchInv
BY DEF BfsInit, SearchInv, Probing

\* The steps that leave the queue alone.
LEMMA SearchStays ==
  ASSUME TypeInv, SearchInv, UNCHANGED <<know, visited, queue, entity>>, Probing' => Probing
  PROVE  SearchInv'
BY WithinStays DEF SearchInv

LEMMA SearchTail ==
  ASSUME TypeInv, SearchInv, UNCHANGED <<know, visited, entity>>, ~Probing',
         queue # <<>>, queue' = Tail(queue)
  PROVE  SearchInv'
<1>1. /\ DOMAIN queue' = 1 .. (Len(queue) - 1) /\ Len(queue) \in Nat
      /\ \A k \in DOMAIN queue' : k + 1 \in DOMAIN queue /\ queue'[k] = queue[k + 1]
  BY SearchTypes
<1>2. ASSUME NEW k \in DOMAIN queue', NEW l \in DOMAIN queue', k <= l PROVE queue'[k][2] <= queue'[l][2]
  <2>1. k + 1 <= l + 1
    BY <1>1, <1>2
  <2> QED
    BY <1>1, <2>1 DEF SearchInv
<1> QED
  BY <1>1, <1>2, WithinStays DEF SearchInv

LEMMA SearchBegin ==
  ASSUME TypeInv, NEW g, Begin(g)
  PROVE  SearchInv'
<1>1. visited' = <<>> /\ DOMAIN visited' = {} /\ queue' = [n \in DOMAIN Seeds |-> <<Seeds[n], 0>>]
      /\ pc' = "next" /\ know' = know
  BY DEF Begin
<1>2. 0 \in 0 .. MaxDepth
  BY BfsAssumption DEF Parameters
<1>3. Within'[0] = {Seeds[i] : i \in DOMAIN Seeds}
  BY <1>1, <1>2, WithinStays, WithinAt
<1> QED
  BY <1>1, <1>3 DEF SearchInv, Probing

LEMMA SearchVisit ==
  ASSUME TypeInv, SearchInv, VisitEntity
  PROVE  SearchInv'
<1>1. /\ DOMAIN queue' = 1 .. (Len(queue) - 1) /\ Len(queue) \in Nat /\ queue # <<>>
      /\ \A k \in DOMAIN queue' : k + 1 \in DOMAIN queue /\ queue'[k] = queue[k + 1]
      /\ 1 \in DOMAIN queue /\ Popped = queue[1]
  BY SearchTypes DEF VisitEntity
<1>2. /\ DOMAIN visited' = DOMAIN visited \cup {Popped[1]} /\ Popped[1] \notin DOMAIN visited
      /\ visited'[Popped[1]] = Popped[2] /\ entity' = Popped[1]
      /\ \A e \in DOMAIN visited : visited'[e] = visited[e]
      /\ know' = know /\ Within' = Within
  BY WithinStays DEF VisitEntity
<1>3. \A k \in DOMAIN queue : 1 <= k
  BY SearchTypes
<1>4. \A e \in DOMAIN visited' : e \in Within'[visited'[e]]
  BY <1>1, <1>2 DEF SearchInv
<1>5. \A k \in DOMAIN queue' : queue'[k][1] \in Within'[queue'[k][2]]
  BY <1>1, <1>2 DEF SearchInv
<1>6. ASSUME NEW k \in DOMAIN queue', NEW l \in DOMAIN queue', k <= l PROVE queue'[k][2] <= queue'[l][2]
  <2>1. k + 1 <= l + 1
    BY <1>1, <1>6
  <2> QED
    BY <1>1, <2>1 DEF SearchInv
<1>7. \A k, l \in DOMAIN queue' : queue'[l][2] <= queue'[k][2] + 1
  BY <1>1 DEF SearchInv
<1>8. \A e \in DOMAIN visited', k \in DOMAIN queue' : visited'[e] <= queue'[k][2]
  BY <1>1, <1>2, <1>3 DEF SearchInv
<1>9. /\ \A e \in DOMAIN visited' : visited'[e] <= visited'[entity']
      /\ \A k \in DOMAIN queue' : queue'[k][2] <= visited'[entity'] + 1
  <2>1. Popped[2] \in 0 .. MaxDepth
    BY <1>1, SearchTypes
  <2> QED
    BY <1>1, <1>2, <2>1 DEF SearchInv
<1> QED
  BY <1>4, <1>5, <1>6, <1>7, <1>8, <1>9 DEF SearchInv

\* What a probe that found something does to the queue.
LEMMA ProbeQueues ==
  ASSUME TypeInv, NEW r \in Templates, Probe(r)
  PROVE  \/ /\ queue' = queue
            /\ know[<<entity, r>>] \in Followed /\ visited[entity] < MaxDepth =>
                 know[<<entity, r>>] \in DOMAIN visited
         \/ /\ know[<<entity, r>>] \in Followed /\ visited[entity] < MaxDepth
            /\ Len(queue) \in Nat /\ DOMAIN queue' = 1 .. (Len(queue) + 1)
            /\ \A k \in DOMAIN queue : k \in DOMAIN queue' /\ k # Len(queue) + 1 /\ queue'[k] = queue[k]
            /\ \A k \in DOMAIN queue' : k # Len(queue) + 1 => k \in DOMAIN queue /\ k <= Len(queue)
            /\ queue'[Len(queue) + 1] = <<know[<<entity, r>>], visited[entity] + 1>>
<1>1. PICK obj : obj = know[<<entity, r>>]
  OBVIOUS
<1>2. PICK Q, x : Q = Words \X (0 .. MaxDepth) /\ x = <<obj, visited[entity] + 1>>
  OBVIOUS
<1>3. queue \in Seq(Q) /\ entity \in DOMAIN visited /\ visited[entity] \in 0 .. MaxDepth /\ MaxDepth \in Nat
  BY <1>2, SearchTypes DEF TypeInv, BfsTypeOK, Probe, Probing
<1>4. queue' = Queued(obj) /\ obj # NoAnswer
  BY <1>1 DEF Probe
<1>5. \/ /\ queue' = queue
         /\ obj \in Followed /\ visited[entity] < MaxDepth => obj \in DOMAIN visited
      \/ obj \in Followed /\ visited[entity] < MaxDepth /\ queue' = Append(queue, x)
  BY <1>2, <1>3, <1>4 DEF Queued
<1>6. ASSUME obj \in Followed, visited[entity] < MaxDepth, queue' = Append(queue, x)
      PROVE  /\ DOMAIN queue' = 1 .. (Len(queue) + 1)
             /\ \A k \in DOMAIN queue : queue'[k] = queue[k]
             /\ queue'[Len(queue) + 1] = x
  <2>1. x \in Q
    BY <1>2, <1>3, <1>6, BfsAssumption DEF Parameters
  <2>2. queue' \in Seq(Q) /\ Len(queue') = Len(queue) + 1
    BY <1>3, <1>6, <2>1, AppendProperties
  <2> QED
    BY <1>3, <1>6, <2>1, <2>2, AppendProperties
<1>7. DOMAIN queue = 1 .. Len(queue) /\ Len(queue) \in Nat
  BY SearchTypes
<1>8. \A k \in 1 .. Len(queue) : k \in 1 .. (Len(queue) + 1) /\ k # Len(queue) + 1
  BY <1>7
<1>9. \A k \in 1 .. (Len(queue) + 1) : k # Len(queue) + 1 => k \in 1 .. Len(queue) /\ k <= Len(queue)
  BY <1>7
<1> QED
  BY <1>1, <1>2, <1>5, <1>6, <1>7, <1>8, <1>9

LEMMA SearchProbe ==
  ASSUME TypeInv, SearchInv, NEW r \in Templates, Probe(r)
  PROVE  SearchInv'
<1>1. UNCHANGED <<know, visited, entity>> /\ Probing /\ entity \in DOMAIN visited
  BY DEF Probe, Probing, TypeInv
<1>2. CASE queue' = queue
  BY <1>1, <1>2, WithinStays DEF SearchInv
<1>3. CASE queue' # queue
  <2>1. PICK n, d, o : n = Len(queue) + 1 /\ d = visited[entity] /\ o = know[<<entity, r>>]
    OBVIOUS
  <2>2. /\ o \in Followed /\ d < MaxDepth /\ d \in 0 .. MaxDepth
        /\ n \in DOMAIN queue' /\ queue'[n] = <<o, d + 1>>
        /\ \A k \in DOMAIN queue' \ {n} : k \in DOMAIN queue /\ queue'[k] = queue[k] /\ k < n
    <3>1. Len(queue) \in Nat /\ \A k \in DOMAIN queue : k \in Nat
      BY SearchTypes
    <3> QED
      BY <1>1, <1>3, <2>1, <3>1, ProbeQueues, SearchTypes
  <2>3. o \in Within[d + 1]
    BY <1>1, <2>1, <2>2, WithinAnswered DEF SearchInv
  <2>4. \A k \in DOMAIN queue : queue[k][2] \in Nat /\ queue[k][2] >= d /\ queue[k][2] <= d + 1
    BY <1>1, <2>1, SearchTypes DEF SearchInv
  <2>5. \A e \in DOMAIN visited : visited[e] \in Nat /\ visited[e] <= d
    BY <1>1, <2>1, SearchTypes DEF SearchInv
  <2>6. \A k \in DOMAIN queue' : queue'[k][1] \in Within'[queue'[k][2]]
    BY <1>1, <2>2, <2>3, WithinStays DEF SearchInv
  <2>7. ASSUME NEW k \in DOMAIN queue', NEW l \in DOMAIN queue', k <= l PROVE queue'[k][2] <= queue'[l][2]
    <3>1. CASE l = n
      BY <2>2, <2>4, <3>1
    <3>2. CASE l # n
      <4>1. l < n /\ n \in Nat /\ l \in Nat /\ k \in Nat
        <5>1. DOMAIN queue = 1 .. Len(queue) /\ Len(queue) \in Nat
          BY SearchTypes
        <5> QED
          BY <2>1, <2>2, <3>2, <5>1
      <4>2. k # n
        BY <2>7, <4>1
      <4> QED
        BY <2>2, <2>7, <3>2, <4>2 DEF SearchInv
    <3> QED
      BY <3>1, <3>2
  <2>8. \A k, l \in DOMAIN queue' : queue'[l][2] <= queue'[k][2] + 1
    BY <2>2, <2>4 DEF SearchInv
  <2>9. \A e \in DOMAIN visited, k \in DOMAIN queue' : visited[e] <= queue'[k][2]
    BY <2>2, <2>5 DEF SearchInv
  <2>10. \A k \in DOMAIN queue' : queue'[k][2] <= d + 1
    BY <2>2, <2>4
  <2> QED
    BY <1>1, <2>1, <2>6, <2>7, <2>8, <2>9, <2>10, WithinStays DEF SearchInv
<1> QED
  BY <1>2, <1>3

LEMMA SearchNext ==
  ASSUME TypeInv, SearchInv, [BfsNext]_bfsVars
  PROVE  SearchInv'
<1>1. CASE Quiet
  <2>1. UNCHANGED <<know, visited, entity>> /\ (Probing' => Probing)
    BY <1>1, QuietSteps
  <2>2. CASE SkipEntity
    BY <2>1, <2>2, SearchTail DEF SkipEntity, Probing
  <2>3. CASE ~ SkipEntity
    <3>1. queue' = queue
      BY <1>1, <2>3 DEF Quiet, EndSearch, EndEntity, ProbeFails, WriteJson, WriteNewline, AppendFails, AppendsNothing, Save, Kill,
                        progress
    <3> QED
      BY <2>1, <3>1, SearchStays
  <2> QED
    BY <2>2, <2>3
<1>2. CASE UNCHANGED bfsVars
  BY <1>2, SearchStays DEF bfsVars, progress, Probing
<1> QED
  BY <1>1, <1>2, BfsSteps, SearchBegin, SearchVisit, SearchProbe

-----------------------------------------------------------------------------
(* Nothing is visited late: what an answer leads to is visited or queued in time *)

Near(o, d) ==
  \/ o \in DOMAIN visited /\ visited[o] <= d
  \/ \E k \in DOMAIN queue : queue[k][1] = o /\ queue[k][2] <= d

\* The template was answered: the edge is in the graph, and its object is followed.
Done(e, r) ==
  LET obj == know[<<e, r>>]
  IN  obj # NoAnswer =>
        /\ <<e, r, obj>> \in found
        /\ obj \in Followed /\ visited[e] < MaxDepth => Near(obj, visited[e] + 1)

NearInv ==
  /\ pc # "off" =>
       /\ \A k \in DOMAIN Seeds : Near(Seeds[k], 0)
       /\ ~missed => \A e \in DOMAIN visited, r \in Templates :
                       ~ (Probing /\ e = entity /\ r \in left) => Done(e, r)
  /\ ~missed => \A e \in DOMAIN visited : visited[e] > 0 => e \notin Within[visited[e] - 1]

\* Everything within n steps is visited in time, once all that is left is further away.
LEMMA AllVisited ==
  ASSUME TypeInv, NearInv, pc # "off", ~Probing, ~missed, NEW n \in 0 .. MaxDepth,
         \A k \in DOMAIN queue : queue[k][2] > n
  PROVE  \A x \in Within[n] : x \in DOMAIN visited /\ visited[x] <= n
<1>1. /\ \A o, d : Near(o, d) /\ d <= n /\ d \in Nat => o \in DOMAIN visited /\ visited[o] <= d
  BY SearchTypes DEF Near
<1> DEFINE A == {j \in Nat : j <= n => \A x \in Within[j] : x \in DOMAIN visited /\ visited[x] <= j}
<1>2. 0 \in A
  <2>1. Within[0] = {Seeds[i] : i \in DOMAIN Seeds}
    <3>1. 0 \in 0 .. MaxDepth
      BY SearchTypes
    <3> QED
      BY <3>1, WithinAt
  <2> QED
    BY <1>1, <2>1 DEF NearInv
<1>3. ASSUME NEW j \in A \cap Nat PROVE j + 1 \in A
  <2>1. j <= n => \A x \in Within[j] : x \in DOMAIN visited /\ visited[x] <= j
    BY <1>3
  <2> HIDE DEF A
  <2>2. ASSUME j + 1 <= n, NEW x \in Within[j + 1]
        PROVE  x \in DOMAIN visited /\ visited[x] <= j + 1
    <3>1. j \in Nat /\ j + 1 \in 0 .. MaxDepth /\ j <= n /\ j + 1 # 0 /\ (j + 1) - 1 = j
      BY <2>2, SearchTypes
    <3>2. x \in Within[j] \/ x \in Answered(Within[j])
      BY <3>1, <2>2, WithinAt
    <3>3. CASE x \in Within[j]
      BY <2>1, <3>1, <3>3, SearchTypes
    <3>4. CASE x \in Answered(Within[j])
      <4>1. PICK e \in Within[j], r \in Templates : x = know[<<e, r>>] /\ x \in Followed
        BY <3>4 DEF Answered
      <4>2. e \in DOMAIN visited /\ visited[e] <= j /\ visited[e] \in Nat /\ visited[e] < MaxDepth
        BY <2>1, <3>1, SearchTypes
      <4>3. x # NoAnswer
        BY <4>1, BfsAssumption DEF Parameters
      <4>4. Near(x, visited[e] + 1)
        BY <4>1, <4>2, <4>3 DEF NearInv, Done
      <4>5. PICK d : d = visited[e] + 1
        OBVIOUS
      <4>6. d \in Nat /\ d <= n /\ d <= j + 1 /\ Near(x, d)
        BY <2>2, <3>1, <4>2, <4>4, <4>5
      <4>7. x \in DOMAIN visited /\ visited[x] <= d
        BY <1>1, <4>6
      <4> QED
        BY <3>1, <4>6, <4>7, SearchTypes
    <3> QED
      BY <3>2, <3>3, <3>4
  <2> QED
    BY <2>2 DEF A
<1> HIDE DEF A
<1>4. n \in A
  BY <1>2, <1>3, SetInduction, SearchTypes
<1> QED
  BY <1>4 DEF A

LEMMA NearStart == BfsInit => NearInv
BY DEF BfsInit, NearInv

LEMMA NearBegin ==
  ASSUME TypeInv, NEW g, Begin(g)
  PROVE  NearInv'
<1>1. /\ visited' = <<>> /\ DOMAIN visited' = {} /\ queue' = [n \in DOMAIN Seeds |-> <<Seeds[n], 0>>]
      /\ pc' = "next"
  BY DEF Begin
<1>2. \A k \in DOMAIN Seeds : k \in DOMAIN queue' /\ queue'[k][1] = Seeds[k] /\ queue'[k][2] = 0
  BY <1>1
<1> QED
  BY <1>1, <1>2 DEF NearInv, Near

\* What is near after a step.
NearAfter(o, d) ==
  \/ o \in DOMAIN visited' /\ visited'[o] <= d
  \/ \E k \in DOMAIN queue' : queue'[k][1] = o /\ queue'[k][2] <= d

\* Nothing that was near is lost.
Nearer ==
  /\ \A e \in DOMAIN visited : e \in DOMAIN visited' /\ visited'[e] = visited[e]
  /\ \A k \in DOMAIN queue :
       \/ \E l \in DOMAIN queue' : queue'[l] = queue[k]
       \/ queue[k][1] \in DOMAIN visited' /\ visited'[queue[k][1]] \in Nat
          /\ visited'[queue[k][1]] <= queue[k][2]

LEMMA NearerKeeps ==
  ASSUME TypeInv, Nearer, NEW o, NEW d \in Nat, Near(o, d)
  PROVE  NearAfter(o, d)
<1>1. CASE o \in DOMAIN visited /\ visited[o] <= d
  BY <1>1 DEF Nearer, NearAfter
<1>2. CASE \E k \in DOMAIN queue : queue[k][1] = o /\ queue[k][2] <= d
  <2>1. PICK k \in DOMAIN queue : queue[k][1] = o /\ queue[k][2] <= d
    BY <1>2
  <2>2. queue[k][2] \in Nat
    BY SearchTypes
  <2> QED
    BY <2>1, <2>2 DEF Nearer, NearAfter
<1> QED
  BY <1>1, <1>2 DEF Near

\* The step keeps what is done, and visits nobody too late.
LEMMA NearKept ==
  ASSUME TypeInv, NearInv, pc # "off", Nearer, UNCHANGED know, found \subseteq found',
         \A e \in DOMAIN visited' \ DOMAIN visited : Probing' /\ e = entity' /\ left' = Templates,
         ~missed' => ~missed,
         ~missed' => \A e \in DOMAIN visited, r \in Templates :
           Probing /\ e = entity /\ r \in left =>
             (Probing' /\ e = entity' /\ r \in left') \/ Done(e, r)',
         ~missed' => \A e \in DOMAIN visited' \ DOMAIN visited :
           visited'[e] > 0 => e \notin Within[visited'[e] - 1]
  PROVE  NearInv'
<1>1. \A k \in DOMAIN Seeds : NearAfter(Seeds[k], 0)
  BY NearerKeeps DEF NearInv
<1>2. ASSUME NEW e \in DOMAIN visited, NEW r \in Templates, Done(e, r)
      PROVE  Done(e, r)'
  <2>1. PICK obj, d : obj = know[<<e, r>>] /\ d = visited[e]
    OBVIOUS
  <2>2. d \in Nat /\ d + 1 \in Nat /\ visited'[e] = d
    BY <2>1, SearchTypes DEF Nearer
  <2>3. obj # NoAnswer => /\ <<e, r, obj>> \in found'
                          /\ obj \in Followed /\ d < MaxDepth => NearAfter(obj, d + 1)
    BY <1>2, <2>1, <2>2, NearerKeeps DEF Done
  <2> QED
    BY <2>1, <2>2, <2>3 DEF Done, Near, NearAfter
<1>3. ASSUME ~missed', NEW e \in DOMAIN visited', NEW r \in Templates,
             ~ (Probing' /\ e = entity' /\ r \in left')
      PROVE  Done(e, r)'
  <2>1. e \in DOMAIN visited
    BY <1>3
  <2>2. CASE Probing /\ e = entity /\ r \in left
    BY <1>3, <2>1, <2>2
  <2>3. CASE ~ (Probing /\ e = entity /\ r \in left)
    <3>1. Done(e, r)
      BY <1>3, <2>1, <2>3 DEF NearInv
    <3> QED
      BY <1>2, <2>1, <3>1
  <2> QED
    BY <2>2, <2>3
<1>4. ASSUME ~missed', NEW e \in DOMAIN visited', visited'[e] > 0
      PROVE  e \notin Within'[visited'[e] - 1]
  BY <1>4, WithinStays DEF NearInv, Nearer
<1> QED
  BY <1>1, <1>3, <1>4 DEF NearInv, Near, NearAfter

\* A queue that has lost its first element, which is visited in time.
LEMMA NearTail ==
  ASSUME TypeInv, queue # <<>>, queue' = Tail(queue),
         \A e \in DOMAIN visited : e \in DOMAIN visited' /\ visited'[e] = visited[e],
         Popped[1] \in DOMAIN visited', visited'[Popped[1]] \in Nat, visited'[Popped[1]] <= Popped[2]
  PROVE  Nearer
<1>1. /\ DOMAIN queue' = 1 .. (Len(queue) - 1) /\ Popped = queue[1]
      /\ DOMAIN queue = 1 .. Len(queue) /\ Len(queue) \in Nat
      /\ \A k \in 1 .. (Len(queue) - 1) : queue'[k] = queue[k + 1]
  BY SearchTypes
<1>2. ASSUME NEW k \in DOMAIN queue, k # 1
      PROVE  \E l \in DOMAIN queue' : queue'[l] = queue[k]
  <2>1. k - 1 \in 1 .. (Len(queue) - 1) /\ (k - 1) + 1 = k
    BY <1>1, <1>2
  <2> QED
    BY <1>1, <2>1
<1> QED
  BY <1>1, <1>2 DEF Nearer

LEMMA NearVisit ==
  ASSUME TypeInv, TypeInv', SearchInv, NearInv, VisitEntity
  PROVE  NearInv'
<1>1. /\ DOMAIN visited' = DOMAIN visited \cup {Popped[1]} /\ Popped[1] \notin DOMAIN visited
      /\ visited'[Popped[1]] = Popped[2] /\ entity' = Popped[1] /\ left' = Templates
      /\ \A e \in DOMAIN visited : visited'[e] = visited[e]
      /\ queue # <<>> /\ queue' = Tail(queue) /\ pc = "next" /\ pc' = "probe"
      /\ UNCHANGED <<know, found, missed>>
  BY DEF VisitEntity
<1>2. Popped[2] \in 0 .. MaxDepth /\ 1 \in DOMAIN queue /\ Popped = queue[1]
  BY <1>1, SearchTypes
<1>3. Nearer
  BY <1>1, <1>2, NearTail, SearchTypes
<1>4. ASSUME ~missed, Popped[2] > 0 PROVE Popped[1] \notin Within[Popped[2] - 1]
  <2>1. PICK n : n = Popped[2] - 1
    OBVIOUS
  <2>2. n \in 0 .. MaxDepth
    BY <1>2, <1>4, <2>1, SearchTypes
  <2>3. \A k \in DOMAIN queue : queue[k][2] > n
    <3>1. \A k \in DOMAIN queue : 1 <= k /\ queue[k][2] \in Nat
      BY SearchTypes
    <3>2. \A k \in DOMAIN queue : Popped[2] <= queue[k][2]
      BY <1>2, <3>1 DEF SearchInv
    <3> QED
      BY <1>2, <2>1, <3>1, <3>2, SearchTypes
  <2>4. \A x \in Within[n] : x \in DOMAIN visited
    BY <1>1, <1>4, <2>2, <2>3, AllVisited DEF Probing
  <2> QED
    BY <1>1, <2>1, <2>4
<1> QED
  BY <1>1, <1>3, <1>4, NearKept DEF Probing

LEMMA NearSkip ==
  ASSUME TypeInv, SearchInv, NearInv, SkipEntity
  PROVE  NearInv'
<1>1. /\ queue # <<>> /\ queue' = Tail(queue) /\ pc = "next" /\ pc' = "next"
      /\ UNCHANGED <<know, visited, entity, left, found, missed>>
  BY DEF SkipEntity
<1>2. Popped[2] \in 0 .. MaxDepth /\ 1 \in DOMAIN queue /\ Popped = queue[1]
  BY <1>1, SearchTypes
<1>3. Popped[1] \in DOMAIN visited
  BY <1>2, SearchTypes DEF SkipEntity
<1>4. visited[Popped[1]] \in Nat /\ visited[Popped[1]] <= Popped[2]
  BY <1>2, <1>3, SearchTypes DEF SearchInv
<1>5. Nearer
  BY <1>1, <1>3, <1>4, NearTail
<1> QED
  BY <1>1, <1>5, NearKept DEF Probing

LEMMA NearProbe ==
  ASSUME TypeInv, SearchInv, NearInv, NEW r \in Templates, Probe(r)
  PROVE  NearInv'
<1>1. /\ UNCHANGED <<know, visited, entity, missed>> /\ Probing /\ Probing' /\ pc # "off"
      /\ entity \in DOMAIN visited /\ left' = left \ {r} /\ found \subseteq found'
      /\ <<entity, r, know[<<entity, r>>]>> \in found'
  BY DEF Probe, Probing, TypeInv
<1>2. \A k \in DOMAIN queue : \E l \in DOMAIN queue' : queue'[l] = queue[k]
  BY ProbeQueues
<1>3. Nearer
  BY <1>1, <1>2 DEF Nearer
<1>4. PICK obj, d : obj = know[<<entity, r>>] /\ d = visited[entity]
  OBVIOUS
<1>5. d \in 0 .. MaxDepth /\ MaxDepth \in Nat
  BY <1>1, <1>4, SearchTypes
<1>6. ASSUME obj \in Followed, d < MaxDepth PROVE NearAfter(obj, d + 1)
  <2>1. CASE obj \in DOMAIN visited
    <3>1. PICK e : e = obj
      OBVIOUS
    <3>2. visited[e] <= d
      BY <1>1, <1>4, <2>1, <3>1 DEF SearchInv
    <3> QED
      BY <1>1, <1>5, <2>1, <3>1, <3>2, SearchTypes DEF NearAfter
  <2>2. CASE obj \notin DOMAIN visited
    <3>1. Len(queue) + 1 \in DOMAIN queue' /\ queue'[Len(queue) + 1] = <<obj, d + 1>>
      BY <1>4, <1>6, <2>2, ProbeQueues
    <3> QED
      BY <1>5, <3>1 DEF NearAfter
  <2> QED
    BY <2>1, <2>2
<1>7. Done(entity, r)'
  BY <1>1, <1>4, <1>6 DEF Done, Near, NearAfter
<1> QED
  BY <1>1, <1>3, <1>7, NearKept

\* The steps that leave the queue and the visits alone.
LEMMA NearRest ==
  ASSUME TypeInv, NearInv, Quiet, ~ SkipEntity
  PROVE  NearInv'
<1>1. UNCHANGED <<know, visited, entity, found, queue>> /\ pc # "off"
  BY QuietSteps DEF Quiet, EndSearch, EndEntity, ProbeFails, WriteJson, WriteNewline, AppendFails, AppendsNothing, Save, Kill, progress
<1>2. missed \in BOOLEAN /\ missed' \in BOOLEAN /\ (~missed' => ~missed)
  BY DEF TypeInv, BfsTypeOK, Quiet, EndSearch, EndEntity, ProbeFails, WriteJson, WriteNewline, AppendFails, AppendsNothing,
         Save, Kill
<1>3. CASE pc' = "off"
  BY <1>1, <1>2, <1>3, WithinStays DEF NearInv
<1>4. CASE pc' # "off"
  <2>1. Nearer
    BY <1>1 DEF Nearer
  <2>2. ASSUME ~missed', NEW e \in DOMAIN visited, NEW r \in Templates, Probing, e = entity, r \in left
        PROVE  (Probing' /\ e = entity' /\ r \in left') \/ Done(e, r)'
    <3>1. CASE \E t \in Templates : ProbeFails(t)
      <4>1. PICK t \in Templates : ProbeFails(t)
        BY <3>1
      <4>2. CASE r # t
        BY <1>1, <2>2, <4>1, <4>2 DEF ProbeFails, Probing
      <4>3. CASE r = t
        <5>1. know[<<entity, t>>] = NoAnswer
          BY <1>2, <2>2, <4>1 DEF ProbeFails
        <5> QED
          BY <1>1, <2>2, <4>3, <5>1 DEF Done
      <4> QED
        BY <4>2, <4>3
    <3>2. CASE ~ \E t \in Templates : ProbeFails(t)
      <4>1. left' = left /\ Probing'
        BY <1>4, <2>2, <3>2 DEF Quiet, EndSearch, EndEntity, WriteJson, WriteNewline, AppendFails, AppendsNothing, Save, Kill,
                                progress, Probing
      <4> QED
        BY <1>1, <2>2, <4>1
    <3> QED
      BY <3>1, <3>2
  <2> QED
    BY <1>1, <1>2, <2>1, <2>2, NearKept
<1> QED
  BY <1>3, <1>4

LEMMA NearNext ==
  ASSUME TypeInv, TypeInv', SearchInv, NearInv, [BfsNext]_bfsVars
  PROVE  NearInv'
<1>1. CASE UNCHANGED bfsVars
  BY <1>1, WithinStays DEF NearInv, Near, Done, Probing, bfsVars, progress
<1> QED
  BY <1>1, BfsSteps, NearBegin, NearVisit, NearSkip, NearProbe, NearRest

-----------------------------------------------------------------------------
(* What is found, logged and resumed can be reached *)

ReachInv ==
  /\ found \subseteq Reachable
  /\ pc \in {"json", "newline"} => pending \in Reachable
  /\ lines \in Seq(Seq(Reachable \cup Pieces))

LEMMA ReachStays == ASSUME UNCHANGED know PROVE Reachable' = Reachable
BY WithinStays DEF Reachable

LEMMA ReachStart == BfsInit => ReachInv
BY DEF BfsInit, ReachInv

LEMMA ReachBegin ==
  ASSUME TypeInv, ReachInv, NEW g \in SUBSET Facts, Begin(g), g = {} \/ g = Replay(lines)
  PROVE  ReachInv'
<1>1. Replay(lines) \subseteq Reachable
  <2> SUFFICES ASSUME NEW e \in Facts, NEW n \in DOMAIN lines, lines[n] = <<e>> PROVE e \in Reachable
    BY DEF Replay
  <2>1. PICK S : S = Reachable \cup Pieces
    OBVIOUS
  <2>2. <<e>> \in Seq(S)
    <3>1. lines \in Seq(Seq(S))
      BY <2>1 DEF ReachInv
    <3>2. PICK Line : Line = Seq(S)
      OBVIOUS
    <3>3. lines \in Seq(Line) /\ n \in 1 .. Len(lines)
      BY <3>1, <3>2
    <3>4. lines[n] \in Line
      BY <3>3, ElementOfSeq
    <3> QED
      BY <3>2, <3>4
  <2>3. e \in S
    BY <2>2
  <2>4. e \notin Pieces
    BY BfsAssumption DEF Pieces, Parameters
  <2> QED
    BY <2>1, <2>3, <2>4
<1>2. found' = g /\ pc' = "next" /\ UNCHANGED <<know, lines>>
  BY DEF Begin, log
<1>3. Reachable' = Reachable
  BY <1>2, ReachStays
<1> QED
  BY <1>1, <1>2, <1>3 DEF ReachInv

LEMMA ReachProbe ==
  ASSUME TypeInv, SearchInv, ReachInv, NEW r \in Templates, Probe(r)
  PROVE  ReachInv'
<1>1. PICK edge : edge = <<entity, r, know[<<entity, r>>]>>
  OBVIOUS
<1>2. /\ UNCHANGED <<know, lines>> /\ found' = found \cup {edge}
      /\ pc = "probe" /\ (pc' = "probe" \/ pending' = edge) /\ know[<<entity, r>>] # NoAnswer
  BY <1>1 DEF Probe, log
<1>3. entity \in DOMAIN visited /\ entity \in Words /\ know[<<entity, r>>] \in Words
  BY <1>2, BfsTypes DEF TypeInv, BfsTypeOK, Probing
<1>4. entity \in Within[MaxDepth]
  <2>1. PICK d : d = visited[entity]
    OBVIOUS
  <2>2. d \in 0 .. MaxDepth /\ MaxDepth \in 0 .. MaxDepth /\ d <= MaxDepth
    BY <1>3, <2>1, SearchTypes
  <2>3. entity \in Within[d]
    BY <1>3, <2>1 DEF SearchInv
  <2> QED
    BY <2>2, <2>3, WithinGrows
<1>5. edge \in Reachable
  BY <1>1, <1>3, <1>4 DEF Reachable, Facts
<1>6. Reachable' = Reachable
  BY <1>2, ReachStays
<1> QED
  BY <1>2, <1>5, <1>6 DEF ReachInv

LEMMA ReachNext ==
  ASSUME TypeInv, SearchInv, ReachInv, [BfsNext]_bfsVars
  PROVE  ReachInv'
<1>1. ASSUME NEW p \in Reachable \cup Pieces PROVE Written(p) \in Seq(Seq(Reachable \cup Pieces))
  <2>1. PICK S : S = Reachable \cup Pieces
    OBVIOUS
  <2> QED
    BY <2>1, WrittenLog DEF ReachInv, TypeInv, BfsTypeOK
<1>2. CASE Quiet
  <2>1. UNCHANGED <<know, found>> /\ (pc' = "newline" => WriteJson) /\ pc' # "json"
    BY <1>2, QuietSteps DEF Quiet, SkipEntity, EndSearch, EndEntity, ProbeFails, WriteNewline, AppendFails, AppendsNothing, Save, Kill
  <2>2. lines' \in Seq(Seq(Reachable \cup Pieces))
    <3>1. \/ lines' = lines
          \/ pc = "json" /\ lines' = Written(pending)
          \/ \E p \in Pieces : lines' = Written(p)
      BY <1>2 DEF Quiet, SkipEntity, EndSearch, EndEntity, ProbeFails, WriteJson, WriteNewline, AppendFails, AppendsNothing, Save, Kill,
                  Stopped, log
    <3> QED
      BY <1>1, <3>1 DEF ReachInv
  <2>3. pc' = "newline" => pending' \in Reachable
    BY <2>1 DEF WriteJson, ReachInv
  <2>4. Reachable' = Reachable
    BY <2>1, ReachStays
  <2> QED
    BY <2>1, <2>2, <2>3, <2>4 DEF ReachInv
<1>3. CASE VisitEntity
  BY <1>3, ReachStays DEF VisitEntity, ReachInv, log
<1>4. CASE UNCHANGED bfsVars
  BY <1>4, ReachStays DEF ReachInv, bfsVars, log, progress
<1> QED
  BY <1>2, <1>3, <1>4, BfsSteps, ReachBegin, ReachProbe

-----------------------------------------------------------------------------
(* The theorems *)

ExtractInv == TypeInv /\ LogInv /\ SearchInv /\ NearInv /\ ReachInv

LEMMA ExtractStart == BfsInit => ExtractInv
BY TypeStart, LogStart, SearchStart, NearStart, ReachStart DEF ExtractInv

LEMMA ExtractNext == ExtractInv /\ [BfsNext]_bfsVars => ExtractInv'
<1> SUFFICES ASSUME ExtractInv, [BfsNext]_bfsVars PROVE ExtractInv'
  OBVIOUS
<1>1. TypeInv'
  BY TypeNext DEF ExtractInv
<1> QED
  BY <1>1, LogNext, SearchNext, NearNext, ReachNext DEF ExtractInv

\* ExtractionHolds: extract_bfs visits every entity at its distance from the seeds, for any
\* templates, seeds and knowledge, and CheckpointLog::append loses at most one edge for
\* each fault, for any number of runs and faults.
THEOREM ExtractionAlwaysHolds == BfsSpec => []ExtractionHolds
<1>1. ExtractInv => ExtractionHolds
  BY LossFromLog DEF ExtractInv, TypeInv, ExtractionHolds, VisitedAtDistance, SearchInv, NearInv
<1> QED
  BY <1>1, ExtractStart, ExtractNext, PTL DEF BfsSpec

\* What a run saves that visited all it had to.
LEMMA SavedIsReachable ==
  ASSUME ExtractInv, Save, queue = <<>>, ~missed
  PROVE  output' = Reachable
<1>1. TypeInv /\ NearInv /\ ReachInv /\ pc = "save" /\ output' = found
  BY DEF ExtractInv, Save
<1>2. MaxDepth \in 0 .. MaxDepth /\ DOMAIN queue = {}
  BY <1>1, SearchTypes
<1>3. \A e \in Within[MaxDepth] : e \in DOMAIN visited
  BY <1>1, <1>2, AllVisited DEF Probing
<1>4. ASSUME NEW edge \in Reachable PROVE edge \in found
  <2>1. /\ edge[1] \in DOMAIN visited /\ edge[2] \in Templates /\ edge[3] \in Words
        /\ edge = <<edge[1], edge[2], edge[3]>> /\ edge[3] = know[<<edge[1], edge[2]>>]
    BY <1>3 DEF Reachable, Facts
  <2>2. Done(edge[1], edge[2])
    BY <1>1, <2>1 DEF NearInv, Probing
  <2>3. edge[3] # NoAnswer
    BY <2>1, BfsAssumption DEF Parameters
  <2> QED
    BY <2>1, <2>2, <2>3 DEF Done
<1> QED
  BY <1>1, <1>4 DEF ReachInv

\* SavesAll: a run of `larql bfs` whose requests were answered and that max_entities did
\* not stop saves exactly the edges within reach, whatever was killed, lost or resumed
\* before it.
THEOREM ExtractSavesAll == BfsSpec => SavesAll
<1>1. ExtractInv /\ [BfsNext]_bfsVars => [Save /\ queue = <<>> /\ ~missed => output' = Reachable]_bfsVars
  BY SavedIsReachable
<1> QED
  BY <1>1, ExtractStart, ExtractNext, PTL DEF BfsSpec, SavesAll

-----------------------------------------------------------------------------
(* Folds: a function of the prefixes of a sequence *)

IsFold(f, init, step, n) == f = [k \in 0 .. n |-> IF k = 0 THEN init ELSE step[k][f[k - 1]]]

\* A fold over n steps exists, if its steps are functions.
LEMMA FoldExists ==
  ASSUME NEW U, NEW init \in U, NEW n \in Nat, NEW step, \A k \in 1 .. n : step[k] \in [U -> U]
  PROVE  \E f \in [0 .. n -> U] : IsFold(f, init, step, n)
<1> DEFINE Fold(f, m) == /\ f \in [0 .. m -> U]
                         /\ \A k \in 0 .. m : f[k] = IF k = 0 THEN init ELSE step[k][f[k - 1]]
           A == {m \in Nat : m <= n => \E f : Fold(f, m)}
<1>1. 0 \in A
  <2>1. PICK f : f = [k \in 0 .. 0 |-> init]
    OBVIOUS
  <2>2. Fold(f, 0)
    BY <2>1
  <2> QED
    BY <2>2
<1>2. ASSUME NEW m \in A \cap Nat PROVE m + 1 \in A
  <2> SUFFICES ASSUME m + 1 <= n PROVE \E f : Fold(f, m + 1)
    OBVIOUS
  <2>1. m \in Nat /\ m <= n /\ m + 1 \in 1 .. n
    OBVIOUS
  <2>2. PICK f : Fold(f, m)
    BY <2>1
  <2> HIDE DEF A
  <2>3. PICK x : x = step[m + 1][f[m]]
    OBVIOUS
  <2>4. f[m] \in U /\ x \in U
    <3>1. f[m] \in U
      BY <2>1, <2>2
    <3>2. step[m + 1] \in [U -> U]
      BY <2>1
    <3> QED
      BY <3>1, <3>2, <2>3
  <2>5. PICK g : g = [k \in 0 .. (m + 1) |-> IF k <= m THEN f[k] ELSE x]
    OBVIOUS
  <2>6. g \in [0 .. (m + 1) -> U]
    <3>1. \A k \in 0 .. (m + 1) : k <= m => f[k] \in U
      BY <2>1, <2>2
    <3> QED
      BY <2>4, <2>5, <3>1
  <2>7. ASSUME NEW k \in 0 .. (m + 1) PROVE g[k] = IF k = 0 THEN init ELSE step[k][g[k - 1]]
    <3>1. k # 0 => k - 1 \in 0 .. m /\ g[k - 1] = f[k - 1]
      BY <2>1, <2>5
    <3>2. CASE k <= m
      <4>1. k \in 0 .. m /\ g[k] = f[k]
        BY <2>1, <3>2, <2>5
      <4>2. f[k] = IF k = 0 THEN init ELSE step[k][f[k - 1]]
        BY <4>1, <2>2
      <4> QED
        BY <3>1, <4>1, <4>2
    <3>3. CASE k = m + 1
      <4>1. k # 0 /\ k - 1 = m /\ ~ (k <= m)
        BY <3>3, <2>1
      <4>2. g[k] = x /\ g[k - 1] = f[m]
        BY <3>1, <4>1, <2>5
      <4> QED
        BY <4>1, <4>2, <2>3, <3>3
    <3> QED
      BY <3>2, <3>3, <2>1
  <2> QED
    BY <2>6, <2>7
<1> HIDE DEF A
<1>3. n \in A
  BY <1>1, <1>2, SetInduction
<1>4. PICK f : Fold(f, n)
  BY <1>3 DEF A
<1>5. IsFold(f, init, step, n)
  BY <1>4 DEF IsFold
<1> QED
  BY <1>4, <1>5

\* What every step keeps holds of the whole.
LEMMA FoldKeeps ==
  ASSUME NEW n \in Nat, NEW f, NEW S, f[0] \in S[0],
         \A k \in 1 .. n : f[k - 1] \in S[k - 1] => f[k] \in S[k]
  PROVE  f[n] \in S[n]
<1> DEFINE A == {m \in Nat : m <= n => f[m] \in S[m]}
<1>1. 0 \in A
  OBVIOUS
<1>2. ASSUME NEW m \in A \cap Nat PROVE m + 1 \in A
  <2> SUFFICES ASSUME m + 1 <= n PROVE f[m + 1] \in S[m + 1]
    OBVIOUS
  <2>1. m \in Nat /\ m <= n /\ m + 1 \in 1 .. n /\ (m + 1) - 1 = m
    OBVIOUS
  <2>2. f[m] \in S[m]
    BY <2>1
  <2> HIDE DEF A
  <2> QED
    BY <2>1, <2>2
<1> HIDE DEF A
<1>3. n \in A
  BY <1>1, <1>2, SetInduction
<1> QED
  BY <1>3 DEF A

-----------------------------------------------------------------------------
(* Indexes *)

\* The edges of a graph, wherever they are in the vector.
EdgesOf(g) == {g.edges[n] : n \in DOMAIN g.edges}

\* A graph in step: what GraphInStep says, of any graph.
Good(g) == g \in Graphs /\ IndexesAgree(g) /\ NodesFresh(g)

LEMMA InStepOrder ==
  ASSUME NEW entries, NEW S, NEW line, InStep(entries, S, line),
         NEW j \in DOMAIN entries, NEW k \in DOMAIN entries, NEW m \in S, NEW n \in S,
         j < k, entries[j] = line[m], entries[k] = line[n]
  PROVE  m < n
BY DEF InStep

\* A line that is appended keeps an index in step.
LEMMA InStepAppend ==
  ASSUME NEW T, NEW entries \in Seq(T), NEW x \in T, NEW S \in SUBSET Nat, NEW N \in Nat,
         NEW line, NEW longer,
         \A n \in S : n < N /\ longer[n] = line[n],
         \A m, n \in S \cup {N} : longer[m] = longer[n] => m = n,
         longer[N] = x,
         InStep(entries, S, line)
  PROVE  InStep(Append(entries, x), S \cup {N}, longer)
<1>1. PICK l : l = Len(entries)
  OBVIOUS
<1>2. PICK more : more = Append(entries, x)
  OBVIOUS
<1>3. /\ l \in Nat /\ DOMAIN entries = 1 .. l /\ DOMAIN more = 1 .. (l + 1)
      /\ more[l + 1] = x /\ \A k \in 1 .. l : more[k] = entries[k]
  BY <1>1, <1>2, AppendProperties
<1>4. ASSUME NEW k \in DOMAIN more PROVE \E n \in S \cup {N} : more[k] = longer[n]
  <2>1. CASE k = l + 1
    BY <2>1, <1>3
  <2>2. CASE k \in 1 .. l
    BY <2>2, <1>3 DEF InStep
  <2> QED
    BY <2>1, <2>2, <1>3
<1>5. ASSUME NEW n \in S \cup {N} PROVE \E k \in DOMAIN more : more[k] = longer[n]
  <2>1. CASE n = N
    <3>1. l + 1 \in DOMAIN more
      BY <1>3
    <3> QED
      BY <3>1, <2>1, <1>3
  <2>2. CASE n \in S
    <3>1. PICK k \in DOMAIN entries : entries[k] = line[n]
      BY <2>2 DEF InStep
    <3>2. k \in DOMAIN more /\ more[k] = entries[k]
      BY <3>1, <1>3
    <3> QED
      BY <3>1, <3>2, <2>2
  <2> QED
    BY <2>1, <2>2
<1>6. ASSUME NEW j \in DOMAIN more, NEW k \in DOMAIN more, NEW m \in S \cup {N}, NEW n \in S \cup {N},
             j < k, more[j] = longer[m], more[k] = longer[n]
      PROVE  m < n
  <2>1. j \in 1 .. l
    BY <1>3, <1>6
  <2>2. PICK i \in S : entries[j] = line[i]
    BY <2>1, <1>3 DEF InStep
  <2>3. i = m
    <3>1. longer[i] = line[i] /\ more[j] = entries[j] /\ i \in S \cup {N}
      BY <2>1, <2>2, <1>3
    <3>2. longer[i] = longer[m]
      BY <2>2, <3>1, <1>6
    <3> QED
      BY <3>1, <3>2
  <2>4. CASE k = l + 1
    <3>1. n = N
      BY <2>4, <1>3, <1>6
    <3> QED
      BY <3>1, <2>3
  <2>5. CASE k \in 1 .. l
    <3>1. PICK h \in S : entries[k] = line[h]
      BY <2>5, <1>3 DEF InStep
    <3>2. h = n
      <4>1. longer[h] = line[h] /\ more[k] = entries[k] /\ h \in S \cup {N}
        BY <2>5, <3>1, <1>3
      <4>2. longer[h] = longer[n]
        BY <3>1, <4>1, <1>6
      <4> QED
        BY <4>1, <4>2
    <3>3. j \in DOMAIN entries /\ k \in DOMAIN entries /\ j < k
      BY <2>1, <2>5, <1>3, <1>6
    <3>4. i < h
      BY <2>2, <3>1, <3>3, InStepOrder
    <3> QED
      BY <2>3, <3>2, <3>4
  <2> QED
    BY <2>4, <2>5, <1>3
<1>7. PICK R : R = S \cup {N}
  OBVIOUS
<1>8. InStep(more, R, longer)
  BY <1>4, <1>5, <1>6, <1>7 DEF InStep
<1> QED
  BY <1>2, <1>7, <1>8

\* An index that gets no line is in step with the longer vector.
LEMMA InStepStays ==
  ASSUME NEW entries, NEW S, NEW line, NEW longer,
         \A n \in S : longer[n] = line[n], InStep(entries, S, line)
  PROVE  InStep(entries, S, longer)
BY DEF InStep

-----------------------------------------------------------------------------
(* One edge is added *)

LEMMA EdgeTypes ==
  ASSUME NEW edge \in Edges
  PROVE  /\ edge.triple \in Triples /\ edge.payload \in Payloads
         /\ edge.triple[1] \in Entities /\ edge.triple[2] \in Relations /\ edge.triple[3] \in Entities
         /\ edge.triple = <<edge.triple[1], edge.triple[2], edge.triple[3]>>
BY GraphAssumption DEF Edges

LEMMA GraphTypes ==
  ASSUME NEW g \in Graphs
  PROVE  /\ g.edges \in Seq(Edges) /\ g.edge_set \subseteq Triples
         /\ g.adjacency \in [Entities -> Seq(Relations \X Entities \X Nat)]
         /\ g.reverse \in [Entities -> Seq(Relations \X Entities \X Nat)]
         /\ g.keyword_index \in [Names -> Seq(Nat)]
         /\ g.nodes \in {NoNodes} \cup [Entities -> Node]
         /\ Len(g.edges) \in Nat /\ DOMAIN g.edges = 1 .. Len(g.edges)
         /\ \A n \in DOMAIN g.edges : g.edges[n] \in Edges
BY DEF Graphs

\* What pushing an edge does to each field.
Pushed(p, g, edge, N) ==
  LET t == edge.triple
  IN  /\ p \in Graphs /\ N = Len(g.edges) + 1 /\ N \in Nat
      /\ DOMAIN p.edges = DOMAIN g.edges \cup {N} /\ p.edges[N] = edge
      /\ \A n \in DOMAIN g.edges : n \in Nat /\ n < N /\ p.edges[n] = g.edges[n]
      /\ p.edge_set = g.edge_set \cup {t}
      /\ \A e \in Entities :
           /\ p.adjacency[e] = IF e = t[1] THEN Append(g.adjacency[e], <<t[2], t[3], N>>)
                               ELSE g.adjacency[e]
           /\ p.reverse[e] = IF e = t[3] THEN Append(g.reverse[e], <<t[2], t[1], N>>)
                             ELSE g.reverse[e]
      /\ \A e \in Names :
           p.keyword_index[e] = IF e \in {t[1], t[2], t[3]} THEN Append(g.keyword_index[e], N)
                                ELSE g.keyword_index[e]
      /\ p.nodes = NoNodes

LEMMA PushPushes ==
  ASSUME NEW g \in Graphs, NEW edge \in Edges
  PROVE  Pushed(push_edge(g, edge), g, edge, Len(g.edges) + 1)
<1>1. PICK l : l = Len(g.edges)
  OBVIOUS
<1>2. PICK N : N = l + 1
  OBVIOUS
<1>3. PICK t : t = edge.triple
  OBVIOUS
<1>4. PICK p : p = push_edge(g, edge)
  OBVIOUS
<1>5. /\ l \in Nat /\ N \in Nat /\ DOMAIN g.edges = 1 .. l /\ g.edges \in Seq(Edges)
      /\ t \in Triples /\ t[1] \in Entities /\ t[2] \in Relations /\ t[3] \in Entities
  BY <1>1, <1>2, <1>3, GraphTypes, EdgeTypes
<1>6. PICK x : x = <<t[2], t[3], N>>
  OBVIOUS
<1>7. PICK y : y = <<t[2], t[1], N>>
  OBVIOUS
<1>8. PICK L : L = Relations \X Entities \X Nat
  OBVIOUS
<1>9. PICK edges : edges = Append(g.edges, edge)
  OBVIOUS
<1>10. PICK adj : adj = [g.adjacency EXCEPT ![t[1]] = Append(@, x)]
  OBVIOUS
<1>11. PICK rev : rev = [g.reverse EXCEPT ![t[3]] = Append(@, y)]
  OBVIOUS
<1>12. PICK key : key = [n \in Names |-> IF n \in {t[1], t[2], t[3]} THEN Append(g.keyword_index[n], N)
                                         ELSE g.keyword_index[n]]
  OBVIOUS
<1>13. p = [edges |-> edges, edge_set |-> g.edge_set \cup {t}, adjacency |-> adj, reverse |-> rev,
            keyword_index |-> key, nodes |-> NoNodes]
  BY <1>1, <1>2, <1>3, <1>4, <1>6, <1>7, <1>9, <1>10, <1>11, <1>12 DEF push_edge
<1>14. /\ DOMAIN edges = DOMAIN g.edges \cup {N} /\ edges[N] = edge /\ edges \in Seq(Edges)
       /\ \A n \in DOMAIN g.edges : n \in Nat /\ n < N /\ edges[n] = g.edges[n]
  <2>1. /\ DOMAIN edges = 1 .. (l + 1) /\ edges[l + 1] = edge /\ edges \in Seq(Edges)
        /\ \A n \in 1 .. l : edges[n] = g.edges[n]
    BY <1>1, <1>5, <1>9, AppendProperties
  <2> QED
    BY <1>2, <1>5, <2>1
<1>15. x \in L /\ y \in L
  BY <1>5, <1>6, <1>7, <1>8
<1>16. /\ adj \in [Entities -> Seq(L)]
       /\ \A e \in Entities : adj[e] = IF e = t[1] THEN Append(g.adjacency[e], x) ELSE g.adjacency[e]
  <2>1. g.adjacency \in [Entities -> Seq(L)]
    BY <1>8, GraphTypes
  <2>2. Append(g.adjacency[t[1]], x) \in Seq(L)
    BY <1>5, <1>15, <2>1, AppendProperties
  <2> QED
    BY <1>5, <1>10, <2>1, <2>2
<1>17. /\ rev \in [Entities -> Seq(L)]
       /\ \A e \in Entities : rev[e] = IF e = t[3] THEN Append(g.reverse[e], y) ELSE g.reverse[e]
  <2>1. g.reverse \in [Entities -> Seq(L)]
    BY <1>8, GraphTypes
  <2>2. Append(g.reverse[t[3]], y) \in Seq(L)
    BY <1>5, <1>15, <2>1, AppendProperties
  <2> QED
    BY <1>5, <1>11, <2>1, <2>2
<1>18. /\ key \in [Names -> Seq(Nat)]
       /\ \A e \in Names : key[e] = IF e \in {t[1], t[2], t[3]} THEN Append(g.keyword_index[e], N)
                                     ELSE g.keyword_index[e]
  <2>1. \A e \in Names : g.keyword_index[e] \in Seq(Nat) /\ Append(g.keyword_index[e], N) \in Seq(Nat)
    BY <1>5, GraphTypes, AppendProperties
  <2> QED
    BY <1>12, <2>1
<1>19. p \in Graphs
  <2>1. g.edge_set \cup {t} \in SUBSET Triples
    BY <1>5, GraphTypes
  <2> QED
    BY <1>8, <1>13, <1>14, <1>16, <1>17, <1>18, <2>1 DEF Graphs
<1>20. Pushed(p, g, edge, N)
  BY <1>1, <1>2, <1>3, <1>5, <1>6, <1>7, <1>13, <1>14, <1>16, <1>17, <1>18, <1>19 DEF Pushed
<1> QED
  BY <1>1, <1>2, <1>4, <1>20

\* A new triple is added: the lines of its edge are the last of each index.
LEMMA PushGood ==
  ASSUME NEW g, Good(g), NEW edge \in Edges, edge.triple \notin g.edge_set
  PROVE  Good(push_edge(g, edge)) /\ EdgesOf(push_edge(g, edge)) = EdgesOf(g) \cup {edge}
<1>1. PICK p : p = push_edge(g, edge)
  OBVIOUS
<1>2. PICK N : N = Len(g.edges) + 1
  OBVIOUS
<1>3. PICK t : t = edge.triple
  OBVIOUS
<1>4. PICK P : P = DOMAIN g.edges
  OBVIOUS
<1>5. g \in Graphs /\ p \in Graphs /\ Pushed(p, g, edge, N)
  BY <1>1, <1>2, PushPushes DEF Good, Pushed
<1>6. /\ N \in Nat /\ N \notin P /\ DOMAIN p.edges = P \cup {N} /\ p.edges[N] = edge
      /\ \A n \in P : n \in Nat /\ n < N /\ p.edges[n] = g.edges[n] /\ g.edges[n] \in Edges
  BY <1>4, <1>5, GraphTypes DEF Pushed
<1>7. t \in Triples /\ t[1] \in Entities /\ t[2] \in Relations /\ t[3] \in Entities
  BY <1>3, EdgeTypes
<1>8. /\ g.edge_set = {g.edges[n].triple : n \in P}
      /\ \A m, n \in P : g.edges[m].triple = g.edges[n].triple => m = n
  BY <1>4 DEF Good, IndexesAgree
<1>9. /\ p.edge_set = {p.edges[n].triple : n \in P \cup {N}}
      /\ \A m, n \in P \cup {N} : p.edges[m].triple = p.edges[n].triple => m = n
  <2>1. p.edge_set = g.edge_set \cup {t}
    BY <1>3, <1>5 DEF Pushed
  <2>2. \A n \in P : g.edges[n].triple # t
    BY <1>3, <1>8
  <2> QED
    BY <1>3, <1>6, <1>8, <2>1, <2>2
<1>10. ASSUME NEW e \in Entities
       PROVE  InStep(p.adjacency[e], {n \in P \cup {N} : p.edges[n].triple[1] = e},
                     [n \in P \cup {N} |-> <<p.edges[n].triple[2], p.edges[n].triple[3], n>>])
  <2>1. PICK S : S = {n \in P : g.edges[n].triple[1] = e}
    OBVIOUS
  <2>2. PICK line : line = [n \in P |-> <<g.edges[n].triple[2], g.edges[n].triple[3], n>>]
    OBVIOUS
  <2>3. PICK longer : longer = [n \in P \cup {N} |-> <<p.edges[n].triple[2], p.edges[n].triple[3], n>>]
    OBVIOUS
  <2>4. PICK x : x = <<t[2], t[3], N>>
    OBVIOUS
  <2>5. PICK L : L = Relations \X Entities \X Nat
    OBVIOUS
  <2>6. /\ InStep(g.adjacency[e], S, line) /\ g.adjacency[e] \in Seq(L)
    BY <1>4, <1>5, <2>1, <2>2, <2>5, GraphTypes DEF Good, IndexesAgree
  <2>7. /\ S \in SUBSET Nat /\ \A n \in S : n \in P /\ n < N /\ longer[n] = line[n]
        /\ \A m, n \in P \cup {N} : longer[m] = longer[n] => m = n
        /\ longer[N] = x /\ x \in L
    BY <1>3, <1>6, <1>7, <2>1, <2>2, <2>3, <2>4, <2>5
  <2>8. p.adjacency[e] = IF e = t[1] THEN Append(g.adjacency[e], x) ELSE g.adjacency[e]
    BY <1>3, <1>5, <2>4 DEF Pushed
  <2>9. {n \in P \cup {N} : p.edges[n].triple[1] = e} = IF e = t[1] THEN S \cup {N} ELSE S
    BY <1>3, <1>6, <2>1
  <2>10. CASE e = t[1]
    <3>1. \A m, n \in S \cup {N} : longer[m] = longer[n] => m = n
      BY <2>7
    <3>2. PICK l : l = g.adjacency[e]
      OBVIOUS
    <3>3. l \in Seq(L) /\ InStep(l, S, line) /\ x \in L /\ S \in SUBSET Nat /\ N \in Nat /\ longer[N] = x
      BY <1>6, <2>6, <2>7, <3>2
    <3>4. \A n \in S : n < N /\ longer[n] = line[n]
      BY <2>7
    <3>5. InStep(Append(l, x), S \cup {N}, longer)
      BY <3>1, <3>3, <3>4, InStepAppend
    <3> QED
      BY <3>2, <3>5, <2>3, <2>8, <2>9, <2>10
  <2>11. CASE e # t[1]
    <3>1. InStep(g.adjacency[e], S, longer)
      BY <2>6, <2>7, InStepStays
    <3> QED
      BY <3>1, <2>3, <2>8, <2>9, <2>11
  <2> QED
    BY <2>10, <2>11
<1>11. ASSUME NEW e \in Entities
       PROVE  InStep(p.reverse[e], {n \in P \cup {N} : p.edges[n].triple[3] = e},
                     [n \in P \cup {N} |-> <<p.edges[n].triple[2], p.edges[n].triple[1], n>>])
  <2>1. PICK S : S = {n \in P : g.edges[n].triple[3] = e}
    OBVIOUS
  <2>2. PICK line : line = [n \in P |-> <<g.edges[n].triple[2], g.edges[n].triple[1], n>>]
    OBVIOUS
  <2>3. PICK longer : longer = [n \in P \cup {N} |-> <<p.edges[n].triple[2], p.edges[n].triple[1], n>>]
    OBVIOUS
  <2>4. PICK x : x = <<t[2], t[1], N>>
    OBVIOUS
  <2>5. PICK L : L = Relations \X Entities \X Nat
    OBVIOUS
  <2>6. /\ InStep(g.reverse[e], S, line) /\ g.reverse[e] \in Seq(L)
    BY <1>4, <1>5, <2>1, <2>2, <2>5, GraphTypes DEF Good, IndexesAgree
  <2>7. /\ S \in SUBSET Nat /\ \A n \in S : n \in P /\ n < N /\ longer[n] = line[n]
        /\ \A m, n \in P \cup {N} : longer[m] = longer[n] => m = n
        /\ longer[N] = x /\ x \in L
    BY <1>3, <1>6, <1>7, <2>1, <2>2, <2>3, <2>4, <2>5
  <2>8. p.reverse[e] = IF e = t[3] THEN Append(g.reverse[e], x) ELSE g.reverse[e]
    BY <1>3, <1>5, <2>4 DEF Pushed
  <2>9. {n \in P \cup {N} : p.edges[n].triple[3] = e} = IF e = t[3] THEN S \cup {N} ELSE S
    BY <1>3, <1>6, <2>1
  <2>10. CASE e = t[3]
    <3>1. \A m, n \in S \cup {N} : longer[m] = longer[n] => m = n
      BY <2>7
    <3>2. PICK l : l = g.reverse[e]
      OBVIOUS
    <3>3. l \in Seq(L) /\ InStep(l, S, line) /\ x \in L /\ S \in SUBSET Nat /\ N \in Nat /\ longer[N] = x
      BY <1>6, <2>6, <2>7, <3>2
    <3>4. \A n \in S : n < N /\ longer[n] = line[n]
      BY <2>7
    <3>5. InStep(Append(l, x), S \cup {N}, longer)
      BY <3>1, <3>3, <3>4, InStepAppend
    <3> QED
      BY <3>2, <3>5, <2>3, <2>8, <2>9, <2>10
  <2>11. CASE e # t[3]
    <3>1. InStep(g.reverse[e], S, longer)
      BY <2>6, <2>7, InStepStays
    <3> QED
      BY <3>1, <2>3, <2>8, <2>9, <2>11
  <2> QED
    BY <2>10, <2>11
<1>12. ASSUME NEW e \in Names
       PROVE  InStep(p.keyword_index[e],
                     {n \in P \cup {N} : e \in {p.edges[n].triple[1], p.edges[n].triple[2], p.edges[n].triple[3]}},
                     [n \in P \cup {N} |-> n])
  <2>1. PICK S : S = {n \in P : e \in {g.edges[n].triple[1], g.edges[n].triple[2], g.edges[n].triple[3]}}
    OBVIOUS
  <2>2. PICK line : line = [n \in P |-> n]
    OBVIOUS
  <2>3. PICK longer : longer = [n \in P \cup {N} |-> n]
    OBVIOUS
  <2>6. /\ InStep(g.keyword_index[e], S, line) /\ g.keyword_index[e] \in Seq(Nat)
    BY <1>4, <1>5, <2>1, <2>2, GraphTypes DEF Good, IndexesAgree
  <2>7. /\ S \in SUBSET Nat /\ \A n \in S : n \in P /\ n < N /\ longer[n] = line[n]
        /\ \A m, n \in P \cup {N} : longer[m] = longer[n] => m = n
        /\ longer[N] = N
    BY <1>6, <2>1, <2>2, <2>3
  <2>8. p.keyword_index[e] = IF e \in {t[1], t[2], t[3]} THEN Append(g.keyword_index[e], N)
                             ELSE g.keyword_index[e]
    BY <1>3, <1>5 DEF Pushed
  <2>9. {n \in P \cup {N} : e \in {p.edges[n].triple[1], p.edges[n].triple[2], p.edges[n].triple[3]}}
        = IF e \in {t[1], t[2], t[3]} THEN S \cup {N} ELSE S
    BY <1>3, <1>6, <2>1
  <2>10. CASE e \in {t[1], t[2], t[3]}
    <3>1. \A m, n \in S \cup {N} : longer[m] = longer[n] => m = n
      BY <2>7
    <3>2. PICK l : l = g.keyword_index[e]
      OBVIOUS
    <3>3. l \in Seq(Nat) /\ InStep(l, S, line) /\ N \in Nat /\ S \in SUBSET Nat /\ N \in Nat /\ longer[N] = N
      BY <1>6, <2>6, <2>7, <3>2
    <3>4. \A n \in S : n < N /\ longer[n] = line[n]
      BY <2>7
    <3>5. InStep(Append(l, N), S \cup {N}, longer)
      <4>1. PICK T : T = Nat
        OBVIOUS
      <4>2. PICK x \in T : x = N
        BY <4>1, <3>3
      <4>3. l \in Seq(T) /\ longer[N] = x
        BY <4>1, <4>2, <3>3
      <4>4. InStep(Append(l, x), S \cup {N}, longer)
        BY <3>1, <3>3, <3>4, <4>2, <4>3, InStepAppend
      <4> QED
        BY <4>2, <4>4
    <3> QED
      BY <3>2, <3>5, <2>3, <2>8, <2>9, <2>10
  <2>11. CASE e \notin {t[1], t[2], t[3]}
    <3>1. \A n \in S : longer[n] = line[n]
      BY <2>7
    <3>2. InStep(g.keyword_index[e], S, longer)
      BY <2>6, <3>1, InStepStays
    <3> QED
      BY <3>2, <2>3, <2>8, <2>9, <2>11
  <2> QED
    BY <2>10, <2>11
<1>13. IndexesAgree(p)
  BY <1>6, <1>9, <1>10, <1>11, <1>12 DEF IndexesAgree
<1>14. NodesFresh(p)
  BY <1>5 DEF NodesFresh, Pushed
<1>15. EdgesOf(p) = EdgesOf(g) \cup {edge}
  BY <1>4, <1>6 DEF EdgesOf
<1> QED
  BY <1>1, <1>5, <1>13, <1>14, <1>15 DEF Good

LEMMA AddGood ==
  ASSUME NEW g, Good(g), NEW edge \in Edges
  PROVE  /\ Good(try_add_edge(g, edge))
         /\ EdgesOf(try_add_edge(g, edge)) = EdgesOf(g) \cup (IF edge.triple \in g.edge_set THEN {} ELSE {edge})
BY PushGood DEF try_add_edge

\* A triple is found where its edge is.
LEMMA FindRight ==
  ASSUME NEW g, Good(g), NEW t \in Triples
  PROVE  /\ Found(g, t) = {} <=> t \notin g.edge_set
         /\ t \in g.edge_set => /\ find_edge_index(g, t) \in DOMAIN g.edges
                                /\ g.edges[find_edge_index(g, t)].triple = t
<1>1. PICK P : P = DOMAIN g.edges
  OBVIOUS
<1>2. PICK S : S = {n \in P : g.edges[n].triple[1] = t[1]}
  OBVIOUS
<1>3. PICK line : line = [n \in P |-> <<g.edges[n].triple[2], g.edges[n].triple[3], n>>]
  OBVIOUS
<1>4. PICK l : l = g.adjacency[t[1]]
  OBVIOUS
<1>5. /\ t = <<t[1], t[2], t[3]>> /\ t[1] \in Entities
      /\ \A n \in P : n \in Nat /\ g.edges[n].triple \in Triples
      /\ \A n \in P : g.edges[n].triple = <<g.edges[n].triple[1], g.edges[n].triple[2], g.edges[n].triple[3]>>
  BY <1>1, GraphAssumption, GraphTypes, EdgeTypes DEF Good
<1>6. InStep(l, S, line) /\ DOMAIN l \subseteq Nat
  <2>1. InStep(l, S, line)
    BY <1>1, <1>2, <1>3, <1>4, <1>5 DEF Good, IndexesAgree
  <2>2. l \in Seq(Relations \X Entities \X Nat)
    BY <1>4, <1>5, GraphTypes DEF Good
  <2> QED
    BY <2>1, <2>2
<1>7. /\ g.edge_set = {g.edges[n].triple : n \in P}
      /\ \A m, n \in P : g.edges[m].triple = g.edges[n].triple => m = n
  BY <1>1 DEF Good, IndexesAgree
<1>8. PICK F : F = Found(g, t)
  OBVIOUS
<1>9. F = {k \in DOMAIN l : l[k][1] = t[2] /\ l[k][2] = t[3]}
  BY <1>4, <1>8 DEF Found
<1>10. ASSUME NEW k \in F
       PROVE  \E n \in S : l[k] = line[n] /\ l[k][3] = n /\ g.edges[n].triple = t
  <2>1. PICK n \in S : l[k] = line[n]
    BY <1>6, <1>9 DEF InStep
  <2>2. n \in P /\ g.edges[n].triple[1] = t[1] /\ l[k] = <<g.edges[n].triple[2], g.edges[n].triple[3], n>>
    BY <1>2, <1>3, <2>1
  <2>3. g.edges[n].triple[2] = t[2] /\ g.edges[n].triple[3] = t[3] /\ l[k][3] = n
    BY <1>9, <2>2
  <2>4. g.edges[n].triple = t
    BY <1>5, <2>2, <2>3
  <2> QED
    BY <2>1, <2>3, <2>4
<1>11. ASSUME t \in g.edge_set PROVE F # {}
  <2>1. PICK n \in P : g.edges[n].triple = t
    BY <1>7, <1>11
  <2>2. n \in S
    BY <1>2, <2>1
  <2>3. PICK k \in DOMAIN l : l[k] = line[n]
    BY <1>6, <2>2 DEF InStep
  <2>4. l[k] = <<t[2], t[3], n>>
    BY <1>3, <2>1, <2>3
  <2> QED
    BY <1>9, <2>3, <2>4
<1>12. ASSUME NEW j \in F, NEW k \in F PROVE ~ (j < k)
  <2>1. PICK m \in S : l[j] = line[m] /\ g.edges[m].triple = t
    BY <1>10
  <2>2. PICK n \in S : l[k] = line[n] /\ g.edges[n].triple = t
    BY <1>10
  <2>3. m = n /\ n \in Nat /\ j \in DOMAIN l /\ k \in DOMAIN l
    BY <1>2, <1>5, <1>7, <1>9, <2>1, <2>2
  <2>4. j < k => m < n
    BY <1>6, <2>1, <2>2, <2>3, InStepOrder
  <2>5. ~ (m < n)
    BY <2>3
  <2> QED
    BY <2>4, <2>5
<1>13. ASSUME t \in g.edge_set
       PROVE  find_edge_index(g, t) \in P /\ g.edges[find_edge_index(g, t)].triple = t
  <2>1. \E k \in F : \A j \in F : k <= j
    <3>1. PICK k \in F : TRUE
      BY <1>11, <1>13
    <3>2. ASSUME NEW j \in F PROVE k <= j
      <4>1. j \in Nat /\ k \in Nat
        BY <1>6, <1>9
      <4>2. ~ (j < k)
        BY <1>12
      <4> QED
        BY <4>1, <4>2
    <3> QED
      BY <3>2
  <2>2. PICK i : i = CHOOSE k \in F : \A j \in F : k <= j
    OBVIOUS
  <2>3. i \in F
    BY <2>1, <2>2
  <2>4. find_edge_index(g, t) = l[i][3]
    BY <1>4, <1>8, <2>2 DEF find_edge_index
  <2>5. PICK n \in S : l[i][3] = n /\ g.edges[n].triple = t
    BY <1>10, <2>3
  <2> QED
    BY <1>2, <2>4, <2>5
<1>14. t \notin g.edge_set => F = {}
  BY <1>2, <1>7, <1>10
<1> QED
  BY <1>1, <1>8, <1>11, <1>13, <1>14

-----------------------------------------------------------------------------
(* An edge is replaced, and the nodes are computed *)

LEMMA NodesOfTriples ==
  ASSUME NEW a, NEW b, DOMAIN a = DOMAIN b, \A n \in DOMAIN a : a[n].triple = b[n].triple
  PROVE  NodesOf(a) = NodesOf(b)
<1>1. \A e \in Entities : /\ {n \in DOMAIN a : a[n].triple[1] = e} = {n \in DOMAIN b : b[n].triple[1] = e}
                          /\ {n \in DOMAIN a : a[n].triple[3] = e} = {n \in DOMAIN b : b[n].triple[3] = e}
  OBVIOUS
<1>2. ASSUME NEW N \in SUBSET DOMAIN a PROVE {a[n].triple[2] : n \in N} = {b[n].triple[2] : n \in N}
  OBVIOUS
<1>3. ASSUME NEW e \in Entities PROVE NodesOf(a)[e] = NodesOf(b)[e]
  <2>1. PICK out : out = {n \in DOMAIN a : a[n].triple[1] = e} /\ out = {n \in DOMAIN b : b[n].triple[1] = e}
    BY <1>1
  <2>2. PICK in : in = {n \in DOMAIN a : a[n].triple[3] = e} /\ in = {n \in DOMAIN b : b[n].triple[3] = e}
    BY <1>1
  <2>3. /\ {a[n].triple[2] : n \in out} = {b[n].triple[2] : n \in out}
        /\ {a[n].triple[2] : n \in in} = {b[n].triple[2] : n \in in}
    BY <1>2, <2>1, <2>2
  <2>4. NodesOf(a)[e] = [out_rels |-> {a[n].triple[2] : n \in out}, in_rels |-> {a[n].triple[2] : n \in in},
                         out_degree |-> Cardinality(out), in_degree |-> Cardinality(in)]
    BY <2>1, <2>2 DEF NodesOf
  <2>5. NodesOf(b)[e] = [out_rels |-> {b[n].triple[2] : n \in out}, in_rels |-> {b[n].triple[2] : n \in in},
                         out_degree |-> Cardinality(out), in_degree |-> Cardinality(in)]
    BY <2>1, <2>2 DEF NodesOf
  <2> QED
    BY <2>3, <2>4, <2>5
<1>4. NodesOf(a) = [e \in Entities |-> NodesOf(a)[e]] /\ NodesOf(b) = [e \in Entities |-> NodesOf(b)[e]]
  BY DEF NodesOf
<1> QED
  BY <1>3, <1>4

LEMMA NodesOfType ==
  ASSUME NEW g \in Graphs
  PROVE  NodesOf(g.edges) \in [Entities -> Node]
<1>1. PICK edges : edges = g.edges
  OBVIOUS
<1>2. PICK P : P = DOMAIN edges
  OBVIOUS
<1>3. IsFiniteSet(P) /\ \A n \in P : edges[n].triple[2] \in Relations
  <2>1. P = 1 .. Len(g.edges) /\ Len(g.edges) \in Nat
    BY <1>1, <1>2, GraphTypes
  <2>2. IsFiniteSet(P)
    BY <2>1, FS_Interval
  <2> QED
    BY <1>1, <1>2, <2>2, GraphTypes, EdgeTypes
<1>4. ASSUME NEW S \in SUBSET P
      PROVE  Cardinality(S) \in Nat /\ {edges[n].triple[2] : n \in S} \subseteq Relations
  BY <1>3, FS_Subset, FS_CardinalityType
<1>5. ASSUME NEW e \in Entities PROVE NodesOf(edges)[e] \in Node
  <2>1. PICK out : out = {n \in P : edges[n].triple[1] = e}
    OBVIOUS
  <2>2. PICK in : in = {n \in P : edges[n].triple[3] = e}
    OBVIOUS
  <2>3. NodesOf(edges)[e] = [out_rels |-> {edges[n].triple[2] : n \in out}, in_rels |-> {edges[n].triple[2] : n \in in},
                             out_degree |-> Cardinality(out), in_degree |-> Cardinality(in)]
    BY <1>2, <2>1, <2>2 DEF NodesOf
  <2>4. out \in SUBSET P /\ in \in SUBSET P
    BY <2>1, <2>2
  <2> QED
    BY <1>4, <2>3, <2>4 DEF Node
<1>6. NodesOf(edges) = [e \in Entities |-> NodesOf(edges)[e]]
  BY DEF NodesOf
<1> QED
  BY <1>1, <1>5, <1>6

\* What is indexed are the triples: edges with the same ones may take their places.
LEMMA SameTriples ==
  ASSUME NEW g, Good(g), NEW h \in Graphs,
         DOMAIN h.edges = DOMAIN g.edges, \A n \in DOMAIN g.edges : h.edges[n].triple = g.edges[n].triple,
         h.edge_set = g.edge_set, h.adjacency = g.adjacency, h.reverse = g.reverse,
         h.keyword_index = g.keyword_index, h.nodes \in {g.nodes, NodesOf(h.edges)}
  PROVE  Good(h)
<1>1. PICK P : P = DOMAIN g.edges /\ P = DOMAIN h.edges
  OBVIOUS
<1>2. /\ \A e : {n \in P : h.edges[n].triple[1] = e} = {n \in P : g.edges[n].triple[1] = e}
      /\ \A e : {n \in P : h.edges[n].triple[3] = e} = {n \in P : g.edges[n].triple[3] = e}
      /\ \A e : {n \in P : e \in {h.edges[n].triple[1], h.edges[n].triple[2], h.edges[n].triple[3]}}
                = {n \in P : e \in {g.edges[n].triple[1], g.edges[n].triple[2], g.edges[n].triple[3]}}
      /\ [n \in P |-> <<h.edges[n].triple[2], h.edges[n].triple[3], n>>]
         = [n \in P |-> <<g.edges[n].triple[2], g.edges[n].triple[3], n>>]
      /\ [n \in P |-> <<h.edges[n].triple[2], h.edges[n].triple[1], n>>]
         = [n \in P |-> <<g.edges[n].triple[2], g.edges[n].triple[1], n>>]
  BY <1>1
<1>3. IndexesAgree(h)
  <2>1. /\ h.edge_set = {h.edges[n].triple : n \in P}
        /\ \A m, n \in P : h.edges[m].triple = h.edges[n].triple => m = n
    BY <1>1 DEF Good, IndexesAgree
  <2>2. ASSUME NEW e \in Entities
        PROVE  /\ InStep(h.adjacency[e], {n \in P : h.edges[n].triple[1] = e},
                         [n \in P |-> <<h.edges[n].triple[2], h.edges[n].triple[3], n>>])
               /\ InStep(h.reverse[e], {n \in P : h.edges[n].triple[3] = e},
                         [n \in P |-> <<h.edges[n].triple[2], h.edges[n].triple[1], n>>])
    <3>1. /\ InStep(g.adjacency[e], {n \in P : g.edges[n].triple[1] = e},
                    [n \in P |-> <<g.edges[n].triple[2], g.edges[n].triple[3], n>>])
          /\ InStep(g.reverse[e], {n \in P : g.edges[n].triple[3] = e},
                    [n \in P |-> <<g.edges[n].triple[2], g.edges[n].triple[1], n>>])
      BY <1>1 DEF Good, IndexesAgree
    <3> QED
      BY <1>2, <3>1
  <2>3. ASSUME NEW e \in Names
        PROVE  InStep(h.keyword_index[e],
                      {n \in P : e \in {h.edges[n].triple[1], h.edges[n].triple[2], h.edges[n].triple[3]}},
                      [n \in P |-> n])
    <3>1. InStep(g.keyword_index[e],
                 {n \in P : e \in {g.edges[n].triple[1], g.edges[n].triple[2], g.edges[n].triple[3]}},
                 [n \in P |-> n])
      BY <1>1 DEF Good, IndexesAgree
    <3> QED
      BY <1>2, <3>1
  <2> QED
    BY <1>1, <2>1, <2>2, <2>3 DEF IndexesAgree
<1>4. NodesFresh(h)
  <2>1. NodesOf(h.edges) = NodesOf(g.edges)
    BY NodesOfTriples
  <2> QED
    BY <2>1 DEF Good, NodesFresh
<1> QED
  BY <1>3, <1>4 DEF Good

LEMMA InsertGood ==
  ASSUME NEW g, Good(g), NEW edge \in Edges
  PROVE  /\ Good(insert_edge(g, edge))
         /\ EdgesOf(insert_edge(g, edge)) = {x \in EdgesOf(g) : x.triple # edge.triple} \cup {edge}
<1>1. edge.triple \in Triples
  BY EdgeTypes
<1>2. CASE Found(g, edge.triple) = {}
  <2>1. edge.triple \notin g.edge_set /\ insert_edge(g, edge) = push_edge(g, edge)
    BY <1>1, <1>2, FindRight DEF insert_edge
  <2>2. \A x \in EdgesOf(g) : x.triple # edge.triple
    BY <2>1 DEF EdgesOf, Good, IndexesAgree
  <2> QED
    BY <2>1, <2>2, PushGood
<1>3. CASE Found(g, edge.triple) # {}
  <2>1. PICK i : i = find_edge_index(g, edge.triple)
    OBVIOUS
  <2>2. i \in DOMAIN g.edges /\ g.edges[i].triple = edge.triple
    BY <1>1, <1>3, <2>1, FindRight
  <2>3. PICK edges : edges = [g.edges EXCEPT ![i] = edge]
    OBVIOUS
  <2>4. PICK h : h = [g EXCEPT !.edges = edges]
    OBVIOUS
  <2>5. insert_edge(g, edge) = h
    BY <1>3, <2>1, <2>3, <2>4 DEF insert_edge
  <2>6. /\ edges \in Seq(Edges) /\ DOMAIN edges = DOMAIN g.edges
        /\ \A n \in DOMAIN g.edges : edges[n] = IF n = i THEN edge ELSE g.edges[n]
    <3>1. g.edges \in Seq(Edges)
      BY GraphTypes DEF Good
    <3> QED
      BY <2>2, <2>3, <3>1, ExceptSeq
  <2>7. /\ h \in Graphs /\ h.edges = edges /\ h.edge_set = g.edge_set /\ h.adjacency = g.adjacency
        /\ h.reverse = g.reverse /\ h.keyword_index = g.keyword_index /\ h.nodes = g.nodes
    BY <2>4, <2>6 DEF Good, Graphs
  <2>8. Good(h)
    BY <2>2, <2>6, <2>7, SameTriples
  <2>9. \A m, n \in DOMAIN g.edges : g.edges[m].triple = g.edges[n].triple => m = n
    BY DEF Good, IndexesAgree
  <2>10. EdgesOf(h) = {x \in EdgesOf(g) : x.triple # edge.triple} \cup {edge}
    BY <2>2, <2>6, <2>7, <2>9 DEF EdgesOf
  <2> QED
    BY <2>5, <2>8, <2>10
<1> QED
  BY <1>2, <1>3

LEMMA EnsureGood ==
  ASSUME NEW g, Good(g)
  PROVE  Good(ensure_nodes(g)) /\ EdgesOf(ensure_nodes(g)) = EdgesOf(g)
<1>1. CASE g.nodes # NoNodes
  BY <1>1 DEF ensure_nodes
<1>2. CASE g.nodes = NoNodes
  <2>1. PICK h : h = [g EXCEPT !.nodes = NodesOf(g.edges)]
    OBVIOUS
  <2>2. ensure_nodes(g) = h
    BY <1>2, <2>1 DEF ensure_nodes
  <2>3. g \in Graphs /\ NodesOf(g.edges) \in [Entities -> Node]
    BY NodesOfType DEF Good
  <2>4. /\ h \in Graphs /\ h.edges = g.edges /\ h.edge_set = g.edge_set /\ h.adjacency = g.adjacency
        /\ h.reverse = g.reverse /\ h.keyword_index = g.keyword_index /\ h.nodes = NodesOf(g.edges)
    BY <2>1, <2>3 DEF Graphs
  <2>5. Good(h)
    BY <2>4, SameTriples
  <2> QED
    BY <2>2, <2>4, <2>5 DEF EdgesOf
<1> QED
  BY <1>1, <1>2

-----------------------------------------------------------------------------
(* The indexes are rebuilt *)

LEMMA NewGood == Good(New) /\ EdgesOf(New) = {}
<1>1. New \in Graphs
  <2>1. /\ New = [edges |-> New.edges, edge_set |-> New.edge_set, adjacency |-> New.adjacency,
                  reverse |-> New.reverse, keyword_index |-> New.keyword_index, nodes |-> New.nodes]
        /\ New.edges = <<>> /\ New.edge_set = {} /\ New.nodes = NoNodes
        /\ New.adjacency = [e \in Entities |-> <<>>] /\ New.reverse = [e \in Entities |-> <<>>]
        /\ New.keyword_index = [n \in Names |-> <<>>]
    BY DEF New
  <2>2. PICK L : L = Relations \X Entities \X Nat
    OBVIOUS
  <2>3. <<>> \in Seq(L) /\ <<>> \in Seq(Nat) /\ <<>> \in Seq(Edges)
    OBVIOUS
  <2>4. New.adjacency \in [Entities -> Seq(L)] /\ New.reverse \in [Entities -> Seq(L)]
        /\ New.keyword_index \in [Names -> Seq(Nat)]
    BY <2>1, <2>3
  <2> QED
    BY <2>1, <2>2, <2>3, <2>4 DEF Graphs
<1>2. DOMAIN New.edges = {} /\ New.edge_set = {} /\ New.nodes = NoNodes
  BY DEF New
<1>3. \A e \in Entities : DOMAIN New.adjacency[e] = {} /\ DOMAIN New.reverse[e] = {}
  BY DEF New
<1>4. \A e \in Names : DOMAIN New.keyword_index[e] = {}
  BY DEF New
<1>5. IndexesAgree(New)
  BY <1>2, <1>3, <1>4 DEF IndexesAgree, InStep
<1> QED
  BY <1>1, <1>2, <1>5 DEF Good, NodesFresh, EdgesOf

LEMMA AddTriple ==
  ASSUME NEW g \in Graphs, NEW edge \in Edges
  PROVE  try_add_edge(g, edge).edge_set = g.edge_set \cup {edge.triple}
BY DEF try_add_edge, push_edge

LEMMA AddType ==
  ASSUME NEW g \in Graphs, NEW edge \in Edges
  PROVE  try_add_edge(g, edge) \in Graphs
BY PushPushes DEF Pushed, try_add_edge

\* The graphs that rebuild_indexes goes through, to the n-th edge.
Rebuilds(f, es, kept, n) ==
  /\ f \in [0 .. n -> Graphs]
  /\ f[0] = New
  /\ \A k \in 1 .. n : f[k] = IF k \in kept THEN try_add_edge(f[k - 1], es[k]) ELSE f[k - 1]

LEMMA RebuildSteps ==
  ASSUME NEW es \in Seq(Edges), NEW kept, NEW n, n = Len(es)
  PROVE  \E f : Rebuilds(f, es, kept, n) /\ rebuild_indexes(es, kept) = f[n]
<1>2. n \in Nat /\ \A k \in 1 .. n : es[k] \in Edges
  OBVIOUS
<1>3. PICK step : step = [k \in 1 .. n |-> [g \in Graphs |-> IF k \in kept THEN try_add_edge(g, es[k]) ELSE g]]
  OBVIOUS
<1>4. \A k \in 1 .. n : step[k] \in [Graphs -> Graphs]
  BY <1>2, <1>3, AddType
<1>5. New \in Graphs
  BY NewGood DEF Good
<1>6. PICK f \in [0 .. n -> Graphs] : f = [k \in 0 .. n |-> IF k = 0 THEN New ELSE step[k][f[k - 1]]]
  <2>1. PICK U : U = Graphs
    OBVIOUS
  <2>2. PICK init \in U : init = New
    BY <1>5, <2>1
  <2>3. \A k \in 1 .. n : step[k] \in [U -> U]
    BY <1>4, <2>1
  <2>4. PICK f \in [0 .. n -> U] : IsFold(f, init, step, n)
    BY <1>2, <2>3, FoldExists
  <2> QED
    BY <2>1, <2>2, <2>4 DEF IsFold
<1>7. ASSUME NEW k \in 1 .. n
      PROVE  step[k][f[k - 1]] = IF k \in kept THEN try_add_edge(f[k - 1], es[k]) ELSE f[k - 1]
  <2>1. k - 1 \in 0 .. n
    BY <1>2
  <2>2. f[k - 1] \in Graphs
    BY <1>6, <2>1
  <2> QED
    BY <1>3, <2>2
<1>8. ASSUME NEW k \in 0 .. n
      PROVE  f[k] = IF k = 0 THEN New ELSE IF k \in kept THEN try_add_edge(f[k - 1], es[k]) ELSE f[k - 1]
  <2>1. k # 0 => k \in 1 .. n
    BY <1>2
  <2>2. f[k] = IF k = 0 THEN New ELSE step[k][f[k - 1]]
    BY <1>6
  <2> QED
    BY <1>7, <2>1, <2>2
<1>9. \E h : h = [k \in 0 .. n |-> IF k = 0 THEN New
                                   ELSE IF k \in kept THEN try_add_edge(h[k - 1], es[k]) ELSE h[k - 1]]
  <2>1. f = [k \in 0 .. n |-> IF k = 0 THEN New
                              ELSE IF k \in kept THEN try_add_edge(f[k - 1], es[k]) ELSE f[k - 1]]
    BY <1>6, <1>8
  <2> QED
    BY <2>1
<1>10. PICK h : /\ h = [k \in 0 .. n |-> IF k = 0 THEN New
                                         ELSE IF k \in kept THEN try_add_edge(h[k - 1], es[k]) ELSE h[k - 1]]
                /\ rebuild_indexes(es, kept) = h[n]
  <2>1. PICK h : h = CHOOSE f0 : f0 = [k \in 0 .. n |-> IF k = 0 THEN New
                                                        ELSE IF k \in kept THEN try_add_edge(f0[k - 1], es[k])
                                                        ELSE f0[k - 1]]
    OBVIOUS
  <2>2. h = [k \in 0 .. n |-> IF k = 0 THEN New
                              ELSE IF k \in kept THEN try_add_edge(h[k - 1], es[k]) ELSE h[k - 1]]
    BY <1>9, <2>1
  <2>3. rebuild_indexes(es, kept) = h[n]
    BY <2>1 DEF rebuild_indexes
  <2> QED
    BY <2>2, <2>3
<1>11. h[0] = New /\ \A k \in 1 .. n : h[k] = IF k \in kept THEN try_add_edge(h[k - 1], es[k]) ELSE h[k - 1]
  <2>1. \A k \in 0 .. n : h[k] = IF k = 0 THEN New
                                 ELSE IF k \in kept THEN try_add_edge(h[k - 1], es[k]) ELSE h[k - 1]
    BY <1>10
  <2>2. 0 \in 0 .. n /\ \A k \in 1 .. n : k \in 0 .. n /\ k # 0
    BY <1>2
  <2> QED
    BY <2>1, <2>2
<1>12. h \in [0 .. n -> Graphs]
  <2>1. PICK S : S = [k \in 0 .. n |-> Graphs]
    OBVIOUS
  <2>2. ASSUME NEW m \in 0 .. n PROVE h[m] \in Graphs
    <3>1. h[0] \in S[0]
      BY <1>2, <1>5, <1>11, <2>1
    <3>2. ASSUME NEW k \in 1 .. m, h[k - 1] \in S[k - 1] PROVE h[k] \in S[k]
      <4>1. k \in 1 .. n /\ k - 1 \in 0 .. n /\ k \in 0 .. n
        BY <1>2, <2>2
      <4>2. h[k - 1] \in Graphs
        BY <2>1, <3>2, <4>1
      <4>3. h[k] \in Graphs
        BY <1>2, <1>11, <4>1, <4>2, AddType
      <4> QED
        BY <2>1, <4>1, <4>3
    <3>3. m \in Nat
      BY <1>2
    <3>4. h[m] \in S[m]
      BY <3>1, <3>2, <3>3, FoldKeeps
    <3> QED
      BY <2>1, <3>4
  <2> QED
    BY <1>10, <2>2
<1> QED
  BY <1>10, <1>11, <1>12 DEF Rebuilds

LEMMA RebuildType ==
  ASSUME NEW es \in Seq(Edges), NEW kept
  PROVE  rebuild_indexes(es, kept) \in Graphs
<1>1. PICK n : n = Len(es)
  OBVIOUS
<1>2. n \in 0 .. n
  BY <1>1
<1>3. PICK f : Rebuilds(f, es, kept, n) /\ rebuild_indexes(es, kept) = f[n]
  BY <1>1, RebuildSteps
<1> QED
  BY <1>2, <1>3 DEF Rebuilds

\* Rebuilding gives a graph in step; it has all the edges if their triples differ.
LEMMA RebuildGood ==
  ASSUME NEW es \in Seq(Edges), NEW kept \in SUBSET DOMAIN es,
         \A i, j \in kept : es[i].triple = es[j].triple => i = j
  PROVE  /\ Good(rebuild_indexes(es, kept))
         /\ EdgesOf(rebuild_indexes(es, kept)) = {es[n] : n \in kept}
<1>1. PICK n : n = Len(es)
  OBVIOUS
<1>2. n \in Nat /\ DOMAIN es = 1 .. n /\ \A k \in 1 .. n : es[k] \in Edges
  BY <1>1
<1>3. PICK f \in [0 .. n -> Graphs] :
           /\ f[0] = New /\ rebuild_indexes(es, kept) = f[n]
           /\ \A k \in 1 .. n : f[k] = IF k \in kept THEN try_add_edge(f[k - 1], es[k]) ELSE f[k - 1]
  <2>1. PICK f : Rebuilds(f, es, kept, n) /\ rebuild_indexes(es, kept) = f[n]
    BY <1>1, RebuildSteps
  <2> QED
    BY <2>1 DEF Rebuilds
<1>4. PICK S : S = [k \in 0 .. n |->
                      {g \in Graphs : /\ Good(g)
                                      /\ EdgesOf(g) \subseteq {es[m] : m \in kept}
                                      /\ \A m \in kept : m <= k => es[m].triple \in g.edge_set}]
  OBVIOUS
<1>5. f[0] \in S[0]
  <2>1. 0 \in 0 .. n /\ \A m \in kept : ~ (m <= 0)
    BY <1>2
  <2> QED
    BY <1>3, <1>4, <2>1, NewGood DEF Good
<1>6. ASSUME NEW k \in 1 .. n, f[k - 1] \in S[k - 1] PROVE f[k] \in S[k]
  <2>1. k \in 0 .. n /\ k - 1 \in 0 .. n /\ \A m \in kept : m \in Nat /\ (m <= k => m <= k - 1 \/ m = k)
    BY <1>2
  <2>2. PICK g : g = f[k - 1]
    OBVIOUS
  <2>3. /\ g \in Graphs /\ Good(g) /\ EdgesOf(g) \subseteq {es[m] : m \in kept}
        /\ \A m \in kept : m <= k - 1 => es[m].triple \in g.edge_set
    BY <1>4, <1>6, <2>1, <2>2
  <2>4. CASE k \notin kept
    <3>1. f[k] = g /\ \A m \in kept : m <= k => m <= k - 1
      BY <1>3, <2>1, <2>2, <2>4
    <3> QED
      BY <1>4, <2>1, <2>3, <3>1
  <2>5. CASE k \in kept
    <3>1. f[k] = try_add_edge(g, es[k]) /\ es[k] \in Edges
      BY <1>2, <1>3, <2>2, <2>5
    <3>2. PICK h : h = try_add_edge(g, es[k])
      OBVIOUS
    <3>3. Good(h) /\ EdgesOf(h) \subseteq {es[m] : m \in kept}
      BY <2>3, <2>5, <3>1, <3>2, AddGood
    <3>4. g.edge_set \subseteq h.edge_set /\ es[k].triple \in h.edge_set
      BY <2>3, <3>1, <3>2, AddTriple
    <3>5. \A m \in kept : m <= k => es[m].triple \in h.edge_set
      BY <2>1, <2>3, <3>4
    <3> QED
      BY <1>4, <2>1, <3>1, <3>2, <3>3, <3>5 DEF Good
  <2> QED
    BY <2>4, <2>5
<1>7. f[n] \in S[n]
  BY <1>2, <1>5, <1>6, FoldKeeps
<1>8. PICK g : g = f[n]
  OBVIOUS
<1>9. /\ Good(g) /\ EdgesOf(g) \subseteq {es[m] : m \in kept}
      /\ \A m \in kept : es[m].triple \in g.edge_set
  BY <1>2, <1>4, <1>7, <1>8
<1>10. ASSUME NEW m \in kept PROVE es[m] \in EdgesOf(g)
  <2>1. PICK i \in DOMAIN g.edges : g.edges[i].triple = es[m].triple
    BY <1>9 DEF Good, IndexesAgree
  <2>2. g.edges[i] \in EdgesOf(g)
    BY DEF EdgesOf
  <2>3. PICK j \in kept : g.edges[i] = es[j]
    BY <1>9, <2>2
  <2> QED
    BY <2>1, <2>2, <2>3
<1> QED
  BY <1>3, <1>8, <1>9, <1>10

LEMMA RemoveGood ==
  ASSUME NEW g, Good(g), NEW t \in Triples
  PROVE  /\ Good(remove_edge(g, t))
         /\ EdgesOf(remove_edge(g, t)) = {x \in EdgesOf(g) : x.triple # t}
<1>1. CASE t \notin g.edge_set
  <2>1. \A x \in EdgesOf(g) : x.triple # t
    BY <1>1 DEF EdgesOf, Good, IndexesAgree
  <2> QED
    BY <1>1, <2>1 DEF remove_edge
<1>2. CASE t \in g.edge_set
  <2>1. PICK kept : kept = {n \in DOMAIN g.edges : g.edges[n].triple # t}
    OBVIOUS
  <2>2. remove_edge(g, t) = rebuild_indexes(g.edges, kept)
    BY <1>2, <2>1 DEF remove_edge
  <2>3. g.edges \in Seq(Edges)
    BY GraphTypes DEF Good
  <2>4. kept \in SUBSET DOMAIN g.edges /\ \A i, j \in kept : g.edges[i].triple = g.edges[j].triple => i = j
    BY <2>1 DEF Good, IndexesAgree
  <2>5. Good(rebuild_indexes(g.edges, kept)) /\ EdgesOf(rebuild_indexes(g.edges, kept)) = {g.edges[n] : n \in kept}
    BY <2>3, <2>4, RebuildGood
  <2>6. {g.edges[n] : n \in kept} = {x \in EdgesOf(g) : x.triple # t}
    BY <2>1 DEF EdgesOf
  <2> QED
    BY <2>2, <2>5, <2>6
<1> QED
  BY <1>1, <1>2

-----------------------------------------------------------------------------
(* Merge *)

LEMMA TriplesDiffer ==
  ASSUME NEW g, Good(g)
  PROVE  /\ g.edge_set = {x.triple : x \in EdgesOf(g)}
         /\ \A x, y \in EdgesOf(g) : x.triple = y.triple => x = y
         /\ EdgesOf(g) \subseteq Edges
BY GraphTypes DEF Good, IndexesAgree, EdgesOf

\* What merging one edge makes of a set of edges.
MergedInto(E, strategy, edge) ==
  {x \in E : x.triple = edge.triple => ~ Higher(strategy, edge, x)}
  \cup {y \in {edge} : \A x \in E : x.triple = edge.triple => Higher(strategy, edge, x)}

LEMMA MergedGood ==
  ASSUME NEW g, Good(g), NEW strategy, NEW edge \in Edges
  PROVE  /\ Good(merged(strategy, g, edge))
         /\ EdgesOf(merged(strategy, g, edge)) = MergedInto(EdgesOf(g), strategy, edge)
<1>1. PICK t : t = edge.triple
  OBVIOUS
<1>2. PICK E : E = EdgesOf(g)
  OBVIOUS
<1>3. /\ t \in Triples /\ g.edge_set = {x.triple : x \in E}
      /\ \A x, y \in E : x.triple = y.triple => x = y
  BY <1>1, <1>2, EdgeTypes, TriplesDiffer
<1>4. CASE t \notin g.edge_set
  <2>1. merged(strategy, g, edge) = try_add_edge(g, edge)
    BY <1>1, <1>4 DEF merged
  <2>2. Good(try_add_edge(g, edge)) /\ EdgesOf(try_add_edge(g, edge)) = E \cup {edge}
    BY <1>1, <1>2, <1>4, AddGood
  <2>3. \A x \in E : x.triple # t
    BY <1>3, <1>4
  <2>4. MergedInto(E, strategy, edge) = E \cup {edge}
    BY <1>1, <2>3 DEF MergedInto
  <2> QED
    BY <1>2, <2>1, <2>2, <2>4
<1>5. CASE t \in g.edge_set
  <2>1. PICK i : i = find_edge_index(g, t)
    OBVIOUS
  <2>2. i \in DOMAIN g.edges /\ g.edges[i].triple = t
    BY <1>3, <1>5, <2>1, FindRight
  <2>3. PICK old \in E : old = g.edges[i]
    BY <1>2, <2>2 DEF EdgesOf
  <2>4. old.triple = t /\ \A x \in E : x.triple = t => x = old
    BY <1>3, <2>2, <2>3
  <2>5. CASE ~ Higher(strategy, edge, old)
    <3>1. merged(strategy, g, edge) = g
      BY <1>1, <1>5, <2>1, <2>3, <2>5 DEF merged
    <3>2. MergedInto(E, strategy, edge) = E
      BY <1>1, <2>4, <2>5 DEF MergedInto
    <3> QED
      BY <1>2, <3>1, <3>2
  <2>6. CASE Higher(strategy, edge, old)
    <3>1. PICK h : h = remove_edge(g, t)
      OBVIOUS
    <3>2. merged(strategy, g, edge) = try_add_edge(h, edge)
      BY <1>1, <1>5, <2>1, <2>3, <2>6, <3>1 DEF merged
    <3>3. Good(h) /\ EdgesOf(h) = {x \in E : x.triple # t}
      BY <1>2, <1>3, <3>1, RemoveGood
    <3>4. t \notin h.edge_set
      BY <3>3, TriplesDiffer
    <3>5. Good(try_add_edge(h, edge)) /\ EdgesOf(try_add_edge(h, edge)) = {x \in E : x.triple # t} \cup {edge}
      BY <1>1, <3>3, <3>4, AddGood
    <3>6. MergedInto(E, strategy, edge) = {x \in E : x.triple # t} \cup {edge}
      BY <1>1, <2>4, <2>6 DEF MergedInto
    <3> QED
      BY <1>2, <3>2, <3>5, <3>6
  <2> QED
    BY <2>5, <2>6
<1> QED
  BY <1>4, <1>5

LEMMA MergedType ==
  ASSUME NEW g \in Graphs, NEW strategy, NEW edge \in Edges
  PROVE  merged(strategy, g, edge) \in Graphs
<1>1. remove_edge(g, edge.triple) \in Graphs
  BY GraphTypes, RebuildType DEF remove_edge
<1> QED
  BY <1>1, AddType DEF merged

\* The graphs that merge_graphs goes through, to the n-th edge.
Merges(f, strategy, g, es, n) ==
  /\ f \in [0 .. n -> Graphs]
  /\ f[0] = g
  /\ \A k \in 1 .. n : f[k] = merged(strategy, f[k - 1], es[k])

LEMMA MergeSteps ==
  ASSUME NEW es \in Seq(Edges), NEW strategy, NEW g \in Graphs, NEW n, n = Len(es)
  PROVE  \E f : Merges(f, strategy, g, es, n) /\ merge_graphs(strategy, g, es) = f[n]
<1>2. n \in Nat /\ \A k \in 1 .. n : es[k] \in Edges
  OBVIOUS
<1>3. PICK step : step = [k \in 1 .. n |-> [h \in Graphs |-> merged(strategy, h, es[k])]]
  OBVIOUS
<1>4. \A k \in 1 .. n : step[k] \in [Graphs -> Graphs]
  BY <1>2, <1>3, MergedType
<1>6. PICK f \in [0 .. n -> Graphs] : f = [k \in 0 .. n |-> IF k = 0 THEN g ELSE step[k][f[k - 1]]]
  <2>1. PICK U : U = Graphs
    OBVIOUS
  <2>2. PICK init \in U : init = g
    BY <2>1
  <2>3. \A k \in 1 .. n : step[k] \in [U -> U]
    BY <1>4, <2>1
  <2>4. PICK f \in [0 .. n -> U] : IsFold(f, init, step, n)
    BY <1>2, <2>3, FoldExists
  <2> QED
    BY <2>1, <2>2, <2>4 DEF IsFold
<1>7. ASSUME NEW k \in 1 .. n PROVE step[k][f[k - 1]] = merged(strategy, f[k - 1], es[k])
  <2>1. k - 1 \in 0 .. n
    BY <1>2
  <2>2. f[k - 1] \in Graphs
    BY <1>6, <2>1
  <2> QED
    BY <1>3, <2>2
<1>8. ASSUME NEW k \in 0 .. n PROVE f[k] = IF k = 0 THEN g ELSE merged(strategy, f[k - 1], es[k])
  <2>1. k # 0 => k \in 1 .. n
    BY <1>2
  <2>2. f[k] = IF k = 0 THEN g ELSE step[k][f[k - 1]]
    BY <1>6
  <2> QED
    BY <1>7, <2>1, <2>2
<1>9. \E h : h = [k \in 0 .. n |-> IF k = 0 THEN g ELSE merged(strategy, h[k - 1], es[k])]
  <2>1. f = [k \in 0 .. n |-> IF k = 0 THEN g ELSE merged(strategy, f[k - 1], es[k])]
    BY <1>6, <1>8
  <2> QED
    BY <2>1
<1>10. PICK h : /\ h = [k \in 0 .. n |-> IF k = 0 THEN g ELSE merged(strategy, h[k - 1], es[k])]
                /\ merge_graphs(strategy, g, es) = h[n]
  <2>1. PICK h : h = CHOOSE f0 : f0 = [k \in 0 .. n |-> IF k = 0 THEN g ELSE merged(strategy, f0[k - 1], es[k])]
    OBVIOUS
  <2>2. h = [k \in 0 .. n |-> IF k = 0 THEN g ELSE merged(strategy, h[k - 1], es[k])]
    BY <1>9, <2>1
  <2>3. merge_graphs(strategy, g, es) = h[n]
    BY <2>1 DEF merge_graphs
  <2> QED
    BY <2>2, <2>3
<1>11. h[0] = g /\ \A k \in 1 .. n : h[k] = merged(strategy, h[k - 1], es[k])
  <2>1. \A k \in 0 .. n : h[k] = IF k = 0 THEN g ELSE merged(strategy, h[k - 1], es[k])
    BY <1>10
  <2>2. 0 \in 0 .. n /\ \A k \in 1 .. n : k \in 0 .. n /\ k # 0
    BY <1>2
  <2> QED
    BY <2>1, <2>2
<1>12. h \in [0 .. n -> Graphs]
  <2>1. PICK S : S = [k \in 0 .. n |-> Graphs]
    OBVIOUS
  <2>2. ASSUME NEW m \in 0 .. n PROVE h[m] \in Graphs
    <3>1. h[0] \in S[0]
      BY <1>2, <1>11, <2>1
    <3>2. ASSUME NEW k \in 1 .. m, h[k - 1] \in S[k - 1] PROVE h[k] \in S[k]
      <4>1. k \in 1 .. n /\ k - 1 \in 0 .. n /\ k \in 0 .. n
        BY <1>2, <2>2
      <4>2. h[k - 1] \in Graphs
        BY <2>1, <3>2, <4>1
      <4>3. h[k] \in Graphs
        BY <1>2, <1>11, <4>1, <4>2, MergedType
      <4> QED
        BY <2>1, <4>1, <4>3
    <3>3. m \in Nat
      BY <1>2
    <3>4. h[m] \in S[m]
      BY <3>1, <3>2, <3>3, FoldKeeps
    <3> QED
      BY <2>1, <3>4
  <2> QED
    BY <1>10, <2>2
<1> QED
  BY <1>10, <1>11, <1>12 DEF Merges

\* What merging the edges at some positions makes of a set of edges.
AllMerged(E, strategy, es, N) ==
  {x \in E : \A m \in N : es[m].triple = x.triple => ~ Higher(strategy, es[m], x)}
  \cup {es[m] : m \in {i \in N : \A x \in E : x.triple = es[i].triple => Higher(strategy, es[i], x)}}

LEMMA MergeGood ==
  ASSUME NEW g, Good(g), NEW strategy, NEW es \in Seq(Edges),
         \A i, j \in DOMAIN es : es[i].triple = es[j].triple => i = j
  PROVE  /\ Good(merge_graphs(strategy, g, es))
         /\ EdgesOf(merge_graphs(strategy, g, es)) = AllMerged(EdgesOf(g), strategy, es, DOMAIN es)
<1>1. PICK n : n = Len(es)
  OBVIOUS
<1>2. n \in Nat /\ DOMAIN es = 1 .. n /\ \A k \in 1 .. n : es[k] \in Edges
  BY <1>1
<1>3. PICK f : Merges(f, strategy, g, es, n) /\ merge_graphs(strategy, g, es) = f[n]
  BY <1>1, MergeSteps DEF Good
<1>4. PICK E : E = EdgesOf(g)
  OBVIOUS
<1>5. PICK S : S = [k \in 0 .. n |-> {h \in Graphs : Good(h) /\ EdgesOf(h) = AllMerged(E, strategy, es, 1 .. k)}]
  OBVIOUS
<1>6. f[0] \in S[0]
  <2>1. f[0] = g /\ g \in Graphs
    BY <1>3 DEF Merges, Good
  <2>2. 0 \in 0 .. n /\ 1 .. 0 = {}
    BY <1>2
  <2>3. AllMerged(E, strategy, es, {}) = E
    BY DEF AllMerged
  <2> QED
    BY <1>4, <1>5, <2>1, <2>2, <2>3
<1>7. ASSUME NEW k \in 1 .. n, f[k - 1] \in S[k - 1] PROVE f[k] \in S[k]
  <2>1. k \in 0 .. n /\ k - 1 \in 0 .. n
    BY <1>2
  <2>2. PICK N : N = 1 .. (k - 1)
    OBVIOUS
  <2>3. 1 .. k = N \cup {k} /\ k \notin N /\ N \subseteq DOMAIN es /\ k \in DOMAIN es
    BY <1>2, <2>2
  <2>4. PICK h : h = f[k - 1]
    OBVIOUS
  <2>5. Good(h) /\ EdgesOf(h) = AllMerged(E, strategy, es, N)
    BY <1>5, <1>7, <2>1, <2>2, <2>4
  <2>6. f[k] = merged(strategy, h, es[k]) /\ es[k] \in Edges
    BY <1>2, <1>3, <2>4 DEF Merges
  <2>7. Good(f[k]) /\ EdgesOf(f[k]) = MergedInto(AllMerged(E, strategy, es, N), strategy, es[k])
    BY <2>5, <2>6, MergedGood
  <2>8. MergedInto(AllMerged(E, strategy, es, N), strategy, es[k]) = AllMerged(E, strategy, es, N \cup {k})
    <3>1. \A m \in N : es[m].triple # es[k].triple
      BY <2>3
    <3>2. PICK A : A = AllMerged(E, strategy, es, N)
      OBVIOUS
    <3>3. \A x : x \in A /\ x.triple = es[k].triple <=> x \in E /\ x.triple = es[k].triple
      BY <3>1, <3>2 DEF AllMerged
    <3>4. ASSUME NEW x PROVE x \in MergedInto(A, strategy, es[k]) <=> x \in AllMerged(E, strategy, es, N \cup {k})
      <4>1. x \in MergedInto(A, strategy, es[k])
            <=> \/ x \in A /\ (x.triple = es[k].triple => ~ Higher(strategy, es[k], x))
                \/ x = es[k] /\ \A y \in E : y.triple = es[k].triple => Higher(strategy, es[k], y)
        BY <3>3 DEF MergedInto
      <4>2. x \in AllMerged(E, strategy, es, N \cup {k})
            <=> \/ x \in E /\ \A m \in N \cup {k} : es[m].triple = x.triple => ~ Higher(strategy, es[m], x)
                \/ \E m \in N \cup {k} : /\ x = es[m]
                                         /\ \A y \in E : y.triple = es[m].triple => Higher(strategy, es[m], y)
        BY DEF AllMerged
      <4>3. x \in A
            <=> \/ x \in E /\ \A m \in N : es[m].triple = x.triple => ~ Higher(strategy, es[m], x)
                \/ \E m \in N : x = es[m] /\ \A y \in E : y.triple = es[m].triple => Higher(strategy, es[m], y)
        BY <3>2 DEF AllMerged
      <4> QED
        BY <3>1, <4>1, <4>2, <4>3
    <3> QED
      BY <3>2, <3>4 DEF MergedInto, AllMerged
  <2>9. f[k] \in Graphs
    BY <2>7 DEF Good
  <2> QED
    BY <1>5, <2>1, <2>3, <2>7, <2>8, <2>9
<1>8. f[n] \in S[n]
  BY <1>2, <1>6, <1>7, FoldKeeps
<1> QED
  BY <1>2, <1>3, <1>4, <1>5, <1>8

-----------------------------------------------------------------------------
(* The calls *)

LEMMA OthersAreGraphs ==
  ASSUME NEW es \in Others
  PROVE  /\ es \in Seq(Edges)
         /\ \A i, j \in DOMAIN es : es[i].triple = es[j].triple => i = j
<1>1. PICK n \in 0 .. MaxOther : es \in [1 .. n -> Edges]
  BY DEF Others
<1>2. n \in Nat
  BY GraphAssumption
<1> QED
  BY <1>1, <1>2 DEF Others

\* Deduplicating gives the same edges, in any order.
LEMMA DeduplicateGood ==
  ASSUME NEW g, Good(g), NEW f \in [DOMAIN g.edges -> DOMAIN g.edges],
         \A i, j \in DOMAIN g.edges : f[i] = f[j] => i = j,
         NEW es, es = [i \in DOMAIN g.edges |-> g.edges[f[i]]]
  PROVE  /\ Good(rebuild_indexes(es, DOMAIN g.edges))
         /\ EdgesOf(rebuild_indexes(es, DOMAIN g.edges)) = EdgesOf(g)
<1>1. PICK P : P = DOMAIN g.edges
  OBVIOUS
<1>2. PICK n : n = Len(g.edges)
  OBVIOUS
<1>3. n \in Nat /\ P = 1 .. n /\ \A i \in P : g.edges[i] \in Edges
  BY <1>1, <1>2, GraphTypes DEF Good
<1>4. es \in Seq(Edges) /\ DOMAIN es = P
  BY <1>1, <1>3
<1>5. \A i, j \in P : es[i].triple = es[j].triple => i = j
  <2>1. \A i, j \in P : g.edges[i].triple = g.edges[j].triple => i = j
    BY <1>1 DEF Good, IndexesAgree
  <2> QED
    BY <1>1, <2>1
<1>6. Good(rebuild_indexes(es, P)) /\ EdgesOf(rebuild_indexes(es, P)) = {es[i] : i \in P}
  BY <1>4, <1>5, RebuildGood
<1>7. ASSUME NEW j \in P PROVE \E i \in P : f[i] = j
  <2>1. IsFiniteSet(P)
    BY <1>3, FS_Interval
  <2>2. f \in Injection(P, P)
    BY <1>1 DEF Injection, IsInjective
  <2>3. f \in Surjection(P, P)
    BY <2>1, <2>2, FS_Injection
  <2> QED
    BY <2>3 DEF Surjection
<1>8. {es[i] : i \in P} = EdgesOf(g)
  BY <1>1, <1>7 DEF EdgesOf
<1> QED
  BY <1>1, <1>6, <1>8

LEMMA CallsGood ==
  ASSUME Good(graph), Next
  PROVE  Good(graph')
<1>1. ASSUME NEW edge \in Edges, AddEdge(edge) PROVE Good(graph')
  BY <1>1, AddGood DEF AddEdge, Becomes
<1>2. ASSUME NEW edge \in Edges, InsertEdge(edge) PROVE Good(graph')
  BY <1>2, InsertGood DEF InsertEdge, Becomes
<1>3. ASSUME NEW t \in Triples, RemoveEdge(t) PROVE Good(graph')
  BY <1>3, RemoveGood DEF RemoveEdge, Becomes
<1>4. ASSUME Deduplicate PROVE Good(graph')
  <2>1. PICK f \in [DOMAIN graph.edges -> DOMAIN graph.edges] :
          /\ \A i, j \in DOMAIN graph.edges : f[i] = f[j] => i = j
          /\ graph' = rebuild_indexes([i \in DOMAIN graph.edges |-> graph.edges[f[i]]], DOMAIN graph.edges)
    BY <1>4 DEF Deduplicate, Becomes
  <2> QED
    BY <2>1, DeduplicateGood
<1>5. ASSUME AskNodes PROVE Good(graph')
  BY <1>5, EnsureGood DEF AskNodes, Becomes
<1>6. ASSUME NEW es \in Others, NEW s, Merge(s, es) PROVE Good(graph')
  BY <1>6, OthersAreGraphs, MergeGood DEF Merge, Becomes
<1> QED
  BY <1>1, <1>2, <1>3, <1>4, <1>5, <1>6 DEF Next

\* After any calls the indexes and the cached nodes follow the vector, each triple is in it
\* once, and everything keeps its type (push_edge, rebuild_indexes, ensure_nodes).
THEOREM GraphAlwaysInStep == Spec => []GraphInStep
<1>1. Init => Good(graph)
  BY NewGood DEF Init
<1>2. Good(graph) /\ [Next]_vars => Good(graph)'
  <2>1. Good(graph) /\ Next => Good(graph')
    BY CallsGood
  <2>2. Good(graph) /\ UNCHANGED vars => Good(graph')
    BY DEF vars
  <2>3. Good(graph') <=> Good(graph)'
    BY DEF Good, IndexesAgree, InStep, NodesFresh, NodesOf, Graphs
  <2> QED
    BY <2>1, <2>2, <2>3
<1>3. Good(graph) => GraphInStep
  BY DEF Good, GraphInStep, TypeOK
<1> QED
  BY <1>1, <1>2, <1>3, PTL DEF Spec

-----------------------------------------------------------------------------
(* The graph is the map of its triples *)

\* What get_edge answers are the payloads of the edges.
LEMMA AnswersOf ==
  ASSUME NEW g, Good(g)
  PROVE  /\ DOMAIN Answers(g) = {x.triple : x \in EdgesOf(g)}
         /\ \A x \in EdgesOf(g) : Answers(g)[x.triple] = x.payload
         /\ Answers(g) = [t \in DOMAIN Answers(g) |-> Answers(g)[t]]
<1>1. PICK a : a = Answers(g)
  OBVIOUS
<1>2. a = [t \in g.edge_set |-> g.edges[find_edge_index(g, t)].payload]
  BY <1>1 DEF Answers
<1>3. DOMAIN a = {x.triple : x \in EdgesOf(g)} /\ a = [t \in DOMAIN a |-> a[t]]
  BY <1>2, TriplesDiffer
<1>4. ASSUME NEW x \in EdgesOf(g) PROVE a[x.triple] = x.payload
  <2>1. x.triple \in g.edge_set /\ x.triple \in Triples
    BY TriplesDiffer, EdgeTypes
  <2>2. PICK i : i = find_edge_index(g, x.triple)
    OBVIOUS
  <2>3. i \in DOMAIN g.edges /\ g.edges[i].triple = x.triple
    BY <2>1, <2>2, FindRight
  <2>4. g.edges[i] = x
    BY <2>3, TriplesDiffer DEF EdgesOf
  <2> QED
    BY <1>2, <2>1, <2>2, <2>4
<1> QED
  BY <1>1, <1>3, <1>4

\* A function that gives the edges their payloads is what get_edge answers.
LEMMA AnswersAre ==
  ASSUME NEW g, Good(g), NEW D, NEW m, m = [t \in D |-> m[t]], D = {x.triple : x \in EdgesOf(g)},
         \A x \in EdgesOf(g) : m[x.triple] = x.payload
  PROVE  Answers(g) = m
<1>1. PICK a : a = Answers(g)
  OBVIOUS
<1>2. a = [t \in D |-> a[t]] /\ \A x \in EdgesOf(g) : a[x.triple] = x.payload
  BY <1>1, AnswersOf
<1>3. \A t \in D : a[t] = m[t]
  BY <1>2
<1> QED
  BY <1>1, <1>2, <1>3

LEMMA AnswersType ==
  ASSUME NEW g, Good(g)
  PROVE  Answers(g) \in UNION {[T -> Payloads] : T \in SUBSET Triples}
<1>1. PICK a : a = Answers(g)
  OBVIOUS
<1>2. PICK T : T = DOMAIN a
  OBVIOUS
<1>3. T \subseteq Triples /\ a = [t \in T |-> a[t]] /\ \A t \in T : a[t] \in Payloads
  <2>1. /\ T = {x.triple : x \in EdgesOf(g)} /\ a = [t \in T |-> a[t]]
        /\ \A x \in EdgesOf(g) : a[x.triple] = x.payload
    BY <1>1, <1>2, AnswersOf
  <2>2. \A x \in EdgesOf(g) : x.triple \in Triples /\ x.payload \in Payloads
    BY TriplesDiffer, EdgeTypes
  <2>3. \A t \in T : \E x \in EdgesOf(g) : x.triple = t
    BY <2>1
  <2> QED
    BY <2>1, <2>2, <2>3
<1>4. a \in [T -> Payloads]
  BY <1>3
<1> QED
  BY <1>1, <1>3, <1>4

LEMMA MapAdds ==
  ASSUME Good(graph), NEW edge \in Edges, AddEdge(edge)
  PROVE  Abstract!Next
<1>1. PICK a : a = Answers(graph)
  OBVIOUS
<1>2. PICK E : E = EdgesOf(graph)
  OBVIOUS
<1>3. PICK t \in Triples : t = edge.triple
  BY EdgeTypes
<1>4. PICK p \in Payloads : p = edge.payload
  BY EdgeTypes
<1>5. graph' = try_add_edge(graph, edge) /\ call' = <<"add", t, p>>
  BY <1>3, <1>4 DEF AddEdge, Becomes
<1>6. /\ DOMAIN a = {x.triple : x \in E} /\ a = [u \in DOMAIN a |-> a[u]]
      /\ \A x \in E : a[x.triple] = x.payload
      /\ graph.edge_set = DOMAIN a
  BY <1>1, <1>2, AnswersOf, TriplesDiffer
<1>7. PICK m : m = IF t \in DOMAIN a THEN a ELSE [u \in DOMAIN a \cup {t} |-> IF u = t THEN p ELSE a[u]]
  OBVIOUS
<1>8. Good(graph') /\ EdgesOf(graph') = E \cup (IF t \in DOMAIN a THEN {} ELSE {edge})
  BY <1>2, <1>3, <1>5, <1>6, AddGood
<1>9. Answers(graph') = m
  <2>1. CASE t \in DOMAIN a
    BY <1>6, <1>7, <1>8, <2>1, AnswersAre
  <2>2. CASE t \notin DOMAIN a
    <3>1. PICK D : D = DOMAIN a \cup {t}
      OBVIOUS
    <3>2. m = [u \in D |-> IF u = t THEN p ELSE a[u]]
      BY <1>7, <2>2, <3>1
    <3>3. m = [u \in D |-> m[u]]
      BY <3>2
    <3>4. EdgesOf(graph') = E \cup {edge}
      BY <1>8, <2>2
    <3>5. D = {x.triple : x \in EdgesOf(graph')}
      BY <1>3, <1>6, <3>1, <3>4
    <3>6. \A x \in EdgesOf(graph') : m[x.triple] = x.payload
      BY <1>3, <1>4, <1>6, <2>2, <3>1, <3>2, <3>4
    <3> QED
      BY <1>8, <3>3, <3>5, <3>6, AnswersAre
  <2> QED
    BY <2>1, <2>2
<1>10. Abstract!Add(t, p)
  BY <1>1, <1>5, <1>7, <1>9 DEF Abstract!Add, Abstract!With
<1> QED
  BY <1>10 DEF Abstract!Next

LEMMA MapInserts ==
  ASSUME Good(graph), NEW edge \in Edges, InsertEdge(edge)
  PROVE  Abstract!Next
<1>1. PICK a : a = Answers(graph)
  OBVIOUS
<1>2. PICK E : E = EdgesOf(graph)
  OBVIOUS
<1>3. PICK t \in Triples : t = edge.triple
  BY EdgeTypes
<1>4. PICK p \in Payloads : p = edge.payload
  BY EdgeTypes
<1>5. graph' = insert_edge(graph, edge) /\ call' = <<"insert", t, p>>
  BY <1>3, <1>4 DEF InsertEdge, Becomes
<1>6. DOMAIN a = {x.triple : x \in E} /\ \A x \in E : a[x.triple] = x.payload
  BY <1>1, <1>2, AnswersOf
<1>7. PICK D : D = DOMAIN a \cup {t}
  OBVIOUS
<1>8. PICK m : m = [u \in D |-> IF u = t THEN p ELSE a[u]]
  OBVIOUS
<1>9. Good(graph') /\ EdgesOf(graph') = {x \in E : x.triple # t} \cup {edge}
  BY <1>2, <1>3, <1>5, InsertGood
<1>10. m = [u \in D |-> m[u]]
  BY <1>8
<1>11. D = {x.triple : x \in EdgesOf(graph')}
  BY <1>3, <1>6, <1>7, <1>9
<1>12. \A x \in EdgesOf(graph') : m[x.triple] = x.payload
  BY <1>3, <1>4, <1>6, <1>7, <1>8, <1>9
<1>13. Answers(graph') = m
  BY <1>9, <1>10, <1>11, <1>12, AnswersAre
<1>14. Abstract!Insert(t, p)
  BY <1>1, <1>5, <1>7, <1>8, <1>13 DEF Abstract!Insert, Abstract!With
<1> QED
  BY <1>14 DEF Abstract!Next

LEMMA MapRemoves ==
  ASSUME Good(graph), NEW t \in Triples, RemoveEdge(t)
  PROVE  Abstract!Next
<1>1. PICK a : a = Answers(graph)
  OBVIOUS
<1>2. PICK E : E = EdgesOf(graph)
  OBVIOUS
<1>5. graph' = remove_edge(graph, t) /\ call' = <<"remove", t>>
  BY DEF RemoveEdge, Becomes
<1>6. DOMAIN a = {x.triple : x \in E} /\ \A x \in E : a[x.triple] = x.payload
  BY <1>1, <1>2, AnswersOf
<1>7. PICK D : D = DOMAIN a \ {t}
  OBVIOUS
<1>8. PICK m : m = [u \in D |-> a[u]]
  OBVIOUS
<1>9. Good(graph') /\ EdgesOf(graph') = {x \in E : x.triple # t}
  BY <1>2, <1>5, RemoveGood
<1>10. m = [u \in D |-> m[u]]
  BY <1>8
<1>11. D = {x.triple : x \in EdgesOf(graph')}
  BY <1>6, <1>7, <1>9
<1>12. \A x \in EdgesOf(graph') : m[x.triple] = x.payload
  BY <1>6, <1>7, <1>8, <1>9
<1>13. Answers(graph') = m
  BY <1>9, <1>10, <1>11, <1>12, AnswersAre
<1>14. Abstract!Remove(t)
  BY <1>1, <1>5, <1>7, <1>8, <1>13 DEF Abstract!Remove
<1> QED
  BY <1>14 DEF Abstract!Next

LEMMA SameAnswers ==
  ASSUME NEW g, Good(g), NEW h, Good(h), EdgesOf(g) = EdgesOf(h)
  PROVE  Answers(g) = Answers(h)
<1>1. PICK m : m = Answers(h)
  OBVIOUS
<1>2. PICK D : D = DOMAIN m
  OBVIOUS
<1>3. m = [t \in D |-> m[t]] /\ D = {x.triple : x \in EdgesOf(g)} /\ \A x \in EdgesOf(g) : m[x.triple] = x.payload
  BY <1>1, <1>2, AnswersOf
<1>4. Answers(g) = m
  BY <1>3, AnswersAre
<1> QED
  BY <1>1, <1>4

LEMMA MapDeduplicates ==
  ASSUME Good(graph), Deduplicate
  PROVE  Abstract!Next
<1>1. PICK f \in [DOMAIN graph.edges -> DOMAIN graph.edges] :
        /\ \A i, j \in DOMAIN graph.edges : f[i] = f[j] => i = j
        /\ graph' = rebuild_indexes([i \in DOMAIN graph.edges |-> graph.edges[f[i]]], DOMAIN graph.edges)
        /\ call' = <<"deduplicate">>
  BY DEF Deduplicate, Becomes
<1>2. Good(graph') /\ EdgesOf(graph') = EdgesOf(graph)
  BY <1>1, DeduplicateGood
<1>3. Answers(graph') = Answers(graph)
  BY <1>2, SameAnswers
<1>4. Abstract!Deduplicate
  BY <1>1, <1>3 DEF Abstract!Deduplicate
<1> QED
  BY <1>4 DEF Abstract!Next

LEMMA MapNodes ==
  ASSUME Good(graph), AskNodes
  PROVE  Abstract!Next
<1>1. graph' = ensure_nodes(graph) /\ call' = <<"nodes">>
  BY DEF AskNodes, Becomes
<1>2. Good(graph') /\ EdgesOf(graph') = EdgesOf(graph)
  BY <1>1, EnsureGood
<1>3. Answers(graph') = Answers(graph)
  BY <1>2, SameAnswers
<1>4. Abstract!ListNodes
  BY <1>1, <1>3 DEF Abstract!ListNodes
<1> QED
  BY <1>4 DEF Abstract!Next

LEMMA HigherWins ==
  ASSUME NEW strategy, NEW new, NEW old
  PROVE  Higher(strategy, new, old) <=> Abstract!Wins(strategy, new.payload, old.payload)
BY DEF Higher, Abstract!Wins

LEMMA MapMerges ==
  ASSUME Good(graph), NEW es \in Others, NEW s \in {"Union", "MaxConfidence", "SourcePriority"}, Merge(s, es)
  PROVE  Abstract!Next
<1>1. PICK a : a = Answers(graph)
  OBVIOUS
<1>2. PICK E : E = EdgesOf(graph)
  OBVIOUS
<1>3. PICK b : b = Answers(rebuild_indexes(es, DOMAIN es))
  OBVIOUS
<1>4. es \in Seq(Edges) /\ \A i, j \in DOMAIN es : es[i].triple = es[j].triple => i = j
  BY OthersAreGraphs
<1>5. graph' = merge_graphs(s, graph, es) /\ call' = <<"merge", s, b>>
  BY <1>3 DEF Merge, Becomes
<1>6. DOMAIN a = {x.triple : x \in E} /\ \A x \in E : a[x.triple] = x.payload
  BY <1>1, <1>2, AnswersOf
<1>7. PICK N : N = DOMAIN es
  OBVIOUS
<1>8. /\ DOMAIN b = {es[i].triple : i \in N} /\ \A i \in N : b[es[i].triple] = es[i].payload
      /\ b \in Abstract!Maps
  <2>1. PICK g : g = rebuild_indexes(es, N)
    OBVIOUS
  <2>2. Good(g) /\ EdgesOf(g) = {es[i] : i \in N}
    BY <1>4, <1>7, <2>1, RebuildGood
  <2>3. /\ DOMAIN b = {x.triple : x \in EdgesOf(g)} /\ \A x \in EdgesOf(g) : b[x.triple] = x.payload
    BY <1>3, <1>7, <2>1, <2>2, AnswersOf
  <2>4. b \in Abstract!Maps
    BY <1>3, <1>7, <2>1, <2>2, AnswersType DEF Abstract!Maps
  <2> QED
    BY <2>2, <2>3, <2>4
<1>9. Good(graph') /\ EdgesOf(graph') = AllMerged(E, s, es, N)
  BY <1>2, <1>4, <1>5, <1>7, MergeGood
<1>10. PICK D : D = DOMAIN a \cup DOMAIN b
  OBVIOUS
<1>11. PICK m : m = [t \in D |-> IF t \notin DOMAIN a THEN b[t]
                                 ELSE IF t \in DOMAIN b /\ Abstract!Wins(s, b[t], a[t]) THEN b[t]
                                 ELSE a[t]]
  OBVIOUS
<1>12. /\ \A x, y \in E : x.triple = y.triple => x = y
       /\ \A i, j \in N : es[i].triple = es[j].triple => i = j
       /\ \A i \in N, x \in E : Higher(s, es[i], x) <=> Abstract!Wins(s, es[i].payload, x.payload)
  BY <1>2, <1>4, <1>7, TriplesDiffer, HigherWins
<1>13. ASSUME NEW x \in E PROVE x \in AllMerged(E, s, es, N) => m[x.triple] = x.payload
  <2> SUFFICES ASSUME x \in AllMerged(E, s, es, N) PROVE m[x.triple] = x.payload
    OBVIOUS
  <2>1. x.triple \in DOMAIN a /\ a[x.triple] = x.payload /\ x.triple \in D
    BY <1>6, <1>10
  <2>2. CASE x.triple \notin DOMAIN b
    BY <1>11, <2>1, <2>2
  <2>3. CASE x.triple \in DOMAIN b
    <3>1. PICK i \in N : es[i].triple = x.triple
      BY <1>8, <2>3
    <3>2. b[x.triple] = es[i].payload
      BY <1>8, <3>1
    <3>3. Higher(s, es[i], x) => es[i] = x
      BY <1>12, <3>1 DEF AllMerged
    <3>4. Abstract!Wins(s, b[x.triple], a[x.triple]) => b[x.triple] = a[x.triple]
      BY <1>12, <2>1, <3>2, <3>3
    <3> QED
      BY <1>11, <2>1, <3>4
  <2> QED
    BY <2>2, <2>3
<1>14. ASSUME NEW i \in N, \A x \in E : x.triple = es[i].triple => Higher(s, es[i], x)
       PROVE  m[es[i].triple] = es[i].payload
  <2>1. es[i].triple \in DOMAIN b /\ b[es[i].triple] = es[i].payload /\ es[i].triple \in D
    BY <1>8, <1>10
  <2>2. CASE es[i].triple \notin DOMAIN a
    BY <1>11, <2>1, <2>2
  <2>3. CASE es[i].triple \in DOMAIN a
    <3>1. PICK x \in E : x.triple = es[i].triple
      BY <1>6, <2>3
    <3>2. Abstract!Wins(s, es[i].payload, x.payload) /\ a[es[i].triple] = x.payload
      BY <1>6, <1>12, <1>14, <3>1
    <3> QED
      BY <1>11, <2>1, <3>2
  <2> QED
    BY <2>2, <2>3
<1>15. \A x \in AllMerged(E, s, es, N) : m[x.triple] = x.payload
  BY <1>13, <1>14 DEF AllMerged
<1>16. D = {x.triple : x \in AllMerged(E, s, es, N)}
  <2>1. ASSUME NEW x \in AllMerged(E, s, es, N) PROVE x.triple \in D
    BY <1>6, <1>8, <1>10 DEF AllMerged
  <2>2. ASSUME NEW t \in D PROVE \E x \in AllMerged(E, s, es, N) : x.triple = t
    <3>1. CASE \E x \in E : x.triple = t
      <4>1. PICK x \in E : x.triple = t
        BY <3>1
      <4>2. CASE \A i \in N : es[i].triple = t => ~ Higher(s, es[i], x)
        BY <4>1, <4>2 DEF AllMerged
      <4>3. CASE \E i \in N : es[i].triple = t /\ Higher(s, es[i], x)
        <5>1. PICK i \in N : es[i].triple = t /\ Higher(s, es[i], x)
          BY <4>3
        <5>2. \A y \in E : y.triple = es[i].triple => Higher(s, es[i], y)
          BY <1>12, <4>1, <5>1
        <5>3. es[i] \in AllMerged(E, s, es, N)
          BY <5>2 DEF AllMerged
        <5> QED
          BY <5>1, <5>3
      <4> QED
        BY <4>2, <4>3
    <3>2. CASE ~ \E x \in E : x.triple = t
      <4>1. PICK i \in N : es[i].triple = t
        BY <1>6, <1>8, <1>10, <3>2
      <4>2. es[i] \in AllMerged(E, s, es, N)
        BY <3>2, <4>1 DEF AllMerged
      <4> QED
        BY <4>1, <4>2
    <3> QED
      BY <3>1, <3>2
  <2> QED
    BY <2>1, <2>2
<1>17. m = [t \in D |-> m[t]]
  BY <1>11
<1>18. Answers(graph') = m
  BY <1>9, <1>15, <1>16, <1>17, AnswersAre
<1>19. Abstract!Merge(s, b)
  BY <1>1, <1>5, <1>10, <1>11, <1>18 DEF Abstract!Merge
<1> QED
  BY <1>8, <1>19 DEF Abstract!Next

\* The graph implements the map of its triples: each call, and merging with any strategy,
\* does to get_edge's answers what TripleMap says (try_add_edge, insert_edge, remove_edge,
\* deduplicate, merge_graphs_with_options).
THEOREM GraphIsTripleMap == Spec => IsTripleMap
<1>1. Init => Good(graph) /\ Abstract!Init
  <2> SUFFICES ASSUME Init PROVE Good(graph) /\ Abstract!Init
    OBVIOUS
  <2>1. graph = New /\ call = <<"new">> /\ Good(graph) /\ EdgesOf(graph) = {}
    BY NewGood DEF Init
  <2>2. PICK m : m = [t \in {} |-> 0]
    OBVIOUS
  <2>3. Answers(graph) = m
    <3>1. m = [t \in {} |-> m[t]] /\ {} = {x.triple : x \in EdgesOf(graph)}
      BY <2>1, <2>2
    <3> QED
      BY <2>1, <3>1, AnswersAre
  <2> QED
    BY <2>1, <2>2, <2>3 DEF Abstract!Init
<1>2. GraphInStep => Good(graph)
  BY DEF Good, GraphInStep, TypeOK
<1>3. Good(graph) /\ [Next]_vars => [Abstract!Next]_<<Answers(graph), call>>
  <2> SUFFICES ASSUME Good(graph), [Next]_vars PROVE [Abstract!Next]_<<Answers(graph), call>>
    OBVIOUS
  <2>1. CASE UNCHANGED vars
    BY <2>1 DEF vars, Answers, find_edge_index, Found
  <2>2. CASE Next
    <3>1. ASSUME NEW edge \in Edges, AddEdge(edge) PROVE Abstract!Next
      BY <3>1, MapAdds
    <3>2. ASSUME NEW edge \in Edges, InsertEdge(edge) PROVE Abstract!Next
      BY <3>2, MapInserts
    <3>3. ASSUME NEW t \in Triples, RemoveEdge(t) PROVE Abstract!Next
      BY <3>3, MapRemoves
    <3>4. ASSUME NEW es \in Others, NEW s \in {"Union", "MaxConfidence", "SourcePriority"}, Merge(s, es)
          PROVE  Abstract!Next
      BY <3>4, MapMerges
    <3>5. Abstract!Next
      BY <2>2, <3>1, <3>2, <3>3, <3>4, MapDeduplicates, MapNodes DEF Next
    <3> QED
      BY <3>5
  <2> QED
    BY <2>1, <2>2
<1> QED
  BY <1>1, <1>2, <1>3, GraphAlwaysInStep, PTL DEF Spec, IsTripleMap, Abstract!Spec

-----------------------------------------------------------------------------
(* The cheapest walks of PathSearch *)

\* A non-empty set of naturals has a least element.
LEMMA LeastIs ==
  ASSUME NEW S \in SUBSET Nat, S # {}
  PROVE  /\ Min(S) \in S
         /\ \A n \in S : Min(S) <= n
<1> DEFINE A == {m \in Nat : \A n \in S : m < n}
<1>1. \E x \in S : \A n \in S : x <= n
  <2> SUFFICES ASSUME ~ \E x \in S : \A n \in S : x <= n PROVE FALSE
    OBVIOUS
  <2>1. 0 \in A
    <3>1. 0 \notin S
      OBVIOUS
    <3> QED
      BY <3>1
  <2>2. ASSUME NEW m \in A \cap Nat PROVE m + 1 \in A
    <3>1. m + 1 \notin S
      <4> SUFFICES ASSUME m + 1 \in S PROVE FALSE
        OBVIOUS
      <4>1. PICK n \in S : ~ (m + 1 <= n)
        OBVIOUS
      <4>2. m < n
        OBVIOUS
      <4> QED
        BY <4>1, <4>2
    <3> QED
      BY <3>1
  <2> HIDE DEF A
  <2>3. Nat \subseteq A
    BY <2>1, <2>2, SetInduction
  <2>4. PICK n : n \in S
    OBVIOUS
  <2>5. n < n
    BY <2>3, <2>4 DEF A
  <2> QED
    BY <2>4, <2>5
<1> QED
  BY <1>1 DEF Min

\* A weighted graph, and the costs of walks in it.
Weighted(w) == DOMAIN w \subseteq Possible /\ w \in [DOMAIN w -> Weights]

Costs == [Nodes -> 0 .. Infinity]

LEMMA EdgeEnds ==
  ASSUME NEW w, Weighted(w), NEW e \in DOMAIN w
  PROVE  e \in Possible /\ e # NoEdge /\ e[1] \in Nodes /\ e[3] \in Nodes /\ w[e] \in Nat
BY PathAssumption DEF Weighted

\* One more edge makes no walk dearer, and the costs are those of walks.
LEMMA OneMoreIs ==
  ASSUME NEW w, Weighted(w), NEW c \in Costs
  PROVE  /\ OneMore(w, c) \in Costs
         /\ \A v \in Nodes : OneMore(w, c)[v] <= c[v]
         /\ \A e \in DOMAIN w : OneMore(w, c)[e[3]] <= c[e[1]] + w[e]
         /\ \A v \in Nodes : \/ OneMore(w, c)[v] = c[v]
                             \/ \E e \in DOMAIN w : e[3] = v /\ OneMore(w, c)[v] = c[e[1]] + w[e]
<1> DEFINE S(v) == {c[v]} \cup {c[e[1]] + w[e] : e \in {x \in DOMAIN w : x[3] = v}}
<1>1. ASSUME NEW v \in Nodes
      PROVE  /\ OneMore(w, c)[v] = Min(S(v))
             /\ Min(S(v)) \in S(v) /\ \A n \in S(v) : Min(S(v)) <= n
  <2>1. OneMore(w, c)[v] = Min(S(v))
    BY DEF OneMore
  <2>2. c[v] \in Nat /\ \A e \in DOMAIN w : c[e[1]] + w[e] \in Nat
    BY EdgeEnds, PathAssumption DEF Costs
  <2>3. S(v) \in SUBSET Nat /\ S(v) # {}
    BY <2>2
  <2> HIDE DEF S
  <2> QED
    BY <2>1, <2>3, LeastIs
<1>2. ASSUME NEW v \in Nodes
      PROVE  /\ OneMore(w, c)[v] <= c[v] /\ OneMore(w, c)[v] \in 0 .. Infinity
             /\ \/ OneMore(w, c)[v] = c[v]
                \/ \E e \in DOMAIN w : e[3] = v /\ OneMore(w, c)[v] = c[e[1]] + w[e]
  <2>1. c[v] \in 0 .. Infinity /\ \A e \in DOMAIN w : c[e[1]] + w[e] \in Nat
    BY EdgeEnds, PathAssumption DEF Costs
  <2>2. Min(S(v)) <= c[v]
    BY <1>1
  <2>3. \/ Min(S(v)) = c[v]
        \/ \E e \in DOMAIN w : e[3] = v /\ Min(S(v)) = c[e[1]] + w[e]
    <3>1. PICK m \in S(v) : m = Min(S(v))
      BY <1>1
    <3>2. m = c[v] \/ \E e \in DOMAIN w : e[3] = v /\ m = c[e[1]] + w[e]
      OBVIOUS
    <3> HIDE DEF S
    <3> QED
      BY <3>1, <3>2
  <2>4. Min(S(v)) \in Nat
    BY <2>1, <2>3, PathAssumption
  <2> HIDE DEF S
  <2> QED
    BY <1>1, <2>1, <2>2, <2>3, <2>4, PathAssumption
<1>3. ASSUME NEW e \in DOMAIN w PROVE OneMore(w, c)[e[3]] <= c[e[1]] + w[e]
  <2>1. e[3] \in Nodes /\ c[e[1]] + w[e] \in S(e[3])
    BY EdgeEnds
  <2> HIDE DEF S
  <2> QED
    BY <1>1, <2>1
<1>4. OneMore(w, c) \in Costs
  BY <1>2 DEF OneMore, Costs
<1> QED
  BY <1>2, <1>3, <1>4

\* The costs before the first edge.
AtOnce(from) == [v \in Nodes |-> IF v = from THEN 0 ELSE Infinity]

IsCosts(f, w, from, n) ==
  f = [m \in 0 .. n |-> IF m = 0 THEN AtOnce(from) ELSE OneMore(w, f[m - 1])]

\* Two such functions agree where both have a value.
LEMMA CostsAgree ==
  ASSUME NEW w, NEW from, NEW m \in Nat, NEW n \in Nat, m <= n,
         NEW f, IsCosts(f, w, from, m), NEW g, IsCosts(g, w, from, n)
  PROVE  f[m] = g[m]
<1> DEFINE A == {k \in Nat : k <= m => f[k] = g[k]}
<1>1. 0 \in A
  BY DEF IsCosts
<1>2. ASSUME NEW k \in A \cap Nat PROVE k + 1 \in A
  <2> SUFFICES ASSUME k + 1 <= m PROVE f[k + 1] = g[k + 1]
    OBVIOUS
  <2>1. k + 1 \in 0 .. m /\ k + 1 \in 0 .. n /\ k + 1 # 0 /\ (k + 1) - 1 = k /\ f[k] = g[k]
    OBVIOUS
  <2> HIDE DEF A
  <2>2. f[k + 1] = OneMore(w, f[k]) /\ g[k + 1] = OneMore(w, g[k])
    BY <2>1 DEF IsCosts
  <2> QED
    BY <2>1, <2>2
<1> HIDE DEF A
<1>3. m \in A
  BY <1>1, <1>2, SetInduction
<1> QED
  BY <1>3 DEF A

\* CostWithin has a value for every length, and each is one more edge than the last.
LEMMA CostFunction ==
  ASSUME NEW w, Weighted(w), NEW from \in Nodes, NEW n \in Nat
  PROVE  \E f \in [0 .. n -> Costs] : IsCosts(f, w, from, n) /\ f[n] = CostWithin(w, from, n)
<1>1. AtOnce(from) \in Costs
  BY PathAssumption DEF AtOnce, Costs
<1>2. PICK step : step = [k \in 1 .. n |-> [c \in Costs |-> OneMore(w, c)]]
  OBVIOUS
<1>3. \A k \in 1 .. n : step[k] \in [Costs -> Costs] /\ \A c \in Costs : step[k][c] = OneMore(w, c)
  BY <1>2, OneMoreIs
<1>4. PICK f \in [0 .. n -> Costs] : IsFold(f, AtOnce(from), step, n)
  BY <1>1, <1>3, FoldExists
<1>5. ASSUME NEW m \in 0 .. n PROVE f[m] = IF m = 0 THEN AtOnce(from) ELSE OneMore(w, f[m - 1])
  <2>1. f[m] = IF m = 0 THEN AtOnce(from) ELSE step[m][f[m - 1]]
    BY <1>4 DEF IsFold
  <2>2. m # 0 => m \in 1 .. n /\ m - 1 \in 0 .. n
    OBVIOUS
  <2> QED
    BY <2>1, <2>2, <1>3
<1>6. IsCosts(f, w, from, n)
  BY <1>5 DEF IsCosts
<1>7. CostWithin(w, from, n) = (CHOOSE g : IsCosts(g, w, from, n))[n]
  BY DEF CostWithin, IsCosts, AtOnce
<1>8. PICK g : g = CHOOSE h : IsCosts(h, w, from, n)
  OBVIOUS
<1>9. IsCosts(g, w, from, n)
  BY <1>6, <1>8
<1>10. f[n] = g[n]
  BY <1>6, <1>9, CostsAgree
<1> QED
  BY <1>6, <1>7, <1>8, <1>10

LEMMA CostSteps ==
  ASSUME NEW w, Weighted(w), NEW from \in Nodes
  PROVE  /\ CostWithin(w, from, 0) = AtOnce(from)
         /\ \A n \in Nat : /\ CostWithin(w, from, n) \in Costs
                           /\ CostWithin(w, from, n + 1) = OneMore(w, CostWithin(w, from, n))
<1>1. CostWithin(w, from, 0) = AtOnce(from)
  <2>1. PICK f \in [0 .. 0 -> Costs] : IsCosts(f, w, from, 0) /\ f[0] = CostWithin(w, from, 0)
    BY CostFunction
  <2> QED
    BY <2>1 DEF IsCosts
<1>2. ASSUME NEW n \in Nat
      PROVE  /\ CostWithin(w, from, n) \in Costs
             /\ CostWithin(w, from, n + 1) = OneMore(w, CostWithin(w, from, n))
  <2>1. PICK f \in [0 .. n -> Costs] : IsCosts(f, w, from, n) /\ f[n] = CostWithin(w, from, n)
    BY CostFunction
  <2>2. PICK g \in [0 .. (n + 1) -> Costs] :
          IsCosts(g, w, from, n + 1) /\ g[n + 1] = CostWithin(w, from, n + 1)
    BY CostFunction
  <2>3. f[n] = g[n]
    BY <2>1, <2>2, CostsAgree
  <2>4. g[n + 1] = OneMore(w, g[n])
    <3>1. n + 1 \in 0 .. (n + 1) /\ n + 1 # 0 /\ (n + 1) - 1 = n
      OBVIOUS
    <3> QED
      BY <2>2, <3>1 DEF IsCosts
  <2> QED
    BY <2>1, <2>2, <2>3, <2>4
<1> QED
  BY <1>1, <1>2

LEMMA CostIs ==
  ASSUME NEW w, Weighted(w), NEW from \in Nodes, NEW n \in Nat
  PROVE  /\ \A v \in Nodes : CostWithin(w, from, n)[v] \in 0 .. Infinity
         /\ \A v \in Nodes : CostWithin(w, from, n + 1)[v] <= CostWithin(w, from, n)[v]
         /\ \A e \in DOMAIN w :
              CostWithin(w, from, n + 1)[e[3]] <= CostWithin(w, from, n)[e[1]] + w[e]
         /\ \A v \in Nodes :
              \/ CostWithin(w, from, n + 1)[v] = CostWithin(w, from, n)[v]
              \/ \E e \in DOMAIN w :
                   e[3] = v /\ CostWithin(w, from, n + 1)[v] = CostWithin(w, from, n)[e[1]] + w[e]
<1>1. CostWithin(w, from, n) \in Costs
  BY CostSteps
<1>2. CostWithin(w, from, n + 1) = OneMore(w, CostWithin(w, from, n))
  BY CostSteps
<1>3. \A v \in Nodes : CostWithin(w, from, n)[v] \in 0 .. Infinity
  BY <1>1 DEF Costs
<1> QED
  BY <1>1, <1>2, <1>3, OneMoreIs

LEMMA CostType ==
  ASSUME NEW w, Weighted(w), NEW from \in Nodes
  PROVE  \A n \in Nat, v \in Nodes : CostWithin(w, from, n)[v] \in Nat
<1> SUFFICES ASSUME NEW n \in Nat, NEW v \in Nodes PROVE CostWithin(w, from, n)[v] \in Nat
  OBVIOUS
<1>1. CostWithin(w, from, n)[v] \in 0 .. Infinity
  BY CostIs
<1> QED
  BY <1>1, PathAssumption

\* Longer walks are no dearer.
LEMMA CostFalls ==
  ASSUME NEW w, Weighted(w), NEW from \in Nodes, NEW m \in Nat, NEW n \in Nat, m <= n, NEW v \in Nodes
  PROVE  CostWithin(w, from, n)[v] <= CostWithin(w, from, m)[v]
<1> DEFINE A == {k \in Nat : CostWithin(w, from, m + k)[v] <= CostWithin(w, from, m)[v]}
<1>1. 0 \in A
  <2>1. CostWithin(w, from, m)[v] \in Nat
    BY CostIs, PathAssumption
  <2> QED
    BY <2>1
<1>2. ASSUME NEW k \in A \cap Nat PROVE k + 1 \in A
  <2>1. m + k \in Nat /\ m + (k + 1) = (m + k) + 1
    OBVIOUS
  <2>2. CostWithin(w, from, (m + k) + 1)[v] <= CostWithin(w, from, m + k)[v]
    BY <2>1, CostIs
  <2>3. CostWithin(w, from, m)[v] \in Nat /\ CostWithin(w, from, m + k)[v] \in Nat
        /\ CostWithin(w, from, (m + k) + 1)[v] \in Nat
    BY <2>1, CostIs, PathAssumption
  <2>4. CostWithin(w, from, m + k)[v] <= CostWithin(w, from, m)[v]
    OBVIOUS
  <2>5. CostWithin(w, from, (m + k) + 1)[v] <= CostWithin(w, from, m)[v]
    BY <2>2, <2>3, <2>4
  <2> QED
    BY <2>1, <2>5
<1> HIDE DEF A
<1>3. n - m \in A
  BY <1>1, <1>2, SetInduction
<1>4. m + (n - m) = n
  OBVIOUS
<1> QED
  BY <1>3, <1>4 DEF A

\* The nodes that no longer walk reaches cheaper.
Settled(w, from, n) ==
  {v \in Nodes : \A m \in Nat : CostWithin(w, from, n)[v] <= CostWithin(w, from, m)[v]}

\* A node settles after a number of edges.
LEMMA Settles ==
  ASSUME NEW w, Weighted(w), NEW from \in Nodes, NEW v \in Nodes
  PROVE  \E n \in Nat : v \in Settled(w, from, n)
<1> DEFINE S == {CostWithin(w, from, m)[v] : m \in Nat}
<1>1. S \in SUBSET Nat
  BY CostIs, PathAssumption
<1>2. CostWithin(w, from, 0)[v] \in S
  OBVIOUS
<1>3. PICK c \in S : \A d \in S : c <= d
  <2> HIDE DEF S
  <2> QED
    BY <1>1, <1>2, LeastIs
<1>4. PICK n \in Nat : c = CostWithin(w, from, n)[v]
  OBVIOUS
<1>5. \A m \in Nat : CostWithin(w, from, n)[v] <= CostWithin(w, from, m)[v]
  BY <1>3, <1>4
<1> QED
  BY <1>5 DEF Settled

LEMMA StaysSettled ==
  ASSUME NEW w, Weighted(w), NEW from \in Nodes, NEW m \in Nat, NEW n \in Nat, m <= n
  PROVE  Settled(w, from, m) \subseteq Settled(w, from, n)
<1> SUFFICES ASSUME NEW v \in Settled(w, from, m), NEW k \in Nat
             PROVE  CostWithin(w, from, n)[v] <= CostWithin(w, from, k)[v]
  BY DEF Settled
<1>1. v \in Nodes /\ CostWithin(w, from, m)[v] <= CostWithin(w, from, k)[v]
  BY DEF Settled
<1>2. CostWithin(w, from, n)[v] <= CostWithin(w, from, m)[v]
  BY <1>1, CostFalls
<1>3. /\ CostWithin(w, from, n)[v] \in Nat /\ CostWithin(w, from, m)[v] \in Nat
      /\ CostWithin(w, from, k)[v] \in Nat
  BY <1>1, CostType
<1> QED
  BY <1>1, <1>2, <1>3

\* While a node is not settled, one more edge settles another.
LEMMA OneMoreSettles ==
  ASSUME NEW w, Weighted(w), NEW from \in Nodes, NEW n \in Nat, Settled(w, from, n) # Nodes
  PROVE  \E v \in Settled(w, from, n + 1) : v \notin Settled(w, from, n)
<1> DEFINE M == {m \in Nat : \E v \in Settled(w, from, m) : v \notin Settled(w, from, n)}
<1>1. PICK m \in M : \A k \in M : m <= k
  <2>1. PICK v \in Nodes : v \notin Settled(w, from, n)
    BY DEF Settled
  <2>2. PICK k \in Nat : v \in Settled(w, from, k)
    BY Settles
  <2>3. k \in M /\ M \in SUBSET Nat
    BY <2>1, <2>2
  <2> HIDE DEF M
  <2> QED
    BY <2>3, LeastIs
<1>2. PICK v \in Settled(w, from, m) : v \notin Settled(w, from, n)
  OBVIOUS
<1>3. v \in Nodes
  BY DEF Settled
<1>4. m > n
  BY <1>2, StaysSettled
<1>5. PICK k \in Nat : m = k + 1 /\ k >= n /\ k \notin M
  <2>1. m - 1 \in Nat /\ m = (m - 1) + 1 /\ m - 1 >= n
    BY <1>4
  <2>2. m - 1 \notin M
    BY <1>1, <2>1
  <2> QED
    BY <2>1, <2>2
<1>6. CostWithin(w, from, k + 1)[v] # CostWithin(w, from, k)[v]
  <2> SUFFICES ASSUME CostWithin(w, from, k + 1)[v] = CostWithin(w, from, k)[v] PROVE FALSE
    OBVIOUS
  <2>1. v \in Settled(w, from, k)
    BY <1>2, <1>3, <1>5 DEF Settled
  <2> QED
    BY <1>2, <1>5, <2>1
<1>7. PICK e \in DOMAIN w :
        e[3] = v /\ CostWithin(w, from, k + 1)[v] = CostWithin(w, from, k)[e[1]] + w[e]
  BY <1>3, <1>6, CostIs
<1>8. PICK u \in Nodes : u = e[1] /\ w[e] \in Nat
  BY EdgeEnds
<1>9. u \in Settled(w, from, k)
  <2> SUFFICES ASSUME NEW l \in Nat PROVE CostWithin(w, from, k)[u] <= CostWithin(w, from, l)[u]
    BY DEF Settled
  <2>1. CostWithin(w, from, l + 1)[v] <= CostWithin(w, from, l)[u] + w[e]
    BY <1>7, <1>8, CostIs
  <2>2. CostWithin(w, from, k + 1)[v] <= CostWithin(w, from, l + 1)[v]
    BY <1>2, <1>5 DEF Settled
  <2>3. /\ CostWithin(w, from, k)[u] \in Nat /\ CostWithin(w, from, l)[u] \in Nat
        /\ CostWithin(w, from, l + 1)[v] \in Nat
    BY <1>3, <1>8, CostType
  <2> QED
    BY <2>1, <2>2, <2>3, <1>7, <1>8
<1>10. u \in Settled(w, from, n)
  BY <1>5, <1>9
<1>11. v \in Settled(w, from, n + 1)
  <2> SUFFICES ASSUME NEW l \in Nat
               PROVE  CostWithin(w, from, n + 1)[v] <= CostWithin(w, from, l)[v]
    BY <1>3 DEF Settled
  <2>1. CostWithin(w, from, n + 1)[v] <= CostWithin(w, from, n)[u] + w[e]
    BY <1>7, <1>8, CostIs
  <2>2. CostWithin(w, from, n)[u] <= CostWithin(w, from, k)[u]
    BY <1>10 DEF Settled
  <2>3. CostWithin(w, from, k + 1)[v] <= CostWithin(w, from, l)[v]
    BY <1>2, <1>5 DEF Settled
  <2>4. /\ CostWithin(w, from, n)[u] \in Nat /\ CostWithin(w, from, k)[u] \in Nat
        /\ CostWithin(w, from, n + 1)[v] \in Nat /\ CostWithin(w, from, l)[v] \in Nat
    BY <1>3, <1>8, CostType
  <2>5. CostWithin(w, from, k + 1)[v] = CostWithin(w, from, k)[u] + w[e]
    BY <1>7, <1>8
  <2> QED
    BY <2>1, <2>2, <2>3, <2>4, <2>5, <1>8
<1> QED
  BY <1>2, <1>11

\* Walks of as many edges as there are nodes settle all.
LEMMA AllSettled ==
  ASSUME NEW w, Weighted(w), NEW from \in Nodes
  PROVE  Settled(w, from, Cardinality(Nodes)) = Nodes
<1> DEFINE A == {n \in Nat : \/ Settled(w, from, n) = Nodes
                             \/ Cardinality(Settled(w, from, n)) >= n}
<1>1. \A n \in Nat : /\ Settled(w, from, n) \subseteq Nodes
                     /\ IsFiniteSet(Settled(w, from, n)) /\ Cardinality(Settled(w, from, n)) \in Nat
  <2> SUFFICES ASSUME NEW n \in Nat
               PROVE  /\ Settled(w, from, n) \subseteq Nodes
                      /\ IsFiniteSet(Settled(w, from, n)) /\ Cardinality(Settled(w, from, n)) \in Nat
    OBVIOUS
  <2>1. Settled(w, from, n) \subseteq Nodes
    BY DEF Settled
  <2> QED
    BY <2>1, FS_Subset, FS_CardinalityType, PathAssumption
<1>2. 0 \in A
  BY <1>1
<1>3. ASSUME NEW n \in A \cap Nat PROVE n + 1 \in A
  <2>1. Settled(w, from, n) \subseteq Settled(w, from, n + 1) /\ Settled(w, from, n + 1) \subseteq Nodes
    BY StaysSettled, <1>1
  <2>2. CASE Settled(w, from, n) = Nodes
    BY <2>1, <2>2
  <2>3. CASE Settled(w, from, n) # Nodes
    <3>1. PICK v \in Settled(w, from, n + 1) : v \notin Settled(w, from, n)
      BY <2>3, OneMoreSettles
    <3>2. Cardinality(Settled(w, from, n)) < Cardinality(Settled(w, from, n + 1))
      <4>1. IsFiniteSet(Settled(w, from, n + 1))
        BY <1>1
      <4>2. /\ Cardinality(Settled(w, from, n)) <= Cardinality(Settled(w, from, n + 1))
            /\ Cardinality(Settled(w, from, n)) = Cardinality(Settled(w, from, n + 1))
                 => Settled(w, from, n) = Settled(w, from, n + 1)
        BY <2>1, <4>1, FS_Subset
      <4>3. Cardinality(Settled(w, from, n)) \in Nat /\ Cardinality(Settled(w, from, n + 1)) \in Nat
        BY <1>1
      <4> QED
        BY <3>1, <4>2, <4>3
    <3>3. Cardinality(Settled(w, from, n)) >= n
      BY <2>3
    <3>4. Cardinality(Settled(w, from, n)) \in Nat /\ Cardinality(Settled(w, from, n + 1)) \in Nat
      BY <1>1
    <3>5. Cardinality(Settled(w, from, n + 1)) >= n + 1
      BY <3>2, <3>3, <3>4
    <3> QED
      BY <3>5
  <2> QED
    BY <2>2, <2>3
<1>4. Cardinality(Nodes) \in Nat
  BY FS_CardinalityType, PathAssumption
<1>5. Cardinality(Nodes) \in A
  <2> HIDE DEF A
  <2> QED
    BY <1>2, <1>3, <1>4, SetInduction
<1>6. PICK S : S = Settled(w, from, Cardinality(Nodes))
  OBVIOUS
<1>7. S = Nodes \/ Cardinality(S) >= Cardinality(Nodes)
  BY <1>5, <1>6
<1>8. S \subseteq Nodes
  BY <1>1, <1>4, <1>6
<1>9. /\ Cardinality(S) <= Cardinality(Nodes) /\ Cardinality(S) \in Nat
      /\ Cardinality(S) = Cardinality(Nodes) => S = Nodes
  BY <1>8, FS_Subset, FS_CardinalityType, PathAssumption
<1> QED
  BY <1>4, <1>6, <1>7, <1>9

\* Distance is a cost of walks that no walk of any length beats.
LEMMA DistanceIs ==
  ASSUME NEW w, Weighted(w), NEW from \in Nodes
  PROVE  /\ Distance(w, from, from) = 0
         /\ \A v \in Nodes : Distance(w, from, v) \in Nat /\ Distance(w, from, v) <= Infinity
         /\ \A n \in Nat, v \in Nodes : Distance(w, from, v) <= CostWithin(w, from, n)[v]
         /\ \A e \in DOMAIN w : Distance(w, from, e[3]) <= Distance(w, from, e[1]) + w[e]
<1>1. PICK n \in Nat : n = Cardinality(Nodes)
  BY FS_CardinalityType, PathAssumption
<1>2. \A v : Distance(w, from, v) = CostWithin(w, from, n)[v]
  BY <1>1 DEF Distance
<1>3. \A v \in Nodes, m \in Nat : CostWithin(w, from, n)[v] <= CostWithin(w, from, m)[v]
  BY <1>1, AllSettled DEF Settled
<1>4. \A v \in Nodes : CostWithin(w, from, n)[v] \in 0 .. Infinity /\ CostWithin(w, from, n)[v] \in Nat
  BY CostIs, CostType
<1>5. CostWithin(w, from, n)[from] = 0
  <2>1. CostWithin(w, from, 0)[from] = 0
    BY CostSteps DEF AtOnce
  <2>2. CostWithin(w, from, n)[from] <= CostWithin(w, from, 0)[from]
    BY <1>3
  <2> QED
    BY <2>1, <2>2, <1>4
<1>6. ASSUME NEW e \in DOMAIN w
      PROVE  CostWithin(w, from, n)[e[3]] <= CostWithin(w, from, n)[e[1]] + w[e]
  <2>1. e[1] \in Nodes /\ e[3] \in Nodes /\ w[e] \in Nat
    BY EdgeEnds
  <2>2. CostWithin(w, from, n)[e[3]] <= CostWithin(w, from, n + 1)[e[3]]
    BY <1>3, <2>1
  <2>3. CostWithin(w, from, n + 1)[e[3]] <= CostWithin(w, from, n)[e[1]] + w[e]
    BY CostIs
  <2>4. CostWithin(w, from, n)[e[3]] \in Nat /\ CostWithin(w, from, n + 1)[e[3]] \in Nat
        /\ CostWithin(w, from, n)[e[1]] \in Nat
    BY <2>1, CostType
  <2> QED
    BY <2>1, <2>2, <2>3, <2>4
<1> QED
  BY <1>2, <1>3, <1>4, <1>5, <1>6

\* The way over a node is no shorter.
LEMMA Triangle ==
  ASSUME NEW w, Weighted(w), NEW from \in Nodes, NEW over \in Nodes, NEW n \in Nat, NEW v \in Nodes
  PROVE  Distance(w, from, v) <= Distance(w, from, over) + CostWithin(w, over, n)[v]
<1> DEFINE A == {m \in Nat : \A u \in Nodes :
                   Distance(w, from, u) <= Distance(w, from, over) + CostWithin(w, over, m)[u]}
<1>1. 0 \in A
  <2> SUFFICES ASSUME NEW u \in Nodes
               PROVE  Distance(w, from, u) <= Distance(w, from, over) + CostWithin(w, over, 0)[u]
    OBVIOUS
  <2>1. CostWithin(w, over, 0)[u] = IF u = over THEN 0 ELSE Infinity
    BY CostSteps DEF AtOnce
  <2>2. /\ Distance(w, from, u) \in Nat /\ Distance(w, from, u) <= Infinity
        /\ Distance(w, from, over) \in Nat
    BY DistanceIs
  <2> QED
    BY <2>1, <2>2, PathAssumption
<1>2. ASSUME NEW m \in A \cap Nat PROVE m + 1 \in A
  <2> SUFFICES ASSUME NEW u \in Nodes
               PROVE  Distance(w, from, u) <= Distance(w, from, over) + CostWithin(w, over, m + 1)[u]
    OBVIOUS
  <2>1. \A x \in Nodes : Distance(w, from, x) <= Distance(w, from, over) + CostWithin(w, over, m)[x]
    OBVIOUS
  <2> HIDE DEF A
  <2>2. CASE CostWithin(w, over, m + 1)[u] = CostWithin(w, over, m)[u]
    BY <2>1, <2>2
  <2>3. CASE \E e \in DOMAIN w :
               e[3] = u /\ CostWithin(w, over, m + 1)[u] = CostWithin(w, over, m)[e[1]] + w[e]
    <3>1. PICK e \in DOMAIN w :
            e[3] = u /\ CostWithin(w, over, m + 1)[u] = CostWithin(w, over, m)[e[1]] + w[e]
      BY <2>3
    <3>2. PICK x \in Nodes : x = e[1] /\ w[e] \in Nat
      BY EdgeEnds
    <3>3. Distance(w, from, u) <= Distance(w, from, x) + w[e]
      BY <3>1, <3>2, DistanceIs
    <3>4. Distance(w, from, x) <= Distance(w, from, over) + CostWithin(w, over, m)[x]
      BY <2>1
    <3>5. /\ Distance(w, from, u) \in Nat /\ Distance(w, from, x) \in Nat
          /\ Distance(w, from, over) \in Nat
      BY DistanceIs
    <3>6. CostWithin(w, over, m)[x] \in Nat
      BY CostType
    <3>7. CostWithin(w, over, m + 1)[u] = CostWithin(w, over, m)[x] + w[e]
      BY <3>1, <3>2
    <3> QED
      BY <3>2, <3>3, <3>4, <3>5, <3>6, <3>7
  <2>4. \/ CostWithin(w, over, m + 1)[u] = CostWithin(w, over, m)[u]
        \/ \E e \in DOMAIN w :
             e[3] = u /\ CostWithin(w, over, m + 1)[u] = CostWithin(w, over, m)[e[1]] + w[e]
    <3>1. m \in Nat
      OBVIOUS
    <3>2. \A x \in Nodes :
            \/ CostWithin(w, over, m + 1)[x] = CostWithin(w, over, m)[x]
            \/ \E e \in DOMAIN w :
                 e[3] = x /\ CostWithin(w, over, m + 1)[x] = CostWithin(w, over, m)[e[1]] + w[e]
      BY <3>1, CostIs
    <3> QED
      BY <3>2
  <2> QED
    BY <2>2, <2>3, <2>4
<1> HIDE DEF A
<1>3. n \in A
  BY <1>1, <1>2, SetInduction
<1> QED
  BY <1>3 DEF A

\* A walk that gains by an edge more has a first edge, and goes on from there.
FirstEdge(w, from, n, v) ==
  \/ CostWithin(w, from, n + 1)[v] = CostWithin(w, from, n)[v]
  \/ \E e \in DOMAIN w :
       e[1] = from /\ w[e] + CostWithin(w, e[3], n)[v] <= CostWithin(w, from, n + 1)[v]

LEMMA FirstEdges ==
  ASSUME NEW w, Weighted(w), NEW from \in Nodes, NEW n \in Nat, NEW v \in Nodes
  PROVE  FirstEdge(w, from, n, v)
<1> DEFINE A == {m \in Nat : \A u \in Nodes : FirstEdge(w, from, m, u)}
<1>1. 0 \in A
  <2> SUFFICES ASSUME NEW u \in Nodes, CostWithin(w, from, 0 + 1)[u] # CostWithin(w, from, 0)[u]
               PROVE  \E e \in DOMAIN w : e[1] = from
                        /\ w[e] + CostWithin(w, e[3], 0)[u] <= CostWithin(w, from, 0 + 1)[u]
    BY DEF FirstEdge
  <2>1. PICK e \in DOMAIN w :
          e[3] = u /\ CostWithin(w, from, 0 + 1)[u] = CostWithin(w, from, 0)[e[1]] + w[e]
    BY CostIs
  <2>2. e[1] \in Nodes /\ w[e] \in Nat
    BY EdgeEnds
  <2>3. CostWithin(w, from, 0)[e[1]] = IF e[1] = from THEN 0 ELSE Infinity
    BY <2>2, CostSteps DEF AtOnce
  <2>4. /\ CostWithin(w, from, 0)[u] <= Infinity /\ CostWithin(w, from, 0)[u] \in Nat
        /\ CostWithin(w, from, 0 + 1)[u] <= CostWithin(w, from, 0)[u]
        /\ CostWithin(w, from, 0 + 1)[u] \in Nat
    <3>1. CostWithin(w, from, 0)[u] \in 0 .. Infinity
      BY CostIs
    <3>2. CostWithin(w, from, 0 + 1)[u] <= CostWithin(w, from, 0)[u]
      BY CostIs
    <3>3. 0 + 1 \in Nat
      OBVIOUS
    <3>4. CostWithin(w, from, 0 + 1)[u] \in Nat
      BY <3>3, CostType
    <3> QED
      BY <3>1, <3>2, <3>4, PathAssumption
  <2>5. e[1] = from
    BY <2>1, <2>2, <2>3, <2>4, PathAssumption
  <2>6. CostWithin(w, e[3], 0)[u] = 0
    BY <2>1, CostSteps DEF AtOnce
  <2> QED
    BY <2>1, <2>2, <2>3, <2>5, <2>6
<1>2. ASSUME NEW m \in A \cap Nat PROVE m + 1 \in A
  <2> SUFFICES ASSUME NEW u \in Nodes,
                      CostWithin(w, from, (m + 1) + 1)[u] # CostWithin(w, from, m + 1)[u]
               PROVE  \E e \in DOMAIN w : e[1] = from
                        /\ w[e] + CostWithin(w, e[3], m + 1)[u] <= CostWithin(w, from, (m + 1) + 1)[u]
    BY DEF FirstEdge
  <2>1. \A x \in Nodes : FirstEdge(w, from, m, x)
    OBVIOUS
  <2> HIDE DEF A
  <2>2. PICK e \in DOMAIN w :
          e[3] = u /\ CostWithin(w, from, (m + 1) + 1)[u] = CostWithin(w, from, m + 1)[e[1]] + w[e]
    BY CostIs
  <2>3. PICK x \in Nodes : x = e[1] /\ w[e] \in Nat
    BY EdgeEnds
  <2>4. CostWithin(w, from, m + 1)[x] # CostWithin(w, from, m)[x]
    <3> SUFFICES ASSUME CostWithin(w, from, m + 1)[x] = CostWithin(w, from, m)[x] PROVE FALSE
      OBVIOUS
    <3>1. CostWithin(w, from, m + 1)[u] <= CostWithin(w, from, m)[x] + w[e]
      BY <2>2, <2>3, CostIs
    <3>2. CostWithin(w, from, (m + 1) + 1)[u] <= CostWithin(w, from, m + 1)[u]
      BY CostIs
    <3>3. /\ CostWithin(w, from, m + 1)[u] \in Nat /\ CostWithin(w, from, (m + 1) + 1)[u] \in Nat
          /\ CostWithin(w, from, m)[x] \in Nat
      BY CostType
    <3> QED
      BY <2>2, <2>3, <3>1, <3>2, <3>3
  <2>5. PICK first \in DOMAIN w :
          first[1] = from
            /\ w[first] + CostWithin(w, first[3], m)[x] <= CostWithin(w, from, m + 1)[x]
    BY <2>1, <2>4 DEF FirstEdge
  <2>6. PICK y \in Nodes : y = first[3] /\ w[first] \in Nat
    BY EdgeEnds
  <2>7. CostWithin(w, y, m + 1)[u] <= CostWithin(w, y, m)[x] + w[e]
    BY <2>2, <2>3, CostIs
  <2>8. /\ CostWithin(w, y, m + 1)[u] \in Nat /\ CostWithin(w, y, m)[x] \in Nat
        /\ CostWithin(w, from, m + 1)[x] \in Nat
    BY CostType
  <2>9. w[first] + CostWithin(w, y, m)[x] <= CostWithin(w, from, m + 1)[x]
    BY <2>5, <2>6
  <2>10. CostWithin(w, from, (m + 1) + 1)[u] = CostWithin(w, from, m + 1)[x] + w[e]
    BY <2>2, <2>3
  <2>11. w[first] + CostWithin(w, y, m + 1)[u] <= CostWithin(w, from, (m + 1) + 1)[u]
    BY <2>3, <2>6, <2>7, <2>8, <2>9, <2>10
  <2> QED
    BY <2>5, <2>6, <2>11
<1> HIDE DEF A
<1>3. n \in A
  BY <1>1, <1>2, SetInduction
<1> QED
  BY <1>3 DEF A

-----------------------------------------------------------------------------
(* search_internal: types *)

LEMMA EntryIs ==
  ASSUME PathTypeOK, NEW entry \in heap
  PROVE  /\ entry[2] \in Nodes /\ entry[1] \in Nat
         /\ dist[entry[2]] \in Nat /\ dist[entry[2]] < Infinity
         /\ dist[entry[2]] + heuristic[entry[2]] <= entry[1]
         /\ entry[1] <= dist[entry[2]] + heuristic[entry[2]] => entry = Entry(entry[2], dist[entry[2]])
<1>1. PICK n \in Nodes : \E cost \in dist[n] .. Infinity - 1 : entry = Entry(n, cost)
  BY DEF PathTypeOK
<1>0. PICK cost \in dist[n] .. Infinity - 1 : entry = Entry(n, cost)
  BY <1>1
<1>2. dist[n] \in Nat /\ heuristic[n] \in Nat /\ Infinity \in Nat
  BY PathAssumption DEF PathTypeOK
<1>3. entry[2] = n /\ entry[1] = cost + heuristic[n]
  BY <1>0 DEF Entry
<1>4. cost \in Nat /\ dist[n] <= cost /\ cost < Infinity
  BY <1>2
<1>5. entry[1] <= dist[n] + heuristic[n] => cost = dist[n]
  BY <1>2, <1>3, <1>4
<1> QED
  BY <1>0, <1>2, <1>3, <1>4, <1>5

LEMMA PathTypes ==
  ASSUME PathTypeOK
  PROVE  /\ Weighted(weight)
         /\ \A n \in Nodes : heuristic[n] \in Nat
         /\ \A n \in Nodes : dist[n] \in Nat /\ dist[n] <= Infinity
         /\ dist \in [Nodes -> 0 .. Infinity]
BY PathAssumption DEF PathTypeOK, Weighted

LEMMA PathTypeStart == PathInit => PathTypeOK
<1> SUFFICES ASSUME PathInit PROVE PathTypeOK
  OBVIOUS
<1>1. PICK E \in SUBSET Possible : weight \in [E -> Weights]
  BY DEF PathInit
<1>2. DOMAIN weight \subseteq Possible /\ weight \in [DOMAIN weight -> Weights]
  BY <1>1
<1>3. dist \in [Nodes -> 0 .. Infinity] /\ dist[From] = 0
  BY PathAssumption DEF PathInit
<1>4. \A entry \in heap : \E n \in Nodes : \E cost \in dist[n] .. Infinity - 1 : entry = Entry(n, cost)
  <2>1. 0 \in dist[From] .. Infinity - 1
    BY <1>3, PathAssumption
  <2> QED
    BY <2>1, PathAssumption DEF PathInit
<1> QED
  BY <1>2, <1>3, <1>4, PathAssumption DEF PathInit, PathTypeOK

\* What a step that lowers a cost does.
Lowers(e) ==
  /\ e \in DOMAIN weight /\ next_cost(e) \in Nat /\ next_cost(e) < dist[e[3]]
  /\ dist' = [dist EXCEPT ![e[3]] = next_cost(e)]
  /\ prev' = [prev EXCEPT ![e[3]] = e]
  /\ heap' = heap \cup {Entry(e[3], next_cost(e))}

LEMMA RelaxIs ==
  ASSUME PathTypeOK, NEW e \in Possible, Relax(e)
  PROVE  /\ e \in DOMAIN weight /\ next_cost(e) \in Nat
         /\ \/ Lowers(e)
            \/ dist[e[3]] <= next_cost(e) /\ UNCHANGED <<dist, prev, heap>>
<1>1. e \in DOMAIN weight
  BY DEF Relax, PathTypeOK
<1>2. weight[e] \in Nat /\ e[3] \in Nodes
  BY <1>1, EdgeEnds, PathTypes
<1>3. dist[node] \in Nat /\ dist[e[3]] \in Nat
  BY <1>2, PathTypes DEF PathTypeOK
<1>4. next_cost(e) \in Nat
  BY <1>2, <1>3 DEF next_cost
<1>5. CASE Better(e)
  BY <1>1, <1>4, <1>5 DEF Relax, Lowers, Better, Predecessor
<1>6. CASE ~Better(e)
  BY <1>1, <1>3, <1>4, <1>6 DEF Relax, Better
<1> QED
  BY <1>1, <1>4, <1>5, <1>6

LEMMA LowersType ==
  ASSUME PathTypeOK, NEW e \in Possible, Lowers(e), UNCHANGED arguments
  PROVE  /\ e[3] \in Nodes
         /\ dist' \in [Nodes -> 0 .. Infinity]
         /\ prev' \in [Nodes -> DOMAIN weight \cup {NoEdge}]
         /\ dist'[e[3]] = next_cost(e) /\ prev'[e[3]] = e
         /\ \A n \in Nodes : n # e[3] => dist'[n] = dist[n] /\ prev'[n] = prev[n]
         /\ \A n \in Nodes : dist'[n] \in Nat /\ dist'[n] <= dist[n]
         /\ \A entry \in heap' :
              \E n \in Nodes : \E cost \in dist'[n] .. Infinity - 1 : entry = Entry(n, cost)
<1>1. e \in DOMAIN weight /\ e[3] \in Nodes
  BY EdgeEnds, PathTypes DEF Lowers
<1>2. PICK c \in Nat : c = next_cost(e)
  BY DEF Lowers
<1>3. dist \in [Nodes -> 0 .. Infinity] /\ Infinity \in Nat
  BY PathTypes, PathAssumption
<1>4. c < dist[e[3]] /\ dist' = [dist EXCEPT ![e[3]] = c]
  BY <1>2 DEF Lowers
<1>5. /\ dist' \in [Nodes -> 0 .. Infinity] /\ dist'[e[3]] = c
      /\ \A n \in Nodes : n # e[3] => dist'[n] = dist[n]
      /\ \A n \in Nodes : dist'[n] \in Nat /\ dist'[n] <= dist[n]
  BY <1>1, <1>3, <1>4
<1>6. /\ prev' \in [Nodes -> DOMAIN weight \cup {NoEdge}] /\ prev'[e[3]] = e
      /\ \A n \in Nodes : n # e[3] => prev'[n] = prev[n]
  BY <1>1 DEF Lowers, PathTypeOK
<1>7. ASSUME NEW entry \in heap'
      PROVE  \E n \in Nodes : \E cost \in dist'[n] .. Infinity - 1 : entry = Entry(n, cost)
  <2>1. CASE entry \in heap
    <3>1. PICK n \in Nodes : \E cost \in dist[n] .. Infinity - 1 : entry = Entry(n, cost)
      BY <2>1 DEF PathTypeOK
    <3>2. PICK cost \in dist[n] .. Infinity - 1 : entry = Entry(n, cost)
      BY <3>1
    <3>3. dist'[n] \in Nat /\ dist'[n] <= dist[n] /\ dist[n] \in Nat
      BY <1>3, <1>5
    <3>4. cost \in dist'[n] .. Infinity - 1
      BY <3>3, <1>3
    <3> QED
      BY <3>2, <3>4
  <2>2. CASE entry = Entry(e[3], c)
    <3>1. c \in dist'[e[3]] .. Infinity - 1
      BY <1>1, <1>3, <1>4, <1>5
    <3> QED
      BY <1>1, <2>2, <3>1
  <2> QED
    BY <1>2, <2>1, <2>2 DEF Lowers
<1> QED
  BY <1>1, <1>2, <1>5, <1>6, <1>7

LEMMA EntryStays == ASSUME UNCHANGED arguments PROVE \A n, c : Entry(n, c)' = Entry(n, c)
BY DEF arguments, Entry

LEMMA PathTypeNext == PathTypeOK /\ [PathNext]_pathVars => PathTypeOK'
<1> SUFFICES ASSUME PathTypeOK, [PathNext]_pathVars PROVE PathTypeOK'
  OBVIOUS
<1>1. ASSUME Pop PROVE PathTypeOK'
  <2>1. PICK entry \in heap : /\ heap' = heap \ {entry} /\ node' = entry[2]
                              /\ \/ at' = "found" /\ UNCHANGED todo
                                 \/ at' = "relax" /\ todo' = {e \in DOMAIN weight : e[1] = entry[2]}
    BY <1>1 DEF Pop
  <2>2. entry[2] \in Nodes
    BY EntryIs
  <2> QED
    BY <1>1, <2>1, <2>2 DEF Pop, PathTypeOK, arguments, Entry
<1>2. ASSUME Empty PROVE PathTypeOK'
  BY <1>2 DEF Empty, PathTypeOK, arguments, Entry
<1>3. ASSUME Expanded PROVE PathTypeOK'
  BY <1>3 DEF Expanded, PathTypeOK, arguments, Entry
<1>4. ASSUME NEW e \in Possible, Relax(e) PROVE PathTypeOK'
  <2>1. UNCHANGED arguments /\ UNCHANGED <<at, node>> /\ todo' = todo \ {e}
    BY <1>4 DEF Relax
  <2>2. CASE Lowers(e)
    <3>1. /\ dist' \in [Nodes -> 0 .. Infinity]
          /\ prev' \in [Nodes -> DOMAIN weight \cup {NoEdge}]
          /\ \A entry \in heap' :
               \E n \in Nodes : \E cost \in dist'[n] .. Infinity - 1 : entry = Entry(n, cost)
      BY <2>1, <2>2, LowersType
    <3> QED
      BY <2>1, <3>1 DEF PathTypeOK, arguments, Entry
  <2>3. CASE UNCHANGED <<dist, prev, heap>>
    BY <2>1, <2>3 DEF PathTypeOK, arguments, Entry
  <2> QED
    BY <1>4, <2>2, <2>3, RelaxIs
<1>5. ASSUME UNCHANGED pathVars PROVE PathTypeOK'
  BY <1>5 DEF pathVars, PathTypeOK, arguments, Entry
<1> QED
  BY <1>1, <1>2, <1>3, <1>4, <1>5 DEF PathNext

-----------------------------------------------------------------------------
(* search_internal: the cost *)

\* The heap has a fresh entry of a node.
Open(v) == Entry(v, dist[v]) \in heap

\* The edges of a node, but for those that are still to do, lead nowhere cheaper.
Closed(v) ==
  v # To /\ \A e \in DOMAIN weight \ todo : e[1] = v => dist[e[3]] <= dist[v] + weight[e]

CostInv ==
  /\ at = "relax" => node # To
  /\ at # "relax" => todo = {}
  /\ \A e \in todo : e[1] = node
  /\ dist[From] = 0
  /\ \A v \in Nodes : Distance(weight, From, v) <= dist[v]
  /\ \A v \in Nodes : dist[v] < Infinity => Open(v) \/ Closed(v) \/ (at = "found" /\ v = To)

LEMMA CostStart == PathInit => CostInv
<1> SUFFICES ASSUME PathInit PROVE CostInv
  OBVIOUS
<1>1. PathTypeOK
  BY PathTypeStart
<1>2. Weighted(weight)
  BY <1>1, PathTypes
<1>3. \A v \in Nodes : dist[v] = IF v = From THEN 0 ELSE Infinity
  BY DEF PathInit
<1>4. /\ Distance(weight, From, From) = 0
      /\ \A v \in Nodes : Distance(weight, From, v) \in Nat /\ Distance(weight, From, v) <= Infinity
  BY <1>2, DistanceIs, PathAssumption
<1>5. \A v \in Nodes : Distance(weight, From, v) <= dist[v]
  BY <1>3, <1>4
<1>6. ASSUME NEW v \in Nodes, dist[v] < Infinity PROVE Open(v)
  <2>1. v = From
    BY <1>3, <1>6, PathAssumption
  <2> QED
    BY <1>3, <2>1 DEF PathInit, Open
<1> QED
  BY <1>3, <1>5, <1>6, PathAssumption DEF PathInit, CostInv

\* A pop takes a cheapest entry, and its node is the next to be expanded, if it is not the target.
Pops(entry) ==
  /\ entry \in heap /\ \A other \in heap : entry[1] <= other[1]
  /\ heap' = heap \ {entry} /\ node' = entry[2]
  /\ \/ entry[2] = To /\ at' = "found" /\ UNCHANGED todo
     \/ entry[2] # To /\ at' = "relax" /\ todo' = {e \in DOMAIN weight : e[1] = entry[2]}
  /\ UNCHANGED <<arguments, dist, prev>> /\ at = "pop"

LEMMA PopIs == Pop => \E entry \in heap : Pops(entry)
BY DEF Pop, Pops

LEMMA DistanceStays ==
  ASSUME UNCHANGED arguments
  PROVE  \A a, b : Distance(weight, a, b)' = Distance(weight, a, b)
BY DEF arguments, Distance, CostWithin, OneMore

LEMMA CostPop ==
  ASSUME PathTypeOK, CostInv, NEW entry, Pops(entry)
  PROVE  CostInv'
<1>1. /\ weight' = weight /\ heuristic' = heuristic /\ dist' = dist /\ todo = {}
      /\ entry \in heap /\ heap' = heap \ {entry} /\ node' = entry[2] /\ at = "pop"
  BY DEF Pops, arguments, CostInv
<1>2. ASSUME NEW v \in Nodes, dist'[v] < Infinity
      PROVE  Open(v)' \/ Closed(v)' \/ (at' = "found" /\ v = To)
  <2>1. Open(v) \/ Closed(v)
    BY <1>1, <1>2 DEF CostInv
  <2>2. CASE entry = Entry(v, dist[v])
    <3>1. entry[2] = v
      BY <2>2 DEF Entry
    <3> QED
      BY <1>1, <3>1 DEF Pops, Closed
  <2>3. CASE entry # Entry(v, dist[v]) /\ Open(v)
    BY <1>1, <2>3 DEF Open, Entry
  <2>4. CASE Closed(v)
    BY <1>1, <2>4 DEF Closed
  <2> QED
    BY <2>1, <2>2, <2>3, <2>4
<1>3. /\ at' = "relax" => node' # To
      /\ at' # "relax" => todo' = {}
      /\ \A e \in todo' : e[1] = node'
  BY <1>1 DEF Pops
<1>4. dist'[From] = 0 /\ \A v \in Nodes : Distance(weight, From, v)' <= dist'[v]
  <2>1. UNCHANGED arguments
    BY DEF Pops
  <2> QED
    BY <1>1, <2>1, DistanceStays DEF CostInv
<1> QED
  BY <1>2, <1>3, <1>4 DEF CostInv

LEMMA CostRelax ==
  ASSUME PathTypeOK, CostInv, NEW e \in Possible, Relax(e)
  PROVE  CostInv'
<1>1. /\ UNCHANGED arguments /\ weight' = weight /\ heuristic' = heuristic
      /\ at' = "relax" /\ at = "relax" /\ node' = node /\ e \in todo /\ todo' = todo \ {e}
  BY DEF Relax, arguments
<1>2. e \in DOMAIN weight /\ e[3] \in Nodes /\ e[1] = node /\ weight[e] \in Nat
  BY <1>1, RelaxIs, EdgeEnds, PathTypes DEF CostInv
<1>3. next_cost(e) = dist[node] + weight[e] /\ node \in Nodes
  BY DEF next_cost, PathTypeOK
<1>4. \A v \in Nodes : dist[v] \in Nat
  BY PathTypes
<1>5. CASE UNCHANGED <<dist, prev, heap>> /\ dist[e[3]] <= next_cost(e)
  <2>1. \A v \in Nodes : Closed(v) => Closed(v)'
    BY <1>1, <1>2, <1>3, <1>5 DEF Closed
  <2>2. \A v \in Nodes : Open(v) => Open(v)'
    BY <1>1, <1>5 DEF Open, Entry
  <2>3. \A v \in Nodes : dist'[v] < Infinity => Open(v)' \/ Closed(v)'
    BY <1>1, <1>5, <2>1, <2>2 DEF CostInv
  <2> QED
    BY <1>1, <1>5, <2>3, DistanceStays DEF CostInv
<1>6. CASE Lowers(e)
  <2>1. /\ dist'[e[3]] = next_cost(e) /\ next_cost(e) < dist[e[3]] /\ next_cost(e) \in Nat
        /\ \A v \in Nodes : v # e[3] => dist'[v] = dist[v]
        /\ \A v \in Nodes : dist'[v] \in Nat /\ dist'[v] <= dist[v]
        /\ heap' = heap \cup {Entry(e[3], next_cost(e))}
    BY <1>1, <1>6, LowersType DEF Lowers
  <2>2. ASSUME NEW v \in Nodes, dist'[v] < Infinity PROVE Open(v)' \/ Closed(v)'
    <3>1. CASE v = e[3]
      BY <1>1, <2>1, <3>1 DEF Open, Entry
    <3>2. CASE v # e[3]
      <4>1. dist'[v] = dist[v]
        BY <2>1, <3>2
      <4>2. CASE Open(v)
        BY <1>1, <2>1, <4>1, <4>2 DEF Open, Entry
      <4>3. CASE Closed(v)
        <5> SUFFICES ASSUME NEW f \in DOMAIN weight, f \notin todo', f[1] = v
                     PROVE  dist'[f[3]] <= dist'[v] + weight'[f]
          BY <1>1, <4>3 DEF Closed
        <5>1. CASE f = e
          BY <1>1, <1>2, <1>3, <2>1, <4>1, <5>1
        <5>2. CASE f # e
          <6>1. dist[f[3]] <= dist[v] + weight[f]
            BY <1>1, <4>3, <5>2 DEF Closed
          <6>2. f[3] \in Nodes /\ weight[f] \in Nat
            BY EdgeEnds, PathTypes
          <6>3. dist'[f[3]] <= dist[f[3]] /\ dist'[f[3]] \in Nat /\ dist[f[3]] \in Nat /\ dist[v] \in Nat
            BY <1>4, <2>1, <6>2
          <6> QED
            BY <1>1, <4>1, <6>1, <6>2, <6>3
        <5> QED
          BY <5>1, <5>2
      <4> QED
        BY <1>1, <2>2, <4>1, <4>2, <4>3 DEF CostInv
    <3> QED
      BY <3>1, <3>2
  <2>3. dist'[From] = 0
    BY <1>4, <2>1, PathAssumption DEF CostInv
  <2>4. ASSUME NEW v \in Nodes PROVE Distance(weight, From, v) <= dist'[v]
    <3>1. CASE v # e[3]
      BY <2>1, <3>1 DEF CostInv
    <3>2. CASE v = e[3]
      <4>1. Distance(weight, From, v) <= Distance(weight, From, node) + weight[e]
        BY <1>2, <3>2, DistanceIs, PathTypes, PathAssumption
      <4>2. Distance(weight, From, node) <= dist[node]
        BY <1>3 DEF CostInv
      <4>3. Distance(weight, From, node) \in Nat /\ Distance(weight, From, v) \in Nat
        BY <1>3, DistanceIs, PathTypes, PathAssumption
      <4> QED
        BY <1>2, <1>3, <1>4, <2>1, <3>2, <4>1, <4>2, <4>3
    <3> QED
      BY <3>1, <3>2
  <2> QED
    BY <1>1, <2>2, <2>3, <2>4, DistanceStays DEF CostInv
<1> QED
  BY <1>5, <1>6, RelaxIs

LEMMA CostNext == PathTypeOK /\ CostInv /\ [PathNext]_pathVars => CostInv'
<1> SUFFICES ASSUME PathTypeOK, CostInv, [PathNext]_pathVars PROVE CostInv'
  OBVIOUS
<1>1. CASE Pop
  BY <1>1, PopIs, CostPop
<1>2. ASSUME NEW e \in Possible, Relax(e) PROVE CostInv'
  BY <1>2, CostRelax
<1>3. ASSUME UNCHANGED <<arguments, dist, prev, heap, node, todo>>,
             at' = at \/ (at = "pop" /\ at' = "none") \/ (todo = {} /\ at' = "pop" /\ at = "relax")
      PROVE  CostInv'
  <2>1. /\ \A v \in Nodes : Open(v)' <=> Open(v)
        /\ \A v \in Nodes : Closed(v)' <=> Closed(v)
    BY <1>3 DEF Open, Closed, Entry, arguments
  <2> QED
    BY <1>3, <2>1, DistanceStays DEF CostInv
<1>4. CASE Empty \/ Expanded \/ UNCHANGED pathVars
  BY <1>3, <1>4 DEF Empty, Expanded, pathVars
<1> QED
  BY <1>1, <1>2, <1>4 DEF PathNext

\* While a cheapest walk to the target is not found, a node of it is open at its distance.
Ahead(v) == /\ Open(v)
            /\ dist[v] + Distance(weight, v, To) <= Distance(weight, From, To)

LEMMA OneIsAhead ==
  ASSUME PathTypeOK, CostInv, at = "pop", Distance(weight, From, To) < Infinity
  PROVE  \E v \in Nodes : Ahead(v)
<1> DEFINE D(v) == Distance(weight, From, v)
           W(v, n) == CostWithin(weight, v, n)[To]
           A == {n \in Nat : \A v \in Nodes :
                   dist[v] = D(v) /\ D(v) + W(v, n) <= D(To) => \E u \in Nodes : Ahead(u)}
<1>1. /\ Weighted(weight) /\ From \in Nodes /\ To \in Nodes
      /\ \A v \in Nodes : D(v) \in Nat /\ dist[v] \in Nat /\ D(v) <= dist[v]
      /\ \A v \in Nodes, n \in Nat : W(v, n) \in Nat
  BY PathTypes, PathAssumption, DistanceIs, CostType DEF CostInv
<1>2. D(To) < Infinity /\ D(From) = 0 /\ dist[From] = 0
  BY <1>1, DistanceIs DEF CostInv
<1>3. \A v \in Nodes, n \in Nat :
        /\ Distance(weight, v, To) \in Nat /\ Distance(weight, v, To) <= W(v, n)
  BY <1>1, DistanceIs
<1>4. ASSUME NEW v \in Nodes, dist[v] < Infinity PROVE Open(v) \/ Closed(v)
  BY <1>4 DEF CostInv
<1>5. 0 \in A
  <2> SUFFICES ASSUME NEW v \in Nodes, dist[v] = D(v), D(v) + W(v, 0) <= D(To)
               PROVE  \E u \in Nodes : Ahead(u)
    OBVIOUS
  <2>1. W(v, 0) = IF To = v THEN 0 ELSE Infinity
    BY <1>1, CostSteps DEF AtOnce
  <2>2. v = To
    BY <1>1, <1>2, <2>1, PathAssumption
  <2>3. Distance(weight, To, To) = 0
    BY <1>1, DistanceIs
  <2>4. Open(To)
    BY <1>1, <1>2, <1>4, <2>2 DEF Closed
  <2> QED
    BY <1>1, <2>2, <2>3, <2>4 DEF Ahead
<1>6. ASSUME NEW n \in A \cap Nat PROVE n + 1 \in A
  <2>1. \A v \in Nodes : dist[v] = D(v) /\ D(v) + W(v, n) <= D(To) => \E u \in Nodes : Ahead(u)
    OBVIOUS
  <2>2. n \in Nat
    OBVIOUS
  <2> HIDE DEF A
  <2>3. ASSUME NEW v \in Nodes, dist[v] = D(v), D(v) + W(v, n + 1) <= D(To)
        PROVE  \E u \in Nodes : Ahead(u)
    <3>1. CASE W(v, n + 1) = W(v, n)
      BY <2>1, <2>3, <3>1
    <3>2. CASE Open(v)
      <4>1. Distance(weight, v, To) \in Nat /\ Distance(weight, v, To) <= W(v, n + 1) /\ W(v, n + 1) \in Nat
        BY <1>1, <1>3, <2>2
      <4>2. dist[v] + Distance(weight, v, To) <= D(To)
        BY <1>1, <2>3, <4>1
      <4> QED
        BY <3>2, <4>2 DEF Ahead
    <3>3. CASE W(v, n + 1) # W(v, n) /\ ~Open(v)
      <4>1. PICK e \in DOMAIN weight :
              e[1] = v /\ weight[e] + CostWithin(weight, e[3], n)[To] <= W(v, n + 1)
        BY <1>1, <2>2, <3>3, FirstEdges DEF FirstEdge
      <4>2. PICK x \in Nodes : x = e[3] /\ weight[e] \in Nat
        BY <1>1, EdgeEnds
      <4>3. weight[e] + W(x, n) <= W(v, n + 1)
        BY <4>1, <4>2
      <4>4. Closed(v)
        <5>1. W(v, n + 1) \in Nat
          BY <1>1, <2>2
        <5>2. dist[v] < Infinity
          BY <1>1, <1>2, <2>3, <5>1, PathAssumption
        <5> QED
          BY <1>4, <3>3, <5>2
      <4>5. dist[x] <= dist[v] + weight[e]
        BY <4>1, <4>2, <4>4 DEF Closed, CostInv
      <4>6. D(To) <= D(x) + W(x, n)
        BY <1>1, <2>2, Triangle
      <4>7. W(x, n) \in Nat /\ W(v, n + 1) \in Nat
        BY <1>1, <2>2
      <4>8. D(v) + weight[e] <= D(x)
        BY <1>1, <2>3, <4>2, <4>3, <4>6, <4>7
      <4>9. dist[x] = D(x) /\ D(x) + W(x, n) <= D(To)
        <5>1. D(x) \in Nat /\ dist[x] \in Nat /\ D(x) <= dist[x] /\ D(v) \in Nat /\ D(To) \in Nat
          BY <1>1
        <5>2. dist[x] <= D(v) + weight[e]
          BY <2>3, <4>5
        <5> HIDE DEF D, W
        <5>3. dist[x] = D(x)
          BY <4>2, <4>8, <5>1, <5>2
        <5>4. D(x) + W(x, n) <= D(v) + (weight[e] + W(x, n))
          BY <4>2, <4>7, <5>1, <5>2, <5>3
        <5> QED
          BY <2>3, <4>2, <4>3, <4>7, <5>1, <5>3, <5>4
      <4> QED
        BY <2>1, <4>9
    <3> QED
      BY <3>1, <3>2, <3>3
  <2> QED
    BY <2>3 DEF A
<1>7. PICK n \in Nat : n = Cardinality(Nodes)
  BY FS_CardinalityType, PathAssumption
<1>8. n \in A
  <2> HIDE DEF A
  <2> QED
    BY <1>5, <1>6, SetInduction
<1>9. W(From, n) = D(To)
  BY <1>7 DEF Distance
<1> QED
  BY <1>1, <1>2, <1>8, <1>9

LEMMA AnswerNext ==
  ASSUME PathTypeOK, CostInv, AnswerIsShortest, [PathNext]_pathVars
  PROVE  AnswerIsShortest'
<1>1. /\ \A v \in Nodes : Distance(weight, From, v) <= dist[v]
      /\ \A v \in Nodes : dist[v] \in Nat /\ heuristic[v] \in Nat
      /\ \A u, v \in Nodes : Distance(weight, u, v) \in Nat /\ Distance(weight, u, v) <= Infinity
      /\ From \in Nodes /\ To \in Nodes
  BY PathTypes, DistanceIs, PathAssumption DEF CostInv
<1>2. CASE Pop
  <2>1. PICK entry \in heap : Pops(entry)
    BY <1>2, PopIs
  <2>2. at = "pop" /\ dist' = dist /\ UNCHANGED arguments
    BY <2>1 DEF Pops
  <2>3. at' # "none"
    BY <2>1 DEF Pops
  <2> SUFFICES ASSUME at' = "found", Admissible' PROVE dist'[To] = Distance(weight, From, To)'
    BY <2>3 DEF AnswerIsShortest
  <2>4. Admissible
    BY <2>2, DistanceStays DEF Admissible, arguments
  <2>5. entry[2] = To
    BY <2>1 DEF Pops
  <2>6. dist[To] < Infinity /\ dist[To] + heuristic[To] <= entry[1] /\ entry[1] \in Nat
    BY <2>5, EntryIs
  <2>7. Distance(weight, From, To) < Infinity
    BY <1>1, <2>6, PathAssumption
  <2>8. PICK v \in Nodes : Ahead(v)
    BY <2>2, <2>7, OneIsAhead
  <2>9. entry[1] <= dist[v] + heuristic[v]
    BY <2>1, <2>8 DEF Pops, Ahead, Open, Entry
  <2>10. heuristic[v] <= Distance(weight, v, To)
    BY <2>4 DEF Admissible
  <2>11. dist[v] + Distance(weight, v, To) <= Distance(weight, From, To)
    BY <2>8 DEF Ahead
  <2>12. dist[To] <= Distance(weight, From, To)
    BY <1>1, <2>6, <2>9, <2>10, <2>11
  <2>13. dist[To] = Distance(weight, From, To)
    BY <1>1, <2>12
  <2> QED
    BY <2>2, <2>13, DistanceStays
<1>3. CASE Empty
  <2>1. at = "pop" /\ at' = "none" /\ heap = {} /\ UNCHANGED arguments
    BY <1>3 DEF Empty
  <2>2. Distance(weight, From, To) = Infinity
    <3> SUFFICES ASSUME Distance(weight, From, To) < Infinity PROVE FALSE
      BY <1>1, PathAssumption
    <3> QED
      BY <2>1, OneIsAhead DEF Ahead, Open
  <2> QED
    BY <2>1, <2>2, DistanceStays DEF AnswerIsShortest
<1>4. CASE Expanded \/ \E e \in Possible : Relax(e)
  BY <1>4 DEF Expanded, Relax, AnswerIsShortest
<1>5. CASE UNCHANGED pathVars
  <2>1. UNCHANGED arguments /\ UNCHANGED <<at, dist, heuristic>>
    BY <1>5 DEF pathVars, arguments
  <2> QED
    BY <2>1, DistanceStays DEF AnswerIsShortest, Admissible
<1> QED
  BY <1>2, <1>3, <1>4, <1>5 DEF PathNext

-----------------------------------------------------------------------------
(* search_internal: the path *)

\* A set has, with a node, every node whose predecessor it is.
Follows(T) == \A x \in Nodes : prev[x] # NoEdge /\ prev[x][1] \in T => x \in T

\* The nodes whose way back leads through u, with u.
Below(u) == {v \in Nodes : \A T \in SUBSET Nodes : u \in T /\ Follows(T) => v \in T}

TreeInv ==
  /\ prev[From] = NoEdge
  /\ \A v \in Nodes : prev[v] # NoEdge =>
       prev[v][3] = v /\ dist[prev[v][1]] + weight[prev[v]] <= dist[v]
  /\ \A v \in Nodes : dist[v] < Infinity => v \in Below(From)

\* What is Below u is in every set that has u and follows.
LEMMA BelowIn ==
  ASSUME NEW u, NEW T \in SUBSET Nodes, u \in T, Follows(T)
  PROVE  Below(u) \subseteq T
BY DEF Below

LEMMA BelowFollows ==
  ASSUME NEW u \in Nodes
  PROVE  u \in Below(u) /\ Follows(Below(u)) /\ Below(u) \in SUBSET Nodes
BY DEF Below, Follows

\* A node is above itself only by way of nodes that cost as much.
LEMMA BelowDearer ==
  ASSUME PathTypeOK, TreeInv, NEW u \in Nodes, NEW v \in Below(u)
  PROVE  v \in Nodes /\ dist[u] <= dist[v]
<1>1. PICK T \in SUBSET Nodes : T = {x \in Nodes : dist[u] <= dist[x]}
  OBVIOUS
<1>2. u \in T
  BY <1>1, PathTypes
<1>3. Follows(T)
  <2> SUFFICES ASSUME NEW x \in Nodes, prev[x] # NoEdge, prev[x][1] \in T PROVE x \in T
    BY DEF Follows
  <2>1. prev[x] \in DOMAIN weight
    BY DEF PathTypeOK
  <2>2. weight[prev[x]] \in Nat /\ prev[x][1] \in Nodes
    BY <2>1, EdgeEnds, PathTypes
  <2>3. dist[prev[x][1]] + weight[prev[x]] <= dist[x]
    BY DEF TreeInv
  <2>4. dist[u] <= dist[prev[x][1]]
    BY <1>1
  <2>5. dist[u] \in Nat /\ dist[x] \in Nat /\ dist[prev[x][1]] \in Nat
    BY <2>2, PathTypes
  <2> QED
    BY <1>1, <2>2, <2>3, <2>4, <2>5
<1>4. v \in T
  BY <1>2, <1>3, BelowIn
<1> QED
  BY <1>1, <1>4

\* What lowering the cost of a node does to the nodes below another.
LEMMA LowersBelow ==
  ASSUME PathTypeOK, TreeInv, NEW e \in Possible, Lowers(e), UNCHANGED arguments, e[1] = node
  PROVE  /\ node \notin Below(e[3])
         /\ \A u \in Nodes : node \notin Below(u) => /\ Below(u)' \subseteq Below(u)
                                                     /\ u # e[3] => e[3] \notin Below(u)'
         /\ \A u \in Nodes : node \in Below(u) => /\ Below(u) \subseteq Below(u)'
                                                  /\ e[3] \in Below(u)'
<1>1. /\ e \in DOMAIN weight /\ e[3] \in Nodes /\ node \in Nodes /\ weight[e] \in Nat
      /\ e # NoEdge
  BY EdgeEnds, PathTypes DEF Lowers
<1>2. /\ prev' = [prev EXCEPT ![e[3]] = e] /\ prev'[e[3]] = e
      /\ \A x \in Nodes : x # e[3] => prev'[x] = prev[x]
  BY LowersType DEF Lowers
<1>3. next_cost(e) = dist[node] + weight[e] /\ next_cost(e) < dist[e[3]]
  BY DEF Lowers, next_cost
<1>4. node \notin Below(e[3])
  <2> SUFFICES ASSUME node \in Below(e[3]) PROVE FALSE
    OBVIOUS
  <2>1. dist[e[3]] <= dist[node]
    BY <1>1, BelowDearer
  <2>2. dist[node] \in Nat /\ dist[e[3]] \in Nat
    BY <1>1, PathTypes
  <2> QED
    BY <1>1, <1>3, <2>1, <2>2
<1>5. ASSUME NEW u \in Nodes, node \notin Below(u)
      PROVE  Below(u)' \subseteq Below(u) /\ (u # e[3] => e[3] \notin Below(u)')
  <2>1. u \in Below(u) /\ Follows(Below(u)) /\ Below(u) \in SUBSET Nodes
    BY BelowFollows
  <2>2. ASSUME NEW T \in SUBSET Nodes, u \in T, Follows(T)' PROVE Below(u)' \subseteq T
    BY <2>2 DEF Below
  <2>3. Below(u)' \subseteq Below(u)
    <3>1. PICK T \in SUBSET Nodes : T = Below(u)
      BY <2>1
    <3>2. Follows(T)'
      <4> SUFFICES ASSUME NEW x \in Nodes, prev'[x] # NoEdge, prev'[x][1] \in T PROVE x \in T
        BY DEF Follows
      <4>1. x # e[3]
        BY <1>2, <1>5, <3>1
      <4> QED
        BY <1>2, <2>1, <3>1, <4>1 DEF Follows
    <3> QED
      BY <2>1, <2>2, <3>1, <3>2
  <2>4. ASSUME u # e[3] PROVE e[3] \notin Below(u)'
    <3>1. PICK T \in SUBSET Nodes : T = Below(u) \ {e[3]}
      BY <2>1
    <3>2. Follows(T)'
      <4> SUFFICES ASSUME NEW x \in Nodes, prev'[x] # NoEdge, prev'[x][1] \in T PROVE x \in T
        BY DEF Follows
      <4>1. x # e[3]
        BY <1>2, <1>5, <3>1
      <4> QED
        BY <1>2, <2>1, <3>1, <4>1 DEF Follows
    <3> QED
      BY <2>1, <2>2, <2>4, <3>1, <3>2
  <2> QED
    BY <2>3, <2>4
<1>6. ASSUME NEW u \in Nodes, node \in Below(u)
      PROVE  Below(u) \subseteq Below(u)' /\ e[3] \in Below(u)'
  <2> SUFFICES ASSUME NEW T \in SUBSET Nodes, u \in T, Follows(T)'
               PROVE  Below(u) \subseteq T /\ e[3] \in T
    BY <1>1 DEF Below
  <2>1. \A x \in Nodes : prev'[x] # NoEdge /\ prev'[x][1] \in T => x \in T
    BY DEF Follows
  <2>2. PICK B \in SUBSET Nodes : B = Below(e[3])
    BY <1>1, BelowFollows
  <2>3. e[3] \in B /\ Follows(B) /\ node \notin B
    BY <1>1, <1>4, <2>2, BelowFollows
  <2>4. PICK S \in SUBSET Nodes : S = T \cup B
    OBVIOUS
  <2>5. Follows(S)
    <3> SUFFICES ASSUME NEW x \in Nodes, prev[x] # NoEdge, prev[x][1] \in S PROVE x \in S
      BY DEF Follows
    <3>1. CASE x = e[3]
      BY <2>3, <2>4, <3>1
    <3>2. CASE x # e[3]
      BY <1>2, <2>1, <2>3, <2>4, <3>2 DEF Follows
    <3> QED
      BY <3>1, <3>2
  <2>6. node \in T
    BY <1>6, <2>3, <2>4, <2>5, BelowIn
  <2>7. e[3] \in T
    BY <1>1, <1>2, <2>1, <2>6
  <2>8. Follows(T)
    <3> SUFFICES ASSUME NEW x \in Nodes, prev[x] # NoEdge, prev[x][1] \in T PROVE x \in T
      BY DEF Follows
    <3> QED
      BY <1>2, <2>1, <2>7
  <2> QED
    BY <2>7, <2>8, BelowIn
<1> QED
  BY <1>4, <1>5, <1>6

LEMMA BelowStays == ASSUME UNCHANGED prev PROVE \A u : Below(u)' = Below(u)
BY DEF Below, Follows

LEMMA TreeStart == PathInit => TreeInv
<1> SUFFICES ASSUME PathInit PROVE TreeInv
  OBVIOUS
<1>1. \A v \in Nodes : dist[v] < Infinity => v = From
  BY PathAssumption DEF PathInit
<1>2. From \in Below(From)
  BY BelowFollows, PathAssumption
<1> QED
  BY <1>1, <1>2, PathAssumption DEF PathInit, TreeInv

LEMMA TreeNext == PathTypeOK /\ CostInv /\ TreeInv /\ [PathNext]_pathVars => TreeInv'
<1> SUFFICES ASSUME PathTypeOK, CostInv, TreeInv, [PathNext]_pathVars PROVE TreeInv'
  OBVIOUS
<1>1. CASE UNCHANGED <<arguments, dist, prev>>
  BY <1>1, BelowStays DEF TreeInv, arguments
<1>2. ASSUME NEW e \in Possible, Relax(e), Lowers(e) PROVE TreeInv'
  <2>1. UNCHANGED arguments /\ weight' = weight /\ e[1] = node
    BY <1>2 DEF Relax, arguments, CostInv
  <2>2. /\ e \in DOMAIN weight /\ e[3] \in Nodes /\ weight[e] \in Nat /\ node \in Nodes
        /\ next_cost(e) = dist[node] + weight[e] /\ next_cost(e) < dist[e[3]]
    BY <1>2, EdgeEnds, PathTypes DEF Lowers, next_cost, PathTypeOK
  <2>3. /\ dist'[e[3]] = next_cost(e) /\ prev'[e[3]] = e
        /\ \A n \in Nodes : n # e[3] => dist'[n] = dist[n] /\ prev'[n] = prev[n]
        /\ \A n \in Nodes : dist'[n] \in Nat /\ dist'[n] <= dist[n]
    BY <1>2, <2>1, LowersType
  <2>4. \A n \in Nodes : dist[n] \in Nat /\ dist[n] <= Infinity
    BY PathTypes
  <2>5. From # e[3]
    BY <2>2, <2>4, PathAssumption DEF CostInv
  <2>6. prev'[From] = NoEdge
    BY <2>3, <2>5, PathAssumption DEF TreeInv
  <2>7. ASSUME NEW v \in Nodes, prev'[v] # NoEdge
        PROVE  prev'[v][3] = v /\ dist'[prev'[v][1]] + weight[prev'[v]] <= dist'[v]
    <3>1. CASE v = e[3]
      <4>1. dist'[node] <= dist[node] /\ dist'[node] \in Nat /\ dist[node] \in Nat
        BY <2>2, <2>3, <2>4
      <4> QED
        BY <2>1, <2>2, <2>3, <3>1, <4>1
    <3>2. CASE v # e[3]
      <4>1. prev'[v] = prev[v] /\ dist'[v] = dist[v]
        BY <2>3, <3>2
      <4>2. prev[v][3] = v /\ dist[prev[v][1]] + weight[prev[v]] <= dist[v]
        BY <2>7, <4>1 DEF TreeInv
      <4>3. prev[v] \in DOMAIN weight
        BY <2>7, <4>1 DEF PathTypeOK
      <4>4. PICK x \in Nodes : x = prev[v][1] /\ weight[prev[v]] \in Nat
        BY <4>3, EdgeEnds, PathTypes
      <4>5. dist'[x] <= dist[x] /\ dist'[x] \in Nat /\ dist[x] \in Nat /\ dist[v] \in Nat
        BY <2>3, <2>4
      <4> QED
        BY <4>1, <4>2, <4>4, <4>5
    <3> QED
      BY <3>1, <3>2
  <2>8. ASSUME NEW v \in Nodes, dist'[v] < Infinity PROVE v \in Below(From)'
    <3>1. node \in Below(From)
      <4>1. dist[node] < Infinity
        BY <2>2, <2>4, PathAssumption
      <4> QED
        BY <2>2, <4>1 DEF TreeInv
    <3>2. Below(From) \subseteq Below(From)' /\ e[3] \in Below(From)'
      BY <1>2, <2>1, <3>1, LowersBelow, PathAssumption
    <3>3. v # e[3] => v \in Below(From)
      BY <2>3, <2>8 DEF TreeInv
    <3> QED
      BY <3>2, <3>3
  <2> QED
    BY <2>1, <2>6, <2>7, <2>8 DEF TreeInv
<1>3. ASSUME NEW e \in Possible, Relax(e) PROVE TreeInv'
  <2>1. Lowers(e) \/ UNCHANGED <<arguments, dist, prev>>
    BY <1>3, RelaxIs DEF Relax
  <2> QED
    BY <1>1, <1>2, <1>3, <2>1
<1> QED
  BY <1>1, <1>3 DEF PathNext, Pop, Empty, Expanded, pathVars

\* The cost that a fresh entry of a node has.
Estimate(u) == dist[u] + heuristic[u]

BelowLater(u) == \A entry \in heap : entry[2] \in Below(u) => Estimate(u) <= entry[1]
OthersLater(u) == \A entry \in heap : entry[2] \notin Below(u) => Estimate(u) <= entry[1]

\* A node that is open again comes before all that is below it.  Once it has been popped,
\* what is below it and the others do not both have entries that are cheaper than it was.
InOrder(u) ==
  IF Open(u)
  THEN /\ \A entry \in heap : entry[2] \in Below(u) \ {u} => Estimate(u) < entry[1]
       /\ at = "relax" => node \notin Below(u)
  ELSE IF at = "relax" THEN IF node \in Below(u) THEN OthersLater(u) ELSE BelowLater(u)
  ELSE OthersLater(u) \/ BelowLater(u)

OrderInv == at \in {"pop", "relax"} => \A u \in Nodes : dist[u] < Infinity => InOrder(u)

LEMMA OrderStart == PathInit => OrderInv
<1> SUFFICES ASSUME PathInit, NEW u \in Nodes, dist[u] < Infinity PROVE InOrder(u)
  BY DEF OrderInv
<1>1. u = From /\ at = "pop"
  BY PathAssumption DEF PathInit
<1>2. Open(u) /\ \A entry \in heap : entry[2] = u
  BY <1>1, PathAssumption DEF PathInit, Open, Entry
<1> QED
  BY <1>1, <1>2 DEF InOrder

LEMMA EntryTypes ==
  ASSUME PathTypeOK
  PROVE  /\ \A u \in Nodes : Estimate(u) \in Nat
         /\ \A entry \in heap : entry[1] \in Nat /\ entry[2] \in Nodes
<1>1. \A u \in Nodes : Estimate(u) \in Nat
  BY PathTypes DEF Estimate
<1> QED
  BY <1>1, EntryIs

LEMMA OrderPop ==
  ASSUME PathTypeOK, OrderInv, NEW entry, Pops(entry)
  PROVE  OrderInv'
<1> SUFFICES ASSUME at' = "relax", NEW u \in Nodes, dist'[u] < Infinity PROVE InOrder(u)'
  BY DEF OrderInv, Pops
<1>1. /\ UNCHANGED <<arguments, dist, prev>> /\ weight' = weight /\ heuristic' = heuristic
      /\ dist' = dist /\ at = "pop" /\ entry \in heap /\ heap' = heap \ {entry} /\ node' = entry[2]
      /\ \A other \in heap : entry[1] <= other[1]
  BY DEF Pops, arguments
<1>2. PICK B : B = Below(u) /\ B = Below(u)'
  BY <1>1, BelowStays
<1>3. PICK c \in Nat : c = Estimate(u) /\ c = Estimate(u)'
  BY <1>1, EntryTypes DEF Estimate
<1>4. Open(u)' <=> Open(u) /\ entry # Entry(u, dist[u])
  BY <1>1 DEF Open, Entry
<1>5. InOrder(u)
  BY <1>1 DEF OrderInv
<1>6. \A other \in heap : other[1] \in Nat /\ other[2] \in Nodes
  BY EntryTypes
<1>7. CASE entry = Entry(u, dist[u])
  <2>1. entry[1] = c /\ entry[2] = u
    BY <1>3, <1>7 DEF Entry, Estimate
  <2>2. u \in B
    BY <1>2, BelowFollows
  <2>3. \A other \in heap' : c <= other[1]
    BY <1>1, <2>1
  <2> QED
    BY <1>1, <1>2, <1>3, <1>4, <1>7, <2>1, <2>2, <2>3 DEF InOrder, OthersLater
<1>8. CASE Open(u) /\ entry # Entry(u, dist[u])
  <2>1. /\ \A other \in heap : other[2] \in B \ {u} => c < other[1]
    BY <1>2, <1>3, <1>5, <1>8 DEF InOrder
  <2>2. entry[1] <= c
    BY <1>1, <1>3, <1>8 DEF Open, Entry, Estimate
  <2>3. entry[2] \notin B \ {u}
    BY <1>1, <1>6, <2>1, <2>2
  <2>4. entry[2] # u
    BY <1>1, <1>3, <1>8, <2>2, EntryIs DEF Estimate
  <2> QED
    BY <1>1, <1>2, <1>3, <1>4, <1>8, <2>1, <2>3, <2>4 DEF InOrder
<1>9. CASE ~Open(u)
  <2>1. OthersLater(u) \/ BelowLater(u)
    BY <1>1, <1>5, <1>9 DEF InOrder
  <2>2. entry[2] \in B => \A other \in heap : other[2] \notin B => c <= other[1]
    <3> SUFFICES ASSUME entry[2] \in B, NEW other \in heap, other[2] \notin B PROVE c <= other[1]
      OBVIOUS
    <3>1. c <= other[1] \/ c <= entry[1]
      BY <1>1, <1>2, <1>3, <2>1 DEF OthersLater, BelowLater
    <3>2. entry[1] <= other[1] /\ entry[1] \in Nat /\ other[1] \in Nat
      BY <1>1, <1>6
    <3> QED
      BY <3>1, <3>2
  <2>3. entry[2] \notin B => \A other \in heap : other[2] \in B => c <= other[1]
    <3> SUFFICES ASSUME entry[2] \notin B, NEW other \in heap, other[2] \in B PROVE c <= other[1]
      OBVIOUS
    <3>1. c <= other[1] \/ c <= entry[1]
      BY <1>1, <1>2, <1>3, <2>1 DEF OthersLater, BelowLater
    <3>2. entry[1] <= other[1] /\ entry[1] \in Nat /\ other[1] \in Nat
      BY <1>1, <1>6
    <3> QED
      BY <3>1, <3>2
  <2> QED
    BY <1>1, <1>2, <1>3, <1>4, <1>9, <2>2, <2>3 DEF InOrder, OthersLater, BelowLater
<1> QED
  BY <1>7, <1>8, <1>9

LEMMA OrderLowers ==
  ASSUME PathTypeOK, CostInv, TreeInv, OrderInv, NEW e \in Possible, Relax(e), Lowers(e)
  PROVE  OrderInv'
<1> SUFFICES ASSUME NEW u \in Nodes, dist'[u] < Infinity PROVE InOrder(u)'
  BY DEF OrderInv
<1>1. /\ UNCHANGED arguments /\ weight' = weight /\ heuristic' = heuristic
      /\ at' = "relax" /\ at = "relax" /\ node' = node /\ e[1] = node
  BY DEF Relax, arguments, CostInv
<1>2. /\ e[3] \in Nodes /\ dist'[e[3]] = next_cost(e) /\ next_cost(e) < dist[e[3]]
      /\ \A n \in Nodes : n # e[3] => dist'[n] = dist[n]
      /\ \A n \in Nodes : dist'[n] \in Nat /\ dist[n] \in Nat
      /\ heap' = heap \cup {Entry(e[3], next_cost(e))}
  BY <1>1, LowersType, PathTypes DEF Lowers
<1>3. Entry(e[3], next_cost(e))[2] = e[3]
  BY DEF Entry
<1>4. /\ node \notin Below(e[3])
      /\ node \notin Below(u) => Below(u)' \subseteq Below(u) /\ (u # e[3] => e[3] \notin Below(u)')
      /\ node \in Below(u) => Below(u) \subseteq Below(u)' /\ e[3] \in Below(u)'
  BY <1>1, LowersBelow
<1>5. \A entry \in heap : entry[1] \in Nat /\ dist[entry[2]] < Infinity
  BY EntryTypes, EntryIs
<1>6. Estimate(u) \in Nat /\ Estimate(u)' \in Nat /\ heuristic[u] \in Nat
  BY <1>1, <1>2, PathTypes DEF Estimate
<1>7. CASE u = e[3]
  <2>1. Open(u)'
    BY <1>1, <1>2, <1>7 DEF Open, Entry
  <2>2. Estimate(u)' < Estimate(u)
    BY <1>1, <1>2, <1>6, <1>7 DEF Estimate
  <2>3. node' \notin Below(u)'
    BY <1>1, <1>4, <1>7
  <2>4. ASSUME NEW entry \in heap', entry[2] \in Below(u)' \ {u} PROVE Estimate(u)' < entry[1]
    <3>1. entry \in heap /\ entry[2] \in Below(u) \ {u}
      BY <1>2, <1>3, <1>4, <1>7, <2>4
    <3>2. dist[u] < Infinity
      <4>1. dist[u] <= dist[entry[2]] /\ entry[2] \in Nodes
        BY <3>1, BelowDearer
      <4>2. dist[entry[2]] \in Nat /\ dist[entry[2]] < Infinity
        BY <1>2, <1>5, <3>1, <4>1
      <4> QED
        BY <1>2, <4>1, <4>2, PathAssumption
    <3>3. Estimate(u) <= entry[1]
      <4>1. InOrder(u)
        BY <1>1, <3>2 DEF OrderInv
      <4> QED
        BY <1>1, <1>4, <1>5, <1>6, <1>7, <3>1, <4>1 DEF InOrder, BelowLater
    <3> QED
      BY <1>5, <1>6, <2>2, <3>1, <3>3
  <2> QED
    BY <2>1, <2>3, <2>4 DEF InOrder
<1>8. CASE u # e[3]
  <2>1. Estimate(u)' = Estimate(u) /\ dist'[u] = dist[u]
    BY <1>1, <1>2, <1>8 DEF Estimate
  <2>2. InOrder(u)
    BY <1>1, <2>1 DEF OrderInv
  <2>3. Open(u)' <=> Open(u)
    BY <1>1, <1>2, <1>8, <2>1 DEF Open, Entry
  <2>4. CASE node \in Below(u)
    <3>1. ~Open(u) /\ OthersLater(u)
      BY <1>1, <2>2, <2>4 DEF InOrder
    <3>2. node' \in Below(u)'
      BY <1>1, <1>4, <2>4
    <3>3. ASSUME NEW entry \in heap', entry[2] \notin Below(u)' PROVE Estimate(u)' <= entry[1]
      <4>1. entry \in heap /\ entry[2] \notin Below(u)
        BY <1>2, <1>3, <1>4, <2>4, <3>3
      <4> QED
        BY <2>1, <3>1, <4>1 DEF OthersLater
    <3> QED
      BY <1>1, <2>3, <3>1, <3>2, <3>3 DEF InOrder, OthersLater
  <2>5. CASE node \notin Below(u)
    <3>1. node' \notin Below(u)'
      BY <1>1, <1>4, <2>5
    <3>2. ASSUME NEW entry \in heap', entry[2] \in Below(u)' PROVE entry \in heap /\ entry[2] \in Below(u)
      BY <1>2, <1>3, <1>4, <1>8, <2>5, <3>2
    <3>3. CASE Open(u)
      BY <1>1, <2>1, <2>2, <2>3, <3>1, <3>2, <3>3 DEF InOrder
    <3>4. CASE ~Open(u)
      <4>1. BelowLater(u)
        BY <1>1, <2>2, <2>5, <3>4 DEF InOrder
      <4>2. BelowLater(u)'
        BY <2>1, <3>2, <4>1 DEF BelowLater
      <4> QED
        BY <1>1, <2>3, <3>1, <3>4, <4>2 DEF InOrder
    <3> QED
      BY <3>3, <3>4
  <2> QED
    BY <2>4, <2>5
<1> QED
  BY <1>7, <1>8

LEMMA OrderNext == PathTypeOK /\ CostInv /\ TreeInv /\ OrderInv /\ [PathNext]_pathVars => OrderInv'
<1> SUFFICES ASSUME PathTypeOK, CostInv, TreeInv, OrderInv, [PathNext]_pathVars PROVE OrderInv'
  OBVIOUS
<1>1. CASE Pop
  BY <1>1, PopIs, OrderPop
<1>2. ASSUME UNCHANGED <<arguments, dist, prev, heap, node>>,
             at' = at \/ at' = "none" \/ (at = "relax" /\ at' = "pop")
      PROVE  OrderInv'
  <2> SUFFICES ASSUME at' # "none", NEW u \in Nodes, dist'[u] < Infinity, at' \in {"pop", "relax"}
               PROVE  InOrder(u)'
    BY DEF OrderInv
  <2>1. InOrder(u)
    BY <1>2 DEF OrderInv
  <2>2. /\ Below(u)' = Below(u) /\ Estimate(u)' = Estimate(u) /\ Open(u)' = Open(u)
        /\ OthersLater(u)' = OthersLater(u) /\ BelowLater(u)' = BelowLater(u)
    BY <1>2, BelowStays DEF Estimate, Open, Entry, OthersLater, BelowLater, arguments
  <2> QED
    BY <1>2, <2>1, <2>2 DEF InOrder
<1>3. ASSUME NEW e \in Possible, Relax(e) PROVE OrderInv'
  <2>1. CASE Lowers(e)
    BY <1>3, <2>1, OrderLowers
  <2>2. CASE UNCHANGED <<dist, prev, heap>>
    BY <1>2, <1>3, <2>2 DEF Relax
  <2> QED
    BY <1>3, <2>1, <2>2, RelaxIs
<1>4. CASE Empty \/ Expanded \/ UNCHANGED pathVars
  BY <1>2, <1>4 DEF Empty, Expanded, pathVars
<1> QED
  BY <1>1, <1>3, <1>4 DEF PathNext

-----------------------------------------------------------------------------
(* search_internal: the way back *)

\* One edge back.
OneBack(b) ==
  LET e == prev[b.at]
  IN  IF e = NoEdge THEN b ELSE [at |-> e[1], cost |-> b.cost + weight[e]]

IsBack(f, n) == f = [m \in 0 .. n |-> IF m = 0 THEN [at |-> To, cost |-> 0] ELSE OneBack(f[m - 1])]

Places == [at : Nodes, cost : Nat]

LEMMA OneBackIs ==
  ASSUME PathTypeOK, NEW b \in Places
  PROVE  OneBack(b) \in Places
<1>1. b.at \in Nodes /\ b.cost \in Nat /\ prev[b.at] \in DOMAIN weight \cup {NoEdge}
  BY DEF Places, PathTypeOK
<1>2. CASE prev[b.at] = NoEdge
  BY <1>2 DEF OneBack
<1>3. CASE prev[b.at] # NoEdge
  <2>1. prev[b.at][1] \in Nodes /\ weight[prev[b.at]] \in Nat
    BY <1>1, <1>3, EdgeEnds, PathTypes
  <2> QED
    BY <1>1, <1>3, <2>1 DEF OneBack, Places
<1> QED
  BY <1>2, <1>3

LEMMA BacksAgree ==
  ASSUME NEW m \in Nat, NEW n \in Nat, m <= n, NEW f, IsBack(f, m), NEW g, IsBack(g, n)
  PROVE  f[m] = g[m]
<1> DEFINE A == {k \in Nat : k <= m => f[k] = g[k]}
<1>1. 0 \in A
  BY DEF IsBack
<1>2. ASSUME NEW k \in A \cap Nat PROVE k + 1 \in A
  <2> SUFFICES ASSUME k + 1 <= m PROVE f[k + 1] = g[k + 1]
    OBVIOUS
  <2>1. k + 1 \in 0 .. m /\ k + 1 \in 0 .. n /\ k + 1 # 0 /\ (k + 1) - 1 = k /\ f[k] = g[k]
    OBVIOUS
  <2> HIDE DEF A
  <2>2. f[k + 1] = OneBack(f[k]) /\ g[k + 1] = OneBack(g[k])
    BY <2>1 DEF IsBack
  <2> QED
    BY <2>1, <2>2
<1> HIDE DEF A
<1>3. m \in A
  BY <1>1, <1>2, SetInduction
<1> QED
  BY <1>3 DEF A

LEMMA BackFunction ==
  ASSUME PathTypeOK, NEW n \in Nat
  PROVE  \E f \in [0 .. n -> Places] : IsBack(f, n) /\ f[n] = Back(n)
<1>1. [at |-> To, cost |-> 0] \in Places
  BY PathAssumption DEF Places
<1>2. PICK step : step = [k \in 1 .. n |-> [b \in Places |-> OneBack(b)]]
  OBVIOUS
<1>3. \A k \in 1 .. n : step[k] \in [Places -> Places] /\ \A b \in Places : step[k][b] = OneBack(b)
  BY <1>2, OneBackIs
<1>4. PICK f \in [0 .. n -> Places] : IsFold(f, [at |-> To, cost |-> 0], step, n)
  BY <1>1, <1>3, FoldExists
<1>5. ASSUME NEW m \in 0 .. n PROVE f[m] = IF m = 0 THEN [at |-> To, cost |-> 0] ELSE OneBack(f[m - 1])
  <2>1. f[m] = IF m = 0 THEN [at |-> To, cost |-> 0] ELSE step[m][f[m - 1]]
    BY <1>4 DEF IsFold
  <2>2. m # 0 => m \in 1 .. n /\ m - 1 \in 0 .. n
    OBVIOUS
  <2> QED
    BY <2>1, <2>2, <1>3
<1>6. IsBack(f, n)
  BY <1>5 DEF IsBack
<1>7. Back(n) = (CHOOSE g : IsBack(g, n))[n]
  BY DEF Back, IsBack, OneBack
<1>8. PICK g : g = CHOOSE h : IsBack(h, n)
  OBVIOUS
<1>9. IsBack(g, n)
  BY <1>6, <1>8
<1>10. f[n] = g[n]
  BY <1>6, <1>9, BacksAgree
<1> QED
  BY <1>6, <1>7, <1>8, <1>10

LEMMA BackSteps ==
  ASSUME PathTypeOK
  PROVE  /\ Back(0) = [at |-> To, cost |-> 0]
         /\ \A n \in Nat : Back(n) \in Places /\ Back(n + 1) = OneBack(Back(n))
<1>1. Back(0) = [at |-> To, cost |-> 0]
  <2>1. PICK f \in [0 .. 0 -> Places] : IsBack(f, 0) /\ f[0] = Back(0)
    BY BackFunction
  <2> QED
    BY <2>1 DEF IsBack
<1>2. ASSUME NEW n \in Nat PROVE Back(n) \in Places /\ Back(n + 1) = OneBack(Back(n))
  <2>1. PICK f \in [0 .. n -> Places] : IsBack(f, n) /\ f[n] = Back(n)
    BY BackFunction
  <2>2. PICK g \in [0 .. (n + 1) -> Places] : IsBack(g, n + 1) /\ g[n + 1] = Back(n + 1)
    BY BackFunction
  <2>3. f[n] = g[n]
    BY <2>1, <2>2, BacksAgree
  <2>4. g[n + 1] = OneBack(g[n])
    <3>1. n + 1 \in 0 .. (n + 1) /\ n + 1 # 0 /\ (n + 1) - 1 = n
      OBVIOUS
    <3> QED
      BY <2>2, <3>1 DEF IsBack
  <2> QED
    BY <2>1, <2>2, <2>3, <2>4
<1> QED
  BY <1>1, <1>2

\* The nodes of the first n edges of the way back.
Passed(n) == {Back(m).at : m \in 0 .. n}

\* The way back does not go in circles: it comes to the start.
LEMMA BackToStart ==
  ASSUME PathTypeOK, TreeInv, dist[To] < Infinity
  PROVE  Back(Cardinality(Nodes)).at = From
<1> DEFINE N == Cardinality(Nodes)
<1>1. N \in Nat
  BY FS_CardinalityType, PathAssumption
<1>2. \A n \in Nat : Back(n).at \in Nodes /\ Back(n + 1) = OneBack(Back(n))
  BY BackSteps DEF Places
<1>3. ASSUME NEW n \in Nat, Back(n).at = From PROVE Back(n + 1).at = From
  BY <1>2, <1>3 DEF OneBack, TreeInv
<1>4. ASSUME NEW n \in Nat, \A m \in 0 .. n : Back(m).at # From
      PROVE  Back(n + 1).at \notin Passed(n)
  <2> SUFFICES ASSUME Back(n + 1).at \in Passed(n) PROVE FALSE
    OBVIOUS
  <2>1. PICK T \in SUBSET Nodes : T = Nodes \ Passed(n)
    OBVIOUS
  <2>2. From \in T
    BY <1>4, <2>1, PathAssumption DEF Passed
  <2>3. Follows(T)
    <3> SUFFICES ASSUME NEW x \in Nodes, prev[x] # NoEdge, prev[x][1] \in T, x \notin T PROVE FALSE
      BY DEF Follows
    <3>1. PICK m \in 0 .. n : x = Back(m).at
      BY <2>1 DEF Passed
    <3>2. Back(m + 1).at = prev[x][1]
      <4>1. m \in Nat /\ Back(m + 1) = OneBack(Back(m))
        BY <1>2
      <4> QED
        BY <3>1, <4>1 DEF OneBack
    <3>3. Back(m + 1).at \in Passed(n)
      <4>1. m + 1 \in 0 .. n \/ m + 1 = n + 1
        OBVIOUS
      <4> QED
        BY <4>1 DEF Passed
    <3> QED
      BY <2>1, <3>2, <3>3
  <2>4. To \in T
    BY <2>2, <2>3, BelowIn, PathAssumption DEF TreeInv
  <2>5. To \in Passed(n)
    <3>1. Back(0).at = To /\ 0 \in 0 .. n
      BY BackSteps
    <3> QED
      BY <3>1 DEF Passed
  <2> QED
    BY <2>1, <2>4, <2>5
<1>5. \E m \in 0 .. N : Back(m).at = From
  <2> SUFFICES ASSUME \A m \in 0 .. N : Back(m).at # From PROVE FALSE
    OBVIOUS
  <2> DEFINE A == {n \in Nat : n <= N => Cardinality(Passed(n)) >= n + 1}
  <2>1. \A n \in Nat : /\ Passed(n) \subseteq Nodes /\ IsFiniteSet(Passed(n))
                       /\ Cardinality(Passed(n)) \in Nat /\ Cardinality(Passed(n)) <= N
    <3> SUFFICES ASSUME NEW n \in Nat
                 PROVE  /\ Passed(n) \subseteq Nodes /\ IsFiniteSet(Passed(n))
                        /\ Cardinality(Passed(n)) \in Nat /\ Cardinality(Passed(n)) <= N
      OBVIOUS
    <3>1. Passed(n) \subseteq Nodes
      BY <1>2 DEF Passed
    <3> QED
      BY <3>1, FS_Subset, FS_CardinalityType, PathAssumption
  <2>2. 0 \in A
    <3>1. Passed(0) # {}
      BY DEF Passed
    <3>2. Cardinality(Passed(0)) # 0
      BY <2>1, <3>1, FS_EmptySet
    <3> QED
      BY <2>1, <3>2
  <2>3. ASSUME NEW n \in A \cap Nat PROVE n + 1 \in A
    <3> SUFFICES ASSUME n + 1 <= N PROVE Cardinality(Passed(n + 1)) >= (n + 1) + 1
      OBVIOUS
    <3>1. n \in Nat /\ Cardinality(Passed(n)) >= n + 1
      BY <1>1
    <3> HIDE DEF A
    <3>2. \A m \in 0 .. n : Back(m).at # From
      BY <1>1, <3>1
    <3>3. Back(n + 1).at \notin Passed(n)
      BY <1>4, <3>1, <3>2
    <3>4. Passed(n + 1) = Passed(n) \cup {Back(n + 1).at}
      <4>1. 0 .. (n + 1) = (0 .. n) \cup {n + 1}
        BY <3>1
      <4> QED
        BY <4>1 DEF Passed
    <3>5. Cardinality(Passed(n + 1)) = Cardinality(Passed(n)) + 1
      <4>1. PICK x : x = Back(n + 1).at
        OBVIOUS
      <4>2. IsFiniteSet(Passed(n)) /\ x \notin Passed(n) /\ Passed(n + 1) = Passed(n) \cup {x}
        BY <2>1, <3>1, <3>3, <3>4, <4>1
      <4> HIDE DEF N
      <4> QED
        BY <4>2, FS_AddElement
    <3>6. Cardinality(Passed(n)) \in Nat
      BY <2>1, <3>1
    <3> QED
      BY <3>1, <3>5, <3>6
  <2>4. N \in A
    <3> HIDE DEF A, N
    <3> QED
      BY <1>1, <2>2, <2>3, SetInduction
  <2>5. Cardinality(Passed(N)) >= N + 1
    BY <1>1, <2>4
  <2>6. Cardinality(Passed(N)) \in Nat /\ Cardinality(Passed(N)) <= N
    BY <1>1, <2>1
  <2> HIDE DEF N
  <2> QED
    BY <1>1, <2>5, <2>6
<1>6. PICK m \in 0 .. N : Back(m).at = From
  BY <1>5
<1> DEFINE S == {k \in Nat : Back(m + k).at = From}
<1>7. 0 \in S
  BY <1>6
<1>8. ASSUME NEW k \in S \cap Nat PROVE k + 1 \in S
  <2>1. m + k \in Nat /\ m + (k + 1) = (m + k) + 1
    BY <1>1
  <2>2. Back((m + k) + 1).at = From
    BY <1>3, <2>1
  <2> QED
    BY <2>1, <2>2
<1>9. N - m \in S
  <2>1. N - m \in Nat
    BY <1>1
  <2> HIDE DEF S, N
  <2> QED
    BY <1>7, <1>8, <2>1, SetInduction
<1>10. m + (N - m) = N
  BY <1>1
<1> QED
  BY <1>9, <1>10

\* When the target is popped, the way back costs what was found for it.
LEMMA BackCosts ==
  ASSUME PathTypeOK, CostInv, TreeInv, OrderInv, NEW entry, Pops(entry), entry[2] = To, NEW n \in Nat
  PROVE  /\ Back(n).cost + dist[Back(n).at] = dist[To]
         /\ To \in Below(Back(n).at)
<1> DEFINE A == {m \in Nat : /\ Back(m).cost + dist[Back(m).at] = dist[To]
                             /\ To \in Below(Back(m).at)}
<1>1. at = "pop" /\ entry \in heap /\ \A other \in heap : entry[1] <= other[1]
  BY DEF Pops
<1>2. todo = {} /\ dist[To] < Infinity /\ entry[1] \in Nat
  BY <1>1, EntryIs DEF CostInv
<1>3. 0 \in A
  <2>1. To \in Below(To)
    BY BelowFollows, PathAssumption
  <2>2. dist[To] \in Nat
    BY PathTypes, PathAssumption
  <2>3. Back(0).cost = 0 /\ Back(0).at = To
    BY BackSteps
  <2> QED
    BY <2>1, <2>2, <2>3
<1>4. ASSUME NEW m \in A \cap Nat PROVE m + 1 \in A
  <2>1. PICK a \in Nodes, c \in Nat : a = Back(m).at /\ c = Back(m).cost
    BY BackSteps DEF Places
  <2>2. c + dist[a] = dist[To] /\ To \in Below(a) /\ m \in Nat
    BY <2>1
  <2> HIDE DEF A
  <2>3. Back(m + 1) = OneBack(Back(m))
    BY BackSteps
  <2>4. CASE prev[a] = NoEdge
    BY <2>1, <2>2, <2>3, <2>4 DEF A, OneBack
  <2>5. CASE prev[a] # NoEdge
    <3>1. PICK e \in DOMAIN weight : e = prev[a]
      BY <2>5 DEF PathTypeOK
    <3>2. e[3] = a /\ dist[e[1]] + weight[e] <= dist[a]
      BY <2>5, <3>1 DEF TreeInv
    <3>3. PICK b \in Nodes : b = e[1] /\ weight[e] \in Nat
      BY EdgeEnds, PathTypes
    <3>4. Back(m + 1).at = b /\ Back(m + 1).cost = c + weight[e]
      BY <2>1, <2>3, <2>5, <3>1, <3>3 DEF OneBack
    <3>5. dist[a] \in Nat /\ dist[b] \in Nat /\ dist[To] \in Nat /\ Infinity \in Nat
      BY PathTypes, PathAssumption
    <3>6. dist[b] < Infinity /\ dist[b] <= dist[To]
      BY <1>2, <2>2, <3>2, <3>3, <3>5
    <3>7. To \in Below(b)
      <4>1. b \in Below(b) /\ Follows(Below(b))
        BY BelowFollows
      <4>2. a \in Below(b)
        BY <2>5, <3>1, <3>3, <4>1 DEF Follows
      <4>3. Below(a) \subseteq Below(b)
        BY <4>1, <4>2, BelowIn, BelowFollows
      <4> QED
        BY <2>2, <4>3
    <3>8. dist[a] = dist[b] + weight[e]
      <4>1. CASE b = To
        BY <2>2, <3>2, <3>3, <3>5, <4>1
      <4>2. CASE b # To
        <5>1. ~Open(b)
          <6> SUFFICES ASSUME Open(b) PROVE FALSE
            OBVIOUS
          <6>1. InOrder(b)
            BY <1>1, <3>6 DEF OrderInv
          <6>2. Estimate(b) < entry[1]
            BY <1>1, <3>7, <4>2, <6>1 DEF InOrder
          <6>3. entry[1] <= Estimate(b)
            BY <1>1 DEF Open, Entry, Estimate
          <6>4. Estimate(b) \in Nat
            BY EntryTypes
          <6> QED
            BY <1>2, <6>2, <6>3, <6>4
        <5>2. Closed(b)
          BY <1>1, <3>6, <4>2, <5>1 DEF CostInv
        <5>3. dist[a] <= dist[b] + weight[e]
          BY <1>2, <3>2, <3>3, <5>2 DEF Closed
        <5> QED
          BY <3>2, <3>3, <3>5, <5>3
      <4> QED
        BY <4>1, <4>2
    <3>9. Back(m + 1).cost + dist[Back(m + 1).at] = dist[To]
      BY <2>2, <3>3, <3>4, <3>5, <3>8
    <3> QED
      BY <2>2, <3>4, <3>7, <3>9 DEF A
  <2> QED
    BY <2>4, <2>5
<1> HIDE DEF A
<1>5. n \in A
  BY <1>3, <1>4, SetInduction
<1> QED
  BY <1>5 DEF A

LEMMA PathAgreesNext ==
  ASSUME PathTypeOK, CostInv, TreeInv, OrderInv, PathAgrees, [PathNext]_pathVars
  PROVE  PathAgrees'
<1>1. CASE Pop
  <2> SUFFICES ASSUME at' = "found"
               PROVE  /\ prev'[From] = NoEdge
                      /\ Back(Cardinality(Nodes))' = [at |-> From, cost |-> dist'[To]]
    BY DEF PathAgrees
  <2>1. PICK entry \in heap : Pops(entry)
    BY <1>1, PopIs
  <2>2. entry[2] = To /\ UNCHANGED <<weight, dist, prev>>
    BY <2>1 DEF Pops, arguments
  <2>3. PICK n \in Nat : n = Cardinality(Nodes)
    BY FS_CardinalityType, PathAssumption
  <2>4. dist[To] < Infinity /\ dist[From] = 0 /\ dist[To] \in Nat
    BY <2>2, EntryIs DEF CostInv
  <2>5. Back(n).at = From
    BY <2>3, <2>4, BackToStart
  <2>6. Back(n).cost + dist[Back(n).at] = dist[To]
    BY <2>1, <2>2, BackCosts
  <2>7. Back(n) = [at |-> From, cost |-> dist[To]]
    BY <2>4, <2>5, <2>6, BackSteps DEF Places
  <2>8. Back(Cardinality(Nodes))' = Back(Cardinality(Nodes))
    BY <2>2 DEF Back
  <2> QED
    BY <2>2, <2>3, <2>7, <2>8 DEF TreeInv
<1>2. CASE Empty \/ Expanded \/ \E e \in Possible : Relax(e)
  BY <1>2 DEF Empty, Expanded, Relax, PathAgrees
<1>3. CASE UNCHANGED pathVars
  <2>1. UNCHANGED <<weight, at, dist, prev>>
    BY <1>3 DEF pathVars, arguments
  <2>2. Back(Cardinality(Nodes))' = Back(Cardinality(Nodes))
    BY <2>1 DEF Back
  <2> QED
    BY <2>1, <2>2 DEF PathAgrees
<1> QED
  BY <1>1, <1>2, <1>3 DEF PathNext

SearchedInv == PathTypeOK /\ CostInv /\ TreeInv /\ OrderInv

\* For any graph without negative weights and any estimate the path that search_internal
\* returns leads from the start to the target and costs what is returned with it; with an
\* estimate that never overestimates, which may be inconsistent, no walk is cheaper; and
\* if it returns none there is none (search_internal, shortest_path, astar).
THEOREM PathAlwaysShortest == PathSpec => []PathIsShortest
<1>1. PathInit => SearchedInv /\ PathIsShortest
  <2>1. PathInit => PathTypeOK /\ at = "pop"
    BY PathTypeStart DEF PathInit
  <2> QED
    BY <2>1, CostStart, TreeStart, OrderStart
       DEF SearchedInv, PathIsShortest, AnswerIsShortest, PathAgrees
<1>2. SearchedInv /\ PathIsShortest /\ [PathNext]_pathVars => SearchedInv' /\ PathIsShortest'
  BY PathTypeNext, CostNext, TreeNext, OrderNext, AnswerNext, PathAgreesNext
     DEF SearchedInv, PathIsShortest
<1> QED
  BY <1>1, <1>2, PTL DEF PathSpec
==============================================================================

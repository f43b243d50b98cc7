---------------------------- MODULE ExtractProofs ----------------------------
(***************************************************************************)
(* Proofs about Extract, for every set of jobs, every number of layers and *)
(* any number of runs and ends of runs.                                    *)
(***************************************************************************)
EXTENDS Extract, TLAPS

\* The type invariant with what a run holds in memory at each point.
TypeInv ==
  /\ TypeOK
  /\ pc # "idle" => cp # None
  /\ pc \in {"gate_mark", "gate_rename"} => infos # None
  /\ pc \in {"gate_rename", "down_rename"} => tmp # None
  /\ pc \in {"index_write", "weights_index_write", "finish_write"} => config # None
  /\ pc \in {"weights", "weights_write", "weights_index", "finish", "clear", "done"}
       => index \in Configs

\* A model of a job is one a checkpoint may carry.
LEMMA ModelType == \A j \in Jobs : j.model \in {k.model : k \in Jobs}
  OBVIOUS

\* A run begins with the checkpoint of the directory or with an empty one.
LEMMA StartType ==
  ASSUME TypeInv, NEW j \in Jobs, Start(j)
  PROVE  TypeInv'
<1>1. Fresh(j) \in Checkpoints /\ Fresh(j) # None
  BY ModelType, ExtractAssumption DEF Fresh, Checkpoints, Phases
<1>2. cp' \in Checkpoints
  BY <1>1, ExtractAssumption DEF Start, IsCompatible, TypeInv, TypeOK
<1>. QED
  BY <1>1, <1>2, ExtractAssumption
     DEF Start, TypeInv, TypeOK, Points, diskVars

\* A data file that is written stays one of the contents a file may have.
LEMMA PutType ==
  ASSUME TypeInv, NEW f \in Files, NEW part \in 0 .. NumLayers, Put(f, part)
  PROVE  disk' \in Sums /\ dirty' \subseteq Files \cup {"index", "ckpt"}
<1>1. [job |-> job, part |-> part] \in Contents
  BY DEF TypeInv, TypeOK, Contents
<1>. QED
  BY <1>1 DEF Put, Unsynced, TypeInv, TypeOK, Sums

\* The gate stage.
LEMMA GateType ==
  ASSUME TypeInv, SkipGate \/ CreateGate \/ WriteGate
  PROVE  TypeInv'
<1>1. CASE SkipGate
  BY <1>1, ExtractAssumption
     DEF SkipGate, GateResumed, TypeInv, TypeOK, Points, diskVars, Checkpoints
<1>2. CASE CreateGate
  <2>1. disk' \in Sums /\ dirty' \subseteq Files \cup {"index", "ckpt"}
    <3>1. CASE job.drop
      BY <1>2, <3>1 DEF CreateGate, TypeInv, TypeOK
    <3>2. CASE ~job.drop
      BY <1>2, <3>2, PutType, ExtractAssumption DEF CreateGate, Files
    <3>. QED BY <3>1, <3>2
  <2>. QED
    BY <1>2, <2>1, ExtractAssumption DEF CreateGate, TypeInv, TypeOK, Points, runVars
<1>3. CASE WriteGate
  <2>1. disk' \in Sums /\ dirty' \subseteq Files \cup {"index", "ckpt"}
    <3>1. CASE job.drop
      BY <1>3, <3>1 DEF WriteGate, RemoveGate, TypeInv, TypeOK, Sums
    <3>2. CASE ~job.drop
      BY <1>3, <3>2, PutType, ExtractAssumption DEF WriteGate, Files
    <3>. QED BY <3>1, <3>2
  <2>. QED
    BY <1>3, <2>1, ExtractAssumption DEF WriteGate, TypeInv, TypeOK, Points
<1>. QED BY <1>1, <1>2, <1>3

\* The checkpoint is marked and renamed into place.
LEMMA SaveType ==
  ASSUME TypeInv,
         MarkGate \/ RenameGate \/ MarkDown \/ RenameDown
  PROVE  TypeInv'
<1>1. ASSUME NEW ph \in Phases, pc # "idle",
             cp' = [cp EXCEPT !.completed = @ \cup {ph},
                              !.infos = IF ph = "gate" THEN infos ELSE @]
      PROVE  cp' \in Checkpoints /\ cp' # None
  <2>1. cp \in Checkpoints /\ infos \in Jobs \cup {None}
    BY <1>1 DEF TypeInv, TypeOK
  <2>2. cp' = [model |-> cp.model, completed |-> cp.completed \cup {ph},
               infos |-> IF ph = "gate" THEN infos ELSE cp.infos]
    BY <1>1, <2>1 DEF Checkpoints
  <2>3. cp' \in Checkpoints
    BY <1>1, <2>1, <2>2 DEF Checkpoints
  <2>. QED
    BY <2>3, ExtractAssumption
<1>2. CASE MarkGate
  <2>1. cp' \in Checkpoints /\ cp' # None
    BY <1>1, <1>2 DEF MarkGate, Save, Phases
  <2>. QED
    BY <1>2, <2>1, ExtractAssumption DEF MarkGate, Save, TypeInv, TypeOK, Points
<1>3. CASE MarkDown
  <2>1. cp' \in Checkpoints /\ cp' # None
    BY <1>1, <1>3 DEF MarkDown, Save, Phases
  <2>. QED
    BY <1>3, <2>1, ExtractAssumption DEF MarkDown, Save, TypeInv, TypeOK, Points
<1>4. CASE RenameGate
  BY <1>4, ExtractAssumption
     DEF RenameGate, Rename, TypeInv, TypeOK, Points, runVars
<1>5. CASE RenameDown
  BY <1>5, ExtractAssumption
     DEF RenameDown, Rename, TypeInv, TypeOK, Points, runVars
<1>. QED BY <1>2, <1>3, <1>4, <1>5

\* The files that every run creates anew, and the points a run passes by.
LEMMA CreateType ==
  ASSUME TypeInv, NEW f \in Files, NEW at \in Points, NEW to \in Points,
         at # "idle",
         to \notin {"gate_mark", "gate_rename", "down_rename", "index_write",
                    "weights_index_write", "finish_write"},
         to \in {"weights", "weights_write", "weights_index", "finish", "clear", "done"}
           => at \in {"weights", "weights_write", "weights_index", "finish", "clear"},
         Create(f, at, to) \/ Fill(f, at, to) \/ Skip(at, to)
  PROVE  TypeInv'
<1>1. disk' \in Sums /\ dirty' \subseteq Files \cup {"index", "ckpt"}
  <2>1. CASE Create(f, at, to)
    BY <2>1, PutType, ExtractAssumption DEF Create
  <2>2. CASE Fill(f, at, to)
    BY <2>2, PutType, ExtractAssumption DEF Fill
  <2>3. CASE Skip(at, to)
    BY <2>3 DEF Skip, diskVars, TypeInv, TypeOK
  <2>. QED BY <2>1, <2>2, <2>3
<1>2. /\ pc = at /\ pc' = to
      /\ UNCHANGED <<index, ckpt, tmp, runVars, runs, cuts>>
  BY DEF Create, Fill, Skip, diskVars
<1>. QED
  BY <1>1, <1>2, ExtractAssumption DEF TypeInv, TypeOK, runVars

\* The stages whose files every run creates anew.
LEMMA PlainType ==
  ASSUME TypeInv, Router \/ Embeddings \/ Tokenizer \/ SkipDown
  PROVE  TypeInv'
<1>1. CASE Router
  BY <1>1, CreateType DEF Router, Files, Points
<1>2. CASE Embeddings
  BY <1>2, CreateType DEF Embeddings, Files, Points
<1>3. CASE Tokenizer
  BY <1>3, CreateType DEF Tokenizer, Files, Points
<1>4. CASE SkipDown
  BY <1>4, CreateType DEF SkipDown, Files, Points
<1>. QED BY <1>1, <1>2, <1>3, <1>4

\* The down-meta stage.
LEMMA DownType ==
  ASSUME TypeInv, DownLayer \/ DownFinal
  PROVE  TypeInv'
<1>1. CASE DownLayer
  <2>1. layer' \in 0 .. NumLayers
    BY <1>1, ExtractAssumption DEF DownLayer, TypeInv, TypeOK
  <2>2. disk' \in Sums /\ dirty' \subseteq Files \cup {"index", "ckpt"}
    BY <1>1, <2>1, PutType DEF DownLayer, Files
  <2>. QED
    BY <1>1, <2>1, <2>2, ExtractAssumption DEF DownLayer, TypeInv, TypeOK, Points
<1>2. CASE DownFinal
  <2>2. disk' \in Sums /\ dirty' \subseteq Files \cup {"index", "ckpt"}
    BY <1>2, PutType, ExtractAssumption DEF DownFinal, Files
  <2>. QED
    BY <1>2, <2>2, ExtractAssumption DEF DownFinal, TypeInv, TypeOK, Points, runVars
<1>. QED BY <1>1, <1>2

\* index.json is opened for a configuration.
LEMMA OpenType ==
  ASSUME TypeInv, NEW c \in Configs, NEW at \in Points \ {"idle"},
         NEW to \in {"index_write", "weights_index_write", "finish_write"},
         OpenIndex(c, at, to)
  PROVE  TypeInv'
  BY ExtractAssumption DEF OpenIndex, Unsynced, TypeInv, TypeOK, Points

\* index.json is filled with it.
LEMMA FillType ==
  ASSUME TypeInv,
         NEW at \in {"index_write", "weights_index_write", "finish_write"},
         NEW to \in {"weights", "finish", "clear"},
         FillIndex(at, to)
  PROVE  TypeInv'
  BY ExtractAssumption DEF FillIndex, Unsynced, TypeInv, TypeOK, Points, runVars

\* The checksums name contents of files.
LEMMA ChecksumsType == TypeInv => Checksums \in Sums
  BY DEF Checksums, TypeInv, TypeOK, Sums

\* The stages that write index.json.
LEMMA IndexType ==
  ASSUME TypeInv, WriteIndexJson \/ ModelWeights \/ Finalize
  PROVE  TypeInv'
<1>1. CASE WriteIndexJson
  <2>1. [job |-> job, infos |-> infos, weights |-> FALSE, sums |-> None] \in Configs
    BY DEF TypeInv, TypeOK, Configs
  <2>2. "index" \in Points \ {"idle"}
    BY DEF Points
  <2>. QED
    BY <1>1, <2>1, <2>2, OpenType, FillType DEF WriteIndexJson
<1>2. CASE ModelWeights
  <2>0. WeightFile(job) \in Files
    BY DEF WeightFile, Files
  <2>1. CASE pc = "weights_index"
    <3>1. [index EXCEPT !.weights = TRUE] \in Configs
      BY <2>1 DEF TypeInv, Configs
    <3>2. OpenIndex([index EXCEPT !.weights = TRUE], "weights_index", "weights_index_write")
      BY <1>2, <2>1 DEF ModelWeights, Create, Fill, Skip, OpenIndex, FillIndex
    <3>. QED
      BY <3>1, <3>2, OpenType DEF Points
  <2>2. CASE pc # "weights_index"
    <3>1. CASE FillIndex("weights_index_write", "finish")
      BY <3>1, FillType
    <3>2. CASE \/ Create(WeightFile(job), "weights", "weights_write")
               \/ Fill(WeightFile(job), "weights_write", "weights_index")
               \/ Skip("weights", "finish")
      BY <2>0, <3>2, CreateType DEF Points
    <3>. QED
      BY <1>2, <2>2, <3>1, <3>2 DEF ModelWeights, OpenIndex
  <2>. QED BY <2>1, <2>2
<1>3. CASE Finalize
  <2>1. ASSUME NEW sums \in {Checksums, None},
               OpenIndex([index EXCEPT !.sums = sums], "finish", "finish_write")
        PROVE  TypeInv'
    <3>1. [index EXCEPT !.sums = sums] \in Configs
      BY <2>1, ChecksumsType DEF OpenIndex, TypeInv, Configs
    <3>. QED
      BY <2>1, <3>1, OpenType DEF Points
  <2>2. CASE FillIndex("finish_write", "clear")
    BY <2>2, FillType
  <2>. QED
    BY <1>3, <2>1, <2>2 DEF Finalize
<1>. QED BY <1>1, <1>2, <1>3

\* A run ends before it is done.
LEMMA StopType ==
  ASSUME TypeInv, Crash \/ Outage
  PROVE  TypeInv'
<1>1. CASE Crash
  BY <1>1, ExtractAssumption DEF Crash, Forget, TypeInv, TypeOK, Points
<1>2. CASE Outage
  <2>. PICK lost \in SUBSET dirty :
         /\ disk' = [f \in Files |-> IF f \in lost /\ disk[f] # None
                                     THEN [disk[f] EXCEPT !.part = 0] ELSE disk[f]]
         /\ index' = IF "index" \in lost THEN Torn ELSE index
         /\ ckpt' = IF "ckpt" \in lost /\ ckpt # None THEN Torn ELSE ckpt
    BY <1>2 DEF Outage
  <2>1. ASSUME NEW f \in Files PROVE disk'[f] \in Contents \cup {None}
    BY ExtractAssumption DEF TypeInv, TypeOK, Sums, Contents
  <2>2. disk' \in Sums
    BY <2>1 DEF Sums
  <2>. QED
    BY <1>2, <2>2, ExtractAssumption DEF Outage, Forget, TypeInv, TypeOK, Points
<1>. QED BY <1>1, <1>2

\* Every step keeps the type invariant.
LEMMA TypeStep == TypeInv /\ [Next]_vars => TypeInv'
<1>. SUFFICES ASSUME TypeInv, [Next]_vars PROVE TypeInv'
  OBVIOUS
<1>1. CASE Clear
  BY <1>1, ExtractAssumption DEF Clear, TypeInv, TypeOK, Points, runVars
<1>2. CASE UNCHANGED vars
  BY <1>2 DEF vars, diskVars, runVars, TypeInv, TypeOK
<1>. QED
  BY <1>1, <1>2, StartType, GateType, SaveType, PlainType, DownType, IndexType, StopType
     DEF Next, Stage

\* The type invariant of Extract.
THEOREM ExtractType == Spec => []TypeOK
<1>1. Init => TypeInv
  BY ExtractAssumption DEF Init, TypeInv, TypeOK, Sums, Points
<1>2. TypeInv => TypeOK
  BY DEF TypeInv
<1>. QED
  BY <1>1, <1>2, TypeStep, PTL DEF Spec

-----------------------------------------------------------------------------
(* The checkpoint always parses, power cuts included. *)

\* The checkpoint is synced before it gets its name.
ParseInv == TypeInv /\ ckpt # Torn /\ "ckpt" \notin dirty

\* Every step keeps the checkpoint readable.
LEMMA ParseStep == ParseInv /\ [Next]_vars => ParseInv'
<1>. SUFFICES ASSUME ParseInv, [Next]_vars PROVE ckpt' # Torn /\ "ckpt" \notin dirty'
  BY TypeStep DEF ParseInv
<1>0. ASSUME NEW f, NEW part, f # "ckpt", Put(f, part) PROVE "ckpt" \notin dirty'
  BY <1>0 DEF Put, Unsynced, ParseInv
<1>1. CASE RenameGate \/ RenameDown
  <2>1. tmp # Torn
    BY ExtractAssumption DEF ParseInv, TypeInv, TypeOK
  <2>. QED
    BY <1>1, <2>1 DEF RenameGate, RenameDown, Rename
<1>2. CASE CreateGate \/ WriteGate \/ DownLayer \/ DownFinal
  BY <1>0, <1>2 DEF CreateGate, WriteGate, RemoveGate, DownLayer, DownFinal, ParseInv
<1>3. CASE Router \/ Embeddings \/ Tokenizer \/ ModelWeights
  <2>1. WeightFile(job) # "ckpt"
    BY DEF WeightFile
  <2>. QED
    BY <1>0, <1>3, <2>1
       DEF Router, Embeddings, Tokenizer, ModelWeights, Create, Fill, Skip, OpenIndex,
           FillIndex, Unsynced, diskVars, ParseInv
<1>4. CASE WriteIndexJson \/ Finalize
  BY <1>4 DEF WriteIndexJson, Finalize, OpenIndex, FillIndex, Unsynced, ParseInv
<1>5. CASE Clear
  BY <1>5, ExtractAssumption DEF Clear, ParseInv
<1>6. CASE Outage
  BY <1>6 DEF Outage, Forget, ParseInv
<1>7. CASE \/ SkipGate \/ SkipDown \/ Crash \/ MarkGate \/ MarkDown
           \/ \E j \in Jobs : Start(j)
  BY <1>7 DEF SkipGate, SkipDown, Skip, Crash, Forget, MarkGate, MarkDown, Save, Start,
              diskVars, ParseInv
<1>8. CASE UNCHANGED vars
  BY <1>8 DEF vars, diskVars, ParseInv
<1>. QED
  BY <1>1, <1>2, <1>3, <1>4, <1>5, <1>6, <1>7, <1>8 DEF Next, Stage

\* No run and no end of one leaves a checkpoint that a later run cannot load,
\* whatever the jobs and even if the machine goes down.
THEOREM CheckpointAlwaysParses == Spec => []CheckpointParses
<1>1. Init => ParseInv
  BY ExtractAssumption DEF Init, ParseInv, TypeInv, TypeOK, Sums, Points
<1>2. ParseInv => CheckpointParses
  BY DEF ParseInv, CheckpointParses
<1>. QED
  BY <1>1, <1>2, ParseStep, PTL DEF Spec

-----------------------------------------------------------------------------
(* What the checkpoint marks is whole, as long as one model is extracted     *)
(* into the directory and the machine stays up.  The options may change.     *)

OneModel == \A j, k \in Jobs : j.model = k.model

\* The phases that c marks have their files.
Sound(c) ==
  /\ "gate" \in c.completed =>
       /\ c.infos # None
       /\ c.infos.model = c.model
       /\ c.infos.drop \/ Right("gate", c.infos)
  /\ "down_meta" \in c.completed =>
       /\ disk["down"] # None
       /\ disk["down"].part = NumLayers
       /\ disk["down"].job.model = c.model

\* The run knows at least what the file says, and rewrites neither the gate
\* nor the down-meta file when one of the two marks it.
MarkInv ==
  /\ ParseInv
  /\ ckpt # None => Sound(ckpt)
  /\ pc \notin {"idle", "done"} =>
       /\ Sound(cp)
       /\ ckpt # None => ckpt.completed \subseteq cp.completed
  /\ pc \in {"gate_rename", "down_rename"} => tmp = cp
  /\ pc = "gate_write" => "gate" \notin cp.completed
  /\ pc = "gate_mark" =>
       /\ "gate" \notin cp.completed
       /\ infos = job
       /\ job.drop \/ Right("gate", job)
  /\ pc = "down_mark" => Right("down", job)

\* A step that leaves the files, the checkpoints and the job alone.
LEMMA MarkFrame ==
  ASSUME MarkInv, ParseInv', disk'["gate"] = disk["gate"], disk'["down"] = disk["down"],
         UNCHANGED <<ckpt, cp, job>>,
         pc' \notin {"gate_rename", "down_rename", "gate_write", "gate_mark", "down_mark"},
         pc' \notin {"idle", "done"} => pc \notin {"idle", "done"}
  PROVE  MarkInv'
<1>1. ckpt' # None => Sound(ckpt)'
  BY DEF MarkInv, Sound, Right
<1>2. pc' \notin {"idle", "done"} => Sound(cp)'
  BY DEF MarkInv, Sound, Right
<1>. QED
  BY <1>1, <1>2 DEF MarkInv

\* The file that is written is the one that changes.
LEMMA PutFrame ==
  ASSUME TypeInv, NEW f \in Files, NEW part, Put(f, part)
  PROVE  /\ disk'[f] = [job |-> job, part |-> part]
         /\ f # "gate" => disk'["gate"] = disk["gate"]
         /\ f # "down" => disk'["down"] = disk["down"]
  BY DEF Put, TypeInv, TypeOK, Sums, Files

\* A file that a run writes to the end is right for its job.
LEMMA PutRight ==
  ASSUME TypeInv, NEW f \in Files, Put(f, NumLayers), job' = job
  PROVE  Right(f, job)'
<1>1. disk'[f] = [job |-> job, part |-> NumLayers]
  BY PutFrame, ExtractAssumption
<1>2. [job |-> job, part |-> NumLayers] # None
  BY ExtractAssumption DEF TypeInv, TypeOK, Contents
<1>. QED
  BY <1>1, <1>2 DEF Right

\* The steps of the stages between the phases.
LEMMA MarkPlain ==
  ASSUME MarkInv, ParseInv',
         \/ Router \/ Embeddings \/ Tokenizer \/ SkipDown \/ SkipGate
         \/ WriteIndexJson \/ ModelWeights \/ Finalize
  PROVE  MarkInv'
<1>1. ASSUME NEW f \in Files \ {"gate", "down"}, NEW at, NEW to,
             Create(f, at, to) \/ Fill(f, at, to) \/ Skip(at, to)
      PROVE  /\ disk'["gate"] = disk["gate"] /\ disk'["down"] = disk["down"]
             /\ UNCHANGED <<ckpt, cp, job>>
             /\ pc = at /\ pc' = to
  <2>1. CASE Create(f, at, to)
    BY <2>1, <1>1, PutFrame DEF Create, runVars, MarkInv, ParseInv
  <2>2. CASE Fill(f, at, to)
    BY <2>2, <1>1, PutFrame DEF Fill, runVars, MarkInv, ParseInv
  <2>3. CASE Skip(at, to)
    BY <2>3 DEF Skip, runVars, diskVars
  <2>. QED BY <1>1, <2>1, <2>2, <2>3
<1>2. WeightFile(job) \in Files \ {"gate", "down"}
  BY DEF WeightFile, Files
<1>3. CASE Router \/ Embeddings \/ Tokenizer \/ SkipDown
  <2>1. \E f \in Files \ {"gate", "down"}, at, to \in Points :
          /\ Create(f, at, to) \/ Fill(f, at, to) \/ Skip(at, to)
          /\ at \notin {"idle", "done"}
          /\ to \notin {"idle", "done", "gate_rename", "down_rename", "gate_write",
                        "gate_mark", "down_mark"}
    BY <1>3 DEF Router, Embeddings, Tokenizer, SkipDown, Files, Points
  <2>. QED
    BY <1>1, <2>1, MarkFrame
<1>4. CASE ModelWeights
  <2>1. /\ disk'["gate"] = disk["gate"] /\ disk'["down"] = disk["down"]
        /\ UNCHANGED <<ckpt, cp, job>>
    BY <1>1, <1>2, <1>4 DEF ModelWeights, OpenIndex, FillIndex, runVars
  <2>2. /\ pc \notin {"idle", "done"}
        /\ pc' \in {"weights_write", "weights_index", "weights_index_write", "finish"}
    BY <1>1, <1>2, <1>4 DEF ModelWeights, OpenIndex, FillIndex
  <2>. QED
    BY <2>1, <2>2, MarkFrame
<1>5. CASE WriteIndexJson \/ Finalize
  BY <1>5, MarkFrame DEF WriteIndexJson, Finalize, OpenIndex, FillIndex, runVars
<1>6. CASE SkipGate
  BY <1>6, MarkFrame DEF SkipGate, diskVars
<1>. QED BY <1>3, <1>4, <1>5, <1>6

\* The steps that write the two files: neither checkpoint marks the file then.
LEMMA MarkWrites ==
  ASSUME MarkInv, ParseInv', CreateGate \/ WriteGate \/ DownLayer \/ DownFinal
  PROVE  MarkInv'
<1>0. TypeInv /\ pc \notin {"idle", "done"} /\ UNCHANGED <<ckpt, cp, job>>
  BY DEF MarkInv, ParseInv, CreateGate, WriteGate, DownLayer, DownFinal, runVars
<1>1. CASE CreateGate \/ WriteGate
  <2>1. "gate" \notin cp.completed /\ (ckpt # None => "gate" \notin ckpt.completed)
    BY <1>0, <1>1 DEF MarkInv, CreateGate, WriteGate, GateResumed, Sound
  <2>2. disk'["down"] = disk["down"]
    <3>1. CASE job.drop
      BY <1>0, <1>1, <3>1
         DEF CreateGate, WriteGate, RemoveGate, TypeInv, TypeOK, Sums, Files
    <3>2. CASE ~job.drop
      <4>1. "gate" \in Files
        BY DEF Files
      <4>2. Put("gate", 0) \/ Put("gate", NumLayers)
        BY <1>1, <3>2 DEF CreateGate, WriteGate
      <4>. QED BY <1>0, <4>1, <4>2, PutFrame
    <3>. QED BY <3>1, <3>2
  <2>3. (ckpt' # None => Sound(ckpt)') /\ Sound(cp)'
    BY <1>0, <2>1, <2>2 DEF MarkInv, Sound
  <2>4. CASE CreateGate
    BY <1>0, <2>1, <2>3, <2>4 DEF CreateGate, MarkInv
  <2>5. CASE WriteGate
    <3>1. job.drop \/ Right("gate", job)'
      BY <1>0, <2>5, PutRight DEF WriteGate, Files
    <3>. QED
      BY <1>0, <2>1, <2>3, <2>5, <3>1 DEF WriteGate, MarkInv
  <2>. QED BY <1>1, <2>4, <2>5
<1>2. CASE DownLayer \/ DownFinal
  <2>1. "down_meta" \notin cp.completed /\ (ckpt # None => "down_meta" \notin ckpt.completed)
    BY <1>0, <1>2 DEF MarkInv, DownLayer, DownFinal, DownResumed
  <2>2. disk'["gate"] = disk["gate"]
    <3>1. "down" \in Files
      BY DEF Files
    <3>2. CASE DownLayer
      <4>1. Put("down", layer')
        BY <3>2 DEF DownLayer
      <4>. QED BY <1>0, <3>1, <4>1, PutFrame
    <3>3. CASE DownFinal
      <4>1. Put("down", NumLayers)
        BY <3>3 DEF DownFinal
      <4>. QED BY <1>0, <3>1, <4>1, PutFrame
    <3>. QED BY <1>2, <3>2, <3>3
  <2>3. (ckpt' # None => Sound(ckpt)') /\ Sound(cp)'
    BY <1>0, <2>1, <2>2 DEF MarkInv, Sound, Right
  <2>4. DownFinal => Right("down", job)'
    BY <1>0, PutRight DEF DownFinal, Files
  <2>. QED
    BY <1>0, <1>2, <2>3, <2>4 DEF DownLayer, DownFinal, MarkInv
<1>. QED BY <1>1, <1>2

\* The steps that mark a phase and give the checkpoint its name.
LEMMA MarkSaves ==
  ASSUME OneModel, MarkInv, ParseInv', MarkGate \/ MarkDown \/ RenameGate \/ RenameDown
  PROVE  MarkInv'
<1>0. /\ TypeInv /\ pc \notin {"idle", "done"}
      /\ disk' = disk /\ job' = job /\ infos' = infos
  BY DEF MarkInv, ParseInv, MarkGate, MarkDown, RenameGate, RenameDown, Save, Rename, runVars
<1>1. cp \in Checkpoints
  BY <1>0 DEF TypeInv, TypeOK
<1>2. ASSUME NEW c PROVE Sound(c) => (Sound(c))'
  BY <1>0 DEF Sound, Right
<1>3. cp.model = job.model
  BY <1>0, <1>1 DEF OneModel, Checkpoints, TypeInv, TypeOK
<1>4. CASE MarkGate
  <2>1. cp' = [model |-> cp.model, completed |-> cp.completed \cup {"gate"}, infos |-> job]
    BY <1>1, <1>4 DEF MarkGate, Save, Checkpoints, MarkInv
  <2>2. Sound(cp)'
    <3>1. job # None
      BY ExtractAssumption DEF MarkInv, ParseInv, TypeInv, TypeOK
    <3>2. Sound(cp) /\ (job.drop \/ Right("gate", job))
      BY <1>0, <1>4 DEF MarkGate, Save, MarkInv
    <3>. QED
      BY <1>0, <1>3, <2>1, <3>1, <3>2 DEF Sound, Right
  <2>3. ckpt' = ckpt /\ (ckpt' # None => Sound(ckpt)')
    BY <1>0, <1>4 DEF MarkGate, Save, MarkInv, Sound, Right
  <2>. QED
    BY <1>0, <1>4, <2>1, <2>2, <2>3 DEF MarkGate, Save, MarkInv
<1>5. CASE MarkDown
  <2>1. cp' = [model |-> cp.model, completed |-> cp.completed \cup {"down_meta"},
               infos |-> cp.infos]
    BY <1>1, <1>5 DEF MarkDown, Save, Checkpoints
  <2>2. Sound(cp)'
    <3>1. Sound(cp) /\ Right("down", job)
      BY <1>0, <1>5 DEF MarkDown, Save, MarkInv
    <3>. QED
      BY <1>0, <1>3, <2>1, <3>1 DEF Sound, Right
  <2>3. ckpt' = ckpt /\ (ckpt' # None => Sound(ckpt)')
    BY <1>0, <1>5 DEF MarkDown, Save, MarkInv, Sound, Right
  <2>. QED
    BY <1>0, <1>5, <2>1, <2>2, <2>3 DEF MarkDown, Save, MarkInv
<1>6. CASE RenameGate \/ RenameDown
  <2>1. ckpt' = cp /\ cp' = cp /\ pc' \in {"router", "tokenizer"}
    BY <1>6 DEF RenameGate, RenameDown, Rename, runVars, MarkInv
  <2>2. Sound(cp)' /\ Sound(ckpt)'
    BY <1>0, <2>1 DEF MarkInv, Sound, Right
  <2>. QED
    BY <2>1, <2>2 DEF MarkInv
<1>. QED BY <1>4, <1>5, <1>6

\* Every step keeps the checkpoint sound.
LEMMA MarkStep ==
  ASSUME OneModel
  PROVE  MarkInv /\ ~Outage /\ [Next]_vars => MarkInv'
<1>. SUFFICES ASSUME MarkInv, ~Outage, [Next]_vars PROVE MarkInv'
  OBVIOUS
<1>0. ParseInv'
  BY ParseStep DEF MarkInv
<1>1. ASSUME NEW j \in Jobs, Start(j) PROVE MarkInv'
  <2>1. disk' = disk /\ ckpt' = ckpt /\ pc' = "gate"
    BY <1>1 DEF Start, diskVars
  <2>2. ckpt # None => ckpt.model = j.model /\ ckpt \in Checkpoints
    BY <1>1 DEF OneModel, MarkInv, ParseInv, TypeInv, TypeOK, Checkpoints
  <2>3. ckpt' # None => Sound(ckpt)'
    BY <2>1 DEF MarkInv, Sound, Right
  <2>4. CASE ckpt # None
    <3>1. cp' = ckpt
      BY <1>1, <2>2, <2>4 DEF Start, IsCompatible
    <3>. QED
      BY <1>0, <2>1, <2>3, <2>4, <3>1 DEF MarkInv, Sound, Right
  <2>5. CASE ckpt = None
    <3>1. cp' = Fresh(j)
      BY <1>1, <2>5 DEF Start, IsCompatible
    <3>2. Sound(cp)'
      BY <3>1 DEF Fresh, Sound
    <3>. QED
      BY <1>0, <2>1, <2>5, <3>2 DEF MarkInv
  <2>. QED BY <2>4, <2>5
<1>2. CASE Clear
  BY <1>0, <1>2, ExtractAssumption DEF Clear, MarkInv
<1>3. CASE Crash
  <2>1. disk' = disk /\ ckpt' = ckpt /\ pc' = "idle"
    BY <1>3 DEF Crash, Forget
  <2>. QED
    BY <1>0, <2>1 DEF MarkInv, Sound, Right
<1>4. CASE UNCHANGED vars
  BY <1>0, <1>4 DEF vars, diskVars, runVars, MarkInv, Sound, Right
<1>. QED
  BY <1>0, <1>1, <1>2, <1>3, <1>4, MarkPlain, MarkWrites, MarkSaves DEF Next, Stage

\* Only a power cut is counted as one.
LEMMA CutStep == [Next]_vars /\ ~Outage => cuts' = cuts
<1>. SUFFICES ASSUME [Next]_vars, ~Outage PROVE cuts' = cuts
  OBVIOUS
<1>1. CASE \E j \in Jobs : Start(j)
  BY <1>1 DEF Start
<1>2. CASE SkipGate \/ CreateGate \/ WriteGate \/ MarkGate \/ RenameGate
  BY <1>2 DEF SkipGate, CreateGate, WriteGate, MarkGate, RenameGate, Save, Rename
<1>3. CASE Router \/ Embeddings \/ Tokenizer \/ ModelWeights
  BY <1>3 DEF Router, Embeddings, Tokenizer, ModelWeights, Create, Fill, Skip, OpenIndex, FillIndex
<1>4. CASE SkipDown \/ DownLayer \/ DownFinal \/ MarkDown \/ RenameDown
  BY <1>4 DEF SkipDown, DownLayer, DownFinal, MarkDown, RenameDown, Save, Rename, Skip
<1>5. CASE WriteIndexJson \/ Finalize \/ Clear \/ Crash
  BY <1>5 DEF WriteIndexJson, Finalize, Clear, Crash, OpenIndex, FillIndex
<1>6. CASE UNCHANGED vars
  BY <1>6 DEF vars
<1>. QED
  BY <1>1, <1>2, <1>3, <1>4, <1>5, <1>6 DEF Next, Stage

\* After a power cut there has been one.
LEMMA OutageCounts == ASSUME TypeInv, Outage PROVE cuts' # 0
  BY DEF Outage, TypeInv, TypeOK

\* As long as the power has not failed.
MarkInvUncut == TypeInv /\ (cuts = 0 => MarkInv)

\* If one model is extracted into a directory, with whatever options and with
\* any number of runs that die anywhere, a marked phase has its file until the
\* power fails.
THEOREM MarkedPhaseIsWhole ==
  ASSUME OneModel
  PROVE  Spec => []MarkedIsWhole
<1>1. Init => MarkInvUncut
  BY ExtractAssumption
     DEF Init, MarkInvUncut, MarkInv, ParseInv, TypeInv, TypeOK, Sums, Points
<1>2. MarkInvUncut => MarkedIsWhole
  BY DEF MarkInvUncut, MarkInv, Sound, MarkedIsWhole
<1>3. MarkInvUncut /\ [Next]_vars => MarkInvUncut'
  BY TypeStep, CutStep, OutageCounts, MarkStep DEF MarkInvUncut
<1>. QED
  BY <1>1, <1>2, <1>3, PTL DEF Spec

-----------------------------------------------------------------------------
(* A run that is done leaves the vindex it was asked for, as long as all the  *)
(* jobs of the directory agree on the model and on the options that the       *)
(* skipped files depend on.                                                   *)

OneOutput ==
  \A j, k \in Jobs : j.model = k.model /\ j.dtype = k.dtype /\ j.drop = k.drop

\* The points after each stage.
PastGate == Points \ {"idle", "gate", "gate_write"}
PastRouter == PastGate \ {"gate_mark", "gate_rename", "router", "router_write"}
PastEmbed == PastRouter \ {"embed", "embed_write"}
PastDown == PastEmbed \ {"down"}
PastTokenizer == PastDown \ {"down_mark", "down_rename", "tokenizer", "tokenizer_write"}
PastIndex == PastTokenizer \ {"index", "index_write"}
PastWeights == PastIndex \ {"weights", "weights_write"}

\* What the data files are at each point of a run.
FilesInv ==
  /\ pc \in PastGate => infos # None /\ (job.drop \/ Right("gate", job))
  /\ pc \in PastRouter /\ job.moe => Right("router", job)
  /\ pc \in PastEmbed => Right("embed", job)
  /\ pc \in PastDown => Right("down", job)
  /\ pc \in PastTokenizer => Right("tokenizer", job)
  /\ pc \in PastWeights /\ NeedsWeights(job) => Right(WeightFile(job), job)

\* What index.json is to say, or says, after each of its three writes.
Says(c, w) == c.job = job /\ c.infos = infos /\ c.weights = w

IndexInv ==
  /\ pc = "index_write" => Says(config, FALSE)
  /\ pc \in {"weights", "weights_write", "weights_index"} => Says(index, FALSE)
  /\ pc \in {"weights_write", "weights_index", "weights_index_write"} => NeedsWeights(job)
  /\ pc = "weights_index_write" => Says(config, TRUE)
  /\ pc \in {"finish", "clear", "done"} => Says(index, NeedsWeights(job))
  /\ pc = "finish_write" => Says(config, NeedsWeights(job)) /\ config.sums \in {Checksums, None}
  /\ pc \in {"clear", "done"} => index.sums \in {Checksums, None}
  /\ pc = "done" => ckpt = None

FinishInv == MarkInv /\ FilesInv /\ IndexInv

\* Writing one file leaves the others right.
LEMMA PutOther ==
  ASSUME TypeInv, NEW f \in Files, NEW part, Put(f, part), job' = job,
         NEW g \in Files \ {f}
  PROVE  /\ Right(g, job)' <=> Right(g, job)
         /\ disk'[g] = disk[g]
<1>1. disk'[g] = disk[g]
  BY DEF Put, TypeInv, TypeOK, Sums
<1>. QED
  BY <1>1 DEF Right

\* A step that leaves the files and the job alone and ends no stage.
LEMMA FilesFrame ==
  ASSUME FilesInv, disk' = disk, job' = job, infos' = infos,
         pc' \in PastGate => pc \in PastGate,
         pc' \in PastRouter => pc \in PastRouter \/ ~job.moe,
         pc' \in PastEmbed => pc \in PastEmbed,
         pc' \in PastDown => pc \in PastDown,
         pc' \in PastTokenizer => pc \in PastTokenizer,
         pc' \in PastWeights => pc \in PastWeights \/ ~NeedsWeights(job)
  PROVE  FilesInv'
  BY DEF FilesInv, Right, NeedsWeights, WeightFile

\* The gate stage.
LEMMA FilesGate ==
  ASSUME OneOutput, FinishInv, TypeInv', SkipGate \/ CreateGate \/ WriteGate
  PROVE  FilesInv'
<1>0. TypeInv /\ job \in Jobs /\ job' = job
  BY DEF FinishInv, MarkInv, ParseInv, TypeInv, TypeOK, SkipGate, CreateGate, WriteGate, runVars
<1>1. CASE SkipGate
  <2>1. /\ disk' = disk /\ infos' # None /\ infos' = cp.infos /\ infos' \in Jobs
        /\ pc = "gate" /\ pc' = "router"
    BY <1>1 DEF SkipGate, GateResumed, diskVars, TypeInv, TypeOK
  <2>2. infos'.drop \/ Right("gate", infos')
    BY <1>1, <2>1 DEF SkipGate, GateResumed, FinishInv, MarkInv, Sound
  <2>3. job.drop \/ Right("gate", job)
    BY <1>0, <2>1, <2>2 DEF OneOutput, Right
  <2>. QED
    BY <1>0, <2>1, <2>3
       DEF FinishInv, FilesInv, Right, Points, PastGate, PastRouter, PastEmbed, PastDown,
           PastTokenizer, PastIndex, PastWeights
<1>2. CASE CreateGate
  BY <1>0, <1>2
     DEF CreateGate, FinishInv, FilesInv, Points, PastGate, PastRouter, PastEmbed, PastDown,
         PastTokenizer, PastIndex, PastWeights
<1>3. CASE WriteGate
  <2>1. job.drop \/ Right("gate", job)'
    BY <1>0, <1>3, PutRight DEF WriteGate, Files
  <2>2. infos' # None
    BY <1>0, <1>3, ExtractAssumption DEF WriteGate
  <2>. QED
    BY <1>0, <1>3, <2>1, <2>2
       DEF WriteGate, FinishInv, FilesInv, Points, PastGate, PastRouter, PastEmbed, PastDown,
           PastTokenizer, PastIndex, PastWeights
<1>. QED BY <1>1, <1>2, <1>3

\* A stage that creates its file, f, and the point before which it may be torn.
LEMMA FilesPut ==
  ASSUME FinishInv, NEW f \in Files \ {"gate"}, NEW part, Put(f, part),
         job' = job, infos' = infos,
         pc' \in PastGate, pc \in PastGate,
         \A g \in Files \ {f} :
           /\ g = "router" /\ pc' \in PastRouter /\ job.moe => pc \in PastRouter
           /\ g = "embed" /\ pc' \in PastEmbed => pc \in PastEmbed
           /\ g = "down" /\ pc' \in PastDown => pc \in PastDown
           /\ g = "tokenizer" /\ pc' \in PastTokenizer => pc \in PastTokenizer
           /\ g = WeightFile(job) /\ pc' \in PastWeights => pc \in PastWeights,
         part = NumLayers \/
           /\ f = "router" => pc' \notin PastRouter
           /\ f = "embed" => pc' \notin PastEmbed
           /\ f = "down" => pc' \notin PastDown
           /\ f = "tokenizer" => pc' \notin PastTokenizer
           /\ f = WeightFile(job) => pc' \notin PastWeights
  PROVE  FilesInv'
<1>1. TypeInv
  BY DEF FinishInv, MarkInv, ParseInv
<1>2. ASSUME NEW g \in Files \ {f}
      PROVE  (Right(g, job)' <=> Right(g, job)) /\ disk'[g] = disk[g]
  BY <1>1, <1>2, PutOther
<1>3. part = NumLayers => Right(f, job)'
  BY <1>1, PutRight
<1>4. WeightFile(job)' = WeightFile(job) /\ NeedsWeights(job)' = NeedsWeights(job)
  BY DEF WeightFile, NeedsWeights
<1>5. "gate" \in Files \ {f}
  BY DEF Files
<1>6. pc' \in PastGate => infos' # None /\ (job'.drop \/ Right("gate", job)')
  BY <1>2, <1>5 DEF FinishInv, FilesInv
<1>7. ASSUME pc' \in PastRouter /\ job.moe PROVE Right("router", job)'
  BY <1>2, <1>3, <1>7 DEF FinishInv, FilesInv, Files
<1>8. ASSUME pc' \in PastEmbed PROVE Right("embed", job)'
  BY <1>2, <1>3, <1>8 DEF FinishInv, FilesInv, Files
<1>9. ASSUME pc' \in PastDown PROVE Right("down", job)'
  BY <1>2, <1>3, <1>9 DEF FinishInv, FilesInv, Files
<1>10. ASSUME pc' \in PastTokenizer PROVE Right("tokenizer", job)'
  BY <1>2, <1>3, <1>10 DEF FinishInv, FilesInv, Files
<1>11. ASSUME pc' \in PastWeights, NeedsWeights(job) PROVE Right(WeightFile(job), job)'
  <2>1. WeightFile(job) \in Files
    BY DEF WeightFile, Files
  <2>2. CASE f = WeightFile(job)
    BY <1>3, <1>4, <1>11, <2>2
  <2>3. CASE f # WeightFile(job)
    <3>1. Right(WeightFile(job), job)
      BY <1>11, <2>1, <2>3 DEF FinishInv, FilesInv
    <3>. QED
      BY <1>2, <1>4, <2>1, <2>3, <3>1 DEF Right
  <2>. QED BY <2>2, <2>3
<1>. QED
  BY <1>4, <1>6, <1>7, <1>8, <1>9, <1>10, <1>11 DEF FilesInv

\* The stages between the phases.
LEMMA FilesPlain ==
  ASSUME FinishInv, Router \/ Embeddings \/ Tokenizer
  PROVE  FilesInv'
<1>0. WeightFile(job) \in {"weights", "kquant"}
  BY DEF WeightFile
<1>1. CASE Router
  <2>1. CASE Create("router", "router", "router_write")
    <3>1. /\ Put("router", 0) /\ job' = job /\ infos' = infos
          /\ pc = "router" /\ pc' = "router_write"
      BY <2>1 DEF Create, runVars
    <3>. QED
      BY <1>0, <3>1, FilesPut DEF Files, Points, PastGate, PastRouter, PastEmbed, PastDown,
           PastTokenizer, PastIndex, PastWeights
  <2>2. CASE Fill("router", "router_write", "embed")
    <3>1. /\ Put("router", NumLayers) /\ job' = job /\ infos' = infos
          /\ pc = "router_write" /\ pc' = "embed"
      BY <2>2 DEF Fill, runVars
    <3>. QED
      BY <1>0, <3>1, FilesPut DEF Files, Points, PastGate, PastRouter, PastEmbed, PastDown,
           PastTokenizer, PastIndex, PastWeights
  <2>3. CASE ~job.moe /\ Skip("router", "embed")
    BY <2>3, FilesFrame
       DEF Skip, runVars, diskVars, FinishInv, Points, PastGate, PastRouter, PastEmbed, PastDown,
           PastTokenizer, PastIndex, PastWeights
  <2>. QED BY <1>1, <2>1, <2>2, <2>3 DEF Router
<1>2. CASE Embeddings
  <2>1. CASE Create("embed", "embed", "embed_write")
    <3>1. /\ Put("embed", 0) /\ job' = job /\ infos' = infos
          /\ pc = "embed" /\ pc' = "embed_write"
      BY <2>1 DEF Create, runVars
    <3>. QED
      BY <1>0, <3>1, FilesPut DEF Files, Points, PastGate, PastRouter, PastEmbed, PastDown,
           PastTokenizer, PastIndex, PastWeights
  <2>2. CASE Fill("embed", "embed_write", "down")
    <3>1. /\ Put("embed", NumLayers) /\ job' = job /\ infos' = infos
          /\ pc = "embed_write" /\ pc' = "down"
      BY <2>2 DEF Fill, runVars
    <3>. QED
      BY <1>0, <3>1, FilesPut DEF Files, Points, PastGate, PastRouter, PastEmbed, PastDown,
           PastTokenizer, PastIndex, PastWeights
  <2>. QED BY <1>2, <2>1, <2>2 DEF Embeddings
<1>3. CASE Tokenizer
  <2>1. CASE Create("tokenizer", "tokenizer", "tokenizer_write")
    <3>1. /\ Put("tokenizer", 0) /\ job' = job /\ infos' = infos
          /\ pc = "tokenizer" /\ pc' = "tokenizer_write"
      BY <2>1 DEF Create, runVars
    <3>. QED
      BY <1>0, <3>1, FilesPut DEF Files, Points, PastGate, PastRouter, PastEmbed, PastDown,
           PastTokenizer, PastIndex, PastWeights
  <2>2. CASE Fill("tokenizer", "tokenizer_write", "index")
    <3>1. /\ Put("tokenizer", NumLayers) /\ job' = job /\ infos' = infos
          /\ pc = "tokenizer_write" /\ pc' = "index"
      BY <2>2 DEF Fill, runVars
    <3>. QED
      BY <1>0, <3>1, FilesPut DEF Files, Points, PastGate, PastRouter, PastEmbed, PastDown,
           PastTokenizer, PastIndex, PastWeights
  <2>. QED BY <1>3, <2>1, <2>2 DEF Tokenizer
<1>. QED BY <1>1, <1>2, <1>3

\* The down-meta stage: a skipped phase has its file because it is marked.
LEMMA FilesDown ==
  ASSUME OneOutput, FinishInv, SkipDown \/ DownLayer \/ DownFinal
  PROVE  FilesInv'
<1>0. WeightFile(job) \in {"weights", "kquant"}
  BY DEF WeightFile
<1>1. CASE SkipDown
  <2>1. /\ disk' = disk /\ job' = job /\ infos' = infos
        /\ pc = "down" /\ pc' = "tokenizer"
    BY <1>1 DEF SkipDown, Skip, runVars, diskVars
  <2>2. cp \in Checkpoints /\ job \in Jobs
    BY <2>1 DEF FinishInv, MarkInv, ParseInv, TypeInv, TypeOK
  <2>3. cp.model = job.model
    BY <2>2 DEF OneOutput, Checkpoints
  <2>4. Right("down", job)
    BY <1>1, <2>1, <2>3
       DEF SkipDown, DownResumed, FinishInv, MarkInv, Sound, Right, Encoded
  <2>. QED
    BY <2>1, <2>4
       DEF FinishInv, FilesInv, Right, Points, PastGate, PastRouter, PastEmbed, PastDown,
           PastTokenizer, PastIndex, PastWeights
<1>2. CASE DownLayer
  <2>1. /\ Put("down", layer') /\ job' = job /\ infos' = infos
        /\ pc = "down" /\ pc' = "down"
    BY <1>2 DEF DownLayer
  <2>. QED
    BY <1>0, <2>1, FilesPut DEF Files, Points, PastGate, PastRouter, PastEmbed, PastDown,
           PastTokenizer, PastIndex, PastWeights
<1>3. CASE DownFinal
  <2>1. /\ Put("down", NumLayers) /\ job' = job /\ infos' = infos
        /\ pc = "down" /\ pc' = "down_mark"
    BY <1>3 DEF DownFinal, runVars
  <2>. QED
    BY <1>0, <2>1, FilesPut DEF Files, Points, PastGate, PastRouter, PastEmbed, PastDown,
           PastTokenizer, PastIndex, PastWeights
<1>. QED BY <1>1, <1>2, <1>3

\* The weights.
LEMMA FilesWeights ==
  ASSUME FinishInv, ModelWeights
  PROVE  FilesInv'
<1>0. WeightFile(job) \in {"weights", "kquant"} /\ WeightFile(job) \in Files \ {"gate"}
  BY DEF WeightFile, Files
<1>1. CASE Create(WeightFile(job), "weights", "weights_write")
  <2>1. /\ Put(WeightFile(job), 0) /\ job' = job /\ infos' = infos
        /\ pc = "weights" /\ pc' = "weights_write"
    BY <1>1 DEF Create, runVars
  <2>. QED
    BY <1>0, <2>1, FilesPut DEF Files, Points, PastGate, PastRouter, PastEmbed, PastDown,
           PastTokenizer, PastIndex, PastWeights
<1>2. CASE Fill(WeightFile(job), "weights_write", "weights_index")
  <2>1. /\ Put(WeightFile(job), NumLayers) /\ job' = job /\ infos' = infos
        /\ pc = "weights_write" /\ pc' = "weights_index"
    BY <1>2 DEF Fill, runVars
  <2>. QED
    BY <1>0, <2>1, FilesPut DEF Files, Points, PastGate, PastRouter, PastEmbed, PastDown,
           PastTokenizer, PastIndex, PastWeights
<1>3. CASE \/ OpenIndex([index EXCEPT !.weights = TRUE], "weights_index", "weights_index_write")
           \/ FillIndex("weights_index_write", "finish")
           \/ ~NeedsWeights(job) /\ Skip("weights", "finish")
  BY <1>3, FilesFrame
     DEF OpenIndex, FillIndex, Skip, runVars, diskVars, FinishInv,
         Points, PastGate, PastRouter, PastEmbed, PastDown,
           PastTokenizer, PastIndex, PastWeights
<1>. QED BY <1>1, <1>2, <1>3 DEF ModelWeights

\* The steps that touch no data file.
LEMMA FilesOther ==
  ASSUME FinishInv,
         \/ MarkGate \/ RenameGate \/ MarkDown \/ RenameDown
         \/ WriteIndexJson \/ Finalize \/ Clear
  PROVE  FilesInv'
<1>1. CASE MarkGate \/ RenameGate \/ MarkDown \/ RenameDown \/ Clear
  BY <1>1, FilesFrame
     DEF MarkGate, RenameGate, MarkDown, RenameDown, Save, Rename, Clear, runVars, FinishInv,
         Points, PastGate, PastRouter, PastEmbed, PastDown,
           PastTokenizer, PastIndex, PastWeights
<1>2. CASE WriteIndexJson \/ Finalize
  BY <1>2, FilesFrame
     DEF WriteIndexJson, Finalize, OpenIndex, FillIndex, runVars, FinishInv,
         Points, PastGate, PastRouter, PastEmbed, PastDown,
           PastTokenizer, PastIndex, PastWeights
<1>. QED BY <1>1, <1>2

\* The steps at which index.json is left alone.
LEMMA IndexFrame ==
  ASSUME IndexInv, job' = job,
         pc' \notin {"index_write", "weights", "weights_write", "weights_index",
                     "weights_index_write", "finish", "clear", "done", "finish_write"}
  PROVE  IndexInv'
  BY DEF IndexInv

\* The steps of the weights.
LEMMA IndexWeights ==
  ASSUME FinishInv, ModelWeights
  PROVE  IndexInv'
<1>0. job' = job /\ infos' = infos /\ job \in Jobs
  BY DEF ModelWeights, Create, Fill, OpenIndex, FillIndex, Skip, runVars,
         FinishInv, MarkInv, ParseInv, TypeInv, TypeOK
<1>00. NeedsWeights(job)' = NeedsWeights(job) /\ NeedsWeights(job) \in BOOLEAN
  BY <1>0, ExtractAssumption DEF NeedsWeights
<1>1. CASE NeedsWeights(job) /\ Create(WeightFile(job), "weights", "weights_write")
  BY <1>0, <1>00, <1>1 DEF Create, FinishInv, IndexInv, Says
<1>2. CASE Fill(WeightFile(job), "weights_write", "weights_index")
  BY <1>0, <1>00, <1>2 DEF Fill, FinishInv, IndexInv, Says
<1>3. CASE OpenIndex([index EXCEPT !.weights = TRUE], "weights_index", "weights_index_write")
  <2>1. /\ pc = "weights_index" /\ pc' = "weights_index_write"
        /\ config' = [index EXCEPT !.weights = TRUE]
    BY <1>3 DEF OpenIndex
  <2>2. index \in Configs /\ Says(index, FALSE) /\ NeedsWeights(job)
    BY <2>1 DEF FinishInv, MarkInv, ParseInv, TypeInv, IndexInv
  <2>3. config'.job = job /\ config'.infos = infos /\ config'.weights = TRUE
    BY <2>1, <2>2 DEF Configs, Says
  <2>. QED
    BY <1>0, <1>00, <2>1, <2>2, <2>3 DEF IndexInv, Says
<1>4. CASE FillIndex("weights_index_write", "finish")
  <2>1. pc = "weights_index_write" /\ pc' = "finish" /\ index' = config
    BY <1>4 DEF FillIndex
  <2>2. Says(config, TRUE) /\ NeedsWeights(job) = TRUE
    BY <1>00, <2>1 DEF FinishInv, IndexInv
  <2>. QED
    BY <1>0, <1>00, <2>1, <2>2 DEF IndexInv, Says
<1>5. CASE ~NeedsWeights(job) /\ Skip("weights", "finish")
  <2>1. pc = "weights" /\ pc' = "finish" /\ index' = index
    BY <1>5 DEF Skip, diskVars
  <2>2. Says(index, FALSE) /\ NeedsWeights(job) = FALSE
    BY <1>00, <1>5, <2>1 DEF FinishInv, IndexInv
  <2>. QED
    BY <1>0, <1>00, <2>1, <2>2 DEF IndexInv, Says
<1>. QED BY <1>1, <1>2, <1>3, <1>4, <1>5 DEF ModelWeights

\* The first and the last write of index.json, and the end.
LEMMA IndexWrites ==
  ASSUME FinishInv, WriteIndexJson \/ Finalize \/ Clear
  PROVE  IndexInv'
<1>0. /\ job' = job /\ infos' = infos /\ disk' = disk
      /\ NeedsWeights(job)' = NeedsWeights(job) /\ Checksums' = Checksums
  BY DEF WriteIndexJson, Finalize, Clear, OpenIndex, FillIndex, runVars, NeedsWeights, Checksums
<1>1. CASE WriteIndexJson
  BY <1>0, <1>1 DEF WriteIndexJson, OpenIndex, FillIndex, FinishInv, IndexInv, Says
<1>2. CASE Finalize
  <2>1. ASSUME NEW sums \in {Checksums, None},
               OpenIndex([index EXCEPT !.sums = sums], "finish", "finish_write")
        PROVE  IndexInv'
    <3>1. /\ pc = "finish" /\ pc' = "finish_write"
          /\ config' = [index EXCEPT !.sums = sums]
      BY <2>1 DEF OpenIndex
    <3>2. index \in Configs /\ Says(index, NeedsWeights(job))
      BY <3>1 DEF FinishInv, MarkInv, ParseInv, TypeInv, IndexInv
    <3>3. /\ config'.job = index.job /\ config'.infos = index.infos
          /\ config'.weights = index.weights /\ config'.sums = sums
      BY <3>1, <3>2 DEF Configs
    <3>. QED
      BY <1>0, <2>1, <3>1, <3>2, <3>3 DEF IndexInv, Says
  <2>2. CASE FillIndex("finish_write", "clear")
    BY <1>0, <2>2 DEF FillIndex, FinishInv, IndexInv, Says
  <2>. QED BY <1>2, <2>1, <2>2 DEF Finalize
<1>3. CASE Clear
  BY <1>0, <1>3 DEF Clear, FinishInv, IndexInv, Says
<1>. QED BY <1>1, <1>2, <1>3

\* Every step keeps what is said of the files and of index.json.
LEMMA FinishStep ==
  ASSUME OneOutput
  PROVE  FinishInv /\ ~Outage /\ [Next]_vars => FinishInv'
<1>. SUFFICES ASSUME FinishInv, ~Outage, [Next]_vars PROVE FinishInv'
  OBVIOUS
<1>0. MarkInv' /\ TypeInv'
  <2>1. OneModel
    BY DEF OneOutput, OneModel
  <2>. QED
    BY <2>1, MarkStep DEF FinishInv, MarkInv, ParseInv
<1>1. ASSUME NEW j \in Jobs, Start(j) PROVE FinishInv'
  <2>1. disk' = disk /\ job' = j /\ pc' = "gate" /\ j.drop = job.drop
    BY <1>1 DEF Start, diskVars, OneOutput, FinishInv, MarkInv, ParseInv, TypeInv, TypeOK
  <2>2. FilesInv'
    BY <2>1
       DEF FinishInv, FilesInv, Points, PastGate, PastRouter, PastEmbed, PastDown,
           PastTokenizer, PastIndex, PastWeights
  <2>3. IndexInv'
    BY <2>1 DEF IndexInv
  <2>. QED BY <1>0, <2>2, <2>3 DEF FinishInv
<1>2. CASE Crash
  <2>1. disk' = disk /\ job' = job /\ pc' = "idle"
    BY <1>2 DEF Crash, Forget
  <2>2. FilesInv'
    BY <2>1
       DEF FinishInv, FilesInv, Points, PastGate, PastRouter, PastEmbed, PastDown,
           PastTokenizer, PastIndex, PastWeights
  <2>3. IndexInv'
    BY <2>1 DEF IndexInv
  <2>. QED BY <1>0, <2>2, <2>3 DEF FinishInv
<1>3. CASE SkipGate \/ CreateGate \/ WriteGate
  <2>1. IndexInv'
    BY <1>3, IndexFrame DEF SkipGate, CreateGate, WriteGate, runVars, FinishInv
  <2>. QED BY <1>0, <1>3, <2>1, FilesGate DEF FinishInv
<1>4. CASE MarkGate \/ RenameGate \/ MarkDown \/ RenameDown
  <2>1. IndexInv'
    BY <1>4, IndexFrame
       DEF MarkGate, RenameGate, MarkDown, RenameDown, Save, Rename, runVars, FinishInv
  <2>. QED BY <1>0, <1>4, <2>1, FilesOther DEF FinishInv
<1>5. CASE Router \/ Embeddings \/ Tokenizer
  <2>1. IndexInv'
    BY <1>5, IndexFrame
       DEF Router, Embeddings, Tokenizer, Create, Fill, Skip, runVars, FinishInv
  <2>. QED BY <1>0, <1>5, <2>1, FilesPlain DEF FinishInv
<1>6. CASE SkipDown \/ DownLayer \/ DownFinal
  <2>1. IndexInv'
    BY <1>6, IndexFrame DEF SkipDown, DownLayer, DownFinal, Skip, runVars, FinishInv
  <2>. QED BY <1>0, <1>6, <2>1, FilesDown DEF FinishInv
<1>7. CASE ModelWeights
  BY <1>0, <1>7, FilesWeights, IndexWeights DEF FinishInv
<1>8. CASE WriteIndexJson \/ Finalize \/ Clear
  BY <1>0, <1>8, FilesOther, IndexWrites DEF FinishInv
<1>9. CASE UNCHANGED vars
  <2>1. FilesInv'
    BY <1>9 DEF vars, diskVars, runVars, FinishInv, FilesInv, Right, NeedsWeights, WeightFile
  <2>2. IndexInv'
    BY <1>9 DEF vars, diskVars, runVars, FinishInv, IndexInv, Says, NeedsWeights, Checksums
  <2>. QED BY <1>0, <2>1, <2>2 DEF FinishInv
<1>. QED
  BY <1>1, <1>2, <1>3, <1>4, <1>5, <1>6, <1>7, <1>8, <1>9 DEF Next, Stage

\* As long as the power has not failed.
FinishInvUncut == TypeInv /\ (cuts = 0 => FinishInv)

\* If all the extracts into a directory ask for the same model, dtype and gate
\* file, then however many of them died and wherever, one that returns Ok
\* leaves a whole vindex, the skipped files and the layers of index.json
\* included, until the power fails; checksums it may lack, wrong ones it has not.
THEOREM FinishedVindexIsWhole ==
  ASSUME OneOutput
  PROVE  Spec => []FinishedIsWhole
<1>1. Init => FinishInv
  <2>. SUFFICES ASSUME Init PROVE FinishInv
    OBVIOUS
  <2>1. MarkInv
    BY ExtractAssumption DEF Init, MarkInv, ParseInv, TypeInv, TypeOK, Sums, Points
  <2>2. FilesInv
    BY DEF Init, FilesInv, Files, Points, PastGate, PastRouter, PastEmbed, PastDown,
           PastTokenizer, PastIndex, PastWeights
  <2>. QED
    BY <2>1, <2>2 DEF FinishInv, IndexInv, Init
<1>2. FinishInv => FinishedIsWhole
  <2>. SUFFICES ASSUME FinishInv, pc = "done" PROVE FinishedIsWhole
    BY DEF FinishedIsWhole
  <2>1. /\ job \in Jobs /\ infos \in Jobs \cup {None} /\ index \in Configs
        /\ index # None /\ index # Torn
    BY ExtractAssumption DEF FinishInv, MarkInv, ParseInv, TypeInv, TypeOK
  <2>2. /\ infos # None /\ (job.drop \/ Right("gate", job))
        /\ job.moe => Right("router", job)
        /\ Right("embed", job) /\ Right("down", job) /\ Right("tokenizer", job)
        /\ NeedsWeights(job) => Right(WeightFile(job), job)
    BY DEF FinishInv, FilesInv, Points, PastGate, PastRouter, PastEmbed, PastDown,
           PastTokenizer, PastIndex, PastWeights
  <2>3. \A f \in Outputs(job) : Right(f, job)
    BY <2>2 DEF Outputs
  <2>4. /\ index.job = job /\ index.infos = infos /\ index.weights = NeedsWeights(job)
        /\ index.sums \in {Checksums, None} /\ ckpt = None
    BY DEF FinishInv, IndexInv, Says
  <2>5. infos.model = job.model /\ infos.dtype = job.dtype
    BY <2>1, <2>2 DEF OneOutput
  <2>. QED
    BY <2>1, <2>2, <2>3, <2>4, <2>5 DEF FinishedIsWhole
<1>3. Init => FinishInvUncut
  BY <1>1 DEF FinishInvUncut, FinishInv, MarkInv, ParseInv
<1>4. FinishInvUncut => FinishedIsWhole
  BY <1>2 DEF FinishInvUncut, FinishedIsWhole
<1>5. FinishInvUncut /\ [Next]_vars => FinishInvUncut'
  BY TypeStep, CutStep, OutageCounts, FinishStep DEF FinishInvUncut
<1>. QED
  BY <1>3, <1>4, <1>5, PTL DEF Spec
==============================================================================

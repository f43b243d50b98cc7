------------------------------- MODULE Extract -------------------------------
(***************************************************************************)
(* The streaming extract of larql-vindex                                   *)
(* (crates/larql-vindex/src/extract/streaming, extract/checkpoint.rs): a   *)
(* run writes the files of a vindex one stage after another into an        *)
(* output directory and records finished phases in a checkpoint there.     *)
(* A run may end at any step (an error, a kill, a power cut), and the next *)
(* one skips the phases that a compatible checkpoint names.                *)
(*                                                                         *)
(* A file is known by the job that wrote it and by how much of it is       *)
(* there: part 0 is a torn file, NumLayers a whole one, and down_meta.bin  *)
(* has a snapshot of every number of layers in between.                    *)
(***************************************************************************)
EXTENDS Integers

CONSTANTS
  Jobs,        \* the ways extract is run on this directory
  NumLayers,
  PowerLoss,   \* whether the machine may go down, which loses what is not synced
  None, Torn,  \* no such file; a JSON file that does not parse
  MaxRuns      \* the bound of a run of TLC

Files == {"gate", "router", "embed", "down", "tokenizer", "weights", "kquant"}

Phases == {"gate", "down_meta"}   \* the two ExtractPhases that are ever marked

Contents == [job: Jobs, part: 0 .. NumLayers]
Sums == [Files -> Contents \cup {None}]
Checkpoints == [model: {j.model : j \in Jobs}, completed: SUBSET Phases,
                infos: Jobs \cup {None}]
Configs == [job: Jobs, infos: Jobs \cup {None}, weights: BOOLEAN, sums: Sums \cup {None}]

ASSUME ExtractAssumption ==
  /\ \A j \in Jobs :
       /\ {"model", "dtype", "quant", "drop", "attn", "moe"} \subseteq DOMAIN j
       /\ j.quant \in {"none", "q4k"}
       /\ {j.drop, j.attn, j.moe} \subseteq BOOLEAN
       /\ j.drop => j.quant = "q4k"   \* refused before anything is written
  /\ NumLayers \in Nat \ {0}
  /\ PowerLoss \in BOOLEAN
  /\ MaxRuns \in Nat
  /\ None # Torn /\ None \notin Jobs /\ None \notin Contents
  /\ None \notin Sums /\ None \notin Checkpoints /\ None \notin Configs
  /\ Torn \notin Checkpoints /\ Torn \notin Configs

VARIABLES
  disk,     \* the data files
  index,    \* index.json
  ckpt,     \* .extract_checkpoint.json
  tmp,      \* .extract_checkpoint.json.tmp
  dirty,    \* the files with content that was never synced
  pc,       \* the run: where it is,
  job,      \*   its arguments,
  cp,       \*   checkpoint,
  infos,    \*   layer_infos: the job whose gate loop built them,
  layer,    \*   the layers of all_down_meta,
  config,   \*   and the VindexConfig it is writing
  runs,     \* the number of runs so far
  cuts      \* history: how often the power failed

diskVars == <<disk, index, ckpt, tmp, dirty>>
runVars == <<job, cp, infos, layer, config>>
vars == <<diskVars, pc, runVars, runs, cuts>>

Points == {"idle", "gate", "gate_write", "gate_mark", "gate_rename", "router",
           "router_write", "embed", "embed_write", "down", "down_mark", "down_rename",
           "tokenizer", "tokenizer_write", "index", "index_write", "weights",
           "weights_write", "weights_index", "weights_index_write", "finish",
           "finish_write", "clear", "done"}

TypeOK ==
  /\ disk \in Sums
  /\ index \in Configs \cup {None, Torn}
  /\ ckpt \in Checkpoints \cup {None, Torn}
  /\ tmp \in Checkpoints \cup {None}
  /\ dirty \subseteq Files \cup {"index", "ckpt"}
  /\ pc \in Points
  /\ job \in Jobs
  /\ cp \in Checkpoints \cup {None}
  /\ infos \in Jobs \cup {None}
  /\ layer \in 0 .. NumLayers
  /\ config \in Configs \cup {None}
  /\ runs \in Nat /\ cuts \in Nat

Init ==
  /\ disk = [f \in Files |-> None]
  /\ index = None /\ ckpt = None /\ tmp = None
  /\ dirty = {}
  /\ pc = "idle"
  /\ job \in Jobs
  /\ cp = None /\ infos = None /\ layer = 0 /\ config = None
  /\ runs = 0 /\ cuts = 0

-----------------------------------------------------------------------------
(* StreamingContext::new and checkpoint.rs *)

Fresh(j) == [model |-> j.model, completed |-> {}, infos |-> None]

IsCompatible(c, j) == c # None /\ c.model = j.model

\* A checkpoint that does not parse is an error: the run ends where it began.
\* One of another model is left out of the run; its file stays.
Start(j) ==
  /\ pc \in {"idle", "done"} /\ runs < MaxRuns
  /\ ckpt # Torn
  /\ cp' = IF IsCompatible(ckpt, j) THEN ckpt ELSE Fresh(j)
  /\ job' = j /\ infos' = None /\ layer' = 0 /\ config' = None
  /\ pc' = "gate" /\ runs' = runs + 1
  /\ UNCHANGED <<diskVars, cuts>>

Unsynced(f) == IF PowerLoss THEN dirty \cup {f} ELSE dirty

Put(f, part) ==
  /\ disk' = [disk EXCEPT ![f] = [job |-> job, part |-> part]]
  /\ dirty' = Unsynced(f)

\* mark and the first half of save: the tmp file is written and synced.
Save(phase, at, to) ==
  /\ pc = at
  /\ cp' = [cp EXCEPT !.completed = @ \cup {phase},
                      !.infos = IF phase = "gate" THEN infos ELSE @]
  /\ tmp' = cp'
  /\ pc' = to
  /\ UNCHANGED <<disk, index, ckpt, dirty, job, infos, layer, config, runs, cuts>>

\* Mutant of Rename: the tmp file was not synced.
RenameUnsynced(at, to) ==
  /\ pc = at
  /\ ckpt' = tmp /\ tmp' = None
  /\ dirty' = Unsynced("ckpt")
  /\ pc' = to
  /\ UNCHANGED <<disk, index, runVars, runs, cuts>>

Rename(at, to) ==
  /\ pc = at
  /\ ckpt' = tmp /\ tmp' = None
  /\ dirty' = dirty \ {"ckpt"}
  /\ pc' = to
  /\ UNCHANGED <<disk, index, runVars, runs, cuts>>

-----------------------------------------------------------------------------
(* write_gate_vectors *)

GateResumed == "gate" \in cp.completed /\ cp.infos # None

SkipGate ==
  /\ pc = "gate" /\ GateResumed
  /\ infos' = cp.infos
  /\ pc' = "router"
  /\ UNCHANGED <<diskVars, job, cp, layer, config, runs, cuts>>

CreateGate ==
  /\ pc = "gate" /\ ~GateResumed
  /\ IF job.drop THEN UNCHANGED <<disk, dirty>> ELSE Put("gate", 0)
  /\ pc' = "gate_write"
  /\ UNCHANGED <<index, ckpt, tmp, runVars, runs, cuts>>

\* A gate file that is there is removed, or its removal fails, which nobody hears of.
RemoveGate ==
  \/ disk' = [disk EXCEPT !["gate"] = None] /\ dirty' = dirty \ {"gate"}
  \/ UNCHANGED <<disk, dirty>>

\* The loop over the layers and the flush; with drop_gate_vectors nothing is written.
WriteGate ==
  /\ pc = "gate_write"
  /\ IF job.drop THEN RemoveGate ELSE Put("gate", NumLayers)
  /\ infos' = job
  /\ pc' = "gate_mark"
  /\ UNCHANGED <<index, ckpt, tmp, job, cp, layer, config, runs, cuts>>

MarkGate == Save("gate", "gate_mark", "gate_rename")

RenameGate == Rename("gate_rename", "router")

-----------------------------------------------------------------------------
(* write_router_weights, write_embeddings, write_tokenizer: every run        *)
(* creates these files anew.                                                 *)

Create(f, at, to) ==
  /\ pc = at
  /\ Put(f, 0)
  /\ pc' = to
  /\ UNCHANGED <<index, ckpt, tmp, runVars, runs, cuts>>

Fill(f, at, to) ==
  /\ pc = at
  /\ Put(f, NumLayers)
  /\ pc' = to
  /\ UNCHANGED <<index, ckpt, tmp, runVars, runs, cuts>>

Skip(at, to) ==
  /\ pc = at
  /\ pc' = to
  /\ UNCHANGED <<diskVars, runVars, runs, cuts>>

Router ==
  \/ job.moe /\ Create("router", "router", "router_write")
  \/ Fill("router", "router_write", "embed")
  \/ ~job.moe /\ Skip("router", "embed")

Embeddings ==
  \/ Create("embed", "embed", "embed_write")
  \/ Fill("embed", "embed_write", "down")

Tokenizer ==
  \/ Create("tokenizer", "tokenizer", "tokenizer_write")
  \/ Fill("tokenizer", "tokenizer_write", "index")

-----------------------------------------------------------------------------
(* write_down_meta *)

DownResumed == "down_meta" \in cp.completed

SkipDown == pc = "down" /\ DownResumed /\ Skip("down", "tokenizer")

\* Each layer ends in write_binary: a snapshot that is renamed over the file.
DownLayer ==
  /\ pc = "down" /\ ~DownResumed /\ layer < NumLayers
  /\ layer' = layer + 1
  /\ Put("down", layer')
  /\ UNCHANGED <<index, ckpt, tmp, pc, job, cp, infos, config, runs, cuts>>

\* Mutant of DownFinal: the phase ends one layer early.
DownFinalEarly ==
  /\ pc = "down" /\ ~DownResumed /\ layer = NumLayers - 1 /\ layer > 0
  /\ Put("down", layer)
  /\ pc' = "down_mark"
  /\ UNCHANGED <<index, ckpt, tmp, runVars, runs, cuts>>

DownFinal ==
  /\ pc = "down" /\ ~DownResumed /\ layer = NumLayers
  /\ Put("down", NumLayers)
  /\ pc' = "down_mark"
  /\ UNCHANGED <<index, ckpt, tmp, runVars, runs, cuts>>

MarkDown == Save("down_meta", "down_mark", "down_rename")

RenameDown == Rename("down_rename", "tokenizer")

-----------------------------------------------------------------------------
(* write_index_json, maybe_write_model_weights, finalize *)

\* std::fs::write of index.json: the file is truncated, then filled.
OpenIndex(c, at, to) ==
  /\ pc = at
  /\ config' = c
  /\ index' = Torn /\ dirty' = Unsynced("index")
  /\ pc' = to
  /\ UNCHANGED <<disk, ckpt, tmp, job, cp, infos, layer, runs, cuts>>

FillIndex(at, to) ==
  /\ pc = at
  /\ index' = config /\ dirty' = Unsynced("index")
  /\ pc' = to
  /\ UNCHANGED <<disk, ckpt, tmp, runVars, runs, cuts>>

WriteIndexJson ==
  \/ OpenIndex([job |-> job, infos |-> infos, weights |-> FALSE, sums |-> None],
               "index", "index_write")
  \/ FillIndex("index_write", "weights")

NeedsWeights(j) == j.attn \/ j.quant # "none"

WeightFile(j) == IF j.quant = "q4k" THEN "kquant" ELSE "weights"

\* The files of write_model_weights_with_opts, or of its k-quant twin, stand
\* for one; both end by setting has_model_weights in index.json.
ModelWeights ==
  \/ NeedsWeights(job) /\ Create(WeightFile(job), "weights", "weights_write")
  \/ Fill(WeightFile(job), "weights_write", "weights_index")
  \/ OpenIndex([index EXCEPT !.weights = TRUE], "weights_index", "weights_index_write")
  \/ FillIndex("weights_index_write", "finish")
  \/ ~NeedsWeights(job) /\ Skip("weights", "finish")

\* compute_checksums: router and k-quant files are not among the files it reads.
Checksums ==
  [f \in Files |-> IF f \in {"gate", "embed", "down", "weights"} THEN disk[f] ELSE None]

Clear ==
  /\ pc = "clear"
  /\ ckpt' = None
  /\ pc' = "done"
  /\ UNCHANGED <<disk, index, tmp, dirty, runVars, runs, cuts>>

\* A file that cannot be read leaves index.json without checksums, not the
\* run without an end.
Finalize ==
  \/ \E sums \in {Checksums, None} :
       OpenIndex([index EXCEPT !.sums = sums], "finish", "finish_write")
  \/ FillIndex("finish_write", "clear")

-----------------------------------------------------------------------------
(* The end of a run that does not finish *)

Forget ==
  /\ pc' = "idle"
  /\ cp' = None /\ infos' = None /\ layer' = 0 /\ config' = None
  /\ UNCHANGED <<job, tmp, runs>>

\* An error that ? passes on, a panic or a kill: what was written stays.
Crash ==
  /\ pc \notin {"idle", "done"}
  /\ Forget
  /\ UNCHANGED <<disk, index, ckpt, dirty, cuts>>

\* The machine goes down: any of the files that were not synced is torn.
Outage ==
  /\ PowerLoss /\ pc # "idle"
  /\ \E lost \in SUBSET dirty :
       /\ disk' = [f \in Files |-> IF f \in lost /\ disk[f] # None
                                   THEN [disk[f] EXCEPT !.part = 0] ELSE disk[f]]
       /\ index' = IF "index" \in lost THEN Torn ELSE index
       /\ ckpt' = IF "ckpt" \in lost /\ ckpt # None THEN Torn ELSE ckpt
  /\ dirty' = {} /\ cuts' = cuts + 1
  /\ Forget

Stage ==
  \/ SkipGate \/ CreateGate \/ WriteGate \/ MarkGate \/ RenameGate
  \/ Router \/ Embeddings
  \/ SkipDown \/ DownLayer \/ DownFinal \/ MarkDown \/ RenameDown
  \/ Tokenizer \/ WriteIndexJson \/ ModelWeights \/ Finalize \/ Clear

Next == (\E j \in Jobs : Start(j)) \/ Stage \/ Crash \/ Outage

Spec == Init /\ [][Next]_vars

-----------------------------------------------------------------------------
(* Properties *)

Encoded == {"gate", "router", "embed", "weights"}   \* the files dtype shows in

\* f is what a run of j writes, all of it.
Right(f, j) ==
  /\ disk[f] # None
  /\ disk[f].part = NumLayers
  /\ disk[f].job.model = j.model
  /\ f \in Encoded => disk[f].job.dtype = j.dtype

Outputs(j) ==
  {"embed", "down", "tokenizer"} \cup (IF j.drop THEN {} ELSE {"gate"})
    \cup (IF j.moe THEN {"router"} ELSE {})
    \cup (IF NeedsWeights(j) THEN {WeightFile(j)} ELSE {})

\* Whatever ended the earlier runs, short of a power cut, and wherever, an
\* extract that returns Ok leaves the vindex its arguments ask for: every file
\* whole and of this model and dtype, the skipped ones included; index.json
\* with the layers of the gate file and has_model_weights, its checksums,
\* where they could be computed at all, those of what is there; and no
\* checkpoint (build_vindex_streaming, finalize).
FinishedIsWhole ==
  pc = "done" /\ cuts = 0 =>
    /\ \A f \in Outputs(job) : Right(f, job)
    /\ index \notin {None, Torn}
    /\ index.job = job
    /\ index.infos # None /\ index.infos.model = job.model /\ index.infos.dtype = job.dtype
    /\ index.weights = NeedsWeights(job)
    /\ index.sums \in {Checksums, None}
    /\ ckpt = None

\* A phase that the checkpoint on disk marks has its file on disk, whole and
\* of the model of the checkpoint, at every moment until the power fails: while a later run
\* rewrites other files, and after it dies (write_gate_vectors and
\* write_down_meta skip the phase on that word alone).
MarkedIsWhole ==
  ckpt \notin {None, Torn} /\ cuts = 0 =>
    /\ "gate" \in ckpt.completed =>
         /\ ckpt.infos # None
         /\ ckpt.infos.model = ckpt.model
         /\ ckpt.infos.drop \/ Right("gate", ckpt.infos)
    /\ "down_meta" \in ckpt.completed =>
         /\ disk["down"] # None
         /\ disk["down"].part = NumLayers
         /\ disk["down"].job.model = ckpt.model

\* No end of a run, a power cut included, leaves a checkpoint that does not
\* parse: every later extract into the directory would fail at
\* Checkpoint::load (Checkpoint::save).
CheckpointParses == ckpt # Torn
==============================================================================

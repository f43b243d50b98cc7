------------------------------- MODULE Compile -------------------------------
(***************************************************************************)
(* COMPILE ... INTO VINDEX and INTO MODEL                                  *)
(* (crates/larql-lql/src/executor/lifecycle/compile): a process builds a   *)
(* vindex in a staging directory named after its pid, out of hard links    *)
(* to the files of the source, copies and edited copies, and then replaces *)
(* the output directory by it.  Several processes compile into one output; *)
(* any of them may fail or die at any step, and pids are used again.       *)
(*                                                                         *)
(* An entry of a directory is Linked, a hard link to the source's file of  *)
(* that name, or the content of a file that only this directory has.       *)
(***************************************************************************)
EXTENDS Integers

CONSTANTS
  Procs,       \* processes, by pid
  Jobs,        \* what a session can be asked to compile
  SourceFiles, \* the weight files of the source vindex
  Dirs,        \* directories
  SrcDir,      \*   of the source,
  TopDir,      \*   and the one that is in
  CanLink,     \* the answers of the file system to hard_link
  Faults,      \* whether a step of the work or the removal of an output may return an error
  Stuck,       \* whether the removal of a staging directory may
  Reextracts,  \* whether extract may write the source again
  None, Linked,
  MaxRuns      \* the bound of a run of TLC

Files == {"gate", "attn", "up", "down", "lm_head", "knn"}
Summed == Files \ {"knn"}         \* the files compute_checksums reads
Empty == [f \in Files |-> None]

Names == {"src", "top", "out"} \cup Procs
Contents == [ver: 0 .. 1, by: Jobs \cup {None}, edits: SUBSET {"override", "memit"}]
Sums == [Files -> Contents \cup {None}]

ASSUME CompileAssumption ==
  /\ \A j \in Jobs :
       /\ {"target", "at", "overrides", "listed", "memit", "knn"} \subseteq DOMAIN j
       /\ j.target \in {"vindex", "model"} /\ j.at \in {"apart", "same", "above"}
       /\ j.overrides \subseteq {"gate", "up", "down"}
       /\ {j.listed, j.memit, j.knn} \subseteq BOOLEAN
  /\ Jobs # {}
  /\ {"gate", "attn", "up", "down"} \subseteq SourceFiles /\ SourceFiles \subseteq Summed
  /\ {SrcDir, TopDir} \subseteq Dirs /\ SrcDir # TopDir
  /\ {Faults, Stuck, Reextracts} \cup CanLink \subseteq BOOLEAN
  /\ {"src", "top", "out"} \cap Procs = {}
  /\ None # Linked /\ None \notin Dirs \cup Jobs \cup Contents \cup Sums
  /\ Linked \notin Contents
  /\ MaxRuns \in Nat

VARIABLES
  path,    \* the directory each name refers to
  slot,    \* the entries of each directory
  index,   \* index.json of each directory: its checksums
  store,   \* the contents of the source's files
  pc, job, \* where each process is, and its statement
  handle,  \* the directory it has open for removal
  runs,    \* the number of statements so far
  left     \* history: the processes whose last removal of their staging directory failed

vars == <<path, slot, index, store, pc, job, handle, runs, left>>

Points == {"off", "stage", "work", "links", "down", "gate", "up", "index", "memit", "knn",
           "model_index", "cleanup", "open", "remove", "rename", "ok", "err"}

TypeOK ==
  /\ path \in [Names -> Dirs \cup {None}]
  /\ slot \in [Dirs -> [Files -> Contents \cup {None, Linked}]]
  /\ index \in [Dirs -> Sums \cup {None}]
  /\ store \in Sums
  /\ pc \in [Procs -> Points]
  /\ job \in [Procs -> Jobs]
  /\ handle \in [Procs -> Dirs \cup {None}]
  /\ runs \in Nat
  /\ left \subseteq Procs

\* A file as extract writes it, the first time and again.
Original == [ver |-> 0, by |-> None, edits |-> {}]
Rewritten == [Original EXCEPT !.ver = 1]

AnyJob == CHOOSE j \in Jobs : TRUE

Init ==
  /\ path = [n \in Names |-> IF n = "src" THEN SrcDir ELSE IF n = "top" THEN TopDir ELSE None]
  /\ store = [f \in Files |-> IF f \in SourceFiles THEN Original ELSE None]
  /\ slot = [d \in Dirs |-> IF d = SrcDir
                            THEN [f \in Files |-> IF f \in SourceFiles THEN Linked ELSE None]
                            ELSE Empty]
  /\ index = [d \in Dirs |-> IF d = SrcDir THEN store ELSE None]
  /\ pc = [p \in Procs |-> "off"]
  /\ job = [p \in Procs |-> AnyJob]
  /\ handle = [p \in Procs |-> None]
  /\ runs = 0
  /\ left = {}

Content(d, f) == IF slot[d][f] = Linked THEN store[f] ELSE slot[d][f]

Free == {d \in Dirs \ {SrcDir, TopDir} : (\A n \in Names : path[n] # d)
                                  /\ (\A p \in Procs : handle[p] # d)}

Bare(d) == slot[d] = Empty /\ index[d] = None

IsEmpty(d) == Bare(d) /\ ~(d = TopDir /\ path["src"] = SrcDir)

-----------------------------------------------------------------------------
(* run_atomic_compile up to the work *)

Staging(p) == p

\* The directory p works in from now on: the one its name has, or a new one.
NewDir(p) ==
  IF path[Staging(p)] # None THEN path[Staging(p)] ELSE CHOOSE d \in Free : TRUE

Final(j) ==
  CASE j.at = "same" -> "src"
    [] j.at = "above" -> "top"
    [] j.at = "apart" -> "out"

\* paths_collide: the two are the same directory.
Collides(j) == j.at = "same"

Begin(p, j) ==
  /\ pc[p] \in {"off", "ok", "err"} /\ runs < MaxRuns
  /\ job' = [job EXCEPT ![p] = j]
  /\ pc' = [pc EXCEPT ![p] = IF Collides(j) THEN "err" ELSE "stage"]
  /\ runs' = runs + 1
  /\ UNCHANGED <<path, slot, index, store, handle, left>>

Goto(p, to) == pc' = [pc EXCEPT ![p] = to] /\ UNCHANGED <<job, runs>>

\* The entries that may be there after a remove_dir_all that failed.
Remains(d) ==
  {[f \in Files |-> IF f \in kept THEN slot[d][f] ELSE None] : kept \in SUBSET Files}

CutShort(d) ==
  /\ Stuck
  /\ \E entries \in Remains(d) : slot' = [slot EXCEPT ![d] = entries]
  /\ \E sums \in {index[d], None} : index' = [index EXCEPT ![d] = sums]

\* What a run with this pid left behind is removed.
Stage(p) ==
  /\ pc[p] = "stage" /\ (path[Staging(p)] # None \/ Free # {})
  /\ path' = [path EXCEPT ![Staging(p)] = NewDir(p)]
  /\ slot' = [slot EXCEPT ![NewDir(p)] = Empty]
  /\ index' = [index EXCEPT ![NewDir(p)] = None]
  /\ left' = left \ {p}
  /\ Goto(p, "work")
  /\ UNCHANGED <<store, handle>>

\* The error is ignored, and create_dir_all takes the directory as it is.
StageOver(p) ==
  /\ pc[p] = "stage" /\ path[Staging(p)] # None
  /\ CutShort(path[Staging(p)])
  /\ left' = left \cup {p}
  /\ Goto(p, "work")
  /\ UNCHANGED <<path, store, handle>>

-----------------------------------------------------------------------------
(* bake_compile_into_vindex *)

Dir(p) == path[Staging(p)]

Set(p, f, entry) == slot' = [slot EXCEPT ![Dir(p)][f] = entry]

\* A seek and a write: through a hard link it changes the source.
WriteInPlace(p, f, content) ==
  IF slot[Dir(p)][f] = Linked
  THEN store' = [store EXCEPT ![f] = content] /\ UNCHANGED slot
  ELSE Set(p, f, content) /\ UNCHANGED store

Edited(content, j, edit) == [content EXCEPT !.by = j, !.edits = @ \cup {edit}]

Step(p, at, to) == pc[p] = at /\ Goto(p, to) /\ UNCHANGED <<path, index, handle, left>>

SaveGate(p) ==
  /\ job[p].target = "vindex" /\ Step(p, "work", "links")
  /\ Set(p, "gate", store["gate"])
  /\ UNCHANGED store

\* A hard link, or a copy where the file system makes none.
LinkOrCopy(f) == {IF can THEN Linked ELSE store[f] : can \in CanLink}

\* Mutant of LinkUnchanging: up_weights.bin is not in the list.
LinkUnchangingButUp(p) ==
  /\ Step(p, "links", "down")
  /\ \E attn \in LinkOrCopy("attn") : Set(p, "attn", attn)
  /\ UNCHANGED store

LinkUnchanging(p) ==
  /\ Step(p, "links", "down")
  /\ \E attn \in LinkOrCopy("attn"), up \in LinkOrCopy("up") :
       slot' = [slot EXCEPT ![Dir(p)]["attn"] = attn, ![Dir(p)]["up"] = up]
  /\ UNCHANGED store

\* Mutant of BakeDown: linked although MEMIT will write it.
BakeDownLinked(p) ==
  /\ Step(p, "down", "gate")
  /\ \E entry \in IF "down" \in job[p].overrides
                   THEN {Edited(store["down"], job[p], "override")}
                   ELSE LinkOrCopy("down") :
       Set(p, "down", entry)
  /\ UNCHANGED store

BakeDown(p) ==
  /\ Step(p, "down", "gate")
  /\ \E entry \in IF "down" \in job[p].overrides
                   THEN {Edited(store["down"], job[p], "override")}
                   ELSE IF job[p].memit THEN {store["down"]} ELSE LinkOrCopy("down") :
       Set(p, "down", entry)
  /\ UNCHANGED store

\* The overrides of f that are written: of those of the up matrices the ones at a
\* layer that the source's weight manifest names.
Baked(j, f) == f \in j.overrides /\ (f = "up" => j.listed)

\* Mutant of Patch: the rows are written without copy_for_patch.
PatchLinked(p, f) ==
  IF Baked(job[p], f)
  THEN WriteInPlace(p, f, Edited(store[f], job[p], "override"))
  ELSE UNCHANGED <<slot, store>>

\* patch_gate_vectors and patch_up_weights: copy_for_patch, then the rows.
Patch(p, f) ==
  /\ IF Baked(job[p], f) THEN Set(p, f, Edited(store[f], job[p], "override"))
                         ELSE UNCHANGED slot
  /\ UNCHANGED store

PatchGate(p) == Step(p, "gate", "up") /\ Patch(p, "gate")

PatchUp(p) == Step(p, "up", "index") /\ Patch(p, "up")

ChecksumsOf(d) == [f \in Files |-> IF f \in Summed THEN Content(d, f) ELSE None]

\* Mutant of WriteIndex: the checksums of the source are kept.
WriteIndexOfSource(p) ==
  /\ pc[p] = "index" /\ Goto(p, "memit")
  /\ index' = [index EXCEPT ![Dir(p)] = index[SrcDir]]
  /\ UNCHANGED <<path, slot, store, handle, left>>

\* A file that cannot be read leaves the index without checksums.
WriteIndex(p) ==
  /\ pc[p] = "index" /\ Goto(p, "memit")
  /\ \E sums \in {ChecksumsOf(Dir(p))} \cup (IF Faults THEN {Empty} ELSE {}) :
       index' = [index EXCEPT ![Dir(p)] = sums]
  /\ UNCHANGED <<path, slot, store, handle, left>>

ApplyMemit(p) ==
  /\ Step(p, "memit", "knn")
  /\ IF job[p].memit
     THEN WriteInPlace(p, "down", Edited(Content(Dir(p), "down"), job[p], "memit"))
     ELSE UNCHANGED <<slot, store>>

SaveKnn(p) ==
  /\ Step(p, "knn", "open")
  /\ IF job[p].knn THEN Set(p, "knn", [Original EXCEPT !.by = job[p]]) ELSE UNCHANGED slot
  /\ UNCHANGED store

-----------------------------------------------------------------------------
(* bake_compile_into_model *)

\* File::create: a link that is still there leads it to the source's file.
WriteModel(p) ==
  LET written == [f \in SourceFiles \ {"gate"} |->
                    IF f = "down" /\ job[p].memit THEN Edited(store[f], job[p], "memit")
                                                  ELSE store[f]]
      through == {f \in DOMAIN written : slot[Dir(p)][f] = Linked}
  IN /\ job[p].target = "model" /\ Step(p, "work", "model_index")
     /\ slot' = [slot EXCEPT ![Dir(p)] =
                  [f \in Files |-> IF f \in DOMAIN written \ through THEN written[f] ELSE @[f]]]
     /\ store' = [f \in Files |-> IF f \in through THEN written[f] ELSE store[f]]

\* The end of write_model_weights sets has_model_weights in the index.json of
\* the directory, which must be there.
UpdateModelIndex(p) ==
  /\ Step(p, "model_index", IF index[Dir(p)] = None THEN "cleanup" ELSE "open")
  /\ UNCHANGED <<slot, store>>

-----------------------------------------------------------------------------
(* The end of run_atomic_compile *)

WorkFails(p) ==
  /\ Faults
  /\ pc[p] \in {"work", "links", "down", "gate", "up", "index", "memit", "knn", "model_index"}
  /\ Goto(p, "cleanup")
  /\ UNCHANGED <<path, slot, index, store, handle, left>>

\* The result of remove_dir_all is ignored.
Scrub(p) ==
  \/ /\ slot' = [slot EXCEPT ![Dir(p)] = Empty]
     /\ index' = [index EXCEPT ![Dir(p)] = None]
     /\ path' = [path EXCEPT ![Staging(p)] = None]
     /\ left' = left \ {p}
  \/ /\ CutShort(Dir(p)) /\ UNCHANGED path
     /\ left' = left \cup {p}

Cleanup(p) ==
  /\ pc[p] = "cleanup" /\ Goto(p, "err")
  /\ Scrub(p)
  /\ UNCHANGED <<store, handle>>

\* remove_dir_all opens the directory and unlinks its entries one by one.
OpenFinal(p) ==
  /\ pc[p] = "open"
  /\ handle' = [handle EXCEPT ![p] = path[Final(job[p])]]
  /\ Goto(p, IF handle'[p] = None THEN "rename" ELSE "remove")
  /\ UNCHANGED <<path, slot, index, store, left>>

\* What is under the directory: the source, when the output is above it.
Tree(p) ==
  {handle[p]} \cup (IF job[p].at = "above" THEN {path["src"]} \ {None} ELSE {})

Unlink(p) ==
  /\ pc[p] = "remove"
  /\ \E d \in Tree(p) :
       \/ \E f \in Files :
            /\ slot[d][f] # None
            /\ slot' = [slot EXCEPT ![d][f] = None]
            /\ UNCHANGED index
       \/ index[d] # None /\ index' = [index EXCEPT ![d] = None] /\ UNCHANGED slot
  /\ UNCHANGED <<path, store, pc, job, handle, runs, left>>

\* The directory itself goes by its name; what has that name may be another
\* directory by now, and then only goes when it is empty.
Rmdir(p) ==
  /\ pc[p] = "remove" /\ \A d \in Tree(p) : Bare(d)
  /\ path' = [n \in Names |->
                IF \/ n = Final(job[p]) /\ path[n] # None /\ Bare(path[n])
                   \/ n = "src" /\ job[p].at = "above"
                THEN None ELSE path[n]]
  /\ handle' = [handle EXCEPT ![p] = None]
  /\ Goto(p, "rename")
  /\ UNCHANGED <<slot, index, store, left>>

\* The result of remove_dir_all is ignored.
RemoveFails(p) ==
  /\ Faults /\ pc[p] = "remove"
  /\ handle' = [handle EXCEPT ![p] = None]
  /\ Goto(p, "rename")
  /\ UNCHANGED <<path, slot, index, store, left>>

FinalFree(p) ==
  LET d == path[Final(job[p])] IN IF d = None THEN TRUE ELSE IsEmpty(d)

Rename(p) ==
  /\ pc[p] = "rename" /\ FinalFree(p) /\ Goto(p, "ok")
  /\ path' = [path EXCEPT ![Final(job[p])] = Dir(p), ![Staging(p)] = None]
  /\ UNCHANGED <<slot, index, store, handle, left>>

\* Mutant of RenameFails: the error is passed on at once.
RenameFailsAtOnce(p) ==
  /\ pc[p] = "rename" /\ (Faults \/ ~FinalFree(p)) /\ Goto(p, "err")
  /\ UNCHANGED <<path, slot, index, store, handle, left>>

RenameFails(p) ==
  /\ pc[p] = "rename" /\ (Faults \/ ~FinalFree(p)) /\ Goto(p, "err")
  /\ Scrub(p)
  /\ UNCHANGED <<store, handle>>

Crash(p) ==
  /\ pc[p] \notin {"off", "ok", "err"}
  /\ pc' = [pc EXCEPT ![p] = "off"]
  /\ job' = [job EXCEPT ![p] = AnyJob]
  /\ handle' = [handle EXCEPT ![p] = None]
  /\ UNCHANGED <<path, slot, index, store, runs, left>>

\* Extract writes the source again: it creates the files over the old ones.
Reextract ==
  /\ Reextracts /\ \A p \in Procs : pc[p] \in {"off", "ok", "err"}
  /\ store' = [f \in Files |-> IF f \in SourceFiles THEN Rewritten ELSE None]
  /\ index' = [index EXCEPT ![SrcDir] = store']
  /\ UNCHANGED <<path, slot, pc, job, handle, runs, left>>

Work(p) ==
  \/ SaveGate(p) \/ LinkUnchanging(p) \/ BakeDown(p) \/ PatchGate(p) \/ PatchUp(p)
  \/ WriteIndex(p) \/ ApplyMemit(p) \/ SaveKnn(p) \/ WriteModel(p) \/ UpdateModelIndex(p)

Promote(p) ==
  \/ OpenFinal(p) \/ Unlink(p) \/ Rmdir(p) \/ RemoveFails(p) \/ Rename(p) \/ RenameFails(p)

Next ==
  \/ \E p \in Procs :
       \/ \E j \in Jobs : Begin(p, j)
       \/ Stage(p) \/ StageOver(p) \/ Work(p) \/ WorkFails(p) \/ Cleanup(p) \/ Promote(p) \/ Crash(p)
  \/ Reextract

Spec == Init /\ [][Next]_vars

-----------------------------------------------------------------------------
(* Properties *)

\* The files a compile of j should leave: those of the source with the overrides and
\* deltas of j in them that are written, and its KNN store.
Expected(j) ==
  [f \in Files |->
     LET edits == (IF Baked(j, f) THEN {"override"} ELSE {})
                    \cup (IF f = "down" /\ j.memit THEN {"memit"} ELSE {})
     IN  IF f = "knn" THEN IF j.knn THEN [Original EXCEPT !.by = j] ELSE None
         ELSE IF f \notin SourceFiles THEN None
         ELSE IF edits = {} THEN Original
         ELSE [ver |-> 0, by |-> j, edits |-> edits]]

Output == [f \in Files |-> IF path["out"] = None THEN None ELSE Content(path["out"], f)]

\* No compile, wherever it fails or dies and whoever else compiles, changes
\* the source: its directory keeps its entries and they keep what extract
\* wrote, though most of what is in a staging directory is a link to them
\* (copy_for_patch, paths_collide).
SourceKept ==
  /\ path["src"] = SrcDir
  /\ \A f \in SourceFiles : slot[SrcDir][f] = Linked /\ store[f] \in {Original, Rewritten}
  /\ index[SrcDir] # None

\* Extract has not written the source again.
FirstExtract == \A f \in SourceFiles : store[f].ver = 0

\* A statement that returns Ok has put a whole vindex of its own in place: every file
\* it should leave, with this session's edits, nothing of another process, and of an
\* earlier run with this pid only, when what that run left could not be removed, a file
\* that this statement does not write (run_atomic_compile).
PromotedIsWhole ==
  [][\A p \in Procs : pc[p] = "rename" /\ pc'[p] = "ok" /\ FirstExtract =>
       /\ \A f \in Files : \/ Output'[f] = Expected(job[p])[f]
                           \/ p \in left /\ Expected(job[p])[f] = None
       /\ index'[path'["out"]] # None]_vars

\* What is in the output, even when a removal was cut short, is all of one statement,
\* but for a KNN store that a staging directory kept from another: processes that
\* compile into one output never mix their files (staging_dir_for, rename).
OutputOfOneJob ==
  FirstExtract =>
    \E j \in Jobs : \A f \in Files :
      \/ Output[f] \in {None, Expected(j)[f]}
      \/ Stuck /\ f = "knn" /\ \E k \in Jobs : Output[f] = Expected(k)[f]

\* A statement that got past the collision check and returned, Ok or not, leaves no
\* staging directory unless its removal was tried and failed, also when another process
\* took the output's name first, and also what died under this pid before
\* (run_atomic_compile).
StagingGone ==
  \A p \in Procs : pc[p] \in {"ok", "err"} /\ ~Collides(job[p])
                     => path[Staging(p)] = None \/ p \in left

\* The checksums in an index.json of the output, if they could be computed, are those of
\* the files that are there, but for the one that MEMIT writes after they were computed
\* (compute_checksums in bake_compile_into_vindex).
ChecksumsMatch ==
  path["out"] # None /\ index[path["out"]] \notin {None, Empty} /\ FirstExtract =>
    \A f \in Summed :
      Output[f] # None /\ "memit" \notin Output[f].edits => Output[f] = index[path["out"]][f]

Replacing == path'["out"] # path["out"] \/ \E p \in Procs : pc[p] = "remove"

\* What a compile baked into a file stays there until another compile replaces
\* the output, though extract may write the source again, over the very files
\* that the output's others are links to (copy_for_patch).
BakedStands ==
  [][~Replacing => \A f \in Files : Output[f] # None /\ Output[f].edits # {}
                                      => Output'[f] = Output[f]]_vars
==============================================================================

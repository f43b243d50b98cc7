---------------------------- MODULE CompileProofs ----------------------------
(***************************************************************************)
(* Proofs about Compile, for any processes, statements and files.          *)
(***************************************************************************)
EXTENDS Compile, TLAPS

\* The points at which a process has a staging directory.
Staged == {"work", "links", "down", "gate", "up", "index", "memit", "knn", "model_index",
           "cleanup", "open", "remove", "rename"}

\* The points at which the down file has been put there.
HasDown == {"gate", "up", "index", "memit"}

\* Staging directories belong to one process: they are not the source, no two
\* names have one directory, and none is being removed.
DirInv ==
  /\ \A m, n \in Names : path[m] = path[n] /\ path[m] # None => m = n
  /\ \A p \in Procs : path[p] # SrcDir /\ path[p] # TopDir
  /\ \A p, q \in Procs : handle[p] # None => handle[p] # path[q]
  /\ \A p \in Procs : pc[p] \in Staged => path[p] # None
  /\ \A p \in Procs : pc[p] = "remove" => handle[p] # None
  /\ \A p \in Procs : pc[p] \in HasDown => slot[path[p]]["down"] # None
  /\ \A f \in SourceFiles : store[f] \in Contents

Inv == TypeOK /\ DirInv

\* One step of process p.
ProcStep(p) ==
  \/ \E j \in Jobs : Begin(p, j)
  \/ Stage(p) \/ StageOver(p) \/ Work(p) \/ WorkFails(p) \/ Cleanup(p) \/ Promote(p)
  \/ Crash(p)

\* An edited content is a content.
LEMMA EditedContent ==
  ASSUME NEW c \in Contents, NEW j \in Jobs, NEW e \in {"override", "memit"}
  PROVE  Edited(c, j, e) \in Contents
BY DEF Edited, Contents

\* The file as extract first wrote it.
LEMMA OriginalContent == Original \in Contents
BY DEF Original, Contents

\* NewDir is the staging directory that is there, or one that is free.
LEMMA NewDirIs ==
  ASSUME Inv, NEW p \in Procs, path[Staging(p)] # None \/ Free # {}
  PROVE  /\ NewDir(p) \in Dirs
         /\ path[p] # None => NewDir(p) = path[p]
         /\ path[p] = None => NewDir(p) \in Free
<1>1. path[p] \in Dirs \cup {None}
  BY DEF Inv, TypeOK, Names
<1>2. CASE path[p] # None
  BY <1>1, <1>2 DEF NewDir, Staging
<1>3. CASE path[p] = None
  <2>1. (CHOOSE d \in Free : TRUE) \in Free
    BY <1>3 DEF Staging
  <2> QED  BY <1>3, <2>1 DEF NewDir, Staging, Free
<1> QED  BY <1>2, <1>3

\* The names of the statements' outputs.
LEMMA FinalName ==
  ASSUME NEW j \in Jobs
  PROVE  Final(j) \in {"src", "top", "out"}
BY CompileAssumption DEF Final

\* Inv holds at the start.
LEMMA InvInit == Init => Inv
<1> SUFFICES ASSUME Init PROVE Inv
  OBVIOUS
<1>1. store \in Sums /\ \A f \in SourceFiles : store[f] \in Contents
  BY OriginalContent, CompileAssumption DEF Init, Sums, Summed
<1>2. AnyJob \in Jobs
  BY CompileAssumption DEF AnyJob
<1>3. TypeOK
  <2>1. path \in [Names -> Dirs \cup {None}]
    BY CompileAssumption DEF Init
  <2>2. slot \in [Dirs -> [Files -> Contents \cup {None, Linked}]]
    BY DEF Init, Empty
  <2>3. index \in [Dirs -> Sums \cup {None}]
    BY <1>1 DEF Init
  <2> QED  BY <1>1, <1>2, <2>1, <2>2, <2>3 DEF TypeOK, Init, Points
<1>4. DirInv
  BY <1>1, CompileAssumption DEF DirInv, Init, Names, Staged, HasDown
<1> QED  BY <1>3, <1>4 DEF Inv

-----------------------------------------------------------------------------
\* What is there when the removal of a directory has failed.
LEMMA CutShortIs ==
  ASSUME Inv, NEW d \in Dirs, CutShort(d)
  PROVE  /\ Stuck
         /\ \E g \in [Files -> Contents \cup {None, Linked}] :
              /\ \A f \in Files : g[f] \in {None, slot[d][f]}
              /\ slot' = [slot EXCEPT ![d] = g]
         /\ \E s \in Sums \cup {None} : index' = [index EXCEPT ![d] = s]
<1>1. /\ slot[d] \in [Files -> Contents \cup {None, Linked}]
      /\ index[d] \in Sums \cup {None}
  BY DEF Inv, TypeOK
<1>2. PICK g \in Remains(d) : slot' = [slot EXCEPT ![d] = g]
  BY DEF CutShort
<1>3. PICK kept \in SUBSET Files : g = [f \in Files |-> IF f \in kept THEN slot[d][f] ELSE None]
  BY <1>2 DEF Remains
<1>4. /\ g \in [Files -> Contents \cup {None, Linked}]
      /\ \A f \in Files : g[f] \in {None, slot[d][f]}
  BY <1>1, <1>3
<1>5. \E s \in Sums \cup {None} : index' = [index EXCEPT ![d] = s]
  BY <1>1 DEF CutShort
<1> QED  BY <1>2, <1>4, <1>5 DEF CutShort

\* It changes that directory only.
LEMMA CutShortElsewhere ==
  ASSUME Inv, NEW d, CutShort(d)
  PROVE  \A e \in Dirs : e # d => slot'[e] = slot[e] /\ index'[e] = index[e]
BY DEF CutShort, Inv, TypeOK

\* A step in which process p goes on and changes only its own directory and, at
\* most, the contents of the source's files.
LEMMA WorkStep ==
  ASSUME Inv, NEW p \in Procs, path[p] # None,
         NEW to \in Points \ {"remove"}, Goto(p, to),
         UNCHANGED <<path, handle>>, left' \subseteq Procs,
         NEW entries \in [Files -> Contents \cup {None, Linked}],
         slot' = [slot EXCEPT ![path[p]] = entries],
         to \in HasDown => entries["down"] # None,
         store' \in Sums, \A f \in SourceFiles : store'[f] \in Contents,
         index' \in [Dirs -> Sums \cup {None}]
  PROVE  Inv'
<1>1. path[p] \in Dirs
  BY DEF Inv, TypeOK, Names
<1>2. TypeOK'
  BY <1>1 DEF Inv, TypeOK, Goto
<1>3. \A q \in Procs : q # p /\ path[q] # None => slot'[path[q]] = slot[path[q]]
  BY <1>1 DEF Inv, TypeOK, DirInv, Names
<1>4. \A q \in Procs : pc'[q] = IF q = p THEN to ELSE pc[q]
  BY DEF Inv, TypeOK, Goto
<1>5. DirInv'
  <2>1. (\A q \in Procs : pc[q] \in HasDown => slot[path[q]]["down"] # None)'
    <3> SUFFICES ASSUME NEW q \in Procs, pc'[q] \in HasDown
                 PROVE  slot'[path[q]]["down"] # None
      OBVIOUS
    <3>1. CASE q = p
      BY <1>1, <1>4, <3>1 DEF Inv, TypeOK
    <3>2. CASE q # p
      BY <1>3, <1>4, <3>2 DEF Inv, DirInv, HasDown, Staged
    <3> QED  BY <3>1, <3>2
  <2>2. (\A q \in Procs : pc[q] \in Staged => path[q] # None)'
    BY <1>1, <1>4, CompileAssumption DEF Inv, DirInv
  <2>3. (\A q \in Procs : pc[q] = "remove" => handle[q] # None)'
    BY <1>4 DEF Inv, DirInv
  <2> QED  BY <2>1, <2>2, <2>3 DEF Inv, DirInv
<1> QED  BY <1>2, <1>5 DEF Inv

\* The entries of the staging directory with one of them set.
LEMMA SetEntries ==
  ASSUME Inv, NEW p \in Procs, pc[p] \in Staged, NEW f \in Files,
         NEW e \in Contents \cup {None, Linked}, Set(p, f, e)
  PROVE  \E g \in [Files -> Contents \cup {None, Linked}] :
           /\ g = [slot[path[p]] EXCEPT ![f] = e]
           /\ slot' = [slot EXCEPT ![path[p]] = g]
<1>1. path[p] \in Dirs
  BY DEF Inv, TypeOK, DirInv, Names
<1> QED  BY <1>1 DEF Set, Dir, Staging, Inv, TypeOK

\* A step that sets one entry.
LEMMA SetStep ==
  ASSUME Inv, NEW p \in Procs, NEW at \in Staged, NEW to \in Staged \ {"remove"},
         Step(p, at, to), NEW f \in Files, NEW e \in Contents \cup {None, Linked},
         Set(p, f, e), UNCHANGED store,
         to \in HasDown => at \in HasDown \/ f = "down",
         f = "down" => e # None
  PROVE  Inv'
<1>1. pc[p] = at /\ pc[p] \in Staged
  BY DEF Step
<1>2. PICK g \in [Files -> Contents \cup {None, Linked}] :
        /\ g = [slot[path[p]] EXCEPT ![f] = e]
        /\ slot' = [slot EXCEPT ![path[p]] = g]
  BY <1>1, SetEntries
<1>3. path[p] \in Dirs
  BY <1>1 DEF Inv, TypeOK, DirInv, Names
<1>4. to \in HasDown => g["down"] # None
  BY <1>1, <1>2, <1>3 DEF Inv, TypeOK, DirInv, Files
<1>5. /\ store' \in Sums /\ \A h \in SourceFiles : store'[h] \in Contents
      /\ index' \in [Dirs -> Sums \cup {None}] /\ left' \subseteq Procs
      /\ Goto(p, to) /\ UNCHANGED <<path, handle>>
  BY DEF Inv, TypeOK, DirInv, Step
<1>6. path[p] # None /\ to \in Points \ {"remove"}
  BY <1>1 DEF Inv, DirInv, Points, Staged
<1> QED  BY <1>2, <1>4, <1>5, <1>6, WorkStep

\* A step that sets no entry.
LEMMA IdleStep ==
  ASSUME Inv, NEW p \in Procs, NEW at \in Staged, NEW to \in Staged \ {"remove"},
         pc[p] = at, Goto(p, to), UNCHANGED <<path, handle, slot, store, left>>,
         index' \in [Dirs -> Sums \cup {None}],
         to \in HasDown => at \in HasDown
  PROVE  Inv'
<1>1. path[p] \in Dirs
  BY DEF Inv, TypeOK, DirInv, Names
<1> DEFINE g == slot[path[p]]
<1>2. /\ g \in [Files -> Contents \cup {None, Linked}]
      /\ slot' = [slot EXCEPT ![path[p]] = g]
      /\ to \in HasDown => g["down"] # None
      /\ store' \in Sums /\ \A h \in SourceFiles : store'[h] \in Contents
      /\ left' \subseteq Procs
  BY <1>1 DEF Inv, TypeOK, DirInv
<1> HIDE DEF g
<1>3. path[p] # None /\ to \in Points \ {"remove"}
  BY DEF Inv, DirInv, Points, Staged
<1> QED  BY <1>2, <1>3, WorkStep

\* The contents a step reads from the source's files.
LEMMA SourceContents ==
  ASSUME Inv
  PROVE  {"gate", "attn", "up", "down"} \subseteq SourceFiles
         /\ \A f \in {"gate", "attn", "up", "down"} :
              f \in Files /\ store[f] \in Contents /\ store[f] # None
BY CompileAssumption DEF Inv, DirInv, Files

\* bake_compile_into_vindex keeps Inv.
LEMMA BakeInv ==
  ASSUME Inv, NEW p \in Procs,
         \/ SaveGate(p) \/ LinkUnchanging(p) \/ BakeDown(p) \/ PatchGate(p) \/ PatchUp(p)
         \/ SaveKnn(p)
  PROVE  Inv'
<1>j. job[p] \in Jobs
  BY DEF Inv, TypeOK
<1>s. \A f \in {"gate", "attn", "up", "down"} :
        f \in Files /\ store[f] \in Contents /\ store[f] # None
  BY SourceContents
<1>e. \A f \in {"gate", "attn", "up", "down"} :
        Edited(store[f], job[p], "override") \in Contents
  BY <1>s, <1>j, EditedContent
<1>1. CASE SaveGate(p)
  <2>1. Step(p, "work", "links") /\ Set(p, "gate", store["gate"]) /\ UNCHANGED store
    BY <1>1 DEF SaveGate
  <2> QED  BY <2>1, <1>s, SetStep DEF Staged, HasDown
<1>2. CASE LinkUnchanging(p)
  <2>1. PICK attn \in LinkOrCopy("attn"), up \in LinkOrCopy("up") :
          slot' = [slot EXCEPT ![Dir(p)]["attn"] = attn, ![Dir(p)]["up"] = up]
    BY <1>2 DEF LinkUnchanging
  <2>2. attn \in Contents \cup {None, Linked} /\ up \in Contents \cup {None, Linked}
    BY <1>s DEF LinkOrCopy
  <2> DEFINE g == [slot[path[p]] EXCEPT !["attn"] = attn, !["up"] = up]
  <2>3. Step(p, "links", "down") /\ UNCHANGED store
    BY <1>2 DEF LinkUnchanging
  <2>4. path[p] \in Dirs
    BY <2>3 DEF Inv, TypeOK, DirInv, Names, Step, Staged
  <2>5. g \in [Files -> Contents \cup {None, Linked}]
    BY <2>2, <2>4 DEF Inv, TypeOK
  <2>6. slot' = [slot EXCEPT ![path[p]] = g]
    BY <2>1, <2>4 DEF Dir, Staging, Inv, TypeOK
  <2>7. /\ store' \in Sums /\ \A h \in SourceFiles : store'[h] \in Contents
        /\ index' \in [Dirs -> Sums \cup {None}]
        /\ path[p] # None /\ Goto(p, "down") /\ UNCHANGED <<path, handle>>
        /\ "down" \in Points \ {"remove"} /\ "down" \notin HasDown /\ left' \subseteq Procs
    BY <2>3 DEF Inv, TypeOK, DirInv, Step, Staged, HasDown, Points
  <2> HIDE DEF g
  <2> QED  BY <2>5, <2>6, <2>7, WorkStep
<1>3. CASE BakeDown(p)
  <2>1. PICK e \in Contents \cup {Linked} : Set(p, "down", e)
    BY <1>3, <1>s, <1>e DEF BakeDown, LinkOrCopy
  <2>2. Step(p, "down", "gate") /\ UNCHANGED store
    BY <1>3 DEF BakeDown
  <2>3. e # None
    BY <2>1, CompileAssumption
  <2> QED  BY <2>1, <2>2, <2>3, <1>s, SetStep DEF Staged, HasDown
<1>4. CASE PatchGate(p)
  <2>1. Step(p, "gate", "up") /\ UNCHANGED store
    BY <1>4 DEF PatchGate, Patch
  <2>2. CASE Baked(job[p], "gate")
    <3>1. Set(p, "gate", Edited(store["gate"], job[p], "override"))
      BY <1>4, <2>2 DEF PatchGate, Patch
    <3> QED  BY <2>1, <3>1, <1>s, <1>e, SetStep DEF Staged, HasDown
  <2>3. CASE ~Baked(job[p], "gate")
    <3>1. UNCHANGED slot /\ UNCHANGED <<path, handle, left>> /\ index' = index
          /\ pc[p] = "gate" /\ Goto(p, "up")
      BY <1>4, <2>1, <2>3 DEF PatchGate, Patch, Step
    <3>2. index' \in [Dirs -> Sums \cup {None}]
      BY <3>1 DEF Inv, TypeOK
    <3> QED  BY <2>1, <3>1, <3>2, IdleStep DEF Staged, HasDown
  <2> QED  BY <2>2, <2>3
<1>5. CASE PatchUp(p)
  <2>1. Step(p, "up", "index") /\ UNCHANGED store
    BY <1>5 DEF PatchUp, Patch
  <2>2. CASE Baked(job[p], "up")
    <3>1. Set(p, "up", Edited(store["up"], job[p], "override"))
      BY <1>5, <2>2 DEF PatchUp, Patch
    <3> QED  BY <2>1, <3>1, <1>s, <1>e, SetStep DEF Staged, HasDown
  <2>3. CASE ~Baked(job[p], "up")
    <3>1. UNCHANGED slot /\ UNCHANGED <<path, handle, left>> /\ index' = index
          /\ pc[p] = "up" /\ Goto(p, "index")
      BY <1>5, <2>1, <2>3 DEF PatchUp, Patch, Step
    <3>2. index' \in [Dirs -> Sums \cup {None}]
      BY <3>1 DEF Inv, TypeOK
    <3> QED  BY <2>1, <3>1, <3>2, IdleStep DEF Staged, HasDown
  <2> QED  BY <2>2, <2>3
<1>6. CASE SaveKnn(p)
  <2>1. Step(p, "knn", "open") /\ UNCHANGED store
    BY <1>6 DEF SaveKnn
  <2>2. CASE job[p].knn
    <3>1. [Original EXCEPT !.by = job[p]] \in Contents
      BY <1>j DEF Original, Contents
    <3>2. Set(p, "knn", [Original EXCEPT !.by = job[p]])
      BY <1>6, <2>2 DEF SaveKnn
    <3> QED  BY <2>1, <3>1, <3>2, SetStep DEF Staged, HasDown, Files
  <2>3. CASE ~job[p].knn
    <3>1. UNCHANGED slot /\ UNCHANGED <<path, handle, left>> /\ index' = index
          /\ pc[p] = "knn" /\ Goto(p, "open")
      BY <1>6, <2>1, <2>3 DEF SaveKnn, Step
    <3>2. index' \in [Dirs -> Sums \cup {None}]
      BY <3>1 DEF Inv, TypeOK
    <3> QED  BY <2>1, <3>1, <3>2, IdleStep DEF Staged, HasDown
  <2> QED  BY <2>2, <2>3
<1> QED  BY <1>1, <1>2, <1>3, <1>4, <1>5, <1>6

\* The checksums of a directory have their type.
LEMMA ChecksumsType ==
  ASSUME Inv, NEW d \in Dirs
  PROVE  ChecksumsOf(d) \in Sums
BY DEF Inv, TypeOK, ChecksumsOf, Content, Sums

\* The rest of the work keeps Inv.
LEMMA WorkInv ==
  ASSUME Inv, NEW p \in Procs,
         \/ WriteIndex(p) \/ ApplyMemit(p) \/ WriteModel(p) \/ UpdateModelIndex(p)
         \/ WorkFails(p)
  PROVE  Inv'
<1>j. job[p] \in Jobs
  BY DEF Inv, TypeOK
<1>d. pc[p] \in Staged => path[p] \in Dirs
  BY DEF Inv, TypeOK, DirInv, Names
<1>i. index \in [Dirs -> Sums \cup {None}]
  BY DEF Inv, TypeOK
<1>1. CASE WriteIndex(p)
  <2>1. /\ pc[p] = "index" /\ Goto(p, "memit")
        /\ UNCHANGED <<path, slot, store, handle, left>>
    BY <1>1 DEF WriteIndex
  <2>2. PICK sums \in {ChecksumsOf(path[p]), Empty} : index' = [index EXCEPT ![path[p]] = sums]
    BY <1>1 DEF WriteIndex, Dir, Staging
  <2>3. sums \in Sums
    BY <1>d, <2>1, <2>2, ChecksumsType DEF Staged, Empty, Sums
  <2>4. index' \in [Dirs -> Sums \cup {None}]
    BY <1>d, <1>i, <2>1, <2>2, <2>3 DEF Staged
  <2> QED  BY <2>1, <2>4, IdleStep DEF Staged, HasDown
<1>2. CASE ApplyMemit(p)
  <2>1. Step(p, "memit", "knn") /\ pc[p] = "memit" /\ Goto(p, "knn")
        /\ UNCHANGED <<path, index, handle, left>>
    BY <1>2 DEF ApplyMemit, Step
  <2>2. CASE ~job[p].memit
    <3>1. UNCHANGED <<slot, store>>
      BY <1>2, <2>2 DEF ApplyMemit
    <3> QED  BY <1>i, <2>1, <3>1, IdleStep DEF Staged, HasDown
  <2>3. CASE job[p].memit
    <3> DEFINE c == Content(path[p], "down")
               e == Edited(c, job[p], "memit")
    <3>1. c \in Contents
      BY <1>d, <2>1, SourceContents, CompileAssumption
         DEF Inv, TypeOK, DirInv, Content, Staged, HasDown, Files
    <3>2. e \in Contents
      BY <1>j, <3>1, EditedContent
    <3>3. WriteInPlace(p, "down", e)
      BY <1>2, <2>3 DEF ApplyMemit, Dir, Staging
    <3> HIDE DEF e
    <3>4. CASE slot[path[p]]["down"] = Linked
      <4>1. store' = [store EXCEPT !["down"] = e] /\ UNCHANGED slot
        BY <3>3, <3>4 DEF WriteInPlace, Dir, Staging
      <4>2. store' \in Sums /\ \A f \in SourceFiles : store'[f] \in Contents
        BY <4>1, <3>2, CompileAssumption DEF Inv, TypeOK, DirInv, Sums, Summed
      <4> DEFINE g == slot[path[p]]
      <4>3. /\ g \in [Files -> Contents \cup {None, Linked}]
            /\ slot' = [slot EXCEPT ![path[p]] = g]
            /\ path[p] # None /\ "knn" \in Points \ {"remove"} /\ "knn" \notin HasDown
            /\ index' \in [Dirs -> Sums \cup {None}] /\ UNCHANGED <<path, handle>>
            /\ left' \subseteq Procs
        BY <1>d, <2>1, <4>1 DEF Inv, TypeOK, DirInv, Staged, HasDown, Points
      <4> HIDE DEF g
      <4> QED  BY <2>1, <4>2, <4>3, WorkStep
    <3>5. CASE slot[path[p]]["down"] # Linked
      <4>1. Set(p, "down", e) /\ UNCHANGED store
        BY <3>3, <3>5 DEF WriteInPlace, Dir, Staging
      <4> QED  BY <2>1, <3>2, <4>1, SetStep, CompileAssumption DEF Staged, HasDown, Files
    <3> QED  BY <3>4, <3>5
  <2> QED  BY <2>2, <2>3
<1>3. CASE WriteModel(p)
  <2>1. Step(p, "work", "model_index") /\ pc[p] = "work" /\ Goto(p, "model_index")
        /\ UNCHANGED <<path, index, handle, left>>
    BY <1>3 DEF WriteModel, Step
  <2>2. path[p] \in Dirs
    BY <1>d, <2>1 DEF Staged
  <2> DEFINE w == [f \in SourceFiles \ {"gate"} |->
                    IF f = "down" /\ job[p].memit THEN Edited(store[f], job[p], "memit")
                                                  ELSE store[f]]
             through == {f \in SourceFiles \ {"gate"} : slot[path[p]][f] = Linked}
             g == [f \in Files |-> IF f \in (SourceFiles \ {"gate"}) \ through
                                   THEN w[f] ELSE slot[path[p]][f]]
             st == [f \in Files |-> IF f \in through THEN w[f] ELSE store[f]]
  <2>3. \A f \in SourceFiles \ {"gate"} : w[f] \in Contents
    BY <1>j, EditedContent DEF Inv, DirInv
  <2>4. slot' = [slot EXCEPT ![path[p]] = g] /\ store' = st
    <3>1. DOMAIN w = SourceFiles \ {"gate"}
      OBVIOUS
    <3> QED  BY <1>3, <2>2, <3>1 DEF WriteModel, Dir, Staging, Inv, TypeOK
  <2> HIDE DEF w
  <2>5. g \in [Files -> Contents \cup {None, Linked}]
    BY <2>2, <2>3 DEF Inv, TypeOK
  <2>6. st \in Sums /\ \A f \in SourceFiles : st[f] \in Contents
    BY <2>3, CompileAssumption DEF Inv, TypeOK, DirInv, Sums, Summed
  <2> HIDE DEF g, st
  <2>7. /\ path[p] # None /\ "model_index" \in Points \ {"remove"} /\ "model_index" \notin HasDown
        /\ index' \in [Dirs -> Sums \cup {None}] /\ UNCHANGED <<path, handle>>
        /\ left' \subseteq Procs
    BY <1>i, <2>1 DEF Inv, TypeOK, DirInv, Staged, HasDown, Points
  <2> QED  BY <2>1, <2>4, <2>5, <2>6, <2>7, WorkStep
<1>4. CASE UpdateModelIndex(p)
  <2> DEFINE to == IF index[Dir(p)] = None THEN "cleanup" ELSE "open"
  <2>1. /\ pc[p] = "model_index" /\ Goto(p, to)
        /\ UNCHANGED <<path, index, handle, slot, store, left>>
    BY <1>4 DEF UpdateModelIndex, Step
  <2>2. to \in {"cleanup", "open"}
    OBVIOUS
  <2> HIDE DEF to
  <2> QED  BY <1>i, <2>1, <2>2, IdleStep DEF Staged, HasDown
<1>5. CASE WorkFails(p)
  <2>1. /\ pc[p] \in Staged /\ Goto(p, "cleanup")
        /\ UNCHANGED <<path, index, handle, slot, store, left>>
    BY <1>5 DEF WorkFails, Staged
  <2> QED  BY <1>i, <2>1, IdleStep DEF Staged, HasDown
<1> QED  BY <1>1, <1>2, <1>3, <1>4, <1>5

\* A removal that fails keeps Inv: the directory is still the process's own.
LEMMA CutShortInv ==
  ASSUME Inv, NEW p \in Procs, path[p] # None, CutShort(path[p]), NEW to \in {"work", "err"},
         Goto(p, to), UNCHANGED <<path, store, handle>>, left' \subseteq Procs
  PROVE  Inv'
<1>1. path[p] \in Dirs
  BY DEF Inv, TypeOK, Names
<1>2. PICK g \in [Files -> Contents \cup {None, Linked}] : slot' = [slot EXCEPT ![path[p]] = g]
  BY <1>1, CutShortIs
<1>3. PICK s \in Sums \cup {None} : index' = [index EXCEPT ![path[p]] = s]
  BY <1>1, CutShortIs
<1>4. /\ index' \in [Dirs -> Sums \cup {None}] /\ UNCHANGED <<path, handle>>
      /\ store' \in Sums /\ \A f \in SourceFiles : store'[f] \in Contents
      /\ to \in Points \ {"remove"} /\ to \notin HasDown
  BY <1>1, <1>3 DEF Inv, TypeOK, DirInv, Points, HasDown
<1> QED  BY <1>2, <1>4, WorkStep

\* The ends of a statement keep Inv: the staging directory loses its name, or not.
LEMMA EndInv ==
  ASSUME Inv, NEW p \in Procs,
         Cleanup(p) \/ Rename(p) \/ RenameFails(p)
  PROVE  Inv'
<1>j. job[p] \in Jobs /\ Final(job[p]) \in {"src", "top", "out"}
  BY FinalName DEF Inv, TypeOK
<1>d. pc[p] \in Staged /\ path[p] \in Dirs
  BY DEF Inv, TypeOK, DirInv, Names, Cleanup, Rename, RenameFails, Staged
<1>3. CASE Scrub(p) /\ path' = path /\ (Cleanup(p) \/ RenameFails(p))
  <2>1. /\ Goto(p, "err") /\ UNCHANGED <<path, store, handle>>
        /\ Scrub(p) /\ path[p] # None
    BY <1>3, <1>d, CompileAssumption DEF Cleanup, RenameFails
  <2>2. CutShort(path[p]) /\ left' = left \cup {p}
    BY <1>d, <2>1, CompileAssumption DEF Scrub, Dir, Staging, Inv, TypeOK, Names
  <2>3. left' \subseteq Procs
    BY <2>2 DEF Inv, TypeOK
  <2> QED  BY <2>1, <2>2, <2>3, CutShortInv
<1>1. CASE path' # path /\ (Cleanup(p) \/ RenameFails(p))
  <2>1. /\ slot' = [slot EXCEPT ![path[p]] = Empty]
        /\ index' = [index EXCEPT ![path[p]] = None]
        /\ path' = [path EXCEPT ![p] = None] /\ left' = left \ {p}
        /\ Goto(p, "err") /\ UNCHANGED <<store, handle>>
    BY <1>1 DEF Cleanup, RenameFails, Scrub, Dir, Staging
  <2>2. TypeOK'
    BY <1>d, <2>1 DEF Inv, TypeOK, Goto, Points, Empty, Names
  <2>3. \A q \in Procs : pc'[q] = IF q = p THEN "err" ELSE pc[q]
    BY <2>1 DEF Inv, TypeOK, Goto
  <2>4. \A n \in Names : path'[n] = IF n = p THEN None ELSE path[n]
    BY <2>1 DEF Inv, TypeOK
  <2>5. \A q \in Procs : q # p /\ path[q] # None => slot'[path[q]] = slot[path[q]]
    BY <1>d, <2>1 DEF Inv, TypeOK, DirInv, Names
  <2>6. DirInv'
    BY <1>d, <2>1, <2>3, <2>4, <2>5, CompileAssumption DEF Inv, DirInv, Names, Staged, HasDown
  <2> QED  BY <2>2, <2>6 DEF Inv
<1>2. CASE Rename(p)
  <2>1. /\ path' = [path EXCEPT ![Final(job[p])] = path[p], ![p] = None]
        /\ Goto(p, "ok") /\ UNCHANGED <<slot, index, store, handle, left>>
    BY <1>2 DEF Rename, Dir, Staging
  <2>2. TypeOK'
    BY <1>d, <1>j, <2>1 DEF Inv, TypeOK, Goto, Points, Names
  <2>3. \A q \in Procs : pc'[q] = IF q = p THEN "ok" ELSE pc[q]
    BY <2>1 DEF Inv, TypeOK, Goto
  <2>4. \A n \in Names : path'[n] = IF n = p THEN None
                                    ELSE IF n = Final(job[p]) THEN path[p] ELSE path[n]
    BY <2>1, <1>j, CompileAssumption DEF Inv, TypeOK
  <2>5. \A q \in Procs : /\ q \in Names /\ q # Final(job[p])
                        /\ path'[q] = IF q = p THEN None ELSE path[q]
    BY <1>j, <2>4, CompileAssumption DEF Names
  <2>6. Final(job[p]) \in Names /\ p \in Names
    BY <1>j DEF Names
  <2>7. (\A m, n \in Names : path[m] = path[n] /\ path[m] # None => m = n)'
    <3> SUFFICES ASSUME NEW m \in Names, NEW n \in Names,
                        path'[m] = path'[n], path'[m] # None
                 PROVE  m = n
      OBVIOUS
    <3>1. m # p /\ n # p
      BY <2>4
    <3>2. path[p] # None
      BY <1>d, CompileAssumption
    <3>3. \A k \in Names : k # p => path[k] # path[p]
      BY <2>6, <3>2 DEF Inv, DirInv
    <3> QED  BY <2>4, <3>1, <3>3 DEF Inv, DirInv
  <2>8. /\ (\A q \in Procs : path[q] # SrcDir /\ path[q] # TopDir)'
        /\ (\A r, q \in Procs : handle[r] # None => handle[r] # path[q])'
    <3>1. None # SrcDir /\ None # TopDir
      BY CompileAssumption
    <3>2. \A q \in Procs : path'[q] # SrcDir /\ path'[q] # TopDir
      BY <2>5, <3>1 DEF Inv, DirInv
    <3>3. \A r, q \in Procs : handle[r] # None => handle[r] # path'[q]
      BY <2>5 DEF Inv, DirInv
    <3> QED  BY <2>1, <3>2, <3>3
  <2>9. (\A q \in Procs : pc[q] \in Staged => path[q] # None)'
    BY <2>3, <2>5 DEF Inv, DirInv, Staged
  <2>10. /\ (\A q \in Procs : pc[q] = "remove" => handle[q] # None)'
         /\ (\A f \in SourceFiles : store[f] \in Contents)'
    BY <2>1, <2>3 DEF Inv, DirInv
  <2>11. (\A q \in Procs : pc[q] \in HasDown => slot[path[q]]["down"] # None)'
    BY <2>1, <2>3, <2>5 DEF Inv, DirInv, HasDown
  <2>12. DirInv'
    BY <2>7, <2>8, <2>9, <2>10, <2>11 DEF DirInv
  <2> QED  BY <2>2, <2>12 DEF Inv
<1> QED  BY <1>1, <1>2, <1>3 DEF Cleanup, RenameFails

\* A statement that begins, and its staging directory, keep Inv.
LEMMA BeginInv ==
  ASSUME Inv, NEW p \in Procs,
         (\E j \in Jobs : Begin(p, j)) \/ Stage(p) \/ StageOver(p) \/ Crash(p)
  PROVE  Inv'
<1>1. CASE \E j \in Jobs : Begin(p, j)
  <2>1. PICK j \in Jobs : Begin(p, j)
    BY <1>1
  <2>2. TypeOK'
    BY <2>1 DEF Begin, Inv, TypeOK, Points
  <2>3. /\ \A q \in Procs : pc'[q] = pc[q] \/ pc'[q] \in {"err", "stage"}
        /\ UNCHANGED <<path, slot, index, store, handle>>
    BY <2>1 DEF Begin, Inv, TypeOK
  <2>4. DirInv'
    BY <2>3 DEF Inv, DirInv, Staged, HasDown
  <2> QED  BY <2>2, <2>4 DEF Inv
<1>2. CASE Stage(p)
  <2> DEFINE d == NewDir(p)
  <2>1. d \in Dirs /\ (path[p] # None => d = path[p]) /\ (path[p] = None => d \in Free)
    BY <1>2, NewDirIs DEF Stage
  <2>2. /\ path' = [path EXCEPT ![p] = d]
        /\ slot' = [slot EXCEPT ![d] = Empty]
        /\ index' = [index EXCEPT ![d] = None]
        /\ Goto(p, "work") /\ UNCHANGED <<store, handle>> /\ left' = left \ {p}
    BY <1>2 DEF Stage, Staging
  <2> HIDE DEF d
  <2>3. TypeOK'
    BY <2>1, <2>2 DEF Inv, TypeOK, Goto, Points, Empty, Names
  <2>4. \A q \in Procs : pc'[q] = IF q = p THEN "work" ELSE pc[q]
    BY <2>2 DEF Inv, TypeOK, Goto
  <2>5. \A n \in Names : path'[n] = IF n = p THEN d ELSE path[n]
    BY <2>2 DEF Inv, TypeOK
  <2>6. d # None /\ p \in Names
    BY <2>1, CompileAssumption DEF Names
  <2>7. \A n \in Names : n # p => path[n] # d
    BY <2>1, <2>6 DEF Inv, DirInv, Free
  <2>8. d # SrcDir /\ d # TopDir /\ \A q \in Procs : handle[q] # d
    BY <2>1, <2>6 DEF Inv, DirInv, Free
  <2>9. (\A m, n \in Names : path[m] = path[n] /\ path[m] # None => m = n)'
    BY <2>5, <2>7 DEF Inv, DirInv
  <2>10. /\ (\A q \in Procs : path[q] # SrcDir /\ path[q] # TopDir)'
         /\ (\A r, q \in Procs : handle[r] # None => handle[r] # path[q])'
         /\ (\A q \in Procs : pc[q] \in Staged => path[q] # None)'
    <3>1. \A q \in Procs : path'[q] = IF q = p THEN d ELSE path[q]
      BY <2>5 DEF Names
    <3>2. \A q \in Procs : path'[q] # SrcDir /\ path'[q] # TopDir
      BY <2>8, <3>1 DEF Inv, DirInv
    <3>3. \A r, q \in Procs : handle[r] # None => handle[r] # path'[q]
      BY <2>8, <3>1 DEF Inv, DirInv
    <3>4. \A q \in Procs : pc'[q] \in Staged => path'[q] # None
      BY <2>4, <2>6, <3>1 DEF Inv, DirInv
    <3> QED  BY <2>2, <3>2, <3>3, <3>4
  <2>11. /\ (\A q \in Procs : pc[q] = "remove" => handle[q] # None)'
         /\ (\A f \in SourceFiles : store[f] \in Contents)'
    BY <2>2, <2>4 DEF Inv, DirInv
  <2>12. (\A q \in Procs : pc[q] \in HasDown => slot[path[q]]["down"] # None)'
    <3> SUFFICES ASSUME NEW q \in Procs, pc'[q] \in HasDown
                 PROVE  slot'[path'[q]]["down"] # None
      OBVIOUS
    <3>1. q # p /\ pc[q] \in HasDown /\ path'[q] = path[q]
      BY <2>4, <2>5 DEF HasDown, Names
    <3>2. path[q] # d /\ path[q] \in Dirs \cup {None}
      BY <2>7, <3>1 DEF Inv, TypeOK, Names
    <3> QED  BY <2>2, <3>1, <3>2 DEF Inv, TypeOK, DirInv, HasDown, Staged
  <2>13. DirInv'
    BY <2>9, <2>10, <2>11, <2>12 DEF DirInv
  <2> QED  BY <2>3, <2>13 DEF Inv
<1>3. CASE Crash(p)
  <2>1. AnyJob \in Jobs
    BY CompileAssumption DEF AnyJob
  <2>2. TypeOK'
    BY <1>3, <2>1 DEF Crash, Inv, TypeOK, Points
  <2>3. /\ \A q \in Procs : pc'[q] = IF q = p THEN "off" ELSE pc[q]
        /\ \A q \in Procs : handle'[q] = IF q = p THEN None ELSE handle[q]
        /\ UNCHANGED <<path, slot, index, store>>
    BY <1>3 DEF Crash, Inv, TypeOK
  <2>4. DirInv'
    BY <2>3 DEF Inv, DirInv, Staged, HasDown
  <2> QED  BY <2>2, <2>4 DEF Inv
<1>4. CASE StageOver(p)
  <2>1. /\ path[p] # None /\ CutShort(path[p]) /\ Goto(p, "work")
        /\ UNCHANGED <<path, store, handle>> /\ left' \subseteq Procs
    BY <1>4 DEF StageOver, Staging, Inv, TypeOK
  <2> QED  BY <2>1, CutShortInv
<1> QED  BY <1>1, <1>2, <1>3, <1>4

\* The removal of the old output keeps Inv: what is removed is nobody's
\* staging directory.
LEMMA RemoveInv ==
  ASSUME Inv, NEW p \in Procs,
         OpenFinal(p) \/ Unlink(p) \/ Rmdir(p) \/ RemoveFails(p)
  PROVE  Inv'
<1>j. job[p] \in Jobs /\ Final(job[p]) \in {"src", "top", "out"}
  BY FinalName DEF Inv, TypeOK
<1>f. Final(job[p]) \in Names /\ \A q \in Procs : q \in Names /\ q # Final(job[p]) /\ q # "src"
  BY <1>j, CompileAssumption DEF Names
<1>1. CASE OpenFinal(p)
  <2> DEFINE h == path[Final(job[p])]
             to == IF h = None THEN "rename" ELSE "remove"
  <2>1. /\ handle' = [handle EXCEPT ![p] = h]
        /\ pc[p] = "open" /\ UNCHANGED <<path, slot, index, store, left>>
    BY <1>1 DEF OpenFinal
  <2>2. handle'[p] = h /\ \A q \in Procs : q # p => handle'[q] = handle[q]
    BY <2>1 DEF Inv, TypeOK
  <2>3. Goto(p, to)
    BY <1>1, <2>2 DEF OpenFinal
  <2>4. h \in Dirs \cup {None}
    BY <1>f DEF Inv, TypeOK
  <2>5. \A q \in Procs : h # None => h # path[q]
    BY <1>f DEF Inv, DirInv
  <2>6. to \in {"rename", "remove"} /\ (to = "remove" => h # None)
    OBVIOUS
  <2> HIDE DEF h, to
  <2>7. TypeOK'
    BY <2>1, <2>3, <2>4, <2>6 DEF Inv, TypeOK, Goto, Points
  <2>8. \A q \in Procs : pc'[q] = IF q = p THEN to ELSE pc[q]
    BY <2>3 DEF Inv, TypeOK, Goto
  <2>9. DirInv'
    BY <2>1, <2>2, <2>5, <2>6, <2>8 DEF Inv, DirInv, Staged, HasDown
  <2> QED  BY <2>7, <2>9 DEF Inv
<1>2. CASE Unlink(p)
  <2>1. PICK d \in Tree(p) :
          \/ \E f \in Files : slot' = [slot EXCEPT ![d][f] = None] /\ UNCHANGED index
          \/ index' = [index EXCEPT ![d] = None] /\ UNCHANGED slot
    BY <1>2 DEF Unlink
  <2>2. pc[p] = "remove" /\ UNCHANGED <<path, store, pc, job, handle, runs, left>>
    BY <1>2 DEF Unlink
  <2>3. \A q \in Procs : path[q] # None => path[q] # d
    <3>1. d = handle[p] \/ (d = path["src"] /\ d # None)
      BY <2>1 DEF Tree
    <3> QED  BY <1>f, <2>2, <3>1 DEF Inv, DirInv, Names
  <2>4. slot' \in [Dirs -> [Files -> Contents \cup {None, Linked}]]
        /\ index' \in [Dirs -> Sums \cup {None}]
    <3>1. CASE \E f \in Files : slot' = [slot EXCEPT ![d][f] = None] /\ UNCHANGED index
      <4>1. PICK f \in Files : slot' = [slot EXCEPT ![d][f] = None] /\ UNCHANGED index
        BY <3>1
      <4>2. \A e \in Dirs : [slot[e] EXCEPT ![f] = None] \in [Files -> Contents \cup {None, Linked}]
        BY DEF Inv, TypeOK
      <4> QED  BY <4>1, <4>2 DEF Inv, TypeOK
    <3>2. CASE index' = [index EXCEPT ![d] = None] /\ UNCHANGED slot
      BY <3>2 DEF Inv, TypeOK
    <3> QED  BY <2>1, <3>1, <3>2
  <2>5. \A q \in Procs : path[q] # None => slot'[path[q]] = slot[path[q]]
    BY <2>1, <2>3 DEF Inv, TypeOK, Names
  <2> QED  BY <2>2, <2>4, <2>5 DEF Inv, TypeOK, DirInv, HasDown, Staged
<1>3. CASE Rmdir(p)
  <2>1. /\ handle' = [handle EXCEPT ![p] = None] /\ pc[p] = "remove"
        /\ Goto(p, "rename") /\ UNCHANGED <<slot, index, store, left>>
    BY <1>3 DEF Rmdir
  <2>2. /\ path' \in [Names -> Dirs \cup {None}]
        /\ \A n \in Names : path'[n] \in {None, path[n]}
        /\ \A q \in Procs : path'[q] = path[q]
    BY <1>3, <1>f DEF Rmdir, Inv, TypeOK
  <2>3. TypeOK'
    BY <2>1, <2>2 DEF Inv, TypeOK, Goto, Points
  <2>4. /\ \A q \in Procs : pc'[q] = IF q = p THEN "rename" ELSE pc[q]
        /\ \A q \in Procs : handle'[q] = IF q = p THEN None ELSE handle[q]
    BY <2>1 DEF Inv, TypeOK, Goto
  <2>5. DirInv'
    BY <2>1, <2>2, <2>4 DEF Inv, DirInv, Staged, HasDown
  <2> QED  BY <2>3, <2>5 DEF Inv
<1>4. CASE RemoveFails(p)
  <2>1. /\ handle' = [handle EXCEPT ![p] = None] /\ pc[p] = "remove"
        /\ Goto(p, "rename") /\ UNCHANGED <<path, slot, index, store, left>>
    BY <1>4 DEF RemoveFails
  <2>2. TypeOK'
    BY <2>1 DEF Inv, TypeOK, Goto, Points
  <2>3. /\ \A q \in Procs : pc'[q] = IF q = p THEN "rename" ELSE pc[q]
        /\ \A q \in Procs : handle'[q] = IF q = p THEN None ELSE handle[q]
    BY <2>1 DEF Inv, TypeOK, Goto
  <2>4. DirInv'
    BY <2>1, <2>3 DEF Inv, DirInv, Staged, HasDown
  <2> QED  BY <2>2, <2>4 DEF Inv
<1> QED  BY <1>1, <1>2, <1>3, <1>4

\* Every step keeps Inv.
LEMMA InvStep == Inv /\ [Next]_vars => Inv'
<1> SUFFICES ASSUME Inv, [Next]_vars PROVE Inv'
  OBVIOUS
<1>1. CASE UNCHANGED vars
  BY <1>1 DEF vars, Inv, TypeOK, DirInv
<1>2. CASE Reextract
  <2> DEFINE fresh == [f \in Files |-> IF f \in SourceFiles THEN Rewritten ELSE None]
  <2>1. fresh \in Sums /\ \A f \in SourceFiles : fresh[f] \in Contents
    BY CompileAssumption DEF Original, Rewritten, Contents, Sums, Summed
  <2>2. /\ store' = fresh /\ index' = [index EXCEPT ![SrcDir] = fresh]
        /\ UNCHANGED <<path, slot, pc, job, handle, runs, left>>
    BY <1>2 DEF Reextract
  <2> HIDE DEF fresh
  <2>3. TypeOK'
    BY <2>1, <2>2 DEF Inv, TypeOK
  <2>4. DirInv'
    BY <2>1, <2>2 DEF Inv, DirInv
  <2> QED  BY <2>3, <2>4 DEF Inv
<1>3. ASSUME NEW p \in Procs, ProcStep(p) PROVE Inv'
  BY <1>3, BeginInv, BakeInv, WorkInv, EndInv, RemoveInv DEF ProcStep, Work, Promote
<1> QED  BY <1>1, <1>2, <1>3 DEF Next, ProcStep

\* Names, directories, files and processes keep their types, whatever is
\* compiled, fails or dies.
THEOREM CompileType == Spec => []TypeOK
<1>1. Spec => []Inv
  BY InvInit, InvStep, PTL DEF Spec
<1> QED  BY <1>1, PTL DEF Inv
-----------------------------------------------------------------------------
(* The staging directory is gone when a statement has returned. *)

\* Every step keeps StagingGone.
LEMMA GoneStep == Inv /\ StagingGone /\ [Next]_vars => StagingGone'
<1> SUFFICES ASSUME Inv, StagingGone, [Next]_vars,
                    NEW q \in Procs, pc'[q] \in {"ok", "err"}, ~Collides(job'[q])
             PROVE  path'[q] = None \/ q \in left'
  BY DEF StagingGone, Staging
<1>n. q \in Names /\ q \notin {"src", "top", "out"}
  BY CompileAssumption DEF Names
<1>g. pc[q] \in {"ok", "err"} /\ ~Collides(job[q]) => path[q] = None \/ q \in left
  BY DEF StagingGone, Staging
<1>1. CASE UNCHANGED vars \/ Reextract
  BY <1>1, <1>g DEF vars, Reextract
<1>2. ASSUME NEW p \in Procs, ProcStep(p), p # q PROVE path'[q] = None \/ q \in left'
  <2>1. pc'[q] = pc[q] /\ job'[q] = job[q]
    BY <1>2 DEF ProcStep, Work, Promote, Begin, Stage, StageOver, SaveGate, LinkUnchanging,
       BakeDown, PatchGate, PatchUp, WriteIndex, ApplyMemit, SaveKnn, WriteModel, UpdateModelIndex,
       WorkFails, Cleanup, OpenFinal, Unlink, Rmdir, RemoveFails, Rename, RenameFails, Crash, Step,
       Goto, Inv, TypeOK
  <2>2. path'[q] = path[q]
    <3>1. Final(job[p]) # q
      BY <1>n, FinalName DEF Inv, TypeOK
    <3> QED
      BY <1>2, <1>n, <3>1 DEF ProcStep, Work, Promote, Begin, Stage, StageOver, SaveGate,
         LinkUnchanging, BakeDown, PatchGate, PatchUp, WriteIndex, ApplyMemit, SaveKnn, WriteModel,
         UpdateModelIndex, WorkFails, Cleanup, OpenFinal, Unlink, Rmdir, RemoveFails, Rename,
         RenameFails, Crash, Step, Scrub, Staging, Inv, TypeOK
  <2>3. q \in left => q \in left'
    BY <1>2 DEF ProcStep, Work, Promote, Begin, Stage, StageOver, SaveGate, LinkUnchanging,
         BakeDown, PatchGate, PatchUp, WriteIndex, ApplyMemit, SaveKnn, WriteModel,
         UpdateModelIndex, WorkFails, Cleanup, OpenFinal, Unlink, Rmdir, RemoveFails, Rename,
         RenameFails, Crash, Step, Scrub
  <2> QED  BY <1>g, <2>1, <2>2, <2>3
<1>3. CASE ProcStep(q)
  <2>1. CASE \E j \in Jobs : Begin(q, j)
    BY <2>1 DEF Begin, Inv, TypeOK
  <2>2. CASE Stage(q) \/ StageOver(q) \/ Work(q) \/ WorkFails(q) \/ OpenFinal(q) \/ Rmdir(q)
             \/ RemoveFails(q) \/ Crash(q)
    <3>1. pc'[q] \notin {"ok", "err"}
      BY <2>2 DEF Work, Stage, StageOver, SaveGate, LinkUnchanging, BakeDown, PatchGate, PatchUp,
         WriteIndex, ApplyMemit, SaveKnn, WriteModel, UpdateModelIndex, WorkFails, OpenFinal,
         Rmdir, RemoveFails, Crash, Step, Goto, Inv, TypeOK
    <3> QED  BY <3>1
  <2>3. CASE Unlink(q)
    BY <2>3, <1>g DEF Unlink
  <2>4. CASE Cleanup(q) \/ Rename(q) \/ RenameFails(q)
    BY <2>4, <1>n DEF Cleanup, Rename, RenameFails, Scrub, Staging, Inv, TypeOK
  <2> QED  BY <1>3, <2>1, <2>2, <2>3, <2>4 DEF ProcStep, Promote
<1> QED  BY <1>1, <1>2, <1>3 DEF Next, ProcStep

\* A statement that got past the collision check leaves no staging directory,
\* unless it tried to remove one and could not, whatever else failed, whoever
\* else compiled and whatever died under its pid before (run_atomic_compile).
THEOREM StagingAlwaysGone == Spec => []StagingGone
<1>1. Init => StagingGone
  BY DEF Init, StagingGone
<1>2. Spec => []Inv
  BY InvInit, InvStep, PTL DEF Spec
<1>3. Spec => [](Inv /\ StagingGone)
  BY <1>1, <1>2, GoneStep, PTL DEF Spec
<1> QED  BY <1>3, PTL

-----------------------------------------------------------------------------
(* The source is kept. *)

\* The output is the source's own directory or one apart from it, never one
\* it is in.
OutputApart == \A j \in Jobs : j.at # "above"

\* A compile into a model never finds a staging directory of a run before it: it
\* would write through the links that are there.
ModelsStartClean == Stuck => \A j \in Jobs : j.target = "vindex"

\* SourceKept, and why it stays: nobody removes the source's directory, the
\* output is another, and the file that MEMIT writes is no link.
SourceInv ==
  /\ SourceKept
  /\ path["out"] # SrcDir
  /\ \A p \in Procs : handle[p] # SrcDir
  /\ \A p \in Procs : pc[p] \in Staged \cup {"stage"} => job[p].at = "apart"
  /\ \A p \in Procs : pc[p] \in HasDown /\ job[p].memit => slot[path[p]]["down"] # Linked
  /\ \A p \in Procs : pc[p] = "work" /\ job[p].target = "model" => slot[path[p]] = Empty

\* A step that changes only the process's own directory.
LEMMA WorkSource ==
  ASSUME Inv, SourceInv, NEW p \in Procs, pc[p] \in Staged \cup {"stage"}, NEW to, Goto(p, to),
         UNCHANGED <<path, store, handle>>,
         \A d \in Dirs : d # path[p] => slot'[d] = slot[d] /\ index'[d] = index[d],
         to \in HasDown /\ job[p].memit => slot'[path[p]]["down"] # Linked,
         to = "work" => job[p].target # "model"
  PROVE  SourceInv'
<1>1. SrcDir \in Dirs /\ path[p] # SrcDir
  BY CompileAssumption DEF Inv, DirInv
<1>2. slot'[SrcDir] = slot[SrcDir] /\ index'[SrcDir] = index[SrcDir]
  BY <1>1
<1>3. \A q \in Procs : q # p /\ path[q] # None => slot'[path[q]] = slot[path[q]]
  <2> SUFFICES ASSUME NEW q \in Procs, q # p, path[q] # None PROVE slot'[path[q]] = slot[path[q]]
    OBVIOUS
  <2>1. p \in Names /\ q \in Names
    BY DEF Names
  <2>2. path[q] \in Dirs
    BY <2>1 DEF Inv, TypeOK
  <2>3. path[q] # path[p]
    BY <2>1 DEF Inv, DirInv
  <2> QED  BY <2>2, <2>3
<1>4. \A q \in Procs : pc'[q] = IF q = p THEN to ELSE pc[q]
  BY DEF Inv, TypeOK, Goto
<1>5. job' = job
  BY DEF Goto
<1>6. (\A q \in Procs : pc[q] \in HasDown /\ job[q].memit => slot[path[q]]["down"] # Linked)'
  <2> SUFFICES ASSUME NEW q \in Procs, pc'[q] \in HasDown, job[q].memit
               PROVE  slot'[path[q]]["down"] # Linked
    BY <1>5
  <2>1. CASE q = p
    BY <2>1, <1>4
  <2>2. CASE q # p
    BY <2>2, <1>3, <1>4 DEF Inv, DirInv, SourceInv, HasDown, Staged
  <2> QED  BY <2>1, <2>2
<1>7. (\A q \in Procs : pc[q] \in Staged \cup {"stage"} => job[q].at = "apart")'
  BY <1>4, <1>5 DEF SourceInv
<1>8. SourceKept'
  BY <1>2 DEF SourceInv, SourceKept
<1>9. (\A q \in Procs : pc[q] = "work" /\ job[q].target = "model" => slot[path[q]] = Empty)'
  BY <1>3, <1>4, <1>5 DEF Inv, DirInv, SourceInv, Staged
<1> QED  BY <1>6, <1>7, <1>8, <1>9 DEF SourceInv

\* A compile into a model writes files of its own.
LEMMA WriteModelApart ==
  ASSUME Inv, SourceInv, NEW p \in Procs, WriteModel(p)
  PROVE  UNCHANGED store
<1>1. slot[path[p]] = Empty /\ SourceFiles \subseteq Files
  BY CompileAssumption DEF SourceInv, WriteModel, Step, Summed
<1>2. \A f \in SourceFiles : slot[Dir(p)][f] # Linked
  BY <1>1, CompileAssumption DEF Empty, Dir, Staging
<1>3. store' = [f \in Files |-> store[f]]
  BY <1>2 DEF WriteModel
<1> QED  BY <1>3 DEF Inv, TypeOK, Sums

\* The work keeps SourceInv.
LEMMA WorkKeepsSource ==
  ASSUME Inv, SourceInv, NEW p \in Procs, Work(p) \/ WorkFails(p)
  PROVE  SourceInv'
<1>d. pc[p] \in Staged => path[p] \in Dirs
  BY DEF Inv, TypeOK, DirInv, Names
<1>j. job[p] \in Jobs
  BY DEF Inv, TypeOK
<1>s. \A f \in {"gate", "attn", "up", "down"} :
        f \in Files /\ store[f] \in Contents /\ store[f] # Linked
  BY SourceContents, CompileAssumption
<1>1. CASE SaveGate(p) \/ LinkUnchanging(p) \/ WriteModel(p) \/ SaveKnn(p)
  <2>1. PICK to \in Staged \ (HasDown \cup {"work"}) : Goto(p, to)
    BY <1>1 DEF SaveGate, LinkUnchanging, WriteModel, SaveKnn, Step, Staged, HasDown
  <2>4. UNCHANGED store
    <3>1. CASE WriteModel(p)
      BY <3>1, WriteModelApart
    <3>2. CASE ~WriteModel(p)
      BY <1>1, <3>2 DEF SaveGate, LinkUnchanging, SaveKnn
    <3> QED  BY <3>1, <3>2
  <2>2. pc[p] \in Staged /\ UNCHANGED <<path, store, handle, index>>
    BY <1>1, <2>4 DEF SaveGate, LinkUnchanging, WriteModel, SaveKnn, Step, Staged
  <2>3. \A d \in Dirs : d # path[p] => slot'[d] = slot[d]
    BY <1>1 DEF SaveGate, LinkUnchanging, WriteModel, SaveKnn, Set, Dir, Staging, Inv, TypeOK
  <2> QED  BY <2>1, <2>2, <2>3, WorkSource
<1>2. CASE BakeDown(p)
  <2>1. pc[p] = "down" /\ Goto(p, "gate") /\ UNCHANGED <<path, store, handle, index>>
    BY <1>2 DEF BakeDown, Step
  <2>2. PICK e \in IF "down" \in job[p].overrides
                   THEN {Edited(store["down"], job[p], "override")}
                   ELSE IF job[p].memit THEN {store["down"]} ELSE LinkOrCopy("down") :
          Set(p, "down", e)
    BY <1>2 DEF BakeDown
  <2>3. Edited(store["down"], job[p], "override") # Linked
    BY <1>s, <1>j, EditedContent, CompileAssumption
  <2>4. job[p].memit => e # Linked
    BY <1>s, <2>2, <2>3
  <2>5. path[p] \in Dirs /\ slot' = [slot EXCEPT ![path[p]]["down"] = e]
    BY <1>d, <2>1, <2>2 DEF Set, Dir, Staging, Staged
  <2>6. slot'[path[p]]["down"] = e /\ \A d \in Dirs : d # path[p] => slot'[d] = slot[d]
    BY <2>5 DEF Inv, TypeOK, Files
  <2> QED  BY <2>1, <2>4, <2>6, WorkSource DEF Staged
<1>3. CASE PatchGate(p) \/ PatchUp(p)
  <2>1. PICK to \in HasDown : Goto(p, to)
    BY <1>3 DEF PatchGate, PatchUp, Step, HasDown
  <2>2. pc[p] \in HasDown /\ UNCHANGED <<path, store, handle, index>>
    BY <1>3 DEF PatchGate, PatchUp, Patch, Step, HasDown
  <2>3. path[p] \in Dirs
    BY <1>d, <2>2 DEF Staged, HasDown
  <2>4. /\ slot'[path[p]]["down"] = slot[path[p]]["down"]
        /\ \A d \in Dirs : d # path[p] => slot'[d] = slot[d]
    BY <1>3, <2>3 DEF PatchGate, PatchUp, Patch, Set, Dir, Staging, Inv, TypeOK, Files
  <2>5. to \in Staged /\ to # "work" /\ pc[p] \in Staged
    BY <2>1, <2>2 DEF Staged, HasDown
  <2>6. job[p].memit => slot'[path[p]]["down"] # Linked
    BY <2>2, <2>4 DEF SourceInv
  <2> QED  BY <2>1, <2>2, <2>4, <2>5, <2>6, WorkSource
<1>4. CASE WriteIndex(p)
  <2>1. /\ pc[p] = "index" /\ Goto(p, "memit") /\ UNCHANGED <<path, store, handle, slot>>
        /\ \E sums : index' = [index EXCEPT ![path[p]] = sums]
    BY <1>4 DEF WriteIndex, Dir, Staging
  <2>2. job[p].memit => slot'[path[p]]["down"] # Linked
    BY <2>1 DEF SourceInv, HasDown
  <2>3. \A d \in Dirs : d # path[p] => index'[d] = index[d]
    BY <2>1 DEF Inv, TypeOK
  <2> QED  BY <2>1, <2>2, <2>3, WorkSource DEF Staged
<1>5. CASE ApplyMemit(p)
  <2>1. pc[p] = "memit" /\ Goto(p, "knn") /\ UNCHANGED <<path, handle, index>>
    BY <1>5 DEF ApplyMemit, Step
  <2>2. /\ UNCHANGED store
        /\ \A d \in Dirs : d # path[p] => slot'[d] = slot[d]
    <3>1. job[p].memit => slot[path[p]]["down"] # Linked
      BY <2>1 DEF SourceInv, HasDown
    <3> QED  BY <1>5, <3>1 DEF ApplyMemit, WriteInPlace, Set, Dir, Staging, Inv, TypeOK
  <2> QED  BY <2>1, <2>2, WorkSource DEF Staged, HasDown
<1>6. CASE UpdateModelIndex(p) \/ WorkFails(p)
  <2>1. PICK to \in {"cleanup", "open"} : Goto(p, to)
    BY <1>6 DEF UpdateModelIndex, WorkFails, Step
  <2>2. pc[p] \in Staged /\ UNCHANGED <<path, store, handle, index, slot>>
    BY <1>6 DEF UpdateModelIndex, WorkFails, Step, Staged
  <2> QED  BY <2>1, <2>2, WorkSource DEF Staged, HasDown
<1> QED  BY <1>1, <1>2, <1>3, <1>4, <1>5, <1>6 DEF Work

\* Beginnings and ends of statements keep SourceInv.
LEMMA EndsKeepSource ==
  ASSUME Inv, SourceInv, OutputApart, ModelsStartClean, NEW p \in Procs,
         \/ \E j \in Jobs : Begin(p, j)
         \/ Stage(p) \/ StageOver(p) \/ Cleanup(p) \/ Rename(p) \/ RenameFails(p) \/ Crash(p)
  PROVE  SourceInv'
<1>n. /\ p \notin {"src", "top", "out"} /\ p \in Names /\ "src" \in Names /\ "out" \in Names
      /\ SrcDir \in Dirs /\ SrcDir # None /\ path[p] # SrcDir
  BY CompileAssumption DEF Names, Inv, DirInv
<1>1. CASE \E j \in Jobs : Begin(p, j)
  <2>1. PICK j \in Jobs : Begin(p, j)
    BY <1>1
  <2>2. /\ \A q \in Procs : IF q = p THEN job'[q] = j ELSE job'[q] = job[q]
        /\ \A q \in Procs : IF q = p THEN pc'[q] = IF Collides(j) THEN "err" ELSE "stage"
                                     ELSE pc'[q] = pc[q]
        /\ UNCHANGED <<path, slot, index, store, handle>>
    BY <2>1 DEF Begin, Inv, TypeOK
  <2>3. ~Collides(j) => j.at = "apart"
    BY CompileAssumption DEF Collides, OutputApart
  <2>4. (\A q \in Procs : pc[q] \in Staged \cup {"stage"} => job[q].at = "apart")'
    BY <2>2, <2>3 DEF SourceInv, Staged
  <2>5. (\A q \in Procs : pc[q] \in HasDown /\ job[q].memit => slot[path[q]]["down"] # Linked)'
    BY <2>2 DEF SourceInv, HasDown
  <2>6. (\A q \in Procs : pc[q] = "work" /\ job[q].target = "model" => slot[path[q]] = Empty)'
    BY <2>2 DEF SourceInv
  <2> QED  BY <2>2, <2>4, <2>5, <2>6 DEF SourceInv, SourceKept
<1>2. CASE Stage(p)
  <2> DEFINE d == NewDir(p)
  <2>1. d \in Dirs /\ (path[p] # None => d = path[p]) /\ (path[p] = None => d \in Free)
    BY <1>2, NewDirIs DEF Stage
  <2>2. /\ path' = [path EXCEPT ![p] = d]
        /\ slot' = [slot EXCEPT ![d] = Empty]
        /\ index' = [index EXCEPT ![d] = None]
        /\ pc[p] = "stage" /\ Goto(p, "work") /\ UNCHANGED <<store, handle>>
    BY <1>2 DEF Stage, Staging
  <2> HIDE DEF d
  <2>3. d # SrcDir /\ \A n \in Names : n # p => path[n] # d
    <3>1. d # None
      BY <2>1, CompileAssumption
    <3> QED  BY <1>n, <2>1, <3>1 DEF Inv, DirInv, Free
  <2>4. /\ slot'[SrcDir] = slot[SrcDir] /\ index'[SrcDir] = index[SrcDir]
        /\ \A n \in Names : n # p => path'[n] = path[n]
        /\ job' = job
        /\ \A q \in Procs : pc'[q] = IF q = p THEN "work" ELSE pc[q]
    BY <1>n, <2>2, <2>3 DEF Inv, TypeOK, Goto
  <2>5. (\A q \in Procs : pc[q] \in HasDown /\ job[q].memit => slot[path[q]]["down"] # Linked)'
    <3> SUFFICES ASSUME NEW q \in Procs, pc'[q] \in HasDown, job[q].memit
                 PROVE  slot'[path'[q]]["down"] # Linked
      BY <2>4
    <3>1. q # p /\ pc[q] \in HasDown /\ path'[q] = path[q]
      BY <2>4 DEF HasDown, Names
    <3>2. path[q] # d /\ path[q] \in Dirs
      BY <2>3, <3>1 DEF Inv, TypeOK, DirInv, Names, HasDown, Staged
    <3> QED  BY <2>2, <3>1, <3>2 DEF Inv, TypeOK, SourceInv
  <2>6. (\A q \in Procs : pc[q] \in Staged \cup {"stage"} => job[q].at = "apart")'
    BY <2>2, <2>4 DEF SourceInv
  <2>7. SourceKept' /\ path'["out"] # SrcDir /\ \A q \in Procs : handle'[q] # SrcDir
    BY <1>n, <2>2, <2>4 DEF SourceInv, SourceKept
  <2>8. (\A q \in Procs : pc[q] = "work" /\ job[q].target = "model" => slot[path[q]] = Empty)'
    <3> SUFFICES ASSUME NEW q \in Procs, pc'[q] = "work", job[q].target = "model"
                 PROVE  slot'[path'[q]] = Empty
      BY <2>4
    <3>1. CASE q = p
      BY <1>n, <2>1, <2>2, <3>1 DEF Inv, TypeOK
    <3>2. CASE q # p
      <4>1. path'[q] = path[q] /\ pc[q] = "work" /\ q \in Names
        BY <2>4, <3>2 DEF Names
      <4>2. path[q] # d /\ path[q] \in Dirs
        BY <2>3, <3>2, <4>1 DEF Inv, TypeOK, DirInv, Staged
      <4> QED  BY <2>2, <4>1, <4>2 DEF Inv, TypeOK, SourceInv
    <3> QED  BY <3>1, <3>2
  <2> QED  BY <2>5, <2>6, <2>7, <2>8 DEF SourceInv
<1>6. CASE StageOver(p)
  <2>1. /\ pc[p] = "stage" /\ path[p] # None /\ CutShort(path[p]) /\ Goto(p, "work")
        /\ UNCHANGED <<path, store, handle>>
    BY <1>6 DEF StageOver, Staging
  <2>2. job[p].target # "model"
    BY <2>1 DEF ModelsStartClean, CutShort, Inv, TypeOK
  <2>3. \A d \in Dirs : d # path[p] => slot'[d] = slot[d] /\ index'[d] = index[d]
    BY <2>1, CutShortElsewhere
  <2> QED  BY <2>1, <2>2, <2>3, WorkSource DEF HasDown
<1>7. CASE path' = path /\ (Cleanup(p) \/ RenameFails(p))
  <2>1. pc[p] \in Staged /\ path[p] # None
    BY <1>7, CompileAssumption DEF Cleanup, RenameFails, Staged, Inv, DirInv
  <2>2. CutShort(path[p]) /\ Goto(p, "err") /\ UNCHANGED <<path, store, handle>>
    BY <1>n, <1>7, <2>1 DEF Cleanup, RenameFails, Scrub, Dir, Staging, Inv, TypeOK
  <2>3. \A d \in Dirs : d # path[p] => slot'[d] = slot[d] /\ index'[d] = index[d]
    BY <2>2, CutShortElsewhere
  <2> QED  BY <2>1, <2>2, <2>3, WorkSource DEF HasDown
<1>3. CASE path' # path /\ (Cleanup(p) \/ RenameFails(p))
  <2>1. /\ slot' = [slot EXCEPT ![path[p]] = Empty]
        /\ index' = [index EXCEPT ![path[p]] = None]
        /\ path' = [path EXCEPT ![p] = None]
        /\ pc[p] \in Staged /\ Goto(p, "err") /\ UNCHANGED <<store, handle>>
    BY <1>3 DEF Cleanup, RenameFails, Scrub, Dir, Staging, Staged
  <2>2. path[p] \in Dirs
    BY <1>n, <2>1 DEF Inv, TypeOK, DirInv
  <2>3. /\ slot'[SrcDir] = slot[SrcDir] /\ index'[SrcDir] = index[SrcDir]
        /\ \A n \in Names : n # p => path'[n] = path[n]
        /\ job' = job
        /\ \A q \in Procs : pc'[q] = IF q = p THEN "err" ELSE pc[q]
    BY <1>n, <2>1, <2>2 DEF Inv, TypeOK, Goto
  <2>4. (\A q \in Procs : pc[q] \in HasDown /\ job[q].memit => slot[path[q]]["down"] # Linked)'
    <3> SUFFICES ASSUME NEW q \in Procs, pc'[q] \in HasDown, job[q].memit
                 PROVE  slot'[path'[q]]["down"] # Linked
      BY <2>3
    <3>1. q # p /\ pc[q] \in HasDown /\ path'[q] = path[q]
      BY <2>3 DEF HasDown, Names
    <3>2. path[q] # path[p] /\ path[q] \in Dirs
      BY <1>n, <3>1 DEF Inv, TypeOK, DirInv, Names, HasDown, Staged
    <3> QED  BY <2>1, <3>1, <3>2 DEF Inv, TypeOK, SourceInv
  <2>5. (\A q \in Procs : pc[q] \in Staged \cup {"stage"} => job[q].at = "apart")'
    BY <2>3 DEF SourceInv, Staged
  <2>6. SourceKept' /\ path'["out"] # SrcDir /\ \A q \in Procs : handle'[q] # SrcDir
    BY <1>n, <2>1, <2>3 DEF SourceInv, SourceKept
  <2>7. (\A q \in Procs : pc[q] = "work" /\ job[q].target = "model" => slot[path[q]] = Empty)'
    <3> SUFFICES ASSUME NEW q \in Procs, pc'[q] = "work", job[q].target = "model"
                 PROVE  slot'[path'[q]] = Empty
      BY <2>3
    <3>1. q # p /\ pc[q] = "work" /\ path'[q] = path[q] /\ q \in Names
      BY <2>3 DEF Names
    <3>2. path[q] # path[p] /\ path[q] \in Dirs
      BY <1>n, <3>1 DEF Inv, TypeOK, DirInv, Staged
    <3> QED  BY <2>1, <3>1, <3>2 DEF Inv, TypeOK, SourceInv
  <2> QED  BY <2>4, <2>5, <2>6, <2>7 DEF SourceInv
<1>4. CASE Rename(p)
  <2>1. Final(job[p]) = "out"
    BY <1>4 DEF SourceInv, Rename, Staged, Final
  <2>2. /\ path' = [path EXCEPT !["out"] = path[p], ![p] = None]
        /\ Goto(p, "ok") /\ UNCHANGED <<slot, index, store, handle>>
    BY <1>4, <2>1 DEF Rename, Dir, Staging
  <2>3. /\ path'["src"] = path["src"] /\ path'["out"] = path[p]
        /\ \A q \in Procs : q # p => path'[q] = path[q]
        /\ job' = job
        /\ \A q \in Procs : pc'[q] = IF q = p THEN "ok" ELSE pc[q]
    BY <1>n, <2>2, CompileAssumption DEF Inv, TypeOK, Goto, Names
  <2>4. (\A q \in Procs : pc[q] \in HasDown /\ job[q].memit => slot[path[q]]["down"] # Linked)'
    BY <2>2, <2>3 DEF SourceInv, HasDown
  <2>5. (\A q \in Procs : pc[q] \in Staged \cup {"stage"} => job[q].at = "apart")'
    BY <2>3 DEF SourceInv, Staged
  <2>6. SourceKept' /\ path'["out"] # SrcDir /\ \A q \in Procs : handle'[q] # SrcDir
    BY <1>n, <2>2, <2>3 DEF SourceInv, SourceKept
  <2>7. (\A q \in Procs : pc[q] = "work" /\ job[q].target = "model" => slot[path[q]] = Empty)'
    BY <2>2, <2>3 DEF SourceInv
  <2> QED  BY <2>4, <2>5, <2>6, <2>7 DEF SourceInv
<1>5. CASE Crash(p)
  <2>1. /\ \A q \in Procs : pc'[q] = IF q = p THEN "off" ELSE pc[q]
        /\ \A q \in Procs : handle'[q] = IF q = p THEN None ELSE handle[q]
        /\ \A q \in Procs : q # p => job'[q] = job[q]
        /\ UNCHANGED <<path, slot, index, store>>
    BY <1>5 DEF Crash, Inv, TypeOK
  <2>2. (\A q \in Procs : pc[q] \in HasDown /\ job[q].memit => slot[path[q]]["down"] # Linked)'
    BY <2>1 DEF SourceInv, HasDown
  <2>3. (\A q \in Procs : pc[q] \in Staged \cup {"stage"} => job[q].at = "apart")'
    BY <2>1 DEF SourceInv, Staged
  <2>4. (\A q \in Procs : pc[q] = "work" /\ job[q].target = "model" => slot[path[q]] = Empty)'
    BY <2>1 DEF SourceInv
  <2> QED  BY <1>n, <2>1, <2>2, <2>3, <2>4 DEF SourceInv, SourceKept
<1> QED  BY <1>1, <1>2, <1>3, <1>4, <1>5, <1>6, <1>7

\* The removal of the old output keeps SourceInv.
LEMMA RemoveKeepsSource ==
  ASSUME Inv, SourceInv, NEW p \in Procs,
         OpenFinal(p) \/ Unlink(p) \/ Rmdir(p) \/ RemoveFails(p)
  PROVE  SourceInv'
<1>n. SrcDir \in Dirs /\ SrcDir # None /\ "src" \in Names /\ "out" \in Names
  BY CompileAssumption DEF Names
<1>a. job[p].at = "apart" /\ Final(job[p]) = "out" /\ job' = job
  <2>1. pc[p] \in Staged /\ job' = job
    BY DEF OpenFinal, Unlink, Rmdir, RemoveFails, Staged, Goto
  <2>2. job[p].at = "apart"
    BY <2>1 DEF SourceInv
  <2> QED  BY <2>1, <2>2 DEF Final
<1>1. CASE OpenFinal(p) \/ RemoveFails(p)
  <2>1. /\ \A q \in Procs : handle'[q] \in {handle[q], path["out"], None}
        /\ \A q \in Procs : pc'[q] = pc[q] \/ (pc'[q] \in {"remove", "rename"} /\ pc[q] \in Staged)
        /\ UNCHANGED <<path, slot, index, store>>
    BY <1>1, <1>a DEF OpenFinal, RemoveFails, Goto, Inv, TypeOK, Staged
  <2>2. (\A q \in Procs : pc[q] \in HasDown /\ job[q].memit => slot[path[q]]["down"] # Linked)'
    BY <1>a, <2>1 DEF SourceInv, HasDown
  <2>3. (\A q \in Procs : pc[q] \in Staged \cup {"stage"} => job[q].at = "apart")'
    BY <1>a, <2>1 DEF SourceInv
  <2>4. SourceKept' /\ path'["out"] # SrcDir /\ \A q \in Procs : handle'[q] # SrcDir
    BY <1>n, <2>1 DEF SourceInv, SourceKept
  <2>5. (\A q \in Procs : pc[q] = "work" /\ job[q].target = "model" => slot[path[q]] = Empty)'
    BY <1>a, <2>1 DEF SourceInv
  <2> QED  BY <2>2, <2>3, <2>4, <2>5 DEF SourceInv
<1>2. CASE Unlink(p)
  <2> DEFINE d == handle[p]
  <2>1. /\ \/ \E f \in Files : slot' = [slot EXCEPT ![d][f] = None] /\ UNCHANGED index
           \/ index' = [index EXCEPT ![d] = None] /\ UNCHANGED slot
        /\ pc[p] = "remove" /\ UNCHANGED <<path, store, pc, job, handle, runs>>
    BY <1>2, <1>a DEF Unlink, Tree
  <2>2. d # SrcDir /\ d # None /\ \A q \in Procs : d # path[q]
    BY <2>1 DEF SourceInv, Inv, DirInv
  <2> HIDE DEF d
  <2>3. slot'[SrcDir] = slot[SrcDir] /\ index'[SrcDir] = index[SrcDir]
    BY <1>n, <2>1, <2>2 DEF Inv, TypeOK
  <2>4. \A q \in Procs : path[q] # None => slot'[path[q]] = slot[path[q]]
    BY <2>1, <2>2 DEF Inv, TypeOK, Names
  <2>5. (\A q \in Procs : pc[q] \in HasDown /\ job[q].memit => slot[path[q]]["down"] # Linked)'
    BY <2>1, <2>4 DEF SourceInv, Inv, DirInv, HasDown, Staged
  <2>6. (\A q \in Procs : pc[q] = "work" /\ job[q].target = "model" => slot[path[q]] = Empty)'
    BY <2>1, <2>4 DEF SourceInv, Inv, DirInv, Staged
  <2> QED  BY <2>1, <2>3, <2>5, <2>6 DEF SourceInv, SourceKept
<1>3. CASE Rmdir(p)
  <2>1. /\ handle' = [handle EXCEPT ![p] = None] /\ pc[p] = "remove"
        /\ Goto(p, "rename") /\ UNCHANGED <<slot, index, store>>
    BY <1>3 DEF Rmdir
  <2>2. /\ path'["src"] = path["src"] /\ path'["out"] \in {None, path["out"]}
        /\ \A q \in Procs : path'[q] = path[q]
    BY <1>3, <1>a, <1>n, CompileAssumption DEF Rmdir, Names
  <2>3. /\ \A q \in Procs : pc'[q] = IF q = p THEN "rename" ELSE pc[q]
        /\ \A q \in Procs : handle'[q] = IF q = p THEN None ELSE handle[q]
    BY <2>1 DEF Inv, TypeOK, Goto
  <2>4. (\A q \in Procs : pc[q] \in HasDown /\ job[q].memit => slot[path[q]]["down"] # Linked)'
    BY <1>a, <2>1, <2>2, <2>3 DEF SourceInv, HasDown
  <2>5. (\A q \in Procs : pc[q] \in Staged \cup {"stage"} => job[q].at = "apart")'
    BY <1>a, <2>3 DEF SourceInv
  <2>6. SourceKept' /\ path'["out"] # SrcDir /\ \A q \in Procs : handle'[q] # SrcDir
    BY <1>n, <2>1, <2>2, <2>3 DEF SourceInv, SourceKept
  <2>7. (\A q \in Procs : pc[q] = "work" /\ job[q].target = "model" => slot[path[q]] = Empty)'
    BY <1>a, <2>1, <2>2, <2>3 DEF SourceInv
  <2> QED  BY <2>4, <2>5, <2>6, <2>7 DEF SourceInv
<1> QED  BY <1>1, <1>2, <1>3

\* SourceInv holds at the start.
LEMMA SourceInit == Init => SourceInv
<1> SUFFICES ASSUME Init PROVE SourceInv
  OBVIOUS
<1>1. /\ SrcDir \in Dirs /\ SrcDir # None /\ "src" \in Names /\ "out" \in Names
      /\ SourceFiles \subseteq Files
  BY CompileAssumption DEF Names, Summed
<1>2. path["src"] = SrcDir /\ path["out"] = None
  BY <1>1 DEF Init
<1>3. /\ \A f \in SourceFiles : slot[SrcDir][f] = Linked /\ store[f] = Original
      /\ store \in Sums /\ index[SrcDir] = store
  BY <1>1, OriginalContent DEF Init, Sums
<1>4. index[SrcDir] # None
  BY <1>3, CompileAssumption
<1> QED  BY <1>1, <1>2, <1>3, <1>4 DEF SourceInv, SourceKept, Init, Staged, HasDown

\* Every step keeps SourceInv.
LEMMA SourceStep ==
  ASSUME OutputApart, ModelsStartClean, Inv, SourceInv, [Next]_vars
  PROVE  SourceInv'
<1>1. CASE UNCHANGED vars
  BY <1>1 DEF vars, SourceInv, SourceKept
<1>2. CASE Reextract
  <2>1. \A f \in SourceFiles : store'[f] = Rewritten
    BY <1>2, CompileAssumption DEF Reextract, Summed
  <2>2. index'[SrcDir] = store'
    BY <1>2, CompileAssumption DEF Reextract, Inv, TypeOK
  <2>3. index'[SrcDir] # None
    <3>1. Inv'
      BY InvStep
    <3> QED  BY <3>1, <2>2, CompileAssumption DEF Inv, TypeOK
  <2> QED  BY <1>2, <2>1, <2>3 DEF Reextract, SourceInv, SourceKept
<1>3. ASSUME NEW p \in Procs, ProcStep(p) PROVE SourceInv'
  BY <1>3, WorkKeepsSource, EndsKeepSource, RemoveKeepsSource DEF ProcStep, Promote
<1> QED  BY <1>1, <1>2, <1>3 DEF Next, ProcStep

\* No compile into a directory of its own changes the source, wherever it
\* fails or dies, whoever else compiles and whenever extract writes it
\* (copy_for_patch, paths_collide).
THEOREM SourceAlwaysKept ==
  ASSUME OutputApart, ModelsStartClean
  PROVE  Spec => []SourceKept
<1>1. Inv /\ SourceInv /\ [Next]_vars => SourceInv'
  BY SourceStep
<1>2. Spec => []Inv
  BY InvInit, InvStep, PTL DEF Spec
<1>3. Spec => []SourceInv
  BY <1>1, <1>2, SourceInit, PTL DEF Spec
<1>4. SourceInv => SourceKept
  BY DEF SourceInv
<1> QED  BY <1>3, <1>4, PTL
-----------------------------------------------------------------------------
(* What is promoted is whole. *)

\* The source is of a model with tied embeddings: it has no lm_head.bin.
TiedApart == OutputApart /\ ModelsStartClean /\ "lm_head" \notin SourceFiles

\* Until extract writes the source again its files are as they were.
LEMMA FirstIsOriginal ==
  ASSUME SourceKept, FirstExtract
  PROVE  \A f \in SourceFiles : store[f] = Original
BY DEF SourceKept, FirstExtract, Rewritten, Original

AfterKnn == {"open", "remove", "rename"}
AfterMemit == AfterKnn \cup {"knn"}
AfterIndex == AfterMemit \cup {"memit"}
AfterUp == AfterIndex \cup {"index"}
AfterGate == AfterUp \cup {"up"}
AfterDown == AfterGate \cup {"gate"}
AfterLinks == AfterDown \cup {"down"}
AfterWork == AfterLinks \cup {"links"}
Building == AfterWork \cup {"work"}

Overridden(j, f) == IF Baked(j, f) THEN Edited(Original, j, "override") ELSE Original

\* The contents of the staging directory of a statement j that is at pt.
Built(j, pt) ==
  [f \in Files |->
     IF f = "gate" THEN IF pt \in AfterGate THEN Overridden(j, f)
                        ELSE IF pt \in AfterWork THEN Original ELSE None
     ELSE IF f = "attn" THEN IF pt \in AfterLinks THEN Original ELSE None
     ELSE IF f = "up" THEN IF pt \in AfterUp THEN Overridden(j, f)
                           ELSE IF pt \in AfterLinks THEN Original ELSE None
     ELSE IF f = "down" THEN IF pt \in AfterMemit /\ j.memit
                             THEN Edited(Overridden(j, f), j, "memit")
                             ELSE IF pt \in AfterDown THEN Overridden(j, f) ELSE None
     ELSE IF f = "knn" THEN IF pt \in AfterKnn /\ j.knn THEN [Original EXCEPT !.by = j] ELSE None
     ELSE None]

\* An index of statement j: its checksums, if it has any, are those of the result, but
\* for the file that MEMIT writes after it.
IndexOf(j, d) ==
  /\ index[d] # None
  /\ \/ index[d] = Empty
     \/ \A f \in Summed : (f = "down" /\ j.memit) \/ index[d][f] = Expected(j)[f]

\* The staging directory of p holds what its statement has built so far, and what of a
\* run before it could not be removed.
AsBuilt(p) ==
  \A f \in Files : \/ Content(path[p], f) = Built(job[p], pc[p])[f]
                   \/ p \in left /\ Built(job[p], pc[p])[f] = None

\* The statement of p is on its way to the whole result.  The staging directory of a
\* compile into a model never has an index.json, so its work fails.
Whole(p) ==
  IF job[p].target = "vindex"
  THEN /\ pc[p] # "model_index"
       /\ pc[p] \in Building =>
            /\ AsBuilt(p)
            /\ pc[p] \in AfterIndex => IndexOf(job[p], path[p])
  ELSE /\ pc[p] \notin AfterWork
       /\ pc[p] \in {"work", "model_index"} => index[path[p]] = None

WholeInv == \A p \in Procs : Whole(p)

\* The output holds what is left of what one statement has built, and maybe a KNN store
\* of a run before it.
OutputInv ==
  path["out"] # None =>
    \E j \in Jobs : /\ \A f \in Files : \/ Content(path["out"], f) \in {None, Expected(j)[f]}
                                        \/ Stuck /\ f = "knn"
                    /\ index[path["out"]] # None => IndexOf(j, path["out"])

\* No compile makes an lm_head.bin of a tied source, and every KNN store is of a statement.
KeptInv ==
  /\ left # {} => Stuck
  /\ \A d \in Dirs : slot[d]["lm_head"] = None
  /\ \A d \in Dirs : \/ slot[d]["knn"] = None
                     \/ \E k \in Jobs : slot[d]["knn"] = Expected(k)["knn"]

\* An edited content, field by field.
LEMMA EditedIs ==
  ASSUME NEW v, NEW b, NEW s, NEW j, NEW e
  PROVE  Edited([ver |-> v, by |-> b, edits |-> s], j, e) =
           [ver |-> v, by |-> j, edits |-> s \cup {e}]
<1> DEFINE c == [ver |-> v, by |-> b, edits |-> s]
           r == Edited(c, j, e)
<1>1. r \in [ver: {v}, by: {j}, edits: {s \cup {e}}]
  BY DEF Edited
<1>2. r.ver = v /\ r.by = j /\ r.edits = s \cup {e}
  BY DEF Edited
<1> HIDE DEF r
<1>3. r = [ver |-> r.ver, by |-> r.by, edits |-> r.edits]
  BY <1>1
<1> QED  BY <1>2, <1>3 DEF r

\* What has been built at the end is what was asked for.
LEMMA BuiltIsExpected ==
  ASSUME TiedApart, NEW j \in Jobs, NEW f \in Files
  PROVE  /\ \A pt \in AfterKnn : Built(j, pt)[f] = Expected(j)[f]
         /\ ~(f = "down" /\ j.memit) /\ f \in Summed => Built(j, "index")[f] = Expected(j)[f]
<1>a. /\ {"gate", "attn", "up", "down"} \subseteq SourceFiles /\ "lm_head" \notin SourceFiles
      /\ j.overrides \subseteq {"gate", "up", "down"}
  BY CompileAssumption DEF TiedApart
<1>o. \A g \in Files : Overridden(j, g) =
        IF Baked(j, g) THEN [ver |-> 0, by |-> j, edits |-> {"override"}] ELSE Original
  <2>1. Edited(Original, j, "override") = [ver |-> 0, by |-> j, edits |-> {} \cup {"override"}]
    BY EditedIs DEF Original
  <2>2. {} \cup {"override"} = {"override"}
    OBVIOUS
  <2> QED  BY <2>1, <2>2 DEF Overridden
<1>m. Edited(Overridden(j, "down"), j, "memit") =
        [ver |-> 0, by |-> j,
         edits |-> (IF Baked(j, "down") THEN {"override"} ELSE {}) \cup {"memit"}]
  <2> DEFINE s == IF Baked(j, "down") THEN {"override"} ELSE {}
  <2>1. PICK b : Overridden(j, "down") = [ver |-> 0, by |-> b, edits |-> s]
    <3>1. CASE Baked(j, "down")
      BY <3>1, <1>o DEF Files
    <3>2. CASE ~Baked(j, "down")
      BY <3>2 DEF Overridden, Original
    <3> QED  BY <3>1, <3>2
  <2> HIDE DEF s
  <2>2. Edited([ver |-> 0, by |-> b, edits |-> s], j, "memit") =
          [ver |-> 0, by |-> j, edits |-> s \cup {"memit"}]
    BY EditedIs
  <2> QED  BY <2>1, <2>2 DEF s
<1>1. CASE f = "gate" \/ f = "up"
  <2>1. Expected(j)[f] = Overridden(j, f)
    BY <1>1, <1>a, <1>o DEF Expected
  <2> QED  BY <1>1, <2>1 DEF Built, AfterKnn, AfterMemit, AfterIndex, AfterUp, AfterGate
<1>2. CASE f = "attn"
  BY <1>2, <1>a DEF Expected, Baked, Built, AfterKnn, AfterMemit, AfterIndex, AfterUp, AfterGate,
                    AfterDown, AfterLinks
<1>3. CASE f = "down"
  <2>1. CASE j.memit
    <3>1. Expected(j)[f] = Edited(Overridden(j, f), j, "memit")
      BY <1>3, <2>1, <1>a, <1>m DEF Expected
    <3> QED  BY <1>3, <2>1, <3>1 DEF Built, AfterKnn, AfterMemit
  <2>2. CASE ~j.memit
    <3>1. Expected(j)[f] = Overridden(j, f)
      BY <1>3, <2>2, <1>a, <1>o DEF Expected
    <3> QED  BY <1>3, <2>2, <3>1 DEF Built, AfterKnn, AfterMemit, AfterIndex, AfterUp,
                                     AfterGate, AfterDown
  <2> QED  BY <2>1, <2>2
<1>4. CASE f = "knn"
  BY <1>4 DEF Expected, Built, AfterKnn, Summed
<1>5. CASE f = "lm_head"
  BY <1>5, <1>a DEF Expected, Built
<1> QED  BY <1>1, <1>2, <1>3, <1>4, <1>5 DEF Files

\* A step of process p leaves the others, their directories and the contents
\* of the source's files alone.
LEMMA OthersKept ==
  ASSUME Inv, SourceInv, NEW p \in Procs, ProcStep(p)
  PROVE  /\ store' = store
         /\ \A q \in Procs : q # p =>
              /\ pc'[q] = pc[q] /\ job'[q] = job[q] /\ path'[q] = path[q]
              /\ q \in left' <=> q \in left
              /\ path[q] # None => /\ slot'[path[q]] = slot[path[q]]
                                   /\ index'[path[q]] = index[path[q]]
<1>n. \A q \in Procs : q \in Names /\ q \notin {"src", "top", "out"}
  BY CompileAssumption DEF Names
<1>1. store' = store
  <2>1. CASE ApplyMemit(p)
    <3>1. job[p].memit => slot[path[p]]["down"] # Linked
      BY <2>1 DEF SourceInv, HasDown, ApplyMemit, Step
    <3> QED  BY <2>1, <3>1 DEF ApplyMemit, WriteInPlace, Dir, Staging
  <2>2. CASE ~ApplyMemit(p) /\ ~WriteModel(p)
    BY <2>2 DEF ProcStep, Work, Promote, Begin, Stage, StageOver, SaveGate, LinkUnchanging,
       BakeDown, PatchGate, PatchUp, Patch, WriteIndex, SaveKnn, UpdateModelIndex, WorkFails,
       Cleanup, OpenFinal, Unlink, Rmdir, RemoveFails, Rename, RenameFails, Crash
  <2>3. CASE WriteModel(p)
    BY <2>3, WriteModelApart
  <2> QED  BY <2>1, <2>2, <2>3
<1>2. ASSUME NEW q \in Procs, q # p
      PROVE  pc'[q] = pc[q] /\ job'[q] = job[q]
  BY <1>2 DEF ProcStep, Work, Promote, Begin, Stage, StageOver, SaveGate, LinkUnchanging, BakeDown,
       PatchGate, PatchUp, WriteIndex, ApplyMemit, SaveKnn, WriteModel, UpdateModelIndex,
       WorkFails, Cleanup, OpenFinal, Unlink, Rmdir, RemoveFails, Rename, RenameFails, Crash,
       Step, Goto, Inv, TypeOK
<1>5. ASSUME NEW q \in Procs, q # p PROVE q \in left' <=> q \in left
  BY <1>5 DEF ProcStep, Work, Promote, Begin, Stage, StageOver, SaveGate, LinkUnchanging,
       BakeDown, PatchGate, PatchUp, WriteIndex, ApplyMemit, SaveKnn, WriteModel,
       UpdateModelIndex, WorkFails, Cleanup, OpenFinal, Unlink, Rmdir, RemoveFails, Rename,
       RenameFails, Crash, Step, Scrub
<1>3. ASSUME NEW q \in Procs, q # p PROVE path'[q] = path[q]
  <2>1. Final(job[p]) # q
    BY <1>n, FinalName DEF Inv, TypeOK
  <2> QED
    BY <1>3, <1>n, <2>1 DEF ProcStep, Work, Promote, Begin, Stage, StageOver, SaveGate,
       LinkUnchanging, BakeDown, PatchGate, PatchUp, WriteIndex, ApplyMemit, SaveKnn, WriteModel,
       UpdateModelIndex, WorkFails, Cleanup, OpenFinal, Unlink, Rmdir, RemoveFails, Rename,
       RenameFails, Crash, Step, Scrub, Staging, Inv, TypeOK
<1>4. ASSUME NEW q \in Procs, q # p, path[q] # None
      PROVE  slot'[path[q]] = slot[path[q]] /\ index'[path[q]] = index[path[q]]
  <2>1. path[q] \in Dirs /\ path[q] # path[p] /\ path[q] # SrcDir
        /\ path[q] # path["src"]
    BY <1>4, <1>n DEF Inv, TypeOK, DirInv, Names
  <2>2. CASE Stage(p)
    <3>1. NewDir(p) # path[q]
      BY <1>n, <2>1, <2>2, NewDirIs DEF Stage, Free
    <3> QED  BY <2>1, <2>2, <3>1 DEF Stage, Inv, TypeOK
  <2>3. CASE Unlink(p)
    <3>1. path[q] \notin Tree(p)
      BY <1>4, <2>1, <2>3 DEF Tree, Unlink, Inv, DirInv
    <3> QED  BY <2>1, <2>3, <3>1 DEF Unlink, Inv, TypeOK
  <2>4. CASE Work(p)
    BY <2>1, <2>4 DEF Work, SaveGate, LinkUnchanging, BakeDown, PatchGate, PatchUp, Patch,
         WriteIndex, ApplyMemit, WriteInPlace, SaveKnn, WriteModel, UpdateModelIndex,
         Set, Dir, Staging, Step, Inv, TypeOK
  <2>5. CASE Cleanup(p) \/ RenameFails(p)
    BY <2>1, <2>5, CutShortElsewhere DEF Cleanup, RenameFails, Scrub, Dir, Staging, Inv, TypeOK
  <2>7. CASE StageOver(p)
    BY <2>1, <2>7, CutShortElsewhere DEF StageOver, Staging
  <2>6. CASE (\E j \in Jobs : Begin(p, j)) \/ WorkFails(p) \/ OpenFinal(p) \/ Rmdir(p)
             \/ RemoveFails(p) \/ Rename(p) \/ Crash(p)
    BY <2>6 DEF Begin, WorkFails, OpenFinal, Rmdir, RemoveFails, Rename, Crash
  <2> QED  BY <2>2, <2>3, <2>4, <2>5, <2>6, <2>7 DEF ProcStep, Promote
<1> QED  BY <1>1, <1>2, <1>3, <1>4, <1>5
\* The contents of the staging directory after one entry is set.
LEMMA SetContent ==
  ASSUME Inv, NEW p \in Procs, path[p] \in Dirs, NEW f \in Files, NEW e, Set(p, f, e),
         store' = store, path' = path
  PROVE  \A g \in Files : Content(path[p], g)' =
           IF g = f THEN IF e = Linked THEN store[f] ELSE e ELSE Content(path[p], g)
<1>1. slot'[path[p]] = [slot[path[p]] EXCEPT ![f] = e]
  BY DEF Set, Dir, Staging, Inv, TypeOK
<1>2. \A g \in Files : slot'[path[p]][g] = IF g = f THEN e ELSE slot[path[p]][g]
  BY <1>1 DEF Inv, TypeOK
<1> QED  BY <1>2 DEF Content

\* The contents of the staging directory when its entries stay.
LEMMA SameContent ==
  ASSUME NEW p \in Procs, slot' = slot, store' = store, path' = path
  PROVE  \A g \in Files : Content(path[p], g)' = Content(path[p], g)
BY DEF Content

\* A step makes the files of F in the staging directory v and keeps the others.
Puts(p, F, v) ==
  \A g \in Files : Content(path[p], g)' = IF g \in F THEN v ELSE Content(path[p], g)

\* What is to be there at the two points differs by just that.
Wants(j, from, to, F, v) ==
  \A g \in Files : Built(j, to)[g] = IF g \in F THEN v ELSE Built(j, from)[g]

\* A step that puts files in place as the next point wants them.
LEMMA BuildsMore ==
  ASSUME NEW p \in Procs, AsBuilt(p), NEW F, NEW v,
         job' = job, left' = left, path' = path,
         Puts(p, F, v), Wants(job[p], pc[p], pc'[p], F, v)
  PROVE  AsBuilt(p)'
<1> SUFFICES ASSUME NEW f \in Files
             PROVE  \/ Content(path[p], f)' = Built(job[p], pc'[p])[f]
                    \/ p \in left' /\ Built(job[p], pc'[p])[f] = None
  BY DEF AsBuilt, Built
<1> QED  BY DEF AsBuilt, Puts, Wants

\* Each step of the work builds its part.
LEMMA WorkBuilds ==
  ASSUME TiedApart, Inv, SourceInv, KeptInv, FirstExtract, NEW p \in Procs,
         job[p].target = "vindex", Whole(p), Work(p)
  PROVE  Whole(p)'
<1>s. store' = store
  BY OthersKept DEF ProcStep
<1>o. \A f \in {"gate", "attn", "up", "down"} : f \in Files /\ store[f] = Original
  BY CompileAssumption, FirstIsOriginal DEF SourceInv, Files
<1>l. /\ Original # Linked /\ Original # None
      /\ \A j \in Jobs, f \in Files : Overridden(j, f) \in Contents /\ Overridden(j, f) # Linked
  BY OriginalContent, EditedContent, CompileAssumption DEF Overridden
<1>j. job[p] \in Jobs /\ job[p].overrides \subseteq {"gate", "up", "down"}
      /\ job[p].memit \in BOOLEAN /\ job[p].knn \in BOOLEAN
  BY CompileAssumption DEF TiedApart, Inv, TypeOK
<1>d. pc[p] \in Staged => path[p] \in Dirs
  BY DEF Inv, TypeOK, DirInv, Names
<1>p. pc[p] \in Building
  BY DEF Whole, Work, SaveGate, LinkUnchanging, BakeDown, PatchGate, PatchUp, WriteIndex,
     ApplyMemit, SaveKnn, WriteModel, UpdateModelIndex, Step, Building, AfterWork, AfterLinks,
     AfterDown, AfterGate, AfterUp, AfterIndex, AfterMemit, AfterKnn
<1>b. AsBuilt(p)
  BY <1>p DEF Whole
<1>f. job' = job /\ left' = left /\ path' = path
  BY DEF Work, SaveGate, LinkUnchanging, BakeDown, PatchGate, PatchUp, WriteIndex, ApplyMemit,
         SaveKnn, WriteModel, UpdateModelIndex, Step, Goto
<1>1. CASE SaveGate(p)
  <2>1. pc[p] = "work" /\ pc'[p] = "links" /\ Set(p, "gate", Original)
    BY <1>1, <1>o DEF SaveGate, Step, Goto, Inv, TypeOK
  <2> DEFINE v == Original
  <2>2. Puts(p, {"gate"}, v)
    BY <1>d, <1>f, <1>l, <1>o, <1>s, <2>1, SetContent DEF Staged, Puts
  <2>3. Wants(job[p], "work", "links", {"gate"}, v)
    BY DEF Wants, Built, AfterWork, AfterLinks, AfterDown, AfterGate, AfterUp, AfterIndex,
       AfterMemit, AfterKnn
  <2> HIDE DEF v
  <2>4. AsBuilt(p)'
    BY <1>b, <1>f, <2>1, <2>2, <2>3, BuildsMore
  <2>5. pc'[p] \notin AfterIndex
    BY <2>1 DEF AfterIndex, AfterMemit, AfterKnn
  <2> QED  BY <1>f, <2>1, <2>4, <2>5 DEF Whole
<1>2. CASE LinkUnchanging(p)
  <2>1. pc[p] = "links" /\ pc'[p] = "down"
    BY <1>2 DEF LinkUnchanging, Step, Goto, Inv, TypeOK
  <2>2. PICK attn \in {Linked, Original}, up \in {Linked, Original} :
          slot' = [slot EXCEPT ![path[p]]["attn"] = attn, ![path[p]]["up"] = up]
    BY <1>2, <1>o DEF LinkUnchanging, LinkOrCopy, Dir, Staging
  <2>3. path[p] \in Dirs
    BY <1>d, <2>1 DEF Staged
  <2>4. slot'[path[p]] = [slot[path[p]] EXCEPT !["attn"] = attn, !["up"] = up]
    BY <2>2, <2>3 DEF Inv, TypeOK
  <2>5. \A g \in Files : slot'[path[p]][g] =
          IF g = "attn" THEN attn ELSE IF g = "up" THEN up ELSE slot[path[p]][g]
    BY <2>3, <2>4 DEF Inv, TypeOK
  <2> DEFINE v == Original
  <2>6. Puts(p, {"attn", "up"}, v)
    BY <1>f, <1>l, <1>o, <1>s, <2>2, <2>5 DEF Content, Puts
  <2>7. Wants(job[p], "links", "down", {"attn", "up"}, v)
    BY DEF Wants, Built, AfterWork, AfterLinks, AfterDown, AfterGate, AfterUp, AfterIndex,
       AfterMemit, AfterKnn
  <2> HIDE DEF v
  <2>8. AsBuilt(p)'
    BY <1>b, <1>f, <2>1, <2>6, <2>7, BuildsMore
  <2>9. pc'[p] \notin AfterIndex
    BY <2>1 DEF AfterIndex, AfterMemit, AfterKnn
  <2> QED  BY <1>f, <2>1, <2>8, <2>9 DEF Whole
<1>3. CASE BakeDown(p)
  <2>1. pc[p] = "down" /\ pc'[p] = "gate"
    BY <1>3 DEF BakeDown, Step, Goto, Inv, TypeOK
  <2>2. PICK e : /\ Set(p, "down", e)
                 /\ (IF e = Linked THEN Original ELSE e) = Overridden(job[p], "down")
    <3>1. CASE "down" \in job[p].overrides
      BY <1>3, <1>j, <1>l, <1>o, <3>1 DEF BakeDown, Overridden, Baked, Files
    <3>2. CASE "down" \notin job[p].overrides
      BY <1>3, <1>l, <1>o, <3>2 DEF BakeDown, Overridden, Baked, LinkOrCopy
    <3> QED  BY <3>1, <3>2
  <2> DEFINE v == Overridden(job[p], "down")
  <2>3. Puts(p, {"down"}, v)
    BY <1>d, <1>f, <1>o, <1>s, <2>1, <2>2, SetContent DEF Staged, Puts
  <2>4. Wants(job[p], "down", "gate", {"down"}, v)
    BY DEF Wants, Built, AfterWork, AfterLinks, AfterDown, AfterGate, AfterUp, AfterIndex,
       AfterMemit, AfterKnn
  <2> HIDE DEF v
  <2>5. AsBuilt(p)'
    BY <1>b, <1>f, <2>1, <2>3, <2>4, BuildsMore
  <2>6. pc'[p] \notin AfterIndex
    BY <2>1 DEF AfterIndex, AfterMemit, AfterKnn
  <2> QED  BY <1>f, <2>1, <2>5, <2>6 DEF Whole
<1>4. CASE PatchGate(p)
  <2>1. pc[p] = "gate" /\ pc'[p] = "up"
    BY <1>4 DEF PatchGate, Step, Goto, Inv, TypeOK
  <2>2. Content(path[p], "gate") = Original
    <3>1. Built(job[p], "gate")["gate"] = Original /\ Original # None
      BY <1>l, <1>o DEF Built, AfterWork, AfterLinks, AfterDown, AfterGate, AfterUp, AfterIndex,
         AfterMemit, AfterKnn
    <3> QED  BY <1>b, <1>o, <2>1, <3>1 DEF AsBuilt
  <2> DEFINE v == Overridden(job[p], "gate")
  <2>3. Puts(p, {"gate"}, v)
    <3>1. CASE Baked(job[p], "gate")
      <4>1. Set(p, "gate", Overridden(job[p], "gate"))
        BY <1>4, <1>o, <3>1 DEF PatchGate, Patch, Overridden
      <4> QED  BY <1>d, <1>f, <1>j, <1>l, <1>o, <1>s, <2>1, <4>1, SetContent DEF Staged, Puts
    <3>2. CASE ~Baked(job[p], "gate")
      <4>1. slot' = slot /\ Overridden(job[p], "gate") = Original
        BY <1>4, <3>2 DEF PatchGate, Patch, Overridden
      <4> QED  BY <1>f, <1>s, <2>2, <4>1, SameContent DEF Puts
    <3> QED  BY <3>1, <3>2
  <2>4. Wants(job[p], "gate", "up", {"gate"}, v)
    BY DEF Wants, Built, AfterWork, AfterLinks, AfterDown, AfterGate, AfterUp, AfterIndex,
       AfterMemit, AfterKnn
  <2> HIDE DEF v
  <2>5. AsBuilt(p)'
    BY <1>b, <1>f, <2>1, <2>3, <2>4, BuildsMore
  <2>6. pc'[p] \notin AfterIndex
    BY <2>1 DEF AfterIndex, AfterMemit, AfterKnn
  <2> QED  BY <1>f, <2>1, <2>5, <2>6 DEF Whole
<1>5. CASE PatchUp(p)
  <2>1. pc[p] = "up" /\ pc'[p] = "index"
    BY <1>5 DEF PatchUp, Step, Goto, Inv, TypeOK
  <2>2. Content(path[p], "up") = Original
    <3>1. Built(job[p], "up")["up"] = Original /\ Original # None
      BY <1>l, <1>o DEF Built, AfterWork, AfterLinks, AfterDown, AfterGate, AfterUp, AfterIndex,
         AfterMemit, AfterKnn
    <3> QED  BY <1>b, <1>o, <2>1, <3>1 DEF AsBuilt
  <2> DEFINE v == Overridden(job[p], "up")
  <2>3. Puts(p, {"up"}, v)
    <3>1. CASE Baked(job[p], "up")
      <4>1. Set(p, "up", Overridden(job[p], "up"))
        BY <1>5, <1>o, <3>1 DEF PatchUp, Patch, Overridden
      <4> QED  BY <1>d, <1>f, <1>j, <1>l, <1>o, <1>s, <2>1, <4>1, SetContent DEF Staged, Puts
    <3>2. CASE ~Baked(job[p], "up")
      <4>1. slot' = slot /\ Overridden(job[p], "up") = Original
        BY <1>5, <3>2 DEF PatchUp, Patch, Overridden
      <4> QED  BY <1>f, <1>s, <2>2, <4>1, SameContent DEF Puts
    <3> QED  BY <3>1, <3>2
  <2>4. Wants(job[p], "up", "index", {"up"}, v)
    BY DEF Wants, Built, AfterWork, AfterLinks, AfterDown, AfterGate, AfterUp, AfterIndex,
       AfterMemit, AfterKnn
  <2> HIDE DEF v
  <2>5. AsBuilt(p)'
    BY <1>b, <1>f, <2>1, <2>3, <2>4, BuildsMore
  <2>6. pc'[p] \notin AfterIndex
    BY <2>1 DEF AfterIndex, AfterMemit, AfterKnn
  <2> QED  BY <1>f, <2>1, <2>5, <2>6 DEF Whole
<1>6. CASE WriteIndex(p)
  <2>1. pc[p] = "index" /\ pc'[p] = "memit" /\ slot' = slot
    BY <1>6 DEF WriteIndex, Goto, Inv, TypeOK
  <2>2. path[p] \in Dirs
    BY <1>d, <2>1 DEF Staged
  <2>3. index'[path[p]] \in {ChecksumsOf(path[p]), Empty}
    BY <1>6, <2>2 DEF WriteIndex, Dir, Staging, Inv, TypeOK
  <2>4. ChecksumsOf(path[p]) # None /\ Empty # None
    <3>1. Empty \in Sums
      BY DEF Empty, Sums
    <3> QED  BY <2>2, <3>1, ChecksumsType, CompileAssumption
  <2>5. \A f \in Summed : ~(f = "down" /\ job[p].memit)
                         => ChecksumsOf(path[p])[f] = Expected(job[p])[f]
    <3> SUFFICES ASSUME NEW f \in Summed, ~(f = "down" /\ job[p].memit)
                 PROVE  Content(path[p], f) = Expected(job[p])[f]
      BY DEF ChecksumsOf, Summed
    <3>1. f \in Files /\ Built(job[p], "index")[f] = Expected(job[p])[f]
      BY <1>j, BuiltIsExpected DEF Summed
    <3>2. CASE f = "lm_head"
      <4>1. slot[path[p]][f] = None /\ None # Linked
        BY <2>2, <3>2, CompileAssumption DEF KeptInv
      <4>2. Expected(job[p])[f] = None
        BY <3>2, CompileAssumption DEF Expected, Files, TiedApart
      <4> QED  BY <4>1, <4>2 DEF Content
    <3>3. CASE f # "lm_head"
      <4>1. Built(job[p], "index")[f] \in Contents
        BY <1>l, <1>j, <3>1, <3>3, OriginalContent DEF Built, Summed, Files, AfterWork,
           AfterLinks, AfterDown, AfterGate, AfterUp, AfterIndex, AfterMemit, AfterKnn
      <4> QED  BY <1>b, <2>1, <3>1, <4>1, CompileAssumption DEF AsBuilt
    <3> QED  BY <3>2, <3>3
  <2>7. IndexOf(job[p], path[p])'
    BY <1>f, <2>3, <2>4, <2>5 DEF IndexOf, Expected
  <2>8. Wants(job[p], "index", "memit", {}, None)
    BY DEF Wants, Built, AfterWork, AfterLinks, AfterDown, AfterGate, AfterUp, AfterIndex,
       AfterMemit, AfterKnn
  <2>9. Puts(p, {}, None)
    BY <1>f, <1>s, <2>1, SameContent DEF Puts
  <2>10. AsBuilt(p)'
    BY <1>b, <1>f, <2>1, <2>8, <2>9, BuildsMore
  <2> QED  BY <1>f, <2>1, <2>7, <2>10 DEF Whole
<1>7. CASE ApplyMemit(p)
  <2>1. pc[p] = "memit" /\ pc'[p] = "knn" /\ index' = index
    BY <1>7 DEF ApplyMemit, Step, Goto, Inv, TypeOK
  <2>2. path[p] \in Dirs
    BY <1>d, <2>1 DEF Staged
  <2>3. IndexOf(job[p], path[p])'
    BY <1>f, <2>1 DEF Whole, IndexOf, Expected, Building, AfterWork, AfterLinks, AfterDown,
       AfterGate, AfterUp, AfterIndex
  <2>4. AsBuilt(p)'
    <3>1. CASE job[p].memit
      <4> DEFINE e == Edited(Overridden(job[p], "down"), job[p], "memit")
      <4>1. Content(path[p], "down") = Overridden(job[p], "down")
        <5>1. Built(job[p], "memit")["down"] = Overridden(job[p], "down")
          BY <1>o DEF Built, AfterWork, AfterLinks, AfterDown, AfterGate, AfterUp, AfterIndex,
             AfterMemit, AfterKnn
        <5>2. Overridden(job[p], "down") # None
          BY <1>j, <1>l, <1>o, CompileAssumption
        <5> QED  BY <1>b, <1>o, <2>1, <5>1, <5>2 DEF AsBuilt
      <4>2. slot[path[p]]["down"] # Linked
        BY <2>1, <3>1 DEF SourceInv, HasDown
      <4>3. Set(p, "down", e)
        BY <1>7, <3>1, <4>1, <4>2 DEF ApplyMemit, WriteInPlace, Dir, Staging
      <4>4. e # Linked
        BY <1>j, <1>l, <1>o, EditedContent, CompileAssumption
      <4>5. Wants(job[p], "memit", "knn", {"down"}, e)
        BY <3>1 DEF Wants, Built, AfterWork, AfterLinks, AfterDown, AfterGate, AfterUp,
           AfterIndex, AfterMemit, AfterKnn
      <4> HIDE DEF e
      <4>7. Puts(p, {"down"}, e)
        BY <1>f, <1>o, <1>s, <2>2, <4>3, <4>4, SetContent DEF Puts
      <4> QED  BY <1>b, <1>f, <2>1, <4>5, <4>7, BuildsMore
    <3>2. CASE ~job[p].memit
      <4>1. slot' = slot
        BY <1>7, <3>2 DEF ApplyMemit
      <4>2. Wants(job[p], "memit", "knn", {}, None)
        BY <3>2 DEF Wants, Built, AfterWork, AfterLinks, AfterDown, AfterGate, AfterUp,
           AfterIndex, AfterMemit, AfterKnn
      <4>3. Puts(p, {}, None)
        BY <1>f, <1>s, <4>1, SameContent DEF Puts
      <4> QED  BY <1>b, <1>f, <2>1, <4>2, <4>3, BuildsMore
    <3> QED  BY <3>1, <3>2
  <2> QED  BY <1>f, <2>1, <2>3, <2>4 DEF Whole
<1>8. CASE SaveKnn(p)
  <2>1. pc[p] = "knn" /\ pc'[p] = "open" /\ index' = index
    BY <1>8 DEF SaveKnn, Step, Goto, Inv, TypeOK
  <2>2. path[p] \in Dirs
    BY <1>d, <2>1 DEF Staged
  <2>3. IndexOf(job[p], path[p])'
    BY <1>f, <2>1 DEF Whole, IndexOf, Expected, Building, AfterWork, AfterLinks, AfterDown,
       AfterGate, AfterUp, AfterIndex, AfterMemit
  <2>4. AsBuilt(p)'
    <3>1. CASE job[p].knn
      <4> DEFINE e == [Original EXCEPT !.by = job[p]]
      <4>1. Set(p, "knn", e) /\ "knn" \in Files
        BY <1>8, <3>1 DEF SaveKnn, Files
      <4>2. e \in Contents
        BY <1>j DEF Original, Contents
      <4>3. e # Linked
        BY <4>2, CompileAssumption
      <4>4. Wants(job[p], "knn", "open", {"knn"}, e)
        BY <3>1 DEF Wants, Built, AfterWork, AfterLinks, AfterDown, AfterGate, AfterUp,
           AfterIndex, AfterMemit, AfterKnn
      <4> HIDE DEF e
      <4>6. Puts(p, {"knn"}, e)
        BY <1>f, <1>s, <2>2, <4>1, <4>3, SetContent DEF Puts
      <4> QED  BY <1>b, <1>f, <2>1, <4>4, <4>6, BuildsMore
    <3>2. CASE ~job[p].knn
      <4>1. slot' = slot
        BY <1>8, <3>2 DEF SaveKnn
      <4>2. Wants(job[p], "knn", "open", {}, None)
        BY <3>2 DEF Wants, Built, AfterWork, AfterLinks, AfterDown, AfterGate, AfterUp,
           AfterIndex, AfterMemit, AfterKnn
      <4>3. Puts(p, {}, None)
        BY <1>f, <1>s, <4>1, SameContent DEF Puts
      <4> QED  BY <1>b, <1>f, <2>1, <4>2, <4>3, BuildsMore
    <3> QED  BY <3>1, <3>2
  <2> QED  BY <1>f, <2>1, <2>3, <2>4 DEF Whole
<1>9. ~WriteModel(p)
  BY DEF WriteModel
<1>10. ~UpdateModelIndex(p)
  BY DEF UpdateModelIndex, Step, Whole
<1> QED  BY <1>1, <1>2, <1>3, <1>4, <1>5, <1>6, <1>7, <1>8, <1>9, <1>10 DEF Work

\* The work of a compile into a model comes to its end in UpdateModelIndex,
\* which does not find the index.json.
LEMMA WorkOfModel ==
  ASSUME Inv, NEW p \in Procs, job[p].target # "vindex", Whole(p), Work(p)
  PROVE  Whole(p)'
<1>1. pc[p] \notin AfterWork
  BY DEF Whole
<1>2. CASE WriteModel(p)
  <2>1. pc[p] = "work" /\ pc'[p] = "model_index" /\ job' = job /\ UNCHANGED <<path, index>>
    BY <1>2 DEF WriteModel, Step, Goto, Inv, TypeOK
  <2> QED  BY <2>1 DEF Whole, AfterWork, AfterLinks, AfterDown, AfterGate, AfterUp,
                       AfterIndex, AfterMemit, AfterKnn
<1>3. CASE UpdateModelIndex(p)
  <2>1. index[path[p]] = None
    BY <1>3 DEF Whole, UpdateModelIndex, Step
  <2>2. pc'[p] = "cleanup" /\ job' = job
    BY <1>3, <2>1 DEF UpdateModelIndex, Step, Goto, Dir, Staging, Inv, TypeOK
  <2> QED  BY <2>2 DEF Whole, AfterWork, AfterLinks, AfterDown, AfterGate, AfterUp, AfterIndex,
                       AfterMemit, AfterKnn
<1>4. CASE ~WriteModel(p) /\ ~UpdateModelIndex(p)
  BY <1>1, <1>4 DEF Work, SaveGate, LinkUnchanging, BakeDown, PatchGate, PatchUp, WriteIndex,
       ApplyMemit, SaveKnn, Step, AfterWork, AfterLinks, AfterDown, AfterGate, AfterUp,
       AfterIndex, AfterMemit, AfterKnn
<1> QED  BY <1>2, <1>3, <1>4

\* Every step keeps KeptInv: none makes an lm_head.bin, and only SaveKnn makes a
\* KNN store.
LEMMA KeptStep ==
  ASSUME TiedApart, Inv, KeptInv, NEW p \in Procs, ProcStep(p)
  PROVE  KeptInv'
<1>f. {"lm_head", "knn"} \subseteq Files /\ "lm_head" \notin SourceFiles /\ "knn" \notin SourceFiles
  BY CompileAssumption DEF Files, Summed, TiedApart
<1>t. slot \in [Dirs -> [Files -> Contents \cup {None, Linked}]] /\ path[p] \in Dirs \cup {None}
  BY DEF Inv, TypeOK, Names
<1>1. left' # {} => Stuck
  BY DEF KeptInv, ProcStep, Work, Promote, Begin, Stage, StageOver, SaveGate, LinkUnchanging,
     BakeDown, PatchGate, PatchUp, WriteIndex, ApplyMemit, SaveKnn, WriteModel,
     UpdateModelIndex, WorkFails, Cleanup, OpenFinal, Unlink, Rmdir, RemoveFails, Rename,
     RenameFails, Crash, Step, Scrub, CutShort
<1> SUFFICES ASSUME NEW d \in Dirs
             PROVE  /\ slot'[d]["lm_head"] \in {None, slot[d]["lm_head"]}
                    /\ \/ slot'[d]["knn"] \in {None, slot[d]["knn"]}
                       \/ \E k \in Jobs : slot'[d]["knn"] = Expected(k)["knn"]
  <2>1. \A k \in Jobs : Expected(k)' = Expected(k)
    BY DEF Expected
  <2> QED  BY <1>1, <2>1 DEF KeptInv
<1>2. CASE CutShort(path[p]) /\ path[p] # None
  <2>1. PICK g \in [Files -> Contents \cup {None, Linked}] :
          /\ \A f \in Files : g[f] \in {None, slot[path[p]][f]}
          /\ slot' = [slot EXCEPT ![path[p]] = g]
    BY <1>2, <1>t, CutShortIs
  <2>2. slot'[d] = IF d = path[p] THEN g ELSE slot[d]
    BY <1>t, <2>1
  <2> QED  BY <1>f, <2>1, <2>2
<1>3. CASE Unlink(p)
  <2>1. \A e \in Dirs, f, g \in Files :
          [slot EXCEPT ![e][f] = None][d][g] = IF e = d /\ f = g THEN None ELSE slot[d][g]
    BY <1>t
  <2>2. PICK e \in Tree(p) :
          \/ \E f \in Files : slot' = [slot EXCEPT ![e][f] = None]
          \/ UNCHANGED slot
    BY <1>3 DEF Unlink
  <2>3. e \in Dirs \/ slot' = slot \/ slot'[d] = slot[d]
    BY <1>t, <2>2
  <2> QED  BY <1>f, <1>t, <2>1, <2>2, <2>3
<1>4. CASE \E e \in Dirs : slot' = [slot EXCEPT ![e] = Empty]
  BY <1>4, <1>f, <1>t DEF Empty
<1>5. CASE UNCHANGED slot
  BY <1>5
<1>6. CASE Work(p)
  <2>p. path[p] \in Dirs
    BY <1>6, <1>t DEF Work, SaveGate, LinkUnchanging, BakeDown, PatchGate, PatchUp, WriteIndex,
       ApplyMemit, SaveKnn, WriteModel, UpdateModelIndex, Step, Inv, DirInv, Staged
  <2>1. CASE SaveKnn(p) /\ job[p].knn
    <3>1. slot'[d]["lm_head"] = slot[d]["lm_head"]
      BY <1>f, <1>t, <2>p, <2>1 DEF SaveKnn, Set, Dir, Staging
    <3>2. slot'[d]["knn"] \in {slot[d]["knn"], [Original EXCEPT !.by = job[p]]}
      BY <1>f, <1>t, <2>p, <2>1 DEF SaveKnn, Set, Dir, Staging
    <3>3. job[p] \in Jobs /\ Expected(job[p])["knn"] = [Original EXCEPT !.by = job[p]]
      BY <1>f, <2>1 DEF Expected, Inv, TypeOK
    <3> QED  BY <3>1, <3>2, <3>3
  <2>2. CASE WriteModel(p)
    BY <1>f, <1>t, <2>p, <2>2 DEF WriteModel, Dir, Staging
  <2>3. CASE LinkUnchanging(p)
    BY <1>f, <1>t, <2>p, <2>3 DEF LinkUnchanging, Dir, Staging
  <2>4. ASSUME \E f \in {"gate", "down", "up"} : \E e : Set(p, f, e)
        PROVE  slot'[d]["lm_head"] = slot[d]["lm_head"] /\ slot'[d]["knn"] = slot[d]["knn"]
    BY <1>f, <1>t, <2>p, <2>4 DEF Set, Dir, Staging
  <2>5. CASE SaveGate(p) \/ BakeDown(p) \/ PatchGate(p) \/ PatchUp(p) \/ ApplyMemit(p)
    <3>1. (\E f \in {"gate", "down", "up"} : \E e : Set(p, f, e)) \/ UNCHANGED slot
      BY <2>5 DEF SaveGate, BakeDown, PatchGate, PatchUp, Patch, ApplyMemit, WriteInPlace
    <3> QED  BY <2>4, <3>1
  <2>6. CASE WriteIndex(p) \/ UpdateModelIndex(p) \/ (SaveKnn(p) /\ ~job[p].knn)
    BY <2>6 DEF WriteIndex, UpdateModelIndex, SaveKnn
  <2> QED  BY <1>6, <2>1, <2>2, <2>3, <2>5, <2>6 DEF Work
<1>7. CASE Stage(p)
  BY <1>4, <1>7, NewDirIs DEF Stage
<1>8. CASE StageOver(p)
  BY <1>2, <1>8 DEF StageOver, Staging
<1>9. CASE Cleanup(p) \/ RenameFails(p)
  <2>1. path[p] \in Dirs /\ path[p] # None
    BY <1>9, <1>t, CompileAssumption DEF Cleanup, RenameFails, Inv, DirInv, Staged
  <2>2. CutShort(path[p]) \/ slot' = [slot EXCEPT ![path[p]] = Empty]
    BY <1>9 DEF Cleanup, RenameFails, Scrub, Dir, Staging
  <2> QED  BY <1>2, <1>4, <2>1, <2>2
<1>10. CASE (\E j \in Jobs : Begin(p, j)) \/ WorkFails(p) \/ OpenFinal(p) \/ Rmdir(p)
            \/ RemoveFails(p) \/ Rename(p) \/ Crash(p)
  BY <1>10 DEF Begin, WorkFails, OpenFinal, Rmdir, RemoveFails, Rename, Crash
<1> QED  BY <1>3, <1>6, <1>7, <1>8, <1>9, <1>10 DEF ProcStep, Promote

\* Every step keeps WholeInv.
LEMMA WholeStep ==
  ASSUME TiedApart, Inv, SourceInv, KeptInv, FirstExtract, WholeInv, NEW p \in Procs, ProcStep(p)
  PROVE  WholeInv'
<1>n. p \in Names /\ p \notin {"src", "top", "out"}
  BY CompileAssumption DEF Names
<1>s. store' = store
  BY OthersKept
<1>1. ASSUME NEW q \in Procs, q # p PROVE Whole(q)'
  <2>1. /\ pc'[q] = pc[q] /\ job'[q] = job[q] /\ path'[q] = path[q] /\ (q \in left' <=> q \in left)
        /\ path[q] # None => slot'[path[q]] = slot[path[q]] /\ index'[path[q]] = index[path[q]]
    BY <1>1, OthersKept
  <2>2. pc[q] \in Building \cup {"model_index"} => path[q] # None
    BY DEF Inv, DirInv, Staged, Building, AfterWork, AfterLinks, AfterDown, AfterGate, AfterUp,
           AfterIndex, AfterMemit, AfterKnn
  <2>3. path[q] # None => \A f \in Files : Content(path[q], f)' = Content(path[q], f)
    BY <1>s, <2>1 DEF Content
  <2>4. path[q] # None /\ IndexOf(job[q], path[q]) => IndexOf(job[q], path[q])'
    BY <2>1 DEF IndexOf, Expected
  <2>5. Whole(q)
    BY DEF WholeInv
  <2>8. path[q] # None /\ AsBuilt(q) => AsBuilt(q)'
    BY <2>1, <2>3 DEF AsBuilt, Built
  <2>6. CASE job[q].target = "vindex"
    BY <2>1, <2>2, <2>4, <2>5, <2>6, <2>8 DEF Whole
  <2>7. CASE job[q].target # "vindex"
    BY <2>1, <2>2, <2>5, <2>7 DEF Whole, Building
  <2> QED  BY <2>6, <2>7
<1>2. Whole(p)'
  <2>w. Whole(p)
    BY DEF WholeInv
  <2>1. CASE Work(p)
    BY <2>1, <2>w, WorkBuilds, WorkOfModel
  <2>2. CASE Stage(p)
    <3>1. NewDir(p) \in Dirs
      BY <2>2, NewDirIs DEF Stage
    <3>2. /\ pc'[p] = "work" /\ path'[p] = NewDir(p) /\ slot'[NewDir(p)] = Empty
          /\ index'[NewDir(p)] = None
      BY <1>n, <2>2, <3>1 DEF Stage, Staging, Goto, Inv, TypeOK
    <3>3. \A f \in Files : Content(path[p], f)' = None
      BY <3>2, CompileAssumption DEF Content, Empty
    <3>4. \A f \in Files : Built(job'[p], "work")[f] = None
      BY DEF Built, AfterWork, AfterLinks, AfterDown, AfterGate, AfterUp, AfterIndex, AfterMemit,
             AfterKnn
    <3>5. "work" \notin AfterIndex /\ "work" \notin AfterWork
      BY DEF AfterWork, AfterLinks, AfterDown, AfterGate, AfterUp, AfterIndex, AfterMemit, AfterKnn
    <3>6. AsBuilt(p)'
      BY <3>2, <3>3, <3>4 DEF AsBuilt, Built
    <3> QED  BY <3>2, <3>5, <3>6 DEF Whole
  <2>5. CASE StageOver(p)
    <3>1. pc'[p] = "work" /\ p \in left' /\ job' = job
      BY <2>5 DEF StageOver, Goto, Inv, TypeOK
    <3>2. job[p].target = "vindex"
      BY <2>5 DEF StageOver, CutShort, TiedApart, ModelsStartClean, Inv, TypeOK
    <3>3. \A f \in Files : Built(job[p], "work")[f] = None
      BY DEF Built, AfterWork, AfterLinks, AfterDown, AfterGate, AfterUp, AfterIndex, AfterMemit,
             AfterKnn
    <3>4. "work" \notin AfterIndex
      BY DEF AfterIndex, AfterMemit, AfterKnn
    <3>5. AsBuilt(p)'
      BY <3>1, <3>3 DEF AsBuilt, Built
    <3> QED  BY <3>1, <3>2, <3>4, <3>5 DEF Whole
  <2>3. CASE (\E j \in Jobs : Begin(p, j)) \/ WorkFails(p) \/ Cleanup(p) \/ Rename(p)
             \/ RenameFails(p) \/ Crash(p)
    <3>1. pc'[p] \in {"err", "stage", "cleanup", "ok", "off"}
      BY <2>3 DEF Begin, WorkFails, Cleanup, Rename, RenameFails, Crash, Goto, Inv, TypeOK
    <3> QED  BY <3>1 DEF Whole, Building, AfterWork, AfterLinks, AfterDown, AfterGate, AfterUp,
                         AfterIndex, AfterMemit, AfterKnn
  <2>4. CASE OpenFinal(p) \/ Unlink(p) \/ Rmdir(p) \/ RemoveFails(p)
    <3>1. pc[p] \in AfterKnn /\ pc'[p] \in AfterKnn /\ job' = job /\ left' = left
      BY <2>4 DEF OpenFinal, Unlink, Rmdir, RemoveFails, Goto, AfterKnn, Inv, TypeOK
    <3>2. path'[p] = path[p]
      BY <1>n, <2>4, FinalName DEF OpenFinal, Unlink, Rmdir, RemoveFails, Inv, TypeOK
    <3>3. path[p] \in Dirs
      BY <1>n, <3>1 DEF Inv, TypeOK, DirInv, AfterKnn, Staged
    <3>4. slot'[path[p]] = slot[path[p]] /\ index'[path[p]] = index[path[p]]
      <4>1. CASE Unlink(p)
        <5>1. path[p] \notin Tree(p)
          BY <1>n, <3>3, <4>1, CompileAssumption DEF Tree, Unlink, Inv, DirInv, Names
        <5> QED  BY <3>3, <4>1, <5>1 DEF Unlink, Inv, TypeOK
      <4>2. CASE ~Unlink(p)
        BY <2>4, <4>2 DEF OpenFinal, Rmdir, RemoveFails
      <4> QED  BY <4>1, <4>2
    <3>5. \A f \in Files : Content(path[p], f)' = Content(path[p], f)
      BY <1>s, <3>2, <3>4 DEF Content
    <3>6. job[p] \in Jobs
      BY DEF Inv, TypeOK
    <3>7. \A f \in Files : Built(job[p], pc[p])[f] = Built(job[p], pc'[p])[f]
      BY <3>1, <3>6, BuiltIsExpected
    <3>8. IndexOf(job[p], path[p]) => IndexOf(job[p], path[p])'
      BY <3>1, <3>2, <3>4 DEF IndexOf, Expected
    <3>9. /\ pc[p] \in AfterWork /\ pc[p] \in Building /\ pc[p] \in AfterIndex
          /\ pc'[p] # "model_index"
      BY <3>1 DEF Building, AfterWork, AfterLinks, AfterDown, AfterGate, AfterUp, AfterIndex,
                  AfterMemit, AfterKnn
    <3>10. AsBuilt(p) => AsBuilt(p)'
      BY <3>1, <3>2, <3>5, <3>7 DEF AsBuilt, Built
    <3> QED  BY <2>w, <3>1, <3>2, <3>8, <3>9, <3>10 DEF Whole
  <2> QED  BY <2>1, <2>2, <2>3, <2>4, <2>5 DEF ProcStep, Promote
<1> QED  BY <1>1, <1>2 DEF WholeInv

\* What Rename promotes: the whole result of the statement.
LEMMA RenamePromotes ==
  ASSUME TiedApart, Inv, SourceInv, KeptInv, FirstExtract, WholeInv, NEW p \in Procs, Rename(p)
  PROVE  /\ path'["out"] = path[p] /\ path[p] \in Dirs
         /\ \A f \in Files :
              \/ Content(path["out"], f)' = Expected(job[p])[f]
              \/ p \in left /\ f = "knn" /\ Expected(job[p])[f] = None
         /\ IndexOf(job[p], path["out"])'
         /\ job' = job
<1>1. /\ job[p] \in Jobs /\ job[p].at = "apart" /\ p \in Names /\ "out" \in Names /\ p # "out"
      /\ pc[p] = "rename"
  BY CompileAssumption DEF SourceInv, Rename, Staged, Names, Inv, TypeOK
<1>2. /\ path'["out"] = path[p] /\ job' = job /\ job'[p] = job[p]
      /\ UNCHANGED <<slot, index, store>>
  BY <1>1 DEF Rename, Final, Dir, Staging, Goto, Inv, TypeOK
<1>3. path[p] \in Dirs
  BY <1>1 DEF Inv, TypeOK, DirInv, Staged
<1>4. AsBuilt(p) /\ IndexOf(job[p], path[p])
  BY <1>1 DEF WholeInv, Whole, Building, AfterWork, AfterLinks, AfterDown, AfterGate, AfterUp,
              AfterIndex, AfterMemit, AfterKnn
<1>5. \A f \in Files : Content(path["out"], f)' = Content(path[p], f)
  BY <1>2 DEF Content
<1>6. \A f \in Files : Built(job[p], "rename")[f] = Expected(job[p])[f]
  BY <1>1, BuiltIsExpected DEF AfterKnn
<1>8. ASSUME NEW f \in Files
      PROVE  \/ Content(path[p], f) = Expected(job[p])[f]
             \/ p \in left /\ f = "knn" /\ Expected(job[p])[f] = None
  <2>1. \/ Content(path[p], f) = Expected(job[p])[f]
        \/ p \in left /\ Expected(job[p])[f] = None
    BY <1>1, <1>4, <1>6 DEF AsBuilt
  <2>2. CASE f = "knn"
    BY <2>1, <2>2
  <2>3. CASE f = "lm_head"
    BY <1>3, <2>3, CompileAssumption DEF Content, KeptInv, Expected, TiedApart
  <2>4. CASE f \notin {"knn", "lm_head"}
    <3>1. f \in {"gate", "attn", "up", "down"}
      BY <2>4 DEF Files
    <3>2. f \in SourceFiles
      BY <3>1, CompileAssumption
    <3>3. Expected(job[p])[f] \in {Original, [ver |-> 0, by |-> job[p], edits |-> {"override"}],
              [ver |-> 0, by |-> job[p], edits |-> {"memit"}],
              [ver |-> 0, by |-> job[p], edits |-> {"override", "memit"}]}
      BY <3>1, <3>2 DEF Expected
    <3>4. Expected(job[p])[f] \in Contents
      BY <1>1, <3>3, OriginalContent DEF Contents
    <3> QED  BY <2>1, <3>4, CompileAssumption
  <2> QED  BY <2>2, <2>3, <2>4
<1>7. IndexOf(job[p], path["out"])'
  BY <1>2, <1>4 DEF IndexOf, Expected
<1> QED  BY <1>2, <1>3, <1>5, <1>7, <1>8

\* Every step keeps OutputInv.
LEMMA OutputStep ==
  ASSUME TiedApart, Inv, SourceInv, KeptInv, FirstExtract, WholeInv, OutputInv, NEW p \in Procs,
         ProcStep(p)
  PROVE  OutputInv'
<1>n. p \in Names /\ p \notin {"src", "top", "out"} /\ "out" \in Names
  BY CompileAssumption DEF Names
<1>s. store' = store
  BY OthersKept
<1>j. job[p] \in Jobs
  BY DEF Inv, TypeOK
<1>1. CASE Rename(p)
  <2>1. /\ \A f \in Files : Content(path["out"], f)' = Expected(job[p])[f] \/ (Stuck /\ f = "knn")
        /\ IndexOf(job[p], path["out"])'
        /\ job' = job
    BY <1>1, RenamePromotes DEF KeptInv
  <2>2. PICK j \in Jobs : j = job[p] /\ j = job'[p]
    BY <1>j, <2>1
  <2>3. \A f \in Files : Content(path["out"], f)' \in {None, Expected(j)[f]} \/ (Stuck /\ f = "knn")
    BY <2>1, <2>2
  <2>4. (index[path["out"]] # None => IndexOf(j, path["out"]))'
    BY <2>1, <2>2 DEF IndexOf, Expected
  <2> QED  BY <2>3, <2>4 DEF OutputInv, Expected
<1>2. CASE ~Rename(p)
  <2>1. path'["out"] \in {None, path["out"]}
    BY <1>2, <1>n DEF ProcStep, Work, Promote, Begin, Stage, StageOver, SaveGate,
       LinkUnchanging, BakeDown, PatchGate, PatchUp, WriteIndex, ApplyMemit, SaveKnn, WriteModel,
       UpdateModelIndex, WorkFails, Cleanup, OpenFinal, Unlink, Rmdir, RemoveFails, RenameFails,
       Crash, Step, Scrub, Staging, Inv, TypeOK
  <2> SUFFICES ASSUME path'["out"] # None
               PROVE  OutputInv'
    BY DEF OutputInv
  <2>2. path'["out"] = path["out"] /\ path["out"] \in Dirs /\ path["out"] # path[p]
    BY <1>n, <2>1 DEF Inv, TypeOK, DirInv
  <2> DEFINE o == path["out"]
  <2>3. /\ \A f \in Files : slot'[o][f] \in {None, slot[o][f]}
        /\ index'[o] \in {None, index[o]}
    <3>1. CASE Stage(p)
      <4>1. NewDir(p) # o
        BY <1>n, <2>2, <3>1, NewDirIs DEF Stage, Free
      <4> QED  BY <2>2, <3>1, <4>1 DEF Stage, Inv, TypeOK
    <3>2. CASE Unlink(p)
      <4>1. PICK d \in Tree(p) :
              \/ \E f \in Files : slot' = [slot EXCEPT ![d][f] = None] /\ UNCHANGED index
              \/ index' = [index EXCEPT ![d] = None] /\ UNCHANGED slot
        BY <3>2 DEF Unlink
      <4>2. CASE \E f \in Files : slot' = [slot EXCEPT ![d][f] = None] /\ UNCHANGED index
        <5>1. PICK f \in Files : slot' = [slot EXCEPT ![d][f] = None] /\ UNCHANGED index
          BY <4>2
        <5>2. slot'[o] = IF o = d THEN [slot[o] EXCEPT ![f] = None] ELSE slot[o]
          BY <2>2, <5>1 DEF Inv, TypeOK
        <5>3. slot[o] \in [Files -> Contents \cup {None, Linked}]
          BY <2>2 DEF Inv, TypeOK
        <5> QED  BY <5>1, <5>2, <5>3
      <4>3. CASE index' = [index EXCEPT ![d] = None] /\ UNCHANGED slot
        BY <2>2, <4>3 DEF Inv, TypeOK
      <4> QED  BY <4>1, <4>2, <4>3
    <3>3. CASE Work(p)
      BY <2>2, <3>3 DEF Work, SaveGate, LinkUnchanging, BakeDown, PatchGate, PatchUp, Patch,
           WriteIndex, ApplyMemit, WriteInPlace, SaveKnn, WriteModel, UpdateModelIndex,
           Set, Dir, Staging, Step, Inv, TypeOK
    <3>4. CASE Cleanup(p) \/ RenameFails(p)
      BY <2>2, <3>4, CutShortElsewhere DEF Cleanup, RenameFails, Scrub, Dir, Staging, Inv, TypeOK
    <3>6. CASE StageOver(p)
      BY <2>2, <3>6, CutShortElsewhere DEF StageOver, Staging
    <3>5. CASE (\E j \in Jobs : Begin(p, j)) \/ WorkFails(p) \/ OpenFinal(p) \/ Rmdir(p)
               \/ RemoveFails(p) \/ Crash(p)
      BY <3>5 DEF Begin, WorkFails, OpenFinal, Rmdir, RemoveFails, Crash
    <3> QED  BY <1>2, <3>1, <3>2, <3>3, <3>4, <3>5, <3>6 DEF ProcStep, Promote
  <2>4. PICK j \in Jobs : /\ \A f \in Files : \/ Content(o, f) \in {None, Expected(j)[f]}
                                              \/ Stuck /\ f = "knn"
                          /\ index[o] # None => IndexOf(j, o)
    BY <2>2 DEF OutputInv
  <2>5. None # Linked
    BY CompileAssumption
  <2>6. \A f \in Files : Content(path["out"], f)' \in {None, Content(o, f)}
    BY <1>s, <2>2, <2>3, <2>5 DEF Content
  <2>7. (index[path["out"]] # None => IndexOf(j, path["out"]))'
    BY <2>2, <2>3, <2>4 DEF IndexOf, Expected
  <2>8. \A f \in Files : Content(path["out"], f)' \in {None, Expected(j)[f]} \/ (Stuck /\ f = "knn")
    BY <2>4, <2>6
  <2> QED  BY <2>7, <2>8 DEF OutputInv, Expected
<1> QED  BY <1>1, <1>2

AllInv == Inv /\ SourceInv /\ KeptInv /\ (FirstExtract => WholeInv /\ OutputInv)

\* All of it is an invariant.
LEMMA AllInvariant ==
  ASSUME TiedApart
  PROVE  Spec => []AllInv
<1>1. Init => AllInv
  <2> SUFFICES ASSUME Init PROVE AllInv
    OBVIOUS
  <2>1. "out" \in Names
    BY DEF Names
  <2>2. path["out"] = None
    BY <2>1 DEF Init
  <2>3. WholeInv
    BY DEF Init, WholeInv, Whole, Building, AfterWork, AfterLinks, AfterDown, AfterGate, AfterUp,
           AfterIndex, AfterMemit, AfterKnn
  <2>4. KeptInv
    BY CompileAssumption DEF Init, KeptInv, Empty, Files, TiedApart, Summed
  <2> QED  BY <2>2, <2>3, <2>4, InvInit, SourceInit DEF AllInv, OutputInv
<1>2. AllInv /\ [Next]_vars => AllInv'
  <2> SUFFICES ASSUME AllInv, [Next]_vars PROVE AllInv'
    OBVIOUS
  <2>1. Inv'
    BY InvStep DEF AllInv
  <2>2. SourceInv'
    BY SourceStep DEF AllInv, TiedApart
  <2>3. CASE UNCHANGED vars
    <3>1. FirstExtract' => FirstExtract
      BY <2>3 DEF vars, FirstExtract
    <3>2. WholeInv => WholeInv'
      BY <2>3 DEF vars, WholeInv, Whole, AsBuilt, Built, Content, IndexOf, Expected
    <3>3. OutputInv => OutputInv'
      <4>1. \A j \in Jobs : IndexOf(j, path["out"])' <=> IndexOf(j, path["out"])
        BY <2>3 DEF vars, IndexOf, Expected
      <4>2. /\ \A f \in Files : Content(path["out"], f)' = Content(path["out"], f)
            /\ \A j \in Jobs : Expected(j)' = Expected(j)
        BY <2>3 DEF vars, Content, Expected
      <4> QED  BY <2>3, <4>1, <4>2 DEF vars, OutputInv
    <3>4. KeptInv'
      BY <2>3 DEF AllInv, vars, KeptInv, Expected
    <3> QED  BY <2>1, <2>2, <3>1, <3>2, <3>3, <3>4 DEF AllInv
  <2>4. CASE Reextract
    <3>1. "gate" \in SourceFiles /\ store'["gate"] = Rewritten
      BY <2>4, CompileAssumption DEF Reextract, Files
    <3>2. Rewritten.ver = 1
      BY DEF Rewritten, Original
    <3>3. ~FirstExtract'
      BY <3>1, <3>2 DEF FirstExtract
    <3>4. KeptInv'
      BY <2>4 DEF AllInv, Reextract, KeptInv, Expected
    <3> QED  BY <2>1, <2>2, <3>3, <3>4 DEF AllInv
  <2>5. ASSUME NEW p \in Procs, ProcStep(p) PROVE AllInv'
    <3>1. FirstExtract' => FirstExtract
      BY <2>5, OthersKept DEF AllInv, FirstExtract
    <3> QED  BY <2>1, <2>2, <2>5, <3>1, KeptStep, WholeStep, OutputStep DEF AllInv
  <2> QED  BY <2>3, <2>4, <2>5 DEF Next, ProcStep
<1> QED  BY <1>1, <1>2, PTL DEF Spec

\* What a compile puts in place is whole and is its own: every file of a tied
\* source with the edits of this statement that are written, nothing of another
\* process and nothing left by an earlier run of this pid, but for what could not
\* be removed and this statement does not write, until extract writes the source
\* again (bake_compile_into_vindex, run_atomic_compile).
THEOREM PromotedAlwaysWhole ==
  ASSUME TiedApart
  PROVE  Spec => PromotedIsWhole
<1>1. AllInv /\ [Next]_vars =>
        [\A p \in Procs : pc[p] = "rename" /\ pc'[p] = "ok" /\ FirstExtract =>
           /\ \A f \in Files : \/ Output'[f] = Expected(job[p])[f]
                               \/ p \in left /\ Expected(job[p])[f] = None
           /\ index'[path'["out"]] # None]_vars
  <2> SUFFICES ASSUME AllInv, [Next]_vars, NEW p \in Procs, pc[p] = "rename", pc'[p] = "ok",
                      FirstExtract
               PROVE  /\ \A f \in Files : \/ Output'[f] = Expected(job[p])[f]
                                          \/ p \in left /\ Expected(job[p])[f] = None
                      /\ index'[path'["out"]] # None
    OBVIOUS
  <2>1. Rename(p)
    <3>1. ~UNCHANGED vars /\ ~Reextract
      BY DEF vars, Reextract
    <3>2. PICK q \in Procs : ProcStep(q)
      BY <3>1 DEF Next, ProcStep
    <3>3. q = p
      BY <3>2, OthersKept DEF AllInv
    <3>4. CASE Work(p)
      BY <3>4 DEF Work, SaveGate, LinkUnchanging, BakeDown, PatchGate, PatchUp, WriteIndex,
           ApplyMemit, SaveKnn, WriteModel, UpdateModelIndex, Step
    <3> QED
      BY <3>2, <3>3, <3>4 DEF ProcStep, Promote, Begin, Stage, StageOver, WorkFails, Cleanup,
         OpenFinal, Unlink, Rmdir, RemoveFails, RenameFails, Crash, Goto, AllInv, Inv, TypeOK
  <2>2. /\ path'["out"] = path[p] /\ path[p] \in Dirs
        /\ \A f \in Files : \/ Content(path["out"], f)' = Expected(job[p])[f]
                            \/ p \in left /\ Expected(job[p])[f] = None
        /\ IndexOf(job[p], path["out"])'
    BY <2>1, RenamePromotes DEF AllInv
  <2>3. path'["out"] # None
    BY <2>2, CompileAssumption
  <2>4. \A f \in Files : Output'[f] = Content(path["out"], f)'
    BY <2>3 DEF Output
  <2>6. index'[path'["out"]] # None
    BY <2>2 DEF IndexOf
  <2> QED  BY <2>2, <2>4, <2>6
<1> QED  BY <1>1, AllInvariant, PTL DEF Spec, PromotedIsWhole

\* What is in the output is of one statement, though processes compile into it at once
\* and fail or die, but for a KNN store that could not be removed (staging_dir_for,
\* rename).
THEOREM OutputAlwaysOfOneJob ==
  ASSUME TiedApart
  PROVE  Spec => []OutputOfOneJob
<1>1. AllInv => OutputOfOneJob
  <2> SUFFICES ASSUME AllInv, FirstExtract
               PROVE  \E j \in Jobs : \A f \in Files :
                        \/ Output[f] \in {None, Expected(j)[f]}
                        \/ Stuck /\ f = "knn" /\ \E k \in Jobs : Output[f] = Expected(k)[f]
    BY DEF OutputOfOneJob
  <2>1. CASE path["out"] = None
    BY <2>1, CompileAssumption DEF Output
  <2>2. CASE path["out"] # None
    <3>1. PICK j \in Jobs : \A f \in Files : \/ Content(path["out"], f) \in {None, Expected(j)[f]}
                                             \/ Stuck /\ f = "knn"
      BY <2>2 DEF AllInv, OutputInv
    <3>2. \A f \in Files : Output[f] = Content(path["out"], f)
      BY <2>2 DEF Output
    <3>3. path["out"] \in Dirs /\ "knn" \in Files
      BY <2>2 DEF AllInv, Inv, TypeOK, Names, Files
    <3>4. \/ Content(path["out"], "knn") = None
          \/ \E k \in Jobs : Content(path["out"], "knn") = Expected(k)["knn"]
      <4>1. \A k \in Jobs : Expected(k)["knn"] \in Contents \cup {None}
        BY <3>3 DEF Expected, Original, Contents
      <4> QED  BY <3>3, <4>1, CompileAssumption DEF AllInv, KeptInv, Content
    <3> QED  BY <3>1, <3>2, <3>3, <3>4
  <2> QED  BY <2>1, <2>2
<1> QED  BY <1>1, AllInvariant, PTL

\* The checksums of the output, if there are any, are those of its files, whoever compiled into it and
\* whatever was cut short, but for the file MEMIT wrote (compute_checksums).
THEOREM ChecksumsAlwaysMatch ==
  ASSUME TiedApart
  PROVE  Spec => []ChecksumsMatch
<1>1. AllInv => ChecksumsMatch
  <2> SUFFICES ASSUME AllInv, FirstExtract,
                      path["out"] # None, index[path["out"]] \notin {None, Empty},
                      NEW f \in Summed,
                      Output[f] # None, "memit" \notin Output[f].edits
               PROVE  Output[f] = index[path["out"]][f]
    BY DEF ChecksumsMatch
  <2>1. f \in Files /\ f # "knn"
    BY DEF Summed
  <2>2. PICK j \in Jobs : /\ \A g \in Files : \/ Content(path["out"], g) \in {None, Expected(j)[g]}
                                              \/ Stuck /\ g = "knn"
                          /\ IndexOf(j, path["out"])
    BY DEF AllInv, OutputInv
  <2>3. Output[f] = Expected(j)[f]
    BY <2>1, <2>2 DEF Output
  <2>4. ~(f = "down" /\ j.memit)
    <3> SUFFICES ASSUME f = "down", j.memit PROVE "memit" \in Expected(j)[f].edits
      BY <2>3
    <3>1. "down" \in SourceFiles
      BY CompileAssumption
    <3> QED  BY <2>1, <3>1 DEF Expected
  <2> QED  BY <2>2, <2>3, <2>4 DEF IndexOf
<1> QED  BY <1>1, AllInvariant, PTL

-----------------------------------------------------------------------------
(* What is baked stands. *)

\* A file the source does not have has no contents, so a link to it would have none.
NoOthers == \A f \in Files \ SourceFiles : store[f] = None

\* Every step keeps NoOthers: only the source is ever written through a link.
LEMMA OthersStay == Inv /\ SourceInv /\ NoOthers /\ [Next]_vars => NoOthers'
<1> SUFFICES ASSUME Inv, SourceInv, NoOthers, [Next]_vars PROVE NoOthers'
  OBVIOUS
<1>1. CASE UNCHANGED vars
  BY <1>1 DEF vars, NoOthers
<1>2. CASE Reextract
  BY <1>2 DEF Reextract, NoOthers
<1>3. ASSUME NEW p \in Procs, ProcStep(p) PROVE NoOthers'
  BY <1>3, OthersKept DEF NoOthers
<1> QED  BY <1>1, <1>2, <1>3 DEF Next, ProcStep

\* While the output is not being replaced, no step touches its directory: what is built is
\* built elsewhere, and only the removal of an old output unlinks entries.
LEMMA OutputUntouched ==
  ASSUME Inv, SourceInv, NEW p \in Procs, ProcStep(p), ~Replacing, path["out"] # None
  PROVE  slot'[path["out"]] = slot[path["out"]]
<1> DEFINE o == path["out"]
<1>1. p \in Names /\ p # "out" /\ "out" \in Names
  BY CompileAssumption DEF Names
<1>2. o \in Dirs /\ o # path[p]
  BY <1>1 DEF Inv, TypeOK, DirInv
<1>3. CASE Stage(p)
  <2>1. NewDir(p) # o
    BY <1>1, <1>2, <1>3, NewDirIs DEF Stage, Free
  <2> QED  BY <1>2, <1>3, <2>1 DEF Stage, Inv, TypeOK
<1>4. CASE Work(p)
  BY <1>2, <1>4 DEF Work, SaveGate, LinkUnchanging, BakeDown, PatchGate, PatchUp, Patch,
       WriteIndex, ApplyMemit, WriteInPlace, SaveKnn, WriteModel, UpdateModelIndex,
       Set, Dir, Staging, Step, Inv, TypeOK
<1>5. CASE Cleanup(p) \/ RenameFails(p)
  BY <1>2, <1>5, CutShortElsewhere DEF Cleanup, RenameFails, Scrub, Dir, Staging, Inv, TypeOK
<1>8. CASE StageOver(p)
  BY <1>2, <1>8, CutShortElsewhere DEF StageOver, Staging
<1>6. ~Unlink(p)
  BY DEF Replacing, Unlink
<1>7. CASE (\E j \in Jobs : Begin(p, j)) \/ WorkFails(p) \/ OpenFinal(p) \/ Rmdir(p)
           \/ RemoveFails(p) \/ Rename(p) \/ Crash(p)
  BY <1>7 DEF Begin, WorkFails, OpenFinal, Rmdir, RemoveFails, Rename, Crash
<1> QED  BY <1>3, <1>4, <1>5, <1>6, <1>7, <1>8 DEF ProcStep, Promote

\* An edited file of the output is the output's own: the source's files, to which its links
\* go, have no edits.
LEMMA EditedIsOwn ==
  ASSUME SourceInv, NoOthers, NEW d \in Dirs, NEW f \in Files,
         Content(d, f) # None, Content(d, f).edits # {}
  PROVE  slot[d][f] # Linked
<1> SUFFICES ASSUME slot[d][f] = Linked PROVE FALSE
  OBVIOUS
<1>1. f \in SourceFiles
  BY DEF Content, NoOthers
<1>2. store[f] \in {Original, Rewritten}
  BY <1>1 DEF SourceInv, SourceKept
<1> QED  BY <1>2 DEF Content, Original, Rewritten

\* What a compile baked into a file of the output stays until another compile replaces the
\* output, also when extract writes the source again, whose files the others of the output
\* are links to (copy_for_patch).
THEOREM BakedAlwaysStands ==
  ASSUME OutputApart, ModelsStartClean
  PROVE  Spec => BakedStands
<1>1. Inv /\ SourceInv /\ NoOthers /\ [Next]_vars =>
        [~Replacing => \A f \in Files : Output[f] # None /\ Output[f].edits # {}
                                          => Output'[f] = Output[f]]_vars
  <2> SUFFICES ASSUME Inv, SourceInv, NoOthers, [Next]_vars, ~UNCHANGED vars, ~Replacing,
                      NEW f \in Files, Output[f] # None, Output[f].edits # {}
               PROVE  Output'[f] = Output[f]
    OBVIOUS
  <2>1. path["out"] # None /\ path["out"] \in Dirs /\ path'["out"] = path["out"]
    BY DEF Output, Replacing, Inv, TypeOK, Names
  <2>2. slot[path["out"]][f] # Linked
    BY <2>1, EditedIsOwn DEF Output
  <2>3. slot'[path["out"]] = slot[path["out"]]
    <3>1. CASE Reextract
      BY <3>1 DEF Reextract
    <3>2. ASSUME NEW p \in Procs, ProcStep(p) PROVE slot'[path["out"]] = slot[path["out"]]
      BY <2>1, <3>2, OutputUntouched
    <3> QED  BY <3>1, <3>2 DEF Next, ProcStep
  <2> QED  BY <2>1, <2>2, <2>3 DEF Output, Content
<1>2. Inv /\ SourceInv /\ [Next]_vars => SourceInv'
  BY SourceStep
<1>3. Init => NoOthers
  BY DEF Init, NoOthers
<1>4. Spec => []Inv
  BY InvInit, InvStep, PTL DEF Spec
<1>5. Spec => []SourceInv
  BY <1>2, <1>4, SourceInit, PTL DEF Spec
<1>6. Spec => []NoOthers
  BY <1>3, <1>4, <1>5, OthersStay, PTL DEF Spec
<1> QED  BY <1>1, <1>4, <1>5, <1>6, PTL DEF Spec, BakedStands
==============================================================================

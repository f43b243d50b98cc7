---------------------------- MODULE RequestServer ----------------------------
(***************************************************************************)
(* Requests of larql-server over one model: the overlay everybody shares,  *)
(* the overlays of sessions, the lazily loaded weights and the caches      *)
(* (crates/larql-server/src/session.rs, state.rs, cache.rs,                *)
(* ffn_l2_cache.rs, routes/).                                              *)
(*                                                                         *)
(* Three read-write locks are taken in different orders: the weights       *)
(* (std::sync), the session map and the model's overlay (tokio::sync).     *)
(* Every request runs the handler of its kind once.  A critical section    *)
(* that takes no further lock is one action with its acquisition; a guard  *)
(* held while the handler waits for another lock, or for a forward pass,   *)
(* is held from action to action.  An edit is named by its request, and    *)
(* an overlay is the edits that show in it: its patches, its direct        *)
(* inserts and the vectors these left in the base.  walk-ffn is asked for  *)
(* one layer; each edit is on slots of its own (PatchOverlay has what      *)
(* edits of one slot do to each other), and the gates of the layer are on  *)
(* the heap, without which nothing is cached.                              *)
(***************************************************************************)
EXTENDS Naturals, Sequences, SequencesExt

CONSTANTS
  Requests,
  None,       \* the absent value of an Option
  Kind,       \* Kind[r]: the handler of request r
  Sid,        \* Sid[r]: its X-Session-Id header, None without one
  Removes,    \* Removes[r]: the patch a removal names
  Changes,    \* Changes[r]: what an edit does at the layer, any of "gate" (an override of
              \* a gate), "base" (of an up or down vector), "hit" (a tombstone on a hit)
  MinScore,   \* MinScore[r]: the min_score of a DESCRIBE, in tenths
  Timeout,    \* --infer-timeout is not 0
  TtlPasses   \* whether sessions may stay idle for longer than their time to live

ASSUME NoneAssumption ==
  /\ None \notin Requests
  /\ None \notin [patches: SUBSET Requests, direct: SUBSET Requests, vecs: SUBSET Requests]
  /\ None \notin [gates: SUBSET Requests, vecs: SUBSET Requests]
  /\ None \notin {"ok", "error", "timeout"}
  /\ None \notin {"weights", "sessions", "patched"} \X {"r", "w"}

VARIABLES
  pc,        \* where each request is
  line,      \* the requests that wait for a lock, in the order of their arrival
  holds,     \* the guards of each request
  loaded, loader, loads,   \* the weights cell, the holder of weights_init, the loads so far
  global,    \* the model's PatchedVindex
  session,   \* the session map
  expired,   \* the sessions that were not touched for their time to live
  clone,     \* the base a request cloned for a new session
  cached,    \* describe_cache: the question and the answer under each key
  l2,        \* ffn_l2_cache: under each key the vectors an output was computed with
  seen,      \* what a request read: its overlay, or its answer
  reply,     \* what the client got
  before     \* history: the edits in force for the client when it sent the request

lockVars == <<line, holds>>
weightVars == <<loaded, loader, loads>>
dataVars == <<global, session, expired, clone, cached, l2, seen>>
vars == <<pc, lockVars, weightVars, dataVars, reply, before>>

Sessions == {Sid[r] : r \in Requests} \ {None}

-----------------------------------------------------------------------------
(* Overlays *)

Empty == [patches |-> {}, direct |-> {}, vecs |-> {}]

\* The edits that do some change at the layer.
Changing(edits, change) == {e \in edits : change \in Changes[e]}

\* Up and down vectors go to the base, the rest stays in the overlay.
Patched(o, r) ==
  [patches |-> o.patches \cup {r}, direct |-> o.direct, vecs |-> o.vecs \cup Changing({r}, "base")]

Inserted(o, r) ==
  [patches |-> o.patches, direct |-> o.direct \cup {r}, vecs |-> o.vecs \cup Changing({r}, "base")]

\* remove_patch rebuilds the maps from the patches that are left.
Without(o, p) == [patches |-> o.patches \ {p}, direct |-> {}, vecs |-> o.vecs]

\* PatchedVindex::new(base().clone()): the base has the vectors of the edits.
Fresh(o) == [patches |-> {}, direct |-> {}, vecs |-> o.vecs]

Edits(o) == o.patches \cup o.direct

-----------------------------------------------------------------------------
(* Locks *)

\* The lock and the mode that a request waits for, by where it is.
Want(r) ==
  CASE pc[r] = "weights"  -> <<"weights", IF Kind[r] = "generate" THEN "w" ELSE "r">>
    [] pc[r] = "sessions" -> <<"sessions", IF Kind[r] = "infer" THEN "r" ELSE "w">>
    [] pc[r] = "patched"  -> <<"patched", IF Kind[r] \in {"apply", "remove"} THEN "w" ELSE "r">>
    [] pc[r] = "clone"    -> <<"patched", "r">>
    [] pc[r] = "commit"   -> <<IF Sid[r] = None THEN "patched" ELSE "sessions", "w">>
    [] OTHER              -> None

Compatible(m, n) == m = "r" /\ n = "r"

\* What keeps r from its lock: guards it cannot share, and those who wait before it.
\* tokio's lock is a queue; the standard one lets no reader in while a writer waits.
Ahead(r) ==
  LET at == SelectInSeq(line, LAMBDA q : q = r)
  IN IF Want(r)[1] = "weights"
     THEN IF Want(r)[2] = "r" THEN {q \in Range(line) : Want(q) = <<"weights", "w">>} ELSE {}
     ELSE {line[i] : i \in {j \in 1 .. at - 1 : Want(line[j])[1] = Want(r)[1]}}

Blockers(r) ==
  {q \in Requests : \E g \in holds[q] : g[1] = Want(r)[1] /\ ~Compatible(g[2], Want(r)[2])}
  \cup Ahead(r)

Waiting(r) == r \in Range(line)

\* The request asks for its lock.
Ask(r) ==
  /\ Want(r) # None /\ ~Waiting(r)
  /\ line' = Append(line, r)
  /\ UNCHANGED <<pc, holds, weightVars, dataVars, reply, before>>

\* It gets it and goes on with some guards.
Take(r, guards) ==
  /\ Waiting(r) /\ Blockers(r) = {}
  /\ line' = RemoveFirst(line, r)
  /\ holds' = [holds EXCEPT ![r] = guards]

Goto(r, label) == pc' = [pc EXCEPT ![r] = label]

Answer(r, what) == reply' = [reply EXCEPT ![r] = IF @ = None THEN what ELSE @]

\* The handler returns: its guards are dropped.
Done(r) ==
  /\ Goto(r, "done")
  /\ Answer(r, "ok")

-----------------------------------------------------------------------------
(* A request comes in *)

Overlay(s) == IF s = None THEN global ELSE IF session[s] = None THEN Empty ELSE session[s]

\* The first thing a handler does, apart from checks that change nothing.
Entry(r) ==
  CASE Kind[r] \in {"infer", "generate", "walk"} -> "cell"
    [] Kind[r] = "q8k" -> "patched"
    [] Kind[r] = "describe" -> "lookup"
    [] OTHER -> IF Sid[r] = None THEN "patched" ELSE "sessions"

Arrive(r) ==
  /\ pc[r] = "idle"
  /\ Goto(r, Entry(r))
  /\ before' = [before EXCEPT ![r] = {e \in Edits(Overlay(Sid[r])) : reply[e] = "ok"}]
  /\ UNCHANGED <<lockVars, weightVars, dataVars, reply>>

\* run_infer_with_timeout answers 504 and leaves the thread to itself.
TimesOut(r) ==
  /\ Timeout /\ Kind[r] = "infer"
  /\ pc[r] \notin {"idle", "done"} /\ reply[r] = None
  /\ Answer(r, "timeout")
  /\ UNCHANGED <<pc, lockVars, weightVars, dataVars, before>>

-----------------------------------------------------------------------------
(* The weights *)

\* The fast path of ensure_weights_cell.
EnsureCell(r) ==
  /\ pc[r] = "cell"
  /\ Goto(r, IF loaded THEN "weights" ELSE "init")
  /\ UNCHANGED <<lockVars, weightVars, dataVars, reply, before>>

\* Mutant of LockInit: the cell is not looked at again under the mutex.
LockInitOnly(r) ==
  /\ pc[r] = "init" /\ loader = None
  /\ loader' = r
  /\ Goto(r, "loading")
  /\ UNCHANGED <<lockVars, loaded, loads, dataVars, reply, before>>

\* weights_init is free: the cell is looked at again.
LockInit(r) ==
  /\ pc[r] = "init" /\ loader = None
  /\ IF loaded THEN Goto(r, "weights") /\ UNCHANGED loader
     ELSE Goto(r, "loading") /\ loader' = r
  /\ UNCHANGED <<lockVars, loaded, loads, dataVars, reply, before>>

Load(r) ==
  /\ pc[r] = "loading"
  /\ loaded' = TRUE /\ loads' = loads + 1 /\ loader' = None
  /\ Goto(r, "weights")
  /\ UNCHANGED <<lockVars, dataVars, reply, before>>

\* It may fail, and so does the request; an insert goes on without residuals.
LoadFails(r) ==
  /\ pc[r] = "loading"
  /\ loader' = None /\ UNCHANGED <<loaded, loads>>
  /\ IF Kind[r] = "insert"
     THEN Goto(r, "residuals") /\ UNCHANGED <<holds, reply>>
     ELSE Goto(r, "done") /\ Answer(r, "error") /\ holds' = [holds EXCEPT ![r] = {}]
  /\ UNCHANGED <<line, dataVars, before>>

\* A generation needs the overlay next, walk-ffn too; an insert may compute.
TakeWeights(r) ==
  /\ pc[r] = "weights"
  /\ Take(r, holds[r] \cup {Want(r)})
  /\ Goto(r, CASE Kind[r] = "infer" -> IF Sid[r] = None THEN "patched" ELSE "sessions"
               [] Kind[r] \in {"generate", "walk"} -> "patched"
               [] Kind[r] = "q8k" -> "pass"
               [] OTHER -> "residuals")
  /\ UNCHANGED <<weightVars, dataVars, reply, before>>

-----------------------------------------------------------------------------
(* infer, generate, walk-ffn, q8k *)

Guards(r, g) == holds[r] \cup {g}

Reads(r, what) == seen' = [seen EXCEPT ![r] = what]

\* The session, or, when there is none, the shared overlay.
InferSession(r) ==
  /\ Kind[r] = "infer" /\ pc[r] = "sessions"
  /\ IF session[Sid[r]] # None
     THEN /\ Take(r, Guards(r, Want(r)))
          /\ Reads(r, [overlay |-> session[Sid[r]], stale |-> Sid[r] \in expired])
          /\ Goto(r, "pass")
     ELSE Take(r, holds[r]) /\ Goto(r, "patched") /\ UNCHANGED seen
  /\ UNCHANGED <<weightVars, global, session, expired, clone, cached, l2, reply, before>>

\* What an output depends on: the gates of the overlay and the vectors in its base.
\* Metadata does not show, nor do tombstones where nothing overrides a vector: the
\* whole-layer paths read the base.
Vectors(o) == [gates |-> Changing(Edits(o), "gate"), vecs |-> o.vecs]

\* Mutant of CachesOutput: the vectors in the base, which outlive their patch, do not count.
CachesUnlessGates == Vectors(global).gates = {}

\* The output cache is passed over while the layer has overrides, in the overlay or
\* in its base; the tombstones do not count.
CachesOutput == Vectors(global) = [gates |-> {}, vecs |-> {}]

\* The key is the hits of gate_knn, of which tombstones take some away.
HitsKey(o) == Changing(Edits(o), "hit")

Keys == SUBSET Changing(Requests, "hit")

\* walk-ffn: a cached output is used, else the output of now is computed and kept.
Output ==
  IF CachesOutput /\ l2[HitsKey(global)] # None THEN l2[HitsKey(global)] ELSE Vectors(global)

ReadPatched(r) ==
  /\ Kind[r] \in {"infer", "generate", "walk", "q8k"} /\ pc[r] = "patched"
  /\ Take(r, Guards(r, Want(r)))
  /\ IF Kind[r] = "walk"
     THEN /\ Reads(r, Output)
          /\ l2' = IF CachesOutput THEN [l2 EXCEPT ![HitsKey(global)] = Output] ELSE l2
     ELSE Reads(r, [overlay |-> global, stale |-> FALSE]) /\ UNCHANGED l2
  /\ Goto(r, IF Kind[r] = "q8k" THEN "cell" ELSE "pass")
  /\ UNCHANGED <<weightVars, global, session, expired, clone, cached, reply, before>>

\* The end of a forward pass.
EndPass(r) ==
  /\ pc[r] = "pass"
  /\ Done(r)
  /\ holds' = [holds EXCEPT ![r] = {}]
  /\ UNCHANGED <<line, weightVars, dataVars, before>>

-----------------------------------------------------------------------------
(* Edits *)

Touch(s) == expired' = expired \ {s}

\* apply_patch and remove_patch on the shared overlay.
EditGlobal(r) ==
  /\ Kind[r] \in {"apply", "remove"} /\ pc[r] = "patched"
  /\ Take(r, {})
  /\ IF Kind[r] = "remove" /\ Removes[r] \notin global.patches
     THEN Goto(r, "done") /\ Answer(r, "error") /\ UNCHANGED global
     ELSE /\ global' = IF Kind[r] = "apply" THEN Patched(global, r) ELSE Without(global, Removes[r])
          /\ Done(r)
  /\ UNCHANGED <<weightVars, session, expired, clone, cached, l2, seen, before>>

\* SessionManager::apply_patch, fast path; without the session it goes on to clone the base.
ApplySession(r) ==
  /\ Kind[r] = "apply" /\ pc[r] = "sessions"
  /\ Take(r, {})
  /\ IF session[Sid[r]] # None
     THEN /\ session' = [session EXCEPT ![Sid[r]] = Patched(@, r)]
          /\ Touch(Sid[r])
          /\ Done(r)
     ELSE Goto(r, "clone") /\ UNCHANGED <<session, expired, reply>>
  /\ UNCHANGED <<weightVars, global, clone, cached, l2, seen, before>>

\* Mutant of CloneBase: apply_patch keeps its guard of the shared overlay.
CloneBaseHeld(r) ==
  /\ pc[r] = "clone"
  /\ Take(r, IF Kind[r] = "apply" THEN {Want(r)} ELSE holds[r])
  /\ IF Kind[r] = "apply"
     THEN clone' = [clone EXCEPT ![r] = Fresh(global)] /\ Goto(r, "commit") /\ UNCHANGED session
     ELSE session' = [session EXCEPT ![Sid[r]] = Fresh(global)] /\ Goto(r, "cell") /\ UNCHANGED clone
  /\ UNCHANGED <<weightVars, global, expired, cached, l2, seen, reply, before>>

\* The base is cloned under a read guard of its own; run_insert does so with the
\* session map locked.
CloneBase(r) ==
  /\ pc[r] = "clone"
  /\ Take(r, holds[r])
  /\ IF Kind[r] = "apply"
     THEN clone' = [clone EXCEPT ![r] = Fresh(global)] /\ Goto(r, "commit") /\ UNCHANGED session
     ELSE session' = [session EXCEPT ![Sid[r]] = Fresh(global)] /\ Goto(r, "cell") /\ UNCHANGED clone
  /\ UNCHANGED <<weightVars, global, expired, cached, l2, seen, reply, before>>

\* Mutant of CommitSession: the clone replaces a session that came into being meanwhile.
CommitOver(r) ==
  /\ Kind[r] = "apply" /\ pc[r] = "commit"
  /\ Take(r, {})
  /\ session' = [session EXCEPT ![Sid[r]] = Patched(clone[r], r)]
  /\ Touch(Sid[r])
  /\ Done(r)
  /\ UNCHANGED <<weightVars, global, clone, cached, l2, seen, before>>

\* Slow path: entry().or_insert_with.
CommitSession(r) ==
  /\ Kind[r] = "apply" /\ pc[r] = "commit"
  /\ Take(r, {})
  /\ session' = [session EXCEPT ![Sid[r]] = Patched(IF @ = None THEN clone[r] ELSE @, r)]
  /\ Touch(Sid[r])
  /\ Done(r)
  /\ UNCHANGED <<weightVars, global, clone, cached, l2, seen, before>>

RemoveSession(r) ==
  /\ Kind[r] = "remove" /\ pc[r] = "sessions"
  /\ Take(r, {})
  /\ LET s == Sid[r]
     IN IF session[s] # None /\ Removes[r] \in session[s].patches
        THEN session' = [session EXCEPT ![s] = Without(@, Removes[r])] /\ Done(r)
        ELSE Goto(r, "done") /\ Answer(r, "error") /\ UNCHANGED session
  /\ UNCHANGED <<weightVars, global, expired, clone, cached, l2, seen, before>>

\* run_insert: the session map stays locked to the end, the shared overlay only
\* while the residuals are computed.
InsertBegins(r) ==
  /\ Kind[r] = "insert" /\ pc[r] \in {"sessions", "patched"}
  /\ Take(r, {Want(r)})
  /\ Goto(r, IF Sid[r] # None /\ session[Sid[r]] = None THEN "clone" ELSE "cell")
  /\ expired' = expired \ {Sid[r]}
  /\ UNCHANGED <<weightVars, global, session, clone, cached, l2, seen, reply, before>>

InsertComputed(r) ==
  /\ pc[r] = "residuals"
  /\ IF Sid[r] # None
     THEN /\ session' = [session EXCEPT ![Sid[r]] = Inserted(@, r)]
          /\ Done(r)
     ELSE Goto(r, "commit") /\ UNCHANGED <<session, reply>>
  /\ holds' = [holds EXCEPT ![r] = {}]
  /\ UNCHANGED <<line, weightVars, global, expired, clone, cached, l2, seen, before>>

InsertGlobal(r) ==
  /\ Kind[r] = "insert" /\ pc[r] = "commit"
  /\ Take(r, {})
  /\ global' = Inserted(global, r)
  /\ Done(r)
  /\ UNCHANGED <<weightVars, session, expired, clone, cached, l2, seen, before>>

-----------------------------------------------------------------------------
(* describe *)

\* The key has min_score as u32.
CacheKey(r) == MinScore[r] \div 10

LookUp(r) ==
  /\ pc[r] = "lookup"
  /\ IF cached[CacheKey(r)] # None
     THEN Reads(r, cached[CacheKey(r)]) /\ Done(r)
     ELSE Goto(r, "patched") /\ UNCHANGED <<seen, reply>>
  /\ UNCHANGED <<lockVars, weightVars, global, session, expired, clone, cached, l2, before>>

\* The answer is computed from the shared overlay, whatever the session.
Describe(r) ==
  /\ Kind[r] = "describe" /\ pc[r] = "patched"
  /\ Take(r, {})
  /\ Reads(r, [overlay |-> global, score |-> MinScore[r]])
  /\ Goto(r, "put")
  /\ UNCHANGED <<weightVars, global, session, expired, clone, cached, l2, reply, before>>

Put(r) ==
  /\ pc[r] = "put"
  /\ cached' = [cached EXCEPT ![CacheKey(r)] = seen[r]]
  /\ Done(r)
  /\ UNCHANGED <<lockVars, weightVars, global, session, expired, clone, l2, seen, before>>

-----------------------------------------------------------------------------

\* An entry of describe_cache outlives its time to live.
CacheExpires ==
  /\ \E k \in DOMAIN cached : cached[k] # None /\ cached' = [cached EXCEPT ![k] = None]
  /\ UNCHANGED <<pc, lockVars, weightVars, global, session, expired, clone, l2, seen, reply, before>>

\* A session is not touched for as long as sessions live; nothing evicts it.
SessionIdles ==
  /\ TtlPasses
  /\ \E s \in Sessions : session[s] # None /\ expired' = expired \cup {s}
  /\ UNCHANGED <<pc, lockVars, weightVars, global, session, clone, cached, l2, seen, reply, before>>

Step(r) ==
  \/ Ask(r) \/ EnsureCell(r) \/ LockInit(r) \/ Load(r) \/ LoadFails(r) \/ TakeWeights(r)
  \/ InferSession(r) \/ ReadPatched(r) \/ EndPass(r)
  \/ EditGlobal(r) \/ ApplySession(r) \/ CloneBase(r) \/ CommitSession(r) \/ RemoveSession(r)
  \/ InsertBegins(r) \/ InsertComputed(r) \/ InsertGlobal(r)
  \/ LookUp(r) \/ Describe(r) \/ Put(r)

Init ==
  /\ pc = [r \in Requests |-> "idle"]
  /\ line = <<>>
  /\ holds = [r \in Requests |-> {}]
  /\ loaded = FALSE /\ loader = None /\ loads = 0
  /\ global = Empty
  /\ session = [s \in Sessions |-> None]
  /\ expired = {}
  /\ clone = [r \in Requests |-> None]
  /\ cached = [k \in {CacheKey(r) : r \in Requests} |-> None]
  /\ l2 = [k \in Keys |-> None]
  /\ seen = [r \in Requests |-> None]
  /\ reply = [r \in Requests |-> None]
  /\ before = [r \in Requests |-> {}]

AllDone == \A r \in Requests : pc[r] \in {"idle", "done"}

Next ==
  \/ \E r \in Requests : Arrive(r) \/ Step(r) \/ TimesOut(r)
  \/ CacheExpires
  \/ SessionIdles
  \/ AllDone /\ UNCHANGED vars

Spec == Init /\ [][Next]_vars

-----------------------------------------------------------------------------
(* Properties *)

Labels == {"idle", "cell", "init", "loading", "weights", "sessions", "patched", "clone",
           "commit", "residuals", "lookup", "put", "pass", "done"}

Guard == {"weights", "sessions", "patched"} \X {"r", "w"}

Overlays == [patches: SUBSET Requests, direct: SUBSET Requests, vecs: SUBSET Requests]

Outputs == [gates: SUBSET Requests, vecs: SUBSET Requests]

Descriptions == [overlay: Overlays, score: {MinScore[r] : r \in Requests}]

TypeOK ==
  /\ pc \in [Requests -> Labels]
  /\ line \in Seq(Requests) /\ IsInjective(line)
  /\ \A r \in Range(line) : Want(r) # None
  /\ holds \in [Requests -> SUBSET Guard]
  /\ loaded \in BOOLEAN /\ loader \in Requests \cup {None} /\ loads \in Nat
  /\ global \in Overlays
  /\ session \in [Sessions -> Overlays \cup {None}]
  /\ expired \subseteq Sessions
  /\ clone \in [Requests -> Overlays \cup {None}]
  /\ cached \in [{CacheKey(r) : r \in Requests} -> Descriptions \cup {None}]
  /\ l2 \in [Keys -> Outputs \cup {None}]
  /\ seen \in [Requests -> Descriptions \cup Outputs \cup [overlay: Overlays, stale: BOOLEAN] \cup {None}]
  /\ reply \in [Requests -> {None, "ok", "error", "timeout"}]
  /\ before \in [Requests -> SUBSET Requests]

\* The weights are loaded at most once, whoever comes first and whatever fails
\* ("single-flight the load": two loads at a time exhaust the memory).
LoadedOnce == loads <= 1

\* A removal that names the patch e was answered.
Removed(e) == \E q \in Requests : Kind[q] = "remove" /\ Removes[q] = e /\ reply[q] = "ok"

\* A patch whose request was answered stays in its overlay until a removal names it:
\* no session that two requests create at the same time swallows one of their patches.
AckedPatchStays ==
  \A r \in Requests :
    Kind[r] = "apply" /\ reply[r] = "ok" => r \in Overlay(Sid[r]).patches \/ Removed(r)

\* What a client's inference runs on has every patch that was acknowledged, for its
\* session, before it was sent and that nobody has removed since.
InferSeesItsPatches ==
  \A r \in Requests :
    Kind[r] = "infer" /\ reply[r] = "ok" =>
      \A e \in before[r] : Kind[e] = "apply" => e \in seen[r].overlay.patches \/ Removed(e)

\* Each in its types, sessions keep what their client was told: no patch that was
\* acknowledged is lost (SessionManager::apply_patch), and every inference has them
\* all (run_infer).
SessionsKept == TypeOK /\ AckedPatchStays /\ InferSeesItsPatches

\* walk-ffn answers with the vectors that are in force while it holds the overlay,
\* whether or not the output comes from the cache (walk_ffn/core.rs): the cache is not
\* emptied by a patch or its removal, and is used again when no override is left.
CachedIsCurrent ==
  \A r \in Requests : Kind[r] = "walk" /\ pc[r] = "pass" => seen[r] = Vectors(global)
=============================================================================

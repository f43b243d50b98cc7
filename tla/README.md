# LARQL in TLA+

A verification project for LARQL, a Rust workspace that stores transformer models as
queryable "vindex" files, edits them with a query language, and serves them layer range by
layer range. The modules model the parts that keep state which several actors, several
steps or several runs share:

* the **self-assembling grid**: a router (`crates/larql-router`) and shard servers
  (`crates/larql-server`) that find each other over gRPC streams, replicate layer ranges,
  drain, evict and re-form; and the **dispatch** of a request over it;
* the **request server**: locks, sessions, caches and the rate limiter in front of a model;
* the **vindex**: patch overlay, retrieval-override store, LQL session, the streaming
  extract with its checkpoint, and COMPILE;
* the **spin pool** that the CPU kernels run on;
* the **knowledge graph**: its indexes, its path search, and the extraction search with its
  log.

Check a run with `tlc -workers 2 -config <run>.cfg <MC module>`, the proofs with
`tlapm <module>.tla`. `PROJECT.json` lists the runs, the mutants, the source lines every
definition stands for, the findings, the hazards and the theorems.

## Inventory

### The grid (modelled)

| component | state | operations | talks to |
|---|---|---|---|
| grid state (`larql-router/src/grid/{mod,replication,status,hot_shard,routing}.rs`) | `servers`, `serving_senders`, `route_table`, `any_model_table`, `available_servers`, `elevated_ranges`, all behind one `RwLock` | register, deregister, update_heartbeat, rebuild index, try_assign_gap, try_fill_all_gaps, try_replicate_from_available, elevate/demote | called by the next three |
| grid service (`grid/service.rs`) | per stream: `registered_model`, `is_available`, position in the handler | one arm per message, the clean-up when the stream ends, `drain_server`, `assign_range` | the server at the other end, the grid state |
| rebalancer (`tasks/rebalancer/`) | position in the tick, `stale` ids, chosen victims, `ImbalanceTracker.first_seen` | eviction, hot shards, under- and over-replication, imbalance | the grid state, `try_send` to servers |
| announce loops (`larql-server/src/announce.rs`) | mode, drain, current assignment | connect, announce, heartbeat task, receive loops of Mode A and Mode B, drain, reconnect | the router, the shard loader |
| shard loader (`larql-server/src/shard_loader.rs`) | the shard store on disk | download, verify, unpack, rename | origin servers |
| protocol (`larql-router-protocol/proto/grid.proto`) | messages in flight | ‑ | ‑ |

What is hard there: every handler that releases the lock and takes it again works on what
it read before (the gap list of `Available`, the stale ids, the victims of a tick); the
`Ack` is sent outside the lock that registered the server; a stream carries the end of one
role and the start of the next (`Dropping`, then `Available`), with a heartbeat task still
writing to it; a spare leaves the pool before the send to it is known to work; streams
break, routers restart, heartbeats come late. What makes it correct: a server that is gone
is not routed to and not assigned; a spare is used for one shard at a time and registered
only after it loaded one; the layer index says what the servers map says; drains end;
elevation follows the request rate; the grid re-forms when the trouble is over.

### Around one model (modelled)

| component | state | operations | talks to |
|---|---|---|---|
| HTTP dispatch (`larql-router/src/{http,dispatch,shards}.rs`, `grid/routing.rs`) | per request: routes, hedge targets, parts; shared: the grid state, round-trip times | routes, shed or fall back to static shards, fan out, hedge, merge, proxy | grid state (read lock), shards over HTTP |
| request server (`larql-server/src/{state,session,cache,ffn_l2_cache}.rs`, `routes/`) | weights behind a `std` lock and a once-cell, session map and shared overlay behind tokio locks, two caches | infer, completions, walk-ffn, walk-ffn-q8k, insert, patch, remove, describe | overlays, retrieval store |
| rate limiter (`larql-server/src/ratelimit.rs`) | a token bucket for each address | check | ‑ |
| patch overlay (`larql-vindex/src/patch/overlay*.rs`) | base, patches, overrides, cached gate matrices | apply, remove, insert, update, delete, bake, query | retrieval store |
| retrieval store (`patch/knn_store.rs`) | entries, key matrices and dirty marks behind two mutexes | add, remove, query | ‑ |
| LQL session (`larql-lql/src/executor/`) | overlay, recording, residuals of installed slots | INSERT, DELETE, UPDATE, MERGE, REBALANCE, BEGIN/SAVE/APPLY/REMOVE PATCH, COMPACT MINOR, USE | overlay |
| streaming extract (`larql-vindex/src/extract/`) | the files of the output, the checkpoint | one stage after the other, resume | the file system |
| compile (`larql-lql/.../lifecycle/compile/`) | staging directory, output, hard links to the source | link, copy, edit, checksum, promote | the file system, other processes |
| spin pool (`larql-compute/src/cpu/spin_pool.rs`) | epoch, closure, counters, panic flag, all atomics | for_each_chunk, worker loop, drop | worker threads |
| knowledge graph (`larql-core`) | edges, three indexes of positions, cached nodes | add, insert, remove, deduplicate, merge, nodes | ‑ |
| path search (`larql-core/src/algo/shortest_path.rs`) | costs, predecessors, heap | pop, relax | graph |
| extraction search (`larql-core/src/engine/bfs.rs`, `io/checkpoint.rs`, `larql-cli/.../bfs_cmd.rs`) | queue, visited, graph, the log and the output on disk | probe, append, save, resume | a model over HTTP |

What is hard there: what a lock showed is used after it was released (routes and hedge
targets; overlay and weights taken in different orders); a timeout answers the client and
not the thread; two mutexes are taken one after the other; a removal has to undo exactly
what a patch did; a process dies between any two file operations, or the power does; two
processes use one directory, and a hard link is shared with the source; a worker that had
nothing to do in one call is on its way when the next one begins; an append-only log is
torn.

What makes them correct is under [The properties](#the-properties).

### Components that are not modelled

* **KV engines** (`larql-kv`): window and checkpoint bookkeeping around tensor arithmetic;
  what the engines promise is numerical equality, which TLC cannot express.
* **Boundary gate** (`larql-boundary`): pure functions of floating-point scores.
* **Inference and tensor kernels** (`larql-inference`, `larql-compute*`, `larql-models`,
  `model-compute`, `larql-experts`): floating point and GPU code, out of TLC's reach. Their
  thread pool is modelled; the remote expert stream is not.
* **Command line, Python bindings, knowledge pipelines**: glue and offline scripts (the
  commands that drive a modelled part are in its module).

## Modules

```
GridOps      pure operators: replica counts, origins, coverage gaps, hot slices, imbalance, index
GridNet      the Join streams: messages, bounded channels, hang-up
GridRouter   EXTENDS GridNet: grid state, stream tasks, rebalancer tick, admin calls, restart
GridServer   EXTENDS GridNet: announce loops of the server processes, shard store
Grid         EXTENDS both: joins them, adds the disturbances, fairness and the properties
SpareOffer   abstract: what the grid promises about a spare server's offer
GridInvariant EXTENDS Grid: the inductive invariant of a stream's offer protocol
GridClaims   EXTENDS GridInvariant: a sentence of the docs that the code does not keep
MCGrid       EXTENDS GridClaims: values for the .cfg files
MCRebalance  EXTENDS MCGrid: three instances of the grid in one run
MCLiveness   EXTENDS MCGrid: two fair instances of the grid in one run
GridProofs   EXTENDS GridInvariant, TLAPS: types, the layer index and the offer protocol, proved

Dispatch     one request through the router, the topology changing under it   DispatchProofs
RequestServer  the handlers that take locks over one model   ServerProofs
RateLimit    the token bucket                         ServerProofs
KnnStore     the retrieval-override store             LqlProofs
PatchOverlay EXTENDS KnnStore: patches and edits over a base   LqlProofs
LqlSession   EXTENDS PatchOverlay: the mutating statements of a session   LqlProofs
Extract      the stages, the checkpoint, crashes      ExtractProofs
Compile      staging, links, promotion                CompileProofs
SpinPool     the pool, one step per atomic operation  SpinPoolProofs
ForEachChunk abstract: what a call of the pool promises
KnowledgeGraph the graph and merge                    KnowledgeProofs
TripleMap    abstract: a map of triples
PathSearch   Dijkstra and A*, compared with a reference distance   KnowledgeProofs
BfsExtract   the extraction search, its log and --resume   KnowledgeProofs
```

The `MC...` modules have the values of the `.cfg` files: `MCDispatch`, `MCRequestServer`
(with `RateLimit`), `MCLql` (the store, the overlay and the session), `MCExtract`,
`MCCompile`, `MCSpinPool` and `MCGraph` (the graph, the extraction and the path search).
`LqlSession` composes the statements with the overlay they change, `Grid` the router with the
servers; `SpinPool` implements `ForEachChunk`, `KnowledgeGraph` implements `TripleMap` and
`Grid` implements `SpareOffer`.

**Several instances in one run.** Where one component needs several small instances, its MC
module makes them with `INSTANCE ... WITH` and a variable (`instance`, `part`, `mix`, `use`)
that is chosen in the initial state and never changes says which of them runs. The instances
are the modules themselves, and differ in how many servers, requests, statements, keys, runs or
faults there are (`MCLiveness` and `MCRequestServer` confine the module's own `Next` instead:
who takes part, and which disturbances there are). So the safety properties of the runs are the
modules' own, and the theorems are about the formulas that the runs check. A liveness property
that needs the fairness of one part says so (`instance = "hedged" /\ ... ~> ...`).

### Correspondence: the grid

A **stream slot** `s` is a `server_id`: the router gives every `Join` call a new one. A
slot is used again only when no part of the model mentions it (`link[s] = "free"` and
`Forgotten(s)`), so reuse is never observable; ids are unique here (see the last section).

**Steps are critical sections.** What the router does under one acquisition of the
`GridState` lock is one action, and a handler that takes the lock three times is three
actions with other tasks in between: `HandleAvailable`, `ScanGaps`, `TryGap` (once per gap),
`UseSpare`; `EvictRead`, `EvictWrite`; `PlanOverReplication`, `SendOverReplication`;
`PlanImbalance`, `SendImbalance`; `CloseServing`, `CloseSpare`. `HandleAnnounce` and
`HandleReady` end before the `Ack`, which `SendAck` sends outside the lock. `TellVictim`
and `DrainServer` look the sender up and `try_send` in one step: the sender they hold
belongs to a stream, so doing it in two would only delay the message.

**Iteration over a `HashMap`** has no order. Where the code takes "the first" that fits, an
operator returns the set of all answers and the action picks one: the origin of an
assignment, the spare, the least-loaded victim among equals, the end that
`coverage_gaps` sees when two ranges start at the same layer. `Placements` describes the
whole loop over `try_assign_gap` at once: as many slices as there are spares, taken in
sorted order (within a model for gaps; models themselves are in map order).

**Channels.** Both directions are `mpsc` channels of 32 messages in front of an HTTP/2
stream: ordered, reliable, and cut at some point when the connection dies (`Hangup` keeps
any prefix of what was sent up). `try_send` on a full channel drops the message
(`Pushed`), `send().await` waits for room. A send to a stream whose server is gone may
succeed or fail, as the receiver may or may not have been dropped: both are allowed.
`Cap` stands for 32.

**Server processes.** `pc` is the position in the announce loop; a process keeps only its
shard store across turns. `Connect` is the connection set-up and the first message; the
backoff has no duration. `SendHeartbeat` is the heartbeat task, which goes on through the
drain until it is aborted after `DroppingMsg`. A load succeeds when the shard directory
exists or the hash is one the loader can verify; an announce's 16-digit identity hash is
never the SHA-256 of the tar, so an assignment that carries it to a server without the
shard is refused. That is what the code does, and `LoadSucceeds` says it.

**Data left out.** Listen URLs, CPU and memory in use, round-trip times, the range named in
an `UnassignMsg` (the server only logs it), metrics and logs. A latency is a number of
milliseconds or none; model ids are numbers in string order. Whether an imbalance was
"sustained" is a nondeterministic choice among the layers recorded by an earlier tick. Time
is `Lapse`: the last heartbeat of a server is now too old.

**Disturbances** (`Disturb` in `Grid`): a fault or crash of a server's stream, a lapse, a
router restart, an operator's drain and assignment. Each has a budget.

### Correspondence: the rest

**Dispatch.** One action per acquisition of the grid's lock and per reply. A server may
leave, join, crash or restart between any two. Requests share nothing but counters, so one
request at a time is enough. A server stands for its URL; the answers of larql-server to a
body it refuses are part of the model, because the merge keeps them.

**RequestServer.** A critical section that takes no further lock is one action with its
acquisition; a guard held while the handler waits is held from action to action. `line`
is the FIFO queue of a tokio lock, in which a waiting writer stops later readers; std's
lock may let a reader wait behind a writer too. An overlay is the set of the edits that
show in it, an edit is named by its request, and `Changes` says what it changes for the layer
that is walked: its gate vectors (`gate`), its up and down vectors, which a removal leaves in
the base (`base`), what the walk hits (`hit`), or nothing of these. A walk passes the L2
cache over when the layer has overridden vectors (`has_overrides_at`) and reads it by what the
gates hit. The forward pass is a step that ends.

**KnnStore, PatchOverlay, LqlSession.** A gate vector is its score against one query,
metadata its c_score. Mutators take `&mut self` and exclude readers; `query_knn` takes
`&self` and its two mutexes one after the other. A statement that names layer and feature
acts on that slot whatever the base has there, which is how a fact inserted into a free slot
is deleted or updated. `rebuild_overrides` replays the patches
that are left, one action per operation. Entities and relations are reduced to the keys and
values they resolve to; what a forward pass computes is any value.

**Extract, Compile.** A file is known by who wrote it and how much of it is there. Every
step that creates, renames, links or removes is an action, and a run may end before each
(an error, a kill; in `Extract` also a power cut, which tears what was not synced). A
rename is durable. One file stands for those that are treated alike. Removals whose error
the code ignores may fail: that of the gate file (`RemoveGate`) and, where `Stuck`, that of a
staging directory, which leaves any part of it (`Remains`) to the next statement of that pid
or to whoever looks. An extract whose checksums cannot be computed finishes without any. In
`Compile` a directory entry is a hard link to the source or a file of its own; several
processes have distinct pids, which are used again after their end. A statement's up edits
are written only if the weight manifest names them (`listed`, `Baked`).

**SpinPool.** Every load, store and read-modify-write is one step, in one order of all
steps. A closure is the number of its call; `data` and `tramp` point at it. A body may
panic or dispatch on the same pool. A call may have any number of chunks; a worker that had
none in a call is not waited for, and `late` has those that were on their way when the call
at hand replaced the one they woke up for. What a late worker does is modelled in full: it
loads whatever the fields hold, calls what they point at, and counts.

**KnowledgeGraph, PathSearch, BfsExtract.** The graph is one record with the fields of the
struct, and the calls are functions of it; `call` is the last call with its arguments, so
that `TripleMap` can say what each of them does. `nodes` is a function of all entities:
one without edges, which the code's map does not have, has no relations and degree zero.
In `PathSearch` every pop and every edge
is a step, equal costs are popped in any order and the edges of a node come in any order.
In `BfsExtract` a line of the log is what was written to it; `writeln!` is two writes, the
JSON and the newline, and a kill may leave the beginning of either. A kill may also cut the
output that is being saved.

## Runs

| run | module | instance | checks |
|---|---|---|---|
| `offers` | `MCGrid` | a server that re-enters as a spare, a spare, target 2, two slots, `Cap` 1, one each of fault, lapse, router restart, drain and operator assignment | `TypeOK`, `IndexInStep`, `OneClaim`, `NoGhosts`, and that the grid implements `SpareOffer` (`OfferSpec`) |
| `rebalance` | `MCRebalance` | *gaps*: nested ranges over three layers, a spare, an operator's assignment; *surplus*: two replicas, target 1, both re-enter, one fault; *uneven*: a fast and a slow replica and a spare | `StreamsInv`, the inductive invariant of the stream protocol |
| `liveness` | `MCLiveness` | *used*: a server and a spare, target 3, fault and lapse; *reform*: one server, a restart and an operator's drain, three request rates around the two thresholds; both fair | `DrainEnds`, `GridReforms`, `HotShardsFollow`, `DepartedIsRemoved`, `SpareIsUsed`, `StaleIsSettled` |
| `last_copy` | `MCGrid` | two replicas, target 1, two loads, `Cap` 2, no disturbance | refutes `LastCopyKept` |
| `dispatch` | `MCDispatch` | three groups of servers with layers of their own. *hedged*: replicas of equal ranges, a static shard, two upsets (leave, crash, restart), fair; *loaded*: loads at and below the ceiling, a layer and experts nobody has; *proxied*: one shard answers, one replica is a spare told to take a range its process does not serve | `AnswersAreRight`, `AnswerComes` |
| `server` | `MCRequestServer` | *sessions*, *weights*, *progress*, *shared*: four concurrent requests each; *outputs*, *gates*: walks before, between and after a patch, its removal and a patch that only deletes; *limits*: two addresses, 2 requests in 3 seconds, a window opened at any moment | `SessionsKept`, `LoadedOnce`, `CachedIsCurrent`, `RequestsEnd` (fair), `AdmitsAtMost`, `RefusesOnlyExcess` |
| `lql` | `MCLql` | *store*: two readers; *patches*: five patch files that meet on the same keys; *edits*: direct edits and a patch; *recording*: a session without weights; *session*: all statements, by entity or by slot, both on one layer | `CacheInStep`, `AnswerIndexesEntries`, `OverlayIsReplay`, `QueryFindsBest`, `RecordingReplays`, `RecordingOnlyGrows` |
| `extract` | `MCExtract` | two layers, three runs killed anywhere, power cuts, several weight formats, with and without the gate file, checksums that cannot be read | `FinishedIsWhole`, `CheckpointParses` |
| `compile` | `MCCompile` | *race*: two processes, one output, three statements; *leftover*: three statements of one process whose staging directory may not be removable; *source*: statements that could reach the source, with and without hard links, and up edits the manifest does not name; *again*: the source is extracted again | `SourceKept`, `PromotedIsWhole`, `ChecksumsMatch`, `StagingGone`, `BakedStands` |
| `spin` | `MCSpinPool` | three threads, three calls of two or four chunks in any order, the second with bodies that panic or dispatch; fair | `RunsLikeALoop` (implements `ForEachChunk`), `CallsReturn` |
| `spin_narrow` | `MCSpinPool` | three threads, two calls of two or four chunks | refutes `EachChunkOnce` |
| `graph` | `MCGraph` | *graph*: three edges, merges of two; *search*, *resume*, *faults*: an extraction of four entities, with a log that breaks or cannot be opened; *path*: every weighting by 0 or 3 of two crossing ways, with estimates that are consistent, only admissible, or too high | `GraphInStep`, `IsTripleMap`, `ExtractionHolds`, `SavesAll`, `PathIsShortest` |

Bounds of the grid: one model, one or three layers, dense slices, at most four processes and
as many stream slots as are needed for a process to reconnect while its old stream is still
being cleaned up. `Cap` is 1 or 2: 1 makes every channel full at once, 2 lets an
`UnassignMsg` queue in front of an `Ack`. Two replicas and target 1 make the tick choose a
victim; a spare more than the target asks for idles; nested ranges make `coverage_gaps`
report; three rates lie below, in and above the hysteresis band. Symmetry over the slots is
used in the safety runs only.

Bounds of the rest: two of everything that can interfere (servers of a layer, readers,
sessions, processes, patches), and the third where a middle one matters: a writer that queues
between two readers, a call whose late worker is still running when the one after it begins, a
statement after the one that left its staging directory, a run that resumes what a
resumed run left, an edge that moves when the one in front of it is removed. `MaxRuns`,
`MaxFaults`, `MaxEdges`, `MaxOther`, `MaxEdits`, `MaxPatches`, `MaxCalls`, `MaxTime` and
`Upsets` are named bounds in the guards. The graph of the path search has four nodes, enough
for a node that is reopened after a longer way to it was expanded. Widths 2 and 4 on three
threads are on both sides of the number of threads; width 3 adds states and no other case to
the run, and `SpinPoolProofs` has every width. Deadlock is checked except
where a command or a pool simply ends; in `server`, `RequestsEnd` says more.

### The properties

* `NoGhosts`: what the router lists has a live task that will remove it. The flags
  `registered_model` and `is_available` are local to the task and the tables are shared;
  they are kept in step by six handlers.
* `OneClaim` / `OfferSpec`: a spare's offer is in one place: in the channel, in the pool,
  assigned, loading or loaded. `SpareOffer` is the abstract specification; `Grid` implements
  it under the mapping `OfferOf`.
* `StreamsInv`: which messages may be in the channels of a stream in which state of its two
  ends. `ServingIsNoSpare` (nothing takes a server out of `available_servers` when
  it registers, and nothing needs to) and `AssignMeetsModeB` (what `try_once` calls a router
  bug does not happen) follow from it; see Proofs.
* `IndexInStep`: `route()` agrees with the servers map.
* `DepartedIsRemoved`, `DrainEnds`, `StaleIsSettled`, `GridReforms`: what has to happen
  eventually. A listed server that falls silent is evicted while its stream stays open, and its
  later heartbeats do not list it again; `GridReforms` speaks of behaviours in which no listed
  server falls silent. `SpareIsUsed`: a spare does not idle for ever while a slice is short.
  `HotShardsFollow`: elevation follows the rate, with hysteresis.
* `AnswersAreRight`, `AnswerComes`: over a topology that moves between the read lock and the
  calls, a 200 has every layer if owners are alike, an error names its cause as long as
  nobody joined or left, and every request is answered.
* `SessionsKept`: a session that two requests create at once loses no acknowledged patch, and
  an inference has all its client was told. `LoadedOnce`: first users at once, failing loads.
  `CachedIsCurrent`: no cached output is older than a patch, whether that overrides vectors
  (the walk passes the cache over) or only deletes or relabels (it does not). `RequestsEnd`:
  locks are given back, in an order that closes no cycle, also after a timeout.
* `AdmitsAtMost`, `RefusesOnlyExcess`: the bucket over any window of time.
* `AnswerIndexesEntries`: the store's matrix and its entries are of one moment although two
  mutexes guard them. `CacheInStep`, `OverlayIsReplay`, `QueryFindsBest`: what an overlay shows
  is its patches and edits, however they came and went. `RecordingReplays`,
  `RecordingOnlyGrows`: a saved patch is the session, as long as everything that changed the
  overlay was recorded (`plain`); gates and vectors as long as no residual is captured that
  a refine pass would use (`raw = {}`).
* `FinishedIsWhole`, `CheckpointParses`: resuming after any crash.
  `FinishedIsWhole` asks for the right checksums or none, as a run that cannot read its files
  back still succeeds.
* `PromotedIsWhole`, `ChecksumsMatch`, `StagingGone`, `SourceKept`, `BakedStands`: a compile
  beside others, through failures, and with a source that is written again. They say what the
  code keeps, its ignored errors included: what is promoted has the edits that were written
  (`Baked`: all but up edits the manifest does not name) and, after a leftover that could not
  be removed, at most stale files that this statement does not write (`Remains`); a staging
  directory stays only if its removal was tried and failed.
* `RunsLikeALoop`, `CallsReturn`: the pool is a parallel loop whose calls and drop end.
  `RunsLikeALoop` has the chunks of a call run once, and its body over when it returns, as
  long as no worker comes to the call late, and nobody does before a call was narrower than
  the pool; `CallsReturn` has no such condition. Without the condition it is false: see
  `spin_narrow`, which refutes `EachChunkOnce`.
* `GraphInStep`, `IsTripleMap`: the graph is a map of triples. `ExtractionHolds`, `SavesAll`:
  an entity is visited at a depth it has, and at its distance unless a request failed
  (`missed`); a fault costs one edge of the log; a run whose own requests were answered and
  that `max_entities` did not stop saves what one run saves, whatever was killed, resumed or
  lost before it. `PathIsShortest`: cost and path, reopened nodes
  included, for any estimate that is not negative where it says that path and cost agree.

### Fairness

`FairSpec` assumes that tokio polls ready tasks: weak fairness of each stream's task, of
the rebalancer and of each server's receive loop. The sends of the
announce loop share a channel with the heartbeat task; a tokio sender waits in a FIFO queue
for a permit, so it is not overtaken for ever, hence strong fairness (`LoopSend`). A
reconnect is strongly fair only because slots are finite here: a free slot may come and go,
where the router never runs out of ids. A download is assumed to end, in success or
failure. Heartbeats are not assumed to come (a host may hang, a connection may be half
open), so what holds under `FairSpec` does not rest on them. The environment's steps have no
fairness.

The other fair specifications: `DispatchSpec` assumes, for the instance *hedged*, that the
handler is polled and that a shard answers or the HTTP client's timeout fires; `ServerSpec`,
for *progress* and *shared*, that the runtime and the blocking pool run every thread, that a
load and a forward pass end, and that a lock is given to the head of its queue; `SpinPool`
that the operating system runs every thread and bodies end (`park` has a timeout, so a lost
wake-up delays and does not stop a worker).

### Where docs and code differ

Two runs refute a sentence of the documentation and a comment:

* `last_copy`: a draining server still counts as a replica, so successive ticks tell both
  replicas to leave, the second while the first still drains, where
  `docs/adr/0004-ffn-grid.md:323` says the tick "never removes the last copy of a shard". The
  loads need not change for that.
* `spin_narrow`: a worker without a chunk in a call is not counted by its barrier, so the call
  returns while that worker is still on its way to `run_chunks`. It then loads the fields of the
  next call (`spin_pool.rs:155`), runs its chunk of that one, sees the new epoch and runs it
  again: `completed` counts the chunk twice, and the barrier opens while another body may still
  run with a closure that is about to be dropped. `spin_pool.rs:16` and `:69` claim exactly-once
  and a sound barrier "across back-to-back dispatches" for any number of chunks, and
  `cpu/ops/moe/forward.rs:239` makes calls of one chunk for each active expert, routinely fewer
  than there are threads.

The modelled code differs from what is written about it in more places. The models do what
the code does, and the properties are stated under the condition under which they hold. Met
while modelling; no run refutes them:

* Grid. A refused assignment is logged as "re-queuing" and the server is not put back
  (`grid/service.rs:333`). The `Ack` of its `ReadyMsg` ends a spare's stream, which
  deregisters it (`announce.rs:583`). An evicted server that heartbeats again is not
  registered again (`grid/mod.rs:206`). An `UnassignMsg` may precede the `Ack` of the
  announce. `coverage_gaps` reports covered layers as gaps when ranges nest
  (`grid/status.rs:20`); a real gap is never filled, because no live server covers it and an
  origin has to. A heartbeat between the two halves of the eviction does not save the server.
  A surplus server without `available_after_drain` drains, reconnects, announces and is told
  to leave again. The imbalance records survive ticks that find no spare or no reporter.
* Dispatch. The hedge target of a group is looked up for its first layer (`http.rs:420`), so
  with ranges that overlap without being equal an answer may miss layers; a failing hedge
  wins over a slow primary (`dispatch.rs:180`); the cause of a 503 is read under a later lock
  (`http.rs:358`); refusals of shards are merged as answers without rows, which is what an
  MoE request gets from every shard (`http.rs:583`). Hence the conditions of
  `AnswersAreRight`: the request is dense, and one shard has all of it or owners of what it
  asks for are alike (`OwnersAlike`); causes are right while nobody joined or left.
* Request server. A generation and an insert take weights and overlay in opposite orders, and a
  waiting patch closes the cycle (`insert.rs:220`): `RequestsEnd` has no generation among its
  requests. A timed-out inference keeps its guards (`infer.rs:288`). DESCRIBE reads the shared
  overlay whatever the session (`describe.rs:91`), and its cache key drops the fraction of
  `min_score` (`cache.rs:34`). A session's base has the vectors of shared edits
  (`session.rs:130`); expired sessions stay in use (`session.rs:56`). `evict_stale` of the rate
  limiter has no caller. `docs/ffn-cache.md:55` has the L2 cache "present in every
  `larql-server` process", but its key is taken from gate vectors on the heap
  (`routes/walk_ffn/core.rs:252`), which a mapped vindex does not have, so there every walk
  passes it over. A blocking read of a tokio lock inside an async function (`stream.rs:351`)
  panics when it is reached.
* Overlay and session. A removed patch leaves its up and down vectors in the base
  (`overlay_apply.rs:175`); twice k hits are not enough when more than k features of a layer
  are disturbed (`overlay.rs:426`); a metadata update after a delete is shown and not baked;
  a slot with metadata and no gate is offered as free (`overlay.rs:346`). With weights, an
  insert refines earlier slots whose recorded operations keep the old vectors
  (`compose.rs:345`), hence `raw = {}` in `RecordingReplays`; SAVE PATCH of an unnamed
  recording drops it (`executor/mod.rs:374`); a saved patch cannot be removed by its path
  (`executor/mod.rs:496`); COMPACT MINOR removes entries it did not promote (`compact.rs:64`);
  residuals outlive their vindex (`use_cmd.rs:102`).
* Extract. A checkpoint of another model is left on disk (`context.rs:215`), one of other
  options is taken for one's own (`checkpoint.rs:175`), weights are never marked,
  `down_meta.bin` is renamed without a sync (`down_meta.rs:108`), and an extract whose files
  cannot be read back for the checksums succeeds without any (`context.rs:270`). Hence one
  model, one dtype and "until the power fails" in `FinishedIsWhole`. Every extract resumes,
  whatever the flag.
* Compile. The old output is removed file by file before the rename (`atomic.rs:92`);
  checksums come before the MEMIT edit (`into_vindex.rs:360`); a directory above the source is
  accepted as output (`atomic.rs:35`); `lm_head.bin` is not linked (`into_vindex.rs:246`);
  INTO MODEL reads an index that is not there (`write_f32.rs:856`); files that are not edited
  are links and change when the source is extracted again (`into_vindex.rs:264`). A staging
  directory that cannot be removed is taken over by the next statement of that pid
  (`atomic.rs:84`) and left behind by this one (`:96`, `:109`); over one, INTO MODEL would write
  through the links it finds (`write_f32.rs:425`). Up edits whose layer the weight manifest
  does not name, or without a manifest, are skipped without an error
  (`bake/up.rs:52`, `:81`), though the result is called self-contained (`into_vindex.rs:2`).
* Graph. After a torn line of the log the next edge is appended to it and lost
  (`checkpoint.rs:36`), and a torn character makes the log unreadable (`checkpoint.rs:47`). A
  run whose log cannot be opened goes on without one, and `--resume` with a path that does not
  end in `.checkpoint` replays that file and appends to another (`bfs_cmd.rs:163`). A
  loaded edge's confidence is not clamped (`core/edge.rs:136`).

## Proofs

`GridProofs` proves, for every number of processes, streams, layers, experts and replicas,
every channel capacity and every budget, from the named assumptions on the constants alone:

* `TypeCorrect`: `Spec => []TypeOK`. `TypeOK` is inductive as it stands; the work is that
  hand-outs (`Assignments`) only send well-formed `AssignMsg`s to spares, that
  `Pushed`/`Takes`/`Receives`/`Hangup` keep channels within type and capacity, and that
  every planned victim names a stream and an existing layer. One lemma per component, one
  step per action.
* `IndexIsRight`: `Spec => []IndexInStep`. Inductive on top of `TypeOK`. `SameSlices` is the
  key: the index depends on nothing but the slices, so the two steps that refresh entries
  without a rebuild (heartbeat, lapse), and a `deregister` of ids that are not in the map,
  leave it right.

It also proves the safety of the offer protocol, for the same constants:

* `StreamsKeepProtocol`: `Spec => []StreamsInv`. `NoGhosts`, `ServingIsNoSpare`, `OneClaim`
  and `AssignMeetsModeB` are not inductive: a `ReadyMsg` in flight may not register a server
  that is in the pool, an `AvailableMsg` may not be read while its sender is still listed.
  `GridInvariant` adds what excludes that, one conjunct per part of the protocol and each
  about one stream: where the two ends and the channels stand (`LinkInv`), the task's flags
  (`GhostInv`), at most one claim, place by place (`OfferInv`), no claim in Mode A
  (`ModeAInv`), an announcement is the first message of its stream and until it is read the
  server is unknown to the router (`AnnounceInv`), and, while the router lists the server,
  an offer is behind the `DroppingMsg` that ends the listing (`ServeInv`). TLC checks
  `StreamsInv` in run `rebalance`.

  It is inductive on top of `TypeOK` and `IndexInStep` (a server is told to leave only if
  `senders` has it, so it serves). Most steps change one stream and, at most, hand others
  out: `Quiet` says what such a step may do to a bystander and `QuietStream` that it keeps
  its invariant; `HandOut` is the only thing that `try_assign_gap` and its loops do to a
  spare, and is proved once for each of them. The stream that moves has one lemma per kind
  of step (`RegisterOwn`, `DroppingOwn`, `AvailableOwn`, `LoadOkOwn`, ...). The lemmas on
  `At` say how positions of messages move when one is sent, taken or lost.
* `GhostsNever`, `ServingNeverSpare`, `AssignsMeetModeB`, `ClaimsAreUnique`:
  `Spec => []` of `NoGhosts`, `ServingIsNoSpare`, `AssignMeetsModeB` and `OneClaim`, each a
  consequence of `StreamsInv`.
* `GridKeepsOffers`: `Spec => OfferSpec`, the refinement of `SpareOffer` under `OfferOf`. A
  step either leaves the offer of every stream where it is or moves some of them one place
  on, and several may move at once (a hand-out takes many spares, a restart drops all). The
  step of every action of `Grid` is shown to be one of `SpareOffer` or a stutter, stream by
  stream; `StreamsInv` says in which place each of them starts.

The other proof modules, each from the named assumptions on its module's constants:

* `ServerProofs`, about `RateLimit` (`RateLimitType`, `RateLimitHolds`,
  `RateLimitRefusesOnlyExcess`): for every limit, what a window admitted, in units, plus what
  is left in the bucket is at most a full bucket plus the refill of the window. That sum is
  the inductive invariant; a check takes from one side what it adds to the other. For
  refusals the account runs the other way: there is a moment since which what was admitted,
  and what is left, are at least a full bucket and the refill (`ExcessInv`).
* `ServerProofs`, about `RequestServer` (`ServerGuardsExclude`, `ServerLoadsOnce`,
  `ServerKeepsSessions`, `ServerCacheIsCurrent`), for every set of requests, of sessions and
  of removals. The parts of `ServerInv`: at which of its steps a handler can be (`PlaceInv`);
  a writer excludes everybody, whatever comes into the queue of a tokio lock
  (`GuardsExclude`); the weights are loaded by the one request that has the mutex
  (`LoadInv`); the guards under which an insert and a walk compute (`InsertHolds`,
  `WalkHolds`); an overlay has edits of its own clients only (`OverlayInv`); a patch whose
  client got its answer stays until a removal names it, and what was in force when a request
  came in is in force for it until it ends (`AckedPatchStays`, `BeforeInv`, `InferInv`); an
  output is cached under what the gates hit and only while no gate or vector of the layer is
  overridden, so a patch that deletes changes the key and one that overrides keeps everybody
  off the cache (`CacheInv`).
* `DispatchProofs` (`AnswersAlwaysRight`), for any servers, slices, static shards and
  requests. `TypeInv` says what an entry, a route and a part of the fan-out may be; `Moved`
  is all that a step of the topology may do to the handler, so the seven kinds of such steps
  are one case of every later lemma. `RightInv` follows a dense request under `OwnersAlike`:
  whoever was asked for a part, the primary of the lookup or the hedge target of another
  lock, serves all of it, because it owned one item of the part when it was chosen
  (`PlacedServes`, `HedgeOwns`). So a part is either rows for its whole group or a failure,
  and the merge has every item (`AllMerged`). `CauseInv`: while nobody joins or leaves, the
  lock that classifies the error sees owners if and only if the lock of the lookup did,
  whatever loads were reported between the two.
* `LqlProofs`, about `KnnStore` (`MatrixAlwaysInStep`, `AnswersIndexEntries`): the
  invariant says, for every position of a reader, what it knows of the layer it works on. A
  mutator excludes readers, so a reader that has seen "clean" or has rebuilt may rely on it
  until it ends. `OverlayAnswersIndexEntries` says the same of the store in an overlay, whose
  mutators are the overlay's.
* `LqlProofs`, about `PatchOverlay` (`OverlayType`, `CacheAlwaysInStep`,
  `OverlayAlwaysReplays`, `QueriesAlwaysFindBest`): outside the layers that the patch being
  resolved has touched, a cached gate matrix is that of the overrides; touched layers lose
  theirs before anybody can look. The replay is proved operation by operation: `InForce` is
  the sequence of what the patches in the list have said so far, the one being resolved up to
  its position; appending one operation changes the replay of exactly its key
  (`Replay...Append`), and that is what the code does to its maps (`...Performs`).
  `SetInduction` is induction over the naturals with a set in the place of the predicate, and
  gives `FlattenAppend`, which ties the patch list to the sequence. `QueriesAlwaysFindBest` is
  the argument for asking the base for 2k hits: at most k of them are disturbed, so k are
  left that beat everything that was not among the hits, and the merge keeps the best.
* `LqlProofs`, about `LqlSession` (`SessionType`, `SessionKeepsCache`, `RecordingsOnlyGrow`,
  `RecordingsReplay`), for every set of statements, facts, files and weights, slots named
  directly included, with or without metadata in the base. The statements change the overlay
  through its own operations, so each has a lemma that cites those about `PatchOverlay`; only
  the refine pass writes many keys at once (`Refreshed`, `Reworked`). `PlainInv` ties the
  recording to the overlay: while everything was recorded, the overlay is the replay of
  `closed` and the recording in progress.
* `ExtractProofs` (`ExtractType`, `CheckpointAlwaysParses`, `MarkedPhaseIsWhole`,
  `FinishedVindexIsWhole`): `ParseInv` holds for any jobs and power cuts (the checkpoint is
  synced before it is renamed). `MarkInv` and `FinishInv` need the hypotheses that all jobs
  extract one model, or ask for one output; both properties speak of the time before the
  first power cut, and hold with the checksums of the files or with none.
* `CompileProofs` (`CompileType`, `StagingAlwaysGone`, `SourceAlwaysKept`,
  `PromotedAlwaysWhole`, `OutputAlwaysOfOneJob`, `ChecksumsAlwaysMatch`, `BakedAlwaysStands`),
  with removals of a staging directory that may fail: a staging directory belongs to one
  living process (`DirInv`), what it holds is what its steps so far have made or, where no
  step of this statement writes, what an earlier statement of the pid left (`AsBuilt`,
  `WholeInv`), and the output is always the whole of one such directory or a part of it being
  removed (`OutputInv`); the last two while the source is as it was compiled
  (`FirstExtract`). `BakedAlwaysStands` does without `FirstExtract`: the source's own files
  never have edits, so a file of the output that has is no link to them (`EditedIsOwn`), and
  until the output is replaced nobody writes into its directory (`OutputUntouched`). The
  hypotheses: none for `CompileType` and `StagingAlwaysGone`; for the others that no output
  is a directory above the source (`OutputApart`) and that an INTO MODEL finds no leftover
  (`ModelsStartClean`: removals do not fail, or nobody compiles into a model); for what the
  output has, also that the source is of a model with tied embeddings (all three are
  `TiedApart`).
* `SpinPoolProofs` (`PoolType`, `ClosureAlwaysAlive`, `ChunksOnlyOnce`, `PoolRunsLikeALoop`):
  for any number of threads and calls of any number of chunks, narrower than the pool or
  not, and about each call to which no worker comes late (`late = {}`); that nobody does until
  a call was narrower than the pool is part of `PoolRunsLikeALoop` (`NobodyLate`). In such a
  call the barrier waits for every worker that has a chunk: the shares of the participants are
  disjoint, `completed` counts the chunks that were begun and are not in flight (`CountInv`),
  and a worker that has not entered the call yet still has its chunks of it or has none
  (`PlaceInv`, `PublishInv`, `LocalInv`, `OrderInv`, `PanicInv`). The refinement of
  `ForEachChunk` follows step by step. `spin_narrow` shows that the condition is needed.
* `KnowledgeProofs`, about `BfsExtract` (`ExtractionAlwaysHolds`, `ExtractSavesAll`), for any
  model, seeds, limits, kills, failing writes and order of the templates. `LogInv`: every
  acknowledged edge ended its line, so it is replayed or its line is spoiled, and every
  spoiled line has cost a fault of its own. `SearchInv`: the queue is sorted, its depths
  differ by at most one, and every entry and every visit is within the depth it says.
  `NearInv`: what an answer leads to is visited or queued no deeper than one below it, unless
  it was a request that failed; with a sorted queue that gives `AllVisited`: all that is
  within d is visited by the time the search works deeper than d. The induction over the
  distance is `SetInduction` again, and the recursive function `Within` is shown to exist.
  `ReachInv`: what is found, and what the log holds of earlier runs, can be reached; so an
  empty queue means that exactly the reachable edges are saved.
* `KnowledgeProofs`, about `KnowledgeGraph` (`GraphAlwaysInStep`, `GraphIsTripleMap`), for any
  entities, triples, payloads and bounds. `Good`, which is the types, the three indexes and
  the kept nodes, is inductive. Two lemmas carry it: the line that `push_edge` appends is
  the last one of each index it goes to (`PushGood`), and the first entry of a triple in the
  index of its subject, which `find_edge_index` takes, is the only one and has the position
  of its edge (`FindRight`). `insert_edge`, which replaces an edge where it is, keeps the
  lines because they have only the triple, and the nodes because they have no payload.
  `rebuild_indexes` and `merge_graphs` are recursive functions of the number of edges taken
  so far; they are shown to exist (`FoldExists`), and what one step keeps, all keep
  (`FoldKeeps`). With `EdgesOf`, the set of a graph's edges, each call has one sentence:
  adding, replacing, removing, rebuilding, and for a merge, which edge of a triple stays
  (`MergedInto`, `AllMerged`). `AnswersAre` turns that into the map of `TripleMap`, and the
  refinement follows call by call.
* `KnowledgeProofs`, about `PathSearch` (`PathAlwaysShortest`), for any finite graph, any
  natural weights and any natural estimate. First the reference: `Settled`, the nodes whose
  distance walks of n edges have reached, grows with n until it has all, so walks of
  |`Nodes`| edges are enough (`AllSettled`), and the distance obeys the triangle inequality
  and has a last edge (`Triangle`, `FirstEdges`). `CostInv`: no cost is below the distance,
  a node with a cost is in the heap with it, is being expanded, or has all its edges
  relaxed. From that, some node that is still to be expanded is on a cheapest walk and has
  its distance (`OneIsAhead`), so with an estimate that never overestimates the target
  cannot be popped with more: the early return is right without consistency, and stale
  entries do no harm. `TreeInv` and `OrderInv` are about the predecessors, for any estimate:
  a node that is re-opened has an entry cheaper than those of everything `Below` it, so the
  costs on the way back to the start are not lowered between the push of the target and its
  pop. The way back has no circle, hence at most |`Nodes`| edges (`BackToStart`), and its
  weights add up (`BackCosts`). TLC checked both invariants on the instance of the run before
  they were proved.

The type invariants of `RateLimit`, `PatchOverlay`, `LqlSession`, `Extract`, `Compile` and
`SpinPool`, and `ServingIsNoSpare`, `AssignMeetsModeB`, `GuardsExclude`, `MatrixInStep`,
`MarkedIsWhole`, `OutputOfOneJob` and `ClosureAlive`, are properties for which the theorem is
the evidence and no run is kept.

Every invariant and every action property of the passing runs is stated by a theorem. Only
model-checked are the liveness properties, which need fairness.
`RECURSIVE` operators, and the library's theorems that take an operator
as a parameter, are out of the prover's reach; induction is done with `SetInduction` where a
recursive function has to be unfolded.

## Plan

1. `Dispatch` composed with `Grid`: a request between a snapshot and a rebalancing tick.
2. Two id allocators behind one grid state (TCP and QUIC listeners); the imbalance tracker
   with a history of observations.
3. The shard loader as its own module (temporary directory, rename, crash between).
4. The remote expert stream of `larql-inference`.

## Not modelled, and limits

* Server ids are distinct by construction; `alloc_server_id` combines a per-service counter
  with a clock and two services run in one process (hazard list).
* A task that waits for room to send an `Ack` does not read, while the server may wait for
  room to send; with 32 `UnassignMsg`s in the channel at that moment both wait for ever.
  The liveness runs keep fewer in flight.
* Layers are bounded naturals; `u32` overflow of `layer_end + 1` is outside the model.
* The placeholder hash of all zeros, the grid key check, and the read-only `status` call.
* Expert ranges are in `GridOps` and in the types; the runs use dense slices, and what a
  spare registers is always dense, as in the code.
* Most of the repository's lines are floating-point and GPU kernels, model loaders, research
  commands and their tests, with little state that actors share. The modules stand for
  about 9,300 of some 404,000 lines, 2.3%. The window and checkpoint
  bookkeeping of the KV engines, the remote expert stream and the shard loader's files do
  have state and are not modelled.
* Dispatch: the HTTP/3 transport, metrics and health pages. Request server: tokenizers, wire
  formats, authentication, streaming bodies, the gRPC copies of the handlers. The L2 cache's
  key is taken to name its layer and features exactly, and the gates are on the heap, as
  without them the cache is not used. Quantised (FP4) storage, which a loaded vindex cannot
  combine with heap gates, is left out. Edits of different requests are of different slots.
* Rate limiter: whole units for `f64`.
* Vindex: file formats, quantised storage, memory maps, HNSW. LQL: parsing, queries, COMPACT
  MAJOR (a matrix solver), the arithmetic of MERGE and COMPILE, the remote backend. The
  comment "Always invalidate on Delete" in `apply_patch` says more than the code does, and
  `CacheInStep` shows that what it does is enough.
* Compile: the removal of a single file from the process's own staging directory succeeds (it
  takes the permission that creating it took). What INTO MODEL does over a leftover is not
  followed, because it would write through links to the source: instances in which the
  removal may fail have no model among their jobs.
* Spin pool: what `Relaxed` allows beyond an interleaving of the atomic steps; in particular
  a late worker's loads may be seen in another order than the program's.
* Extraction search: the log has one path, so a `--resume` whose file is not the one the run
  appends to (another extension) is left out; a later resume from that file does not see what
  the resumed run logged.
* Knowledge graph: keyword search's ranking, schema inference, PageRank, components and
  traversals, the packed and CSV codecs. Weights are not negative; a loaded edge with a
  confidence above 1 breaks that, and a negative cycle has no finite instance. Estimates are
  not negative either: with one below 0 at the target, which "must never overestimate"
  (`algo/shortest_path.rs`) does not exclude, the target is popped too early.

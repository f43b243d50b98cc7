------------------------------ MODULE Dispatch ------------------------------
(***************************************************************************)
(* One POST /v1/walk-ffn on its way through the router                     *)
(* (crates/larql-router/src/{http,dispatch,shards}.rs, grid/routing.rs),   *)
(* with the topology changing under it.                                    *)
(*                                                                         *)
(* The handler takes the grid's read lock up to three times (routes,       *)
(* has_owners_for or the hedge targets) and dials the shards afterwards:   *)
(* each acquisition and each reply is one action.  Requests share nothing  *)
(* but counters, so one request at a time is modelled.  A server stands    *)
(* for its listen URL; there is one model, so route_table and              *)
(* any_model_table agree.  An item is a pair of a layer and an expert;     *)
(* a dense request uses expert 0 and ignores it.                           *)
(***************************************************************************)
EXTENDS Integers, Sequences, FiniteSets, FiniteSetsExt

CONSTANTS
  Servers,    \* shard servers, grid members or static
  None,       \* the absent value of an Option
  Holds,      \* Holds[s]: the slice, first to last layer and expert, that process s serves
  Assigned,   \* Assigned[s]: the slices that s, as a spare, may be told to take over
  Members,    \* the servers listed at the start
  Statics,    \* the --shards list: records [url, start, end], end exclusive
  Requests,   \* the requests a client may send
  HasGrid, Hedging,   \* command line
  Ceiling,    \* --saturation-ceiling; above every load when not given
  Loads, Latencies, Rtts,    \* what heartbeats and probes may report
  Upsets      \* bound on departures and crashes

VARIABLES
  up,        \* the processes that answer HTTP
  listed,    \* the keys of GridState.servers
  entry,     \* entry[s]: the ServerEntry of a listed server
  stage,     \* position in handle_walk_ffn_inner
  req,       \* the request being handled
  urls,      \* layer_urls: the primary of every item
  missing,   \* the item resolve_all failed on, and whether the grid had an owner then
  second,    \* secondary_by_primary
  sub,       \* the sub-request of each primary
  answer,    \* what the client got
  upsets

topology == <<up, listed, entry, upsets>>
vars == <<up, listed, entry, stage, req, urls, missing, second, sub, answer, upsets>>

ASSUME CeilingAssumption == Ceiling \in Nat /\ Loads \subseteq Nat

ASSUME ShardsAssumption ==
  /\ Members \subseteq Servers /\ None \notin Servers
  /\ HasGrid \in BOOLEAN
  /\ Statics \in Seq([url : Servers, start : Nat, end : Nat])

ASSUME RequestsAssumption ==
  \A r \in Requests : r.kind \in {"dense", "moe"} /\ IsFiniteSet(r.items) /\ None \notin r.items

ASSUME UpsetsAssumption == Upsets \in Nat

-----------------------------------------------------------------------------
(* Ownership *)

IsDense(x) == x.es = 0 /\ x.ee = 0

OwnsExpert(x, e) == IsDense(x) \/ (x.es <= e /\ e <= x.ee)

Owns(x, kind, i) ==
  /\ x.ls <= i[1] /\ i[1] <= x.le
  /\ kind = "moe" => OwnsExpert(x, i[2])

\* What the route table lists under the layer (has_owners_for asks for this).
Owners(kind, i) == {s \in listed : Owns(entry[s].slice, kind, i)}

\* What is left of it after the ADR-0020 filter.
Candidates(kind, i) == {s \in Owners(kind, i) : entry[s].rif < Ceiling}

-----------------------------------------------------------------------------
(* Route selection: the three-tier comparator *)

\* Reported latency of the layer, then probed round trip, then requests in flight.
RouteKey(e, layer) ==
  IF layer \in DOMAIN e.lat THEN <<1, e.lat[layer]>>
  ELSE IF e.rtt # None THEN <<2, e.rtt>>
  ELSE <<3, e.rif>>

Precedes(a, b, layer) ==
  LET x == RouteKey(a, layer)
      y == RouteKey(b, layer)
  IN x[1] < y[1] \/ (x[1] = y[1] /\ x[2] < y[2])

\* min_by over entries in map order: any of the best.
Best(C, layer) ==
  {s \in C : \A t \in C : ~ Precedes(entry[t], entry[s], layer)}

\* The first of route_with_rank(.., 2) that is not the primary, for every order of equals.
HedgeTargets(kind, i, primary) ==
  LET C == Candidates(kind, i)
      Next2(r) == IF r # primary THEN {r}
                  ELSE IF C = {primary} THEN {None}
                  ELSE Best(C \ {primary}, i[1])
  IN IF C = {} THEN {None} ELSE UNION {Next2(r) : r \in Best(C, i[1])}

\* find_shard_for_layer: the first static shard whose half-open range has the layer.
StaticFor(i) ==
  LET fits == {k \in DOMAIN Statics :
                 Statics[k].start <= i[1] /\ i[1] < Statics[k].end}
  IN IF fits = {} THEN None ELSE Statics[Min(fits)].url

\* The grid first, the static list for what it cannot place (MoE: the grid alone).
Placements(kind, i) ==
  LET C == IF HasGrid THEN Candidates(kind, i) ELSE {}
  IN IF C # {} THEN Best(C, i[1])
     ELSE IF kind = "moe" THEN {None} ELSE {StaticFor(i)}

Resolutions ==
  {f \in [req.items -> UNION {Placements(req.kind, i) : i \in req.items}] :
     \A i \in req.items : f[i] \in Placements(req.kind, i)}

-----------------------------------------------------------------------------
(* The handler *)

NoAnswer == [status |-> 0, rows |-> {}]

Answers(status, rows) ==
  /\ answer' = [status |-> status, rows |-> rows]
  /\ stage' = "answered"

Primaries(f) == {f[i] : i \in req.items}

Group(p) == {i \in req.items : urls[i] = p}

\* The next request.  A body that does not parse or names no layer is a 400.
Receive ==
  /\ stage = "answered"
  /\ \E r \in Requests :
       /\ req' = r
       /\ urls' = [i \in r.items |-> None]
       /\ second' = <<>> /\ sub' = <<>>
       /\ missing' = [item |-> None, owned |-> FALSE]
       /\ IF r.items = {}
          THEN Answers(400, {})
          ELSE IF r.kind = "moe" /\ ~HasGrid
          THEN Answers(503, {})
          ELSE stage' = "resolve" /\ answer' = NoAnswer
  /\ UNCHANGED topology

\* resolve_all / route_all_experts: one read lock, every item.
Resolve ==
  /\ stage = "resolve"
  /\ \E f \in Resolutions :
       /\ urls' = f
       /\ IF \E i \in req.items : f[i] = None
          THEN /\ \E i \in {j \in req.items : f[j] = None} :
                    missing' = [item |-> i, owned |-> HasGrid /\ Owners(req.kind, i) # {}]
               /\ IF req.kind = "moe" THEN Answers(503, {})
                  ELSE stage' = "classify" /\ UNCHANGED answer
          ELSE /\ UNCHANGED missing
               /\ IF req.kind = "dense" /\ Cardinality(Primaries(f)) = 1
                  THEN stage' = "proxy" /\ UNCHANGED answer
                  ELSE IF req.binary THEN Answers(400, {})
                  ELSE stage' = "targets" /\ UNCHANGED answer
  /\ UNCHANGED <<topology, req, second, sub>>

\* has_owners_for under a second read lock tells a 503 from a 400.
Classify ==
  /\ stage = "classify"
  /\ Answers(IF HasGrid /\ Owners("dense", missing.item) # {} THEN 503 ELSE 400, {})
  /\ UNCHANGED <<topology, req, urls, missing, second, sub>>

\* A third read lock: one hedge target per group, from the group's first item.
PickTargets ==
  /\ stage = "targets"
  /\ second' \in
       {g \in [Primaries(urls) -> Servers \cup {None}] :
          \A p \in Primaries(urls) :
            IF Hedging /\ HasGrid
            THEN \E probe \in Group(p) : g[p] \in HedgeTargets(req.kind, probe, p)
            ELSE g[p] = None}
  /\ sub' = [p \in Primaries(urls) |-> [at |-> "primary", by |-> p, got |-> "none"]]
  /\ stage' = "fanout"
  /\ UNCHANGED <<topology, req, urls, missing, answer>>

-----------------------------------------------------------------------------
(* Shards' replies *)

\* walk_ffn of a shard: a body it can serve is answered with rows, any other with
\* a 400 whose body is JSON; larql-server knows no layer_experts and no body without
\* a residual.
Serves(s, items) ==
  /\ req.kind = "dense"
  /\ \A i \in items : Owns(Holds[s], req.kind, i)

\* The parsed body counts, not the status (the http3 feature, which is off by
\* default and checks it, is left out).
Reply(s, items) ==
  IF s \notin up THEN "fail"
  ELSE IF Serves(s, items) THEN "rows" ELSE "refused"

Settle(p, s) ==
  /\ sub' = [sub EXCEPT ![p] = [at |-> "done", by |-> s, got |-> Reply(s, Group(p))]]
  /\ UNCHANGED <<topology, stage, req, urls, missing, second, answer>>

PrimaryReplies(p) == sub[p].at \in {"primary", "racing"} /\ Settle(p, p)

\* The sleeper of hedged_post_json ends first: the secondary is dialled too.
HedgeFires(p) ==
  /\ sub[p].at = "primary" /\ second[p] # None
  /\ sub' = [sub EXCEPT ![p].at = "racing"]
  /\ UNCHANGED <<topology, stage, req, urls, missing, second, answer>>

SecondaryReplies(p) == sub[p].at = "racing" /\ Settle(p, second[p])

\* merge_shard_responses: the rows of all bodies; a body without rows adds nothing.
MergedRows ==
  UNION {{<<i, sub[p].by>> : i \in Group(p)} : p \in {q \in DOMAIN sub : sub[q].got = "rows"}}

\* Mutants of Finish: failed parts are left out of the merge; a failure is not reported.
FinishWithWhatCame ==
  /\ stage = "fanout"
  /\ \A p \in DOMAIN sub : sub[p].at = "done"
  /\ Answers(200, MergedRows)
  /\ UNCHANGED <<topology, req, urls, missing, second, sub>>

FinishWithoutErrors ==
  /\ stage = "fanout"
  /\ \A p \in DOMAIN sub : sub[p].at = "done" /\ sub[p].got # "fail"
  /\ Answers(200, MergedRows)
  /\ UNCHANGED <<topology, req, urls, missing, second, sub>>

\* join_all, or for MoE the handles one by one: an error ends the request.
Finish ==
  /\ stage = "fanout"
  /\ \/ /\ \E p \in DOMAIN sub : sub[p].got = "fail"
        /\ req.kind = "dense" => \A p \in DOMAIN sub : sub[p].at = "done"
        /\ Answers(502, {})
     \/ /\ \A p \in DOMAIN sub : sub[p].at = "done" /\ sub[p].got # "fail"
        /\ Answers(200, MergedRows)
  /\ UNCHANGED <<topology, req, urls, missing, second, sub>>

\* proxy_raw: one shard has everything; its answer is passed on, status included.
ProxyRaw ==
  /\ stage = "proxy"
  /\ \E s \in Primaries(urls) :
       CASE Reply(s, req.items) = "rows"    -> Answers(200, {<<i, s>> : i \in req.items})
         [] Reply(s, req.items) = "refused" -> Answers(400, {})
         [] Reply(s, req.items) = "fail"    -> Answers(502, {})
  /\ UNCHANGED <<topology, req, urls, missing, second, sub>>

Fan(p) == PrimaryReplies(p) \/ HedgeFires(p) \/ SecondaryReplies(p)

Fanout == \E p \in DOMAIN sub : stage = "fanout" /\ Fan(p)

Handler == Resolve \/ Classify \/ PickTargets \/ Finish \/ ProxyRaw

-----------------------------------------------------------------------------
(* The topology *)

Fresh(x) == [slice |-> x, rif |-> 0, rtt |-> None, lat |-> <<>>]

Layers == {i[1] : i \in UNION {r.items : r \in Requests}}

request == <<stage, req, urls, missing, second, sub, answer>>

Register(s, x) ==
  /\ s \in up \ listed /\ HasGrid
  /\ listed' = listed \cup {s}
  /\ entry' = [entry EXCEPT ![s] = Fresh(x)]
  /\ UNCHANGED <<up, upsets, request>>

\* A Mode A server announces what it serves.
Announce(s) == s \in Members /\ Register(s, Holds[s])

\* A Mode B server reports ready once the shard it was assigned is on its disk; the
\* process goes on serving what it has loaded.
Ready(s) == \E x \in Assigned[s] : Register(s, x)

\* It ends: deregister.
Leave(s) ==
  /\ s \in listed /\ upsets < Upsets
  /\ listed' = listed \ {s}
  /\ upsets' = upsets + 1
  /\ UNCHANGED <<up, entry, request>>

\* The process stops answering; the grid hears of it later.
Crash(s) ==
  /\ s \in up /\ upsets < Upsets
  /\ up' = up \ {s}
  /\ upsets' = upsets + 1
  /\ UNCHANGED <<listed, entry, request>>

Restart(s) ==
  /\ s \notin up
  /\ up' = up \cup {s}
  /\ UNCHANGED <<listed, entry, upsets, request>>

\* update_heartbeat: the load always, latencies of the layers it names.
Heartbeat(s) ==
  /\ s \in listed
  /\ \E n \in Loads :
       \/ entry' = [entry EXCEPT ![s].rif = n]
       \/ \E l \in Layers, v \in Latencies :
            entry' = [entry EXCEPT ![s].rif = n,
                                   ![s].lat = [k \in DOMAIN @ \cup {l} |-> IF k = l THEN v ELSE @[k]]]
  /\ UNCHANGED <<up, listed, upsets, request>>

\* update_rtt_ms: a failed probe clears the value.
Probe(s) ==
  /\ s \in listed
  /\ \E v \in IF s \in up THEN Rtts ELSE {None} :
       entry' = [entry EXCEPT ![s].rtt = v]
  /\ UNCHANGED <<up, listed, upsets, request>>

Moves(s) ==
  \/ Announce(s) \/ Ready(s) \/ Leave(s)
  \/ Crash(s) \/ Restart(s) \/ Heartbeat(s) \/ Probe(s)

Init ==
  /\ up = Servers
  /\ listed = Members
  /\ entry = [s \in Servers |-> Fresh(Holds[s])]
  /\ stage = "answered"
  /\ req = [kind |-> "dense", items |-> {}, binary |-> FALSE]
  /\ urls = <<>> /\ second = <<>> /\ sub = <<>>
  /\ missing = [item |-> None, owned |-> FALSE]
  /\ answer = NoAnswer
  /\ upsets = 0

Next ==
  \/ Receive
  \/ Handler
  \/ Fanout
  \/ \E s \in Servers : Moves(s)

Spec == Init /\ [][Next]_vars

\* Tokio polls the handler and its tasks, and the HTTP client times out.
FairSpec ==
  /\ Spec
  /\ WF_vars(Handler)
  /\ \A p \in Servers : WF_vars(p \in DOMAIN sub /\ stage = "fanout" /\ PrimaryReplies(p))

-----------------------------------------------------------------------------
(* Properties *)

TypeOK ==
  /\ up \subseteq Servers /\ listed \subseteq Servers
  /\ \A s \in listed : entry[s].slice \in Assigned[s] \cup {Holds[s]}
  /\ \A s \in listed : entry[s].rif \in Loads \cup {0} /\ entry[s].rtt \in Rtts \cup {None}
  /\ stage \in {"resolve", "classify", "proxy", "targets", "fanout", "answered"}
  /\ DOMAIN urls = req.items
  /\ DOMAIN second = DOMAIN sub /\ DOMAIN sub \subseteq Primaries(urls)
  /\ stage = "fanout" => DOMAIN sub = Primaries(urls)
  /\ answer.status \in {0, 200, 400, 502, 503}
  /\ upsets \in 0 .. Upsets

\* A 200 has a row for every item that was asked for.
AnswerIsComplete ==
  answer.status = 200 => {r[1] : r \in answer.rows} = req.items

\* What the client is told about a layer that could not be placed is what was true when
\* it could not be placed: 503 when it had owners, all at the ceiling, 400 when it had none.
ErrorNamesCause ==
  req.kind = "dense" =>
    /\ answer.status = 503 => missing.owned
    /\ answer.status = 400 /\ missing.item # None => ~missing.owned

\* "Groups share a primary URL, same owning shard range" (http.rs:415): of what is asked
\* for, servers that share an item share all, and whoever may be listed or configured for
\* an item serves it.
OwnersAlike ==
  /\ \A i \in req.items, s \in Servers : \A x \in Assigned[s] \cup {Holds[s]} :
       Owns(x, "dense", i) => Owns(Holds[s], "dense", i)
  /\ \A i \in req.items, n \in DOMAIN Statics :
       Statics[n].start <= i[1] /\ i[1] < Statics[n].end => Owns(Holds[Statics[n].url], "dense", i)
  /\ \A i, j \in req.items, s, t \in Servers :
       Owns(Holds[s], "dense", i) /\ Owns(Holds[t], "dense", i) /\ Owns(Holds[s], "dense", j) =>
         Owns(Holds[t], "dense", j)

\* Neither a shard that goes away between the read lock and the call, nor a failing part
\* of the fan-out, nor a hedge that overtakes its primary, makes an answer lose a layer
\* where owners are alike; one shard alone answers for itself (http.rs:447-482,
\* merge_shard_responses).  As long as nobody joined or left, errors name their cause,
\* although has_owners_for runs under a later lock than route, and sees other loads
\* (http.rs:352-378).
AnswersAreRight ==
  /\ TypeOK
  /\ req.kind = "dense" =>
       AnswerIsComplete \/ ~(Cardinality(Primaries(urls)) = 1 \/ OwnersAlike)
  /\ upsets = 0 /\ listed = Members => ErrorNamesCause
=============================================================================

----------------------------- MODULE MCDispatch -----------------------------
(***************************************************************************)
(* Three groups of servers with layers of their own, in one run of TLC:    *)
(* the instance is chosen in the initial state and never changes, its      *)
(* requests come in and the servers of the others stay as they are.        *)
(*   hedged   replicas of equal ranges, a static shard, hedging; servers   *)
(*            leave, crash and come back                                   *)
(*   loaded   replicas at and below the saturation ceiling, a layer and    *)
(*            experts that nobody has; nobody joins or leaves              *)
(*   proxied  requests for one shard, one replica a spare that was told to *)
(*            take a range over that its process does not serve            *)
(***************************************************************************)
EXTENDS Dispatch, TLC

CONSTANTS a, b, c, d, e, f, g, h, j

VARIABLE instance

Slice(l, m) == [ls |-> l, le |-> m, es |-> 0, ee |-> 0]

Dense(L) == [kind |-> "dense", items |-> {<<l, 0>> : l \in L}, binary |-> FALSE]
Binary(L) == [kind |-> "dense", items |-> {<<l, 0>> : l \in L}, binary |-> TRUE]
Moe(S) == [kind |-> "moe", items |-> S, binary |-> FALSE]

\* hedged: replicas a and b of layers 0..1, c of layer 2; d is the static shard of layer 2.
\* loaded: e and f of layer 3, f of layer 4; nobody has layer 5.
\* proxied: g of layer 6, h and j of layer 7; h may be assigned layer 6.
HeldSlices ==
  (a :> Slice(0, 1)) @@ (b :> Slice(0, 1)) @@ (c :> Slice(2, 2)) @@ (d :> Slice(2, 2))
  @@ (e :> Slice(3, 3)) @@ (f :> Slice(3, 4))
  @@ (g :> Slice(6, 6)) @@ (h :> Slice(7, 7)) @@ (j :> Slice(7, 7))
AssignedSlices == [s \in Servers |-> IF s = h THEN {Slice(6, 6)} ELSE {}]
StaticShards == <<[url |-> d, start |-> 2, end |-> 3]>>

HedgedRequests == {Dense({0, 1, 2}), Dense({0}), Binary({0, 2}), Dense({})}
LoadedRequests == {Dense({3, 4}), Dense({3, 5}), Moe({<<3, 1>>, <<4, 2>>})}
ProxiedRequests == {Dense({6}), Dense({7})}
AllRequests == HedgedRequests \cup LoadedRequests \cup ProxiedRequests

Mix ==
  CASE instance = "hedged"  -> [servers |-> {a, b, c, d}, requests |-> HedgedRequests]
    [] instance = "loaded"  -> [servers |-> {e, f}, requests |-> LoadedRequests]
    [] instance = "proxied" -> [servers |-> {g, h, j}, requests |-> ProxiedRequests]

DispatchInit == instance \in {"hedged", "loaded", "proxied"} /\ Init

\* Loads and latencies are reported in loaded alone, where nobody goes, and of its layers.
Reports(s) ==
  \/ instance # "loaded" /\ entry'[s].rif = 0 /\ entry'[s].lat = entry[s].lat
  \/ instance = "loaded" /\ upsets' = 0 /\ DOMAIN entry'[s].lat \subseteq 3 .. 5

DispatchNext ==
  /\ \/ Receive /\ req' \in Mix.requests
     \/ Handler \/ Fanout
     \/ \E s \in Mix.servers : Moves(s) /\ Reports(s)
  /\ UNCHANGED instance

\* The fairness of Dispatch, for the instance that needs it.
DispatchSpec ==
  /\ DispatchInit /\ [][DispatchNext]_<<vars, instance>>
  /\ WF_vars(instance = "hedged" /\ Handler)
  /\ \A p \in Servers :
       WF_vars(instance = "hedged" /\ p \in DOMAIN sub /\ stage = "fanout" /\ PrimaryReplies(p))

-----------------------------------------------------------------------------
(* Properties *)

\* Every request is answered, whatever leaves, crashes or reports meanwhile
\* (dispatch.rs: each part of the fan-out ends, by an answer or by the timeout).
AnswerComes == instance = "hedged" /\ stage # "answered" ~> stage = "answered"
=============================================================================

----------------------------- MODULE SpareOffer -----------------------------
(***************************************************************************)
(* What the grid promises about capacity: a spare server's offer is in one *)
(* place at a time, is used for one shard at most, and makes the server a  *)
(* replica only after the shard was loaded.                                *)
(*                                                                         *)
(*   offer[s]  "none"      stream s has no offer                           *)
(*             "offered"   made by the server, not yet seen by the router  *)
(*             "pooled"    the router may use it                           *)
(*             "assigned"  used for a shard, the server does not know yet  *)
(*             "loading"   the server is loading that shard                *)
(*             "ready"     the shard is loaded, the router does not know   *)
(*   serving   the replicas that requests are routed to                    *)
(*                                                                         *)
(* One step of the grid may move many streams (one clean-up hands several  *)
(* spares out), so a step is a move of every stream.                       *)
(***************************************************************************)
CONSTANT Streams

VARIABLES offer, serving

Init ==
  /\ offer = [s \in Streams |-> "none"]
  /\ serving = {}

\* The offer of s goes from a to b while the server is no replica.
Passes(s, a, b) ==
  /\ offer[s] = a /\ offer'[s] = b
  /\ s \notin serving /\ s \notin serving'

\* A server may offer itself while the router still believes it serves.
Offers(s) ==
  /\ offer[s] = "none" /\ offer'[s] = "offered"
  /\ s \in serving' <=> s \in serving

\* A loaded shard makes the server a replica and uses the offer up ...
Registers(s) ==
  /\ offer[s] = "ready" /\ offer'[s] = "none"
  /\ s \notin serving /\ s \in serving'

\* ... and so does announcing a shard, with no offer at all.
Announces(s) ==
  /\ offer[s] = "none" /\ offer'[s] = "none"
  /\ s \notin serving /\ s \in serving'

\* An offer may lapse and a replica may leave at any time, even together.
Lapses(s) ==
  /\ offer'[s] \in {offer[s], "none"}
  /\ s \in serving' => s \in serving

Move(s) ==
  \/ Offers(s)
  \/ Passes(s, "offered", "pooled")
  \/ Passes(s, "pooled", "assigned")
  \/ Passes(s, "assigned", "loading")
  \/ Passes(s, "loading", "ready")
  \/ Registers(s) \/ Announces(s) \/ Lapses(s)

Next == \A s \in Streams : Move(s)

Spec == Init /\ [][Next]_<<offer, serving>>
=============================================================================

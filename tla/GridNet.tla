------------------------------- MODULE GridNet -------------------------------
(***************************************************************************)
(* The Join streams between shard servers and the router                   *)
(* (proto/grid.proto): one bidirectional gRPC stream per connection, whose *)
(* slot s stands for the server_id the router gave it.                     *)
(*                                                                         *)
(*   link[s]  "free"  no stream has this id                                *)
(*            "open"  both ends are alive                                  *)
(*            "cut"   the server's end is gone, the router's task is not   *)
(*            "lost"  the router's end is gone, the server has not noticed *)
(*   peer[s]  the server process that opened the stream                    *)
(*   up[s]    messages on their way to the router, oldest first            *)
(*   down[s]  messages on their way to the server, oldest first            *)
(*                                                                         *)
(* Both directions are tokio mpsc channels of capacity 32 (Cap here), in   *)
(* front of an ordered, reliable HTTP/2 stream: within a stream nothing is *)
(* reordered or duplicated, and what is lost is a suffix, when it ends.    *)
(***************************************************************************)
EXTENDS GridOps, Sequences

CONSTANTS
  Procs,    \* the shard server processes
  Streams,  \* the stream slots; an id is reused only when nothing mentions it
  Cap,      \* capacity of a channel
  Beats     \* the heartbeat payloads: a set of [load, rate, lat] records

ASSUME ProcsAssumption == Procs # {}
ASSUME CapAssumption   == Cap \in Nat \ {0}
ASSUME BeatsAssumption ==
  Beats \subseteq [load : Nat, rate : Nat, lat : [Layers -> Lat]]

VARIABLES link, peer, up, down

netVars == <<link, peer, up, down>>

(***************************************************************************)
(* A shard hash, as far as the shard loader tells them apart: "none" is    *)
(* the empty hash of a replica registered by ReadyMsg, "identity" the      *)
(* 16-digit vindex_identity_hash of an announce, "sha256" the digest of    *)
(* the shard's tar, which only an operator can supply.                     *)
(***************************************************************************)
Hashes == {"none", "identity", "sha256"}

\* ServerMessage: what a server sends.
ServerMessage ==
       [type : {"announce"}, slice : Slice, hash : Hashes]
  \cup [type : {"ready"}, slice : Slice]
  \cup [type : {"heartbeat"}, beat : Beats]
  \cup [type : {"dropping", "available", "refuse"}]

\* RouterMessage: what the router sends (RejectMsg is never sent).  The range
\* an UnassignMsg names is only echoed and logged, so it is left out.
AssignMsg == [type : {"assign"}, slice : Slice, hash : Hashes]
RouterMessage == AssignMsg \cup [type : {"ack", "unassign"}]

Announce(x, h) == [type |-> "announce", slice |-> x, hash |-> h]
Ready(x)       == [type |-> "ready", slice |-> x]
Heartbeat(b)   == [type |-> "heartbeat", beat |-> b]
Dropping       == [type |-> "dropping"]
Available      == [type |-> "available"]
Refuse         == [type |-> "refuse"]
Assign(x, h)   == [type |-> "assign", slice |-> x, hash |-> h]
Ack            == [type |-> "ack"]
Unassign       == [type |-> "unassign"]

NetTypeOK ==
  /\ link \in [Streams -> {"free", "open", "cut", "lost"}]
  /\ peer \in [Streams -> Procs]
  /\ up   \in [Streams -> Seq(ServerMessage)]
  /\ down \in [Streams -> Seq(RouterMessage)]
  /\ \A s \in Streams : Len(up[s]) <= Cap /\ Len(down[s]) <= Cap

\* The peer recorded for a free slot; no step reads it.
Nobody == CHOOSE p \in Procs : TRUE

NetInit ==
  /\ link = [s \in Streams |-> "free"]
  /\ peer = [s \in Streams |-> Nobody]
  /\ up   = [s \in Streams |-> <<>>]
  /\ down = [s \in Streams |-> <<>>]

(***************************************************************************)
(* The router's try_send: the channel after message m was offered to       *)
(* stream s.  A full channel refuses it, and what enters the channel of a  *)
(* stream whose server is gone is never read.                              *)
(***************************************************************************)
Sendable(s) == link[s] = "open" /\ Len(down[s]) < Cap

Pushed(s, m) == IF Sendable(s) THEN Append(down[s], m) ELSE down[s]

\* Mutant of CanSendUp: an unbounded channel.
NoBackpressure(s) == TRUE

\* A server may send on s (its own channel has room).
CanSendUp(s) == Len(up[s]) < Cap

\* The server puts message m on stream s; a lost stream swallows it.
SendUp(s, m) ==
  up' = IF link[s] = "open" THEN [up EXCEPT ![s] = Append(@, m)] ELSE up

(***************************************************************************)
(* The server's end of stream s goes away: what it had not yet sent, a     *)
(* suffix of up[s], is lost with it, and nobody reads down[s] any more.    *)
(***************************************************************************)
Hangup(s) ==
  /\ IF link[s] = "open"
     THEN /\ link' = [link EXCEPT ![s] = "cut"]
          /\ \E k \in 0 .. Len(up[s]) : up' = [up EXCEPT ![s] = SubSeq(@, 1, k)]
          /\ UNCHANGED peer
     ELSE /\ link' = [link EXCEPT ![s] = "free"]
          /\ peer' = [peer EXCEPT ![s] = Nobody]
          /\ UNCHANGED up
  /\ down' = [down EXCEPT ![s] = <<>>]
=============================================================================

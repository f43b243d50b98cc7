----------------------------- MODULE GridServer -----------------------------
(***************************************************************************)
(* The server's side of the grid: the announce loops of                    *)
(* crates/larql-server/src/announce.rs and the shard loader they call.     *)
(*                                                                         *)
(* A process runs one loop, and a turn of the loop is one stream, so the   *)
(* state of the loop is kept with the stream:                              *)
(*                                                                         *)
(*   pc[s]  "gone"     the server's end of s does not exist                *)
(*          "serve"    Mode A, in try_once's receive loop                  *)
(*          "drain"    Mode A, waiting for in-flight requests              *)
(*          "dropped"  DroppingMsg sent, heartbeat task not yet aborted    *)
(*          "avail"    in run_available_loop                               *)
(*          "load"     downloading the shard of the AssignMsg job[s]       *)
(*                                                                         *)
(* store[p] is what the shard store of process p holds; it is on disk.     *)
(***************************************************************************)
EXTENDS GridNet

CONSTANTS
  ModeA,    \* processes started with a shard; the others are spares (Mode B)
  Home,     \* the slice each process announces
  Reenter,  \* the processes with available_after_drain
  Stored    \* the shards in each process's store at first

ASSUME ModeAssumption   == Reenter \subseteq ModeA /\ ModeA \subseteq Procs
ASSUME HomeAssumption   == Home \in [Procs -> DenseSlices]
ASSUME StoredAssumption == Stored \in [Procs -> SUBSET DenseSlices]

VARIABLES pc, job, store

procVars == <<pc, job, store>>

NoJob == Assign([model |-> CHOOSE m \in Models : TRUE,
                 ls |-> 0, le |-> 0, es |-> 0, ee |-> 0], "none")

ServerTypeOK ==
  /\ pc \in [Streams -> {"gone", "serve", "drain", "dropped", "avail", "load"}]
  /\ job \in [Streams -> AssignMsg]
  /\ store \in [Procs -> SUBSET Slice]

ServerInit ==
  /\ pc = [s \in Streams |-> "gone"]
  /\ job = [s \in Streams |-> NoJob]
  /\ store = Stored

-----------------------------------------------------------------------------
\* Process p is between two turns of its loop.
Disconnected(p) == \A s \in Streams : peer[s] = p => pc[s] = "gone"

\* Mode A announces its shard, Mode B offers its memory.
FirstMessage(p) == IF p \in ModeA THEN Announce(Home[p], "identity") ELSE Available

\* connect_grid_channel, join, and the first message of the mode.
Connect(p, s) ==
  /\ Disconnected(p)
  /\ link[s] = "free"
  /\ link' = [link EXCEPT ![s] = "open"]
  /\ peer' = [peer EXCEPT ![s] = p]
  /\ up' = [up EXCEPT ![s] = <<FirstMessage(p)>>]
  /\ pc' = [pc EXCEPT ![s] = IF p \in ModeA THEN "serve" ELSE "avail"]
  /\ UNCHANGED <<down, job, store>>

\* The heartbeat task runs until it is aborted, so also while draining.
SendHeartbeat(s, b) ==
  /\ pc[s] \in {"serve", "drain", "dropped"}
  /\ CanSendUp(s)
  /\ SendUp(s, Heartbeat(b))
  /\ UNCHANGED <<link, peer, down, procVars>>

\* The next message from the router has type ty and is taken.
Receives(s, ty) ==
  /\ down[s] # <<>>
  /\ Head(down[s]).type = ty
  /\ down' = [down EXCEPT ![s] = Tail(@)]

\* Mode A: an Ack is logged; an Assign is logged as a router bug and ignored.
ServeIgnores(s) ==
  /\ pc[s] = "serve"
  /\ Receives(s, "ack") \/ Receives(s, "assign")
  /\ UNCHANGED <<link, peer, up, procVars>>

ServeUnassign(s) ==
  /\ pc[s] = "serve"
  /\ Receives(s, "unassign")
  /\ pc' = [pc EXCEPT ![s] = "drain"]
  /\ UNCHANGED <<link, peer, up, job, store>>

\* drain_requests returns: no request in flight, or DRAIN_TIMEOUT elapsed.
Drained(s) ==
  /\ pc[s] = "drain"
  /\ CanSendUp(s)
  /\ SendUp(s, Dropping)
  /\ pc' = [pc EXCEPT ![s] = "dropped"]
  /\ UNCHANGED <<link, peer, down, job, store>>

\* The heartbeat task is aborted; then Mode B on the same stream ...
EnterModeB(s) ==
  /\ pc[s] = "dropped"
  /\ peer[s] \in Reenter
  /\ CanSendUp(s)
  /\ SendUp(s, Available)
  /\ pc' = [pc EXCEPT ![s] = "avail"]
  /\ UNCHANGED <<link, peer, down, job, store>>

\* This turn of the loop ends, and with it the stream.
Leave(s) ==
  /\ Hangup(s)
  /\ pc' = [pc EXCEPT ![s] = "gone"]
  /\ job' = [job EXCEPT ![s] = NoJob]
  /\ UNCHANGED store

\* ... or return Ok(()).
DropReturns(s) ==
  /\ pc[s] = "dropped"
  /\ peer[s] \notin Reenter
  /\ Leave(s)

-----------------------------------------------------------------------------
(* Mode B: run_available_loop. *)

AvailAssign(s) ==
  /\ pc[s] = "avail"
  /\ Receives(s, "assign")
  /\ job' = [job EXCEPT ![s] = Head(down[s])]
  /\ pc' = [pc EXCEPT ![s] = "load"]
  /\ UNCHANGED <<link, peer, up, store>>

\* An UnassignMsg falls under the catch-all arm.
AvailIgnores(s) ==
  /\ pc[s] = "avail"
  /\ Receives(s, "unassign")
  /\ UNCHANGED <<link, peer, up, procVars>>

\* break on the first Ack: the loop, and with it the stream, ends.
AvailAck(s) ==
  /\ pc[s] = "avail"
  /\ down[s] # <<>>
  /\ Head(down[s]).type = "ack"
  /\ Leave(s)

(***************************************************************************)
(* download_and_load_shard succeeds at once when the shard directory is    *)
(* there already.  Otherwise the SHA-256 of the tar is compared with the   *)
(* hash, unless that is empty; the identity hash of an announce is no      *)
(* SHA-256.  The rename makes the shard appear in one step.                *)
(***************************************************************************)
LoadSucceeds(s) ==
  \/ DenseOf(job[s].slice) \in store[peer[s]]
  \/ job[s].hash \in {"none", "sha256"}

\* ReadyMsg always says 0/0 for the experts.
LoadOk(s) ==
  /\ pc[s] = "load"
  /\ LoadSucceeds(s)
  /\ CanSendUp(s)
  /\ SendUp(s, Ready(DenseOf(job[s].slice)))
  /\ store' = [store EXCEPT ![peer[s]] = @ \cup {DenseOf(job[s].slice)}]
  /\ pc' = [pc EXCEPT ![s] = "avail"]
  /\ job' = [job EXCEPT ![s] = NoJob]
  /\ UNCHANGED <<link, peer, down>>

\* A shard that is present cannot fail to load; a download can.
LoadFail(s) ==
  /\ pc[s] = "load"
  /\ DenseOf(job[s].slice) \notin store[peer[s]]
  /\ CanSendUp(s)
  /\ SendUp(s, Refuse)
  /\ pc' = [pc EXCEPT ![s] = "avail"]
  /\ job' = [job EXCEPT ![s] = NoJob]
  /\ UNCHANGED <<link, peer, down, store>>

-----------------------------------------------------------------------------
\* A network error or a crash of the process: the stream is gone, the process
\* comes back in the mode it was started in.
Fault(s) ==
  /\ link[s] = "open"
  /\ Leave(s)

\* Mutant of StreamError: the end of the stream goes unnoticed.
NeverNoticed(s) == FALSE /\ UNCHANGED <<netVars, procVars>>

\* The receive loop sees that the router's end is gone.
StreamError(s) ==
  /\ pc[s] \in {"serve", "avail"}
  /\ link[s] = "lost"
  /\ Leave(s)

ServerStep(s) ==
  \/ \E b \in Beats : SendHeartbeat(s, b)
  \/ ServeIgnores(s) \/ ServeUnassign(s) \/ Drained(s)
  \/ EnterModeB(s) \/ DropReturns(s)
  \/ AvailAssign(s) \/ AvailIgnores(s) \/ AvailAck(s)
  \/ LoadOk(s) \/ LoadFail(s) \/ StreamError(s)
=============================================================================

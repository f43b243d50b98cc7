--------------------------- MODULE GridInvariant ---------------------------
(***************************************************************************)
(* Why a spare's offer is in one place at a time, and why a server is      *)
(* never replica and spare at once: the inductive invariant behind         *)
(* OneClaim, ServingIsNoSpare, NoGhosts and AssignMeetsModeB.  It is one   *)
(* conjunct per part of the protocol, each about one stream.               *)
(***************************************************************************)
EXTENDS Grid

\* The two ends of a stream and the channels between them.
LinkInv(s) ==
  /\ link[s] \in {"free", "lost"} => up[s] = <<>> /\ down[s] = <<>> /\ tpc[s] = "none"
  /\ link[s] = "cut" => down[s] = <<>>
  /\ link[s] \in {"free", "cut"} <=> pc[s] = "gone"
  /\ tpc[s] = "bye" => link[s] = "cut" /\ up[s] = <<>>

\* The task's flags are not behind the tables.
GhostInv(s) ==
  /\ s \in serving => s \in reg /\ tpc[s] \notin {"none", "bye"}
  /\ s \in pool => s \in avail /\ tpc[s] # "none"

\* At most one claim, place by place.
OfferInv(s) ==
  /\ \A ty \in {"available", "ready"} : \A i, j \in At(up[s], ty) : i = j
  /\ \A i, j \in At(down[s], "assign") : i = j
  /\ At(up[s], "available") # {} =>
       s \notin pool /\ At(down[s], "assign") = {} /\ pc[s] # "load" /\ At(up[s], "ready") = {}
  /\ s \in pool => At(down[s], "assign") = {} /\ pc[s] # "load" /\ At(up[s], "ready") = {}
  /\ At(down[s], "assign") # {} => pc[s] # "load" /\ At(up[s], "ready") = {}
  /\ pc[s] = "load" => At(up[s], "ready") = {}

\* Somewhere there is a claim.
Claimed(s) ==
  \/ At(up[s], "available") # {}
  \/ s \in pool
  \/ At(down[s], "assign") # {}
  \/ pc[s] = "load"
  \/ At(up[s], "ready") # {}

\* A server in Mode A has made no offer.
ModeAInv(s) == pc[s] \in {"serve", "drain", "dropped"} => ~ Claimed(s)

\* An AnnounceMsg is the first message of its stream; until it is read the
\* router does not know the server, and so has not told it to leave.
AnnounceInv(s) ==
  \A i \in At(up[s], "announce") :
    /\ i = 1
    /\ s \notin serving
    /\ ~ Claimed(s)
    /\ pc[s] \in {"serve", "gone"}
    /\ At(down[s], "unassign") = {}

\* While the router believes that s serves, an offer of s is still behind
\* the DroppingMsg that ends that belief.
ServeInv(s) ==
  s \in serving =>
    /\ pc[s] = "dropped" => At(up[s], "dropping") # {}
    /\ \A i \in At(up[s], "available") : \E j \in At(up[s], "dropping") : j < i
    /\ s \notin pool /\ At(down[s], "assign") = {} /\ pc[s] # "load" /\ At(up[s], "ready") = {}

StreamInv(s) ==
  LinkInv(s) /\ GhostInv(s) /\ OfferInv(s) /\ ModeAInv(s) /\ AnnounceInv(s) /\ ServeInv(s)

(***************************************************************************)
(* Every stream keeps the protocol of offers, drops and announcements.     *)
(***************************************************************************)
StreamsInv == \A s \in Streams : StreamInv(s)
=============================================================================

---------------------------- MODULE MCRequestServer ----------------------------
(***************************************************************************)
(* Six mixes of requests to RequestServer and the rate limiter, in one    *)
(* run of TLC: the mix is chosen in the initial state, only its requests   *)
(* come in, and it never changes.                                          *)
(*   sessions   patches, a removal and an inference of one session, which  *)
(*              may be idle for longer than its time to live               *)
(*   weights    requests that need the weights, the first ones to come     *)
(*   progress   requests that take two of the three locks, with a timeout  *)
(*   shared     requests on the shared overlay and its caches              *)
(*   outputs    walk-ffn before and after a patch that overrides vectors   *)
(*              and its removal, and a patch that deletes a hit            *)
(*   gates      the same for a patch that overrides a gate alone           *)
(*   limits     the requests of two addresses, of which RateLimit counts   *)
(*              the number                                                 *)
(***************************************************************************)
EXTENDS RequestServer, RateLimit

CONSTANTS client, apply1, apply2, applyAll, insert1, insertAll, remove1, infer1, generate1,
          walk1, walk2, q8k1, gateAll, deleteAll, dropAll, dropGate, describe2, ip1, ip2

VARIABLE mix

HandlerOf ==
  (apply1 :> "apply") @@ (apply2 :> "apply") @@ (applyAll :> "apply")
  @@ (insert1 :> "insert") @@ (insertAll :> "insert") @@ (remove1 :> "remove")
  @@ (infer1 :> "infer") @@ (generate1 :> "generate") @@ (walk1 :> "walk")
  @@ (walk2 :> "walk") @@ (q8k1 :> "q8k") @@ (describe2 :> "describe")
  @@ (gateAll :> "apply") @@ (deleteAll :> "apply") @@ (dropAll :> "remove") @@ (dropGate :> "remove")

Kinds == HandlerOf

AllRequests == DOMAIN HandlerOf

\* The requests of the client that has a session.
Sids == [r \in AllRequests |-> IF r \in {apply1, apply2, insert1, remove1, infer1} THEN client ELSE None]

\* The patch that a removal names.
Removal ==
  [r \in AllRequests |->
     CASE r = remove1 -> apply1 [] r = dropAll -> applyAll [] r = dropGate -> gateAll [] OTHER -> None]

\* Inserts set a gate and a down vector, and so do most patches; one changes metadata alone.
ChangesOf ==
  [r \in AllRequests |->
     CASE r = gateAll   -> {"gate"}
       [] r = deleteAll -> {"hit"}
       [] r = apply2    -> {}
       [] OTHER         -> {"gate", "base"}]

\* min_score 5.0 and 5.5.
Scores == [r \in AllRequests |-> IF r = describe2 THEN 55 ELSE 50]

SessionRequests == {apply1, apply2, infer1, remove1}
WeightRequests == {walk1, walk2, generate1, applyAll}
ProgressRequests == {apply1, applyAll, insert1, infer1}
SharedRequests == {insertAll, q8k1, describe2, applyAll}
OutputRequests == {walk1, walk2, applyAll, dropAll, deleteAll}
GateRequests == {walk1, walk2, gateAll, dropGate}

Members ==
  CASE mix = "sessions" -> SessionRequests
    [] mix = "weights"  -> WeightRequests
    [] mix = "progress" -> ProgressRequests
    [] mix = "shared"   -> SharedRequests
    [] mix = "outputs"  -> OutputRequests
    [] mix = "gates"    -> GateRequests
    [] OTHER            -> {}

ServerInit ==
  /\ mix \in {"sessions", "weights", "progress", "shared", "outputs", "gates", "limits"}
  /\ Init /\ RateInit

\* Others than the members stay away, an inference times out in progress alone and
\* sessions idle in sessions alone.
OfTheMix ==
  /\ \A r \in Requests \ Members : pc'[r] = pc[r]
  /\ mix # "progress" => \A r \in Requests : reply'[r] = "timeout" => reply[r] = "timeout"
  /\ mix # "sessions" => expired' \subseteq expired

ServerNext ==
  \/ mix # "limits" /\ Next /\ OfTheMix /\ UNCHANGED <<mix, rateVars>>
  \/ mix = "limits" /\ RateNext /\ UNCHANGED <<mix, vars>>

\* Threads of the blocking pool are scheduled, forward passes and loads end; stated for
\* the mixes that RequestsEnd is about.
ServerSpec ==
  /\ ServerInit /\ [][ServerNext]_<<vars, rateVars, mix>>
  /\ \A r \in ProgressRequests : WF_vars(mix = "progress" /\ Step(r))
  /\ \A r \in SharedRequests : WF_vars(mix = "shared" /\ Step(r))

-----------------------------------------------------------------------------
(* Properties *)

\* Every request ends: no two of them wait for each other's locks, and a timeout
\* leaves none behind (RequestEnds, under the fairness of blocking threads).
RequestsEnd ==
  /\ \A r \in ProgressRequests : mix = "progress" /\ pc[r] # "idle" ~> mix = "progress" /\ pc[r] = "done"
  /\ \A r \in SharedRequests : mix = "shared" /\ pc[r] # "idle" ~> mix = "shared" /\ pc[r] = "done"
================================================================================

---------------------------- MODULE ForEachChunk ----------------------------
(***************************************************************************)
(* What for_each_chunk of crates/larql-compute/src/cpu/spin_pool.rs        *)
(* promises its caller, whichever threads run which chunks: each chunk is  *)
(* run once between the call and its return, and a panic of a chunk is     *)
(* raised on the caller when all of them are done.                         *)
(***************************************************************************)
EXTENDS Integers

CONSTANT Widths      \* the numbers of chunks of the calls

VARIABLES
  todo, running,     \* chunks not begun, and begun
  failed,            \* whether a chunk of the call has panicked
  result             \* "busy" in a call, else how the last one ended

abstract == <<todo, running, failed, result>>

Init == todo = {} /\ running = {} /\ failed = FALSE /\ result = "ok"

Call ==
  /\ result # "busy" /\ result' = "busy"
  /\ \E w \in Widths : todo' = 0 .. w - 1
  /\ failed' = FALSE
  /\ UNCHANGED running

Start(chunk) ==
  /\ chunk \in todo
  /\ todo' = todo \ {chunk} /\ running' = running \cup {chunk}
  /\ UNCHANGED <<failed, result>>

Finish(chunk) ==
  /\ chunk \in running
  /\ running' = running \ {chunk}
  /\ failed' \in {failed, TRUE}
  /\ UNCHANGED <<todo, result>>

Return ==
  /\ result = "busy" /\ todo = {} /\ running = {}
  /\ result' = IF failed THEN "raised" ELSE "ok"
  /\ UNCHANGED <<todo, running, failed>>

Next ==
  \/ Call \/ Return
  \/ \E chunk \in todo : Start(chunk)
  \/ \E chunk \in running : Finish(chunk)

Spec == Init /\ [][Next]_abstract
==============================================================================

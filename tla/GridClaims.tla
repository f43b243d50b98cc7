----------------------------- MODULE GridClaims -----------------------------
(***************************************************************************)
(* What the documentation says of the grid, where the code does something  *)
(* else.  TLC refutes it on a small instance.                              *)
(***************************************************************************)
EXTENDS GridInvariant

\* The router "never removes the last copy of a shard" (docs/adr/0004): no
\* step takes the replica count of a slice to zero.  About the rebalancer's
\* over-replication tick, when nothing fails and nobody drains by hand.
LastCopyKept ==
  [][\A x \in LiveSlices(serving, info) : Replicas(serving', info', x) # {}]_vars
=============================================================================

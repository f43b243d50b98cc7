------------------------------ MODULE MCExtract ------------------------------
(***************************************************************************)
(* Two instances of Extract in one run of TLC, chosen in the initial       *)
(* state: directories whose jobs keep the gate file, and ones without it.  *)
(* The jobs of an instance agree on model, dtype and gate file and differ  *)
(* in the weights and in the router.                                       *)
(***************************************************************************)
EXTENDS Extract

CONSTANT m1

VARIABLE instance

Job(q, drop, attn, moe) ==
  [model |-> m1, dtype |-> "f32", quant |-> q, drop |-> drop, attn |-> attn, moe |-> moe]

KeepJobs == {Job("none", FALSE, TRUE, TRUE), Job("q4k", FALSE, TRUE, FALSE),
             Job("none", FALSE, FALSE, FALSE)}
DropJobs == {Job("q4k", TRUE, FALSE, TRUE)}
AllJobs == KeepJobs \cup DropJobs

Keeping == INSTANCE Extract WITH Jobs <- KeepJobs
Dropping == INSTANCE Extract WITH Jobs <- DropJobs

ExtractInit ==
  \/ instance = "keeping" /\ Keeping!Init
  \/ instance = "dropping" /\ Dropping!Init

ExtractNext ==
  /\ \/ instance = "keeping" /\ Keeping!Next
     \/ instance = "dropping" /\ Dropping!Next
  /\ UNCHANGED instance

ExtractSpec == ExtractInit /\ [][ExtractNext]_<<vars, instance>>
==============================================================================

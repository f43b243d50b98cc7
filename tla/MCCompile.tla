------------------------------ MODULE MCCompile ------------------------------
(***************************************************************************)
(* Four uses of COMPILE in one run of TLC: the use is chosen in the        *)
(* initial state and never changes.                                        *)
(*   race     two processes compile into one output, three statements      *)
(*   leftover one process, three statements, and the removal of its        *)
(*            staging directory may fail                                   *)
(*   source   statements that could reach the source: onto it, with MEMIT, *)
(*            of a model, with links and with copies                       *)
(*   again    one process, and extract writes the source again             *)
(***************************************************************************)
EXTENDS Compile

CONSTANTS p1, p2, s, t, d1, d2, d3, d4, d5

VARIABLE use

AllDirs == {s, t, d1, d2, d3, d4, d5}

Tied == {"gate", "attn", "up", "down"}

Plain == [target |-> "vindex", at |-> "apart", overrides |-> {}, listed |-> TRUE,
          memit |-> FALSE, knn |-> TRUE]
Edits == [Plain EXCEPT !.overrides = {"gate", "up", "down"}, !.knn = FALSE]
Unlisted == [Edits EXCEPT !.listed = FALSE]
Memit == [Plain EXCEPT !.memit = TRUE, !.knn = FALSE]
Model == [Plain EXCEPT !.target = "model", !.knn = FALSE]
OnSource == [Edits EXCEPT !.at = "same"]

RaceJobs == {Plain, Edits}
LeftoverJobs == {Plain, Edits}
SourceJobs == {Plain, Unlisted, Memit, OnSource, Model}
BakedJobs == {Edits, Memit}
AllJobs == RaceJobs \cup SourceJobs

Links == {TRUE}
TwoRuns == 2
Yes == TRUE
No == FALSE

Race == INSTANCE Compile WITH Jobs <- RaceJobs, CanLink <- Links, Stuck <- No
Leftover == INSTANCE Compile WITH Jobs <- LeftoverJobs, CanLink <- Links
Source == INSTANCE Compile WITH Jobs <- SourceJobs, Stuck <- No, MaxRuns <- TwoRuns
Again == INSTANCE Compile WITH
  Jobs <- BakedJobs, CanLink <- Links, Faults <- No, Stuck <- No, Reextracts <- Yes,
  MaxRuns <- TwoRuns

CompileInit ==
  \/ use = "race" /\ Race!Init
  \/ use = "leftover" /\ Leftover!Init
  \/ use = "source" /\ Source!Init
  \/ use = "again" /\ Again!Init

CompileNext ==
  /\ \/ use = "race" /\ Race!Next
     \/ use = "leftover" /\ Leftover!Next /\ pc'[p2] = "off"
     \/ use = "source" /\ Source!Next
     \/ use = "again" /\ Again!Next /\ pc'[p2] = "off"
  /\ UNCHANGED use

CompileSpec == CompileInit /\ [][CompileNext]_<<vars, use>>
==============================================================================

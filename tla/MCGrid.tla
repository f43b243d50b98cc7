------------------------------- MODULE MCGrid -------------------------------
(* Small instances of Grid for TLC; the .cfg files pick from these values. *)
EXTENDS GridClaims, TLC

CONSTANTS a1, a2, a3, b1  \* processes: a* have a shard, b* are spares

Dense(m, first, last) == [model |-> m, ls |-> first, le |-> last, es |-> 0, ee |-> 0]

OneModel == {1}

\* What the processes announce and store.
Whole     == Dense(1, 0, 0)
SameHome  == [p \in Procs |-> Whole]
Nested    == [p \in Procs |-> CASE p = a1 -> Dense(1, 0, 2)
                                [] p = a2 -> Dense(1, 0, 0)
                                [] OTHER  -> Dense(1, 2, 2)]
NoStore   == [p \in Procs |-> {}]
HasShard  == [p \in Procs |-> {Whole}]
HasMiddle == [p \in Procs |-> {Dense(1, 1, 1)}]
NoSlices  == {}
Middle    == {Dense(1, 1, 1)}
OnlyWhole == {Whole}
SameRam   == [p \in Procs |-> 1]

\* Heartbeats.
Beat(load, rate, ms) == [load |-> load, rate |-> rate, lat |-> [l \in Layers |-> ms]]
NoBeat    == {}
IdleBeat  == {Beat(0, 0, NoLat)}
TwoLoads  == {Beat(0, 0, NoLat), Beat(1, 0, NoLat)}
ThreeRates == {Beat(0, 0, NoLat), Beat(0, 2, NoLat), Beat(0, 3, NoLat)}

\* Budgets.
Budgets(f) == [k \in Kinds |-> IF k \in DOMAIN f THEN f[k] ELSE 0]
Calm      == Budgets(<<>>)
Fault1    == Budgets([fault |-> 1])
OneOfEach == [k \in Kinds |-> 1]
Fault1Lapse1 == Budgets([fault |-> 1, lapse |-> 1])
Assign1   == Budgets([assign |-> 1])
DrainRestart == Budgets([restart |-> 1, drain |-> 1])

StreamSymmetry == Permutations(Streams)
=============================================================================

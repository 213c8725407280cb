--------------------------- MODULE MC_SearchDriver ---------------------------
(***************************************************************************)
(* Instantiates SearchDriver for TLC.  Three configurations, two styles    *)
(* of each wire, and three metric records: O1 and O2 trade read for write  *)
(* and latency for area, O3 dominates both, so ties (two candidates        *)
(* drawing the same record), trade-offs between targets and strict         *)
(* improvements by refinement all occur.  Metric values are 1..3 and the   *)
(* sentinel is 10, above every metric and every EDP of a valid bank.       *)
(***************************************************************************)
EXTENDS SearchDriver, TLC

CONSTANTS c1, c2, c3, lw1, lw2, gw1, gw2

MCConfigs     == <<c1, c2, c3>>
\* The cache run sweeps two configurations of each array and refines over
\* one global wire style (the tag and data estimates multiply the states).
MCCacheConfigs == <<c1, c2>>
MCCacheGlobalWires == <<gw1>>
MCLocalWires  == <<lw1, lw2>>
MCGlobalWires == <<gw1, gw2>>

O1 == [readLatency |-> 1, writeLatency |-> 3, readDynamicEnergy |-> 2,
       writeDynamicEnergy |-> 1, area |-> 3, leakage |-> 1]
O2 == [readLatency |-> 3, writeLatency |-> 1, readDynamicEnergy |-> 1,
       writeDynamicEnergy |-> 2, area |-> 1, leakage |-> 3]
O3 == [readLatency |-> 1, writeLatency |-> 1, readDynamicEnergy |-> 1,
       writeDynamicEnergy |-> 1, area |-> 1, leakage |-> 1]

MCOutcomes == {O1, O2, O3}

\* One die for every configuration: no TSV array, so the layer count of the
\* technology never enters an estimate.
MCOneDie == [c \in ToSet(Configs) |-> 1]
\* c1 is stacked on two dies, c2 is not: the tag sweep leaves the layer
\* count of c2's SetLayerCount behind.
MCStacked == [c \in ToSet(Configs) |-> IF c = c1 THEN 2 ELSE 1]

\* A 0% tolerance on read latency, 100% on every other quantity.
MCTolerance == [f \in LimitFields |-> IF f = "readLatency" THEN 0 ELSE 100]
\* Only read latency constrained (0%); every other tolerance is so large
\* that its limit admits every valid bank.
MCToleranceReadOnly == [f \in LimitFields |-> IF f = "readLatency" THEN 0 ELSE 1000]
=============================================================================

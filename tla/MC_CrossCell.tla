---------------------------- MODULE MC_CrossCell ----------------------------
(***************************************************************************)
(* Instantiates CrossCell for TLC: two cell types, each searched over two  *)
(* configurations, two local and one global wire style, with the metric    *)
(* records of MC_SearchDriver, so that cells tie, trade off and beat each  *)
(* other target by target.                                                 *)
(***************************************************************************)
EXTENDS CrossCell

CONSTANTS c1, c2, lw1, lw2, gw1

MCConfigs     == <<c1, c2>>
MCLocalWires  == <<lw1, lw2>>
MCGlobalWires == <<gw1>>
\* The cache run sweeps one configuration of each array (the tag and data
\* estimates of two cells multiply the states).
MCCacheConfigs == <<c1>>

O1 == [readLatency |-> 1, writeLatency |-> 3, readDynamicEnergy |-> 2,
       writeDynamicEnergy |-> 1, area |-> 3, leakage |-> 1]
O2 == [readLatency |-> 3, writeLatency |-> 1, readDynamicEnergy |-> 1,
       writeDynamicEnergy |-> 2, area |-> 1, leakage |-> 3]
O3 == [readLatency |-> 1, writeLatency |-> 1, readDynamicEnergy |-> 1,
       writeDynamicEnergy |-> 1, area |-> 1, leakage |-> 1]

MCOutcomes == {O1, O2, O3}

\* One die for every configuration: no TSV array.
MCOneDie == [c \in {Configs[i] : i \in DOMAIN Configs} |-> 1]

\* Only read latency constrained (0%); every other tolerance admits every
\* valid bank.
MCToleranceReadOnly == [f \in LimitFields |-> IF f = "readLatency" THEN 0 ELSE 1000]
=============================================================================

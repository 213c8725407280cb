----------------------------- MODULE BestSoFar -----------------------------
(***************************************************************************)
(* What the search of one memory-cell type promises (spec.md, "Data flow"  *)
(* and steps 1-6 of the search), independently of how nvsim() loops:       *)
(*                                                                         *)
(*  - one Result per array kind (tag, data) and optimization target;       *)
(*  - the arrays are searched in order: the tag array of a cache first, a  *)
(*    tag search without any solution ends the search, then the data       *)
(*    array, then (when the user gave tolerances) the constrained re-search *)
(*    of the data array;                                                   *)
(*  - a step of the search offers one evaluated design to the Results of   *)
(*    the array being searched; a Result takes it only if it is within    *)
(*    the Result's limits and strictly improves the Result's target;      *)
(*  - the constrained re-search derives absolute limits from the optima    *)
(*    found, relaxed by the tolerances, and starts over from empty         *)
(*    Results.                                                             *)
(*                                                                         *)
(* A Result is the record of module Result; a design is the part           *)
(* compareAndUpdate copies (configuration, wires, bank).                   *)
(***************************************************************************)
EXTENDS Result

CONSTANTS
  IsCache,              \* the design target is a cache: a tag array exists
  IsConstraintApplied,  \* the user gave percentage tolerances
  Tolerance             \* the tolerance of every limited quantity, in percent

VARIABLES
  stage,  \* "tag", "data", "constrained", "done" or "failed"
  best    \* best[k][t]: the Result of array kind k for target t

vars == <<stage, best>>

Kinds == {"tag", "data"}

\* The array a stage searches.
Searched(s) == IF s = "tag" THEN "tag" ELSE "data"

Init ==
  /\ stage = IF IsCache THEN "tag" ELSE "data"
  /\ best = [k \in Kinds |-> [t \in Targets |-> NewResult(t)]]

\* Result r' is r after taking a design: same target and limits, a design
\* within the limits, strictly better on the target.
Takes(r, r2) ==
  /\ r2.optimizationTarget = r.optimizationTarget
  /\ r2.limits = r.limits
  /\ WithinLimits(r.limits, r2.bank)
  /\ Improves(r.optimizationTarget, r2.bank, r.bank)

\* The part of a Result that a design fixes.
Design(r) == <<r.cfg, r.localWire, r.globalWire, r.bank>>

(***************************************************************************)
(* One design offered to the Results of the array being searched: each     *)
(* Result keeps its own or takes it, and all that take it take the same    *)
(* design.                                                                 *)
(***************************************************************************)
Offer ==
  /\ stage \in {"tag", "data", "constrained"}
  /\ LET k == Searched(stage)
         taken == {t \in Targets : best'[k][t] # best[k][t]}
     IN /\ best' = [best EXCEPT ![k] = best'[k]]
        /\ \A t \in Targets : best'[k][t] = best[k][t] \/ Takes(best[k][t], best'[k][t])
        /\ \A t1, t2 \in taken : Design(best'[k][t1]) = Design(best'[k][t2])
  /\ UNCHANGED stage

\* Every Result of array k holds a design.
Found(k) == \A t \in Targets : best[k][t].bank # SentinelBank

\* The tag search found nothing: the search ends in failure.
TagFails ==
  /\ stage = "tag"
  /\ \A t \in Targets : best["tag"][t].bank = SentinelBank
  /\ stage' = "failed"
  /\ UNCHANGED best

\* The tag search found designs: the data search starts.
TagDone ==
  /\ stage = "tag"
  /\ Found("tag")
  /\ stage' = "data"
  /\ UNCHANGED best

\* The optimum each limited quantity is taken from.
OptimumOf ==
  [readLatency |-> "read_latency_optimized", writeLatency |-> "write_latency_optimized",
   readDynamicEnergy |-> "read_energy_optimized", writeDynamicEnergy |-> "write_energy_optimized",
   readEdp |-> "read_edp_optimized", writeEdp |-> "write_edp_optimized",
   area |-> "area_optimized", leakage |-> "leakage_optimized"]

\* The absolute limits: each optimum relaxed by its tolerance (times 100,
\* as module Result stores limits).
Relaxed(res) ==
  [f \in LimitFields |-> LimitValue(f, res[OptimumOf[f]].bank) * (100 + Tolerance[f])]

\* Step 6: the data Results start over, empty, under the derived limits.
Constrain ==
  /\ stage = "data"
  /\ IsConstraintApplied
  /\ best' = [best EXCEPT !["data"] =
                [t \in Targets |-> [Reset(best["data"][t]) EXCEPT !.limits = Relaxed(best["data"])]]]
  /\ stage' = "constrained"

\* The search returns.
Finish ==
  /\ \/ stage = "data" /\ ~IsConstraintApplied
     \/ stage = "constrained"
  /\ stage' = "done"
  /\ UNCHANGED best

Next == Offer \/ TagFails \/ TagDone \/ Constrain \/ Finish

\* The search is a finite sweep: it always returns.
Spec == Init /\ [][Next]_vars /\ WF_vars(TagFails \/ TagDone \/ Constrain \/ Finish)

=============================================================================

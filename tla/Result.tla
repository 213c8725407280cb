------------------------------- MODULE Result -------------------------------
(***************************************************************************)
(* The Result / candidate tracker of src/Result.cpp.  A Result couples one *)
(* evaluated bank (abstracted to the metrics compareAndUpdate reads and    *)
(* the structural configuration it was built from), the local and global   *)
(* wire it was evaluated with, and its eight limits.  Metric values are    *)
(* small naturals; the sentinel invalid_value (1e41 in global.h) is the    *)
(* constant InvalidValue, larger than every metric of a valid bank, and    *)
(* its products (EDP of the sentinel) are kept exact.                      *)
(***************************************************************************)
EXTENDS Integers

CONSTANTS
  InvalidValue,   \* invalid_value of global.h
  NoConfig        \* model value: the configuration of a Result never updated

ASSUME InvalidValue \in Nat \ {0}

\* enum OptimizationTarget of typedef.h, without full_exploration.
Targets == {"read_latency_optimized", "write_latency_optimized",
            "read_energy_optimized", "write_energy_optimized",
            "read_edp_optimized", "write_edp_optimized",
            "leakage_optimized", "area_optimized"}

\* The bank fields compareAndUpdate reads (FunctionUnit.h).
MetricFields == {"readLatency", "writeLatency", "readDynamicEnergy",
                 "writeDynamicEnergy", "area", "leakage"}

\* The bank of a fresh Result: every metric is the sentinel (Result()).
SentinelBank == [f \in MetricFields |-> InvalidValue]

\* The eight limits; a limit is stored times 100 so that the percentage
\* tolerances of the constrained search stay exact: x <= lim/100.
LimitFields == {"readLatency", "writeLatency", "readDynamicEnergy",
                "writeDynamicEnergy", "readEdp", "writeEdp", "area", "leakage"}

NoLimits == [f \in LimitFields |-> 100 * InvalidValue]

\* Result::Result(): sentinel bank, no constraints, default target.
NewResult(target) ==
  [optimizationTarget |-> target, cfg |-> NoConfig,
   localWire |-> NoConfig, globalWire |-> NoConfig,
   bank |-> SentinelBank, limits |-> NoLimits]

\* Result::reset(): the bank metrics back to the sentinel; the bank's
\* configuration, the wires and the limits are kept.
Reset(r) == [r EXCEPT !.bank = SentinelBank]

\* The quantity a limit bounds, for a bank b.
LimitValue(f, b) ==
  CASE f = "readEdp"  -> b.readLatency * b.readDynamicEnergy
    [] f = "writeEdp" -> b.writeLatency * b.writeDynamicEnergy
    [] OTHER          -> b[f]

\* The metric compared for each optimization target (the switch in
\* compareAndUpdate).
Metric(t, b) ==
  CASE t = "read_latency_optimized"  -> b.readLatency
    [] t = "write_latency_optimized" -> b.writeLatency
    [] t = "read_energy_optimized"   -> b.readDynamicEnergy
    [] t = "write_energy_optimized"  -> b.writeDynamicEnergy
    [] t = "read_edp_optimized"      -> b.readLatency * b.readDynamicEnergy
    [] t = "write_edp_optimized"     -> b.writeLatency * b.writeDynamicEnergy
    [] t = "area_optimized"          -> b.area
    [] t = "leakage_optimized"       -> b.leakage

\* The guard of compareAndUpdate: every metric of the challenger within the
\* incumbent's limits.
WithinLimits(lim, b) == \A f \in LimitFields : 100 * LimitValue(f, b) <= lim[f]

\* Strict improvement of the tracked metric: a tie keeps the incumbent.
ImprovesOrTie(t, new, old) == Metric(t, new) <= Metric(t, old)

Improves(t, new, old) == Metric(t, new) < Metric(t, old)

\* The value compareAndUpdate returns.
ToUpdate(r, new) ==
  /\ WithinLimits(r.limits, new.bank)
  /\ Improves(r.optimizationTarget, new.bank, r.bank)

\* Result::compareAndUpdate: on update the bank and both wires are copied;
\* the target and the limits of the incumbent are kept.
CompareAndUpdate(r, new) ==
  IF ToUpdate(r, new)
  THEN [r EXCEPT !.cfg = new.cfg, !.localWire = new.localWire,
                 !.globalWire = new.globalWire, !.bank = new.bank]
  ELSE r

=============================================================================

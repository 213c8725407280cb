---------------------------- MODULE SearchDriver ----------------------------
(***************************************************************************)
(* The search driver nvsim() of src/main.cpp for one memory-cell type:     *)
(* the tag-array sweep and its wire refinement (cache designs only), the   *)
(* data-array sweep and its wire refinement, and the constrained re-search *)
(* of the data array.                                                      *)
(*                                                                         *)
(* The analytic estimator (Bank -> Mat -> SubArray -> leaf circuits) is a  *)
(* deterministic function of the array kind, the structural configuration *)
(* and the two wires.  The model does not compute it: the first time a     *)
(* candidate is evaluated its outcome is chosen among Outcomes and Invalid *)
(* and recorded in `estimate`, and every later evaluation of the same      *)
(* candidate returns the recorded outcome.  Invalid stands for every way   *)
(* the candidate is dropped: the too-aggressive-partitioning `continue`,   *)
(* bank->invalid after CALCULATE, and a failed capacity verification.      *)
(***************************************************************************)
EXTENDS Result, Sequences, SequencesExt

CONSTANTS
  Configs,          \* the structural configurations in the order BIGFOR visits them
  LocalWires,       \* local wire styles in the order REFINE_LOCAL_WIRE_FORLOOP visits them
  GlobalWires,      \* global wire styles in the order REFINE_GLOBAL_WIRE_FORLOOP visits them
  Outcomes,         \* the metric records a valid candidate can have
  Invalid,          \* model value: the candidate is not a solution
  Unevaluated,      \* model value: the candidate has not been evaluated yet
  IsCache,          \* inputParameter->designTarget == cache
  IsConstraintApplied,  \* inputParameter->isConstraintApplied
  Tolerance,        \* the percentage constraints (readLatencyConstraint ... writeEdpConstraint)
  DieCount,         \* the stackedDieCount of each configuration
  InitialLayers     \* the layer count of the technology before any SetLayerCount

ASSUME Outcomes \subseteq [MetricFields -> 1..(InvalidValue - 1)]
\* A valid bank is below the sentinel in every limited quantity, EDPs included.
ASSUME \A o \in Outcomes : \A f \in LimitFields : LimitValue(f, o) < InvalidValue
ASSUME Tolerance \in [LimitFields -> Nat]
ASSUME Len(LocalWires) > 0 /\ Len(GlobalWires) > 0
ASSUME DieCount \in [ToSet(Configs) -> Nat \ {0}] /\ InitialLayers \in Nat \ {0}

\* The targets in the order of the `for (i = 0; i < full_exploration; i++)`
\* loops (enum OptimizationTarget).
TargetOrder == <<"read_latency_optimized", "write_latency_optimized",
                 "read_energy_optimized", "write_energy_optimized",
                 "read_edp_optimized", "write_edp_optimized",
                 "leakage_optimized", "area_optimized">>

\* INITIAL_BASIC_WIRE: the sweeps evaluate every configuration with the
\* basic local and global wire.
BasicLocalWire  == LocalWires[1]
BasicGlobalWire == GlobalWires[1]

Kinds == {"tag", "data"}

\* The layer counts the technology's TSV parameters can be computed for.
Layers == Range(DieCount) \cup {InitialLayers}

\* An estimate depends on the configuration, the two wires and, through the
\* TSV array a stacked bank instantiates, on the technology's layer count.
Candidates == Kinds \X ToSet(Configs) \X ToSet(LocalWires) \X ToSet(GlobalWires) \X Layers

\* The layer count a configuration's TSVs are estimated with when the
\* technology has layers: a bank of one die has no TSV array.
TsvLayers(c, layers) == IF DieCount[c] > 1 THEN layers ELSE InitialLayers

VARIABLES
  phase,        \* where nvsim() is
  idx,          \* index of the running loop: configuration or wire style
  tgt,          \* index into TargetOrder of the refinement's inner loop
  bestTag,      \* bestTagResults[0..7]
  bestData,     \* bestDataResults[0..7]
  numSolution,  \* numSolution
  localWire,    \* the global variable localWire
  globalWire,   \* the global variable globalWire
  techLayers,   \* tech->layerCount, the layers the TSV parameters are computed for
  estimate,     \* outcome of every candidate evaluated so far
  seen,         \* history: the solutions of the running sweep, in order
  optimum       \* history: bestDataResults when the constraint is applied

vars == <<phase, idx, tgt, bestTag, bestData, numSolution, localWire,
          globalWire, techLayers, estimate, seen, optimum>>

Phases == {"tagSearch", "tagRefineLocal", "tagRefineGlobal", "dataSearch",
           "dataRefineLocal", "dataRefineGlobal",
           "constrainedSearch", "done", "failed"}

SearchPhases == {"tagSearch", "dataSearch", "constrainedSearch"}
RefinePhases == {"tagRefineLocal", "tagRefineGlobal",
                 "dataRefineLocal", "dataRefineGlobal"}

\* The array kind a phase works on.
KindOf(p) == IF p \in {"tagSearch", "tagRefineLocal", "tagRefineGlobal"}
             THEN "tag" ELSE "data"

\* A Result holding the evaluated candidate (tempResult in the macros).
Candidate(c, lw, gw, o) ==
  [optimizationTarget |-> "read_latency_optimized", cfg |-> c,
   localWire |-> lw, globalWire |-> gw, bank |-> o, limits |-> NoLimits]

\* Evaluating a candidate (CALCULATE): its recorded outcome, or any outcome
\* the first time; Record stores the outcome that was used.
Evaluate(key) ==
  IF estimate[key] # Unevaluated THEN {estimate[key]} ELSE Outcomes \cup {Invalid}

Record(key, o) == estimate' = [estimate EXCEPT ![key] = o]

\* UPDATE_BEST_TAG / UPDATE_BEST_DATA: offer the solution to all eight Results.
UpdateBestSkipLast(best, cand) ==
  [t \in Targets |-> IF t = "area_optimized" THEN best[t]
                     ELSE CompareAndUpdate(best[t], cand)]

UpdateBest(best, cand) == [t \in Targets |-> CompareAndUpdate(best[t], cand)]

-----------------------------------------------------------------------------
(***************************************************************************)
(* Initial state: the Result arrays as nvsim() sets them up, the wires at  *)
(* their basic style, the first sweep about to start.                      *)
(***************************************************************************)
Init ==
  /\ phase = IF IsCache THEN "tagSearch" ELSE "dataSearch"
  /\ idx = 1
  /\ tgt = 1
  /\ bestTag = [t \in Targets |-> NewResult(t)]
  /\ bestData = [t \in Targets |-> NewResult(t)]
  /\ numSolution = 0
  /\ localWire = BasicLocalWire
  /\ globalWire = BasicGlobalWire
  /\ techLayers = InitialLayers
  /\ estimate = [k \in Candidates |-> Unevaluated]
  /\ seen = <<>>
  /\ optimum = [t \in Targets |-> NewResult(t)]

\* The test that admits a sweep's candidate as a solution: a valid bank
\* and, in the constrained sweep, within every allowed limit.
IsSolutionUnfiltered(o) == o # Invalid

IsSolution(o) ==
  /\ o # Invalid
  /\ phase = "constrainedSearch" =>
       WithinLimits(bestData["read_latency_optimized"].limits, o)

(***************************************************************************)
(* One iteration of a BIGFOR body: CALCULATE the bank of the current       *)
(* configuration, and if it is a solution count it and offer it to every   *)
(* Result.  The constrained sweep also drops candidates outside the        *)
(* allowed limits, which APPLY_LIMIT stored in every bestData limit.       *)
(***************************************************************************)
SweepStep ==
  /\ phase \in SearchPhases
  /\ idx <= Len(Configs)
  /\ LET kind == KindOf(phase)
         c    == Configs[idx]
         \* tech->SetLayerCount(inputParameter, stackedDieCount) heads the
         \* tag BIGFOR body only.
         layers == IF kind = "tag" THEN DieCount[c] ELSE techLayers
         key  == <<kind, c, localWire, globalWire, TsvLayers(c, layers)>>
     IN \E o \in Evaluate(key) :
          LET cand == Candidate(c, localWire, globalWire, o)
          IN /\ Record(key, o)
             /\ techLayers' = layers
             /\ IF IsSolution(o)
                THEN /\ numSolution' = numSolution + 1
                     /\ seen' = Append(seen, cand)
                     /\ IF kind = "tag"
                        THEN /\ bestTag' = UpdateBest(bestTag, cand)
                             /\ UNCHANGED bestData
                        ELSE /\ bestData' = UpdateBest(bestData, cand)
                             /\ UNCHANGED bestTag
                ELSE UNCHANGED <<numSolution, seen, bestTag, bestData>>
  /\ idx' = idx + 1
  /\ UNCHANGED <<phase, tgt, localWire, globalWire, optimum>>

TagSearchFailsUnchecked ==
  /\ phase = "tagSearch"
  /\ idx > Len(Configs)
  /\ phase' = "failed"
  /\ UNCHANGED <<idx, tgt, bestTag, bestData, numSolution, localWire,
                 globalWire, techLayers, estimate, seen, optimum>>

\* The tag sweep is over and found nothing: nvsim() returns 1.
TagSearchFails ==
  /\ phase = "tagSearch"
  /\ idx > Len(Configs)
  /\ numSolution = 0
  /\ phase' = "failed"
  /\ UNCHANGED <<idx, tgt, bestTag, bestData, numSolution, localWire,
                 globalWire, techLayers, estimate, seen, optimum>>

\* A sweep with solutions is followed by the refinement of the local wire.
StartRefinement ==
  /\ phase \in {"tagSearch", "dataSearch"}
  /\ idx > Len(Configs)
  /\ numSolution > 0
  /\ phase' = IF phase = "tagSearch" THEN "tagRefineLocal" ELSE "dataRefineLocal"
  /\ idx' = 1
  /\ tgt' = 1
  /\ UNCHANGED <<bestTag, bestData, numSolution, localWire, globalWire,
                 techLayers, estimate, seen, optimum>>

\* TRY_AND_UPDATE: the Result's configuration evaluated with the trial wires
\* is offered to that Result; an invalid trial bank leaves it alone.
RefineTrial(r, lw, gw, o) ==
  IF o = Invalid THEN r
  ELSE CompareAndUpdate(r, Candidate(r.cfg, lw, gw, o))

(***************************************************************************)
(* One inner iteration of REFINE_LOCAL_WIRE_FORLOOP or                     *)
(* REFINE_GLOBAL_WIRE_FORLOOP: the wire under refinement is set to the     *)
(* style of the outer loop, the other wire is loaded from the Result       *)
(* (LOAD_GLOBAL_WIRE / LOAD_LOCAL_WIRE), and TRY_AND_UPDATE re-evaluates   *)
(* the Result's configuration with those wires and offers the trial bank   *)
(* to that Result only.                                                    *)
(***************************************************************************)
RefineStep ==
  /\ phase \in RefinePhases
  /\ LET kind  == KindOf(phase)
         isLocal == phase \in {"tagRefineLocal", "dataRefineLocal"}
         wires == IF isLocal THEN LocalWires ELSE GlobalWires
         t     == TargetOrder[tgt]
         best  == IF kind = "tag" THEN bestTag ELSE bestData
         r     == best[t]
         lw    == IF isLocal THEN wires[idx] ELSE r.localWire
         gw    == IF isLocal THEN r.globalWire ELSE wires[idx]
         key   == <<kind, r.cfg, lw, gw, TsvLayers(r.cfg, techLayers)>>
     IN /\ idx <= Len(wires)
        /\ localWire' = lw
        /\ globalWire' = gw
        /\ \E o \in Evaluate(key) :
             /\ Record(key, o)
             /\ IF kind = "tag"
                THEN /\ bestTag' = [bestTag EXCEPT ![t] = RefineTrial(r, lw, gw, o)]
                     /\ UNCHANGED bestData
                ELSE /\ bestData' = [bestData EXCEPT ![t] = RefineTrial(r, lw, gw, o)]
                     /\ UNCHANGED bestTag
        /\ IF tgt < Len(TargetOrder)
           THEN /\ tgt' = tgt + 1
                /\ idx' = idx
           ELSE /\ tgt' = 1
                /\ idx' = idx + 1
  /\ UNCHANGED <<phase, numSolution, techLayers, seen, optimum>>

\* The local-wire loop is over: the global-wire loop starts.
StartGlobalRefinementLate ==
  /\ phase \in {"tagRefineLocal", "dataRefineLocal"}
  /\ idx > Len(LocalWires) + 1
  /\ phase' = IF phase = "tagRefineLocal" THEN "tagRefineGlobal" ELSE "dataRefineGlobal"
  /\ idx' = 1
  /\ tgt' = 1
  /\ UNCHANGED <<bestTag, bestData, numSolution, localWire, globalWire,
                 techLayers, estimate, seen, optimum>>

StartGlobalRefinement ==
  /\ phase \in {"tagRefineLocal", "dataRefineLocal"}
  /\ idx > Len(LocalWires)
  /\ phase' = IF phase = "tagRefineLocal" THEN "tagRefineGlobal" ELSE "dataRefineGlobal"
  /\ idx' = 1
  /\ tgt' = 1
  /\ UNCHANGED <<bestTag, bestData, numSolution, localWire, globalWire,
                 techLayers, estimate, seen, optimum>>

\* A sweep starts: numSolution = 0 and INITIAL_BASIC_WIRE.
RestartSweepKeepWires ==
  /\ idx' = 1
  /\ numSolution' = 0
  /\ seen' = <<>>
  /\ UNCHANGED <<localWire, globalWire>>

RestartSweepKeepCount ==
  /\ idx' = 1
  /\ localWire' = BasicLocalWire
  /\ globalWire' = BasicGlobalWire
  /\ seen' = <<>>
  /\ UNCHANGED numSolution

RestartSweep ==
  /\ idx' = 1
  /\ numSolution' = 0
  /\ localWire' = BasicLocalWire
  /\ globalWire' = BasicGlobalWire
  /\ seen' = <<>>

(***************************************************************************)
(* The tag array has solutions and is refined: numSolution is cleared, the *)
(* search space restored, the data block and capacity derived, and the     *)
(* data sweep starts from the basic wires (INITIAL_BASIC_WIRE).            *)
(***************************************************************************)
StartDataSearch ==
  /\ phase = "tagRefineGlobal"
  /\ idx > Len(GlobalWires)
  /\ phase' = "dataSearch"
  /\ RestartSweep
  /\ UNCHANGED <<tgt, bestTag, bestData, techLayers, estimate, optimum>>

\* The data array is searched (and refined when it had solutions).
DataSearchOver ==
  \/ phase = "dataSearch" /\ idx > Len(Configs) /\ numSolution = 0
  \/ phase = "dataRefineGlobal" /\ idx > Len(GlobalWires)

\* No design constraint: nvsim() returns 0.
Finish ==
  /\ DataSearchOver
  /\ ~IsConstraintApplied
  /\ phase' = "done"
  /\ UNCHANGED <<idx, tgt, bestTag, bestData, numSolution, localWire,
                 globalWire, techLayers, estimate, seen, optimum>>

\* The allowed value of each limit: the optimum of that metric, relaxed by
\* its tolerance (allowedDataReadLatency ... allowedDataWriteEdp), times 100.
LimitTarget ==
  [readLatency |-> "read_latency_optimized", writeLatency |-> "write_latency_optimized",
   readDynamicEnergy |-> "read_energy_optimized", writeDynamicEnergy |-> "write_energy_optimized",
   readEdp |-> "read_edp_optimized", writeEdp |-> "write_edp_optimized",
   area |-> "area_optimized", leakage |-> "leakage_optimized"]

AllowedNoTolerance(best) ==
  [f \in LimitFields |-> LimitValue(f, best[LimitTarget[f]].bank) * 100]

Allowed(best) ==
  [f \in LimitFields |-> LimitValue(f, best[LimitTarget[f]].bank) * (100 + Tolerance[f])]

(***************************************************************************)
(* The design constraint is applied: the allowed limits are computed from  *)
(* the optima found, APPLY_LIMIT resets every data Result and gives it     *)
(* those limits, and the data sweep runs again from the basic wires.       *)
(***************************************************************************)
ApplyDesignConstraint ==
  /\ DataSearchOver
  /\ IsConstraintApplied
  /\ LET allowed == Allowed(bestData)
     IN bestData' = [t \in Targets |-> [Reset(bestData[t]) EXCEPT !.limits = allowed]]
  /\ optimum' = bestData
  /\ phase' = "constrainedSearch"
  /\ RestartSweep
  /\ UNCHANGED <<tgt, bestTag, techLayers, estimate>>

\* The constrained sweep is over: nvsim() returns 0.
ConstrainedSearchOverLate ==
  /\ phase = "constrainedSearch"
  /\ idx > Len(Configs) + 1
  /\ phase' = "done"
  /\ UNCHANGED <<idx, tgt, bestTag, bestData, numSolution, localWire,
                 globalWire, techLayers, estimate, seen, optimum>>

ConstrainedSearchOver ==
  /\ phase = "constrainedSearch"
  /\ idx > Len(Configs)
  /\ phase' = "done"
  /\ UNCHANGED <<idx, tgt, bestTag, bestData, numSolution, localWire,
                 globalWire, techLayers, estimate, seen, optimum>>

Next ==
  \/ SweepStep
  \/ TagSearchFails
  \/ StartRefinement
  \/ RefineStep
  \/ StartGlobalRefinement
  \/ StartDataSearch
  \/ Finish
  \/ ApplyDesignConstraint
  \/ ConstrainedSearchOver

\* nvsim() is a single-threaded loop nest that never blocks: every enabled
\* step is eventually taken.
Spec == Init /\ [][Next]_vars /\ WF_vars(Next)

-----------------------------------------------------------------------------
(***************************************************************************)
(* Properties                                                              *)
(***************************************************************************)
ResultType ==
  [optimizationTarget : Targets,
   cfg : ToSet(Configs) \cup {NoConfig},
   localWire : ToSet(LocalWires) \cup {NoConfig},
   globalWire : ToSet(GlobalWires) \cup {NoConfig},
   bank : Outcomes \cup {SentinelBank},
   limits : [LimitFields -> Nat]]

TypeOK ==
  /\ phase \in Phases
  /\ idx \in 1..(Max({Len(Configs), Len(LocalWires), Len(GlobalWires)}) + 1)
  /\ tgt \in 1..Len(TargetOrder)
  /\ bestTag \in [Targets -> ResultType]
  /\ bestData \in [Targets -> ResultType]
  /\ optimum \in [Targets -> ResultType]
  /\ numSolution \in 0..Len(Configs)
  /\ localWire \in ToSet(LocalWires)
  /\ globalWire \in ToSet(GlobalWires)
  /\ techLayers \in Layers
  /\ estimate \in [Candidates -> Outcomes \cup {Invalid, Unevaluated}]
  /\ seen \in Seq(ResultType)

\* Reference definition of the winner of a sweep for target t under limits
\* lim: among the solutions s within the limits, the one of least metric,
\* the earliest among equals; None when there is none.
None == [cfg |-> NoConfig]
FirstBest(t, lim, s) ==
  LET ok == {i \in 1..Len(s) : WithinLimits(lim, s[i].bank)}
      m(i) == Metric(t, s[i].bank)
  IN IF ok = {} THEN None
     ELSE s[CHOOSE i \in ok : \A j \in ok : m(i) < m(j) \/ (m(i) = m(j) /\ i <= j)]

(***************************************************************************)
(* During every sweep (tag, data, constrained data) each of the eight      *)
(* Results holds exactly the first solution so far that is within its      *)
(* limits and minimises its target's metric: compareAndUpdate, applied one *)
(* candidate at a time by UPDATE_BEST_*, computes the earliest-wins argmin *)
(* of the sweep (spec: first-found wins, a tie never displaces it).        *)
(***************************************************************************)
BestIsFirstMinimum ==
  phase \in SearchPhases =>
    LET best == IF KindOf(phase) = "tag" THEN bestTag ELSE bestData
    IN \A t \in Targets :
         LET f == FirstBest(t, best[t].limits, seen)
         IN IF f = None
            THEN best[t].bank = SentinelBank
            ELSE /\ best[t].bank = f.bank
                 /\ best[t].cfg = f.cfg
                 /\ best[t].localWire = f.localWire
                 /\ best[t].globalWire = f.globalWire

(***************************************************************************)
(* The constrained re-search never finds, for any target, a design better  *)
(* than the optimum the unconstrained search and its wire refinement had   *)
(* already found: it revisits the same configurations with the basic       *)
(* wires, so anything better would be a candidate the first search         *)
(* missed or evaluated with wires the sweep does not use.                  *)
(***************************************************************************)
ConstrainedNeverBeatsOptimum ==
  phase = "constrainedSearch" \/ (phase = "done" /\ IsConstraintApplied) =>
    \A t \in Targets :
      bestData[t].bank # SentinelBank =>
        Metric(t, bestData[t].bank) >= Metric(t, optimum[t].bank)

(***************************************************************************)
(* When nvsim() returns, the solution count main() uses to decide between  *)
(* printing a Result and "No valid solutions" agrees with the Results:     *)
(* there are solutions exactly when every data Result holds a real bank    *)
(* rather than the sentinel.                                               *)
(***************************************************************************)
SolutionsAreReported ==
  phase = "done" =>
    (numSolution > 0 <=> \A t \in Targets : bestData[t].bank # SentinelBank)

(***************************************************************************)
(* Every Result holds the bank its own design evaluates to: the estimate  *)
(* of its configuration with its wires and with the TSV parameters of its  *)
(* own stackedDieCount.  The technology's layer count is set only at the   *)
(* head of the tag BIGFOR body (tech->SetLayerCount), so the tag           *)
(* refinement and the data sweeps estimate with whatever layer count the   *)
(* last tag configuration left.                                            *)
(***************************************************************************)
ResultsReproducible ==
  \A k \in Kinds, t \in Targets :
    LET r == IF k = "tag" THEN bestTag[t] ELSE bestData[t]
    IN r.bank # SentinelBank =>
         estimate[<<k, r.cfg, r.localWire, r.globalWire,
                    TsvLayers(r.cfg, DieCount[r.cfg])>>] = r.bank

\* The search of one cell type always returns.
Terminates == <>(phase \in {"done", "failed"})

\* The stage of the abstract search that a phase of nvsim() belongs to.
StageOf(p) ==
  CASE p \in {"tagSearch", "tagRefineLocal", "tagRefineGlobal"}    -> "tag"
    [] p \in {"dataSearch", "dataRefineLocal", "dataRefineGlobal"} -> "data"
    [] p = "constrainedSearch"                                     -> "constrained"
    [] OTHER                                                       -> p

Abstract == INSTANCE BestSoFar
              WITH stage <- StageOf(phase),
                   best  <- [k \in Kinds |-> IF k = "tag" THEN bestTag ELSE bestData]

(***************************************************************************)
(* nvsim() implements the search the spec describes (module BestSoFar):    *)
(* its sweeps, wire refinements, tag failure, constraint and return are    *)
(* each a step of the abstract search or leave it unchanged.  So a Result  *)
(* changes only to a design within its limits that strictly improves its  *)
(* target, every Result that changes in one step takes the same design,    *)
(* the Results of the array not being searched never change, the tag       *)
(* search fails only with every tag Result empty, the constrained limits   *)
(* are the optima relaxed by the tolerances, and the search returns.       *)
(***************************************************************************)
ImplementsBestSoFar == Abstract!Spec

=============================================================================

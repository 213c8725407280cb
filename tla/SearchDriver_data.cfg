\* Non-cache design with a design constraint: data sweep, data wire
\* refinement, constrained re-search.
CONSTANTS
  InvalidValue = 10
  NoConfig = NoConfig
  Invalid = Invalid
  Unevaluated = Unevaluated
  c1 = c1
  c2 = c2
  c3 = c3
  lw1 = lw1
  lw2 = lw2
  gw1 = gw1
  gw2 = gw2
  Configs <- MCConfigs
  LocalWires <- MCLocalWires
  GlobalWires <- MCGlobalWires
  Outcomes <- MCOutcomes
  Tolerance <- MCTolerance
  DieCount <- MCOneDie
  InitialLayers = 1
  IsCache = FALSE
  IsConstraintApplied = TRUE

SPECIFICATION Spec

INVARIANT TypeOK
INVARIANT BestIsFirstMinimum
INVARIANT ConstrainedNeverBeatsOptimum
INVARIANT SolutionsAreReported
PROPERTY Terminates
PROPERTY ImplementsBestSoFar

\* nvsim() returns: the final states have no successor.
CHECK_DEADLOCK FALSE

\* Cache design without a design constraint: tag sweep and refinement
\* (or failure), data sweep and refinement.
CONSTANTS
  InvalidValue = 10
  NoConfig = NoConfig
  Invalid = Invalid
  Unevaluated = Unevaluated
  c1 = c1
  c2 = c2
  c3 = c3
  lw1 = lw1
  lw2 = lw2
  gw1 = gw1
  gw2 = gw2
  Configs <- MCCacheConfigs
  LocalWires <- MCLocalWires
  GlobalWires <- MCCacheGlobalWires
  Outcomes <- MCOutcomes
  Tolerance <- MCTolerance
  DieCount <- MCOneDie
  InitialLayers = 1
  IsCache = TRUE
  IsConstraintApplied = FALSE

SPECIFICATION Spec

INVARIANT BestIsFirstMinimum

PROPERTY Terminates
PROPERTY ImplementsBestSoFar

\* nvsim() returns: the final states have no successor.
CHECK_DEADLOCK FALSE

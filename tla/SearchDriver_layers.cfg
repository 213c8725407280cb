\* Cache design without constraint, where configuration c1 is stacked on
\* two dies and c2 is not: the tag sweep sets the technology's layer count
\* per configuration, the tag refinement and the data sweep do not.
CONSTANTS
  InvalidValue = 10
  NoConfig = NoConfig
  Invalid = Invalid
  Unevaluated = Unevaluated
  c1 = c1
  c2 = c2
  c3 = c3
  lw1 = lw1
  lw2 = lw2
  gw1 = gw1
  gw2 = gw2
  Configs <- MCCacheConfigs
  LocalWires <- MCLocalWires
  GlobalWires <- MCCacheGlobalWires
  Outcomes <- MCOutcomes
  Tolerance <- MCTolerance
  DieCount <- MCStacked
  InitialLayers = 1
  IsCache = TRUE
  IsConstraintApplied = FALSE

SPECIFICATION Spec

INVARIANT ResultsReproducible

\* nvsim() returns: the final states have no successor.
CHECK_DEADLOCK FALSE

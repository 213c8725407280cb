\* Two cell types, cache design without constraint: the reduction across
\* cells, with the tag Result following the data Result, and the print decision.
CONSTANTS
  InvalidValue = 10
  NoConfig = NoConfig
  Invalid = Invalid
  Unevaluated = Unevaluated
  c1 = c1
  c2 = c2
  lw1 = lw1
  lw2 = lw2
  gw1 = gw1
  Configs <- MCCacheConfigs
  LocalWires <- MCLocalWires
  GlobalWires <- MCGlobalWires
  Outcomes <- MCOutcomes
  Tolerance <- MCToleranceReadOnly
  DieCount <- MCOneDie
  InitialLayers = 1
  IsCache = TRUE
  IsConstraintApplied = FALSE
  NumCells = 2
  OptTarget = "read_latency_optimized"
  PrintAllOptimals = TRUE
  TagTechChoices = {FALSE, TRUE}

SPECIFICATION Spec

INVARIANT BestAcrossCells
INVARIANT SolutionsArePrinted


\* main() returns after printing: the final state has no successor.
CHECK_DEADLOCK FALSE

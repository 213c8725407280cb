\* Two cell types, RAM design with only a 0% read-latency constraint: the
\* print decision after the reduction across cells.
CONSTANTS
  InvalidValue = 10
  NoConfig = NoConfig
  Invalid = Invalid
  Unevaluated = Unevaluated
  c1 = c1
  c2 = c2
  lw1 = lw1
  lw2 = lw2
  gw1 = gw1
  Configs <- MCConfigs
  LocalWires <- MCLocalWires
  GlobalWires <- MCGlobalWires
  Outcomes <- MCOutcomes
  Tolerance <- MCToleranceReadOnly
  DieCount <- MCOneDie
  InitialLayers = 1
  IsCache = FALSE
  IsConstraintApplied = TRUE
  NumCells = 2
  OptTarget = "read_latency_optimized"
  PrintAllOptimals = FALSE
  TagTechChoices = {FALSE}

SPECIFICATION Spec


INVARIANT PrintedIsReal

\* main() returns after printing: the final state has no successor.
CHECK_DEADLOCK FALSE

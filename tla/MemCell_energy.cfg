CONSTANTS
  Vdd = 1
  VoltageTokens = {"vdd", "2"}
  MaxLines = 4
  InputTemperature = 350
SPECIFICATION Spec
INVARIANT CellAsDescribed
CHECK_DEADLOCK FALSE

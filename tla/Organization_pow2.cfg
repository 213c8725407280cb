\* Associativities 1..16 in every mode, rows per set 1, 2 or 4.
CONSTANTS
  MaxAssociativity = 16
  RowsPerSet = {1, 2, 4}
  ActiveCounts = {1, 2, 4}
  Capacity = 1024
  WordWidth = 64
SPECIFICATION Spec
INVARIANT PowerOfTwoWaysContained
INVARIANT PowerOfTwoTagWaysContained
\* Initialize has run: the organization of one candidate is fixed.
CHECK_DEADLOCK FALSE

\* Every process node from below the table to beyond it.
CONSTANT Nodes = {20, 22, 32, 40, 45, 65, 90, 100, 120, 150, 180, 200, 250}
SPECIFICATION Spec
INVARIANT InterpolatesBetweenNeighbours
\* main() goes on to the cell loop; the model stops after the interpolation.
CHECK_DEADLOCK FALSE

CONSTANTS
  NumRows = {8, 9}
  AddressBits = {1, 2, 3}
  MaxInits = 3
SPECIFICATION Spec
INVARIANT ValidRowDecoderComputed
INVARIANT DecoderFollowsDriver
CHECK_DEADLOCK FALSE

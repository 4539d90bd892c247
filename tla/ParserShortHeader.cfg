SPECIFICATION Spec

CONSTANTS
  Mark = 5
  WordLen = 2
  PointerSize = 2
  Garbage = {0, 2, 5}
  Payloads <- MCPayloads
  MaxStream = 4

INVARIANTS
  NothingThrown

CHECK_DEADLOCK FALSE

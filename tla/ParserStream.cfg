SPECIFICATION Spec

CONSTANTS
  Mark = 5
  WordLen = 2
  PointerSize = 2
  Garbage = {0, 3, 5}
  Payloads <- MCPayloads
  MaxStream = 8

INVARIANTS
  TypeOK
  TmpIsFront
  ChunkingIrrelevant
  PreparedArrive

PROPERTIES
  PutReturns

CHECK_DEADLOCK FALSE

SPECIFICATION Spec

CONSTANTS
  Descr = 3
  Size = 2
  MaxDatagrams = 2
  MaxWire = 6

INVARIANTS
  TypeOK
  FailStop
  FailureSticks
  WholeInOrder
  NoLeak
  OnlyRacingCallsStray

CHECK_DEADLOCK FALSE

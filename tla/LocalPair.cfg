SPECIFICATION Spec

CONSTANTS
  Parents = {p1}
  Children = {c1, c2}
  Senders = {p1, c1}
  MaxDatagrams = 2
  QueueLength = 1
  MaxObjects = 3
  MaxUpsets = 2
  Free = Free
  Stdin = Stdin

INVARIANTS
  TypeOK
  NoLeak
  OnePlace
  InOrder
  TakesOver

CHECK_DEADLOCK FALSE

PROPERTIES
  DeliveredInTheEnd
  FailureEndsWorker

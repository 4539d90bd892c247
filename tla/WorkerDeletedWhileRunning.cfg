SPECIFICATION Spec

CONSTANTS
  Deleters = {"owner_anytime"}
  QueueSize = 1
  MaxRead = 1
  MaxWrite = 1
  MaxChunk = 1

INVARIANTS
  SocketOutlivesThreads

CHECK_DEADLOCK FALSE

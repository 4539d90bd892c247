SPECIFICATION Spec

CONSTANTS
  Deleters = {"callback"}
  QueueSize = 1
  MaxRead = 1
  MaxWrite = 1
  MaxChunk = 1

INVARIANTS
  StartOnLiveObject

CHECK_DEADLOCK FALSE

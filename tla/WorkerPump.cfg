SPECIFICATION Spec

CONSTANTS
  Deleters = {"callback", "owner_when_stopped", "nobody"}
  QueueSize = 2
  MaxRead = 3
  MaxWrite = 3
  MaxChunk = 2

INVARIANTS
  TypeOK
  WriteExactlyOnce
  ParserDeliversAll
  EndsForCause
  NoUseAfterDestroy

PROPERTIES
  
  DeleteCompletes

CHECK_DEADLOCK FALSE

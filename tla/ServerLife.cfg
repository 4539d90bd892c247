SPECIFICATION NetworkSpec

CONSTANTS
  ListenTypes = {"TCPSERVER_BLOCKED", "TCPSERVER_UNBLOCKED", "TCPSERVER_TIMED"}
  Clients = {1, 2, 3}
  MaxFailures = 1
  MaxCalls = 2
  NoSocket = NoSocket

INVARIANTS
  TypeOK
  NoUseAfterDestroy
  
  StatusTellsTruth

PROPERTIES
  
  StopEnds
  DestroyCompletes
  

CHECK_DEADLOCK FALSE

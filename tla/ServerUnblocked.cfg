SPECIFICATION Spec

CONSTANTS
  ListenTypes = {"TCPSERVER_UNBLOCKED"}
  Clients = {c1}
  MaxFailures = 0
  NoSocket = NoSocket

PROPERTIES
  EveryConnectionServed

CHECK_DEADLOCK FALSE

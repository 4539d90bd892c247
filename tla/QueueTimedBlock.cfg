SPECIFICATION Spec

CONSTANTS
  TotalCount = 3
  Datagrams = {d1, d2}
  NoData = NoData
  Nobody = Nobody
  Producers = {p1}
  Consumers = {c1, c2}
  ConsumerOps = {"get"}
  WriteMode = "timed"
  ReadMode = "block"

PROPERTIES
  Linearizable
  NoLostWakeup

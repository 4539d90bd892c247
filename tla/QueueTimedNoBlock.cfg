SPECIFICATION Spec

CONSTANTS
  TotalCount = 2
  Datagrams = {d1, d2}
  NoData = NoData
  Nobody = Nobody
  Producers = {p1, p2}
  Consumers = {c1}
  ConsumerOps = {"get", "peek"}
  WriteMode = "timed"
  ReadMode = "noblock"

INVARIANTS
  NoDataRace
  BagsAgreeWithCount
  IInv

PROPERTIES
  Linearizable
  TimedPutReturns

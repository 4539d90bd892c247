SPECIFICATION SubprocessSpec

CONSTANTS
  TotalCount = 2
  Datagrams = {d1, d2}
  NoData = NoData
  Nobody = Nobody
  Reader = reader
  Main = main
  Producers = {reader}
  Consumers = {main}
  ConsumerOps = {"get"}
  WriteMode = "block"
  ReadMode = "noblock"

PROPERTIES
  ReceivedIsProcessed

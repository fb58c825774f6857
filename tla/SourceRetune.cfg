SPECIFICATION LiveSpec
CONSTANTS
  NoDatagram = NoDatagram
  NoSender = NoSender
  Half = 16
  Reordering = TRUE
  Datagrams <- RetuneDatagrams
  Configs <- Mono
  Requests <- RetuneRequests
  BufferSizes = {4}
INVARIANTS StaleOutputBounded StrayOnlyWhenRaced ExpectationIsOwn
PROPERTIES DeafUntilReset StopTerminates RequestAdopted

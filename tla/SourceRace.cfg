SPECIFICATION Spec
CONSTANTS
  NoDatagram = NoDatagram
  NoSender = NoSender
  Half = 16
  Reordering = FALSE
  Datagrams <- LiveDatagrams
  Configs <- Mono
  Requests <- RetuneRequests
  BufferSizes = {4}
INVARIANT NeverDeaf

SPECIFICATION Spec
CONSTANTS
  NoDatagram = NoDatagram
  NoSender = NoSender
  Half = 16
  Reordering = TRUE
  Datagrams <- TimelineDatagrams
  Configs <- Modes
  Requests <- OneRequest
  BufferSizes = {3, 5}
INVARIANT FramesIntact

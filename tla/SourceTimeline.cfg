SPECIFICATION Spec
CONSTANTS
  NoDatagram = NoDatagram
  NoSender = NoSender
  Half = 16
  Reordering = TRUE
  Datagrams <- TimelineDatagrams
  Configs <- AllModes
  Requests <- OneRequest
  BufferSizes = {1, 3, 6}
INVARIANTS TypeOK TimelineAligned PacketInPlace ItemsFit OddOnlyWhenCut
PROPERTIES NeverReplayed

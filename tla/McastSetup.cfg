SPECIFICATION LiveSpec
CONSTANTS
  Targets <- MCTargets
  Ports = {"6004", "1"}
  Interfaces = {"eth1"}
  Announced <- MCAnnounced
  Numeric <- MCNumeric
  DEFAULT_RTP_PORT = "5004"
  MaxFds = 2
  MaxCalls = 3
INVARIANTS DescriptorsAccounted ListensWhereAsked
PROPERTY CallEnds
CHECK_DEADLOCK FALSE

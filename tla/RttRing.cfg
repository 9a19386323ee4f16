SPECIFICATION FairSpec
CONSTANTS
  UpChannels = 1
  SIZE = 3
  WORD = 2
  Offset <- Unaligned
  TRANSFER_BUFFER_SIZE = 2
  RTT_POLL_ROUNDUP = 2
  Period = 1
  ClockSize = 4
  PortSize = 2
  ScantRoom = 0
  NominalRoom = 2
  MaxBytes = 4
  MaxFaults = 1
  MaxLogs = 1
INVARIANT
  RttInOrder
 
CHECK_DEADLOCK FALSE

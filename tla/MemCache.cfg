SPECIFICATION CacheSpec
CONSTANTS
  LINE_SIZE = 2
  Addr <- MCAddr
  Byte <- MCByte
  Hot <- MCHot
  Maps <- MCMaps
  Lengths <- MCLengths
  ReadMayFail = TRUE
INVARIANTS
  
  NothingCachedWhileRunning
  

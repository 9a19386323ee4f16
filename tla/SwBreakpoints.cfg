SPECIFICATION Spec
CONSTANTS
  Addr <- MCAddr
  WORD = 2
  PAGE = 2
  MAX_BREAKPOINTS = 2
  Opcode <- MCOpcode
  BKPT = "bkpt"
  Blank = "blank"
  Mishaps <- Anything
INVARIANTS
  NoStrayBreakpoint
  FlashInsertIsReal
PROPERTY RefusalLeavesCode

SPECIFICATION Spec
CONSTANTS
  Regions <- MCRegions
  BLOCK = 2
  EXTRA_ERASE_SIZES <- MCExtra
  WRITE = 2
  BUF = 2
  Byte = {b1}
  Erased = Erased
  Corrupt = Corrupt
  EraseSizes = {3}
  WriteSizes = {1, 3}
  MaxCalls = 2
  MayDetach = TRUE
INVARIANTS
  CallbacksArePrepared
PROPERTY FlashPromise

SPECIFICATION Spec
CONSTANTS
  Kinds <- AllKinds
  Keys = {"RTT_ADDR", "KEY"}
  Values = {"0", "1"}
  MAX_SETTING_ENTRIES = 1
  OsSymbols = 2
  Lengths = {60, 100}
INVARIANTS
  OneReply
  CustomOnTarget
  SettingsKept
  RegisterMeant
  DocumentRead

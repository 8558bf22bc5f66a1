CONSTANTS
  f1 = f1
  f2 = f2
  File = {f1, f2}
  NoFile = NoFile
  Base <- MCBase
  Alloc <- MCEqualAlloc
  HeapWords = 4
  VLFPS = 3
  VLACTIONS = 2
  U8 = 4
  Action = {a1, a2}
  NullAction = NullAction
  Client = {c1, c2}
  Licence <- Orderly
  StoreLen = {2}
  AppendLen = {1}
  WriteOffset <- NoneOf
  Condition <- OnModded
  MaxDepth = 2
  MaxNow = 1
SPECIFICATION Spec
SYMMETRY Interchange
INVARIANTS
  HandleExclusive
  NoSlotLeak
  ActionsLive
  UserCountExact
PROPERTIES
  LengthNeedsResize
  ModStamped

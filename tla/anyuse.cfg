CONSTANTS
  f1 = f1
  f2 = f2
  File = {f1, f2}
  NoFile = NoFile
  Base <- MCBase
  NullAction = NullAction
  Alloc <- MCEqualAlloc
  HeapWords = 4
  VLFPS = 2
  VLACTIONS = 2
  U8 = 2
  Action = {a1, a2}
  Client = {c1, c2}
  Licence <- AnyUse
  StoreLen = {3}
  AppendLen <- NoneOf
  WriteOffset <- EvenOffsets
  Condition <- OnModded
  MaxDepth = 1
  MaxNow = 0
SPECIFICATION Spec
SYMMETRY Interchange
INVARIANTS
  TypeOK
  HeapIsolated
  LengthWithinAlloc
  ActionUnique
CHECK_DEADLOCK FALSE

CONSTANTS
  f1 = f1
  f2 = f2
  File = {f1, f2}
  NoFile = NoFile
  Base <- MCBase
  NullAction = NullAction
  Alloc <- MCAlloc
  HeapWords = 4
  VLFPS = 2
  VLACTIONS = 1
  U8 = 4
  Action = {a1}
  Client = {c1, c2}
  Licence <- Sharing
  StoreLen = {3}
  AppendLen <- NoneOf
  WriteOffset <- EvenOffsets
  Condition <- OnModded
  MaxDepth = 1
  MaxNow = 0
SPECIFICATION Spec
PROPERTIES
  SessionsSpec

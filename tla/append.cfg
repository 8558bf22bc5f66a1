CONSTANTS
  f1 = f1
  f2 = f2
  File = {f1, f2}
  NoFile = NoFile
  Base <- MCBase
  NullAction = NullAction
  Alloc <- MCAlloc
  HeapWords = 4
  VLFPS = 2
  VLACTIONS = 2
  U8 = 4
  Action = {a1}
  Client = {c1}
  Licence <- Orderly
  StoreLen = {2}
  AppendLen = {2}
  WriteOffset <- NoneOf
  Condition <- OnModded
  MaxDepth = 1
  MaxNow = 0
SPECIFICATION Spec
INVARIANT
  HeapIsolated

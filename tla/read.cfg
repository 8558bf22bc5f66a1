CONSTANTS
  f1 = f1
  f2 = f2
  none = none
  File = {f1, f2}
  Missing = none
  Alloc <- FourBytes
  Lengths = {0, 2}
  Actuator = f1
  Modes <- SomeModes
  Command = {"read"}
  Item <- SomeItems
  MaxItems = 2
  Rooms = {32}
  Backlog = 2
SPECIFICATION Spec
PROPERTIES
  ReadsKeepFiles

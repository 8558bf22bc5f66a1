CONSTANTS
  f1 = f1
  f2 = f2
  none = none
  File = {f1, f2}
  Missing = none
  Alloc <- FourBytes
  Lengths = {0, 2}
  Actuator = f1
  Modes <- SomeModes
  Command = {"perms_read", "perms_write", "read", "both", "overwrite", "write", "headers", "delete", "create", "restore", "return", "actuate"}
  Item <- SomeItems
  MaxItems = 2
  Rooms = {9, 16}
  Backlog = 2
SPECIFICATION Spec
INVARIANTS
  TypeOK
  ReplyCounts
  Consumed
PROPERTIES
  LengthsKept
  ModesKept

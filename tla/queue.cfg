CONSTANTS
  Queues = {"in", "out"}
  Port = {"posix", "c2000"}
  Alloc = 3
  Byte = {0, 1}
  Ints <- SomeInts
  Strings <- SomeStrings
  RewindApart = TRUE
SPECIFICATION Spec
INVARIANTS
  TypeOK
PROPERTIES
  FifoSpec

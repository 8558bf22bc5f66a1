CONSTANTS
  FSID = {1, 2, 3}
  NoID = NoID
  Base = {b1, b2, b3}
  NullBase = NullBase
  Client = {c1, c2}
  VLFPS = 1
  Value = {0, 1}
  Default = 0
SPECIFICATION Spec
SYMMETRY Interchange
INVARIANTS
  ContextTrue
  NoFreedAccess
  BlocksAccounted
  WalkExact
  StaleIsDead
PROPERTIES
  GroupSpec
CHECK_DEADLOCK FALSE

CONSTANTS
  a = a
  b = b
  ra = ra
  rb = rb
  user = user
  Wiped = Wiped
  Device = {a, b}
  Builds <- SomeBuilds
  Key = {ra, rb, user}
  RawKey = {user}
  Stored <- FileKeys
  Rand = {15}
  Base = 2
  Alloc = 13
  Offsets = {1}
  Plains <- SomePlains
  Damage = {8}
  MaxSeals = 2
SPECIFICATION Spec
INVARIANTS
  TypeOK
  NonceFresh
  OpensExact

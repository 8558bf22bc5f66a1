CONSTANTS
  User = {0, 5}
  Key = {k1, k2}
  Wiped = Wiped
  NumElements = 4
  MinLifetime = 2
  Lifetime = {1, 2}
  Modes <- ModesUsed
  TimeMod = 8
  MaxNow = 4
SPECIFICATION Spec
SYMMETRY Interchange
INVARIANTS
  TypeOK
  LookupExact
  LiveUnique
  ExpiredWiped
  LocalKept
  AccessExact

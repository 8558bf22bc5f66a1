CONSTANTS
  t1 = t1
  t2 = t2
  in1 = in1
  in2 = in2
  mpipe = mpipe
  Task = {t1, t2}
  InQueue = {in1, in2}
  OutQueue = {mpipe}
  In <- TaskIn
  Out <- TaskOut
  Kernel = {"cooperative", "preemptive"}
  Space = 3
  InSpace = 2
  Body <- Bodies
  MaxSent = 3
  Traffic <- Traffics
  LenMod = 4
  OneAtATime = TRUE
  ReadsRespond = TRUE
SPECIFICATION FairSpec
INVARIANTS
  MutualExclusion
  TreatedOnce
  
PROPERTIES
  LockReleased
CHECK_DEADLOCK FALSE

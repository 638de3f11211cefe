SPECIFICATION ServicesSpec
CONSTANTS
  f1 = f1
  f2 = f2
  n1 = n1
  n2 = n2
  None = None
  Torn = Torn
  File = {f1, f2}
  Name = {n1, n2}
  MaxConcurrency = 1
  MaxCrashes = 1
  MaxText = 2
  MaxRounds = 2
  Cap = 2
  Channel = {c1, c2}
  Op <- Ops
  MaxInstances = 2
  Goal = {g1, g2}
  Tick = {1, 2}
  MaxFailures = 2
INVARIANTS FilerIsOwn WholeReplyShown RegisteredIsAlive OncePerSlot
PROPERTIES ScanSettles ReplySettles DueIsServed
CHECK_DEADLOCK FALSE

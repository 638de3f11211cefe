SPECIFICATION Spec
CONSTANTS
  c1 = c1
  None = None
  Channel = {c1}
  Op <- Ops
  MaxInstances = 2
INVARIANT UnlockListens
CHECK_DEADLOCK FALSE

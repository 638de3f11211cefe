SPECIFICATION Spec
CONSTANTS
  main = main
  c1 = c1
  c2 = c2
  c3 = c3
  t1 = t1
  t2 = t2
  t3 = t3
  None = None
  Root = {main}
  Child = {c1, c2, c3}
  Task = {t1, t2, t3}
  ProtectHead = 1
  History = 5
  MaxSaid = 11
  MaxCrashes = 1
INVARIANTS ConversationIsWhole OrderIsKept
PROPERTY KeepsPromise
SYMMETRY Symmetric
CHECK_DEADLOCK FALSE

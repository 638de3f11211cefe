SPECIFICATION Spec
CONSTANTS
  m1 = m1
  m2 = m2
  m3 = m3
  main = main
  kid = kid
  None = None
  Msg = {m1, m2, m3}
  Root = {main}
  Child = {kid}
  DirectRun = {m3}
  WithFiles = {}
  OnChannel = {m3}
  Quiet = {m3}
  Deletable = {}
  Overlap = TRUE
  MaxCrashes = 0
SYMMETRY Alike
INVARIANTS InputKeptOnce CompletedAnswersAll OneReplyPerChannelTask
CHECK_DEADLOCK FALSE

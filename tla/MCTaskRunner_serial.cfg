SPECIFICATION HangingSpec
CONSTANTS
  m1 = m1
  m2 = m2
  m3 = m3
  main = main
  kid = kid
  None = None
  Msg = {m1, m2, m3}
  Root = {main}
  Child = {}
  DirectRun = {}
  WithFiles = {m2}
  OnChannel = {}
  Quiet = {m1}
  Deletable = {}
  Overlap = FALSE
  MaxCrashes = 1
INVARIANTS SerialOneLoop SerialRepliesFollowPrompt
PROPERTY AbortEndsTask
CHECK_DEADLOCK FALSE

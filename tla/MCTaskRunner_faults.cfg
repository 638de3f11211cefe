SPECIFICATION FairSpec
CONSTANTS
  m1 = m1
  m2 = m2
  m3 = m3
  main = main
  kid = kid
  None = None
  Msg = {m1, m2}
  Root = {main}
  Child = {kid}
  DirectRun = {}
  WithFiles = {m2}
  OnChannel = {m1}
  Quiet = {m1, m2}
  Deletable = {main}
  Overlap = TRUE
  MaxCrashes = 1
PROPERTIES EveryTaskSettles InjectedIsAbsorbed
CHECK_DEADLOCK FALSE

SPECIFICATION FairSpec
CONSTANTS
  a1 = a1
  a2 = a2
  None = None
  Account = {a1, a2}
  Refreshable = {a1, a2}
  Lifetime <- Lifetimes
  Longest = 5
  Margin = 1
  Buffer = 2
  Period = 3
  Ahead = 4
  MaxPasses = 1
INVARIANT KeptWarm
PROPERTY ExpiredIsRetried
CHECK_DEADLOCK FALSE

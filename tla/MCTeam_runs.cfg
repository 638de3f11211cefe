SPECIFICATION FairSpec
CONSTANTS
  a = a
  b = b
  c = c
  r1 = r1
  r2 = r2
  Name = {a, b, c}
  Offered <- AllOffered
  Definition <- Definitions
  Run = {r1, r2}
  MaxCrashes = 1
INVARIANTS FullContext VerdictIsRight AcceptsExactlyDags
PROPERTIES KeepsSchedule RunEnds
CHECK_DEADLOCK FALSE

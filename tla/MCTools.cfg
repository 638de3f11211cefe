SPECIFICATION ToolsSpec
CONSTANTS
  r1 = r1
  r2 = r2
  r3 = r3
  c1 = c1
  c2 = c2
  s1 = s1
  s2 = s2
  s3 = s3
  a1 = a1
  a2 = a2
  None = None
  Run = {r1, r2, r3}
  Crew = {c1, c2}
  Sess = {s1, s2, s3}
  Fresh = {r3}
  Deletable = {s1}
  MaxCrashes = 1
  Account = {a1, a2}
  MaxTokens = 3
  MaxHandlers = 2
  MaxRestarts = 1
  MaxSwitches = 2
  Repertoire <- Repertoires
  Sensitive = {"edit_file", "execute_command", "read_file"}
  MultiAction = {"browser"}
INVARIANTS LostOnlyBehindStopped OneSessionPerCrew CacheIsNewest ToolsFollowDecisions ShortLoopsEnd NewWorkPasses
CHECK_DEADLOCK FALSE
SYMMETRY Symmetric

SPECIFICATION FairSpec
CONSTANTS
  j1 = j1
  j2 = j2
  None = None
  Job = {j1, j2}
  Slot = {1, 3}
  MaxTime = 3
  MaxRows = 2
  MaxCrashes = 1
  HourLen = 3
  DayLen = 3
  WeekLen = 2
  MonthLens <- ToyMonths
  Horizon = 90
  Utc = 3
  Endless = Endless
  Reference <- ToyReference
  Fields <- ToyFields
  Places <- ToyPlaces
INVARIANTS OneExecution SlotFiresOnce NextFireIsSound
PROPERTY DueIsServed
CHECK_DEADLOCK FALSE

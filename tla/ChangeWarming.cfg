CONSTANTS
  v1 = v1
  c0 = c0
  c1 = c1
  Unread = Unread
  None = None
  Vi = {v1}
  Content = {c0, c1}
  MaxEdits = 2
  MaxSettings = 1
  MaxManual = 1
  MaxSpent = 2
SPECIFICATION MCFairSpec
INVARIANTS UndisturbedNarrative WarmsWithinGates
PROPERTY SummaryArrives
CHECK_DEADLOCK FALSE

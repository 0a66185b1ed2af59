CONSTANTS
  r1 = r1
  r2 = r2
  r3 = r3
  s1 = s1
  s2 = s2
  None = None
  Run = {r1, r2, r3}
  Pair = {s1, s2}
  Limits = {0, 1, 2}
SPECIFICATION Spec
SYMMETRY Interchangeable
INVARIANTS ListedOnce DiskMatchesIndex LoneRunRetains DashboardIsFailSoft
PROPERTY ImplementsRetention

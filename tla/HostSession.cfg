CONSTANTS
  p1 = p1
  p2 = p2
  p3 = p3
  None = None
  Pid = {p1, p2, p3}
  QueryFails = FALSE
SPECIFICATION Spec
INVARIANTS PreexistingSpared ReclaimsOwnLabview

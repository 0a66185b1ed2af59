CONSTANTS
  k1 = k1
  k2 = k2
  p1 = p1
  None = None
  Reconcile = {k1, k2}
  Preview = {p1}
  MaxFiles = 2
SPECIFICATION FairSpec
INVARIANTS
  OneLiveCycle
PROPERTIES
  StopsAfterItsRender
  IndicatorRetired

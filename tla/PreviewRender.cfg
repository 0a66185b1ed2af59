CONSTANTS
  r1 = r1
  r2 = r2
  main = main
  sub = sub
  old = old
  new = new
  Nothing = Nothing
  Torn = Torn
  Render = {r1, r2}
  Vi = {main, sub}
  Dep = {}
  Content = {old, new}
  MaxEdits = 1
  MaxEntries = 1
SPECIFICATION Spec
INVARIANTS KeyedContent ServesItsTarget SignatureOfTheFrame CacheBounded
SYMMETRY Interchangeable

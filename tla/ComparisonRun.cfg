CONSTANTS
  r1 = r1
  r2 = r2
  c0 = c0
  c1 = c1
  Worktree = Worktree
  None = None
  Run = {r1, r2}
  Commit = {c0, c1}
  Pair <- MCPair
  MaxVersion = 2
SYMMETRY Symmetry
SPECIFICATION Spec
INVARIANTS
  StagedFilesAreOwned
  AlwaysUnstages
  ReportIsItsOwn
  ArchiveIsItsOwn

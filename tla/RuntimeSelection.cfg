CONSTANTS
  None = None
  Year = {2024, 2025, 2026}
  Supported = {2025, 2026}
  MaxMoves = 1
  Exes <- MCExes
  Asks <- MCAsks
SPECIFICATION MCSpec
INVARIANTS DecisionsAgree SelectsWhatIsThere NoSilentSubstitute
PROPERTY AttachesToTheSelected

CONSTANTS
  None = None
  Lines <- MCLines
SPECIFICATION FairSpec
INVARIANTS NothingLeftArmed ConclusionIsTrue
PROPERTIES ImplementsOneShot TerminationConcludes

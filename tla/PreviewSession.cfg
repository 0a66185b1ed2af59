CONSTANTS
  r1 = r1
  r2 = r2
  r3 = r3
  linux = linux
  host = host
  None = None
  Request = {r1, r2, r3}
  RuntimeKey = {linux, host}
SPECIFICATION FairSpec
INVARIANTS OneContainerAtATime RendersOnItsRuntime DisposeReclaims
PROPERTIES ImplementsService NoOvertaking EveryRequestSettles DisposeReturns

CONSTANTS
  l1 = l1
  l2 = l2
  l3 = l3
  p3363 = p3363
  p3364 = p3364
  NoCall = NoCall
  NoPort = NoPort
  Call = {l1, l2, l3}
  Port = {p3363, p3364}
  DefaultPort = p3363
  DefaultKey = DefaultKey
  Key = {p3363, p3364, DefaultKey}
SPECIFICATION MCSpec
INVARIANTS Fifo SlotHeldExactlyWhileRunning OneProcessPerPort
PROPERTY EveryLaunchSettles

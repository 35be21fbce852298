SPECIFICATION Spec
CONSTANTS
  bus = bus
  manager = manager
  Task = {bus, manager}
  Handle = {h1, h2}
  MaxVoices = 2
  QueueDepth = 1
  Generations = 2
  Channel = {c1, c2}
  LaterVolume = {1}
  StartVolume = {0}
  MayCall <- EffectCalls
  None = None
INVARIANTS CommandReachesItsOwner NoOrphanLoop LastCommandObeyed LatestVolumeWins ReleaseIsSeen
VIEW CounterlessView
SYMMETRY Symmetry

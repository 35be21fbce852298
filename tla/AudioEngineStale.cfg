\* What the comment in requestStop() promises about a re-claimed slot.
SPECIFICATION Spec
CONSTANTS
  c1 = c1
  c2 = c2
  Callers = {c1, c2}
  MaxChannels = 1
  MaxRequests = 2
  MayCall <- PlayAndStop
  Backing = {FALSE}
  None = None
PROPERTY StopReachesOnlyItsSound

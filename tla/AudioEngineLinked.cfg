\* Two channels, linked pairs on the SD card against a task that stops channels.
SPECIFICATION Spec
CONSTANTS
  c1 = c1
  c2 = c2
  Callers = {c1, c2}
  MaxChannels = 2
  MaxRequests = 2
  MayCall <- PlayAndStop
  Backing = {FALSE}
  None = None
VIEW LiveView
INVARIANTS MixedChannelStays StartedWasPromised PromiseKept GroupStartsTogether

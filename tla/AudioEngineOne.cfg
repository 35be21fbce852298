\* One channel, two callers that use every method, files on both storages.
SPECIFICATION Spec
CONSTANTS
  c1 = c1
  c2 = c2
  Callers = {c1, c2}
  MaxChannels = 1
  MaxRequests = 2
  MayCall <- AllCalls
  Backing = {TRUE, FALSE}
  None = None
VIEW LiveView
INVARIANTS TypeOK SingleOwner IdleIsClean RequestHeldOnce StopNotDropped
PROPERTY ImplementsOwnership

\* Liveness: one channel, a task that plays and a task that stops and starts it.
SPECIFICATION FairSpec
CONSTANTS
  c1 = c1
  c2 = c2
  Callers = {c1, c2}
  MaxChannels = 1
  MaxRequests = 1
  MayCall <- PlayOne
  Backing = {TRUE}
  None = None
PROPERTIES StopEndsIdle PromiseFulfilled

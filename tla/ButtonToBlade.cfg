\* Counters that wrap at three, so that a hold may reach its first level again; a queue of two
\* events, so that one is dropped when the bus is late; two overlays, so that one may be refused.
SPECIFICATION FairSpec
CONSTANTS
  CounterSize = 3
  QueueDepth = 2
  MaxOverlays = 2
PROPERTIES ImplementsGestures Settles
VIEW BladeView

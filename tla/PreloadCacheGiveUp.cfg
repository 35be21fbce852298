\* What the README says of a preload that failed.
SPECIFICATION Spec
CONSTANTS
  Requester = {q1}
  Watcher = {w1}
  Reader = {r1}
  Descriptor = {d1}
  MaxGeneration = 2
  Size <- LargeSecond
  Capacity = 2
  MaxFitPolls = 2
PROPERTY GivesUpOnlyIfTooLarge

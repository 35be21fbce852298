\* Three requests by two tasks, a reader, room for two small hums or a large one.
SPECIFICATION FairSpec
CONSTANTS
  Requester = {q1, q2}
  Watcher = {w1}
  Reader = {r1}
  Descriptor = {d1, d2}
  MaxGeneration = 3
  Size <- LargeSecond
  Capacity = 2
  MaxFitPolls = 1
INVARIANTS TypeOK StatusTruthful AnswerMeansQuiet
PROPERTIES RequestAnswered ImplementsService

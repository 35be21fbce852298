\* Two power-ups with two files, and a ring of two blocks that a third session may find full.
SPECIFICATION FairSpec
CONSTANTS
  MaxPending = 2
  MaxFileIndex = 2
  MaxBoots = 2
  MaxSessions <- MCMaxSessions
  MaxSamples <- MCMaxSamples
INVARIANTS CountedOnce FileInOrder
PROPERTY PendingGetsWritten

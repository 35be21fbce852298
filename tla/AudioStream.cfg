SPECIFICATION FairSpec
CONSTANTS
  ChannelCount = 2
  N = 4
  Frames = 1
  Length = 3
  MaxFailures = 1
  Sounds <- CardLoopAndShot
INVARIANTS InOrder LinkedAligned TeardownSafe
PROPERTIES PlayedToTheEnd GoesOn
VIEW StreamView
CHECK_DEADLOCK FALSE

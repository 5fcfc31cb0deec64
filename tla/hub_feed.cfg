CONSTANTS
  Project = {p, q}
  BufferSize = 2
  None = none
  MaxStreams = 2
  MaxEvents = 4
SPECIFICATION FairSpec
INVARIANTS TypeOK NeverPanics NothingLeaks NeverFarBehind
PROPERTY ImplementsFeed
CHECK_DEADLOCK FALSE

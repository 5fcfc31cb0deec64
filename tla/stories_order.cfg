CONSTANTS
  None = none
  Keep = keep
  User = {u}
  MaxStory = 3
  MaxBatch = 2
  Story <- StoryIds
  Batches = {}
  Owners = {none}
  Estimates = {}
  Types = {"bug"}
  Asked = {"accepted", "delivered"}
  Sections = {"backlog", "current"}
  ByAdmin = {TRUE}
  Options = {}
  Gap = 2
  PosMin = 1
  PosMax = 6
  CounterMod = 2
SPECIFICATION InUseSpec
INVARIANT BoardForetells
PROPERTIES  ImplementsBoardOrder MoveLandsAt JoinsAtTheBottom OneRowPerMove

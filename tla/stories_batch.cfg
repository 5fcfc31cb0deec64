CONSTANTS
  None = none
  Keep = keep
  User = {u}
  MaxStory = 3
  MaxBatch = 2
  Story <- StoryIds
  Batches <- IdLists
  Owners = {none}
  Estimates = {}
  Types = {"bug"}
  Asked = {}
  Sections = {"icebox", "backlog"}
  ByAdmin = {TRUE}
  Options = {}
  Gap = 2
  PosMin = 0
  PosMax = 6
  CounterMod = 1
SPECIFICATION Spec
PROPERTY MoveManyAllOrNothing

CONSTANTS
  None = none
  Keep = keep
  User = {u}
  MaxStory = 1
  MaxBatch = 1
  Story <- StoryIds
  Batches <- IdLists
  Owners = {none, u}
  Estimates = {1, 2}
  Types = {"feature", "bug"}
  Asked = {"icebox", "backlog", "unstarted", "started", "finished", "delivered", "accepted", "rejected"}
  Sections = {"icebox", "backlog", "current"}
  ByAdmin = {TRUE, FALSE}
  Options = {TRUE, FALSE}
  Gap = 2
  PosMin = 0
  PosMax = 4
  CounterMod = 1
SPECIFICATION Spec
INVARIANTS TypeOK RowsKeepTheRules
PROPERTIES AcceptedFrozen WorkStaysCurrent

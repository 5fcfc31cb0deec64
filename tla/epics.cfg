CONSTANTS
  Project = {p}
  Story = {s, t}
  Label = {l, m}
  Task = {1}
  Comment = {c}
  Name = {1, 2}
  User = {u}
  Request = {r}
  None = none
  FilterLimit = 1
  MaxRows = 3
  MaxPosition = 2
SPECIFICATION Spec
INVARIANT EpicsShowProgress

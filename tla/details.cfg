CONSTANTS
  Project = {p, q}
  Story = {s, t}
  Label = {l, m}
  Task = {1, 2, 3}
  Comment = {c}
  Name = {1, 2}
  User = {u}
  Request = {r}
  None = none
  FilterLimit = 1
  MaxRows = 3
  MaxPosition = 3
  DayLength = 4
  WeekLength = 3
  DefaultLength = 3
  DefaultVelocity = 10
  Days = {0, 1, 2, 3, 4, 5, 6, 7, 8, 9}
  Points = {0, 1, 2}
SPECIFICATION MCSpec
CONSTRAINT Bound
INVARIANTS TypeOK LabelsInUse IterationsAgree PlanFollowsVelocity
PROPERTY TasksKeepTheirOrder
SYMMETRY Symmetry

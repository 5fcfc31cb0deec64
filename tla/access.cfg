CONSTANTS
  User = {u, v, w}
  Project = {p}
  Request = {r, s}
  None = none
  AllowRegistration = TRUE
  Absent = absent
  Versions = {1, 2}
  MaxRuns = 2
  MaxWrites = 2
SPECIFICATION MCSpec
INVARIANTS TypeOK SomeAdmin NothingSavedIsLost
PROPERTIES OwnedStaysOwned EndsAsItSays
SYMMETRY Symmetry

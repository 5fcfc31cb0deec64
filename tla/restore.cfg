CONSTANTS
  Absent = absent
  Versions = {1, 2}
  MaxRuns = 2
  MaxWrites = 2
SPECIFICATION OperationsSpec
PROPERTY PutsEverythingBack

CONSTANTS
  Story = {a}
  Unread = unread
  Guess = guess
  Absent = absent
  MaxChanges = 1
  MaxLoads = 2
SPECIFICATION FairSpec
INVARIANTS TypeOK NewsIsSignalled NothingWaitsWhenIdle
PROPERTY EventuallyUpToDate

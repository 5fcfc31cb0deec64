CONSTANTS
  Story = {1, 2, 3}
  Project = {p, q}
  MaxDepth = 1
  MaxBlockers = 2
SPECIFICATION Spec
INVARIANTS TypeOK EdgesAreSound SomeoneCanProceed BoardShowsBlocked

CONSTANTS
  Story = {s1, s2, s3}
  Project = {p}
  Call = {c}
  None = none
  MaxItems = 2
SPECIFICATION Spec
INVARIANT ItemsAreIndependent

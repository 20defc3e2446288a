SPECIFICATION Spec
CONSTANTS
  Names = {"a", "b"}
  JobNames = {"a", "b"}
  JobName <- MCJobName
  Events = {e1}
  MaxStarts = 2
  Workflows <- MCSimplePi
  Editable = {}
  MaxEdits = 0
  MaxLag = 1
  MaxSteps = 2
INVARIANT EventStoredOnce

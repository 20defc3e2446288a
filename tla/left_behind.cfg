SPECIFICATION FairSpec
CONSTANTS
  Names = {"a", "b"}
  JobNames = {"a", "b"}
  JobName <- MCJobName
  Events = {}
  MaxStarts = 2
  Workflows <- MCSimplePi
  Editable = {}
  MaxEdits = 0
  MaxLag = 1
  MaxSteps = 2
PROPERTY RunEnds

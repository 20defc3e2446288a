SPECIFICATION Spec
CONSTANTS
  Names = {"a"}
  JobNames = {"a"}
  JobName <- MCJobName
  Events = {e1, e2}
  MaxStarts = 2
  Workflows <- MCNoOutput
  Editable = {}
  MaxEdits = 0
  MaxLag = 1
  MaxSteps = 1
SYMMETRY EventSymmetry
INVARIANTS
  AcceptedIsStored
  PostStoredOnce
PROPERTIES
  EventsOnlyAppended

SPECIFICATION Spec
CONSTANTS
  Names = {"a", "b"}
  JobNames = {"a", "b"}
  JobName <- MCJobName
  Events = {e1}
  MaxStarts = 2
  Workflows <- MCCore
  Editable <- MCEdited
  MaxEdits = 1
  MaxLag = 1
  MaxSteps = 2
INVARIANTS
  TypeOK
  InFlight
  OneStepAtATime
  WriteAhead
  SkippedNeverRan
  JobOnce
  OutputsAfterSteps
  SucceededMeansDone
PROPERTIES
  TerminalIsFinal

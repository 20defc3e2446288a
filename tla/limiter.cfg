SPECIFICATION Spec
CONSTANTS
  Keys = {"session-1"}
  SessionId = "session-1"
  Minute = 1
  MaxNow = 4
  Configs <- Limited
  RuleSets <- NoRules
  Absent = Absent
  MaxWrites = 0
  Calls = {c1, c2, c3, c4, c5, c6}
  Room = 1
  PipeRoom = 1
SYMMETRY CallSymmetry
INVARIANTS
  TwiceRpmPerMinute
CHECK_DEADLOCK FALSE

SPECIFICATION FairSpec
CONSTANTS
  Keys = {"session-1", "session-2"}
  SessionId = "session-1"
  Minute = 1
  MaxNow = 0
  Configs <- Served
  RuleSets <- NoneOrFirst
  Absent = Absent
  MaxWrites = 1
  Calls = {"c1", "c2"}
  Room = 1
  PipeRoom = 1
INVARIANTS
  TypeOK
  RepliesInOrder
  NoReplyLost
  DeniedStaysOut
PROPERTIES
  RulesArriveUnlessMissed
  SessionCleansUp
CHECK_DEADLOCK FALSE

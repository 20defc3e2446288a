SPECIFICATION Spec
CONSTANTS
  Workflows = {"first", "second"}
  Absent = Absent
  NoSchedule = NoSchedule
  NoCause = NoCause
  NoWebhook = NoWebhook
  Setups <- MCSetups
  Deliveries <- MCDeliveries
INVARIANTS
  TypeOK
  WorkflowSettled
  AnsweredRuns
  PiAgentSettled
  ChannelSettled
PROPERTIES
  ServiceFollowsPods
CHECK_DEADLOCK FALSE

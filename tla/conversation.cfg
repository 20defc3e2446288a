SPECIFICATION Spec
CONSTANTS
  Messages <- MCMessages
  Sender <- MCSender
  AllowedUsers = {}
  MaxSessions = 2
  NoSession = NoSession
  MaxRequests = 3
  Setups <- MCSetups
INVARIANTS
  TypeOK
  SessionsAreApart
PROPERTIES
  ImplementsRequestReply
  MessagesAnswered
  CallsAnswered
CHECK_DEADLOCK FALSE

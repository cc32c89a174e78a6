SPECIFICATION FairSpec
CONSTANTS
  GatewayId = {g1, g2, g3}
  ServerId = server
  NoGateway = none
  MaxAttempts = 2
  ReconciliationAttempts = 4
INVARIANTS
  TypeOK
  OutcomeIsTrue
  TwoPollsFindLateCreate
PROPERTIES
  OthersKept
  ServerBeforeGateway
  Returns
CHECK_DEADLOCK FALSE

SPECIFICATION FairSpec
CONSTANTS
  Transactions = {1, 2}
  BlockSize = 2
  Devices <- MCDevices
  Fleets <- MCFleets
  AnswerSizes <- MCAnswerSizes
  OwnEim = "eim"
  MaxFaults = 2
  MaxRejections = 2
INVARIANTS
  DurableEffects
  RoutesRight
  WholeAnswers
PROPERTIES
  NotificationsKept
  

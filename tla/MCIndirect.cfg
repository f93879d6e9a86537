SPECIFICATION FairSpec
CONSTANTS
  Transactions = {1, 2}
  BlockSize = 2
  Devices <- MCDevices
  Fleets <- MCIndirectFleets
  AnswerSizes <- MCAnswerSizes
  OwnEim = "eim"
  MaxFaults = 0
  MaxRejections = 2
PROPERTY
  IndirectCompletes

SPECIFICATION MCSpec
CONSTANTS
  Sender = {s1}
  Loner = s3
  Tx <- MCTx
  Gas <- MCGas
  GasMax = 2
  GasWord = 8
  Doubtful <- MCDoubtful
  MaxTx = 3
  MaxQueuedPerSender = 2
  MaxQueuedTotal = 2
  TierPenalty = 10
  BlockMax = {2, 3}
  MaxPending = 1
  MaxOrder = 3
  MaxBlocks = 0
  MaxCleans = 0
PROPERTY PurgesOnlyRefused
CHECK_DEADLOCK FALSE

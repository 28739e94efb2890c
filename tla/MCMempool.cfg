SPECIFICATION MCSpec
CONSTANTS
  Sender = {s1, s2}
  Loner = s3
  Nonce <- MCNonce
  MaxQueuedPerSender = 3
  MaxQueuedTotal = 4
  OtherQueued = 3
SYMMETRY Symmetry
INVARIANTS
  PoolConsistent
  CapacityBound
  RankMonotone
  ViewSound
  RangesExact
  CountExact
  LoopsExact
CHECK_DEADLOCK FALSE

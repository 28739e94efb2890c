SPECIFICATION MCSpec
CONSTANTS
  Vals = {v1, v2}
  Genesis = {v1}
  Params <- MCParams
  ChunkSize = 2
  UnbondingTime = 3
  MaxAge = 2
  MaxHeight = 10
  MaxCreates = 0
  MaxFaults = 2
  MaxRestarts = 1
  MaxUpdates = 0
INVARIANTS
  BitmapExact
  DowntimeJudged
  NeverHalts
  TombstonedStaysOut
CHECK_DEADLOCK FALSE

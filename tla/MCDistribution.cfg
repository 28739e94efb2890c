SPECIFICATION MCSpec
CONSTANTS
  v1 = v1  v2 = v2  a1 = a1  a2 = a2  x = x  y = y  w1 = w1  w2 = w2
  Vals = {v1, v2}
  Accts = {a1, a2}
  Denoms = {x, y}
  Prec = 100
  Operator <- MCOperator
  Rate <- MCRate
  Genesis <- MCGenesis
  GenesisParams <- MCParams
  ParamChanges <- MCParamChanges
  Amounts <- MCAmounts
  Gifts = {}
  Fees <- MCFees
  Turnouts <- MCTurnouts
  SlashFactors = {50}
  Purse = 1
  MaxHeight = 3
  Budgets <- MCBudgets
INVARIANTS
  BooksExact
  ClaimsCovered
  BlocksEnd
  StakersCovered
  CallbackTold
  SharesWithinFee
  ReleasePaced
PROPERTIES
  EarnedStays
  NothingStranded
  PriceFollowsLoad
CHECK_DEADLOCK FALSE

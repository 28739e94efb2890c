SPECIFICATION MCSpec
CONSTANTS
  v1 = v1  v2 = v2  v3 = v3  a1 = a1  a2 = a2  a3 = a3  x = x  y = y
  Vals = {v1, v2, v3}
  Accts = {a1, a2, a3}
  Operator <- MCOperator
  Rank <- MCRank
  Denoms = {x, y}
  Prec = 2
  Funds <- MCFunds
  Stake <- MCStake
  Amounts <- MCAmounts
  Weightings <- MCWeightings
  WeightUnit = 1
  PowerReduction = 1
  GenesisParams <- MCParams
  ParamChanges <- MCParamChanges
  SlashFactors = {1}
  MaxAge = 2
  MaxHeight = 4
  Budgets <- MCBudgets
INVARIANTS
  BooksBalance
  NoneForgotten
  
PROPERTIES
  OnlySlashBurns
CHECK_DEADLOCK FALSE

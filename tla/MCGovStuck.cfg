SPECIFICATION MCSpec
CONSTANTS
  op = op
  dl = dl
  a1 = a1
  a2 = a2
  a3 = a3
  x = x
  y = y
  Gov = Gov
  CommunityPool = CommunityPool
  Accts = {op, dl}
  Vals = {op}
  Denoms = {x}
  Prec = 100
  Wealth <- MCWealth
  Params <- MCParams
  MsgLists <- MCMsgLists
  Speeds = {FALSE}
  Amounts = {4}
  Ballots <- MCBallots
  Stakings <- MCStakings
  MaxProposals = 2
  MaxTime = 5
  MaxStep = 1
  MaxRestarts = 1
INVARIANT ConvertedDecided
CHECK_DEADLOCK FALSE

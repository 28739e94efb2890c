SPECIFICATION MCSpec
CONSTANTS
  Chains <- MCChains
  Peer <- MCPeer
  Users = {"u", "v"}
  Relayers = {"r"}
  RelayerLists <- MCLists
  Governed = {"B"}
  Home <- MCHome
  NoUri = ""
  Memos <- MCMemos
  Budgets <- MCBudgets
INVARIANTS
  VouchersRedeemable
  CallbackTruthful
PROPERTIES
  OneHolder
  ChannelsDrain
CHECK_DEADLOCK FALSE

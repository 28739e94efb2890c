SPECIFICATION MCSpec
CONSTANTS
  Chains <- MCChains
  Peer <- MCPeer
  Users = {"u", "v"}
  Relayers = {"r"}
  RelayerLists <- MCLists
  Governed = {"B"}
  Home <- MCHome
  NoUri = ""
  Memos <- MCMemos
  Budgets <- MCOneReturn
PROPERTY TimeoutRefunds
CHECK_DEADLOCK FALSE

--------------------------- MODULE MCDistribution ---------------------------
(***************************************************************************)
(* Small chains, explored side by side.  On the first, which the constants *)
(* describe, delegations to two validators come, move and go around        *)
(* slashes.  On the second, a validator is created and one leaves;         *)
(* accounts give to the pools and governance changes the parameters.  On   *)
(* the third two contract users stake through the module account a2.  The  *)
(* last two are about the fees that are distributed: their price and the   *)
(* released rewards over several blocks, and the calls of one transaction. *)
(***************************************************************************)
EXTENDS Distribution
CONSTANTS v1, v2, a1, a2, x, y, w1, w2
VARIABLES scenario, jailed, move, uncertain, fees, reward, tx, allowance

Coins(n, m) == [d \in Denoms |-> IF d = x THEN n ELSE m]
Budget(m, s, e) == [msgs |-> m, slashes |-> s, exits |-> e]
Fee(n, m) == [base |-> n, foreign |-> m]
Params(tax, weights, enabled) == [tax |-> tax, weights |-> weights, withdrawAddrEnabled |-> enabled]
MCOperator == [v \in Vals |-> IF v = v1 THEN a1 ELSE a2]

\* "stake".
MCRate == [v \in Vals |-> IF v = v1 THEN 10 ELSE 0]
MCGenesis == (v1 :> Coins(3, 0)) @@ (v2 :> Coins(2, 1))
MCParams == Params(2, (x :> 40) @@ (y :> 20), FALSE)
MCParamChanges == {}
MCAmounts == {Coins(1, 0), Coins(2, 0)}
MCFees == {Fee(3, 0)}
MCTurnouts == {Vals}
MCBudgets == {Budget(2, 1, 0), Budget(1, 2, 0)}

\* "pools".
PoolsRate == [v \in Vals |-> 15]
PoolsGenesis == v1 :> Coins(2, 0)
PoolsParams == Params(5, x :> 100, TRUE)
PoolsParamChanges == {Params(0, (x :> 0) @@ (y :> 0), TRUE), Params(0, x :> 1, FALSE)}
PoolsAmounts == {Coins(2, 1)}
PoolsFees == {Fee(1, 1)}
PoolsTurnouts == {{}, {v1}, Vals}
PoolsBudgets == {Budget(2, 0, 1)}
Pools == INSTANCE Distribution WITH
  Rate <- PoolsRate, Genesis <- PoolsGenesis, GenesisParams <- PoolsParams,
  ParamChanges <- PoolsParamChanges, Amounts <- PoolsAmounts, Fees <- PoolsFees, Turnouts <- PoolsTurnouts,
  Gifts <- {1}, Budgets <- PoolsBudgets

\* "move".
MoveRate == [v \in Vals |-> 10]
MoveGenesis == v1 :> Coins(7, 0)
MoveParams == Params(2, x :> 40, FALSE)
MoveAmounts == {Coins(1, 0)}
MoveFees == {Fee(9, 0)}
MoveBudgets == {Budget(3, 1, 0), Budget(2, 2, 1)}
In(w, n) == [who |-> w, val |-> v1, amt |-> Coins(n, 0)]
Out(w) == [who |-> w, val |-> v1]
MoveRuns == {<<In(w1, 1)>>, <<In(w1, 2), In(w2, 3)>>, <<Out(w1)>>, <<Out(w1), Out(w2)>>,
             <<In(w2, 1), Out(w1)>>}
MoveModule == [v \in Vals |-> a2]
Move == INSTANCE MoveStaking WITH
  Rate <- MoveRate, Genesis <- MoveGenesis, GenesisParams <- MoveParams,
  Amounts <- MoveAmounts, Fees <- MoveFees, Gifts <- {2}, SlashFactors <- {20}, Purse <- 2,
  Budgets <- MoveBudgets, Module <- MoveModule, Stakers <- {w1, w2}, Runs <- MoveRuns

\* "blocks" and "calls".
FeeSet(base, min, max, target, rate) ==
  [base |-> base, min |-> min, max |-> max, target |-> target, rate |-> rate]
RewardSet(rate, dilution, period, enabled) ==
  [rate |-> rate, dilution |-> dilution, period |-> period, enabled |-> enabled]
FirstFees == FeeSet(10, 5, 20, 4, 12)
FeeUpdates == {FeeSet(10, 5, 20, 0, 12), FeeSet(40, 1, 50, 2, 150)}
FirstReward == RewardSet(8, 50, 3, TRUE)
RewardUpdates == {RewardSet(8, 50, 3, FALSE), RewardSet(10, 20, 2, TRUE)}
Offer(fee, gas) == [fee |-> fee, gas |-> gas]
Allowance(b, t, c, n) == [blocks |-> b, txs |-> t, changes |-> c, nested |-> n]

BlockOffers == {Offer(1, 1), Offer(2, 6)}
BlockCalls == {<<>>}
BlockBudgets == {Allowance(3, 2, 1, 0), Allowance(4, 1, 2, 0)}
Blocks == INSTANCE BlockFees WITH
  FeeParams <- FirstFees, FeeChanges <- FeeUpdates, RewardParams <- FirstReward,
  RewardChanges <- RewardUpdates, Supply <- 30, Fund <- 9, Year <- 4, ShareRatio <- 75,
  Offers <- BlockOffers, Usages <- {1}, Calls <- BlockCalls, Steps <- {1, 3},
  FeeBudgets <- BlockBudgets

Call(kind, allow, callback) == [kind |-> kind, allow |-> allow, callback |-> callback]
CallLists ==
  {<<>>, <<Call("other", TRUE, TRUE), Call("move", FALSE, FALSE)>>,
         <<Call("move", TRUE, TRUE), Call("other", FALSE, TRUE)>>}
    \cup {<<Call(k, a, c)>> : k \in {"move", "other"}, a \in BOOLEAN, c \in BOOLEAN}
CallOffers == {Offer(3, 200)}
CallBudgets == {Allowance(1, 1, 0, 3)}
Txs == INSTANCE BlockFees WITH
  FeeParams <- FirstFees, FeeChanges <- {}, RewardParams <- FirstReward,
  RewardChanges <- {}, Supply <- 30, Fund <- 9, Year <- 4, ShareRatio <- 75,
  Offers <- CallOffers, Usages <- {50, 100}, Calls <- CallLists, Steps <- {2},
  FeeBudgets <- CallBudgets

\* The parts of the state a scenario leaves as they are.
NoStake == Init /\ budget = Budget(2, 1, 0)
NoMove == jailed = {} /\ move = Move!EmptyBooks /\ uncertain = Vals
NoFees == Txs!FeeInit
moveVars == <<jailed, move, uncertain>>
feeVars == <<fees, reward, tx, allowance>>

MCInit == \/ scenario = "stake" /\ Init /\ NoMove /\ NoFees
          \/ scenario = "pools" /\ Pools!Init /\ NoMove /\ NoFees
          \/ scenario = "move" /\ Move!MoveInit /\ NoFees
          \/ scenario = "blocks" /\ Blocks!FeeInit /\ NoStake /\ NoMove
          \/ scenario = "calls" /\ Txs!FeeInit /\ NoStake /\ NoMove
MCNext == \/ scenario = "stake" /\ Next /\ UNCHANGED <<scenario, moveVars, feeVars>>
          \/ scenario = "pools" /\ Pools!Next /\ UNCHANGED <<scenario, moveVars, feeVars>>
          \/ scenario = "move" /\ Move!MoveNext /\ UNCHANGED <<scenario, feeVars>>
          \/ scenario = "blocks" /\ Blocks!FeeNext /\ UNCHANGED <<scenario, vars, moveVars>>
          \/ scenario = "calls" /\ Txs!FeeNext /\ UNCHANGED <<scenario, vars, moveVars>>
MCSpec == MCInit /\ [][MCNext]_<<vars, moveVars, feeVars, scenario>>

\* No block fails, except where parameters pass their validation and are then divided
\* by: reward weights that are all zero (AllocateTokens), a target gas of zero
\* (UpdateBaseGasPrice).
BlocksEnd == NeverHalts /\ Blocks!FeesHaltOnlyOnZero

\* MoveStaking's StakersCovered (ApplyStakingDeltas, AmountToShare, ShareToAmount).
StakersCovered == Move!StakersCovered

\* MoveStaking's NothingStranded (SafeWithdrawRewards).
NothingStranded == [][Move!WithdrawnIsSwept]_<<vars, moveVars>>

\* BlockFees' CallbackTold (dispatchMessage).
CallbackTold == Txs!CallbackTold

\* BlockFees' SharesWithinFee (DistributeContractSharedRevenue).
SharesWithinFee == Txs!SharesWithinFee

\* BlockFees' PriceFollowsLoad (UpdateBaseGasPrice).
PriceFollowsLoad == [][Blocks!PriceMoves]_feeVars

\* BlockFees' ReleasePaced (x/reward's BeginBlocker).
ReleasePaced == Blocks!ReleasePaced
=============================================================================

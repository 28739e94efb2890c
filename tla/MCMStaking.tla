---------------------------- MODULE MCMStaking ----------------------------
(***************************************************************************)
(* Two small chains for model checking, explored side by side.  On the     *)
(* first, which the constants describe, one validator at a time is bonded: *)
(* weights change and a third validator comes.  On the second, an account  *)
(* without a validator delegates to the two that are bonded.               *)
(***************************************************************************)
EXTENDS MStaking
CONSTANTS v1, v2, v3, a1, a2, a3, x, y
VARIABLE scenario

MCOperator == [v \in Vals |-> IF v = v1 THEN a1 ELSE IF v = v2 THEN a2 ELSE a3]
MCRank == [v \in Vals |-> IF v = v1 THEN 1 ELSE IF v = v2 THEN 2 ELSE 3]

Coins(n, m) == [d \in Denoms |-> IF d = x THEN n ELSE m]
Budget(m, s, h, p, r) ==
  [msgs |-> m, slashes |-> s, holds |-> h, reprices |-> p, restarts |-> r]

Params(power, vals, time) ==
  [minVotingPower |-> power, maxValidators |-> vals, unbondingTime |-> time,
   maxEntries |-> 2]

\* "churn".
MCParams == Params(1, 1, 2)
MCParamChanges == {Params(2, 2, 1)}
MCStake == [v \in Vals |-> IF v = v3 THEN Coins(0, 0)
                           ELSE IF v = v1 THEN Coins(2, 0) ELSE Coins(1, 1)]
MCFunds == [a \in Accts |-> IF a = a3 THEN Coins(1, 2) ELSE Coins(0, 0)]
MCAmounts == {Coins(1, 0), Coins(0, 2)}
MCWeightings == {Coins(1, 1), Coins(1, 0)}
MCBudgets == {Budget(2, 1, 0, 1, 0)}

\* Exported with one validator jailed.
RestartBudgets == {Budget(0, 1, 0, 0, 1)}

\* "flow": messages and a slash; with a hold; with a restart.
\* The delegator operates no validator.
FlowOperator == [v \in Vals |-> IF v = v1 THEN a1 ELSE a2]
FlowStake == [v \in Vals |-> IF v = v1 THEN Coins(2, 0)
                             ELSE IF v = v2 THEN Coins(1, 0) ELSE Coins(0, 0)]
FlowFunds == [a \in Accts |-> IF a = a3 THEN Coins(2, 0) ELSE Coins(0, 0)]
FlowAmounts == {Coins(1, 0), Coins(2, 0)}
FlowParams == Params(1, 2, 2)
FlowParamChanges == {}
FlowWeightings == {Coins(1, 1)}
FlowBudgets == {Budget(3, 1, 0, 0, 0), Budget(2, 1, 1, 0, 0), Budget(2, 1, 0, 0, 1)}
Flow == INSTANCE MStaking WITH
  Operator <- FlowOperator, Stake <- FlowStake, Funds <- FlowFunds, Amounts <- FlowAmounts,
  Weightings <- FlowWeightings, GenesisParams <- FlowParams,
  ParamChanges <- FlowParamChanges, Budgets <- FlowBudgets

MCInit == \/ scenario = "churn" /\ Init
          \/ scenario = "flow" /\ Flow!Init
MCNext == \/ scenario = "churn" /\ Next /\ UNCHANGED scenario
          \/ scenario = "flow" /\ Flow!Next /\ UNCHANGED scenario
MCSpec == MCInit /\ [][MCNext]_<<vars, scenario>>
===========================================================================

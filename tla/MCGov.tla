------------------------------- MODULE MCGov -------------------------------
(***************************************************************************)
(* Three small chains for model checking, explored side by side, each with *)
(* one operator, one delegator and one denomination.  On the first, which  *)
(* the constants describe, proposals change the parameters.  The second is *)
(* about the life of one proposal.  On the third an upgrade and a restart  *)
(* come in between.  Beside them, the tally of every set of ballots, with  *)
(* a richer stake than the chains have.                                    *)
(***************************************************************************)
EXTENDS Gov
CONSTANTS op, dl, a1, a2, a3, x, y
VARIABLES scenario, input, outcome

Wealths(n, m) == [a \in Accts |-> IF a = op THEN n ELSE m]
MCWealth == Wealths(4, 4)

PlainParams ==
  [minDeposit |-> 2, expeditedMinDeposit |-> 3, emergencyMinDeposit |-> 4,
   maxDepositPeriod |-> 1, votingPeriod |-> 3, expeditedVotingPeriod |-> 1,
   emergencyTallyInterval |-> 1, quorum |-> (Prec * 40) \div 100, threshold |-> Prec \div 2,
   expeditedThreshold |-> (Prec * 67) \div 100, vetoThreshold |-> (Prec * 34) \div 100,
   minInitialDepositRatio |-> 0, minDepositRatio |-> 0, cancelRatio |-> Prec \div 2,
   cancelDest |-> "burn", burnPrevote |-> FALSE, burnVoteQuorum |-> FALSE, burnVoteVeto |-> TRUE,
   submitters |-> {op}]
MCParams == [PlainParams EXCEPT !.votingPeriod = 2]
\* Ratios in force, cancellation charges go to the community pool.
StrictParams ==
  [MCParams EXCEPT !.minInitialDepositRatio = Prec \div 2, !.minDepositRatio = Prec \div 2,
                   !.cancelDest = CommunityPool, !.burnPrevote = TRUE]

\* op and dl stake n and m, all with op's validator.
Staked(n, m) ==
  LET amount(a) == Prec * (IF a = op THEN n ELSE m)
  IN [bonded |-> {op}, weights |-> [d \in Denoms |-> Prec], vested |-> [a \in Accts |-> 0],
      del |-> [a \in Accts |-> [v \in Vals |-> [d \in Denoms |-> amount(a)]]],
      shares |-> [v \in Vals |-> [d \in Denoms |-> Prec * (n + m)]],
      tokens |-> [v \in Vals |-> [d \in Denoms |-> n + m]]]
OneStaking == {Staked(2, 1)}
MCStakings == {Staked(2, 1), Staked(1, 4)}

MCBallots == {Ballot("yes")}
YesOrVeto == {Ballot("yes"), Ballot("veto")}

Msg(kind) == [kind |-> kind]
MCMsgLists ==
  {<<[kind |-> "add", who |-> dl], Msg("fail")>>,
   <<[kind |-> "remove", who |-> op]>>,
   <<[kind |-> "set", params |-> StrictParams]>>}
LifeMsgLists == {<<Msg("other")>>}
LegacyMsgLists == {<<Msg("legacy")>>}

Life == INSTANCE Gov WITH
  Params <- PlainParams, MsgLists <- LifeMsgLists, Speeds <- BOOLEAN, Amounts <- {1, 3},
  Ballots <- YesOrVeto, Stakings <- OneStaking, MaxProposals <- 1, MaxTime <- 6,
  MaxRestarts <- 0
Legacy == INSTANCE Gov WITH
  Params <- PlainParams, MsgLists <- LegacyMsgLists, Speeds <- BOOLEAN, Amounts <- {3},
  Ballots <- YesOrVeto, Stakings <- OneStaking, MaxProposals <- 1, MaxTime <- 6,
  MaxStep <- 2

Tallies == INSTANCE TallyCount WITH
  Accts <- {a1, a2, a3}, Vals <- {a1, a2}, Denoms <- {x, y}

NoTally == input = {} /\ outcome = {}
NoChain == Init /\ staking = Staked(2, 1)   \* and stays so

MCInit == \/ scenario = "params" /\ Init /\ NoTally
          \/ scenario = "life" /\ Life!Init /\ NoTally
          \/ scenario = "legacy" /\ Legacy!Init /\ NoTally
          \/ scenario = "tally" /\ Tallies!Init /\ NoChain
MCNext == \/ scenario = "params" /\ Next /\ UNCHANGED <<scenario, input, outcome>>
          \/ scenario = "life" /\ Life!Next /\ UNCHANGED <<scenario, input, outcome>>
          \/ scenario = "legacy" /\ Legacy!Next /\ UNCHANGED <<scenario, input, outcome>>
          \/ scenario = "tally" /\ Tallies!Next /\ UNCHANGED <<scenario, vars>>
MCSpec ==
  /\ MCInit /\ [][MCNext]_<<vars, scenario, input, outcome>>
  /\ scenario = "life" => Life!Fairness

\* DecisionFollowsStake of the tally by itself (Tally, tally.go).
DecisionFollowsStake == scenario = "tally" => Tallies!DecisionFollowsStake

\* EventuallyDecided for the chain on which a proposal is followed to its end
\* (EndBlocker's two queues and handleTallyResult).
LifeDecided == scenario = "life" => Life!EventuallyDecided
=============================================================================

----------------------------- MODULE GovTally -----------------------------
(***************************************************************************)
(* How x/gov counts a proposal's votes (Keeper.Tally): every voter brings  *)
(* the stake it delegates and its unclaimed vested tokens, a validator     *)
(* brings what is left of its stake once the delegators who voted          *)
(* themselves are deducted, and the sums decide quorum, veto and pass.     *)
(*                                                                         *)
(* `st' is what the tally reads of other modules: the bonded validators,   *)
(* their tokens and shares, delegations (as shares), the weight of each    *)
(* bond denomination, and vested amounts.  A vote is a function from       *)
(* options to weights that sum to 1 (Prec).                                *)
(***************************************************************************)
EXTENDS Decimals, FiniteSets, FiniteSetsExt, Sequences

CONSTANTS Accts,
          Vals,      \* the accounts that run a validator
          Denoms     \* bond denominations

ASSUME OperatorsAreAccounts == Vals \subseteq Accts

Options == {"yes", "abstain", "no", "veto"}
Ballot(o) == [p \in Options |-> IF p = o THEN Prec ELSE 0]

\* The voting power of `share' shares of validator v.
SharePower(st, v, share) ==
  MapThenSumSet(LAMBDA d : IF share[d] = 0 THEN 0
                           ELSE Mul(Quo(share[d] * st.tokens[v][d], st.shares[v][d]), st.weights[d]),
                Denoms)

DelegatedTo(st, a) == {v \in st.bonded : \E d \in Denoms : st.del[a][v][d] > 0}

\* What voter a adds to an option: vested tokens, then each delegation.
VoterAdds(st, vote, a, o) ==
  Mul(st.vested[a] * Prec, vote[o])
    + MapThenSumSet(LAMBDA v : Mul(SharePower(st, v, st.del[a][v]), vote[o]), DelegatedTo(st, a))

VoterPower(st, a) ==
  st.vested[a] * Prec + MapThenSumSet(LAMBDA v : SharePower(st, v, st.del[a][v]), DelegatedTo(st, a))

\* A likely slip: the operator's own shares are not deducted.
SharesAfterOthers(st, voters, v) ==
  [d \in Denoms |-> st.shares[v][d] - MapThenSumSet(LAMBDA a : st.del[a][v][d], voters \ {v})]

\* The shares of v held by delegators who cast no vote of their own.
SharesAfterDeductions(st, voters, v) ==
  [d \in Denoms |-> st.shares[v][d] - MapThenSumSet(LAMBDA a : st.del[a][v][d], voters)]

ValidatorPower(st, voters, v) == SharePower(st, v, SharesAfterDeductions(st, voters, v))

CalculateVotingPower(st, v) ==
  MapThenSumSet(LAMBDA d : TruncateInt(st.weights[d] * st.tokens[v][d]), Denoms)

Results(st, votes) ==
  LET voters == DOMAIN votes
      voted == st.bonded \cap voters
  IN [o \in Options |->
        MapThenSumSet(LAMBDA a : VoterAdds(st, votes[a], a, o), voters)
          + MapThenSumSet(LAMBDA v : Mul(ValidatorPower(st, voters, v), votes[v][o]), voted)]

TotalVotingPower(st, votes) ==
  LET voters == DOMAIN votes
  IN MapThenSumSet(LAMBDA a : VoterPower(st, a), voters)
       + MapThenSumSet(LAMBDA v : ValidatorPower(st, voters, v), st.bonded \cap voters)

TotalPower(st, votes) ==
  MapThenSumSet(LAMBDA a : st.vested[a], DOMAIN votes)
    + MapThenSumSet(LAMBDA v : CalculateVotingPower(st, v), st.bonded)

\* A likely slip: a single listed function lowers the threshold.
IsAnyLow(p) == p.msgs = <<>> \/ \E i \in DOMAIN p.msgs : p.msgs[i].kind = "vip"

\* Every message of the proposal calls a function of the low-threshold list;
\* so does a proposal without messages.
IsLowThresholdProposal(p) == \A i \in DOMAIN p.msgs : p.msgs[i].kind = "vip"

Threshold(params, p) ==
  IF (p.emergency \/ p.expedited) /\ ~IsLowThresholdProposal(p)
  THEN params.expeditedThreshold ELSE params.threshold

Tally(params, p, st, votes) ==
  LET res   == Results(st, votes)
      power == TotalVotingPower(st, votes)
      total == TotalPower(st, votes)
      firm  == power - res["abstain"]
      Ends(quorum, passed, burn) == [quorum |-> quorum, passed |-> passed, burn |-> burn]
  IN CASE total = 0 -> Ends(FALSE, FALSE, FALSE)
       [] total > 0 /\ Quo(power, total * Prec) < params.quorum
            -> Ends(FALSE, FALSE, params.burnVoteQuorum)
       [] OTHER ->
            CASE firm = 0 -> Ends(TRUE, FALSE, FALSE)
              [] firm # 0 /\ Quo(res["veto"], power) > params.vetoThreshold
                   -> Ends(TRUE, FALSE, params.burnVoteVeto)
              [] OTHER -> Ends(TRUE, Quo(res["yes"], firm) > Threshold(params, p), FALSE)
===========================================================================

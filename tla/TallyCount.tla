---------------------------- MODULE TallyCount ----------------------------
(***************************************************************************)
(* Tally on every set of ballots of three accounts, two of which run a     *)
(* validator, for a few ways the stake can lie, against a count that asks  *)
(* every single delegation how it votes.                                   *)
(***************************************************************************)
EXTENDS GovTally
CONSTANTS a1, a2, a3,   \* the accounts; a1 and a2 run a validator
          x, y          \* the denominations

VARIABLES input,
          outcome   \* the tally's outcome, once there is one
vars == <<input, outcome>>

\* Stake of amount n of x and m of y.
Coins(n, m) == [d \in Denoms |-> Prec * (IF d = x THEN n ELSE m)]
None == Coins(0, 0)

\* del: the delegations, rate: tokens per share (halved by a slash) of each validator.
Staking(del, rate, bonded, weightY, vested) ==
  LET shares == [v \in Vals |-> [d \in Denoms |-> MapThenSumSet(LAMBDA a : del[a][v][d], Accts)]]
  IN [bonded |-> bonded, del |-> del, shares |-> shares, vested |-> vested,
      tokens |-> [v \in Vals |-> [d \in Denoms |-> (shares[v][d] * rate[v]) \div (Prec * 2)]],
      weights |-> [d \in Denoms |-> IF d = x THEN Prec ELSE weightY]]

Delegations(f) == [a \in Accts |-> [v \in Vals |-> f[a, v]]]
Nothing == [a \in Accts |-> 0]
Full == [v \in Vals |-> 2]
Slashed == [v \in Vals |-> IF v = a1 THEN 1 ELSE 2]

Own == [p \in Accts \X Vals |-> IF p[1] = p[2] THEN Coins(2, 0) ELSE None]
Mixed == [p \in Accts \X Vals |->
            IF p[1] = p[2] THEN Coins(2, 2) ELSE IF p[1] = a3 THEN Coins(0, 4) ELSE None]
Spread == [p \in Accts \X Vals |-> IF p[1] = a2 /\ p[2] = a2 THEN None ELSE Coins(2, 0)]

StakeLayouts == {
  Staking(Delegations(Own), Full, Vals, Prec, [a \in Accts |-> IF a = a3 THEN 3 ELSE 0]),
  Staking(Delegations(Mixed), Slashed, Vals, Prec \div 2, Nothing),
  Staking(Delegations(Spread), Full, {a1}, Prec, [a \in Accts |-> IF a = a1 THEN 1 ELSE 0]),
  Staking(Delegations(Spread), Slashed, Vals, Prec, Nothing) }

Split == [o \in Options |-> IF o \in {"yes", "abstain"} THEN Prec \div 2 ELSE 0]
BallotChoices == {Ballot(o) : o \in Options} \cup {Split}
Votes == UNION {[S -> BallotChoices] : S \in SUBSET Accts}

Vip == [kind |-> "vip"]
Other == [kind |-> "other"]
Proposals ==
  [msgs : {<<>>, <<Vip>>, <<Vip, Other>>}, expedited : BOOLEAN, emergency : {FALSE}]
    \cup [msgs : {<<Other>>}, expedited : {FALSE}, emergency : {TRUE}]

TallyParams == [quorum |-> (Prec * 33) \div 100, threshold |-> Prec \div 2,
                expeditedThreshold |-> (Prec * 67) \div 100, vetoThreshold |-> (Prec * 34) \div 100,
                burnVoteQuorum |-> FALSE, burnVoteVeto |-> TRUE]

Init ==
  /\ input \in [st : StakeLayouts, votes : Votes, p : Proposals]
  /\ outcome = {}

Count ==
  /\ outcome = {}
  /\ outcome' = {Tally(TallyParams, input.p, input.st, input.votes)}
  /\ UNCHANGED input

Next == Count
Spec == Init /\ [][Next]_vars

(***************************************************************************)
(* The reference: each delegation to a bonded validator votes as its owner *)
(* does, or as the validator does when its owner is silent.                *)
(***************************************************************************)
Holdings == {p \in Accts \X Vals : p[2] \in input.st.bonded}
Worth(h) ==
  LET st == input.st
  IN MapThenSumSet(LAMBDA d : IF st.del[h[1]][h[2]][d] = 0 THEN 0
                              ELSE (st.del[h[1]][h[2]][d] * st.tokens[h[2]][d] * st.weights[d])
                                     \div st.shares[h[2]][d], Denoms)
Speaks(h) == h[1] \in DOMAIN input.votes \/ h[2] \in DOMAIN input.votes
BallotOf(h) == IF h[1] \in DOMAIN input.votes THEN input.votes[h[1]] ELSE input.votes[h[2]]
For(o) ==
  MapThenSumSet(LAMBDA h : (Worth(h) * BallotOf(h)[o]) \div Prec, {h \in Holdings : Speaks(h)})
    + MapThenSumSet(LAMBDA a : input.st.vested[a] * input.votes[a][o], DOMAIN input.votes)
Cast == For("yes") + For("no") + For("abstain") + For("veto")
Present ==
  MapThenSumSet(Worth, Holdings) + MapThenSumSet(LAMBDA a : input.st.vested[a] * Prec, DOMAIN input.votes)

\* What the exact sums call for: a quorum of the stake present, no more than the
\* veto share against, and strictly more than the threshold of the firm votes, the
\* higher one for an expedited or emergency proposal unless all its messages are
\* low-threshold calls.
Quorate == Present > 0 /\ Cast * Prec >= TallyParams.quorum * Present
Vetoed == For("veto") * Prec > TallyParams.vetoThreshold * Cast
Urgent == input.p.emergency \/ input.p.expedited
AllVip == \A i \in DOMAIN input.p.msgs : input.p.msgs[i] = Vip
Carried ==
  For("yes") * Prec > (IF Urgent /\ ~AllVip THEN TallyParams.expeditedThreshold ELSE TallyParams.threshold)
                        * (Cast - For("abstain"))

\* Tally counts every delegation exactly once, with its owner's ballot if there is
\* one and with the validator's otherwise, although it adds up voters and what is
\* left of validators, and lets an operator's own stake pass through both; and its
\* decision is the one the exact sums call for (tally.go: "If more than 1/2 of
\* non-abstaining voters vote Yes, proposal passes").
DecisionFollowsStake ==
  \A out \in outcome :
    /\ \A o \in Options : Results(input.st, input.votes)[o] = For(o)
    /\ TotalVotingPower(input.st, input.votes) = Cast
    /\ out.quorum = Quorate
    /\ out.passed = (Quorate /\ Cast > For("abstain") /\ ~Vetoed /\ Carried)
    /\ out.burn => Vetoed
===========================================================================

---------------------------- MODULE Distribution ----------------------------
(***************************************************************************)
(* Reward distribution over several bond denominations: x/distribution.    *)
(* Rewards are held per pool, one for each bond denomination, and paid in  *)
(* one coin; a pool's rewards are shared by the delegators of that         *)
(* denomination.  A validator's history is cut into periods; a delegation  *)
(* remembers the period and stake it started with, and earns its stake     *)
(* times the difference of the cumulative ratios of two periods, corrected *)
(* for the slashes in between.                                             *)
(*                                                                         *)
(* `store' holds what the keepers of distribution and, for tokens and      *)
(* shares, of staking write.  store.err is set where the code panics or    *)
(* returns an error: a message that meets one has no effect, a begin or    *)
(* end blocker halts the chain.                                            *)
(***************************************************************************)
EXTENDS StakeShares, Sequences, SequencesExt, Functions, TLC

CONSTANTS Vals, Accts,
  Operator,       \* the account of each validator
  Rate,           \* the commission rate of each validator
  Genesis,        \* self-delegations at genesis, by validator
  GenesisParams, ParamChanges,  \* [tax, weights, withdrawAddrEnabled]
  Amounts,        \* what is delegated or undelegated at a time
  Gifts,          \* what an account pays into a pool at a time
  Fees,           \* [base, foreign] fees of a block
  Turnouts,       \* sets of validators that vote for a block
  SlashFactors,
  Purse,          \* what an account holds of the reward coin at genesis
  MaxHeight,      \* blocks explored
  Budgets         \* [msgs, slashes, exits] an instance may use

ASSUME GenesisAssumption == DOMAIN Genesis \subseteq Vals

VARIABLES store,
  phase,          \* "committed", "begin" (after BeginBlock) or "txs"
  budget
vars == <<store, phase, budget>>

Sum(p) == MapThenSumSet(LAMBDA d : p[d], Denoms)
Dec(c) == [d \in Denoms |-> c[d] * Prec]
Whole(p) == [d \in Denoms |-> TruncateInt(p[d])]

Put(f, j, e) == [k \in DOMAIN f \cup {j} |-> IF k = j THEN e ELSE f[k]]
Without(f, K) == Restrict(f, DOMAIN f \ K)
Fail(s, cond) == [s EXCEPT !.err = @ \/ cond]
Exists(s, v) == v \in DOMAIN s.cur
Delegated(s, a, v) == <<v, a>> \in DOMAIN s.start

(***************************************************************************)
(* Periods and their reference counts.                                     *)
(***************************************************************************)
incrementReferenceCount(s, v, p) ==
  Fail([s EXCEPT !.hist[<<v, p>>].refs = @ + 1], s.hist[v, p].refs > 2)

decrementReferenceCount(s, v, p) ==
  IF s.hist[v, p].refs = 1
  THEN [s EXCEPT !.hist = Without(@, {<<v, p>>})]
  ELSE [s EXCEPT !.hist[<<v, p>>].refs = @ - 1]

\* The coins of a validator list no denomination with a zero amount: the rewards of
\* such a pool are not shared out, nor are they moved to the community pool.
IncrementValidatorPeriod(s, v) ==
  LET p == s.cur[v].period
      ratio == [d \in Denoms |-> IF s.val[v].tokens[d] = 0 THEN 0
                                 ELSE s.cur[v].rewards[d] \div s.val[v].tokens[d]]
      record == [ratio |-> Plus(s.hist[v, p - 1].ratio, ratio), refs |-> 1]
  IN [decrementReferenceCount(s, v, p - 1)
        EXCEPT !.hist = Put(@, <<v, p>>, record),
               !.cur[v] = [rewards |-> Zero, period |-> p + 1]]

initializeValidator(s, v) ==
  [s EXCEPT !.hist = Put(@, <<v, 0>>, [ratio |-> Zero, refs |-> 1]),
            !.cur = Put(@, v, [rewards |-> Zero, period |-> 1]),
            !.comm[v] = Zero, !.out[v] = Zero]

initializeDelegation(s, v, a) ==
  LET p == s.cur[v].period - 1
      info == [period |-> p, stake |-> StakeTruncated(s.val[v], s.del[a, v]), height |-> s.height]
  IN [incrementReferenceCount(s, v, p) EXCEPT !.start = Put(@, <<v, a>>, info)]

updateValidatorSlashFraction(s, v, fractions) ==
  LET p == s.cur[v].period
      s1 == incrementReferenceCount(IncrementValidatorPeriod(s, v), v, p)
  IN [s1 EXCEPT !.slashes = Put(@, <<v, s.height, p>>, fractions)]

(***************************************************************************)
(* What a delegation has earned.                                           *)
(***************************************************************************)
calculateDelegationRewardsBetween(s, v, from, to, stake) ==
  LET diff == Minus(s.hist[v, to].ratio, s.hist[v, from].ratio)
  IN [d \in Denoms |-> MulTruncate(diff[d], stake[d])]

\* The slash events of v from height h on, in the order of their keys.
SlashesSince(s, v, h) ==
  SetToSortSeq({k \in DOMAIN s.slashes : k[1] = v /\ k[2] >= h},
               LAMBDA j, k : j[2] < k[2] \/ (j[2] = k[2] /\ j[3] < k[3]))

\* A likely slip: the stake is reduced before the rewards up to the slash are added.
PastSlashReducedFirst(s, v, r, k) ==
  LET stake == [d \in Denoms |-> MulTruncate(r.stake[d], Prec - s.slashes[k][d])]
  IN IF k[3] <= r.period THEN r
     ELSE [rewards |-> Plus(r.rewards, calculateDelegationRewardsBetween(s, v, r.period, k[3], stake)),
           period |-> k[3], stake |-> stake]

\* Rewards, period and stake after the slash of event k.
PastSlash(s, v, r, k) ==
  IF k[3] <= r.period THEN r
  ELSE [rewards |-> Plus(r.rewards, calculateDelegationRewardsBetween(s, v, r.period, k[3], r.stake)),
        period |-> k[3],
        stake |-> [d \in Denoms |-> MulTruncate(r.stake[d], Prec - s.slashes[k][d])]]

MarginOfErr == 3

\* What is earned after the slashes, which leave r, up to the ending period.  The
\* sanity check of the stake panics.
Earned(s, v, r, ending, current) ==
  [rewards |-> Plus(r.rewards, calculateDelegationRewardsBetween(s, v, r.period, ending,
                                                                 Least(r.stake, current))),
   fail |-> \E d \in Denoms : r.stake[d] > current[d] + MarginOfErr]

CalculateDelegationRewards(s, v, a, ending) ==
  LET info == s.start[v, a]
      none == [rewards |-> Zero, period |-> info.period, stake |-> info.stake]
  IN IF info.height = s.height THEN [rewards |-> Zero, fail |-> FALSE]
     ELSE Earned(s, v, FoldLeft(LAMBDA r, k : PastSlash(s, v, r, k), none,
                                SlashesSince(s, v, info.height)),
                 ending, StakeRounded(s.val[v], s.del[a, v]))

(***************************************************************************)
(* Payments.  The module account holds all rewards and the community pool. *)
(***************************************************************************)
Pay(s, a, n) ==
  Fail([s EXCEPT !.distr = @ - n, !.wallet[s.withdrawTo[a]] = @ + n], n > s.distr)

\* A likely slip: the fractions of a coin are lost.
PayRewardsNoDust(s, v, a, rewards) ==
  Pay([s EXCEPT !.out[v] = Minus(@, rewards)], a, Sum(Whole(rewards)))

\* What exceeds the outstanding rewards of its pool is not paid; fractions of a coin
\* go to the community pool.
PayRewards(s, v, a, rewards) ==
  LET coins == Whole(rewards)
  IN Pay([s EXCEPT !.out[v] = Minus(@, rewards),
                   !.community = @ + Sum(Minus(rewards, Dec(coins)))], a, Sum(coins))
SettleRewards(s, v, a, earned) ==
  Fail(PayRewards(s, v, a, Least(earned.rewards, s.out[v])), earned.fail)
\* A likely slip: the period the delegation started after is not released.
withdrawKeepsPeriod(s, v, a, ending) ==
  [SettleRewards(s, v, a, CalculateDelegationRewards(s, v, a, ending))
     EXCEPT !.start = Without(@, {<<v, a>>})]
withdrawUpTo(s, v, a, ending) ==
  [decrementReferenceCount(SettleRewards(s, v, a, CalculateDelegationRewards(s, v, a, ending)),
                           v, s.start[v, a].period)
     EXCEPT !.start = Without(@, {<<v, a>>})]
withdrawDelegationRewards(s, v, a) ==
  withdrawUpTo(IncrementValidatorPeriod(s, v), v, a, s.cur[v].period)

AfterValidatorRemoved(s, v) ==
  LET left == Minus(s.out[v], s.comm[v])
      coins == TruncateInt(Sum(s.comm[v]))
      s1 == [s EXCEPT !.community = @ + (Sum(s.comm[v]) - coins * Prec) + Sum(left),
                      !.out[v] = Zero, !.comm[v] = Zero,
                      !.slashes = Restrict(@, {k \in DOMAIN @ : k[1] # v}),
                      !.hist = Restrict(@, {k \in DOMAIN @ : k[1] # v}),
                      !.cur = Without(@, {v})]
  IN Fail(Pay(s1, Operator[v], coins), ~AllGTE(left, Zero))

(***************************************************************************)
(* Allocation of the collected fees.                                       *)
(***************************************************************************)
\* Foreign fees are swapped to the base coin, or stay with the fee collector when
\* the swap fails.
beforeAllocateTokens(s, swapped) ==
  IF swapped THEN [s EXCEPT !.fees = [base |-> @.base + @.foreign, foreign |-> 0]] ELSE s

\* A likely slip: the commission is not taken from what the delegators share.
AllocateTwice(s, v, d, tokens) ==
  [s EXCEPT !.comm[v][d] = @ + Mul(tokens, Rate[v]), !.cur[v].rewards[d] = @ + tokens,
            !.out[v][d] = @ + tokens]

AllocateTokensToValidatorPool(s, v, d, tokens) ==
  LET commission == Mul(tokens, Rate[v])
  IN [s EXCEPT !.comm[v][d] = @ + commission, !.cur[v].rewards[d] = @ + (tokens - commission),
               !.out[v][d] = @ + tokens]

\* The tokens of denomination d behind the votes.
PoolSize(s, votes, d) == MapThenSumSet(LAMBDA v : s.val[v].tokens[d], votes)

\* The reward of validator v's pool d out of the fees f, both decimals.
Reward(s, votes, f, v, d) ==
  LET w == s.params.weights
      fraction == QuoTruncate(w[d], MapThenSumSet(LAMBDA e : w[e], DOMAIN w))
      poolReward == MulTruncate(MulTruncate(f, Prec - s.params.tax), fraction)
  IN MulTruncate(poolReward, (s.val[v].tokens[d] * Prec) \div PoolSize(s, votes, d))

\* A likely slip: a pool without tokens is not skipped, and divides by zero.
AllocateToEmptyPools(s, votes) ==
  Fail(s, \E d \in DOMAIN s.params.weights : PoolSize(s, votes, d) = 0)

\* Pools without tokens are skipped; what is not allocated is the community's.
\* The quotient by the sum of the weights panics when they are all zero.
AllocateTokens(s, votes) ==
  LET n == s.fees.base
      w == s.params.weights
      s1 == [s EXCEPT !.fees.base = 0, !.distr = @ + n]
      shares == {<<v, d>> \in votes \X DOMAIN w : s.val[v].tokens[d] > 0}
      reward(x) == Reward(s, votes, n * Prec, x[1], x[2])
      s2 == FoldSet(LAMBDA x, r : AllocateTokensToValidatorPool(r, x[1], x[2], reward(x)), s1, shares)
  IN IF votes = {} THEN [s1 EXCEPT !.community = @ + n * Prec]
     ELSE IF DOMAIN w # {} /\ \A d \in DOMAIN w : w[d] = 0 THEN Fail(s, TRUE)
     ELSE [s2 EXCEPT !.community = @ + (n * Prec - MapThenSumSet(reward, shares))]

(***************************************************************************)
(* Staking, with the hooks it calls.                                       *)
(***************************************************************************)
NoValidator == [tokens |-> Zero, shares |-> Zero, unbonded |-> FALSE]

Delegate(s, a, v, amt) ==
  LET sh == SharesFromTokens(s.val[v], amt)
      s1 == IF Delegated(s, a, v) THEN withdrawDelegationRewards(s, v, a)
            ELSE IncrementValidatorPeriod(s, v)
  IN initializeDelegation([s1 EXCEPT !.val[v].tokens = Plus(@, amt), !.val[v].shares = Plus(@, sh),
                                     !.del[a, v] = Plus(@, sh)], v, a)

RemoveValidator(s, v) == [AfterValidatorRemoved(s, v) EXCEPT !.val[v] = NoValidator]

\* The new starting info is computed before the validator loses tokens and shares.
Reinitialize(s, v, a) == IF s.del[a, v] = Zero THEN s ELSE initializeDelegation(s, v, a)
Vacate(s, v) == IF s.val[v].shares = Zero /\ s.val[v].unbonded THEN RemoveValidator(s, v) ELSE s
Unbond(s, a, v, sh) ==
  LET s1 == [withdrawDelegationRewards(s, v, a) EXCEPT !.del[a, v] = Minus(@, sh)]
  IN Vacate([Reinitialize(s1, v, a) EXCEPT !.val[v] = RemoveDelShares(@, sh)], v)

\* The fraction distribution is told is what is burnt of the tokens, rounded up.
SlashFraction(burnt, tokens) ==
  [d \in Denoms |-> IF burnt[d] = 0 THEN 0 ELSE ((burnt[d] * Prec * Prec) \div tokens[d] + Prec - 1) \div Prec]

SlashTokens(s, v, f) ==
  LET tokens == s.val[v].tokens
      burnt == Fraction(tokens, f)
  IN IF burnt = Zero THEN s
     ELSE [updateValidatorSlashFraction(s, v, SlashFraction(burnt, tokens))
             EXCEPT !.val[v].tokens = Minus(@, burnt)]

(***************************************************************************)
(* Blocks.                                                                 *)
(***************************************************************************)
Spend(what) == budget[what] > 0 /\ budget' = [budget EXCEPT ![what] = @ - 1]

\* Votes are of validators in the set a few blocks ago, which none of them can have
\* left for an unbonding time yet.
BeginBlock(turnout, swapped) ==
  LET s == beforeAllocateTokens([store EXCEPT !.height = @ + 1], swapped)
      votes == {v \in turnout : Exists(store, v) /\ ~store.val[v].unbonded}
  IN /\ ~store.err /\ phase = "committed" /\ store.height < MaxHeight
     /\ swapped => store.fees.foreign > 0
     /\ store' = AllocateTokens(s, votes) /\ phase' = "begin"
     /\ UNCHANGED budget

\* A slash in the begin blockers of slashing and evidence; before it, what one
\* delegator redelegated from v may be slashed, which unbonds from the destination.
\* (A destination that this removes is left to MStaking.)
Slash(v, f, red) ==
  LET cut(k) == MulDec(store.moved[k], f)
      s == FoldSet(LAMBDA k, r : IF cut(k) = Zero THEN r
                                 ELSE Unbond(r, k[1], k[3], Least(cut(k), store.del[k[1], k[3]])),
                   store, red)
  IN /\ ~store.err /\ phase = "begin" /\ Exists(store, v) /\ ~store.val[v].unbonded
     /\ red \subseteq {k \in DOMAIN store.moved : k[2] = v /\ Delegated(store, k[1], k[3])}
     /\ Cardinality(red) <= 1
     /\ \A k \in red : Exists(s, k[3])
     /\ Spend("slashes")
     /\ store' = SlashTokens(s, v, f) /\ UNCHANGED phase

\* The end blocker of staking completes the unbonding of the validators in exits, and
\* removes those without shares.  The fees of the block are with the collector.
EndBlock(exits, fee) ==
  LET off == [store EXCEPT !.val = [v \in Vals |-> [@[v] EXCEPT !.unbonded = @ \/ v \in exits]],
                           !.fees = [base |-> @.base + fee.base, foreign |-> @.foreign + fee.foreign]]
      empty == {v \in exits : store.val[v].shares = Zero}
  IN /\ ~store.err /\ phase # "committed"
     /\ exits \subseteq {v \in DOMAIN store.cur : ~store.val[v].unbonded}
     /\ IF exits = {} THEN UNCHANGED budget ELSE Cardinality(exits) = 1 /\ Spend("exits")
     /\ store' = FoldSet(LAMBDA v, s : RemoveValidator(s, v), off, empty)
     /\ phase' = "committed"

(***************************************************************************)
(* Messages.                                                               *)
(***************************************************************************)
Message(s) ==
  /\ phase # "committed" /\ ~store.err /\ ~s.err
  /\ Spend("msgs")
  /\ store' = s /\ phase' = "txs"

CreateValidator(v, amt) ==
  /\ ~Exists(store, v)
  /\ Message(Delegate(initializeValidator(store, v), Operator[v], v, amt))

DelegateTo(a, v, amt) == Exists(store, v) /\ Message(Delegate(store, a, v, amt))

\* The shares a message may unbond for an amount of tokens.
UnbondShares(a, v, amt) == Least(SharesFromTokens(store.val[v], amt), store.del[a, v])

Undelegate(a, v, amt) ==
  /\ Exists(store, v) /\ Delegated(store, a, v)
  /\ UnbondShares(a, v, amt) # Zero
  /\ Message(Unbond(store, a, v, UnbondShares(a, v, amt)))

\* No redelegation of what was itself received by one.
BeginRedelegate(a, v, w, amt) ==
  LET sh == UnbondShares(a, v, amt)
      got == TokensIssued(store.val[v], sh)
      s == Unbond(store, a, v, sh)
      new == SharesFromTokens(store.val[w], got)
  IN /\ v # w /\ Exists(store, v) /\ Exists(store, w) /\ Delegated(store, a, v)
     /\ ~\E k \in DOMAIN store.moved : k[1] = a /\ k[3] = v
     /\ <<a, v, w>> \notin DOMAIN store.moved
     /\ sh # Zero /\ got # Zero
     /\ Message([Delegate(s, a, w, got) EXCEPT !.moved = Put(@, <<a, v, w>>, new)])

WithdrawDelegatorReward(a, v) ==
  /\ Exists(store, v) /\ Delegated(store, a, v)
  /\ Message(initializeDelegation(withdrawDelegationRewards(store, v, a), v, a))

\* The fractions of a coin stay for the next time.
WithdrawValidatorCommission(v) ==
  LET coins == Whole(store.comm[v])
      s == [store EXCEPT !.comm[v] = Minus(@, Dec(coins)), !.out[v] = Minus(@, Dec(coins))]
  IN /\ store.comm[v] # Zero
     /\ Message(Fail(Pay(s, Operator[v], Sum(coins)), ~AllGTE(s.out[v], Zero)))

SetWithdrawAddress(a, b) ==
  /\ store.params.withdrawAddrEnabled
  /\ Message([store EXCEPT !.withdrawTo[a] = b])

FundCommunityPool(a, n) ==
  /\ store.wallet[a] >= n
  /\ Message([store EXCEPT !.wallet[a] = @ - n, !.distr = @ + n, !.community = @ + n * Prec])

CommunityPoolSpend(a, n) ==
  /\ store.community >= n * Prec /\ store.distr >= n
  /\ Message([store EXCEPT !.wallet[a] = @ + n, !.distr = @ - n, !.community = @ - n * Prec])

DepositValidatorRewardsPool(a, v, d, n) ==
  /\ store.wallet[a] >= n /\ Exists(store, v)
  /\ Message(AllocateTokensToValidatorPool(
               [store EXCEPT !.wallet[a] = @ - n, !.distr = @ + n], v, d, n * Prec))

UpdateParams(p) == Message([store EXCEPT !.params = p])

-----------------------------------------------------------------------------
\* Genesis: the hooks run for every validator and its self-delegation.
Start ==
  [val |-> [v \in Vals |-> NoValidator], del |-> [x \in Accts \X Vals |-> Zero], moved |-> <<>>,
   cur |-> <<>>, hist |-> <<>>, out |-> [v \in Vals |-> Zero], comm |-> [v \in Vals |-> Zero],
   start |-> <<>>, slashes |-> <<>>, community |-> 0, distr |-> 0,
   wallet |-> [a \in Accts |-> Purse], withdrawTo |-> [a \in Accts |-> a],
   fees |-> [base |-> 0, foreign |-> 0], params |-> GenesisParams, height |-> 1, err |-> FALSE]

Started(s) ==
  FoldSet(LAMBDA v, r : Delegate(initializeValidator(r, v), Operator[v], v, Genesis[v]),
          s, DOMAIN Genesis)

Init ==
  /\ store = Started(Start)
  /\ phase = "begin"
  /\ budget \in Budgets

Next ==
  \/ \E turnout \in Turnouts, swapped \in BOOLEAN : BeginBlock(turnout, swapped)
  \/ \E v \in Vals, f \in SlashFactors, red \in SUBSET DOMAIN store.moved : Slash(v, f, red)
  \/ \E exits \in SUBSET Vals, fee \in Fees : EndBlock(exits, fee)
  \/ \E v \in Vals, amt \in Amounts : CreateValidator(v, amt)
  \/ \E a \in Accts, v \in Vals, amt \in Amounts : DelegateTo(a, v, amt) \/ Undelegate(a, v, amt)
  \/ \E a \in Accts, v, w \in Vals, amt \in Amounts : BeginRedelegate(a, v, w, amt)
  \/ \E a \in Accts, v \in Vals : WithdrawDelegatorReward(a, v)
  \/ \E v \in Vals : WithdrawValidatorCommission(v)
  \/ \E a, b \in Accts : SetWithdrawAddress(a, b)
  \/ \E a \in Accts, n \in Gifts : FundCommunityPool(a, n) \/ CommunityPoolSpend(a, n)
  \/ \E a \in Accts, v \in Vals, d \in Denoms, n \in Gifts : DepositValidatorRewardsPool(a, v, d, n)
  \/ \E p \in ParamChanges : UpdateParams(p)

Spec == Init /\ [][Next]_vars

(***************************************************************************)
(* Properties.                                                             *)
(***************************************************************************)
Amount == [Denoms -> Nat]
TypeOK ==
  /\ \A v \in Vals : /\ store.val[v].tokens \in Amount /\ store.val[v].shares \in Amount
                     /\ store.out[v] \in Amount /\ store.comm[v] \in Amount
  /\ \A v \in DOMAIN store.cur : v \in Vals /\ store.cur[v] \in [rewards : Amount, period : Nat]
  /\ \A k \in DOMAIN store.start :
       store.start[k] \in [period : Nat, stake : Amount, height : 1..MaxHeight]
  /\ \A k \in DOMAIN store.slashes : store.slashes[k] \in [Denoms -> 0..Prec]
  /\ store.community \in Nat /\ store.distr \in Nat /\ store.wallet \in [Accts -> Nat]

\* ModuleAccountInvariant, and more: the module account holds exactly the outstanding
\* rewards of all validators and the community pool, to the last fraction, through
\* every truncation of a withdrawal, an allocation or a removal.
HoldingsBacked ==
  store.distr * Prec = store.community + MapThenSumSet(LAMBDA v : Sum(store.out[v]), Vals)

\* Rewards are never negative and always backed.
RewardsBacked == TypeOK /\ HoldingsBacked

\* ReferenceCountInvariant, record by record: a period is kept exactly as long as it is
\* the last one, a delegation started after it or a slash ended it, and it counts
\* these; a delegation has a starting info exactly while it has shares.
RefsExact ==
  LET refs(v, p) ==
        Cardinality({k \in DOMAIN store.start : k[1] = v /\ store.start[k].period = p})
          + Cardinality({k \in DOMAIN store.slashes : k[1] = v /\ k[3] = p})
          + (IF p = store.cur[v].period - 1 THEN 1 ELSE 0)
  IN /\ \A k \in DOMAIN store.hist : store.hist[k].refs = refs(k[1], k[2]) /\ store.hist[k].refs > 0
     /\ \A v \in DOMAIN store.cur : \A p \in 0..store.cur[v].period :
          refs(v, p) > 0 => <<v, p>> \in DOMAIN store.hist
     /\ DOMAIN store.start =
          {<<v, a>> : v \in DOMAIN store.cur, a \in Accts}
            \cap {<<x[2], x[1]>> : x \in {y \in DOMAIN store.del : store.del[y] # Zero}}

\* The registered invariants on the books: rewards backed, references exact
\* (ModuleAccountInvariant, NonNegativeOutstandingInvariant, ReferenceCountInvariant).
BooksExact == RewardsBacked /\ RefsExact

\* What a could withdraw from v in the next block.
Claim(s, v, a) ==
  LET next == [IncrementValidatorPeriod(s, v) EXCEPT !.height = @ + 1]
  IN CalculateDelegationRewards(next, v, a, s.cur[v].period)

\* CanWithdrawInvariant: all delegators and the operator of a validator can withdraw all
\* they have earned, in any order: together it is within the pool's outstanding rewards,
\* and the stake recomputed over the slashes never exceeds the current one by more than
\* the margin the code tolerates.
ClaimsCovered ==
  \A v \in DOMAIN store.cur :
    LET holders == {a \in Accts : Delegated(store, a, v)}
        claim(a) == Claim(store, v, a).rewards
    IN /\ \A a \in holders : ~Claim(store, v, a).fail
       /\ AllGTE(store.out[v], Plus(store.comm[v], Total(claim, holders)))

\* No begin or end blocker fails, except that ValidateBasic accepts parameters whose
\* reward weights are all zero, by whose sum AllocateTokens divides.
NeverHalts ==
  store.err => DOMAIN store.params.weights # {} /\ \A d \in DOMAIN store.params.weights : store.params.weights[d] = 0

\* What a delegator has earned is not changed by what others do, nor by a slash: while
\* its delegation is not touched, its claim never shrinks.
EarnedStays ==
  [][\A k \in DOMAIN store.start \cap DOMAIN store'.start :
       store'.start[k] = store.start[k] =>
         AllGTE(Claim(store', k[1], k[2]).rewards, Claim(store, k[1], k[2]).rewards)]_vars
=============================================================================

---------------------------- MODULE MoveStaking ----------------------------
(***************************************************************************)
(* Staking from Move contracts (x/move/keeper/staking.go): the contracts'  *)
(* stakers share one delegation per validator, held by a module account.   *)
(* During a run the VM converts between tokens and shares one operation at *)
(* a time; the keeper applies the sum of a run's operations afterwards.    *)
(* Every begin blocker, after distribution and the slashing modules,       *)
(* withdraws the rewards of these delegations for the active validators    *)
(* and passes them to the staking contract, whose books `move' holds.      *)
(***************************************************************************)
EXTENDS Distribution

CONSTANTS
  Module,      \* the delegator module account of each validator
  Stakers,
  Runs         \* the operations of a run: sequences of [who, val, amt] and [who, val]

VARIABLES
  jailed,
  move,        \* [shares, promised, deposited, rewards], the contract's books
  uncertain    \* history: validators with rewards the last sweep has not seen
moveVars == <<jailed, move, uncertain>>

Modules == {Module[v] : v \in Vals}
Users == Accts \ Modules

(***************************************************************************)
(* The VM's side.                                                          *)
(***************************************************************************)
AmountToShare(val, amt) == SharesFromTokens(val, amt)
ShareToAmount(val, sh) == Whole(StakeTruncated(val, sh))

\* r: the books, and what is to be delegated and undelegated by validator.
Staked(r, op) ==
  [r EXCEPT !.books.shares[<<op.who, op.val>>] = Plus(@, AmountToShare(store.val[op.val], op.amt)),
            !.del[op.val] = Plus(@, op.amt)]
Unstaked(r, op) ==
  LET sh == r.books.shares[op.who, op.val]
  IN [r EXCEPT !.books.shares[<<op.who, op.val>>] = Zero,
               !.books.promised[op.val] = Plus(@, ShareToAmount(store.val[op.val], sh)),
               !.und[op.val] = Plus(@, sh)]
Outcome(ops) ==
  FoldLeft(LAMBDA r, op : IF "amt" \in DOMAIN op THEN Staked(r, op) ELSE Unstaked(r, op),
           [books |-> move, del |-> [v \in Vals |-> Zero], und |-> [v \in Vals |-> Zero]], ops)

(***************************************************************************)
(* The keeper's side.                                                      *)
(***************************************************************************)
\* r: the store and the coins to deposit as unbonding.
DelegateToValidator(r, v, amt) ==
  IF amt = Zero THEN r ELSE [r EXCEPT !.s = Delegate(@, Module[v], v, amt)]

InstantUnbondFromValidator(r, v, sh) ==
  IF sh = Zero THEN r
  ELSE IF ~Delegated(r.s, Module[v], v) \/ ~AllGTE(r.s.del[Module[v], v], sh)
  THEN [r EXCEPT !.s = Fail(@, TRUE)]
  ELSE [s |-> Unbond(r.s, Module[v], v, sh),
        out |-> [r.out EXCEPT ![v] = Plus(@, TokensIssued(r.s.val[v], sh))]]

Nothing(s) == [s |-> s, out |-> [v \in Vals |-> Zero]]

\* Fault: the deltas are applied one by one.
ApplyEach(s, o, ops) ==
  FoldSet(LAMBDA v, r : InstantUnbondFromValidator(r, v, o.und[v]),
          FoldLeft(LAMBDA r, op : IF "amt" \in DOMAIN op THEN DelegateToValidator(r, op.val, op.amt) ELSE r,
                   Nothing(s), ops), Vals)

\* All delegations, added up by validator, before all undelegations.
ApplyStakingDeltas(s, o, ops) ==
  FoldSet(LAMBDA v, r : InstantUnbondFromValidator(r, v, o.und[v]),
          FoldSet(LAMBDA v, r : DelegateToValidator(r, v, o.del[v]), Nothing(s), Vals), Vals)

Applied(o, r) ==
  /\ Message(r.s)
  /\ move' = [o.books EXCEPT !.deposited = [v \in Vals |-> Plus(@[v], r.out[v])]]

\* A Move transaction with the operations `ops', none of them without effect.
Execute(ops) ==
  /\ phase # "begin"
  /\ \A i \in DOMAIN ops : Exists(store, ops[i].val)
  /\ \E i \in DOMAIN ops : "amt" \in DOMAIN ops[i] \/ move.shares[ops[i].who, ops[i].val] # Zero
  /\ Applied(Outcome(ops), ApplyStakingDeltas(store, Outcome(ops), ops))
  /\ UNCHANGED <<jailed, uncertain>>

(***************************************************************************)
(* The sweep.                                                              *)
(***************************************************************************)
\* hasZeroRewards, on a copy of the store; a panic in it is recovered.
Pending(s, v) == CalculateDelegationRewards(IncrementValidatorPeriod(s, v), v, Module[v], s.cur[v].period)
\* Fault: a single coin is not worth the withdrawal.
hasLittleRewards(s, v) ==
  \/ ~Delegated(s, Module[v], v)
  \/ Pending(s, v).fail
  \/ Sum(Whole(Pending(s, v).rewards)) <= 1
hasZeroRewards(s, v) ==
  \/ ~Delegated(s, Module[v], v)
  \/ Pending(s, v).fail
  \/ Whole(Pending(s, v).rewards) = Zero

Withdrawn(s, v) == initializeDelegation(withdrawDelegationRewards(s, v, Module[v]), v, Module[v])

\* r: the store and the contract's reward books.  What the withdrawal adds to the
\* account of the module is passed on.
SafeWithdrawRewards(r, v) ==
  LET m == Module[v]
      s == Withdrawn(r.s, v)
      got == s.wallet[m] - r.s.wallet[m]
  IN IF hasZeroRewards(r.s, v) THEN r
     ELSE [s |-> [s EXCEPT !.wallet[m] = @ - got], rewards |-> [r.rewards EXCEPT ![v] = @ + got]]

\* GetBondedValidatorsByPower: a jailed validator is not in the power index.
Active == {v \in DOMAIN store.cur : v \notin jailed /\ ~store.val[v].unbonded}

Sweep ==
  LET r == FoldSet(LAMBDA v, q : SafeWithdrawRewards(q, v), [s |-> store, rewards |-> move.rewards], Active)
  IN /\ ~store.err /\ phase = "begin"
     /\ store' = r.s /\ phase' = "swept"
     /\ move' = [move EXCEPT !.rewards = r.rewards]
     /\ uncertain' = DOMAIN store.cur \ Active
     /\ UNCHANGED <<budget, jailed>>

(***************************************************************************)
(* The rest of the chain.                                                  *)
(***************************************************************************)
\* Downtime or evidence: slashed and jailed.
Punish(v, f) == Slash(v, f, {}) /\ jailed' = jailed \cup {v} /\ UNCHANGED <<move, uncertain>>
Unjail(v) ==
  /\ v \in jailed /\ phase # "begin" /\ ~store.val[v].unbonded
  /\ Message(store) /\ jailed' = jailed \ {v} /\ UNCHANGED <<move, uncertain>>

Gift(a, v, d, n) ==
  /\ phase # "begin"
  /\ DepositValidatorRewardsPool(a, v, d, n)
  /\ uncertain' = uncertain \cup {v} /\ UNCHANGED <<jailed, move>>

EmptyBooks ==
  [shares |-> [x \in Stakers \X Vals |-> Zero], promised |-> [v \in Vals |-> Zero],
   deposited |-> [v \in Vals |-> Zero], rewards |-> [v \in Vals |-> 0]]

MoveInit ==
  /\ store = Started([Start EXCEPT !.wallet = [a \in Accts |-> IF a \in Modules THEN 0 ELSE Purse]])
  /\ phase = "begin" /\ budget \in Budgets
  /\ jailed = {} /\ uncertain = {} /\ move = EmptyBooks

MoveNext ==
  \/ \E turnout \in Turnouts : BeginBlock(turnout, FALSE) /\ UNCHANGED moveVars
  \/ \E v \in Vals, f \in SlashFactors : Punish(v, f)
  \/ Sweep
  \/ \E ops \in Runs : Execute(ops)
  \/ \E v \in Vals : Unjail(v)
  \/ \E a \in Users, v \in Vals, d \in Denoms, n \in Gifts : Gift(a, v, d, n)
  \/ \E a \in Users, v \in Vals, amt \in Amounts :
       phase # "begin" /\ (DelegateTo(a, v, amt) \/ Undelegate(a, v, amt)) /\ UNCHANGED moveVars
  \/ \E exits \in SUBSET jailed, fee \in Fees :
       phase # "begin" /\ EndBlock(exits, fee) /\ UNCHANGED moveVars

MoveSpec == MoveInit /\ [][MoveNext]_<<vars, moveVars>>

(***************************************************************************)
(* Properties.                                                             *)
(***************************************************************************)
\* Every Move staker can leave: the shares the contract has on its books, converted
\* one operation at a time, are never more than the shares of the module account's
\* delegation; and what it promised to those who left is never more than what the
\* keeper unbonded and deposited, although the two sides round at different times
\* (ApplyStakingDeltas, AmountToShare, ShareToAmount).
StakersCovered ==
  \A v \in Vals :
    /\ AllGTE(store.del[Module[v], v], Total(LAMBDA w : move.shares[w, v], Stakers))
    /\ AllGTE(move.deposited[v], move.promised[v])

\* A withdrawal leaves coins with a module account only for a validator of `uncertain'.
WithdrawnIsSwept ==
  \A m \in Modules : store'.wallet[m] > store.wallet[m] => \E v \in uncertain : Module[v] = m

\* While a validator is active and is given nothing between blocks, every coin the
\* module account withdraws reaches the contract: a delegation that changes in the
\* middle of a block, which withdraws to the module account, finds nothing left by the
\* sweep of the begin blocker (SafeWithdrawRewards).
NothingStranded == [][WithdrawnIsSwept]_<<vars, moveVars>>
=============================================================================

------------------------------ MODULE MStaking ------------------------------
(***************************************************************************)
(* The staking keeper of x/mstaking: validators staked in several bond     *)
(* denominations, delegations as shares, unbonding delegations and         *)
(* redelegations with their queues, the power index that picks the bonded  *)
(* set, jailing and slashing.                                              *)
(*                                                                         *)
(* `store' is the keeper's key-value store: one field per collection.  A   *)
(* keeper method is an operator from a store to a store; a message handler *)
(* is an action that applies the whole chain of methods it calls, and does *)
(* nothing when one of them returns an error, as the transaction is rolled *)
(* back.  A panic or an error in the begin or end blocker is not rolled    *)
(* back: it stops the chain, and is recorded in `fault'.                   *)
(*                                                                         *)
(* Amounts are functions from denominations to numbers.  Shares, and slash *)
(* factors, are the decimals of module Decimals.  A block lasts one unit   *)
(* of time.                                                                *)
(***************************************************************************)
EXTENDS StakeShares, Sequences, FiniteSets, FiniteSetsExt, SequencesExt

CONSTANTS Vals, Accts,      \* operator addresses, account addresses
          Operator,         \* the account of each operator address
          Rank,             \* the byte order of operator addresses
          Funds, Stake,     \* balances and self-delegations at genesis
          Amounts,          \* the coins a message may carry
          Weightings,       \* voting power weights the price feed may give
          WeightUnit,       \* a weight w stands for w / WeightUnit
          PowerReduction, SlashFactors, MaxAge,
          GenesisParams,    \* Params: minVotingPower, maxValidators, unbondingTime and
          ParamChanges,     \* maxEntries, at genesis and as governance may set them
          MaxHeight,        \* bound
          Budgets           \* bounds: how many messages, slashes, holds, changes of
                            \* weights and restarts a behaviour may have

ASSUME ConstAssumption ==
  /\ WeightUnit \in Nat \ {0} /\ PowerReduction \in Nat \ {0}
  /\ ParamChanges \cup {GenesisParams} \subseteq
       [minVotingPower : Nat \ {0}, maxValidators : Nat \ {0}, unbondingTime : Nat \ {0},
        maxEntries : Nat \ {0}]
  /\ SlashFactors \subseteq 0..Prec
  /\ Amounts \subseteq [Denoms -> Nat]
  /\ \A v \in Vals : Operator[v] \in Accts
  /\ Budgets \subseteq [msgs : Nat, slashes : Nat, holds : Nat, reprices : Nat, restarts : Nat]

VARIABLES store,   \* the keeper's collections and the balances it moves
          height,  \* block height, and block time
          phase,   \* "committed", "begin" (begin blockers ran) or "txs"
          budget,  \* what is left of the bounds
          imported,\* the chain was started from an export
          fault    \* what stopped the chain, "none" while it runs
vars == <<store, height, phase, budget, imported, fault>>

Pairs == Accts \X Vals
Triples == Accts \X Vals \X Vals

(***************************************************************************)
(* Voting power.                                                           *)
(***************************************************************************)
CalculateVotingPower(tokens, weights) ==
  MapThenSumSet(LAMBDA d : (weights[d] * tokens[d]) \div WeightUnit, Denoms)

ConsensusPower(power) == power \div PowerReduction

NoValidator ==
  [status |-> "none", jailed |-> FALSE, tokens |-> Zero, shares |-> Zero,
   power |-> 0, time |-> 0, height |-> 0, id |-> 0, hold |-> 0]
NewValidator == [NoValidator EXCEPT !.status = "unbonded"]

Exists(s, v) == s.val[v].status # "none"
VotingPower(s, v) == CalculateVotingPower(s.val[v].tokens, s.weights)

(***************************************************************************)
(* The power update whitelist, the power index, jailing, removal.          *)
(***************************************************************************)
IndexKey(s, v) == <<ConsensusPower(s.val[v].power), v>>

AddWhitelistValidator(s, v) ==
  IF s.val[v].jailed THEN s ELSE [s EXCEPT !.whitelist = @ \cup {v}]

RemoveWhitelistValidator(s, v) ==
  [s EXCEPT !.whitelist = @ \ {v}, !.index = @ \ {IndexKey(s, v)}]

Admit(s, v) ==
  IF VotingPower(s, v) >= s.params.minVotingPower THEN AddWhitelistValidator(s, v) ELSE s

JailKeepsWhitelist(s, v) == [s EXCEPT !.val[v].jailed = TRUE]

jailValidator(s, v) ==
  RemoveWhitelistValidator([s EXCEPT !.val[v].jailed = TRUE], v)

unjailValidator(s, v) == Admit([s EXCEPT !.val[v].jailed = FALSE], v)

\* The record and its index entry go; the whitelist is not touched.
RemoveValidator(s, v) ==
  [s EXCEPT !.val[v] = NoValidator, !.index = @ \ {IndexKey(s, v)}]
CanRemove(s, v) == s.val[v].status = "unbonded" /\ s.val[v].tokens = Zero

(***************************************************************************)
(* Delegating and unbonding.                                               *)
(***************************************************************************)
ToPool(s, bonded, amt) ==
  IF bonded THEN [s EXCEPT !.bondedPool = Plus(@, amt)]
            ELSE [s EXCEPT !.notBondedPool = Plus(@, amt)]
FromPool(s, bonded, amt) ==
  IF bonded THEN [s EXCEPT !.bondedPool = Minus(@, amt)]
            ELSE [s EXCEPT !.notBondedPool = Minus(@, amt)]

AddValidatorTokensAndShares(s, v, amt) ==
  LET s1 == [s EXCEPT !.val[v].tokens = Plus(@, amt),
                      !.val[v].shares = Plus(@, SharesFromTokens(s.val[v], amt))]
  IN IF v \in s.whitelist THEN s1 ELSE Admit(s1, v)

\* The pool of the tokens is taken for the pool of the validator.
DelegateNoTransfer(s, a, amt, from, v) ==
  LET bonded == s.val[v].status = "bonded"
      s1 == IF from = "account" THEN [s EXCEPT !.balance[a] = Minus(@, amt)]
            ELSE FromPool(s, bonded, amt)
      s2 == AddValidatorTokensAndShares(ToPool(s1, bonded, amt), v, amt)
  IN [s2 EXCEPT !.del[a, v] = Plus(@, SharesFromTokens(s.val[v], amt))]

\* The pool is credited, the account is not debited.
DelegateForFree(s, a, amt, from, v) ==
  LET s1 == IF from = "account" THEN s ELSE FromPool(s, from = "bonded", amt)
      s2 == ToPool(s1, s.val[v].status = "bonded", amt)
      s3 == AddValidatorTokensAndShares(s2, v, amt)
  IN [s3 EXCEPT !.del[a, v] = Plus(@, SharesFromTokens(s.val[v], amt))]

\* from: "account", or the bond status of the tokens that move.
Delegate(s, a, amt, from, v) ==
  LET s1 == IF from = "account" THEN [s EXCEPT !.balance[a] = Minus(@, amt)]
            ELSE FromPool(s, from = "bonded", amt)
      s2 == ToPool(s1, s.val[v].status = "bonded", amt)
      s3 == AddValidatorTokensAndShares(s2, v, amt)
  IN [s3 EXCEPT !.del[a, v] = Plus(@, SharesFromTokens(s.val[v], amt))]

\* An operator whose self-delegation falls below one unit of power is jailed.
SelfJail(s, a, v, sh) ==
  LET left == TokensFromShares(s.val[v], Minus(s.del[a, v], sh))
  IN /\ a = Operator[v]
     /\ ~s.val[v].jailed
     /\ ConsensusPower(CalculateVotingPower(left, s.weights)) < 1

\* err stands for the error of RemoveValidator.
Unbond(s, a, v, sh) ==
  LET s1 == IF SelfJail(s, a, v, sh) THEN jailValidator(s, v) ELSE s
      s2 == [s1 EXCEPT !.del[a, v] = Minus(@, sh), !.val[v] = RemoveDelShares(@, sh)]
      gone == s2.val[v].shares = Zero /\ s2.val[v].status = "unbonded"
  IN [s |-> IF gone THEN RemoveValidator(s2, v) ELSE s2,
      amt |-> TokensIssued(s.val[v], sh),
      err |-> gone /\ ~CanRemove(s2, v)]

\* ValidateUnbondAmount: the shares an amount stands for, capped by what is held.
UnbondShares(s, a, v, amt) == Least(SharesFromTokens(s.val[v], amt), s.del[a, v])
UnbondAmountValid(s, a, v, amt) ==
  /\ Exists(s, v)
  /\ s.del[a, v] # Zero
  /\ AllGTE(s.del[a, v], SharesFromTokens(s.val[v], amt))

(***************************************************************************)
(* Unbonding operations: an id for each, entries, and queues by time.      *)
(***************************************************************************)
Entry(h, t, amt, shares, id) ==
  [height |-> h, time |-> t, initial |-> amt, balance |-> amt, shares |-> shares,
   id |-> id, hold |-> 0]
IsMature(e, now) == e.time <= now
Eligible(e, now) == ~IsMature(e, now) \/ e.hold > 0
Without(seq, i) == SubSeq(seq, 1, i - 1) \o SubSeq(seq, i + 1, Len(seq))
DeleteUnbondingIndex(s, ids) == [s EXCEPT !.ids = {x \in @ : x[1] \notin ids}]

SetUnbondingDelegationEntry(s, a, v, h, t, amt) ==
  [s EXCEPT !.nextId = @ + 1,
            !.ids = @ \cup {<<s.nextId, "ubd", <<a, v>>>>},
            !.ubd[a, v] = Append(@, Entry(h, t, amt, Zero, s.nextId)),
            !.ubdQueue = @ \cup {<<t, a, v>>}]

SetRedelegationEntry(s, a, src, dst, h, t, amt, sh) ==
  [s EXCEPT !.nextId = @ + 1,
            !.ids = @ \cup {<<s.nextId, "red", <<a, src, dst>>>>},
            !.red[a, src, dst] = Append(@, Entry(h, t, amt, sh, s.nextId)),
            !.redQueue = @ \cup {<<t, a, src, dst>>}]

HasReceivingRedelegation(s, a, v) == \E src \in Vals : s.red[a, src, v] # <<>>

\* What a redelegation out of v waits for: now, the time and the height.
getBeginInfo(s, v) ==
  LET val == s.val[v]
  IN CASE val.status \in {"none", "bonded"} ->
            [now |-> FALSE, time |-> height + s.params.unbondingTime, height |-> height]
       [] val.status = "unbonding" ->
            [now |-> FALSE, time |-> val.time, height |-> val.height]
       [] val.status = "unbonded" -> [now |-> TRUE, time |-> 0, height |-> 0]

Matured(entries) ==
  SelectSeq(entries, LAMBDA e : IsMature(e, height) /\ e.hold = 0)
Unmatured(entries) ==
  SelectSeq(entries, LAMBDA e : ~(IsMature(e, height) /\ e.hold = 0))
EntryIds(entries) == {entries[i].id : i \in DOMAIN entries}
Owed(entries) == Total(LAMBDA i : entries[i].balance, DOMAIN entries)

PayOut(s, a, amt) ==
  [s EXCEPT !.notBondedPool = Minus(@, amt), !.balance[a] = Plus(@, amt)]

CompleteUnbonding(s, a, v) ==
  LET done == Matured(s.ubd[a, v])
      s1 == PayOut(DeleteUnbondingIndex(s, EntryIds(done)), a, Owed(done))
  IN [s1 EXCEPT !.ubd[a, v] = Unmatured(@)]

CompleteRedelegation(s, a, src, dst) ==
  [DeleteUnbondingIndex(s, EntryIds(Matured(s.red[a, src, dst])))
     EXCEPT !.red[a, src, dst] = Unmatured(@)]

(***************************************************************************)
(* The end blocker.  A step returns the store and the fault it met.        *)
(***************************************************************************)

\* ApplyVotingPowerUpdates: every whitelisted validator is weighed anew.
ApplyVotingPowerUpdates(s) ==
  LET s1 == [s EXCEPT !.val = [v \in Vals |->
                IF v \in s.whitelist THEN [@[v] EXCEPT !.power = VotingPower(s, v)]
                                     ELSE @[v]]]
      stay == {v \in s.whitelist : s1.val[v].power >= s.params.minVotingPower}
  IN [s1 EXCEPT !.whitelist = stay,
                !.index = (@ \ {IndexKey(s, v) : v \in s.whitelist})
                          \cup {IndexKey(s1, v) : v \in stay}]

\* The index walked from the highest power down, up to the first zero power.
ByPower(s) ==
  SetToSortSeq(s.index, LAMBDA x, y :
    x[1] > y[1] \/ (x[1] = y[1] /\ Rank[x[2]] > Rank[y[2]]))
Potential(s, v) == ConsensusPower(s.val[v].power)
Chosen(s) ==
  LET walk == ByPower(s)
      n == Max({k \in 0..Min({s.params.maxValidators, Len(walk)}) :
                  \A i \in 1..k : Potential(s, walk[i][2]) > 0})
  IN {walk[i][2] : i \in 1..n}
\* The entries the walk looks at: also the one that ends it.
Visited(s) ==
  LET walk == ByPower(s)
  IN {walk[i] : i \in 1..Min({Cardinality(Chosen(s)) + 1, s.params.maxValidators, Len(walk)})}
LastSet(s) == {v \in Vals : s.last[v] > 0}

bondValidator(s, v) ==
  [DeleteUnbondingIndex(s, {s.val[v].id})
     EXCEPT !.valQueue = @ \ {<<s.val[v].time, v>>},
            !.val[v] = [@ EXCEPT !.status = "bonded", !.time = 0, !.height = 0,
                                 !.id = 0, !.hold = 0]]

beginUnbondingValidator(s, v) ==
  [s EXCEPT !.nextId = @ + 1,
            !.ids = @ \cup {<<s.nextId, "val", v>>},
            !.valQueue = @ \cup {<<height + s.params.unbondingTime, v>>},
            !.val[v] = [@ EXCEPT !.status = "unbonding", !.id = s.nextId,
                                 !.time = height + s.params.unbondingTime, !.height = height]]

InOrder(S) == SetToSortSeq(S, LAMBDA x, y : Rank[x] < Rank[y])

ApplyAndReturnValidatorSetUpdates(s) ==
  LET chosen == Chosen(s)
      entering == {v \in chosen : s.val[v].status # "bonded"}
      leaving == LastSet(s) \ chosen
      amtIn == Total(LAMBDA v : s.val[v].tokens, entering)
      amtOut == Total(LAMBDA v : s.val[v].tokens, leaving)
      s1 == FoldLeft(bondValidator, s, InOrder(entering))
      s2 == FoldLeft(beginUnbondingValidator, s1, InOrder(leaving))
  IN [s2 EXCEPT !.last = [v \in Vals |-> IF v \in chosen THEN Potential(s, v) ELSE 0],
                !.bondedPool = Minus(Plus(@, amtIn), amtOut),
                !.notBondedPool = Minus(Plus(@, amtOut), amtIn)]

MatureValidators(s) == {x \in s.valQueue : x[1] <= height}

completeUnbonding(s, v) ==
  IF s.val[v].hold > 0 THEN s
  ELSE LET s1 == [DeleteUnbondingIndex(s, {s.val[v].id})
                    EXCEPT !.val[v] = [@ EXCEPT !.status = "unbonded", !.id = 0],
                           !.valQueue = @ \ {<<s.val[v].time, v>>}]
       IN IF s1.val[v].shares = Zero THEN RemoveValidator(s1, v) ELSE s1

UnbondAllMatureValidators(s) ==
  FoldLeft(completeUnbonding, s, InOrder({x[2] : x \in MatureValidators(s)}))

CompleteMature(s) ==
  LET ubds == {x \in s.ubdQueue : x[1] <= height}
      reds == {x \in s.redQueue : x[1] <= height}
      s1 == [s EXCEPT !.ubdQueue = @ \ ubds, !.redQueue = @ \ reds]
      s2 == FoldSet(LAMBDA q, t : CompleteUnbonding(t, q[2], q[3]), s1, ubds)
  IN FoldSet(LAMBDA q, t : CompleteRedelegation(t, q[2], q[3], q[4]), s2, reds)

(***************************************************************************)
(* Slashing, by factor f, for an infraction at height h.                   *)
(***************************************************************************)
\* One unbonding delegation: each entry pays out of its initial balance.
SlashEntry(e, h, f) ==
  IF e.height < h \/ ~Eligible(e, height) THEN e
  ELSE [e EXCEPT !.balance = Minus(@, Least(Fraction(e.initial, f), @))]
SlashUnbondingDelegations(s, v, h, f) ==
  LET slashed == [p \in Pairs |-> IF p[2] # v THEN s.ubd[p] ELSE
                    [i \in DOMAIN s.ubd[p] |-> SlashEntry(s.ubd[p][i], h, f)]]
      owed(F) == Total(LAMBDA a : Owed(F[a, v]), Accts)
  IN [s EXCEPT !.ubd = slashed,
               !.notBondedPool = Minus(@, Minus(owed(s.ubd), owed(slashed)))]

\* acc: the store, the amount still to slash, and whether a call failed.
SlashDstUnbonding(acc, a, dst, i, h) ==
  LET e == acc.s.ubd[a, dst][i]
      cut == Least(acc.slash, e.balance)
  IN IF cut = Zero \/ e.height < h \/ ~Eligible(e, height) THEN acc
     ELSE [acc EXCEPT !.slash = Minus(@, cut),
                      !.s.notBondedPool = Minus(@, cut),
                      !.s.ubd[a, dst][i].balance = Minus(@, cut)]

BurnUnbonded(acc, dst, out) ==
  [acc EXCEPT !.s = FromPool(out.s, acc.s.val[dst].status = "bonded", out.amt),
              !.err = @ \/ out.err \/ ~Exists(out.s, dst)]

\* What is left to slash is unbonded from the destination and burned there.
SlashDstDelegation(acc, a, dst, e, f) ==
  LET sh == Least(MulDec(e.shares, f), acc.s.del[a, dst])
  IN IF acc.slash = Zero \/ MulDec(e.shares, f) = Zero \/ acc.s.del[a, dst] = Zero THEN acc
     ELSE BurnUnbonded(acc, dst, Unbond(acc.s, a, dst, sh))

SlashRedelegationEntry(acc, a, dst, e, h, f) ==
  IF e.height < h \/ ~Eligible(e, height) THEN acc
  ELSE LET acc1 == [acc EXCEPT !.slash = Fraction(e.initial, f)]
           acc2 == FoldLeft(LAMBDA x, i : SlashDstUnbonding(x, a, dst, i, h), acc1,
                            [i \in DOMAIN acc.s.ubd[a, dst] |-> i])
       IN SlashDstDelegation(acc2, a, dst, e, f)

SlashRedelegation(acc, a, src, dst, h, f) ==
  FoldLeft(LAMBDA x, e : SlashRedelegationEntry(x, a, dst, e, h, f),
           acc, acc.s.red[a, src, dst])

\* The unbonding delegations, the redelegations, then the validator's tokens.
Slash(s, v, h, f) ==
  LET past == h < height
      acc0 == [s |-> SlashUnbondingDelegations(s, v, h, f),
               slash |-> Zero, err |-> FALSE]
      acc == FoldSet(LAMBDA p, x : SlashRedelegation(x, p[1], v, p[2], h, f), acc0,
                     {p \in Pairs : s.red[p[1], v, p[2]] # <<>>})
      res == IF past THEN acc ELSE [acc0 EXCEPT !.s = s]
      cut == Fraction(s.val[v].tokens, f)
  IN [res EXCEPT !.s = [FromPool(@, s.val[v].status = "bonded", cut)
                          EXCEPT !.val[v].tokens = Minus(@, cut)]]

(***************************************************************************)
(* Actions.                                                                *)
(***************************************************************************)
Genesis(v) == Stake[v] # Zero

\* The indexes that are built from the validator records; the unbonding ids,
\* which the exported state does not have, are not.
Reindexed(s) ==
  LET listed == {v \in Vals : Exists(s, v)}
  IN [s EXCEPT
        !.whitelist = {v \in listed : VotingPower(s, v) >= s.params.minVotingPower /\ ~s.val[v].jailed},
        !.index = {IndexKey(s, v) : v \in listed},
        !.ids = {}]
UnbondingSlots(s) == {<<s.val[v].time, v>> : v \in {u \in Vals : s.val[u].status = "unbonding"}}
EntrySlots(F) ==
  UNION {{<<F[p][i].time>> \o p : i \in DOMAIN F[p]} : p \in DOMAIN F}

InitGenesis(s) ==
  [Reindexed(s) EXCEPT !.valQueue = UnbondingSlots(s), !.ubdQueue = EntrySlots(s.ubd),
                       !.redQueue = EntrySlots(s.red)]

\* Tokens of validators in status B, and what is being unbonded.
StatusTokens(s, B) == Total(LAMBDA v : s.val[v].tokens,
                            {v \in Vals : (s.val[v].status = "bonded") = B})
UnbondingTokens(s) == Total(LAMBDA p : Owed(s.ubd[p]), Pairs)

\* The balances InitGenesis compares, and panics when they differ.
PoolFault(s) ==
  \/ s.bondedPool # StatusTokens(s, TRUE)
  \/ s.notBondedPool # Plus(StatusTokens(s, FALSE), UnbondingTokens(s))

\* After InitGenesis and the first validator set: genesis validators bonded.
Init ==
  LET weights == CHOOSE w \in Weightings : TRUE
      val(v) == [NewValidator EXCEPT
                   !.tokens = Stake[v],
                   !.shares = [d \in Denoms |-> Stake[v][d] * Prec],
                   !.power = CalculateVotingPower(Stake[v], weights)]
      s == [val |-> [v \in Vals |-> IF Genesis(v) THEN val(v) ELSE NoValidator],
            del |-> [p \in Pairs |-> IF Genesis(p[2]) /\ p[1] = Operator[p[2]]
                                     THEN val(p[2]).shares ELSE Zero],
            ubd |-> [p \in Pairs |-> <<>>], red |-> [p \in Triples |-> <<>>],
            valQueue |-> {}, ubdQueue |-> {}, redQueue |-> {},
            nextId |-> 1, ids |-> {},
            params |-> GenesisParams,
            whitelist |-> {}, index |-> {}, last |-> [v \in Vals |-> 0], weights |-> weights,
            tombstoned |-> {},
            bondedPool |-> Zero,
            notBondedPool |-> Total(LAMBDA v : Stake[v], Vals), balance |-> Funds]
  IN /\ height = 1
     /\ phase = "committed"
     /\ budget \in Budgets
     /\ imported = FALSE
     /\ fault = "none"
     /\ store = ApplyAndReturnValidatorSetUpdates(ApplyVotingPowerUpdates(InitGenesis(s)))

Message ==
  /\ fault = "none"
  /\ budget.msgs > 0
  /\ budget' = [budget EXCEPT !.msgs = @ - 1]
  /\ phase' = "txs"
  /\ UNCHANGED <<height, fault, imported>>

CreateValidator(v, amt) ==
  /\ Message
  /\ ~Exists(store, v)
  /\ amt # Zero /\ AllGTE(store.balance[Operator[v]], amt)
  /\ store' = Delegate([store EXCEPT !.val[v] = NewValidator], Operator[v], amt, "account", v)

MsgDelegate(a, v, amt) ==
  /\ Message
  /\ Exists(store, v) /\ ~InvalidExRate(store.val[v])
  /\ amt # Zero /\ AllGTE(store.balance[a], amt)
  /\ store' = Delegate(store, a, amt, "account", v)

Undelegate(a, v, amt) ==
  /\ Message
  /\ amt # Zero /\ UnbondAmountValid(store, a, v, amt)
  /\ Len(store.ubd[a, v]) < store.params.maxEntries
  /\ LET out == Unbond(store, a, v, UnbondShares(store, a, v, amt))
         bonded == store.val[v].status = "bonded"
         moved == ToPool(FromPool(out.s, bonded, out.amt), FALSE, out.amt)
     IN /\ ~out.err
        /\ store' = SetUnbondingDelegationEntry(moved, a, v, height,
                                                height + store.params.unbondingTime, out.amt)

BeginRedelegate(a, src, dst, amt) ==
  /\ Message
  /\ amt # Zero /\ UnbondAmountValid(store, a, src, amt)
  /\ src # dst /\ Exists(store, dst)
  /\ ~HasReceivingRedelegation(store, a, src)
  /\ Len(store.red[a, src, dst]) < store.params.maxEntries
  /\ ~InvalidExRate(store.val[dst])
  /\ LET out == Unbond(store, a, src, UnbondShares(store, a, src, amt))
         sh == SharesFromTokens(store.val[dst], out.amt)
         s1 == Delegate(out.s, a, out.amt, store.val[src].status, dst)
         info == getBeginInfo(s1, src)
     IN /\ ~out.err
        /\ out.amt # Zero
        /\ store' = IF info.now THEN s1
                    ELSE SetRedelegationEntry(s1, a, src, dst, info.height, info.time,
                                              out.amt, sh)


\* The entry is the first one created at height h.
CancelUnbondingDelegation(a, v, h, amt) ==
  /\ Message
  /\ Exists(store, v) /\ ~InvalidExRate(store.val[v]) /\ ~store.val[v].jailed
  /\ \E i \in DOMAIN store.ubd[a, v] :
       LET e == store.ubd[a, v][i]
           s1 == Delegate(store, a, amt, "unbonding", v)
       IN /\ e.height = h
          /\ \A j \in 1..(i - 1) : store.ubd[a, v][j].height # h
          /\ amt # Zero /\ AllGTE(e.balance, amt)
          /\ e.time >= height
          /\ store' = IF e.balance = amt
                      THEN [DeleteUnbondingIndex(s1, {e.id}) EXCEPT !.ubd[a, v] = Without(@, i)]
                      ELSE [s1 EXCEPT !.ubd[a, v][i].balance = Minus(@, amt),
                                      !.ubd[a, v][i].initial = Minus(@, amt)]

\* x/slashing Unjail; when the jail time ends is left open.
Unjail(v) ==
  LET self == TokensFromShares(store.val[v], store.del[Operator[v], v])
  IN /\ Message
     /\ Exists(store, v) /\ store.val[v].jailed /\ v \notin store.tombstoned
     /\ store.del[Operator[v], v] # Zero
     /\ ConsensusPower(CalculateVotingPower(self, store.weights)) >= 1
     /\ store' = unjailValidator(store, v)

\* Governance sets other parameters, which are only read where they are used next.
UpdateParams(p) ==
  /\ Message
  /\ store' = [store EXCEPT !.params = p]

\* The begin blocker slashes and jails: x/evidence tombstones as well.
Punish(v, h, f, tombstone) ==
  LET res == Slash(store, v, h, f)
      s1 == IF store.val[v].jailed THEN res.s ELSE jailValidator(res.s, v)
  IN /\ fault = "none" /\ phase # "txs"
     /\ budget.slashes > 0
     /\ budget' = [budget EXCEPT !.slashes = @ - 1]
     /\ store' = [s1 EXCEPT !.tombstoned = IF tombstone THEN @ \cup {v} ELSE @]
     /\ fault' = IF res.err THEN "slash" ELSE "none"
     /\ phase' = "begin"
     /\ UNCHANGED <<height, imported>>

\* Evidence of height h + 1 comes at most MaxAge blocks later.
handleEquivocationEvidence(v, h, f) ==
  /\ store.val[v].status \in {"bonded", "unbonding"}
  /\ v \notin store.tombstoned
  /\ h \in (height - MaxAge - 1)..(height - 2)
  /\ Punish(v, h, f, TRUE)

\* The validator signed, or should have, the block before the last.
HandleValidatorSignature(v, f) ==
  /\ store.val[v].status \in {"bonded", "unbonding"}
  /\ ~store.val[v].jailed
  /\ Punish(v, height - 2, f, FALSE)

EntryOf(entries, id) == CHOOSE i \in DOMAIN entries : entries[i].id = id

\* Another module stops unbonding operation x from completing.
PutUnbondingOnHold(x) ==
  /\ fault = "none"
  /\ budget.holds > 0
  /\ budget' = [budget EXCEPT !.holds = @ - 1]
  /\ store' = CASE x[2] = "ubd" ->
                     [store EXCEPT !.ubd[x[3]][EntryOf(store.ubd[x[3]], x[1])].hold = @ + 1]
                [] x[2] = "red" ->
                     [store EXCEPT !.red[x[3]][EntryOf(store.red[x[3]], x[1])].hold = @ + 1]
                [] x[2] = "val" -> [store EXCEPT !.val[x[3]].hold = @ + 1]
  /\ UNCHANGED <<height, phase, fault, imported>>

\* A released entry waits for the queue, which has passed it.
ReleaseOnly(s, x) == [s EXCEPT !.ubd[x[3]][EntryOf(s.ubd[x[3]], x[1])].hold = @ - 1]

\* A released entry that is mature completes at once.
unbondingDelegationEntryCanComplete(s, x) ==
  LET i == EntryOf(s.ubd[x[3]], x[1])
      e == s.ubd[x[3]][i]
      paid == PayOut(DeleteUnbondingIndex(s, {x[1]}), x[3][1], e.balance)
  IN IF e.hold = 1 /\ IsMature(e, height)
     THEN [paid EXCEPT !.ubd[x[3]] = Without(@, i)]
     ELSE [s EXCEPT !.ubd[x[3]][i].hold = @ - 1]

redelegationEntryCanComplete(s, x) ==
  LET i == EntryOf(s.red[x[3]], x[1])
      e == s.red[x[3]][i]
  IN IF e.hold = 1 /\ IsMature(e, height)
     THEN [DeleteUnbondingIndex(s, {x[1]}) EXCEPT !.red[x[3]] = Without(@, i)]
     ELSE [s EXCEPT !.red[x[3]][i].hold = @ - 1]

HoldOf(s, x) ==
  CASE x[2] = "ubd" -> s.ubd[x[3]][EntryOf(s.ubd[x[3]], x[1])].hold
    [] x[2] = "red" -> s.red[x[3]][EntryOf(s.red[x[3]], x[1])].hold
    [] x[2] = "val" -> s.val[x[3]].hold

UnbondingCanComplete(x) ==
  /\ fault = "none"
  /\ HoldOf(store, x) > 0
  /\ store' = CASE x[2] = "ubd" -> unbondingDelegationEntryCanComplete(store, x)
                [] x[2] = "red" -> redelegationEntryCanComplete(store, x)
                [] x[2] = "val" -> [store EXCEPT !.val[x[3]].hold = @ - 1]
  /\ UNCHANGED <<height, phase, budget, fault, imported>>

\* The pool prices of the Move DEX give the denominations other weights.
Reprice(w) ==
  /\ fault = "none"
  /\ budget.reprices > 0
  /\ budget' = [budget EXCEPT !.reprices = @ - 1]
  /\ store' = [store EXCEPT !.weights = w]
  /\ UNCHANGED <<height, phase, fault, imported>>

\* What makes the end blocker panic or return an error, in its order.
WhitelistFault(s) == \E v \in s.whitelist : ~Exists(s, v) \/ s.val[v].jailed
IndexFault(s) == \E x \in Visited(s) : ~Exists(s, x[2]) \/ s.val[x[2]].jailed
LeavingFault(s) == \E v \in LastSet(s) \ Chosen(s) : s.val[v].status # "bonded"
QueueFault(s) ==
  \E x \in MatureValidators(s) :
    \/ s.val[x[2]].status # "unbonding"
    \/ s.val[x[2]].hold = 0 /\ s.val[x[2]].shares = Zero /\ s.val[x[2]].tokens # Zero

\* BlockValidatorUpdates, and the next block's time.
EndBlock ==
  LET s1 == ApplyVotingPowerUpdates(store)
      s2 == ApplyAndReturnValidatorSetUpdates(s1)
      s3 == UnbondAllMatureValidators(s2)
      broken == CASE WhitelistFault(store) -> "whitelist"
                  [] IndexFault(s1) -> "index"
                  [] LeavingFault(s1) -> "leaving"
                  [] QueueFault(s2) -> "queue"
                  [] OTHER -> "none"
  IN /\ fault = "none"
     /\ height < MaxHeight
     /\ fault' = broken
     /\ IF broken = "none"
        THEN /\ store' = CompleteMature(s3)
             /\ height' = height + 1
             /\ phase' = "committed"
        ELSE UNCHANGED <<store, height, phase>>
     /\ UNCHANGED <<budget, imported>>

\* The chain starts anew from its exported state (ExportGenesis, InitGenesis).
Restart ==
  /\ fault = "none" /\ phase = "committed"
  /\ budget.restarts > 0
  /\ budget' = [budget EXCEPT !.restarts = @ - 1]
  /\ imported' = TRUE
  /\ fault' = IF PoolFault(store) THEN "pool" ELSE "none"
  /\ store' = InitGenesis(store)
  /\ UNCHANGED <<height, phase>>

Next ==
  \/ \E v \in Vals, amt \in Amounts : CreateValidator(v, amt)
  \/ \E a \in Accts, v \in Vals, amt \in Amounts : MsgDelegate(a, v, amt)
  \/ \E a \in Accts, v \in Vals, amt \in Amounts : Undelegate(a, v, amt)
  \/ \E a \in Accts, src, dst \in Vals, amt \in Amounts : BeginRedelegate(a, src, dst, amt)
  \/ \E a \in Accts, v \in Vals, h \in 1..height, amt \in Amounts :
       CancelUnbondingDelegation(a, v, h, amt)
  \/ \E v \in Vals : Unjail(v)
  \/ \E p \in ParamChanges : UpdateParams(p)
  \/ \E v \in Vals, h \in (-MaxAge)..height, f \in SlashFactors :
       handleEquivocationEvidence(v, h, f)
  \/ \E v \in Vals, f \in SlashFactors : HandleValidatorSignature(v, f)
  \/ \E x \in store.ids : PutUnbondingOnHold(x)
  \/ \E x \in store.ids : UnbondingCanComplete(x)
  \/ \E w \in Weightings : Reprice(w)
  \/ EndBlock
  \/ Restart

Spec == Init /\ [][Next]_vars

(***************************************************************************)
(* Properties.                                                             *)
(***************************************************************************)
CoinType == [Denoms -> Nat]
ValidatorType ==
  [status : {"none", "bonded", "unbonding", "unbonded"}, jailed : BOOLEAN,
   tokens : CoinType, shares : CoinType, power : Nat, time : Nat, height : Nat,
   id : Nat, hold : Nat]
EntryType ==
  [height : Nat, time : Nat, initial : CoinType, balance : CoinType,
   shares : CoinType, id : Nat, hold : Nat]

\* Every collection of the store has its type; no amount, and no pool, is
\* ever negative (the Sub calls that would panic never do).
TypeOK ==
  /\ \A v \in Vals : store.val[v] \in ValidatorType
  /\ \A p \in Pairs : store.del[p] \in CoinType
  /\ \A p \in Pairs : \A i \in DOMAIN store.ubd[p] : store.ubd[p][i] \in EntryType
  /\ \A p \in Triples : \A i \in DOMAIN store.red[p] : store.red[p][i] \in EntryType
  /\ store.bondedPool \in CoinType /\ store.notBondedPool \in CoinType
  /\ \A a \in Accts : store.balance[a] \in CoinType
  /\ store.whitelist \subseteq Vals
  /\ height \in 1..MaxHeight /\ phase \in {"committed", "begin", "txs"}

\* ModuleAccountInvariants: the bonded pool holds exactly the tokens of bonded
\* validators, the other pool those of the rest and what is being unbonded,
\* whatever mix of redelegations, cancellations, set changes and slashes ran.
PoolsMatch ==
  /\ store.bondedPool = StatusTokens(store, TRUE)
  /\ store.notBondedPool = Plus(StatusTokens(store, FALSE), UnbondingTokens(store))

\* DelegatorSharesInvariant: a validator's shares are those of its delegations,
\* and a denomination whose shares are all gone has left no token behind.
SharesMatch ==
  \A v \in Vals :
    /\ store.val[v].shares = Total(LAMBDA a : store.del[a, v], Accts)
    /\ \A d \in Denoms : store.val[v].shares[d] = 0 => store.val[v].tokens[d] = 0

\* The books balance: coins, shares and pools, after every message and block.
BooksBalance == TypeOK /\ PoolsMatch /\ SharesMatch

\* No begin or end blocker ever panics or returns an error: no jailed or removed
\* validator in the whitelist or the power index, none leaving the set that is
\* not bonded, none in the unbonding queue in another state, none removed with
\* tokens, no redelegation slash that loses its destination.  (A chain started from
\* an export is the exception NoJailedRetrieved is about.)
NeverHalts == fault = "none" \/ (imported /\ fault = "index")

\* "should never retrieve a jailed validator from the power store": the walk that
\* picks the validator set meets none, on a chain restarted from an export either.
NoJailedRetrieved == fault # "index"

\* NonNegativePowerInvariant: a validator has at most one entry in the power
\* index, under the power in its record, and only while it is whitelisted, on a
\* chain that was not started from an export.
IndexMatches ==
  ~imported => \A x \in store.index : x = IndexKey(store, x[2]) /\ x[2] \in store.whitelist

\* The last validator set is the bonded validators, within the maximum after every
\* end blocker whatever the maximum was before; a
\* validator is unbonding exactly while the validator queue holds it.
SetMatches ==
  /\ LastSet(store) = {v \in Vals : store.val[v].status = "bonded"}
  /\ phase # "txs" => Cardinality(LastSet(store)) <= store.params.maxValidators
  /\ store.valQueue = {<<store.val[v].time, v>> :
                         v \in {u \in Vals : store.val[u].status = "unbonding"}}

\* Not a time the end blocker has already passed.
Due(e) == phase # "txs" => e.time >= height

\* No block fails, and an unbonding or redelegation entry nobody holds has its time in
\* the queue, and the end blocker of that time completes it: none is forgotten
\* (BlockValidatorUpdates, InsertUBDQueue, CompleteUnbonding).
NoneForgotten ==
  /\ NeverHalts
  /\ \A p \in Pairs : \A i \in DOMAIN store.ubd[p] :
       LET e == store.ubd[p][i]
       IN e.hold = 0 => Due(e) /\ <<e.time, p[1], p[2]>> \in store.ubdQueue
  /\ \A p \in Triples : \A i \in DOMAIN store.red[p] :
       LET e == store.red[p][i]
       IN e.hold = 0 => Due(e) /\ <<e.time, p[1], p[2], p[3]>> \in store.redQueue

\* The unbonding index leads to every unbonding operation under way, each by an
\* id of its own, and to nothing else, on a chain that was not started from an
\* export (which has no such index).
IdsMatch ==
  LET entryIds(F, kind) ==
        UNION {{<<F[p][i].id, kind, p>> : i \in DOMAIN F[p]} : p \in DOMAIN F}
      valIds == {<<store.val[v].id, "val", v>> :
                   v \in {u \in Vals : store.val[u].status = "unbonding"}}
  IN imported \/
     /\ store.ids = entryIds(store.ubd, "ubd") \cup entryIds(store.red, "red") \cup valIds
     /\ \A x, y \in store.ids : x[1] = y[1] => x = y


Supply(s) ==
  Plus(Plus(s.bondedPool, s.notBondedPool), Total(LAMBDA a : s.balance[a], Accts))

\* Staking neither makes nor destroys coins; only a slash burns them.
OnlySlashBurns ==
  [][/\ AllGTE(Supply(store), Supply(store'))
     /\ budget'.slashes = budget.slashes => Supply(store') = Supply(store)]_vars
=============================================================================

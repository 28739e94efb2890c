----------------------------- MODULE BlockFees -----------------------------
(***************************************************************************)
(* Where the coins of the fee collector come from, and the share contracts *)
(* take out of it: the release of rewards (x/reward), the gas price that   *)
(* follows the load of the blocks (x/dynamic-fee), and the execution of a  *)
(* transaction by x/move, whose contracts may send messages on, each in a  *)
(* context of its own, and be called back about them.  At the beginning of *)
(* a block distribution takes all the collector holds.                     *)
(*                                                                         *)
(* A run of the Move VM is an arbitrary outcome within the gas that is     *)
(* left.  A context holds what is written in it: the messages whose        *)
(* effects it keeps, what callbacks were told, and the shares paid.        *)
(***************************************************************************)
EXTENDS Decimals, Sequences, SequencesExt, FiniteSets, FiniteSetsExt

CONSTANTS
  FeeParams, FeeChanges,        \* [base, min, max, target, rate]
  RewardParams, RewardChanges,  \* [rate, dilution, period, enabled]
  Supply, Fund,       \* of the reward coin; what the reward account holds at genesis
  Year,               \* its length
  ShareRatio,         \* ContractSharedRevenueRatio
  Offers,             \* [fee, gas] of the transactions
  Usages,             \* the gas a run takes
  Calls,              \* sequences of the messages a run sends
  Steps,              \* the time between two blocks
  FeeBudgets          \* [blocks, txs, changes, nested] an instance may use

VARIABLES fees, reward, tx, allowance
feeVars == <<fees, reward, tx, allowance>>

Charge(what) == allowance[what] > 0 /\ allowance' = [allowance EXCEPT ![what] = @ - 1]

(***************************************************************************)
(* The library's truncation and rounding are symmetric around zero.        *)
(***************************************************************************)
Signed(F(_), n) == IF n < 0 THEN -F(-n) ELSE F(n)
QuoInt64(x, n) == Signed(LAMBDA m : m \div n, x)
MulSigned(x, y) == Signed(Chop, x * y)
Clamp(n, low, high) == IF n < low THEN low ELSE IF n > high THEN high ELSE n

(***************************************************************************)
(* x/dynamic-fee.                                                          *)
(***************************************************************************)
ValidFees(p) ==
  /\ {p.base, p.min, p.max, p.target, p.rate} \subseteq Nat
  /\ p.min <= p.base /\ p.base <= p.max

BaseFeeMultiplier(p, gas) == MulSigned(QuoInt64((gas - p.target) * Prec, p.target), p.rate) + Prec

\* Fault: the new price is not held between the bounds.
UnboundedGasPrice(p, gas) == [p EXCEPT !.base = MulSigned(@, BaseFeeMultiplier(p, gas))]

\* The price at the end of a block whose transactions asked for `gas'.
UpdateBaseGasPrice(p, gas) ==
  [p EXCEPT !.base = Clamp(MulSigned(@, BaseFeeMultiplier(p, gas)), p.min, p.max)]

(***************************************************************************)
(* x/reward.                                                               *)
(***************************************************************************)
ValidReward(p) == p.period # 0 /\ p.rate \in 0..Prec /\ p.dilution \in 0..Prec

GetAnnualProvisions(p) == p.rate * Supply

BlockProvision(r, elapsed) ==
  Min({r.fund, TruncateInt(Mul(GetAnnualProvisions(r.params), (elapsed * Prec) \div Year))})

Diluted(p) == LET rate == p.rate - Mul(p.rate, p.dilution) IN [p EXCEPT !.rate = Max({rate, 0})]

\* Fault: while the release is disabled, the time goes on counting.
ReleaseCatchesUp(r, now) ==
  IF now <= r.lastRelease \/ ~r.params.enabled THEN r
  ELSE [r EXCEPT !.fund = @ - BlockProvision(r, now - r.lastRelease),
                 !.released = @ + BlockProvision(r, now - r.lastRelease),
                 !.lastRelease = now]

\* The begin blocker at time `now': what is released goes to the fee collector.
Release(r, now) ==
  LET provision == BlockProvision(r, now - r.lastRelease)
      due == now - r.lastDilution >= r.params.period
  IN IF now <= r.lastRelease THEN r
     ELSE IF ~r.params.enabled THEN [r EXCEPT !.lastRelease = now, !.lastDilution = now]
     ELSE [r EXCEPT !.fund = @ - provision, !.released = @ + provision,
                    !.params = IF due THEN Diluted(@) ELSE @,
                    !.lastDilution = IF due THEN now ELSE @,
                    !.lastRelease = now]

(***************************************************************************)
(* Blocks.  reward.accrued is a history variable: what the rate in force   *)
(* yields over the time the release was enabled, in units of 1/(Prec*Year).*)
(* fees.load is another: the gas of the block's transactions.              *)
(***************************************************************************)
Idle == [frames |-> <<>>, fee |-> 0, gas |-> 0, price |-> 0]
NoWrites == [kept |-> {}, told |-> {}, paid |-> 0]

Accrual(r, step) == IF r.params.enabled THEN GetAnnualProvisions(r.params) * step ELSE 0

BeginFeeBlock(step) ==
  LET now == reward.now + step
  IN /\ fees.phase = "committed" /\ ~fees.halted
     /\ Charge("blocks")
     /\ reward' = [Release(reward, now) EXCEPT !.now = now, !.accrued = @ + Accrual(reward, step),
                                               !.blocks = @ + 1]
     /\ fees' = [fees EXCEPT !.phase = "txs", !.collector = 0]
     /\ UNCHANGED tx

\* The accumulated gas is in the transient store, which a commit empties.
EndFeeBlock ==
  /\ fees.phase = "txs" /\ tx = Idle
  /\ IF fees.params.target = 0 THEN fees' = [fees EXCEPT !.halted = TRUE, !.phase = "committed"]
     ELSE fees' = [fees EXCEPT !.params = UpdateBaseGasPrice(@, fees.gas), !.gas = 0, !.load = 0,
                               !.phase = "committed"]
  /\ UNCHANGED <<reward, tx, allowance>>

UpdateFeeParams(p) ==
  /\ fees.phase = "txs" /\ tx = Idle /\ ValidFees(p) /\ Charge("changes")
  /\ fees' = [fees EXCEPT !.params = p]
  /\ UNCHANGED <<reward, tx>>

UpdateRewardParams(p) ==
  /\ fees.phase = "txs" /\ tx = Idle /\ ValidReward(p) /\ Charge("changes")
  /\ reward' = [reward EXCEPT !.params = p]
  /\ UNCHANGED <<fees, tx>>

FundFromReward(n) ==
  /\ fees.phase = "txs" /\ tx = Idle /\ n <= reward.fund /\ Charge("changes")
  /\ reward' = [reward EXCEPT !.fund = @ - n]
  /\ UNCHANGED <<fees, tx>>

(***************************************************************************)
(* A transaction.  tx.frames are the executions in progress, innermost     *)
(* last; each has a path, its place in the tree of messages.               *)
(***************************************************************************)
Frame(role, path, ctx, msg, ok) ==
  [role |-> role, path |-> path, ctx |-> ctx, msg |-> msg, ok |-> ok, ran |-> FALSE,
   todo |-> <<>>, sent |-> 0]
Outermost == [kind |-> "move", allow |-> FALSE, callback |-> FALSE]

\* Fault: only the largest gas of a block's transactions is kept.
KeepLargestGas(f, o) ==
  [f EXCEPT !.gas = Max({@, o.gas}), !.load = @ + o.gas, !.collector = @ + o.fee]
\* BlockGasDecorator and the deduction of the fee.
Ante(f, o) == [f EXCEPT !.gas = @ + o.gas, !.load = @ + o.gas, !.collector = @ + o.fee]

\* Fault: the price of the gas is rounded instead of truncated.
GasPricesRounded(o) == Quo(o.fee * Prec, o.gas * Prec)
\* GasPricesDecorator.
GasPrices(o) == (o.fee * Prec) \div o.gas

Deliver(o) ==
  /\ fees.phase = "txs" /\ tx = Idle /\ o.gas > 0 /\ Charge("txs")
  /\ fees' = Ante(fees, o)
  /\ tx' = [frames |-> <<Frame("tx", <<1>>, NoWrites, Outermost, TRUE)>>,
            fee |-> o.fee, gas |-> o.gas, price |-> GasPrices(o)]
  /\ UNCHANGED reward

Depth == Len(tx.frames)
Top == tx.frames[Depth]
Below(i) == SubSeq(tx.frames, 1, i - 1)

\* The share of a run that took `used' gas, of which `std' in the modules of 0x1.
ContractSharedRevenue(used, std) == TruncateInt(Mul(Mul(tx.price, ShareRatio), (used - std) * Prec))

\* A submessage ends in the context of the frame that sent it, which is below i: a
\* success is committed, and the callback is told what happened.
Concluded(i, ctx, msg, path, ok) ==
  LET sender == tx.frames[i - 1]
      after == [sender EXCEPT !.ctx = ctx, !.todo = Tail(@), !.sent = @ + 1]
  IN Below(i - 1) \o <<after>>
       \o (IF msg.callback THEN <<Frame("callback", Append(path, 0), ctx, msg, ok)>> ELSE <<>>)

\* Fault: what a submessage wrote before it failed is kept.
UnwoundKept(i) ==
  LET f == tx.frames[i] IN Concluded(i, f.ctx, f.msg, f.path, FALSE)
Unwound(i) ==
  LET f == tx.frames[i] IN Concluded(i, tx.frames[i - 1].ctx, f.msg, f.path, FALSE)

\* An error goes down the frames to the innermost submessage that is allowed to fail,
\* past callbacks and the messages that may not; without one the transaction fails.
Tolerated(f) == f.role = "sub" /\ f.msg.allow
Fails(used) ==
  LET caught == {i \in 1..Depth : Tolerated(tx.frames[i])}
  IN tx' = IF caught = {} THEN Idle
           ELSE [tx EXCEPT !.frames = Unwound(Max(caught)), !.gas = @ - used]

\* executeEntryFunction: the VM runs, and handleExecuteResponse pays the shares; the
\* messages are dispatched next.
Run(used, std, calls) ==
  LET f == Top
      ctx == [f.ctx EXCEPT !.kept = @ \cup {f.path},
                           !.paid = @ + ContractSharedRevenue(used, std),
                           !.told = IF f.role = "callback" THEN @ \cup {<<Front(f.path), f.ok>>} ELSE @]
  IN /\ tx # Idle /\ ~f.ran /\ std <= used /\ used <= tx.gas
     /\ calls # <<>> => Charge("nested")
     /\ calls = <<>> => UNCHANGED allowance
     /\ tx' = [tx EXCEPT !.gas = @ - used,
                         !.frames = Below(Depth) \o <<[f EXCEPT !.ctx = ctx, !.ran = TRUE, !.todo = calls]>>]
     /\ UNCHANGED <<fees, reward>>

\* The gas is consumed also when the VM fails.
RunFails(used) ==
  /\ tx # Idle /\ ~Top.ran /\ used <= tx.gas
  /\ Fails(used)
  /\ UNCHANGED <<fees, reward, allowance>>

Path(f) == Append(f.path, f.sent + 1)

\* dispatchMessage: a Move call runs in a frame of its own; any other message has its
\* effect, fails or panics at once.
DispatchMove ==
  /\ tx # Idle /\ Top.ran /\ Top.todo # <<>> /\ Head(Top.todo).kind = "move"
  /\ tx' = [tx EXCEPT !.frames = Append(@, Frame("sub", Path(Top), Top.ctx, Head(Top.todo), TRUE))]
  /\ UNCHANGED <<fees, reward, allowance>>

DispatchOther(ok) ==
  LET m == Head(Top.todo)
      ctx == IF ok THEN [Top.ctx EXCEPT !.kept = @ \cup {Path(Top)}] ELSE Top.ctx
  IN /\ tx # Idle /\ Top.ran /\ Top.todo # <<>> /\ m.kind = "other"
     /\ IF ok \/ m.allow
        THEN tx' = [tx EXCEPT !.frames = Concluded(Depth + 1, ctx, m, Path(Top), ok)]
        ELSE Fails(0)
     /\ UNCHANGED <<fees, reward, allowance>>

\* A message that runs out of gas is not contained by anyone.
OutOfGas ==
  /\ tx # Idle /\ Top.ran /\ Top.todo # <<>> /\ Head(Top.todo).kind = "other"
  /\ tx' = Idle
  /\ UNCHANGED <<fees, reward, allowance>>

\* The innermost execution has dispatched all its messages.
Return ==
  LET f == Top
      caller == tx.frames[Depth - 1]
  IN /\ tx # Idle /\ f.ran /\ f.todo = <<>>
     /\ CASE f.role = "tx" ->
               tx' = Idle /\ fees' = [fees EXCEPT !.collector = @ - f.ctx.paid, !.last = f.ctx]
          [] f.role = "sub" ->
               /\ tx' = [tx EXCEPT !.frames = Concluded(Depth, f.ctx, f.msg, f.path, TRUE)]
               /\ UNCHANGED fees
          [] f.role = "callback" ->
               /\ tx' = [tx EXCEPT !.frames = Below(Depth - 1) \o <<[caller EXCEPT !.ctx = f.ctx]>>]
               /\ UNCHANGED fees
     /\ UNCHANGED <<reward, allowance>>

-----------------------------------------------------------------------------
FeeInit ==
  /\ fees = [params |-> FeeParams, gas |-> 0, load |-> 0, collector |-> 0, phase |-> "committed",
             halted |-> FALSE, last |-> NoWrites]
  /\ reward = [params |-> RewardParams, fund |-> Fund, released |-> 0, accrued |-> 0, blocks |-> 0,
               now |-> 0, lastRelease |-> 0, lastDilution |-> 0]
  /\ tx = Idle
  /\ allowance \in FeeBudgets

FeeNext ==
  \/ \E step \in Steps : BeginFeeBlock(step)
  \/ EndFeeBlock
  \/ \E p \in FeeChanges : UpdateFeeParams(p)
  \/ \E p \in RewardChanges : UpdateRewardParams(p)
  \/ FundFromReward(1)
  \/ \E o \in Offers : Deliver(o)
  \/ \E used \in Usages, std \in Usages \cup {0}, calls \in Calls : Run(used, std, calls)
  \/ \E used \in Usages : RunFails(used)
  \/ DispatchMove \/ OutOfGas \/ Return
  \/ \E ok \in BOOLEAN : DispatchOther(ok)

FeeSpec == FeeInit /\ [][FeeNext]_feeVars

(***************************************************************************)
(* Properties.                                                             *)
(***************************************************************************)
\* Every context of the transaction in progress, and that of the last one committed.
Contexts == {tx.frames[i].ctx : i \in 1..Depth} \cup {fees.last}

\* A contract is called back with the truth: it is told that its message succeeded
\* exactly when the effects of the message are there to see, whatever failed, panicked
\* or was called back inside it; and no effect outlives that of the sender
\* (dispatchMessage's commit, and the callback in the parent context).
CallbackTold ==
  \A c \in Contexts :
    /\ \A t \in c.told : t[2] = (t[1] \in c.kept)
    /\ \A path \in c.kept : Len(path) > 1 /\ Last(path) # 0 => Front(path) \in c.kept

\* DistributeContractSharedRevenue pays the contracts of a transaction out of its own
\* fee: through all the runs, truncations and submessages never more than was paid, so
\* that the fees of others and the released rewards stay for the stakers.
SharesWithinFee ==
  /\ \A i \in 1..Depth : tx.frames[i].ctx.paid <= tx.fee
  /\ fees.collector >= 0

\* What a block does to the price, given the gas its transactions asked for.
PriceMoves ==
  fees.phase = "txs" /\ fees'.phase = "committed" /\ ~fees'.halted =>
    LET p == fees.params
        new == fees'.params.base
        excess == fees.load - p.target
        size == IF excess < 0 THEN -excess ELSE excess
        move == IF new < p.base THEN p.base - new ELSE new - p.base
    IN /\ p.min <= new /\ new <= p.max
       /\ new > p.base => excess > 0
       /\ new < p.base => excess < 0
       /\ (move - 1) * Prec * p.target <= p.base * (p.rate * size + p.target)

\* UpdateBaseGasPrice keeps the price between its bounds and moves it with the load: up
\* only after a block that asked for more than the target, down only after one that
\* asked for less, and by no more than the rate times the relative excess.
PriceFollowsLoad == [][PriceMoves]_feeVars

\* The reward begin blocker never releases more than the rate in force yields over the
\* time for which the release was enabled, half a unit of rounding per block apart:
\* nothing is made up for later, after pauses, dilutions or changes of the rate.
ReleasePaced ==
  2 * reward.released * Prec * Year <= 2 * reward.accrued + reward.blocks * Year

\* The fee end blocker fails only where Validate let a target of zero through.
FeesHaltOnlyOnZero == fees.halted => fees.params.target = 0
=============================================================================

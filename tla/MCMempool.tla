----------------------------- MODULE MCMempool -----------------------------
(***************************************************************************)
(* Three small mempools for model checking, and one sender's maps with the *)
(* bounds and counts cached about them, explored side by side.  The        *)
(* constants describe the last.  In the first two senders share room for   *)
(* three transactions of several priorities; in the second they share it   *)
(* while a block commits and promotes.  The third is about time: blocks,   *)
(* block limits, concurrent insertions and the cleaning worker, for one    *)
(* sender.                                                                 *)
(***************************************************************************)
EXTENDS SenderState, TLC

CONSTANTS Sender, Loner
VARIABLES
  scenario,
  seqs, actives, queues,   \* Mempool's onChainSeq, active and queued
  senders, gap, orderSeq, op, pending, cons, cleaner, chainSeq, execSeq, blockMax, blocks, view

MCNonce == 0..6
poolVars == <<seqs, actives, queues, senders, gap, orderSeq, op, pending, cons, cleaner,
              chainSeq, execSeq, blockMax, blocks, view>>

Txs(S, N, P, T, X, W) ==
  [sender : S, nonce : N, prio : P, tier : T, ext : X, weight : W]

\* A sender's nonces fall into two tiers, all transactions of a key into one, and
\* the cheaper transaction of the last nonce may not be queued.
LimitsTx ==
  {t \in Txs(Sender, 0..3, 1..2, {0, 1}, BOOLEAN, {1}) :
     /\ t.tier = IF t.nonce = 1 THEN 1 ELSE 0
     /\ t.ext = (t.nonce < 3 \/ t.prio = 2)}
Limits == INSTANCE Mempool WITH
  onChainSeq <- seqs, active <- actives, queued <- queues, TierPenalty <- 10,
  MaxQueuedPerSender <- 2, MaxQueuedTotal <- 3, Tx <- LimitsTx, MaxTx <- 3, BlockMax <- {0},
  MaxPending <- 1, MaxOrder <- 4, MaxBlocks <- 0, MaxCleans <- 0

\* One transaction per key.
ShareTx == Txs(Sender, 0..2, {1}, {0}, {TRUE}, {1})
Share == INSTANCE Mempool WITH
  onChainSeq <- seqs, active <- actives, queued <- queues, TierPenalty <- 10,
  MaxQueuedPerSender <- 2, MaxQueuedTotal <- 3, Tx <- ShareTx, MaxTx <- 2, BlockMax <- {0},
  MaxPending <- 1, MaxOrder <- 2, MaxBlocks <- 1, MaxCleans <- 0

\* The same for one sender, the second nonce too large for the lower block limit.
TimeTx ==
  {t \in Txs({Loner}, 0..2, {1}, {0}, {TRUE}, {1, 2}) :
     t.weight = IF t.nonce = 1 THEN 2 ELSE 1}
Time == INSTANCE Mempool WITH
  onChainSeq <- seqs, active <- actives, queued <- queues, TierPenalty <- 10,
  MaxQueuedPerSender <- 2, MaxQueuedTotal <- 2, Sender <- {Loner}, Tx <- TimeTx, MaxTx <- 2,
  BlockMax <- {1, 2}, MaxPending <- 2, MaxOrder <- 2, MaxBlocks <- 1, MaxCleans <- 1

\* The half of the state a scenario does not use.
NoSender ==
  /\ onChainSeq = 0 /\ active = {} /\ aRange = NoRange /\ queued = {} /\ qRange = NoRange
  /\ other = 0 /\ queuedCount = 0 /\ loop = Idle /\ want = [active |-> {}, queued |-> {}]
NoPool ==
  /\ seqs = 0 /\ actives = 0 /\ queues = 0 /\ senders = 0 /\ gap = 0 /\ orderSeq = 0
  /\ op = 0 /\ pending = 0 /\ cons = 0 /\ cleaner = 0 /\ chainSeq = 0 /\ execSeq = 0
  /\ blockMax = 0 /\ blocks = 0 /\ view = 0

MCInit == \/ scenario = "cache" /\ Init /\ NoPool
          \/ scenario = "limits" /\ Limits!Init /\ NoSender
          \/ scenario = "share" /\ Share!Init /\ NoSender
          \/ scenario = "time" /\ Time!Init /\ NoSender
MCNext == \/ scenario = "cache" /\ Next /\ UNCHANGED <<scenario, poolVars>>
          \/ scenario = "limits" /\ Limits!Next /\ UNCHANGED <<scenario, vars>>
          \/ scenario = "share" /\ Share!Next /\ UNCHANGED <<scenario, vars>>
          \/ scenario = "time" /\ Time!Next /\ UNCHANGED <<scenario, vars>>
MCSpec == MCInit /\ [][MCNext]_<<vars, poolVars, scenario>>

\* The pool, the operation in progress, the caches of the three connections and the
\* consumer's view keep their shapes (PriorityMempool, senderState, ProposalHandler),
\* and in them every senderState what SendersConsistent says of it.
PoolConsistent == CASE scenario = "cache" -> TypeOK
                    [] scenario = "limits" -> Limits!TypeOK /\ Limits!SendersConsistent
                    [] scenario = "share" -> Share!TypeOK /\ Share!SendersConsistent
                    [] scenario = "time" -> Time!TypeOK /\ Time!SendersConsistent

\* Mempool's CapacityBound, for each pool with its own limits (canAccept, insertQueued).
CapacityBound == CASE scenario = "limits" -> Limits!CapacityBound
                   [] scenario = "share" -> Share!CapacityBound
                   [] scenario = "time" -> Time!CapacityBound
                   [] OTHER -> TRUE

\* Mempool's RankMonotone (ValidateInvariants).
RankMonotone == scenario # "cache" => Limits!RankMonotone

\* Mempool's ViewSound (the app events of Insert, RemoveWithReason and PromoteQueued).
ViewSound == scenario # "cache" => Limits!ViewSound

Symmetry == Permutations(Sender)
=============================================================================

------------------------------ MODULE Mempool ------------------------------
(***************************************************************************)
(* abcipp.PriorityMempool.  Every operation runs under p.mtx; a critical   *)
(* section is one step, except that promotion (the loops of Insert and     *)
(* PromoteQueued) takes one step per candidate with the lock kept in `op`. *)
(* Insert, PromoteQueued and cleanUpEntries give the lock up while they    *)
(* read account sequences, so other operations run in between.             *)
(*                                                                         *)
(* A transaction is a record: its first signer and sequence (the key), the *)
(* fee priority CheckTx computed, the tier its matcher selects, whether it *)
(* carries the queued-tx extension, and its weight, standing for both size *)
(* and gas against the block limits.  Cached nonce bounds and queuedCount  *)
(* are modelled in SenderState; here they are what those caches stand for. *)
(***************************************************************************)
EXTENDS Integers, FiniteSets, FiniteSetsExt, Functions, NonceSets

CONSTANTS
  Sender,              \* sender addresses
  Tx,                  \* the transactions that may be submitted
  MaxTx,               \* cfg.MaxTx; 0 is unlimited
  MaxQueuedPerSender,  \* maxQueuedPerSender
  MaxQueuedTotal,      \* maxQueuedTotal
  TierPenalty,         \* 1 << 50: what one tier costs in score
  BlockMax,            \* the values the block limit takes; 0 is none
  MaxPending,          \* bound: how many Inserts fetch a sequence at once
  MaxOrder,            \* bound: the orderSeq up to which Insert adds to the active set
  MaxBlocks,           \* bound: how many blocks commit
  MaxCleans            \* bound: how often the cleaning worker ticks

ASSUME ConfigAssumption ==
  /\ Tx \subseteq [sender : Sender, nonce : Nat, prio : Nat, tier : Nat,
                   ext : BOOLEAN, weight : Nat]
  /\ MaxTx \in Nat
  /\ MaxQueuedPerSender \in Nat \ {0}
  /\ MaxQueuedTotal \in Nat \ {0}
  /\ TierPenalty \in Nat
  /\ BlockMax \subseteq Nat /\ BlockMax # {}
  /\ MaxPending \in Nat /\ MaxOrder \in Nat /\ MaxBlocks \in Nat /\ MaxCleans \in Nat

\* On L1 there are no tiers; with tiers, one condition matters: transactions
\* that compete for the same key match the same tier.
SameKey(t, u) == t.sender = u.sender /\ t.nonce = u.nonce
TierStable == \A t, u \in Tx : SameKey(t, u) => t.tier = u.tier

VARIABLES
  \* the pool
  senders,     \* DOMAIN p.senders
  onChainSeq,  \* onChainSeq[s]: the cached sequence, 0 when there is no state
  active,      \* active[s]: nonce -> entry, the map of the same name
  queued,      \* queued[s]: nonce -> transaction
  gap,         \* gap[s]: gapSince is zero ("none"), set ("open"), or set for
               \* at least queuedGapTTL ("elapsed")
  orderSeq,    \* orderSeq
  op,          \* the promotion in progress under p.mtx, or Unlocked
  \* the callers
  pending,     \* Inserts that released p.mtx to fetch a sequence
  cons,        \* the consensus connection: executing, or inside PromoteQueued
  cleaner,     \* the cleaning worker
  \* the chain
  chainSeq,    \* committed account sequences
  execSeq,     \* account sequences in the block being executed
  blockMax,    \* the block limit in the consensus parameters
  blocks,      \* how many blocks committed
  \* history
  view         \* what a consumer that replays the app events holds

poolVars == <<senders, onChainSeq, active, queued, gap, orderSeq, op>>
chainVars == <<chainSeq, execSeq, blockMax, blocks>>
vars == <<poolVars, pending, cons, cleaner, chainVars, view>>

-----------------------------------------------------------------------------
(* Maps from nonces, as partial functions.                                 *)

NoMap == [n \in {} |-> n]
Drop(f, S) == Restrict(f, DOMAIN f \ S)
Put(f, n, v) == [m \in DOMAIN f \cup {n} |-> IF m = n THEN v ELSE f[m]]
From(f, seq) == Restrict(f, {n \in DOMAIN f : n >= seq})

Larger(m, n) == IF m >= n THEN m ELSE n

\* setOnChainSeqLocked never moves the cached sequence back.
\* Fault: a stale fetch overwrites it.
setOnChainSeq_Assigned(cached, seq) == seq
setOnChainSeq(cached, seq) == Larger(cached, seq)

\* len(p.entries), the index and the sender maps hold the same entries.
Entries(a) == UNION {Range(a[s]) : s \in DOMAIN a}

\* p.queuedCount
QueuedCount(q) == FoldFunction(LAMBDA f, sum : Cardinality(DOMAIN f) + sum, 0, q)

Unlocked == [by |-> "none"]

Init ==
  /\ senders = {}
  /\ onChainSeq = [s \in Sender |-> 0]
  /\ active = [s \in Sender |-> NoMap]
  /\ queued = [s \in Sender |-> NoMap]
  /\ gap = [s \in Sender |-> "none"]
  /\ orderSeq = 0
  /\ op = Unlocked
  /\ pending = {}
  /\ cons = [at |-> "exec", queued |-> {}, only |-> {}]
  /\ cleaner = [at |-> "idle", seqs |-> [s \in Sender |-> 0], ttl |-> {},
                names |-> {}, ticks |-> 0]
  /\ chainSeq = [s \in Sender |-> 0]
  /\ execSeq = chainSeq
  /\ blockMax \in BlockMax
  /\ blocks = 0
  /\ view = {}

-----------------------------------------------------------------------------
(* Ranks and admission.                                                    *)

\* The cursor: the on-chain sequence, or one past the active tail.
nextExpectedNonce(seq, a) ==
  IF DOMAIN a = {} THEN seq ELSE Larger(seq, Max(DOMAIN a) + 1)

scoreByTierPriority(tx) == tx.prio - tx.tier * TierPenalty

\* isBetterThan: rank r outranks entry e.
Better(r, e) == r.prio > e.prio \/ (r.prio = e.prio /\ r.order < e.order)

\* compareEntries: e precedes f in the priority index.  Ranks tie only inside a
\* sender, whose nonces then decide.
Before(e, f) ==
  \/ Better(e, f)
  \/ e.prio = f.prio /\ e.order = f.order /\ e.tx.nonce < f.tx.nonce

\* Fault: ranks are not clamped.
ClampBy_None(a, n) == {}

\* The active entry whose rank bounds that of a transaction at nonce n: its
\* predecessor, or the tail when it goes beyond the tail.
ClampBy(a, n) ==
  IF n - 1 \in DOMAIN a THEN {a[n - 1]}
  ELSE IF DOMAIN a # {} /\ n > Max(DOMAIN a) THEN {a[Max(DOMAIN a)]} ELSE {}

\* The entry a transaction becomes when it enters the active set of its sender.
ClampedEntry(a, tx, order) ==
  LET own == [tx |-> tx, prio |-> scoreByTierPriority(tx), order |-> order]
      above == {b \in ClampBy(a, tx.nonce) : Better(own, b)}
  IN  IF above = {} THEN own
      ELSE LET b == CHOOSE b \in above : TRUE
           IN  [own EXCEPT !.prio = b.prio, !.order = b.order]

Full(E) == MaxTx > 0 /\ Cardinality(E) >= MaxTx
Back(E) == CHOOSE e \in E : \A f \in E \ {e} : Before(f, e)

\* canAcceptLocked for entry e against the other entries E.  E never exceeds
\* MaxTx (CapacityBound), so at most one entry, the last, has to go.
canAccept(e, E, limit) ==
  /\ limit = 0 \/ e.tx.weight <= limit
  /\ Full(E) => Better(e, Back(E))

-----------------------------------------------------------------------------
(* Demotion: active transactions go back to the queue in nonce order.  A   *)
(* full sender queue swaps its highest nonce for a lower one, and a full   *)
(* pool of queued transactions takes no more.                              *)

\* Fault: demotions are announced as removals.
demoteActiveRange_Announced(a, q, s, start) ==
  LET D == {n \in DOMAIN a[s] : n >= start}
      txs == [n \in DOMAIN q[s] \cup D |-> IF n \in D THEN a[s][n].tx ELSE q[s][n]]
      K == QueueKeeps(DOMAIN q[s], D, MaxQueuedPerSender, MaxQueuedTotal - QueuedCount(q))
  IN  [active |-> [a EXCEPT ![s] = Drop(@, D)],
       queued |-> [q EXCEPT ![s] = Restrict(txs, K)],
       removed |-> {txs[n] : n \in D \cup (DOMAIN txs \ K)}]

\* demoteActiveRangeLocked from nonce start on.
demoteActiveRange(a, q, s, start) ==
  LET D == {n \in DOMAIN a[s] : n >= start}
      Q == DOMAIN q[s]
      txs == [n \in Q \cup D |-> IF n \in Q THEN q[s][n] ELSE a[s][n].tx]
      K == QueueKeeps(Q, D, MaxQueuedPerSender, MaxQueuedTotal - QueuedCount(q))
  IN  [active |-> [a EXCEPT ![s] = Drop(@, D)],
       queued |-> [q EXCEPT ![s] = Restrict(txs, K)],
       removed |-> {txs[n] : n \in (Q \cup D) \ K}]

\* Fault: nothing is evicted.
Victims_None(a) == {}

\* removeEntriesByReasonLocked(evictList, CapacityEvicted): the last entry of a
\* full index is demoted together with its sender's later nonces.
Victims(a) == IF Full(Entries(a)) THEN {Back(Entries(a))} ELSE {}

makeRoom(a, q) ==
  IF Victims(a) = {} THEN [active |-> a, queued |-> q, removed |-> {}]
  ELSE LET e == CHOOSE e \in Victims(a) : TRUE
       IN  demoteActiveRange(a, q, e.tx.sender, e.tx.nonce)

\* cleanupSenderLocked on the senders S: a state without transactions goes, and
\* with it the cached sequence and the gap timer.
Empty(a, q, s) == DOMAIN a[s] = {} /\ DOMAIN q[s] = {}

KeepSenders(kept, seqs, g) ==
  /\ senders' = kept
  /\ onChainSeq' = [s \in Sender |-> IF s \in kept THEN seqs[s] ELSE 0]
  /\ gap' = [s \in Sender |-> IF s \in kept THEN g[s] ELSE "none"]

cleanupSenders(S, from, seqs, g) ==
  KeepSenders(from \ {s \in S : Empty(active', queued', s)}, seqs, g)

\* collectPromotableLocked: the run of queued nonces that starts at the cursor.
Promotable(q, next) ==
  {n \in DOMAIN q : n >= next /\ \A m \in next..n : m \in DOMAIN q}

-----------------------------------------------------------------------------
(* Insert, once it holds the lock and the sender has a state: seqs is      *)
(* onChainSeq with that state's sequence.                                  *)

Cursor(tx, seqs) == nextExpectedNonce(seqs[tx.sender], active[tx.sender])

\* The transaction of the same key in the pool, if any.
Rivals(tx) ==
  {active[tx.sender][n].tx : n \in DOMAIN active[tx.sender] \cap {tx.nonce}}
    \cup {queued[tx.sender][n] : n \in DOMAIN queued[tx.sender] \cap {tx.nonce}}

IsFuture(tx, seqs) == tx.nonce > Cursor(tx, seqs)
IsStale(tx, seqs) == tx.nonce < Cursor(tx, seqs) /\ Rivals(tx) = {}

\* insertQueuedLocked, admission and the nonce that has to go.
QueueEvicts(tx) ==
  LET Q == DOMAIN queued[tx.sender]
  IN  IF tx.nonce \in Q THEN {tx.nonce}
      ELSE IF Cardinality(Q) >= MaxQueuedPerSender THEN {Max(Q)} ELSE {}

QueueAdmits(tx) ==
  LET Q == DOMAIN queued[tx.sender]
  IN  IF tx.nonce \in Q THEN tx.prio > queued[tx.sender][tx.nonce].prio
      ELSE IF Cardinality(Q) >= MaxQueuedPerSender THEN tx.nonce < Max(Q)
      ELSE QueuedCount(queued) < MaxQueuedTotal

\* A replacement must pay more than the active rival, or than the queued one
\* when no active one exists.
Outbids(tx) ==
  LET s == tx.sender IN
  IF tx.nonce \in DOMAIN active[s] THEN tx.prio > active[s][tx.nonce].tx.prio
  ELSE tx.nonce \in DOMAIN queued[s] => tx.prio > queued[s][tx.nonce].prio

Others(tx) == [active EXCEPT ![tx.sender] = Drop(@, {tx.nonce})]

ActiveAdmits(tx) ==
  canAccept(ClampedEntry(active[tx.sender], tx, orderSeq + 1),
            Entries(Others(tx)), blockMax)

InsertQueued(tx, seqs) ==
  LET s == tx.sender
      out == QueueEvicts(tx)
  IN  /\ IsFuture(tx, seqs)
      /\ tx.ext
      /\ QueueAdmits(tx)
      /\ queued' = [queued EXCEPT ![s] = Put(Drop(@, out), tx.nonce, tx)]
      /\ view' = (view \ {queued[s][n] : n \in out}) \cup {tx}
      /\ KeepSenders(senders \cup {s}, seqs, gap)
      /\ UNCHANGED <<active, orderSeq, op>>

\* The lock stays held for the promotion of what follows tx in the queue.
InsertActive(tx, seqs) ==
  LET s == tx.sender
      e == ClampedEntry(active[s], tx, orderSeq + 1)
      room == makeRoom(Others(tx), [queued EXCEPT ![s] = Drop(@, {tx.nonce})])
      added == Put(room.active[s], tx.nonce, e)
      run == Promotable(room.queued[s], nextExpectedNonce(seqs[s], added))
  IN  /\ ~IsFuture(tx, seqs) /\ ~IsStale(tx, seqs)
      /\ Outbids(tx)
      /\ ActiveAdmits(tx)
      /\ orderSeq < MaxOrder
      /\ orderSeq' = orderSeq + 1
      /\ active' = [room.active EXCEPT ![s] = added]
      /\ queued' = [room.queued EXCEPT ![s] = Drop(@, run)]
      /\ op' = [by |-> "insert", sender |-> s, todo |-> Restrict(room.queued[s], run),
                removed |-> Rivals(tx) \cup room.removed, inserted |-> {tx},
                limit |-> blockMax, left |-> {}, seen |-> {}]
      /\ cleanupSenders({v.tx.sender : v \in Victims(Others(tx))} \ {s}, senders \cup {s}, seqs, gap)
      /\ UNCHANGED view

\* A rejected Insert leaves the sender's state behind; orderSeq may skip a value,
\* which no comparison notices.
InsertRejected(tx, seqs) ==
  /\ \/ IsStale(tx, seqs)
     \/ IsFuture(tx, seqs) /\ ~(tx.ext /\ QueueAdmits(tx))
     \/ ~IsFuture(tx, seqs) /\ ~(Outbids(tx) /\ ActiveAdmits(tx))
  /\ KeepSenders(senders \cup {tx.sender}, seqs, gap)
  /\ UNCHANGED <<active, queued, orderSeq, op, view>>

InsertLocked(tx, seqs) ==
  \/ InsertQueued(tx, seqs)
  \/ InsertActive(tx, seqs)
  \/ InsertRejected(tx, seqs)

\* The sender has a state: the whole of Insert runs under the lock.
Insert(tx) ==
  /\ op = Unlocked
  /\ tx.sender \in senders
  /\ InsertLocked(tx, onChainSeq)
  /\ UNCHANGED <<pending, cons, cleaner, chainVars>>

\* It has none: the lock is released while the sequence is fetched ...
InsertFetch(tx) ==
  /\ op = Unlocked
  /\ tx.sender \notin senders
  /\ Cardinality(pending) < MaxPending
  /\ pending' = pending \cup {[tx |-> tx, seq |-> chainSeq[tx.sender]]}
  /\ UNCHANGED <<poolVars, cons, cleaner, chainVars, view>>

\* ... and the state is created with it unless another Insert came first.
InsertResume(p) ==
  LET s == p.tx.sender IN
  /\ op = Unlocked
  /\ pending' = pending \ {p}
  /\ InsertLocked(p.tx, IF s \in senders THEN onChainSeq
                        ELSE [onChainSeq EXCEPT ![s] = p.seq])
  /\ UNCHANGED <<cons, cleaner, chainVars>>

-----------------------------------------------------------------------------
(* The promotion loop, one candidate at a time, and the end of the critical *)
(* section, where the removals are announced before the insertions.        *)

Candidate ==
  ClampedEntry(active[op.sender], op.todo[Min(DOMAIN op.todo)], orderSeq + 1)

Promote ==
  LET s == op.sender
      e == Candidate
      room == makeRoom(active, queued)
  IN  /\ op # Unlocked
      /\ DOMAIN op.todo # {}
      /\ canAccept(e, Entries(active), op.limit)
      /\ orderSeq' = orderSeq + 1
      /\ active' = [room.active EXCEPT ![s] = Put(@, e.tx.nonce, e)]
      /\ queued' = room.queued
      /\ op' = [op EXCEPT !.todo = Drop(@, {e.tx.nonce}),
                          !.removed = @ \cup room.removed,
                          !.inserted = @ \cup {e.tx}]
      /\ cleanupSenders({v.tx.sender : v \in Victims(active)} \ {s}, senders,
                        onChainSeq, gap)
      /\ UNCHANGED <<pending, cons, cleaner, chainVars, view>>

\* requeueEntriesLocked: the rejected candidate and those behind it go back,
\* past the queue limits.
Requeue ==
  LET s == op.sender IN
  /\ op # Unlocked
  /\ DOMAIN op.todo # {}
  /\ ~canAccept(Candidate, Entries(active), op.limit)
  /\ queued' = [queued EXCEPT ![s] =
       [n \in DOMAIN @ \cup DOMAIN op.todo |->
          IF n \in DOMAIN op.todo THEN op.todo[n] ELSE queued[s][n]]]
  /\ op' = [op EXCEPT !.todo = NoMap]
  /\ UNCHANGED <<senders, onChainSeq, active, gap, orderSeq, pending, cons,
                 cleaner, chainVars, view>>

Unlock ==
  /\ op # Unlocked
  /\ DOMAIN op.todo = {}
  /\ op.left = {}
  /\ view' = (view \ op.removed) \cup op.inserted
  /\ op' = Unlocked
  /\ cons' = IF op.by = "promote" THEN [at |-> "exec", queued |-> {}, only |-> {}]
             ELSE cons
  /\ UNCHANGED <<active, queued, orderSeq, pending, cleaner, chainVars>>
  /\ cleanupSenders(op.seen, senders, onChainSeq, gap)

-----------------------------------------------------------------------------
(* PromoteQueued, which PrepareCheckStater runs after every commit.        *)

\* Sequences are fetched for the senders with queued transactions only, from the
\* state just committed, which does not change before the next block.
PromoteSnapshot ==
  LET Q == {s \in senders : DOMAIN queued[s] # {}} IN
  /\ cons.at = "committed"
  /\ op = Unlocked
  /\ cons' = IF senders = {} THEN [at |-> "exec", queued |-> {}, only |-> {}]
             ELSE [at |-> "promote", queued |-> Q, only |-> senders \ Q]
  /\ UNCHANGED <<poolVars, pending, cleaner, chainVars, view>>

\* The context of PrepareCheckStater may carry no consensus parameters.
PromoteLock ==
  /\ cons.at = "promote"
  /\ op = Unlocked
  /\ \E limit \in {0, blockMax} :
       op' = [by |-> "promote", sender |-> CHOOSE s \in Sender : TRUE, todo |-> NoMap,
              removed |-> {}, inserted |-> {}, limit |-> limit,
              left |-> cons.queued \cap senders,
              seen |-> (cons.queued \cup cons.only) \cap senders]
  /\ UNCHANGED <<senders, onChainSeq, active, queued, gap, orderSeq, pending, cons,
                 cleaner, chainVars, view>>

\* What removeStaleLocked removes for sender s.
StaleTxs(s, seq) ==
  {active[s][n].tx : n \in {m \in DOMAIN active[s] : m < seq}}
    \cup {queued[s][n] : n \in {m \in DOMAIN queued[s] : m < seq}}

PromoteSender(s) ==
  LET seq == chainSeq[s]
      a == From(active[s], seq)
      q == From(queued[s], seq)
      run == Promotable(q, nextExpectedNonce(onChainSeq'[s], a))
  IN  /\ op # Unlocked
      /\ DOMAIN op.todo = {}
      /\ s \in op.left
      /\ onChainSeq' = [onChainSeq EXCEPT ![s] = IF s \in senders
                                                 THEN setOnChainSeq(@, seq) ELSE @]
      /\ active' = [active EXCEPT ![s] = a]
      /\ queued' = [queued EXCEPT ![s] = Drop(q, run)]
      /\ op' = [op EXCEPT !.left = @ \ {s}, !.sender = s, !.todo = Restrict(q, run),
                          !.removed = @ \cup StaleTxs(s, seq)]
      /\ UNCHANGED <<senders, gap, orderSeq, pending, cons, cleaner, chainVars, view>>

-----------------------------------------------------------------------------
(* RemoveWithReason.                                                       *)

\* removeNonceLocked, from either map, and what it returns.
TxAt(s, n) ==
  {active[s][m].tx : m \in DOMAIN active[s] \cap {n}}
    \cup {queued[s][m] : m \in (DOMAIN queued[s] \ DOMAIN active[s]) \cap {n}}

\* RemovalReasonCommittedInBlock: the transaction goes, the cached sequence moves
\* past it, and whatever it made stale goes too.
RemoveCommitted(s, n) ==
  LET seq == n + 1 IN
  IF s \in senders
  THEN /\ active' = [active EXCEPT ![s] = From(@, seq)]
       /\ queued' = [queued EXCEPT ![s] = From(@, seq)]
       /\ view' = view \ StaleTxs(s, seq)
       /\ cleanupSenders({s}, senders, [onChainSeq EXCEPT ![s] = setOnChainSeq(@, seq)], gap)
       /\ UNCHANGED <<orderSeq, op>>
  ELSE UNCHANGED <<poolVars, view>>

\* RemovalReasonAnteRejectedInPrepare: the transaction of this key goes and the
\* active ones after it are demoted.
RemoveRejected(s, n) ==
  LET inActive == n \in DOMAIN active[s]
      a == [active EXCEPT ![s] = Drop(@, {n})]
      q == IF inActive THEN queued ELSE [queued EXCEPT ![s] = Drop(@, {n})]
      rest == demoteActiveRange(a, q, s, n + 1)
  IN  IF s \in senders
      THEN /\ active' = rest.active
           /\ queued' = rest.queued
           /\ view' = view \ (TxAt(s, n) \cup rest.removed)
           /\ cleanupSenders({s}, senders, onChainSeq, gap)
           /\ UNCHANGED <<orderSeq, op>>
      ELSE UNCHANGED <<poolVars, view>>

\* CheckTx in recheck mode, PrepareProposal and the cleaning worker all call it
\* with a transaction they looked at earlier; it may be gone or replaced by now.
AnteReject(tx) ==
  /\ op = Unlocked
  /\ RemoveRejected(tx.sender, tx.nonce)
  /\ UNCHANGED <<pending, cons, cleaner, chainVars>>

-----------------------------------------------------------------------------
(* The chain: blocks execute transactions and commit.                      *)

\* FinalizeBlock runs a transaction, of this pool or not, and removes it.
Deliver(tx) ==
  /\ cons.at = "exec" /\ blocks < MaxBlocks
  /\ op = Unlocked
  /\ tx.nonce = execSeq[tx.sender]
  /\ execSeq' = [execSeq EXCEPT ![tx.sender] = @ + 1]
  /\ RemoveCommitted(tx.sender, tx.nonce)
  /\ UNCHANGED <<pending, cons, cleaner, chainSeq, blockMax, blocks>>

\* A transaction of another first signer that s signs too moves s's sequence
\* without a call for s's key.
Cosign(s) ==
  /\ cons.at = "exec" /\ blocks < MaxBlocks
  /\ \E tx \in Tx : tx.sender = s /\ tx.nonce >= execSeq[s]
  /\ execSeq' = [execSeq EXCEPT ![s] = @ + 1]
  /\ UNCHANGED <<poolVars, pending, cons, cleaner, chainSeq, blockMax, blocks, view>>

Commit ==
  /\ cons.at = "exec" /\ blocks < MaxBlocks
  /\ chainSeq' = execSeq
  /\ blocks' = blocks + 1
  /\ blockMax' \in BlockMax
  /\ cons' = [cons EXCEPT !.at = "committed"]
  /\ UNCHANGED <<poolVars, pending, cleaner, execSeq, view>>

-----------------------------------------------------------------------------
(* The cleaning worker.                                                    *)

\* A context and the time are taken first ...
CleanStart ==
  /\ cleaner.at = "idle" /\ cleaner.ticks < MaxCleans
  /\ cleaner' = [at |-> "sweep", seqs |-> chainSeq,
                 ttl |-> {s \in Sender : gap[s] = "elapsed"}, names |-> {},
                 ticks |-> cleaner.ticks + 1]
  /\ UNCHANGED <<poolVars, pending, cons, chainVars, view>>

\* ... then states without transactions are deleted and the others noted ...
CleanSweep ==
  LET names == {s \in senders : ~Empty(active, queued, s)} IN
  /\ cleaner.at = "sweep"
  /\ op = Unlocked
  /\ cleaner' = [cleaner EXCEPT !.at = "apply", !.names = names]
  /\ KeepSenders(names, onChainSeq, gap)
  /\ UNCHANGED <<active, queued, orderSeq, op, pending, cons, chainVars, view>>

\* expireQueuedGapLocked: no active transaction, and the queue starts past the
\* sequence the sender needs next.
Blocked(seq, a, q) == DOMAIN a = {} /\ DOMAIN q # {} /\ Min(DOMAIN q) > seq

\* ... and with the sequences read from the context, stale transactions and
\* queues blocked for too long are dropped.
CleanApply ==
  LET S == cleaner.names \cap senders
      seq(s) == cleaner.seqs[s]
      seqs == [s \in Sender |-> IF s \in S THEN setOnChainSeq(onChainSeq[s], seq(s))
                                ELSE onChainSeq[s]]
      a == [s \in Sender |-> IF s \in S THEN From(active[s], seq(s)) ELSE active[s]]
      q == [s \in Sender |-> IF s \in S THEN From(queued[s], seq(s)) ELSE queued[s]]
      blocked == {s \in S : Blocked(seqs[s], a[s], q[s])}
      expired == {s \in blocked : gap[s] # "none" /\ s \in cleaner.ttl}
  IN  /\ cleaner.at = "apply"
      /\ op = Unlocked
      /\ cleaner' = [cleaner EXCEPT !.at = "idle"]
      /\ active' = a
      /\ queued' = [s \in Sender |-> IF s \in expired THEN NoMap ELSE q[s]]
      /\ view' = view \ (UNION {StaleTxs(s, seq(s)) : s \in S}
                           \cup UNION {Range(q[s]) : s \in expired})
      /\ cleanupSenders(S, senders, seqs,
           [s \in Sender |-> IF s \notin S THEN gap[s]
                             ELSE IF s \notin blocked \/ s \in expired THEN "none"
                             ELSE IF gap[s] = "none" THEN "open" ELSE gap[s]])
      /\ UNCHANGED <<orderSeq, op, pending, cons, chainVars>>

TTLElapses(s) ==
  /\ gap[s] = "open"
  /\ gap' = [gap EXCEPT ![s] = "elapsed"]
  /\ UNCHANGED <<senders, onChainSeq, active, queued, orderSeq, op, pending, cons,
                 cleaner, chainVars, view>>

-----------------------------------------------------------------------------
Next ==
  \/ \E tx \in Tx : Insert(tx) \/ InsertFetch(tx) \/ AnteReject(tx) \/ Deliver(tx)
  \/ \E p \in pending : InsertResume(p)
  \/ Promote \/ Requeue \/ Unlock
  \/ PromoteSnapshot \/ PromoteLock
  \/ \E s \in Sender : PromoteSender(s) \/ Cosign(s) \/ TTLElapses(s)
  \/ Commit
  \/ CleanStart \/ CleanSweep \/ CleanApply

Spec == Init /\ [][Next]_vars

-----------------------------------------------------------------------------
Entry == [tx : Tx, prio : Int, order : Nat]

\* A map of sender s holds each transaction under its own nonce.
IsMap(f, S) == f \in [DOMAIN f -> S] /\ DOMAIN f \subseteq Nat
Keyed(tx, s, n) == tx.sender = s /\ tx.nonce = n

TypeOK ==
  /\ senders \subseteq Sender
  /\ onChainSeq \in [Sender -> Nat]
  /\ DOMAIN active = Sender /\ DOMAIN queued = Sender
  /\ \A s \in Sender :
       /\ IsMap(active[s], Entry) /\ IsMap(queued[s], Tx)
       /\ \A n \in DOMAIN active[s] : Keyed(active[s][n].tx, s, n)
       /\ \A n \in DOMAIN queued[s] : Keyed(queued[s][n], s, n)
  /\ gap \in [Sender -> {"none", "open", "elapsed"}]
  /\ orderSeq \in Nat
  /\ op.by \in {"none", "insert", "promote"}
  /\ pending \subseteq [tx : Tx, seq : Nat]
  /\ cons \in [at : {"exec", "committed", "promote", "prepare"}, queued : SUBSET Sender,
               only : SUBSET Sender]
  /\ cleaner \in [at : {"idle", "sweep", "apply"}, seqs : [Sender -> Nat],
                  ttl : SUBSET Sender, names : SUBSET Sender, ticks : Nat]
  /\ chainSeq \in [Sender -> Nat]
  /\ execSeq \in [Sender -> Nat]
  /\ blockMax \in BlockMax
  /\ blocks \in Nat
  /\ view \subseteq Tx

CursorOf(s) == nextExpectedNonce(onChainSeq[s], active[s])

\* Every sender's active transactions are the run of nonces that starts at its
\* cached on-chain sequence, whatever is replaced, evicted, demoted, promoted,
\* committed or cleaned in between: a gap would put a transaction into proposals
\* that cannot execute.
ActivePrefix ==
  \A s \in DOMAIN active : DOMAIN active[s] = onChainSeq[s]..(CursorOf(s) - 1)

\* Transactions under promotion continue the active run, and queued ones lie
\* beyond both: none is active and queued at once, none is queued below the cursor,
\* where promotion would never look for it.
QueuedBeyondCursor ==
  \A s \in DOMAIN active :
    LET todo == IF op # Unlocked /\ op.sender = s THEN DOMAIN op.todo ELSE {}
        next == CursorOf(s) + Cardinality(todo)
    IN  /\ todo = CursorOf(s)..(next - 1)
        /\ \A n \in DOMAIN queued[s] : n >= next

\* The three capacity limits hold at all times, although demotion and requeueing
\* move transactions between the two pools, the latter without looking at a limit.
CapacityBound ==
  /\ MaxTx > 0 => Cardinality(Entries(active)) <= MaxTx
  /\ \A s \in DOMAIN active : Cardinality(DOMAIN queued[s]) <= MaxQueuedPerSender
  /\ QueuedCount(queued) <= MaxQueuedTotal

\* A sender's rank never improves with the nonce, so the priority index lists a
\* sender's transactions in nonce order (ValidateInvariants, docs/invariant.md 4.1).
RankMonotone ==
  \A s \in DOMAIN active : \A n \in DOMAIN active[s] :
    n + 1 \in DOMAIN active[s] => ~Better(active[s][n + 1], active[s][n])

\* A consumer that adds a transaction on EventTxInserted or EventTxQueued and
\* deletes it on EventTxRemoved never misses a transaction of the pool while the lock
\* is free, and until a commit promotes queued transactions in a batch it holds
\* exactly the pool's, although demotions and promotions are silent.  (PromoteQueued
\* announces the removals of a batch before its insertions, so that a transaction it
\* promotes, displaces and drops stays in such a view.)
Pool == {e.tx : e \in Entries(active)} \cup UNION {Range(queued[s]) : s \in DOMAIN queued}
ViewSound == op = Unlocked => Pool \subseteq view /\ (blocks = 0 => view = Pool)

\* Every transaction of the pool belongs to a sender with a state: a state deleted
\* too early by an eviction, a commit or a cleaning would strand transactions that
\* no removal finds, while they keep counting against the limits.
NoOrphans ==
  \A s \in DOMAIN active \ senders : DOMAIN active[s] = {} /\ DOMAIN queued[s] = {}

\* Every sender with a transaction has a state, an active run without gaps and a queue
\* beyond it, at every point at which the lock of the pool may change hands.
SendersConsistent == NoOrphans /\ ActivePrefix /\ QueuedBeyondCursor
=============================================================================

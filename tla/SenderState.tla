---------------------------- MODULE SenderState ----------------------------
(***************************************************************************)
(* One sender's maps with what abcipp.senderState caches about them: the   *)
(* lowest and highest active and queued nonce, kept up to date from each   *)
(* single insertion and removal, and the pool-wide count of queued         *)
(* transactions.  The loops that demote, promote, requeue and drop         *)
(* transactions, which Mempool gives in closed form, take one step per     *)
(* nonce here and read the cached bounds as the code does.                 *)
(***************************************************************************)
EXTENDS Integers, FiniteSets, FiniteSetsExt, NonceSets

CONSTANTS
  Nonce,               \* the nonces that occur
  MaxQueuedPerSender,
  MaxQueuedTotal,
  OtherQueued          \* bound: how many transactions other senders have queued

ASSUME NonceAssumption ==
  /\ Nonce \subseteq Nat
  /\ MaxQueuedPerSender \in Nat \ {0} /\ MaxQueuedTotal \in Nat \ {0}
  /\ OtherQueued \in Nat

VARIABLES
  onChainSeq,
  active, aRange,      \* nonces of s.active; [min |-> activeMin, max |-> activeMax]
  queued, qRange,      \* nonces of s.queued; [min |-> queuedMin, max |-> queuedMax]
  other,               \* transactions other senders have queued
  queuedCount,         \* p.queuedCount
  loop,                \* the loop in progress, one nonce per step
  want                 \* history: the sets the loop in progress is to end with

vars == <<onChainSeq, active, aRange, queued, qRange, other, queuedCount, loop, want>>

NoRange == [min |-> 0, max |-> 0]
Idle == [do |-> "idle", next |-> 0, end |-> 0, seq |-> 0, promote |-> FALSE, out |-> {}]

Init ==
  /\ onChainSeq \in Nonce
  /\ active = {} /\ aRange = NoRange
  /\ queued = {} /\ qRange = NoRange
  /\ other \in 0..OtherQueued
  /\ queuedCount = other
  /\ loop = Idle
  /\ want = [active |-> {}, queued |-> {}]

-----------------------------------------------------------------------------
(* The cached bounds: r is the range before the change, S the nonces after.*)

Lower(m, n) == IF m <= n THEN m ELSE n
Upper(m, n) == IF m >= n THEN m ELSE n

\* setActiveRangeOnInsertLocked, setQueuedRangeOnInsertLocked
RangeOnInsert(r, S, n) ==
  IF S = {n} THEN [min |-> n, max |-> n]
  ELSE [min |-> Lower(r.min, n), max |-> Upper(r.max, n)]

\* The scans from a removed bound to the next nonce, or to the other bound.
NextUp(r, S) ==
  LET up == {n \in S : r.min < n /\ n <= r.max}
  IN  IF up = {} THEN r.max ELSE Min(up)
NextDown(r, S) ==
  LET down == {n \in S : r.min <= n /\ n < r.max}
  IN  IF down = {} THEN r.min ELSE Max(down)

\* Fault: a removed upper bound is not recovered.
RangeOnRemove_MinOnly(r, S, n) ==
  IF S = {} THEN NoRange
  ELSE IF n = r.min THEN [r EXCEPT !.min = NextUp(r, S)] ELSE r

\* setActiveRangeOnRemoveLocked, setQueuedRangeOnRemoveLocked
RangeOnRemove(r, S, n) ==
  IF S = {} THEN NoRange
  ELSE IF n = r.min THEN [r EXCEPT !.min = NextUp(r, S)]
  ELSE IF n = r.max THEN [r EXCEPT !.max = NextDown(r, S)]
  ELSE r

nextExpectedNonce == IF active = {} THEN onChainSeq ELSE Upper(onChainSeq, aRange.max + 1)

-----------------------------------------------------------------------------
(* Single changes.                                                         *)

AddActive(n) ==
  /\ active' = active \cup {n}
  /\ aRange' = RangeOnInsert(aRange, active', n)
RemoveActive(n) ==
  /\ active' = active \ {n}
  /\ aRange' = RangeOnRemove(aRange, active', n)

\* Fault: requeueing does not count.
AddQueued_Uncounted(n) ==
  /\ queued' = queued \cup {n}
  /\ qRange' = RangeOnInsert(qRange, queued', n)
  /\ UNCHANGED queuedCount

AddQueued(n) ==
  /\ queued' = queued \cup {n}
  /\ qRange' = RangeOnInsert(qRange, queued', n)
  /\ queuedCount' = queuedCount + 1
RemoveQueued(n) ==
  /\ queued' = queued \ {n}
  /\ qRange' = RangeOnRemove(qRange, queued', n)
  /\ queuedCount' = queuedCount - 1

activeVars == <<active, aRange>>
queuedVars == <<queued, qRange, queuedCount>>
rest == <<onChainSeq, other>>

\* insertQueuedLocked of a nonce that is not queued: a full queue swaps its highest
\* nonce for a lower one, one range update after the other; a full pool refuses.
QueueFull == Cardinality(queued) >= MaxQueuedPerSender
PoolFull == queuedCount >= MaxQueuedTotal

Swap(n, high) ==
  /\ queued' = (queued \ {high}) \cup {n}
  /\ qRange' = RangeOnInsert(RangeOnRemove(qRange, queued \ {high}, high), queued', n)
  /\ UNCHANGED queuedCount

\* Fault: a full queue refuses lower nonces too.
insertQueued_NoSwap(n) ==
  \/ (QueueFull \/ PoolFull) /\ UNCHANGED queuedVars
  \/ ~QueueFull /\ ~PoolFull /\ AddQueued(n)

insertQueued(n) ==
  \/ QueueFull /\ n < Max(queued) /\ Swap(n, Max(queued))
  \/ QueueFull /\ n >= Max(queued) /\ UNCHANGED queuedVars
  \/ ~QueueFull /\ ~PoolFull /\ AddQueued(n)
  \/ ~QueueFull /\ PoolFull /\ UNCHANGED queuedVars

-----------------------------------------------------------------------------
(* The operations.  Each starts from an idle state, and what remains to be *)
(* done of it is in loop.                                                  *)

Collect == [Idle EXCEPT !.do = "collect", !.next = nextExpectedNonce]
Settled == want' = [active |-> active', queued |-> queued']

\* Insert appends to the active run or replaces one of it, and promotes what follows ...
Append ==
  /\ loop = Idle /\ nextExpectedNonce \in Nonce /\ nextExpectedNonce \notin queued
  /\ AddActive(nextExpectedNonce)
  /\ UNCHANGED <<rest, queuedVars>>
  /\ loop' = Collect'
  /\ Settled

Replace(n) ==
  /\ loop = Idle /\ n \in active
  /\ active' = active
  /\ aRange' = RangeOnInsert(RangeOnRemove(aRange, active \ {n}, n), active, n)
  /\ UNCHANGED <<rest, queuedVars>>
  /\ loop' = Collect'
  /\ Settled

\* ... or queues a later nonce.
Queue(n) ==
  /\ loop = Idle /\ n \in Nonce /\ n > nextExpectedNonce /\ n \notin queued
  /\ insertQueued(n)
  /\ UNCHANGED <<rest, activeVars, loop>>
  /\ Settled

\* removeByReasonLocked on a queued nonce, and removeAllQueuedLocked.
Unqueue(n) ==
  /\ loop = Idle /\ n \in queued
  /\ RemoveQueued(n)
  /\ UNCHANGED <<rest, activeVars, loop>>
  /\ Settled

Expire ==
  /\ loop = Idle /\ queued # {}
  /\ queued' = {} /\ qRange' = NoRange
  /\ queuedCount' = queuedCount - Cardinality(queued)
  /\ UNCHANGED <<rest, activeVars, loop>>
  /\ Settled

\* Other senders queue and unqueue.
OthersQueue(k) ==
  /\ loop = Idle
  /\ other' = k /\ queuedCount' = queuedCount - other + k
  /\ UNCHANGED <<onChainSeq, activeVars, queued, qRange, loop, want>>

\* Fault: the loop bound is taken without looking at the sequence first.
StaleLoop_Unguarded(do, S, r, seq, promote) ==
  IF S = {} THEN [Idle EXCEPT !.do = do, !.next = 1, !.seq = seq, !.promote = promote]
  ELSE [Idle EXCEPT !.do = do, !.next = r.min, !.end = Lower(seq - 1, r.max),
                    !.seq = seq, !.promote = promote]

\* removeStaleLocked: the loop over one map.
StaleLoop(do, S, r, seq, promote) ==
  IF S = {} \/ seq = 0 \/ r.min >= seq
  THEN [Idle EXCEPT !.do = do, !.next = 1, !.seq = seq, !.promote = promote]
  ELSE [Idle EXCEPT !.do = do, !.next = r.min, !.end = Lower(seq - 1, r.max),
                    !.seq = seq, !.promote = promote]

\* PromoteQueued and the cleaning worker, with sequence seq.
Reconcile(seq, promote) ==
  /\ loop = Idle
  /\ onChainSeq' = Upper(onChainSeq, seq)
  /\ loop' = StaleLoop("staleActive", active, aRange, seq, promote)
  /\ want' = [active |-> {n \in active : n >= seq}, queued |-> {n \in queued : n >= seq}]
  /\ UNCHANGED <<activeVars, queuedVars, other>>

\* A block committed nonce n.
Committed(n) ==
  /\ loop = Idle
  /\ onChainSeq' = Upper(onChainSeq, n + 1)
  /\ IF n \in active THEN RemoveActive(n) ELSE UNCHANGED activeVars
  /\ IF n \in queued \ active THEN RemoveQueued(n) ELSE UNCHANGED queuedVars
  /\ loop' = StaleLoop("staleActive", active', aRange', n + 1, FALSE)
  /\ want' = [active |-> {m \in active : m > n}, queued |-> {m \in queued : m > n}]
  /\ UNCHANGED other

\* demoteActiveRangeLocked: the active nonces from start on.
DemoteLoop(start, S, r) ==
  IF S = {} \/ start > r.max THEN [Idle EXCEPT !.do = "demote", !.next = 1]
  ELSE [Idle EXCEPT !.do = "demote", !.next = start, !.end = r.max]

Demoted(start) ==
  [active |-> {n \in active' : n < start},
   queued |-> QueueKeeps(queued, {n \in active' : n >= start}, MaxQueuedPerSender,
                         MaxQueuedTotal - queuedCount)]

Evict(n) ==
  /\ loop = Idle /\ n \in active
  /\ UNCHANGED <<activeVars, queuedVars, rest>>
  /\ loop' = DemoteLoop(n, active, aRange)
  /\ want' = Demoted(n)

Reject(n) ==
  /\ loop = Idle /\ n \in active
  /\ RemoveActive(n)
  /\ loop' = DemoteLoop(n + 1, active', aRange')
  /\ want' = Demoted(n + 1)
  /\ UNCHANGED <<queuedVars, rest>>

-----------------------------------------------------------------------------
(* The loops.                                                              *)

Advance == loop' = [loop EXCEPT !.next = @ + 1]
Running(do) == loop.do = do /\ loop.next <= loop.end
Finished(do) == loop.do = do /\ loop.next > loop.end

StaleActive ==
  /\ Running("staleActive")
  /\ IF loop.next \in active THEN RemoveActive(loop.next) ELSE UNCHANGED activeVars
  /\ Advance
  /\ UNCHANGED <<rest, queuedVars, want>>

StaleActiveEnd ==
  /\ Finished("staleActive")
  /\ loop' = StaleLoop("staleQueued", queued, qRange, loop.seq, loop.promote)
  /\ UNCHANGED <<rest, activeVars, queuedVars, want>>

StaleQueued ==
  /\ Running("staleQueued")
  /\ IF loop.next \in queued THEN RemoveQueued(loop.next) ELSE UNCHANGED queuedVars
  /\ Advance
  /\ UNCHANGED <<rest, activeVars, want>>

StaleQueuedEnd ==
  /\ Finished("staleQueued")
  /\ loop' = IF loop.promote THEN Collect ELSE Idle
  /\ UNCHANGED <<rest, activeVars, queuedVars, want>>

Demote ==
  /\ Running("demote")
  /\ IF loop.next \in active THEN RemoveActive(loop.next) /\ insertQueued(loop.next)
     ELSE UNCHANGED <<activeVars, queuedVars>>
  /\ Advance
  /\ UNCHANGED <<rest, want>>

DemoteEnd ==
  /\ Finished("demote")
  /\ loop' = Idle
  /\ UNCHANGED <<rest, activeVars, queuedVars, want>>

\* collectPromotableLocked takes the run out of the queue, one nonce at a time ...
CollectOne ==
  /\ loop.do = "collect" /\ loop.next \in queued
  /\ RemoveQueued(loop.next)
  /\ loop' = [loop EXCEPT !.next = @ + 1, !.out = @ \cup {loop.next}]
  /\ want' = [want EXCEPT !.queued = @ \ {loop.next}]
  /\ UNCHANGED <<rest, activeVars>>

CollectEnd ==
  /\ loop.do = "collect" /\ loop.next \notin queued
  /\ loop' = [loop EXCEPT !.do = "promote"]
  /\ UNCHANGED <<rest, activeVars, queuedVars, want>>

\* ... and each of it becomes active, or the rest of it is put back.
PromoteOne ==
  LET n == Min(loop.out) IN
  /\ loop.do = "promote" /\ loop.out # {}
  /\ AddActive(n)
  /\ loop' = [loop EXCEPT !.out = @ \ {n}]
  /\ want' = [want EXCEPT !.active = @ \cup {n}]
  /\ UNCHANGED <<rest, queuedVars>>

Requeue ==
  /\ loop.do = "promote" /\ loop.out # {}
  /\ loop' = [loop EXCEPT !.do = "requeue"]
  /\ want' = [want EXCEPT !.queued = @ \cup loop.out]
  /\ UNCHANGED <<rest, activeVars, queuedVars>>

RequeueOne ==
  LET n == Min(loop.out) IN
  /\ loop.do = "requeue" /\ loop.out # {}
  /\ AddQueued(n)
  /\ loop' = [loop EXCEPT !.out = @ \ {n}]
  /\ UNCHANGED <<rest, activeVars, want>>

PromoteEnd ==
  /\ loop.do \in {"promote", "requeue"} /\ loop.out = {}
  /\ loop' = Idle
  /\ UNCHANGED <<rest, activeVars, queuedVars, want>>

-----------------------------------------------------------------------------
Next ==
  \/ Append \/ Expire
  \/ \E n \in Nonce : \/ Replace(n) \/ Queue(n) \/ Unqueue(n)
                      \/ Committed(n) \/ Evict(n) \/ Reject(n)
  \/ \E seq \in Nonce, promote \in BOOLEAN : Reconcile(seq, promote)
  \/ \E k \in 0..OtherQueued : OthersQueue(k)
  \/ StaleActive \/ StaleActiveEnd \/ StaleQueued \/ StaleQueuedEnd
  \/ Demote \/ DemoteEnd
  \/ CollectOne \/ CollectEnd \/ PromoteOne \/ Requeue \/ RequeueOne \/ PromoteEnd

Spec == Init /\ [][Next]_vars

-----------------------------------------------------------------------------
Bounds == [min : Nat, max : Nat]

TypeOK ==
  /\ onChainSeq \in Nat
  /\ active \subseteq Nat /\ aRange \in Bounds
  /\ queued \subseteq Nat /\ qRange \in Bounds
  /\ other \in Nat /\ queuedCount \in Int
  /\ loop \in [do : {"idle", "staleActive", "staleQueued", "demote", "collect", "promote",
                     "requeue"},
               next : Nat, end : Nat, seq : Nat, promote : BOOLEAN, out : SUBSET Nat]
  /\ want \in [active : SUBSET Nat, queued : SUBSET Nat]

Exact(r, S) ==
  IF S = {} THEN r = NoRange
  ELSE r.min \in S /\ r.max \in S /\ \A n \in S : r.min <= n /\ n <= r.max

\* The cached bounds are the lowest and highest nonces of the maps, although they are
\* only ever adjusted from one inserted or removed nonce, in the middle of a run too.
RangesExact == Exact(aRange, active) /\ Exact(qRange, queued)

\* p.queuedCount is the number of queued transactions of all senders, through swaps,
\* demotions, failed promotions and expiries.
CountExact == queuedCount = other + Cardinality(queued)

\* The loops over cached bounds end with the sets Mempool computes at once: nothing
\* below the sequence is left, and of a demoted suffix what the two limits allow.
LoopsExact == loop = Idle => want = [active |-> active, queued |-> queued]
=============================================================================

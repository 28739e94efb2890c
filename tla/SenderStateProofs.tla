------------------------- MODULE SenderStateProofs -------------------------
(***************************************************************************)
(* The cached nonce bounds and the queued count are exact, for any nonces  *)
(* and any limits.                                                         *)
(***************************************************************************)
EXTENDS SenderState, FiniteSetTheorems, WellFoundedInduction, TLAPS

-----------------------------------------------------------------------------
(* Least and greatest elements of sets of naturals.                        *)

\* Every non-empty set of naturals has a least element.
LEMMA LeastExists ==
  ASSUME NEW S \in SUBSET Nat, S # {}
  PROVE  \E x \in S : \A y \in S : x <= y
<1> DEFINE R == {p \in Nat \X Nat : p[1] < p[2]}
<1>1. IsWellFoundedOn(R, Nat)
  BY NatLessThanWellFounded DEF OpToRel
<1>2. PICK x \in S : \A y \in S : ~(<<y, x>> \in R)
  BY <1>1, WFMin, Zenon
<1>3. ASSUME NEW y \in S PROVE x <= y
  <2>1. ~(y < x)
    BY <1>2, Zenon
  <2> QED
    BY <2>1
<1> QED
  BY <1>3

\* Min finds it.
LEMMA MinLeast ==
  ASSUME NEW S \in SUBSET Nat, S # {}
  PROVE  Min(S) \in S /\ \A y \in S : Min(S) <= y
BY LeastExists, Zenon DEF Min

\* A non-empty set of naturals with an upper bound has a greatest element, and Max
\* finds it.
LEMMA MaxGreatest ==
  ASSUME NEW b \in Nat, NEW S \in SUBSET (0..b), S # {}
  PROVE  Max(S) \in S /\ \A y \in S : Max(S) >= y
<1> DEFINE D == {b - n : n \in S}
<1>1. D \in SUBSET Nat /\ D # {}
  <2>1. ASSUME NEW n \in S PROVE b - n \in Nat
    OBVIOUS
  <2>2. PICK n \in S : TRUE
    OBVIOUS
  <2>3. b - n \in D
    OBVIOUS
  <2> QED
    BY <2>1, <2>3
<1>2. PICK x \in D : \A y \in D : x <= y
  BY <1>1, LeastExists, Zenon
<1>3. PICK n \in S : x = b - n
  OBVIOUS
<1>4. ASSUME NEW y \in S PROVE n >= y
  <2>1. b - n <= b - y
    BY <1>2, <1>3
  <2> QED
    BY <2>1
<1> QED
  BY <1>4, Zenon DEF Max

-----------------------------------------------------------------------------
(* The range updates.                                                      *)

\* setActiveRangeOnInsertLocked and its queued twin keep an exact range exact.
LEMMA InsertExact ==
  ASSUME NEW r \in Bounds, NEW S \in SUBSET Nat, NEW n \in Nat, Exact(r, S)
  PROVE  LET q == RangeOnInsert(r, S \cup {n}, n)
         IN  q \in Bounds /\ Exact(q, S \cup {n})
<1> DEFINE q == RangeOnInsert(r, S \cup {n}, n)
<1>1. CASE S \cup {n} = {n}
  BY <1>1 DEF RangeOnInsert, Bounds, Exact
<1>2. CASE S \cup {n} # {n}
  <2>1. S # {} /\ r.min \in S /\ r.max \in S /\ \A m \in S : r.min <= m /\ m <= r.max
    BY <1>2, Zenon DEF Exact
  <2>2. q = [min |-> Lower(r.min, n), max |-> Upper(r.max, n)]
    BY <1>2 DEF RangeOnInsert
  <2>3. q.min = Lower(r.min, n) /\ q.max = Upper(r.max, n)
    BY <2>2
  <2> HIDE DEF q
  <2>4. q.min \in S \cup {n} /\ q.max \in S \cup {n}
    BY <2>1, <2>3 DEF Lower, Upper
  <2>a. ASSUME NEW m \in S \cup {n} PROVE q.min <= m /\ m <= q.max
    <3>1. r.min \in Nat /\ r.max \in Nat /\ r.min <= r.max
      BY <2>1, Zenon
    <3>2. m \in Nat /\ (m = n \/ (r.min <= m /\ m <= r.max))
      BY <2>1
    <3> QED
      BY <2>3, <3>1, <3>2 DEF Lower, Upper
  <2>5. q \in Bounds
    BY <2>1, <2>2 DEF Lower, Upper, Bounds
  <2>6. Exact(q, S \cup {n})
    BY <2>4, <2>a DEF Exact
  <2> QED
    BY <2>5, <2>6 DEF q
<1> QED
  BY <1>1, <1>2

\* setActiveRangeOnRemoveLocked and its queued twin too, whichever nonce goes.
LEMMA RemoveExact ==
  ASSUME NEW r \in Bounds, NEW S \in SUBSET Nat, NEW n \in S, Exact(r, S)
  PROVE  LET q == RangeOnRemove(r, S \ {n}, n)
         IN  q \in Bounds /\ Exact(q, S \ {n})
<1> DEFINE T == S \ {n}
           q == RangeOnRemove(r, T, n)
<1>0. /\ r.min \in S /\ r.max \in S /\ \A m \in S : r.min <= m /\ m <= r.max
      /\ r.min \in Nat /\ r.max \in Nat
      /\ r = [min |-> r.min, max |-> r.max]
  BY DEF Exact, Bounds
<1>1. CASE T = {}
  BY <1>1 DEF RangeOnRemove, NoRange, Bounds, Exact
<1>2. CASE T # {} /\ n = r.min
  <2> DEFINE up == {m \in T : r.min < m /\ m <= r.max}
  <2>1. up = T
    BY <1>0, <1>2
  <2>2. Min(T) \in T /\ \A m \in T : Min(T) <= m
    <3>1. T \in SUBSET Nat
      OBVIOUS
    <3> QED
      BY <3>1, <1>2, MinLeast
  <2>3. q = [min |-> Min(T), max |-> r.max]
    BY <1>0, <1>2, <2>1 DEF RangeOnRemove, NextUp
  <2>4. r.max \in T
    <3>1. PICK m \in T : TRUE
      BY <1>2, Zenon
    <3>2. m > r.min /\ r.max >= m
      BY <1>0, <1>2
    <3> QED
      BY <1>0, <1>2, <3>2
  <2>5. q.min = Min(T) /\ q.max = r.max
    BY <2>3
  <2>6. \A m \in T : q.min <= m /\ m <= q.max
    BY <1>0, <2>2, <2>5
  <2>7. Exact(q, T)
    BY <1>2, <2>2, <2>4, <2>5, <2>6 DEF Exact
  <2>8. q \in Bounds
    <3>1. Min(T) \in Nat
      BY <2>2, Zenon
    <3> HIDE DEF q
    <3> QED
      BY <1>0, <2>3, <3>1 DEF Bounds
  <2> QED
    BY <2>7, <2>8
<1>3. CASE T # {} /\ n # r.min /\ n = r.max
  <2> DEFINE down == {m \in T : r.min <= m /\ m < r.max}
  <2>1. down = T
    BY <1>0, <1>3
  <2>2. Max(T) \in T /\ \A m \in T : Max(T) >= m
    <3>1. T \in SUBSET (0..r.max)
      BY <1>0
    <3> QED
      BY <3>1, <1>0, <1>3, MaxGreatest
  <2>3. q = [min |-> r.min, max |-> Max(T)]
    BY <1>0, <1>3, <2>1 DEF RangeOnRemove, NextDown
  <2>4. q.min = r.min /\ q.max = Max(T)
    BY <2>3
  <2>5. \A m \in T : q.min <= m /\ m <= q.max
    BY <1>0, <2>2, <2>4
  <2>6. Exact(q, T)
    BY <1>0, <1>3, <2>2, <2>4, <2>5 DEF Exact
  <2>7. q \in Bounds
    <3>1. Max(T) \in Nat
      BY <2>2, Zenon
    <3> HIDE DEF q
    <3> QED
      BY <1>0, <2>3, <3>1 DEF Bounds
  <2> QED
    BY <2>6, <2>7
<1>4. CASE T # {} /\ n # r.min /\ n # r.max
  BY <1>0, <1>4 DEF RangeOnRemove, Exact, Bounds
<1> QED
  BY <1>1, <1>2, <1>3, <1>4

-----------------------------------------------------------------------------
(* The inductive invariant: each map with what is cached about it, and no  *)
(* nonce in two places.                                                    *)

ActiveOK == active \in SUBSET Nat /\ aRange \in Bounds /\ Exact(aRange, active)

QueuedOK ==
  /\ queued \in SUBSET Nat /\ qRange \in Bounds /\ Exact(qRange, queued)
  /\ IsFiniteSet(queued) /\ other \in Nat
  /\ queuedCount = other + Cardinality(queued)

Apart == active \cap queued = {} /\ active \cap loop.out = {} /\ queued \cap loop.out = {}

LoopType ==
  [do : {"idle", "staleActive", "staleQueued", "demote", "collect", "promote", "requeue"},
   next : Nat, end : Nat, seq : Nat, promote : BOOLEAN, out : SUBSET Nat]
WantType == [active : SUBSET Nat, queued : SUBSET Nat]

IInv ==
  /\ onChainSeq \in Nat /\ loop \in LoopType /\ want \in WantType
  /\ ActiveOK /\ QueuedOK /\ Apart

\* The single changes keep their map's part of it.
LEMMA AddActiveOK ==
  ASSUME ActiveOK, NEW n \in Nat, AddActive(n)
  PROVE  ActiveOK'
BY InsertExact DEF ActiveOK, AddActive

LEMMA RemoveActiveOK ==
  ASSUME ActiveOK, NEW n \in active, RemoveActive(n)
  PROVE  ActiveOK'
BY RemoveExact DEF ActiveOK, RemoveActive

LEMMA AddQueuedOK ==
  ASSUME QueuedOK, NEW n \in Nat, n \notin queued, AddQueued(n), other' = other
  PROVE  QueuedOK'
<1>1. queued' \in SUBSET Nat /\ qRange' \in Bounds /\ Exact(qRange', queued')
  BY InsertExact DEF QueuedOK, AddQueued
<1>2. IsFiniteSet(queued') /\ Cardinality(queued') = Cardinality(queued) + 1
  BY FS_AddElement DEF QueuedOK, AddQueued
<1>3. Cardinality(queued) \in Nat
  BY FS_CardinalityType DEF QueuedOK
<1>4. queuedCount' = other' + Cardinality(queued')
  BY <1>2, <1>3 DEF QueuedOK, AddQueued
<1> QED
  BY <1>1, <1>2, <1>4 DEF QueuedOK

LEMMA RemoveQueuedOK ==
  ASSUME QueuedOK, NEW n \in queued, RemoveQueued(n), other' = other
  PROVE  QueuedOK'
<1>1. queued' \in SUBSET Nat /\ qRange' \in Bounds /\ Exact(qRange', queued')
  BY RemoveExact DEF QueuedOK, RemoveQueued
<1>2. IsFiniteSet(queued') /\ Cardinality(queued') = Cardinality(queued) - 1
  BY FS_RemoveElement DEF QueuedOK, RemoveQueued
<1>3. Cardinality(queued) \in Nat
  BY FS_CardinalityType DEF QueuedOK
<1>4. queuedCount' = other' + Cardinality(queued')
  BY <1>2, <1>3 DEF QueuedOK, RemoveQueued
<1> QED
  BY <1>1, <1>2, <1>4 DEF QueuedOK

\* A full queue's highest nonce is one of it.
LEMMA HighestQueued ==
  ASSUME QueuedOK, queued # {}
  PROVE  Max(queued) \in queued
<1>1. queued \in SUBSET Nat /\ qRange.max \in queued /\ \A m \in queued : m <= qRange.max
  BY Zenon DEF QueuedOK, Exact
<1>2. qRange.max \in Nat /\ queued \in SUBSET (0..qRange.max)
  <2>1. qRange.max \in Nat
    BY <1>1, Zenon
  <2>2. ASSUME NEW m \in queued PROVE m \in 0..qRange.max
    BY <1>1, <2>1
  <2> QED
    BY <2>1, <2>2
<1> QED
  BY <1>2, MaxGreatest, Zenon

LEMMA SwapOK ==
  ASSUME QueuedOK, NEW n \in Nat, n \notin queued, NEW high \in queued,
         Swap(n, high), other' = other
  PROVE  QueuedOK'
<1> DEFINE S == queued \ {high}
           r == RangeOnRemove(qRange, S, high)
<1>1. S \in SUBSET Nat /\ r \in Bounds /\ Exact(r, S)
  BY RemoveExact DEF QueuedOK
<1>2. IsFiniteSet(S) /\ Cardinality(S) = Cardinality(queued) - 1 /\ n \notin S
  BY FS_RemoveElement DEF QueuedOK
<1>3. queued' = S \cup {n} /\ qRange' = RangeOnInsert(r, S \cup {n}, n)
  BY DEF Swap
<1>4. Cardinality(queued) \in Nat
  BY FS_CardinalityType DEF QueuedOK
<1> HIDE DEF S, r
<1>5. queued' \in SUBSET Nat /\ qRange' \in Bounds /\ Exact(qRange', queued')
  BY <1>1, <1>3, InsertExact
<1>6. IsFiniteSet(queued') /\ Cardinality(queued') = Cardinality(S) + 1
  BY <1>2, <1>3, FS_AddElement
<1>7. Cardinality(queued') = Cardinality(queued)
  BY <1>2, <1>4, <1>6
<1>8. queuedCount' = other' + Cardinality(queued')
  BY <1>7 DEF QueuedOK, Swap
<1> QED
  BY <1>5, <1>6, <1>8 DEF QueuedOK

LEMMA InsertQueuedOK ==
  ASSUME QueuedOK, NEW n \in Nat, n \notin queued, insertQueued(n), other' = other
  PROVE  QueuedOK' /\ queued' \subseteq queued \cup {n}
<1>1. CASE QueueFull /\ n < Max(queued) /\ Swap(n, Max(queued))
  <2>1. queued # {}
    BY <1>1, FS_EmptySet, NonceAssumption DEF QueueFull
  <2>2. Max(queued) \in queued
    BY <2>1, HighestQueued
  <2> QED
    BY <1>1, <2>2, SwapOK DEF Swap
<1>2. CASE UNCHANGED queuedVars
  BY <1>2 DEF queuedVars, QueuedOK
<1>3. CASE AddQueued(n)
  BY <1>3, AddQueuedOK DEF AddQueued
<1> QED
  BY <1>1, <1>2, <1>3 DEF insertQueued

-----------------------------------------------------------------------------
(* The operations keep the invariant.                                      *)

\* The records that describe a loop are of their type.
LEMMA LoopTypes ==
  /\ Idle \in LoopType
  /\ \A k \in Nat : [Idle EXCEPT !.do = "collect", !.next = k] \in LoopType
  /\ \A k \in Nat, l \in Nat :
       [Idle EXCEPT !.do = "demote", !.next = k, !.end = l] \in LoopType
  /\ [Idle EXCEPT !.do = "demote", !.next = 1] \in LoopType
  /\ \A do \in {"staleActive", "staleQueued"}, k \in Nat, l \in Nat, seq \in Nat,
       promote \in BOOLEAN :
       [Idle EXCEPT !.do = do, !.next = k, !.end = l, !.seq = seq, !.promote = promote]
         \in LoopType
  /\ \A do \in {"staleActive", "staleQueued"}, seq \in Nat, promote \in BOOLEAN :
       [Idle EXCEPT !.do = do, !.next = 1, !.seq = seq, !.promote = promote] \in LoopType
BY Zenon DEF Idle, LoopType

LEMMA NextExpectedType ==
  ASSUME ActiveOK, onChainSeq \in Nat
  PROVE  nextExpectedNonce \in Nat
BY DEF ActiveOK, Bounds, nextExpectedNonce, Upper

LEMMA StaleLoopType ==
  ASSUME NEW do \in {"staleActive", "staleQueued"}, NEW S, NEW r \in Bounds,
         NEW seq \in Nat, NEW promote \in BOOLEAN
  PROVE  /\ StaleLoop(do, S, r, seq, promote) \in LoopType
         /\ StaleLoop(do, S, r, seq, promote).out = {}
<1>1. CASE S = {} \/ seq = 0 \/ r.min >= seq
  BY <1>1, LoopTypes, Zenon DEF StaleLoop, Idle
<1>2. CASE ~(S = {} \/ seq = 0 \/ r.min >= seq)
  <2>1. r.min \in Nat /\ Lower(seq - 1, r.max) \in Nat
    BY <1>2 DEF Lower, Bounds
  <2>2. StaleLoop(do, S, r, seq, promote) =
          [Idle EXCEPT !.do = do, !.next = r.min, !.end = Lower(seq - 1, r.max),
                       !.seq = seq, !.promote = promote]
    BY <1>2 DEF StaleLoop
  <2>3. StaleLoop(do, S, r, seq, promote) \in LoopType
    BY <2>1, <2>2, Zenon DEF Idle, LoopType
  <2>4. StaleLoop(do, S, r, seq, promote).out = {}
    BY <2>2 DEF Idle
  <2> QED
    BY <2>3, <2>4
<1> QED
  BY <1>1, <1>2

LEMMA DemoteLoopType ==
  ASSUME NEW start \in Nat, NEW S, NEW r \in Bounds
  PROVE  DemoteLoop(start, S, r) \in LoopType /\ DemoteLoop(start, S, r).out = {}
BY LoopTypes, Zenon DEF DemoteLoop, Idle, Bounds

\* Only nonces that were queued or demoted are queued after a demotion.
LEMMA QueueKeepsType ==
  ASSUME NEW Q \in SUBSET Nat, NEW D \in SUBSET Nat, NEW cap, NEW room
  PROVE  QueueKeeps(Q, D, cap, room) \in SUBSET Nat
BY Zenon DEF QueueKeeps, Lowest

\* Inserting and removing: one lemma for each operation that starts from an idle state.
LEMMA AppendInv ==
  ASSUME IInv, Append
  PROVE  IInv'
<1> DEFINE n == nextExpectedNonce
<1>1. n \in Nat
  BY NextExpectedType DEF IInv
<1> HIDE DEF n
<1>2. ActiveOK' /\ active' = active \cup {n} /\ n \notin queued
  BY <1>1, AddActiveOK DEF IInv, Append, AddActive, n
<1>3. QueuedOK' /\ queued' = queued /\ onChainSeq' \in Nat
  BY DEF IInv, Append, queuedVars, rest, QueuedOK
<1>4. nextExpectedNonce' \in Nat
  BY <1>2, <1>3, NextExpectedType DEF ActiveOK, Bounds, nextExpectedNonce, Upper
<1>5. loop' \in LoopType /\ loop'.out = {}
  BY <1>4, Zenon DEF Append, Collect, Idle, LoopType
<1>6. want' \in WantType
  BY <1>2, <1>3 DEF Append, Settled, WantType, ActiveOK, QueuedOK
<1>7. Apart'
  BY <1>2, <1>3, <1>5 DEF IInv, Apart
<1> QED
  BY <1>2, <1>3, <1>5, <1>6, <1>7 DEF IInv

LEMMA ReplaceInv ==
  ASSUME IInv, NEW n \in Nonce, Replace(n)
  PROVE  IInv'
<1> DEFINE S == active \ {n}
           r == RangeOnRemove(aRange, S, n)
<1>1. S \in SUBSET Nat /\ r \in Bounds /\ Exact(r, S)
  BY RemoveExact DEF IInv, ActiveOK, Replace
<1>2. n \in Nat /\ active' = active /\ active = S \cup {n}
  BY NonceAssumption DEF Replace
<1>3. aRange' = RangeOnInsert(r, S \cup {n}, n)
  BY <1>2 DEF Replace
<1> HIDE DEF S, r
<1>4. aRange' \in Bounds /\ Exact(aRange', S \cup {n})
  BY <1>1, <1>2, <1>3, InsertExact
<1>5. ActiveOK'
  BY <1>2, <1>4 DEF IInv, ActiveOK
<1>6. QueuedOK' /\ queued' = queued /\ onChainSeq' \in Nat
  BY DEF IInv, Replace, queuedVars, rest, QueuedOK
<1>7. nextExpectedNonce' \in Nat
  BY <1>5, <1>6 DEF ActiveOK, Bounds, nextExpectedNonce, Upper
<1>8. loop' \in LoopType /\ loop'.out = {}
  BY <1>7, Zenon DEF Replace, Collect, Idle, LoopType
<1>9. want' \in WantType
  BY <1>5, <1>6 DEF Replace, Settled, WantType, ActiveOK, QueuedOK
<1>10. Apart'
  BY <1>2, <1>6, <1>8 DEF IInv, Apart
<1> QED
  BY <1>5, <1>6, <1>8, <1>9, <1>10 DEF IInv

LEMMA QueueInv ==
  ASSUME IInv, NEW n \in Nonce, Queue(n)
  PROVE  IInv'
<1>1. n \in Nat /\ loop' = loop /\ loop = Idle
  BY NonceAssumption DEF Queue
<1>2. QueuedOK' /\ queued' \subseteq queued \cup {n}
  BY <1>1, InsertQueuedOK DEF IInv, Queue, rest
<1>3. ActiveOK' /\ active' = active /\ onChainSeq' \in Nat
  BY DEF IInv, ActiveOK, Queue, activeVars, rest
<1>4. n \notin active
  <2>1. SUFFICES ASSUME n \in active PROVE FALSE
    OBVIOUS
  <2>2. aRange.max \in Nat /\ n <= aRange.max
    BY <2>1 DEF IInv, ActiveOK, Bounds, Exact
  <2>3. n > nextExpectedNonce /\ nextExpectedNonce >= aRange.max + 1
    BY <2>1, <2>2 DEF Queue, nextExpectedNonce, Upper, IInv
  <2> QED
    BY <1>1, <2>2, <2>3, NextExpectedType DEF IInv
<1>5. want' \in WantType
  BY <1>2, <1>3 DEF Queue, Settled, WantType, ActiveOK, QueuedOK
<1>6. Apart'
  BY <1>1, <1>2, <1>3, <1>4 DEF IInv, Apart, Idle
<1> QED
  BY <1>1, <1>2, <1>3, <1>5, <1>6 DEF IInv

LEMMA UnqueueInv ==
  ASSUME IInv, NEW n \in Nonce, Unqueue(n)
  PROVE  IInv'
<1>1. QueuedOK' /\ queued' \subseteq queued
  BY RemoveQueuedOK DEF IInv, Unqueue, rest, RemoveQueued
<1>2. ActiveOK' /\ active' = active /\ onChainSeq' \in Nat /\ loop' = loop
  BY DEF IInv, ActiveOK, Unqueue, activeVars, rest
<1>3. want' \in WantType
  BY <1>1, <1>2 DEF Unqueue, Settled, WantType, ActiveOK, QueuedOK
<1>4. Apart'
  BY <1>1, <1>2 DEF IInv, Apart
<1> QED
  BY <1>1, <1>2, <1>3, <1>4 DEF IInv

LEMMA ExpireInv ==
  ASSUME IInv, Expire
  PROVE  IInv'
<1>1. QueuedOK'
  <2>1. IsFiniteSet(queued') /\ Cardinality(queued') = 0
    BY FS_EmptySet DEF Expire
  <2>2. Cardinality(queued) \in Nat
    BY FS_CardinalityType DEF IInv, QueuedOK
  <2>3. queuedCount' = other'
    BY <2>2 DEF IInv, QueuedOK, Expire, rest
  <2>4. queuedCount' = other' + Cardinality(queued') /\ other' \in Nat
    BY <2>1, <2>3 DEF IInv, QueuedOK, Expire, rest
  <2> QED
    BY <2>1, <2>4 DEF IInv, QueuedOK, Expire, Exact, NoRange, Bounds
<1>2. ActiveOK' /\ active' = active /\ onChainSeq' \in Nat /\ loop' = loop /\ queued' = {}
  BY DEF IInv, ActiveOK, Expire, activeVars, rest
<1>3. want' \in WantType
  BY <1>1, <1>2 DEF Expire, Settled, WantType, ActiveOK, QueuedOK
<1>4. Apart'
  BY <1>2 DEF IInv, Apart
<1> QED
  BY <1>1, <1>2, <1>3, <1>4 DEF IInv

LEMMA OthersQueueInv ==
  ASSUME IInv, NEW k \in 0..OtherQueued, OthersQueue(k)
  PROVE  IInv'
<1>1. Cardinality(queued) \in Nat /\ k \in Nat
  BY FS_CardinalityType, NonceAssumption DEF IInv, QueuedOK
<1>2. queued' = queued /\ qRange' = qRange /\ other' = k
      /\ queuedCount' = other' + Cardinality(queued')
  BY <1>1 DEF IInv, QueuedOK, OthersQueue
<1>3. QueuedOK'
  BY <1>1, <1>2 DEF IInv, QueuedOK
<1> QED
  BY <1>2, <1>3 DEF IInv, OthersQueue, ActiveOK, activeVars, Apart

LEMMA ReconcileInv ==
  ASSUME IInv, NEW seq \in Nonce, NEW promote \in BOOLEAN, Reconcile(seq, promote)
  PROVE  IInv'
<1>1. seq \in Nat /\ onChainSeq' \in Nat
  BY NonceAssumption DEF IInv, Reconcile, Upper
<1>2. ActiveOK' /\ QueuedOK' /\ active' = active /\ queued' = queued
  BY DEF IInv, Reconcile, ActiveOK, QueuedOK, activeVars, queuedVars
<1>3. loop' \in LoopType /\ loop'.out = {}
  BY <1>1, StaleLoopType DEF IInv, ActiveOK, Reconcile
<1>4. want' \in WantType
  BY Zenon DEF IInv, Reconcile, WantType, ActiveOK, QueuedOK
<1>5. Apart'
  BY <1>2, <1>3 DEF IInv, Apart
<1> QED
  BY <1>1, <1>2, <1>3, <1>4, <1>5 DEF IInv

LEMMA CommittedInv ==
  ASSUME IInv, NEW n \in Nonce, Committed(n)
  PROVE  IInv'
<1>1. n \in Nat /\ n + 1 \in Nat /\ onChainSeq' \in Nat /\ other' = other
  BY NonceAssumption DEF IInv, Committed, Upper
<1>2. ActiveOK' /\ active' \subseteq active
  <2>1. CASE n \in active
    BY <2>1, RemoveActiveOK DEF IInv, Committed, RemoveActive
  <2>2. CASE n \notin active
    BY <2>2, Zenon DEF IInv, Committed, activeVars, ActiveOK
  <2> QED
    BY <2>1, <2>2
<1>3. QueuedOK' /\ queued' \subseteq queued
  <2>1. CASE n \in queued \ active
    BY <1>1, <2>1, RemoveQueuedOK DEF IInv, Committed, RemoveQueued
  <2>2. CASE n \notin queued \ active
    BY <1>1, <2>2, Zenon DEF IInv, Committed, queuedVars, QueuedOK
  <2> QED
    BY <2>1, <2>2
<1>4. loop' \in LoopType /\ loop'.out = {}
  <2>1. aRange' \in Bounds
    BY <1>2 DEF ActiveOK
  <2> QED
    BY <1>1, <2>1, StaleLoopType, Zenon DEF Committed
<1>5. want' \in WantType
  BY Zenon DEF IInv, Committed, WantType, ActiveOK, QueuedOK
<1>6. Apart'
  BY <1>2, <1>3, <1>4 DEF IInv, Apart
<1> QED
  BY <1>1, <1>2, <1>3, <1>4, <1>5, <1>6 DEF IInv

\* What a demotion is to end with is of its type.
LEMMA DemotedType ==
  ASSUME IInv, active' \in SUBSET Nat, NEW start \in Nat
  PROVE  Demoted(start) \in WantType
<1>1. {n \in active' : n < start} \in SUBSET Nat /\ {n \in active' : n >= start} \in SUBSET Nat
  OBVIOUS
<1>2. QueueKeeps(queued, {n \in active' : n >= start}, MaxQueuedPerSender,
                 MaxQueuedTotal - queuedCount) \in SUBSET Nat
  BY <1>1, QueueKeepsType DEF IInv, QueuedOK
<1> QED
  BY <1>1, <1>2 DEF Demoted, WantType

LEMMA EvictInv ==
  ASSUME IInv, NEW n \in Nonce, Evict(n)
  PROVE  IInv'
<1>1. n \in Nat
  BY NonceAssumption
<1>2. ActiveOK' /\ QueuedOK' /\ active' = active /\ queued' = queued /\ onChainSeq' \in Nat
  BY DEF IInv, Evict, ActiveOK, QueuedOK, activeVars, queuedVars, rest
<1>3. loop' \in LoopType /\ loop'.out = {}
  BY <1>1, DemoteLoopType DEF IInv, ActiveOK, Evict
<1>4. want' \in WantType
  BY <1>1, <1>2, DemotedType DEF Evict, ActiveOK
<1>5. Apart'
  BY <1>2, <1>3 DEF IInv, Apart
<1> QED
  BY <1>2, <1>3, <1>4, <1>5 DEF IInv

LEMMA RejectInv ==
  ASSUME IInv, NEW n \in Nonce, Reject(n)
  PROVE  IInv'
<1>1. n + 1 \in Nat
  BY NonceAssumption
<1>2. ActiveOK' /\ active' \subseteq active
  BY RemoveActiveOK DEF IInv, Reject, RemoveActive
<1>3. QueuedOK' /\ queued' = queued /\ onChainSeq' \in Nat
  BY DEF IInv, Reject, QueuedOK, queuedVars, rest
<1>4. loop' \in LoopType /\ loop'.out = {}
  <2>1. aRange' \in Bounds
    BY <1>2 DEF ActiveOK
  <2> QED
    BY <1>1, <2>1, DemoteLoopType DEF Reject
<1>5. want' \in WantType
  BY <1>1, <1>2, DemotedType DEF Reject, ActiveOK
<1>6. Apart'
  BY <1>2, <1>3, <1>4 DEF IInv, Apart
<1> QED
  BY <1>2, <1>3, <1>4, <1>5, <1>6 DEF IInv

-----------------------------------------------------------------------------
(* The steps of the loops keep it.                                         *)

\* Moving to the next nonce changes nothing else of the loop.
LEMMA AdvanceType ==
  ASSUME loop \in LoopType, Advance
  PROVE  loop' \in LoopType /\ loop'.out = loop.out
BY DEF LoopType, Advance

LEMMA StaleActiveInv ==
  ASSUME IInv, StaleActive
  PROVE  IInv'
<1>1. loop' \in LoopType /\ loop'.out = loop.out
  BY AdvanceType DEF IInv, StaleActive
<1>2. ActiveOK' /\ active' \subseteq active
  <2>1. CASE loop.next \in active
    BY <2>1, RemoveActiveOK DEF IInv, StaleActive, RemoveActive
  <2>2. CASE loop.next \notin active
    BY <2>2, Zenon DEF IInv, StaleActive, activeVars, ActiveOK
  <2> QED
    BY <2>1, <2>2
<1>3. QueuedOK' /\ queued' = queued /\ onChainSeq' \in Nat /\ want' \in WantType
  BY DEF IInv, StaleActive, QueuedOK, queuedVars, rest
<1>4. Apart'
  BY <1>1, <1>2, <1>3 DEF IInv, Apart
<1> QED
  BY <1>1, <1>2, <1>3, <1>4 DEF IInv

LEMMA StaleQueuedInv ==
  ASSUME IInv, StaleQueued
  PROVE  IInv'
<1>1. loop' \in LoopType /\ loop'.out = loop.out
  BY AdvanceType DEF IInv, StaleQueued
<1>2. QueuedOK' /\ queued' \subseteq queued
  <2>1. CASE loop.next \in queued
    BY <2>1, RemoveQueuedOK DEF IInv, StaleQueued, RemoveQueued, rest
  <2>2. CASE loop.next \notin queued
    BY <2>2, Zenon DEF IInv, StaleQueued, queuedVars, QueuedOK, rest
  <2> QED
    BY <2>1, <2>2
<1>3. ActiveOK' /\ active' = active /\ onChainSeq' \in Nat /\ want' \in WantType
  BY DEF IInv, StaleQueued, ActiveOK, activeVars, rest
<1>4. Apart'
  BY <1>1, <1>2, <1>3 DEF IInv, Apart
<1> QED
  BY <1>1, <1>2, <1>3, <1>4 DEF IInv

LEMMA DemoteInv ==
  ASSUME IInv, Demote
  PROVE  IInv'
<1>1. loop' \in LoopType /\ loop'.out = loop.out
  BY AdvanceType DEF IInv, Demote
<1>2. onChainSeq' \in Nat /\ want' \in WantType /\ other' = other
  BY DEF IInv, Demote, rest
<1>3. CASE loop.next \in active
  <2>1. loop.next \in Nat /\ loop.next \notin queued /\ loop.next \notin loop.out
    BY <1>3 DEF IInv, ActiveOK, Apart
  <2>2. ActiveOK' /\ active' = active \ {loop.next}
    BY <1>3, RemoveActiveOK DEF IInv, Demote, RemoveActive
  <2>3. QueuedOK' /\ queued' \subseteq queued \cup {loop.next}
    BY <1>2, <1>3, <2>1, InsertQueuedOK DEF IInv, Demote
  <2>4. Apart'
    BY <1>1, <2>1, <2>2, <2>3 DEF IInv, Apart
  <2> QED
    BY <1>1, <1>2, <2>2, <2>3, <2>4 DEF IInv
<1>4. CASE loop.next \notin active
  BY <1>1, <1>2, <1>4, Zenon DEF IInv, Demote, activeVars, queuedVars, ActiveOK, QueuedOK, Apart
<1> QED
  BY <1>3, <1>4

LEMMA CollectOneInv ==
  ASSUME IInv, CollectOne
  PROVE  IInv'
<1> DEFINE n == loop.next
<1>1. n \in queued /\ n \in Nat /\ other' = other
  BY DEF IInv, QueuedOK, CollectOne, rest
<1>2. loop' \in LoopType /\ loop'.out = loop.out \cup {n}
  <2>1. loop' = [loop EXCEPT !.next = n + 1, !.out = loop.out \cup {n}]
    BY DEF CollectOne
  <2>2. n + 1 \in Nat /\ loop.out \cup {n} \in SUBSET Nat
    BY <1>1 DEF IInv, LoopType
  <2> HIDE DEF n
  <2> QED
    BY <2>1, <2>2, Zenon DEF IInv, LoopType
<1>3. QueuedOK' /\ queued' = queued \ {n}
  BY <1>1, RemoveQueuedOK DEF IInv, CollectOne, RemoveQueued
<1>4. ActiveOK' /\ active' = active /\ onChainSeq' \in Nat
  BY DEF IInv, CollectOne, ActiveOK, activeVars, rest
<1>5. want' \in WantType
  BY DEF IInv, CollectOne, WantType
<1>6. Apart'
  BY <1>1, <1>2, <1>3, <1>4 DEF IInv, Apart
<1> QED
  BY <1>2, <1>3, <1>4, <1>5, <1>6 DEF IInv

LEMMA PromoteOneInv ==
  ASSUME IInv, PromoteOne
  PROVE  IInv'
<1> DEFINE n == Min(loop.out)
<1>1. n \in loop.out /\ n \in Nat
  BY MinLeast DEF IInv, LoopType, PromoteOne
<1>2. AddActive(n) /\ loop' = [loop EXCEPT !.out = @ \ {n}]
      /\ want' = [want EXCEPT !.active = @ \cup {n}] /\ UNCHANGED <<rest, queuedVars>>
  BY DEF PromoteOne
<1> HIDE DEF n
<1>3. loop' \in LoopType /\ loop'.out = loop.out \ {n}
  BY <1>2 DEF IInv, LoopType
<1>4. ActiveOK' /\ active' = active \cup {n}
  BY <1>1, <1>2, AddActiveOK DEF IInv, AddActive
<1>5. QueuedOK' /\ queued' = queued /\ onChainSeq' \in Nat
  BY <1>2 DEF IInv, QueuedOK, queuedVars, rest
<1>6. want' \in WantType
  BY <1>1, <1>2 DEF IInv, WantType
<1>7. Apart'
  BY <1>1, <1>3, <1>4, <1>5 DEF IInv, Apart
<1> QED
  BY <1>3, <1>4, <1>5, <1>6, <1>7 DEF IInv

LEMMA RequeueOneInv ==
  ASSUME IInv, RequeueOne
  PROVE  IInv'
<1> DEFINE n == Min(loop.out)
<1>1. n \in loop.out /\ n \in Nat
  BY MinLeast DEF IInv, LoopType, RequeueOne
<1>2. AddQueued(n) /\ loop' = [loop EXCEPT !.out = @ \ {n}]
      /\ UNCHANGED <<rest, activeVars, want>>
  BY DEF RequeueOne
<1> HIDE DEF n
<1>3. loop' \in LoopType /\ loop'.out = loop.out \ {n}
  BY <1>2 DEF IInv, LoopType
<1>4. n \notin queued /\ other' = other
  BY <1>1, <1>2 DEF IInv, Apart, rest
<1>5. QueuedOK' /\ queued' = queued \cup {n}
  BY <1>1, <1>2, <1>4, AddQueuedOK DEF IInv, AddQueued
<1>6. ActiveOK' /\ active' = active /\ onChainSeq' \in Nat /\ want' \in WantType
  BY <1>2 DEF IInv, ActiveOK, activeVars, rest
<1>7. Apart'
  BY <1>1, <1>3, <1>5, <1>6 DEF IInv, Apart
<1> QED
  BY <1>3, <1>5, <1>6, <1>7 DEF IInv

\* Steps that only move from one loop to the next: no map changes.
LEMMA TurnInv ==
  ASSUME IInv, UNCHANGED <<rest, activeVars, queuedVars>>, want' \in WantType,
         loop' \in LoopType, loop'.out = {} \/ loop'.out = loop.out
  PROVE  IInv'
BY DEF IInv, ActiveOK, QueuedOK, Apart, rest, activeVars, queuedVars

LEMMA LoopEndsInv ==
  ASSUME IInv,
         StaleActiveEnd \/ StaleQueuedEnd \/ DemoteEnd \/ CollectEnd \/ Requeue \/ PromoteEnd
  PROVE  IInv'
<1>1. CASE StaleActiveEnd
  <2>1. loop.seq \in Nat /\ loop.promote \in BOOLEAN /\ qRange \in Bounds
    BY DEF IInv, LoopType, QueuedOK
  <2>2. loop' \in LoopType /\ loop'.out = {}
    BY <1>1, <2>1, StaleLoopType DEF StaleActiveEnd
  <2> QED
    BY <1>1, <2>2, TurnInv DEF StaleActiveEnd, IInv
<1>2. CASE StaleQueuedEnd
  <2>1. Collect \in LoopType /\ Collect.out = {} /\ Idle \in LoopType /\ Idle.out = {}
    BY NextExpectedType, Zenon DEF IInv, Collect, Idle, LoopType
  <2>2. loop' \in LoopType /\ loop'.out = {}
    BY <1>2, <2>1 DEF StaleQueuedEnd
  <2> QED
    BY <1>2, <2>2, TurnInv DEF StaleQueuedEnd, IInv
<1>3. CASE DemoteEnd \/ PromoteEnd
  <2>1. loop' \in LoopType /\ loop'.out = {}
    <3>1. loop' = Idle
      BY <1>3 DEF DemoteEnd, PromoteEnd
    <3> QED
      BY <3>1, LoopTypes, Zenon DEF Idle
  <2> QED
    BY <1>3, <2>1, TurnInv DEF DemoteEnd, PromoteEnd, IInv
<1>4. CASE CollectEnd
  <2>1. loop' \in LoopType /\ loop'.out = loop.out
    BY <1>4 DEF CollectEnd, IInv, LoopType
  <2> QED
    BY <1>4, <2>1, TurnInv DEF CollectEnd, IInv
<1>5. CASE Requeue
  <2>1. loop' \in LoopType /\ loop'.out = loop.out
    BY <1>5 DEF Requeue, IInv, LoopType
  <2>2. want' \in WantType
    BY <1>5 DEF Requeue, IInv, LoopType, WantType
  <2> QED
    BY <1>5, <2>1, <2>2, TurnInv DEF Requeue
<1> QED
  BY <1>1, <1>2, <1>3, <1>4, <1>5

-----------------------------------------------------------------------------
(* The theorems.                                                           *)

LEMMA InitInv ==
  ASSUME Init
  PROVE  IInv
<1>1. onChainSeq \in Nat /\ other \in Nat
  BY NonceAssumption DEF Init
<1>2. ActiveOK /\ Apart
  BY DEF Init, ActiveOK, Apart, Exact, NoRange, Bounds, Idle
<1>3. QueuedOK
  <2>1. IsFiniteSet(queued) /\ Cardinality(queued) = 0
    BY FS_EmptySet DEF Init
  <2>2. queuedCount = other + Cardinality(queued)
    BY <1>1, <2>1 DEF Init
  <2> QED
    BY <1>1, <2>1, <2>2 DEF Init, QueuedOK, Exact, NoRange, Bounds
<1>4. loop \in LoopType /\ want \in WantType
  BY LoopTypes, Zenon DEF Init, WantType
<1> QED
  BY <1>1, <1>2, <1>3, <1>4 DEF IInv

LEMMA NextInv ==
  ASSUME IInv, [Next]_vars
  PROVE  IInv'
<1>1. CASE Append \/ Expire
  BY <1>1, AppendInv, ExpireInv
<1>2. ASSUME NEW n \in Nonce, \/ Replace(n) \/ Queue(n) \/ Unqueue(n)
                              \/ Committed(n) \/ Evict(n) \/ Reject(n)
      PROVE  IInv'
  BY <1>2, ReplaceInv, QueueInv, UnqueueInv, CommittedInv, EvictInv, RejectInv
<1>3. ASSUME NEW seq \in Nonce, NEW promote \in BOOLEAN, Reconcile(seq, promote)
      PROVE  IInv'
  BY <1>3, ReconcileInv
<1>4. ASSUME NEW k \in 0..OtherQueued, OthersQueue(k)
      PROVE  IInv'
  BY <1>4, OthersQueueInv
<1>5. CASE StaleActive \/ StaleQueued \/ Demote
  BY <1>5, StaleActiveInv, StaleQueuedInv, DemoteInv
<1>6. CASE CollectOne \/ PromoteOne \/ RequeueOne
  BY <1>6, CollectOneInv, PromoteOneInv, RequeueOneInv
<1>7. CASE StaleActiveEnd \/ StaleQueuedEnd \/ DemoteEnd \/ CollectEnd \/ Requeue \/ PromoteEnd
  BY <1>7, LoopEndsInv
<1>8. CASE UNCHANGED vars
  <2>1. UNCHANGED <<rest, activeVars, queuedVars>> /\ want' = want /\ loop' = loop
    BY <1>8 DEF vars, rest, activeVars, queuedVars
  <2> QED
    BY <2>1, TurnInv DEF IInv
<1> QED
  BY <1>1, <1>2, <1>3, <1>4, <1>5, <1>6, <1>7, <1>8 DEF Next

LEMMA Inductive == Spec => []IInv
<1>1. Init => IInv
  BY InitInv
<1>2. IInv /\ [Next]_vars => IInv'
  BY NextInv
<1> QED
  BY <1>1, <1>2, PTL DEF Spec

\* Every variable of senderState has its type, the loop bounds computed by subtracting
\* one from a sequence included: they never fall below zero.
THEOREM TypeCorrect == Spec => []TypeOK
<1>1. IInv => TypeOK
  <2> SUFFICES ASSUME IInv PROVE TypeOK
    OBVIOUS
  <2>1. Cardinality(queued) \in Nat
    BY FS_CardinalityType DEF IInv, QueuedOK
  <2>2. queuedCount \in Int
    BY <2>1 DEF IInv, QueuedOK
  <2> QED
    BY <2>2 DEF IInv, TypeOK, ActiveOK, QueuedOK, LoopType, WantType
<1> QED
  BY <1>1, Inductive, PTL

\* activeMin, activeMax, queuedMin and queuedMax are exact after every change.
THEOREM CachedRangesExact == Spec => []RangesExact
<1>1. IInv => RangesExact
  BY DEF IInv, ActiveOK, QueuedOK, RangesExact
<1> QED
  BY <1>1, Inductive, PTL

\* queuedCount never drifts from the number of queued transactions.
THEOREM QueuedCountExact == Spec => []CountExact
<1>1. IInv => CountExact
  BY DEF IInv, QueuedOK, CountExact
<1> QED
  BY <1>1, Inductive, PTL
=============================================================================

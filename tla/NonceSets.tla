----------------------------- MODULE NonceSets -----------------------------
(* Sets of nonces: what demotion makes of a sender's queue.                *)
EXTENDS Integers, FiniteSets

Lowest(k, S) == {n \in S : Cardinality({m \in S : m < n}) < k}

\* What remains of queue nonces Q, at most `cap` per sender, when insertQueuedLocked
\* is called on the nonces D in ascending order and `room` more queued transactions
\* are allowed in the pool: a full queue swaps its highest nonce for a lower one, and a
\* full pool takes no more.
QueueKeeps(Q, D, cap, room) ==
  LET free == cap - Cardinality(Q)
  IN  IF free > 0 /\ room < free THEN Q \cup Lowest(room, D)
      ELSE Lowest(IF free > 0 THEN cap ELSE Cardinality(Q), Q \cup D)
=============================================================================

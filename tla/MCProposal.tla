----------------------------- MODULE MCProposal -----------------------------
(***************************************************************************)
(* Two small nodes for model checking, explored side by side.  The         *)
(* constants describe the first, where two senders fill a proposal with    *)
(* transactions of several priorities, sizes and gas limits.  In the       *)
(* second, blocks commit around the proposal of one sender's transactions. *)
(***************************************************************************)
EXTENDS Proposal

CONSTANT Loner
VARIABLE scenario

Txs(S, N, P, W) ==
  [sender : S, nonce : N, prio : P, tier : {0}, ext : {TRUE}, weight : W]

\* The dearer transaction of the first nonce takes two bytes, and the gas limit of
\* that of the second nonce wraps the sum.
MCTx ==
  {t \in Txs(Sender, 0..1, 1..2, {1, 2}) :
     t.weight = IF t.nonce = 0 /\ t.prio = 2 THEN 2 ELSE 1}
MCGas(tx) == IF tx.nonce = 1 /\ tx.prio = 2 THEN 7 ELSE 1
MayFail(T) == {tx \in T : tx.nonce = 0 /\ tx.prio = 1}
MCDoubtful == MayFail(Tx)

\* One transaction per nonce, the second of which takes two bytes.
LineTx ==
  {t \in Txs({Loner}, 0..2, {1}, {1, 2}) : t.weight = IF t.nonce = 1 THEN 2 ELSE 1}
LineDoubtful == MayFail(LineTx)
Line == INSTANCE Proposal WITH
  Sender <- {Loner}, Tx <- LineTx, Doubtful <- LineDoubtful, BlockMax <- {1, 2},
  MaxBlocks <- 2

MCInit == \/ scenario = "fill" /\ NodeInit
          \/ scenario = "line" /\ Line!NodeInit
MCNext == \/ scenario = "fill" /\ NodeNext /\ UNCHANGED scenario
          \/ scenario = "line" /\ Line!NodeNext /\ UNCHANGED scenario
MCSpec == MCInit /\ [][MCNext]_<<nodeVars, scenario>>

MCSymmetry == Permutations(Sender)
=============================================================================

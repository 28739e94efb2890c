------------------------------ MODULE Proposal ------------------------------
(***************************************************************************)
(* abcipp.ProposalHandler over the mempool.  PrepareProposal takes a       *)
(* snapshot of the priority index, packs it one transaction at a time, and *)
(* then purges what it found invalid with one Lookup and one removal per   *)
(* transaction; the other connections and goroutines use the pool all the  *)
(* while.  ProcessProposal is what a validator at the same height decides. *)
(*                                                                         *)
(* tx.weight is the size in bytes, Gas(tx) the gas limit, a GasWord-sized  *)
(* unsigned integer whose sum may wrap around.                             *)
(***************************************************************************)
EXTENDS Mempool, Sequences, SequencesExt

CONSTANTS
  Gas(_),    \* the gas limit of a transaction
  GasMax,    \* Block.MaxGas; 0 is none
  GasWord,   \* 2^64, what the sums of gas limits wrap around at
  Doubtful   \* transactions the ante handler may refuse whatever their sequence

ASSUME GasAssumption ==
  /\ \A tx \in Tx : Gas(tx) \in 0..(GasWord - 1)
  /\ GasMax \in Nat /\ 2 * GasMax < GasWord
  /\ Doubtful \subseteq Tx

VARIABLES
  invalid,   \* what the ante handler refuses in the committed state
  prep       \* PrepareProposal

nodeVars == <<vars, invalid, prep>>

NoPrep == [at |-> "idle", todo |-> <<>>, seqs |-> chainSeq, size |-> 0, gas |-> 0,
           include |-> <<>>, remove |-> <<>>, blocked |-> {}, snapshot |-> {},
           refused |-> {}]

NodeInit == Init /\ invalid \in SUBSET Doubtful /\ prep = NoPrep

-----------------------------------------------------------------------------
(* The checks both handlers make.                                          *)

SizeOver(size) == blockMax > 0 /\ size > blockMax
GasOver(gas) == GasMax > 0 /\ gas > GasMax
AddGas(gas, tx) == (gas + Gas(tx)) % GasWord

\* The ante handler on a branch of the committed state with sequences seqs: the
\* signer's sequence, the transaction's own gas limit, and everything else.
Ante(tx, seqs) ==
  /\ tx.nonce = seqs[tx.sender]
  /\ ~GasOver(Gas(tx))
  /\ tx \notin invalid

-----------------------------------------------------------------------------
(* PrepareProposal.                                                        *)

\* Between a commit and the next block: Select copies the index in its order.
PrepareSelect ==
  LET E == Entries(active)
      order == SetToSortSeq(E, Before)
  IN  /\ cons.at = "exec" /\ execSeq = chainSeq
      /\ op = Unlocked
      /\ prep.at = "idle"
      /\ cons' = [cons EXCEPT !.at = "prepare"]
      /\ prep' = [NoPrep EXCEPT !.at = "pack", !.snapshot = {e.tx : e \in E},
                    !.todo = [i \in 1..Len(order) |-> order[i].tx]]
      /\ UNCHANGED <<poolVars, pending, cleaner, chainVars, view, invalid>>

\* Faults: the sender is not blocked; the gas check is left to the ante handler.
BlockSender_Not(p, tx) == p
Over_SizeOnly(p, tx) == SizeOver(p.size + tx.weight)

\* tx is past what is left of the block, or could never fit into one.
Over(p, tx) == SizeOver(p.size + tx.weight) \/ GasOver(AddGas(p.gas, tx))
Never(p, tx) ==
  IF SizeOver(p.size + tx.weight) THEN SizeOver(tx.weight) ELSE GasOver(Gas(tx))

Purge(p, tx) == [p EXCEPT !.remove = Append(@, tx), !.refused = @ \cup {tx}]
BlockSender(p, tx) == [p EXCEPT !.blocked = @ \cup {tx.sender}]
Include(p, tx) ==
  [p EXCEPT !.seqs = [@ EXCEPT ![tx.sender] = @ + 1],
            !.size = @ + tx.weight, !.gas = AddGas(@, tx), !.include = Append(@, tx)]

\* One turn of the loop.
Packed(p, tx) ==
  IF tx.sender \in p.blocked THEN p
  ELSE IF Over(p, tx) THEN BlockSender(IF Never(p, tx) THEN Purge(p, tx) ELSE p, tx)
  ELSE IF ~Ante(tx, p.seqs) THEN Purge(p, tx)
  ELSE Include(p, tx)

PrepareTx ==
  /\ prep.at = "pack" /\ prep.todo # <<>>
  /\ prep' = [Packed(prep, Head(prep.todo)) EXCEPT !.todo = Tail(@)]
  /\ UNCHANGED <<vars, invalid>>

\* The purge looks the key up and goes on only if it holds the same transaction ...
PrepareLookup ==
  LET tx == Head(prep.remove) IN
  /\ prep.at = "pack" /\ prep.todo = <<>>
  /\ prep.remove # <<>>
  /\ op = Unlocked
  /\ prep' = IF tx \in TxAt(tx.sender, tx.nonce) THEN [prep EXCEPT !.at = "erase"]
             ELSE [prep EXCEPT !.remove = Tail(@)]
  /\ UNCHANGED <<vars, invalid>>

\* ... to remove the key, in a second critical section.
PrepareErase ==
  /\ prep.at = "erase"
  /\ op = Unlocked
  /\ RemoveRejected(Head(prep.remove).sender, Head(prep.remove).nonce)
  /\ prep' = [prep EXCEPT !.at = "pack", !.remove = Tail(@)]
  /\ UNCHANGED <<pending, cons, cleaner, chainVars, invalid>>

PrepareReturn ==
  /\ prep.at = "pack" /\ prep.todo = <<>> /\ prep.remove = <<>>
  /\ prep' = [prep EXCEPT !.at = "proposed"]
  /\ UNCHANGED <<vars, invalid>>

-----------------------------------------------------------------------------
(* ProcessProposal on the transactions txs: gas, size and ante handler in  *)
(* turn, and nothing more once one fails.                                  *)

Processed(txs) ==
  LET step(r, tx) ==
        IF \/ ~r.ok
           \/ GasOver(AddGas(r.gas, tx)) \/ SizeOver(r.size + tx.weight)
           \/ ~Ante(tx, r.seqs)
        THEN [r EXCEPT !.ok = FALSE]
        ELSE [r EXCEPT !.gas = AddGas(@, tx), !.size = @ + tx.weight,
                       !.seqs = [@ EXCEPT ![tx.sender] = @ + 1]]
  IN  FoldLeft(step, [ok |-> TRUE, gas |-> 0, size |-> 0, seqs |-> chainSeq], txs)

\* The proposal is voted on and the block, whatever it is, can be executed.  One
\* proposal per behaviour is enough: nothing of it is used for the next.
Decide ==
  /\ prep.at = "proposed"
  /\ prep' = [prep EXCEPT !.at = "over"]
  /\ cons' = [cons EXCEPT !.at = "exec"]
  /\ UNCHANGED <<poolVars, pending, cleaner, chainVars, view, invalid>>

\* Another commit, another state: the ante handler may change its mind.
NextHeight ==
  /\ Commit
  /\ UNCHANGED prep
  /\ invalid' \in SUBSET Doubtful

NodeNext ==
  \/ Next /\ ~Commit /\ UNCHANGED <<invalid, prep>>
  \/ NextHeight
  \/ PrepareSelect \/ PrepareTx \/ PrepareLookup \/ PrepareErase \/ PrepareReturn
  \/ Decide

NodeSpec == NodeInit /\ [][NodeNext]_nodeVars

-----------------------------------------------------------------------------
\* The proposal a node prepares passes the checks of ProcessProposal on a node with
\* the same state, whatever the pool went through while it was packed.
ProposalAccepted == prep.at = "proposed" => Processed(prep.include).ok

\* The gas limits of a proposal add up to no more than Block.MaxGas, in unbounded
\* arithmetic: a sum that wrapped around is caught before it is included.
GasWithinLimit ==
  GasMax > 0 =>
    FoldLeft(LAMBDA sum, tx : sum + Gas(tx), 0, prep.include) <= GasMax

\* What PrepareProposal returns is within the limits and accepted.
ProposalSound == ProposalAccepted /\ GasWithinLimit

\* PrepareProposal purges a transaction only if something is wrong with it or with
\* an earlier one of its sender in the snapshot; one that is merely past what is left
\* of the block takes nothing with it.
Wrong(tx) == \/ tx \in invalid \/ SizeOver(tx.weight) \/ GasOver(Gas(tx))
             \/ tx.nonce < chainSeq[tx.sender]
PurgesOnlyWrong ==
  prep.at \in {"pack", "erase"} =>
    \A tx \in prep.refused :
      \E u \in prep.snapshot : u.sender = tx.sender /\ u.nonce <= tx.nonce /\ Wrong(u)

\* "remove invalid txs, but only if they haven't been replaced since the snapshot was
\* taken": what the purge removes is what it refused.
PurgesOnlyRefused ==
  [][PrepareErase => LET tx == Head(prep.remove)
                     IN  TxAt(tx.sender, tx.nonce) \subseteq {tx}]_nodeVars
=============================================================================

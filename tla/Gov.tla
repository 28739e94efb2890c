-------------------------------- MODULE Gov --------------------------------
(***************************************************************************)
(* The proposals of x/gov: deposits, the voting period, expedited          *)
(* proposals that fall back to regular ones, emergency proposals that are  *)
(* tallied at intervals, execution, cancellation, export and import.       *)
(*                                                                         *)
(* `store' holds the keeper's collections and the bank balances they move. *)
(* A message that returns an error is rolled back, so it is no step; an    *)
(* error of the end blocker stops the chain and is recorded in `fault'.    *)
(* Deposits are in the one denomination that the parameters accept.        *)
(* Messages in proposals are abstracted to their effect on this state.     *)
(***************************************************************************)
EXTENDS GovTally, SequencesExt, Functions, TLC

CONSTANTS Gov, CommunityPool,   \* module accounts
          Wealth,               \* balances at genesis
          Params,               \* governance parameters at genesis
          MsgLists,             \* what proposals may contain
          Speeds,               \* whether they may be expedited
          Amounts, Ballots,
          Stakings,             \* what the staking module may look like
          MaxProposals, MaxTime, MaxStep, MaxRestarts   \* bounds

VARIABLES store,
          now, prev,    \* time of this block, and of the one before
          staking,      \* the staking state a tally reads
          legacyKnown,  \* messages of kind "legacy" can still be decoded
          restarts,
          fault
vars == <<store, now, prev, staking, legacyKnown, restarts, fault>>

Ids == 1..MaxProposals
NoTime == 0
Open == {"deposit", "voting"}

(***************************************************************************)
(* Parameters.                                                             *)
(***************************************************************************)
Validate(p) ==
  /\ p.minDeposit > 0 /\ p.expeditedMinDeposit > p.minDeposit
  /\ p.emergencyMinDeposit >= p.expeditedMinDeposit
  /\ p.maxDepositPeriod > 0 /\ p.votingPeriod > 0
  /\ p.expeditedVotingPeriod \in 1..(p.votingPeriod - 1)
  /\ p.emergencyTallyInterval \in 1..(p.votingPeriod - 1)
  /\ p.quorum \in 0..Prec /\ p.vetoThreshold \in 1..Prec
  /\ p.threshold \in 1..Prec /\ p.expeditedThreshold > p.threshold
  /\ p.minInitialDepositRatio \in 0..Prec /\ p.cancelRatio \in 0..Prec

ASSUME ParamsAssumption == Validate(Params)

MinDeposit(params, p) == IF p.expedited THEN params.expeditedMinDeposit ELSE params.minDeposit

(***************************************************************************)
(* Collections.                                                            *)
(***************************************************************************)
SetProposal(s, id, p) ==
  [s EXCEPT !.prop = (id :> p) @@ @,
            !.voting = IF p.status = "voting" THEN @ \cup {id} ELSE @ \ {id}]

DeleteProposal(s, id) ==
  LET p == s.prop[id]
      out == [s EXCEPT !.inactive = @ \ {<<p.depositEnd, id>>}, !.prop = Restrict(@, DOMAIN @ \ {id})]
      ended == [out EXCEPT !.active = @ \ {<<p.end, id>>}, !.voting = @ \ {id}]
  IN IF p.end = NoTime THEN out
     ELSE IF ~p.emergency THEN ended
     ELSE [ended EXCEPT !.urgent = @ \ {<<p.nextTally, id>>}, !.emergencies = @ \ {id}]

deleteVotes(s, id) == [s EXCEPT !.votes[id] = <<>>]

\* A proposal whose messages are no longer registered does not decode.
Decodes(p) == legacyKnown \/ \A i \in DOMAIN p.msgs : p.msgs[i].kind # "legacy"
Readable(s, id) == id \in DOMAIN s.prop /\ Decodes(s.prop[id])

Move(s, from, to, n) == [s EXCEPT !.bank[from] = @ - n, !.bank[to] = @ + n]
Burn(s, n) == [s EXCEPT !.bank[Gov] = @ - n, !.burned = @ + n]

GetDeposits(s, id) == {k \in DOMAIN s.deposits : k[1] = id}
Deposited(s, keys) == MapThenSumSet(LAMBDA k : s.deposits[k], keys)
DropDeposits(s, id) == [s EXCEPT !.deposits = Restrict(@, DOMAIN @ \ GetDeposits(s, id))]


\* Both fail when the module account cannot pay.
Payable(s, id) == s.bank[Gov] >= Deposited(s, GetDeposits(s, id))
RefundAndDeleteDeposits(s, id) ==
  DropDeposits([s EXCEPT !.bank = [x \in DOMAIN @ |->
                  IF x = Gov THEN @[x] - Deposited(s, GetDeposits(s, id))
                  ELSE @[x] + Deposited(s, GetDeposits(s, id) \cap {<<id, x>>})]], id)
DeleteAndBurnDeposits(s, id) == DropDeposits(Burn(s, Deposited(s, GetDeposits(s, id))), id)

(***************************************************************************)
(* The voting period.                                                      *)
(***************************************************************************)
ActivateVotingPeriod(s, id) ==
  LET p == s.prop[id]
      end == now + (IF p.expedited THEN s.params.expeditedVotingPeriod ELSE s.params.votingPeriod)
      s1 == SetProposal(s, id, [p EXCEPT !.start = now, !.end = end, !.status = "voting"])
  IN [s1 EXCEPT !.inactive = @ \ {<<p.depositEnd, id>>}, !.active = @ \cup {<<end, id>>}]

ActivateEmergency(s, id) ==
  LET next == now + s.params.emergencyTallyInterval
      s1 == [s EXCEPT !.urgent = @ \cup {<<next, id>>}, !.emergencies = @ \cup {id}]
  IN SetProposal(s1, id, [s.prop[id] EXCEPT !.emergency = TRUE, !.nextTally = next])

MayTurnEmergency(s, id, a) ==
  LET p == s.prop[id]
  IN /\ ~p.emergency /\ p.status = "voting"
     /\ p.total >= s.params.emergencyMinDeposit
     /\ a \in s.params.submitters

(***************************************************************************)
(* Deposits.                                                               *)
(***************************************************************************)

MayDeposit(s, id, a, n) ==
  /\ Readable(s, id)
  /\ s.prop[id].status \in Open
  /\ s.params.minDepositRatio # 0 =>
       n > 0 /\ n >= TruncateInt(MinDeposit(s.params, s.prop[id]) * s.params.minDepositRatio)
  /\ s.bank[a] >= n

AddDeposit(s, id, a, n) ==
  LET p == s.prop[id]
      s1 == SetProposal(Move(s, a, Gov, n), id, [p EXCEPT !.total = @ + n])
      s2 == IF p.status = "deposit" /\ p.total + n >= MinDeposit(s.params, p)
            THEN ActivateVotingPeriod(s1, id) ELSE s1
      s3 == IF MayTurnEmergency(s2, id, a) THEN ActivateEmergency(s2, id) ELSE s2
      had == IF <<id, a>> \in DOMAIN s.deposits THEN s.deposits[<<id, a>>] ELSE 0
  IN [s3 EXCEPT !.deposits = (<<id, a>> :> had + n) @@ @]

\* The share `cancelRatio' of every deposit is burned or goes to cancelDest, the
\* rest goes back.
Charge(s, k) == TruncateInt(s.deposits[k] * s.params.cancelRatio)
ChargeDeposit(s, id) ==
  LET keys == GetDeposits(s, id)
      charges == MapThenSumSet(LAMBDA k : Charge(s, k), keys)
      back(x) == MapThenSumSet(LAMBDA k : s.deposits[k] - Charge(s, k), keys \cap {<<id, x>>})
      s1 == [s EXCEPT !.bank = [x \in DOMAIN @ |->
               IF x = Gov THEN @[x] - (Deposited(s, keys) - charges) ELSE @[x] + back(x)]]
      s2 == IF s.params.cancelDest = "burn" THEN Burn(s1, charges)
            ELSE Move(s1, Gov, s.params.cancelDest, charges)
  IN DropDeposits(s2, id)

(***************************************************************************)
(* Messages.                                                               *)
(***************************************************************************)
Message(s) ==
  /\ fault = "none"
  /\ store' = s
  /\ UNCHANGED <<now, prev, staking, legacyKnown, restarts, fault>>

NewProposal(a, msgs, expedited) ==
  [status |-> "deposit", msgs |-> msgs, proposer |-> a, expedited |-> expedited,
   emergency |-> FALSE, total |-> 0, depositEnd |-> now + store.params.maxDepositPeriod,
   start |-> NoTime, end |-> NoTime, nextTally |-> NoTime]

validateInitialDeposit(params, n, expedited) ==
  \/ params.minInitialDepositRatio = 0
  \/ n >= Chop((IF expedited THEN params.expeditedMinDeposit ELSE params.minDeposit)
                 * params.minInitialDepositRatio)

SubmitProposal(a, msgs, expedited, n) ==
  LET id == store.nextId
      p == NewProposal(a, msgs, expedited)
      s1 == SetProposal([store EXCEPT !.nextId = id + 1, !.inactive = @ \cup {<<p.depositEnd, id>>}], id, p)
  IN /\ id \in Ids
     /\ Decodes(p)
     /\ validateInitialDeposit(store.params, n, expedited)
     /\ MayDeposit(s1, id, a, n)
     /\ Message(AddDeposit(s1, id, a, n))

Deposit(id, a, n) ==
  /\ n > 0
  /\ MayDeposit(store, id, a, n)
  /\ Message(AddDeposit(store, id, a, n))

\* AddVote asks only whether the proposal is in its voting period.
Vote(id, a, ballot) ==
  /\ id \in store.voting
  /\ Message([store EXCEPT !.votes[id] = (a :> ballot) @@ @])

MayCancel(id, a) ==
  /\ Readable(store, id)
  /\ LET p == store.prop[id]
     IN /\ p.proposer = a /\ p.status \in Open
        /\ p.end = NoTime \/ p.end >= now

CancelProposal(id, a) ==
  LET charged == ChargeDeposit(store, id)
      s1 == IF store.prop[id].start # NoTime THEN deleteVotes(charged, id) ELSE charged
  IN /\ MayCancel(id, a) /\ Payable(store, id)
     /\ Message(DeleteProposal(s1, id))

ActivateEmergencyProposal(id, a) ==
  /\ Readable(store, id)
  /\ MayTurnEmergency(store, id, a)
  /\ Message(ActivateEmergency(store, id))

(***************************************************************************)
(* Messages carried by proposals, run with the authority of the module.    *)
(***************************************************************************)
Result(s, err) == [s |-> s, err |-> err]

\* "set" is MsgUpdateParams, "add" and "remove" edit the emergency submitters,
\* "spend" sends coins of the governance account, "fail" returns an error or
\* panics; "vip", "other" and "legacy" change nothing here.
Handle(s, m) ==
  CASE m.kind = "set" -> Result([s EXCEPT !.params = m.params], ~Validate(m.params))
    [] m.kind = "add" -> Result([s EXCEPT !.params.submitters = @ \cup {m.who}], FALSE)
    [] m.kind = "remove" -> Result([s EXCEPT !.params.submitters = @ \ {m.who}],
                                   m.who \notin s.params.submitters)
    [] m.kind = "spend" -> Result(Move(s, Gov, m.who, m.amount), s.bank[Gov] < m.amount)
    [] m.kind = "fail" -> Result(s, TRUE)
    [] OTHER -> Result(s, FALSE)

\* A likely slip: what ran before the failing message is kept.
ExecuteUncached(s, msgs) ==
  FoldLeft(LAMBDA r, m : IF r.err \/ Handle(r.s, m).err THEN Result(r.s, TRUE) ELSE Handle(r.s, m),
           Result(s, FALSE), msgs)

\* All messages run in a cached context that is written only if all succeed.
Execute(s, msgs) ==
  LET run == FoldLeft(LAMBDA r, m : IF r.err THEN r ELSE Handle(r.s, m), Result(s, FALSE), msgs)
  IN IF run.err THEN Result(s, TRUE) ELSE run


\* A likely slip: burning and refunding are swapped.
SettleSwapped(s, id, p, t) ==
  IF p.expedited /\ ~t.passed THEN s
  ELSE IF t.burn THEN RefundAndDeleteDeposits(s, id) ELSE DeleteAndBurnDeposits(s, id)

\* What handleTallyResult does to the deposits, unless an expedited proposal failed.
Settle(s, id, p, t) ==
  IF p.expedited /\ ~t.passed THEN s
  ELSE IF t.burn THEN DeleteAndBurnDeposits(s, id) ELSE RefundAndDeleteDeposits(s, id)

\* A likely slip: the proposal stays in the queue of the voting period.
UnqueueUrgentOnly(s, id, p) ==
  IF ~p.emergency THEN s
  ELSE [s EXCEPT !.urgent = @ \ {<<p.nextTally, id>>}, !.emergencies = @ \ {id}]

Unqueue(s, id, p) ==
  LET s1 == [s EXCEPT !.active = @ \ {<<p.end, id>>}]
  IN IF ~p.emergency THEN s1
     ELSE [s1 EXCEPT !.urgent = @ \ {<<p.nextTally, id>>}, !.emergencies = @ \ {id}]

\* A likely slip: the regular period starts anew, again and again.
ConvertForever(s, id, p, end) ==
  LET later == now + s.params.votingPeriod
  IN SetProposal([s EXCEPT !.active = @ \cup {<<later, id>>}], id, [p EXCEPT !.end = later])

\* An expedited proposal that fails goes on as a regular one.
Convert(s, id, p, end) ==
  SetProposal([s EXCEPT !.active = @ \cup {<<end, id>>}], id,
              [p EXCEPT !.expedited = FALSE, !.end = end])

\* The messages of a passed proposal have run.
Ended(ran, id, p) == SetProposal(ran.s, id, [p EXCEPT !.status = IF ran.err THEN "failed" ELSE "passed"])

\* The proposal is out of the queues and its deposits are settled.
Decide(out, id, p, t) ==
  LET q == IF p.emergency THEN [p EXCEPT !.end = p.nextTally] ELSE p
  IN CASE t.passed -> Ended(Execute(out, p.msgs), id, q)
       [] ~t.passed /\ p.expedited
            -> Convert(out, id, q, p.start + out.params.votingPeriod)
       [] OTHER -> SetProposal(out, id, [q EXCEPT !.status = "rejected"])

handleTallyResult(s, id, p, t) ==
  Result(Decide(Unqueue(Settle(s, id, p, t), id, p), id, p, t),
         ~((p.expedited /\ ~t.passed) \/ Payable(s, id)))

failUnsupportedProposal(s, id) ==
  LET p == s.prop[id]
  IN Result(RefundAndDeleteDeposits(SetProposal(s, id, [p EXCEPT !.status = "failed", !.msgs = <<>>]), id),
            ~Payable(s, id))

\* A dead proposal: its deposit period ends before it has the minimum.
Inactive(s, key) ==
  LET id == key[2]
      gone == DeleteProposal(s, id)
      unsupported == failUnsupportedProposal(s, id)
  IN IF ~Decodes(s.prop[id]) THEN Result(DeleteProposal(unsupported.s, id), unsupported.err)
     ELSE Result(IF s.params.burnPrevote THEN DeleteAndBurnDeposits(gone, id)
                 ELSE RefundAndDeleteDeposits(gone, id), ~Payable(s, id))

Active(s, key, params) ==
  LET id == key[2]
      p == s.prop[id]
      unsupported == failUnsupportedProposal(s, id)
      t == Tally(params, p, staking, s.votes[id])
  IN IF ~Decodes(p) THEN Result(Unqueue(unsupported.s, id, p), unsupported.err)
     ELSE IF p.emergency THEN Result(s, FALSE)
     ELSE handleTallyResult(deleteVotes(s, id), id, p, t)

Reschedule(s, key, next) ==
  [s EXCEPT !.urgent = (@ \cup {<<next, key[2]>>}) \ {key}, !.prop[key[2]].nextTally = next]

\* The votes go only when the outcome is final.
Urgent(s, key, params) ==
  LET id == key[2]
      p == s.prop[id]
      unsupported == failUnsupportedProposal(s, id)
      t == Tally(params, p, staking, s.votes[id])
      at == now + params.emergencyTallyInterval
      next == IF at > p.end THEN p.end ELSE at
  IN IF ~Decodes(p) THEN Result(Unqueue(unsupported.s, id, p), unsupported.err)
     ELSE IF ~t.quorum /\ p.end > now
     THEN Result(Reschedule(s, key, next), FALSE)
     ELSE handleTallyResult(deleteVotes(s, id), id, p, t)

\* A likely slip: an entry is due only after its time.
DueLate(queue) ==
  SetToSortSeq({key \in queue : key[1] < now},
               LAMBDA k, l : k[1] < l[1] \/ (k[1] = l[1] /\ k[2] < l[2]))

\* The walk over the entries of a queue that are due, in the order of their keys,
\* as they were when the walk began.  A missing proposal is an error.
Due(queue) ==
  SetToSortSeq({key \in queue : key[1] <= now},
               LAMBDA k, l : k[1] < l[1] \/ (k[1] = l[1] /\ k[2] < l[2]))
Walk(r, queue, Visit(_, _)) ==
  FoldLeft(LAMBDA acc, key : IF acc.err THEN acc
                             ELSE IF key[2] \notin DOMAIN acc.s.prop THEN Result(acc.s, TRUE)
                             ELSE Visit(acc.s, key),
           r, Due(r.s[queue]))

\* The parameters are read once, before the walks.
EndBlocker(s) ==
  LET params == s.params
      inactive == Walk(Result(s, FALSE), "inactive", Inactive)
      active == Walk(inactive, "active", LAMBDA t, key : Active(t, key, params))
  IN Walk(active, "urgent", LAMBDA t, key : Urgent(t, key, params))

BlockDue == fault = "none" /\ now < MaxTime
EndBlock ==
  LET r == EndBlocker(store)
  IN /\ BlockDue
     /\ IF r.err THEN fault' = "end block" /\ UNCHANGED <<store, now, prev>>
        ELSE /\ store' = r.s /\ prev' = now
             /\ \E d \in 1..MaxStep : now' = now + d
             /\ UNCHANGED fault
     /\ UNCHANGED <<staking, legacyKnown, restarts>>

(***************************************************************************)
(* The surroundings: stake moves, an upgrade drops a message type, the     *)
(* chain is exported and started anew.                                     *)
(***************************************************************************)
StakeMoves ==
  /\ fault = "none"
  /\ staking' \in Stakings \ {staking}
  /\ UNCHANGED <<store, now, prev, legacyKnown, restarts, fault>>

Upgrade ==
  /\ fault = "none" /\ legacyKnown
  /\ \E msgs \in MsgLists : \E i \in DOMAIN msgs : msgs[i].kind = "legacy"
  /\ legacyKnown' = FALSE
  /\ UNCHANGED <<store, now, prev, staking, restarts, fault>>

\* A likely slip: emergency proposals are imported as regular ones.
ImportNoUrgent(s) ==
  LET In(st) == {id \in DOMAIN s.prop : s.prop[id].status = st}
  IN [s EXCEPT !.inactive = {<<s.prop[id].depositEnd, id>> : id \in In("deposit")},
               !.active = {<<s.prop[id].end, id>> : id \in In("voting")},
               !.urgent = {}, !.emergencies = {}, !.voting = In("voting")]

\* Queues and indexes are not exported; they are rebuilt from the proposals.
InitGenesis(s) ==
  LET In(st) == {id \in DOMAIN s.prop : s.prop[id].status = st}
      hurried == {id \in In("voting") : s.prop[id].emergency}
  IN [s EXCEPT !.inactive = {<<s.prop[id].depositEnd, id>> : id \in In("deposit")},
               !.active = {<<s.prop[id].end, id>> : id \in In("voting")},
               !.urgent = {<<s.prop[id].nextTally, id>> : id \in hurried},
               !.emergencies = hurried,
               !.voting = In("voting")]

Restart ==
  /\ fault = "none" /\ restarts < MaxRestarts
  /\ \A id \in DOMAIN store.prop : Decodes(store.prop[id])
  /\ restarts' = restarts + 1
  /\ store' = InitGenesis(store)
  /\ fault' = IF store.bank[Gov] = Deposited(store, DOMAIN store.deposits) THEN "none" ELSE "import"
  /\ UNCHANGED <<now, prev, staking, legacyKnown>>

Init ==
  /\ store = [nextId |-> 1, params |-> Params, prop |-> <<>>, deposits |-> <<>>,
              votes |-> [id \in Ids |-> <<>>], inactive |-> {}, active |-> {}, urgent |-> {},
              voting |-> {}, emergencies |-> {}, burned |-> 0,
              bank |-> [x \in Accts \cup {Gov, CommunityPool} |-> IF x \in Accts THEN Wealth[x] ELSE 0]]
  /\ now = 1 /\ prev = 0
  /\ staking \in Stakings
  /\ legacyKnown = TRUE /\ restarts = 0 /\ fault = "none"

Next ==
  \/ \E a \in Accts, msgs \in MsgLists, e \in Speeds, n \in Amounts : SubmitProposal(a, msgs, e, n)
  \/ \E id \in Ids, a \in Accts, n \in Amounts : Deposit(id, a, n)
  \/ \E id \in Ids, a \in Accts, b \in Ballots : Vote(id, a, b)
  \/ \E id \in Ids, a \in Accts : CancelProposal(id, a) \/ ActivateEmergencyProposal(id, a)
  \/ EndBlock \/ StakeMoves \/ Upgrade \/ Restart

Spec == Init /\ [][Next]_vars

\* Blocks keep being produced: weak fairness of EndBlock, which is enabled exactly
\* when BlockDue holds.
Fairness == []<>(~BlockDue) \/ []<><<EndBlock>>_vars

(***************************************************************************)
(* Properties.                                                             *)
(***************************************************************************)
Keys == Nat \X Ids

\* Types of the collections and of every proposal.
TypeOK ==
  /\ DOMAIN store.prop \subseteq 1..(store.nextId - 1)
  /\ \A id \in DOMAIN store.prop :
       /\ store.prop[id].status \in Open \cup {"passed", "rejected", "failed"}
       /\ store.prop[id].total \in Nat
  /\ DOMAIN store.deposits \subseteq Ids \X Accts
  /\ store.inactive \cup store.active \cup store.urgent \subseteq Keys
  /\ store.voting \subseteq Ids /\ store.emergencies \subseteq Ids
  /\ \A x \in DOMAIN store.bank : store.bank[x] >= 0
  /\ fault \in {"none", "end block", "import"}

InStatus(st) == {id \in DOMAIN store.prop : store.prop[id].status = st}

\* The queues and indexes, which nothing checks against the proposals, list exactly
\* the proposals they are for, at the times these carry: each in deposit period is in
\* the inactive queue, each in voting period in the active one, each emergency under
\* its next tally time.
QueuesAgree ==
  /\ store.inactive = {<<store.prop[id].depositEnd, id>> : id \in InStatus("deposit")}
  /\ store.active = {<<store.prop[id].end, id>> : id \in InStatus("voting")}
  /\ store.voting = InStatus("voting")
  /\ store.urgent = {<<store.prop[id].nextTally, id>> : id \in store.emergencies}
  /\ \A id \in store.emergencies : id \in InStatus("voting") /\ store.prop[id].emergency

\* The module account holds exactly the deposits in store, each of them belongs to an
\* open proposal, and the total an open proposal shows is their sum: whatever order
\* deposits, conversions, cancellations and tallies come in, every deposit can be paid.
DepositsBacked ==
  /\ store.bank[Gov] = Deposited(store, DOMAIN store.deposits)
  /\ \A k \in DOMAIN store.deposits : k[1] \in InStatus("deposit") \cup InStatus("voting")
  /\ \A id \in InStatus("deposit") \cup InStatus("voting") :
       store.prop[id].total = Deposited(store, GetDeposits(store, id))

\* Votes are only held for proposals that can still be tallied, except that
\* failUnsupportedProposal leaves those of a proposal it cannot decode.
VotesOnlyOpen ==
  legacyKnown => \A id \in DOMAIN store.votes : store.votes[id] # <<>> => id \in InStatus("voting")


\* The end blocker and the import never fail.
NeverHalts == fault = "none"


\* Parameters change only together with a proposal that passes and carries the change:
\* one that fails half way leaves nothing behind (handleTallyResult: "If one of the
\* handlers fails, no state mutation is written").
ParamsOnlyByPassed ==
  store'.params # store.params =>
    \E id \in InStatus("voting") :
      /\ store'.prop[id].status = "passed"
      /\ \E i \in DOMAIN store.prop[id].msgs : store.prop[id].msgs[i].kind \in {"set", "add", "remove"}

\* A decided proposal is decided for good: it is never tallied, run or paid again.
FinalStays ==
  \A id \in DOMAIN store.prop :
    store.prop[id].status \notin Open => id \in DOMAIN store'.prop /\ store'.prop[id] = store.prop[id]

\* What an account holds and has deposited.
Held(s, a) == s.bank[a] + Deposited(s, {k \in DOMAIN s.deposits : k[2] = a})

\* Depositors lose only by the rules: a deposit is taken with a proposal that is gone
\* (cancelled, or dead with the burn flag set) or rejected, never with one that passed,
\* failed to execute, or goes on as a regular proposal.
LossOnlyByRule ==
  \A a \in Accts : Held(store', a) < Held(store, a) =>
    \E k \in DOMAIN store.deposits \ DOMAIN store'.deposits :
      /\ k[2] = a
      /\ k[1] \in DOMAIN store'.prop => store'.prop[k[1]].status = "rejected"

\* Votes are not lost while a proposal goes on: between two blocks in which it is open,
\* not converted and not cancelled, the ballots cast on it are still there.
VotesKept ==
  \A id \in InStatus("voting") :
    /\ id \in DOMAIN store'.prop
    /\ store'.prop[id].status = "voting"
    /\ store'.prop[id].end = store.prop[id].end
    => DOMAIN store.votes[id] \subseteq DOMAIN store'.votes[id]

\* A chain started from its export continues on schedule, although the export has no
\* queue: InitGenesis finds every entry again from the proposals' own times.
ImportKeepsSchedule ==
  restarts' # restarts =>
    /\ store'.inactive = store.inactive /\ store'.active = store.active
    /\ store.urgent \subseteq store'.urgent
    /\ store'.voting = store.voting /\ store.emergencies \subseteq store'.emergencies

\* No message, block or restart takes back a decision, a ballot that still counts, a
\* deposit the rules leave alone, a place in a queue or a parameter that no proposal
\* changed (handleTallyResult, the two queue walks of EndBlocker, InitGenesis).
NothingUndone ==
  [][FinalStays /\ VotesKept /\ ParamsOnlyByPassed /\ LossOnlyByRule /\ ImportKeepsSchedule]_vars

\* Every proposal that is not made an emergency is decided or gone in the end, as long
\* as blocks are produced, be it dropped, expedited, converted or regular; it must come
\* early enough for the time the instance runs.
Decided(id) ==
  id \in DOMAIN store.prop => store.prop[id].status \notin Open \/ store.prop[id].emergency
Early(id) ==
  id \in DOMAIN store.prop /\ store.prop[id].depositEnd + store.params.votingPeriod < MaxTime
EventuallyDecided == \A id \in Ids : Early(id) ~> Decided(id)

\* handleTallyResult says of a failed expedited proposal "once the regular voting
\* period expires again, the tally is repeated according to the regular proposal
\* rules": a proposal that is not expedited is never left in voting past its end.
ConvertedDecided ==
  \A id \in InStatus("voting") :
    store.prop[id].expedited \/ store.prop[id].end > prev \/ store.prop[id].nextTally > prev
=============================================================================

------------------------------ MODULE Slashing ------------------------------
(***************************************************************************)
(* x/slashing and the begin blocker of x/evidence: the signing info and    *)
(* the bitmap of missed blocks of each consensus key, downtime, double     *)
(* signing, unjailing, the parameters, export and import.                  *)
(*                                                                         *)
(* Of x/mstaking only what this module reads and calls is kept: the status *)
(* of a validator, whether it is jailed, and when its unbonding ends.  The *)
(* validator set of a block is the one of the end blocker three blocks     *)
(* before its votes are handled.  One block is one unit of time.           *)
(***************************************************************************)
EXTENDS Integers, Sequences, FiniteSets, FiniteSetsExt, SequencesExt

CONSTANTS Vals, Genesis,   \* consensus keys, those of the genesis validators
          Params,          \* parameters governance may choose among
          ChunkSize,       \* bits in one stored chunk of a bitmap
          UnbondingTime, MaxAge,
          MaxHeight, MaxCreates, MaxFaults, MaxRestarts, MaxUpdates \* bounds

ASSUME SlashingAssumption ==
  /\ ChunkSize \in Nat \ {0} /\ UnbondingTime \in Nat /\ MaxAge \in Nat
  /\ Genesis \subseteq Vals
  /\ MaxAge < UnbondingTime   \* evidence is too old once its validator may be gone
  /\ \A p \in Params : p.window \in Nat \ {0} /\ p.minPercent \in 0..100

VARIABLES height, stage,  \* stage: "begin", "evidence", "txs"
          params,
          val,            \* x/mstaking: status, jailed, and end of unbonding
          sets,           \* the bonded sets after the last three end blockers
          info,           \* signing infos
          bits, chunks,   \* set bits, and the chunks that exist in the store
          seen,           \* the latest block a key was in the set of
          hist,           \* the votes since the bitmap was last deleted, newest first
          verdict,        \* the latest downtime slash: missed, and allowed
          fault, used
vars == <<height, stage, params, val, sets, info, bits, chunks, seen, hist,
          verdict, fault, used>>

NoInfo == [start |-> -1, offset |-> 0, missed |-> 0, until |-> 0, tombstoned |-> FALSE]
NoValidator == [status |-> "none", jailed |-> FALSE, time |-> 0]
Forever == MaxHeight + 1

Window == params.window
\* A percentage of the window, rounded to the nearest block, ties to even.
MinSigned ==
  LET n == params.minPercent * Window
      q == n \div 100
      r == n % 100
  IN IF r < 50 \/ (r = 50 /\ q % 2 = 0) THEN q ELSE q + 1
MaxMissed == Window - MinSigned

(***************************************************************************)
(* Begin block: votes, and evidence.                                       *)
(***************************************************************************)
SetMissedBlockBitmapValue(s, v, i, missed) ==
  [s EXCEPT !.bits[v] = IF missed THEN @ \cup {i} ELSE @ \ {i},
            !.chunks[v] = @ \cup {i \div ChunkSize}]
DeleteMissedBlockBitmap(s, v) == [s EXCEPT !.bits[v] = {}, !.chunks[v] = {}]

\* The bitmap is one block longer than the window.
CountTooWide(s, v, missed) ==
  LET index == s.info[v].offset % (Window + 1)
      s1 == [s EXCEPT !.info[v].offset = @ + 1]
  IN IF missed = (index \in s.bits[v]) THEN s1
     ELSE [SetMissedBlockBitmapValue(s1, v, index, missed)
             EXCEPT !.info[v].missed = IF missed THEN @ + 1 ELSE @ - 1]

\* The bit of this vote, and the counter with it.
Count(s, v, missed) ==
  LET index == s.info[v].offset % Window
      s1 == [s EXCEPT !.info[v].offset = @ + 1]
  IN IF missed = (index \in s.bits[v]) THEN s1
     ELSE [SetMissedBlockBitmapValue(s1, v, index, missed)
             EXCEPT !.info[v].missed = IF missed THEN @ + 1 ELSE @ - 1]

Widest == Max({p.window : p \in Params})
Latest(h) == SubSeq(h, 1, Min({Widest, Len(h)}))
MissedIn(h) == Cardinality({i \in 1..Min({Window, Len(h)}) : h[i]})

\* Too many missed blocks: slashed, jailed, and the window starts anew.
Downtime(s, v) ==
  [DeleteMissedBlockBitmap(s, v)
     EXCEPT !.jailed = @ \cup {v}, !.hist[v] = <<>>,
            !.info[v] = [@ EXCEPT !.until = height + params.jailTime,
                                  !.missed = 0, !.offset = 0],
            !.verdict = [missed |-> MissedIn(s.hist[v]), allowed |-> MaxMissed]]

\* One missed block more than the parameters allow, or one less.
HandleStrict(s, v, missed) ==
  LET s1 == [Count(s, v, missed) EXCEPT !.hist[v] = Latest(<<missed>> \o @)]
  IN IF v \in s.jailed THEN s
     ELSE IF height > s.info[v].start + Window /\ s1.info[v].missed >= MaxMissed
          THEN Downtime(s1, v)
     ELSE s1
HandleLenient(s, v, missed) ==
  LET s1 == [Count(s, v, missed) EXCEPT !.hist[v] = Latest(<<missed>> \o @)]
  IN IF v \in s.jailed THEN s
     ELSE IF height > s.info[v].start + Window /\ s1.info[v].missed > MaxMissed + 1
          THEN Downtime(s1, v)
     ELSE s1

HandleValidatorSignature(s, v, missed) ==
  LET s1 == [Count(s, v, missed) EXCEPT !.hist[v] = Latest(<<missed>> \o @)]
  IN IF v \in s.jailed THEN s
     ELSE IF height > s.info[v].start + Window /\ s1.info[v].missed > MaxMissed
          THEN Downtime(s1, v)
     ELSE s1

Keeper == [info |-> info, bits |-> bits, chunks |-> chunks, hist |-> hist,
           verdict |-> verdict, jailed |-> {v \in Vals : val[v].jailed}]
Becomes(s) ==
  /\ info' = s.info /\ bits' = s.bits /\ chunks' = s.chunks /\ hist' = s.hist
  /\ verdict' = s.verdict
  /\ val' = [v \in Vals |-> [val[v] EXCEPT !.jailed = v \in s.jailed]]

\* The votes of the last commit; absent: those who did not sign.  A vote of a
\* validator x/mstaking no longer has is an error of the begin blocker.
BeginBlock(absent) ==
  LET voters == sets[3]
      lost == \E v \in voters : val[v].status = "none"
  IN /\ fault = "none" /\ stage = "begin"
     /\ absent \subseteq voters
     /\ stage' = "evidence"
     /\ seen' = [v \in Vals |-> IF v \in voters THEN height - 1 ELSE seen[v]]
     /\ fault' = IF lost THEN "vote" ELSE "none"
     /\ IF lost THEN UNCHANGED <<val, info, bits, chunks, hist, verdict>>
        ELSE Becomes(FoldSet(LAMBDA v, s : HandleValidatorSignature(s, v, v \in absent),
                             Keeper, voters))
     /\ UNCHANGED <<height, params, sets, used>>

Tombstoned(i) == [i EXCEPT !.until = Forever, !.tombstoned = TRUE]

\* A double sign in the latest block the key was in the set of, no older than
\* the consensus parameters allow.  Votes are handled first.
handleEquivocationEvidence(v) ==
  /\ fault = "none" /\ stage = "evidence"
  /\ used.faults < MaxFaults
  /\ seen[v] > 0 /\ height - seen[v] <= MaxAge
  /\ used' = [used EXCEPT !.faults = @ + 1]
  /\ fault' = IF val[v].status = "none" THEN "evidence"
              ELSE IF val[v].status # "unbonded" /\ info[v] = NoInfo THEN "info"
              ELSE "none"
  /\ IF val[v].status \in {"none", "unbonded"} \/ info[v].tombstoned
     THEN UNCHANGED <<val, info>>
     ELSE /\ val' = [val EXCEPT ![v].jailed = TRUE]
          /\ info' = [info EXCEPT ![v] = Tombstoned(@)]
  /\ UNCHANGED <<height, stage, params, sets, bits, chunks, seen, hist, verdict>>

(***************************************************************************)
(* Messages.                                                               *)
(***************************************************************************)
Message ==
  /\ fault = "none" /\ stage # "begin"
  /\ stage' = "txs"
  /\ UNCHANGED <<height, fault>>

\* The jail time is over, tombstoned or not.
UnjailTombstoned(v) ==
  /\ Message
  /\ val[v].status # "none" /\ val[v].jailed
  /\ val' = [val EXCEPT ![v].jailed = FALSE]
  /\ UNCHANGED <<params, sets, info, bits, chunks, seen, hist,
                 verdict, used>>

\* The self-delegation is enough; a validator that was never bonded has no info.
Unjail(v) ==
  /\ Message
  /\ val[v].status # "none" /\ val[v].jailed
  /\ info[v] # NoInfo => ~info[v].tombstoned /\ height >= info[v].until
  /\ val' = [val EXCEPT ![v].jailed = FALSE]
  /\ UNCHANGED <<params, sets, info, bits, chunks, seen, hist,
                 verdict, used>>

\* x/mstaking jails an operator who takes back the self-delegation.
SelfJail(v) ==
  /\ Message
  /\ val[v].status # "none" /\ ~val[v].jailed
  /\ used.faults < MaxFaults
  /\ used' = [used EXCEPT !.faults = @ + 1]
  /\ val' = [val EXCEPT ![v].jailed = TRUE]
  /\ UNCHANGED <<params, sets, info, bits, chunks, seen, hist,
                 verdict>>

\* The last delegation leaves an unbonded validator: x/mstaking removes it.
RemoveValidator(v) ==
  /\ Message
  /\ val[v].status = "unbonded"
  /\ val' = [val EXCEPT ![v] = NoValidator]
  /\ UNCHANGED <<params, sets, info, bits, chunks, seen, hist,
                 verdict, used>>

\* A new validator with a consensus key no validator has now.
CreateValidator(v) ==
  /\ Message
  /\ val[v].status = "none"
  /\ used.creates < MaxCreates
  /\ used' = [used EXCEPT !.creates = @ + 1]
  /\ val' = [val EXCEPT ![v].status = "unbonded"]
  /\ UNCHANGED <<params, sets, info, bits, chunks, seen, hist,
                 verdict>>

UpdateParams(p) ==
  /\ Message
  /\ used.updates < MaxUpdates
  /\ used' = [used EXCEPT !.updates = @ + 1]
  /\ params' = p
  /\ UNCHANGED <<val, sets, info, bits, chunks, seen, hist,
                 verdict>>

(***************************************************************************)
(* End block of x/mstaking, with the hook for those who enter the set.     *)
(***************************************************************************)
AfterValidatorBonded(v) ==
  IF info[v] = NoInfo THEN [NoInfo EXCEPT !.start = height]
  ELSE [info[v] EXCEPT !.start = height]

\* No unbonding time.
MovedAtOnce(v, bonded, empty) ==
  CASE v \in bonded -> [status |-> "bonded", jailed |-> FALSE, time |-> 0]
    [] v \notin bonded /\ val[v].status = "bonded" ->
         [val[v] EXCEPT !.status = "unbonding", !.time = height]
    [] val[v].status = "unbonding" /\ val[v].time <= height ->
         IF v \in empty THEN NoValidator ELSE [val[v] EXCEPT !.status = "unbonded"]
    [] OTHER -> val[v]

\* empty: validators whose delegations are all gone.
Moved(v, bonded, empty) ==
  CASE v \in bonded -> [status |-> "bonded", jailed |-> FALSE, time |-> 0]
    [] v \notin bonded /\ val[v].status = "bonded" ->
         [val[v] EXCEPT !.status = "unbonding", !.time = height + UnbondingTime]
    [] val[v].status = "unbonding" /\ val[v].time <= height ->
         IF v \in empty THEN NoValidator ELSE [val[v] EXCEPT !.status = "unbonded"]
    [] OTHER -> val[v]

EndBlock(bonded, empty) ==
  /\ fault = "none" /\ stage # "begin" /\ height < MaxHeight
  /\ \A v \in bonded : val[v].status # "none" /\ ~val[v].jailed
  /\ val' = [v \in Vals |-> Moved(v, bonded, empty)]
  /\ info' = [v \in Vals |-> IF v \in bonded /\ val[v].status # "bonded"
                             THEN AfterValidatorBonded(v) ELSE info[v]]
  /\ sets' = <<bonded, sets[1], sets[2]>>
  /\ height' = height + 1
  /\ stage' = "begin"
  /\ UNCHANGED <<params, bits, chunks, seen, hist, verdict, fault, used>>

(***************************************************************************)
(* Export and import: the chunks that exist are numbered from zero.        *)
(***************************************************************************)
ExportedIndex(v, i) ==
  Cardinality({c \in chunks[v] : c < i \div ChunkSize}) * ChunkSize + (i % ChunkSize)

Restart ==
  /\ fault = "none" /\ stage = "begin"
  /\ used.restarts < MaxRestarts
  /\ used' = [used EXCEPT !.restarts = @ + 1]
  /\ bits' = [v \in Vals |-> {ExportedIndex(v, i) : i \in bits[v]}]
  /\ chunks' = [v \in Vals |-> {ExportedIndex(v, i) \div ChunkSize : i \in bits[v]}]
  /\ UNCHANGED <<height, stage, params, val, sets, info, seen, hist, verdict, fault>>

Init ==
  /\ height = 2 /\ stage = "begin"
  /\ params \in Params
  /\ val = [v \in Vals |-> [status |-> IF v \in Genesis THEN "bonded" ELSE "none",
                            jailed |-> FALSE, time |-> 0]]
  /\ sets = <<Genesis, Genesis, Genesis>>
  /\ info = [v \in Vals |-> IF v \in Genesis THEN [NoInfo EXCEPT !.start = 0] ELSE NoInfo]
  /\ bits = [v \in Vals |-> {}] /\ chunks = [v \in Vals |-> {}]
  /\ seen = [v \in Vals |-> 0] /\ hist = [v \in Vals |-> <<>>]
  /\ verdict = [missed |-> 1, allowed |-> 0]
  /\ fault = "none"
  /\ used = [creates |-> 0, faults |-> 0, restarts |-> 0, updates |-> 0]

Next ==
  \/ \E absent \in SUBSET Vals : BeginBlock(absent)
  \/ \E v \in Vals : handleEquivocationEvidence(v)
  \/ \E v \in Vals : Unjail(v)
  \/ \E v \in Vals : SelfJail(v)
  \/ \E v \in Vals : RemoveValidator(v)
  \/ \E v \in Vals : CreateValidator(v)
  \/ \E p \in Params : UpdateParams(p)
  \/ \E bonded, empty \in SUBSET Vals : EndBlock(bonded, empty)
  \/ Restart

Spec == Init /\ [][Next]_vars

(***************************************************************************)
(* Properties.                                                             *)
(***************************************************************************)
\* Infos, bitmaps and chunks have their types; the counter never goes below
\* zero and no chunk is missing for a bit.
TypeOK ==
  /\ height \in 1..MaxHeight /\ stage \in {"begin", "evidence", "txs"}
  /\ \A v \in Vals :
       /\ info[v].start \in Int /\ info[v].offset \in Nat /\ info[v].missed \in Nat
       /\ \A i \in bits[v] : i \in Nat /\ i \div ChunkSize \in chunks[v]

\* The counter a validator is judged by is the number of bits in its bitmap,
\* through wrap-around, jailing, re-bonding, new parameters and a restart.
CounterExact == \A v \in Vals : info[v].missed = Cardinality(bits[v])

\* The window has one size, and if the chain was started from an export, the bitmap
\* one chunk: otherwise bits of other windows or at other indexes may remain.
OneWindow == used.updates = 0 /\ (used.restarts = 0 \/ Window <= ChunkSize)

\* In one window that number is the number of blocks missed among the last window's
\* votes, whenever the validator was in and out of the set.
WindowExact == OneWindow => \A v \in Vals : info[v].missed = MissedIn(hist[v])

\* The counter, the bitmap and what was really missed agree.
BitmapExact == TypeOK /\ CounterExact /\ WindowExact

\* Nobody who missed too many of the last window's blocks is left unpunished once
\* it has been in the set for a window.
DowntimeCaught ==
  \A v \in sets[3] :
    OneWindow /\ stage = "evidence" /\ ~val[v].jailed /\ height > info[v].start + Window
      => MissedIn(hist[v]) <= MaxMissed

\* "the validator has missed too many blocks, punish them": who is punished has
\* missed more of the last window's blocks than allowed.
PunishedDeserves == OneWindow => verdict.missed > verdict.allowed

\* HandleValidatorSignature punishes for downtime whom it should, and nobody else.
DowntimeJudged == DowntimeCaught /\ PunishedDeserves

\* No begin blocker meets a vote of a removed validator, evidence against one (it is
\* younger than the unbonding time), or a validator in the set without signing info.
NeverHalts == fault = "none"

\* "Once tombstoned, the validator will not be able to recover": its consensus key is
\* never in the validator set again, unless a new validator takes the key.
TombstonedStaysOut ==
  used.creates = 0 =>
    \A v \in Vals : info[v].tombstoned => val[v].jailed \/ val[v].status = "none"
=============================================================================

----------------------------- MODULE MCSlashing -----------------------------
(***************************************************************************)
(* Two small chains for model checking, explored side by side.  On the     *)
(* first, which the constants describe, one validator votes for as long as *)
(* it takes to be jailed, unjailed and judged again, for a window of one   *)
(* chunk and one of two.  On the second the window changes and a second    *)
(* validator comes.                                                        *)
(***************************************************************************)
EXTENDS Slashing
VARIABLE scenario

Half(window) == [window |-> window, minPercent |-> 50, jailTime |-> 1]
MCParams == {Half(2), Half(4)}

ChangeParams == {Half(2), Half(3)}
Change == INSTANCE Slashing WITH
  Params <- ChangeParams, UnbondingTime <- 2, MaxAge <- 1,
  MaxHeight <- 6, MaxCreates <- 1, MaxFaults <- 1, MaxRestarts <- 0, MaxUpdates <- 1

MCInit == \/ scenario = "votes" /\ Init
          \/ scenario = "change" /\ Change!Init
MCNext == \/ scenario = "votes" /\ Next /\ UNCHANGED scenario
          \/ scenario = "change" /\ Change!Next /\ UNCHANGED scenario
MCSpec == MCInit /\ [][MCNext]_<<vars, scenario>>
=============================================================================

--------------------------- MODULE EventDispatch ---------------------------
(***************************************************************************)
(* The event side of PriorityMempool (abcipp/mempool_event.go): mutations  *)
(* of the pool raise events while they hold the pool's lock, so one        *)
(* enqueueEvent runs at a time; two dispatcher goroutines drain two FIFO   *)
(* queues into two channels, each woken through a notification channel of  *)
(* capacity one.  Steps are the accesses that other goroutines can         *)
(* observe: an atomic pointer load or store, a critical section of         *)
(* eventMu, a channel operation.                                           *)
(***************************************************************************)
EXTENDS Naturals, Sequences, SequencesExt

CONSTANTS
  MaxEvents,   \* bound: how many events the pool raises
  ChanCap      \* capacity of the two consumers' channels

ASSUME BoundsAssumption ==
  /\ MaxEvents \in Nat
  /\ ChanCap \in Nat \ {0}

Side == {"comet", "app"}

\* EventTxQueued on the one hand, EventTxInserted and EventTxRemoved on the
\* other: enqueueEvent tells only these two apart.
Kind == {"queued", "pool"}

Event == [id : Nat, kind : Kind]

VARIABLES
  wiring,     \* SetEventCh / SetAppEventCh: "unset", then "stored", then "set"
  queue,      \* cometQueue / appQueue
  notify,     \* whether a token is in cometNotify / appNotify
  disp,       \* where the dispatcher of d stands
  held,       \* <<>>, or the one event the dispatcher popped and has not sent
  stop,       \* eventStop is closed
  stopper,    \* the caller of StopEventDispatch
  enq,        \* the running enqueueEvent: its step, its event, the sides it feeds
  raised,     \* how many events have been raised
  accepted,   \* history: everything ever appended to queue[d]
  delivered,  \* history: everything ever sent on d's channel
  unread      \* how many sent events d's consumer has not received yet

dispatchVars == <<disp, held, delivered, unread>>
stopVars == <<stop, stopper>>
enqVars == <<enq, raised, accepted>>
vars == <<wiring, queue, notify, dispatchVars, stopVars, enqVars>>

\* eventCh / appEventCh is not nil.
Wired(d) == wiring[d] # "unset"

Idle == [at |-> "idle", ev |-> [id |-> 0, kind |-> "pool"], sides |-> {}]

Init ==
  /\ wiring = [d \in Side |-> "unset"]
  /\ queue = [d \in Side |-> <<>>]
  /\ notify = [d \in Side |-> FALSE]
  /\ disp = [d \in Side |-> "wait"]
  /\ held = [d \in Side |-> <<>>]
  /\ stop = FALSE
  /\ stopper = "idle"
  /\ enq = Idle
  /\ raised = 0
  /\ accepted = [d \in Side |-> <<>>]
  /\ delivered = [d \in Side |-> <<>>]
  /\ unread = [d \in Side |-> 0]

-----------------------------------------------------------------------------
(* SetEventCh and SetAppEventCh: the atomic store, then a non-blocking     *)
(* send of the wake-up token.                                              *)

StoreCh(d) ==
  /\ wiring[d] = "unset"
  /\ wiring' = [wiring EXCEPT ![d] = "stored"]
  /\ UNCHANGED <<queue, notify, dispatchVars, stopVars, enqVars>>

NotifyCh(d) ==
  /\ wiring[d] = "stored"
  /\ wiring' = [wiring EXCEPT ![d] = "set"]
  /\ notify' = [notify EXCEPT ![d] = TRUE]
  /\ UNCHANGED <<queue, dispatchVars, stopVars, enqVars>>

-----------------------------------------------------------------------------
(* enqueueEvent.                                                           *)

\* The two pointer loads.  An event with no channel to go to is dropped here,
\* and EventTxQueued is not meant for the comet side.
Load(kind) ==
  LET feeds == {d \in Side : Wired(d) /\ (d = "comet" => kind # "queued")}
      any == \E d \in Side : Wired(d)
  IN  /\ enq.at = "idle"
      /\ raised < MaxEvents
      /\ raised' = raised + 1
      /\ enq' = IF any
                THEN [at |-> "append", ev |-> [id |-> raised', kind |-> kind],
                      sides |-> feeds]
                ELSE enq
      /\ UNCHANGED <<wiring, queue, notify, dispatchVars, stopVars, accepted>>

\* The critical section of eventMu.
AppendEvent ==
  /\ enq.at = "append"
  /\ ~stop
  /\ queue' = [d \in Side |-> IF d \in enq.sides THEN Append(queue[d], enq.ev)
                              ELSE queue[d]]
  /\ accepted' = [d \in Side |-> IF d \in enq.sides THEN Append(accepted[d], enq.ev)
                                 ELSE accepted[d]]
  /\ enq' = [enq EXCEPT !.at = "notify_comet"]
  /\ UNCHANGED <<wiring, notify, dispatchVars, stopVars, raised>>

\* Nothing is appended once eventStop is closed.
AppendStopped ==
  /\ enq.at = "append"
  /\ stop
  /\ enq' = Idle
  /\ UNCHANGED <<wiring, queue, notify, dispatchVars, stopVars, raised, accepted>>

\* The wake-ups, comet first: non-blocking sends on channels of capacity one.
NotifyComet ==
  /\ enq.at = "notify_comet"
  /\ notify' = [notify EXCEPT !["comet"] = @ \/ "comet" \in enq.sides]
  /\ enq' = [enq EXCEPT !.at = "notify_app"]
  /\ UNCHANGED <<wiring, queue, dispatchVars, stopVars, raised, accepted>>

NotifyApp ==
  /\ enq.at = "notify_app"
  /\ notify' = [notify EXCEPT !["app"] = @ \/ "app" \in enq.sides]
  /\ enq' = Idle
  /\ UNCHANGED <<wiring, queue, dispatchVars, stopVars, raised, accepted>>

enqueueEvent ==
  \/ \E kind \in Kind : Load(kind)
  \/ AppendEvent
  \/ AppendStopped
  \/ NotifyComet
  \/ NotifyApp

-----------------------------------------------------------------------------
(* cometDispatchLoop and appDispatchLoop, the same code on two queues.     *)

\* The outer select takes the token.
TakeToken(d) ==
  /\ disp[d] = "wait"
  /\ notify[d]
  /\ notify' = [notify EXCEPT ![d] = FALSE]
  /\ disp' = [disp EXCEPT ![d] = "load"]
  /\ UNCHANGED <<wiring, queue, held, delivered, unread, stopVars, enqVars>>

\* The channel pointer is loaded; without one the token is gone for nothing.
LoadCh(d) ==
  /\ disp[d] = "load"
  /\ disp' = [disp EXCEPT ![d] = IF Wired(d) THEN "pop" ELSE "wait"]
  /\ UNCHANGED <<wiring, queue, notify, held, delivered, unread, stopVars, enqVars>>

\* Fault: the popped event stays at the head of the queue.
Pop_Untrimmed(d) ==
  /\ disp[d] = "pop"
  /\ queue[d] # <<>>
  /\ held' = [held EXCEPT ![d] = <<Head(queue[d])>>]
  /\ disp' = [disp EXCEPT ![d] = "send"]
  /\ UNCHANGED <<wiring, queue, notify, delivered, unread, stopVars, enqVars>>

\* The critical section of eventMu: pop the oldest event, or leave the loop.
Pop(d) ==
  /\ disp[d] = "pop"
  /\ IF queue[d] = <<>>
     THEN disp' = [disp EXCEPT ![d] = "wait"] /\ UNCHANGED <<queue, held>>
     ELSE /\ held' = [held EXCEPT ![d] = <<Head(queue[d])>>]
          /\ queue' = [queue EXCEPT ![d] = Tail(@)]
          /\ disp' = [disp EXCEPT ![d] = "send"]
  /\ UNCHANGED <<wiring, notify, delivered, unread, stopVars, enqVars>>

SendThen(d, pc) ==
  /\ disp[d] = "send"
  /\ delivered' = [delivered EXCEPT ![d] = @ \o held[d]]
  /\ unread' = [unread EXCEPT ![d] = @ + 1]
  /\ held' = [held EXCEPT ![d] = <<>>]
  /\ disp' = [disp EXCEPT ![d] = pc]
  /\ UNCHANGED <<wiring, queue, notify, stopVars, enqVars>>

\* Fault: one event per token, without the inner loop.
Send_OncePerToken(d) == unread[d] < ChanCap /\ SendThen(d, "wait")

\* The inner select sends, which blocks while the channel is full.
Send(d) == unread[d] < ChanCap /\ SendThen(d, "pop")

\* Fault: only the outer select watches eventStop.
Quit_OnlyWaiting(d) ==
  /\ disp[d] = "wait"
  /\ stop
  /\ disp' = [disp EXCEPT ![d] = "done"]
  /\ UNCHANGED <<wiring, queue, notify, held, delivered, unread, stopVars, enqVars>>

\* Both selects also wait for eventStop; an event in hand is then lost.
Quit(d) ==
  /\ disp[d] \in {"wait", "send"}
  /\ stop
  /\ held' = [held EXCEPT ![d] = <<>>]
  /\ disp' = [disp EXCEPT ![d] = "done"]
  /\ UNCHANGED <<wiring, queue, notify, delivered, unread, stopVars, enqVars>>

Dispatch(d) == TakeToken(d) \/ LoadCh(d) \/ Pop(d) \/ Send(d) \/ Quit(d)

-----------------------------------------------------------------------------
(* StopEventDispatch, and the channels' consumers.                         *)

CloseStop ==
  /\ stopper = "idle"
  /\ stop' = TRUE
  /\ stopper' = "waiting"
  /\ UNCHANGED <<wiring, queue, notify, dispatchVars, enqVars>>

\* eventDone is closed once both goroutines have returned.
StopReturn ==
  /\ stopper = "waiting"
  /\ \A d \in Side : disp[d] = "done"
  /\ stopper' = "returned"
  /\ UNCHANGED <<wiring, queue, notify, dispatchVars, stop, enqVars>>

StopEventDispatch == CloseStop \/ StopReturn

\* The CometBFT reactor, or the application's own consumer, receives an event.
Receive(d) ==
  /\ unread[d] > 0
  /\ unread' = [unread EXCEPT ![d] = @ - 1]
  /\ UNCHANGED <<wiring, queue, notify, disp, held, delivered, stopVars, enqVars>>

Next ==
  \/ enqueueEvent
  \/ StopEventDispatch
  \/ \E d \in Side : StoreCh(d) \/ NotifyCh(d) \/ Dispatch(d) \/ Receive(d)

Spec == Init /\ [][Next]_vars

\* The goroutines and the callers of enqueueEvent, SetEventCh and
\* StopEventDispatch keep running.  Of the consumers only CometBFT's reactor,
\* which drains its channel in a loop, is assumed to; the application's may
\* stop receiving for good.
Fairness ==
  /\ WF_vars(enqueueEvent)
  /\ \A d \in Side : WF_vars(NotifyCh(d)) /\ WF_vars(Dispatch(d))
  /\ WF_vars(StopReturn)
  /\ WF_vars(Receive("comet"))

FairSpec == Spec /\ Fairness

-----------------------------------------------------------------------------
TypeOK ==
  /\ wiring \in [Side -> {"unset", "stored", "set"}]
  /\ queue \in [Side -> Seq(Event)]
  /\ notify \in [Side -> BOOLEAN]
  /\ disp \in [Side -> {"wait", "load", "pop", "send", "done"}]
  /\ held \in [Side -> Seq(Event)]
  /\ stop \in BOOLEAN
  /\ stopper \in {"idle", "waiting", "returned"}
  /\ enq \in [at : {"idle", "append", "notify_comet", "notify_app"},
              ev : Event, sides : SUBSET Side]
  /\ raised \in Nat
  /\ accepted \in [Side -> Seq(Event)]
  /\ delivered \in [Side -> Seq(Event)]
  /\ unread \in [Side -> 0..ChanCap]

\* A side's consumer sees what was queued for it, in that order, with nothing
\* lost, duplicated or overtaken: what was sent, what the dispatcher holds and
\* what is still queued make up everything enqueueEvent appended.  Only a
\* dispatcher that quit because of StopEventDispatch may leave events behind.
FifoNoLoss ==
  \A d \in Side :
    /\ disp[d] # "done" => delivered[d] \o held[d] \o queue[d] = accepted[d]
    /\ IsPrefix(delivered[d], accepted[d])

\* enqueueEvent has appended for d and has not sent d's wake-up token yet.
WakeupPending(d) ==
  /\ d \in enq.sides
  /\ \/ enq.at = "notify_comet"
     \/ enq.at = "notify_app" /\ d = "app"

\* The wake-up protocol loses no wake-up: while a queue is not empty and the
\* dispatchers are not stopped, the queue's dispatcher is on its way to look at
\* it, or a token waits for it, or enqueueEvent is about to leave one.
NoLostWakeup ==
  \A d \in Side :
    queue[d] # <<>> /\ ~stop =>
      disp[d] \in {"load", "pop", "send"} \/ notify[d] \/ WakeupPending(d)

\* Every event queued for CometBFT reaches its channel, unless the node stops,
\* even if the application's consumer never receives anything: the two
\* dispatchers drain separate queues.
CometDelivery ==
  \A n \in 1..MaxEvents :
    Len(accepted["comet"]) >= n ~> Len(delivered["comet"]) >= n \/ stop

\* StopEventDispatch returns, also when a dispatcher is blocked on a channel
\* nobody reads.
StopTerminates == stop ~> stopper = "returned"
=============================================================================

------------------------ MODULE EventDispatchProofs ------------------------
(***************************************************************************)
(* The wake-up protocol of EventDispatch, for any number of events and any *)
(* channel capacity.                                                       *)
(***************************************************************************)
EXTENDS EventDispatch, TLAPS

\* NoLostWakeup is not inductive alone.  A dispatcher that finds no channel
\* drops its token, so the proof needs that a queue is fed only after its
\* channel was stored, and that enqueueEvent feeds only stored channels.
WakeupInv ==
  /\ NoLostWakeup
  /\ \A d \in Side : queue[d] # <<>> => Wired(d)
  /\ \A d \in enq.sides : Wired(d)

\* The variables keep their types: in particular a dispatcher never sends more
\* than the consumer's channel holds.
THEOREM TypeCorrect == Spec => []TypeOK
<1>1. Init => TypeOK
  <2> SUFFICES ASSUME Init PROVE TypeOK
    OBVIOUS
  <2>1. stop \in BOOLEAN
    BY Zenon DEF Init
  <2>2. enq \in [at : {"idle", "append", "notify_comet", "notify_app"},
                 ev : Event, sides : SUBSET Side]
    BY DEF Init, Idle, Event, Kind
  <2> QED
    BY <2>1, <2>2, BoundsAssumption DEF Init, TypeOK
<1>2. TypeOK /\ [Next]_vars => TypeOK'
  <2> SUFFICES ASSUME TypeOK, [Next]_vars PROVE TypeOK'
    OBVIOUS
  <2> USE BoundsAssumption DEF TypeOK, dispatchVars, stopVars, enqVars
  <2>1. ASSUME NEW kind \in Kind, Load(kind) PROVE TypeOK'
    <3>1. raised' \in Nat
      BY <2>1 DEF Load
    <3>2. [id |-> raised', kind |-> kind] \in Event
      BY <3>1 DEF Event
    <3>3. enq' \in [at : {"idle", "append", "notify_comet", "notify_app"},
                    ev : Event, sides : SUBSET Side]
      BY <2>1, <3>2 DEF Load
    <3> QED
      BY <2>1, <3>1, <3>3 DEF Load
  <2>2. CASE AppendEvent
    <3>1. queue' \in [Side -> Seq(Event)] /\ accepted' \in [Side -> Seq(Event)]
      BY <2>2 DEF AppendEvent
    <3> QED
      BY <2>2, <3>1, Zenon DEF AppendEvent
  <2>2a. CASE AppendStopped
    BY <2>2a DEF AppendStopped, Idle, Event, Kind
  <2>3. CASE NotifyComet
    BY <2>3, Zenon DEF NotifyComet, Side
  <2>4. CASE NotifyApp
    BY <2>4 DEF NotifyApp, Side, Idle, Event, Kind
  <2>5. CASE StopEventDispatch
    BY <2>5, Zenon DEF StopEventDispatch, CloseStop, StopReturn
  <2>6. ASSUME NEW d \in Side, StoreCh(d) PROVE TypeOK'
    BY <2>6 DEF StoreCh
  <2>7. ASSUME NEW d \in Side, NotifyCh(d) PROVE TypeOK'
    BY <2>7 DEF NotifyCh
  <2>8. ASSUME NEW d \in Side, Receive(d) PROVE TypeOK'
    BY <2>8 DEF Receive
  <2>9. ASSUME NEW d \in Side, TakeToken(d) PROVE TypeOK'
    BY <2>9 DEF TakeToken
  <2>10. ASSUME NEW d \in Side, LoadCh(d) PROVE TypeOK'
    BY <2>10 DEF LoadCh
  <2>11. ASSUME NEW d \in Side, Quit(d) PROVE TypeOK'
    BY <2>11 DEF Quit
  <2>12. ASSUME NEW d \in Side, Pop(d) PROVE TypeOK'
    <3>1. CASE queue[d] = <<>>
      BY <2>12, <3>1, Zenon DEF Pop
    <3>2. CASE queue[d] # <<>>
      <4>1. Head(queue[d]) \in Event /\ Tail(queue[d]) \in Seq(Event)
        BY <3>2
      <4>2. <<Head(queue[d])>> \in Seq(Event)
        BY <4>1
      <4>3. /\ held' = [held EXCEPT ![d] = <<Head(queue[d])>>]
            /\ queue' = [queue EXCEPT ![d] = Tail(queue[d])]
            /\ disp' = [disp EXCEPT ![d] = "send"]
        BY <2>12, <3>2 DEF Pop
      <4> QED
        BY <2>12, <4>1, <4>2, <4>3 DEF Pop
    <3> QED
      BY <3>1, <3>2
  <2>13. ASSUME NEW d \in Side, Send(d) PROVE TypeOK'
    <3>1. delivered[d] \o held[d] \in Seq(Event)
      OBVIOUS
    <3> QED
      BY <2>13, <3>1 DEF Send, SendThen
  <2>14. CASE UNCHANGED vars
    BY <2>14 DEF vars
  <2> QED
    BY <2>1, <2>2, <2>3, <2>4, <2>5, <2>6, <2>7, <2>8, <2>9, <2>10, <2>11, <2>12,
       <2>13, <2>14, <2>2a
    DEF Next, enqueueEvent, Dispatch
<1> QED
  BY <1>1, <1>2, PTL DEF Spec

\* No wake-up is lost: whenever a queue holds an event and nobody stopped the
\* dispatchers, its dispatcher is awake, or a token waits in its notification
\* channel, or enqueueEvent is about to put one there.
THEOREM WakeupsKept == Spec => []NoLostWakeup
<1>1. Init => WakeupInv
  BY DEF Init, WakeupInv, NoLostWakeup, Idle
<1>2. TypeOK /\ WakeupInv /\ [Next]_vars => WakeupInv'
  <2> SUFFICES ASSUME TypeOK, WakeupInv, [Next]_vars PROVE WakeupInv'
    OBVIOUS
  <2> USE DEF WakeupInv, NoLostWakeup, WakeupPending, Wired, TypeOK,
              dispatchVars, stopVars, enqVars
  <2>1. ASSUME NEW kind \in Kind, Load(kind) PROVE WakeupInv'
    <3>1. \A d \in enq'.sides : Wired(d)
      BY <2>1 DEF Load
    <3>2. NoLostWakeup'
      BY <2>1 DEF Load
    <3> QED
      BY <2>1, <3>1, <3>2 DEF Load
  <2>2. CASE AppendEvent
    BY <2>2 DEF AppendEvent, Side
  <2>2a. CASE AppendStopped
    BY <2>2a DEF AppendStopped, Idle
  <2>3. CASE NotifyComet
    BY <2>3, Zenon DEF NotifyComet, Side
  <2>4. CASE NotifyApp
    BY <2>4, Zenon DEF NotifyApp, Side, Idle
  <2>5. CASE StopEventDispatch
    BY <2>5 DEF StopEventDispatch, CloseStop, StopReturn
  <2>6. ASSUME NEW d \in Side, StoreCh(d) PROVE WakeupInv'
    BY <2>6 DEF StoreCh
  <2>7. ASSUME NEW d \in Side, NotifyCh(d) PROVE WakeupInv'
    BY <2>7 DEF NotifyCh
  <2>8. ASSUME NEW d \in Side, Receive(d) PROVE WakeupInv'
    BY <2>8 DEF Receive
  <2>9. ASSUME NEW d \in Side, TakeToken(d) PROVE WakeupInv'
    BY <2>9 DEF TakeToken
  <2>10. ASSUME NEW d \in Side, LoadCh(d) PROVE WakeupInv'
    BY <2>10 DEF LoadCh
  <2>11. ASSUME NEW d \in Side, Quit(d) PROVE WakeupInv'
    BY <2>11 DEF Quit
  <2>12. ASSUME NEW d \in Side, Pop(d) PROVE WakeupInv'
    <3>1. CASE queue[d] = <<>>
      BY <2>12, <3>1, Zenon DEF Pop
    <3>2. CASE queue[d] # <<>>
      <4>1. /\ disp' = [disp EXCEPT ![d] = "send"]
            /\ queue' = [queue EXCEPT ![d] = Tail(queue[d])]
        BY <2>12, <3>2 DEF Pop
      <4> QED
        BY <2>12, <3>2, <4>1 DEF Pop
    <3> QED
      BY <3>1, <3>2
  <2>13. ASSUME NEW d \in Side, Send(d) PROVE WakeupInv'
    BY <2>13 DEF Send, SendThen
  <2>14. CASE UNCHANGED vars
    BY <2>14 DEF vars
  <2> QED
    BY <2>1, <2>2, <2>3, <2>4, <2>5, <2>6, <2>7, <2>8, <2>9, <2>10, <2>11, <2>12,
       <2>13, <2>14, <2>2a
    DEF Next, enqueueEvent, Dispatch
<1>3. WakeupInv => NoLostWakeup
  BY DEF WakeupInv
<1> QED
  BY <1>1, <1>2, <1>3, TypeCorrect, PTL DEF Spec
=============================================================================

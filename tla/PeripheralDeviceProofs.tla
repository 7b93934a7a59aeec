----------------------- MODULE PeripheralDeviceProofs -----------------------
(* Theorems about PeripheralDevice, for every set of events and handlers:  *)
(* types, notifications, the command handler; and, from what that shows of *)
(* the calls in progress, wakers, boxes and the refinement of Submissions. *)
EXTENDS PeripheralDevice, SequenceTheorems, TLAPS

-----------------------------------------------------------------------------
(* The call stack.                                                         *)

LEMMA PushFrame ==
  ASSUME stack \in Seq(Frame), NEW frame \in Frame
  PROVE  /\ Push(frame) \in Seq(Frame)
         /\ Push(frame) # <<>>
         /\ Len(Push(frame)) = Len(stack) + 1
         /\ \A i \in 1 .. Len(stack) : Push(frame)[i] = stack[i]
         /\ Push(frame)[Len(stack) + 1] = frame
BY AppendProperties DEF Push

LEMMA TopFrame ==
  ASSUME stack \in Seq(Frame), stack # <<>>
  PROVE  /\ Len(stack) \in Nat \ {0}
         /\ Top \in Frame
         /\ Caller \in Seq(Frame)
         /\ Len(Caller) = Len(stack) - 1
         /\ \A i \in 1 .. Len(stack) - 1 : Caller[i] = stack[i]
<1>1. Len(stack) \in Nat \ {0}
  BY EmptySeq
<1>2. \A i \in 1 .. Len(stack) : stack[i] \in Frame
  BY ElementOfSeq
<1>3. Top \in Frame
  BY <1>1, <1>2 DEF Top
<1> DEFINE n == Len(stack) - 1
<1>4. /\ n \in Nat /\ n \in Int /\ 1 \in Int
      /\ \A i \in 1 .. n : stack[i] \in Frame
  BY <1>1, <1>2
<1> HIDE DEF n
<1>5. /\ SubSeq(stack, 1, n) \in Seq(Frame)
      /\ Len(SubSeq(stack, 1, n)) = IF 1 <= n THEN n - 1 + 1 ELSE 0
      /\ \A i \in 1 .. n - 1 + 1 : SubSeq(stack, 1, n)[i] = stack[1 + i - 1]
  BY <1>4, SubSeqProperties
<1>6. Caller = SubSeq(stack, 1, n)
  BY DEF Caller, n
<1>7. \A i \in 1 .. n : Caller[i] = stack[i]
  BY <1>4, <1>5, <1>6
<1>8. Len(Caller) = n
  BY <1>4, <1>5, <1>6
<1> QED BY <1>1, <1>3, <1>5, <1>6, <1>7, <1>8 DEF n

LEMMA AdvanceFrame ==
  ASSUME stack \in Seq(Frame), stack # <<>>, NEW frame \in Frame
  PROVE  /\ Advance(frame) \in Seq(Frame)
         /\ Advance(frame) # <<>>
         /\ Len(Advance(frame)) = Len(stack)
         /\ Advance(frame)[Len(stack)] = frame
         /\ \A i \in 1 .. Len(stack) - 1 : Advance(frame)[i] = stack[i]
<1>1. Len(stack) \in 1 .. Len(stack) /\ Len(stack) # 0
  BY EmptySeq
<1>2. /\ Advance(frame) \in Seq(Frame)
      /\ Len(Advance(frame)) = Len(stack)
      /\ \A j \in 1 .. Len(stack) :
           Advance(frame)[j] = IF j = Len(stack) THEN frame ELSE stack[j]
  BY <1>1, ExceptSeq DEF Advance
<1>3. Advance(frame) # <<>>
  BY <1>1, <1>2, EmptySeq
<1>4. Advance(frame)[Len(stack)] = frame
  BY <1>1, <1>2
<1>5. \A i \in 1 .. Len(stack) - 1 : Advance(frame)[i] = stack[i]
  BY <1>1, <1>2
<1> QED BY <1>2, <1>3, <1>4, <1>5

(* The frames that calls push are frames.                                  *)
LEMMA FrameTypes ==
  /\ \A op \in {"refresh", "submit", "flush"}, s \in Subs \union {None},
        todo \in SUBSET Subs, accepted \in BOOLEAN :
       Waking(op, s, todo, accepted) \in Frame
  /\ \A op \in {"refresh", "set"}, phase \in {"c", "handler", "drop"},
        h \in Handlers \union {None} :
       Running(op, phase, h) \in Frame
BY DEF Waking, Running, Frame

-----------------------------------------------------------------------------
(* Type correctness.                                                       *)

USE DEF vars, controlVars, handlerVars, slotVars, queueVars

LEMMA TypeComplete ==
  ASSUME TypeOK, NEW S \in SUBSET Subs, NEW outcome \in Outcomes, Complete(S, outcome)
  PROVE  /\ status' \in [Subs -> Outcomes \union {"none"}]
         /\ frees' \in [Subs -> Nat]
         /\ waker' \in [Subs -> BOOLEAN]
         /\ held' \in SUBSET Subs
         /\ Deferred(S) \in SUBSET Subs
BY DEF Complete, Deferred, TypeOK

LEMMA TypeReclaim ==
  ASSUME TypeOK, NEW s, Reclaim(s)
  PROVE  frees' \in [Subs -> Nat]
<1>1. CASE s \in Subs
  BY <1>1 DEF Reclaim, TypeOK
<1>2. CASE s \notin Subs
  <2>1. \A t \in Subs : frees'[t] = frees[t]
    BY <1>2 DEF Reclaim, TypeOK
  <2> QED BY <2>1 DEF Reclaim, TypeOK
<1> QED BY <1>1, <1>2

(* Notifications, and the steps of a handler.                              *)
LEMMA TypeLib == ASSUME TypeOK, LibNext \/ HandlerEnds PROVE TypeOK'
<1>1. ASSUME C_Notify PROVE TypeOK'
  <2>1. CASE Len(queue) < Capacity
    <3>1. queue' = Append(queue, raised + 1) /\ dropped' = dropped
      BY <1>1, <2>1 DEF C_Notify, PushNotification
    <3>2. raised + 1 \in Nat
      BY DEF TypeOK
    <3>3. queue' \in Seq(Nat) /\ Len(queue') = Len(queue) + 1
      BY <3>1, <3>2, AppendProperties DEF TypeOK
    <3>4. Len(queue') <= Capacity
      BY <2>1, <3>3, ConstantsAssumption, LenProperties DEF TypeOK
    <3> QED BY <1>1, <3>1, <3>2, <3>3, <3>4 DEF C_Notify, PushNotification, TypeOK
  <2>2. CASE ~(Len(queue) < Capacity)
    BY <1>1, <2>2 DEF C_Notify, PushNotification, TypeOK
  <2> QED BY <2>1, <2>2
<1>2. ASSUME NEW s \in Subs, NEW outcome \in {"ok", "failed"}, C_Complete(s, outcome)
      PROVE  TypeOK'
  <2>1. /\ Complete({s}, outcome) /\ wakeups' = Deferred({s})
        /\ outcome \in Outcomes /\ {s} \in SUBSET Subs
    BY <1>2 DEF C_Complete, CompleteDeferring, Outcomes
  <2> QED BY <1>2, <2>1, TypeComplete DEF C_Complete, TypeOK
<1>3. ASSUME Command PROVE TypeOK'
  <2>1. stack # <<>> /\ Running("refresh", "handler", slot) \in Frame
    BY <1>3, FrameTypes DEF Command, Refreshing, InPhase, TypeOK
  <2>2. stack' \in Seq(Frame)
    BY <1>3, <2>1, AdvanceFrame DEF Command, TypeOK
  <2> QED BY <1>3, <2>2 DEF Command, TakeHandler, TypeOK
<1>4. ASSUME HandlerReturns PROVE TypeOK'
  <2>1. stack # <<>> /\ Top.handler \in Handlers \union {None}
    BY <1>4, TopFrame DEF HandlerReturns, InPhase, Frame, TypeOK
  <2>2. /\ Running("refresh", "drop", Top.handler) \in Frame
        /\ Running("refresh", "c", None) \in Frame
    BY <2>1, FrameTypes
  <2>3. stack' \in Seq(Frame) /\ slot' \in Handlers \union {None}
    BY <1>4, <2>1, <2>2, AdvanceFrame DEF HandlerReturns, TypeOK
  <2> QED BY <1>4, <2>3 DEF HandlerReturns, TypeOK
<1>5. ASSUME HandlerDropped PROVE TypeOK'
  <2>1. stack # <<>> /\ Running("refresh", "c", None) \in Frame
    BY <1>5, FrameTypes DEF HandlerDropped, InPhase
  <2>2. stack' \in Seq(Frame)
    BY <1>5, <2>1, AdvanceFrame, TopFrame DEF HandlerDropped, TypeOK
  <2>3. freed' \in [Handlers -> Nat]
    <3>1. freed' = [freed EXCEPT ![Top.handler] = @ + 1]
      BY <1>5 DEF HandlerDropped
    <3>2. CASE Top.handler \in Handlers
      BY <3>1, <3>2 DEF TypeOK
    <3>3. CASE Top.handler \notin Handlers
      <4>1. \A h \in Handlers : freed'[h] = freed[h]
        BY <3>1, <3>3 DEF TypeOK
      <4> QED BY <3>1, <4>1 DEF TypeOK
    <3> QED BY <3>2, <3>3
  <2> QED BY <1>5, <2>2, <2>3 DEF HandlerDropped, TypeOK
<1> QED BY <1>1, <1>2, <1>3, <1>4, <1>5 DEF LibNext, HandlerEnds

(* A call moves on, or returns.                                            *)
LEMMA TypeUnwind == ASSUME TypeOK, Unwind PROVE TypeOK'
<1>1. ASSUME NEW s \in Subs, WakeNext(s) PROVE TypeOK'
  <2>1. stack # <<>> /\ Top \in Frame
    BY <1>1, TopFrame DEF WakeNext, InPhase, TypeOK
  <2>2. [Top EXCEPT !.phase = "waker", !.todo = @ \ {s}] \in Frame
    BY <2>1 DEF Frame
  <2>3. stack' \in Seq(Frame)
    BY <1>1, <2>1, <2>2, AdvanceFrame DEF WakeNext, TypeOK
  <2> QED BY <1>1, <2>3 DEF WakeNext, TypeOK
<1>2. ASSUME WakeStream PROVE TypeOK'
  <2>1. stack # <<>> /\ Top \in Frame
    BY <1>2, TopFrame DEF WakeStream, WokeAll, InPhase, TypeOK
  <2>2. [Top EXCEPT !.phase = "stream"] \in Frame
    BY <2>1 DEF Frame
  <2>3. stack' \in Seq(Frame)
    BY <1>2, <2>1, <2>2, AdvanceFrame DEF WakeStream, TypeOK
  <2> QED BY <1>2, <2>3 DEF WakeStream, TypeOK
<1>3. ASSUME RefreshReturns PROVE TypeOK'
  <2>1. stack # <<>> /\ Waking("refresh", None, wakeups, FALSE) \in Frame
    BY <1>3, FrameTypes DEF RefreshReturns, Refreshing, InPhase, TypeOK
  <2>2. stack' \in Seq(Frame)
    BY <1>3, <2>1, AdvanceFrame DEF RefreshReturns, TypeOK
  <2> QED BY <1>3, <2>2 DEF RefreshReturns, TypeOK
<1>4. ASSUME Woken PROVE Caller \in Seq(Frame)
  BY <1>4, TopFrame DEF Woken, WokeAll, InPhase, TypeOK
<1>5. ASSUME CallReturns PROVE TypeOK'
  BY <1>4, <1>5 DEF CallReturns, TypeOK
<1>6. ASSUME SubmitReturns PROVE TypeOK'
  <2>1. stack' \in Seq(Frame)
    BY <1>4, <1>6 DEF SubmitReturns
  <2>2. CASE Top.accepted
    BY <1>6, <2>1, <2>2 DEF SubmitReturns, TypeOK
  <2>3. CASE ~Top.accepted
    <3>1. frees' \in [Subs -> Nat]
      BY <1>6, <2>3, TypeReclaim DEF SubmitReturns
    <3> QED BY <1>6, <2>1, <2>3, <3>1 DEF SubmitReturns, TypeOK
  <2> QED BY <2>2, <2>3
<1> QED BY <1>1, <1>2, <1>3, <1>5, <1>6 DEF Unwind

(* The application's operations.                                           *)
LEMMA TypeApp == ASSUME TypeOK, AppNext PROVE TypeOK'
<1>1. ASSUME NEW h \in Handlers, SetHandler(h) PROVE TypeOK'
  <2>1. Running("set", "drop", slot) \in Frame
    BY FrameTypes DEF TypeOK
  <2>2. stack' \in Seq(Frame)
    BY <1>1, <2>1, PushFrame DEF SetHandler, TypeOK
  <2> QED BY <1>1, <2>2 DEF SetHandler, TypeOK
<1>2. ASSUME RefreshBegin PROVE TypeOK'
  BY <1>2, FrameTypes, PushFrame DEF RefreshBegin, BusyEnter, TypeOK
<1>3. ASSUME NEW s \in Subs, NEW accepted \in BOOLEAN, C_Submit(s, accepted)
      PROVE  made' \in SUBSET Subs /\ held' \in SUBSET Subs
  BY <1>3 DEF C_Submit, TypeOK
<1>4. ASSUME NEW s \in Subs, NEW accepted \in BOOLEAN, Reply(s, accepted) PROVE TypeOK'
  <2>1. frees' \in [Subs -> Nat]
    BY <1>4, TypeReclaim DEF Reply, TypeOK
  <2> QED BY <1>3, <1>4, <2>1 DEF Reply, TypeOK
<1>5. ASSUME NEW s \in Subs, NEW accepted \in BOOLEAN, SubmitInCallback(s, accepted)
      PROVE  TypeOK'
  <2>1. frees' \in [Subs -> Nat]
    BY <1>5, TypeReclaim DEF SubmitInCallback, TypeOK
  <2>2. handle' \in [Subs -> {"none", "live", "dropped"}]
    BY <1>5 DEF SubmitInCallback, TypeOK
  <2> QED BY <1>3, <1>5, <2>1, <2>2 DEF SubmitInCallback, TypeOK
<1>6. ASSUME NEW s \in Subs, NEW accepted \in BOOLEAN, SubmitBegin(s, accepted)
      PROVE  TypeOK'
  <2>1. Waking("submit", s, wakeups, accepted) \in Frame
    BY FrameTypes DEF TypeOK
  <2>2. stack' \in Seq(Frame)
    BY <1>6, <2>1, PushFrame DEF SubmitBegin, TypeOK
  <2> QED BY <1>3, <1>6, <2>2 DEF SubmitBegin, TypeOK
<1>7. held \in SUBSET Subs /\ "flushed" \in Outcomes /\ "aborted" \in Outcomes
  BY DEF TypeOK, Outcomes
<1>8. ASSUME FlushInCallback PROVE TypeOK'
  <2>1. Complete(held, "flushed") /\ wakeups' = Deferred(held)
    BY <1>8 DEF FlushInCallback, CompleteDeferring
  <2> QED BY <1>7, <1>8, <2>1, TypeComplete DEF FlushInCallback, TypeOK
<1>9. ASSUME Flush PROVE TypeOK'
  <2>1. Complete(held, "flushed")
    BY <1>9 DEF Flush
  <2>2. Waking("flush", None, Deferred(held), FALSE) \in Frame
    BY <1>7, <2>1, TypeComplete, FrameTypes
  <2>3. stack' \in Seq(Frame)
    BY <1>9, <2>2, PushFrame DEF Flush, TypeOK
  <2> QED BY <1>7, <1>9, <2>1, <2>3, TypeComplete DEF Flush, TypeOK
<1>10. ASSUME NEW s \in Subs, Poll(s) \/ DropHandle(s) PROVE TypeOK'
  BY <1>10 DEF Poll, DropHandle, TypeOK
<1>11. ASSUME NextNotification PROVE TypeOK'
  <2>1. /\ Head(queue) \in Nat /\ Tail(queue) \in Seq(Nat)
        /\ Len(Tail(queue)) = Len(queue) - 1 /\ Len(queue) \in Nat
    BY <1>11, HeadTailProperties, LenProperties DEF NextNotification, TypeOK
  <2>2. /\ queue' \in Seq(Nat) /\ Len(queue') <= Capacity
        /\ popped' \in Nat /\ lastPopped' \in Nat
    BY <1>11, <2>1, ConstantsAssumption DEF NextNotification, TypeOK
  <2> QED BY <1>11, <2>2 DEF NextNotification, TypeOK
<1>12. ASSUME ParkStream PROVE TypeOK'
  BY <1>12 DEF ParkStream, TypeOK
<1>13. ASSUME DropContext PROVE TypeOK'
  <2>1. queue' \in Seq(Nat) /\ Len(queue') <= Capacity
    BY <1>13, EmptySeq, ConstantsAssumption DEF DropContext
  <2>2. /\ status' \in [Subs -> Outcomes \union {"none"}]
        /\ frees' \in [Subs -> Nat] /\ waker' \in [Subs -> BOOLEAN]
        /\ held' \in SUBSET Subs
    BY <1>7, <1>13, TypeComplete DEF DropContext
  <2>3. freed' \in [Handlers -> Nat]
    BY <1>13 DEF DropContext, TypeOK
  <2> QED BY <1>13, <2>1, <2>2, <2>3 DEF DropContext, TypeOK
<1> QED BY <1>1, <1>2, <1>4, <1>5, <1>6, <1>8, <1>9, <1>10, <1>11, <1>12, <1>13
        DEF AppNext

(* Every variable keeps its type, whatever the constants are; the queue of *)
(* notifications never outgrows its capacity (pd.rs:36, DrainQueue::push). *)
THEOREM TypeCorrect == Spec => []TypeOK
<1>1. Init => TypeOK
  <2> SUFFICES ASSUME Init PROVE TypeOK
    OBVIOUS
  <2>1. queue \in Seq(Nat) /\ Len(queue) <= Capacity /\ stack \in Seq(Frame)
    BY EmptySeq, ConstantsAssumption DEF Init
  <2> QED BY <2>1 DEF Init, TypeOK
<1>2. TypeOK /\ [Next]_vars => TypeOK'
  <2> SUFFICES ASSUME TypeOK, [Next]_vars PROVE TypeOK'
    OBVIOUS
  <2>1. CASE UNCHANGED vars
    BY <2>1 DEF TypeOK
  <2> QED BY <2>1, TypeLib, TypeUnwind, TypeApp DEF Next
<1> QED BY <1>1, <1>2, PTL DEF Spec

-----------------------------------------------------------------------------
(* Where every notification is.  No number in use is ahead of LibOSDP's.   *)
NoticeInv ==
  /\ lastPopped <= raised /\ \A i \in 1 .. Len(queue) : queue[i] <= raised
  /\ NotificationsAccountedFor

LEMMA NoticesSame ==
  ASSUME NoticeInv, UNCHANGED <<alive, queue, dropped, raised, popped, lastPopped>>
  PROVE  NoticeInv'
BY DEF NoticeInv, NotificationsAccountedFor

LEMMA NoticeTypes ==
  ASSUME TypeOK
  PROVE  /\ raised \in Nat /\ popped \in Nat /\ dropped \in Nat /\ lastPopped \in Nat
         /\ Capacity \in Nat /\ queue \in Seq(Nat) /\ Len(queue) \in Nat
         /\ \A i \in 1 .. Len(queue) : queue[i] \in Nat
BY ConstantsAssumption, LenProperties, ElementOfSeq DEF TypeOK

(* A notification is queued behind the others, or counted as dropped.      *)
LEMMA NoticePushed == ASSUME TypeOK, NoticeInv, C_Notify PROVE NoticeInv'
<1>1. /\ PushNotification /\ raised' = raised + 1
      /\ UNCHANGED <<alive, popped, lastPopped>>
  BY DEF C_Notify, PushNotification
<1>2. alive => raised = popped + Len(queue) + dropped
  BY DEF NoticeInv, NotificationsAccountedFor
<1>3. CASE Len(queue) < Capacity
  <2>1. queue' = Append(queue, raised + 1) /\ dropped' = dropped /\ raised + 1 \in Nat
    BY <1>1, <1>3, NoticeTypes DEF PushNotification
  <2>2. /\ Len(queue') = Len(queue) + 1 /\ queue'[Len(queue) + 1] = raised + 1
        /\ \A i \in 1 .. Len(queue) : queue'[i] = queue[i]
    BY <2>1, NoticeTypes, AppendProperties
  <2>3. alive' => raised' = popped' + Len(queue') + dropped'
    BY <1>1, <1>2, <2>1, <2>2, NoticeTypes
  <2>4. lastPopped' <= raised' /\ \A i \in 1 .. Len(queue') : queue'[i] <= raised'
    BY <1>1, <2>2, NoticeTypes DEF NoticeInv
  <2>5. ASSUME NEW i \in 1 .. Len(queue')
        PROVE  queue'[i] > (IF i = 1 THEN lastPopped ELSE queue'[i - 1])
    <3>1. CASE i \in 1 .. Len(queue)
      <4>1. queue[i] > (IF i = 1 THEN lastPopped ELSE queue[i - 1])
        BY <3>1 DEF NoticeInv, NotificationsAccountedFor
      <4>2. i # 1 => i - 1 \in 1 .. Len(queue)
        BY <3>1, NoticeTypes
      <4> QED BY <2>2, <3>1, <4>1, <4>2
    <3>2. CASE i = Len(queue) + 1
      <4>1. lastPopped < raised + 1
        BY NoticeTypes DEF NoticeInv
      <4>2. i # 1 => i - 1 = Len(queue) /\ Len(queue) \in 1 .. Len(queue)
        BY <3>2, NoticeTypes
      <4>3. i # 1 => queue'[i - 1] = queue[Len(queue)] /\ queue[Len(queue)] < raised + 1
        BY <2>2, <4>2, NoticeTypes DEF NoticeInv
      <4>4. queue'[i] = raised + 1
        BY <2>2, <3>2
      <4> QED BY <4>1, <4>2, <4>3, <4>4, NoticeTypes
    <3> QED BY <2>2, <3>1, <3>2, NoticeTypes
  <2>6. Len(queue') <= Capacity
    BY <1>3, <2>2, NoticeTypes
  <2>7. NotificationsAccountedFor'
    BY <1>1, <2>3, <2>5, <2>6 DEF NotificationsAccountedFor
  <2> QED BY <2>4, <2>7 DEF NoticeInv
<1>4. CASE ~(Len(queue) < Capacity)
  <2>1. dropped' = dropped + 1 /\ queue' = queue
    BY <1>1, <1>4 DEF PushNotification
  <2>2. alive' => raised' = popped' + Len(queue') + dropped'
    BY <1>1, <1>2, <2>1, NoticeTypes
  <2>3. lastPopped' <= raised' /\ \A i \in 1 .. Len(queue') : queue'[i] <= raised'
    BY <1>1, <2>1, NoticeTypes DEF NoticeInv
  <2>4. NotificationsAccountedFor'
    BY <1>1, <2>1, <2>2 DEF NoticeInv, NotificationsAccountedFor
  <2> QED BY <2>3, <2>4 DEF NoticeInv
<1> QED BY <1>3, <1>4

(* The application takes the notification at the head.                     *)
LEMMA NoticeTaken == ASSUME TypeOK, NoticeInv, NextNotification PROVE NoticeInv'
<1>1. /\ queue # <<>> /\ queue' = Tail(queue) /\ popped' = popped + 1
      /\ lastPopped' = Head(queue) /\ UNCHANGED <<alive, dropped, raised>>
  BY DEF NextNotification
<1>2. /\ Len(queue) \in Nat \ {0} /\ Len(queue') = Len(queue) - 1
      /\ Head(queue) = queue[1]
      /\ \A i \in 1 .. Len(queue) - 1 : queue'[i] = queue[i + 1]
  BY <1>1, HeadTailProperties, EmptySeq, NoticeTypes
<1>3. alive' => raised' = popped' + Len(queue') + dropped'
  <2>1. alive => raised = popped + Len(queue) + dropped
    BY DEF NoticeInv, NotificationsAccountedFor
  <2> QED BY <1>1, <1>2, <2>1, NoticeTypes
<1>4. ASSUME NEW i \in 1 .. Len(queue')
      PROVE  queue'[i] > (IF i = 1 THEN lastPopped' ELSE queue'[i - 1])
  <2>1. i \in 1 .. Len(queue) - 1 /\ i + 1 \in 1 .. Len(queue) /\ i + 1 # 1 /\ (i + 1) - 1 = i
    BY <1>2
  <2>2. queue[i + 1] > queue[i]
    BY <2>1 DEF NoticeInv, NotificationsAccountedFor
  <2>3. i # 1 => i - 1 \in 1 .. Len(queue) - 1 /\ (i - 1) + 1 = i
    BY <2>1
  <2> QED BY <1>1, <1>2, <2>1, <2>2, <2>3
<1>5. lastPopped' <= raised' /\ \A i \in 1 .. Len(queue') : queue'[i] <= raised'
  <2>1. 1 \in 1 .. Len(queue) /\ \A i \in 1 .. Len(queue) - 1 : i + 1 \in 1 .. Len(queue)
    BY <1>2
  <2> QED BY <1>1, <1>2, <2>1 DEF NoticeInv
<1>6. Len(queue') <= Capacity
  <2>1. Len(queue) <= Capacity
    BY DEF TypeOK
  <2> QED BY <1>2, <2>1, NoticeTypes
<1>7. NotificationsAccountedFor'
  BY <1>3, <1>4, <1>6 DEF NotificationsAccountedFor
<1> QED BY <1>5, <1>7 DEF NoticeInv

LEMMA NoticesInductive == ASSUME TypeOK, NoticeInv, [Next]_vars PROVE NoticeInv'
<1>1. ASSUME LibNext PROVE NoticeInv'
  <2>1. ASSUME NEW s \in Subs, NEW outcome \in {"ok", "failed"}, C_Complete(s, outcome)
        PROVE  NoticeInv'
    BY <2>1, NoticesSame DEF C_Complete
  <2>2. ASSUME Command PROVE NoticeInv'
    BY <2>2, NoticesSame DEF Command
  <2> QED BY <1>1, <2>1, <2>2, NoticePushed DEF LibNext
<1>2. ASSUME HandlerEnds \/ Unwind PROVE NoticeInv'
  BY <1>2, NoticesSame DEF HandlerEnds, HandlerReturns, HandlerDropped, Unwind, WakeNext,
     WakeStream, RefreshReturns, CallReturns, SubmitReturns
<1>3. ASSUME DropContext PROVE NoticeInv'
  <2>1. alive' = FALSE /\ queue' = <<>> /\ UNCHANGED <<raised, lastPopped>>
    BY <1>3 DEF DropContext
  <2>2. 1 .. Len(queue') = {} /\ Len(queue') <= Capacity
    BY <2>1, NoticeTypes
  <2> QED BY <2>1, <2>2 DEF NoticeInv, NotificationsAccountedFor
<1>4. ASSUME NEW s \in Subs, NEW accepted \in BOOLEAN,
             Reply(s, accepted) \/ SubmitInCallback(s, accepted) \/ SubmitBegin(s, accepted)
      PROVE  NoticeInv'
  BY <1>4, NoticesSame DEF Reply, SubmitInCallback, SubmitBegin
<1>5. ASSUME NEW s \in Subs, Poll(s) \/ DropHandle(s) PROVE NoticeInv'
  BY <1>5, NoticesSame DEF Poll, DropHandle
<1>6. ASSUME RefreshBegin \/ FlushInCallback \/ Flush \/ ParkStream PROVE NoticeInv'
  BY <1>6, NoticesSame DEF RefreshBegin, FlushInCallback, Flush, ParkStream
<1>7. ASSUME NEW h \in Handlers, SetHandler(h) PROVE NoticeInv'
  BY <1>7, NoticesSame DEF SetHandler
<1>8. CASE UNCHANGED vars
  BY <1>8, NoticesSame
<1> QED
  BY <1>1, <1>2, <1>3, <1>4, <1>5, <1>6, <1>7, <1>8, NoticeTaken DEF Next, AppNext

(* No notification is lost without being counted, none is delivered twice, *)
(* and those the application takes come in the order they were raised      *)
(* (DrainQueue, pd.rs:36).                                                 *)
THEOREM NotificationsKept == Spec => []NotificationsAccountedFor
<1>1. Init => NoticeInv
  <2> SUFFICES ASSUME Init PROVE NoticeInv
    OBVIOUS
  <2>1. Len(queue) = 0 /\ Capacity \in Nat
    BY EmptySeq, ConstantsAssumption DEF Init
  <2> QED BY <2>1 DEF Init, NoticeInv, NotificationsAccountedFor
<1>2. NoticeInv => NotificationsAccountedFor
  BY DEF NoticeInv
<1> QED BY <1>1, <1>2, NoticesInductive, TypeCorrect, PTL DEF Spec

-----------------------------------------------------------------------------
(* The command handler is never freed while it runs, it is freed once, and *)
(* the one set last is the one that answers.                               *)

(* Which calls the phases belong to, and which frames hold a handler.      *)
FramesWellFormed ==
  \A i \in 1 .. Len(stack) :
    /\ stack[i].phase \in {"c", "handler"} => stack[i].op = "refresh"
    /\ stack[i].phase = "drop" => stack[i].op \in {"refresh", "set"}
    /\ stack[i].phase \in {"handler", "drop"} => stack[i].handler \in given
    /\ stack[i].phase \notin {"handler", "drop"} => stack[i].handler = None

(* The slot holds a handler that was set; before one is, there is none.    *)
SlotGiven ==
  /\ slot \in given \union {None}
  /\ latest = None => given = {}

HandlerInv ==
  /\ FramesWellFormed
  /\ SlotGiven
  /\ NoNestedRefresh
  /\ HandlerHasOneOwner
  /\ LatestHandlerAnswers

-----------------------------------------------------------------------------
(* Steps that move no handler.                                             *)

(* The frames that hold a handler are the same.                            *)
LEMMA SameHandlers ==
  ASSUME TypeOK, HandlerInv, UNCHANGED <<alive, handlerVars>>,
         \A i \in 1 .. Len(stack') :
           stack'[i].handler # None => i \in 1 .. Len(stack) /\ stack'[i] = stack[i],
         \A i \in 1 .. Len(stack) :
           stack[i].handler # None => i \in 1 .. Len(stack') /\ stack'[i] = stack[i]
  PROVE  SlotGiven' /\ HandlerHasOneOwner' /\ LatestHandlerAnswers'
<1>1. \A h \in Handlers : h # None
  BY ConstantsAssumption
<1>2. \A h \in Handlers : OnStack(h)' <=> OnStack(h)
  BY <1>1 DEF OnStack
<1>3. HandlerHasOneOwner'
  <2>1. \A h \in Handlers :
          /\ freed'[h] = IF h \in given' /\ slot' # h /\ ~OnStack(h)' THEN 1 ELSE 0
          /\ ~(slot' = h /\ OnStack(h)')
    BY <1>2 DEF HandlerInv, HandlerHasOneOwner
  <2>2. \A i, j \in 1 .. Len(stack') :
          stack'[i].handler # None /\ stack'[i].handler = stack'[j].handler => i = j
    BY DEF HandlerInv, HandlerHasOneOwner
  <2> QED BY <2>1, <2>2 DEF HandlerHasOneOwner
<1>4. LatestHandlerAnswers'
  <2> SUFFICES ASSUME alive', slot' # latest' PROVE LatestHandlerAnswers'
    BY DEF LatestHandlerAnswers
  <2>1. PICK i \in 1 .. Len(stack) : stack[i].phase = "handler" /\ stack[i].handler = latest
    BY DEF HandlerInv, LatestHandlerAnswers
  <2>2. slot' = None /\ stack[i].handler # None
    BY <2>1 DEF HandlerInv, LatestHandlerAnswers
  <2> QED BY <2>1, <2>2 DEF LatestHandlerAnswers
<1>5. SlotGiven'
  BY DEF HandlerInv, SlotGiven
<1> QED BY <1>3, <1>4, <1>5

(* Calls and handlers are left alone.                                      *)
LEMMA HandlerQuiet ==
  ASSUME TypeOK, HandlerInv, UNCHANGED <<controlVars, handlerVars>>
  PROVE  HandlerInv'
<1>1. SlotGiven' /\ HandlerHasOneOwner' /\ LatestHandlerAnswers'
  BY SameHandlers
<1>2. FramesWellFormed' /\ NoNestedRefresh'
  BY DEF HandlerInv, FramesWellFormed, NoNestedRefresh, InRefresh
<1> QED BY <1>1, <1>2 DEF HandlerInv

(* A call begins that runs no handler.                                     *)
LEMMA HandlerPush ==
  ASSUME TypeOK, HandlerInv, UNCHANGED <<alive, handlerVars>>,
         NEW frame \in Frame, stack' = Push(frame), frame.handler = None,
         frame.phase \in {"c", "wake"},
         frame.phase = "c" => frame.op = "refresh" /\ ~busy /\ busy',
         frame.phase = "wake" => UNCHANGED busy
  PROVE  HandlerInv'
<1>1. /\ Len(stack) \in Nat /\ Len(stack') = Len(stack) + 1
      /\ \A i \in 1 .. Len(stack) : stack'[i] = stack[i]
      /\ stack'[Len(stack) + 1] = frame
  BY PushFrame, LenProperties DEF TypeOK
<1>2. \A i \in 1 .. Len(stack') : i \in 1 .. Len(stack) \/ i = Len(stack) + 1
  BY <1>1
<1>3. SlotGiven' /\ HandlerHasOneOwner' /\ LatestHandlerAnswers'
  BY <1>1, <1>2, SameHandlers
<1>4. FramesWellFormed'
  BY <1>1, <1>2 DEF HandlerInv, FramesWellFormed
<1>5. NoNestedRefresh'
  <2>0. PICK n \in Nat : n = Len(stack)
    BY <1>1
  <2>1. \A i \in 1 .. n : InRefresh(i)' <=> InRefresh(i)
    BY <1>1, <2>0 DEF InRefresh
  <2>2. \A i \in 1 .. Len(stack') : i \in 1 .. n \/ i = n + 1
    BY <1>1, <2>0
  <2>3. InRefresh(n + 1)' <=> frame.op = "refresh" /\ frame.phase = "c"
    BY <1>1, <2>0 DEF InRefresh
  <2>4. busy' <=> \E i \in 1 .. Len(stack') : InRefresh(i)'
    <3>1. n + 1 \in 1 .. Len(stack') /\ 1 .. n \subseteq 1 .. Len(stack')
      BY <1>1, <2>0
    <3>2. busy' <=> busy \/ frame.phase = "c"
      OBVIOUS
    <3>3. frame.phase = "c" <=> InRefresh(n + 1)'
      BY <2>3
    <3>4. busy <=> \E i \in 1 .. n : InRefresh(i)
      BY <2>0 DEF HandlerInv, NoNestedRefresh
    <3> QED BY <2>1, <2>2, <3>1, <3>2, <3>3, <3>4
  <2>5. ASSUME NEW i \in 1 .. Len(stack'), NEW j \in 1 .. Len(stack'),
               InRefresh(i)', InRefresh(j)'
        PROVE  i = j
    <3>1. CASE i \in 1 .. n /\ j \in 1 .. n
      BY <2>0, <2>1, <2>5, <3>1 DEF HandlerInv, NoNestedRefresh
    <3>2. CASE i = n + 1 /\ j \in 1 .. n
      BY <2>0, <2>1, <2>3, <2>5, <3>2 DEF HandlerInv, NoNestedRefresh
    <3>3. CASE j = n + 1 /\ i \in 1 .. n
      BY <2>0, <2>1, <2>3, <2>5, <3>3 DEF HandlerInv, NoNestedRefresh
    <3> QED BY <2>2, <3>1, <3>2, <3>3
  <2> QED BY <2>4, <2>5 DEF NoNestedRefresh, InRefresh
<1> QED BY <1>3, <1>4, <1>5 DEF HandlerInv

(* The innermost call moves on, and neither held nor holds a handler.      *)
LEMMA HandlerAdvance ==
  ASSUME TypeOK, HandlerInv, UNCHANGED <<alive, handlerVars>>, stack # <<>>,
         NEW frame \in Frame, stack' = Advance(frame), frame.handler = None,
         Top.phase \notin {"handler", "drop"},
         frame.phase \in {"wake", "waker", "stream"},
         busy' = IF Top.phase = "c" THEN FALSE ELSE busy
  PROVE  HandlerInv'
<1>1. /\ Len(stack) \in Nat \ {0} /\ Len(stack') = Len(stack)
      /\ \A i \in 1 .. Len(stack) - 1 : stack'[i] = stack[i]
      /\ stack'[Len(stack)] = frame /\ stack[Len(stack)] = Top
  BY TopFrame, AdvanceFrame DEF TypeOK, Top
<1>2. \A i \in 1 .. Len(stack) : i \in 1 .. Len(stack) - 1 \/ i = Len(stack)
  BY <1>1
<1>3. Len(stack) \in 1 .. Len(stack)
  BY <1>1
<1>4. Top.handler = None /\ (Top.phase = "c" => Top.op = "refresh")
  BY <1>1, <1>3 DEF HandlerInv, FramesWellFormed
<1>5. SlotGiven' /\ HandlerHasOneOwner' /\ LatestHandlerAnswers'
  BY <1>1, <1>2, <1>4, SameHandlers
<1>6. FramesWellFormed'
  BY <1>1, <1>2 DEF HandlerInv, FramesWellFormed
<1>7. NoNestedRefresh'
  <2>1. \A i \in 1 .. Len(stack) : InRefresh(i)' <=> i # Len(stack) /\ InRefresh(i)
    BY <1>1, <1>2 DEF InRefresh
  <2>2. InRefresh(Len(stack)) <=> Top.phase = "c"
    BY <1>1, <1>4 DEF InRefresh
  <2>3. busy' <=> \E i \in 1 .. Len(stack') : InRefresh(i)'
    BY <1>1, <1>3, <2>1, <2>2 DEF HandlerInv, NoNestedRefresh
  <2>4. \A i, j \in 1 .. Len(stack') : InRefresh(i)' /\ InRefresh(j)' => i = j
    BY <1>1, <2>1 DEF HandlerInv, NoNestedRefresh
  <2> QED BY <2>3, <2>4 DEF NoNestedRefresh, InRefresh
<1> QED BY <1>5, <1>6, <1>7 DEF HandlerInv

(* A call that holds no handler returns, outside LibOSDP's refresh.        *)
LEMMA HandlerReturn ==
  ASSUME TypeOK, HandlerInv, UNCHANGED <<alive, busy, handlerVars>>, stack # <<>>,
         stack' = Caller, Top.phase \in {"wake", "waker", "stream"}
  PROVE  HandlerInv'
<1>1. /\ Len(stack) \in Nat \ {0} /\ Len(stack') = Len(stack) - 1
      /\ \A i \in 1 .. Len(stack) - 1 : stack'[i] = stack[i]
      /\ stack[Len(stack)] = Top
  BY TopFrame DEF TypeOK, Top
<1>2. /\ \A i \in 1 .. Len(stack) : i \in 1 .. Len(stack') \/ i = Len(stack)
      /\ \A i \in 1 .. Len(stack') : i \in 1 .. Len(stack) /\ stack'[i] = stack[i]
      /\ Len(stack) \in 1 .. Len(stack)
  BY <1>1
<1>3. Top.handler = None
  BY <1>1, <1>2 DEF HandlerInv, FramesWellFormed
<1>4. SlotGiven' /\ HandlerHasOneOwner' /\ LatestHandlerAnswers'
  BY <1>1, <1>2, <1>3, SameHandlers
<1>5. FramesWellFormed'
  BY <1>2 DEF HandlerInv, FramesWellFormed
<1>6. NoNestedRefresh'
  <2>1. ~InRefresh(Len(stack))
    BY <1>1 DEF InRefresh
  <2>2. \A i \in 1 .. Len(stack') : InRefresh(i)' <=> InRefresh(i)
    BY <1>2 DEF InRefresh
  <2>3. busy' <=> \E i \in 1 .. Len(stack') : InRefresh(i)'
    BY <1>2, <2>1, <2>2 DEF HandlerInv, NoNestedRefresh
  <2>4. \A i, j \in 1 .. Len(stack') : InRefresh(i)' /\ InRefresh(j)' => i = j
    BY <1>2, <2>2 DEF HandlerInv, NoNestedRefresh
  <2> QED BY <2>3, <2>4 DEF NoNestedRefresh, InRefresh
<1> QED BY <1>4, <1>5, <1>6 DEF HandlerInv

-----------------------------------------------------------------------------
(* Steps that move a handler.                                              *)

(* A call around the innermost one holds h.                                *)
Below(h) == \E i \in 1 .. Len(stack) - 1 : stack[i].handler = h

(* Who holds a handler, seen from the top of the stack.                    *)
LEMMA Holders ==
  ASSUME TypeOK, HandlerInv, stack # <<>>
  PROVE  /\ \A h \in Handlers : OnStack(h) <=> h = Top.handler \/ Below(h)
         /\ Top.handler # None => ~Below(Top.handler)
         /\ Top.phase \in {"handler", "drop"} => Top.handler \in given
         /\ Top.phase \notin {"handler", "drop"} => Top.handler = None
         /\ Top.phase \in {"c", "handler"} => Top.op = "refresh"
         /\ Top.phase = "drop" => Top.op \in {"refresh", "set"}
<1>1. /\ Len(stack) \in Nat \ {0} /\ stack[Len(stack)] = Top
      /\ Len(stack) \in 1 .. Len(stack)
      /\ \A i \in 1 .. Len(stack) : i \in 1 .. Len(stack) - 1 \/ i = Len(stack)
      /\ \A i \in 1 .. Len(stack) - 1 : i \in 1 .. Len(stack) /\ i # Len(stack)
  BY TopFrame DEF TypeOK, Top
<1>2. \A h \in Handlers : OnStack(h) <=> h = Top.handler \/ Below(h)
  BY <1>1 DEF OnStack, Below
<1>3. Top.handler # None => ~Below(Top.handler)
  BY <1>1 DEF Below, HandlerInv, HandlerHasOneOwner
<1> QED BY <1>1, <1>2, <1>3 DEF HandlerInv, FramesWellFormed

(* The callback of LibOSDP's refresh goes on, with another handler.        *)
LEMMA CallbackStep ==
  ASSUME TypeOK, HandlerInv, stack # <<>>, UNCHANGED <<busy, given>>,
         NEW frame \in Frame, stack' = Advance(frame),
         frame.op = "refresh", Top.op = "refresh",
         frame.phase \in {"c", "handler", "drop"},
         Top.phase \in {"c", "handler", "drop"},
         frame.phase = "c" => frame.handler = None,
         frame.phase # "c" => frame.handler \in given /\ ~Below(frame.handler)
  PROVE  /\ FramesWellFormed' /\ NoNestedRefresh'
         /\ \A h \in Handlers : OnStack(h)' <=> h = frame.handler \/ Below(h)
         /\ \A i, j \in 1 .. Len(stack') :
              stack'[i].handler # None /\ stack'[i].handler = stack'[j].handler => i = j
         /\ \E i \in 1 .. Len(stack') : stack'[i] = frame
         /\ \A i \in 1 .. Len(stack) - 1 : stack[i].phase # "handler"
<1>1. PICK n \in Nat \ {0} : n = Len(stack)
  BY TopFrame DEF TypeOK
<1>2. /\ Len(stack') = n /\ stack'[n] = frame /\ stack[n] = Top
      /\ \A i \in 1 .. n - 1 : stack'[i] = stack[i]
      /\ \A i \in 1 .. n : i \in 1 .. n - 1 \/ i = n
      /\ \A i \in 1 .. n - 1 : i \in 1 .. n /\ i # n
      /\ n \in 1 .. n
  BY <1>1, AdvanceFrame DEF TypeOK, Top
<1>3. FramesWellFormed'
  BY <1>1, <1>2 DEF HandlerInv, FramesWellFormed
<1>4. \A i \in 1 .. n : InRefresh(i)' <=> InRefresh(i)
  BY <1>2 DEF InRefresh
<1>5. NoNestedRefresh'
  BY <1>1, <1>2, <1>4 DEF HandlerInv, NoNestedRefresh
<1>6. \A h \in Handlers : OnStack(h)' <=> h = frame.handler \/ Below(h)
  BY <1>1, <1>2 DEF OnStack, Below
<1>7. ASSUME NEW i \in 1 .. n, NEW j \in 1 .. n,
             stack'[i].handler # None, stack'[i].handler = stack'[j].handler
      PROVE  i = j
  <2>1. CASE i \in 1 .. n - 1 /\ j \in 1 .. n - 1
    BY <1>1, <1>2, <1>7, <2>1 DEF HandlerInv, HandlerHasOneOwner
  <2>2. CASE i = n /\ j \in 1 .. n - 1
    BY <1>1, <1>2, <1>7, <2>2 DEF Below
  <2>3. CASE j = n /\ i \in 1 .. n - 1
    BY <1>1, <1>2, <1>7, <2>3 DEF Below
  <2> QED BY <1>2, <2>1, <2>2, <2>3
<1>8. \A i \in 1 .. n - 1 : stack[i].phase # "handler"
  <2>1. InRefresh(n)
    BY <1>2 DEF InRefresh
  <2>2. \A i \in 1 .. n - 1 : ~InRefresh(i)
    BY <1>1, <1>2, <2>1 DEF HandlerInv, NoNestedRefresh
  <2> QED BY <1>1, <1>2, <2>2 DEF HandlerInv, FramesWellFormed, InRefresh
<1> QED BY <1>1, <1>2, <1>3, <1>5, <1>6, <1>7, <1>8

(* A command is handed to the handler in the slot.                         *)
LEMMA HandlerTaken == ASSUME TypeOK, HandlerInv, Command PROVE HandlerInv'
<1>1. /\ stack # <<>> /\ Top.phase = "c" /\ slot # None /\ slot' = None
      /\ UNCHANGED <<alive, busy, given, latest, freed>>
      /\ stack' = Advance(Running("refresh", "handler", slot))
  BY DEF Command, TakeHandler, Refreshing, InPhase
<1>2. slot \in given /\ slot \in Handlers /\ given \subseteq Handlers
  BY <1>1 DEF HandlerInv, SlotGiven, TypeOK
<1>3. Top.handler = None /\ Top.op = "refresh" /\ ~Below(slot) /\ ~OnStack(slot)
  BY <1>1, <1>2, Holders DEF HandlerInv, HandlerHasOneOwner
<1> DEFINE frame == Running("refresh", "handler", slot)
<1>4. /\ frame \in Frame /\ frame.op = "refresh" /\ frame.phase = "handler"
      /\ frame.handler = slot
  BY <1>2, FrameTypes DEF Running
<1> HIDE DEF frame
<1>5. /\ FramesWellFormed' /\ NoNestedRefresh'
      /\ \A h \in Handlers : OnStack(h)' <=> h = slot \/ Below(h)
      /\ \A i, j \in 1 .. Len(stack') :
           stack'[i].handler # None /\ stack'[i].handler = stack'[j].handler => i = j
      /\ \E i \in 1 .. Len(stack') : stack'[i] = frame
  BY <1>1, <1>2, <1>3, <1>4, CallbackStep DEF frame
<1>6. \A h \in Handlers : OnStack(h)' <=> h = slot \/ OnStack(h)
  BY <1>1, <1>3, <1>5, Holders, ConstantsAssumption
<1>7. HandlerHasOneOwner'
  <2>1. \A h \in Handlers :
          /\ freed'[h] = IF h \in given' /\ slot' # h /\ ~OnStack(h)' THEN 1 ELSE 0
          /\ ~(slot' = h /\ OnStack(h)')
    BY <1>1, <1>2, <1>3, <1>6, ConstantsAssumption DEF HandlerInv, HandlerHasOneOwner
  <2> QED BY <1>5, <2>1 DEF HandlerHasOneOwner
<1>8. SlotGiven'
  BY <1>1 DEF HandlerInv, SlotGiven
<1>9. LatestHandlerAnswers'
  BY <1>1, <1>4, <1>5 DEF HandlerInv, LatestHandlerAnswers
<1> QED BY <1>5, <1>7, <1>8, <1>9 DEF HandlerInv

(* The handler returns, to its slot or to be dropped.                      *)
LEMMA HandlerPutBack == ASSUME TypeOK, HandlerInv, HandlerReturns PROVE HandlerInv'
<1>1. /\ stack # <<>> /\ Top.phase = "handler"
      /\ UNCHANGED <<alive, busy, given, latest, freed>>
  BY DEF HandlerReturns, InPhase
<1>2. /\ Top.handler \in given /\ Top.handler \in Handlers /\ Top.op = "refresh"
      /\ ~Below(Top.handler) /\ Top.handler # None
      /\ \A h \in Handlers : OnStack(h) <=> h = Top.handler \/ Below(h)
  BY <1>1, Holders, ConstantsAssumption DEF TypeOK
<1>3. CASE slot = None
  <2>1. slot' = Top.handler /\ stack' = Advance(Running("refresh", "c", None))
    BY <1>3 DEF HandlerReturns
  <2> DEFINE frame == Running("refresh", "c", None)
  <2>2. /\ frame \in Frame /\ frame.op = "refresh" /\ frame.phase = "c"
        /\ frame.handler = None
    BY FrameTypes DEF Running
  <2> HIDE DEF frame
  <2>3. /\ FramesWellFormed' /\ NoNestedRefresh'
        /\ \A h \in Handlers : OnStack(h)' <=> h = None \/ Below(h)
        /\ \A i, j \in 1 .. Len(stack') :
             stack'[i].handler # None /\ stack'[i].handler = stack'[j].handler => i = j
        /\ \A i \in 1 .. Len(stack) - 1 : stack[i].phase # "handler"
    BY <1>1, <1>2, <2>1, <2>2, CallbackStep DEF frame
  <2>4. \A h \in Handlers : OnStack(h)' <=> OnStack(h) /\ h # Top.handler
    BY <1>2, <2>3, ConstantsAssumption
  <2>5. HandlerHasOneOwner'
    <3>1. ASSUME NEW h \in Handlers
          PROVE  /\ freed'[h] = IF h \in given' /\ slot' # h /\ ~OnStack(h)' THEN 1 ELSE 0
                 /\ ~(slot' = h /\ OnStack(h)')
      BY <1>1, <1>2, <1>3, <2>1, <2>4, ConstantsAssumption
         DEF HandlerInv, HandlerHasOneOwner
    <3> QED BY <2>3, <3>1 DEF HandlerHasOneOwner
  <2>6. LatestHandlerAnswers'
    <3> SUFFICES ASSUME alive PROVE slot' = latest'
      BY <1>1 DEF LatestHandlerAnswers
    <3>1. latest # None
      BY <1>2 DEF HandlerInv, SlotGiven
    <3>2. PICK i \in 1 .. Len(stack) : stack[i].phase = "handler" /\ stack[i].handler = latest
      BY <1>3, <3>1 DEF HandlerInv, LatestHandlerAnswers
    <3>3. i = Len(stack)
      BY <1>1, <2>3, <3>2, TopFrame DEF TypeOK
    <3> QED BY <1>1, <2>1, <3>2, <3>3 DEF Top
  <2>7. SlotGiven'
    BY <1>1, <1>2, <2>1 DEF HandlerInv, SlotGiven
  <2> QED BY <2>3, <2>5, <2>6, <2>7 DEF HandlerInv
<1>4. CASE slot # None
  <2>1. slot' = slot /\ stack' = Advance(Running("refresh", "drop", Top.handler))
    BY <1>4 DEF HandlerReturns
  <2> DEFINE frame == Running("refresh", "drop", Top.handler)
  <2>2. /\ frame \in Frame /\ frame.op = "refresh" /\ frame.phase = "drop"
        /\ frame.handler = Top.handler
    BY <1>2, FrameTypes DEF Running
  <2> HIDE DEF frame
  <2>3. /\ FramesWellFormed' /\ NoNestedRefresh'
        /\ \A h \in Handlers : OnStack(h)' <=> h = Top.handler \/ Below(h)
        /\ \A i, j \in 1 .. Len(stack') :
             stack'[i].handler # None /\ stack'[i].handler = stack'[j].handler => i = j
    BY <1>1, <1>2, <2>1, <2>2, CallbackStep DEF frame
  <2>4. \A h \in Handlers : OnStack(h)' <=> OnStack(h)
    BY <1>2, <2>3
  <2>5. HandlerHasOneOwner'
    <3>1. ASSUME NEW h \in Handlers
          PROVE  /\ freed'[h] = IF h \in given' /\ slot' # h /\ ~OnStack(h)' THEN 1 ELSE 0
                 /\ ~(slot' = h /\ OnStack(h)')
      BY <1>1, <2>1, <2>4 DEF HandlerInv, HandlerHasOneOwner
    <3> QED BY <2>3, <3>1 DEF HandlerHasOneOwner
  <2>6. LatestHandlerAnswers' /\ SlotGiven'
    BY <1>1, <1>4, <2>1 DEF HandlerInv, LatestHandlerAnswers, SlotGiven
  <2> QED BY <2>3, <2>5, <2>6 DEF HandlerInv
<1> QED BY <1>3, <1>4

(* The destructor of a replaced handler returns.                           *)
LEMMA HandlerIsFreed == ASSUME TypeOK, HandlerInv, HandlerDropped PROVE HandlerInv'
<1>1. /\ stack # <<>> /\ Top.phase = "drop"
      /\ freed' = [freed EXCEPT ![Top.handler] = @ + 1]
      /\ UNCHANGED <<alive, busy, slot, given, latest>>
  BY DEF HandlerDropped, InPhase
<1>2. /\ Top.handler \in given /\ Top.handler \in Handlers /\ Top.handler # None
      /\ Top.op \in {"refresh", "set"} /\ ~Below(Top.handler)
      /\ \A h \in Handlers : OnStack(h) <=> h = Top.handler \/ Below(h)
  BY <1>1, Holders, ConstantsAssumption DEF TypeOK
<1>3. ASSUME \A h \in Handlers : OnStack(h)' <=> Below(h),
             \A i, j \in 1 .. Len(stack') :
               stack'[i].handler # None /\ stack'[i].handler = stack'[j].handler => i = j
      PROVE  HandlerHasOneOwner'
  <2>1. \A h \in Handlers : OnStack(h)' <=> OnStack(h) /\ h # Top.handler
    BY <1>2, <1>3
  <2>2. ASSUME NEW h \in Handlers, h # Top.handler
        PROVE  /\ freed'[h] = IF h \in given' /\ slot' # h /\ ~OnStack(h)' THEN 1 ELSE 0
               /\ ~(slot' = h /\ OnStack(h)')
    BY <1>1, <2>1, <2>2 DEF HandlerInv, HandlerHasOneOwner, TypeOK
  <2>3. OnStack(Top.handler)
    BY <1>2
  <2>4. slot # Top.handler /\ freed[Top.handler] = 0
    BY <1>2, <2>3 DEF HandlerInv, HandlerHasOneOwner
  <2>5. freed'[Top.handler] = 1
    BY <1>1, <1>2, <2>4 DEF TypeOK
  <2>6. ASSUME NEW h \in Handlers, h = Top.handler
        PROVE  /\ freed'[h] = IF h \in given' /\ slot' # h /\ ~OnStack(h)' THEN 1 ELSE 0
               /\ ~(slot' = h /\ OnStack(h)')
    BY <1>1, <1>2, <2>1, <2>4, <2>5, <2>6
  <2> QED BY <1>3, <2>2, <2>6 DEF HandlerHasOneOwner
<1>4. SlotGiven'
  BY <1>1 DEF HandlerInv, SlotGiven
<1>5. PICK n \in Nat \ {0} : n = Len(stack)
  BY <1>1, TopFrame DEF TypeOK
<1>6. stack[n] = Top /\ \A i \in 1 .. n : i \in 1 .. n - 1 \/ i = n
  BY <1>5 DEF Top
<1>7. CASE Top.op = "refresh"
  <2>1. stack' = Advance(Running("refresh", "c", None))
    BY <1>7 DEF HandlerDropped
  <2> DEFINE frame == Running("refresh", "c", None)
  <2>2. /\ frame \in Frame /\ frame.op = "refresh" /\ frame.phase = "c"
        /\ frame.handler = None
    BY FrameTypes DEF Running
  <2> HIDE DEF frame
  <2>3. /\ FramesWellFormed' /\ NoNestedRefresh'
        /\ \A h \in Handlers : OnStack(h)' <=> h = None \/ Below(h)
        /\ \A i, j \in 1 .. Len(stack') :
             stack'[i].handler # None /\ stack'[i].handler = stack'[j].handler => i = j
        /\ \A i \in 1 .. Len(stack) - 1 : stack[i].phase # "handler"
    BY <1>1, <1>7, <2>1, <2>2, CallbackStep DEF frame
  <2>4. HandlerHasOneOwner'
    BY <1>3, <2>3, ConstantsAssumption
  <2>5. LatestHandlerAnswers'
    <3>1. \A i \in 1 .. Len(stack) : stack[i].phase # "handler"
      BY <1>1, <1>5, <1>6, <2>3
    <3> QED BY <1>1, <3>1 DEF HandlerInv, LatestHandlerAnswers
  <2> QED BY <1>4, <2>3, <2>4, <2>5 DEF HandlerInv
<1>8. CASE Top.op = "set"
  <2>1. /\ Len(stack') = n - 1 /\ \A i \in 1 .. n - 1 : stack'[i] = stack[i]
        /\ \A i \in 1 .. n - 1 : i \in 1 .. n
    BY <1>1, <1>5, <1>8, TopFrame DEF HandlerDropped, TypeOK
  <2>2. FramesWellFormed'
    BY <1>1, <1>5, <2>1 DEF HandlerInv, FramesWellFormed
  <2>3. NoNestedRefresh'
    <3>1. ~InRefresh(n)
      BY <1>6, <1>8 DEF InRefresh
    <3>2. \A i \in 1 .. n - 1 : InRefresh(i)' <=> InRefresh(i)
      BY <2>1 DEF InRefresh
    <3>3. busy' <=> \E i \in 1 .. Len(stack') : InRefresh(i)'
      BY <1>1, <1>5, <1>6, <2>1, <3>1, <3>2 DEF HandlerInv, NoNestedRefresh
    <3>4. \A i, j \in 1 .. Len(stack') : InRefresh(i)' /\ InRefresh(j)' => i = j
      BY <1>5, <2>1, <3>2 DEF HandlerInv, NoNestedRefresh
    <3> QED BY <3>3, <3>4 DEF NoNestedRefresh, InRefresh
  <2>4. \A h \in Handlers : OnStack(h)' <=> Below(h)
    BY <1>5, <2>1 DEF OnStack, Below
  <2>5. HandlerHasOneOwner'
    <3>1. \A i, j \in 1 .. Len(stack') :
            stack'[i].handler # None /\ stack'[i].handler = stack'[j].handler => i = j
      BY <1>5, <2>1 DEF HandlerInv, HandlerHasOneOwner
    <3> QED BY <1>3, <2>4, <3>1
  <2>6. LatestHandlerAnswers'
    <3>1. \A i \in 1 .. Len(stack) : stack[i].phase = "handler" =>
            i \in 1 .. Len(stack') /\ stack'[i] = stack[i]
      BY <1>1, <1>5, <1>6, <2>1
    <3> QED BY <1>1, <3>1 DEF HandlerInv, LatestHandlerAnswers
  <2> QED BY <1>4, <2>2, <2>3, <2>5, <2>6 DEF HandlerInv
<1> QED BY <1>2, <1>7, <1>8

(* The application sets a handler; the one it replaces is dropped at once, *)
(* unless the slot is empty because that one is running.                   *)
LEMMA HandlerIsSet ==
  ASSUME TypeOK, HandlerInv, NEW h \in Handlers, SetHandler(h)
  PROVE  HandlerInv'
<1>1. /\ alive /\ h \notin given /\ slot' = h /\ latest' = h
      /\ given' = given \union {h}
      /\ UNCHANGED <<alive, busy, freed>>
  BY DEF SetHandler, AppRuns
<1>2. h # None /\ slot # h /\ ~OnStack(h)
  <2>1. \A i \in 1 .. Len(stack) : stack[i].handler \in given \union {None}
    BY DEF HandlerInv, FramesWellFormed
  <2> QED BY <1>1, <2>1, ConstantsAssumption DEF OnStack, HandlerInv, SlotGiven
<1>3. freed[h] = 0
  BY <1>1 DEF HandlerInv, HandlerHasOneOwner
<1>4. LatestHandlerAnswers' /\ SlotGiven'
  BY <1>1, <1>2 DEF LatestHandlerAnswers, SlotGiven
<1>5. CASE slot = None
  <2>1. stack' = stack
    BY <1>5 DEF SetHandler
  <2>2. FramesWellFormed' /\ NoNestedRefresh'
    BY <1>1, <2>1 DEF HandlerInv, FramesWellFormed, NoNestedRefresh, InRefresh
  <2>3. ASSUME NEW g \in Handlers
        PROVE  /\ freed'[g] = IF g \in given' /\ slot' # g /\ ~OnStack(g)' THEN 1 ELSE 0
               /\ ~(slot' = g /\ OnStack(g)')
    <3>1. OnStack(g)' <=> OnStack(g)
      BY <2>1 DEF OnStack
    <3>2. CASE g = h
      BY <1>1, <1>2, <1>3, <3>1, <3>2
    <3>3. CASE g # h
      BY <1>1, <1>5, <3>1, <3>3, ConstantsAssumption DEF HandlerInv, HandlerHasOneOwner
    <3> QED BY <3>2, <3>3
  <2>4. HandlerHasOneOwner'
    BY <2>1, <2>3 DEF HandlerInv, HandlerHasOneOwner
  <2> QED BY <1>4, <2>2, <2>4 DEF HandlerInv
<1>6. CASE slot # None
  <2> DEFINE frame == Running("set", "drop", slot)
  <2>1. stack' = Push(frame)
    BY <1>6 DEF SetHandler
  <2>2. slot \in given /\ slot \in Handlers /\ ~OnStack(slot)
    BY <1>6 DEF HandlerInv, SlotGiven, HandlerHasOneOwner, TypeOK
  <2>3. /\ frame \in Frame /\ frame.op = "set" /\ frame.phase = "drop"
        /\ frame.handler = slot
    BY <2>2, FrameTypes DEF Running
  <2> HIDE DEF frame
  <2>4. PICK n \in Nat : n = Len(stack)
    BY LenProperties DEF TypeOK
  <2>5. /\ Len(stack') = n + 1 /\ stack'[n + 1] = frame
        /\ \A i \in 1 .. n : stack'[i] = stack[i]
        /\ \A i \in 1 .. n + 1 : i \in 1 .. n \/ i = n + 1
        /\ \A i \in 1 .. n : i \in 1 .. n + 1 /\ i # n + 1
        /\ n + 1 \in 1 .. n + 1
    BY <2>1, <2>3, <2>4, PushFrame DEF TypeOK
  <2>6. FramesWellFormed'
    BY <1>1, <2>2, <2>3, <2>4, <2>5 DEF HandlerInv, FramesWellFormed
  <2>7. NoNestedRefresh'
    <3>1. ~InRefresh(n + 1)'
      BY <2>3, <2>5 DEF InRefresh
    <3>2. \A i \in 1 .. n : InRefresh(i)' <=> InRefresh(i)
      BY <2>5 DEF InRefresh
    <3>3. busy' <=> \E i \in 1 .. Len(stack') : InRefresh(i)'
      BY <1>1, <2>4, <2>5, <3>1, <3>2 DEF HandlerInv, NoNestedRefresh
    <3>4. \A i, j \in 1 .. Len(stack') : InRefresh(i)' /\ InRefresh(j)' => i = j
      BY <2>4, <2>5, <3>1, <3>2 DEF HandlerInv, NoNestedRefresh
    <3> QED BY <3>3, <3>4 DEF NoNestedRefresh, InRefresh
  <2>8. \A g \in Handlers : OnStack(g)' <=> g = slot \/ OnStack(g)
    BY <2>3, <2>4, <2>5 DEF OnStack
  <2>9. ASSUME NEW g \in Handlers
        PROVE  /\ freed'[g] = IF g \in given' /\ slot' # g /\ ~OnStack(g)' THEN 1 ELSE 0
               /\ ~(slot' = g /\ OnStack(g)')
    <3>1. CASE g = h
      BY <1>1, <1>2, <1>3, <2>8, <3>1
    <3>2. CASE g # h
      BY <1>1, <2>8, <3>2 DEF HandlerInv, HandlerHasOneOwner
    <3> QED BY <3>1, <3>2
  <2>10. ASSUME NEW i \in 1 .. n + 1, NEW j \in 1 .. n + 1,
                stack'[i].handler # None, stack'[i].handler = stack'[j].handler
         PROVE  i = j
    <3>1. \A k \in 1 .. n : stack[k].handler # slot
      BY <2>2, <2>4 DEF OnStack
    <3>2. CASE i \in 1 .. n /\ j \in 1 .. n
      BY <2>4, <2>5, <2>10, <3>2 DEF HandlerInv, HandlerHasOneOwner
    <3>3. CASE i = n + 1 /\ j \in 1 .. n
      BY <2>3, <2>5, <2>10, <3>1, <3>3
    <3>4. CASE j = n + 1 /\ i \in 1 .. n
      BY <2>3, <2>5, <2>10, <3>1, <3>4
    <3> QED BY <2>5, <3>2, <3>3, <3>4
  <2>11. HandlerHasOneOwner'
    BY <2>5, <2>9, <2>10 DEF HandlerHasOneOwner
  <2> QED BY <1>4, <2>6, <2>7, <2>11 DEF HandlerInv
<1> QED BY <1>5, <1>6

(* The context is dropped, and with it the handler in its slot.            *)
LEMMA HandlerDies == ASSUME TypeOK, HandlerInv, DropContext PROVE HandlerInv'
<1>1. /\ stack = <<>> /\ stack' = stack /\ ~alive' /\ slot' = None
      /\ freed' = [h \in Handlers |-> IF h = slot THEN freed[h] + 1 ELSE freed[h]]
      /\ UNCHANGED <<busy, given, latest>>
  BY DEF DropContext
<1>2. FramesWellFormed' /\ NoNestedRefresh'
  BY <1>1 DEF HandlerInv, FramesWellFormed, NoNestedRefresh, InRefresh
<1>3. ASSUME NEW h \in Handlers
      PROVE  /\ freed'[h] = IF h \in given' /\ slot' # h /\ ~OnStack(h)' THEN 1 ELSE 0
             /\ ~(slot' = h /\ OnStack(h)')
  <2>1. OnStack(h)' <=> OnStack(h)
    BY <1>1 DEF OnStack
  <2>2. ~OnStack(h)
    BY <1>1, EmptySeq DEF OnStack
  <2>3. h = slot => h \in given
    BY ConstantsAssumption DEF HandlerInv, SlotGiven
  <2> QED BY <1>1, <2>1, <2>2, <2>3, ConstantsAssumption DEF HandlerInv, HandlerHasOneOwner
<1>4. HandlerHasOneOwner'
  BY <1>1, <1>3 DEF HandlerInv, HandlerHasOneOwner
<1>5. LatestHandlerAnswers' /\ SlotGiven'
  BY <1>1 DEF LatestHandlerAnswers, HandlerInv, SlotGiven
<1> QED BY <1>2, <1>4, <1>5 DEF HandlerInv

-----------------------------------------------------------------------------
(* Every step preserves the invariant.                                     *)

LEMMA HandlerLib == ASSUME TypeOK, HandlerInv, LibNext \/ HandlerEnds PROVE HandlerInv'
<1>1. ASSUME C_Notify PROVE HandlerInv'
  BY <1>1, HandlerQuiet DEF C_Notify
<1>2. ASSUME NEW s \in Subs, NEW outcome \in {"ok", "failed"}, C_Complete(s, outcome)
      PROVE  HandlerInv'
  BY <1>2, HandlerQuiet DEF C_Complete
<1> QED BY <1>1, <1>2, HandlerTaken, HandlerPutBack, HandlerIsFreed DEF LibNext, HandlerEnds

LEMMA HandlerUnwind == ASSUME TypeOK, HandlerInv, Unwind PROVE HandlerInv'
<1>1. ASSUME NEW s \in Subs, WakeNext(s) PROVE HandlerInv'
  <2> DEFINE frame == [Top EXCEPT !.phase = "waker", !.todo = @ \ {s}]
  <2>1. stack # <<>> /\ Top.phase \in {"wake", "waker"} /\ Top \in Frame
    BY <1>1, TopFrame DEF WakeNext, InPhase, TypeOK
  <2>2. frame \in Frame /\ frame.phase = "waker" /\ frame.handler = Top.handler
    BY <2>1 DEF Frame
  <2>3. Top.handler = None
    BY <2>1, Holders
  <2>4. stack' = Advance(frame) /\ UNCHANGED <<alive, busy, handlerVars>>
    BY <1>1 DEF WakeNext
  <2> HIDE DEF frame
  <2> QED BY <2>1, <2>2, <2>3, <2>4, HandlerAdvance
<1>2. ASSUME WakeStream PROVE HandlerInv'
  <2> DEFINE frame == [Top EXCEPT !.phase = "stream"]
  <2>1. stack # <<>> /\ Top.phase \in {"wake", "waker"} /\ Top \in Frame
    BY <1>2, TopFrame DEF WakeStream, WokeAll, InPhase, TypeOK
  <2>2. frame \in Frame /\ frame.phase = "stream" /\ frame.handler = Top.handler
    BY <2>1 DEF Frame
  <2>3. Top.handler = None
    BY <2>1, Holders
  <2>4. stack' = Advance(frame) /\ UNCHANGED <<alive, busy, handlerVars>>
    BY <1>2 DEF WakeStream
  <2> HIDE DEF frame
  <2> QED BY <2>1, <2>2, <2>3, <2>4, HandlerAdvance
<1>3. ASSUME RefreshReturns PROVE HandlerInv'
  <2> DEFINE frame == Waking("refresh", None, wakeups, FALSE)
  <2>1. /\ stack # <<>> /\ Top.phase = "c" /\ ~busy'
        /\ stack' = Advance(frame) /\ UNCHANGED <<alive, handlerVars>>
    BY <1>3 DEF RefreshReturns, Refreshing, InPhase
  <2>2. frame \in Frame /\ frame.phase = "wake" /\ frame.handler = None
    BY FrameTypes DEF Waking, TypeOK
  <2>3. busy' = FALSE
    BY <1>3 DEF RefreshReturns
  <2> HIDE DEF frame
  <2> QED BY <2>1, <2>2, <2>3, HandlerAdvance
<1>4. ASSUME Woken PROVE stack # <<>> /\ Top.phase \in {"wake", "waker", "stream"}
  BY <1>4 DEF Woken, WokeAll, InPhase
<1>5. ASSUME CallReturns \/ SubmitReturns PROVE HandlerInv'
  BY <1>4, <1>5, HandlerReturn DEF CallReturns, SubmitReturns
<1> QED BY <1>1, <1>2, <1>3, <1>5 DEF Unwind

LEMMA HandlerApp == ASSUME TypeOK, HandlerInv, AppNext PROVE HandlerInv'
<1>1. ASSUME RefreshBegin PROVE HandlerInv'
  <2> DEFINE frame == Running("refresh", "c", None)
  <2>1. /\ ~busy /\ busy' /\ stack' = Push(frame) /\ UNCHANGED <<alive, handlerVars>>
    BY <1>1 DEF RefreshBegin, BusyEnter
  <2>2. /\ frame \in Frame /\ frame.phase = "c" /\ frame.op = "refresh"
        /\ frame.handler = None
    BY FrameTypes DEF Running
  <2> HIDE DEF frame
  <2> QED BY <2>1, <2>2, HandlerPush
<1>2. ASSUME NEW s \in Subs, NEW accepted \in BOOLEAN, SubmitBegin(s, accepted)
      PROVE  HandlerInv'
  <2> DEFINE frame == Waking("submit", s, wakeups, accepted)
  <2>1. stack' = Push(frame) /\ UNCHANGED <<alive, busy, handlerVars>>
    BY <1>2 DEF SubmitBegin
  <2>2. frame \in Frame /\ frame.phase = "wake" /\ frame.handler = None
    BY FrameTypes DEF Waking, TypeOK
  <2> HIDE DEF frame
  <2> QED BY <2>1, <2>2, HandlerPush
<1>3. ASSUME Flush PROVE HandlerInv'
  <2> DEFINE frame == Waking("flush", None, Deferred(held), FALSE)
  <2>1. stack' = Push(frame) /\ UNCHANGED <<alive, busy, handlerVars>>
    BY <1>3 DEF Flush
  <2>2. Deferred(held) \in SUBSET Subs
    BY DEF Deferred, TypeOK
  <2>3. frame \in Frame /\ frame.phase = "wake" /\ frame.handler = None
    BY <2>2, FrameTypes DEF Waking
  <2> HIDE DEF frame
  <2> QED BY <2>1, <2>3, HandlerPush
<1>4. ASSUME NEW s \in Subs, NEW accepted \in BOOLEAN,
             Reply(s, accepted) \/ SubmitInCallback(s, accepted)
      PROVE  HandlerInv'
  BY <1>4, HandlerQuiet DEF Reply, SubmitInCallback
<1>5. ASSUME FlushInCallback PROVE HandlerInv'
  BY <1>5, HandlerQuiet DEF FlushInCallback
<1>6. ASSUME NEW s \in Subs, Poll(s) \/ DropHandle(s) PROVE HandlerInv'
  BY <1>6, HandlerQuiet DEF Poll, DropHandle
<1>7. ASSUME NextNotification \/ ParkStream PROVE HandlerInv'
  BY <1>7, HandlerQuiet DEF NextNotification, ParkStream
<1> QED BY <1>1, <1>2, <1>3, <1>4, <1>5, <1>6, <1>7, HandlerIsSet, HandlerDies DEF AppNext

(* The invariant holds in every behaviour.                                 *)
THEOREM HandlersFollowed == Spec => []HandlerInv
<1>1. Init => HandlerInv
  <2> SUFFICES ASSUME Init PROVE HandlerInv
    OBVIOUS
  <2>1. Len(stack) = 0
    BY EmptySeq DEF Init
  <2>2. FramesWellFormed /\ NoNestedRefresh
    BY <2>1 DEF Init, FramesWellFormed, NoNestedRefresh
  <2>3. HandlerHasOneOwner
    BY <2>1, ConstantsAssumption DEF Init, HandlerHasOneOwner, OnStack
  <2>4. SlotGiven /\ LatestHandlerAnswers
    BY DEF Init, SlotGiven, LatestHandlerAnswers
  <2> QED BY <2>2, <2>3, <2>4 DEF HandlerInv
<1>2. TypeOK /\ HandlerInv /\ [Next]_vars => HandlerInv'
  <2> SUFFICES ASSUME TypeOK, HandlerInv, [Next]_vars PROVE HandlerInv'
    OBVIOUS
  <2>1. CASE UNCHANGED vars
    BY <2>1, HandlerQuiet
  <2> QED BY <2>1, HandlerLib, HandlerUnwind, HandlerApp DEF Next
<1> QED BY <1>1, <1>2, TypeCorrect, PTL DEF Spec

(* LibOSDP's refresh never runs inside itself, whatever handlers,          *)
(* destructors and wakers call (Busy, PeripheralDevice::refresh).          *)
THEOREM NeverNested == Spec => []NoNestedRefresh
<1>1. HandlerInv => NoNestedRefresh
  BY DEF HandlerInv
<1> QED BY <1>1, HandlersFollowed, PTL

(* A handler is freed at most once, and never while it runs                *)
(* (CallbackSlot::call and replace).                                       *)
THEOREM HandlerFreedOnce == Spec => []HandlerHasOneOwner
<1>1. HandlerInv => HandlerHasOneOwner
  BY DEF HandlerInv
<1> QED BY <1>1, HandlersFollowed, PTL

(* The handler set last is in the slot, or runs and goes back to it        *)
(* (CallbackSlot::call, set_command_handler).                              *)
THEOREM LatestAnswers == Spec => []LatestHandlerAnswers
<1>1. HandlerInv => LatestHandlerAnswers
  BY DEF HandlerInv
<1> QED BY <1>1, HandlersFollowed, PTL

-----------------------------------------------------------------------------
(* The wakers: the inductive invariant.                                    *)

Walks(phase) == phase \in {"wake", "waker"}

(* A call has wakers to call only while wake_all goes through them.        *)
IdleTodo == \A i \in 1 .. Len(stack) : ~Walks(stack[i].phase) => stack[i].todo = {}

(* A task that sleeps on an event has its handle, and, until the event     *)
(* ends, its waker in the slot.                                            *)
AwaitsHandle == \A s \in Subs : asleep[s] => handle[s] = "live"
WakerParked  == \A s \in Subs : asleep[s] /\ status[s] = "none" => waker[s]

(* Wakers are deferred only while LibOSDP runs.                            *)
DeferredWhileBusy == ~busy => wakeups = {}

(* Notifications that wait for the parked stream are still to be noticed   *)
(* by a call in progress, perhaps far below the innermost one.             *)
WalkAhead == \E i \in 1 .. Len(stack) : Walks(stack[i].phase)
StreamCovered == StreamDue => busy \/ WalkAhead

WakeInv ==
  /\ IdleTodo
  /\ AwaitsHandle
  /\ WakerParked
  /\ DeferredWhileBusy
  /\ StreamCovered
  /\ NoLostWakeup

ToBeWoken(t) == \E i \in 1 .. Len(stack) : t \in stack[i].todo

(* What a change of the stack does to the wakers still to be called.       *)
LEMMA WakersPush ==
  ASSUME TypeOK, IdleTodo, NEW frame \in Frame, stack' = Push(frame),
         ~Walks(frame.phase) => frame.todo = {}
  PROVE  /\ IdleTodo'
         /\ \A t \in Subs : ToBeWoken(t) \/ t \in frame.todo => ToBeWoken(t)'
         /\ WalkAhead \/ Walks(frame.phase) => WalkAhead'
<1>1. /\ Len(stack) \in Nat /\ Len(stack') = Len(stack) + 1
      /\ \A i \in 1 .. Len(stack) : stack'[i] = stack[i]
      /\ stack'[Len(stack) + 1] = frame
  BY PushFrame, LenProperties DEF TypeOK
<1>2. /\ \A i \in 1 .. Len(stack') : i \in 1 .. Len(stack) \/ i = Len(stack) + 1
      /\ \A i \in 1 .. Len(stack) : i \in 1 .. Len(stack')
      /\ Len(stack) + 1 \in 1 .. Len(stack')
  BY <1>1
<1>3. IdleTodo'
  BY <1>1, <1>2 DEF IdleTodo
<1>4. \A t \in Subs : ToBeWoken(t) \/ t \in frame.todo => ToBeWoken(t)'
  BY <1>1, <1>2 DEF ToBeWoken
<1>5. WalkAhead \/ Walks(frame.phase) => WalkAhead'
  BY <1>1, <1>2 DEF WalkAhead
<1> QED BY <1>3, <1>4, <1>5

LEMMA WakersAdvance ==
  ASSUME TypeOK, IdleTodo, stack # <<>>, NEW frame \in Frame, stack' = Advance(frame),
         ~Walks(frame.phase) => frame.todo = {}
  PROVE  /\ IdleTodo'
         /\ \A t \in Subs : ToBeWoken(t) /\ t \notin Top.todo => ToBeWoken(t)'
         /\ \A t \in Subs : t \in frame.todo => ToBeWoken(t)'
         /\ WalkAhead /\ ~Walks(Top.phase) => WalkAhead'
         /\ Walks(frame.phase) => WalkAhead'
         /\ ~Walks(Top.phase) => Top.todo = {}
<1>1. /\ Len(stack) \in Nat \ {0} /\ Len(stack') = Len(stack)
      /\ \A i \in 1 .. Len(stack) - 1 : stack'[i] = stack[i]
      /\ stack'[Len(stack)] = frame /\ stack[Len(stack)] = Top
  BY TopFrame, AdvanceFrame DEF TypeOK, Top
<1>2. /\ \A i \in 1 .. Len(stack) : i \in 1 .. Len(stack) - 1 \/ i = Len(stack)
      /\ Len(stack) \in 1 .. Len(stack)
  BY <1>1
<1>3. IdleTodo'
  BY <1>1, <1>2 DEF IdleTodo
<1>4. \A t \in Subs : t \in frame.todo => ToBeWoken(t)'
  BY <1>1, <1>2 DEF ToBeWoken
<1>5. \A t \in Subs : ToBeWoken(t) /\ t \notin Top.todo => ToBeWoken(t)'
  BY <1>1, <1>2 DEF ToBeWoken
<1>6. WalkAhead /\ ~Walks(Top.phase) => WalkAhead'
  BY <1>1, <1>2 DEF WalkAhead
<1>7. Walks(frame.phase) => WalkAhead'
  BY <1>1, <1>2 DEF WalkAhead
<1>8. ~Walks(Top.phase) => Top.todo = {}
  BY <1>1, <1>2 DEF IdleTodo
<1> QED BY <1>3, <1>4, <1>5, <1>6, <1>7, <1>8

LEMMA WakersReturn ==
  ASSUME TypeOK, IdleTodo, stack # <<>>, stack' = Caller
  PROVE  /\ IdleTodo'
         /\ \A t \in Subs : ToBeWoken(t) /\ t \notin Top.todo => ToBeWoken(t)'
         /\ WalkAhead /\ ~Walks(Top.phase) => WalkAhead'
         /\ ~Walks(Top.phase) => Top.todo = {}
<1>1. /\ Len(stack) \in Nat \ {0} /\ Len(stack') = Len(stack) - 1
      /\ \A i \in 1 .. Len(stack) - 1 : stack'[i] = stack[i]
      /\ stack[Len(stack)] = Top
  BY TopFrame DEF TypeOK, Top
<1>2. /\ \A i \in 1 .. Len(stack) : i \in 1 .. Len(stack') \/ i = Len(stack)
      /\ \A i \in 1 .. Len(stack') : i \in 1 .. Len(stack) /\ stack'[i] = stack[i]
      /\ Len(stack) \in 1 .. Len(stack)
  BY <1>1
<1>3. IdleTodo'
  BY <1>2 DEF IdleTodo
<1>4. \A t \in Subs : ToBeWoken(t) /\ t \notin Top.todo => ToBeWoken(t)'
  BY <1>1, <1>2 DEF ToBeWoken
<1>5. WalkAhead /\ ~Walks(Top.phase) => WalkAhead'
  BY <1>1, <1>2 DEF WalkAhead
<1>6. ~Walks(Top.phase) => Top.todo = {}
  BY <1>1, <1>2 DEF IdleTodo
<1> QED BY <1>3, <1>4, <1>5, <1>6

(* While LibOSDP's refresh is innermost the context is busy.               *)
LEMMA BusyRefreshing == ASSUME TypeOK, HandlerInv, Refreshing PROVE busy
<1>1. /\ Len(stack) \in 1 .. Len(stack) /\ stack[Len(stack)] = Top /\ stack # <<>>
      /\ Top.phase = "c"
  BY TopFrame DEF Refreshing, InPhase, TypeOK, Top
<1>2. Top.op = "refresh"
  BY <1>1, Holders
<1>3. InRefresh(Len(stack))
  BY <1>1, <1>2 DEF InRefresh
<1> QED BY <1>1, <1>3 DEF HandlerInv, NoNestedRefresh

-----------------------------------------------------------------------------
(* The wakers: every step preserves the invariant.                         *)

(* Neither calls nor tasks are touched.                                    *)
LEMMA WakersSame ==
  ASSUME WakeInv, UNCHANGED <<busy, stack, status, waker, wakeups, asleep>>,
         \A s \in Subs : handle[s] = "live" => handle'[s] = "live",
         StreamDue' => StreamDue \/ busy
  PROVE  WakeInv'
<1>1. IdleTodo' /\ AwaitsHandle' /\ WakerParked' /\ DeferredWhileBusy' /\ NoLostWakeup'
  BY DEF WakeInv, IdleTodo, AwaitsHandle, WakerParked, DeferredWhileBusy, NoLostWakeup
<1>2. StreamCovered'
  BY DEF WakeInv, StreamCovered, WalkAhead
<1> QED BY <1>1, <1>2 DEF WakeInv

(* LibOSDP returns the events in S: whoever slept on one of them has its   *)
(* waker deferred, and nobody else is disturbed.                           *)
LEMMA WakersComplete ==
  ASSUME TypeOK, WakeInv, NEW S \in SUBSET Subs, NEW outcome \in Outcomes,
         Complete(S, outcome), asleep' = asleep
  PROVE  /\ WakerParked'
         /\ \A s \in Subs : asleep'[s] /\ status'[s] # "none" =>
                             s \in Deferred(S) \/ ToBeWoken(s)
<1>0. outcome # "none"
  BY DEF Outcomes
<1>1. WakerParked'
  BY <1>0 DEF Complete, WakeInv, WakerParked, TypeOK
<1>2. ASSUME NEW s \in Subs, asleep'[s], status'[s] # "none"
      PROVE  s \in Deferred(S) \/ ToBeWoken(s)
  <2>1. CASE status[s] # "none"
    BY <1>2, <2>1 DEF WakeInv, NoLostWakeup, ToBeWoken, Deferred
  <2>2. CASE status[s] = "none"
    <3>1. s \in S
      BY <1>2, <2>2 DEF Complete, TypeOK
    <3>2. waker[s]
      BY <1>2, <2>2 DEF WakeInv, WakerParked
    <3> QED BY <3>1, <3>2 DEF Deferred
  <2> QED BY <2>1, <2>2
<1> QED BY <1>1, <1>2

(* A completion while LibOSDP runs.                                        *)
LEMMA WakersDeferred ==
  ASSUME TypeOK, WakeInv, busy, NEW S \in SUBSET Subs, NEW outcome \in Outcomes,
         CompleteDeferring(S, outcome),
         UNCHANGED <<controlVars, handle, asleep, queue, streamParked>>
  PROVE  WakeInv'
<1>1. Complete(S, outcome) /\ wakeups' = Deferred(S)
  BY DEF CompleteDeferring
<1>2. WakerParked' /\ NoLostWakeup'
  BY <1>1, WakersComplete DEF NoLostWakeup, ToBeWoken
<1>3. IdleTodo' /\ AwaitsHandle' /\ DeferredWhileBusy' /\ StreamCovered'
  BY DEF WakeInv, IdleTodo, AwaitsHandle, DeferredWhileBusy, StreamCovered
<1> QED BY <1>2, <1>3 DEF WakeInv

(* A callback of LibOSDP goes on; it holds no wakers and leaves none.      *)
LEMMA WakersCallback ==
  ASSUME TypeOK, WakeInv, stack # <<>>, ~Walks(Top.phase), NEW frame \in Frame,
         frame.todo = {}, ~Walks(frame.phase),
         stack' = Advance(frame) \/ stack' = Caller,
         UNCHANGED <<busy, slotVars, queueVars>>
  PROVE  WakeInv'
<1>1. IdleTodo
  BY DEF WakeInv
<1>2. /\ IdleTodo' /\ \A t \in Subs : ToBeWoken(t) => ToBeWoken(t)'
      /\ (WalkAhead => WalkAhead')
  <2>1. CASE stack' = Advance(frame)
    <3>1. /\ IdleTodo' /\ (WalkAhead => WalkAhead')
          /\ \A t \in Subs : ToBeWoken(t) /\ t \notin Top.todo => ToBeWoken(t)'
          /\ Top.todo = {}
      BY <1>1, <2>1, WakersAdvance
    <3> QED BY <3>1
  <2>2. CASE stack' = Caller
    <3>1. /\ IdleTodo' /\ (WalkAhead => WalkAhead')
          /\ \A t \in Subs : ToBeWoken(t) /\ t \notin Top.todo => ToBeWoken(t)'
          /\ Top.todo = {}
      BY <1>1, <2>2, WakersReturn
    <3> QED BY <3>1
  <2> QED BY <2>1, <2>2
<1>3. NoLostWakeup'
  BY <1>2 DEF WakeInv, NoLostWakeup, ToBeWoken
<1>4. AwaitsHandle' /\ WakerParked' /\ DeferredWhileBusy' /\ StreamCovered'
  BY <1>2 DEF WakeInv, AwaitsHandle, WakerParked, DeferredWhileBusy, StreamCovered, StreamDue
<1> QED BY <1>2, <1>3, <1>4 DEF WakeInv

LEMMA WakersLib ==
  ASSUME TypeOK, HandlerInv, WakeInv, LibNext \/ HandlerEnds
  PROVE  WakeInv'
<1>1. ASSUME C_Notify PROVE WakeInv'
  <2>1. busy
    BY <1>1, BusyRefreshing DEF C_Notify
  <2> QED BY <1>1, <2>1, WakersSame DEF C_Notify
<1>2. ASSUME NEW s \in Subs, NEW outcome \in {"ok", "failed"}, C_Complete(s, outcome)
      PROVE  WakeInv'
  <2>1. busy /\ outcome \in Outcomes
    BY <1>2, BusyRefreshing DEF C_Complete, Outcomes
  <2> QED BY <1>2, <2>1, WakersDeferred DEF C_Complete
<1>3. ASSUME Command PROVE WakeInv'
  <2> DEFINE frame == Running("refresh", "handler", slot)
  <2>1. /\ stack # <<>> /\ ~Walks(Top.phase) /\ stack' = Advance(frame)
        /\ UNCHANGED <<busy, slotVars, queueVars>>
    BY <1>3 DEF Command, Refreshing, InPhase, Walks
  <2>2. frame \in Frame /\ frame.todo = {} /\ ~Walks(frame.phase)
    BY FrameTypes DEF Running, Walks, TypeOK
  <2> HIDE DEF frame
  <2> QED BY <2>1, <2>2, WakersCallback
<1>4. ASSUME HandlerReturns PROVE WakeInv'
  <2>0. stack # <<>> /\ ~Walks(Top.phase) /\ Top.handler \in Handlers \union {None}
    BY <1>4, TopFrame DEF HandlerReturns, InPhase, Walks, TypeOK, Frame
  <2>1. PICK frame \in {Running("refresh", "c", None), Running("refresh", "drop", Top.handler)} :
          stack' = Advance(frame)
    BY <1>4 DEF HandlerReturns
  <2>2. frame \in Frame /\ frame.todo = {} /\ ~Walks(frame.phase)
    BY <2>0, <2>1, FrameTypes DEF Running, Walks
  <2>3. UNCHANGED <<busy, slotVars, queueVars>>
    BY <1>4 DEF HandlerReturns
  <2> QED BY <2>0, <2>1, <2>2, <2>3, WakersCallback
<1>5. ASSUME HandlerDropped PROVE WakeInv'
  <2> DEFINE frame == Running("refresh", "c", None)
  <2>1. /\ stack # <<>> /\ ~Walks(Top.phase)
        /\ stack' = Advance(frame) \/ stack' = Caller
        /\ UNCHANGED <<busy, slotVars, queueVars>>
    BY <1>5 DEF HandlerDropped, InPhase, Walks
  <2>2. frame \in Frame /\ frame.todo = {} /\ ~Walks(frame.phase)
    BY FrameTypes DEF Running, Walks
  <2> HIDE DEF frame
  <2> QED BY <2>1, <2>2, WakersCallback
<1> QED BY <1>1, <1>2, <1>3, <1>4, <1>5 DEF LibNext, HandlerEnds

(* A call moves on, or returns.                                            *)
LEMMA WakersUnwind == ASSUME TypeOK, HandlerInv, WakeInv, Unwind PROVE WakeInv'
<1>0. IdleTodo
  BY DEF WakeInv
<1>1. ASSUME NEW s \in Subs, WakeNext(s) PROVE WakeInv'
  <2> DEFINE frame == [Top EXCEPT !.phase = "waker", !.todo = @ \ {s}]
  <2>1. stack # <<>> /\ Top \in Frame /\ stack' = Advance(frame)
    BY <1>1, TopFrame DEF WakeNext, InPhase, TypeOK
  <2>2. frame \in Frame /\ Walks(frame.phase) /\ frame.todo = Top.todo \ {s}
    BY <2>1 DEF Frame, Walks
  <2> HIDE DEF frame
  <2>3. /\ IdleTodo' /\ WalkAhead'
        /\ \A t \in Subs : ToBeWoken(t) /\ t \notin Top.todo => ToBeWoken(t)'
        /\ \A t \in Subs : t \in frame.todo => ToBeWoken(t)'
    BY <1>0, <2>1, <2>2, WakersAdvance
  <2>4. \A t \in Subs : asleep'[t] => asleep[t] /\ t # s
    BY <1>1 DEF WakeNext, TypeOK
  <2>5. NoLostWakeup'
    BY <1>1, <2>2, <2>3, <2>4 DEF WakeNext, WakeInv, NoLostWakeup, ToBeWoken
  <2>6. AwaitsHandle' /\ WakerParked' /\ DeferredWhileBusy'
    BY <1>1, <2>4 DEF WakeNext, WakeInv, AwaitsHandle, WakerParked, DeferredWhileBusy
  <2> QED BY <2>3, <2>5, <2>6 DEF WakeInv, StreamCovered
<1>2. ASSUME WakeStream PROVE WakeInv'
  <2> DEFINE frame == [Top EXCEPT !.phase = "stream"]
  <2>1. stack # <<>> /\ Top \in Frame /\ Top.todo = {} /\ stack' = Advance(frame)
    BY <1>2, TopFrame DEF WakeStream, WokeAll, InPhase, TypeOK
  <2>2. frame \in Frame /\ frame.todo = {}
    BY <2>1 DEF Frame
  <2> HIDE DEF frame
  <2>3. IdleTodo' /\ \A t \in Subs : ToBeWoken(t) => ToBeWoken(t)'
    <3>1. IdleTodo' /\ \A t \in Subs : ToBeWoken(t) /\ t \notin Top.todo => ToBeWoken(t)'
      BY <1>0, <2>1, <2>2, WakersAdvance
    <3> QED BY <2>1, <3>1
  <2>4. NoLostWakeup'
    BY <1>2, <2>3 DEF WakeStream, WakeInv, NoLostWakeup, ToBeWoken
  <2>5. AwaitsHandle' /\ WakerParked' /\ DeferredWhileBusy' /\ StreamCovered'
    BY <1>2 DEF WakeStream, WakeInv, AwaitsHandle, WakerParked, DeferredWhileBusy,
                StreamCovered, StreamDue
  <2> QED BY <2>3, <2>4, <2>5 DEF WakeInv
<1>3. ASSUME RefreshReturns PROVE WakeInv'
  <2> DEFINE frame == Waking("refresh", None, wakeups, FALSE)
  <2>1. /\ stack # <<>> /\ ~Walks(Top.phase) /\ stack' = Advance(frame)
    BY <1>3 DEF RefreshReturns, Refreshing, InPhase, Walks
  <2>2. frame \in Frame /\ Walks(frame.phase) /\ frame.todo = wakeups
    BY FrameTypes DEF Waking, Walks, TypeOK
  <2> HIDE DEF frame
  <2>3. /\ IdleTodo' /\ WalkAhead' /\ Top.todo = {}
        /\ \A t \in Subs : ToBeWoken(t) /\ t \notin Top.todo => ToBeWoken(t)'
        /\ \A t \in Subs : t \in frame.todo => ToBeWoken(t)'
    BY <1>0, <2>1, <2>2, WakersAdvance
  <2>4. NoLostWakeup'
    BY <1>3, <2>2, <2>3 DEF RefreshReturns, WakeInv, NoLostWakeup, ToBeWoken
  <2>5. AwaitsHandle' /\ WakerParked' /\ DeferredWhileBusy'
    BY <1>3 DEF RefreshReturns, WakeInv, AwaitsHandle, WakerParked, DeferredWhileBusy
  <2> QED BY <2>3, <2>4, <2>5 DEF WakeInv, StreamCovered
<1>4. ASSUME CallReturns \/ SubmitReturns PROVE WakeInv'
  <2>1. /\ Woken /\ stack # <<>> /\ stack' = Caller
        /\ UNCHANGED <<busy, status, waker, wakeups, asleep, queue, streamParked>>
    BY <1>4 DEF CallReturns, SubmitReturns, Woken, WokeAll, InPhase
  <2>2. Top.todo = {} /\ (StreamDue => ~Walks(Top.phase))
    BY <1>0, <2>1, WakersReturn DEF Woken, WokeAll, InPhase, Walks
  <2>3. /\ IdleTodo' /\ \A t \in Subs : ToBeWoken(t) => ToBeWoken(t)'
        /\ StreamDue /\ WalkAhead => WalkAhead'
    <3>1. /\ IdleTodo' /\ \A t \in Subs : ToBeWoken(t) /\ t \notin Top.todo => ToBeWoken(t)'
          /\ WalkAhead /\ ~Walks(Top.phase) => WalkAhead'
      BY <1>0, <2>1, WakersReturn
    <3> QED BY <2>2, <3>1
  <2>4. NoLostWakeup'
    BY <2>1, <2>3 DEF WakeInv, NoLostWakeup, ToBeWoken
  <2>5. \A t \in Subs : handle[t] = "live" => handle'[t] = "live"
    BY <1>4 DEF CallReturns, SubmitReturns, TypeOK
  <2>6. AwaitsHandle' /\ WakerParked' /\ DeferredWhileBusy' /\ StreamCovered'
    BY <2>1, <2>3, <2>5 DEF WakeInv, AwaitsHandle, WakerParked, DeferredWhileBusy,
                            StreamCovered, StreamDue
  <2> QED BY <2>3, <2>4, <2>6 DEF WakeInv
<1> QED BY <1>1, <1>2, <1>3, <1>4 DEF Unwind

(* The application's operations.                                           *)
LEMMA WakersApp == ASSUME TypeOK, HandlerInv, WakeInv, AppNext PROVE WakeInv'
<1>0. IdleTodo
  BY DEF WakeInv
<1>1. ASSUME NEW frame \in Frame, stack' = Push(frame), ~Walks(frame.phase) => frame.todo = {},
             wakeups' = wakeups \/ (wakeups' = {} /\ frame.todo = wakeups),
             busy => busy', UNCHANGED <<status, waker, handle, asleep, queue, streamParked>>
      PROVE  WakeInv'
  <2>1. /\ IdleTodo' /\ (WalkAhead => WalkAhead')
        /\ \A t \in Subs : ToBeWoken(t) \/ t \in frame.todo => ToBeWoken(t)'
    BY <1>0, <1>1, WakersPush
  <2>2. NoLostWakeup'
    BY <1>1, <2>1 DEF WakeInv, NoLostWakeup, ToBeWoken
  <2>3. AwaitsHandle' /\ WakerParked' /\ DeferredWhileBusy' /\ StreamCovered'
    BY <1>1, <2>1 DEF WakeInv, AwaitsHandle, WakerParked, DeferredWhileBusy, StreamCovered,
                      StreamDue
  <2> QED BY <2>1, <2>2, <2>3 DEF WakeInv
<1>2. ASSUME NEW h \in Handlers, SetHandler(h) PROVE WakeInv'
  <2>1. CASE slot = None
    BY <1>2, <2>1, WakersSame DEF SetHandler, StreamDue
  <2>2. CASE slot # None
    <3> DEFINE frame == Running("set", "drop", slot)
    <3>1. /\ stack' = Push(frame) /\ UNCHANGED <<busy, slotVars, queueVars>>
      BY <1>2, <2>2 DEF SetHandler
    <3>2. frame \in Frame /\ frame.todo = {}
      BY FrameTypes DEF Running, TypeOK
    <3> HIDE DEF frame
    <3> QED BY <1>1, <3>1, <3>2
  <2> QED BY <2>1, <2>2
<1>3. ASSUME RefreshBegin PROVE WakeInv'
  <2> DEFINE frame == Running("refresh", "c", None)
  <2>1. /\ stack' = Push(frame) /\ busy' /\ UNCHANGED <<slotVars, queueVars>>
    BY <1>3 DEF RefreshBegin, BusyEnter
  <2>2. frame \in Frame /\ frame.todo = {}
    BY FrameTypes DEF Running
  <2> HIDE DEF frame
  <2> QED BY <1>1, <2>1, <2>2
<1>4. ASSUME NEW s \in Subs, NEW accepted \in BOOLEAN, SubmitBegin(s, accepted)
      PROVE  WakeInv'
  <2> DEFINE frame == Waking("submit", s, wakeups, accepted)
  <2>1. /\ stack' = Push(frame) /\ wakeups' = {}
        /\ UNCHANGED <<busy, status, waker, handle, asleep, queue, streamParked>>
    BY <1>4 DEF SubmitBegin
  <2>2. frame \in Frame /\ frame.todo = wakeups /\ Walks(frame.phase)
    BY FrameTypes DEF Waking, Walks, TypeOK
  <2> HIDE DEF frame
  <2> QED BY <1>1, <2>1, <2>2
<1>5. ASSUME NEW s \in Subs, NEW accepted \in BOOLEAN,
             Reply(s, accepted) \/ SubmitInCallback(s, accepted)
      PROVE  WakeInv'
  <2>1. \A t \in Subs : handle[t] = "live" => handle'[t] = "live"
    BY <1>5 DEF Reply, SubmitInCallback, TypeOK
  <2> QED BY <1>5, <2>1, WakersSame DEF Reply, SubmitInCallback, StreamDue
<1>6. held \in SUBSET Subs /\ "flushed" \in Outcomes
  BY DEF Outcomes, TypeOK
<1>7. ASSUME FlushInCallback PROVE WakeInv'
  BY <1>6, <1>7, WakersDeferred DEF FlushInCallback
<1>8. ASSUME Flush PROVE WakeInv'
  <2> DEFINE frame == Waking("flush", None, Deferred(held), FALSE)
  <2>1. /\ Complete(held, "flushed") /\ stack' = Push(frame) /\ wakeups' = {}
        /\ UNCHANGED <<busy, handle, asleep, queue, streamParked>>
    BY <1>8 DEF Flush
  <2>2. Deferred(held) \in SUBSET Subs
    BY DEF Deferred, TypeOK
  <2>3. frame \in Frame /\ frame.todo = Deferred(held) /\ Walks(frame.phase)
    BY <2>2, FrameTypes DEF Waking, Walks
  <2> HIDE DEF frame
  <2>4. /\ IdleTodo' /\ WalkAhead'
        /\ \A t \in Subs : ToBeWoken(t) \/ t \in frame.todo => ToBeWoken(t)'
    BY <1>0, <2>1, <2>3, WakersPush
  <2>5. WakerParked' /\ NoLostWakeup'
    BY <1>6, <2>1, <2>3, <2>4, WakersComplete DEF NoLostWakeup, ToBeWoken
  <2>6. AwaitsHandle' /\ DeferredWhileBusy'
    BY <2>1 DEF WakeInv, AwaitsHandle, DeferredWhileBusy
  <2> QED BY <2>4, <2>5, <2>6 DEF WakeInv, StreamCovered
<1>9. ASSUME NEW s \in Subs, Poll(s) PROVE WakeInv'
  <2>1. IdleTodo' /\ DeferredWhileBusy' /\ StreamCovered'
    BY <1>9 DEF Poll, WakeInv, IdleTodo, DeferredWhileBusy, StreamCovered, StreamDue, WalkAhead
  <2>2. AwaitsHandle' /\ WakerParked'
    BY <1>9 DEF Poll, WakeInv, AwaitsHandle, WakerParked, TypeOK
  <2>3. \A t \in Subs : asleep'[t] /\ status[t] # "none" => asleep[t]
    BY <1>9 DEF Poll, TypeOK
  <2>4. NoLostWakeup'
    BY <1>9, <2>3 DEF Poll, WakeInv, NoLostWakeup
  <2> QED BY <2>1, <2>2, <2>4 DEF WakeInv
<1>10. ASSUME NEW s \in Subs, DropHandle(s) PROVE WakeInv'
  <2>1. IdleTodo' /\ DeferredWhileBusy' /\ StreamCovered'
    BY <1>10 DEF DropHandle, WakeInv, IdleTodo, DeferredWhileBusy, StreamCovered, StreamDue,
                 WalkAhead
  <2>2. \A t \in Subs : asleep'[t] => asleep[t] /\ t # s
    BY <1>10 DEF DropHandle, TypeOK
  <2>3. AwaitsHandle' /\ WakerParked' /\ NoLostWakeup'
    BY <1>10, <2>2 DEF DropHandle, WakeInv, AwaitsHandle, WakerParked, NoLostWakeup, TypeOK
  <2> QED BY <2>1, <2>3 DEF WakeInv
<1>11. ASSUME NextNotification \/ ParkStream PROVE WakeInv'
  <2>1. StreamDue' => StreamDue
    BY <1>11 DEF NextNotification, ParkStream, StreamDue
  <2> QED BY <1>11, <2>1, WakersSame DEF NextNotification, ParkStream
<1>12. ASSUME DropContext PROVE WakeInv'
  <2>1. \A s \in Subs : ~asleep'[s]
    BY <1>12 DEF DropContext, WakeInv, AwaitsHandle
  <2>2. AwaitsHandle' /\ WakerParked' /\ NoLostWakeup'
    BY <2>1 DEF AwaitsHandle, WakerParked, NoLostWakeup
  <2>3. IdleTodo' /\ DeferredWhileBusy' /\ StreamCovered'
    BY <1>12 DEF DropContext, WakeInv, IdleTodo, DeferredWhileBusy, StreamCovered, StreamDue
  <2> QED BY <2>2, <2>3 DEF WakeInv
<1> QED
  BY <1>2, <1>3, <1>4, <1>5, <1>7, <1>8, <1>9, <1>10, <1>11, <1>12 DEF AppNext

LEMMA WakersFollowed == Spec => []WakeInv
<1>1. Init => WakeInv
  BY EmptySeq DEF Init, WakeInv, IdleTodo, AwaitsHandle, WakerParked, DeferredWhileBusy,
                  StreamCovered, StreamDue, NoLostWakeup
<1>2. TypeOK /\ HandlerInv /\ WakeInv /\ [Next]_vars => WakeInv'
  <2> SUFFICES ASSUME TypeOK, HandlerInv, WakeInv, [Next]_vars PROVE WakeInv'
    OBVIOUS
  <2>1. CASE UNCHANGED vars
    BY <2>1, WakersSame DEF StreamDue
  <2> QED BY <2>1, WakersLib, WakersUnwind, WakersApp DEF Next
<1> QED BY <1>1, <1>2, TypeCorrect, HandlersFollowed, PTL DEF Spec

(* No task sleeps on an event that has ended unless its waker is deferred  *)
(* or about to be called (RawSubmission::complete, wake_waiting).          *)
THEOREM WakeupsNotLost == Spec => []NoLostWakeup
<1>1. WakeInv => NoLostWakeup
  BY DEF WakeInv
<1> QED BY <1>1, WakersFollowed, PTL

(* Once the outermost call has returned nothing is left to wake, however   *)
(* deep wakers, handlers and destructors have called back into the context *)
(* (PeripheralDevice::wake_waiting).                                       *)
THEOREM NothingStranded == Spec => []NothingLeftUnwoken
<1>1. ASSUME HandlerInv, WakeInv PROVE NothingLeftUnwoken
  <2> SUFFICES ASSUME stack = <<>> PROVE wakeups = {} /\ ~StreamDue
    BY DEF NothingLeftUnwoken
  <2>1. 1 .. Len(stack) = {}
    BY EmptySeq
  <2>2. ~busy
    BY <1>1, <2>1 DEF HandlerInv, NoNestedRefresh
  <2> QED BY <1>1, <2>1, <2>2 DEF WakeInv, DeferredWhileBusy, StreamCovered, WalkAhead
<1> QED BY <1>1, WakersFollowed, HandlersFollowed, PTL

-----------------------------------------------------------------------------
(* The boxes: the inductive invariant.                                     *)

(* A submit in progress has allocated its box; if LibOSDP refused the      *)
(* event it does not hold it.  No two submit the same event.               *)
SubmitsSomething ==
  \A i \in 1 .. Len(stack) : stack[i].op = "submit" =>
    stack[i].sub \in made /\ (~stack[i].accepted => stack[i].sub \notin held)

SubmitsOnce ==
  \A i, j \in 1 .. Len(stack) :
    /\ stack[i].op = "submit" /\ stack[j].op = "submit"
    /\ stack[i].sub = stack[j].sub
    => i = j

BoxInv ==
  /\ SubmitsSomething
  /\ SubmitsOnce
  /\ held \subseteq made
  /\ BoxHasOneOwner

(* The submits in progress are the same.                                   *)
SameSubmits ==
  /\ \A i \in 1 .. Len(stack) : stack[i].op = "submit" =>
       /\ i \in 1 .. Len(stack') /\ stack'[i].op = "submit"
       /\ stack'[i].sub = stack[i].sub /\ stack'[i].accepted = stack[i].accepted
  /\ \A i \in 1 .. Len(stack') : stack'[i].op = "submit" =>
       /\ i \in 1 .. Len(stack) /\ stack[i].op = "submit"
       /\ stack'[i].sub = stack[i].sub /\ stack'[i].accepted = stack[i].accepted

LEMMA SubmitsUnmoved == ASSUME UNCHANGED stack PROVE SameSubmits
BY DEF SameSubmits

LEMMA SubmitsPush ==
  ASSUME TypeOK, NEW frame \in Frame, stack' = Push(frame), frame.op # "submit"
  PROVE  SameSubmits
<1>1. /\ Len(stack) \in Nat /\ Len(stack') = Len(stack) + 1
      /\ \A i \in 1 .. Len(stack) : stack'[i] = stack[i]
      /\ stack'[Len(stack) + 1] = frame
  BY PushFrame, LenProperties DEF TypeOK
<1>2. /\ \A i \in 1 .. Len(stack') : i \in 1 .. Len(stack) \/ i = Len(stack) + 1
      /\ \A i \in 1 .. Len(stack) : i \in 1 .. Len(stack')
  BY <1>1
<1> QED BY <1>1, <1>2 DEF SameSubmits

LEMMA SubmitsAdvance ==
  ASSUME TypeOK, stack # <<>>, NEW frame \in Frame, stack' = Advance(frame),
         frame.op = "submit" <=> Top.op = "submit",
         Top.op = "submit" => frame.sub = Top.sub /\ frame.accepted = Top.accepted
  PROVE  SameSubmits
<1>1. /\ Len(stack) \in Nat \ {0} /\ Len(stack') = Len(stack)
      /\ \A i \in 1 .. Len(stack) - 1 : stack'[i] = stack[i]
      /\ stack'[Len(stack)] = frame /\ stack[Len(stack)] = Top
  BY TopFrame, AdvanceFrame DEF TypeOK, Top
<1>2. \A i \in 1 .. Len(stack) : i \in 1 .. Len(stack) - 1 \/ i = Len(stack)
  BY <1>1
<1> QED BY <1>1, <1>2 DEF SameSubmits

LEMMA SubmitsReturn ==
  ASSUME TypeOK, stack # <<>>, stack' = Caller, Top.op # "submit"
  PROVE  SameSubmits
<1>1. /\ Len(stack) \in Nat \ {0} /\ Len(stack') = Len(stack) - 1
      /\ \A i \in 1 .. Len(stack) - 1 : stack'[i] = stack[i]
      /\ stack[Len(stack)] = Top
  BY TopFrame DEF TypeOK, Top
<1>2. /\ \A i \in 1 .. Len(stack) : i \in 1 .. Len(stack') \/ i = Len(stack)
      /\ \A i \in 1 .. Len(stack') : i \in 1 .. Len(stack)
  BY <1>1
<1> QED BY <1>1, <1>2 DEF SameSubmits

LEMMA BoxSame ==
  ASSUME BoxInv, SameSubmits, UNCHANGED <<made, held, frees>>
  PROVE  BoxInv'
<1>1. SubmitsSomething'
  BY DEF BoxInv, SubmitsSomething, SameSubmits
<1>2. SubmitsOnce'
  BY DEF BoxInv, SubmitsOnce, SameSubmits
<1>3. \A s \in Subs : Submitting(s)' <=> Submitting(s)
  BY DEF Submitting, SameSubmits
<1>4. BoxHasOneOwner'
  BY <1>3 DEF BoxInv, BoxHasOneOwner
<1> QED BY <1>1, <1>2, <1>4 DEF BoxInv

(* LibOSDP returns events it held: each is freed, for the first time.      *)
LEMMA BoxComplete ==
  ASSUME TypeOK, BoxInv, SameSubmits, UNCHANGED made, NEW S \in SUBSET held, NEW outcome,
         Complete(S, outcome)
  PROVE  BoxInv'
<1>1. /\ held' = held \ S
      /\ frees' = [s \in Subs |-> IF s \in S THEN frees[s] + 1 ELSE frees[s]]
  BY DEF Complete
<1>2. SubmitsSomething'
  BY <1>1 DEF BoxInv, SubmitsSomething, SameSubmits
<1>3. SubmitsOnce'
  BY DEF BoxInv, SubmitsOnce, SameSubmits
<1>4. \A s \in Subs : Submitting(s)' <=> Submitting(s)
  BY DEF Submitting, SameSubmits
<1>5. \A s \in held : s \in made /\ ~Submitting(s)
  BY DEF BoxInv, SubmitsSomething, Submitting
<1>6. ASSUME NEW s \in Subs
      PROVE  frees'[s] = IF s \in made' /\ s \notin held' /\ ~Submitting(s)' THEN 1 ELSE 0
  <2>1. frees[s] = IF s \in made /\ s \notin held /\ ~Submitting(s) THEN 1 ELSE 0
    BY DEF BoxInv, BoxHasOneOwner
  <2>2. CASE s \in S
    BY <1>1, <1>4, <1>5, <2>1, <2>2
  <2>3. CASE s \notin S
    BY <1>1, <1>4, <2>1, <2>3
  <2> QED BY <2>2, <2>3
<1> QED BY <1>1, <1>2, <1>3, <1>6 DEF BoxInv, BoxHasOneOwner

(* A new event: LibOSDP holds its box, or it is freed at once.             *)
LEMMA BoxSubmit ==
  ASSUME TypeOK, BoxInv, UNCHANGED stack, NEW s \in Subs, NEW accepted \in BOOLEAN,
         C_Submit(s, accepted), IF accepted THEN UNCHANGED frees ELSE Reclaim(s)
  PROVE  BoxInv'
<1>1. /\ s \notin made /\ made' = made \union {s}
      /\ held' = IF accepted THEN held \union {s} ELSE held
  BY DEF C_Submit
<1>2. s \notin held /\ ~Submitting(s)
  BY <1>1 DEF BoxInv, SubmitsSomething, Submitting
<1>3. SubmitsSomething' /\ SubmitsOnce' /\ held' \subseteq made'
  BY <1>1 DEF BoxInv, SubmitsSomething, SubmitsOnce
<1>4. \A t \in Subs : Submitting(t)' <=> Submitting(t)
  BY DEF Submitting
<1>5. ASSUME NEW t \in Subs
      PROVE  frees'[t] = IF t \in made' /\ t \notin held' /\ ~Submitting(t)' THEN 1 ELSE 0
  <2>1. frees[t] = IF t \in made /\ t \notin held /\ ~Submitting(t) THEN 1 ELSE 0
    BY DEF BoxInv, BoxHasOneOwner
  <2>2. CASE accepted
    BY <1>1, <1>4, <2>1, <2>2
  <2>3. CASE ~accepted
    <3>1. frees' = [frees EXCEPT ![s] = @ + 1]
      BY <2>3 DEF Reclaim
    <3>2. CASE t = s
      BY <1>1, <1>2, <1>4, <2>1, <2>3, <3>1, <3>2 DEF TypeOK
    <3>3. CASE t # s
      BY <1>1, <1>4, <2>1, <2>3, <3>1, <3>3 DEF TypeOK
    <3> QED BY <3>2, <3>3
  <2> QED BY <2>2, <2>3
<1> QED BY <1>3, <1>5 DEF BoxInv, BoxHasOneOwner

(* A submit begins: until it returns, a refused box is its own.            *)
LEMMA BoxBegins ==
  ASSUME TypeOK, BoxInv, NEW s \in Subs, NEW accepted \in BOOLEAN, SubmitBegin(s, accepted)
  PROVE  BoxInv'
<1> DEFINE frame == Waking("submit", s, wakeups, accepted)
<1>1. /\ s \notin made /\ made' = made \union {s} /\ stack' = Push(frame)
      /\ held' = (IF accepted THEN held \union {s} ELSE held) /\ frees' = frees
  BY DEF SubmitBegin, C_Submit
<1>2. frame \in Frame /\ frame.op = "submit" /\ frame.sub = s /\ frame.accepted = accepted
  BY FrameTypes DEF Waking, TypeOK
<1> HIDE DEF frame
<1>3. /\ Len(stack) \in Nat /\ Len(stack') = Len(stack) + 1
      /\ \A i \in 1 .. Len(stack) : stack'[i] = stack[i]
      /\ stack'[Len(stack) + 1] = frame
  BY <1>1, <1>2, PushFrame, LenProperties DEF TypeOK
<1>4. /\ \A i \in 1 .. Len(stack') : i \in 1 .. Len(stack) \/ i = Len(stack) + 1
      /\ \A i \in 1 .. Len(stack) : i \in 1 .. Len(stack')
      /\ Len(stack) + 1 \in 1 .. Len(stack')
  BY <1>3
<1>5. s \notin held /\ \A i \in 1 .. Len(stack) : stack[i].op = "submit" => stack[i].sub # s
  BY <1>1 DEF BoxInv, SubmitsSomething
<1>6. SubmitsSomething'
  BY <1>1, <1>2, <1>3, <1>4, <1>5 DEF BoxInv, SubmitsSomething
<1>7. SubmitsOnce'
  <2> SUFFICES ASSUME NEW i \in 1 .. Len(stack'), NEW j \in 1 .. Len(stack'),
                      stack'[i].op = "submit", stack'[j].op = "submit",
                      stack'[i].sub = stack'[j].sub
               PROVE  i = j
    BY DEF SubmitsOnce
  <2>1. CASE i \in 1 .. Len(stack) /\ j \in 1 .. Len(stack)
    BY <1>3, <2>1 DEF BoxInv, SubmitsOnce
  <2>2. CASE i = Len(stack) + 1 \/ j = Len(stack) + 1
    BY <1>2, <1>3, <1>4, <1>5, <2>2
  <2> QED BY <1>4, <2>1, <2>2
<1>8. \A t \in Subs : t # s => (Submitting(t)' <=> Submitting(t))
  BY <1>2, <1>3, <1>4 DEF Submitting
<1>9. Submitting(s)' <=> ~accepted
  BY <1>2, <1>3, <1>4, <1>5 DEF Submitting
<1>10. ASSUME NEW t \in Subs
       PROVE  frees'[t] = IF t \in made' /\ t \notin held' /\ ~Submitting(t)' THEN 1 ELSE 0
  <2>1. frees[t] = IF t \in made /\ t \notin held /\ ~Submitting(t) THEN 1 ELSE 0
    BY DEF BoxInv, BoxHasOneOwner
  <2>2. CASE t = s
    BY <1>1, <1>9, <2>1, <2>2
  <2>3. CASE t # s
    BY <1>1, <1>8, <2>1, <2>3
  <2> QED BY <2>2, <2>3
<1>11. held' \subseteq made'
  BY <1>1 DEF BoxInv
<1> QED BY <1>6, <1>7, <1>10, <1>11 DEF BoxInv, BoxHasOneOwner

(* A submit returns: a box that LibOSDP refused is freed only now.         *)
LEMMA BoxReturns == ASSUME TypeOK, BoxInv, SubmitReturns PROVE BoxInv'
<1>1. /\ stack # <<>> /\ Top.op = "submit" /\ stack' = Caller
      /\ UNCHANGED <<made, held>>
  BY DEF SubmitReturns, Woken, WokeAll, InPhase
<1>2. /\ Len(stack) \in Nat \ {0} /\ Len(stack') = Len(stack) - 1
      /\ \A i \in 1 .. Len(stack) - 1 : stack'[i] = stack[i]
      /\ stack[Len(stack)] = Top /\ Top \in Frame
  BY <1>1, TopFrame DEF TypeOK, Top
<1>3. /\ \A i \in 1 .. Len(stack) : i \in 1 .. Len(stack') \/ i = Len(stack)
      /\ \A i \in 1 .. Len(stack') : i \in 1 .. Len(stack) /\ i # Len(stack)
      /\ Len(stack) \in 1 .. Len(stack)
  BY <1>2
<1>4. \A i \in 1 .. Len(stack') : stack'[i] = stack[i]
  BY <1>2
<1>5. SubmitsSomething' /\ SubmitsOnce'
  BY <1>1, <1>3, <1>4 DEF BoxInv, SubmitsSomething, SubmitsOnce
<1>6. Top.sub \in made /\ (~Top.accepted => Top.sub \notin held)
  BY <1>1, <1>2, <1>3 DEF BoxInv, SubmitsSomething
<1>7. PICK s \in Subs : s = Top.sub
  BY <1>6 DEF TypeOK
<1>8. \A t \in Subs : t # s => (Submitting(t)' <=> Submitting(t))
  BY <1>2, <1>3, <1>4, <1>7 DEF Submitting
<1>9. ~Submitting(s)'
  BY <1>1, <1>2, <1>3, <1>4, <1>7 DEF Submitting, BoxInv, SubmitsOnce
<1>10. Submitting(s) <=> ~Top.accepted
  <2>1. ASSUME Submitting(s) PROVE ~Top.accepted
    BY <1>1, <1>2, <1>3, <1>7, <2>1 DEF Submitting, BoxInv, SubmitsOnce
  <2> QED BY <1>1, <1>2, <1>3, <1>7, <2>1 DEF Submitting
<1>11. ASSUME NEW t \in Subs
       PROVE  frees'[t] = IF t \in made' /\ t \notin held' /\ ~Submitting(t)' THEN 1 ELSE 0
  <2>1. frees[t] = IF t \in made /\ t \notin held /\ ~Submitting(t) THEN 1 ELSE 0
    BY DEF BoxInv, BoxHasOneOwner
  <2>2. CASE Top.accepted
    <3>1. frees' = frees
      BY <2>2 DEF SubmitReturns
    <3> QED BY <1>1, <1>8, <1>9, <1>10, <2>1, <2>2, <3>1
  <2>3. CASE ~Top.accepted
    <3>1. frees' = [frees EXCEPT ![s] = @ + 1]
      BY <1>7, <2>3 DEF SubmitReturns, Reclaim
    <3>2. CASE t = s
      BY <1>1, <1>6, <1>7, <1>9, <1>10, <2>1, <2>3, <3>1, <3>2 DEF TypeOK
    <3>3. CASE t # s
      BY <1>1, <1>8, <2>1, <3>1, <3>3 DEF TypeOK
    <3> QED BY <3>2, <3>3
  <2> QED BY <2>2, <2>3
<1>12. held' \subseteq made'
  BY <1>1 DEF BoxInv
<1> QED BY <1>5, <1>11, <1>12 DEF BoxInv, BoxHasOneOwner

-----------------------------------------------------------------------------
(* The boxes: every step preserves the invariant.                          *)

LEMMA BoxLib ==
  ASSUME TypeOK, HandlerInv, BoxInv, LibNext \/ HandlerEnds
  PROVE  BoxInv'
<1>0. ASSUME stack # <<>>, Top.phase \in {"c", "handler", "drop"}
      PROVE  Top.op # "submit"
  BY <1>0, Holders
<1>1. ASSUME C_Notify PROVE BoxInv'
  BY <1>1, SubmitsUnmoved, BoxSame DEF C_Notify
<1>2. ASSUME NEW s \in Subs, NEW outcome \in {"ok", "failed"}, C_Complete(s, outcome)
      PROVE  BoxInv'
  <2>1. Complete({s}, outcome) /\ {s} \in SUBSET held /\ UNCHANGED <<stack, made>>
    BY <1>2 DEF C_Complete, CompleteDeferring
  <2> QED BY <2>1, SubmitsUnmoved, BoxComplete
<1>3. ASSUME Command PROVE BoxInv'
  <2> DEFINE frame == Running("refresh", "handler", slot)
  <2>1. /\ stack # <<>> /\ Top.op # "submit" /\ stack' = Advance(frame)
        /\ UNCHANGED <<made, held, frees>>
    BY <1>0, <1>3 DEF Command, Refreshing, InPhase
  <2>2. frame \in Frame /\ frame.op # "submit"
    BY FrameTypes DEF Running, TypeOK
  <2> HIDE DEF frame
  <2> QED BY <2>1, <2>2, SubmitsAdvance, BoxSame
<1>4. ASSUME HandlerReturns PROVE BoxInv'
  <2>0. /\ stack # <<>> /\ Top.op # "submit" /\ Top.handler \in Handlers \union {None}
        /\ UNCHANGED <<made, held, frees>>
    BY <1>0, <1>4, TopFrame DEF HandlerReturns, InPhase, TypeOK, Frame
  <2>1. PICK frame \in {Running("refresh", "c", None), Running("refresh", "drop", Top.handler)} :
          stack' = Advance(frame)
    BY <1>4 DEF HandlerReturns
  <2>2. frame \in Frame /\ frame.op # "submit"
    BY <2>0, <2>1, FrameTypes DEF Running
  <2> QED BY <2>0, <2>1, <2>2, SubmitsAdvance, BoxSame
<1>5. ASSUME HandlerDropped PROVE BoxInv'
  <2> DEFINE frame == Running("refresh", "c", None)
  <2>1. /\ stack # <<>> /\ Top.op # "submit"
        /\ stack' = Advance(frame) \/ stack' = Caller
        /\ UNCHANGED <<made, held, frees>>
    BY <1>0, <1>5 DEF HandlerDropped, InPhase
  <2>2. frame \in Frame /\ frame.op # "submit"
    BY FrameTypes DEF Running
  <2> HIDE DEF frame
  <2> QED BY <2>1, <2>2, SubmitsAdvance, SubmitsReturn, BoxSame
<1> QED BY <1>1, <1>2, <1>3, <1>4, <1>5 DEF LibNext, HandlerEnds

LEMMA BoxUnwind == ASSUME TypeOK, HandlerInv, BoxInv, Unwind PROVE BoxInv'
<1>1. ASSUME NEW s \in Subs, WakeNext(s) PROVE BoxInv'
  <2> DEFINE frame == [Top EXCEPT !.phase = "waker", !.todo = @ \ {s}]
  <2>1. /\ stack # <<>> /\ Top \in Frame /\ stack' = Advance(frame)
        /\ UNCHANGED <<made, held, frees>>
    BY <1>1, TopFrame DEF WakeNext, InPhase, TypeOK
  <2>2. /\ frame \in Frame /\ frame.op = Top.op /\ frame.sub = Top.sub
        /\ frame.accepted = Top.accepted
    BY <2>1 DEF Frame
  <2> HIDE DEF frame
  <2> QED BY <2>1, <2>2, SubmitsAdvance, BoxSame
<1>2. ASSUME WakeStream PROVE BoxInv'
  <2> DEFINE frame == [Top EXCEPT !.phase = "stream"]
  <2>1. /\ stack # <<>> /\ Top \in Frame /\ stack' = Advance(frame)
        /\ UNCHANGED <<made, held, frees>>
    BY <1>2, TopFrame DEF WakeStream, WokeAll, InPhase, TypeOK
  <2>2. /\ frame \in Frame /\ frame.op = Top.op /\ frame.sub = Top.sub
        /\ frame.accepted = Top.accepted
    BY <2>1 DEF Frame
  <2> HIDE DEF frame
  <2> QED BY <2>1, <2>2, SubmitsAdvance, BoxSame
<1>3. ASSUME RefreshReturns PROVE BoxInv'
  <2> DEFINE frame == Waking("refresh", None, wakeups, FALSE)
  <2>1. /\ stack # <<>> /\ Top.op # "submit" /\ stack' = Advance(frame)
        /\ UNCHANGED <<made, held, frees>>
    BY <1>3, Holders DEF RefreshReturns, Refreshing, InPhase
  <2>2. frame \in Frame /\ frame.op # "submit"
    BY FrameTypes DEF Waking, TypeOK
  <2> HIDE DEF frame
  <2> QED BY <2>1, <2>2, SubmitsAdvance, BoxSame
<1>4. ASSUME CallReturns PROVE BoxInv'
  <2>1. /\ stack # <<>> /\ Top.op # "submit" /\ stack' = Caller
        /\ UNCHANGED <<made, held, frees>>
    BY <1>4 DEF CallReturns, Woken, WokeAll, InPhase
  <2> QED BY <2>1, SubmitsReturn, BoxSame
<1> QED BY <1>1, <1>2, <1>3, <1>4, BoxReturns DEF Unwind

LEMMA BoxApp == ASSUME TypeOK, HandlerInv, BoxInv, AppNext PROVE BoxInv'
<1>1. ASSUME NEW frame \in Frame, stack' = Push(frame), frame.op # "submit",
             UNCHANGED <<made, held, frees>>
      PROVE  BoxInv'
  BY <1>1, SubmitsPush, BoxSame
<1>2. ASSUME NEW h \in Handlers, SetHandler(h) PROVE BoxInv'
  <2>1. CASE slot = None
    BY <1>2, <2>1, SubmitsUnmoved, BoxSame DEF SetHandler
  <2>2. CASE slot # None
    <3>1. Running("set", "drop", slot) \in Frame /\ Running("set", "drop", slot).op # "submit"
      BY FrameTypes DEF Running, TypeOK
    <3>2. /\ stack' = Push(Running("set", "drop", slot))
          /\ UNCHANGED <<made, held, frees>>
      BY <1>2, <2>2 DEF SetHandler
    <3> QED BY <1>1, <3>1, <3>2
  <2> QED BY <2>1, <2>2
<1>3. ASSUME RefreshBegin PROVE BoxInv'
  <2>1. Running("refresh", "c", None) \in Frame /\ Running("refresh", "c", None).op # "submit"
    BY FrameTypes DEF Running
  <2>2. stack' = Push(Running("refresh", "c", None)) /\ UNCHANGED <<made, held, frees>>
    BY <1>3 DEF RefreshBegin
  <2> QED BY <1>1, <2>1, <2>2
<1>4. ASSUME NEW s \in Subs, NEW accepted \in BOOLEAN,
             Reply(s, accepted) \/ SubmitInCallback(s, accepted)
      PROVE  BoxInv'
  <2>1. /\ C_Submit(s, accepted) /\ UNCHANGED stack
        /\ IF accepted THEN UNCHANGED frees ELSE Reclaim(s)
    BY <1>4 DEF Reply, SubmitInCallback
  <2> QED BY <2>1, BoxSubmit
<1>5. ASSUME FlushInCallback PROVE BoxInv'
  <2>1. Complete(held, "flushed") /\ UNCHANGED <<stack, made>>
    BY <1>5 DEF FlushInCallback, CompleteDeferring
  <2> QED BY <2>1, SubmitsUnmoved, BoxComplete
<1>6. ASSUME Flush PROVE BoxInv'
  <2> DEFINE frame == Waking("flush", None, Deferred(held), FALSE)
  <2>1. Complete(held, "flushed") /\ stack' = Push(frame) /\ UNCHANGED made
    BY <1>6 DEF Flush
  <2>2. Deferred(held) \in SUBSET Subs
    BY DEF Deferred, TypeOK
  <2>3. frame \in Frame /\ frame.op # "submit"
    BY <2>2, FrameTypes DEF Waking
  <2> HIDE DEF frame
  <2> QED BY <2>1, <2>3, SubmitsPush, BoxComplete
<1>7. ASSUME NEW s \in Subs, Poll(s) \/ DropHandle(s) PROVE BoxInv'
  BY <1>7, SubmitsUnmoved, BoxSame DEF Poll, DropHandle
<1>8. ASSUME NextNotification \/ ParkStream PROVE BoxInv'
  BY <1>8, SubmitsUnmoved, BoxSame DEF NextNotification, ParkStream
<1>9. ASSUME DropContext PROVE BoxInv'
  <2>1. Complete(held, "aborted") /\ UNCHANGED <<stack, made>>
    BY <1>9 DEF DropContext
  <2> QED BY <2>1, SubmitsUnmoved, BoxComplete
<1> QED
  BY <1>2, <1>3, <1>4, <1>5, <1>6, <1>7, <1>8, <1>9, BoxBegins DEF AppNext

LEMMA BoxesOwned == Spec => []BoxInv
<1>1. Init => BoxInv
  <2> SUFFICES ASSUME Init PROVE BoxInv
    OBVIOUS
  <2>1. 1 .. Len(stack) = {}
    BY EmptySeq DEF Init
  <2> QED BY <2>1 DEF Init, BoxInv, SubmitsSomething, SubmitsOnce, BoxHasOneOwner, Submitting
<1>2. TypeOK /\ HandlerInv /\ BoxInv /\ [Next]_vars => BoxInv'
  <2> SUFFICES ASSUME TypeOK, HandlerInv, BoxInv, [Next]_vars PROVE BoxInv'
    OBVIOUS
  <2>1. CASE UNCHANGED vars
    BY <2>1, SubmitsUnmoved, BoxSame
  <2> QED BY <2>1, BoxLib, BoxUnwind, BoxApp DEF Next
<1> QED BY <1>1, <1>2, TypeCorrect, HandlersFollowed, PTL DEF Spec

(* The box of an event is freed exactly once, and never while LibOSDP or   *)
(* the submitting call still uses it (PeripheralDevice::submit,            *)
(* Responder::reply, RawSubmission::reclaim and complete).                 *)
THEOREM BoxFreedOnce == Spec => []BoxHasOneOwner
<1>1. BoxInv => BoxHasOneOwner
  BY DEF BoxInv
<1> QED BY <1>1, BoxesOwned, PTL

-----------------------------------------------------------------------------
(* PeripheralDevice implements Submissions.                                *)

(* An event that has ended is freed: so it is nobody's, and never refused. *)
EndedIsFreed == \A s \in Subs : status[s] # "none" => frees[s] > 0

(* Where each event is in its life.                                        *)
LEMMA OutcomeOf ==
  ASSUME TypeOK, BoxInv, EndedIsFreed, NEW s \in Subs
  PROVE  /\ s \in held => outcomeOf[s] = "pending"
         /\ s \notin made => outcomeOf[s] = "idle"
         /\ Submitting(s) => outcomeOf[s] = "idle"
<1>1. frees[s] = IF s \in made /\ s \notin held /\ ~Submitting(s) THEN 1 ELSE 0
  BY DEF BoxInv, BoxHasOneOwner
<1>2. Submitting(s) => s \notin held
  BY DEF BoxInv, SubmitsSomething, Submitting
<1>3. held \subseteq made
  BY DEF BoxInv
<1>4. s \in held \/ s \notin made \/ Submitting(s) => frees[s] = 0 /\ status[s] = "none"
  BY <1>1 DEF EndedIsFreed
<1> QED BY <1>2, <1>3, <1>4 DEF outcomeOf

LEMMA PromiseSame ==
  ASSUME UNCHANGED <<status, held, frees>>
  PROVE  UNCHANGED Promise!vars
BY DEF Promise!vars, outcomeOf, noReply

LEMMA PromiseEnds ==
  ASSUME TypeOK, BoxInv, EndedIsFreed, NEW S \in SUBSET held, NEW how \in Outcomes,
         Complete(S, how)
  PROVE  [Promise!Next]_Promise!vars
<1>1. /\ status' = [s \in Subs |-> IF s \in S THEN how ELSE status[s]]
      /\ held' = held \ S
      /\ frees' = [s \in Subs |-> IF s \in S THEN frees[s] + 1 ELSE frees[s]]
      /\ S \subseteq Subs /\ how # "none"
  BY DEF Complete, TypeOK, Outcomes
<1>2. CASE S = {}
  <2>1. outcomeOf' = outcomeOf
    BY <1>1, <1>2 DEF outcomeOf, TypeOK
  <2> QED BY <2>1 DEF Promise!vars, noReply
<1>3. CASE S # {}
  <2>1. S \subseteq Promise!Pending
    BY <1>1, OutcomeOf DEF Promise!Pending
  <2>2. outcomeOf' = [s \in Subs |-> IF s \in S THEN how ELSE outcomeOf[s]]
    BY <1>1 DEF outcomeOf
  <2>3. Promise!End(S, how)
    BY <1>3, <2>1, <2>2 DEF Promise!End, noReply
  <2>4. how \in Promise!Ends
    BY DEF Promise!Ends, Outcomes
  <2>5. Promise!Next
    BY <1>1, <2>3, <2>4 DEF Promise!Next
  <2> QED BY <2>5
<1> QED BY <1>2, <1>3

LEMMA PromiseRefused ==
  ASSUME TypeOK, BoxInv, EndedIsFreed, NEW s \in Subs, s \notin made \/ Submitting(s),
         Reclaim(s), UNCHANGED <<status, held>>
  PROVE  [Promise!Next]_Promise!vars
<1>1. outcomeOf[s] = "idle"
  BY OutcomeOf
<1>2. status[s] = "none" /\ s \notin held /\ frees[s] = 0
  <2>1. frees[s] = 0 /\ s \notin held
    BY DEF BoxInv, BoxHasOneOwner, SubmitsSomething, Submitting
  <2> QED BY <2>1 DEF EndedIsFreed
<1>3. frees'[s] = 1 /\ \A t \in Subs : t # s => frees'[t] = frees[t]
  BY <1>2 DEF Reclaim, TypeOK
<1>4. outcomeOf' = [outcomeOf EXCEPT ![s] = "refused"]
  <2>1. outcomeOf' = [t \in Subs |-> IF t = s THEN "refused" ELSE outcomeOf[t]]
    BY <1>2, <1>3 DEF outcomeOf
  <2> QED BY <2>1 DEF outcomeOf
<1>5. Promise!Refuse(s)
  BY <1>1, <1>4 DEF Promise!Refuse, noReply
<1> QED BY <1>5 DEF Promise!Next

LEMMA PromiseAccepted ==
  ASSUME TypeOK, BoxInv, EndedIsFreed, NEW s \in Subs, s \notin made,
         held' = held \union {s}, UNCHANGED <<status, frees>>
  PROVE  [Promise!Next]_Promise!vars
<1>1. outcomeOf[s] = "idle"
  BY OutcomeOf
<1>2. status[s] = "none"
  BY DEF BoxInv, BoxHasOneOwner, EndedIsFreed
<1>3. outcomeOf' = [outcomeOf EXCEPT ![s] = "pending"]
  BY <1>2 DEF outcomeOf
<1>4. noReply' = [noReply EXCEPT ![s] = "none"]
  BY DEF noReply
<1>5. Promise!Accept(s)
  BY <1>1, <1>3, <1>4 DEF Promise!Accept, Promise!Asked, noReply
<1> QED BY <1>5 DEF Promise!Next

LEMMA PromiseSubmit ==
  ASSUME TypeOK, BoxInv, EndedIsFreed, NEW s \in Subs, NEW accepted \in BOOLEAN,
         C_Submit(s, accepted), IF accepted THEN UNCHANGED frees ELSE Reclaim(s),
         UNCHANGED status
  PROVE  [Promise!Next]_Promise!vars
<1>1. CASE accepted
  BY <1>1, PromiseAccepted DEF C_Submit
<1>2. CASE ~accepted
  BY <1>2, PromiseRefused DEF C_Submit
<1> QED BY <1>1, <1>2

LEMMA EndedInductive ==
  ASSUME TypeOK, EndedIsFreed, [Next]_vars
  PROVE  EndedIsFreed'
<1>1. ASSUME NEW S \in SUBSET Subs, NEW how, Complete(S, how) PROVE EndedIsFreed'
  BY <1>1 DEF Complete, EndedIsFreed, TypeOK
<1>2. ASSUME UNCHANGED status, NEW s \in Subs, UNCHANGED frees \/ Reclaim(s)
      PROVE  EndedIsFreed'
  BY <1>2 DEF Reclaim, EndedIsFreed, TypeOK
<1>3. ASSUME UNCHANGED <<status, frees>> PROVE EndedIsFreed'
  BY <1>3 DEF EndedIsFreed
<1>4. held \in SUBSET Subs /\ \A s \in held : {s} \in SUBSET Subs
  BY DEF TypeOK
<1>5. ASSUME LibNext PROVE EndedIsFreed'
  BY <1>1, <1>3, <1>4, <1>5 DEF LibNext, C_Notify, C_Complete, CompleteDeferring, Command
<1>6. ASSUME HandlerEnds PROVE EndedIsFreed'
  BY <1>3, <1>6 DEF HandlerEnds, HandlerReturns, HandlerDropped
<1>7. ASSUME SubmitReturns PROVE EndedIsFreed'
  <2>1. UNCHANGED status /\ (UNCHANGED frees \/ frees' = [frees EXCEPT ![Top.sub] = @ + 1])
    BY <1>7 DEF SubmitReturns, Reclaim
  <2>2. frees \in [Subs -> Nat]
    BY DEF TypeOK
  <2>3. \A s \in Subs : frees[s] > 0 => frees'[s] > 0
    BY <2>1, <2>2
  <2> QED BY <2>1, <2>3 DEF EndedIsFreed
<1>8. ASSUME Unwind PROVE EndedIsFreed'
  BY <1>3, <1>7, <1>8 DEF Unwind, WakeNext, WakeStream, RefreshReturns, CallReturns
<1>9. ASSUME NEW s \in Subs, NEW accepted \in BOOLEAN,
             Reply(s, accepted) \/ SubmitInCallback(s, accepted) \/ SubmitBegin(s, accepted)
      PROVE  EndedIsFreed'
  BY <1>2, <1>9 DEF Reply, SubmitInCallback, SubmitBegin
<1>10. ASSUME FlushInCallback \/ Flush \/ DropContext PROVE EndedIsFreed'
  BY <1>1, <1>4, <1>10 DEF FlushInCallback, CompleteDeferring, Flush, DropContext
<1>11. ASSUME NEW s \in Subs, Poll(s) \/ DropHandle(s) PROVE EndedIsFreed'
  BY <1>3, <1>11 DEF Poll, DropHandle
<1>12. ASSUME NEW h \in Handlers, SetHandler(h) PROVE EndedIsFreed'
  BY <1>3, <1>12 DEF SetHandler
<1>13. ASSUME RefreshBegin \/ NextNotification \/ ParkStream PROVE EndedIsFreed'
  BY <1>3, <1>13 DEF RefreshBegin, NextNotification, ParkStream
<1>14. CASE UNCHANGED vars
  BY <1>3, <1>14
<1> QED
  BY <1>5, <1>6, <1>8, <1>9, <1>10, <1>11, <1>12, <1>13, <1>14 DEF Next, AppNext

LEMMA EndedFreed == Spec => []EndedIsFreed
<1>1. Init => EndedIsFreed
  BY DEF Init, EndedIsFreed
<1> QED BY <1>1, EndedInductive, TypeCorrect, PTL DEF Spec

(* Every step is a step of Submissions, or none of its business.           *)
LEMMA PromiseStep ==
  ASSUME TypeOK, BoxInv, EndedIsFreed, [Next]_vars
  PROVE  [Promise!Next]_Promise!vars
<1>1. ASSUME NEW s \in Subs, NEW outcome \in {"ok", "failed"}, C_Complete(s, outcome)
      PROVE  [Promise!Next]_Promise!vars
  <2>1. Complete({s}, outcome) /\ {s} \in SUBSET held /\ outcome \in Outcomes
    BY <1>1 DEF C_Complete, CompleteDeferring, Outcomes
  <2> QED BY <2>1, PromiseEnds
<1>2. ASSUME C_Notify \/ Command \/ HandlerEnds PROVE [Promise!Next]_Promise!vars
  BY <1>2, PromiseSame DEF C_Notify, Command, HandlerEnds, HandlerReturns, HandlerDropped
<1>3. ASSUME SubmitReturns PROVE [Promise!Next]_Promise!vars
  <2>1. CASE Top.accepted
    BY <1>3, <2>1, PromiseSame DEF SubmitReturns
  <2>2. CASE ~Top.accepted
    <3>1. /\ stack # <<>> /\ Top.op = "submit" /\ Reclaim(Top.sub)
          /\ UNCHANGED <<status, held>>
      BY <1>3, <2>2 DEF SubmitReturns, Woken, WokeAll, InPhase
    <3>2. Len(stack) \in 1 .. Len(stack) /\ stack[Len(stack)] = Top
      BY <3>1, TopFrame DEF TypeOK, Top
    <3>3. Top.sub \in Subs /\ Submitting(Top.sub)
      BY <2>2, <3>1, <3>2 DEF BoxInv, SubmitsSomething, Submitting, TypeOK
    <3> QED BY <3>1, <3>3, PromiseRefused
  <2> QED BY <2>1, <2>2
<1>4. ASSUME NEW s \in Subs, WakeNext(s) PROVE [Promise!Next]_Promise!vars
  BY <1>4, PromiseSame DEF WakeNext
<1>5. ASSUME WakeStream \/ RefreshReturns \/ CallReturns PROVE [Promise!Next]_Promise!vars
  BY <1>5, PromiseSame DEF WakeStream, RefreshReturns, CallReturns
<1>6. ASSUME NEW s \in Subs, NEW accepted \in BOOLEAN,
             Reply(s, accepted) \/ SubmitInCallback(s, accepted)
      PROVE  [Promise!Next]_Promise!vars
  <2>1. /\ C_Submit(s, accepted) /\ UNCHANGED status
        /\ IF accepted THEN UNCHANGED frees ELSE Reclaim(s)
    BY <1>6 DEF Reply, SubmitInCallback
  <2> QED BY <2>1, PromiseSubmit
<1>7. ASSUME NEW s \in Subs, NEW accepted \in BOOLEAN, SubmitBegin(s, accepted)
      PROVE  [Promise!Next]_Promise!vars
  <2>1. CASE accepted
    BY <1>7, <2>1, PromiseAccepted DEF SubmitBegin, C_Submit
  <2>2. CASE ~accepted
    BY <1>7, <2>2, PromiseSame DEF SubmitBegin, C_Submit
  <2> QED BY <2>1, <2>2
<1>8. held \in SUBSET held /\ "flushed" \in Outcomes /\ "aborted" \in Outcomes
  BY DEF Outcomes
<1>9. ASSUME FlushInCallback \/ Flush \/ DropContext PROVE [Promise!Next]_Promise!vars
  BY <1>8, <1>9, PromiseEnds DEF FlushInCallback, CompleteDeferring, Flush, DropContext
<1>10. ASSUME NEW s \in Subs, Poll(s) \/ DropHandle(s) PROVE [Promise!Next]_Promise!vars
  BY <1>10, PromiseSame DEF Poll, DropHandle
<1>11. ASSUME NEW h \in Handlers, SetHandler(h) PROVE [Promise!Next]_Promise!vars
  BY <1>11, PromiseSame DEF SetHandler
<1>12. ASSUME RefreshBegin \/ NextNotification \/ ParkStream
       PROVE  [Promise!Next]_Promise!vars
  BY <1>12, PromiseSame DEF RefreshBegin, NextNotification, ParkStream
<1>13. CASE UNCHANGED vars
  BY <1>13, PromiseSame
<1> QED
  BY <1>1, <1>2, <1>3, <1>4, <1>5, <1>6, <1>7, <1>9, <1>10, <1>11, <1>12, <1>13
  DEF Next, LibNext, Unwind, AppNext

LEMMA PromiseSteps == Spec => [][Promise!Next]_Promise!vars
BY PromiseStep, TypeCorrect, BoxesOwned, EndedFreed, PTL DEF Spec

(* Whatever handlers, wakers and destructors call, an event is refused or  *)
(* ends exactly once and keeps that outcome: PeripheralDevice implements   *)
(* Submissions (Submission, pd.rs:287-289).                                *)
THEOREM PromiseKept == Spec => KeepsPromise
<1>1. Init => Promise!Init
  BY DEF Init, Promise!Init, outcomeOf, noReply
<1> QED BY <1>1, PromiseSteps, PTL DEF Spec, KeepsPromise, Promise!Spec

(* What a handle resolved into stays.                                       *)
EndIsFinal == \A s \in Subs : status[s] # "none" => status'[s] = status[s]

(* A handle that resolved keeps its outcome, whatever flush, teardown or    *)
(* late completion follows (SlotInner::complete).                           *)
THEOREM OutcomeIsFinal == Spec => [][EndIsFinal]_vars
<1>1. ASSUME TypeOK, TypeOK', [Promise!Next]_Promise!vars PROVE EndIsFinal
  <2> SUFFICES ASSUME NEW s \in Subs, status[s] # "none" PROVE status'[s] = status[s]
    BY DEF EndIsFinal
  <2>1. /\ status[s] \in Outcomes /\ status'[s] \in Outcomes \union {"none"}
        /\ outcomeOf[s] = status[s]
    BY <1>1 DEF TypeOK, outcomeOf
  <2>2. outcomeOf[s] \notin {"pending", "idle", "refused"}
    BY <2>1 DEF Outcomes
  <2>3. outcomeOf'[s] = outcomeOf[s]
    <3>1. ASSUME NEW t \in Subs, Promise!Refuse(t) \/ Promise!Accept(t)
          PROVE  outcomeOf'[s] = outcomeOf[s]
      BY <2>2, <3>1 DEF Promise!Refuse, Promise!Accept, outcomeOf
    <3>2. ASSUME NEW t \in Subs, NEW place \in Promise!Places, Promise!Answer(t, place)
          PROVE  outcomeOf'[s] = outcomeOf[s]
      BY <3>2 DEF Promise!Answer
    <3>3. ASSUME NEW S \in SUBSET Subs, NEW how \in Promise!Ends, Promise!End(S, how)
          PROVE  outcomeOf'[s] = outcomeOf[s]
      BY <2>2, <3>3 DEF Promise!End, Promise!Pending
    <3>4. CASE UNCHANGED Promise!vars
      BY <3>4 DEF Promise!vars
    <3> QED BY <1>1, <3>1, <3>2, <3>3, <3>4 DEF Promise!Next
  <2>4. outcomeOf'[s] = IF status'[s] # "none" THEN status'[s]
                        ELSE IF s \in held' THEN "pending"
                        ELSE IF frees'[s] > 0 THEN "refused" ELSE "idle"
    BY DEF outcomeOf
  <2> QED BY <2>1, <2>2, <2>3, <2>4
<1> QED BY <1>1, PromiseSteps, TypeCorrect, PTL

=============================================================================

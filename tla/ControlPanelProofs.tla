------------------------- MODULE ControlPanelProofs -------------------------
(* Theorems about ControlPanel, for every set of PDs and submissions and   *)
(* every nesting of calls: types, no call of LibOSDP inside another, and   *)
(* no waker lost.                                                          *)
EXTENDS ControlPanel, SequenceTheorems, TLAPS

-----------------------------------------------------------------------------
(* The call stack.                                                         *)

(* A call pushed on the stack leaves those around it as they were.         *)
LEMMA PushStack ==
  ASSUME stack \in Seq(Frame),
         NEW op \in {"refresh", "submit", "flush"},
         NEW phase \in {"c", "wake", "waker", "stream"},
         NEW s \in Subs \union {None},
         NEW todo \in SUBSET Subs
  PROVE  /\ Push(op, phase, s, todo) \in Seq(Frame)
         /\ Push(op, phase, s, todo) # <<>>
         /\ Len(Push(op, phase, s, todo)) = Len(stack) + 1
         /\ \A i \in 1 .. Len(stack) : Push(op, phase, s, todo)[i] = stack[i]
         /\ Push(op, phase, s, todo)[Len(stack) + 1]
              = [op |-> op, phase |-> phase, sub |-> s, todo |-> todo,
                 accepted |-> FALSE]
<1> DEFINE frame == [op |-> op, phase |-> phase, sub |-> s, todo |-> todo,
                     accepted |-> FALSE]
<1>1. frame \in Frame
  BY DEF Frame
<1>3. Push(op, phase, s, todo) = Append(stack, frame)
  BY DEF Push
<1> HIDE DEF frame
<1>2. /\ Append(stack, frame) \in Seq(Frame)
      /\ Append(stack, frame) # <<>>
      /\ Len(Append(stack, frame)) = Len(stack) + 1
      /\ \A i \in 1 .. Len(stack) : Append(stack, frame)[i] = stack[i]
      /\ Append(stack, frame)[Len(stack) + 1] = frame
  BY <1>1, AppendProperties
<1> QED BY <1>2, <1>3 DEF frame

(* The call on top of the stack is a frame; the rest of the stack, and the *)
(* stack with another frame on top, are stacks of frames.                  *)
LEMMA TopOfStack ==
  ASSUME stack \in Seq(Frame), stack # <<>>
  PROVE  /\ Len(stack) \in Nat \ {0}
         /\ Top \in Frame
         /\ Caller \in Seq(Frame)
         /\ Len(Caller) = Len(stack) - 1
         /\ \A i \in 1 .. Len(stack) - 1 : Caller[i] = stack[i]
<1>1. Len(stack) \in Nat \ {0}
  BY EmptySeq
<1>2. \A i \in 1 .. Len(stack) : stack[i] \in Frame
  BY ElementOfSeq
<1>3. Top \in Frame
  BY <1>1, <1>2 DEF Top
<1> DEFINE n == Len(stack) - 1
<1>4. /\ n \in Int /\ 1 \in Int
      /\ \A i \in 1 .. n : stack[i] \in Frame
  BY <1>1, <1>2
<1> HIDE DEF n
<1>5. /\ SubSeq(stack, 1, n) \in Seq(Frame)
      /\ Len(SubSeq(stack, 1, n)) = IF 1 <= n THEN n - 1 + 1 ELSE 0
      /\ \A i \in 1 .. n - 1 + 1 : SubSeq(stack, 1, n)[i] = stack[1 + i - 1]
  BY <1>4, SubSeqProperties
<1>6. Caller = SubSeq(stack, 1, n)
  BY DEF Caller, n
<1>7. \A i \in 1 .. n : Caller[i] = stack[i]
  BY <1>4, <1>5, <1>6
<1>8. Len(Caller) = n
  <2>1. n \in Nat
    BY <1>1 DEF n
  <2> QED BY <1>5, <1>6, <2>1
<1> QED BY <1>1, <1>3, <1>5, <1>6, <1>7, <1>8 DEF n

LEMMA AdvanceStack ==
  ASSUME stack \in Seq(Frame), stack # <<>>,
         NEW phase \in {"c", "wake", "waker", "stream"},
         NEW todo \in SUBSET Subs, NEW accepted \in BOOLEAN
  PROVE  LET stack2 == Advance(phase, todo, accepted)
         IN  /\ stack2 \in Seq(Frame)
             /\ stack2 # <<>>
             /\ Len(stack2) = Len(stack)
             /\ stack2[Len(stack)]
                  = [op |-> Top.op, phase |-> phase, sub |-> Top.sub,
                     todo |-> todo, accepted |-> accepted]
             /\ \A i \in 1 .. Len(stack) - 1 : stack2[i] = stack[i]
<1> DEFINE frame == [op |-> Top.op, phase |-> phase, sub |-> Top.sub,
                     todo |-> todo, accepted |-> accepted]
<1> DEFINE stack2 == Advance(phase, todo, accepted)
<1>1. frame \in Frame
  BY TopOfStack DEF Frame
<1>2. stack2 = [stack EXCEPT ![Len(stack)] = frame]
  BY DEF Advance
<1> HIDE DEF frame, stack2
<1>3. Len(stack) \in 1 .. Len(stack) /\ Len(stack) # 0
  BY EmptySeq
<1>4. /\ stack2 \in Seq(Frame)
      /\ Len(stack2) = Len(stack)
      /\ \A j \in 1 .. Len(stack) :
           stack2[j] = IF j = Len(stack) THEN frame ELSE stack[j]
  BY <1>1, <1>2, <1>3, ExceptSeq
<1>5. stack2 # <<>>
  BY <1>3, <1>4, EmptySeq
<1>6. stack2[Len(stack)] = frame
  BY <1>3, <1>4
<1>7. \A i \in 1 .. Len(stack) - 1 : stack2[i] = stack[i]
  BY <1>3, <1>4
<1> QED BY <1>4, <1>5, <1>6, <1>7 DEF frame, stack2

-----------------------------------------------------------------------------
(* Type correctness.                                                       *)

USE DEF vars, controlVars, slotVars, eventVars, libVars

(* A call that moves on, or returns, leaves a stack of frames.             *)
LEMMA TypeStep ==
  ASSUME TypeOK
  PROVE  /\ \A s \in Subs : WakeNext(s) => TypeOK'
         /\ WakeStream => TypeOK'
         /\ CallReturns => TypeOK'
         /\ RefreshReturns => TypeOK'
         /\ \A accepted \in BOOLEAN : SubmitReturns(accepted) => TypeOK'
         /\ SubmitRefused => TypeOK'
         /\ SubmitAccepted => TypeOK'
<1>1. ASSUME NEW s \in Subs, WakeNext(s) PROVE TypeOK'
  <2>1. stack # <<>> /\ Top \in Frame
    BY <1>1, TopOfStack DEF WakeNext, InPhase, TypeOK
  <2>2. Top.todo \ {s} \in SUBSET Subs /\ Top.accepted \in BOOLEAN
    BY <2>1 DEF Frame
  <2>3. stack' \in Seq(Frame)
    BY <1>1, <2>1, <2>2, AdvanceStack DEF WakeNext, TypeOK
  <2> QED BY <1>1, <2>3 DEF WakeNext, TypeOK
<1>2. ASSUME WakeStream PROVE TypeOK'
  <2>1. stack # <<>> /\ Top.accepted \in BOOLEAN
    BY <1>2, TopOfStack DEF WakeStream, WokeAll, InPhase, TypeOK, Frame
  <2>2. stack' \in Seq(Frame)
    BY <1>2, <2>1, AdvanceStack DEF WakeStream, TypeOK
  <2> QED BY <1>2, <2>2 DEF WakeStream, TypeOK
<1>3. ASSUME Woken PROVE stack # <<>> /\ Caller \in Seq(Frame) /\ Top \in Frame
  <2>1. stack # <<>>
    BY <1>3 DEF Woken, WokeAll, InPhase
  <2> QED BY <2>1, TopOfStack DEF TypeOK
<1>4. ASSUME CallReturns PROVE TypeOK'
  BY <1>3, <1>4 DEF CallReturns, TypeOK
<1>5. ASSUME NEW accepted \in BOOLEAN, BeginWaking(accepted), stack # <<>>
      PROVE  stack' \in Seq(Frame) /\ wakeups' \in SUBSET Subs /\ busy' \in BOOLEAN
  BY <1>5, AdvanceStack DEF BeginWaking, TypeOK
<1>6. ASSUME RefreshReturns PROVE TypeOK'
  <2>1. stack # <<>> /\ BeginWaking(FALSE)
    BY <1>6 DEF RefreshReturns, Refreshing, InPhase
  <2> QED BY <1>5, <1>6, <2>1 DEF RefreshReturns, TypeOK
<1>7. ASSUME NEW accepted \in BOOLEAN, SubmitReturns(accepted) PROVE TypeOK'
  <2>1. stack # <<>> /\ BeginWaking(accepted)
    BY <1>7 DEF SubmitReturns, InPhase
  <2>2. held' \in [Subs -> {"out", "queued", "sent", "running"}]
    BY <1>7 DEF SubmitReturns, C_Takes, TypeOK
  <2> QED BY <1>5, <1>7, <2>1, <2>2 DEF SubmitReturns, TypeOK
<1>8. ASSUME SubmitRefused PROVE TypeOK'
  <2>1. frees' = [frees EXCEPT ![Top.sub] = @ + 1]
    BY <1>8 DEF SubmitRefused, Reclaim
  <2>2. frees' \in [Subs -> Nat]
    <3>1. CASE Top.sub \in Subs
      BY <2>1, <3>1 DEF TypeOK
    <3>2. CASE Top.sub \notin Subs
      <4>1. \A s \in Subs : frees'[s] = frees[s]
        BY <2>1, <3>2 DEF TypeOK
      <4> QED BY <2>1, <4>1 DEF TypeOK
    <3> QED BY <3>1, <3>2
  <2> QED BY <1>3, <1>8, <2>2 DEF SubmitRefused, TypeOK
<1>9. ASSUME SubmitAccepted PROVE TypeOK'
  <2>1. routes' \in [PDs -> Subs \union {None}]
    BY <1>3, <1>9 DEF SubmitAccepted, RouteReply, TypeOK, Frame, Request
  <2> QED BY <1>3, <1>9, <2>1 DEF SubmitAccepted, TypeOK
<1> QED BY <1>1, <1>2, <1>4, <1>6, <1>7, <1>8, <1>9

(* LibOSDP returns commands; their wakers are deferred.                    *)
LEMMA TypeComplete ==
  ASSUME TypeOK, NEW S, NEW outcome \in Outcomes, Complete(S, outcome)
  PROVE  /\ status' \in [Subs -> Outcomes \union {"none"}]
         /\ frees' \in [Subs -> Nat]
         /\ waker' \in [Subs -> BOOLEAN]
         /\ held' \in [Subs -> {"out", "queued", "sent", "running"}]
BY DEF Complete, TypeOK

LEMMA TypeDeferred ==
  ASSUME TypeOK, NEW S \in SUBSET Subs
  PROVE  Deferred(S) \in SUBSET Subs
BY DEF Deferred, TypeOK

(* LibOSDP's own steps.                                                    *)
LEMMA TypeLib == ASSUME TypeOK, LibNext PROVE TypeOK'
<1>1. ASSUME PushEvent
      PROVE  /\ queue' \in Seq(Nat) /\ Len(queue') <= Capacity
             /\ dropped' \in Nat /\ raised' \in Nat
  <2>1. CASE Len(queue) < Capacity
    <3>1. queue' = Append(queue, raised + 1) /\ dropped' = dropped
      BY <1>1, <2>1 DEF PushEvent
    <3>2. raised + 1 \in Nat
      BY DEF TypeOK
    <3>3. queue' \in Seq(Nat) /\ Len(queue') = Len(queue) + 1
      BY <3>1, <3>2, AppendProperties DEF TypeOK
    <3> QED BY <1>1, <2>1, <3>1, <3>2, <3>3, ConstantsAssumption, LenProperties
            DEF PushEvent, TypeOK
  <2>2. CASE ~(Len(queue) < Capacity)
    BY <1>1, <2>2 DEF PushEvent, TypeOK
  <2> QED BY <2>1, <2>2
<1>2. ASSUME C_Event PROVE TypeOK'
  BY <1>1, <1>2 DEF C_Event, TypeOK
<1>3. ASSUME NEW s \in Subs, C_Send(s) PROVE TypeOK'
  BY <1>3 DEF C_Send, TypeOK
<1>4. ASSUME NEW s \in Subs, C_BioMultipart(s) PROVE TypeOK'
  BY <1>4 DEF C_BioMultipart, TypeOK
<1>5. ASSUME NEW s \in Subs, C_Reply(s) PROVE TypeOK'
  <2>0. /\ replied' \in SUBSET Subs
        /\ routes' \in [PDs -> Subs \union {None}]
        /\ UNCHANGED <<controlVars, request, status, handle, waker, frees, wakeups,
                       asleep, held, stopping, asked, streamParked, popped, lastPopped>>
        /\ malformed' \in SUBSET replied'
    BY <1>5 DEF C_Reply, TypeOK
  <2>1. CASE Waiting(routes[request[s].pd])
    <3>1. /\ reply' = [reply EXCEPT ![routes[request[s].pd]] = s]
          /\ raised' = raised + 1 /\ UNCHANGED <<queue, dropped>>
      BY <1>5, <2>1 DEF C_Reply
    <3>2. reply' \in [Subs -> Subs \union {None}]
      BY <3>1 DEF TypeOK
    <3>3. /\ queue' \in Seq(Nat) /\ Len(queue') <= Capacity
          /\ dropped' \in Nat /\ raised' \in Nat
      BY <3>1 DEF TypeOK
    <3> QED BY <2>0, <3>2, <3>3 DEF TypeOK
  <2>2. CASE ~Waiting(routes[request[s].pd])
    <3>1. PushEvent /\ UNCHANGED reply
      BY <1>5, <2>2 DEF C_Reply
    <3> QED BY <1>1, <2>0, <3>1 DEF TypeOK
  <2> QED BY <2>1, <2>2
<1>6. ASSUME NEW s \in Subs, NEW outcome \in {"ok", "failed"}, C_Complete(s, outcome)
      PROVE  TypeOK'
  <2>1. Complete({s}, outcome) /\ wakeups' = Deferred({s}) /\ outcome \in Outcomes
    BY <1>6 DEF C_Complete, CompleteDeferring, Outcomes
  <2>2. wakeups' \in SUBSET Subs
    BY <2>1, TypeDeferred
  <2> QED BY <1>6, <2>1, <2>2, TypeComplete DEF C_Complete, TypeOK
<1>7. ASSUME NEW s \in Subs, C_MalformedReply(s) PROVE TypeOK'
  BY <1>7 DEF C_MalformedReply, TypeOK
<1> QED BY <1>2, <1>3, <1>4, <1>5, <1>6, <1>7 DEF LibNext

(* The application's operations.                                           *)
LEMMA TypeApp == ASSUME TypeOK, AppNext PROVE TypeOK'
<1>1. ASSUME RefreshBegin PROVE TypeOK'
  BY <1>1, PushStack DEF RefreshBegin, BusyEnter, TypeOK
<1>2. ASSUME NEW s \in Subs, NEW pd \in PDs, NEW kind \in Kinds, NEW wants \in BOOLEAN,
             SubmitBegin(s, pd, kind, wants)
      PROVE  TypeOK'
  <2>1. stack' \in Seq(Frame)
    BY <1>2, PushStack DEF SubmitBegin, TypeOK
  <2>2. request' \in [Subs -> Request \union {None}]
    BY <1>2, ConstantsAssumption DEF SubmitBegin, Request, TypeOK
  <2> QED BY <1>2, <2>1, <2>2 DEF SubmitBegin, BusyEnter, TypeOK
<1>3. ASSUME NEW pd \in PDs, FlushInCallback(pd) PROVE TypeOK'
  <2>1. /\ Complete(Queued(pd), "flushed") /\ wakeups' = Deferred(Queued(pd))
        /\ "flushed" \in Outcomes
    BY <1>3 DEF FlushInCallback, CompleteDeferring, Outcomes
  <2>2. wakeups' \in SUBSET Subs
    BY <2>1, TypeDeferred DEF Queued, Of
  <2> QED BY <1>3, <2>1, <2>2, TypeComplete DEF FlushInCallback, TypeOK
<1>4. ASSUME NEW pd \in PDs, Flush(pd) PROVE TypeOK'
  <2>1. Deferred(Queued(pd)) \in SUBSET Subs
    BY TypeDeferred DEF Queued, Of
  <2>2. stack' \in Seq(Frame)
    BY <1>4, <2>1, PushStack DEF Flush, TypeOK
  <2>3. Complete(Queued(pd), "flushed") /\ "flushed" \in Outcomes
    BY <1>4 DEF Flush, Outcomes
  <2> QED BY <1>4, <2>2, <2>3, TypeComplete DEF Flush, TypeOK
<1>5. ASSUME NEW s \in Subs, Cancel(s) PROVE TypeOK'
  BY <1>5 DEF Cancel, C_Running, Of, TypeOK
<1>6. ASSUME NEW s \in Subs, Poll(s) PROVE TypeOK'
  BY <1>6 DEF Poll, TypeOK
<1>7. ASSUME NEW s \in Subs, DropHandle(s) PROVE TypeOK'
  BY <1>7 DEF DropHandle, TypeOK
<1>8. ASSUME NextEvent PROVE TypeOK'
  <2>1. /\ Head(queue) \in Nat /\ Tail(queue) \in Seq(Nat)
        /\ Len(Tail(queue)) = Len(queue) - 1 /\ Len(queue) \in Nat
    BY <1>8, HeadTailProperties, LenProperties DEF NextEvent, TypeOK
  <2>2. /\ queue' \in Seq(Nat) /\ Len(queue') <= Capacity
        /\ popped' \in Nat /\ lastPopped' \in Nat
    BY <1>8, <2>1, ConstantsAssumption DEF NextEvent, TypeOK
  <2> QED BY <1>8, <2>2 DEF NextEvent, TypeOK
<1>9. ASSUME ParkStream PROVE TypeOK'
  BY <1>9 DEF ParkStream, TypeOK
<1>10. ASSUME DropContext PROVE TypeOK'
  <2>1. queue' \in Seq(Nat) /\ Len(queue') <= Capacity
    BY <1>10, EmptySeq, ConstantsAssumption DEF DropContext
  <2>2. routes' \in [PDs -> Subs \union {None}]
    BY <1>10 DEF DropContext
  <2>3. /\ status' \in [Subs -> Outcomes \union {"none"}]
        /\ frees' \in [Subs -> Nat]
        /\ waker' \in [Subs -> BOOLEAN]
        /\ held' \in [Subs -> {"out", "queued", "sent", "running"}]
    BY <1>10, TypeComplete DEF DropContext, Outcomes
  <2>4. /\ alive' \in BOOLEAN /\ streamParked' \in BOOLEAN
        /\ wakeups' \in SUBSET Subs
        /\ UNCHANGED <<busy, stack, request, reply, handle, asleep, dropped, raised,
                       popped, lastPopped, replied, malformed, stopping, asked>>
    BY <1>10 DEF DropContext
  <2> QED BY <2>1, <2>2, <2>3, <2>4 DEF TypeOK
<1> QED BY <1>1, <1>2, <1>3, <1>4, <1>5, <1>6, <1>7, <1>8, <1>9, <1>10 DEF AppNext

(* Every variable keeps its type, whatever the constants are; the queue of *)
(* events never outgrows its capacity (DrainQueue::push).                  *)
THEOREM TypeCorrect == Spec => []TypeOK
<1>1. Init => TypeOK
  <2> SUFFICES ASSUME Init PROVE TypeOK
    OBVIOUS
  <2>1. /\ queue \in Seq(Nat) /\ Len(queue) <= Capacity
        /\ stack \in Seq(Frame)
    BY EmptySeq, ConstantsAssumption DEF Init
  <2>2. /\ request \in [Subs -> Request \union {None}]
        /\ reply \in [Subs -> Subs \union {None}]
        /\ routes \in [PDs -> Subs \union {None}]
    BY DEF Init
  <2>3. /\ status \in [Subs -> Outcomes \union {"none"}]
        /\ handle \in [Subs -> {"none", "live", "dropped"}]
        /\ held \in [Subs -> {"out", "queued", "sent", "running"}]
        /\ waker \in [Subs -> BOOLEAN] /\ asleep \in [Subs -> BOOLEAN]
        /\ frees \in [Subs -> Nat]
    BY DEF Init
  <2>4. /\ alive \in BOOLEAN /\ busy \in BOOLEAN /\ streamParked \in BOOLEAN
        /\ dropped \in Nat /\ raised \in Nat /\ popped \in Nat /\ lastPopped \in Nat
        /\ wakeups \in SUBSET Subs /\ replied \in SUBSET Subs
        /\ malformed \in SUBSET replied
        /\ stopping \in SUBSET Subs /\ asked \in SUBSET Subs
    BY DEF Init
  <2> QED BY <2>1, <2>2, <2>3, <2>4 DEF TypeOK
<1>2. TypeOK /\ [Next]_vars => TypeOK'
  <2> SUFFICES ASSUME TypeOK, [Next]_vars PROVE TypeOK'
    OBVIOUS
  <2>1. CASE LibNext
    BY <2>1, TypeLib
  <2>2. CASE Unwind
    BY <2>2, TypeStep DEF Unwind
  <2>3. CASE AppNext
    BY <2>3, TypeApp
  <2>4. CASE UNCHANGED vars
    BY <2>4 DEF TypeOK
  <2> QED BY <2>1, <2>2, <2>3, <2>4 DEF Next
<1> QED BY <1>1, <1>2, PTL DEF Spec

-----------------------------------------------------------------------------
(* What the stack looks like after a call begins, moves on or returns.     *)

LEMMA AfterPush ==
  ASSUME TypeOK,
         NEW op \in {"refresh", "submit", "flush"},
         NEW phase \in {"c", "wake", "waker", "stream"},
         NEW s \in Subs \union {None},
         NEW todo \in SUBSET Subs,
         stack' = Push(op, phase, s, todo)
  PROVE  /\ stack' # <<>>
         /\ Len(stack) \in Nat /\ Len(stack') = Len(stack) + 1
         /\ \A i \in 1 .. Len(stack) : stack'[i] = stack[i]
         /\ Top' = [op |-> op, phase |-> phase, sub |-> s, todo |-> todo,
                    accepted |-> FALSE]
<1>1. stack \in Seq(Frame) /\ Len(stack) \in Nat
  BY LenProperties DEF TypeOK
<1>2. /\ stack' # <<>>
      /\ Len(stack') = Len(stack) + 1
      /\ \A i \in 1 .. Len(stack) : stack'[i] = stack[i]
      /\ stack'[Len(stack) + 1] = [op |-> op, phase |-> phase, sub |-> s, todo |-> todo,
                                  accepted |-> FALSE]
  BY <1>1, PushStack
<1>3. Top' = stack'[Len(stack) + 1]
  BY <1>2 DEF Top
<1> QED BY <1>1, <1>2, <1>3

LEMMA AfterAdvance ==
  ASSUME TypeOK, stack # <<>>,
         NEW phase \in {"c", "wake", "waker", "stream"},
         NEW todo \in SUBSET Subs, NEW accepted \in BOOLEAN,
         stack' = Advance(phase, todo, accepted)
  PROVE  /\ stack' # <<>>
         /\ Len(stack) \in Nat \ {0} /\ Len(stack') = Len(stack)
         /\ \A i \in 1 .. Len(stack) - 1 : stack'[i] = stack[i]
         /\ Top' = [op |-> Top.op, phase |-> phase, sub |-> Top.sub, todo |-> todo,
                    accepted |-> accepted]
<1>1. stack \in Seq(Frame)
  BY DEF TypeOK
<1>2. Len(stack) \in Nat \ {0}
  BY <1>1, TopOfStack
<1> QED BY <1>1, <1>2, AdvanceStack DEF Top

LEMMA AfterReturn ==
  ASSUME TypeOK, stack # <<>>, stack' = Caller
  PROVE  /\ Len(stack) \in Nat \ {0} /\ Len(stack') = Len(stack) - 1
         /\ \A i \in 1 .. Len(stack) - 1 : stack'[i] = stack[i]
         /\ stack' # <<>> => Len(stack) > 1 /\ Top' = stack[Len(stack) - 1]
<1>1. stack \in Seq(Frame)
  BY DEF TypeOK
<1>2. /\ Len(stack) \in Nat \ {0} /\ Len(stack') = Len(stack) - 1
      /\ \A i \in 1 .. Len(stack) - 1 : stack'[i] = stack[i]
      /\ stack' \in Seq(Frame)
  BY <1>1, TopOfStack
<1>3. ASSUME stack' # <<>> PROVE Len(stack) > 1 /\ Top' = stack[Len(stack) - 1]
  <2>1. Len(stack') # 0
    BY <1>2, <1>3, EmptySeq
  <2>2. Len(stack) - 1 \in 1 .. Len(stack) - 1
    BY <1>2, <2>1
  <2> QED BY <1>2, <2>2 DEF Top
<1> QED BY <1>2, <1>3

-----------------------------------------------------------------------------
(* NoNestedCall is inductive.                                              *)

(* Application code that finds the context idle was called by a waker, or  *)
(* by nobody: a call it begins is not inside one that LibOSDP runs.        *)
LEMMA NestPush ==
  ASSUME TypeOK, NoNestedCall, AppRuns, ~busy,
         NEW op \in {"refresh", "submit", "flush"}, NEW phase \in {"c", "wake"},
         NEW s \in Subs \union {None}, NEW todo \in SUBSET Subs,
         stack' = Push(op, phase, s, todo),
         busy' <=> phase = "c"
  PROVE  NoNestedCall'
<1>1. /\ stack' # <<>> /\ Len(stack) \in Nat /\ Len(stack') = Len(stack) + 1
      /\ \A i \in 1 .. Len(stack) : stack'[i] = stack[i]
      /\ Top'.phase = phase
  BY AfterPush
<1>2. busy' <=> InPhase("c")'
  BY <1>1 DEF InPhase
<1>3. ASSUME NEW i \in 1 .. Len(stack') - 1
      PROVE  stack'[i].phase \in {"waker", "stream"}
  <2>1. i \in 1 .. Len(stack) /\ stack'[i] = stack[i]
    BY <1>1, <1>3
  <2>2. CASE i = Len(stack)
    <3>1. stack # <<>> /\ stack[i] = Top
      BY <2>1, <2>2, <1>1, EmptySeq DEF Top
    <3>2. Top.phase \in {"waker", "stream"}
      BY <3>1 DEF AppRuns, NoNestedCall, InPhase
    <3> QED BY <2>1, <3>1, <3>2
  <2>3. CASE i # Len(stack)
    BY <1>1, <2>1, <2>3 DEF NoNestedCall
  <2> QED BY <2>2, <2>3
<1> QED BY <1>2, <1>3 DEF NoNestedCall

LEMMA NestAdvance ==
  ASSUME TypeOK, NoNestedCall, stack # <<>>, ~busy',
         NEW phase \in {"wake", "waker", "stream"},
         NEW todo \in SUBSET Subs, NEW accepted \in BOOLEAN,
         stack' = Advance(phase, todo, accepted)
  PROVE  NoNestedCall'
<1>1. /\ Len(stack) \in Nat /\ Len(stack') = Len(stack)
      /\ \A i \in 1 .. Len(stack) - 1 : stack'[i] = stack[i]
      /\ Top'.phase = phase
  BY AfterAdvance
<1> QED BY <1>1 DEF NoNestedCall, InPhase

LEMMA NestReturn ==
  ASSUME TypeOK, NoNestedCall, Woken, stack' = Caller, busy' = busy
  PROVE  NoNestedCall'
<1>1. stack # <<>> /\ ~busy
  BY DEF Woken, WokeAll, InPhase, NoNestedCall
<1>2. /\ Len(stack) \in Nat /\ Len(stack') = Len(stack) - 1
      /\ \A i \in 1 .. Len(stack) - 1 : stack'[i] = stack[i]
      /\ stack' # <<>> => Len(stack) > 1 /\ Top' = stack[Len(stack) - 1]
  BY <1>1, AfterReturn
<1>3. ~InPhase("c")'
  BY <1>2 DEF InPhase, NoNestedCall
<1>4. \A i \in 1 .. Len(stack') - 1 : stack'[i].phase \in {"waker", "stream"}
  BY <1>2 DEF NoNestedCall
<1> QED BY <1>1, <1>3, <1>4 DEF NoNestedCall

LEMMA NestInductive == ASSUME TypeOK, NoNestedCall, [Next]_vars PROVE NoNestedCall'
<1>1. ASSUME UNCHANGED <<busy, stack>> PROVE NoNestedCall'
  BY <1>1 DEF NoNestedCall, InPhase, Top
<1>2. CASE LibNext
  BY <1>1, <1>2 DEF LibNext, C_Event, C_Send, C_BioMultipart, C_Reply, C_MalformedReply,
     C_Complete
<1>3. CASE Unwind
  <2>1. ASSUME NEW s \in Subs, WakeNext(s) PROVE NoNestedCall'
    <3>1. /\ stack # <<>> /\ Top \in Frame /\ ~busy'
          /\ stack' = Advance("waker", Top.todo \ {s}, Top.accepted)
      BY <2>1, TopOfStack DEF WakeNext, InPhase, NoNestedCall, TypeOK
    <3>2. Top.todo \ {s} \in SUBSET Subs /\ Top.accepted \in BOOLEAN
      BY <3>1 DEF Frame
    <3> QED BY <3>1, <3>2, NestAdvance
  <2>2. ASSUME WakeStream PROVE NoNestedCall'
    <3>1. /\ stack # <<>> /\ Top \in Frame /\ ~busy'
          /\ stack' = Advance("stream", {}, Top.accepted)
      BY <2>2, TopOfStack DEF WakeStream, WokeAll, InPhase, NoNestedCall, TypeOK
    <3>2. Top.accepted \in BOOLEAN
      BY <3>1 DEF Frame
    <3> QED BY <3>1, <3>2, NestAdvance
  <2>3. ASSUME NEW accepted \in BOOLEAN, BeginWaking(accepted), stack # <<>>
        PROVE  NoNestedCall'
    BY <2>3, NestAdvance DEF BeginWaking, TypeOK
  <2>4. ASSUME RefreshReturns PROVE NoNestedCall'
    BY <2>3, <2>4 DEF RefreshReturns, Refreshing, InPhase
  <2>5. ASSUME NEW accepted \in BOOLEAN, SubmitReturns(accepted) PROVE NoNestedCall'
    BY <2>3, <2>5 DEF SubmitReturns, InPhase
  <2>6. ASSUME CallReturns \/ SubmitRefused \/ SubmitAccepted PROVE NoNestedCall'
    BY <2>6, NestReturn DEF CallReturns, SubmitRefused, SubmitAccepted
  <2> QED BY <1>3, <2>1, <2>2, <2>4, <2>5, <2>6 DEF Unwind
<1>4. CASE AppNext
  <2>1. ASSUME RefreshBegin PROVE NoNestedCall'
    BY <2>1, NestPush DEF RefreshBegin, BusyEnter
  <2>2. ASSUME NEW s \in Subs, NEW pd \in PDs, NEW kind \in Kinds,
               NEW wants \in BOOLEAN, SubmitBegin(s, pd, kind, wants)
        PROVE  NoNestedCall'
    BY <2>2, NestPush DEF SubmitBegin, BusyEnter
  <2>3. ASSUME NEW pd \in PDs, Flush(pd) PROVE NoNestedCall'
    <3>1. Deferred(Queued(pd)) \in SUBSET Subs
      BY TypeDeferred DEF Queued, Of
    <3> QED BY <2>3, <3>1, NestPush DEF Flush
  <2>4. ASSUME NEW pd \in PDs, FlushInCallback(pd) PROVE NoNestedCall'
    BY <1>1, <2>4 DEF FlushInCallback
  <2>5. ASSUME NEW s \in Subs, Cancel(s) \/ Poll(s) \/ DropHandle(s) PROVE NoNestedCall'
    BY <1>1, <2>5 DEF Cancel, Poll, DropHandle
  <2>6. ASSUME NextEvent \/ ParkStream \/ DropContext PROVE NoNestedCall'
    BY <1>1, <2>6 DEF NextEvent, ParkStream, DropContext
  <2> QED BY <1>4, <2>1, <2>2, <2>3, <2>4, <2>5, <2>6 DEF AppNext
<1>5. CASE UNCHANGED vars
  BY <1>1, <1>5
<1> QED BY <1>2, <1>3, <1>4, <1>5 DEF Next

(* LibOSDP's refresh and submit are never entered while one of them runs,  *)
(* however application code re-enters the context (busy.rs).               *)
THEOREM NeverNested == Spec => []NoNestedCall
<1>1. Init => NoNestedCall
  BY EmptySeq DEF Init, NoNestedCall, InPhase
<1>2. TypeOK /\ NoNestedCall /\ [Next]_vars => NoNestedCall'
  BY NestInductive
<1> QED BY <1>1, <1>2, TypeCorrect, PTL DEF Spec

-----------------------------------------------------------------------------
(* No waker that a ControlPanel was given is lost, neither those deferred   *)
(* by completions nor the one parked on the event stream.                   *)

(* A call has wakers to call only while wake_all goes through them.         *)
IdleTodo ==
  \A i \in 1 .. Len(stack) : stack[i].phase \in {"c", "stream"} => stack[i].todo = {}

(* A task that sleeps on a submission has its handle, and, until the        *)
(* command ends, its waker in the slot.                                     *)
AwaitsHandle == \A s \in Subs : asleep[s] => handle[s] = "live"
WakerParked  == \A s \in Subs : asleep[s] /\ status[s] = "none" => waker[s]

(* Wakers are deferred only while LibOSDP runs.                             *)
DeferredWhileBusy == ~busy => wakeups = {}

(* Events that wait for the parked stream are still to be noticed by the    *)
(* call on top of the stack.                                                *)
StreamCovered == StreamDue => stack # <<>> /\ Top.phase # "stream"

WakeInv ==
  /\ IdleTodo
  /\ AwaitsHandle
  /\ WakerParked
  /\ DeferredWhileBusy
  /\ StreamCovered
  /\ NoLostWakeup

ToBeWoken(t) == \E i \in 1 .. Len(stack) : t \in stack[i].todo

-----------------------------------------------------------------------------
(* What a change of the stack does to the wakers still to be called.        *)

LEMMA PushKeeps ==
  ASSUME TypeOK, IdleTodo,
         NEW op \in {"refresh", "submit", "flush"}, NEW phase \in {"c", "wake"},
         NEW s \in Subs \union {None}, NEW todo \in SUBSET Subs,
         phase = "c" => todo = {},
         stack' = Push(op, phase, s, todo)
  PROVE  /\ IdleTodo'
         /\ \A t \in Subs : ToBeWoken(t) \/ t \in todo => ToBeWoken(t)'
         /\ stack' # <<>> /\ Top'.phase = phase
<1>1. /\ stack' # <<>> /\ Len(stack) \in Nat /\ Len(stack') = Len(stack) + 1
      /\ \A i \in 1 .. Len(stack) : stack'[i] = stack[i]
      /\ Top'.phase = phase /\ Top'.todo = todo
  BY AfterPush
<1>2. Top' = stack'[Len(stack) + 1]
  BY <1>1 DEF Top
<1>3. IdleTodo'
  <2> SUFFICES ASSUME NEW i \in 1 .. Len(stack'), stack'[i].phase \in {"c", "stream"}
               PROVE  stack'[i].todo = {}
    BY DEF IdleTodo
  <2>1. CASE i = Len(stack) + 1
    BY <1>1, <1>2, <2>1
  <2>2. CASE i # Len(stack) + 1
    BY <1>1, <2>2 DEF IdleTodo
  <2> QED BY <2>1, <2>2
<1>4. \A t \in Subs : ToBeWoken(t) => ToBeWoken(t)'
  BY <1>1 DEF ToBeWoken
<1>5. \A t \in Subs : t \in todo => ToBeWoken(t)'
  BY <1>1, <1>2 DEF ToBeWoken
<1> QED BY <1>1, <1>3, <1>4, <1>5

LEMMA AdvanceKeeps ==
  ASSUME TypeOK, IdleTodo, stack # <<>>,
         NEW phase \in {"wake", "waker", "stream"},
         NEW todo \in SUBSET Subs, NEW accepted \in BOOLEAN,
         phase = "stream" => todo = {},
         stack' = Advance(phase, todo, accepted)
  PROVE  /\ IdleTodo'
         /\ \A t \in Subs : ToBeWoken(t) /\ (t \in Top.todo => t \in todo) => ToBeWoken(t)'
         /\ \A t \in Subs : t \in todo => ToBeWoken(t)'
         /\ stack' # <<>> /\ Top'.phase = phase
<1>1. /\ stack' # <<>> /\ Len(stack) \in Nat \ {0} /\ Len(stack') = Len(stack)
      /\ \A i \in 1 .. Len(stack) - 1 : stack'[i] = stack[i]
      /\ Top'.phase = phase /\ Top'.todo = todo
  BY AfterAdvance
<1>2. Top' = stack'[Len(stack)]
  BY <1>1 DEF Top
<1>3. IdleTodo'
  <2> SUFFICES ASSUME NEW i \in 1 .. Len(stack'), stack'[i].phase \in {"c", "stream"}
               PROVE  stack'[i].todo = {}
    BY DEF IdleTodo
  <2>1. CASE i = Len(stack)
    BY <1>1, <1>2, <2>1
  <2>2. CASE i # Len(stack)
    BY <1>1, <2>2 DEF IdleTodo
  <2> QED BY <2>1, <2>2
<1>4. \A t \in Subs : t \in todo => ToBeWoken(t)'
  BY <1>1, <1>2 DEF ToBeWoken
<1>5. ASSUME NEW t \in Subs, ToBeWoken(t), t \in Top.todo => t \in todo
      PROVE  ToBeWoken(t)'
  <2>1. PICK i \in 1 .. Len(stack) : t \in stack[i].todo
    BY <1>5 DEF ToBeWoken
  <2>2. CASE i = Len(stack)
    BY <1>4, <1>5, <2>1, <2>2 DEF Top
  <2>3. CASE i # Len(stack)
    BY <1>1, <2>1, <2>3 DEF ToBeWoken
  <2> QED BY <2>2, <2>3
<1> QED BY <1>1, <1>3, <1>4, <1>5

LEMMA ReturnKeeps ==
  ASSUME TypeOK, IdleTodo, stack # <<>>, Top.todo = {}, stack' = Caller
  PROVE  /\ IdleTodo'
         /\ \A t \in Subs : ToBeWoken(t) => ToBeWoken(t)'
<1>1. /\ Len(stack) \in Nat \ {0} /\ Len(stack') = Len(stack) - 1
      /\ \A i \in 1 .. Len(stack) - 1 : stack'[i] = stack[i]
  BY AfterReturn
<1>2. IdleTodo'
  BY <1>1 DEF IdleTodo
<1>3. ASSUME NEW t \in Subs, ToBeWoken(t) PROVE ToBeWoken(t)'
  <2>1. PICK i \in 1 .. Len(stack) : t \in stack[i].todo
    BY <1>3 DEF ToBeWoken
  <2>2. i # Len(stack)
    BY <2>1 DEF Top
  <2> QED BY <1>1, <2>1, <2>2 DEF ToBeWoken
<1> QED BY <1>2, <1>3

(* A call that has woken everybody leaves no waker behind.                  *)
LEMMA WokenTodo ==
  ASSUME TypeOK, IdleTodo, Woken
  PROVE  stack # <<>> /\ Top.todo = {}
<1>1. stack # <<>>
  BY DEF Woken, WokeAll, InPhase
<1>2. Len(stack) \in 1 .. Len(stack)
  BY <1>1, TopOfStack DEF TypeOK
<1> QED BY <1>1, <1>2 DEF Woken, WokeAll, InPhase, IdleTodo, Top

-----------------------------------------------------------------------------
(* Every step preserves the invariant.                                      *)

(* LibOSDP returns the commands in S: whoever slept on one of them has its  *)
(* waker deferred, and nobody else is disturbed.                            *)
LEMMA CompleteKeeps ==
  ASSUME TypeOK, WakeInv, NEW S \in SUBSET Subs, NEW outcome \in Outcomes,
         Complete(S, outcome), asleep' = asleep
  PROVE  /\ WakerParked'
         /\ \A s \in Subs : asleep'[s] /\ status'[s] # "none" =>
                             s \in Deferred(S) \/ ToBeWoken(s)
<1>0. outcome # "none"
  BY DEF Outcomes
<1>1. WakerParked'
  BY <1>0 DEF Complete, WakeInv, WakerParked, TypeOK
<1>2. ASSUME NEW s \in Subs, asleep'[s], status'[s] # "none"
      PROVE  s \in Deferred(S) \/ ToBeWoken(s)
  <2>1. CASE status[s] # "none"
    BY <1>2, <2>1 DEF WakeInv, NoLostWakeup, ToBeWoken, Deferred
  <2>2. CASE status[s] = "none"
    <3>1. s \in S
      BY <1>2, <2>2 DEF Complete, TypeOK
    <3>2. waker[s]
      BY <1>2, <2>2 DEF WakeInv, WakerParked
    <3> QED BY <3>1, <3>2 DEF Deferred
  <2> QED BY <2>1, <2>2
<1> QED BY <1>1, <1>2

(* A completion while LibOSDP runs.                                         *)
LEMMA WakeDeferring ==
  ASSUME TypeOK, NoNestedCall, WakeInv, busy,
         NEW S \in SUBSET Subs, NEW outcome \in Outcomes,
         CompleteDeferring(S, outcome),
         UNCHANGED <<controlVars, handle, asleep, queue, streamParked>>
  PROVE  WakeInv'
<1>1. /\ Complete(S, outcome) /\ wakeups' = Deferred(S)
  BY DEF CompleteDeferring
<1>2. WakerParked' /\ NoLostWakeup'
  BY <1>1, CompleteKeeps DEF NoLostWakeup, ToBeWoken
<1>3. IdleTodo' /\ AwaitsHandle' /\ DeferredWhileBusy' /\ StreamCovered'
  BY DEF WakeInv, IdleTodo, AwaitsHandle, DeferredWhileBusy, StreamCovered, StreamDue, Top
<1> QED BY <1>2, <1>3 DEF WakeInv

(* The steps of LibOSDP.                                                    *)
LEMMA WakeLib == ASSUME TypeOK, NoNestedCall, WakeInv, LibNext PROVE WakeInv'
<1>1. ASSUME UNCHANGED <<controlVars, status, handle, waker, wakeups, asleep, streamParked>>,
             InPhase("c")
      PROVE  WakeInv'
  <2>1. IdleTodo' /\ AwaitsHandle' /\ WakerParked' /\ DeferredWhileBusy'
    BY <1>1 DEF WakeInv, IdleTodo, AwaitsHandle, WakerParked, DeferredWhileBusy
  <2>2. NoLostWakeup'
    BY <1>1 DEF WakeInv, NoLostWakeup
  <2>3. StreamCovered'
    BY <1>1 DEF StreamCovered, InPhase, Top
  <2> QED BY <2>1, <2>2, <2>3 DEF WakeInv
<1>2. ASSUME C_Event PROVE WakeInv'
  BY <1>1, <1>2 DEF C_Event, Refreshing
<1>3. ASSUME NEW s \in Subs, C_Send(s) \/ C_BioMultipart(s) \/ C_Reply(s)
                                   \/ C_MalformedReply(s)
      PROVE  WakeInv'
  BY <1>1, <1>3 DEF C_Send, C_BioMultipart, C_Reply, C_MalformedReply, Refreshing
<1>4. ASSUME NEW s \in Subs, NEW outcome \in {"ok", "failed"}, C_Complete(s, outcome)
      PROVE  WakeInv'
  <2>1. busy /\ outcome \in Outcomes
    BY <1>4 DEF C_Complete, Refreshing, NoNestedCall, Outcomes
  <2> QED BY <1>4, <2>1, WakeDeferring DEF C_Complete
<1> QED BY <1>2, <1>3, <1>4 DEF LibNext

(* A call moves on, or returns.                                             *)
LEMMA WakeUnwind == ASSUME TypeOK, NoNestedCall, WakeInv, Unwind PROVE WakeInv'
<1>1. ASSUME NEW accepted \in BOOLEAN, BeginWaking(accepted), InPhase("c"),
             UNCHANGED <<status, handle, waker, asleep, queue, streamParked>>
      PROVE  WakeInv'
  <2>1. /\ stack # <<>> /\ wakeups \in SUBSET Subs
        /\ stack' = Advance("wake", wakeups, accepted)
        /\ IdleTodo
    BY <1>1 DEF BeginWaking, InPhase, TypeOK, WakeInv
  <2>2. Top.todo = {}
    <3>1. Len(stack) \in 1 .. Len(stack)
      BY <2>1, TopOfStack DEF TypeOK
    <3> QED BY <1>1, <2>1, <3>1 DEF IdleTodo, InPhase, Top
  <2>3. /\ IdleTodo'
        /\ \A t \in Subs : ToBeWoken(t) /\ (t \in Top.todo => t \in wakeups) => ToBeWoken(t)'
        /\ \A t \in Subs : t \in wakeups => ToBeWoken(t)'
        /\ stack' # <<>> /\ Top'.phase = "wake"
    BY <2>1, AdvanceKeeps
  <2>4. NoLostWakeup'
    BY <1>1, <2>2, <2>3 DEF WakeInv, NoLostWakeup, ToBeWoken
  <2>5. AwaitsHandle' /\ WakerParked' /\ DeferredWhileBusy'
    BY <1>1 DEF WakeInv, AwaitsHandle, WakerParked, DeferredWhileBusy, BeginWaking
  <2>6. StreamCovered'
    BY <2>3 DEF StreamCovered
  <2> QED BY <2>3, <2>4, <2>5, <2>6 DEF WakeInv
<1>2. ASSUME RefreshReturns PROVE WakeInv'
  BY <1>1, <1>2 DEF RefreshReturns, Refreshing
<1>3. ASSUME NEW accepted \in BOOLEAN, SubmitReturns(accepted) PROVE WakeInv'
  BY <1>1, <1>3 DEF SubmitReturns
<1>4. ASSUME NEW s \in Subs, WakeNext(s) PROVE WakeInv'
  <2>1. stack # <<>> /\ Top \in Frame /\ ~busy /\ IdleTodo
    BY <1>4, TopOfStack DEF WakeNext, InPhase, NoNestedCall, TypeOK, WakeInv
  <2>2. /\ Top.todo \ {s} \in SUBSET Subs /\ Top.accepted \in BOOLEAN
        /\ stack' = Advance("waker", Top.todo \ {s}, Top.accepted)
    BY <1>4, <2>1 DEF WakeNext, Frame
  <2>3. /\ IdleTodo'
        /\ \A t \in Subs : ToBeWoken(t) /\ (t \in Top.todo => t \in Top.todo \ {s})
                             => ToBeWoken(t)'
        /\ stack' # <<>> /\ Top'.phase = "waker"
    BY <2>1, <2>2, AdvanceKeeps
  <2>4. \A t \in Subs : asleep'[t] => asleep[t] /\ t # s
    BY <1>4 DEF WakeNext, TypeOK
  <2>5. NoLostWakeup'
    BY <1>4, <2>3, <2>4 DEF WakeNext, WakeInv, NoLostWakeup, ToBeWoken
  <2>6. AwaitsHandle' /\ WakerParked' /\ DeferredWhileBusy'
    BY <1>4, <2>4 DEF WakeNext, WakeInv, AwaitsHandle, WakerParked, DeferredWhileBusy
  <2>7. StreamCovered'
    BY <2>3 DEF StreamCovered
  <2> QED BY <2>3, <2>5, <2>6, <2>7 DEF WakeInv
<1>5. ASSUME WakeStream PROVE WakeInv'
  <2>1. /\ stack # <<>> /\ Top \in Frame /\ IdleTodo /\ Top.todo = {}
        /\ stack' = Advance("stream", {}, Top.accepted)
    BY <1>5, TopOfStack DEF WakeStream, WokeAll, InPhase, TypeOK, WakeInv
  <2>2. Top.accepted \in BOOLEAN
    BY <2>1 DEF Frame
  <2>3. /\ IdleTodo'
        /\ \A t \in Subs : ToBeWoken(t) /\ (t \in Top.todo => t \in {}) => ToBeWoken(t)'
    BY <2>1, <2>2, AdvanceKeeps
  <2>4. NoLostWakeup'
    BY <1>5, <2>1, <2>3 DEF WakeStream, WakeInv, NoLostWakeup, ToBeWoken
  <2>5. AwaitsHandle' /\ WakerParked' /\ DeferredWhileBusy'
    BY <1>5 DEF WakeStream, WakeInv, AwaitsHandle, WakerParked, DeferredWhileBusy
  <2>6. StreamCovered'
    BY <1>5 DEF WakeStream, StreamCovered, StreamDue
  <2> QED BY <2>3, <2>4, <2>5, <2>6 DEF WakeInv
<1>6. ASSUME CallReturns \/ SubmitRefused \/ SubmitAccepted PROVE WakeInv'
  <2>1. /\ Woken /\ stack' = Caller
        /\ UNCHANGED <<busy, status, waker, wakeups, asleep, queue, streamParked>>
    BY <1>6 DEF CallReturns, SubmitRefused, SubmitAccepted
  <2>2. stack # <<>> /\ Top.todo = {}
    BY <2>1, WokenTodo DEF WakeInv
  <2>3. IdleTodo' /\ \A t \in Subs : ToBeWoken(t) => ToBeWoken(t)'
    BY <2>1, <2>2, ReturnKeeps DEF WakeInv
  <2>4. NoLostWakeup'
    BY <2>1, <2>3 DEF WakeInv, NoLostWakeup, ToBeWoken
  <2>5. \A t \in Subs : handle[t] = "live" => handle'[t] = "live"
    BY <1>6 DEF CallReturns, SubmitRefused, SubmitAccepted, TypeOK
  <2>6. AwaitsHandle' /\ WakerParked' /\ DeferredWhileBusy'
    BY <2>1, <2>5 DEF WakeInv, AwaitsHandle, WakerParked, DeferredWhileBusy
  <2>7. ~StreamDue
    BY <2>1 DEF Woken, InPhase, WakeInv, StreamCovered
  <2>8. StreamCovered'
    BY <2>1, <2>7 DEF StreamCovered, StreamDue
  <2> QED BY <2>3, <2>4, <2>6, <2>8 DEF WakeInv
<1> QED BY <1>2, <1>3, <1>4, <1>5, <1>6 DEF Unwind

(* The application's operations.                                            *)
LEMMA WakeApp == ASSUME TypeOK, NoNestedCall, WakeInv, AppNext PROVE WakeInv'
<1>1. ASSUME NEW op \in {"refresh", "submit"}, NEW s \in Subs \union {None},
             stack' = Push(op, "c", s, {}), busy',
             UNCHANGED <<slotVars, eventVars>>
      PROVE  WakeInv'
  <2>1. /\ IdleTodo'
        /\ \A t \in Subs : ToBeWoken(t) \/ t \in {} => ToBeWoken(t)'
        /\ stack' # <<>> /\ Top'.phase = "c"
    BY <1>1, PushKeeps DEF WakeInv
  <2>2. NoLostWakeup'
    BY <1>1, <2>1 DEF WakeInv, NoLostWakeup, ToBeWoken
  <2>3. AwaitsHandle' /\ WakerParked' /\ DeferredWhileBusy'
    BY <1>1 DEF WakeInv, AwaitsHandle, WakerParked, DeferredWhileBusy
  <2>4. StreamCovered'
    BY <2>1 DEF StreamCovered
  <2> QED BY <2>1, <2>2, <2>3, <2>4 DEF WakeInv
<1>2. ASSUME RefreshBegin PROVE WakeInv'
  BY <1>1, <1>2 DEF RefreshBegin, BusyEnter
<1>3. ASSUME NEW s \in Subs, NEW pd \in PDs, NEW kind \in Kinds, NEW wants \in BOOLEAN,
             SubmitBegin(s, pd, kind, wants)
      PROVE  WakeInv'
  BY <1>1, <1>3 DEF SubmitBegin, BusyEnter
<1>4. ASSUME NEW pd \in PDs, FlushInCallback(pd) PROVE WakeInv'
  <2>1. "flushed" \in Outcomes /\ Queued(pd) \in SUBSET Subs
    BY DEF Outcomes, Queued, Of
  <2> QED BY <1>4, <2>1, WakeDeferring DEF FlushInCallback
<1>5. ASSUME NEW pd \in PDs, Flush(pd) PROVE WakeInv'
  <2>1. /\ "flushed" \in Outcomes /\ Queued(pd) \in SUBSET Subs
        /\ Deferred(Queued(pd)) \in SUBSET Subs
    BY TypeDeferred DEF Outcomes, Queued, Of
  <2>2. /\ Complete(Queued(pd), "flushed")
        /\ stack' = Push("flush", "wake", None, Deferred(Queued(pd)))
        /\ wakeups' = {}
        /\ UNCHANGED <<busy, handle, asleep, queue, streamParked>>
    BY <1>5 DEF Flush
  <2>3. /\ IdleTodo'
        /\ \A t \in Subs : ToBeWoken(t) \/ t \in Deferred(Queued(pd)) => ToBeWoken(t)'
        /\ stack' # <<>> /\ Top'.phase = "wake"
    BY <2>1, <2>2, PushKeeps DEF WakeInv
  <2>4. WakerParked' /\ NoLostWakeup'
    BY <2>1, <2>2, <2>3, CompleteKeeps DEF NoLostWakeup, ToBeWoken
  <2>5. AwaitsHandle' /\ DeferredWhileBusy'
    BY <2>2 DEF WakeInv, AwaitsHandle, DeferredWhileBusy
  <2>6. StreamCovered'
    BY <2>3 DEF StreamCovered
  <2> QED BY <2>3, <2>4, <2>5, <2>6 DEF WakeInv
<1>6. ASSUME NEW s \in Subs, Cancel(s) PROVE WakeInv'
  BY <1>6 DEF Cancel, WakeInv, IdleTodo, AwaitsHandle, WakerParked, DeferredWhileBusy,
              StreamCovered, StreamDue, Top, NoLostWakeup
<1>7. ASSUME NEW s \in Subs, Poll(s) PROVE WakeInv'
  <2>1. IdleTodo' /\ DeferredWhileBusy' /\ StreamCovered'
    BY <1>7 DEF Poll, WakeInv, IdleTodo, DeferredWhileBusy, StreamCovered, StreamDue, Top
  <2>2. AwaitsHandle' /\ WakerParked'
    BY <1>7 DEF Poll, WakeInv, AwaitsHandle, WakerParked, TypeOK
  <2>3. \A t \in Subs : asleep'[t] /\ status[t] # "none" => asleep[t]
    BY <1>7 DEF Poll, TypeOK
  <2>4. NoLostWakeup'
    BY <1>7, <2>3 DEF Poll, WakeInv, NoLostWakeup
  <2> QED BY <2>1, <2>2, <2>4 DEF WakeInv
<1>8. ASSUME NEW s \in Subs, DropHandle(s) PROVE WakeInv'
  <2>1. IdleTodo' /\ DeferredWhileBusy' /\ StreamCovered'
    BY <1>8 DEF DropHandle, WakeInv, IdleTodo, DeferredWhileBusy, StreamCovered, StreamDue, Top
  <2>2. \A t \in Subs : asleep'[t] => asleep[t] /\ t # s
    BY <1>8 DEF DropHandle, TypeOK
  <2>3. AwaitsHandle' /\ WakerParked' /\ NoLostWakeup'
    BY <1>8, <2>2 DEF DropHandle, WakeInv, AwaitsHandle, WakerParked, NoLostWakeup, TypeOK
  <2> QED BY <2>1, <2>3 DEF WakeInv
<1>9. ASSUME NextEvent \/ ParkStream PROVE WakeInv'
  <2>1. UNCHANGED <<stack, busy, status, handle, waker, wakeups, asleep>>
    BY <1>9 DEF NextEvent, ParkStream
  <2>2. StreamDue' => StreamDue
    BY <1>9 DEF NextEvent, ParkStream, StreamDue
  <2>3. StreamCovered'
    BY <2>1, <2>2 DEF WakeInv, StreamCovered, Top
  <2> QED BY <2>1, <2>3 DEF WakeInv, IdleTodo, AwaitsHandle, WakerParked, DeferredWhileBusy,
                            NoLostWakeup
<1>10. ASSUME DropContext PROVE WakeInv'
  <2>1. \A s \in Subs : ~asleep'[s]
    BY <1>10 DEF DropContext, WakeInv, AwaitsHandle
  <2>2. AwaitsHandle' /\ WakerParked' /\ NoLostWakeup'
    BY <2>1 DEF AwaitsHandle, WakerParked, NoLostWakeup
  <2>3. IdleTodo' /\ DeferredWhileBusy' /\ StreamCovered'
    BY <1>10 DEF DropContext, WakeInv, IdleTodo, DeferredWhileBusy, StreamCovered, StreamDue
  <2> QED BY <2>2, <2>3 DEF WakeInv
<1> QED BY <1>2, <1>3, <1>4, <1>5, <1>6, <1>7, <1>8, <1>9, <1>10 DEF AppNext

-----------------------------------------------------------------------------

(* The invariant holds in every state.                                      *)
THEOREM WakersFollowed == Spec => []WakeInv
<1>1. Init => WakeInv
  BY EmptySeq DEF Init, WakeInv, IdleTodo, AwaitsHandle, WakerParked, DeferredWhileBusy,
                  StreamCovered, StreamDue, NoLostWakeup
<1>2. TypeOK /\ NoNestedCall /\ WakeInv /\ [Next]_vars => WakeInv'
  <2> SUFFICES ASSUME TypeOK, NoNestedCall, WakeInv, [Next]_vars PROVE WakeInv'
    OBVIOUS
  <2>1. CASE UNCHANGED vars
    BY <2>1 DEF WakeInv, IdleTodo, AwaitsHandle, WakerParked, DeferredWhileBusy,
                StreamCovered, StreamDue, Top, NoLostWakeup
  <2> QED BY <2>1, WakeLib, WakeUnwind, WakeApp DEF Next
<1> QED BY <1>1, <1>2, TypeCorrect, NeverNested, PTL DEF Spec

(* No task sleeps on a command that has ended unless its waker is deferred  *)
(* or about to be called (RawSubmission::complete, wake_waiting).           *)
THEOREM WakeupsNotLost == Spec => []NoLostWakeup
<1>1. WakeInv => NoLostWakeup
  BY DEF WakeInv
<1> QED BY <1>1, WakersFollowed, PTL

(* Once the outermost call has returned nothing is left to wake: the busy   *)
(* check of wake_waiting never strands a waker (cp.rs:228).                 *)
THEOREM NothingStranded == Spec => []NothingLeftUnwoken
<1>1. NoNestedCall /\ WakeInv => NothingLeftUnwoken
  BY DEF NoNestedCall, InPhase, WakeInv, DeferredWhileBusy, StreamCovered, NothingLeftUnwoken
<1> QED BY <1>1, WakersFollowed, NeverNested, PTL

=============================================================================

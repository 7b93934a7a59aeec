-------------------------- MODULE PeripheralDevice --------------------------
(***************************************************************************)
(* The run-time of a PeripheralDevice (libosdp/src/pd.rs): the slot of the *)
(* command handler and the queue of notifications (ffi/callback.rs,        *)
(* queue.rs), the events submitted for the CP, from anywhere or as a       *)
(* handler's reply (submit.rs, ffi/submit.rs), and the wakers (wake.rs).   *)
(*                                                                         *)
(* As in ControlPanel, calls interleave and "stack" holds those that have  *)
(* begun and not returned.  Unlike there, submit is not guarded by Busy:   *)
(* a handler may submit, and so may a destructor.  The destructor of a     *)
(* handler is application code too: it runs inside set_command_handler, or *)
(* inside LibOSDP's command callback when the handler had itself replaced. *)
(*                                                                         *)
(* The actions whose names begin with C_ are LibOSDP's, which is not under *)
(* src/; they state what bindings.rs documents.                            *)
(***************************************************************************)
EXTENDS Integers, Sequences, FiniteSets

CONSTANTS
  Subs,         \* names of submitted events; each is used for one event
  Handlers,     \* names of command handlers; each is set once
  None,         \* no handler, no submission
  Capacity,     \* NOTIFICATION_QUEUE_CAPACITY
  WakersCall,   \* whether application code run by a waker calls the context
  MaxDepth,     \* bound: how deep calls nest
  MaxRaised     \* bound: how many notifications LibOSDP raises

ASSUME ConstantsAssumption ==
  /\ None \notin Subs \union Handlers
  /\ Capacity \in Nat \ {0}
  /\ WakersCall \in BOOLEAN
  /\ MaxDepth \in Nat
  /\ MaxRaised \in Nat

VARIABLES
  alive,        \* the PeripheralDevice has not been dropped
  busy,         \* PeripheralDevice::busy
  stack,        \* the calls in progress, innermost last
  slot,         \* PdCommandSlot::handler
  given,        \* history: the handlers the application has set
  latest,       \* history: the one it set last
  freed,        \* how often each handler was freed
  made,         \* the submissions whose box was allocated
  status,       \* Slot::status, "none" while the event has not ended
  handle,       \* whether the application was given, holds or dropped the handle
  waker,        \* Slot::waker: a waker is parked in the slot
  frees,        \* how often the box handed to LibOSDP was freed
  wakeups,      \* PeripheralDevice::wakeups
  asleep,       \* history: the task awaiting a handle was told Pending
  held,         \* LibOSDP: the events it holds
  queue,        \* PdCommandSlot::notifications, their numbers
  dropped,      \* DrainQueue::dropped
  streamParked, \* PdCommandSlot::stream_waker is parked
  raised,       \* history: how many notifications LibOSDP has raised
  popped,       \* history: how many the application took
  lastPopped    \* history: the number of the last one it took

controlVars == <<alive, busy, stack>>
handlerVars == <<slot, given, latest, freed>>
slotVars    == <<made, status, handle, waker, frees, wakeups, asleep, held>>
queueVars   == <<queue, dropped, streamParked, raised, popped, lastPopped>>
vars == <<controlVars, handlerVars, slotVars, queueVars>>

Outcomes == {"ok", "failed", "flushed", "aborted"}
Frame    == [op : {"refresh", "submit", "flush", "set"},
             phase : {"c", "handler", "drop", "wake", "waker", "stream"},
             handler : Handlers \union {None},
             sub : Subs \union {None},
             todo : SUBSET Subs,
             accepted : BOOLEAN]

-----------------------------------------------------------------------------
(* The call stack.                                                         *)

Top    == stack[Len(stack)]
Caller == SubSeq(stack, 1, Len(stack) - 1)

InPhase(p) == stack # <<>> /\ Top.phase = p

Push(frame) == Append(stack, frame)

Advance(frame) == [stack EXCEPT ![Len(stack)] = frame]

(* Frames of the calls that walk wakers or run a handler or a destructor.  *)
Waking(op, s, todo, accepted) ==
  [op |-> op, phase |-> "wake", handler |-> None, sub |-> s, todo |-> todo,
   accepted |-> accepted]

Running(op, phase, h) ==
  [op |-> op, phase |-> phase, handler |-> h, sub |-> None, todo |-> {},
   accepted |-> FALSE]

(* LibOSDP's refresh is the innermost call, and runs no callback.          *)
Refreshing == InPhase("c")

(* Application code is running: the main program, a channel or a file op   *)
(* of a refresh, a handler, a handler's destructor or a waker.             *)
AppRuns ==
  /\ alive
  /\ \/ stack = <<>>
     \/ Refreshing
     \/ InPhase("handler") \/ InPhase("drop")
     \/ WakersCall /\ (InPhase("waker") \/ InPhase("stream"))

-----------------------------------------------------------------------------
(* Busy::enter.  Its mutant forgets to look at the flag.                   *)
BusyEnterAlways == busy' = TRUE

BusyEnter == ~busy /\ busy' = TRUE

(* RawSubmission::complete: LibOSDP returns the events in S.               *)
CompleteSilently(S, outcome) ==
  /\ frees' = [s \in Subs |-> IF s \in S THEN frees[s] + 1 ELSE frees[s]]
  /\ waker' = [s \in Subs |-> waker[s] /\ s \notin S]
  /\ held' = held \ S
  /\ UNCHANGED status

Complete(S, outcome) ==
  /\ status' = [s \in Subs |-> IF s \in S THEN outcome ELSE status[s]]
  /\ frees' = [s \in Subs |-> IF s \in S THEN frees[s] + 1 ELSE frees[s]]
  /\ waker' = [s \in Subs |-> waker[s] /\ s \notin S]
  /\ held' = held \ S

DeferredNone(S) == wakeups

Deferred(S) == wakeups \union {s \in S : waker[s]}

CompleteDeferring(S, outcome) ==
  /\ Complete(S, outcome)
  /\ wakeups' = Deferred(S)

(* RawSubmission::reclaim: the box of a refused event is freed.            *)
ReclaimNothing(s) == UNCHANGED frees

Reclaim(s) == frees' = [frees EXCEPT ![s] = @ + 1]

(* DrainQueue::push.                                                       *)
PushNotification ==
  /\ raised' = raised + 1
  /\ IF Len(queue) < Capacity
       THEN queue' = Append(queue, raised + 1) /\ UNCHANGED dropped
       ELSE dropped' = dropped + 1 /\ UNCHANGED queue

-----------------------------------------------------------------------------
(* What LibOSDP does in a refresh.                                         *)

(* pd_command_trampoline with a notification.                              *)
C_Notify ==
  /\ Refreshing /\ raised < MaxRaised
  /\ PushNotification
  /\ UNCHANGED <<controlVars, handlerVars, slotVars, streamParked, popped, lastPopped>>

(* An event was sent to the CP, or could not be.                           *)
C_Complete(s, outcome) ==
  /\ Refreshing /\ s \in held
  /\ CompleteDeferring({s}, outcome)
  /\ UNCHANGED <<controlVars, handlerVars, queueVars, made, handle, asleep>>

(* CallbackSlot::call takes the handler out of its slot before it runs;    *)
(* its mutant runs it in place.                                            *)
RunInPlace == UNCHANGED slot

TakeHandler == slot' = None

(* pd_command_trampoline with a command.  One that does not convert, or    *)
(* that arrives before a handler was set, is refused: nothing changes.     *)
Command ==
  /\ Refreshing /\ slot # None
  /\ TakeHandler
  /\ stack' = Advance(Running("refresh", "handler", slot))
  /\ UNCHANGED <<alive, busy, given, latest, freed, slotVars, queueVars>>

(* The handler returns: it goes back to its slot, unless it was replaced   *)
(* while it ran.  The replaced handler is dropped as the callback returns. *)
HandlerReturnsAnyway ==
  /\ InPhase("handler")
  /\ slot' = Top.handler
  /\ stack' = Advance(Running("refresh", "c", None))
  /\ freed' = [h \in Handlers |-> freed[h] + (IF h = slot THEN 1 ELSE 0)]
  /\ UNCHANGED <<alive, busy, given, latest, slotVars, queueVars>>

HandlerReturns ==
  /\ InPhase("handler")
  /\ IF slot = None
       THEN /\ slot' = Top.handler
            /\ stack' = Advance(Running("refresh", "c", None))
       ELSE /\ stack' = Advance(Running("refresh", "drop", Top.handler))
            /\ UNCHANGED slot
  /\ UNCHANGED <<alive, busy, given, latest, freed, slotVars, queueVars>>

(* The destructor of a replaced handler returns, to LibOSDP's callback or  *)
(* to set_command_handler.                                                 *)
HandlerDropped ==
  /\ InPhase("drop")
  /\ freed' = [freed EXCEPT ![Top.handler] = @ + 1]
  /\ stack' = IF Top.op = "set" THEN Caller ELSE Advance(Running("refresh", "c", None))
  /\ UNCHANGED <<alive, busy, slot, given, latest, slotVars, queueVars>>

(* PeripheralDevice::set_command_handler: CallbackSlot::replace puts h in  *)
(* the slot, then drops what it held.                                      *)
SetHandler(h) ==
  /\ AppRuns /\ h \notin given /\ Len(stack) < MaxDepth
  /\ slot' = h
  /\ given' = given \union {h}
  /\ latest' = h
  /\ stack' = IF slot = None THEN stack ELSE Push(Running("set", "drop", slot))
  /\ UNCHANGED <<alive, busy, freed, slotVars, queueVars>>

-----------------------------------------------------------------------------
(* wake_waiting, as in ControlPanel.                                       *)

WakeNext(s) ==
  /\ InPhase("wake") \/ InPhase("waker")
  /\ s \in Top.todo
  /\ asleep' = [asleep EXCEPT ![s] = FALSE]
  /\ stack' = Advance([Top EXCEPT !.phase = "waker", !.todo = @ \ {s}])
  /\ UNCHANGED <<alive, busy, handlerVars, queueVars, made, status, handle, waker,
                 frees, wakeups, held>>

WokeAll == (InPhase("wake") \/ InPhase("waker")) /\ Top.todo = {}

StreamDue == queue # <<>> /\ streamParked

WakeStream ==
  /\ WokeAll /\ StreamDue
  /\ streamParked' = FALSE
  /\ stack' = Advance([Top EXCEPT !.phase = "stream"])
  /\ UNCHANGED <<alive, busy, handlerVars, slotVars, queue, dropped, raised, popped,
                 lastPopped>>

WokenOne == InPhase("stream") \/ InPhase("waker") \/ (WokeAll /\ ~StreamDue)

Woken == InPhase("stream") \/ (WokeAll /\ ~StreamDue)

-----------------------------------------------------------------------------
(* refresh.  Called when the context is busy it does nothing.              *)

RefreshBegin ==
  /\ AppRuns /\ BusyEnter /\ Len(stack) < MaxDepth
  /\ stack' = Push(Running("refresh", "c", None))
  /\ UNCHANGED <<alive, handlerVars, slotVars, queueVars>>

(* Busy is dropped and wake_all takes the deferred wakers.                 *)
RefreshReturnsUnwoken ==
  /\ Refreshing
  /\ busy' = FALSE
  /\ stack' = Advance(Waking("refresh", None, {}, FALSE))
  /\ UNCHANGED <<alive, handlerVars, slotVars, queueVars>>

RefreshReturns ==
  /\ Refreshing
  /\ busy' = FALSE
  /\ stack' = Advance(Waking("refresh", None, wakeups, FALSE))
  /\ wakeups' = {}
  /\ UNCHANGED <<alive, handlerVars, queueVars, made, status, handle, waker, frees,
                 asleep, held>>

(* A refresh, or a flush, returns to its caller.                           *)
CallReturns ==
  /\ Woken /\ Top.op \in {"refresh", "flush"}
  /\ stack' = Caller
  /\ UNCHANGED <<alive, busy, handlerVars, slotVars, queueVars>>

-----------------------------------------------------------------------------
(* submit and reply.  An event that does not convert is refused before     *)
(* anything is allocated: nothing changes.                                 *)

(* osdp_pd_submit_event, which runs no application code.                   *)
C_Submit(s, accepted) ==
  /\ s \notin made
  /\ made' = made \union {s}
  /\ held' = IF accepted THEN held \union {s} ELSE held

(* Responder::reply, which only the running handler can call.  Its         *)
(* Submission is never made: nobody learns how the reply ended.            *)
Reply(s, accepted) ==
  /\ InPhase("handler")
  /\ C_Submit(s, accepted)
  /\ IF accepted THEN UNCHANGED frees ELSE Reclaim(s)
  /\ UNCHANGED <<controlVars, handlerVars, queueVars, status, handle, waker, wakeups,
                 asleep>>

(* submit from a callback: wake_waiting returns at once.                   *)
SubmitInCallback(s, accepted) ==
  /\ AppRuns /\ busy
  /\ C_Submit(s, accepted)
  /\ IF accepted
       THEN handle' = [handle EXCEPT ![s] = "live"] /\ UNCHANGED frees
       ELSE Reclaim(s) /\ UNCHANGED handle
  /\ UNCHANGED <<controlVars, handlerVars, queueVars, status, waker, wakeups, asleep>>

(* submit from elsewhere: wakers run before its result is looked at.       *)
SubmitBegin(s, accepted) ==
  /\ AppRuns /\ ~busy /\ Len(stack) < MaxDepth
  /\ C_Submit(s, accepted)
  /\ stack' = Push(Waking("submit", s, wakeups, accepted))
  /\ wakeups' = {}
  /\ UNCHANGED <<alive, busy, handlerVars, queueVars, status, handle, waker, frees,
                 asleep>>

SubmitReturns ==
  /\ Woken /\ Top.op = "submit"
  /\ IF Top.accepted
       THEN handle' = [handle EXCEPT ![Top.sub] = "live"] /\ UNCHANGED frees
       ELSE Reclaim(Top.sub) /\ UNCHANGED handle
  /\ stack' = Caller
  /\ UNCHANGED <<alive, busy, handlerVars, queueVars, made, status, waker, wakeups,
                 asleep, held>>

-----------------------------------------------------------------------------
(* flush, inside a callback and elsewhere.                                 *)

FlushInCallback ==
  /\ AppRuns /\ busy
  /\ CompleteDeferring(held, "flushed")
  /\ UNCHANGED <<controlVars, handlerVars, queueVars, made, handle, asleep>>

Flush ==
  /\ AppRuns /\ ~busy /\ Len(stack) < MaxDepth
  /\ Complete(held, "flushed")
  /\ stack' = Push(Waking("flush", None, Deferred(held), FALSE))
  /\ wakeups' = {}
  /\ UNCHANGED <<alive, busy, handlerVars, queueVars, made, handle, asleep>>

-----------------------------------------------------------------------------
(* Operations on a handle.  A PD's submission cannot be cancelled.         *)

Poll(s) ==
  /\ AppRuns /\ handle[s] = "live" /\ status[s] = "none"
  /\ waker' = [waker EXCEPT ![s] = TRUE]
  /\ asleep' = [asleep EXCEPT ![s] = TRUE]
  /\ UNCHANGED <<controlVars, handlerVars, queueVars, made, status, handle, frees,
                 wakeups, held>>

DropHandle(s) ==
  /\ AppRuns /\ handle[s] = "live"
  /\ handle' = [handle EXCEPT ![s] = "dropped"]
  /\ asleep' = [asleep EXCEPT ![s] = FALSE]
  /\ UNCHANGED <<controlVars, handlerVars, queueVars, made, status, waker, frees,
                 wakeups, held>>

(* next_notification, or a NotificationStream that finds one, or none.     *)
NextNotificationNewest ==
  /\ AppRuns /\ queue # <<>>
  /\ queue' = SubSeq(queue, 1, Len(queue) - 1)
  /\ popped' = popped + 1
  /\ lastPopped' = queue[Len(queue)]
  /\ UNCHANGED <<controlVars, handlerVars, slotVars, dropped, streamParked, raised>>

NextNotification ==
  /\ AppRuns /\ queue # <<>>
  /\ queue' = Tail(queue)
  /\ popped' = popped + 1
  /\ lastPopped' = Head(queue)
  /\ UNCHANGED <<controlVars, handlerVars, slotVars, dropped, streamParked, raised>>

ParkStream ==
  /\ AppRuns /\ queue = <<>>
  /\ streamParked' = TRUE
  /\ UNCHANGED <<controlVars, handlerVars, slotVars, queue, dropped, raised, popped,
                 lastPopped>>

(* Drop for PeripheralDevice: teardown returns every event, then the       *)
(* fields are freed, the handler among them.                               *)
DropContext ==
  /\ alive /\ stack = <<>>
  /\ \A s \in Subs : handle[s] # "live"
  /\ Complete(held, "aborted")
  /\ alive' = FALSE
  /\ wakeups' = {}
  /\ slot' = None
  /\ freed' = [h \in Handlers |-> IF h = slot THEN freed[h] + 1 ELSE freed[h]]
  /\ queue' = <<>>
  /\ streamParked' = FALSE
  /\ UNCHANGED <<busy, stack, given, latest, made, handle, asleep, dropped, raised,
                 popped, lastPopped>>

-----------------------------------------------------------------------------
Init ==
  /\ alive = TRUE
  /\ busy = FALSE
  /\ stack = <<>>
  /\ slot = None
  /\ given = {}
  /\ latest = None
  /\ freed = [h \in Handlers |-> 0]
  /\ made = {}
  /\ status = [s \in Subs |-> "none"]
  /\ handle = [s \in Subs |-> "none"]
  /\ waker = [s \in Subs |-> FALSE]
  /\ frees = [s \in Subs |-> 0]
  /\ wakeups = {}
  /\ asleep = [s \in Subs |-> FALSE]
  /\ held = {}
  /\ queue = <<>>
  /\ dropped = 0
  /\ streamParked = FALSE
  /\ raised = 0
  /\ popped = 0
  /\ lastPopped = 0

LibNext ==
  \/ C_Notify
  \/ \E s \in Subs, outcome \in {"ok", "failed"} : C_Complete(s, outcome)
  \/ Command

(* A handler, or the destructor of one, returns.                           *)
HandlerEnds == HandlerReturns \/ HandlerDropped

(* A call of the context moves on towards its return.                      *)
Unwind ==
  \/ \E s \in Subs : WakeNext(s)
  \/ WakeStream
  \/ RefreshReturns
  \/ CallReturns
  \/ SubmitReturns

AppNext ==
  \/ \E h \in Handlers : SetHandler(h)
  \/ RefreshBegin
  \/ \E s \in Subs, accepted \in BOOLEAN :
       Reply(s, accepted) \/ SubmitInCallback(s, accepted) \/ SubmitBegin(s, accepted)
  \/ FlushInCallback
  \/ Flush
  \/ \E s \in Subs : Poll(s) \/ DropHandle(s)
  \/ NextNotification
  \/ ParkStream
  \/ DropContext

Next == LibNext \/ HandlerEnds \/ Unwind \/ AppNext

Spec == Init /\ [][Next]_vars

(***************************************************************************)
(* Properties                                                              *)
(***************************************************************************)

TypeOK ==
  /\ alive \in BOOLEAN
  /\ busy \in BOOLEAN
  /\ stack \in Seq(Frame)
  /\ slot \in Handlers \union {None}
  /\ given \in SUBSET Handlers
  /\ latest \in Handlers \union {None}
  /\ freed \in [Handlers -> Nat]
  /\ made \in SUBSET Subs
  /\ status \in [Subs -> Outcomes \union {"none"}]
  /\ handle \in [Subs -> {"none", "live", "dropped"}]
  /\ waker \in [Subs -> BOOLEAN]
  /\ frees \in [Subs -> Nat]
  /\ wakeups \in SUBSET Subs
  /\ asleep \in [Subs -> BOOLEAN]
  /\ held \in SUBSET Subs
  /\ queue \in Seq(Nat) /\ Len(queue) <= Capacity
  /\ dropped \in Nat
  /\ streamParked \in BOOLEAN
  /\ raised \in Nat
  /\ popped \in Nat
  /\ lastPopped \in Nat

(* A call that is inside LibOSDP's refresh, perhaps in a callback of it.   *)
InRefresh(i) ==
  stack[i].op = "refresh" /\ stack[i].phase \in {"c", "handler", "drop"}

(* The context is busy exactly while a refresh is inside LibOSDP, and only *)
(* one is: no handler, destructor, channel or waker makes LibOSDP refresh  *)
(* inside a refresh (busy.rs).                                             *)
NoNestedRefresh ==
  /\ busy <=> \E i \in 1 .. Len(stack) : InRefresh(i)
  /\ \A i, j \in 1 .. Len(stack) : InRefresh(i) /\ InRefresh(j) => i = j

OnStack(h) == \E i \in 1 .. Len(stack) : stack[i].handler = h

(* Each handler is in one place: in the slot, on the stack while it runs   *)
(* or its destructor does, or freed, once.  So a handler is never freed    *)
(* under its own feet, nor dropped twice, however handlers and destructors *)
(* replace one another (CallbackSlot, ffi/callback.rs:83-85).              *)
HandlerHasOneOwner ==
  /\ \A h \in Handlers :
       /\ freed[h] = IF h \in given /\ slot # h /\ ~OnStack(h) THEN 1 ELSE 0
       /\ ~(slot = h /\ OnStack(h))
  /\ \A i, j \in 1 .. Len(stack) :
       stack[i].handler # None /\ stack[i].handler = stack[j].handler => i = j

(* The handler set last answers the next command: it is in the slot, or it *)
(* is the one running.  A handler that returns never takes the place of    *)
(* the one that replaced it (set_command_handler, "replacing the previous  *)
(* one").                                                                  *)
LatestHandlerAnswers ==
  alive => \/ slot = latest
           \/ /\ slot = None
              /\ \E i \in 1 .. Len(stack) :
                   stack[i].phase = "handler" /\ stack[i].handler = latest

Submitting(s) ==
  \E i \in 1 .. Len(stack) :
    stack[i].op = "submit" /\ stack[i].sub = s /\ ~stack[i].accepted

(* The box of an event belongs to the call that submits it, then LibOSDP,  *)
(* then nobody, and is freed once: a refused event is still its caller's   *)
(* while the wakers of wake_waiting run (PeripheralDevice::submit,         *)
(* Responder::reply, RawSubmission::complete).                             *)
BoxHasOneOwner ==
  \A s \in Subs :
    frees[s] = IF s \in made /\ s \notin held /\ ~Submitting(s) THEN 1 ELSE 0

(* No task sleeps on an event that has ended: its waker has been deferred  *)
(* or is among those a call in progress is about to wake.                  *)
NoLostWakeup ==
  \A s \in Subs :
    asleep[s] /\ status[s] # "none" =>
      s \in wakeups \/ \E i \in 1 .. Len(stack) : s \in stack[i].todo

(* When the outermost call has returned, no waker is left deferred, and    *)
(* the notification stream is not parked over queued notifications.        *)
NothingLeftUnwoken == stack = <<>> => wakeups = {} /\ ~StreamDue

(* Every notification raised was taken, is queued, or was counted as       *)
(* dropped, those kept are taken in the order they were raised, and the    *)
(* queue never holds more than its capacity.                               *)
NotificationsAccountedFor ==
  /\ Len(queue) <= Capacity
  /\ alive => raised = popped + Len(queue) + dropped
  /\ \A i \in 1 .. Len(queue) :
       queue[i] > (IF i = 1 THEN lastPopped ELSE queue[i - 1])

(* The life of each event, as the application is promised it.              *)
outcomeOf ==
  [s \in Subs |->
     IF status[s] # "none" THEN status[s]
     ELSE IF s \in held THEN "pending"
     ELSE IF frees[s] > 0 THEN "refused" ELSE "idle"]

noReply == [s \in Subs |-> "none"]

Promise == INSTANCE Submissions
             WITH outcome <- outcomeOf, asks <- noReply, answer <- noReply

(* Whatever handlers, wakers and destructors call, an event is refused or  *)
(* ends exactly once and keeps that outcome (Submission, pd.rs:287-289).   *)
KeepsPromise == Promise!Spec

-----------------------------------------------------------------------------
(* Liveness: every call returns, as in ControlPanel; handlers and their    *)
(* destructors return, and LibOSDP's refresh does not run commands for     *)
(* ever.                                                                   *)
Fairness ==
  \A d \in 1 .. MaxDepth :
    SF_vars(Len(stack) = d /\ HandlerEnds) /\ SF_vars(Len(stack) = d /\ Unwind)

FairSpec == Spec /\ Fairness

(* A task that awaits an event is woken once it has ended.                 *)
EndedTasksAreWoken ==
  \A s \in Subs : asleep[s] /\ status[s] # "none" ~> ~asleep[s]

=============================================================================

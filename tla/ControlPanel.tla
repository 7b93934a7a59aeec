---------------------------- MODULE ControlPanel ----------------------------
(***************************************************************************)
(* The run-time of a ControlPanel (libosdp/src/cp.rs) together with what   *)
(* it shares with LibOSDP: the Busy flag (busy.rs), the slot and the       *)
(* handle of every submission (submit.rs, ffi/submit.rs), the queue of     *)
(* events and the table of reply routes (ffi/callback.rs, queue.rs), and   *)
(* the wakers of the tasks that wait (wake.rs, stream.rs).                 *)
(*                                                                         *)
(* One thread uses a context, so what interleaves is not threads but       *)
(* calls: LibOSDP runs application code in the middle of a refresh (a      *)
(* channel, a file op), the crate runs application code when it wakes a    *)
(* task, and that code may call the same context again.  The variable      *)
(* "stack" holds the calls that have begun and not returned, innermost     *)
(* last; an application operation may run whenever application code is on  *)
(* top of it.                                                              *)
(*                                                                         *)
(* LibOSDP itself is not under src/ (its submodule is empty): the actions  *)
(* whose names begin with C_ state only what bindings.rs documents and     *)
(* what the crate relies on.                                               *)
(***************************************************************************)
EXTENDS Integers, Sequences, FiniteSets

CONSTANTS
  PDs,          \* the peripheral devices of the bus (PdIndex)
  Subs,         \* names of submissions; each is used for at most one command
  Kinds,        \* the kinds of command the application submits
  None,         \* no submission, no request
  Capacity,     \* event_queue_capacity of the builder
  WakersCall,   \* whether application code run by a waker calls the context
  MaxDepth,     \* bound: how deep calls nest
  MaxEvents     \* bound: no event but a reply is raised after so many

CardKinds  == {"piv", "genauth", "crauth"}
MultiKinds == CardKinds \union {"file", "bio"}
AllKinds   == MultiKinds \union {"plain"}
Request    == [pd : PDs, kind : AllKinds, wants : BOOLEAN]

ASSUME ConstantsAssumption ==
  /\ None \notin Subs \union Request
  /\ Kinds \subseteq AllKinds
  /\ Capacity \in Nat \ {0}
  /\ WakersCall \in BOOLEAN
  /\ MaxDepth \in Nat
  /\ MaxEvents \in Nat

VARIABLES
  alive,        \* the ControlPanel has not been dropped
  busy,         \* ControlPanel::busy
  stack,        \* the calls in progress, innermost last
  request,      \* what each submission asks for; None when not used yet
  status,       \* Slot::status, "none" while LibOSDP holds the command
  reply,        \* Slot::reply: the submission the stored reply answers
  handle,       \* whether the application was given, holds or dropped the handle
  waker,        \* Slot::waker: a waker is parked in the slot
  frees,        \* how often the box handed to LibOSDP was freed
  wakeups,      \* ControlPanel::wakeups: submissions whose waker is deferred
  queue,        \* CpEvents::queue: the numbers of the queued events
  dropped,      \* DrainQueue::dropped
  routes,       \* CpEvents::replies: the slot each PD's reply is routed to
  streamParked, \* CpEvents::stream_waker: the event stream's waker is parked
  held,         \* LibOSDP: where it keeps each command
  replied,      \* LibOSDP: the card commands whose reply it has reported
  malformed,    \* history: those whose reply did not convert
  stopping,     \* LibOSDP: the operations it was asked to cancel
  asleep,       \* history: the task awaiting a handle was told Pending
  asked,        \* history: the handles whose cancel() returned Ok
  raised,       \* history: how many events LibOSDP has raised
  popped,       \* history: how many events the application took
  lastPopped    \* history: the number of the last event it took

slotVars    == <<status, reply, handle, waker, frees, wakeups, asleep>>
eventVars   == <<queue, dropped, routes, streamParked, raised, popped, lastPopped>>
libVars     == <<held, replied, malformed, stopping, asked>>
controlVars == <<alive, busy, stack>>
vars == <<controlVars, request, slotVars, eventVars, libVars>>

Outcomes == {"ok", "failed", "flushed", "aborted"}
Frame    == [op : {"refresh", "submit", "flush"},
             phase : {"c", "wake", "waker", "stream"},
             sub : Subs \union {None},
             todo : SUBSET Subs,
             accepted : BOOLEAN]

-----------------------------------------------------------------------------
(* The call stack.                                                         *)

Top    == stack[Len(stack)]
Caller == SubSeq(stack, 1, Len(stack) - 1)

InPhase(p) == stack # <<>> /\ Top.phase = p

(* A call begins, and the innermost call moves on.                         *)
Push(op, phase, s, todo) ==
  Append(stack, [op |-> op, phase |-> phase, sub |-> s, todo |-> todo,
                 accepted |-> FALSE])

Advance(phase, todo, accepted) ==
  [stack EXCEPT ![Len(stack)] =
     [op |-> Top.op, phase |-> phase, sub |-> Top.sub, todo |-> todo,
      accepted |-> accepted]]

(* Application code is running: the main program, a channel or a file op   *)
(* that LibOSDP calls during a refresh, FileOps::open that it calls during *)
(* the submission of a file transfer, or the code behind a waker.          *)
AppRuns ==
  /\ alive
  /\ \/ stack = <<>>
     \/ InPhase("c") /\ Top.op = "refresh"
     \/ InPhase("c") /\ Top.op = "submit" /\ request[Top.sub].kind = "file"
     \/ WakersCall /\ (InPhase("waker") \/ InPhase("stream"))

(* A call that LibOSDP runs is on top, and it is a refresh.                *)
Refreshing == InPhase("c") /\ Top.op = "refresh"

-----------------------------------------------------------------------------
(* Busy::enter.  Its mutant forgets to look at the flag.                   *)
BusyEnterAlways == busy' = TRUE

BusyEnter == ~busy /\ busy' = TRUE

(* RawSubmission::complete: LibOSDP returns the commands in S, each box is *)
(* freed, its slot records the outcome and its parked waker is deferred.   *)
CompleteSilently(S, outcome) ==
  /\ frees'  = [s \in Subs |-> IF s \in S THEN frees[s] + 1 ELSE frees[s]]
  /\ waker'  = [s \in Subs |-> waker[s] /\ s \notin S]
  /\ held'   = [s \in Subs |-> IF s \in S THEN "out" ELSE held[s]]
  /\ UNCHANGED status

Complete(S, outcome) ==
  /\ status' = [s \in Subs |-> IF s \in S THEN outcome ELSE status[s]]
  /\ frees'  = [s \in Subs |-> IF s \in S THEN frees[s] + 1 ELSE frees[s]]
  /\ waker'  = [s \in Subs |-> waker[s] /\ s \notin S]
  /\ held'   = [s \in Subs |-> IF s \in S THEN "out" ELSE held[s]]

DeferredNone(S) == wakeups

Deferred(S) == wakeups \union {s \in S : waker[s]}

(* Completion while the context is busy: nothing is woken yet.             *)
CompleteDeferring(S, outcome) ==
  /\ Complete(S, outcome)
  /\ wakeups' = Deferred(S)

(* DrainQueue::push, for the next event LibOSDP raises.                    *)
PushPastCapacity ==
  /\ raised' = raised + 1
  /\ IF Len(queue) <= Capacity
       THEN queue' = Append(queue, raised + 1) /\ UNCHANGED dropped
       ELSE dropped' = dropped + 1 /\ UNCHANGED queue

PushEvent ==
  /\ raised' = raised + 1
  /\ IF Len(queue) < Capacity
       THEN queue' = Append(queue, raised + 1) /\ UNCHANGED dropped
       ELSE dropped' = dropped + 1 /\ UNCHANGED queue

(* Slot::is_pending                                                        *)
IsPendingAlways(s) == TRUE

IsPending(s) == status[s] = "none"

(* The slot that a route of CpEvents::replies leads to still waits for a   *)
(* reply: a handle that is there keeps the slot allocated (Weak::upgrade). *)
WaitingOrEnded(s) == s # None /\ handle[s] = "live"

Waiting(s) == s # None /\ IsPending(s) /\ handle[s] = "live"

(***************************************************************************)
(* What LibOSDP does while the crate has called it.                        *)
(***************************************************************************)

Of(pd) == {s \in Subs : request[s] # None /\ request[s].pd = pd}

(* The next queued command is sent; one per PD is in flight.               *)
C_Send(s) ==
  /\ Refreshing
  /\ held[s] = "queued"
  /\ \A t \in Of(request[s].pd) : held[t] # "sent"
  /\ held' = [held EXCEPT ![s] = "sent"]
  /\ UNCHANGED <<controlVars, request, slotVars, eventVars, replied,
                 malformed, stopping, asked>>

(* The reply to the biometric read in flight spans several packets: the    *)
(* read becomes a multi-part operation that osdp_cp_cancel can name.       *)
C_BioMultipart(s) ==
  /\ Refreshing
  /\ held[s] = "sent" /\ request[s].kind = "bio"
  /\ \A t \in Of(request[s].pd) : request[t].kind = "bio" => held[t] # "running"
  /\ held' = [held EXCEPT ![s] = "running"]
  /\ UNCHANGED <<controlVars, request, slotVars, eventVars, replied,
                 malformed, stopping, asked>>

(* cp_event_trampoline: an event or a notification that no submission is   *)
(* waiting for.                                                            *)
C_Event ==
  /\ Refreshing /\ raised < MaxEvents
  /\ PushEvent
  /\ UNCHANGED <<controlVars, request, slotVars, libVars, routes, streamParked,
                 popped, lastPopped>>

(* cp_event_trampoline and CpEvents::deliver_reply: the reply to the card  *)
(* command s.  The route of the PD is used up whoever the reply goes to.   *)
C_Reply(s) ==
  /\ Refreshing
  /\ held[s] = "running" /\ request[s].kind \in CardKinds /\ s \notin replied
  /\ replied' = replied \union {s}
  /\ LET slot == routes[request[s].pd]
     IN  IF Waiting(slot)
           THEN /\ reply' = [reply EXCEPT ![slot] = s]
                /\ raised' = raised + 1
                /\ UNCHANGED <<queue, dropped>>
           ELSE PushEvent /\ UNCHANGED reply
  /\ routes' = [routes EXCEPT ![request[s].pd] = None]
  /\ UNCHANGED <<controlVars, request, status, handle, waker, frees, wakeups,
                 asleep, held, malformed, stopping, asked, streamParked, popped,
                 lastPopped>>

(* cp_event_trampoline when the reply to s does not convert: LibOSDP makes *)
(* nothing of its result, and the route stays until the next card command. *)
C_MalformedReply(s) ==
  /\ Refreshing
  /\ held[s] = "running" /\ request[s].kind \in CardKinds /\ s \notin replied
  /\ replied' = replied \union {s}
  /\ malformed' = malformed \union {s}
  /\ UNCHANGED <<controlVars, request, slotVars, eventVars, held, stopping, asked>>

(* A command ends: one in flight, a file transfer, or a card command,      *)
(* which succeeds only after its reply was reported.  A cancelled          *)
(* operation ends as a failed one.                                         *)
C_Complete(s, outcome) ==
  /\ Refreshing
  /\ held[s] \in {"sent", "running"}
  /\ outcome = "ok" => /\ s \notin stopping
                       /\ request[s].kind \in CardKinds => s \in replied
  /\ CompleteDeferring({s}, outcome)
  /\ UNCHANGED <<controlVars, request, reply, handle, asleep, eventVars, replied,
                 malformed, stopping, asked>>

-----------------------------------------------------------------------------
(* wake_waiting, entered by the call on top of the stack when LibOSDP      *)
(* returns: Busy is dropped and wake_all takes the deferred wakers.        *)
BeginWakingNobody(accepted) ==
  /\ busy' = FALSE
  /\ stack' = Advance("wake", {}, accepted)
  /\ UNCHANGED wakeups

BeginWaking(accepted) ==
  /\ busy' = FALSE
  /\ stack' = Advance("wake", wakeups, accepted)
  /\ wakeups' = {}

(* wake_all calls the next waker it took; they are taken in any order.     *)
WakeNext(s) ==
  /\ InPhase("wake") \/ InPhase("waker")
  /\ s \in Top.todo
  /\ asleep' = [asleep EXCEPT ![s] = FALSE]
  /\ stack' = Advance("waker", Top.todo \ {s}, Top.accepted)
  /\ UNCHANGED <<alive, busy, request, status, reply, handle, waker, frees, wakeups,
                 eventVars, libVars>>

WokeAll == (InPhase("wake") \/ InPhase("waker")) /\ Top.todo = {}

StreamDue == queue # <<>> /\ streamParked

(* wake_waiting ends with the waker of the event stream, if events wait.   *)
WakeStream ==
  /\ WokeAll /\ StreamDue
  /\ streamParked' = FALSE
  /\ stack' = Advance("stream", {}, Top.accepted)
  /\ UNCHANGED <<alive, busy, request, slotVars, libVars, queue, dropped, routes,
                 raised, popped, lastPopped>>

WokenButStream == InPhase("stream") \/ WokeAll

Woken == InPhase("stream") \/ (WokeAll /\ ~StreamDue)

-----------------------------------------------------------------------------
(* refresh                                                                 *)

RefreshBegin ==
  /\ AppRuns /\ BusyEnter /\ Len(stack) < MaxDepth
  /\ stack' = Push("refresh", "c", None, {})
  /\ UNCHANGED <<alive, request, slotVars, eventVars, libVars>>

RefreshReturns ==
  /\ Refreshing
  /\ BeginWaking(FALSE)
  /\ UNCHANGED <<alive, request, status, reply, handle, waker, frees, asleep,
                 eventVars, libVars>>

(* A refresh, or a flush, returns to its caller.                           *)
CallReturns ==
  /\ Woken /\ Top.op \in {"refresh", "flush"}
  /\ stack' = Caller
  /\ UNCHANGED <<alive, busy, request, slotVars, eventVars, libVars>>

-----------------------------------------------------------------------------
(* queue_command, called by submit and by piv_data, general_auth and       *)
(* challenge_auth, which alone want the reply.  When the context is busy   *)
(* the call is refused before it allocates anything: no state changes.     *)

SubmitBegin(s, pd, kind, wants) ==
  /\ AppRuns /\ BusyEnter /\ Len(stack) < MaxDepth
  /\ request[s] = None
  /\ wants => kind \in CardKinds
  /\ request' = [request EXCEPT ![s] = [pd |-> pd, kind |-> kind, wants |-> wants]]
  /\ stack' = Push("submit", "c", s, {})
  /\ UNCHANGED <<alive, slotVars, eventVars, libVars>>

(* LibOSDP can take the command: one card command per PD runs at a time,   *)
(* and one file transfer.  It may refuse any command (the PD is offline).  *)
C_Accepts(s) ==
  \A t \in Of(request[s].pd) \ {s} :
    /\ request[s].kind \in CardKinds =>
         ~(request[t].kind \in CardKinds /\ held[t] = "running")
    /\ request[s].kind = "file" => ~(request[t].kind = "file" /\ held[t] = "running")

C_Takes(s) ==
  held' = [held EXCEPT ![s] =
             IF request[s].kind \in CardKinds \union {"file"} THEN "running" ELSE "queued"]

SubmitReturns(accepted) ==
  /\ InPhase("c") /\ Top.op = "submit"
  /\ \/ accepted /\ C_Accepts(Top.sub) /\ C_Takes(Top.sub)
     \/ ~accepted /\ UNCHANGED held
  /\ BeginWaking(accepted)
  /\ UNCHANGED <<alive, request, status, reply, handle, waker, frees, asleep,
                 eventVars, replied, malformed, stopping, asked>>

(* RawSubmission::reclaim: the box of a refused command is freed.          *)
ReclaimNothing(s) == UNCHANGED frees

Reclaim(s) == frees' = [frees EXCEPT ![s] = @ + 1]

(* CpEvents::route_reply, for card commands only.                          *)
RouteReply(s) ==
  routes' = IF request[s].kind \in CardKinds
              THEN [routes EXCEPT ![request[s].pd] = IF request[s].wants THEN s ELSE None]
              ELSE routes

(* The rest of queue_command, once the wakers have run; Submission::new    *)
(* gives the application its handle.                                       *)
SubmitRefusedRouted ==
  /\ Woken /\ Top.op = "submit" /\ ~Top.accepted
  /\ Reclaim(Top.sub)
  /\ RouteReply(Top.sub)
  /\ stack' = Caller
  /\ UNCHANGED <<alive, busy, request, status, reply, handle, waker, wakeups, asleep,
                 libVars, queue, dropped, streamParked, raised, popped, lastPopped>>

SubmitRefused ==
  /\ Woken /\ Top.op = "submit" /\ ~Top.accepted
  /\ Reclaim(Top.sub)
  /\ stack' = Caller
  /\ UNCHANGED <<alive, busy, request, status, reply, handle, waker, wakeups, asleep,
                 eventVars, libVars>>

SubmitAccepted ==
  /\ Woken /\ Top.op = "submit" /\ Top.accepted
  /\ RouteReply(Top.sub)
  /\ handle' = [handle EXCEPT ![Top.sub] = "live"]
  /\ stack' = Caller
  /\ UNCHANGED <<alive, busy, request, status, reply, waker, frees, wakeups, asleep,
                 libVars, queue, dropped, streamParked, raised, popped, lastPopped>>

-----------------------------------------------------------------------------
(* flush is not guarded by Busy: called from a callback it runs, and       *)
(* leaves the wakers to the call that is in progress.                      *)

Queued(pd) == {s \in Of(pd) : held[s] = "queued"}

FlushInCallback(pd) ==
  /\ AppRuns /\ busy
  /\ CompleteDeferring(Queued(pd), "flushed")
  /\ UNCHANGED <<controlVars, request, reply, handle, asleep, eventVars, replied,
                 malformed, stopping, asked>>

Flush(pd) ==
  /\ AppRuns /\ ~busy /\ Len(stack) < MaxDepth
  /\ Complete(Queued(pd), "flushed")
  /\ stack' = Push("flush", "wake", None, Deferred(Queued(pd)))
  /\ wakeups' = {}
  /\ UNCHANGED <<alive, busy, request, reply, handle, asleep, eventVars, replied,
                 malformed, stopping, asked>>

-----------------------------------------------------------------------------
(* Operations on a handle.                                                 *)

(* osdp_cp_cancel names an operation by its PD and its kind.               *)
C_Running(pd, kind) ==
  {t \in Of(pd) : request[t].kind = kind /\ held[t] = "running"}

(* Submission::cancel, returning Ok.                                       *)
Cancel(s) ==
  /\ AppRuns /\ handle[s] = "live"
  /\ request[s].kind \in MultiKinds
  /\ IsPending(s)
  /\ C_Running(request[s].pd, request[s].kind) # {}
  /\ stopping' = stopping \union C_Running(request[s].pd, request[s].kind)
  /\ asked' = asked \union {s}
  /\ UNCHANGED <<controlVars, request, slotVars, eventVars, held, replied,
                 malformed>>

(* Future::poll of a Submission that is not done: the waker is parked.     *)
Poll(s) ==
  /\ AppRuns /\ handle[s] = "live" /\ status[s] = "none"
  /\ waker' = [waker EXCEPT ![s] = TRUE]
  /\ asleep' = [asleep EXCEPT ![s] = TRUE]
  /\ UNCHANGED <<controlVars, request, status, reply, handle, frees, wakeups,
                 eventVars, libVars>>

(* Drop for Submission: the submission goes on without its handle.         *)
DropHandle(s) ==
  /\ AppRuns /\ handle[s] = "live"
  /\ handle' = [handle EXCEPT ![s] = "dropped"]
  /\ asleep' = [asleep EXCEPT ![s] = FALSE]
  /\ UNCHANGED <<controlVars, request, status, reply, waker, frees, wakeups,
                 eventVars, libVars>>

-----------------------------------------------------------------------------
(* The event queue, read with next_event or polled as an EventStream.      *)

NextEventNewest ==
  /\ AppRuns /\ queue # <<>>
  /\ queue' = SubSeq(queue, 1, Len(queue) - 1)
  /\ popped' = popped + 1
  /\ lastPopped' = queue[Len(queue)]
  /\ UNCHANGED <<controlVars, request, slotVars, libVars, dropped, routes,
                 streamParked, raised>>

NextEvent ==
  /\ AppRuns /\ queue # <<>>
  /\ queue' = Tail(queue)
  /\ popped' = popped + 1
  /\ lastPopped' = Head(queue)
  /\ UNCHANGED <<controlVars, request, slotVars, libVars, dropped, routes,
                 streamParked, raised>>

ParkStream ==
  /\ AppRuns /\ queue = <<>>
  /\ streamParked' = TRUE
  /\ UNCHANGED <<controlVars, request, slotVars, libVars, queue, dropped, routes,
                 raised, popped, lastPopped>>

-----------------------------------------------------------------------------
(* Drop for ControlPanel.  The borrow checker keeps the context alive      *)
(* while a call runs or a handle exists.  osdp_cp_teardown returns every   *)
(* command; then the fields are freed, deferred wakers unwoken.            *)
DropContext ==
  /\ alive /\ stack = <<>>
  /\ \A s \in Subs : handle[s] # "live"
  /\ Complete({s \in Subs : held[s] # "out"}, "aborted")
  /\ alive' = FALSE
  /\ wakeups' = {}
  /\ queue' = <<>>
  /\ routes' = [pd \in PDs |-> None]
  /\ streamParked' = FALSE
  /\ UNCHANGED <<busy, stack, request, reply, handle, asleep, dropped, raised, popped,
                 lastPopped, replied, malformed, stopping, asked>>

-----------------------------------------------------------------------------
Init ==
  /\ alive = TRUE
  /\ busy = FALSE
  /\ stack = <<>>
  /\ request = [s \in Subs |-> None]
  /\ status = [s \in Subs |-> "none"]
  /\ reply = [s \in Subs |-> None]
  /\ handle = [s \in Subs |-> "none"]
  /\ waker = [s \in Subs |-> FALSE]
  /\ frees = [s \in Subs |-> 0]
  /\ wakeups = {}
  /\ queue = <<>>
  /\ dropped = 0
  /\ routes = [pd \in PDs |-> None]
  /\ streamParked = FALSE
  /\ held = [s \in Subs |-> "out"]
  /\ replied = {}
  /\ malformed = {}
  /\ stopping = {}
  /\ asleep = [s \in Subs |-> FALSE]
  /\ asked = {}
  /\ raised = 0
  /\ popped = 0
  /\ lastPopped = 0

LibNext ==
  \/ C_Event
  \/ \E s \in Subs :
       \/ C_Send(s)
       \/ C_BioMultipart(s)
       \/ C_Reply(s)
       \/ C_MalformedReply(s)
       \/ \E outcome \in {"ok", "failed"} : C_Complete(s, outcome)

(* A call in progress moves on towards its return.                         *)
Unwind ==
  \/ RefreshReturns
  \/ \E accepted \in BOOLEAN : SubmitReturns(accepted)
  \/ \E s \in Subs : WakeNext(s)
  \/ WakeStream
  \/ CallReturns
  \/ SubmitRefused
  \/ SubmitAccepted

AppNext ==
  \/ RefreshBegin
  \/ \E s \in Subs, pd \in PDs, kind \in Kinds, wants \in BOOLEAN :
       SubmitBegin(s, pd, kind, wants)
  \/ \E pd \in PDs : FlushInCallback(pd) \/ Flush(pd)
  \/ \E s \in Subs : Cancel(s) \/ Poll(s) \/ DropHandle(s)
  \/ NextEvent
  \/ ParkStream
  \/ DropContext

Next == LibNext \/ Unwind \/ AppNext

Spec == Init /\ [][Next]_vars

(***************************************************************************)
(* Properties                                                              *)
(***************************************************************************)

TypeOK ==
  /\ alive \in BOOLEAN
  /\ busy \in BOOLEAN
  /\ stack \in Seq(Frame)
  /\ request \in [Subs -> Request \union {None}]
  /\ status \in [Subs -> Outcomes \union {"none"}]
  /\ reply \in [Subs -> Subs \union {None}]
  /\ handle \in [Subs -> {"none", "live", "dropped"}]
  /\ waker \in [Subs -> BOOLEAN]
  /\ frees \in [Subs -> Nat]
  /\ wakeups \in SUBSET Subs
  /\ queue \in Seq(Nat) /\ Len(queue) <= Capacity
  /\ dropped \in Nat
  /\ routes \in [PDs -> Subs \union {None}]
  /\ streamParked \in BOOLEAN
  /\ held \in [Subs -> {"out", "queued", "sent", "running"}]
  /\ replied \in SUBSET Subs /\ malformed \in SUBSET replied
  /\ stopping \in SUBSET Subs
  /\ asleep \in [Subs -> BOOLEAN]
  /\ asked \in SUBSET Subs
  /\ raised \in Nat
  /\ popped \in Nat
  /\ lastPopped \in Nat

(* However application code re-enters the context, LibOSDP's refresh and   *)
(* submit never run inside one another: the context is busy exactly while  *)
(* one of them is the innermost call, and every call around it is waking   *)
(* tasks, outside LibOSDP (busy.rs, and wake_waiting's own busy check).    *)
NoNestedCall ==
  /\ busy <=> InPhase("c")
  /\ \A i \in 1 .. Len(stack) - 1 : stack[i].phase \in {"waker", "stream"}

Submitting(s) ==
  \E i \in 1 .. Len(stack) :
    stack[i].op = "submit" /\ stack[i].sub = s /\ ~stack[i].accepted

(* The box of a command has one owner at a time: the call that submits it, *)
(* then LibOSDP, then nobody.  It is freed once, never while LibOSDP holds *)
(* it, whatever refusal, completion, flush or teardown ends the command    *)
(* (RawSubmission::reclaim, RawSubmission::complete).                      *)
BoxHasOneOwner ==
  \A s \in Subs :
    frees[s] = IF request[s] # None /\ held[s] = "out" /\ ~Submitting(s)
                 THEN 1 ELSE 0

(* No task sleeps on a command that has ended: its waker has been deferred *)
(* or is among those a call in progress is about to wake, even when the    *)
(* command ended inside a flush that a callback or another waker made.     *)
NoLostWakeup ==
  \A s \in Subs :
    asleep[s] /\ status[s] # "none" =>
      s \in wakeups \/ \E i \in 1 .. Len(stack) : s \in stack[i].todo

(* When the outermost call has returned, no waker is left deferred, and    *)
(* the stream's waker is not parked while events are queued.               *)
NothingLeftUnwoken == stack = <<>> => wakeups = {} /\ ~StreamDue

(* A handle never resolves into the reply to another command.              *)
ReplyIsOwn == \A s \in Subs : reply[s] \in {s, None}

(* cp.rs:285: "the returned handle resolves into the card's reply": once a *)
(* command sent for its reply ended well, its handle holds the reply,      *)
(* unless the reply did not convert.                                       *)
ReplyReachesHandle ==
  \A s \in Subs \ malformed :
    status[s] = "ok" /\ handle[s] = "live" /\ request[s].wants => reply[s] = s

(* submit.rs:93: cancel stops "the multi-part operation that this          *)
(* submission started": no operation is stopped but by its own handle.     *)
CancelStopsOwnOperation == stopping \subseteq asked

(* Every event LibOSDP raised is in one place: taken by the application,   *)
(* still queued, counted as dropped, or stored as some handle's reply; and *)
(* those that are not dropped are taken in the order they were raised.     *)
EventsAccountedFor ==
  /\ alive => raised = popped + Len(queue) + dropped
                         + Cardinality({s \in Subs : reply[s] # None})
  /\ \A i \in 1 .. Len(queue) :
       queue[i] > (IF i = 1 THEN lastPopped ELSE queue[i - 1])

(* The life of each submission, as the application is promised it.         *)
outcomeOf ==
  [s \in Subs |->
     IF status[s] # "none" THEN status[s]
     ELSE IF held[s] # "out" THEN "pending"
     ELSE IF frees[s] > 0 THEN "refused" ELSE "idle"]

asksOf ==
  [s \in Subs |->
     IF outcomeOf[s] \in {"idle", "refused"} \/ request[s].kind \notin CardKinds
       THEN "none" ELSE IF request[s].wants THEN "handle" ELSE "events"]

answerOf ==
  [s \in Subs |->
     IF reply[s] = s THEN "handle"
     ELSE IF s \in malformed THEN "nowhere"
     ELSE IF s \in replied THEN "events" ELSE "none"]

Promise == INSTANCE Submissions
             WITH outcome <- outcomeOf, asks <- asksOf, answer <- answerOf

(* Whatever calls are nested and whenever wakers run, a command is refused *)
(* or ends exactly once and keeps that outcome, and its reply is handed    *)
(* over at most once, before it ends (Submission, cp.rs:264-294).          *)
KeepsPromise == Promise!Spec

-----------------------------------------------------------------------------
(* Liveness.  Every call the context makes returns: LibOSDP does not       *)
(* block, and neither do the application's callbacks and wakers, although  *)
(* a waker may itself make further calls.  Hence strong fairness, for each *)
(* depth of the stack.  Nothing is assumed of the application: it need not *)
(* refresh again.                                                          *)
Fairness == \A d \in 1 .. MaxDepth : SF_vars(Len(stack) = d /\ Unwind)

FairSpec == Spec /\ Fairness

(* A task that awaits a command is woken once the command has ended.       *)
EndedTasksAreWoken ==
  \A s \in Subs : asleep[s] /\ status[s] # "none" ~> ~asleep[s]

(* The task parked on the event stream is woken once an event is queued,   *)
(* unless somebody else takes the event first.                             *)
StreamIsWoken == StreamDue ~> ~StreamDue

=============================================================================

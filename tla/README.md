# libosdp-rs in TLA+

This directory is a formal model of the Rust crate `libosdp`
(`libosdp/src/`, the safe wrapper around the C library LibOSDP): TLA+ modules,
TLC configurations that model-check them on small instances, and theorems
checked by TLAPS for every value of the constants. Paths below are relative to
`src/` of this tree; those without a directory are under `src/libosdp/src/`.

OSDP connects one control panel (CP) to up to 126 peripheral devices (PDs) on
a serial bus. The crate gives an application two contexts, `ControlPanel` and
`PeripheralDevice`, each owned by one thread and driven by calling `refresh()`
periodically. There is no internal thread. What makes the crate hard is
re-entrance: LibOSDP calls application code in the middle of a refresh
(channels, file ops, the PD's command handler), the crate calls application
code when it wakes a task, and that code may call the same context again.


## 1. Inventory

### Components

| component | files | state it keeps | operations |
|---|---|---|---|
| Control panel run time | `cp.rs`, `busy.rs`, `wake.rs`, `stream.rs` | `Busy` flag, deferred `Wakeups`, the event stream's `WakerSlot` | `refresh`, `submit`, `piv_data`, `general_auth`, `challenge_auth`, `flush`, `next_event`, `EventStream::poll_next`, drop; link queries and settings |
| Submissions | `submit.rs`, `ffi/submit.rs` | `Slot` (status, reply, waker), the box LibOSDP holds, the `Submission` handle | `status`, `cancel`, `poll`, drop; `into_raw`, `reclaim`, `complete` |
| Events and reply routing | `ffi/callback.rs` (`CpEvents`), `queue.rs` | bounded `DrainQueue`, drop counter, one `Weak<Slot>` per PD | `cp_event_trampoline`, `route_reply`, `deliver_reply`, `push`, `pop` |
| Peripheral device run time | `pd.rs`, `ffi/callback.rs` (`PdCommandSlot`, `CallbackSlot`) | the command handler slot, notification queue of 32, `Busy`, `Wakeups` | `refresh`, `submit`, `flush`, `set_command_handler`, `Responder::reply`, `next_notification`, drop |
| File transfer callbacks | `file.rs`, `ffi/file.rs` | the open file, offset, role, registered ops | `open`, `read`, `write`, `finalize`, `close` |
| Channel callbacks | `channel.rs`, `ffi/channel.rs` | the boxed channel | `recv`, `send`, `flush`, `close` |
| Builder and PD descriptions | `cp.rs` (builder), `pd.rs` (`new`), `pdinfo.rs`, `pdcap.rs`, `pdid.rs` | PD list, keys, flags, sentinel-terminated capability array, the boxes given to LibOSDP | `build`, `new`, `freeze`, the drops |
| Links | `cp.rs` | none of its own: LibOSDP's masks, identities and capabilities | `is_online`, `is_secure`, `pd_id`, `capability`, `enable`, `disable` |
| Conversions | `commands.rs`, `events.rs`, `status.rs`, `trs.rs`, `bio.rs`, `piv.rs`, `notification.rs`, `metrics.rs`, `lib.rs`, `error.rs` | none | `TryFrom`/`From` to and from the C structs |
| Logging bridge | `ffi/log.rs` | none | forwards a log line |
| LibOSDP | external (git submodule, empty here); `libosdp-sys/src/bindings.rs` documents it | command queues, sessions, PD events | `osdp_cp_*`, `osdp_pd_*`, callbacks |

### Interactions

* A context owns the C context. `cp.rs` calls `osdp_cp_*`; LibOSDP calls the
  trampolines of `ffi/callback.rs` and `ffi/submit.rs`, and the channel and
  file tables, *during* those calls.
* A submission is a `Slot` behind an `Rc`: the application's `Submission` holds
  one reference, the box handed to LibOSDP (`RawSubmission`) another, the reply
  route (`CpEvents::replies`) a weak one. The box is freed by `reclaim` when
  LibOSDP refuses the command, by `complete` when the command ends.
* Completions never run application code: they store the outcome and defer the
  waker to `Wakeups`. The outermost crate call then runs `wake_waiting`, after
  LibOSDP has returned and `Busy` is clear. Those wakers are application code.
* `Busy` guards `refresh` and `submit` on a CP (and `refresh` on a PD); `flush`
  and `PeripheralDevice::submit` are not guarded.

### Hard behaviours and what makes each component correct

* **Run time.** A call arriving while another is in progress: from LibOSDP's
  callback it must be refused; from a waker it must work. Wakers deferred by a
  nested `flush` must be run by somebody. A stream waker parked again while
  wakers run must not sleep on queued events.
  *Correct when* LibOSDP is never entered twice, no wakeup is lost, every
  accepted command ends once.
* **Submissions.** Refusal, completion, flush, cancel, teardown and a handle
  dropped early race for one box. *Correct when* the box is freed exactly once
  and never while LibOSDP holds it, outcomes are final, and `cancel` affects
  only its own operation.
* **Events and replies.** A route may outlive its submission; the queue may be
  full. *Correct when* a handle resolves only into its own reply, each event is
  delivered, counted as dropped, or turned into a reply, and order is kept.
* **Peripheral device.** A handler replaced while it runs; a `submit` made from
  the handler. *Correct when* a handler is never freed under its own feet, its
  replacement is never overwritten, and the notification queue keeps order.
* **File transfer, channel.** Over-reported byte counts, resent chunks,
  `finalize` asked again. *Correct when* no count exceeds the buffer, a file is
  closed once per open and `finalize` runs only after its last byte.
* **Channel.** A packet that blocks is offered again; a count may be past the
  buffer. *Correct when* each byte comes out once, in order, and no packet that
  only had to wait is lost.
* **Builder, PD descriptions.** Every call of `build` and `new` may fail, and
  LibOSDP already has the address of some boxes by then; the walk that frees the
  capability list. *Correct when* nothing is leaked or freed twice, or reachable
  from LibOSDP after it is freed, and LibOSDP was told what was described.
* **Links.** LibOSDP keeps the identity of a PD that went offline. *Correct when*
  an application is told about no device of an earlier session.
* **Conversions.** Widths, rounding, unknown codes, fields checked in one
  direction only. *Correct when* what one end accepted arrives with the meaning
  it was sent with, and what an application was handed it can send on.


## 2. What is modelled

### Modules

| module | what it holds |
|---|---|
| `Submissions` | the abstract promise: a command is refused, or accepted and ended once; the reply to a card command comes at most once, before it ends well, and goes to its handle, to the events or, when it does not convert, nowhere |
| `ControlPanel` | the CP run time, submissions, events and routes in one state machine; its properties, the refinement of `Submissions`, and its fairness |
| `PeripheralDevice` | the PD run time, the command handler's slot, submitted events and notifications; it refines `Submissions` too |
| `FileDelivery` | the abstract promise of a file transfer: what arrives is what was sent, it is finished once whole, and success is told only if the receiver said so |
| `FileTransfer` | the `FileOps` callbacks of both ends of a transfer, over a line that loses messages, to the drop of either context; it refines `FileDelivery` |
| `Encoding` | what the conversions are built from: counts of a unit of time, buffers with a length, enums and codes, little-endian words |
| `Commands`, `Events`, `Notifications` | every command, event, notification and PD identity: its type, its struct, and the two conversions |
| `Structs` | C's structs of commands, events and notifications, with the width of every field: whatever another implementation can make LibOSDP hand over |
| `Exchange` | a value from the application that submits it, through both conversions and the callback, to the other application, which may send it on |
| `Setup` | describing PDs, `ControlPanelBuilder::build`, `PeripheralDevice::new`, the boxes LibOSDP is given, and the two drops |
| `Wire` | packets through the callbacks of a `Channel` at either end of a bus |
| `Link` | what a control panel tells about its PDs, and `enable`/`disable` |
| `MCControlPanel`, `MCPeripheralDevice` | symmetry for TLC |
| `MCExchange` | samples of every kind of value and struct, at the limits of each field |
| `ControlPanelProofs` | the call-stack lemmas; type correctness; no nested call; wakeups are not lost |
| `ControlPanelOwnership` | boxes are freed once; replies reach their own handle and no other; every event is accounted for; what a cancel stops; the refinement of `Submissions` and what follows from it |
| `PeripheralDeviceProofs` | the stack lemmas and type correctness of the PD; every notification is accounted for; no nested refresh; a handler is freed once, never while it runs, and the one set last answers; wakeups and boxes; the refinement of `Submissions` |
| `FileTransferProofs` | file callbacks only while the file is open; the box of a `FileOps` outlives them; type correctness; the two ends in step; the refinement of `FileDelivery` and what follows from it |
| `SetupProofs` | boxes are freed once and never dangle; what LibOSDP is told |
| `ExchangeProofs` | the conversions are inverse to one another, for every value; whatever C's structs hold is read as a value of the crate's types, which can be sent on |
| `WireProofs` | bytes come out of the bus once and in order; no packet is sent twice or lost for having to wait |
| `LinkProofs` | the status mask is read exactly; an identity told is that of a device at the address since the PD came online |

How they compose: `ControlPanel` and `PeripheralDevice` each hold the run time,
the slots, the queues and the callbacks of one context, because those interact
at every step, and both implement `Submissions`. `Exchange` extends `Structs`,
which takes in `Events` and `Notifications`; these rest on `Commands` and
`Encoding`. `Setup`, `Wire` and
`Link` each stand for the part of a context that does not depend on how calls
nest: a context is built before and dropped after everything `ControlPanel` and
`PeripheralDevice` do, and a `Channel` sees bytes only.

### How `ControlPanel` corresponds to the code

*Calls interleave, not threads.* `stack` holds the calls of the context that
have begun and not returned. A frame's `phase` says where its call is:

| phase | where the call is |
|---|---|
| `c` | inside LibOSDP (`osdp_cp_refresh`, `osdp_cp_submit_command`) |
| `wake` | in `wake_waiting`, between two wakers; `todo` are those `wake_all` took and has not called |
| `waker` | in the waker of a task |
| `stream` | in the waker of the event stream, called last |

Application code runs when `AppRuns`: with an empty stack, inside a refresh
(channel, file op), inside the submission of a file transfer (LibOSDP calls
`FileOps::open`), and inside a waker if `WakersCall`. Every application action
may be taken there, including another refresh. `WakersCall = FALSE` is an
executor whose wakers only schedule a task.

| action | code |
|---|---|
| `RefreshBegin`, `RefreshReturns`, `CallReturns` | `ControlPanel::refresh`, `wake_waiting` |
| `SubmitBegin`, `SubmitReturns`, `SubmitRefused`, `SubmitAccepted` | `queue_command` as called by `submit`, `piv_data`, `general_auth`, `challenge_auth` |
| `WakeNext`, `WakeStream` | `Wakeups::wake_all`, the end of `wake_waiting` |
| `Flush`, `FlushInCallback` | `ControlPanel::flush` outside and inside a callback |
| `Cancel`, `Poll`, `DropHandle` | methods of `Submission` |
| `NextEvent`, `ParkStream` | `next_event`, `EventStream::poll_next` |
| `DropContext` | `Drop for ControlPanel`, with `osdp_cp_teardown` |
| `C_Send`, `C_BioMultipart`, `C_Event`, `C_Reply`, `C_MalformedReply`, `C_Complete` | what LibOSDP does in a refresh; the last four run `cp_event_trampoline`, `deliver_reply` and the completion trampolines |

Abstractions, and why they lose nothing the properties see:

* *Replies that do not convert* (`C_MalformedReply`). `cp_event_trampoline`
  returns -1, LibOSDP goes on, and the route stays where it was; the command may
  still end well. Any other event that does not convert changes no state, and is
  no step.
* *Data.* A command is its PD, its kind and whether its reply is wanted; an
  event is its number; a stored reply is the submission it answers, so that a
  reply delivered to the wrong handle is visible.
* *Calls that change nothing* have no action: a submission refused because the
  context is busy or because the command does not convert (both before anything
  is allocated), a `cancel` that returns an error, a C event that does not
  convert. Link settings (`disable_pd`, flags, file progress, metrics) touch no
  state of the crate; they show as LibOSDP being free to refuse any command.
* *Wakers.* A slot holds at most one waker, so the deferred wakers are a set,
  and `wake_all` calls them in any order. `asleep[s]` is a history variable: the
  task was told `Pending` and has not been woken. Only that task's own waker
  wakes it.
* *Flush* is atomic: its completion callbacks run no application code.
* *LibOSDP* does what `bindings.rs` documents: one refresh of a frame exchange
  stands for the several it takes; commands of a PD are sent one at a time in
  any order, a superset of the order of the queue; one card command per PD runs
  at a time (`bindings.rs`, `osdp_cp_submit_command`) and ends well only after
  its reply was reported; a cancel names a PD and a kind.
* *Names.* Each member of `Subs` is used for one command, so that history is
  kept; a longer run reuses nothing the model would forget. `MaxDepth` and
  `MaxEvents` are the only bounds in guards; both are in TLC's instances and
  arbitrary in the theorems.

### How `PeripheralDevice` corresponds to the code

The stack is the same idea with two more phases and one more operation:

| phase | where the call is |
|---|---|
| `handler` | the refresh is in the command callback, running the handler that `CallbackSlot::call` took out of its slot (the frame's `handler`) |
| `drop` | a replaced handler's destructor runs, inside the command callback (`op = "refresh"`) or inside `set_command_handler` (`op = "set"`) |

| action | code |
|---|---|
| `RefreshBegin`, `RefreshReturns`, `CallReturns`, `WakeNext`, `WakeStream` | `PeripheralDevice::refresh`, `wake_waiting` |
| `Command`, `HandlerReturns`, `HandlerDropped` | `pd_command_trampoline`, `CallbackSlot::call` |
| `SetHandler` | `set_command_handler`, `CallbackSlot::replace` |
| `C_Notify` | `pd_command_trampoline` with a notification |
| `Reply` | `Responder::reply`, only while the handler itself is running |
| `SubmitInCallback` | `submit` while the context is busy: `wake_waiting` returns at once |
| `SubmitBegin`, `SubmitReturns` | `submit` otherwise: the wakers run between LibOSDP's verdict and the look at it |
| `Flush`, `FlushInCallback`, `Poll`, `DropHandle`, `NextNotification`, `ParkStream`, `DropContext` | as on the control panel |

`submit` is not guarded by `Busy` here, so it is an action of the callbacks too.
A handler's destructor is application code: handlers are `FnMut` closures that
may own anything, so every application action may be taken while one is dropped.
A handler's name is used once. A command that does not convert, or that comes
before a handler is set, is refused and changes nothing; neither does a reply of
the wrong kind. LibOSDP completes events in any order, a superset of its queue.

### How `FileTransfer` corresponds to the code

| definition | code |
|---|---|
| `FileOpen`, `Mode` | `file_open`: the mode by the role of the end, 0 or -1 |
| `FileRead`, `FileWrite` | `file_read`, `file_write`: a count that fits the buffer, or -1 |
| `FileFinalize`, `Finalizes` | `file_finalize`, and whether `as_raw` registers it |
| `Close` | `file_close` |
| `Submit`, `SendChunk` | LibOSDP calls `file_open` and `file_read` of the CP |
| `OpenReceived`, `WriteChunk`, `Finalize`, `CloseReceived` | the four callbacks of the PD, as phases of one refresh |
| `Teardown`, `FreeOps` | the context's `Drop`, then its field's `OwnedFileOps::drop` |

A `FileOps` answers anything the trait allows and some things it does not: an
error after part of a chunk was stored, a short count, a count larger than the
buffer. It may report an empty file, which LibOSDP refuses to send and closes
(`docs/c-api-friction.md`), or one that has grown or shrunk since: a read gives any
count up to its buffer, also past the size that `open` reported, where the bytes
are `Junk`. LibOSDP then sends the piece or gives the transfer up (`C_Abort`), and
the receiver takes it or fails (`WriteChunk`). A count that fits is taken to be
true; so does the code. How LibOSDP
drives the callbacks is what `bindings.rs` says of them: a write in part ends
the transfer and closes the file, a missing `finalize` stands for success, a PD
that is finishing is asked again and may be sent its last chunk again, teardown
closes an open file. A PD whose transfer is over repeats its last answer. The
line carries one message at a time and may lose it; a reply is never
duplicated. A `FileOps` that calls the context again is `ControlPanel`'s
subject, where `AppRuns` covers file ops. One behaviour is one transfer; the
delay that a pending `finalize` asks for only times the next keep-alive and has
no value here.

### How the conversions correspond to the code

A conversion is an operator. One that may refuse (`TryFrom`) has the *set* of its
results as its value: `{x}` where the code returns `Ok(x)`, `{}` where it returns
an error, so that a `?` is the bound of a set comprehension. `XToC` is the
conversion into LibOSDP's struct `X`, `XFromC` the one back. Which error is
returned, and its wording, are left out. Times are in half milliseconds, so that
durations exist which are not a whole number of the finest unit.

| definition | code |
|---|---|
| `ToCount`, `FromCount` | the conversions of a `Duration` in `commands.rs` |
| `ToBuffer`, `FromBuffer` | `copy_into` and the cast of the length; `data.get(..length)` |
| `Open`, `OpenToC`, `OpenFromC` | enums with an `Other(u8)` variant |
| `Decode` | closed enums, which refuse an unknown code |
| `CommandToC`, `CommandFromC`, `EventToC`, `EventFromC` | the `TryFrom` of `osdp_cmd` and `osdp_event`, by kind |
| `NotificationFromC`, `PdIdToC`, `PdIdFromC` | `notification.rs`, `pdid.rs` |
| `Submit`, `Relay` | `submit` of either context; of a value the application was handed |
| `Receive`, `Notify` | LibOSDP builds a struct from another implementation's packet, or by itself |
| `PdCommand`, `CpEvent` | `pd_command_trampoline`, `cp_event_trampoline`, with what they return to LibOSDP |
| `Lose` | LibOSDP gives the struct up |

`Canonical` is what a value means: `Other(c)` for a code that has a name is that
name, a card read is cut to its bits, and the direction of a card read, which
OSDP does not carry, is dropped. Left out: strings as anything but bytes, the
serial number and the other plainly copied numbers of a `PdId`, the counters of
`metrics.rs`.

### How `Setup` corresponds to the code

| `phase` | where the program is |
|---|---|
| `describe` | `PdInfoBuilder` and `add_pd` |
| `setup` | the handles and the channel are allocated, `osdp_cp_setup` or `osdp_pd_setup` is next |
| `register` | the context exists; the two callbacks are set |
| `attach` | `attach_file_ops`, one PD at a time |
| `unwind` | a step after setup failed: the context is dropped, the handles are still there |
| `running`, `ended` | built; dropped, or never made |

`boxes` are the allocations made with `into_raw`, `freed` counts how often each
was freed, `held` are those whose address LibOSDP keeps, `sizes` pairs the length
each capability list was allocated with and the one found by walking to its
sentinel. LibOSDP copies the descriptions in setup. `TearDown` and `DropFields`
are the context's `Drop` and then its fields. A name is an allocation without
content; PD flags are not modelled.

### How `Wire` and `Link` correspond to the code

`Wire` has `raw_read`, `raw_write` and `raw_flush`, each with every answer a
`Channel` may give. `channel.rs` says what LibOSDP makes of a result: 0 offers
the same packet again on the next refresh, a negative drops it. A count that a
`Channel` reports may be past the buffer; one that fits is taken to be true, as
its documentation asks.

`Link` holds LibOSDP's state of each PD (`online`, `secure`, `enabled`, the last
`pdId`) and has the queries of `cp.rs` as actions. `Mask` is the 16 bytes that
LibOSDP fills and `Bit` how `is_online` and `is_secure` read them. LibOSDP may
refuse any query (`rc != 0`), which tells `None` of an online PD. `disable` and
`enable` are refused by what the PD is at the time (`enabled`), not by what was
asked before the next refresh. A device may be exchanged at any time, also behind
a link that LibOSDP still takes for the old one's: nothing in the crate can tell
before the PD goes offline. `present` is the history that says so.


## 3. What is checked

| run | instance | shows |
|---|---|---|
| `cp_safety` | 1 PD, 2 submissions of a plain command, a file transfer or a card command, capacity 1, 1 event, depth 3, re-entrant wakers | the type invariant, six safety invariants, the refinement `KeepsPromise` |
| `cp_reply` | 1 PD, 3 card commands, 1 event beside their replies, a queue of 2, wakers that only schedule | `ReplyReachesHandle`, `EventsAccountedFor` |
| `cp_live` | 1 PD, 2 biometric reads, 2 events, depth 2, re-entrant wakers | `EndedTasksAreWoken`, `StreamIsWoken` under `Fairness` |
| `cp_route` | as `cp_safety` | finding 1 |
| `cp_bio` | 1 PD, 2 biometric reads | finding 2 |
| `pd_safety` | 2 events, 3 handlers, depth 3, 3 notifications in a queue of 2 | seven safety invariants, the refinement `KeepsPromise` |
| `pd_live` | 2 events, 1 handler, depth 2 | `EndedTasksAreWoken` under `Fairness` |
| `file_transfer` | 7 bytes in chunks of 3, 3 lost messages | types, `UsedWhileOpen`, `FreedAfterLastCall`, `ProgressAgrees`, `KeepsDelivery`, and `TransferEnds` under `Fairness` |
| `exchange` | every kind of command, event and notification at the limits of its fields | types, `ArrivesAsSent`, `AcceptedIsReadable`, `RelayIsAccepted` |
| `setup` | a CP or a PD, up to 2 PDs, 2 capabilities and 2 file ops | `NoDanglingBox`, `EveryBoxFreedOnce`, `CapabilitiesFreedWhole`, `ToldAsDescribed`, `FilesServeTheirPd` |
| `wire` | 3 packets of 2 bytes, a buffer of 3 | `BytesInOrder`, `PacketsAccountedFor`, and `EveryPacketLeaves` under its fairness |
| `link` | PDs 8 and 125 with 2 devices | `IdentityIsCurrent` |

`CHECK_DEADLOCK FALSE` is set where the system stops: a dropped context takes no
more steps, and neither does one whose submissions and events are used up once
its calls have returned, a file transfer that is over and whose contexts are
gone, a context that has ended (`setup`), or a bus whose last packet was read
(`wire`). `exchange` and `link` run for ever and are checked for deadlock.

The type invariants of `PeripheralDevice` and `Setup` are not in a run: they are
theorems (`TypeCorrect`), and every other invariant of those runs is evaluated
on the same states.

The safety properties:

* `NoNestedCall` - LibOSDP's refresh and submit never run inside one another.
* `BoxHasOneOwner` - a box belongs to the submitting call, then LibOSDP, then
  nobody, and is freed once.
* `NoLostWakeup` - a task sleeping on an ended command has its waker deferred or
  in a list some call is walking.
* `NothingLeftUnwoken` - when the outermost call has returned, no waker is left
  and the stream's waker is not parked over queued events.
* `ReplyIsOwn` - no handle holds another command's reply.
* `ReplyReachesHandle` - a command sent for its reply that ended well has it,
  unless the reply did not convert (`malformed`).
* `CancelStopsOwnOperation` - LibOSDP stops no operation but one whose own
  handle was asked.
* `EventsAccountedFor` - raised = taken + queued + dropped + stored as replies,
  and order is kept.
* `KeepsPromise` - the abstract life of a submission.

Those of the peripheral device that have no counterpart above:

* `NoNestedRefresh` - the context is busy exactly while one refresh is inside
  LibOSDP, however deep the handler or destructor that runs in it has called.
* `HandlerHasOneOwner` - a handler is in the slot, or in one frame of the stack
  while it or its destructor runs, or freed, once.
* `LatestHandlerAnswers` - the handler set last is in the slot, or is the one
  running; a handler that returns is never put back over its replacement.
* `NotificationsAccountedFor` - as `EventsAccountedFor`, in a queue that never
  passes its capacity.

Those of file transfer:

* `UsedWhileOpen` - LibOSDP is in the middle of a transfer exactly while the
  `FileOps` of that end has its file open, in its mode.
* `FreedAfterLastCall` - the box of a `FileOps` is freed once, after teardown.
* `ProgressAgrees` - what the two ends report as progress differs by at most the
  chunk on its way.
* `KeepsDelivery` - the promises of `FileDelivery`.
* `TransferEnds` - a transfer that began ends.
* `TypeOK`, beside the types - no offset passes the announced size by a whole chunk, whatever counts
  are reported.

Those of the conversions:

* `TypeOK` - whatever struct LibOSDP hands over, with any length, code or sign,
  the application gets a value of the crate's types, or nothing.
* `ArrivesAsSent` - nothing is rounded, wrapped or cut: what arrives means what
  was sent.
* `AcceptedIsReadable` - what one end accepts, the other does not refuse.
* `RelayIsAccepted` - what an application was handed it can send on. The
  exceptions are named in `ReceivedOnly`: a date or time with a field out of range,
  an empty challenge and an empty answer are checked on the way out only.

Those of `Setup`, `Wire` and `Link`:

* `NoDanglingBox` - LibOSDP never has the address of a freed box, whichever call
  of `build` or `new` failed and while the context is torn down.
* `EveryBoxFreedOnce` - none is freed twice and, at the end, none is left.
* `CapabilitiesFreedWhole` - a capability list is freed with its own length.
* `ToldAsDescribed` - LibOSDP was told every PD as its builder described it,
  with an address a bus can have, a listed baud rate, and no PD too many.
* `FilesServeTheirPd` - PDs without file ops do not shift those of the others.
* `BytesInOrder` - a byte leaves the bus at most once, in order, and none that
  was not sent.
* `PacketsAccountedFor` - a packet was taken whole once, is being retried, or
  was given up after a transport error.
* `EveryPacketLeaves` - every packet is taken or given up in the end.
* `IdentityIsCurrent` - an online PD is told by a device that has been at its
  address since it came online, unless LibOSDP refuses, and nothing is told of a
  PD that is offline.

Why the bounds are enough: every interaction the invariants speak of is between
two submissions on one PD (a running and a refused card command, an operation
and its namesake), or between one submission and the call stack; depth 3 is a
call, a waker's call inside it and that one's waker's call. `cp_reply`
takes a third submission because a route must survive one and be used by
another, and a queue of two: with an event and the replies of three commands
whose handles do not want them or are gone, up to four events are raised, two can
wait in either order, and a third or fourth overflows the queue. `cp_safety`
keeps a queue of one, which a single event fills, because it asks nothing about
the order of events. `pd_safety` queues two notifications and raises a third.
`file_transfer` has a first, a middle and a last chunk of another
length, and can lose the message or the reply of each. `pd_safety` takes three
handlers because the interesting case is one that runs, its replacement, and one
set by the destructor of either; depth 3 is a refresh, its handler's
`set_command_handler`, and one more within. `exchange` takes, for each field,
the values on both sides of every limit: 0, one less and one more than the
array, a length of 256 and 257, a count of 255, 256, 65535 and 65536, a time that
is no whole number of its unit, named and unnamed codes, and, for structs of
another origin, lengths that are negative or past the array; a conversion treats
a field alone, so that fields are varied one or two at a time. `setup` has the
first address past the limit, a third PD on a bus of two, and PDs with and
without file ops in either order. `wire` has packets that fill and pass the
buffer and three of them, so that one is retried between two others. `link`
takes a PD past the first byte of the mask and the last PD of a bus.

Fairness. `Fairness` is strong fairness of `Unwind` for each depth of the stack:
a call that has begun returns if it can again and again. The code justifies it:
nothing in `wake_waiting` blocks, the lists are finite, LibOSDP's refresh polls
non-blocking channels, and callbacks are assumed to return. It is strong because
a waker may make further calls, so that a given depth is left and entered again.
Nothing is assumed of the application: it need not refresh again, take an event
or poll. On the PD, `HandlerEnds` has its own strong fairness at each depth, so
that `Unwind`'s says that a refresh returns although the CP may send commands
again and again: LibOSDP's refresh handles a bounded number and returns
(`pd.rs`: "does not block and returns early").
For a file transfer,
`Fairness` says that both contexts are refreshed while they live (the crate asks
for every 50 ms), so that LibOSDP sends, answers and notices a PD that is gone,
and that an application asked to finalize again and again is done at last
(strong fairness, since other steps lie between two questions). It is not
assumed that messages arrive, only that finitely many are lost. For `Wire`, the
application refreshes for ever, so that LibOSDP builds its packets (weak
fairness) and offers the one it has again and again; a `Channel` that blocks for
ever would never pass a packet, so strong fairness says that it takes it, or
fails, in the end.


## 4. What is proved

The theorems are about `Spec` of `ControlPanel`, `PeripheralDevice`,
`FileTransfer`, `Setup`, `Exchange`, `Wire` and `Link`, for every value of their
constants (the bounds `MaxDepth`, `MaxEvents`, `MaxRaised`, `MaxLosses`,
`MaxCaps`, `MaxPds`, `MaxPackets`, `PacketLen` and `BufLen` included), from
`ConstantsAssumption` alone, with these exceptions. `Wire` needs
`LengthsAssumption`, that a packet has a byte at least; `Link` needs
`PDsAssumption`, that the PDs are among the 126 a bus has at most. The types of
`FileTransfer`, and what rests on them, also need `NoneAssumption`: the absence of
a message is not a message. Those of `Exchange` rest on `ValuesAssumption`, which
is what the types of Rust and C say: an application submits values of `Command`
and `Event`, and LibOSDP hands over an `osdp_cmd`, `osdp_event` or
`osdp_notification` in which no field is past its width; lengths and codes are
any that fit. TLC evaluates every one of these
on the runs. Two theorems name their condition, because without it the property
is false of the code (section 5): `ReplyDelivered` is about executors whose
wakers only schedule a task, `CancelsOwn` about programs without biometric reads.

| module | theorem | statement |
|---|---|---|
| `ControlPanelProofs` | `TypeCorrect` | `Spec => []TypeOK` |
| | `NeverNested` | `Spec => []NoNestedCall` |
| | `WakeupsNotLost` | `Spec => []NoLostWakeup` |
| | `NothingStranded` | `Spec => []NothingLeftUnwoken` |
| `ControlPanelOwnership` | `BoxFreedOnce` | `Spec => []BoxHasOneOwner` |
| | `RepliesAreOwn` | `Spec => []ReplyIsOwn` |
| | `ReplyDelivered` | if `~WakersCall`: `Spec => []ReplyReachesHandle` |
| | `EventsKept` | `Spec => []EventsAccountedFor` |
| | `CancelsOwn` | if `"bio" \notin Kinds`: `Spec => []CancelStopsOwnOperation` |
| | `CancelsAsNamed` | `Spec => []StoppedAsNamed`: only operations of the PD and kind of a handle that was asked are stopped, and, biometric reads apart, only its own |
| | `PromiseKept` | `Spec => KeepsPromise`: `ControlPanel` implements `Submissions` |
| | `OutcomeIsFinal` | `Spec => [][EndIsFinal]_vars`: a handle that resolved keeps its outcome and reply |
| | `RepliedBeforeTheEnd` | `Spec => []OkIsReplied`: a card command ends well only after its reply was reported, which is then its handle's, an event, or did not convert |
| `PeripheralDeviceProofs` | `TypeCorrect` | `Spec => []TypeOK` |
| | `NotificationsKept` | `Spec => []NotificationsAccountedFor` |
| | `NeverNested` | `Spec => []NoNestedRefresh` |
| | `HandlerFreedOnce` | `Spec => []HandlerHasOneOwner` |
| | `LatestAnswers` | `Spec => []LatestHandlerAnswers` |
| | `WakeupsNotLost` | `Spec => []NoLostWakeup` |
| | `NothingStranded` | `Spec => []NothingLeftUnwoken` |
| | `BoxFreedOnce` | `Spec => []BoxHasOneOwner` |
| | `PromiseKept` | `Spec => KeepsPromise`: `PeripheralDevice` implements `Submissions` |
| | `OutcomeIsFinal` | `Spec => [][EndIsFinal]_vars`: a handle that resolved keeps its outcome |
| `FileTransferProofs` | `CalledWhileOpen` | `Spec => []UsedWhileOpen` |
| | `FreedAtTheEnd` | `Spec => []FreedAfterLastCall` |
| | `TypeCorrect` | `Spec => []TypeOK` |
| | `ProgressKept` | `Spec => []ProgressAgrees` |
| | `DeliveryKept` | `Spec => KeepsDelivery`: `FileTransfer` implements `FileDelivery` |
| | `SuccessTold` | `Spec => []SuccessIsWhole`: what the sender is told went well is whole on the receiver's disk, and was accepted |
| | `NothingUndone` | `Spec => [][DeliveredStays]_vars`: no byte that arrived is spoilt, no end that was told changes |
| `SetupProofs` | `TypeCorrect` | `Spec => []TypeOK` |
| | `NeverDangling` | `Spec => []NoDanglingBox` |
| | `FreedExactlyOnce` | `Spec => []EveryBoxFreedOnce` |
| | `ListsFreedWhole` | `Spec => []CapabilitiesFreedWhole` |
| | `ToldTheDescription` | `Spec => []ToldAsDescribed` |
| | `FilesServed` | `Spec => []FilesServeTheirPd` |
| `ExchangeProofs` | `MeaningArrives` | `Spec => []ArrivesAsSent` |
| | `AcceptedIsNeverMalformed` | `Spec => []AcceptedIsReadable` |
| | `TypeCorrect` | `Spec => []TypeOK` |
| | `RelayAccepted` | `Spec => []RelayIsAccepted` |
| | `IdentityArrives` | every `PdId` is read back as it was given |
| | `ScanIsExact` | the times of every accepted presence scan are exact and fit their words |
| `WireProofs` | `TypeCorrect` | `Spec => []TypeOK` |
| | `OrderKept` | `Spec => []BytesInOrder` |
| | `PacketsKept` | `Spec => []PacketsAccountedFor` |
| `LinkProofs` | `StatusIsExact` | every set of PDs is read back from its mask as it was, and the mask is 16 bytes |
| | `TypeCorrect` | `Spec => []TypeOK` |
| | `IdentityTold` | `Spec => IdentityIsCurrent` |

The arguments:

* **Type and nesting.** `NoNestedCall` is inductive with the types: a call is
  pushed only when `Busy` was clear, which by the invariant means no frame is in
  phase `c`, and `BeginWaking` clears the flag exactly when the top frame leaves
  it. The lemmas `PushStack`, `TopOfStack` and `AdvanceStack`, and `After...`,
  say once what push, advance and return do to the frames.
* **Wakeups** (`WakeInv`). `NoLostWakeup` alone is not inductive: a completion
  must find the waker of a sleeping task in its slot. `WakerParked` says that a
  task sleeping on a pending command has its waker there (it needs
  `AwaitsHandle`: only tasks with a handle sleep). `NothingLeftUnwoken` follows
  from `DeferredWhileBusy` (wakers are deferred only while LibOSDP runs, so the
  call in progress will take them) and `StreamCovered` (a stream parked over
  queued events has a call in progress that will look). `IdleTodo` says that
  only walking calls hold wakers.
* **Boxes** (`BoxInv`). A submission is a frame's at most once (`SubmitsOnce`),
  such a frame names a requested submission (`SubmitsSomething`), and what
  LibOSDP holds was taken from it (`HeldWasTaken`); so the two frees exclude one
  another.
* **Replies** (`ReplyInv`). A stored reply is its own because a route leads to
  the last card command that was routed on that PD (`RoutesLead`), LibOSDP
  reports only for the running one (`CardIsRunning`), there is one per PD
  (`OneCardPerPD`), and a route whose submission is not running leads to an
  ended or dropped slot, which `deliver_reply` skips.
* **Replies that must arrive** (`DeliverInv`). Where wakers do not call, at most
  one call is on the stack (`Shallow`), so LibOSDP does not run again between the
  moment it takes a command and the moment the call makes the route: nothing is
  replied to in between (`AnsweredLate`). So a command whose handle is live and
  whose reply is still due has its route (`RouteWaits`), a reply reported is
  stored in its own slot (`ReplyStored`) unless it did not convert, and a card command ends well only after
  it (`OkIsAnswered`).
* **Events** (`EventInv`, `NoticeInv`). The count of what was raised is that of
  what was popped, dropped, routed and is still queued. A step that routes a
  reply adds one submission to those answered, which must be finite and must not
  have held it already (`Answered`); the order needs that no number in use is
  ahead of LibOSDP's.
* **Cancels** (`CancelInv`). LibOSDP finds the operation to stop by PD and kind.
  One card command per PD runs at a time, one file transfer is taken at a time
  (`OneFilePerPD`) and runs from then on (`FileIsRunning`); so what it finds is
  what the handle named. Only queued biometric reads break this: of them
  `StoppedAsNamed`, the part of `CancelInv` that holds whatever is submitted,
  says no more than that some handle of the same PD was asked. `CancelsOwn` is
  what it comes to where they are not used.
* **Implementing `Submissions`** (`LifeInv`, `PromiseKept`). A step of the code
  moves at most one submission, except flush and the drop, which end all there
  are; each is shown to be the abstract action of that name, or a stutter. Reading
  the abstract outcome off the code's state needs who owns the box (`BoxInv`),
  that an ended command is freed (`EndedIsFreed`), that only card commands are
  answered (`CardsAnswer`) and that only those whose reply is wanted are routed
  (`RoutesWant`). The peripheral device goes the same way, without replies.
  `OutcomeIsFinal` and `RepliedBeforeTheEnd` are then proved of the steps of
  `Submissions` and read back in the code's state: no step of the abstract
  specification leaves an end, or ends an unanswered card command well. The
  second holds where `ReplyReachesHandle` fails (section 5): the reply that
  missed its handle is among the events.
* **Handlers** (`HandlerInv`). The three properties are proved together, with
  `FramesWellFormed` (a frame holds a handler exactly in the phases `handler`
  and `drop`, and one that was set) and `SlotGiven`. That a returning handler
  finds its slot empty only if it is still the latest needs `NoNestedRefresh`:
  only one frame can be in phase `handler`, the one on top. That a freed handler
  is nowhere else needs the uniqueness of holders on the stack, which
  `CallbackStep` and `HandlerIsSet` carry from frame to frame.
* **Wakeups and boxes of the PD** (`WakeInv`, `BoxInv`). As for the control
  panel, with one difference: a handler or its destructor may call into the
  context, so the call that will notice a parked stream may lie below the
  innermost one (`WalkAhead`).
* **File callbacks** (`CallbackInv`). `UsedWhileOpen` needs the types of the
  engines' phases and that each end keeps to the phases and the mode of its role
  (`RolesOfEnds`); that the box is freed last needs `BoxFollowsContext`: a
  context that is not up has no transfer, and the box is freed as it goes.
* **The transfer itself** (`TransferInv`). What was sent last is a piece of the
  file as far as the announced size goes (`HonestChunk`); the CP reads only before
  that size (`ReadsWithin`, which bounds the offsets although a read may pass it);
  one message is on the line, and a reply says where the PD is (`OneMessage`). So the ends differ by at most the chunk on its way
  (`InStep`), which is `ProgressAgrees`; what the PD has counted is on its disk
  (`DiskHolds`); and success is told only if the application said so
  (`VerdictTold`). With these each step is one of `FileDelivery`, or a stutter;
  `SuccessTold` and `NothingUndone` are proved of the steps of `FileDelivery`.
* **Building a context** (`SetupInv`). `NoDanglingBox` and `EveryBoxFreedOnce`
  need what is allocated in each phase (`Allocated`), how often each box has
  been freed by then (`FreedSoFar`), when LibOSDP's context exists
  (`ContextOfPhase`: without it LibOSDP holds nothing), and that file ops still
  to be attached have no box (`ToAttach`); `BoxKinds` keeps the boxes of the
  descriptions, of the context and of the file ops apart. `FilesServeTheirPd`
  follows from `Served` (what is served and what is still to be attached make up
  the bus), and `CapabilitiesFreedWhole` from `WalkFindsTheEnd`: no code of a
  capability is the sentinel.
* **Conversions** (`ExchangeInv`). `ArrivesAsSent` and `AcceptedIsReadable` are
  inductive with `Origin` (what is on the wire was made from what was sent, or is
  a struct of C's) and `Sent` (that was a value of its type). The substance is one
  lemma per kind of command and event: converting back what the conversion
  accepted gives exactly the canonical value (`...RoundTrip`). They rest on the
  lemmas about counts, buffers, codes and words at the head of the module.
  `RelayIsAccepted` also needs `Handed`: what an application holds is accepted if
  it is sent on. For a struct of another origin that is again one lemma per kind
  (`...Decoded`): what is read from a struct with any contents is a value of its
  type, which gives `TypeOK` too, and its lengths, times and codes are ones the
  way out accepts; for a value of this crate's, that its canonical form has an
  encoding (`...SentAgain`).

* **The wire** (`WireInv`). Packets are taken in the order they were built, and
  none after it was given up (`TakenInOrder`); the one being sent has had no fate
  yet and any other has had one (`OneFate`), which is `PacketsAccountedFor`. What
  was received precedes what is on its way, and both are sorted and made of bytes
  of packets that were taken (`InOrder`), which gives `BytesInOrder`: a write
  joins a packet that comes after everything taken before, a read cuts the medium
  in a piece received and a rest that follows it. The lemmas on sequences that are
  joined and cut (`JoinShape`, `SortedJoin`, `CutSorted`, `PrecedesJoin`) say this
  once.
* **The status masks.** `Mask` folds the bits of the PDs of a byte into a number.
  As a byte has at most eight, the fold is unrolled stage by stage (no induction
  is needed), and a number below 256 is taken apart bit by bit: the bit of a PD is
  set in the amount of a set exactly if the PD is in it.
* **Identities** (`LinkInv`). LibOSDP reads the identity when a PD comes online,
  and a device exchanged later is one more of those present since; so the identity
  it keeps of an online PD, and the device there, are both among these
  (`IdentityKept`).

Only model-checked: the liveness properties (`EndedTasksAreWoken`,
`StreamIsWoken`, `TransferEnds`, `EveryPacketLeaves`), since liveness under
fairness is outside what the proof system handles. Every other property of a
passing run is stated by one of these theorems.


## 5. Findings

1. **A reply can be missed when a waker refreshes** (`cp_route`).
   `queue_command` runs `wake_waiting` (`cp.rs:339`) after LibOSDP accepted a
   card command and before `route_reply` (`cp.rs:344`). A waker run there may
   refresh, which `wake.rs` and `tests/async.rs` allow; if LibOSDP reports the
   reply in that refresh there is no route yet, so the reply goes to the event
   queue, and the route made afterwards leads nowhere. The handle then
   resolves to `CompletionError::Failed` although the command succeeded
   (`submit.rs:126`: status `Ok` and no reply), though `cp.rs:285` says it
   "resolves into the card's reply". With wakers that only schedule tasks the property holds (`cp_reply`).
2. **Cancelling one biometric read may stop another** (`cp_bio`).
   `Submission::cancel` names the operation to LibOSDP by PD and kind
   (`submit.rs:108`). Biometric reads queue, so a read that is still queued is
   `Pending` too, and cancelling it stops the one of another submission, though
   `submit.rs:93` speaks of "the multi-part operation that this submission
   started". For the kinds of which one runs at a time the property holds
   (`cp_safety`).


Met while modelling, and not findings because nothing in the repository says
otherwise: a baud rate that is never set reaches LibOSDP as 0, while
`PdInfoBuilder::baud_rate` refuses any rate that is not listed
(`ToldAsDescribed` therefore allows "unset"); and `ReceivedOnly`, above.


## 6. What is not modelled, and the plan

Not modelled, and why:

* The logging bridge, the scripts, the examples and CI: no state, or not part of
  the library at run time.
* The inside of LibOSDP, whose sources are not in this tree. What the crate
  relies on is stated by the actions named `C_`, and by the environments of
  `FileTransfer`, `Exchange`, `Setup` and `Wire`. In particular the choice
  whether a PD's reply goes out inline or is queued behind its events is
  LibOSDP's; the model lets events complete in any order.
* PD flags, names, the counters of `metrics.rs`, `set_flags`, `clear_flags`, the
  presence scan's call, `max_apdu_len` and file progress: each is a copy or one
  call into LibOSDP that touches no state of the crate. The parameters of the
  presence scan are converted in `Commands`.
* `bindings.rs` is generated; the structs of commands, events and notifications
  are those of `Structs`, and its enums and constants appear where the
  conversions use them.

Every safety property of the plan is proved. What is left is to deepen the
proofs: abstract specifications for `Wire` (a FIFO that loses whole packets) and
`Setup` (a box is lent, returned and freed) that these modules implement.

------------------------------- MODULE Setup --------------------------------
(***************************************************************************)
(* How a context comes to be and ends: PdInfoBuilder and PdInfoHandle      *)
(* (pdinfo.rs), ControlPanelBuilder::build (cp.rs), PeripheralDevice::new  *)
(* (pd.rs), the boxes whose addresses LibOSDP is given (ffi/callback.rs,   *)
(* ffi/channel.rs, ffi/file.rs) and the two drops.  Every call into        *)
(* LibOSDP may fail.  LibOSDP copies the PD descriptions during setup and  *)
(* keeps the other addresses until teardown.                               *)
(***************************************************************************)
EXTENDS Integers, Sequences, FiniteSets

CONSTANTS
  Roles,       \* the contexts built: "CP", "PD"
  Addresses, BaudRates, Caps, Ops,   \* what an application describes a PD with
  MaxCaps,     \* bound: capabilities of one PD
  MaxPds,      \* MAX_PDS_PER_BUS
  None

VARIABLES
  role,
  builder,     \* the PdInfoBuilder in the application's hands, or None
  bus,         \* ControlPanelBuilder::pd_info; for a PD, its one builder
  phase,       \* where build or new is, then the context's life
  ctx,         \* LibOSDP's context: "none", "live", "gone"
  told,        \* the descriptions LibOSDP read in setup
  boxes,       \* the allocations made with into_raw
  freed,       \* how often each was freed
  sizes,       \* of each freed capability list: entries allocated, entries freed
  held,        \* the boxes whose address LibOSDP keeps
  serving,     \* LibOSDP's file ops: pairs of a PD's offset and the ops
  todo         \* file ops not yet attached: the same pairs
vars == <<role, builder, bus, phase, ctx, told, boxes, freed, sizes, held, serving, todo>>

Bauds == {9600, 19200, 38400, 57600, 115200, 230400}
Unset == 0

\* The code that ends a list of capabilities; no CapFunction has it.
Sentinel == 17
CapFunctionCode ==
  [ContactStatusMonitoring |-> 1, OutputControl |-> 2, CardDataFormat |-> 3, LedControl |-> 4,
   AudibleOutput |-> 5, TextOutput |-> 6, TimeKeeping |-> 7, CheckCharacterSupport |-> 8,
   CommunicationSecurity |-> 9, ReceiveBufferSize |-> 10, LargestCombinedMessage |-> 11,
   SmartCardSupport |-> 12, Readers |-> 13, Biometrics |-> 14, SecurePinEntry |-> 15,
   OsdpVersion |-> 16]

ASSUME ConstantsAssumption ==
  /\ Roles \subseteq {"CP", "PD"} /\ Addresses \subseteq Int
  /\ Caps \subseteq DOMAIN CapFunctionCode
  /\ MaxPds \in Nat \ {0} /\ None \notin Ops

\* The boxes of the PD at "offset", and of the context.
Box(kind, offset) == <<kind, offset>>
Channel == Box("channel", 0)
Wakeups == Box("wakeups", 0)
Slots   == Box(IF role = "CP" THEN "events" ELSE "handler", 0)
Boxes   == {"name", "cap", "scbk", "ops", "channel", "wakeups", "events", "handler"} \X (0..(MaxPds - 1))

Unterminated(caps) == caps

\* The list given to C: it has no length beside it.
terminated_capabilities(caps) == Append(caps, Sentinel)

\* Entries up to and with the first sentinel; without one the walk leaves
\* the list.
Walked(list) ==
  LET ends == {i \in DOMAIN list : list[i] = Sentinel}
  IN IF ends = {} THEN Len(list) + 1 ELSE CHOOSE i \in ends : \A j \in ends : i <= j

Codes(caps) == [i \in DOMAIN caps |-> CapFunctionCode[caps[i]]]
ListOf(pd) == terminated_capabilities(Codes(pd.caps))

Offsets == 0..(Len(bus) - 1)
PdAt(offset) == bus[offset + 1]

\* PdInfoHandle: what is allocated for a description.
HandleBoxes ==
  {Box("name", i) : i \in Offsets}
  \union {Box("cap", i) : i \in {i \in Offsets : PdAt(i).caps # <<>>}}
  \union {Box("scbk", i) : i \in {i \in Offsets : PdAt(i).key}}

Free(which) == freed' = [box \in Boxes |-> freed[box] + (IF box \in which THEN 1 ELSE 0)]

\* Drop for PdInfoHandle, for every description.
FreeHandles(others) ==
  /\ Free(HandleBoxes \union others)
  /\ sizes' = sizes \union
       {<<Len(ListOf(PdAt(i))), Walked(ListOf(PdAt(i)))>> : i \in {i \in Offsets : PdAt(i).caps # <<>>}}

Init ==
  /\ role \in Roles /\ builder = None /\ bus = <<>> /\ phase = "describe" /\ ctx = "none"
  /\ told = <<>> /\ boxes = {} /\ freed = [box \in Boxes |-> 0] /\ sizes = {} /\ held = {}
  /\ serving = {} /\ todo = {}
-----------------------------------------------------------------------------
\* PdInfoBuilder: a refusal drops the builder.
Build(change) ==
  /\ phase = "describe" /\ builder # None
  /\ builder' = change
  /\ UNCHANGED <<role, bus, phase, ctx, told, boxes, freed, sizes, held, serving, todo>>

NewBuilder ==
  /\ phase = "describe" /\ builder = None
  /\ builder' = [address |-> 0, baud |-> Unset, caps |-> <<>>, key |-> FALSE, ops |-> None]
  /\ UNCHANGED <<role, bus, phase, ctx, told, boxes, freed, sizes, held, serving, todo>>

AddressUpTo127 ==
  \E a \in Addresses : Build(IF a < 0 \/ a > 127 THEN None ELSE [builder EXCEPT !.address = a])

Address   == \E a \in Addresses :
               Build(IF a < 0 \/ a > 126 THEN None ELSE [builder EXCEPT !.address = a])
BaudRate  == \E b \in BaudRates :
               Build(IF b \in Bauds THEN [builder EXCEPT !.baud = b] ELSE None)
Capability == /\ builder # None /\ Len(builder.caps) < MaxCaps
              /\ \E c \in Caps : Build([builder EXCEPT !.caps = Append(@, c)])
SecureChannelKey == Build([builder EXCEPT !.key = TRUE])
\* Each application object serves one PD.
FileOps   == \E o \in Ops \ {bus[i].ops : i \in DOMAIN bus} : Build([builder EXCEPT !.ops = o])

\* ControlPanelBuilder::add_pd, which refuses one PD too many; new takes one
\* description.
AddPd ==
  /\ phase = "describe" /\ builder # None
  /\ role = "PD" => bus = <<>>
  /\ bus' = IF Len(bus) = MaxPds THEN bus ELSE Append(bus, builder)
  /\ builder' = None
  /\ UNCHANGED <<role, phase, ctx, told, boxes, freed, sizes, held, serving, todo>>

WithOpsRenumbered ==
  {<<Cardinality({j \in 1..(i - 1) : bus[j].ops # None}), bus[i].ops>> :
     i \in {i \in DOMAIN bus : bus[i].ops # None}}

\* build and new, up to the call of setup: the file ops are taken out of the
\* builders, the handles and the channel are allocated.
WithOps == {<<i, PdAt(i).ops>> : i \in {i \in Offsets : PdAt(i).ops # None}}

Prepare ==
  /\ phase = "describe" /\ builder = None /\ (role = "PD" => bus # <<>>)
  /\ phase' = "setup"
  /\ todo' = WithOps
  /\ boxes' = HandleBoxes \union {Channel}
  /\ UNCHANGED <<role, builder, bus, ctx, told, freed, sizes, held, serving>>

Description(pd) ==
  [address |-> pd.address, baud |-> pd.baud, key |-> pd.key,
   caps |-> IF pd.caps = <<>> THEN <<>> ELSE SubSeq(ListOf(pd), 1, Walked(ListOf(pd)) - 1)]

\* osdp_cp_setup, osdp_pd_setup, and the boxes of the callbacks.
SetUp ==
  /\ phase = "setup"
  /\ ctx' = "live" /\ phase' = "register"
  /\ told' = [i \in DOMAIN bus |-> Description(bus[i])]
  /\ held' = {Channel}
  /\ boxes' = boxes \union {Slots, Wakeups}
  /\ UNCHANGED <<role, builder, bus, freed, sizes, serving, todo>>

\* A null context: the channel and the handles are dropped.
SetUpFails ==
  /\ phase = "setup"
  /\ phase' = "ended" /\ todo' = {}
  /\ FreeHandles({Channel})
  /\ UNCHANGED <<role, builder, bus, ctx, told, boxes, held, serving>>

\* Both callbacks are set before either result is looked at.
Register ==
  /\ phase = "register"
  /\ \E taken \in SUBSET {Slots, Wakeups} :
       /\ held' = held \union taken
       /\ phase' = IF taken = {Slots, Wakeups} THEN "attach" ELSE "unwind"
       /\ todo' = IF taken = {Slots, Wakeups} THEN todo ELSE {}
  /\ UNCHANGED <<role, builder, bus, ctx, told, boxes, freed, sizes, serving>>

\* attach_file_ops, one call of it, in the order of the PDs; the box of ops
\* that LibOSDP refuses is freed at once, and the context is dropped.
Attach ==
  /\ phase = "attach"
  /\ \E pair \in todo :
       LET box == Box("ops", pair[1])
       IN /\ \A other \in todo : pair[1] <= other[1]
          /\ boxes' = boxes \union {box}
          /\ \/ /\ held' = held \union {box}
                /\ serving' = serving \union {pair}
                /\ todo' = todo \ {pair}
                /\ UNCHANGED <<phase, freed>>
             \/ /\ Free({box})
                /\ phase' = "unwind" /\ todo' = {}
                /\ UNCHANGED <<held, serving>>
  /\ UNCHANGED <<role, builder, bus, ctx, told, sizes>>

\* The call returns the context, and the handles are dropped.
Built ==
  /\ phase = "attach" /\ todo = {}
  /\ phase' = "running"
  /\ FreeHandles({})
  /\ UNCHANGED <<role, builder, bus, ctx, told, boxes, held, serving, todo>>

\* Drop for ControlPanel and PeripheralDevice: the context first.  It runs
\* too when a step after setup fails, with the handles still there.
TearDown ==
  /\ phase \in {"running", "unwind"} /\ ctx = "live"
  /\ ctx' = "gone" /\ held' = {} /\ serving' = {}
  /\ UNCHANGED <<role, builder, bus, phase, told, boxes, freed, sizes, todo>>

FieldsAndRefused ==
  {box \in boxes : box[1] \in {"channel", "wakeups", "events", "handler", "ops"}}

\* Then the fields: OwnedChannel, Shared and OwnedFileOps.
Fields == {box \in boxes : box[1] \in {"channel", "wakeups", "events", "handler"}
                           \/ (box[1] = "ops" /\ freed[box] = 0)}
DropFieldsFirst ==
  /\ phase \in {"running", "unwind"} /\ ctx = "live"
  /\ phase' = "ended"
  /\ IF phase = "unwind" THEN FreeHandles(Fields) ELSE Free(Fields) /\ UNCHANGED sizes
  /\ UNCHANGED <<role, builder, bus, ctx, told, boxes, held, serving, todo>>

DropFields ==
  /\ phase \in {"running", "unwind"} /\ ctx = "gone"
  /\ phase' = "ended"
  /\ IF phase = "unwind" THEN FreeHandles(Fields) ELSE Free(Fields) /\ UNCHANGED sizes
  /\ UNCHANGED <<role, builder, bus, ctx, told, boxes, held, serving, todo>>

Next ==
  \/ NewBuilder \/ Address \/ BaudRate \/ Capability \/ SecureChannelKey \/ FileOps \/ AddPd
  \/ Prepare \/ SetUp \/ SetUpFails \/ Register \/ Attach \/ Built \/ TearDown \/ DropFields
Spec == Init /\ [][Next]_vars
-----------------------------------------------------------------------------
TypeOK ==
  /\ role \in Roles /\ ctx \in {"none", "live", "gone"}
  /\ phase \in {"describe", "setup", "register", "attach", "unwind", "running", "ended"}
  /\ Len(bus) <= MaxPds /\ boxes \subseteq Boxes /\ held \subseteq boxes

\* LibOSDP never has the address of a box that is freed, through every
\* failure of build and new and through the drop (field order of
\* ControlPanel and PeripheralDevice; attach_file_ops).
NoDanglingBox == \A box \in held : freed[box] = 0

\* No box is freed twice, and once the context is gone, or was never made,
\* none is left.
EveryBoxFreedOnce ==
  /\ \A box \in Boxes : freed[box] <= 1
  /\ phase = "ended" => \A box \in Boxes : (box \in boxes) = (freed[box] = 1)

\* The list of capabilities is freed with the length it was allocated with,
\* which is found by walking it (Drop for PdInfoHandle).
CapabilitiesFreedWhole == \A s \in sizes : s[1] = s[2]

\* LibOSDP is told each PD's capabilities, key, address and baud rate as they
\* were given to the builder, in the order the PDs were added, and neither an
\* address a bus cannot have, nor a rate that is not listed, nor a PD too many.
ToldAsDescribed ==
  /\ Len(told) <= MaxPds
  /\ \A i \in DOMAIN told :
       /\ told[i].address = bus[i].address /\ told[i].address \in 0..126
       /\ told[i].baud = bus[i].baud /\ told[i].baud \in Bauds \union {Unset}
       /\ told[i].caps = Codes(bus[i].caps) /\ told[i].key = bus[i].key

\* A PD's files are served by the ops its own builder was given, and a
\* context that was built serves every PD that has ops.
FilesServeTheirPd ==
  /\ \A s \in serving : PdAt(s[1]).ops = s[2]
  /\ (phase = "running" /\ ctx = "live") =>
       {s[1] : s \in serving} = {i \in Offsets : PdAt(i).ops # None}
=============================================================================

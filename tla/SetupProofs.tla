----------------------------- MODULE SetupProofs -----------------------------
(***************************************************************************)
(* Every allocation made for LibOSDP is freed once and never while LibOSDP *)
(* has its address, whichever call fails, and LibOSDP is told what the     *)
(* application described: for any bus, any PDs and any capabilities.       *)
(***************************************************************************)
EXTENDS Setup, SequenceTheorems, TLAPS

PdInfo ==
  [address : 0..126, baud : Bauds \union {Unset}, caps : Seq(Caps), key : BOOLEAN,
   ops : Ops \union {None}]

(* No capability has the code that ends a list.                            *)
LEMMA CodesAreBelow == \A c \in DOMAIN CapFunctionCode : CapFunctionCode[c] \in 1..16
  BY DEF CapFunctionCode

LEMMA CodesType ==
  ASSUME NEW caps \in Seq(Caps)
  PROVE  Codes(caps) \in Seq(1..16) /\ Len(Codes(caps)) = Len(caps)
<1>1. \A i \in 1..Len(caps) : CapFunctionCode[caps[i]] \in 1..16
  BY CodesAreBelow, ConstantsAssumption
<1>2. DOMAIN caps = 1..Len(caps) /\ Len(caps) \in Nat
  OBVIOUS
<1> QED
  BY <1>1, <1>2 DEF Codes

(* The walk to the sentinel finds the whole list.                          *)
LEMMA WalkFindsTheEnd ==
  ASSUME NEW codes \in Seq(1..16)
  PROVE  /\ Walked(terminated_capabilities(codes)) = Len(terminated_capabilities(codes))
         /\ SubSeq(terminated_capabilities(codes), 1, Len(terminated_capabilities(codes)) - 1) = codes
<1> DEFINE list == Append(codes, 17)
           ends == {i \in DOMAIN list : list[i] = 17}
<1>1. Len(codes) \in Nat /\ Len(list) = Len(codes) + 1 /\ DOMAIN list = 1..(Len(codes) + 1)
  OBVIOUS
<1>2. \A i \in 1..Len(codes) : list[i] = codes[i] /\ codes[i] # 17
  OBVIOUS
<1>3. list[Len(codes) + 1] = 17
  OBVIOUS
<1>4. ends = {Len(codes) + 1}
  BY <1>1, <1>2, <1>3
<1>5. Walked(list) = Len(codes) + 1
  BY <1>1, <1>4 DEF Walked, Sentinel
<1>6. list \in Seq(1..17) /\ codes \in Seq(1..17)
  BY <1>1, <1>2
<1>7. SubSeq(list, 1, Len(codes)) = codes
  <2>1. SubSeq(list, 1, Len(codes)) \in Seq(1..17) /\ Len(SubSeq(list, 1, Len(codes))) = Len(codes)
    BY <1>1, <1>6, SubSeqProperties
  <2>2. \A i \in 1..Len(codes) : SubSeq(list, 1, Len(codes))[i] = list[i]
    BY <1>1, <1>6, SubSeqProperties
  <2> QED
    BY <1>1, <1>2, <1>6, <2>1, <2>2, SeqEqual
<1> QED
  BY <1>1, <1>5, <1>7 DEF terminated_capabilities, Sentinel

LEMMA ListIsWhole ==
  ASSUME NEW pd \in PdInfo
  PROVE  /\ Walked(ListOf(pd)) = Len(ListOf(pd))
         /\ Description(pd).caps = Codes(pd.caps)
         /\ Description(pd).address = pd.address /\ Description(pd).key = pd.key
         /\ Description(pd).baud = pd.baud
<1>1. pd.caps \in Seq(Caps) /\ Codes(pd.caps) \in Seq(1..16) /\ Len(Codes(pd.caps)) = Len(pd.caps)
  BY CodesType DEF PdInfo
<1>2. Walked(ListOf(pd)) = Len(ListOf(pd)) /\ SubSeq(ListOf(pd), 1, Len(ListOf(pd)) - 1) = Codes(pd.caps)
  BY <1>1, WalkFindsTheEnd DEF ListOf
<1>3. CASE pd.caps = <<>>
  BY <1>1, <1>2, <1>3 DEF Description
<1>4. CASE pd.caps # <<>>
  BY <1>1, <1>2, <1>4 DEF Description
<1> QED
  BY <1>2, <1>3, <1>4
-----------------------------------------------------------------------------
(* What is described, and where it stands.                                 *)
Types ==
  /\ role \in {"CP", "PD"} /\ role \in Roles
  /\ builder \in PdInfo \union {None}
  /\ bus \in Seq(PdInfo) /\ Len(bus) <= MaxPds
  /\ freed \in [Boxes -> Nat]
  /\ phase \in {"describe", "setup", "register", "attach", "unwind", "running", "ended"}
  /\ ctx \in {"none", "live", "gone"}

(* LibOSDP's context exists while the crate's does.                        *)
ContextOfPhase ==
  /\ phase \in {"describe", "setup"} => ctx = "none"
  /\ phase \in {"register", "attach"} => ctx = "live"
  /\ phase \in {"unwind", "running"} => ctx # "none"
  /\ phase = "ended" => ctx # "live"
  /\ ctx # "live" => held = {}

OpsBoxes == {Box("ops", i) : i \in Offsets}
OwnBoxes == {Channel, Wakeups, Slots}

(* What is allocated is what the descriptions, the context and the file    *)
(* ops call for, and LibOSDP keeps no address of a description.            *)
Allocated ==
  /\ phase = "describe" => boxes = {}
  /\ phase # "describe" => HandleBoxes \union {Channel} \subseteq boxes
  /\ phase = "setup" => boxes = HandleBoxes \union {Channel}
  /\ phase = "register" => OwnBoxes \subseteq boxes
  /\ boxes \subseteq HandleBoxes \union OwnBoxes \union OpsBoxes
  /\ held \subseteq boxes \ HandleBoxes

(* How often each box has been freed, wherever the context is: handles at  *)
(* the end of build, ops at once when they are refused, the rest at the    *)
(* end.                                                                    *)
FreedSoFar ==
  /\ phase \in {"describe", "setup", "register", "attach"} => \A box \in Boxes : freed[box] = 0
  /\ phase = "unwind" =>
       \A box \in Boxes :
         freed[box] = 0 \/ (freed[box] = 1 /\ box \in boxes \ held /\ box \in OpsBoxes)
  /\ phase = "running" => \A box \in Boxes : freed[box] = IF box \in HandleBoxes THEN 1 ELSE 0
  /\ phase = "ended" => \A box \in Boxes : freed[box] = IF box \in boxes THEN 1 ELSE 0

(* The ops that are still to be attached have no box yet.                  *)
ToAttach ==
  /\ phase \notin {"setup", "register", "attach"} => todo = {}
  /\ todo \subseteq WithOps
  /\ \A pair \in todo : Box("ops", pair[1]) \notin boxes

(* What LibOSDP serves and what is still to be attached make up the bus.   *)
Served ==
  /\ serving \subseteq WithOps /\ (phase = "describe" => serving = {})
  /\ phase \in {"setup", "register", "attach"} => serving \union todo = WithOps
  /\ (phase = "running" /\ ctx = "live") => serving = WithOps

ToldRight ==
  /\ told # <<>> => phase # "describe" /\ told = [i \in DOMAIN bus |-> Description(bus[i])]

BoxInv == Types /\ ContextOfPhase /\ Allocated /\ FreedSoFar /\ ToAttach
SetupInv == BoxInv /\ Served /\ ToldRight /\ CapabilitiesFreedWhole

LEMMA BoxKinds ==
  ASSUME Types
  PROVE  /\ HandleBoxes \subseteq Boxes /\ OwnBoxes \subseteq Boxes /\ OpsBoxes \subseteq Boxes
         /\ HandleBoxes \intersect OwnBoxes = {} /\ HandleBoxes \intersect OpsBoxes = {}
         /\ OwnBoxes \intersect OpsBoxes = {}
         /\ \A box \in HandleBoxes : box[1] \in {"name", "cap", "scbk"}
         /\ \A box \in OwnBoxes : box[1] \in {"channel", "wakeups", "events", "handler"}
         /\ \A box \in OpsBoxes : box[1] = "ops"
<1>1. Offsets \subseteq 0..(MaxPds - 1) /\ 0 \in 0..(MaxPds - 1)
  BY ConstantsAssumption DEF Types, Offsets
<1>2. HandleBoxes \subseteq Boxes /\ \A box \in HandleBoxes : box[1] \in {"name", "cap", "scbk"}
  BY <1>1 DEF HandleBoxes, Boxes, Box
<1>3. OwnBoxes \subseteq Boxes /\ \A box \in OwnBoxes : box[1] \in {"channel", "wakeups", "events", "handler"}
  BY <1>1 DEF OwnBoxes, Boxes, Box, Channel, Wakeups, Slots, Types
<1>4. OpsBoxes \subseteq Boxes /\ \A box \in OpsBoxes : box[1] = "ops"
  BY <1>1 DEF OpsBoxes, Boxes, Box
<1> QED
  BY <1>2, <1>3, <1>4

LEMMA FreeAdds ==
  ASSUME Types, NEW which, Free(which)
  PROVE  /\ freed' \in [Boxes -> Nat]
         /\ \A box \in Boxes : box \in which => freed'[box] = freed[box] + 1
         /\ \A box \in Boxes : box \notin which => freed'[box] = freed[box]
  BY DEF Free, Types

LEMMA FreeHandlesWhole ==
  ASSUME Types, CapabilitiesFreedWhole, NEW others, FreeHandles(others)
  PROVE  Free(HandleBoxes \union others) /\ CapabilitiesFreedWhole'
<1>1. \A i \in Offsets : PdAt(i) \in PdInfo
  BY DEF Offsets, PdAt, Types
<1>2. \A i \in Offsets : Len(ListOf(PdAt(i))) = Walked(ListOf(PdAt(i)))
  BY <1>1, ListIsWhole
<1> QED
  BY <1>2 DEF FreeHandles, CapabilitiesFreedWhole

LEMMA InitInv == Init => SetupInv
<1> SUFFICES ASSUME Init PROVE SetupInv
  OBVIOUS
<1>1. Types
  BY ConstantsAssumption DEF Init, Types
<1>2. Offsets = {} /\ HandleBoxes = {} /\ WithOps = {}
  BY DEF Init, Offsets, HandleBoxes, WithOps
<1> QED
  BY <1>1, <1>2 DEF Init, SetupInv, BoxInv, ContextOfPhase, Allocated, FreedSoFar, ToAttach, Served,
     ToldRight, CapabilitiesFreedWhole
-----------------------------------------------------------------------------
(* While it is described, a PD keeps the limits its builder checks.        *)
LEMMA DescribeSteps ==
  ASSUME SetupInv, NewBuilder \/ Address \/ BaudRate \/ Capability \/ SecureChannelKey \/ FileOps
  PROVE  SetupInv'
<1> USE DEF SetupInv, BoxInv
<1>1. builder' \in PdInfo \union {None}
  <2>1. CASE NewBuilder
    BY <2>1 DEF NewBuilder, PdInfo
  <2>2. CASE Address
    <3>1. PICK a \in Addresses :
            builder # None /\ builder' = IF a < 0 \/ a > 126 THEN None ELSE [builder EXCEPT !.address = a]
      BY <2>2 DEF Address, Build
    <3>2. a \in Int /\ builder \in PdInfo
      BY <3>1, ConstantsAssumption DEF Types
    <3>3. CASE a < 0 \/ a > 126
      BY <3>1, <3>3
    <3>4. CASE a \in 0..126
      BY <3>1, <3>2, <3>4 DEF PdInfo
    <3> QED
      BY <3>2, <3>3, <3>4
  <2>3. CASE BaudRate
    <3>1. PICK b \in BaudRates :
            builder # None /\ builder' = IF b \in Bauds THEN [builder EXCEPT !.baud = b] ELSE None
      BY <2>3 DEF BaudRate, Build
    <3>2. builder \in PdInfo
      BY <3>1 DEF Types
    <3>3. b \in Bauds => [builder EXCEPT !.baud = b] \in PdInfo
      BY <3>2 DEF PdInfo
    <3> QED
      BY <3>1, <3>3
  <2>4. CASE Capability
    <3>1. PICK c \in Caps : builder' = [builder EXCEPT !.caps = Append(builder.caps, c)]
      BY <2>4 DEF Capability, Build
    <3>2. builder \in PdInfo /\ Append(builder.caps, c) \in Seq(Caps)
      BY <2>4 DEF Capability, Types, PdInfo
    <3> QED
      BY <3>1, <3>2 DEF PdInfo
  <2>5. CASE SecureChannelKey
    <3>1. builder \in PdInfo /\ builder' = [builder EXCEPT !.key = TRUE]
      BY <2>5 DEF SecureChannelKey, Build, Types
    <3> QED
      BY <3>1 DEF PdInfo
  <2>6. CASE FileOps
    <3>1. PICK o \in Ops : builder # None /\ builder' = [builder EXCEPT !.ops = o]
      BY <2>6 DEF FileOps, Build
    <3>2. builder \in PdInfo
      BY <3>1 DEF Types
    <3> QED
      BY <3>1, <3>2 DEF PdInfo
  <2> QED
    BY <2>1, <2>2, <2>3, <2>4, <2>5, <2>6
<1>2. UNCHANGED <<role, bus, phase, ctx, told, boxes, freed, sizes, held, serving, todo>>
  BY DEF NewBuilder, Address, BaudRate, Capability, SecureChannelKey, FileOps, Build
<1>3. UNCHANGED <<HandleBoxes, OwnBoxes, OpsBoxes, Channel, WithOps>>
  BY <1>2 DEF HandleBoxes, OwnBoxes, OpsBoxes, Channel, Wakeups, Slots, WithOps, Offsets, PdAt
<1>4. Types' /\ ContextOfPhase'
  BY <1>1, <1>2 DEF Types, ContextOfPhase
<1>5. Allocated' /\ FreedSoFar'
  BY <1>2, <1>3 DEF Allocated, FreedSoFar
<1>6. ToAttach' /\ Served'
  BY <1>2, <1>3 DEF ToAttach, Served
<1>7. ToldRight' /\ CapabilitiesFreedWhole'
  BY <1>2 DEF ToldRight, CapabilitiesFreedWhole
<1> QED
  BY <1>4, <1>5, <1>6, <1>7

LEMMA AddPdStep == ASSUME SetupInv, AddPd PROVE SetupInv'
<1> USE DEF SetupInv, BoxInv
<1>1. bus' \in Seq(PdInfo) /\ Len(bus') <= MaxPds
  BY ConstantsAssumption DEF AddPd, Types
<1>2. Types'
  BY <1>1 DEF AddPd, Types
<1>3. boxes' = {} /\ held' = {} /\ serving' = {} /\ todo' = {} /\ told' = <<>> /\ phase' = "describe"
  BY DEF AddPd, Allocated, Served, ToAttach, ToldRight
<1> QED
  BY <1>2, <1>3 DEF AddPd, ContextOfPhase, Allocated, FreedSoFar, ToAttach, Served, ToldRight,
     CapabilitiesFreedWhole

(* What the descriptions call for stays as it is once they are complete.   *)
LEMMA Frame ==
  ASSUME UNCHANGED <<role, bus>>
  PROVE  /\ HandleBoxes' = HandleBoxes /\ OwnBoxes' = OwnBoxes /\ OpsBoxes' = OpsBoxes
         /\ WithOps' = WithOps /\ Channel' = Channel /\ Wakeups' = Wakeups /\ Slots' = Slots
  BY DEF HandleBoxes, OwnBoxes, OpsBoxes, Channel, Wakeups, Slots, WithOps, Offsets, PdAt

LEMMA PrepareStep == ASSUME SetupInv, Prepare PROVE SetupInv'
<1> USE DEF SetupInv, BoxInv
<1>1. Types' /\ UNCHANGED <<role, bus>>
  BY DEF Prepare, Types
<1>2. boxes' = HandleBoxes \union {Channel} /\ held' = {} /\ serving' = {} /\ told' = <<>>
  BY DEF Prepare, Allocated, Served, ToldRight
<1>3. \A pair \in WithOps : Box("ops", pair[1]) \notin boxes'
  BY <1>2, BoxKinds DEF OpsBoxes, OwnBoxes, WithOps
<1> QED
  BY <1>1, <1>2, <1>3, Frame, BoxKinds DEF Prepare, ContextOfPhase, Allocated, FreedSoFar, ToAttach,
     Served, ToldRight, CapabilitiesFreedWhole, OwnBoxes

LEMMA SetUpStep == ASSUME SetupInv, SetUp PROVE SetupInv'
<1> USE DEF SetupInv, BoxInv
<1>1. Types' /\ UNCHANGED <<role, bus>>
  BY DEF SetUp, Types
<1>2. held' = {Channel} /\ boxes' = boxes \union {Slots, Wakeups} /\ Channel \in boxes'
  BY DEF SetUp, Allocated
<1>3. \A pair \in WithOps : Box("ops", pair[1]) \notin {Slots, Wakeups}
  BY BoxKinds DEF OpsBoxes, OwnBoxes, WithOps
<1> QED
  BY <1>1, <1>2, <1>3, Frame, BoxKinds DEF SetUp, ContextOfPhase, Allocated, FreedSoFar, ToAttach,
     Served, ToldRight, CapabilitiesFreedWhole, OwnBoxes

LEMMA SetUpFailsStep == ASSUME SetupInv, SetUpFails PROVE SetupInv'
<1> USE DEF SetupInv, BoxInv
<1>1. Free(HandleBoxes \union {Channel}) /\ CapabilitiesFreedWhole'
  BY FreeHandlesWhole DEF SetUpFails
<1>2. Types' /\ UNCHANGED <<role, bus>>
  BY <1>1, FreeAdds DEF SetUpFails, Types, Boxes
<1>3. boxes = HandleBoxes \union {Channel}
  BY DEF SetUpFails, Allocated
<1>4. FreedSoFar'
  BY <1>1, <1>3, FreeAdds DEF SetUpFails, FreedSoFar
<1> QED
  BY <1>1, <1>2, <1>4, Frame DEF SetUpFails, ContextOfPhase, Allocated, ToAttach, Served, ToldRight

LEMMA RegisterStep == ASSUME SetupInv, Register PROVE SetupInv'
<1> USE DEF SetupInv, BoxInv
<1>1. Types' /\ UNCHANGED <<role, bus>>
  BY DEF Register, Types
<1>2. held' \subseteq held \union OwnBoxes
  BY DEF Register, OwnBoxes
<1>3. held' \subseteq boxes \ HandleBoxes
  BY <1>2, BoxKinds DEF Register, Allocated
<1>4. phase' \in {"attach", "unwind"} /\ phase = "register"
  BY DEF Register
<1>5. ContextOfPhase' /\ Allocated' /\ FreedSoFar'
  BY <1>1, <1>3, <1>4, Frame DEF Register, ContextOfPhase, Allocated, FreedSoFar
<1>6. todo' = IF phase' = "attach" THEN todo ELSE {}
  BY DEF Register
<1>7. ToAttach' /\ Served'
  BY <1>1, <1>4, <1>6, Frame DEF Register, ToAttach, Served
<1> QED
  BY <1>1, <1>4, <1>5, <1>7 DEF Register, ToldRight, CapabilitiesFreedWhole

LEMMA AttachStep == ASSUME SetupInv, Attach PROVE SetupInv'
<1> USE DEF SetupInv, BoxInv
<1>1. PICK pair \in todo :
        /\ boxes' = boxes \union {Box("ops", pair[1])}
        /\ \/ /\ held' = held \union {Box("ops", pair[1])}
              /\ serving' = serving \union {pair}
              /\ todo' = todo \ {pair}
              /\ UNCHANGED <<phase, freed>>
           \/ /\ Free({Box("ops", pair[1])})
              /\ phase' = "unwind" /\ todo' = {}
              /\ UNCHANGED <<held, serving>>
  BY DEF Attach
<1> DEFINE box == Box("ops", pair[1])
<1>2. pair \in WithOps /\ pair[1] \in Offsets /\ box \in OpsBoxes /\ box \notin boxes
  BY DEF ToAttach, WithOps, OpsBoxes
<1>3. phase = "attach" /\ UNCHANGED <<role, builder, bus, ctx, told, sizes>>
  BY DEF Attach
<1>4. Allocated'
  <2>1. box \notin HandleBoxes
    BY <1>2, BoxKinds
  <2>2. held' \subseteq held \union {box} /\ phase' \in {"attach", "unwind"}
    BY <1>1, <1>3
  <2> QED
    BY <1>1, <1>2, <1>3, <2>1, <2>2, Frame DEF Allocated
<1>5. CASE /\ held' = held \union {box} /\ serving' = serving \union {pair}
           /\ todo' = todo \ {pair} /\ UNCHANGED <<phase, freed>>
  <2>1. \A other \in todo' : Box("ops", other[1]) # box
    BY <1>2, <1>5 DEF Box, ToAttach, WithOps
  <2>2. ToAttach' /\ Served'
    BY <1>1, <1>2, <1>3, <1>5, <2>1, Frame DEF ToAttach, Served
  <2>3. Types' /\ ContextOfPhase' /\ FreedSoFar'
    BY <1>3, <1>5, Frame DEF Types, ContextOfPhase, FreedSoFar
  <2> QED
    BY <1>3, <1>4, <1>5, <2>2, <2>3 DEF ToldRight, CapabilitiesFreedWhole
<1>6. CASE /\ Free({box}) /\ phase' = "unwind" /\ todo' = {} /\ UNCHANGED <<held, serving>>
  <2>1. Types'
    BY <1>3, <1>6, FreeAdds DEF Types, Boxes
  <2>2. FreedSoFar'
    <3>1. box \notin held
      BY <1>2 DEF Allocated
    <3>2. \A b \in Boxes : freed'[b] = IF b = box THEN 1 ELSE 0
      BY <1>3, <1>6, FreeAdds DEF FreedSoFar
    <3> QED
      BY <1>1, <1>2, <1>3, <1>6, <3>1, <3>2, Frame DEF FreedSoFar
  <2>3. ToAttach' /\ Served' /\ ContextOfPhase'
    BY <1>3, <1>6, Frame DEF ToAttach, Served, ContextOfPhase
  <2> QED
    BY <1>3, <1>4, <1>6, <2>1, <2>2, <2>3 DEF ToldRight, CapabilitiesFreedWhole
<1> QED
  BY <1>1, <1>5, <1>6

LEMMA BuiltStep == ASSUME SetupInv, Built PROVE SetupInv'
<1> USE DEF SetupInv, BoxInv
<1>1. Free(HandleBoxes \union {}) /\ CapabilitiesFreedWhole'
  BY FreeHandlesWhole DEF Built
<1>2. Types' /\ UNCHANGED <<role, bus>> /\ phase = "attach" /\ phase' = "running"
  BY <1>1, FreeAdds DEF Built, Types, Boxes
<1>3. \A b \in Boxes : freed'[b] = IF b \in HandleBoxes THEN 1 ELSE 0
  BY <1>1, <1>2, FreeAdds DEF FreedSoFar
<1>4. FreedSoFar'
  BY <1>2, <1>3, Frame DEF FreedSoFar
<1>5. ContextOfPhase' /\ Allocated' /\ ToAttach' /\ Served'
  BY <1>2, Frame DEF Built, ContextOfPhase, Allocated, ToAttach, Served
<1> QED
  BY <1>1, <1>2, <1>4, <1>5 DEF Built, ToldRight

LEMMA TearDownStep == ASSUME SetupInv, TearDown PROVE SetupInv'
<1> USE DEF SetupInv, BoxInv
<1>1. Types' /\ UNCHANGED <<role, bus, phase>>
  BY DEF TearDown, Types
<1>2. FreedSoFar'
  BY <1>1, Frame DEF TearDown, FreedSoFar
<1> QED
  BY <1>1, <1>2, Frame DEF TearDown, ContextOfPhase, Allocated, ToAttach,
     Served, ToldRight, CapabilitiesFreedWhole

(* The fields that are left: all but the handles and the refused ops.      *)
LEMMA FieldsLeft ==
  ASSUME SetupInv, phase \in {"running", "unwind"}
  PROVE  /\ Fields \subseteq boxes /\ Fields \intersect HandleBoxes = {}
         /\ \A box \in boxes \ HandleBoxes : box \in Fields <=> freed[box] = 0
<1> USE DEF SetupInv, BoxInv
<1>1. boxes \subseteq Boxes
  BY BoxKinds DEF Allocated
<1>2. \A box \in boxes \ HandleBoxes : box \in OwnBoxes \/ box \in OpsBoxes
  BY DEF Allocated
<1>3. \A box \in OwnBoxes : box \in Boxes /\ freed[box] = 0
  BY BoxKinds DEF FreedSoFar
<1> QED
  BY <1>1, <1>2, <1>3, BoxKinds DEF Fields

LEMMA DropFieldsStep == ASSUME SetupInv, DropFields PROVE SetupInv'
<1> USE DEF SetupInv, BoxInv
<1>1. phase \in {"running", "unwind"} /\ ctx = "gone" /\ phase' = "ended" /\ boxes \subseteq Boxes
  BY BoxKinds DEF DropFields, Allocated
<1>2. /\ CapabilitiesFreedWhole'
      /\ Free(IF phase = "unwind" THEN HandleBoxes \union Fields ELSE Fields)
  BY <1>1, FreeHandlesWhole DEF DropFields, CapabilitiesFreedWhole
<1>3. Types' /\ UNCHANGED <<role, bus>>
  BY <1>2, FreeAdds DEF DropFields, Types, Boxes
<1>4. \A b \in Boxes : freed'[b] = IF b \in boxes THEN 1 ELSE 0
  <2>1. \A b \in HandleBoxes : b \in boxes /\ b \in Boxes
    BY <1>1 DEF Allocated
  <2>2. \A b \in Boxes \ boxes : freed[b] = 0
    BY <1>1, <2>1 DEF FreedSoFar
  <2>3. \A b \in boxes \ HandleBoxes : freed[b] \in {0, 1}
    BY <1>1, <2>1 DEF FreedSoFar
  <2>4. \A b \in HandleBoxes : freed[b] = IF phase = "unwind" THEN 0 ELSE 1
    BY <1>1, <2>1, BoxKinds DEF FreedSoFar
  <2> QED
    BY <1>1, <1>2, <2>1, <2>2, <2>3, <2>4, FieldsLeft, FreeAdds
<1>5. FreedSoFar'
  BY <1>1, <1>4 DEF FreedSoFar, DropFields
<1> QED
  BY <1>1, <1>2, <1>3, <1>5, Frame DEF DropFields, ContextOfPhase, Allocated, ToAttach, Served, ToldRight
-----------------------------------------------------------------------------
LEMMA StepKeepsInv == SetupInv /\ [Next]_vars => SetupInv'
<1> SUFFICES ASSUME SetupInv, [Next]_vars PROVE SetupInv'
  OBVIOUS
<1>1. CASE UNCHANGED vars
  BY <1>1, Frame DEF vars, SetupInv, BoxInv, Types, ContextOfPhase, Allocated, FreedSoFar, ToAttach,
     Served, ToldRight, CapabilitiesFreedWhole
<1>2. CASE Next
  BY <1>2, DescribeSteps, AddPdStep, PrepareStep, SetUpStep, SetUpFailsStep, RegisterStep, AttachStep,
     BuiltStep, TearDownStep, DropFieldsStep DEF Next
<1> QED
  BY <1>1, <1>2

LEMMA InvHolds == Spec => []SetupInv
  BY InitInv, StepKeepsInv, PTL DEF Spec

LEMMA InvGivesTypes == SetupInv => TypeOK
<1> SUFFICES ASSUME SetupInv PROVE TypeOK
  OBVIOUS
<1>1. boxes \subseteq Boxes
  BY BoxKinds DEF SetupInv, BoxInv, Allocated
<1> QED
  BY <1>1 DEF SetupInv, BoxInv, Types, Allocated, TypeOK

LEMMA InvGivesNoDangling == SetupInv => NoDanglingBox
<1> SUFFICES ASSUME SetupInv, NEW box \in held PROVE freed[box] = 0
  BY DEF NoDanglingBox
<1> USE DEF SetupInv, BoxInv
<1>1. box \in Boxes /\ box \notin HandleBoxes /\ phase # "ended"
  BY BoxKinds DEF Allocated, ContextOfPhase
<1> QED
  BY <1>1 DEF FreedSoFar, Types

LEMMA InvGivesFreedOnce == SetupInv => EveryBoxFreedOnce
<1> SUFFICES ASSUME SetupInv PROVE EveryBoxFreedOnce
  OBVIOUS
<1> USE DEF SetupInv, BoxInv
<1>1. \A box \in Boxes : freed[box] \in {0, 1}
  BY DEF FreedSoFar, Types
<1> QED
  BY <1>1 DEF FreedSoFar, EveryBoxFreedOnce

LEMMA InvGivesTold == SetupInv => ToldAsDescribed
<1> SUFFICES ASSUME SetupInv PROVE ToldAsDescribed
  OBVIOUS
<1> USE DEF SetupInv, BoxInv
<1>1. CASE told = <<>>
  BY <1>1, ConstantsAssumption DEF ToldAsDescribed
<1>2. CASE told # <<>>
  <2>1. told = [i \in DOMAIN bus |-> Description(bus[i])] /\ bus \in Seq(PdInfo) /\ Len(bus) <= MaxPds
    BY <1>2 DEF ToldRight, Types
  <2>2. DOMAIN told = 1..Len(bus) /\ Len(bus) \in Nat
    BY <2>1
  <2>3. Len(told) <= MaxPds
    <3> HIDE DEF SetupInv, BoxInv
    <3>1. told \in Seq({Description(bus[i]) : i \in DOMAIN bus}) /\ Len(told) = Len(bus)
      BY <2>1, <2>2
    <3> QED
      BY <3>1, <2>1
  <2>4. ASSUME NEW i \in DOMAIN told
        PROVE  /\ told[i].address = bus[i].address /\ told[i].address \in 0..126
               /\ told[i].baud = bus[i].baud /\ told[i].baud \in Bauds \union {Unset}
               /\ told[i].caps = Codes(bus[i].caps) /\ told[i].key = bus[i].key
    <3>1. i \in DOMAIN bus /\ told[i] = Description(bus[i]) /\ bus[i] \in PdInfo
      BY <2>1, <2>2
    <3> QED
      BY <3>1, ListIsWhole DEF PdInfo
  <2> QED
    BY <2>3, <2>4 DEF ToldAsDescribed
<1> QED
  BY <1>1, <1>2

LEMMA InvGivesServed == SetupInv => FilesServeTheirPd
<1> SUFFICES ASSUME SetupInv PROVE FilesServeTheirPd
  OBVIOUS
<1> USE DEF SetupInv, BoxInv
<1>1. \A s \in serving : PdAt(s[1]).ops = s[2]
  BY DEF Served, WithOps
<1>2. {s[1] : s \in WithOps} = {i \in Offsets : PdAt(i).ops # None}
  <2>1. \A s \in WithOps : s[1] \in Offsets /\ PdAt(s[1]).ops # None
    BY DEF WithOps
  <2>2. \A i \in Offsets : PdAt(i).ops # None => <<i, PdAt(i).ops>> \in WithOps
    BY DEF WithOps
  <2>3. \A i : <<i, PdAt(i).ops>>[1] = i
    OBVIOUS
  <2> QED
    BY <2>1, <2>2, <2>3
<1> QED
  BY <1>1, <1>2 DEF FilesServeTheirPd, Served

(* Setup keeps its types, the limit on the bus included.                   *)
THEOREM TypeCorrect == Spec => []TypeOK
  BY InvHolds, InvGivesTypes, PTL

(* LibOSDP never has the address of a box that is freed: whichever call    *)
(* of build and new fails, and through the drop of the context.            *)
THEOREM NeverDangling == Spec => []NoDanglingBox
  BY InvHolds, InvGivesNoDangling, PTL

(* Every allocation is freed once, and none is left when the context is    *)
(* gone or could not be made.                                              *)
THEOREM FreedExactlyOnce == Spec => []EveryBoxFreedOnce
  BY InvHolds, InvGivesFreedOnce, PTL

(* A capability list of any length is freed with the length it was         *)
(* allocated with, which only its sentinel tells (Drop for PdInfoHandle).  *)
THEOREM ListsFreedWhole == Spec => []CapabilitiesFreedWhole
  BY InvHolds, PTL DEF SetupInv

(* LibOSDP is told every PD's address, key and capabilities as they were   *)
(* given to its builder (PdInfoBuilder::build).                            *)
THEOREM ToldTheDescription == Spec => []ToldAsDescribed
  BY InvHolds, InvGivesTold, PTL

(* The file ops of a PD's own builder serve it (take_file_ops and the      *)
(* offsets of ControlPanelBuilder::build).                                 *)
THEOREM FilesServed == Spec => []FilesServeTheirPd
  BY InvHolds, InvGivesServed, PTL
=============================================================================

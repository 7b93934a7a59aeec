-------------------------------- MODULE Link --------------------------------
(***************************************************************************)
(* What a ControlPanel tells its application about the PDs on the bus, and *)
(* how it starts and stops talking to them (cp.rs).  LibOSDP holds the     *)
(* state; refresh is when it meets the devices.                            *)
(***************************************************************************)
EXTENDS Integers, FiniteSets, Folds

CONSTANTS
  PDs,       \* offsets on the bus, up to MAX_PDS_PER_BUS - 1
  Devices,   \* the devices that may answer at an address, a PdId each
  None
ASSUME PDsAssumption == PDs \subseteq 0..125

VARIABLES
  device,    \* the device at each PD's address
  online,    \* LibOSDP: the PDs it talks to, those with a secure channel
  secure,
  enabled,   \* LibOSDP: the PDs it polls, and those for which it has been
  asked,     \* asked to begin or to stop, until the refresh that does
  pdId,      \* LibOSDP: the PdId it last read from each PD
  capable,   \* LibOSDP: whether the capability it last read says anything
  told,      \* the last answer to a query: [pd, device, refused], where
             \* refused says that LibOSDP did not answer the application's
  present    \* history: the devices at each PD's address since it came online
vars == <<device, online, secure, enabled, asked, pdId, capable, told, present>>

NothingTold == [pd |-> None, device |-> None, refused |-> FALSE]

Init ==
  /\ device \in [PDs -> Devices] /\ pdId = [pd \in PDs |-> None]
  /\ capable = [pd \in PDs |-> FALSE]
  /\ online = {} /\ secure = {} /\ enabled = PDs /\ asked = {}
  /\ told = NothingTold /\ present = [pd \in PDs |-> {}]
-----------------------------------------------------------------------------
Library == <<pdId, capable, enabled>>

\* refresh: a PD comes online, and LibOSDP reads its identity and what it
\* can do; its secure channel comes up; it goes offline.
C_Online(pd) ==
  /\ pd \in enabled \ online
  /\ online' = online \union {pd}
  /\ pdId' = [pdId EXCEPT ![pd] = device[pd]]
  /\ \E says \in BOOLEAN : capable' = [capable EXCEPT ![pd] = says]
  /\ present' = [present EXCEPT ![pd] = {device[pd]}]
  /\ UNCHANGED <<device, secure, enabled, asked, told>>

C_Secure(pd) ==
  /\ pd \in online \ secure
  /\ secure' = secure \union {pd}
  /\ UNCHANGED <<device, online, asked, told, present, Library>>

C_Offline(pd) ==
  /\ pd \in online
  /\ online' = online \ {pd} /\ secure' = secure \ {pd}
  /\ UNCHANGED <<device, asked, told, present, Library>>

\* refresh carries out disable and enable.
C_Enabled(pd) ==
  /\ pd \in asked /\ asked' = asked \ {pd}
  /\ enabled' = IF pd \in enabled THEN enabled \ {pd} ELSE enabled \union {pd}
  /\ online' = online \ {pd} /\ secure' = secure \ {pd}
  /\ UNCHANGED <<device, pdId, capable, told, present>>

\* Somebody exchanges the device, which LibOSDP may not notice at once.
Exchange(pd) ==
  \E d \in Devices \ {device[pd]} :
    /\ device' = [device EXCEPT ![pd] = d]
    /\ present' = [present EXCEPT ![pd] = @ \union {d}]
    /\ UNCHANGED <<online, secure, asked, told, Library>>
-----------------------------------------------------------------------------
\* osdp_get_status_mask and osdp_get_sc_status_mask: 16 bytes, a bit a PD.
Mask(which) ==
  [byte \in 0..15 |->
     MapThenFoldSet(+, 0, LAMBDA pd : 2^(pd % 8), LAMBDA set : CHOOSE pd \in set : TRUE,
                    {pd \in which : pd \div 8 = byte})]

\* is_online and is_secure.
Bit(mask, pd) == (mask[pd \div 8] \div 2^(pd % 8)) % 2 # 0
is_online(pd) == Bit(Mask(online), pd)
is_secure(pd) == Bit(Mask(secure), pd)

\* LibOSDP is asked about an online PD only, and may refuse to answer.
Tell(pd, known) ==
  \E refused \in BOOLEAN :
    /\ told' = [pd |-> pd, refused |-> refused,
                device |-> IF known /\ ~refused THEN pdId[pd] ELSE None]
    /\ UNCHANGED <<device, online, secure, asked, present, Library>>

LastPdId(pd) == Tell(pd, TRUE)
pd_id(pd) == Tell(pd, is_online(pd))

\* A capability of compliance 0 without items reads as none.  The answer is
\* the device it was read from.
capability(pd) == Tell(pd, is_online(pd) /\ capable[pd])

\* disable and enable, refused when the PD is disabled already or is not:
\* what was asked for before is not looked at.
Ask(pd, on) ==
  /\ (pd \in enabled) # on
  /\ asked' = asked \union {pd}
  /\ UNCHANGED <<device, online, secure, told, present, Library>>

Next ==
  \E pd \in PDs :
    \/ C_Online(pd) \/ C_Secure(pd) \/ C_Offline(pd) \/ C_Enabled(pd) \/ Exchange(pd)
    \/ pd_id(pd) \/ capability(pd)
    \/ Ask(pd, TRUE) \/ Ask(pd, FALSE)
Spec == Init /\ [][Next]_vars
-----------------------------------------------------------------------------
\* An online PD is told by a device that has been at its address since it
\* came online: the one that is there, unless it was exchanged and LibOSDP has
\* not noticed, and never one of an earlier session, whose identity LibOSDP
\* keeps while the PD is offline (pd_id, capability).  Of an offline PD nothing
\* is told, and an online one is left untold only when LibOSDP refuses to
\* answer or the capability says nothing: its status is read from its own bit
\* of the 16 bytes LibOSDP fills, also past the first byte and at the last PD.
IdentityIsCurrent ==
  [][told' # told =>
       LET pd      == told'.pd
           nothing == IF told'.refused \/ ~capable[pd] THEN {None} ELSE {}
       IN told'.device \in (IF pd \in online THEN present[pd] \union nothing ELSE {None})]_vars
=============================================================================

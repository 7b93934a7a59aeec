--------------------------- MODULE Notifications ----------------------------
(***************************************************************************)
(* What LibOSDP observes about a link, and the identity and capabilities a *)
(* PD advertises, converted from LibOSDP's structs and, where the crate    *)
(* does so, to them (libosdp/src/notification.rs, pdid.rs, pdcap.rs).      *)
(***************************************************************************)
EXTENDS Encoding

MpKindCode == [FileTransfer |-> 1, Piv |-> 2, GenAuth |-> 3, CrAuth |-> 4, BioRead |-> 5]
MpOutcomeCode == [Ok |-> 0, OkRebooting |-> 1, Aborted |-> 2, Unrecognized |-> 3, Invalid |-> 4]
TrsSessionCode == [Opened |-> 0, Closed |-> 1, Failed |-> 2, ScanSuspended |-> 3, ScanNoDeparture |-> 4]
NotificationType == [ScStatus |-> 0, PdStatus |-> 1, MpStart |-> 2, MpProgress |-> 3,
                     MpDone |-> 4, PdId |-> 5, TrsStatus |-> 6]

Multipart ==
  [mp : DOMAIN MpKindCode, phase : {"Start", "Progress"}, outcome : {"None"}, moved : Int]
  \union [mp : DOMAIN MpKindCode, phase : {"Done"}, outcome : DOMAIN MpOutcomeCode, moved : Int]

\* Object, offset and total, which are copied, are one number, "moved".
MultipartFromC(raw, phase, outcomes) ==
  {[mp |-> mp, phase |-> phase, outcome |-> outcome, moved |-> raw.moved] :
     mp \in Decode(MpKindCode, raw.mp_type), outcome \in outcomes}

\* The serial number, four bytes in a word as a vendor code is three, is left out.
PdId == [version : Byte, model : Byte, vendor_code : Vendor, firmware_version : Vendor]

PdIdToC(id) ==
  [version |-> id.version, model |-> id.model,
   vendor_code |-> AsLe(id.vendor_code), firmware_version |-> AsLe(id.firmware_version)]

AtMostByte(int) == IF int <= U8 THEN int ELSE 0

\* u8::try_from(i32).unwrap_or(0)
ByteOrZero(int) == IF int \in Byte THEN int ELSE 0

PdIdFromC(raw) ==
  [version |-> ByteOrZero(raw.version), model |-> ByteOrZero(raw.model),
   vendor_code |-> ToLeBytes(raw.vendor_code),
   firmware_version |-> ToLeBytes(raw.firmware_version)]

\* The variant with its contents, from the member of the union that it uses.
NotificationBody(type, raw) ==
  CASE type = "ScStatus"   -> {[active |-> raw.active, scbk_d |-> raw.scbk_d]}
    [] type = "PdStatus"   -> {[online |-> raw.online]}
    [] type = "MpStart"    -> MultipartFromC(raw, "Start", {"None"})
    [] type = "MpProgress" -> MultipartFromC(raw, "Progress", {"None"})
    [] type = "MpDone"     -> MultipartFromC(raw, "Done", Decode(MpOutcomeCode, raw.outcome))
    [] type = "PdId"       -> {PdIdFromC(raw)}
    [] type = "TrsStatus"  -> {[session |-> s] : s \in Decode(TrsSessionCode, raw.status)}

Notification ==
  [active : BOOLEAN, scbk_d : BOOLEAN] \union [online : BOOLEAN]
  \union Multipart \union PdId \union [session : DOMAIN TrsSessionCode]

NotificationFromC(raw) ==
  UNION {NotificationBody(type, raw.body) : type \in Decode(NotificationType, raw.type_)}
=============================================================================

------------------------------- MODULE Events -------------------------------
(***************************************************************************)
(* The events of this crate and their conversions to and from osdp_event   *)
(* (libosdp/src/events.rs; the replies of bio.rs, piv.rs, status.rs and    *)
(* trs.rs).  XToC is "TryFrom<X> for osdp_event_x", XFromC the way back;   *)
(* both are sets of results, as Encoding explains.                         *)
(***************************************************************************)
EXTENDS Commands

\* A flag as a byte, and the two ways a byte is read as a flag.
Flag == BOOLEAN
FlagToC(flag) == IF flag THEN 1 ELSE 0
DirectionFromC(byte) == byte = 1
FlagFromC(byte) == byte # 0

CardFormatCode == [Unspecified |-> 0, Wiegand |-> 1]
CardRead ==
  [reader_no : Int, format : DOMAIN CardFormatCode, direction : Flag, nr_bits : Nat, data : Bytes]

\* How many bytes hold "bits" bits: usize::div_ceil(8).
BytesFor(bits) == (bits + 7) \div 8

\* The length sent is in bits, and the array's data is copied whole.
CardReadToC(e) ==
  {[reader_no |-> e.reader_no, format |-> CardFormatCode[e.format],
    direction |-> FlagToC(e.direction),
    length |-> e.nr_bits % (U16 + 1), bytes |-> data.bytes] :
     data \in {d \in ToBuffer(e.data, 64, U16) : e.nr_bits <= 8 * Len(e.data)}}

CardReadFromC(raw) ==
  {[reader_no |-> raw.reader_no, format |-> format, direction |-> DirectionFromC(raw.direction),
    nr_bits |-> raw.length, data |-> data] :
     format \in Decode(CardFormatCode, raw.format),
     data \in FromBuffer([length |-> BytesFor(raw.length), bytes |-> raw.bytes])}

KeyPress == [reader_no : Int, data : Bytes]

KeyPressToC(e) ==
  {[reader_no |-> e.reader_no, data |-> data] : data \in ToBuffer(e.data, 64, U16)}

KeyPressFromC(raw) ==
  {[reader_no |-> raw.reader_no, data |-> data] : data \in FromBuffer(raw.data)}

MfgReply == [vendor_code : Vendor, data : Bytes]

MfgReplyToC(e) ==
  {[vendor_code |-> AsLe(e.vendor_code), data |-> data] : data \in ToBuffer(e.data, 128, U8)}

MfgReplyFromC(raw) ==
  {[vendor_code |-> ToLeBytes(raw.vendor_code), data |-> data] : data \in FromBuffer(raw.data)}

MfgStatus == [data : Bytes]
MfgStatusToC(e)   == {[data |-> data] : data \in ToBuffer(e.data, 128, U8)}
MfgStatusFromC(raw) == {[data |-> data] : data \in FromBuffer(raw.data)}
-----------------------------------------------------------------------------
BioStatusCode == [Success |-> 0, Timeout |-> 1, Error |-> 255]

BioReadReply ==
  [reader : Byte, status : Open(BioStatusCode), kind : Open(BioTypeCode),
   quality : Byte, template : Bytes]

BioReadReplyToC(e) ==
  {[reader |-> e.reader, status |-> OpenToC(BioStatusCode, e.status),
    type_ |-> OpenToC(BioTypeCode, e.kind), quality |-> e.quality, data |-> data] :
     data \in ToBuffer(e.template, 256, U16)}

BioReadReplyFromC(raw) ==
  {[reader |-> raw.reader, status |-> OpenFromC(BioStatusCode, raw.status),
    kind |-> OpenFromC(BioTypeCode, raw.type_), quality |-> raw.quality, template |-> data] :
     data \in FromBuffer(raw.data)}

BioMatchReply == [reader : Byte, status : Open(BioStatusCode), score : Byte]

BioMatchReplyToC(e) ==
  {[reader |-> e.reader, status |-> OpenToC(BioStatusCode, e.status), score |-> e.score]}

BioMatchReplyFromC(raw) ==
  {[reader |-> raw.reader, status |-> OpenFromC(BioStatusCode, raw.status), score |-> raw.score]}

PivReply == [data : Bytes]
PivReplyToC(e)     == {[data |-> data] : data \in ToPayload(e.data)}
PivReplyFromC(raw) == {[data |-> data] : data \in FromBuffer(raw.data)}
-----------------------------------------------------------------------------
ReaderStatusCode == [Normal |-> 0, NotConnected |-> 1, Tamper |-> 2]

Status ==
  [status : {"Input", "Output"}, entries : Bytes]
  \union [status : {"Local"}, tamper : Flag, power : Flag]
  \union [status : {"Reader"}, readers : Seq(Open(ReaderStatusCode))]

\* The entries of the C array, whatever the kind.
StatusEntries(e) ==
  CASE e.status = "Local"  -> <<FlagToC(e.tamper), FlagToC(e.power)>>
    [] e.status = "Reader" -> [i \in DOMAIN e.readers |-> OpenToC(ReaderStatusCode, e.readers[i])]
    [] OTHER               -> e.entries

StatusToC(e) ==
  {[type_ |-> StatusCode[e.status], report |-> data] : data \in ToBuffer(StatusEntries(e), 64, U16)}

StatusFromEntries(kind, entries) ==
  CASE kind = "Local" ->
         IF Len(entries) = 2
         THEN {[status |-> kind, tamper |-> FlagFromC(entries[1]), power |-> FlagFromC(entries[2])]}
         ELSE {}
    [] kind = "Reader" ->
         {[status |-> kind,
           readers |-> [i \in DOMAIN entries |-> OpenFromC(ReaderStatusCode, entries[i])]]}
    [] OTHER -> {[status |-> kind, entries |-> entries]}

StatusFromC(raw) ==
  UNION {StatusFromEntries(kind, entries) :
           kind \in Decode(StatusCode, raw.type_), entries \in FromBuffer(raw.report)}
-----------------------------------------------------------------------------
TrsReplyCode == [CardInfo |-> 1, CardPresent |-> 2, CardData |-> 3, PinComplete |-> 4, Error |-> 5]
CardProtocolCode == [Contact |-> 1, Contactless |-> 2]
CardStatusCode == [Unknown |-> 0, NotPresent |-> 1, Present |-> 2,
                   PresentContactless |-> 3, PresentContact |-> 4]

TrsReply ==
  [trs : {"CardInfo"}, reader : Byte, protocol : DOMAIN CardProtocolCode,
   csn : Bytes, protocol_data : Bytes]
  \union [trs : {"CardPresent"}, reader : Byte, card : DOMAIN CardStatusCode]
  \union [trs : {"CardData"}, reader : Byte, status : Byte, apdu : Bytes]
  \union [trs : {"PinComplete"}, reader : Byte, status : Byte, tries : Byte]
  \union [trs : {"Error"}, code : Byte]

\* The member of the C union that carries the reply.
TrsPayloadToC(e) ==
  CASE e.trs = "CardInfo" ->
         {[reader |-> e.reader, protocol |-> CardProtocolCode[e.protocol],
           csn |-> csn, protocol_data |-> data] :
            csn \in ToBuffer(e.csn, 32, U8), data \in ToBuffer(e.protocol_data, 64, U8)}
    [] e.trs = "CardPresent" -> {[reader |-> e.reader, status |-> CardStatusCode[e.card]]}
    [] e.trs = "CardData" ->
         {[reader |-> e.reader, status |-> e.status, apdu |-> apdu] : apdu \in ToApdu(e.apdu)}
    [] e.trs = "PinComplete" -> {[reader |-> e.reader, status |-> e.status, tries |-> e.tries]}
    [] e.trs = "Error" -> {[code |-> e.code]}

TrsReplyToC(e) ==
  {[reply |-> TrsReplyCode[e.trs], payload |-> payload] : payload \in TrsPayloadToC(e)}

TrsPayloadFromC(trs, raw) ==
  CASE trs = "CardInfo" ->
         {[trs |-> trs, reader |-> raw.reader, protocol |-> protocol, csn |-> csn,
           protocol_data |-> data] :
            protocol \in Decode(CardProtocolCode, raw.protocol),
            csn \in FromBuffer(raw.csn), data \in FromBuffer(raw.protocol_data)}
    [] trs = "CardPresent" ->
         {[trs |-> trs, reader |-> raw.reader, card |-> card] :
            card \in Decode(CardStatusCode, raw.status)}
    [] trs = "CardData" ->
         {[trs |-> trs, reader |-> raw.reader, status |-> raw.status, apdu |-> apdu] :
            apdu \in FromBuffer(raw.apdu)}
    [] trs = "PinComplete" ->
         {[trs |-> trs, reader |-> raw.reader, status |-> raw.status, tries |-> raw.tries]}
    [] trs = "Error" -> {[trs |-> trs, code |-> raw.code]}

TrsReplyFromC(raw) ==
  UNION {TrsPayloadFromC(trs, raw.payload) : trs \in Decode(TrsReplyCode, raw.reply)}
-----------------------------------------------------------------------------
EventType == [CardRead |-> 1, KeyPress |-> 2, MfgReply |-> 3, Status |-> 4, MfgStatus |-> 6,
              MfgError |-> 7, BioRead |-> 8, BioMatch |-> 9, PivData |-> 10, GenAuth |-> 11,
              CrAuth |-> 12, Trs |-> 13]
OSDP_EVENT_NOTIFICATION == 5

\* What the variant "kind" of Event carries, and its two conversions.
EventBody(kind) ==
  CASE kind = "CardRead" -> CardRead         [] kind = "KeyPress" -> KeyPress
    [] kind = "MfgReply" -> MfgReply         [] kind \in {"MfgStatus", "MfgError"} -> MfgStatus
    [] kind = "BioRead" -> BioReadReply      [] kind = "BioMatch" -> BioMatchReply
    [] kind \in {"PivData", "GenAuth", "CrAuth"} -> PivReply
    [] kind = "Trs" -> TrsReply              [] kind = "Status" -> Status

EventBodyToC(kind, e) ==
  CASE kind = "CardRead" -> CardReadToC(e)   [] kind = "KeyPress" -> KeyPressToC(e)
    [] kind = "MfgReply" -> MfgReplyToC(e)   [] kind \in {"MfgStatus", "MfgError"} -> MfgStatusToC(e)
    [] kind = "BioRead" -> BioReadReplyToC(e) [] kind = "BioMatch" -> BioMatchReplyToC(e)
    [] kind \in {"PivData", "GenAuth", "CrAuth"} -> PivReplyToC(e)
    [] kind = "Trs" -> TrsReplyToC(e)        [] kind = "Status" -> StatusToC(e)

EventBodyFromC(kind, raw) ==
  CASE kind = "CardRead" -> CardReadFromC(raw) [] kind = "KeyPress" -> KeyPressFromC(raw)
    [] kind = "MfgReply" -> MfgReplyFromC(raw)
    [] kind \in {"MfgStatus", "MfgError"} -> MfgStatusFromC(raw)
    [] kind = "BioRead" -> BioReadReplyFromC(raw)
    [] kind = "BioMatch" -> BioMatchReplyFromC(raw)
    [] kind \in {"PivData", "GenAuth", "CrAuth"} -> PivReplyFromC(raw)
    [] kind = "Trs" -> TrsReplyFromC(raw)    [] kind = "Status" -> StatusFromC(raw)

EventToC(e) ==
  {[type_ |-> EventType[e.kind], flags |-> 0, body |-> body] : body \in EventBodyToC(e.kind, e.body)}

EventFromC(raw) ==
  UNION {{[kind |-> kind, body |-> body] : body \in EventBodyFromC(kind, raw.body)} :
         kind \in Decode(EventType, raw.type_)}
=============================================================================

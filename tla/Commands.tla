------------------------------ MODULE Commands ------------------------------
(***************************************************************************)
(* The commands of this crate and their conversions to and from osdp_cmd   *)
(* (libosdp/src/commands.rs; bio.rs, piv.rs, status.rs and trs.rs for the  *)
(* commands declared there).  XToC is "TryFrom<X> for osdp_cmd_x", XFromC  *)
(* the way back; both are sets of results, as Encoding explains.  A union  *)
(* of C is the field "body", and an array with its length is one field.    *)
(***************************************************************************)
EXTENDS Encoding

LedColorCode == [None |-> 0, Red |-> 1, Green |-> 2, Amber |-> 3,
                 Blue |-> 4, Magenta |-> 5, Cyan |-> 6, White |-> 7]
LedTemporaryCode == [Keep |-> 0, Cancel |-> 1, Set |-> 2]
LedPermanentCode == [Keep |-> 0, Set |-> 1]

LedParams == [on_time : Nat, off_time : Nat,
              on_color : Open(LedColorCode), off_color : Open(LedColorCode)]

\* LedParams::default(), which a state that is not set is sent with.
NoParams == [on_time |-> 0, off_time |-> 0, on_color |-> <<"None", 0>>, off_color |-> <<"None", 0>>]

LedTemporary == [action : {"Keep", "Cancel"}, params : {NoParams}, timer : {0}]
                \union [action : {"Set"}, params : LedParams, timer : Nat]
LedPermanent == [action : {"Keep"}, params : {NoParams}]
                \union [action : {"Set"}, params : LedParams]
LedCommand == [reader : Byte, led_number : Byte, temporary : LedTemporary, permanent : LedPermanent]

LedParamsToC(params, code, timer) ==
  {[control_code |-> code, on_count |-> on, off_count |-> off, timer_count |-> count,
    on_color  |-> OpenToC(LedColorCode, params.on_color),
    off_color |-> OpenToC(LedColorCode, params.off_color)] :
     on    \in ToCount(params.on_time, Tenth, U8),
     off   \in ToCount(params.off_time, Tenth, U8),
     count \in ToCount(timer, Tenth, U16)}

LedParamsFromC(raw) ==
  [on_time   |-> FromCount(raw.on_count, Tenth),
   off_time  |-> FromCount(raw.off_count, Tenth),
   on_color  |-> OpenFromC(LedColorCode, raw.on_color),
   off_color |-> OpenFromC(LedColorCode, raw.off_color)]

LedTemporaryToC(led) == LedParamsToC(led.params, LedTemporaryCode[led.action], led.timer)

LedTemporaryFromC(raw) ==
  {IF action = "Set"
   THEN [action |-> action, params |-> LedParamsFromC(raw), timer |-> FromCount(raw.timer_count, Tenth)]
   ELSE [action |-> action, params |-> NoParams, timer |-> 0] :
     action \in Decode(LedTemporaryCode, raw.control_code)}

LedPermanentToC(led) == LedParamsToC(led.params, LedPermanentCode[led.action], 0)

LedPermanentFromC(raw) ==
  {[action |-> action, params |-> IF action = "Set" THEN LedParamsFromC(raw) ELSE NoParams] :
     action \in Decode(LedPermanentCode, raw.control_code)}

LedToC(c) ==
  {[reader |-> c.reader, led_number |-> c.led_number, temporary |-> t, permanent |-> p] :
     t \in LedTemporaryToC(c.temporary), p \in LedPermanentToC(c.permanent)}

LedFromC(raw) ==
  {[reader |-> raw.reader, led_number |-> raw.led_number, temporary |-> t, permanent |-> p] :
     t \in LedTemporaryFromC(raw.temporary), p \in LedPermanentFromC(raw.permanent)}
-----------------------------------------------------------------------------
BuzzerCode == [NoTone |-> 0, Off |-> 1, Tone |-> 2]

BuzzerCommand == [reader : Byte, action : {"Off"}, on : {0}, off : {0}, repeat : {0}]
                 \union [reader : Byte, action : {"Tone"}, on : Nat, off : Nat, repeat : Byte]

BuzzerToC(c) ==
  {[reader |-> c.reader, control_code |-> BuzzerCode[c.action],
    on_count |-> on, off_count |-> off, rep_count |-> c.repeat] :
     on \in ToCount(c.on, Tenth, U8), off \in ToCount(c.off, Tenth, U8)}

\* LibOSDP has two codes for silence.
BuzzerFromC(raw) ==
  {IF code = "Tone"
   THEN [reader |-> raw.reader, action |-> "Tone", on |-> FromCount(raw.on_count, Tenth),
         off |-> FromCount(raw.off_count, Tenth), repeat |-> raw.rep_count]
   ELSE [reader |-> raw.reader, action |-> "Off", on |-> 0, off |-> 0, repeat |-> 0] :
     code \in Decode(BuzzerCode, raw.control_code)}

TextCode == [PermanentNoWrap |-> 1, PermanentWrap |-> 2, TemporaryNoWrap |-> 3, TemporaryWrap |-> 4]
Temporary == {"TemporaryNoWrap", "TemporaryWrap"}

TextCommand ==
  {c \in [reader : Byte, mode : DOMAIN TextCode, shown_for : Nat,
          offset_row : Byte, offset_col : Byte, data : Bytes] :
     c.mode \in Temporary \/ c.shown_for = 0}

TextToC(c) ==
  {[reader |-> c.reader, control_code |-> TextCode[c.mode], temp_time |-> time,
    offset_row |-> c.offset_row, offset_col |-> c.offset_col, data |-> data] :
     time \in ToCount(c.shown_for, Second, U8), data \in ToBuffer(c.data, 32, U8)}

TextFromC(raw) ==
  {[reader |-> raw.reader, mode |-> mode,
    shown_for |-> IF mode \in Temporary THEN FromCount(raw.temp_time, Second) ELSE 0,
    offset_row |-> raw.offset_row, offset_col |-> raw.offset_col, data |-> data] :
     mode \in Decode(TextCode, raw.control_code), data \in FromBuffer(raw.data)}

OutputCode == [Keep |-> 0, PermanentOff |-> 1, PermanentOn |-> 2, PermanentOffAllowTimed |-> 3,
               PermanentOnAllowTimed |-> 4, TemporaryOn |-> 5, TemporaryOff |-> 6]
Timed == {"TemporaryOn", "TemporaryOff"}

OutputCommand ==
  {c \in [output_no : Byte, action : DOMAIN OutputCode, timer : Nat] :
     c.action \in Timed \/ c.timer = 0}

OutputToC(c) ==
  {[output_no |-> c.output_no, control_code |-> OutputCode[c.action], timer_count |-> count] :
     count \in ToCount(c.timer, Tenth, U16)}

OutputFromC(raw) ==
  {[output_no |-> raw.output_no, action |-> action,
    timer |-> IF action \in Timed THEN FromCount(raw.timer_count, Tenth) ELSE 0] :
     action \in Decode(OutputCode, raw.control_code)}
-----------------------------------------------------------------------------
\* ComSet and PivRequest have the fields of their C structs.
ComSet     == [address : Byte, baud_rate : Nat]
PivRequest == [object_id : Byte \X Byte \X Byte, element : Byte, offset : Byte]
SameFields(x) == {x}

KeySetCommand == [key_type : Byte, data : Bytes]

KeySetToC(c) == {[type_ |-> c.key_type, data |-> data] : data \in ToBuffer(c.data, 32, U8)}

KeySetFromC(raw) == {[key_type |-> raw.type_, data |-> data] : data \in FromBuffer(raw.data)}

MfgCommand == [vendor_code : Vendor, data : Bytes]

MfgToC(c) ==
  {[vendor_code |-> AsLe(c.vendor_code), data |-> data] : data \in ToBuffer(c.data, 64, U8)}

MfgFromC(raw) ==
  {[vendor_code |-> ToLeBytes(raw.vendor_code), data |-> data] : data \in FromBuffer(raw.data)}

FileTxCommand == [file : Int]
FileTxToC(c) == {[file |-> c.file, flags |-> 0]}
FileTxFromC(raw) == {[file |-> raw.file]}

TimeDateCommand == [year : Word, month : Byte, day : Byte, hour : Byte, minute : Byte, second : Byte]

\* Checked when sent, and not when received.
TimeDateToC(c) ==
  IF /\ c.month \in 1..12 /\ c.day \in 1..31
     /\ c.hour <= 23 /\ c.minute <= 59 /\ c.second <= 59
  THEN {c}
  ELSE {}

TimeDateFromC(raw) == {raw}

StatusCode == [Input |-> 0, Output |-> 1, Local |-> 2, Reader |-> 3]
StatusCommand == [status : DOMAIN StatusCode]

StatusCommandToC(c) ==
  {[type_ |-> StatusCode[c.status], report |-> data] : data \in ToBuffer(<<>>, 64, U16)}

StatusCommandFromC(raw) == {[status |-> kind] : kind \in Decode(StatusCode, raw.type_)}
-----------------------------------------------------------------------------
BioTypeCode ==
  [NotSpecified |-> 0,
   RightThumb |-> 1, RightIndexFinger |-> 2, RightMiddleFinger |-> 3,
   RightRingFinger |-> 4, RightLittleFinger |-> 5,
   LeftThumb |-> 6, LeftIndexFinger |-> 7, LeftMiddleFinger |-> 8,
   LeftRingFinger |-> 9, LeftLittleFinger |-> 10,
   RightIris |-> 11, RightRetina |-> 12, LeftIris |-> 13, LeftRetina |-> 14,
   FullFace |-> 15, RightHandGeometry |-> 16, LeftHandGeometry |-> 17]
BioFormatCode == [NotSpecified |-> 0, RawPgm |-> 1, AnsiIncits378 |-> 2]

BioReadCommand ==
  [reader : Byte, kind : Open(BioTypeCode), format : Open(BioFormatCode), quality : Byte]

BioReadToC(c) ==
  {[reader |-> c.reader, type_ |-> OpenToC(BioTypeCode, c.kind),
    format |-> OpenToC(BioFormatCode, c.format), quality |-> c.quality]}

BioReadFromC(raw) ==
  {[reader |-> raw.reader, kind |-> OpenFromC(BioTypeCode, raw.type_),
    format |-> OpenFromC(BioFormatCode, raw.format), quality |-> raw.quality]}

BioMatchCommand ==
  [reader : Byte, kind : Open(BioTypeCode), format : Open(BioFormatCode),
   threshold : Byte, template : Bytes]

BioMatchToC(c) ==
  {[reader |-> c.reader, type_ |-> OpenToC(BioTypeCode, c.kind),
    format |-> OpenToC(BioFormatCode, c.format), quality |-> c.threshold, data |-> data] :
     data \in ToBuffer(c.template, 128, U16)}

BioMatchFromC(raw) ==
  {[reader |-> raw.reader, kind |-> OpenFromC(BioTypeCode, raw.type_),
    format |-> OpenFromC(BioFormatCode, raw.format), threshold |-> raw.quality,
    template |-> data] : data \in FromBuffer(raw.data)}

\* piv.rs, to_payload: what a card is asked or answers is never empty.
ToPayload(data) == IF data = <<>> THEN {} ELSE ToBuffer(data, 256, U16)

Challenge == [algorithm : Byte, key : Byte, data : Bytes]

ChallengeToC(c) ==
  {[algorithm |-> c.algorithm, key |-> c.key, data |-> data] : data \in ToPayload(c.data)}

ChallengeFromC(raw) ==
  {[algorithm |-> raw.algorithm, key |-> raw.key, data |-> data] : data \in FromBuffer(raw.data)}
-----------------------------------------------------------------------------
ToApdu(data) == ToBuffer(data, 258, U16)

PinFormatCode == [Binary |-> 1, Bcd |-> 2, Ascii |-> 3]

\* Option<PinLengthField> is a set of at most one field.  The numbers that
\* both directions copy are abstracted to one, "rest".
PinLengthField == [size_bits : Byte, offset_bits : Word]
PinEntry ==
  [first_digit_timeout : Nat, digit_timeout : Nat, format : DOMAIN PinFormatCode, rest : Byte,
   length_field : {fields \in SUBSET PinLengthField : \A f, g \in fields : f = g}, apdu : Bytes]

PinLengthToC(field) ==
  IF field = {}
  THEN {[size_bits |-> 0, offset_bits |-> 0]}
  ELSE {f \in field : f.size_bits # 0}

PinLengthFromC(raw) == {f \in {raw} : f.size_bits # 0}

PinEntryToC(e) ==
  {[timeout_initial |-> first, timeout_digit |-> next, format |-> PinFormatCode[e.format],
    rest |-> e.rest, pin_length_field |-> field, apdu |-> apdu] :
     first \in ToCount(e.first_digit_timeout, Second, U8),
     next  \in ToCount(e.digit_timeout, Second, U8),
     field \in PinLengthToC(e.length_field),
     apdu  \in ToApdu(e.apdu)}

PinEntryFromC(raw) ==
  {[first_digit_timeout |-> FromCount(raw.timeout_initial, Second),
    digit_timeout |-> FromCount(raw.timeout_digit, Second), format |-> format, rest |-> raw.rest,
    length_field |-> PinLengthFromC(raw.pin_length_field), apdu |-> apdu] :
     format \in Decode(PinFormatCode, raw.format), apdu \in FromBuffer(raw.apdu)}

TrsCommandCode == [Start |-> 1, Stop |-> 2, Apdu |-> 3, EnterPin |-> 4, CardScan |-> 5]

\* The part of the union that a command does not use is zeroed.
NoApdu == <<>>
TrsCommand ==
  [trs : {"Start", "Stop", "CardScan"}, apdu : {NoApdu}]
  \union [trs : {"Apdu"}, apdu : Bytes]
  \union [trs : {"EnterPin"}, entry : PinEntry]

TrsToC(c) ==
  IF c.trs = "EnterPin"
  THEN {[command |-> TrsCommandCode[c.trs], pin_entry |-> e] : e \in PinEntryToC(c.entry)}
  ELSE {[command |-> TrsCommandCode[c.trs], apdu |-> apdu] : apdu \in ToApdu(c.apdu)}

TrsFromC(raw) ==
  UNION {CASE trs = "EnterPin" -> {[trs |-> trs, entry |-> e] : e \in PinEntryFromC(raw.pin_entry)}
           [] trs = "Apdu"     -> {[trs |-> trs, apdu |-> apdu] : apdu \in FromBuffer(raw.apdu)}
           [] OTHER            -> {[trs |-> trs, apdu |-> NoApdu]} :
         trs \in Decode(TrsCommandCode, raw.command)}

TrsScan == [mode0_dwell : Nat, mode1_dwell : Nat, hold : Nat]

TrsScanToC(scan) ==
  {[mode0_dwell_ms |-> mode0, mode1_dwell_ms |-> mode1, hold_ms |-> hold] :
     mode0 \in ToCount(scan.mode0_dwell, Millisecond, U16),
     mode1 \in ToCount(scan.mode1_dwell, Millisecond, U16),
     hold  \in ToCount(scan.hold, Millisecond, U16)}
-----------------------------------------------------------------------------
CommandId == [Output |-> 1, Led |-> 2, Buzzer |-> 3, Text |-> 4, KeySet |-> 5, ComSet |-> 6,
              Mfg |-> 7, FileTx |-> 8, Status |-> 9, ComSetDone |-> 10, BioRead |-> 12,
              BioMatch |-> 13, TimeDate |-> 14, PivData |-> 15, GenAuth |-> 16,
              CrAuth |-> 17, Trs |-> 18]
OSDP_CMD_NOTIFICATION == 11

\* What the variant "kind" of Command carries, and its two conversions.
Body(kind) ==
  CASE kind = "Led" -> LedCommand           [] kind = "Buzzer" -> BuzzerCommand
    [] kind = "Text" -> TextCommand         [] kind = "Output" -> OutputCommand
    [] kind \in {"ComSet", "ComSetDone"} -> ComSet
    [] kind = "KeySet" -> KeySetCommand     [] kind = "Mfg" -> MfgCommand
    [] kind = "FileTx" -> FileTxCommand     [] kind = "Status" -> StatusCommand
    [] kind = "BioRead" -> BioReadCommand   [] kind = "BioMatch" -> BioMatchCommand
    [] kind = "TimeDate" -> TimeDateCommand [] kind = "PivData" -> PivRequest
    [] kind \in {"GenAuth", "CrAuth"} -> Challenge
    [] kind = "Trs" -> TrsCommand

BodyToC(kind, c) ==
  CASE kind = "Led" -> LedToC(c)            [] kind = "Buzzer" -> BuzzerToC(c)
    [] kind = "Text" -> TextToC(c)          [] kind = "Output" -> OutputToC(c)
    [] kind \in {"ComSet", "ComSetDone", "PivData"} -> SameFields(c)
    [] kind = "KeySet" -> KeySetToC(c)      [] kind = "Mfg" -> MfgToC(c)
    [] kind = "FileTx" -> FileTxToC(c)      [] kind = "Status" -> StatusCommandToC(c)
    [] kind = "BioRead" -> BioReadToC(c)    [] kind = "BioMatch" -> BioMatchToC(c)
    [] kind = "TimeDate" -> TimeDateToC(c)  [] kind = "Trs" -> TrsToC(c)
    [] kind \in {"GenAuth", "CrAuth"} -> ChallengeToC(c)

BodyFromC(kind, raw) ==
  CASE kind = "Led" -> LedFromC(raw)           [] kind = "Buzzer" -> BuzzerFromC(raw)
    [] kind = "Text" -> TextFromC(raw)         [] kind = "Output" -> OutputFromC(raw)
    [] kind \in {"ComSet", "ComSetDone", "PivData"} -> SameFields(raw)
    [] kind = "KeySet" -> KeySetFromC(raw)     [] kind = "Mfg" -> MfgFromC(raw)
    [] kind = "FileTx" -> FileTxFromC(raw)     [] kind = "Status" -> StatusCommandFromC(raw)
    [] kind = "BioRead" -> BioReadFromC(raw)   [] kind = "BioMatch" -> BioMatchFromC(raw)
    [] kind = "TimeDate" -> TimeDateFromC(raw) [] kind = "Trs" -> TrsFromC(raw)
    [] kind \in {"GenAuth", "CrAuth"} -> ChallengeFromC(raw)

CommandToC(c) ==
  {[id |-> CommandId[c.kind], flags |-> 0, body |-> body] : body \in BodyToC(c.kind, c.body)}

CommandFromC(raw) ==
  UNION {{[kind |-> kind, body |-> body] : body \in BodyFromC(kind, raw.body)} :
         kind \in Decode(CommandId, raw.id)}
=============================================================================

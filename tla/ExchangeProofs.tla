--------------------------- MODULE ExchangeProofs ---------------------------
(***************************************************************************)
(* What one end of this crate accepts for sending arrives at the other end *)
(* with the meaning it had: for every command and event, of any contents.  *)
(***************************************************************************)
EXTENDS Exchange, SequenceTheorems, TLAPS

(* A length that its word can hold does not wrap.                          *)
LEMMA LengthFits == ASSUME NEW n \in Nat, NEW w \in Nat, n <= w PROVE n % (w + 1) = n
  OBVIOUS

LEMMA PaddedIsRead ==
  ASSUME NEW S, NEW data \in Seq(S), NEW zero \in S, NEW max \in Nat, Len(data) <= max,
         NEW array, array = [i \in 1..max |-> IF i <= Len(data) THEN data[i] ELSE zero]
  PROVE  Len(array) = max /\ SubSeq(array, 1, Len(data)) = data
<1>1. Len(data) \in Nat /\ \A i \in 1..Len(data) : data[i] \in S
  OBVIOUS
<1>2. array \in Seq(S) /\ Len(array) = max
  BY <1>1
<1>3. \A i \in 1..Len(data) : array[i] = data[i] /\ array[i] \in S
  BY <1>1
<1>4. SubSeq(array, 1, Len(data)) \in Seq(S) /\ Len(SubSeq(array, 1, Len(data))) = Len(data)
  BY <1>1, <1>3, SubSeqProperties
<1>5. \A i \in 1..Len(data) : SubSeq(array, 1, Len(data))[i] = data[i]
  BY <1>1, <1>3, SubSeqProperties
<1> QED
  BY <1>2, <1>4, <1>5, SeqEqual

LEMMA BufferOf ==
  ASSUME NEW data \in Bytes, NEW max, NEW width, NEW buffer \in ToBuffer(data, max, width)
  PROVE  /\ data \in Seq(Byte) /\ 0 \in Byte /\ Len(data) \in Nat /\ ~(Len(data) > max)
         /\ buffer = [length |-> Len(data) % (width + 1),
                      bytes  |-> [i \in 1..max |-> IF i <= Len(data) THEN data[i] ELSE 0]]
<1>1. data \in Seq(Byte) /\ 0 \in Byte /\ Len(data) \in Nat
  BY DEF Bytes, Byte, U8
<1> QED
  BY <1>1 DEF ToBuffer

(* A buffer is read as the data it was written with.                       *)
LEMMA BufferRoundTrip ==
  ASSUME NEW data \in Bytes, NEW max \in Nat, NEW width \in Nat, max <= width,
         NEW buffer \in ToBuffer(data, max, width)
  PROVE  FromBuffer(buffer) = {data}
<1>1. data \in Seq(Byte) /\ 0 \in Byte /\ Len(data) \in Nat
  BY BufferOf
<1>2. Len(data) <= max
  BY <1>1, BufferOf
<1>3. buffer = [length |-> Len(data) % (width + 1),
                bytes  |-> [i \in 1..max |-> IF i <= Len(data) THEN data[i] ELSE 0]]
  BY BufferOf
<1>4. Len(data) % (width + 1) = Len(data)
  BY <1>1, <1>2, LengthFits
<1>5. buffer.length = Len(data)
  BY <1>3, <1>4
<1>6. Len(buffer.bytes) = max /\ SubSeq(buffer.bytes, 1, Len(data)) = data
  <2>1. buffer.bytes = [i \in 1..max |-> IF i <= Len(data) THEN data[i] ELSE 0]
    BY <1>3
  <2> QED
    BY <1>1, <1>2, <2>1, PaddedIsRead
<1>7. buffer.length \in 0..Len(buffer.bytes)
  BY <1>1, <1>2, <1>5, <1>6
<1> QED
  BY <1>5, <1>6, <1>7 DEF FromBuffer

(* A time that has a count is that count of its unit.                      *)
LEMMA CountRoundTrip ==
  ASSUME NEW duration \in Nat, NEW unit \in {Millisecond, Tenth, Second}, NEW max,
         NEW count \in ToCount(duration, unit, max)
  PROVE  FromCount(count, unit) = duration
  BY DEF ToCount, FromCount, Millisecond, Tenth, Second

LEMMA LeRoundTrip ==
  ASSUME NEW vendor \in Vendor
  PROVE  ToLeBytes(AsLe(vendor)) = vendor
<1> DEFINE a == vendor[1]
           b == vendor[2]
           c == vendor[3]
<1>1. a \in 0..255 /\ b \in 0..255 /\ c \in 0..255 /\ vendor = <<a, b, c>>
  BY DEF Vendor, Byte, U8
<1> HIDE DEF a, b, c
<1>2. AsLe(vendor) = a + 256 * b + 65536 * c
  BY DEF AsLe, a, b, c
<1>3. (a + 256 * b + 65536 * c) % 256 = a
  BY <1>1
<1>4. (a + 256 * b + 65536 * c) \div 256 = b + 256 * c
  BY <1>1
<1>5. (b + 256 * c) % 256 = b
  BY <1>1
<1>6. ((a + 256 * b + 65536 * c) \div 65536) % 256 = c
  BY <1>1
<1> QED
  BY <1>1, <1>2, <1>3, <1>4, <1>5, <1>6 DEF ToLeBytes

(* Codes tell the variants of an enum apart.                               *)
Injective(codes) == \A a, b \in DOMAIN codes : codes[a] = codes[b] => a = b

LEMMA DecodeRoundTrip ==
  ASSUME NEW codes, Injective(codes), NEW name \in DOMAIN codes
  PROVE  Decode(codes, codes[name]) = {name}
  BY DEF Decode, Injective

LEMMA OpenRoundTrip ==
  ASSUME NEW codes, Injective(codes), "Other" \notin DOMAIN codes, NEW value \in Open(codes)
  PROVE  OpenFromC(codes, OpenToC(codes, value)) = Named(codes, value)
<1>1. CASE value[1] # "Other"
  <2>1. PICK name \in DOMAIN codes : value = <<name, 0>> /\ name # "Other"
    BY <1>1 DEF Open
  <2>2. OpenToC(codes, value) = codes[name] /\ Decode(codes, codes[name]) = {name}
    BY <2>1, DecodeRoundTrip DEF OpenToC
  <2>3. OpenFromC(codes, codes[name]) = <<name, 0>>
    BY <2>2 DEF OpenFromC, Injective
  <2>4. \A other : value # <<"Other", other>>
    BY <2>1
  <2> QED
    BY <2>1, <2>2, <2>3, <2>4 DEF Named
<1>2. CASE value[1] = "Other"
  <2>1. PICK code \in 0..U8 : value = <<"Other", code>>
    BY <1>2 DEF Open
  <2>2. OpenToC(codes, value) = code
    BY <2>1 DEF OpenToC
  <2>3. {name \in DOMAIN codes : value = <<"Other", codes[name]>>} = Decode(codes, code)
    BY <2>1 DEF Decode
  <2>4. CASE Decode(codes, code) = {}
    BY <2>1, <2>2, <2>3, <2>4 DEF OpenFromC, Named
  <2>5. CASE Decode(codes, code) # {}
    <3>1. PICK name \in DOMAIN codes : codes[name] = code /\ Decode(codes, code) = {name}
      BY <2>5, DecodeRoundTrip DEF Decode
    <3>2. OpenFromC(codes, code) = <<name, 0>>
      BY <3>1 DEF OpenFromC, Injective
    <3>3. Named(codes, value) = <<name, 0>>
      BY <2>3, <3>1 DEF Named
    <3> QED
      BY <2>2, <3>2, <3>3
  <2> QED
    BY <2>4, <2>5
<1> QED
  BY <1>1, <1>2

LEMMA Tables ==
  /\ Injective(LedColorCode) /\ "Other" \notin DOMAIN LedColorCode
  /\ Injective(LedTemporaryCode) /\ Injective(LedPermanentCode)
  /\ Injective(BuzzerCode) /\ Injective(TextCode) /\ Injective(OutputCode) /\ Injective(StatusCode)
  /\ Injective(BioTypeCode) /\ "Other" \notin DOMAIN BioTypeCode
  /\ Injective(BioFormatCode) /\ "Other" \notin DOMAIN BioFormatCode
  /\ Injective(BioStatusCode) /\ "Other" \notin DOMAIN BioStatusCode
  /\ Injective(ReaderStatusCode) /\ "Other" \notin DOMAIN ReaderStatusCode
  /\ Injective(PinFormatCode) /\ Injective(TrsCommandCode) /\ Injective(TrsReplyCode)
  /\ Injective(CardProtocolCode) /\ Injective(CardStatusCode) /\ Injective(CardFormatCode)
  /\ Injective(CommandId) /\ Injective(EventType)
<1>1. Injective(LedColorCode) /\ "Other" \notin DOMAIN LedColorCode
  BY DEF Injective, LedColorCode
<1>2. Injective(LedTemporaryCode) /\ Injective(LedPermanentCode)
  BY DEF Injective, LedTemporaryCode, LedPermanentCode
<1>3. Injective(BuzzerCode) /\ Injective(TextCode) /\ Injective(StatusCode)
  BY DEF Injective, BuzzerCode, TextCode, StatusCode
<1>4. Injective(OutputCode)
  BY DEF Injective, OutputCode
<1>5. Injective(BioTypeCode) /\ "Other" \notin DOMAIN BioTypeCode
  BY DEF Injective, BioTypeCode
<1>6. Injective(BioFormatCode) /\ "Other" \notin DOMAIN BioFormatCode
  BY DEF Injective, BioFormatCode
<1>7. Injective(BioStatusCode) /\ "Other" \notin DOMAIN BioStatusCode
  BY DEF Injective, BioStatusCode
<1>8. Injective(ReaderStatusCode) /\ "Other" \notin DOMAIN ReaderStatusCode
  BY DEF Injective, ReaderStatusCode
<1>9. Injective(PinFormatCode) /\ Injective(TrsCommandCode) /\ Injective(TrsReplyCode)
  BY DEF Injective, PinFormatCode, TrsCommandCode, TrsReplyCode
<1>10. Injective(CardProtocolCode) /\ Injective(CardStatusCode) /\ Injective(CardFormatCode)
  BY DEF Injective, CardProtocolCode, CardStatusCode, CardFormatCode
<1>11. Injective(CommandId)
  BY DEF Injective, CommandId
<1>12. Injective(EventType)
  BY DEF Injective, EventType
<1> QED
  BY <1>1, <1>2, <1>3, <1>4, <1>5, <1>6, <1>7, <1>8, <1>9, <1>10, <1>11, <1>12
-----------------------------------------------------------------------------
LEMMA ParamsRoundTrip ==
  ASSUME NEW params \in LedParams, NEW timer \in Nat, NEW code,
         NEW raw \in LedParamsToC(params, code, timer)
  PROVE  /\ LedParamsFromC(raw) = NamedParams(params)
         /\ raw.control_code = code /\ FromCount(raw.timer_count, Tenth) = timer
<1>1. PICK on \in ToCount(params.on_time, Tenth, U8), off \in ToCount(params.off_time, Tenth, U8),
           count \in ToCount(timer, Tenth, U16) :
        raw = [control_code |-> code, on_count |-> on, off_count |-> off, timer_count |-> count,
               on_color  |-> OpenToC(LedColorCode, params.on_color),
               off_color |-> OpenToC(LedColorCode, params.off_color)]
  BY DEF LedParamsToC
<1>2. /\ params.on_time \in Nat /\ params.off_time \in Nat
      /\ params.on_color \in Open(LedColorCode) /\ params.off_color \in Open(LedColorCode)
      /\ params = [on_time |-> params.on_time, off_time |-> params.off_time,
                   on_color |-> params.on_color, off_color |-> params.off_color]
  BY DEF LedParams
<1>3. /\ FromCount(on, Tenth) = params.on_time /\ FromCount(off, Tenth) = params.off_time
      /\ FromCount(count, Tenth) = timer
  BY <1>2, CountRoundTrip
<1>4. /\ OpenFromC(LedColorCode, OpenToC(LedColorCode, params.on_color)) = Named(LedColorCode, params.on_color)
      /\ OpenFromC(LedColorCode, OpenToC(LedColorCode, params.off_color)) = Named(LedColorCode, params.off_color)
  BY <1>2, Tables, OpenRoundTrip
<1> QED
  BY <1>1, <1>3, <1>4 DEF LedParamsFromC, NamedParams

LEMMA NoParamsIsNamed == NoParams \in LedParams /\ NamedParams(NoParams) = NoParams
<1>1. Named(LedColorCode, <<"None", 0>>) = <<"None", 0>>
  BY DEF Named, LedColorCode
<1>2. <<"None", 0>> \in Open(LedColorCode)
  BY DEF Open, LedColorCode
<1> QED
  BY <1>1, <1>2 DEF NoParams, LedParams, NamedParams

LEMMA TemporaryRoundTrip ==
  ASSUME NEW led \in LedTemporary, NEW raw \in LedTemporaryToC(led)
  PROVE  LedTemporaryFromC(raw) = {NamedState(led)}
<1>1. led.params \in LedParams /\ led.timer \in Nat /\ led.action \in DOMAIN LedTemporaryCode
  BY NoParamsIsNamed DEF LedTemporary, LedTemporaryCode
<1>2. /\ LedParamsFromC(raw) = NamedParams(led.params)
      /\ raw.control_code = LedTemporaryCode[led.action] /\ FromCount(raw.timer_count, Tenth) = led.timer
  BY <1>1, ParamsRoundTrip DEF LedTemporaryToC
<1>3. Decode(LedTemporaryCode, raw.control_code) = {led.action}
  BY <1>1, <1>2, Tables, DecodeRoundTrip
<1>4. NamedState(led) = [action |-> led.action, params |-> NamedParams(led.params), timer |-> led.timer]
  BY DEF LedTemporary, NamedState
<1>5. CASE led.action = "Set"
  BY <1>2, <1>3, <1>4, <1>5 DEF LedTemporaryFromC
<1>6. CASE led.action # "Set"
  <2>1. led.params = NoParams /\ led.timer = 0
    BY <1>6 DEF LedTemporary
  <2> QED
    BY <1>3, <1>4, <1>6, <2>1, NoParamsIsNamed DEF LedTemporaryFromC
<1> QED
  BY <1>5, <1>6

LEMMA PermanentRoundTrip ==
  ASSUME NEW led \in LedPermanent, NEW raw \in LedPermanentToC(led)
  PROVE  LedPermanentFromC(raw) = {NamedState(led)}
<1>1. led.params \in LedParams /\ led.action \in DOMAIN LedPermanentCode
  BY NoParamsIsNamed DEF LedPermanent, LedPermanentCode
<1>2. /\ LedParamsFromC(raw) = NamedParams(led.params)
      /\ raw.control_code = LedPermanentCode[led.action]
  BY <1>1, ParamsRoundTrip DEF LedPermanentToC
<1>3. Decode(LedPermanentCode, raw.control_code) = {led.action}
  BY <1>1, <1>2, Tables, DecodeRoundTrip
<1>4. NamedState(led) = [action |-> led.action, params |-> NamedParams(led.params)]
  BY DEF LedPermanent, NamedState
<1>5. CASE led.action = "Set"
  BY <1>2, <1>3, <1>4, <1>5 DEF LedPermanentFromC
<1>6. CASE led.action # "Set"
  <2>1. led.params = NoParams
    BY <1>6 DEF LedPermanent
  <2> QED
    BY <1>3, <1>4, <1>6, <2>1, NoParamsIsNamed DEF LedPermanentFromC
<1> QED
  BY <1>5, <1>6

LEMMA LedRoundTrip ==
  ASSUME NEW c \in LedCommand, NEW raw \in LedToC(c)
  PROVE  LedFromC(raw) = {CanonicalCommand("Led", c)}
<1>1. PICK t \in LedTemporaryToC(c.temporary), p \in LedPermanentToC(c.permanent) :
        raw = [reader |-> c.reader, led_number |-> c.led_number, temporary |-> t, permanent |-> p]
  BY DEF LedToC
<1>2. c.temporary \in LedTemporary /\ c.permanent \in LedPermanent
  BY DEF LedCommand
<1>3. LedTemporaryFromC(t) = {NamedState(c.temporary)} /\ LedPermanentFromC(p) = {NamedState(c.permanent)}
  BY <1>2, TemporaryRoundTrip, PermanentRoundTrip
<1> QED
  BY <1>1, <1>3 DEF LedFromC, CanonicalCommand
-----------------------------------------------------------------------------
LEMMA BuzzerRoundTrip ==
  ASSUME NEW c \in BuzzerCommand, NEW raw \in BuzzerToC(c)
  PROVE  BuzzerFromC(raw) = {c}
<1>1. PICK on \in ToCount(c.on, Tenth, U8), off \in ToCount(c.off, Tenth, U8) :
        raw = [reader |-> c.reader, control_code |-> BuzzerCode[c.action],
               on_count |-> on, off_count |-> off, rep_count |-> c.repeat]
  BY DEF BuzzerToC
<1>2. c.on \in Nat /\ c.off \in Nat /\ c.action \in DOMAIN BuzzerCode
  BY DEF BuzzerCommand, BuzzerCode
<1>3. FromCount(on, Tenth) = c.on /\ FromCount(off, Tenth) = c.off
  BY <1>2, CountRoundTrip
<1>4. Decode(BuzzerCode, raw.control_code) = {c.action}
  BY <1>1, <1>2, Tables, DecodeRoundTrip
<1> QED
  BY <1>1, <1>3, <1>4 DEF BuzzerFromC, BuzzerCommand

LEMMA TextRoundTrip ==
  ASSUME NEW c \in TextCommand, NEW raw \in TextToC(c)
  PROVE  TextFromC(raw) = {c}
<1>1. PICK time \in ToCount(c.shown_for, Second, U8), data \in ToBuffer(c.data, 32, U8) :
        raw = [reader |-> c.reader, control_code |-> TextCode[c.mode], temp_time |-> time,
               offset_row |-> c.offset_row, offset_col |-> c.offset_col, data |-> data]
  BY DEF TextToC
<1>2. c.shown_for \in Nat /\ c.mode \in DOMAIN TextCode /\ c.data \in Bytes
      /\ (c.mode \in Temporary \/ c.shown_for = 0)
  BY DEF TextCommand
<1>3. FromCount(time, Second) = c.shown_for /\ FromBuffer(data) = {c.data}
  BY <1>2, CountRoundTrip, BufferRoundTrip DEF U8
<1>4. Decode(TextCode, raw.control_code) = {c.mode}
  BY <1>1, <1>2, Tables, DecodeRoundTrip
<1> QED
  BY <1>1, <1>2, <1>3, <1>4 DEF TextFromC, TextCommand

LEMMA OutputRoundTrip ==
  ASSUME NEW c \in OutputCommand, NEW raw \in OutputToC(c)
  PROVE  OutputFromC(raw) = {c}
<1>1. PICK count \in ToCount(c.timer, Tenth, U16) :
        raw = [output_no |-> c.output_no, control_code |-> OutputCode[c.action], timer_count |-> count]
  BY DEF OutputToC
<1>2. c.timer \in Nat /\ c.action \in DOMAIN OutputCode /\ (c.action \in Timed \/ c.timer = 0)
  BY DEF OutputCommand
<1>3. FromCount(count, Tenth) = c.timer
  BY <1>2, CountRoundTrip
<1>4. Decode(OutputCode, raw.control_code) = {c.action}
  BY <1>1, <1>2, Tables, DecodeRoundTrip
<1> QED
  BY <1>1, <1>2, <1>3, <1>4 DEF OutputFromC, OutputCommand

LEMMA KeySetRoundTrip ==
  ASSUME NEW c \in KeySetCommand, NEW raw \in KeySetToC(c)
  PROVE  KeySetFromC(raw) = {c}
<1>1. \A data \in ToBuffer(c.data, 32, U8) : FromBuffer(data) = {c.data}
  BY BufferRoundTrip DEF KeySetCommand, U8
<1> QED
  BY <1>1 DEF KeySetToC, KeySetFromC, KeySetCommand

LEMMA MfgRoundTrip ==
  ASSUME NEW c \in MfgCommand, NEW raw \in MfgToC(c)
  PROVE  MfgFromC(raw) = {c}
<1>1. \A data \in ToBuffer(c.data, 64, U8) : FromBuffer(data) = {c.data}
  BY BufferRoundTrip DEF MfgCommand, U8
<1>2. ToLeBytes(AsLe(c.vendor_code)) = c.vendor_code
  BY LeRoundTrip DEF MfgCommand
<1> QED
  BY <1>1, <1>2 DEF MfgToC, MfgFromC, MfgCommand

LEMMA FileTxRoundTrip ==
  ASSUME NEW c \in FileTxCommand, NEW raw \in FileTxToC(c)
  PROVE  FileTxFromC(raw) = {c}
  BY DEF FileTxCommand, FileTxToC, FileTxFromC

LEMMA StatusCommandRoundTrip ==
  ASSUME NEW c \in StatusCommand, NEW raw \in StatusCommandToC(c)
  PROVE  StatusCommandFromC(raw) = {c}
<1>1. raw.type_ = StatusCode[c.status] /\ c.status \in DOMAIN StatusCode
  BY DEF StatusCommandToC, StatusCommand
<1>2. Decode(StatusCode, raw.type_) = {c.status}
  BY <1>1, Tables, DecodeRoundTrip
<1> QED
  BY <1>2 DEF StatusCommandFromC, StatusCommand

LEMMA BioReadRoundTrip ==
  ASSUME NEW c \in BioReadCommand, NEW raw \in BioReadToC(c)
  PROVE  BioReadFromC(raw) = {CanonicalCommand("BioRead", c)}
<1>1. /\ OpenFromC(BioTypeCode, OpenToC(BioTypeCode, c.kind)) = Named(BioTypeCode, c.kind)
      /\ OpenFromC(BioFormatCode, OpenToC(BioFormatCode, c.format)) = Named(BioFormatCode, c.format)
  BY Tables, OpenRoundTrip DEF BioReadCommand
<1> QED
  BY <1>1 DEF BioReadToC, BioReadFromC, CanonicalCommand

LEMMA BioMatchRoundTrip ==
  ASSUME NEW c \in BioMatchCommand, NEW raw \in BioMatchToC(c)
  PROVE  BioMatchFromC(raw) = {CanonicalCommand("BioMatch", c)}
<1>1. /\ OpenFromC(BioTypeCode, OpenToC(BioTypeCode, c.kind)) = Named(BioTypeCode, c.kind)
      /\ OpenFromC(BioFormatCode, OpenToC(BioFormatCode, c.format)) = Named(BioFormatCode, c.format)
  BY Tables, OpenRoundTrip DEF BioMatchCommand
<1>2. \A data \in ToBuffer(c.template, 128, U16) : FromBuffer(data) = {c.template}
  BY BufferRoundTrip DEF BioMatchCommand, U16
<1> QED
  BY <1>1, <1>2 DEF BioMatchToC, BioMatchFromC, CanonicalCommand

LEMMA PayloadRoundTrip ==
  ASSUME NEW data \in Bytes, NEW buffer \in ToPayload(data)
  PROVE  FromBuffer(buffer) = {data}
<1>1. buffer \in ToBuffer(data, 256, U16)
  BY DEF ToPayload
<1> QED
  BY <1>1, BufferRoundTrip DEF U16

LEMMA ChallengeRoundTrip ==
  ASSUME NEW c \in Challenge, NEW raw \in ChallengeToC(c)
  PROVE  ChallengeFromC(raw) = {c}
<1>1. \A data \in ToPayload(c.data) : FromBuffer(data) = {c.data}
  BY PayloadRoundTrip DEF Challenge
<1> QED
  BY <1>1 DEF ChallengeToC, ChallengeFromC, Challenge

LEMMA ApduRoundTrip ==
  ASSUME NEW apdu \in Bytes, NEW buffer \in ToApdu(apdu)
  PROVE  FromBuffer(buffer) = {apdu}
  BY BufferRoundTrip DEF ToApdu, U16

LEMMA PinLengthRoundTrip ==
  ASSUME NEW fields \in SUBSET PinLengthField, \A f, g \in fields : f = g,
         NEW raw \in PinLengthToC(fields)
  PROVE  PinLengthFromC(raw) = fields
<1>1. CASE fields = {}
  BY <1>1 DEF PinLengthToC, PinLengthFromC
<1>2. CASE fields # {}
  <2>1. raw \in fields /\ raw.size_bits # 0
    BY <1>2 DEF PinLengthToC
  <2> QED
    BY <2>1 DEF PinLengthFromC
<1> QED
  BY <1>1, <1>2

LEMMA PinEntryRoundTrip ==
  ASSUME NEW e \in PinEntry, NEW raw \in PinEntryToC(e)
  PROVE  PinEntryFromC(raw) = {e}
<1>1. PICK first \in ToCount(e.first_digit_timeout, Second, U8), next \in ToCount(e.digit_timeout, Second, U8),
           field \in PinLengthToC(e.length_field), apdu \in ToApdu(e.apdu) :
        raw = [timeout_initial |-> first, timeout_digit |-> next, format |-> PinFormatCode[e.format],
               rest |-> e.rest, pin_length_field |-> field, apdu |-> apdu]
  BY DEF PinEntryToC
<1>2. /\ e.first_digit_timeout \in Nat /\ e.digit_timeout \in Nat /\ e.format \in DOMAIN PinFormatCode
      /\ e.length_field \in SUBSET PinLengthField /\ (\A f, g \in e.length_field : f = g)
      /\ e.apdu \in Bytes
  BY DEF PinEntry
<1>3. /\ FromCount(first, Second) = e.first_digit_timeout
      /\ FromCount(next, Second) = e.digit_timeout
  BY <1>2, CountRoundTrip
<1>4. PinLengthFromC(field) = e.length_field /\ FromBuffer(apdu) = {e.apdu}
  BY <1>2, PinLengthRoundTrip, ApduRoundTrip
<1>5. Decode(PinFormatCode, raw.format) = {e.format}
  BY <1>1, <1>2, Tables, DecodeRoundTrip
<1>6. e = [first_digit_timeout |-> e.first_digit_timeout, digit_timeout |-> e.digit_timeout,
           format |-> e.format, rest |-> e.rest, length_field |-> e.length_field, apdu |-> e.apdu]
  BY DEF PinEntry
<1> QED
  BY <1>1, <1>3, <1>4, <1>5, <1>6 DEF PinEntryFromC

LEMMA TrsRoundTrip ==
  ASSUME NEW c \in TrsCommand, NEW raw \in TrsToC(c)
  PROVE  TrsFromC(raw) = {c}
<1>1. c.trs \in DOMAIN TrsCommandCode
  BY DEF TrsCommand, TrsCommandCode
<1>2. CASE c.trs = "EnterPin"
  <2>1. PICK e \in PinEntryToC(c.entry) : raw = [command |-> TrsCommandCode[c.trs], pin_entry |-> e]
    BY <1>2 DEF TrsToC
  <2>2. c.entry \in PinEntry /\ c = [trs |-> "EnterPin", entry |-> c.entry]
    BY <1>2 DEF TrsCommand
  <2>3. PinEntryFromC(raw.pin_entry) = {c.entry}
    BY <2>1, <2>2, PinEntryRoundTrip
  <2>4. Decode(TrsCommandCode, raw.command) = {"EnterPin"}
    BY <1>1, <1>2, <2>1, Tables, DecodeRoundTrip
  <2> QED
    BY <2>2, <2>3, <2>4 DEF TrsFromC
<1>3. CASE c.trs # "EnterPin"
  <2>1. PICK apdu \in ToApdu(c.apdu) : raw = [command |-> TrsCommandCode[c.trs], apdu |-> apdu]
    BY <1>3 DEF TrsToC
  <2>2. Decode(TrsCommandCode, raw.command) = {c.trs}
    BY <1>1, <2>1, Tables, DecodeRoundTrip
  <2>3. CASE c.trs = "Apdu"
    <3>1. c.apdu \in Bytes /\ c = [trs |-> "Apdu", apdu |-> c.apdu]
      BY <2>3 DEF TrsCommand
    <3>2. FromBuffer(raw.apdu) = {c.apdu}
      BY <2>1, <3>1, ApduRoundTrip
    <3> QED
      BY <2>2, <2>3, <3>1, <3>2 DEF TrsFromC
  <2>4. CASE c.trs # "Apdu"
    <3>1. c = [trs |-> c.trs, apdu |-> NoApdu]
      BY <1>3, <2>4 DEF TrsCommand
    <3> QED
      BY <1>3, <2>2, <2>4, <3>1 DEF TrsFromC
  <2> QED
    BY <2>3, <2>4
<1> QED
  BY <1>2, <1>3

LEMMA SameBodyRoundTrip ==
  ASSUME NEW kind \in {"ComSet", "ComSetDone", "PivData", "TimeDate"}, NEW c, NEW raw \in BodyToC(kind, c)
  PROVE  BodyFromC(kind, raw) = {c}
  BY DEF BodyToC, BodyFromC, SameFields, TimeDateToC, TimeDateFromC

(* Every kind of command.                                                  *)
LEMMA BodyRoundTrip ==
  ASSUME NEW kind \in DOMAIN CommandId, NEW c \in Body(kind), NEW raw \in BodyToC(kind, c)
  PROVE  BodyFromC(kind, raw) = {CanonicalCommand(kind, c)}
<1>1. CASE kind = "Led"
  BY <1>1, LedRoundTrip DEF Body, BodyToC, BodyFromC
<1>2. CASE kind = "BioRead"
  BY <1>2, BioReadRoundTrip DEF Body, BodyToC, BodyFromC
<1>3. CASE kind = "BioMatch"
  BY <1>3, BioMatchRoundTrip DEF Body, BodyToC, BodyFromC
<1>4. CASE kind \notin {"Led", "BioRead", "BioMatch"}
  <2>1. CanonicalCommand(kind, c) = c
    BY <1>4 DEF CanonicalCommand
  <2>2. CASE kind = "Buzzer"
    BY <2>1, <2>2, BuzzerRoundTrip DEF Body, BodyToC, BodyFromC
  <2>3. CASE kind = "Text"
    BY <2>1, <2>3, TextRoundTrip DEF Body, BodyToC, BodyFromC
  <2>4. CASE kind = "Output"
    BY <2>1, <2>4, OutputRoundTrip DEF Body, BodyToC, BodyFromC
  <2>5. CASE kind \in {"ComSet", "ComSetDone", "PivData", "TimeDate"}
    BY <2>1, <2>5, SameBodyRoundTrip
  <2>6. CASE kind = "KeySet"
    BY <2>1, <2>6, KeySetRoundTrip DEF Body, BodyToC, BodyFromC
  <2>7. CASE kind = "Mfg"
    BY <2>1, <2>7, MfgRoundTrip DEF Body, BodyToC, BodyFromC
  <2>8. CASE kind = "FileTx"
    BY <2>1, <2>8, FileTxRoundTrip DEF Body, BodyToC, BodyFromC
  <2>9. CASE kind = "Status"
    BY <2>1, <2>9, StatusCommandRoundTrip DEF Body, BodyToC, BodyFromC
  <2>10. CASE kind \in {"GenAuth", "CrAuth"}
    BY <2>1, <2>10, ChallengeRoundTrip DEF Body, BodyToC, BodyFromC
  <2>11. CASE kind = "Trs"
    BY <2>1, <2>11, TrsRoundTrip DEF Body, BodyToC, BodyFromC
  <2> QED
    BY <1>4, <2>2, <2>3, <2>4, <2>5, <2>6, <2>7, <2>8, <2>9, <2>10, <2>11 DEF CommandId
<1> QED
  BY <1>1, <1>2, <1>3, <1>4

LEMMA CommandRoundTrip ==
  ASSUME NEW c, IsValue("command", c), NEW raw \in CommandToC(c)
  PROVE  CommandFromC(raw) = {Canonical("command", c)} /\ raw.id # OSDP_CMD_NOTIFICATION
<1>1. c.kind \in DOMAIN CommandId /\ c.body \in Body(c.kind)
  BY DEF IsValue
<1>2. PICK body \in BodyToC(c.kind, c.body) :
        raw = [id |-> CommandId[c.kind], flags |-> 0, body |-> body]
  BY DEF CommandToC
<1>3. Decode(CommandId, raw.id) = {c.kind}
  BY <1>1, <1>2, Tables, DecodeRoundTrip
<1>4. BodyFromC(c.kind, raw.body) = {CanonicalCommand(c.kind, c.body)}
  BY <1>1, <1>2, BodyRoundTrip
<1>5. CommandFromC(raw) = {Canonical("command", c)}
  BY <1>3, <1>4 DEF CommandFromC, Canonical
<1>6. \A kind \in DOMAIN CommandId : CommandId[kind] # OSDP_CMD_NOTIFICATION
  BY DEF CommandId, OSDP_CMD_NOTIFICATION
<1> QED
  BY <1>1, <1>2, <1>5, <1>6
-----------------------------------------------------------------------------
(* The bytes of a card's bits are a prefix of what was copied.             *)
LEMMA PrefixIsRead ==
  ASSUME NEW S, NEW data \in Seq(S), NEW zero \in S, NEW max \in Nat, Len(data) <= max,
         NEW n \in Nat, n <= Len(data),
         NEW array, array = [i \in 1..max |-> IF i <= Len(data) THEN data[i] ELSE zero]
  PROVE  Len(array) = max /\ SubSeq(array, 1, n) = SubSeq(data, 1, n)
<1>1. Len(data) \in Nat /\ \A i \in 1..Len(data) : data[i] \in S
  OBVIOUS
<1>2. Len(array) = max
  BY <1>1
<1>3. \A i \in 1..n : array[i] = data[i] /\ data[i] \in S
  BY <1>1
<1>4. /\ SubSeq(array, 1, n) \in Seq(S) /\ Len(SubSeq(array, 1, n)) = n
      /\ \A i \in 1..n : SubSeq(array, 1, n)[i] = array[i]
  BY <1>3, SubSeqProperties
<1>5. /\ SubSeq(data, 1, n) \in Seq(S) /\ Len(SubSeq(data, 1, n)) = n
      /\ \A i \in 1..n : SubSeq(data, 1, n)[i] = data[i]
  BY <1>3, SubSeqProperties
<1> QED
  BY <1>2, <1>3, <1>4, <1>5, SeqEqual

LEMMA BitsRoundTrip ==
  ASSUME NEW data \in Bytes, NEW bits \in Nat, bits <= 8 * Len(data),
         NEW max \in Nat, NEW width \in Nat, NEW buffer \in ToBuffer(data, max, width)
  PROVE  FromBuffer([length |-> BytesFor(bits), bytes |-> buffer.bytes]) =
           {SubSeq(data, 1, BytesFor(bits))}
<1>1. /\ data \in Seq(Byte) /\ 0 \in Byte /\ Len(data) \in Nat /\ ~(Len(data) > max)
      /\ buffer = [length |-> Len(data) % (width + 1),
                   bytes  |-> [i \in 1..max |-> IF i <= Len(data) THEN data[i] ELSE 0]]
  BY BufferOf
<1> DEFINE n == BytesFor(bits)
           array == buffer.bytes
<1>2. n \in Nat /\ n <= Len(data) /\ Len(data) <= max
  BY <1>1 DEF BytesFor
<1>3. array = [i \in 1..max |-> IF i <= Len(data) THEN data[i] ELSE 0]
  BY <1>1
<1> HIDE DEF n, array
<1>4. Len(array) = max /\ SubSeq(array, 1, n) = SubSeq(data, 1, n)
  BY <1>1, <1>2, <1>3, PrefixIsRead
<1>5. n \in 0..Len(array)
  BY <1>1, <1>2, <1>4
<1>6. FromBuffer([length |-> n, bytes |-> array]) = {SubSeq(data, 1, n)}
  BY <1>4, <1>5 DEF FromBuffer
<1> QED
  BY <1>6 DEF n, array

LEMMA CardReadRoundTrip ==
  ASSUME NEW e \in CardRead, NEW raw \in CardReadToC(e),
         NEW carried, carried = [raw EXCEPT !.direction = 0]
  PROVE  CardReadFromC(carried) = {CanonicalEvent("CardRead", e)}
<1>1. PICK data \in ToBuffer(e.data, 64, U16) :
        /\ e.nr_bits <= 8 * Len(e.data)
        /\ raw = [reader_no |-> e.reader_no, format |-> CardFormatCode[e.format],
                  direction |-> FlagToC(e.direction),
                  length |-> e.nr_bits % (U16 + 1), bytes |-> data.bytes]
  BY DEF CardReadToC
<1>2. e.data \in Bytes /\ e.nr_bits \in Nat /\ e.format \in DOMAIN CardFormatCode
  BY DEF CardRead
<1>3. e.nr_bits % (U16 + 1) = e.nr_bits
  <2>1. Len(e.data) \in Nat /\ ~(Len(e.data) > 64)
    BY <1>2, BufferOf
  <2>2. e.nr_bits <= U16 /\ U16 \in Nat
    BY <1>1, <1>2, <2>1 DEF U16
  <2> QED
    BY <1>2, <2>2, LengthFits
<1>4. carried = [reader_no |-> e.reader_no, format |-> CardFormatCode[e.format], direction |-> 0,
                 length |-> e.nr_bits, bytes |-> data.bytes]
  BY <1>1, <1>3
<1>5. FromBuffer([length |-> BytesFor(e.nr_bits), bytes |-> data.bytes]) =
        {SubSeq(e.data, 1, BytesFor(e.nr_bits))}
  <2>1. U16 \in Nat
    BY DEF U16
  <2> QED
    BY <1>1, <1>2, <2>1, BitsRoundTrip
<1>6. Decode(CardFormatCode, carried.format) = {e.format}
  BY <1>2, <1>4, Tables, DecodeRoundTrip
<1>7. CardReadFromC(carried) =
        {[reader_no |-> e.reader_no, format |-> e.format, direction |-> DirectionFromC(0),
          nr_bits |-> e.nr_bits, data |-> SubSeq(e.data, 1, BytesFor(e.nr_bits))]}
  BY <1>4, <1>5, <1>6 DEF CardReadFromC
<1> QED
  BY <1>7 DEF CanonicalEvent

LEMMA KeyPressRoundTrip ==
  ASSUME NEW e \in KeyPress, NEW raw \in KeyPressToC(e)
  PROVE  KeyPressFromC(raw) = {e}
<1>1. \A data \in ToBuffer(e.data, 64, U16) : FromBuffer(data) = {e.data}
  BY BufferRoundTrip DEF KeyPress, U16
<1> QED
  BY <1>1 DEF KeyPressToC, KeyPressFromC, KeyPress

LEMMA MfgReplyRoundTrip ==
  ASSUME NEW e \in MfgReply, NEW raw \in MfgReplyToC(e)
  PROVE  MfgReplyFromC(raw) = {e}
<1>1. \A data \in ToBuffer(e.data, 128, U8) : FromBuffer(data) = {e.data}
  BY BufferRoundTrip DEF MfgReply, U8
<1>2. ToLeBytes(AsLe(e.vendor_code)) = e.vendor_code
  BY LeRoundTrip DEF MfgReply
<1> QED
  BY <1>1, <1>2 DEF MfgReplyToC, MfgReplyFromC, MfgReply

LEMMA MfgStatusRoundTrip ==
  ASSUME NEW e \in MfgStatus, NEW raw \in MfgStatusToC(e)
  PROVE  MfgStatusFromC(raw) = {e}
<1>1. \A data \in ToBuffer(e.data, 128, U8) : FromBuffer(data) = {e.data}
  BY BufferRoundTrip DEF MfgStatus, U8
<1> QED
  BY <1>1 DEF MfgStatusToC, MfgStatusFromC, MfgStatus

LEMMA PivReplyRoundTrip ==
  ASSUME NEW e \in PivReply, NEW raw \in PivReplyToC(e)
  PROVE  PivReplyFromC(raw) = {e}
<1>1. \A data \in ToPayload(e.data) : FromBuffer(data) = {e.data}
  BY PayloadRoundTrip DEF PivReply
<1> QED
  BY <1>1 DEF PivReplyToC, PivReplyFromC, PivReply

LEMMA BioReadReplyRoundTrip ==
  ASSUME NEW e \in BioReadReply, NEW raw \in BioReadReplyToC(e)
  PROVE  BioReadReplyFromC(raw) = {CanonicalEvent("BioRead", e)}
<1>1. /\ OpenFromC(BioTypeCode, OpenToC(BioTypeCode, e.kind)) = Named(BioTypeCode, e.kind)
      /\ OpenFromC(BioStatusCode, OpenToC(BioStatusCode, e.status)) = Named(BioStatusCode, e.status)
  BY Tables, OpenRoundTrip DEF BioReadReply
<1>2. \A data \in ToBuffer(e.template, 256, U16) : FromBuffer(data) = {e.template}
  BY BufferRoundTrip DEF BioReadReply, U16
<1> QED
  BY <1>1, <1>2 DEF BioReadReplyToC, BioReadReplyFromC, CanonicalEvent

LEMMA BioMatchReplyRoundTrip ==
  ASSUME NEW e \in BioMatchReply, NEW raw \in BioMatchReplyToC(e)
  PROVE  BioMatchReplyFromC(raw) = {CanonicalEvent("BioMatch", e)}
<1>1. OpenFromC(BioStatusCode, OpenToC(BioStatusCode, e.status)) = Named(BioStatusCode, e.status)
  BY Tables, OpenRoundTrip DEF BioMatchReply
<1> QED
  BY <1>1 DEF BioMatchReplyToC, BioMatchReplyFromC, CanonicalEvent

LEMMA FlagRoundTrip ==
  ASSUME NEW flag \in Flag
  PROVE  FlagFromC(FlagToC(flag)) = flag /\ FlagToC(flag) \in Byte
<1>1. FlagToC(TRUE) = 1 /\ FlagToC(FALSE) = 0
  BY DEF FlagToC
<1>2. FlagFromC(1) = TRUE /\ FlagFromC(0) = FALSE
  BY DEF FlagFromC
<1>3. 0 \in Byte /\ 1 \in Byte
  BY DEF Byte, U8
<1>4. flag = TRUE \/ flag = FALSE
  BY DEF Flag
<1>5. CASE flag = TRUE
  BY <1>1, <1>2, <1>3, <1>5, Zenon
<1>6. CASE flag = FALSE
  BY <1>1, <1>2, <1>3, <1>6, Zenon
<1> QED
  BY <1>4, <1>5, <1>6, Zenon

LEMMA ReadersRoundTrip ==
  ASSUME NEW readers \in Seq(Open(ReaderStatusCode)),
         NEW entries, entries = [i \in DOMAIN readers |-> OpenToC(ReaderStatusCode, readers[i])]
  PROVE  /\ entries \in Bytes
         /\ [i \in DOMAIN entries |-> OpenFromC(ReaderStatusCode, entries[i])] =
            [i \in DOMAIN readers |-> Named(ReaderStatusCode, readers[i])]
<1>1. \A i \in DOMAIN readers : readers[i] \in Open(ReaderStatusCode)
  OBVIOUS
<1>2. ASSUME NEW value \in Open(ReaderStatusCode)
      PROVE  OpenToC(ReaderStatusCode, value) \in Byte
  BY DEF Open, OpenToC, ReaderStatusCode, Byte, U8
<1>3. DOMAIN entries = DOMAIN readers /\ DOMAIN readers = 1..Len(readers) /\ Len(readers) \in Nat
  OBVIOUS
<1>4. entries \in [1..Len(readers) -> Byte]
  BY <1>1, <1>2, <1>3
<1>5. entries \in Bytes
  BY <1>3, <1>4 DEF Bytes
<1>6. \A i \in DOMAIN readers :
        OpenFromC(ReaderStatusCode, entries[i]) = Named(ReaderStatusCode, readers[i])
  BY <1>1, Tables, OpenRoundTrip
<1> QED
  BY <1>3, <1>5, <1>6

LEMMA StatusRoundTrip ==
  ASSUME NEW e \in Status, NEW raw \in StatusToC(e)
  PROVE  StatusFromC(raw) = {CanonicalEvent("Status", e)}
<1>1. PICK data \in ToBuffer(StatusEntries(e), 64, U16) :
        raw = [type_ |-> StatusCode[e.status], report |-> data]
  BY DEF StatusToC
<1>2. e.status \in DOMAIN StatusCode
  BY DEF Status, StatusCode
<1>3. Decode(StatusCode, raw.type_) = {e.status}
  BY <1>1, <1>2, Tables, DecodeRoundTrip
<1>4. ASSUME StatusEntries(e) \in Bytes
      PROVE  StatusFromC(raw) = StatusFromEntries(e.status, StatusEntries(e))
  <2>1. FromBuffer(raw.report) = {StatusEntries(e)}
    BY <1>1, <1>4, BufferRoundTrip DEF U16
  <2> QED
    BY <1>3, <2>1 DEF StatusFromC
<1>5. CASE e.status = "Local"
  <2>1. e.tamper \in Flag /\ e.power \in Flag
    BY <1>5 DEF Status
  <2>2. StatusEntries(e) = <<FlagToC(e.tamper), FlagToC(e.power)>>
    BY <1>5 DEF StatusEntries
  <2>3. StatusEntries(e) \in Bytes
    BY <2>1, <2>2, FlagRoundTrip DEF Bytes
  <2>4. StatusFromC(raw) = {[status |-> "Local", tamper |-> FlagFromC(FlagToC(e.tamper)),
                             power |-> FlagFromC(FlagToC(e.power))]}
    BY <1>4, <1>5, <2>2, <2>3 DEF StatusFromEntries
  <2>5. StatusFromC(raw) = {[status |-> "Local", tamper |-> e.tamper, power |-> e.power]}
    BY <2>1, <2>4, FlagRoundTrip, Zenon
  <2>6. e = [status |-> "Local", tamper |-> e.tamper, power |-> e.power]
    BY <1>5 DEF Status
  <2>7. CanonicalEvent("Status", e) = e
    BY <1>5 DEF CanonicalEvent
  <2> QED
    BY <2>5, <2>6, <2>7, Zenon
<1>6. CASE e.status = "Reader"
  <2>1. e.readers \in Seq(Open(ReaderStatusCode))
    BY <1>6 DEF Status
  <2>2. StatusEntries(e) = [i \in DOMAIN e.readers |-> OpenToC(ReaderStatusCode, e.readers[i])]
    BY <1>6 DEF StatusEntries
  <2>3. /\ StatusEntries(e) \in Bytes
        /\ [i \in DOMAIN StatusEntries(e) |-> OpenFromC(ReaderStatusCode, StatusEntries(e)[i])] =
           [i \in DOMAIN e.readers |-> Named(ReaderStatusCode, e.readers[i])]
    BY <2>1, <2>2, ReadersRoundTrip
  <2> QED
    BY <1>4, <1>6, <2>3 DEF StatusFromEntries, CanonicalEvent
<1>7. CASE e.status \in {"Input", "Output"}
  <2>1. e.entries \in Bytes /\ e = [status |-> e.status, entries |-> e.entries]
    BY <1>7 DEF Status
  <2>2. StatusEntries(e) = e.entries
    BY <1>7 DEF StatusEntries
  <2>3. StatusFromC(raw) = {[status |-> e.status, entries |-> e.entries]}
    BY <1>4, <1>7, <2>1, <2>2 DEF StatusFromEntries
  <2>4. CanonicalEvent("Status", e) = e
    BY <1>7 DEF CanonicalEvent
  <2> QED
    BY <2>1, <2>3, <2>4
<1> QED
  BY <1>2, <1>5, <1>6, <1>7 DEF StatusCode

LEMMA TrsReplyRoundTrip ==
  ASSUME NEW e \in TrsReply, NEW raw \in TrsReplyToC(e)
  PROVE  TrsReplyFromC(raw) = {e}
<1>1. PICK payload \in TrsPayloadToC(e) : raw = [reply |-> TrsReplyCode[e.trs], payload |-> payload]
  BY DEF TrsReplyToC
<1>2. e.trs \in DOMAIN TrsReplyCode
  BY DEF TrsReply, TrsReplyCode
<1>3. Decode(TrsReplyCode, raw.reply) = {e.trs}
  BY <1>1, <1>2, Tables, DecodeRoundTrip
<1>4. TrsReplyFromC(raw) = TrsPayloadFromC(e.trs, payload)
  BY <1>1, <1>3 DEF TrsReplyFromC
<1>5. CASE e.trs = "CardInfo"
  <2>1. /\ e.protocol \in DOMAIN CardProtocolCode /\ e.csn \in Bytes /\ e.protocol_data \in Bytes
        /\ e = [trs |-> "CardInfo", reader |-> e.reader, protocol |-> e.protocol,
                csn |-> e.csn, protocol_data |-> e.protocol_data]
    BY <1>5 DEF TrsReply
  <2>2. PICK csn \in ToBuffer(e.csn, 32, U8), data \in ToBuffer(e.protocol_data, 64, U8) :
          payload = [reader |-> e.reader, protocol |-> CardProtocolCode[e.protocol],
                     csn |-> csn, protocol_data |-> data]
    BY <1>1, <1>5 DEF TrsPayloadToC
  <2>3. FromBuffer(csn) = {e.csn} /\ FromBuffer(data) = {e.protocol_data}
    BY <2>1, BufferRoundTrip DEF U8
  <2>4. Decode(CardProtocolCode, payload.protocol) = {e.protocol}
    BY <2>1, <2>2, Tables, DecodeRoundTrip
  <2> QED
    BY <1>4, <1>5, <2>1, <2>2, <2>3, <2>4 DEF TrsPayloadFromC
<1>6. CASE e.trs = "CardPresent"
  <2>1. /\ e.card \in DOMAIN CardStatusCode
        /\ e = [trs |-> "CardPresent", reader |-> e.reader, card |-> e.card]
    BY <1>6 DEF TrsReply
  <2>2. payload = [reader |-> e.reader, status |-> CardStatusCode[e.card]]
    BY <1>1, <1>6 DEF TrsPayloadToC
  <2>3. Decode(CardStatusCode, payload.status) = {e.card}
    BY <2>1, <2>2, Tables, DecodeRoundTrip
  <2> QED
    BY <1>4, <1>6, <2>1, <2>2, <2>3 DEF TrsPayloadFromC
<1>7. CASE e.trs = "CardData"
  <2>1. /\ e.apdu \in Bytes
        /\ e = [trs |-> "CardData", reader |-> e.reader, status |-> e.status, apdu |-> e.apdu]
    BY <1>7 DEF TrsReply
  <2>2. PICK apdu \in ToApdu(e.apdu) : payload = [reader |-> e.reader, status |-> e.status, apdu |-> apdu]
    BY <1>1, <1>7 DEF TrsPayloadToC
  <2>3. FromBuffer(apdu) = {e.apdu}
    BY <2>1, ApduRoundTrip
  <2> QED
    BY <1>4, <1>7, <2>1, <2>2, <2>3 DEF TrsPayloadFromC
<1>8. CASE e.trs = "PinComplete"
  <2>1. payload = [reader |-> e.reader, status |-> e.status, tries |-> e.tries]
    BY <1>1, <1>8 DEF TrsPayloadToC
  <2>2. e = [trs |-> "PinComplete", reader |-> e.reader, status |-> e.status, tries |-> e.tries]
    BY <1>8 DEF TrsReply
  <2> QED
    BY <1>4, <1>8, <2>1, <2>2 DEF TrsPayloadFromC
<1>9. CASE e.trs = "Error"
  <2>1. payload = [code |-> e.code]
    BY <1>1, <1>9 DEF TrsPayloadToC
  <2>2. e = [trs |-> "Error", code |-> e.code]
    BY <1>9 DEF TrsReply
  <2> QED
    BY <1>4, <1>9, <2>1, <2>2 DEF TrsPayloadFromC
<1> QED
  BY <1>2, <1>5, <1>6, <1>7, <1>8, <1>9 DEF TrsReplyCode

(* Every kind of event but a card read, whose direction is lost.           *)
LEMMA EventBodyRoundTrip ==
  ASSUME NEW kind \in DOMAIN EventType \ {"CardRead"}, NEW e \in EventBody(kind),
         NEW raw \in EventBodyToC(kind, e)
  PROVE  EventBodyFromC(kind, raw) = {CanonicalEvent(kind, e)}
<1>1. CASE kind = "BioRead"
  BY <1>1, BioReadReplyRoundTrip DEF EventBody, EventBodyToC, EventBodyFromC
<1>2. CASE kind = "BioMatch"
  BY <1>2, BioMatchReplyRoundTrip DEF EventBody, EventBodyToC, EventBodyFromC
<1>3. CASE kind = "Status"
  BY <1>3, StatusRoundTrip DEF EventBody, EventBodyToC, EventBodyFromC
<1>4. CASE kind \notin {"BioRead", "BioMatch", "Status"}
  <2>1. CanonicalEvent(kind, e) = e
    BY <1>4 DEF CanonicalEvent
  <2>2. CASE kind = "KeyPress"
    BY <2>1, <2>2, KeyPressRoundTrip DEF EventBody, EventBodyToC, EventBodyFromC
  <2>3. CASE kind = "MfgReply"
    BY <2>1, <2>3, MfgReplyRoundTrip DEF EventBody, EventBodyToC, EventBodyFromC
  <2>4. CASE kind \in {"MfgStatus", "MfgError"}
    BY <2>1, <2>4, MfgStatusRoundTrip DEF EventBody, EventBodyToC, EventBodyFromC
  <2>5. CASE kind \in {"PivData", "GenAuth", "CrAuth"}
    BY <2>1, <2>5, PivReplyRoundTrip DEF EventBody, EventBodyToC, EventBodyFromC
  <2>6. CASE kind = "Trs"
    BY <2>1, <2>6, TrsReplyRoundTrip DEF EventBody, EventBodyToC, EventBodyFromC
  <2> QED
    BY <1>4, <2>2, <2>3, <2>4, <2>5, <2>6 DEF EventType
<1> QED
  BY <1>1, <1>2, <1>3, <1>4

LEMMA EventRoundTrip ==
  ASSUME NEW e, IsValue("event", e), NEW raw \in EventToC(e)
  PROVE  /\ EventFromC(Carried(raw)) = {Canonical("event", e)}
         /\ Carried(raw).type_ # OSDP_EVENT_NOTIFICATION
<1>1. e.kind \in DOMAIN EventType /\ e.body \in EventBody(e.kind)
  BY DEF IsValue
<1>2. PICK body \in EventBodyToC(e.kind, e.body) :
        raw = [type_ |-> EventType[e.kind], flags |-> 0, body |-> body]
  BY DEF EventToC
<1>3. \A kind \in DOMAIN EventType : EventType[kind] # OSDP_EVENT_NOTIFICATION
  BY DEF EventType, OSDP_EVENT_NOTIFICATION
<1>4. Carried(raw).type_ = EventType[e.kind]
  BY <1>2 DEF Carried
<1>5. Decode(EventType, Carried(raw).type_) = {e.kind}
  BY <1>1, <1>4, Tables, DecodeRoundTrip
<1>6. EventBodyFromC(e.kind, Carried(raw).body) = {CanonicalEvent(e.kind, e.body)}
  <2>1. CASE e.kind = "CardRead"
    <3>1. Carried(raw).body = [body EXCEPT !.direction = 0]
      BY <1>2, <2>1 DEF Carried
    <3>2. e.body \in CardRead /\ body \in CardReadToC(e.body)
      BY <1>1, <1>2, <2>1 DEF EventBody, EventBodyToC
    <3>3. CardReadFromC(Carried(raw).body) = {CanonicalEvent("CardRead", e.body)}
      BY <3>1, <3>2, CardReadRoundTrip
    <3> QED
      BY <2>1, <3>3 DEF EventBodyFromC
  <2>2. CASE e.kind # "CardRead"
    <3>1. "CardRead" \in DOMAIN EventType
      BY DEF EventType
    <3>2. Carried(raw) = raw
      BY <1>1, <1>2, <2>2, <3>1, Tables DEF Carried, Injective
    <3> QED
      BY <1>1, <1>2, <2>2, <3>2, EventBodyRoundTrip
  <2> QED
    BY <2>1, <2>2
<1> QED
  BY <1>1, <1>3, <1>4, <1>5, <1>6 DEF EventFromC, Canonical
-----------------------------------------------------------------------------
(* To give a code its name keeps a value a value.                          *)
LEMMA NamedIsOpen ==
  ASSUME NEW codes, NEW value \in Open(codes)
  PROVE  Named(codes, value) \in Open(codes)
  BY DEF Named, Open

LEMMA ParamsStay ==
  ASSUME NEW params \in LedParams
  PROVE  NamedParams(params) \in LedParams
  BY NamedIsOpen DEF NamedParams, LedParams

LEMMA LedStays ==
  ASSUME NEW c \in LedCommand
  PROVE  CanonicalCommand("Led", c) \in LedCommand
<1>1. NamedState(c.temporary) \in LedTemporary
  <2>1. c.temporary \in LedTemporary
    BY DEF LedCommand
  <2>2. NamedState(c.temporary) = [action |-> c.temporary.action, timer |-> c.temporary.timer,
                                   params |-> NamedParams(c.temporary.params)]
    BY <2>1 DEF LedTemporary, NamedState
  <2>3. CASE c.temporary.action = "Set"
    <3>1. c.temporary.params \in LedParams /\ c.temporary.timer \in Nat
      BY <2>1, <2>3 DEF LedTemporary
    <3> QED
      BY <2>2, <2>3, <3>1, ParamsStay DEF LedTemporary
  <2>4. CASE c.temporary.action # "Set"
    <3>1. /\ c.temporary.action \in {"Keep", "Cancel"} /\ c.temporary.params = NoParams
          /\ c.temporary.timer = 0
      BY <2>1, <2>4 DEF LedTemporary
    <3> QED
      BY <2>2, <3>1, NoParamsIsNamed DEF LedTemporary
  <2> QED
    BY <2>3, <2>4
<1>2. NamedState(c.permanent) \in LedPermanent
  <2>1. c.permanent \in LedPermanent
    BY DEF LedCommand
  <2>2. NamedState(c.permanent) = [action |-> c.permanent.action,
                                   params |-> NamedParams(c.permanent.params)]
    BY <2>1 DEF LedPermanent, NamedState
  <2>3. CASE c.permanent.action = "Set"
    <3>1. c.permanent.params \in LedParams
      BY <2>1, <2>3 DEF LedPermanent
    <3> QED
      BY <2>2, <2>3, <3>1, ParamsStay DEF LedPermanent
  <2>4. CASE c.permanent.action # "Set"
    <3>1. c.permanent.action = "Keep" /\ c.permanent.params = NoParams
      BY <2>1, <2>4 DEF LedPermanent
    <3> QED
      BY <2>2, <3>1, NoParamsIsNamed DEF LedPermanent
  <2> QED
    BY <2>3, <2>4
<1> QED
  BY <1>1, <1>2 DEF CanonicalCommand, LedCommand

LEMMA CommandStays ==
  ASSUME NEW c, IsValue("command", c)
  PROVE  IsValue("command", Canonical("command", c))
<1>1. c.kind \in DOMAIN CommandId /\ c.body \in Body(c.kind)
  BY DEF IsValue
<1>2. CanonicalCommand(c.kind, c.body) \in Body(c.kind)
  <2>1. CASE c.kind = "Led"
    BY <1>1, <2>1, LedStays DEF Body
  <2>2. CASE c.kind = "BioRead"
    <3>1. c.body \in BioReadCommand
      BY <1>1, <2>2 DEF Body
    <3>2. /\ Named(BioTypeCode, c.body.kind) \in Open(BioTypeCode)
          /\ Named(BioFormatCode, c.body.format) \in Open(BioFormatCode)
      BY <3>1, NamedIsOpen DEF BioReadCommand
    <3>3. CanonicalCommand("BioRead", c.body) \in BioReadCommand
      BY <3>1, <3>2 DEF CanonicalCommand, BioReadCommand
    <3> QED
      BY <2>2, <3>3 DEF Body
  <2>3. CASE c.kind = "BioMatch"
    <3>1. c.body \in BioMatchCommand
      BY <1>1, <2>3 DEF Body
    <3>2. /\ Named(BioTypeCode, c.body.kind) \in Open(BioTypeCode)
          /\ Named(BioFormatCode, c.body.format) \in Open(BioFormatCode)
      BY <3>1, NamedIsOpen DEF BioMatchCommand
    <3>3. CanonicalCommand("BioMatch", c.body) \in BioMatchCommand
      BY <3>1, <3>2 DEF CanonicalCommand, BioMatchCommand
    <3> QED
      BY <2>3, <3>3 DEF Body
  <2>4. CASE c.kind \notin {"Led", "BioRead", "BioMatch"}
    BY <1>1, <2>4 DEF CanonicalCommand
  <2> QED
    BY <2>1, <2>2, <2>3, <2>4
<1> QED
  BY <1>1, <1>2 DEF IsValue, Canonical

LEMMA CardStays ==
  ASSUME NEW e \in CardRead, NEW raw \in CardReadToC(e)
  PROVE  CanonicalEvent("CardRead", e) \in CardRead
<1> DEFINE n == BytesFor(e.nr_bits)
<1>1. e.data \in Bytes /\ e.nr_bits \in Nat /\ e.nr_bits <= 8 * Len(e.data) /\ Len(e.data) \in Nat
  BY DEF CardRead, CardReadToC, Bytes
<1>2. n \in Nat /\ n <= Len(e.data)
  BY <1>1 DEF BytesFor
<1>3. DirectionFromC(0) \in Flag
  BY DEF DirectionFromC, Flag
<1> HIDE DEF n
<1>4. \A i \in 1..n : e.data[i] \in Byte
  BY <1>1, <1>2 DEF Bytes
<1>5. SubSeq(e.data, 1, n) \in Bytes
  BY <1>2, <1>4, SubSeqProperties DEF Bytes
<1>6. e.reader_no \in Int /\ e.format \in DOMAIN CardFormatCode
  BY DEF CardRead
<1>7. CanonicalEvent("CardRead", e) =
        [reader_no |-> e.reader_no, format |-> e.format, direction |-> DirectionFromC(0),
         nr_bits |-> e.nr_bits, data |-> SubSeq(e.data, 1, n)]
  BY DEF CanonicalEvent, n
<1>8. ASSUME NEW record, NEW flag \in Flag, NEW cut \in Bytes,
             record = [reader_no |-> e.reader_no, format |-> e.format, direction |-> flag,
                       nr_bits |-> e.nr_bits, data |-> cut]
      PROVE  record \in CardRead
  BY <1>1, <1>6, <1>8 DEF CardRead
<1> QED
  BY <1>3, <1>5, <1>7, <1>8

LEMMA EventStays ==
  ASSUME NEW e, IsValue("event", e), NEW raw \in EventToC(e)
  PROVE  IsValue("event", Canonical("event", e))
<1>1. e.kind \in DOMAIN EventType /\ e.body \in EventBody(e.kind)
  BY DEF IsValue
<1>2. PICK body \in EventBodyToC(e.kind, e.body) : TRUE
  BY DEF EventToC
<1>3. CanonicalEvent(e.kind, e.body) \in EventBody(e.kind)
  <2>1. CASE e.kind = "CardRead"
    BY <1>1, <1>2, <2>1, CardStays DEF EventBody, EventBodyToC
  <2>2. CASE e.kind = "BioRead"
    <3>1. e.body \in BioReadReply
      BY <1>1, <2>2 DEF EventBody
    <3>2. /\ Named(BioTypeCode, e.body.kind) \in Open(BioTypeCode)
          /\ Named(BioStatusCode, e.body.status) \in Open(BioStatusCode)
      BY <3>1, NamedIsOpen DEF BioReadReply
    <3>3. CanonicalEvent("BioRead", e.body) \in BioReadReply
      BY <3>1, <3>2 DEF CanonicalEvent, BioReadReply
    <3> QED
      BY <2>2, <3>3 DEF EventBody
  <2>3. CASE e.kind = "BioMatch"
    <3>1. e.body \in BioMatchReply
      BY <1>1, <2>3 DEF EventBody
    <3>2. Named(BioStatusCode, e.body.status) \in Open(BioStatusCode)
      BY <3>1, NamedIsOpen DEF BioMatchReply
    <3>3. CanonicalEvent("BioMatch", e.body) \in BioMatchReply
      BY <3>1, <3>2 DEF CanonicalEvent, BioMatchReply
    <3> QED
      BY <2>3, <3>3 DEF EventBody
  <2>4. CASE e.kind = "Status"
    <3>1. e.body \in Status
      BY <1>1, <2>4 DEF EventBody
    <3>2. CASE e.body.status = "Reader"
      <4>1. e.body.readers \in Seq(Open(ReaderStatusCode))
        BY <3>1, <3>2 DEF Status
      <4>2. [i \in DOMAIN e.body.readers |-> Named(ReaderStatusCode, e.body.readers[i])]
              \in Seq(Open(ReaderStatusCode))
        BY <4>1, NamedIsOpen
      <4>3. CanonicalEvent("Status", e.body) =
              [status |-> "Reader",
               readers |-> [i \in DOMAIN e.body.readers |-> Named(ReaderStatusCode, e.body.readers[i])]]
        BY <3>2 DEF CanonicalEvent
      <4>4. CanonicalEvent("Status", e.body) \in Status
        BY <4>2, <4>3 DEF Status
      <4> QED
        BY <2>4, <4>4 DEF EventBody
    <3>3. CASE e.body.status # "Reader"
      BY <1>1, <2>4, <3>3 DEF CanonicalEvent
    <3> QED
      BY <3>2, <3>3
  <2>5. CASE e.kind \notin {"CardRead", "BioRead", "BioMatch", "Status"}
    BY <1>1, <2>5 DEF CanonicalEvent
  <2> QED
    BY <2>1, <2>2, <2>3, <2>4, <2>5
<1> QED
  BY <1>1, <1>3 DEF IsValue, Canonical
-----------------------------------------------------------------------------
(* What the structs of another implementation are read as: values of the   *)
(* crate's types, which it would send on.                                  *)

LEMMA CountAgain ==
  ASSUME NEW unit \in {Millisecond, Tenth, Second}, NEW max \in Nat, NEW count \in 0..max
  PROVE  /\ FromCount(count, unit) \in Nat
         /\ count \in ToCount(FromCount(count, unit), unit, max)
<1>1. count \in Nat /\ count <= max
  OBVIOUS
<1>2. CASE unit = Millisecond
  BY <1>1, <1>2 DEF FromCount, ToCount, Millisecond
<1>3. CASE unit = Tenth
  BY <1>1, <1>3 DEF FromCount, ToCount, Tenth
<1>4. CASE unit = Second
  BY <1>1, <1>4 DEF FromCount, ToCount, Second
<1> QED
  BY <1>2, <1>3, <1>4

LEMMA ZeroCount ==
  ASSUME NEW unit \in {Millisecond, Tenth, Second}, NEW max \in Nat
  PROVE  0 \in ToCount(0, unit, max)
<1>1. FromCount(0, unit) = 0
  BY DEF FromCount, Millisecond, Tenth, Second
<1> QED
  BY <1>1, CountAgain

LEMMA WidthsAreNumbers ==
  Byte \subseteq Int /\ Word \subseteq Int /\ Int32 \subseteq Int /\ U8 \in Nat /\ U16 \in Nat
BY DEF Byte, Word, Int32, U8, U16

LEMMA BufferAgain ==
  ASSUME NEW max \in Nat, NEW buffer, NEW data \in FromBuffer(buffer), NEW width,
         buffer \in Buffer(Byte, max) \/ buffer \in Buffer(Word, max) \/ buffer \in Buffer(Int32, max)
  PROVE  /\ data \in Bytes /\ Len(data) = buffer.length /\ Len(data) <= max
         /\ \E out : out \in ToBuffer(data, max, width)
<1>1. buffer.length \in Int /\ buffer.bytes \in [1..max -> Byte]
  BY WidthsAreNumbers DEF Buffer
<1> DEFINE n == buffer.length
           bytes == buffer.bytes
<1>2. bytes \in Seq(Byte) /\ Len(bytes) = max
  BY <1>1
<1>3. n \in Nat /\ n <= max /\ data = SubSeq(bytes, 1, n)
  BY <1>1, <1>2 DEF FromBuffer
<1> HIDE DEF n, bytes
<1>4. \A i \in 1..n : bytes[i] \in Byte
  BY <1>2, <1>3
<1>5. data \in Seq(Byte) /\ Len(data) = n
  BY <1>3, <1>4, SubSeqProperties
<1>6. ~(Len(data) > max)
  BY <1>3, <1>5
<1> QED
  BY <1>3, <1>5, <1>6 DEF Bytes, ToBuffer, n

LEMMA ByteLength ==
  ASSUME NEW max \in Nat, NEW buffer \in Buffer(Byte, max), NEW data \in FromBuffer(buffer), NEW width
  PROVE  /\ data \in Bytes /\ Len(data) = buffer.length /\ Len(data) <= max
         /\ \E out : out \in ToBuffer(data, max, width)
BY BufferAgain

LEMMA WordLength ==
  ASSUME NEW max \in Nat, NEW buffer \in Buffer(Word, max), NEW data \in FromBuffer(buffer), NEW width
  PROVE  /\ data \in Bytes /\ Len(data) = buffer.length /\ Len(data) <= max
         /\ \E out : out \in ToBuffer(data, max, width)
BY BufferAgain

LEMMA IntLength ==
  ASSUME NEW max \in Nat, NEW buffer \in Buffer(Int32, max), NEW data \in FromBuffer(buffer), NEW width
  PROVE  /\ data \in Bytes /\ Len(data) = buffer.length /\ Len(data) <= max
         /\ \E out : out \in ToBuffer(data, max, width)
BY BufferAgain

LEMMA EmptyFits ==
  ASSUME NEW max \in Nat, NEW width
  PROVE  \E out : out \in ToBuffer(<<>>, max, width)
<1>1. ~(Len(<<>>) > max)
  OBVIOUS
<1> QED
  BY <1>1 DEF ToBuffer

LEMMA OpenDecoded ==
  ASSUME NEW codes, NEW code \in Byte
  PROVE  OpenFromC(codes, code) \in Open(codes)
<1>1. CASE Decode(codes, code) = {}
  BY <1>1 DEF OpenFromC, Open, Byte
<1>2. CASE Decode(codes, code) # {}
  <2>1. \E name \in DOMAIN codes : codes[name] = code
    BY <1>2 DEF Decode
  <2>2. (CHOOSE name \in DOMAIN codes : codes[name] = code) \in DOMAIN codes
    BY <2>1
  <2> QED
    BY <1>2, <2>2 DEF OpenFromC, Open
<1> QED
  BY <1>1, <1>2

LEMMA VendorDecoded ==
  ASSUME NEW word \in Nat
  PROVE  ToLeBytes(word) \in Vendor
<1>1. word % 256 \in 0..255 /\ (word \div 256) % 256 \in 0..255 /\ (word \div 65536) % 256 \in 0..255
  OBVIOUS
<1> QED
  BY <1>1 DEF ToLeBytes, Vendor, Byte, U8

LEMMA DecodeIn == \A codes, code : Decode(codes, code) \subseteq DOMAIN codes
BY DEF Decode

LEMMA ParamsDecoded ==
  ASSUME NEW raw \in osdp_cmd_led_params, NEW code, NEW timer, NEW count \in ToCount(timer, Tenth, U16)
  PROVE  LedParamsFromC(raw) \in LedParams /\ LedParamsToC(LedParamsFromC(raw), code, timer) # {}
<1>1. /\ raw.on_count \in 0..U8 /\ raw.off_count \in 0..U8
      /\ raw.on_color \in Byte /\ raw.off_color \in Byte
  BY DEF osdp_cmd_led_params, Byte
<1> DEFINE params == LedParamsFromC(raw)
<1>2. /\ params.on_time = FromCount(raw.on_count, Tenth)
      /\ params.off_time = FromCount(raw.off_count, Tenth)
  BY DEF LedParamsFromC
<1>3. /\ FromCount(raw.on_count, Tenth) \in Nat /\ FromCount(raw.off_count, Tenth) \in Nat
      /\ raw.on_count \in ToCount(params.on_time, Tenth, U8)
      /\ raw.off_count \in ToCount(params.off_time, Tenth, U8)
  BY <1>1, <1>2, CountAgain, WidthsAreNumbers
<1>4. params \in LedParams
  <2>1. /\ OpenFromC(LedColorCode, raw.on_color) \in Open(LedColorCode)
        /\ OpenFromC(LedColorCode, raw.off_color) \in Open(LedColorCode)
    BY <1>1, OpenDecoded
  <2> QED
    BY <1>3, <2>1 DEF LedParamsFromC, LedParams
<1> HIDE DEF params
<1>5. LedParamsToC(params, code, timer) # {}
  <2>1. [control_code |-> code, on_count |-> raw.on_count, off_count |-> raw.off_count,
         timer_count |-> count, on_color |-> OpenToC(LedColorCode, params.on_color),
         off_color |-> OpenToC(LedColorCode, params.off_color)] \in LedParamsToC(params, code, timer)
    BY <1>3 DEF LedParamsToC
  <2> QED
    BY <2>1
<1> QED
  BY <1>4, <1>5 DEF params

LEMMA NoParamsSent ==
  ASSUME NEW code
  PROVE  LedParamsToC(NoParams, code, 0) # {}
<1>1. 0 \in ToCount(0, Tenth, U8) /\ 0 \in ToCount(0, Tenth, U16)
  BY ZeroCount, WidthsAreNumbers
<1>2. NoParams.on_time = 0 /\ NoParams.off_time = 0
  BY DEF NoParams
<1>3. [control_code |-> code, on_count |-> 0, off_count |-> 0, timer_count |-> 0,
       on_color |-> OpenToC(LedColorCode, NoParams.on_color),
       off_color |-> OpenToC(LedColorCode, NoParams.off_color)] \in LedParamsToC(NoParams, code, 0)
  BY <1>1, <1>2 DEF LedParamsToC
<1> QED
  BY <1>3

LEMMA LedDecoded ==
  ASSUME NEW raw \in osdp_cmd_led, NEW c \in LedFromC(raw)
  PROVE  c \in LedCommand /\ LedToC(c) # {}
<1>1. PICK t \in LedTemporaryFromC(raw.temporary), p \in LedPermanentFromC(raw.permanent) :
        c = [reader |-> raw.reader, led_number |-> raw.led_number, temporary |-> t, permanent |-> p]
  BY DEF LedFromC
<1>2. /\ raw.reader \in Byte /\ raw.led_number \in Byte
      /\ raw.temporary \in osdp_cmd_led_params /\ raw.permanent \in osdp_cmd_led_params
  BY DEF osdp_cmd_led
<1>3. t \in LedTemporary /\ LedTemporaryToC(t) # {}
  <2>1. PICK action \in DOMAIN LedTemporaryCode :
          t = IF action = "Set"
              THEN [action |-> action, params |-> LedParamsFromC(raw.temporary),
                    timer |-> FromCount(raw.temporary.timer_count, Tenth)]
              ELSE [action |-> action, params |-> NoParams, timer |-> 0]
    BY DecodeIn DEF LedTemporaryFromC
  <2>2. CASE action = "Set"
    <3>1. raw.temporary.timer_count \in 0..U16
      BY <1>2 DEF osdp_cmd_led_params, Word
    <3>2. /\ FromCount(raw.temporary.timer_count, Tenth) \in Nat
          /\ raw.temporary.timer_count \in ToCount(FromCount(raw.temporary.timer_count, Tenth), Tenth, U16)
      BY <3>1, CountAgain, WidthsAreNumbers
    <3>3. /\ LedParamsFromC(raw.temporary) \in LedParams
          /\ LedParamsToC(LedParamsFromC(raw.temporary), LedTemporaryCode["Set"],
                          FromCount(raw.temporary.timer_count, Tenth)) # {}
      BY <1>2, <3>2, ParamsDecoded
    <3> QED
      BY <2>1, <2>2, <3>2, <3>3 DEF LedTemporary, LedTemporaryToC
  <2>3. CASE action # "Set"
    <3>1. t = [action |-> action, params |-> NoParams, timer |-> 0] /\ action \in {"Keep", "Cancel"}
      BY <2>1, <2>3 DEF LedTemporaryCode
    <3> QED
      BY <3>1, NoParamsSent DEF LedTemporary, LedTemporaryToC
  <2> QED
    BY <2>2, <2>3
<1>4. p \in LedPermanent /\ LedPermanentToC(p) # {}
  <2>1. PICK action \in DOMAIN LedPermanentCode :
          p = [action |-> action,
               params |-> IF action = "Set" THEN LedParamsFromC(raw.permanent) ELSE NoParams]
    BY DecodeIn DEF LedPermanentFromC
  <2>2. CASE action = "Set"
    <3>1. 0 \in ToCount(0, Tenth, U16)
      BY ZeroCount, WidthsAreNumbers
    <3>2. /\ LedParamsFromC(raw.permanent) \in LedParams
          /\ LedParamsToC(LedParamsFromC(raw.permanent), LedPermanentCode["Set"], 0) # {}
      BY <1>2, <3>1, ParamsDecoded
    <3> QED
      BY <2>1, <2>2, <3>2 DEF LedPermanent, LedPermanentToC
  <2>3. CASE action # "Set"
    <3>1. p = [action |-> "Keep", params |-> NoParams]
      BY <2>1, <2>3 DEF LedPermanentCode
    <3> QED
      BY <3>1, NoParamsSent DEF LedPermanent, LedPermanentToC
  <2> QED
    BY <2>2, <2>3
<1>5. c \in LedCommand
  BY <1>1, <1>2, <1>3, <1>4 DEF LedCommand
<1>6. PICK x \in LedTemporaryToC(t), y \in LedPermanentToC(p) : TRUE
  BY <1>3, <1>4
<1>7. [reader |-> c.reader, led_number |-> c.led_number, temporary |-> x, permanent |-> y] \in LedToC(c)
  BY <1>1, <1>6 DEF LedToC
<1> QED
  BY <1>5, <1>7

LEMMA BuzzerDecoded ==
  ASSUME NEW raw \in osdp_cmd_buzzer, NEW c \in BuzzerFromC(raw)
  PROVE  c \in BuzzerCommand /\ BuzzerToC(c) # {}
<1>1. PICK code \in DOMAIN BuzzerCode :
        c = IF code = "Tone"
            THEN [reader |-> raw.reader, action |-> "Tone", on |-> FromCount(raw.on_count, Tenth),
                  off |-> FromCount(raw.off_count, Tenth), repeat |-> raw.rep_count]
            ELSE [reader |-> raw.reader, action |-> "Off", on |-> 0, off |-> 0, repeat |-> 0]
  BY DecodeIn DEF BuzzerFromC
<1>2. /\ raw.reader \in Byte /\ raw.rep_count \in Byte
      /\ raw.on_count \in 0..U8 /\ raw.off_count \in 0..U8
  BY DEF osdp_cmd_buzzer, Byte
<1>3. /\ FromCount(raw.on_count, Tenth) \in Nat /\ FromCount(raw.off_count, Tenth) \in Nat
      /\ ToCount(FromCount(raw.on_count, Tenth), Tenth, U8) # {}
      /\ ToCount(FromCount(raw.off_count, Tenth), Tenth, U8) # {}
  BY <1>2, CountAgain, WidthsAreNumbers
<1>4. ToCount(0, Tenth, U8) # {}
  BY ZeroCount, WidthsAreNumbers
<1>5. c \in BuzzerCommand
  BY <1>1, <1>2, <1>3 DEF BuzzerCommand
<1>6. ToCount(c.on, Tenth, U8) # {} /\ ToCount(c.off, Tenth, U8) # {}
  BY <1>1, <1>3, <1>4
<1>7. PICK on \in ToCount(c.on, Tenth, U8), off \in ToCount(c.off, Tenth, U8) : TRUE
  BY <1>6
<1>8. [reader |-> c.reader, control_code |-> BuzzerCode[c.action],
       on_count |-> on, off_count |-> off, rep_count |-> c.repeat] \in BuzzerToC(c)
  BY <1>7 DEF BuzzerToC
<1> QED
  BY <1>5, <1>8

LEMMA TextDecoded ==
  ASSUME NEW raw \in osdp_cmd_text, NEW c \in TextFromC(raw)
  PROVE  c \in TextCommand /\ TextToC(c) # {}
<1>1. PICK mode \in DOMAIN TextCode, data \in FromBuffer(raw.data) :
        c = [reader |-> raw.reader, mode |-> mode,
             shown_for |-> IF mode \in Temporary THEN FromCount(raw.temp_time, Second) ELSE 0,
             offset_row |-> raw.offset_row, offset_col |-> raw.offset_col, data |-> data]
  BY DecodeIn DEF TextFromC
<1>2. /\ raw.reader \in Byte /\ raw.offset_row \in Byte /\ raw.offset_col \in Byte
      /\ raw.temp_time \in 0..U8 /\ raw.data \in Buffer(Byte, 32)
  BY DEF osdp_cmd_text, Byte
<1>3. data \in Bytes /\ \E out : out \in ToBuffer(data, 32, U8)
  BY <1>2, ByteLength
<1>4. c.shown_for \in Nat /\ ToCount(c.shown_for, Second, U8) # {}
  BY <1>1, <1>2, CountAgain, ZeroCount, WidthsAreNumbers
<1>5. c \in TextCommand
  BY <1>1, <1>2, <1>3, <1>4 DEF TextCommand
<1>6. PICK time \in ToCount(c.shown_for, Second, U8) : TRUE
  BY <1>4
<1>7. PICK out : out \in ToBuffer(c.data, 32, U8)
  BY <1>1, <1>3
<1>8. [reader |-> c.reader, control_code |-> TextCode[c.mode], temp_time |-> time,
       offset_row |-> c.offset_row, offset_col |-> c.offset_col, data |-> out] \in TextToC(c)
  BY <1>6, <1>7 DEF TextToC
<1> QED
  BY <1>5, <1>8

LEMMA OutputDecoded ==
  ASSUME NEW raw \in osdp_cmd_output, NEW c \in OutputFromC(raw)
  PROVE  c \in OutputCommand /\ OutputToC(c) # {}
<1>1. PICK action \in DOMAIN OutputCode :
        c = [output_no |-> raw.output_no, action |-> action,
             timer |-> IF action \in Timed THEN FromCount(raw.timer_count, Tenth) ELSE 0]
  BY DecodeIn DEF OutputFromC
<1>2. raw.output_no \in Byte /\ raw.timer_count \in 0..U16
  BY DEF osdp_cmd_output, Word
<1>3. c.timer \in Nat /\ ToCount(c.timer, Tenth, U16) # {}
  BY <1>1, <1>2, CountAgain, ZeroCount, WidthsAreNumbers
<1>4. c \in OutputCommand
  BY <1>1, <1>2, <1>3 DEF OutputCommand
<1>5. PICK count \in ToCount(c.timer, Tenth, U16) : TRUE
  BY <1>3
<1>6. [output_no |-> c.output_no, control_code |-> OutputCode[c.action], timer_count |-> count]
        \in OutputToC(c)
  BY <1>5 DEF OutputToC
<1> QED
  BY <1>4, <1>6

LEMMA KeySetDecoded ==
  ASSUME NEW raw \in osdp_cmd_keyset, NEW c \in KeySetFromC(raw)
  PROVE  c \in KeySetCommand /\ KeySetToC(c) # {}
<1>1. raw.type_ \in Byte /\ raw.data \in Buffer(Byte, 32)
  BY DEF osdp_cmd_keyset
<1>2. PICK data \in FromBuffer(raw.data) : c = [key_type |-> raw.type_, data |-> data]
  BY DEF KeySetFromC
<1>3. data \in Bytes /\ \E out : out \in ToBuffer(data, 32, U8)
  BY <1>1, ByteLength
<1>4. PICK out : out \in ToBuffer(c.data, 32, U8)
  BY <1>2, <1>3
<1>5. [type_ |-> c.key_type, data |-> out] \in KeySetToC(c)
  BY <1>4 DEF KeySetToC
<1> QED
  BY <1>1, <1>2, <1>3, <1>5 DEF KeySetCommand

LEMMA MfgDecoded ==
  ASSUME NEW raw \in osdp_cmd_mfg, NEW c \in MfgFromC(raw)
  PROVE  c \in MfgCommand /\ MfgToC(c) # {}
<1>1. raw.vendor_code \in Nat /\ raw.data \in Buffer(Byte, 64)
  BY DEF osdp_cmd_mfg, Uint32
<1>2. PICK data \in FromBuffer(raw.data) : c = [vendor_code |-> ToLeBytes(raw.vendor_code), data |-> data]
  BY DEF MfgFromC
<1>3. data \in Bytes /\ \E out : out \in ToBuffer(data, 64, U8)
  BY <1>1, ByteLength
<1>4. ToLeBytes(raw.vendor_code) \in Vendor
  BY <1>1, VendorDecoded
<1>5. PICK out : out \in ToBuffer(c.data, 64, U8)
  BY <1>2, <1>3
<1>6. [vendor_code |-> AsLe(c.vendor_code), data |-> out] \in MfgToC(c)
  BY <1>5 DEF MfgToC
<1> QED
  BY <1>2, <1>3, <1>4, <1>6 DEF MfgCommand

LEMMA StatusCommandDecoded ==
  ASSUME NEW raw, NEW c \in StatusCommandFromC(raw)
  PROVE  c \in StatusCommand /\ StatusCommandToC(c) # {}
<1>1. c \in StatusCommand
  BY DecodeIn DEF StatusCommandFromC, StatusCommand
<1>2. PICK out : out \in ToBuffer(<<>>, 64, U16)
  BY EmptyFits
<1>3. [type_ |-> StatusCode[c.status], report |-> out] \in StatusCommandToC(c)
  BY <1>2 DEF StatusCommandToC
<1> QED
  BY <1>1, <1>3

LEMMA BioReadDecoded ==
  ASSUME NEW raw \in osdp_cmd_bioread, NEW c \in BioReadFromC(raw)
  PROVE  c \in BioReadCommand /\ BioReadToC(c) # {}
<1>1. raw.reader \in Byte /\ raw.type_ \in Byte /\ raw.format \in Byte /\ raw.quality \in Byte
  BY DEF osdp_cmd_bioread
<1>2. /\ OpenFromC(BioTypeCode, raw.type_) \in Open(BioTypeCode)
      /\ OpenFromC(BioFormatCode, raw.format) \in Open(BioFormatCode)
  BY <1>1, OpenDecoded
<1> QED
  BY <1>1, <1>2 DEF BioReadFromC, BioReadCommand, BioReadToC

LEMMA BioMatchDecoded ==
  ASSUME NEW raw \in osdp_cmd_biomatch, NEW c \in BioMatchFromC(raw)
  PROVE  c \in BioMatchCommand /\ BioMatchToC(c) # {}
<1>1. /\ raw.reader \in Byte /\ raw.type_ \in Byte /\ raw.format \in Byte /\ raw.quality \in Byte
      /\ raw.data \in Buffer(Word, 128)
  BY DEF osdp_cmd_biomatch
<1>2. /\ OpenFromC(BioTypeCode, raw.type_) \in Open(BioTypeCode)
      /\ OpenFromC(BioFormatCode, raw.format) \in Open(BioFormatCode)
  BY <1>1, OpenDecoded
<1>3. PICK data \in FromBuffer(raw.data) :
        c = [reader |-> raw.reader, kind |-> OpenFromC(BioTypeCode, raw.type_),
             format |-> OpenFromC(BioFormatCode, raw.format), threshold |-> raw.quality, template |-> data]
  BY DEF BioMatchFromC
<1>4. data \in Bytes /\ \E out : out \in ToBuffer(data, 128, U16)
  BY <1>1, WordLength
<1>5. PICK out : out \in ToBuffer(c.template, 128, U16)
  BY <1>3, <1>4
<1>6. [reader |-> c.reader, type_ |-> OpenToC(BioTypeCode, c.kind),
       format |-> OpenToC(BioFormatCode, c.format), quality |-> c.threshold, data |-> out]
        \in BioMatchToC(c)
  BY <1>5 DEF BioMatchToC
<1> QED
  BY <1>1, <1>2, <1>3, <1>4, <1>6 DEF BioMatchCommand

LEMMA PayloadAgain ==
  ASSUME NEW buffer \in Buffer(Word, 256), NEW data \in FromBuffer(buffer)
  PROVE  /\ data \in Bytes /\ \E out : out \in ToBuffer(data, 256, U16)
         /\ data # <<>> => \E out : out \in ToPayload(data)
<1>1. data \in Bytes /\ \E out : out \in ToBuffer(data, 256, U16)
  BY WordLength
<1> QED
  BY <1>1 DEF ToPayload

LEMMA ChallengeDecoded ==
  ASSUME NEW raw \in osdp_cmd_auth, NEW c \in ChallengeFromC(raw)
  PROVE  c \in Challenge /\ (c.data # <<>> => ChallengeToC(c) # {})
<1>1. raw.algorithm \in Byte /\ raw.key \in Byte /\ raw.data \in Buffer(Word, 256)
  BY DEF osdp_cmd_auth
<1>2. PICK data \in FromBuffer(raw.data) :
        c = [algorithm |-> raw.algorithm, key |-> raw.key, data |-> data]
  BY DEF ChallengeFromC
<1>3. data \in Bytes /\ (data # <<>> => \E out : out \in ToPayload(data))
  BY <1>1, PayloadAgain
<1>4. \A out \in ToPayload(c.data) : [algorithm |-> c.algorithm, key |-> c.key, data |-> out] \in ChallengeToC(c)
  BY DEF ChallengeToC
<1>5. c.data = data /\ c \in Challenge
  BY <1>1, <1>2, <1>3 DEF Challenge
<1> QED
  BY <1>3, <1>4, <1>5

LEMMA ApduAgain ==
  ASSUME NEW buffer \in osdp_trs_apdu, NEW data \in FromBuffer(buffer)
  PROVE  data \in Bytes /\ \E out : out \in ToApdu(data)
<1>1. data \in Bytes /\ \E out : out \in ToBuffer(data, 258, U16)
  BY WordLength DEF osdp_trs_apdu
<1> QED
  BY <1>1 DEF ToApdu

LEMMA PinEntryDecoded ==
  ASSUME NEW raw \in osdp_trs_pin_entry, NEW e \in PinEntryFromC(raw)
  PROVE  e \in PinEntry /\ PinEntryToC(e) # {}
<1>1. PICK format \in DOMAIN PinFormatCode, apdu \in FromBuffer(raw.apdu) :
        e = [first_digit_timeout |-> FromCount(raw.timeout_initial, Second),
             digit_timeout |-> FromCount(raw.timeout_digit, Second), format |-> format, rest |-> raw.rest,
             length_field |-> PinLengthFromC(raw.pin_length_field), apdu |-> apdu]
  BY DecodeIn DEF PinEntryFromC
<1>2. /\ raw.timeout_initial \in 0..U8 /\ raw.timeout_digit \in 0..U8 /\ raw.rest \in Byte
      /\ raw.pin_length_field \in PinLengthField /\ raw.apdu \in osdp_trs_apdu
  BY DEF osdp_trs_pin_entry, Byte
<1>3. /\ FromCount(raw.timeout_initial, Second) \in Nat /\ FromCount(raw.timeout_digit, Second) \in Nat
      /\ ToCount(FromCount(raw.timeout_initial, Second), Second, U8) # {}
      /\ ToCount(FromCount(raw.timeout_digit, Second), Second, U8) # {}
  BY <1>2, CountAgain, WidthsAreNumbers
<1>4. apdu \in Bytes /\ \E out : out \in ToApdu(apdu)
  BY <1>2, ApduAgain
<1> DEFINE fields == PinLengthFromC(raw.pin_length_field)
<1>5. /\ fields \in SUBSET PinLengthField /\ \A f, g \in fields : f = g
      /\ \A f \in fields : f.size_bits # 0
  BY <1>2 DEF PinLengthFromC
<1>6. PinLengthToC(fields) # {}
  BY <1>5 DEF PinLengthToC
<1> HIDE DEF fields
<1>7. e \in PinEntry
  BY <1>1, <1>2, <1>3, <1>4, <1>5 DEF PinEntry, fields
<1>8. /\ e.first_digit_timeout = FromCount(raw.timeout_initial, Second)
      /\ e.digit_timeout = FromCount(raw.timeout_digit, Second)
      /\ e.length_field = fields /\ e.apdu = apdu
  BY <1>1 DEF fields
<1>9. PinEntryToC(e) # {}
  <2>1. PICK first \in ToCount(e.first_digit_timeout, Second, U8),
             next \in ToCount(e.digit_timeout, Second, U8), field \in PinLengthToC(e.length_field) : TRUE
    BY <1>3, <1>6, <1>8
  <2>2. PICK out : out \in ToApdu(e.apdu)
    BY <1>4, <1>8
  <2>3. [timeout_initial |-> first, timeout_digit |-> next, format |-> PinFormatCode[e.format],
         rest |-> e.rest, pin_length_field |-> field, apdu |-> out] \in PinEntryToC(e)
    BY <2>1, <2>2 DEF PinEntryToC
  <2> QED
    BY <2>3
<1> QED
  BY <1>7, <1>9

LEMMA TrsDecoded ==
  ASSUME NEW raw \in osdp_trs_cmd, NEW c \in TrsFromC(raw)
  PROVE  c \in TrsCommand /\ TrsToC(c) # {}
<1>1. PICK trs \in Decode(TrsCommandCode, raw.command) :
        c \in (CASE trs = "EnterPin" -> {[trs |-> trs, entry |-> e] : e \in PinEntryFromC(raw.pin_entry)}
                 [] trs = "Apdu"     -> {[trs |-> trs, apdu |-> apdu] : apdu \in FromBuffer(raw.apdu)}
                 [] OTHER            -> {[trs |-> trs, apdu |-> NoApdu]})
  BY DEF TrsFromC
<1>2. trs \in DOMAIN TrsCommandCode /\ TrsCommandCode[trs] = raw.command
  BY DEF Decode
<1>3. CASE trs = "EnterPin"
  <2>1. raw.pin_entry \in osdp_trs_pin_entry
    BY <1>2, <1>3 DEF osdp_trs_cmd
  <2>2. PICK e \in PinEntryFromC(raw.pin_entry) : c = [trs |-> "EnterPin", entry |-> e]
    BY <1>1, <1>3
  <2>3. e \in PinEntry /\ PinEntryToC(e) # {}
    BY <2>1, PinEntryDecoded
  <2>4. PICK out \in PinEntryToC(c.entry) : TRUE
    BY <2>2, <2>3
  <2>5. [command |-> TrsCommandCode[c.trs], pin_entry |-> out] \in TrsToC(c)
    BY <2>2, <2>4 DEF TrsToC
  <2> QED
    BY <2>2, <2>3, <2>5 DEF TrsCommand
<1>4. CASE trs = "Apdu"
  <2>1. raw.apdu \in osdp_trs_apdu
    BY <1>2, <1>4 DEF osdp_trs_cmd, TrsCommandCode
  <2>2. PICK apdu \in FromBuffer(raw.apdu) : c = [trs |-> "Apdu", apdu |-> apdu]
    BY <1>1, <1>4
  <2>3. apdu \in Bytes /\ \E out : out \in ToApdu(apdu)
    BY <2>1, ApduAgain
  <2>4. PICK out : out \in ToApdu(c.apdu)
    BY <2>2, <2>3
  <2>5. [command |-> TrsCommandCode[c.trs], apdu |-> out] \in TrsToC(c)
    BY <2>2, <2>4 DEF TrsToC
  <2> QED
    BY <2>2, <2>3, <2>5 DEF TrsCommand
<1>5. CASE trs \in {"Start", "Stop", "CardScan"}
  <2>1. c = [trs |-> trs, apdu |-> NoApdu]
    BY <1>1, <1>5
  <2>2. PICK out : out \in ToApdu(NoApdu)
    BY EmptyFits DEF ToApdu, NoApdu
  <2>3. [command |-> TrsCommandCode[c.trs], apdu |-> out] \in TrsToC(c)
    BY <1>5, <2>1, <2>2 DEF TrsToC
  <2> QED
    BY <1>5, <2>1, <2>3 DEF TrsCommand
<1> QED
  BY <1>2, <1>3, <1>4, <1>5 DEF TrsCommandCode

(* Every kind of command.                                                  *)
LEMMA BodyDecoded ==
  ASSUME NEW kind \in DOMAIN CommandId, NEW raw \in CmdMember(kind), NEW c \in BodyFromC(kind, raw)
  PROVE  /\ c \in Body(kind)
         /\ \/ BodyToC(kind, c) # {}
            \/ kind = "TimeDate" /\ OutOfRange(c)
            \/ kind \in {"GenAuth", "CrAuth"} /\ c.data = <<>>
<1>1. CASE kind = "Led"
  BY <1>1, LedDecoded DEF CmdMember, Body, BodyToC, BodyFromC
<1>2. CASE kind = "Buzzer"
  BY <1>2, BuzzerDecoded DEF CmdMember, Body, BodyToC, BodyFromC
<1>3. CASE kind = "Text"
  BY <1>3, TextDecoded DEF CmdMember, Body, BodyToC, BodyFromC
<1>4. CASE kind = "Output"
  BY <1>4, OutputDecoded DEF CmdMember, Body, BodyToC, BodyFromC
<1>5. CASE kind \in {"ComSet", "ComSetDone"}
  <2>1. c \in ComSet
    BY <1>5 DEF CmdMember, BodyFromC, SameFields, osdp_cmd_comset, ComSet, Uint32
  <2> QED
    BY <1>5, <2>1 DEF Body, BodyToC, SameFields
<1>6. CASE kind = "PivData"
  <2>1. c \in PivRequest
    BY <1>6 DEF CmdMember, BodyFromC, SameFields, osdp_cmd_pivdata, PivRequest
  <2> QED
    BY <1>6, <2>1 DEF Body, BodyToC, SameFields
<1>7. CASE kind = "KeySet"
  BY <1>7, KeySetDecoded DEF CmdMember, Body, BodyToC, BodyFromC
<1>8. CASE kind = "Mfg"
  BY <1>8, MfgDecoded DEF CmdMember, Body, BodyToC, BodyFromC
<1>9. CASE kind = "FileTx"
  <2>1. c \in FileTxCommand
    BY <1>9 DEF CmdMember, BodyFromC, FileTxFromC, osdp_cmd_file_tx, FileTxCommand, Int32
  <2> QED
    BY <1>9, <2>1 DEF Body, BodyToC, FileTxToC
<1>10. CASE kind = "Status"
  BY <1>10, StatusCommandDecoded DEF Body, BodyToC, BodyFromC
<1>11. CASE kind = "BioRead"
  BY <1>11, BioReadDecoded DEF CmdMember, Body, BodyToC, BodyFromC
<1>12. CASE kind = "BioMatch"
  BY <1>12, BioMatchDecoded DEF CmdMember, Body, BodyToC, BodyFromC
<1>13. CASE kind = "TimeDate"
  <2>1. c \in TimeDateCommand
    BY <1>13 DEF CmdMember, BodyFromC, TimeDateFromC, osdp_cmd_tdset, TimeDateCommand
  <2>2. ~OutOfRange(c) => TimeDateToC(c) = {c}
    BY DEF OutOfRange, TimeDateToC
  <2> QED
    BY <1>13, <2>1, <2>2 DEF Body, BodyToC
<1>14. CASE kind \in {"GenAuth", "CrAuth"}
  <2>1. c \in Challenge /\ (c.data # <<>> => ChallengeToC(c) # {})
    BY <1>14, ChallengeDecoded DEF CmdMember, BodyFromC
  <2> QED
    BY <1>14, <2>1 DEF Body, BodyToC
<1>15. CASE kind = "Trs"
  BY <1>15, TrsDecoded DEF CmdMember, Body, BodyToC, BodyFromC
<1> QED
  BY <1>1, <1>2, <1>3, <1>4, <1>5, <1>6, <1>7, <1>8, <1>9, <1>10, <1>11, <1>12, <1>13, <1>14,
     <1>15 DEF CommandId

(* An application may send a value on, unless it is one that is received   *)
(* only.                                                                   *)
MayRelay(way, v) == ReceivedOnly(way, v) \/ ToC(way, v) # {}

LEMMA CommandDecoded ==
  ASSUME NEW raw, IsCmd(raw), NEW c \in CommandFromC(raw)
  PROVE  IsValue("command", c) /\ MayRelay("command", c)
<1>0. PICK kind \in Decode(CommandId, raw.id) :
        \E body \in BodyFromC(kind, raw.body) : c = [kind |-> kind, body |-> body]
  BY DEF CommandFromC
<1>1. PICK body \in BodyFromC(kind, raw.body) : c = [kind |-> kind, body |-> body]
  BY <1>0
<1>2. kind \in DOMAIN CommandId /\ raw.body \in CmdMember(kind)
  BY DecodeIn DEF IsCmd
<1>3. /\ body \in Body(kind)
      /\ \/ BodyToC(kind, body) # {}
         \/ kind = "TimeDate" /\ OutOfRange(body)
         \/ kind \in {"GenAuth", "CrAuth"} /\ body.data = <<>>
  BY <1>2, BodyDecoded
<1>4. IsValue("command", c)
  BY <1>1, <1>2, <1>3 DEF IsValue
<1>5. ReceivedOnly("command", c) \/ BodyToC(kind, body) # {}
  BY <1>1, <1>3 DEF ReceivedOnly
<1>6. BodyToC(kind, body) # {} => CommandToC(c) # {}
  BY <1>1 DEF CommandToC
<1> QED
  BY <1>4, <1>5, <1>6 DEF MayRelay, ToC

LEMMA CardReadDecoded ==
  ASSUME NEW raw \in osdp_event_cardread, NEW e \in CardReadFromC(raw)
  PROVE  e \in CardRead /\ CardReadToC(e) # {}
<1> DEFINE n == BytesFor(raw.length)
           buffer == [length |-> n, bytes |-> raw.bytes]
<1>1. /\ raw.reader_no \in Int /\ raw.length \in Nat /\ raw.bytes \in [1..64 -> Byte]
  <2>1. raw.reader_no \in Int /\ raw.length \in Word /\ raw.bytes \in [1..64 -> Byte]
    BY DEF osdp_event_cardread, Int32
  <2>2. Word \subseteq Nat
    BY DEF Word, U16
  <2> QED
    BY <2>1, <2>2
<1>2. n \in Int /\ raw.length <= 8 * n
  BY <1>1 DEF BytesFor
<1>3. buffer \in Buffer(Int32, 64)
  BY <1>1, <1>2 DEF Buffer, Int32
<1>4. PICK format \in DOMAIN CardFormatCode, data \in FromBuffer(buffer) :
        e = [reader_no |-> raw.reader_no, format |-> format,
             direction |-> DirectionFromC(raw.direction), nr_bits |-> raw.length, data |-> data]
  BY DecodeIn DEF CardReadFromC
<1>5. data \in Bytes /\ Len(data) = buffer.length /\ \E out : out \in ToBuffer(data, 64, U16)
  BY <1>3, IntLength
<1>6. DirectionFromC(raw.direction) \in Flag
  BY DEF DirectionFromC, Flag
<1>7. e \in CardRead
  BY <1>1, <1>4, <1>5, <1>6 DEF CardRead
<1>8. e.nr_bits <= 8 * Len(e.data)
  BY <1>2, <1>4, <1>5
<1>9. PICK out : out \in ToBuffer(e.data, 64, U16)
  BY <1>4, <1>5
<1>10. [reader_no |-> e.reader_no, format |-> CardFormatCode[e.format],
        direction |-> FlagToC(e.direction),
        length |-> e.nr_bits % (U16 + 1), bytes |-> out.bytes] \in CardReadToC(e)
  BY <1>8, <1>9 DEF CardReadToC
<1> QED
  BY <1>7, <1>10

LEMMA KeyPressDecoded ==
  ASSUME NEW raw \in osdp_event_keypress, NEW e \in KeyPressFromC(raw)
  PROVE  e \in KeyPress /\ KeyPressToC(e) # {}
<1>1. raw.reader_no \in Int /\ raw.data \in Buffer(Int32, 64)
  BY DEF osdp_event_keypress, Int32
<1>2. PICK data \in FromBuffer(raw.data) : e = [reader_no |-> raw.reader_no, data |-> data]
  BY DEF KeyPressFromC
<1>3. data \in Bytes /\ \E out : out \in ToBuffer(data, 64, U16)
  BY <1>1, IntLength
<1>4. PICK out : out \in ToBuffer(e.data, 64, U16)
  BY <1>2, <1>3
<1>5. [reader_no |-> e.reader_no, data |-> out] \in KeyPressToC(e)
  BY <1>4 DEF KeyPressToC
<1> QED
  BY <1>1, <1>2, <1>3, <1>5 DEF KeyPress

LEMMA MfgReplyDecoded ==
  ASSUME NEW raw \in osdp_event_mfgrep, NEW e \in MfgReplyFromC(raw)
  PROVE  e \in MfgReply /\ MfgReplyToC(e) # {}
<1>1. raw.vendor_code \in Nat /\ raw.data \in Buffer(Byte, 128)
  BY DEF osdp_event_mfgrep, Uint32
<1>2. PICK data \in FromBuffer(raw.data) : e = [vendor_code |-> ToLeBytes(raw.vendor_code), data |-> data]
  BY DEF MfgReplyFromC
<1>3. data \in Bytes /\ \E out : out \in ToBuffer(data, 128, U8)
  BY <1>1, ByteLength
<1>4. ToLeBytes(raw.vendor_code) \in Vendor
  BY <1>1, VendorDecoded
<1>5. PICK out : out \in ToBuffer(e.data, 128, U8)
  BY <1>2, <1>3
<1>6. [vendor_code |-> AsLe(e.vendor_code), data |-> out] \in MfgReplyToC(e)
  BY <1>5 DEF MfgReplyToC
<1> QED
  BY <1>2, <1>3, <1>4, <1>6 DEF MfgReply

LEMMA MfgStatusDecoded ==
  ASSUME NEW raw \in osdp_event_mfgstat, NEW e \in MfgStatusFromC(raw)
  PROVE  e \in MfgStatus /\ MfgStatusToC(e) # {}
<1>1. raw.data \in Buffer(Byte, 128)
  BY DEF osdp_event_mfgstat
<1>2. PICK data \in FromBuffer(raw.data) : e = [data |-> data]
  BY DEF MfgStatusFromC
<1>3. data \in Bytes /\ \E out : out \in ToBuffer(data, 128, U8)
  BY <1>1, ByteLength
<1>4. PICK out : out \in ToBuffer(e.data, 128, U8)
  BY <1>2, <1>3
<1>5. [data |-> out] \in MfgStatusToC(e)
  BY <1>4 DEF MfgStatusToC
<1> QED
  BY <1>2, <1>3, <1>5 DEF MfgStatus

LEMMA BioReadReplyDecoded ==
  ASSUME NEW raw \in osdp_event_bioreadr, NEW e \in BioReadReplyFromC(raw)
  PROVE  e \in BioReadReply /\ BioReadReplyToC(e) # {}
<1>1. /\ raw.reader \in Byte /\ raw.status \in Byte /\ raw.type_ \in Byte /\ raw.quality \in Byte
      /\ raw.data \in Buffer(Word, 256)
  BY DEF osdp_event_bioreadr
<1>2. /\ OpenFromC(BioStatusCode, raw.status) \in Open(BioStatusCode)
      /\ OpenFromC(BioTypeCode, raw.type_) \in Open(BioTypeCode)
  BY <1>1, OpenDecoded
<1>3. PICK data \in FromBuffer(raw.data) :
        e = [reader |-> raw.reader, status |-> OpenFromC(BioStatusCode, raw.status),
             kind |-> OpenFromC(BioTypeCode, raw.type_), quality |-> raw.quality, template |-> data]
  BY DEF BioReadReplyFromC
<1>4. data \in Bytes /\ \E out : out \in ToBuffer(data, 256, U16)
  BY <1>1, PayloadAgain
<1>5. PICK out : out \in ToBuffer(e.template, 256, U16)
  BY <1>3, <1>4
<1>6. [reader |-> e.reader, status |-> OpenToC(BioStatusCode, e.status),
       type_ |-> OpenToC(BioTypeCode, e.kind), quality |-> e.quality, data |-> out]
        \in BioReadReplyToC(e)
  BY <1>5 DEF BioReadReplyToC
<1> QED
  BY <1>1, <1>2, <1>3, <1>4, <1>6 DEF BioReadReply

LEMMA BioMatchReplyDecoded ==
  ASSUME NEW raw \in osdp_event_biomatchr, NEW e \in BioMatchReplyFromC(raw)
  PROVE  e \in BioMatchReply /\ BioMatchReplyToC(e) # {}
<1>1. raw.reader \in Byte /\ raw.status \in Byte /\ raw.score \in Byte
  BY DEF osdp_event_biomatchr
<1>2. OpenFromC(BioStatusCode, raw.status) \in Open(BioStatusCode)
  BY <1>1, OpenDecoded
<1> QED
  BY <1>1, <1>2 DEF BioMatchReplyFromC, BioMatchReply, BioMatchReplyToC

LEMMA PivReplyDecoded ==
  ASSUME NEW raw \in osdp_event_piv_reply, NEW e \in PivReplyFromC(raw)
  PROVE  e \in PivReply /\ (e.data # <<>> => PivReplyToC(e) # {})
<1>1. raw.data \in Buffer(Word, 256)
  BY DEF osdp_event_piv_reply
<1>2. PICK data \in FromBuffer(raw.data) : e = [data |-> data]
  BY DEF PivReplyFromC
<1>3. data \in Bytes /\ (data # <<>> => \E out : out \in ToPayload(data))
  BY <1>1, PayloadAgain
<1>4. \A out \in ToPayload(e.data) : [data |-> out] \in PivReplyToC(e)
  BY DEF PivReplyToC
<1>5. e.data = data /\ e \in PivReply
  BY <1>2, <1>3 DEF PivReply
<1> QED
  BY <1>3, <1>4, <1>5

LEMMA ReadersDecoded ==
  ASSUME NEW entries \in Bytes,
         NEW readers, readers = [i \in DOMAIN entries |-> OpenFromC(ReaderStatusCode, entries[i])]
  PROVE  readers \in Seq(Open(ReaderStatusCode)) /\ Len(readers) = Len(entries)
<1>1. DOMAIN entries = 1..Len(entries) /\ Len(entries) \in Nat
  BY DEF Bytes
<1>2. \A i \in DOMAIN entries : entries[i] \in Byte
  BY DEF Bytes
<1>3. \A i \in DOMAIN entries : OpenFromC(ReaderStatusCode, entries[i]) \in Open(ReaderStatusCode)
  BY <1>2, OpenDecoded
<1>4. readers \in [1..Len(entries) -> Open(ReaderStatusCode)]
  BY <1>1, <1>3
<1> QED
  BY <1>1, <1>4

LEMMA ShortFits ==
  ASSUME NEW data, Len(data) \in Nat, Len(data) <= 64
  PROVE  \E out : out \in ToBuffer(data, 64, U16)
<1>1. ~(Len(data) > 64)
  OBVIOUS
<1> QED
  BY <1>1 DEF ToBuffer

LEMMA StatusDecoded ==
  ASSUME NEW raw \in osdp_status_report, NEW e \in StatusFromC(raw)
  PROVE  e \in Status /\ StatusToC(e) # {}
<1>1. PICK kind \in DOMAIN StatusCode, entries \in FromBuffer(raw.report) :
        e \in StatusFromEntries(kind, entries)
  BY DecodeIn DEF StatusFromC
<1>2. raw.report \in Buffer(Int32, 64)
  BY DEF osdp_status_report
<1>3. entries \in Bytes /\ Len(entries) \in Nat /\ Len(entries) <= 64
  <2>1. entries \in Bytes /\ Len(entries) <= 64
    BY <1>2, IntLength
  <2>2. Len(entries) \in Nat
    BY <2>1 DEF Bytes
  <2> QED
    BY <2>1, <2>2
<1>4. e \in Status /\ Len(StatusEntries(e)) \in Nat /\ Len(StatusEntries(e)) <= 64
  <2>1. CASE kind = "Local"
    <3>1. e = [status |-> "Local", tamper |-> FlagFromC(entries[1]), power |-> FlagFromC(entries[2])]
      BY <1>1, <2>1 DEF StatusFromEntries
    <3>2. FlagFromC(entries[1]) \in Flag /\ FlagFromC(entries[2]) \in Flag
      BY DEF FlagFromC, Flag
    <3>3. e.status = "Local"
      BY <3>1
    <3>4. StatusEntries(e) = <<FlagToC(e.tamper), FlagToC(e.power)>>
      BY <3>3 DEF StatusEntries
    <3>5. Len(StatusEntries(e)) = 2
      BY <3>4
    <3>6. e \in Status
      <4>1. ASSUME NEW t \in Flag, NEW p \in Flag
            PROVE  [status |-> "Local", tamper |-> t, power |-> p] \in Status
        BY DEF Status
      <4> QED
        BY <3>1, <3>2, <4>1
    <3> QED
      BY <3>5, <3>6
  <2>2. CASE kind = "Reader"
    <3>1. e = [status |-> "Reader",
               readers |-> [i \in DOMAIN entries |-> OpenFromC(ReaderStatusCode, entries[i])]]
      BY <1>1, <2>2 DEF StatusFromEntries
    <3>2. e.readers \in Seq(Open(ReaderStatusCode)) /\ Len(e.readers) = Len(entries)
      BY <1>3, <3>1, ReadersDecoded
    <3>3. StatusEntries(e) = [i \in DOMAIN e.readers |-> OpenToC(ReaderStatusCode, e.readers[i])]
      BY <3>1 DEF StatusEntries
    <3>4. StatusEntries(e) \in Bytes /\ Len(StatusEntries(e)) = Len(entries)
      <4>1. StatusEntries(e) \in Bytes
        BY <3>2, <3>3, ReadersRoundTrip
      <4>2. DOMAIN StatusEntries(e) = 1..Len(entries)
        BY <3>2, <3>3
      <4> QED
        BY <1>3, <4>1, <4>2 DEF Bytes
    <3>5. e \in Status
      BY <3>1, <3>2 DEF Status
    <3> QED
      BY <1>3, <3>4, <3>5
  <2>3. CASE kind \in {"Input", "Output"}
    <3>1. e = [status |-> kind, entries |-> entries]
      BY <1>1, <2>3 DEF StatusFromEntries
    <3>2. StatusEntries(e) = entries
      BY <2>3, <3>1 DEF StatusEntries
    <3>3. e \in Status
      BY <1>3, <2>3, <3>1 DEF Status
    <3> QED
      BY <1>3, <3>2, <3>3
  <2> QED
    BY <2>1, <2>2, <2>3 DEF StatusCode
<1>5. PICK out : out \in ToBuffer(StatusEntries(e), 64, U16)
  BY <1>4, ShortFits
<1>6. [type_ |-> StatusCode[e.status], report |-> out] \in StatusToC(e)
  BY <1>5 DEF StatusToC
<1> QED
  BY <1>4, <1>6

LEMMA TrsReplyDecoded ==
  ASSUME NEW raw \in osdp_trs_reply, NEW e \in TrsReplyFromC(raw)
  PROVE  e \in TrsReply /\ TrsReplyToC(e) # {}
<1>1. PICK trs \in Decode(TrsReplyCode, raw.reply) : e \in TrsPayloadFromC(trs, raw.payload)
  BY DEF TrsReplyFromC
<1>2. trs \in DOMAIN TrsReplyCode /\ TrsReplyCode[trs] = raw.reply
  BY DEF Decode
<1>3. e \in TrsReply /\ \E payload : payload \in TrsPayloadToC(e)
  <2>1. CASE trs = "CardInfo"
    <3>1. raw.payload \in osdp_trs_card_info
      BY <1>2, <2>1 DEF osdp_trs_reply, TrsReplyCode
    <3>2. /\ raw.payload.reader \in Byte
          /\ raw.payload.csn \in Buffer(Byte, 32) /\ raw.payload.protocol_data \in Buffer(Byte, 64)
      BY <3>1 DEF osdp_trs_card_info
    <3>3. PICK protocol \in DOMAIN CardProtocolCode, csn \in FromBuffer(raw.payload.csn),
               data \in FromBuffer(raw.payload.protocol_data) :
            e = [trs |-> "CardInfo", reader |-> raw.payload.reader, protocol |-> protocol,
                 csn |-> csn, protocol_data |-> data]
      BY <1>1, <2>1, DecodeIn DEF TrsPayloadFromC
    <3>4. csn \in Bytes /\ \E out : out \in ToBuffer(csn, 32, U8)
      BY <3>2, ByteLength
    <3>5. data \in Bytes /\ \E out : out \in ToBuffer(data, 64, U8)
      BY <3>2, ByteLength
    <3>6. e \in TrsReply
      BY <3>2, <3>3, <3>4, <3>5 DEF TrsReply
    <3>7. PICK first \in ToBuffer(e.csn, 32, U8), second \in ToBuffer(e.protocol_data, 64, U8) : TRUE
      BY <3>3, <3>4, <3>5
    <3>8. [reader |-> e.reader, protocol |-> CardProtocolCode[e.protocol],
           csn |-> first, protocol_data |-> second] \in TrsPayloadToC(e)
      BY <3>3, <3>7 DEF TrsPayloadToC
    <3> QED
      BY <3>6, <3>8
  <2>2. CASE trs = "CardPresent"
    <3>1. raw.payload.reader \in Byte
      BY <1>2, <2>2 DEF osdp_trs_reply, TrsReplyCode, osdp_trs_card_present
    <3>2. PICK card \in DOMAIN CardStatusCode :
            e = [trs |-> "CardPresent", reader |-> raw.payload.reader, card |-> card]
      BY <1>1, <2>2, DecodeIn DEF TrsPayloadFromC
    <3>3. e \in TrsReply
      BY <3>1, <3>2 DEF TrsReply
    <3>4. [reader |-> e.reader, status |-> CardStatusCode[e.card]] \in TrsPayloadToC(e)
      BY <3>2 DEF TrsPayloadToC
    <3> QED
      BY <3>3, <3>4
  <2>3. CASE trs = "CardData"
    <3>1. raw.payload \in osdp_trs_card_data
      BY <1>2, <2>3 DEF osdp_trs_reply, TrsReplyCode
    <3>2. raw.payload.reader \in Byte /\ raw.payload.status \in Byte /\ raw.payload.apdu \in osdp_trs_apdu
      BY <3>1 DEF osdp_trs_card_data
    <3>3. PICK apdu \in FromBuffer(raw.payload.apdu) :
            e = [trs |-> "CardData", reader |-> raw.payload.reader, status |-> raw.payload.status,
                 apdu |-> apdu]
      BY <1>1, <2>3 DEF TrsPayloadFromC
    <3>4. apdu \in Bytes /\ \E out : out \in ToApdu(apdu)
      BY <3>2, ApduAgain
    <3>5. e \in TrsReply
      BY <3>2, <3>3, <3>4 DEF TrsReply
    <3>6. PICK out : out \in ToApdu(e.apdu)
      BY <3>3, <3>4
    <3>7. [reader |-> e.reader, status |-> e.status, apdu |-> out] \in TrsPayloadToC(e)
      BY <3>3, <3>6 DEF TrsPayloadToC
    <3> QED
      BY <3>5, <3>7
  <2>4. CASE trs = "PinComplete"
    <3>1. raw.payload \in osdp_trs_pin_complete
      BY <1>2, <2>4 DEF osdp_trs_reply, TrsReplyCode
    <3>2. e = [trs |-> "PinComplete", reader |-> raw.payload.reader, status |-> raw.payload.status,
               tries |-> raw.payload.tries]
      BY <1>1, <2>4 DEF TrsPayloadFromC
    <3>3. e \in TrsReply
      BY <3>1, <3>2 DEF TrsReply, osdp_trs_pin_complete
    <3>4. [reader |-> e.reader, status |-> e.status, tries |-> e.tries] \in TrsPayloadToC(e)
      BY <3>2 DEF TrsPayloadToC
    <3> QED
      BY <3>3, <3>4
  <2>5. CASE trs = "Error"
    <3>1. raw.payload \in osdp_trs_error
      BY <1>2, <2>5 DEF osdp_trs_reply, TrsReplyCode
    <3>2. e = [trs |-> "Error", code |-> raw.payload.code]
      BY <1>1, <2>5 DEF TrsPayloadFromC
    <3>3. e \in TrsReply
      BY <3>1, <3>2 DEF TrsReply, osdp_trs_error
    <3>4. [code |-> e.code] \in TrsPayloadToC(e)
      BY <3>2 DEF TrsPayloadToC
    <3> QED
      BY <3>3, <3>4
  <2> QED
    BY <1>2, <2>1, <2>2, <2>3, <2>4, <2>5 DEF TrsReplyCode
<1>4. PICK payload : payload \in TrsPayloadToC(e)
  BY <1>3
<1>5. [reply |-> TrsReplyCode[e.trs], payload |-> payload] \in TrsReplyToC(e)
  BY <1>4 DEF TrsReplyToC
<1> QED
  BY <1>3, <1>5

(* Every kind of event.                                                    *)
LEMMA EventBodyDecoded ==
  ASSUME NEW kind \in DOMAIN EventType, NEW raw \in EventMember(kind), NEW e \in EventBodyFromC(kind, raw)
  PROVE  /\ e \in EventBody(kind)
         /\ \/ EventBodyToC(kind, e) # {}
            \/ kind \in {"PivData", "GenAuth", "CrAuth"} /\ e.data = <<>>
<1>1. CASE kind = "CardRead"
  BY <1>1, CardReadDecoded DEF EventMember, EventBody, EventBodyToC, EventBodyFromC
<1>2. CASE kind = "KeyPress"
  BY <1>2, KeyPressDecoded DEF EventMember, EventBody, EventBodyToC, EventBodyFromC
<1>3. CASE kind = "MfgReply"
  BY <1>3, MfgReplyDecoded DEF EventMember, EventBody, EventBodyToC, EventBodyFromC
<1>4. CASE kind \in {"MfgStatus", "MfgError"}
  BY <1>4, MfgStatusDecoded DEF EventMember, EventBody, EventBodyToC, EventBodyFromC
<1>5. CASE kind = "BioRead"
  BY <1>5, BioReadReplyDecoded DEF EventMember, EventBody, EventBodyToC, EventBodyFromC
<1>6. CASE kind = "BioMatch"
  BY <1>6, BioMatchReplyDecoded DEF EventMember, EventBody, EventBodyToC, EventBodyFromC
<1>7. CASE kind \in {"PivData", "GenAuth", "CrAuth"}
  <2>1. e \in PivReply /\ (e.data # <<>> => PivReplyToC(e) # {})
    BY <1>7, PivReplyDecoded DEF EventMember, EventBodyFromC
  <2> QED
    BY <1>7, <2>1 DEF EventBody, EventBodyToC
<1>8. CASE kind = "Trs"
  BY <1>8, TrsReplyDecoded DEF EventMember, EventBody, EventBodyToC, EventBodyFromC
<1>9. CASE kind = "Status"
  BY <1>9, StatusDecoded DEF EventMember, EventBody, EventBodyToC, EventBodyFromC
<1> QED
  BY <1>1, <1>2, <1>3, <1>4, <1>5, <1>6, <1>7, <1>8, <1>9 DEF EventType

(* LibOSDP drops a direction, and the struct stays one.                    *)
LEMMA CarriedIsEvent ==
  ASSUME NEW raw, IsEvent(raw)
  PROVE  IsEvent(Carried(raw)) /\ Carried(raw).type_ = raw.type_
<1>1. CASE raw.type_ # EventType["CardRead"]
  BY <1>1 DEF Carried
<1>2. CASE raw.type_ = EventType["CardRead"]
  <2>1. "CardRead" \in Decode(EventType, raw.type_)
    BY <1>2 DEF Decode, EventType
  <2>2. raw.body \in osdp_event_cardread
    BY <2>1 DEF IsEvent, EventMember
  <2>3. Carried(raw) = [type_ |-> raw.type_, flags |-> raw.flags, body |-> [raw.body EXCEPT !.direction = 0]]
    BY <1>2 DEF Carried, IsEvent
  <2>4. [raw.body EXCEPT !.direction = 0] \in osdp_event_cardread
    BY <2>2 DEF osdp_event_cardread, Int32
  <2>5. Decode(EventType, raw.type_) = {"CardRead"} /\ raw.type_ # OSDP_EVENT_NOTIFICATION
    BY <1>2 DEF Decode, EventType, OSDP_EVENT_NOTIFICATION
  <2>6. raw.type_ \in Byte /\ raw.flags \in Uint32
    BY DEF IsEvent
  <2> QED
    BY <2>3, <2>4, <2>5, <2>6 DEF IsEvent, EventMember
<1> QED
  BY <1>1, <1>2

LEMMA EventDecoded ==
  ASSUME NEW raw, IsEvent(raw), NEW e \in EventFromC(raw)
  PROVE  IsValue("event", e) /\ MayRelay("event", e)
<1>0. PICK kind \in Decode(EventType, raw.type_) :
        \E body \in EventBodyFromC(kind, raw.body) : e = [kind |-> kind, body |-> body]
  BY DEF EventFromC
<1>1. PICK body \in EventBodyFromC(kind, raw.body) : e = [kind |-> kind, body |-> body]
  BY <1>0
<1>2. kind \in DOMAIN EventType /\ raw.body \in EventMember(kind)
  BY DecodeIn DEF IsEvent
<1>3. /\ body \in EventBody(kind)
      /\ \/ EventBodyToC(kind, body) # {}
         \/ kind \in {"PivData", "GenAuth", "CrAuth"} /\ body.data = <<>>
  BY <1>2, EventBodyDecoded
<1>4. IsValue("event", e)
  BY <1>1, <1>2, <1>3 DEF IsValue
<1>5. ReceivedOnly("event", e) \/ EventBodyToC(kind, body) # {}
  BY <1>1, <1>3 DEF ReceivedOnly
<1>6. EventBodyToC(kind, body) # {} => EventToC(e) # {}
  BY <1>1 DEF EventToC
<1> QED
  BY <1>4, <1>5, <1>6 DEF MayRelay, ToC

(* A notification is one of the crate's.                                   *)
LEMMA NotificationDecoded ==
  ASSUME NEW raw \in osdp_notification, NEW note \in NotificationFromC(raw)
  PROVE  note \in Notification
<1>1. PICK type \in Decode(NotificationType, raw.type_) : note \in NotificationBody(type, raw.body)
  BY DEF NotificationFromC
<1>2. type \in DOMAIN NotificationType /\ NotificationType[type] = raw.type_
  BY DEF Decode
<1>3. CASE type = "ScStatus"
  <2>1. raw.body \in osdp_notification_sc_status
    BY <1>2, <1>3 DEF osdp_notification, NotificationType
  <2> QED
    BY <1>1, <1>3, <2>1 DEF NotificationBody, osdp_notification_sc_status, Notification
<1>4. CASE type = "PdStatus"
  <2>1. raw.body \in osdp_notification_pd_status
    BY <1>2, <1>4 DEF osdp_notification, NotificationType
  <2> QED
    BY <1>1, <1>4, <2>1 DEF NotificationBody, osdp_notification_pd_status, Notification
<1>5. CASE type \in {"MpStart", "MpProgress", "MpDone"}
  <2>1. raw.body.moved \in Int
    <3>1. raw.body \in osdp_mp_notification
      BY <1>2, <1>5 DEF osdp_notification, NotificationType
    <3> QED
      BY <3>1 DEF osdp_mp_notification, Int32
  <2>2. CASE type \in {"MpStart", "MpProgress"}
    <3>1. PICK mp \in DOMAIN MpKindCode, phase \in {"Start", "Progress"} :
            note = [mp |-> mp, phase |-> phase, outcome |-> "None", moved |-> raw.body.moved]
      BY <1>1, <2>2, DecodeIn DEF NotificationBody, MultipartFromC
    <3> QED
      BY <2>1, <3>1 DEF Notification, Multipart
  <2>3. CASE type = "MpDone"
    <3>1. PICK mp \in DOMAIN MpKindCode, ended \in DOMAIN MpOutcomeCode :
            note = [mp |-> mp, phase |-> "Done", outcome |-> ended, moved |-> raw.body.moved]
      BY <1>1, <2>3, DecodeIn DEF NotificationBody, MultipartFromC
    <3> QED
      BY <2>1, <3>1 DEF Notification, Multipart
  <2> QED
    BY <1>5, <2>2, <2>3
<1>6. CASE type = "PdId"
  <2>1. raw.body \in osdp_pd_id
    BY <1>2, <1>6 DEF osdp_notification, NotificationType
  <2>2. ToLeBytes(raw.body.vendor_code) \in Vendor /\ ToLeBytes(raw.body.firmware_version) \in Vendor
    BY <2>1, VendorDecoded DEF osdp_pd_id, Uint32
  <2>3. ByteOrZero(raw.body.version) \in Byte /\ ByteOrZero(raw.body.model) \in Byte
    BY DEF ByteOrZero, Byte, U8
  <2>4. note = PdIdFromC(raw.body)
    BY <1>1, <1>6 DEF NotificationBody
  <2> QED
    BY <2>2, <2>3, <2>4 DEF PdIdFromC, PdId, Notification
<1>7. CASE type = "TrsStatus"
  <2>1. \E session \in DOMAIN TrsSessionCode : note = [session |-> session]
    BY <1>1, <1>7, DecodeIn DEF NotificationBody
  <2> QED
    BY <2>1 DEF Notification
<1> QED
  BY <1>2, <1>3, <1>4, <1>5, <1>6, <1>7 DEF NotificationType
-----------------------------------------------------------------------------
(* What was accepted once is accepted again after it arrived.              *)

LEMMA ParamsSentAgain ==
  ASSUME NEW params, NEW code, NEW timer, NEW raw \in LedParamsToC(params, code, timer)
  PROVE  \E again : again \in LedParamsToC(NamedParams(params), code, timer)
<1>1. PICK on \in ToCount(params.on_time, Tenth, U8), off \in ToCount(params.off_time, Tenth, U8),
           count \in ToCount(timer, Tenth, U16) : TRUE
  BY DEF LedParamsToC
<1> DEFINE named == NamedParams(params)
<1>2. named.on_time = params.on_time /\ named.off_time = params.off_time
  BY DEF NamedParams
<1> HIDE DEF named
<1>3. [control_code |-> code, on_count |-> on, off_count |-> off, timer_count |-> count,
       on_color |-> OpenToC(LedColorCode, named.on_color),
       off_color |-> OpenToC(LedColorCode, named.off_color)] \in LedParamsToC(named, code, timer)
  BY <1>1, <1>2 DEF LedParamsToC
<1> QED
  BY <1>3 DEF named

LEMMA LedSentAgain ==
  ASSUME NEW c \in LedCommand, NEW raw \in LedToC(c)
  PROVE  LedToC(CanonicalCommand("Led", c)) # {}
<1>1. PICK t \in LedTemporaryToC(c.temporary), p \in LedPermanentToC(c.permanent) : TRUE
  BY DEF LedToC
<1>2. c.temporary \in LedTemporary /\ c.permanent \in LedPermanent
  BY DEF LedCommand
<1>3. NamedState(c.temporary) = [action |-> c.temporary.action, timer |-> c.temporary.timer,
                                 params |-> NamedParams(c.temporary.params)]
  BY <1>2 DEF LedTemporary, NamedState
<1>4. NamedState(c.permanent) = [action |-> c.permanent.action,
                                 params |-> NamedParams(c.permanent.params)]
  BY <1>2 DEF LedPermanent, NamedState
<1>5. PICK x : x \in LedTemporaryToC(NamedState(c.temporary))
  <2>1. t \in LedParamsToC(c.temporary.params, LedTemporaryCode[c.temporary.action], c.temporary.timer)
    BY <1>1 DEF LedTemporaryToC
  <2>2. \E again : again \in LedParamsToC(NamedParams(c.temporary.params),
                                          LedTemporaryCode[c.temporary.action], c.temporary.timer)
    BY <2>1, ParamsSentAgain
  <2> QED
    BY <1>3, <2>2 DEF LedTemporaryToC
<1>6. PICK y : y \in LedPermanentToC(NamedState(c.permanent))
  <2>1. p \in LedParamsToC(c.permanent.params, LedPermanentCode[c.permanent.action], 0)
    BY <1>1 DEF LedPermanentToC
  <2>2. \E again : again \in LedParamsToC(NamedParams(c.permanent.params),
                                          LedPermanentCode[c.permanent.action], 0)
    BY <2>1, ParamsSentAgain
  <2> QED
    BY <1>4, <2>2 DEF LedPermanentToC
<1> DEFINE named == CanonicalCommand("Led", c)
<1>7. named.temporary = NamedState(c.temporary) /\ named.permanent = NamedState(c.permanent)
  BY DEF CanonicalCommand
<1> HIDE DEF named
<1>8. [reader |-> named.reader, led_number |-> named.led_number, temporary |-> x, permanent |-> y]
        \in LedToC(named)
  BY <1>5, <1>6, <1>7 DEF LedToC
<1> QED
  BY <1>8 DEF named

LEMMA CommandSentAgain ==
  ASSUME NEW c, IsValue("command", c), NEW raw \in CommandToC(c)
  PROVE  MayRelay("command", Canonical("command", c))
<1>1. c.kind \in DOMAIN CommandId /\ c.body \in Body(c.kind)
  BY DEF IsValue
<1>2. PICK out \in BodyToC(c.kind, c.body) : TRUE
  BY DEF CommandToC
<1> DEFINE body == CanonicalCommand(c.kind, c.body)
<1>3. \E again : again \in BodyToC(c.kind, body)
  <2>1. CASE c.kind = "Led"
    BY <1>1, <1>2, <2>1, LedSentAgain DEF Body, BodyToC
  <2>2. CASE c.kind = "BioRead"
    BY <2>2 DEF BodyToC, BioReadToC
  <2>3. CASE c.kind = "BioMatch"
    <3>1. PICK data \in ToBuffer(c.body.template, 128, U16) : TRUE
      BY <1>2, <2>3 DEF BodyToC, BioMatchToC
    <3>2. body.template = c.body.template
      BY <2>3 DEF CanonicalCommand
    <3> HIDE DEF body
    <3>3. [reader |-> body.reader, type_ |-> OpenToC(BioTypeCode, body.kind),
           format |-> OpenToC(BioFormatCode, body.format), quality |-> body.threshold, data |-> data]
            \in BioMatchToC(body)
      BY <3>1, <3>2 DEF BioMatchToC
    <3> QED
      BY <2>3, <3>3 DEF BodyToC
  <2>4. CASE c.kind \notin {"Led", "BioRead", "BioMatch"}
    BY <1>2, <2>4 DEF CanonicalCommand
  <2> QED
    BY <2>1, <2>2, <2>3, <2>4
<1>4. PICK again : again \in BodyToC(c.kind, body)
  BY <1>3
<1>5. Canonical("command", c) = [kind |-> c.kind, body |-> body]
  BY DEF Canonical
<1> HIDE DEF body
<1>6. [id |-> CommandId[c.kind], flags |-> 0, body |-> again] \in CommandToC(Canonical("command", c))
  BY <1>4, <1>5 DEF CommandToC
<1> QED
  BY <1>6 DEF MayRelay, ToC

LEMMA CardSentAgain ==
  ASSUME NEW e \in CardRead, NEW raw \in CardReadToC(e)
  PROVE  CardReadToC(CanonicalEvent("CardRead", e)) # {}
<1> DEFINE n == BytesFor(e.nr_bits)
           cut == CanonicalEvent("CardRead", e)
<1>1. PICK data \in ToBuffer(e.data, 64, U16) : e.nr_bits <= 8 * Len(e.data)
  BY DEF CardReadToC
<1>2. e.data \in Bytes /\ e.nr_bits \in Nat
  BY DEF CardRead
<1>3. e.data \in Seq(Byte) /\ Len(e.data) \in Nat /\ Len(e.data) <= 64
  BY <1>2, <1>1, BufferOf
<1>4. n \in Nat /\ n <= Len(e.data) /\ e.nr_bits <= 8 * n
  <2>1. e.nr_bits <= 8 * Len(e.data)
    BY <1>1
  <2>2. e.nr_bits \in Nat /\ Len(e.data) \in Nat
    BY <1>2, <1>3
  <2> QED
    BY <2>1, <2>2 DEF BytesFor
<1>5. cut.nr_bits = e.nr_bits /\ cut.data = SubSeq(e.data, 1, n)
  BY DEF CanonicalEvent
<1> HIDE DEF n, cut
<1>6. \A i \in 1..n : e.data[i] \in Byte
  BY <1>3, <1>4
<1>7. Len(cut.data) = n
  BY <1>4, <1>5, <1>6, SubSeqProperties
<1>8. PICK out : out \in ToBuffer(cut.data, 64, U16)
  <2>1. Len(cut.data) \in Nat /\ Len(cut.data) <= 64
    BY <1>3, <1>4, <1>7
  <2> QED
    BY <2>1, ShortFits
<1>9. cut.nr_bits <= 8 * Len(cut.data)
  BY <1>4, <1>5, <1>7
<1>10. [reader_no |-> cut.reader_no, format |-> CardFormatCode[cut.format],
        direction |-> FlagToC(cut.direction),
        length |-> cut.nr_bits % (U16 + 1), bytes |-> out.bytes] \in CardReadToC(cut)
  BY <1>8, <1>9 DEF CardReadToC
<1> QED
  BY <1>10 DEF cut

LEMMA StatusSentAgain ==
  ASSUME NEW e \in Status, NEW raw \in StatusToC(e)
  PROVE  \E again : again \in StatusToC(CanonicalEvent("Status", e))
<1>1. CASE e.status = "Reader"
  <2> DEFINE named == CanonicalEvent("Status", e)
  <2>1. e.readers \in Seq(Open(ReaderStatusCode))
    BY <1>1 DEF Status
  <2>2. /\ named.status = "Reader"
        /\ named.readers = [i \in DOMAIN e.readers |-> Named(ReaderStatusCode, e.readers[i])]
    BY <1>1 DEF CanonicalEvent
  <2> HIDE DEF named
  <2>3. Len(e.readers) \in Nat /\ DOMAIN e.readers = 1..Len(e.readers)
    BY <2>1
  <2>4. StatusEntries(e) = [i \in DOMAIN e.readers |-> OpenToC(ReaderStatusCode, e.readers[i])]
    BY <1>1 DEF StatusEntries
  <2>5. StatusEntries(named) = [i \in DOMAIN named.readers |-> OpenToC(ReaderStatusCode, named.readers[i])]
    BY <2>2 DEF StatusEntries
  <2>6. Len(StatusEntries(e)) = Len(e.readers) /\ Len(StatusEntries(named)) = Len(e.readers)
    <3>1. DOMAIN StatusEntries(e) = 1..Len(e.readers) /\ DOMAIN StatusEntries(named) = 1..Len(e.readers)
      BY <2>2, <2>3, <2>4, <2>5
    <3>2. StatusEntries(e) \in Bytes
      BY <2>1, <2>4, ReadersRoundTrip
    <3>3. named.readers \in Seq(Open(ReaderStatusCode))
      BY <2>1, <2>2, NamedIsOpen
    <3>4. StatusEntries(named) \in Bytes
      BY <2>5, <3>3, ReadersRoundTrip
    <3> QED
      BY <2>3, <3>1, <3>2, <3>4 DEF Bytes
  <2>7. ~(Len(StatusEntries(e)) > 64)
    BY DEF StatusToC, ToBuffer
  <2>8. PICK out : out \in ToBuffer(StatusEntries(named), 64, U16)
    BY <2>3, <2>6, <2>7, ShortFits
  <2>9. [type_ |-> StatusCode[named.status], report |-> out] \in StatusToC(named)
    BY <2>8 DEF StatusToC
  <2> QED
    BY <2>9 DEF named
<1>2. CASE e.status # "Reader"
  BY <1>2 DEF CanonicalEvent
<1> QED
  BY <1>1, <1>2

LEMMA EventSentAgain ==
  ASSUME NEW e, IsValue("event", e), NEW raw \in EventToC(e)
  PROVE  MayRelay("event", Canonical("event", e))
<1>1. e.kind \in DOMAIN EventType /\ e.body \in EventBody(e.kind)
  BY DEF IsValue
<1>2. PICK out \in EventBodyToC(e.kind, e.body) : TRUE
  BY DEF EventToC
<1> DEFINE body == CanonicalEvent(e.kind, e.body)
<1>3. \E again : again \in EventBodyToC(e.kind, body)
  <2>1. CASE e.kind = "CardRead"
    BY <1>1, <1>2, <2>1, CardSentAgain DEF EventBody, EventBodyToC
  <2>2. CASE e.kind = "BioRead"
    <3>1. PICK data \in ToBuffer(e.body.template, 256, U16) : TRUE
      BY <1>2, <2>2 DEF EventBodyToC, BioReadReplyToC
    <3>2. body.template = e.body.template
      BY <2>2 DEF CanonicalEvent
    <3> HIDE DEF body
    <3>3. [reader |-> body.reader, status |-> OpenToC(BioStatusCode, body.status),
           type_ |-> OpenToC(BioTypeCode, body.kind), quality |-> body.quality, data |-> data]
            \in BioReadReplyToC(body)
      BY <3>1, <3>2 DEF BioReadReplyToC
    <3> QED
      BY <2>2, <3>3 DEF EventBodyToC
  <2>3. CASE e.kind = "BioMatch"
    BY <2>3 DEF EventBodyToC, BioMatchReplyToC
  <2>4. CASE e.kind = "Status"
    BY <1>1, <1>2, <2>4, StatusSentAgain DEF EventBody, EventBodyToC
  <2>5. CASE e.kind \notin {"CardRead", "BioRead", "BioMatch", "Status"}
    BY <1>2, <2>5 DEF CanonicalEvent
  <2> QED
    BY <2>1, <2>2, <2>3, <2>4, <2>5
<1>4. PICK again : again \in EventBodyToC(e.kind, body)
  BY <1>3
<1>5. Canonical("event", e) = [kind |-> e.kind, body |-> body]
  BY DEF Canonical
<1> HIDE DEF body
<1>6. [type_ |-> EventType[e.kind], flags |-> 0, body |-> again] \in EventToC(Canonical("event", e))
  BY <1>4, <1>5 DEF EventToC
<1> QED
  BY <1>6 DEF MayRelay, ToC
-----------------------------------------------------------------------------
(* Where a struct comes from.  What this crate made is an encoding of a    *)
(* value that was sent; the rest is a struct of another origin.            *)
Origin ==
  \A w \in wire :
    /\ w.way \in Ways
    /\ \A s \in sent : w.way = s.way /\ w.raw \in ToC(s.way, s.value)
    /\ sent = {} =>
         \/ w.way = "command" /\ IsCmd(w.raw)
         \/ w.way = "event" /\ IsEvent(w.raw)

(* What is sent is a value, and what is handed over is one that may be     *)
(* sent on.                                                                *)
Sent == \A s \in sent : s.way \in Ways /\ IsValue(s.way, s.value)

Handed == \A g \in got : g.way \in Ways => MayRelay(g.way, g.value)

ExchangeInv ==
  /\ Origin /\ Sent /\ Handed
  /\ TypeOK /\ ArrivesAsSent /\ AcceptedIsReadable /\ RelayIsAccepted

LEMMA SendKeeps ==
  ASSUME NEW way \in Ways, NEW value, IsValue(way, value), NEW relayed,
         relayed => MayRelay(way, value), Send(way, value, relayed)
  PROVE  ExchangeInv'
<1>1. sent' = {[way |-> way, value |-> value, relayed |-> relayed]} /\ got' = {}
  BY DEF Send
<1>2. wire' = {[way |-> way, raw |-> raw] : raw \in ToC(way, value)}
  BY DEF Send
<1>3. outcome' = (IF ToC(way, value) = {} THEN "refused" ELSE "sent") /\ answer' = NoAnswer
  BY DEF Send
<1>4. Origin'
  <2>1. sent' # {} /\ \A s \in sent' : s.way = way /\ s.value = value
    BY <1>1
  <2>2. \A w \in wire' : w.way = way /\ w.raw \in ToC(way, value)
    BY <1>2
  <2> QED
    BY <2>1, <2>2 DEF Origin
<1>5. Sent' /\ Handed' /\ TypeOK'
  BY <1>1, <1>3 DEF Sent, Handed, TypeOK
<1>6. RelayIsAccepted'
  <2>1. ASSUME outcome' = "refused", relayed
        PROVE  ReceivedOnly(way, value)
    BY <1>3, <2>1 DEF MayRelay
  <2> QED
    BY <1>1, <2>1 DEF RelayIsAccepted
<1> QED
  BY <1>1, <1>3, <1>4, <1>5, <1>6 DEF ExchangeInv, ArrivesAsSent, AcceptedIsReadable

(* What a callback may answer and how it ends.                             *)
LEMMA ReturnIsTyped ==
  ASSUME NEW raw, PdCommand(raw) \/ CpEvent(raw)
  PROVE  /\ wire' = {} /\ sent' = sent
         /\ outcome' \in {"delivered", "malformed", "unhandled"}
         /\ answer' \in {0, -1} \union {AsC(nak) : nak \in DOMAIN NakCode}
<1>1. AsC("Record") \in {AsC(nak) : nak \in DOMAIN NakCode}
  BY DEF NakCode
<1> QED
  BY <1>1 DEF PdCommand, CpEvent, Return

(* A callback at the other end that was handed what this crate made.       *)
LEMMA DeliverSent ==
  ASSUME ExchangeInv, NEW w \in wire, sent # {},
         \/ w.way = "command" /\ PdCommand(w.raw)
         \/ w.way = "event" /\ CpEvent(Carried(w.raw))
  PROVE  ExchangeInv'
<1>1. PICK s \in sent : w.way = s.way /\ w.raw \in ToC(s.way, s.value) /\ IsValue(s.way, s.value)
  BY DEF ExchangeInv, Origin, Sent
<1>2. \A t \in sent : t.way = s.way /\ w.raw \in ToC(t.way, t.value) /\ IsValue(t.way, t.value)
  BY <1>1 DEF ExchangeInv, Origin, Sent
<1>3. /\ wire' = {} /\ sent' = sent
      /\ outcome' \in {"delivered", "malformed", "unhandled"}
      /\ answer' \in {0, -1} \union {AsC(nak) : nak \in DOMAIN NakCode}
  BY ReturnIsTyped
<1>4. /\ outcome' # "malformed"
      /\ got' = {} \/ got' = {[way |-> s.way, value |-> Canonical(s.way, s.value)]}
      /\ IsValue(s.way, Canonical(s.way, s.value)) /\ MayRelay(s.way, Canonical(s.way, s.value))
      /\ \A t \in sent : Canonical(t.way, t.value) = Canonical(s.way, s.value)
  <2>1. CASE w.way = "command"
    <3>1. \A t \in sent : CommandFromC(w.raw) = {Canonical("command", t.value)}
      BY <1>1, <1>2, <2>1, CommandRoundTrip DEF ToC
    <3>2. CommandFromC(w.raw) = {Canonical("command", s.value)} /\ w.raw.id # OSDP_CMD_NOTIFICATION
      BY <1>1, <2>1, CommandRoundTrip DEF ToC
    <3>3. PdCommand(w.raw)
      BY <2>1
    <3>4. \/ Return("command", {Canonical("command", s.value)}, "delivered", answer')
          \/ Return("command", {}, "unhandled", answer')
      BY <3>2, <3>3 DEF PdCommand, Return
    <3>5. /\ outcome' # "malformed"
          /\ got' = {} \/ got' = {[way |-> "command", value |-> Canonical("command", s.value)]}
      BY <3>4 DEF Return
    <3>6. \A t \in sent : Canonical("command", t.value) = Canonical("command", s.value)
      BY <3>1, <3>2
    <3>7. MayRelay("command", Canonical("command", s.value))
      BY <1>1, <2>1, CommandSentAgain DEF ToC
    <3> QED
      BY <1>1, <1>2, <2>1, <3>5, <3>6, <3>7, CommandStays
  <2>2. CASE w.way = "event"
    <3>1. \A t \in sent : EventFromC(Carried(w.raw)) = {Canonical("event", t.value)}
      BY <1>1, <1>2, <2>2, EventRoundTrip DEF ToC
    <3>2. /\ EventFromC(Carried(w.raw)) = {Canonical("event", s.value)}
          /\ Carried(w.raw).type_ # OSDP_EVENT_NOTIFICATION
          /\ IsValue("event", Canonical("event", s.value))
      BY <1>1, <2>2, EventRoundTrip, EventStays DEF ToC
    <3>3. CpEvent(Carried(w.raw))
      BY <2>2
    <3>4. /\ outcome' # "malformed"
          /\ got' = {[way |-> "event", value |-> Canonical("event", s.value)]}
      BY <3>2, <3>3 DEF CpEvent, Return
    <3>5. \A t \in sent : Canonical("event", t.value) = Canonical("event", s.value)
      BY <3>1, <3>2
    <3>6. MayRelay("event", Canonical("event", s.value))
      BY <1>1, <2>2, EventSentAgain DEF ToC
    <3> QED
      BY <1>1, <1>2, <2>2, <3>2, <3>4, <3>5, <3>6
  <2> QED
    BY <1>1, <1>2, <2>1, <2>2 DEF Ways, ExchangeInv, Origin
<1>5. Origin' /\ Sent'
  BY <1>3 DEF ExchangeInv, Origin, Sent
<1>6. Handed'
  BY <1>4 DEF Handed
<1>7. TypeOK'
  BY <1>3, <1>4 DEF TypeOK
<1>8. ArrivesAsSent'
  BY <1>2, <1>3, <1>4 DEF ArrivesAsSent
<1>9. AcceptedIsReadable' /\ RelayIsAccepted'
  BY <1>3, <1>4 DEF AcceptedIsReadable, RelayIsAccepted
<1> QED
  BY <1>5, <1>6, <1>7, <1>8, <1>9 DEF ExchangeInv

(* A callback that was handed a struct with another origin.                *)
LEMMA DeliverRaised ==
  ASSUME ExchangeInv, NEW w \in wire, sent = {},
         \/ w.way = "command" /\ PdCommand(w.raw)
         \/ w.way = "event" /\ CpEvent(Carried(w.raw))
  PROVE  ExchangeInv'
<1>1. /\ wire' = {} /\ sent' = {}
      /\ outcome' \in {"delivered", "malformed", "unhandled"}
      /\ answer' \in {0, -1} \union {AsC(nak) : nak \in DOMAIN NakCode}
  BY ReturnIsTyped
<1>2. \A g \in got' : IsValue(g.way, g.value) /\ (g.way \in Ways => MayRelay(g.way, g.value))
  <2>1. CASE w.way = "command"
    <3>0. IsCmd(w.raw)
      BY <2>1 DEF ExchangeInv, Origin
    <3>1. CASE w.raw.id = OSDP_CMD_NOTIFICATION
      <4>1. got' = {[way |-> "notification", value |-> note] : note \in NotificationFromC(w.raw.body)}
        BY <2>1, <3>1 DEF PdCommand, Return
      <4>2. \A note \in NotificationFromC(w.raw.body) : note \in Notification
        BY <3>0, <3>1, NotificationDecoded DEF IsCmd
      <4> QED
        BY <4>1, <4>2 DEF IsValue, Ways
    <3>2. CASE w.raw.id # OSDP_CMD_NOTIFICATION
      <4>1. \A c \in CommandFromC(w.raw) : IsValue("command", c) /\ MayRelay("command", c)
        BY <3>0, CommandDecoded
      <4>2. got' = {} \/ got' = {[way |-> "command", value |-> c] : c \in CommandFromC(w.raw)}
        BY <2>1, <3>2 DEF PdCommand, Return
      <4> QED
        BY <4>1, <4>2
    <3> QED
      BY <3>1, <3>2
  <2>2. CASE w.way = "event"
    <3> DEFINE raw == Carried(w.raw)
    <3>0. IsEvent(raw) /\ CpEvent(raw)
      BY <2>2, CarriedIsEvent DEF ExchangeInv, Origin
    <3> HIDE DEF raw
    <3>1. CASE raw.type_ = OSDP_EVENT_NOTIFICATION
      <4>1. got' = {[way |-> "notification", value |-> note] : note \in NotificationFromC(raw.body)}
        BY <3>0, <3>1 DEF CpEvent, Return
      <4>2. \A note \in NotificationFromC(raw.body) : note \in Notification
        BY <3>0, <3>1, NotificationDecoded DEF IsEvent
      <4> QED
        BY <4>1, <4>2 DEF IsValue, Ways
    <3>2. CASE raw.type_ # OSDP_EVENT_NOTIFICATION
      <4>1. \A e \in EventFromC(raw) : IsValue("event", e) /\ MayRelay("event", e)
        BY <3>0, EventDecoded
      <4>2. got' = {[way |-> "event", value |-> e] : e \in EventFromC(raw)}
        BY <3>0, <3>2 DEF CpEvent, Return
      <4> QED
        BY <4>1, <4>2
    <3> QED
      BY <3>1, <3>2
  <2> QED
    BY <2>1, <2>2
<1>3. Origin' /\ Sent' /\ ArrivesAsSent' /\ AcceptedIsReadable' /\ RelayIsAccepted'
  BY <1>1 DEF Origin, Sent, ArrivesAsSent, AcceptedIsReadable, RelayIsAccepted
<1>4. Handed'
  BY <1>2 DEF Handed
<1>5. TypeOK'
  BY <1>1, <1>2 DEF TypeOK
<1> QED
  BY <1>3, <1>4, <1>5 DEF ExchangeInv

(* A struct that LibOSDP raises.                                           *)
LEMMA RaiseKeeps ==
  ASSUME NEW way, NEW raw, Raise(way, raw),
         \/ way = "command" /\ IsCmd(raw)
         \/ way = "event" /\ IsEvent(raw)
  PROVE  ExchangeInv'
<1>1. /\ wire' = {[way |-> way, raw |-> raw]} /\ sent' = {} /\ got' = {}
      /\ outcome' = "raised" /\ answer' = NoAnswer
  BY DEF Raise
<1>2. Origin'
  BY <1>1 DEF Origin, Ways
<1> QED
  BY <1>1, <1>2
     DEF ExchangeInv, Sent, Handed, TypeOK, ArrivesAsSent, AcceptedIsReadable, RelayIsAccepted

LEMMA NoteIsStruct ==
  ASSUME NEW raw \in osdp_notification
  PROVE  /\ IsCmd([id |-> OSDP_CMD_NOTIFICATION, flags |-> 0, body |-> raw])
         /\ IsEvent([type_ |-> OSDP_EVENT_NOTIFICATION, flags |-> 0, body |-> raw])
<1>1. /\ OSDP_CMD_NOTIFICATION \in Byte /\ Decode(CommandId, OSDP_CMD_NOTIFICATION) = {}
      /\ OSDP_EVENT_NOTIFICATION \in Byte /\ Decode(EventType, OSDP_EVENT_NOTIFICATION) = {}
      /\ 0 \in Uint32
  BY DEF OSDP_CMD_NOTIFICATION, OSDP_EVENT_NOTIFICATION, Byte, U8, Decode, CommandId, EventType, Uint32
<1> QED
  BY <1>1 DEF IsCmd, IsEvent

LEMMA Inductive == ExchangeInv /\ [Next]_vars => ExchangeInv'
<1> SUFFICES ASSUME ExchangeInv, [Next]_vars
             PROVE  ExchangeInv'
  OBVIOUS
<1>1. CASE Finish
  BY <1>1 DEF Finish, ExchangeInv, Origin, Sent, Handed, TypeOK, ArrivesAsSent, AcceptedIsReadable,
              RelayIsAccepted
<1>2. CASE Submit
  <2>1. PICK way \in Ways : \E value \in Values(way) : Send(way, value, FALSE)
    BY <1>2 DEF Submit
  <2>2. PICK value \in Values(way) : Send(way, value, FALSE)
    BY <2>1
  <2>3. IsValue(way, value)
    BY <2>2, ValuesAssumption DEF Ways, Values
  <2> QED
    BY <2>2, <2>3, SendKeeps
<1>3. CASE Relay
  <2>1. PICK g \in got : g.way \in Ways /\ Send(g.way, g.value, TRUE)
    BY <1>3 DEF Relay
  <2>2. IsValue(g.way, g.value) /\ MayRelay(g.way, g.value)
    BY <2>1 DEF ExchangeInv, TypeOK, Handed
  <2> QED
    BY <2>1, <2>2, SendKeeps
<1>4. CASE Receive
  <2>1. CASE \E raw \in RawCommands : Raise("command", raw)
    BY <2>1, ValuesAssumption, RaiseKeeps
  <2>2. CASE \E raw \in RawEvents : Raise("event", raw)
    BY <2>2, ValuesAssumption, RaiseKeeps
  <2> QED
    BY <1>4, <2>1, <2>2 DEF Receive
<1>5. CASE Notify
  <2>1. PICK raw \in RawNotifications :
          \/ Raise("command", [id |-> OSDP_CMD_NOTIFICATION, flags |-> 0, body |-> raw])
          \/ Raise("event", [type_ |-> OSDP_EVENT_NOTIFICATION, flags |-> 0, body |-> raw])
    BY <1>5 DEF Notify
  <2>2. /\ IsCmd([id |-> OSDP_CMD_NOTIFICATION, flags |-> 0, body |-> raw])
        /\ IsEvent([type_ |-> OSDP_EVENT_NOTIFICATION, flags |-> 0, body |-> raw])
    BY ValuesAssumption, NoteIsStruct
  <2> QED
    BY <2>1, <2>2, RaiseKeeps
<1>6. CASE Lose
  BY <1>6 DEF Lose, ExchangeInv, Origin, Sent, Handed, TypeOK, ArrivesAsSent, AcceptedIsReadable,
              RelayIsAccepted
<1>7. CASE Deliver
  <2>1. PICK w \in wire :
          \/ w.way = "command" /\ PdCommand(w.raw)
          \/ w.way = "event" /\ CpEvent(Carried(w.raw))
    BY <1>7 DEF Deliver
  <2> QED
    BY <2>1, DeliverSent, DeliverRaised
<1>8. CASE UNCHANGED vars
  BY <1>8 DEF vars, ExchangeInv, Origin, Sent, Handed, TypeOK, ArrivesAsSent, AcceptedIsReadable,
              RelayIsAccepted
<1> QED
  BY <1>1, <1>2, <1>3, <1>4, <1>5, <1>6, <1>7, <1>8 DEF Next

LEMMA Invariance == Spec => []ExchangeInv
<1>1. Init => ExchangeInv
  BY DEF Init, ExchangeInv, Origin, Sent, Handed, TypeOK, ArrivesAsSent, AcceptedIsReadable,
         RelayIsAccepted
<1> QED
  BY <1>1, Inductive, PTL DEF Spec

(* Whatever struct LibOSDP hands to a callback, of any contents that C's   *)
(* types allow, the application is handed a value of the crate's types, or *)
(* nothing (TryFrom<osdp_cmd> for Command, TryFrom<osdp_event> for Event,  *)
(* TryFrom<osdp_notification> for Notification).                           *)
THEOREM TypeCorrect == Spec => []TypeOK
<1>1. ExchangeInv => TypeOK
  BY DEF ExchangeInv
<1> QED
  BY <1>1, Invariance, PTL

(* A command or event that this crate accepted for sending arrives with    *)
(* the meaning it was sent with, whatever it holds (the pairs of TryFrom   *)
(* in commands.rs, events.rs, bio.rs, piv.rs, status.rs and trs.rs are     *)
(* inverse to one another up to what Canonical forgets).                   *)
THEOREM MeaningArrives == Spec => []ArrivesAsSent
<1>1. ExchangeInv => ArrivesAsSent
  BY DEF ExchangeInv
<1> QED
  BY <1>1, Invariance, PTL

(* What one end of this crate accepts for sending, the other end can read  *)
(* (no TryFrom of a callback's struct refuses what a TryFrom of submit     *)
(* made).                                                                  *)
THEOREM AcceptedIsNeverMalformed == Spec => []AcceptedIsReadable
<1>1. ExchangeInv => AcceptedIsReadable
  BY DEF ExchangeInv
<1> QED
  BY <1>1, Invariance, PTL

(* What an application was handed, whoever sent it, it can send on: the    *)
(* checks of the way in and of the way out agree, but for what ReceivedOnly*)
(* names (copy_into, duration.rs and to_payload in piv.rs against the      *)
(* TryFrom of the structs they fill).                                      *)
THEOREM RelayAccepted == Spec => []RelayIsAccepted
<1>1. ExchangeInv => RelayIsAccepted
  BY DEF ExchangeInv
<1> QED
  BY <1>1, Invariance, PTL
-----------------------------------------------------------------------------
LEMMA FitsAWord ==
  ASSUME NEW n \in Nat, n <= U16
  PROVE  n \in Word
<1>1. U16 \in Nat
  BY DEF U16
<1>2. n \in 0..U16
  BY <1>1
<1> QED
  BY <1>2 DEF Word

(* Two conversions that no exchange makes.  The times of a presence scan   *)
(* reach LibOSDP exactly or not at all, in words that hold them            *)
(* (TryFrom<TrsScan> for osdp_trs_scan_params).                            *)
THEOREM ScanIsExact ==
  ASSUME NEW scan \in TrsScan, NEW raw \in TrsScanToC(scan)
  PROVE  /\ FromCount(raw.mode0_dwell_ms, Millisecond) = scan.mode0_dwell
         /\ FromCount(raw.mode1_dwell_ms, Millisecond) = scan.mode1_dwell
         /\ FromCount(raw.hold_ms, Millisecond) = scan.hold
         /\ raw.mode0_dwell_ms \in Word /\ raw.mode1_dwell_ms \in Word /\ raw.hold_ms \in Word
<1>1. scan.mode0_dwell \in Nat /\ scan.mode1_dwell \in Nat /\ scan.hold \in Nat
  BY DEF TrsScan
<1>2. PICK mode0 \in ToCount(scan.mode0_dwell, Millisecond, U16),
           mode1 \in ToCount(scan.mode1_dwell, Millisecond, U16),
           hold  \in ToCount(scan.hold, Millisecond, U16) :
             raw = [mode0_dwell_ms |-> mode0, mode1_dwell_ms |-> mode1, hold_ms |-> hold]
  BY DEF TrsScanToC
<1>3. ASSUME NEW d \in Nat, NEW n \in ToCount(d, Millisecond, U16)
      PROVE  n \in Word
  <2>1. n = d \div 2
    BY DEF ToCount, Millisecond
  <2>2. n <= U16
    BY DEF ToCount
  <2>3. n \in Nat
    BY <2>1
  <2> QED
    BY <2>2, <2>3, FitsAWord
<1>4. /\ FromCount(mode0, Millisecond) = scan.mode0_dwell
      /\ FromCount(mode1, Millisecond) = scan.mode1_dwell
      /\ FromCount(hold, Millisecond) = scan.hold
  BY <1>1, CountRoundTrip
<1>5. mode0 \in Word /\ mode1 \in Word /\ hold \in Word
  BY <1>1, <1>3
<1> QED
  BY <1>2, <1>4, <1>5

(* The identity a PD is built with is the one its CP reads                 *)
(* (From<PdId> for osdp_pd_id, From<osdp_pd_id> for PdId).                 *)
THEOREM IdentityArrives ==
  ASSUME NEW id \in PdId
  PROVE  PdIdFromC(PdIdToC(id)) = id
<1>1. PICK v \in Byte, m \in Byte, oui \in Vendor, f \in Vendor :
        id = [version |-> v, model |-> m, vendor_code |-> oui, firmware_version |-> f]
  BY DEF PdId
<1>2. PdIdToC(id) = [version |-> v, model |-> m, vendor_code |-> AsLe(oui), firmware_version |-> AsLe(f)]
  BY <1>1 DEF PdIdToC
<1>3. ToLeBytes(AsLe(oui)) = oui /\ ToLeBytes(AsLe(f)) = f
  BY LeRoundTrip
<1> QED
  BY <1>1, <1>2, <1>3 DEF PdIdFromC, ByteOrZero
=============================================================================

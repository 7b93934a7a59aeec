----------------------------- MODULE MCExchange -----------------------------
(* Samples for Exchange: every kind of command, event and notification, at *)
(* the limits of each field.                                               *)
EXTENDS Exchange

\* "n" bytes, and the lengths on both sides of the array's and of a byte's.
Data(n) == [i \in 1..n |-> (7 * i) % 256]
Payloads(max) == {Data(n) : n \in {0, 1, max - 1, max, max + 1, 256, 257}}

\* Times on both sides of what a count in a byte or a word of "unit" holds.
Times(unit, max) ==
  {0, unit - 1, unit, unit + 1, unit * 255, unit * 256, unit * max, unit * (max + 1)}

Colors == {<<"Red", 0>>, <<"White", 0>>, <<"Other", 3>>, <<"Other", 8>>}
Params ==
  {NoParams} \union [on_time : Times(Tenth, U8), off_time : {Tenth}, on_color : Colors, off_color : {<<"Blue", 0>>}]
  \union [on_time : {0}, off_time : Times(Tenth, U8), on_color : {<<"Other", 1>>}, off_color : Colors]
Temporaries ==
  {[action |-> a, params |-> NoParams, timer |-> 0] : a \in {"Keep", "Cancel"}}
  \union [action : {"Set"}, params : Params, timer : {Tenth}]
  \union [action : {"Set"}, params : {NoParams}, timer : Times(Tenth, U16)]
Permanents ==
  {[action |-> "Keep", params |-> NoParams]} \union [action : {"Set"}, params : Params]
Kept == [action |-> "Keep", params |-> NoParams]
KeptFor == [action |-> "Keep", params |-> NoParams, timer |-> 0]

Leds == [reader : {1}, led_number : {2}, temporary : Temporaries, permanent : {Kept}]
        \union [reader : {1}, led_number : {2}, temporary : {KeptFor}, permanent : Permanents]
Buzzers == {[reader |-> 1, action |-> "Off", on |-> 0, off |-> 0, repeat |-> 0]}
           \union [reader : {1}, action : {"Tone"}, on : Times(Tenth, U8), off : {Tenth}, repeat : {0, 255}]
           \union [reader : {1}, action : {"Tone"}, on : {Tenth}, off : Times(Tenth, U8), repeat : {1}]
Texts ==
  {[reader |-> 0, mode |-> m, shown_for |-> IF m \in Temporary THEN t ELSE 0,
    offset_row |-> 1, offset_col |-> 2, data |-> Data(3)] :
     m \in DOMAIN TextCode, t \in Times(Second, U8)}
  \union [reader : {0}, mode : {"PermanentWrap"}, shown_for : {0}, offset_row : {1}, offset_col : {1},
          data : Payloads(32)]
Outputs ==
  {[output_no |-> 4, action |-> a, timer |-> IF a \in Timed THEN t ELSE 0] :
     a \in DOMAIN OutputCode, t \in Times(Tenth, U16)}
Dates == [year : {2026}, month : {0, 1, 12, 13}, day : {1, 31, 32}, hour : {23, 24}, minute : {59, 60}, second : {0, 60}]
BioTypes == {<<"NotSpecified", 0>>, <<"RightThumb", 0>>, <<"Other", 17>>, <<"Other", 18>>}
BioFormats == {<<"RawPgm", 0>>, <<"Other", 2>>, <<"Other", 254>>}
PinEntries ==
  [first_digit_timeout : Times(Second, U8), digit_timeout : {Second}, format : DOMAIN PinFormatCode,
   rest : {5}, length_field : {{}}, apdu : {Data(4)}]
  \union [first_digit_timeout : {Second}, digit_timeout : Times(Second, U8), format : {"Bcd"}, rest : {5},
          length_field : {{}} \union {{f} : f \in [size_bits : {0, 1, 15}, offset_bits : {0, 65535}]},
          apdu : Payloads(258)]
Trss == [trs : {"Start", "Stop", "CardScan"}, apdu : {NoApdu}] \union [trs : {"Apdu"}, apdu : Payloads(258)]
        \union [trs : {"EnterPin"}, entry : PinEntries]

CommandBodies(kind) ==
  CASE kind = "Led" -> Leds      [] kind = "Buzzer" -> Buzzers
    [] kind = "Text" -> Texts    [] kind = "Output" -> Outputs
    [] kind \in {"ComSet", "ComSetDone"} -> [address : {0, 126}, baud_rate : {9600}]
    [] kind = "KeySet" -> [key_type : {1}, data : Payloads(32)]
    [] kind = "Mfg" -> [vendor_code : {<<1, 2, 255>>}, data : Payloads(64)]
    [] kind = "FileTx" -> [file : {13}]
    [] kind = "Status" -> [status : DOMAIN StatusCode]
    [] kind = "BioRead" -> [reader : {1}, kind : BioTypes, format : BioFormats, quality : {9}]
    [] kind = "BioMatch" -> [reader : {1}, kind : BioTypes, format : BioFormats, threshold : {9},
                             template : Payloads(128)]
    [] kind = "TimeDate" -> Dates
    [] kind = "PivData" -> [object_id : {<<1, 2, 3>>}, element : {4}, offset : {5}]
    [] kind \in {"GenAuth", "CrAuth"} -> [algorithm : {1}, key : {2}, data : Payloads(256)]
    [] kind = "Trs" -> Trss
MCCommands == UNION {[kind : {kind}, body : CommandBodies(kind)] : kind \in DOMAIN CommandId}
-----------------------------------------------------------------------------
Cards ==
  {[reader_no |-> 0, format |-> f, direction |-> d, nr_bits |-> bits, data |-> Data(n)] :
     f \in DOMAIN CardFormatCode, d \in BOOLEAN, bits \in {0, 1, 26, 32, 504, 512, 520, 65538}, n \in {0, 4, 64, 65}}
Statuses ==
  [status : {"Input", "Output"}, entries : Payloads(64)]
  \union [status : {"Local"}, tamper : BOOLEAN, power : BOOLEAN]
  \union [status : {"Reader"}, readers : {<<>>, <<<<"Tamper", 0>>, <<"Other", 1>>, <<"Other", 3>>>>}]
TrsReplies ==
  [trs : {"CardInfo"}, reader : {0}, protocol : DOMAIN CardProtocolCode, csn : Payloads(32), protocol_data : {Data(5)}]
  \union [trs : {"CardInfo"}, reader : {0}, protocol : {"Contact"}, csn : {Data(4)}, protocol_data : Payloads(64)]
  \union [trs : {"CardPresent"}, reader : {1}, card : DOMAIN CardStatusCode]
  \union [trs : {"CardData"}, reader : {1}, status : {0, 255}, apdu : Payloads(258)]
  \union [trs : {"PinComplete"}, reader : {1}, status : {2}, tries : {3}]
  \union [trs : {"Error"}, code : {255}]

EventBodies(kind) ==
  CASE kind = "CardRead" -> Cards
    [] kind = "KeyPress" -> [reader_no : {1}, data : Payloads(64)]
    [] kind = "MfgReply" -> [vendor_code : {<<1, 2, 255>>}, data : Payloads(128)]
    [] kind \in {"MfgStatus", "MfgError"} -> [data : Payloads(128)]
    [] kind = "BioRead" -> [reader : {1}, status : {<<"Error", 0>>, <<"Other", 255>>, <<"Other", 2>>},
                            kind : BioTypes, quality : {1}, template : Payloads(256)]
    [] kind = "BioMatch" -> [reader : {1}, status : {<<"Timeout", 0>>, <<"Other", 0>>}, score : {0, 255}]
    [] kind \in {"PivData", "GenAuth", "CrAuth"} -> [data : Payloads(256)]
    [] kind = "Trs" -> TrsReplies
    [] kind = "Status" -> Statuses
MCEvents == UNION {[kind : {kind}, body : EventBodies(kind)] : kind \in DOMAIN EventType}
-----------------------------------------------------------------------------
\* An array of "max" bytes with a length that its sender claims.
Claims(max) == {[length |-> n, bytes |-> [i \in 1..max |-> 9]] : n \in {0, 1, max, max + 1}}

RawParams(codes) ==
  [control_code : codes, on_count : {0, 255}, off_count : {1}, timer_count : {0, 65535},
   on_color : {0, 7, 8}, off_color : {2}]
KeptParams == [control_code |-> 0, on_count |-> 3, off_count |-> 3, timer_count |-> 3, on_color |-> 3, off_color |-> 3]
RawPins == [timeout_initial : {0, 255}, timeout_digit : {255}, format : 0..4, rest : {1},
            pin_length_field : [size_bits : {0, 3}, offset_bits : {6}], apdu : Claims(258)]

RawCommandBodies(id) ==
  CASE id = 1 -> [output_no : {0}, control_code : 0..7, timer_count : {0, 65535}]
    [] id = 2 -> [reader : {0}, led_number : {0}, temporary : RawParams(0..3), permanent : {KeptParams}]
                 \union [reader : {0}, led_number : {0}, temporary : {KeptParams}, permanent : RawParams(0..2)]
    [] id = 3 -> [reader : {0}, control_code : 0..3, on_count : {0, 255}, off_count : {255}, rep_count : {7}]
    [] id = 4 -> [reader : {0}, control_code : 0..5, temp_time : {255}, offset_row : {0}, offset_col : {0},
                  data : Claims(32)]
    [] id = 5 -> [type_ : {0}, data : Claims(32)]
    [] id \in {6, 10} -> [address : {127}, baud_rate : {1}]
    [] id = 7 -> [vendor_code : {66051, 16777216 + 66051}, data : Claims(64)]
    [] id = 8 -> [file : {1}, flags : {1}]
    [] id = 9 -> [type_ : 0..4, report : Claims(64)]
    [] id = 12 -> [reader : {0}, type_ : {0, 17, 18}, format : {2, 3}, quality : {0}]
    [] id = 13 -> [reader : {0}, type_ : {18}, format : {255}, quality : {0}, data : Claims(128)]
    [] id = 14 -> [year : {0}, month : {0, 12}, day : {0, 31}, hour : {23, 255}, minute : {59, 60}, second : {59, 60}]
    [] id = 15 -> [object_id : {<<0, 0, 255>>}, element : {0}, offset : {0}]
    [] id \in {16, 17} -> [algorithm : {0}, key : {0}, data : Claims(256)]
    [] id = 18 -> [command : 0..3 \union {5, 6}, apdu : Claims(258)] \union [command : {4}, pin_entry : RawPins]
    [] OTHER -> {<<>>}
MCRawCommands ==
  UNION {[id : {id}, flags : {0}, body : RawCommandBodies(id)] : id \in 0..19 \ {OSDP_CMD_NOTIFICATION}}

RawEventBodies(type) ==
  CASE type = 1 -> [reader_no : {0}, format : 0..2, direction : {0, 1}, length : {0, 1, 26, 512, 513, 65535},
                    bytes : {Data(64)}]
    [] type = 2 -> [reader_no : {0}, data : Claims(64) \union {[length |-> -1, bytes |-> Data(64)]}]
    [] type = 3 -> [vendor_code : {66051, 16777216 + 66051}, data : Claims(128)]
    [] type = 4 -> [type_ : 0..4, report : Claims(64) \union {[length |-> n, bytes |-> Data(64)] : n \in {-1, 2}}]
    [] type \in {6, 7} -> [data : Claims(128)]
    [] type = 8 -> [reader : {0}, status : {0, 2, 255}, type_ : {1, 18}, quality : {0}, data : Claims(256)]
    [] type = 9 -> [reader : {0}, status : {1, 254}, score : {0}]
    [] type \in 10..12 -> [data : Claims(256)]
    [] type = 13 ->
         {[reply |-> 1, payload |-> p] :
            p \in [reader : {0}, protocol : 0..3, csn : Claims(32), protocol_data : Claims(64)]}
         \union {[reply |-> 2, payload |-> p] : p \in [reader : {0}, status : 0..5]}
         \union {[reply |-> 3, payload |-> p] : p \in [reader : {0}, status : {1}, apdu : Claims(258)]}
         \union {[reply |-> 4, payload |-> p] : p \in [reader : {0}, status : {1}, tries : {1}]}
         \union {[reply |-> 5, payload |-> [code |-> 1]]} \union [reply : {0, 6}, payload : Unselected]
    [] OTHER -> {<<>>}
MCRawEvents ==
  UNION {[type_ : {type}, flags : {0}, body : RawEventBodies(type)] : type \in 0..14 \ {OSDP_EVENT_NOTIFICATION}}

RawNotes(type) ==
  CASE type = 0 -> [active : BOOLEAN, scbk_d : BOOLEAN]
    [] type = 1 -> [online : BOOLEAN]
    [] type \in 2..4 -> [mp_type : 0..6, outcome : 0..5, moved : {-1, 65536}]
    [] type = 5 -> [version : {-1, 0, 255, 256}, model : {7}, vendor_code : {66051}, firmware_version : {1}]
    [] type = 6 -> [status : 0..5]
    [] OTHER -> {<<>>}
MCRawNotifications == UNION {[type_ : {type}, body : RawNotes(type)] : type \in 0..7}
=============================================================================

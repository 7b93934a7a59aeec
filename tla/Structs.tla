------------------------------- MODULE Structs -------------------------------
(***************************************************************************)
(* The structs in which LibOSDP hands commands, events and notifications   *)
(* to this crate, with the width of every field (bindings.rs).  An enum of *)
(* C is a byte here.  A number of 32 bits is copied, or taken to pieces    *)
(* that ignore its top, and so stands as any integer.  Of a union, "body"  *)
(* and "payload" are the member that the code beside it selects.           *)
(***************************************************************************)
EXTENDS Events, Notifications

Int32 == Int
Uint32 == Nat

\* An array and the length beside it, which may claim more than there is.
Buffer(lengths, max) == [length : lengths, bytes : [1..max -> Byte]]

\* What a union holds when its code selects no member.
Unselected == {<<>>}

osdp_status_report == [type_ : Byte, report : Buffer(Int32, 64)]

osdp_cmd_bioread  == [reader : Byte, type_ : Byte, format : Byte, quality : Byte]
osdp_cmd_biomatch ==
  [reader : Byte, type_ : Byte, format : Byte, quality : Byte, data : Buffer(Word, 128)]
osdp_cmd_tdset ==
  [year : Word, month : Byte, day : Byte, hour : Byte, minute : Byte, second : Byte]
osdp_cmd_pivdata == [object_id : Byte \X Byte \X Byte, element : Byte, offset : Byte]
osdp_cmd_auth    == [algorithm : Byte, key : Byte, data : Buffer(Word, 256)]
osdp_cmd_output  == [output_no : Byte, control_code : Byte, timer_count : Word]

osdp_cmd_led_params ==
  [control_code : Byte, on_count : Byte, off_count : Byte, timer_count : Word,
   on_color : Byte, off_color : Byte]
osdp_cmd_led ==
  [reader : Byte, led_number : Byte,
   temporary : osdp_cmd_led_params, permanent : osdp_cmd_led_params]
osdp_cmd_buzzer ==
  [reader : Byte, control_code : Byte, on_count : Byte, off_count : Byte, rep_count : Byte]
osdp_cmd_text ==
  [reader : Byte, control_code : Byte, temp_time : Byte, offset_row : Byte, offset_col : Byte,
   data : Buffer(Byte, 32)]
osdp_cmd_comset  == [address : Byte, baud_rate : Uint32]
osdp_cmd_keyset  == [type_ : Byte, data : Buffer(Byte, 32)]
osdp_cmd_mfg     == [vendor_code : Uint32, data : Buffer(Byte, 64)]
osdp_cmd_file_tx == [file : Int32, flags : Uint32]

osdp_trs_apdu == Buffer(Word, 258)
osdp_trs_pin_entry ==
  [timeout_initial : Byte, timeout_digit : Byte, format : Byte, rest : Byte,
   pin_length_field : PinLengthField, apdu : osdp_trs_apdu]
osdp_trs_cmd ==
  [command : Byte \ {TrsCommandCode.EnterPin}, apdu : osdp_trs_apdu]
  \union [command : {TrsCommandCode.EnterPin}, pin_entry : osdp_trs_pin_entry]
-----------------------------------------------------------------------------
osdp_event_cardread ==
  [reader_no : Int32, format : Byte, direction : Int32, length : Word, bytes : [1..64 -> Byte]]
osdp_event_keypress  == [reader_no : Int32, data : Buffer(Int32, 64)]
osdp_event_mfgrep    == [vendor_code : Uint32, data : Buffer(Byte, 128)]
osdp_event_mfgstat   == [data : Buffer(Byte, 128)]
osdp_event_bioreadr  ==
  [reader : Byte, status : Byte, type_ : Byte, quality : Byte, data : Buffer(Word, 256)]
osdp_event_biomatchr == [reader : Byte, status : Byte, score : Byte]
osdp_event_piv_reply == [data : Buffer(Word, 256)]

osdp_trs_card_info ==
  [reader : Byte, protocol : Byte, csn : Buffer(Byte, 32), protocol_data : Buffer(Byte, 64)]
osdp_trs_card_present == [reader : Byte, status : Byte]
osdp_trs_card_data    == [reader : Byte, status : Byte, apdu : osdp_trs_apdu]
osdp_trs_pin_complete == [reader : Byte, status : Byte, tries : Byte]
osdp_trs_error        == [code : Byte]
osdp_trs_reply ==
  [reply : {TrsReplyCode.CardInfo}, payload : osdp_trs_card_info]
  \union [reply : {TrsReplyCode.CardPresent}, payload : osdp_trs_card_present]
  \union [reply : {TrsReplyCode.CardData}, payload : osdp_trs_card_data]
  \union [reply : {TrsReplyCode.PinComplete}, payload : osdp_trs_pin_complete]
  \union [reply : {TrsReplyCode.Error}, payload : osdp_trs_error]
  \union [reply : Byte \ 1..5, payload : Unselected]
-----------------------------------------------------------------------------
osdp_mp_notification         == [mp_type : Byte, outcome : Byte, moved : Int32]
osdp_pd_id                   ==
  [version : Int32, model : Int32, vendor_code : Uint32, firmware_version : Uint32]
osdp_notification_sc_status  == [active : BOOLEAN, scbk_d : BOOLEAN]
osdp_notification_pd_status  == [online : BOOLEAN]
osdp_notification_trs_status == [status : Byte]
osdp_notification ==
  [type_ : {NotificationType.ScStatus}, body : osdp_notification_sc_status]
  \union [type_ : {NotificationType.PdStatus}, body : osdp_notification_pd_status]
  \union [type_ : {NotificationType.MpStart, NotificationType.MpProgress, NotificationType.MpDone},
          body : osdp_mp_notification]
  \union [type_ : {NotificationType.PdId}, body : osdp_pd_id]
  \union [type_ : {NotificationType.TrsStatus}, body : osdp_notification_trs_status]
  \union [type_ : Byte \ 0..6, body : Unselected]
-----------------------------------------------------------------------------
\* The member of the union of osdp_cmd that a kind of command uses.
CmdMember(kind) ==
  CASE kind = "Led" -> osdp_cmd_led            [] kind = "Buzzer" -> osdp_cmd_buzzer
    [] kind = "Text" -> osdp_cmd_text          [] kind = "Output" -> osdp_cmd_output
    [] kind \in {"ComSet", "ComSetDone"} -> osdp_cmd_comset
    [] kind = "KeySet" -> osdp_cmd_keyset      [] kind = "Mfg" -> osdp_cmd_mfg
    [] kind = "FileTx" -> osdp_cmd_file_tx     [] kind = "Status" -> osdp_status_report
    [] kind = "BioRead" -> osdp_cmd_bioread    [] kind = "BioMatch" -> osdp_cmd_biomatch
    [] kind = "TimeDate" -> osdp_cmd_tdset     [] kind = "PivData" -> osdp_cmd_pivdata
    [] kind \in {"GenAuth", "CrAuth"} -> osdp_cmd_auth
    [] kind = "Trs" -> osdp_trs_cmd

IsCmd(raw) ==
  /\ raw \in [id : Byte, flags : Uint32, body : {raw.body}]
  /\ \A kind \in Decode(CommandId, raw.id) : raw.body \in CmdMember(kind)
  /\ raw.id = OSDP_CMD_NOTIFICATION => raw.body \in osdp_notification

\* The member of the union of osdp_event that a kind of event uses.
EventMember(kind) ==
  CASE kind = "CardRead" -> osdp_event_cardread [] kind = "KeyPress" -> osdp_event_keypress
    [] kind = "MfgReply" -> osdp_event_mfgrep
    [] kind \in {"MfgStatus", "MfgError"} -> osdp_event_mfgstat
    [] kind = "BioRead" -> osdp_event_bioreadr  [] kind = "BioMatch" -> osdp_event_biomatchr
    [] kind \in {"PivData", "GenAuth", "CrAuth"} -> osdp_event_piv_reply
    [] kind = "Trs" -> osdp_trs_reply           [] kind = "Status" -> osdp_status_report

IsEvent(raw) ==
  /\ raw \in [type_ : Byte, flags : Uint32, body : {raw.body}]
  /\ \A kind \in Decode(EventType, raw.type_) : raw.body \in EventMember(kind)
  /\ raw.type_ = OSDP_EVENT_NOTIFICATION => raw.body \in osdp_notification
=============================================================================

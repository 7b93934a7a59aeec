------------------------------ MODULE Exchange ------------------------------
(***************************************************************************)
(* One command or event at a time, from the application that submits it,   *)
(* through the conversion into LibOSDP's struct, LibOSDP, the callback at  *)
(* the other end and the conversion back, to the application there; and    *)
(* structs LibOSDP built from another implementation's packet.  What an    *)
(* application was handed it may send on, as a device between two buses    *)
(* does.                                                                   *)
(***************************************************************************)
EXTENDS Structs

CONSTANTS
  Commands, AllEvents,        \* what applications submit
  RawCommands, RawEvents,    \* structs with another origin than this crate
  RawNotifications           \* the osdp_notification structs LibOSDP raises

VARIABLES
  wire,    \* the struct that LibOSDP holds: at most one [way, raw]
  sent,    \* the value it was made from, when this crate made it: [way, value, relayed]
  got,     \* what the callback handed to an application: at most one [way, value]
  outcome, \* how the last step ended
  answer   \* what the last callback returned to LibOSDP
vars == <<wire, sent, got, outcome, answer>>

Ways == {"command", "event"}
Values(way) == IF way = "command" THEN Commands ELSE AllEvents
ToC(way, value) == IF way = "command" THEN CommandToC(value) ELSE EventToC(value)

\* The values that the types Command, Event and Notification have.
IsValue(way, v) ==
  CASE way = "command" -> v.kind \in DOMAIN CommandId /\ v \in [kind : {v.kind}, body : Body(v.kind)]
    [] way = "event"   -> v.kind \in DOMAIN EventType /\ v \in [kind : {v.kind}, body : EventBody(v.kind)]
    [] OTHER           -> v \in Notification

\* LibOSDP does not carry the direction of a card read, and a presence
\* that the reader has not told has no encoding.
Unsendable(raw) ==
  /\ raw.type_ = EventType["Trs"]
  /\ raw.body.reply = TrsReplyCode["CardPresent"]
  /\ raw.body.payload.status = CardStatusCode["Unknown"]

Carried(raw) ==
  IF raw.type_ = EventType["CardRead"] THEN [raw EXCEPT !.body.direction = 0] ELSE raw

\* What applications submit are values of the crate's types, and what
\* LibOSDP hands over are structs of C's: no field is past its width, but
\* lengths and codes are as another implementation chose them.
ASSUME ValuesAssumption ==
  /\ \A c \in Commands : IsValue("command", c)
  /\ \A e \in AllEvents : IsValue("event", e)
  /\ \A raw \in RawCommands : IsCmd(raw) /\ raw.id # OSDP_CMD_NOTIFICATION
  /\ \A raw \in RawEvents : IsEvent(raw) /\ raw.type_ # OSDP_EVENT_NOTIFICATION
  /\ RawNotifications \subseteq osdp_notification

NakCode == [BioType |-> 7, BioFormat |-> 8, Record |-> 9]
AsC(nak) == -NakCode[nak]

NoAnswer == 1

Init ==
  /\ wire = {} /\ sent = {} /\ got = {}
  /\ outcome = "idle" /\ answer = NoAnswer

Send(way, value, relayed) ==
  /\ wire = {}
  /\ wire' = {[way |-> way, raw |-> raw] : raw \in ToC(way, value)}
  /\ sent' = {[way |-> way, value |-> value, relayed |-> relayed]}
  /\ got' = {}
  /\ outcome' = IF ToC(way, value) = {} THEN "refused" ELSE "sent"
  /\ answer' = NoAnswer

\* The application drops what it was handed, and the next exchange begins.
Finish ==
  /\ wire = {} /\ outcome # "idle"
  /\ sent' = {} /\ got' = {} /\ outcome' = "idle" /\ answer' = NoAnswer
  /\ UNCHANGED wire

\* ControlPanel::submit, PeripheralDevice::submit.
Submit == outcome = "idle" /\ \E way \in Ways : \E value \in Values(way) : Send(way, value, FALSE)

\* The application submits what it was handed, unchanged.
Relay == \E g \in got : g.way \in Ways /\ Send(g.way, g.value, TRUE)

\* LibOSDP builds a struct itself.
Raise(way, raw) ==
  /\ outcome = "idle"
  /\ wire' = {[way |-> way, raw |-> raw]}
  /\ sent' = {} /\ got' = {} /\ outcome' = "raised" /\ answer' = NoAnswer

Receive ==
  \/ \E raw \in RawCommands : Raise("command", raw)
  \/ \E raw \in RawEvents : Raise("event", raw)

\* A notification comes as a command on a PD and as an event on a CP.
Notify ==
  \E raw \in RawNotifications :
    \/ Raise("command", [id |-> OSDP_CMD_NOTIFICATION, flags |-> 0, body |-> raw])
    \/ Raise("event", [type_ |-> OSDP_EVENT_NOTIFICATION, flags |-> 0, body |-> raw])

\* The link, or LibOSDP, gives the struct up.
Lose ==
  /\ wire # {}
  /\ wire' = {} /\ outcome' = "lost"
  /\ UNCHANGED <<sent, got, answer>>

\* A callback ends: "values" is what it handed over, "code" what it returned.
Return(way, values, result, code) ==
  /\ wire' = {}
  /\ got' = {[way |-> way, value |-> value] : value \in values}
  /\ outcome' = result /\ answer' = code
  /\ UNCHANGED sent

\* pd_command_trampoline; a notification is never refused.
PdCommand(raw) ==
  IF raw.id = OSDP_CMD_NOTIFICATION
  THEN LET noted == NotificationFromC(raw.body)
       IN Return("notification", noted, IF noted = {} THEN "malformed" ELSE "delivered", 0)
  ELSE IF CommandFromC(raw) = {}
  THEN Return("command", {}, "malformed", AsC("Record"))
  ELSE \/ \E code \in {0} \union {AsC(nak) : nak \in DOMAIN NakCode} :
            Return("command", CommandFromC(raw), "delivered", code)
       \/ Return("command", {}, "unhandled", AsC("Record"))    \* no handler is set

\* cp_event_trampoline.
CpEvent(raw) ==
  LET note   == raw.type_ = OSDP_EVENT_NOTIFICATION
      values == IF note THEN NotificationFromC(raw.body) ELSE EventFromC(raw)
  IN Return(IF note THEN "notification" ELSE "event", values,
            IF values = {} THEN "malformed" ELSE "delivered", IF values = {} THEN -1 ELSE 0)

Deliver ==
  \E w \in wire :
    \/ w.way = "command" /\ PdCommand(w.raw)
    \/ /\ w.way = "event" /\ ~Unsendable(w.raw)
       /\ CpEvent(Carried(w.raw))

Next == Finish \/ Submit \/ Relay \/ Receive \/ Notify \/ Lose \/ Deliver
Spec == Init /\ [][Next]_vars
-----------------------------------------------------------------------------
\* What a value means once the codes that have a name are named, a card's
\* data is cut to its bits and its direction, which OSDP lacks, is dropped.
Named(codes, value) ==
  LET names == {name \in DOMAIN codes : value = <<"Other", codes[name]>>}
  IN IF names = {} THEN value ELSE <<CHOOSE name \in names : TRUE, 0>>

NamedParams(p) ==
  [on_time |-> p.on_time, off_time |-> p.off_time,
   on_color |-> Named(LedColorCode, p.on_color), off_color |-> Named(LedColorCode, p.off_color)]
NamedState(led) == [led EXCEPT !.params = NamedParams(@)]

CanonicalCommand(kind, c) ==
  CASE kind = "Led" ->
         [reader |-> c.reader, led_number |-> c.led_number,
          temporary |-> NamedState(c.temporary), permanent |-> NamedState(c.permanent)]
    [] kind = "BioRead" ->
         [reader |-> c.reader, kind |-> Named(BioTypeCode, c.kind),
          format |-> Named(BioFormatCode, c.format), quality |-> c.quality]
    [] kind = "BioMatch" ->
         [reader |-> c.reader, kind |-> Named(BioTypeCode, c.kind),
          format |-> Named(BioFormatCode, c.format), threshold |-> c.threshold, template |-> c.template]
    [] OTHER -> c

CanonicalEvent(kind, e) ==
  CASE kind = "BioRead" ->
         [reader |-> e.reader, status |-> Named(BioStatusCode, e.status),
          kind |-> Named(BioTypeCode, e.kind), quality |-> e.quality, template |-> e.template]
    [] kind = "BioMatch" ->
         [reader |-> e.reader, status |-> Named(BioStatusCode, e.status), score |-> e.score]
    [] kind = "Status" ->
         IF e.status = "Reader"
         THEN [status |-> e.status, readers |-> [i \in DOMAIN e.readers |-> Named(ReaderStatusCode, e.readers[i])]]
         ELSE e
    [] kind = "CardRead" ->
         [reader_no |-> e.reader_no, format |-> e.format, direction |-> DirectionFromC(0), nr_bits |-> e.nr_bits,
          data |-> SubSeq(e.data, 1, BytesFor(e.nr_bits))]
    [] OTHER -> e

Canonical(way, v) ==
  [kind |-> v.kind, body |-> IF way = "command" THEN CanonicalCommand(v.kind, v.body)
                             ELSE CanonicalEvent(v.kind, v.body)]

OutOfRange(date) ==
  \/ date.month \notin 1..12 \/ date.day \notin 1..31
  \/ date.hour \notin 0..23 \/ date.minute \notin 0..59 \/ date.second \notin 0..59

\* A date or time with a field out of range, an empty challenge and an empty
\* answer are received, yet not sent.
ReceivedOnly(way, c) ==
  \/ c.kind = "TimeDate" /\ OutOfRange(c.body)
  \/ c.kind \in {"PivData", "GenAuth", "CrAuth"} /\ way = "event" /\ c.body.data = <<>>
  \/ c.kind \in {"GenAuth", "CrAuth"} /\ way = "command" /\ c.body.data = <<>>

\* Whatever struct LibOSDP hands to a callback, the application is handed a
\* value of the crate's types, or nothing (TryFrom<osdp_cmd> for Command,
\* TryFrom<osdp_event> for Event, TryFrom<osdp_notification>).
TypeOK ==
  /\ \A g \in got : IsValue(g.way, g.value)
  /\ outcome \in {"idle", "sent", "refused", "raised", "lost", "delivered", "malformed", "unhandled"}
  /\ answer \in {NoAnswer, 0, -1} \union {AsC(nak) : nak \in DOMAIN NakCode}

\* A command or event that this crate accepted arrives with the meaning it
\* was sent with: no duration is rounded, no length or count wraps, nothing
\* is cut, and a code goes by one name only.
ArrivesAsSent ==
  \A s \in sent, g \in got : g = [way |-> s.way, value |-> Canonical(s.way, s.value)]

\* What one end of this crate accepts for sending the other end can read: an
\* accepted value is never refused as malformed where it arrives.
AcceptedIsReadable == sent # {} => outcome # "malformed"

\* What an application was handed, from this crate or any other
\* implementation, it can send on; what OSDP lets a packet say and this
\* crate checks on the way out only is the exception.
RelayIsAccepted ==
  outcome = "refused" => \A s \in sent : s.relayed => ReceivedOnly(s.way, s.value)
=============================================================================

-------------------------------- MODULE Wire --------------------------------
(***************************************************************************)
(* LibOSDP's packets through an application's Channel at one end of the    *)
(* bus and out of one at the other (ffi/channel.rs, channel.rs).  A packet *)
(* is its bytes, each a pair of the packet's number and the byte's place.  *)
(* What LibOSDP does with a callback's result is how channel.rs describes  *)
(* it: 0 retries the packet on the next refresh, a negative drops it.      *)
(***************************************************************************)
EXTENDS Integers, Sequences, FiniteSets

CONSTANTS
  MaxPackets,  \* bound: packets that LibOSDP builds
  PacketLen,   \* bound: bytes of a packet
  BufLen       \* the size of the buffer LibOSDP reads into
\* A packet has a header at least.
ASSUME LengthsAssumption == MaxPackets \in Nat /\ PacketLen \in Nat \ {0} /\ BufLen \in Nat

VARIABLES
  built,    \* how many packets LibOSDP has built
  tx,       \* the packet it has to send, <<>> when there is none
  answered, \* what Channel::write last answered
  accepted, \* the packets that the Channel took, in order
  dropped,  \* the packets LibOSDP gave up
  medium,   \* bytes between the two channels
  rx        \* bytes that the other LibOSDP was given
vars == <<built, tx, answered, accepted, dropped, medium, rx>>

Packet(n) == [i \in 1..PacketLen |-> <<n, i>>]

Init == built = 0 /\ tx = <<>> /\ answered = "Ok" /\ accepted = <<>> /\ dropped = {} /\ medium = <<>> /\ rx = <<>>

BuildPacket ==
  /\ tx = <<>> /\ built < MaxPackets
  /\ built' = built + 1 /\ tx' = Packet(built + 1)
  /\ UNCHANGED <<answered, accepted, dropped, medium, rx>>

\* What Channel::write may answer, and what it queued of the packet.
WriteResults == {"Ok", "WouldBlock", "TransportError"}
Queued(result) == IF result = "Ok" THEN tx ELSE <<>>

raw_write_dropping_blocked(result, len) == IF result = "TransportError" THEN -1 ELSE len
raw_write_retrying_errors(result, len) == IF result = "Ok" THEN len ELSE 0

\* raw_write's return value; like raw_read it also refuses a null buffer and a
\* negative length, which LibOSDP never passes.
raw_write(result, len) ==
  CASE result = "Ok" -> len
    [] result = "WouldBlock" -> 0
    [] OTHER -> -1

Write(result) ==
  /\ tx # <<>>
  /\ answered' = result
  /\ medium' = medium \o Queued(result)
  /\ accepted' = IF Queued(result) # <<>> THEN Append(accepted, tx[1][1]) ELSE accepted
  /\ LET sent == raw_write(result, Len(tx))
     IN /\ tx' = IF sent = 0 THEN tx ELSE <<>>
        /\ dropped' = IF sent < 0 THEN dropped \union {tx[1][1]} ELSE dropped
  /\ UNCHANGED <<built, rx>>

raw_read_unchecked(result, count) ==
  CASE result = "Ok" -> count
    [] result = "WouldBlock" -> 0
    [] OTHER -> -1

\* raw_read's return value: the count that Channel::read reports, unless it
\* is more than the buffer holds.
raw_read(result, count) ==
  CASE result = "Ok" -> IF count > BufLen THEN -1 ELSE count
    [] result = "WouldBlock" -> 0
    [] OTHER -> -1

\* Channel::read moves "moved" bytes into the buffer and reports "count".  A
\* count may be past the buffer; one that is wrong and yet fits breaks what
\* Channel asks of its implementations, and is left out.
Read(result) ==
  \E moved \in 0..(IF Len(medium) < BufLen THEN Len(medium) ELSE BufLen), count \in 0..(BufLen + 1) :
    /\ count = moved \/ count > BufLen
    /\ result # "Ok" => moved = 0
    /\ medium' = SubSeq(medium, moved + 1, Len(medium))
    /\ LET given == raw_read(result, count)
           bytes == SubSeq(medium, 1, moved) \o [i \in 1..(BufLen + 1) |-> <<0, i>>]
       IN rx' = IF given > 0 THEN rx \o SubSeq(bytes, 1, given) ELSE rx
    /\ UNCHANGED <<built, tx, answered, accepted, dropped>>

\* raw_flush.
Flush ==
  /\ medium # <<>> /\ medium' = <<>>
  /\ UNCHANGED <<built, tx, answered, accepted, dropped, rx>>

Next ==
  \/ BuildPacket \/ Flush
  \/ \E result \in WriteResults : Write(result) \/ Read(result)

\* The application refreshes both contexts for ever, and a Channel that
\* blocks takes a packet in the end.
Fairness ==
  /\ WF_vars(BuildPacket)
  /\ SF_vars(Write("Ok") \/ Write("TransportError"))
Spec == Init /\ [][Next]_vars /\ Fairness
-----------------------------------------------------------------------------
Before(a, b) == a[1] < b[1] \/ (a[1] = b[1] /\ a[2] < b[2])

\* A byte comes out of the bus at most once and in the order it went in, and
\* none comes out that was not sent, whatever blocks, fails or is flushed
\* (raw_write's whole packet or none, raw_read's check of the count).
BytesInOrder ==
  /\ \A i \in DOMAIN rx : \E k \in DOMAIN accepted, place \in 1..PacketLen :
       rx[i] = <<accepted[k], place>>
  /\ \A i, j \in DOMAIN rx : i < j => Before(rx[i], rx[j])

\* Every packet built is taken whole once, is the one being retried, or was
\* given up after a transport error: none is sent twice, and none that only
\* had to wait is lost (WouldBlock asks LibOSDP to retry the same packet).
PacketsAccountedFor ==
  \A n \in 1..built :
    Cardinality({i \in DOMAIN accepted : accepted[i] = n})
      + (IF n \in dropped THEN 1 ELSE 0) + (IF tx = Packet(n) THEN 1 ELSE 0) = 1

\* Every packet is taken or given up in the end: LibOSDP does not retry one
\* for ever, nor stop before the last.
EveryPacketLeaves == <>(Len(accepted) + Cardinality(dropped) = MaxPackets)
=============================================================================

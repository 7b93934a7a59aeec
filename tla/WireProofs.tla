----------------------------- MODULE WireProofs -----------------------------
(***************************************************************************)
(* Bytes come out of the bus once and in order, and every packet that was  *)
(* built is taken, retried or given up: for packets and buffers of any     *)
(* length and whatever a Channel answers.                                  *)
(***************************************************************************)
EXTENDS Wire, SequenceTheorems, FiniteSetTheorems, TLAPS

-----------------------------------------------------------------------------
(* The inductive invariant.                                                *)

Bytes == Nat \X (1..PacketLen)

(* Only the last packet built can be waiting to be sent.                   *)
TypeOK ==
  /\ built \in 0..MaxPackets
  /\ tx \in {<<>>, Packet(built)}
  /\ answered \in WriteResults
  /\ accepted \in Seq(Nat)
  /\ dropped \subseteq 1..built
  /\ medium \in Seq(Bytes)
  /\ rx \in Seq(Bytes)

Taken(n) == \E k \in DOMAIN accepted : accepted[k] = n

(* Packets are taken in the order they were built, and none after it was   *)
(* given up.                                                               *)
TakenInOrder ==
  /\ \A k \in DOMAIN accepted : accepted[k] \in (1..built) \ dropped
  /\ \A k, l \in DOMAIN accepted : k < l => accepted[k] < accepted[l]

(* The packet being sent has not been taken or given up; any other has.    *)
OneFate ==
  /\ tx # <<>> => built > 0 /\ ~Taken(built) /\ built \notin dropped
  /\ \A n \in 1..built : Taken(n) \/ n \in dropped \/ (n = built /\ tx # <<>>)

Sorted(s) == \A i, j \in DOMAIN s : i < j => Before(s[i], s[j])
Precedes(s, t) == \A i \in DOMAIN s, j \in DOMAIN t : Before(s[i], t[j])
OfTaken(s) == \A i \in DOMAIN s : \E k \in DOMAIN accepted, place \in 1..PacketLen : s[i] = <<accepted[k], place>>

(* What was received comes before what is on its way.                      *)
InOrder == Sorted(rx) /\ Sorted(medium) /\ Precedes(rx, medium) /\ OfTaken(rx) /\ OfTaken(medium)

WireInv == TypeOK /\ TakenInOrder /\ OneFate /\ InOrder

-----------------------------------------------------------------------------
(* Sequences of bytes, joined and cut.                                     *)

(* What is in a joined sequence is in one of its parts, in its place.      *)
LEMMA JoinShape ==
  ASSUME NEW s \in Seq(Bytes), NEW t \in Seq(Bytes)
  PROVE  /\ s \o t \in Seq(Bytes)
         /\ \A i \in DOMAIN (s \o t) :
              \/ i \in DOMAIN s /\ (s \o t)[i] = s[i]
              \/ i > Len(s) /\ i - Len(s) \in DOMAIN t /\ (s \o t)[i] = t[i - Len(s)]
<1>1. /\ s \o t \in Seq(Bytes) /\ Len(s \o t) = Len(s) + Len(t)
      /\ \A i \in 1..Len(s) + Len(t) : (s \o t)[i] = IF i <= Len(s) THEN s[i] ELSE t[i - Len(s)]
  BY ConcatProperties
<1>2. /\ Len(s) \in Nat /\ DOMAIN s = 1..Len(s)
      /\ Len(t) \in Nat /\ DOMAIN t = 1..Len(t)
      /\ DOMAIN (s \o t) = 1..Len(s \o t)
  BY <1>1, LenProperties
<1>3. ASSUME NEW i \in DOMAIN (s \o t)
      PROVE  \/ i \in DOMAIN s /\ (s \o t)[i] = s[i]
             \/ i > Len(s) /\ i - Len(s) \in DOMAIN t /\ (s \o t)[i] = t[i - Len(s)]
  <2>1. i \in 1..Len(s) + Len(t) /\ i \in Int
    BY <1>1, <1>2
  <2>2. CASE i <= Len(s)
    BY <1>1, <1>2, <2>1, <2>2
  <2>3. CASE i > Len(s)
    <3>1. i - Len(s) \in 1..Len(t)
      BY <1>2, <2>1, <2>3
    <3> QED BY <1>1, <1>2, <2>1, <2>3, <3>1
  <2> QED BY <1>2, <2>1, <2>2, <2>3
<1> QED BY <1>1, <1>3

LEMMA SortedJoin ==
  ASSUME NEW s \in Seq(Bytes), NEW t \in Seq(Bytes), Sorted(s), Sorted(t), Precedes(s, t)
  PROVE  Sorted(s \o t)
<1> SUFFICES ASSUME NEW i \in DOMAIN (s \o t), NEW j \in DOMAIN (s \o t), i < j
             PROVE  Before((s \o t)[i], (s \o t)[j])
  BY DEF Sorted
<1>1. /\ Len(s) \in Nat /\ DOMAIN s = 1..Len(s) /\ DOMAIN t = 1..Len(t)
      /\ s \o t \in Seq(Bytes) /\ DOMAIN (s \o t) = 1..Len(s \o t)
  BY JoinShape, LenProperties
<1>2. i \in Int /\ j \in Int
  BY <1>1
<1>3. CASE j \in DOMAIN s /\ (s \o t)[j] = s[j]
  <2>1. i \in DOMAIN s /\ (s \o t)[i] = s[i]
    BY <1>1, <1>2, <1>3, JoinShape
  <2> QED BY <1>3, <2>1 DEF Sorted
<1>4. CASE j > Len(s) /\ j - Len(s) \in DOMAIN t /\ (s \o t)[j] = t[j - Len(s)]
  <2>1. CASE i \in DOMAIN s /\ (s \o t)[i] = s[i]
    BY <1>4, <2>1 DEF Precedes
  <2>2. CASE i > Len(s) /\ i - Len(s) \in DOMAIN t /\ (s \o t)[i] = t[i - Len(s)]
    <3>1. i - Len(s) < j - Len(s)
      BY <1>1, <1>2
    <3> QED BY <1>4, <2>2, <3>1 DEF Sorted
  <2> QED BY <2>1, <2>2, JoinShape
<1> QED BY <1>3, <1>4, JoinShape

Within(s, t) == \A i \in DOMAIN s : \E k \in DOMAIN t : s[i] = t[k]

(* A piece of a sorted sequence is sorted.                                 *)
LEMMA PieceShape ==
  ASSUME NEW s \in Seq(Bytes), NEW m \in 1..(Len(s) + 1), NEW n \in (m - 1)..Len(s)
  PROVE  /\ SubSeq(s, m, n) \in Seq(Bytes) /\ Len(SubSeq(s, m, n)) = n - m + 1
         /\ \A i \in DOMAIN SubSeq(s, m, n) :
              i \in Nat /\ m + i - 1 \in m..n /\ m + i - 1 \in DOMAIN s /\ SubSeq(s, m, n)[i] = s[m + i - 1]
         /\ Within(SubSeq(s, m, n), s)
         /\ Sorted(s) => Sorted(SubSeq(s, m, n))
<1> DEFINE piece == SubSeq(s, m, n)
<1>1. Len(s) \in Nat /\ DOMAIN s = 1..Len(s) /\ \A i \in 1..Len(s) : s[i] \in Bytes
  BY LenProperties, ElementOfSeq
<1>2. m \in Nat /\ n \in Int /\ m - 1 <= n /\ n <= Len(s) /\ m >= 1
  BY <1>1
<1>3. \A i \in m..n : s[i] \in Bytes
  BY <1>1, <1>2
<1>4. /\ piece \in Seq(Bytes) /\ Len(piece) = IF m <= n THEN n - m + 1 ELSE 0
      /\ \A i \in 1..n - m + 1 : piece[i] = s[m + i - 1]
  BY <1>2, <1>3, SubSeqProperties
<1>5. Len(piece) = n - m + 1 /\ DOMAIN piece = 1..n - m + 1
  <2>1. Len(piece) = n - m + 1
    BY <1>2, <1>4
  <2> QED BY <1>4, <2>1, LenProperties
<1>6. ASSUME NEW i \in DOMAIN piece
      PROVE  i \in Nat /\ m + i - 1 \in m..n /\ m + i - 1 \in DOMAIN s /\ piece[i] = s[m + i - 1]
  <2>1. i \in Nat /\ m + i - 1 \in m..n /\ m + i - 1 \in DOMAIN s
    BY <1>1, <1>2, <1>5, <1>6
  <2> QED BY <1>4, <1>5, <1>6, <2>1
<1>7. Within(piece, s)
  BY <1>6 DEF Within
<1>8. ASSUME Sorted(s) PROVE Sorted(piece)
  <2> SUFFICES ASSUME NEW i \in DOMAIN piece, NEW j \in DOMAIN piece, i < j
               PROVE  Before(piece[i], piece[j])
    BY DEF Sorted
  <2>1. m + i - 1 < m + j - 1
    BY <1>2, <1>6
  <2> QED BY <1>6, <1>8, <2>1 DEF Sorted
<1> QED BY <1>4, <1>5, <1>6, <1>7, <1>8

(* A sorted sequence that is cut: the first piece precedes the second.     *)
LEMMA CutSorted ==
  ASSUME NEW s \in Seq(Bytes), NEW m \in 0..Len(s), Sorted(s)
  PROVE  Precedes(SubSeq(s, 1, m), SubSeq(s, m + 1, Len(s)))
<1> DEFINE head == SubSeq(s, 1, m)
           tail == SubSeq(s, m + 1, Len(s))
<1>1. Len(s) \in Nat /\ m \in Nat /\ m <= Len(s)
  BY LenProperties
<1> SUFFICES ASSUME NEW i \in DOMAIN head, NEW j \in DOMAIN tail PROVE Before(head[i], tail[j])
  BY DEF Precedes
<1>2. i \in Nat /\ 1 + i - 1 \in 1..m /\ 1 + i - 1 \in DOMAIN s /\ head[i] = s[1 + i - 1]
  BY <1>1, PieceShape
<1>3. /\ j \in Nat /\ m + 1 + j - 1 \in (m + 1)..Len(s) /\ m + 1 + j - 1 \in DOMAIN s
      /\ tail[j] = s[m + 1 + j - 1]
  BY <1>1, PieceShape
<1>4. 1 + i - 1 < m + 1 + j - 1
  BY <1>1, <1>2, <1>3
<1> QED BY <1>2, <1>3, <1>4 DEF Sorted

LEMMA WithinPrecedes ==
  ASSUME NEW s, NEW t, NEW u
  PROVE  /\ Precedes(s, t) /\ Within(u, t) => Precedes(s, u)
         /\ Precedes(s, t) /\ Within(u, s) => Precedes(u, t)
         /\ OfTaken(s) /\ Within(u, s) => OfTaken(u)
  BY DEF Precedes, Within, OfTaken

LEMMA OfTakenJoin ==
  ASSUME NEW s \in Seq(Bytes), NEW t \in Seq(Bytes), OfTaken(s), OfTaken(t)
  PROVE  OfTaken(s \o t)
<1> SUFFICES ASSUME NEW i \in DOMAIN (s \o t)
             PROVE  \E k \in DOMAIN accepted, place \in 1..PacketLen : (s \o t)[i] = <<accepted[k], place>>
  BY DEF OfTaken
<1>1. CASE i \in DOMAIN s /\ (s \o t)[i] = s[i]
  BY <1>1 DEF OfTaken
<1>2. CASE i - Len(s) \in DOMAIN t /\ (s \o t)[i] = t[i - Len(s)]
  BY <1>2 DEF OfTaken
<1> QED BY <1>1, <1>2, JoinShape

LEMMA PrecedesJoin ==
  ASSUME NEW s \in Seq(Bytes), NEW t \in Seq(Bytes), NEW u
  PROVE  /\ Precedes(s, u) /\ Precedes(t, u) => Precedes(s \o t, u)
         /\ Precedes(u, s) /\ Precedes(u, t) => Precedes(u, s \o t)
  BY JoinShape DEF Precedes

-----------------------------------------------------------------------------
(* A packet is its bytes in their places.                                  *)
LEMMA PacketShape ==
  ASSUME NEW n \in Nat
  PROVE  /\ Packet(n) \in Seq(Bytes) /\ Len(Packet(n)) = PacketLen /\ Packet(n) # <<>>
         /\ \A i \in 1..PacketLen : Packet(n)[i] = <<n, i>>
<1>1. PacketLen \in Nat \ {0}
  BY LengthsAssumption
<1>2. /\ Packet(n) \in [1..PacketLen -> Bytes]
      /\ \A i \in 1..PacketLen : Packet(n)[i] = <<n, i>>
  BY DEF Packet, Bytes
<1>3. Packet(n) \in Seq(Bytes) /\ Len(Packet(n)) = PacketLen
  BY <1>1, <1>2, SeqDef, LenProperties
<1> QED BY <1>1, <1>2, <1>3, EmptySeq

(* Packets of different numbers differ.                                    *)
LEMMA PacketsDiffer ==
  ASSUME NEW m \in Nat, NEW n \in Nat, Packet(m) = Packet(n)
  PROVE  m = n
<1>1. 1 \in 1..PacketLen
  BY LengthsAssumption
<1>2. <<m, 1>> = <<n, 1>>
  BY <1>1, PacketShape
<1> QED BY <1>2

(* The packet that LibOSDP has to send is the last it built.               *)
LEMMA Sending ==
  ASSUME TypeOK, tx # <<>>
  PROVE  /\ tx = Packet(built) /\ built \in Nat
         /\ tx \in Seq(Bytes) /\ Len(tx) = PacketLen /\ tx[1][1] = built
         /\ \A i \in 1..PacketLen : tx[i] = <<built, i>>
<1>1. tx = Packet(built) /\ built \in Nat
  BY DEF TypeOK
<1>2. 1 \in 1..PacketLen
  BY LengthsAssumption
<1> QED BY <1>1, <1>2, PacketShape

(* What LibOSDP is answered.                                               *)
LEMMA WriteAnswers ==
  ASSUME NEW len
  PROVE  /\ raw_write("Ok", len) = len /\ raw_write("WouldBlock", len) = 0
         /\ raw_write("TransportError", len) = -1
  BY Zenon DEF raw_write

LEMMA ReadAnswers ==
  ASSUME NEW count
  PROVE  /\ raw_read("Ok", count) = IF count > BufLen THEN -1 ELSE count
         /\ raw_read("WouldBlock", count) = 0 /\ raw_read("TransportError", count) = -1
  BY Zenon DEF raw_read

-----------------------------------------------------------------------------
(* Every step keeps the invariant.                                         *)

LEMMA BuildKeeps == ASSUME WireInv, BuildPacket PROVE WireInv'
<1>1. built \in Nat /\ built' = built + 1 /\ built' \in 0..MaxPackets /\ built' \in Nat
  BY LengthsAssumption DEF WireInv, TypeOK, BuildPacket
<1>2. tx = <<>> /\ tx' = Packet(built') /\ tx' # <<>>
  BY <1>1, PacketShape DEF BuildPacket
<1>3. UNCHANGED <<answered, accepted, dropped, medium, rx>>
  BY DEF BuildPacket
<1>4. \A n : Taken(n)' <=> Taken(n)
  BY <1>3 DEF Taken
<1>5. TypeOK'
  BY <1>1, <1>2, <1>3 DEF WireInv, TypeOK
<1>6. TakenInOrder'
  BY <1>1, <1>3 DEF WireInv, TakenInOrder
<1>7. OneFate'
  <2>1. ~Taken(built') /\ built' \notin dropped /\ built' > 0
    BY <1>1 DEF WireInv, TypeOK, TakenInOrder, Taken
  <2>2. \A n \in 1..built' : n \in 1..built \/ n = built'
    BY <1>1
  <2>3. \A n \in 1..built : Taken(n) \/ n \in dropped
    BY <1>2 DEF WireInv, OneFate
  <2> QED BY <1>2, <1>3, <1>4, <2>1, <2>2, <2>3 DEF OneFate
<1>8. InOrder'
  BY <1>3 DEF WireInv, InOrder, Sorted, Precedes, OfTaken
<1> QED BY <1>5, <1>6, <1>7, <1>8 DEF WireInv

(* A packet that is taken goes behind everything taken before.             *)
LEMMA TakenWhole == ASSUME WireInv, Write("Ok") PROVE WireInv'
<1> USE DEF WireInv
<1>1. /\ tx = Packet(built) /\ built \in Nat /\ tx # <<>>
      /\ tx \in Seq(Bytes) /\ Len(tx) = PacketLen /\ tx[1][1] = built
      /\ \A i \in 1..PacketLen : tx[i] = <<built, i>>
  BY Sending DEF Write
<1>2. PacketLen \in Nat \ {0}
  BY LengthsAssumption
<1>3. /\ accepted' = Append(accepted, built) /\ medium' = medium \o tx
      /\ tx' = <<>> /\ answered' = "Ok"
      /\ UNCHANGED <<built, dropped, rx>>
  BY <1>1, <1>2, WriteAnswers DEF Write, Queued
<1>4. /\ accepted' \in Seq(Nat) /\ Len(accepted') = Len(accepted) + 1 /\ Len(accepted) \in Nat
      /\ \A k \in 1..Len(accepted) : accepted'[k] = accepted[k]
      /\ accepted'[Len(accepted) + 1] = built
      /\ DOMAIN accepted = 1..Len(accepted) /\ DOMAIN accepted' = 1..(Len(accepted) + 1)
  BY <1>1, <1>3, AppendProperties, LenProperties DEF TypeOK
<1>5. medium \in Seq(Bytes) /\ rx \in Seq(Bytes) /\ medium' \in Seq(Bytes)
  BY <1>1, <1>3, JoinShape DEF TypeOK
<1>6. \A k \in DOMAIN accepted : accepted[k] \in Nat /\ accepted[k] < built
  BY <1>1 DEF TypeOK, TakenInOrder, OneFate, Taken
<1>7. TypeOK'
  BY <1>3, <1>4, <1>5 DEF TypeOK, WriteResults
<1>8. TakenInOrder'
  BY <1>1, <1>3, <1>4, <1>6 DEF TakenInOrder, OneFate
<1>9. OneFate'
  <2>1. Taken(built)'
    <3>1. Len(accepted) + 1 \in DOMAIN accepted' /\ accepted'[Len(accepted) + 1] = built'
      BY <1>3, <1>4
    <3> QED BY <3>1 DEF Taken
  <2>2. \A n : Taken(n) => Taken(n)'
    BY <1>4 DEF Taken
  <2> QED BY <1>3, <2>1, <2>2 DEF OneFate
<1>10. \A i \in DOMAIN accepted : i \in DOMAIN accepted' /\ accepted'[i] = accepted[i]
  BY <1>4
<1>11. OfTaken(rx)' /\ OfTaken(medium)'
  <2>1. ASSUME NEW s, OfTaken(s)
        PROVE  \A i \in DOMAIN s : \E k \in DOMAIN accepted', place \in 1..PacketLen : s[i] = <<accepted'[k], place>>
    <3> TAKE i \in DOMAIN s
    <3>1. PICK k \in DOMAIN accepted, place \in 1..PacketLen : s[i] = <<accepted[k], place>>
      BY <2>1 DEF OfTaken
    <3> QED BY <1>10, <3>1
  <2>2. Len(accepted) + 1 \in DOMAIN accepted' /\ DOMAIN tx = 1..PacketLen
    BY <1>1, <1>4, LenProperties
  <2>3. \A i \in DOMAIN tx : \E k \in DOMAIN accepted', place \in 1..PacketLen : tx[i] = <<accepted'[k], place>>
    BY <1>1, <1>4, <2>2
  <2>4. ASSUME NEW i \in DOMAIN medium'
        PROVE  \E k \in DOMAIN accepted', place \in 1..PacketLen : medium'[i] = <<accepted'[k], place>>
    <3>1. \/ i \in DOMAIN medium /\ medium'[i] = medium[i]
          \/ i - Len(medium) \in DOMAIN tx /\ medium'[i] = tx[i - Len(medium)]
      BY <1>1, <1>3, <1>5, <2>4, JoinShape
    <3>2. CASE i \in DOMAIN medium /\ medium'[i] = medium[i]
      BY <2>1, <3>2 DEF InOrder
    <3>3. CASE i - Len(medium) \in DOMAIN tx /\ medium'[i] = tx[i - Len(medium)]
      BY <2>3, <3>3
    <3> QED BY <3>1, <3>2, <3>3
  <2>5. OfTaken(medium)'
    BY <2>4 DEF OfTaken
  <2>6. OfTaken(rx)'
    <3>1. \A i \in DOMAIN rx : \E k \in DOMAIN accepted', place \in 1..PacketLen : rx[i] = <<accepted'[k], place>>
      BY <2>1 DEF InOrder
    <3> QED BY <1>3, <3>1 DEF OfTaken
  <2> QED BY <2>5, <2>6
<1>12. Precedes(rx, tx) /\ Precedes(medium, tx) /\ Sorted(tx)
  <2>1. DOMAIN tx = 1..PacketLen
    BY <1>1, LenProperties
  <2>2. ASSUME NEW s, OfTaken(s) PROVE Precedes(s, tx)
    <3> SUFFICES ASSUME NEW i \in DOMAIN s, NEW j \in DOMAIN tx PROVE Before(s[i], tx[j])
      BY DEF Precedes
    <3>1. PICK k \in DOMAIN accepted, place \in 1..PacketLen : s[i] = <<accepted[k], place>>
      BY <2>2 DEF OfTaken
    <3>2. tx[j] = <<built, j>> /\ accepted[k] < built
      BY <1>1, <1>6, <2>1
    <3> QED BY <3>1, <3>2 DEF Before
  <2>3. Sorted(tx)
    BY <1>1, <2>1 DEF Sorted, Before
  <2> QED BY <2>2, <2>3 DEF InOrder
<1>13. Sorted(rx) /\ Sorted(medium') /\ Precedes(rx, medium')
  BY <1>1, <1>3, <1>5, <1>12, SortedJoin, PrecedesJoin DEF InOrder
<1>14. Sorted(rx)' /\ Sorted(medium)' /\ Precedes(rx, medium)'
  BY <1>3, <1>13 DEF Sorted, Precedes
<1> QED BY <1>7, <1>8, <1>9, <1>11, <1>14 DEF InOrder

(* A packet that had to wait is still there; one that failed is given up.  *)
LEMMA NotTaken ==
  ASSUME WireInv, NEW result \in {"WouldBlock", "TransportError"}, Write(result)
  PROVE  WireInv'
<1> USE DEF WireInv
<1>1. tx # <<>> /\ tx[1][1] = built /\ built \in Nat /\ tx \in Seq(Bytes)
  BY Sending DEF Write
<1>2. Queued(result) = <<>>
  BY DEF Queued
<1>3. UNCHANGED <<built, accepted, medium, rx>> /\ answered' = result
  BY <1>2, ConcatEmptySeq DEF Write, TypeOK
<1>4. \/ UNCHANGED <<tx, dropped>>
      \/ tx' = <<>> /\ dropped' = dropped \union {built}
  <2>1. CASE result = "WouldBlock"
    BY <2>1, WriteAnswers DEF Write
  <2>2. CASE result = "TransportError"
    BY <1>1, <2>2, WriteAnswers DEF Write
  <2> QED BY <2>1, <2>2
<1>5. built \in 1..built /\ \A n : Taken(n)' <=> Taken(n)
  BY <1>1, <1>3 DEF OneFate, Taken
<1>6. TypeOK'
  BY <1>3, <1>4, <1>5 DEF TypeOK, WriteResults
<1>7. TakenInOrder'
  BY <1>1, <1>3, <1>4 DEF TakenInOrder, OneFate, Taken
<1>8. OneFate'
  BY <1>1, <1>3, <1>4, <1>5 DEF OneFate
<1>9. InOrder'
  BY <1>3 DEF InOrder, Sorted, Precedes, OfTaken
<1> QED BY <1>6, <1>7, <1>8, <1>9

(* A read that gives LibOSDP anything gives it the head of the medium.     *)
LEMMA ReadKeeps ==
  ASSUME WireInv, NEW result \in WriteResults, Read(result)
  PROVE  WireInv'
<1> USE DEF WireInv
<1>1. PICK moved \in 0..(IF Len(medium) < BufLen THEN Len(medium) ELSE BufLen), count \in 0..(BufLen + 1) :
        /\ count = moved \/ count > BufLen
        /\ medium' = SubSeq(medium, moved + 1, Len(medium))
        /\ LET given == raw_read(result, count)
               bytes == SubSeq(medium, 1, moved) \o [i \in 1..(BufLen + 1) |-> <<0, i>>]
           IN rx' = IF given > 0 THEN rx \o SubSeq(bytes, 1, given) ELSE rx
        /\ UNCHANGED <<built, tx, answered, accepted, dropped>>
  BY DEF Read
<1> DEFINE junk == [i \in 1..(BufLen + 1) |-> <<0, i>>]
           head == SubSeq(medium, 1, moved)
           tail == SubSeq(medium, moved + 1, Len(medium))
<1>2. /\ BufLen \in Nat /\ Len(medium) \in Nat /\ moved \in 0..Len(medium) /\ moved <= BufLen
      /\ medium \in Seq(Bytes) /\ rx \in Seq(Bytes)
  BY LengthsAssumption, LenProperties DEF TypeOK
<1>3. /\ head \in Seq(Bytes) /\ Len(head) = moved /\ Within(head, medium) /\ Sorted(head)
      /\ tail \in Seq(Bytes) /\ Within(tail, medium) /\ Sorted(tail)
      /\ Precedes(head, tail)
  <2>1. 1 \in 1..(Len(medium) + 1) /\ moved \in (1 - 1)..Len(medium)
    BY <1>2
  <2>2. moved + 1 \in 1..(Len(medium) + 1) /\ Len(medium) \in (moved + 1 - 1)..Len(medium)
    BY <1>2
  <2>3. Len(head) = moved - 1 + 1
    BY <1>2, <2>1, PieceShape
  <2> QED BY <1>2, <2>1, <2>2, <2>3, PieceShape, CutSorted DEF InOrder
<1>4. \/ rx' = rx
      \/ rx' = rx \o head
  <2> SUFFICES ASSUME rx' # rx PROVE rx' = rx \o head
    OBVIOUS
  <2>1. moved > 0 /\ rx' = rx \o SubSeq(head \o junk, 1, moved)
    <3>1. result = "Ok" /\ count <= BufLen /\ count > 0
      <4>1. raw_read(result, count) > 0
        BY <1>1
      <4>2. result = "Ok"
        BY <4>1, ReadAnswers DEF WriteResults
      <4> QED BY <1>2, <4>1, <4>2, ReadAnswers
    <3>2. count = moved /\ raw_read(result, count) = moved
      BY <1>1, <1>2, <3>1, ReadAnswers
    <3> QED BY <1>1, <3>1, <3>2
  <2>2. SubSeq(head \o junk, 1, moved) = head
    <3>1. head \in Seq(Nat \X Nat) /\ junk \in Seq(Nat \X Nat)
      <4>1. Bytes \subseteq Nat \X Nat
        BY LengthsAssumption DEF Bytes
      <4>2. junk \in [1..(BufLen + 1) -> Nat \X Nat] /\ BufLen + 1 \in Nat
        BY <1>2
      <4>3. junk \in Seq(Nat \X Nat)
        BY <4>2, SeqDef
      <4>4. head \in Seq(Nat \X Nat)
        BY <1>3, <4>1, SeqMonotonic
      <4> QED BY <4>3, <4>4
    <3>2. 1 \in 1..Len(head) /\ moved \in 1..Len(head)
      BY <1>2, <1>3, <2>1
    <3>3. SubSeq(head \o junk, 1, moved) = SubSeq(head, 1, moved)
      BY ONLY <3>1, <3>2, SubSeqOfConcat1
    <3> QED BY <1>3, <3>1, <3>3, SubSeqFull
  <2> QED BY <2>1, <2>2
<1>5. medium' = tail
  BY <1>1
<1>6. TypeOK'
  BY <1>1, <1>2, <1>3, <1>4, <1>5, JoinShape DEF TypeOK
<1>7. TakenInOrder' /\ OneFate'
  BY <1>1 DEF TakenInOrder, OneFate, Taken
<1>8. Sorted(rx') /\ Precedes(rx', tail) /\ OfTaken(rx') /\ OfTaken(tail)
  <2>1. Precedes(rx, head) /\ Precedes(rx, tail) /\ OfTaken(head) /\ OfTaken(tail)
    BY <1>3, WithinPrecedes DEF InOrder
  <2>2. CASE rx' = rx
    BY <2>1, <2>2 DEF InOrder
  <2>3. CASE rx' = rx \o head
    BY <1>2, <1>3, <2>1, <2>3, SortedJoin, PrecedesJoin, OfTakenJoin DEF InOrder
  <2> QED BY <1>4, <2>2, <2>3
<1>9. InOrder'
  <2>1. Sorted(rx)' /\ Sorted(medium)' /\ Precedes(rx, medium)'
    BY <1>3, <1>5, <1>8 DEF Sorted, Precedes
  <2>2. OfTaken(rx)' /\ OfTaken(medium)'
    BY <1>1, <1>5, <1>8 DEF OfTaken
  <2> QED BY <2>1, <2>2 DEF InOrder
<1> QED BY <1>6, <1>7, <1>9

LEMMA FlushKeeps == ASSUME WireInv, Flush PROVE WireInv'
<1>1. medium' = <<>> /\ medium' \in Seq(Bytes) /\ DOMAIN medium' = {}
  BY EmptySeq DEF Flush
<1>2. UNCHANGED <<built, tx, answered, accepted, dropped, rx>>
  BY DEF Flush
<1>3. TypeOK' /\ TakenInOrder' /\ OneFate'
  BY <1>1, <1>2 DEF WireInv, TypeOK, TakenInOrder, OneFate, Taken
<1>4. InOrder'
  BY <1>1, <1>2 DEF WireInv, InOrder, Sorted, Precedes, OfTaken
<1> QED BY <1>3, <1>4 DEF WireInv

LEMMA InitHolds == ASSUME Init PROVE WireInv
<1>1. /\ <<>> \in Seq(Nat) /\ <<>> \in Seq(Bytes) /\ DOMAIN << >> = {}
  BY EmptySeq
<1>2. MaxPackets \in Nat
  BY LengthsAssumption
<1> QED BY <1>1, <1>2 DEF Init, WireInv, TypeOK, WriteResults, TakenInOrder, OneFate, Taken, InOrder, Sorted, Precedes, OfTaken

LEMMA StepKeeps == ASSUME WireInv, [Next]_vars PROVE WireInv'
<1>1. CASE BuildPacket
  BY <1>1, BuildKeeps
<1>2. CASE Flush
  BY <1>2, FlushKeeps
<1>3. ASSUME NEW result \in WriteResults, Write(result) PROVE WireInv'
  BY <1>3, TakenWhole, NotTaken DEF WriteResults
<1>4. ASSUME NEW result \in WriteResults, Read(result) PROVE WireInv'
  BY <1>4, ReadKeeps
<1>5. CASE UNCHANGED vars
  BY <1>5 DEF vars, WireInv, TypeOK, TakenInOrder, OneFate, Taken, InOrder, Sorted, Precedes, OfTaken
<1> QED BY <1>1, <1>2, <1>3, <1>4, <1>5 DEF Next

LEMMA Invariant == Spec => []WireInv
<1>1. Init => WireInv
  BY InitHolds
<1>2. WireInv /\ [Next]_vars => WireInv'
  BY StepKeeps
<1> QED BY <1>1, <1>2, PTL DEF Spec

-----------------------------------------------------------------------------
(* What follows for packets and bytes.                                     *)

LEMMA EachAccountedFor == ASSUME WireInv PROVE PacketsAccountedFor
<1> SUFFICES ASSUME NEW n \in 1..built
             PROVE  Cardinality({i \in DOMAIN accepted : accepted[i] = n})
                      + (IF n \in dropped THEN 1 ELSE 0) + (IF tx = Packet(n) THEN 1 ELSE 0) = 1
  BY DEF PacketsAccountedFor
<1> DEFINE places == {i \in DOMAIN accepted : accepted[i] = n}
<1>1. n \in Nat /\ built \in Nat
  BY DEF WireInv, TypeOK
<1>2. tx = Packet(n) <=> n = built /\ tx # <<>>
  BY <1>1, PacketShape, PacketsDiffer, Sending DEF WireInv
<1>3. CASE Taken(n)
  <2>1. PICK k \in DOMAIN accepted : accepted[k] = n
    BY <1>3 DEF Taken
  <2>2. ASSUME NEW l \in DOMAIN accepted, accepted[l] = n PROVE l = k
    <3>1. k \in Int /\ l \in Int
      <4>1. DOMAIN accepted = 1..Len(accepted)
        BY LenProperties DEF WireInv, TypeOK
      <4> QED BY <4>1
    <3>2. ~(k < l) /\ ~(l < k)
      BY <1>1, <2>1, <2>2 DEF WireInv, TakenInOrder
    <3> QED BY <3>1, <3>2
  <2>3. places = {k}
    BY <2>1, <2>2
  <2>4. Cardinality(places) = 1
    BY <2>3, FS_Singleton
  <2>5. n \notin dropped
    BY <2>1 DEF WireInv, TakenInOrder
  <2> QED BY <1>2, <1>3, <2>4, <2>5 DEF WireInv, OneFate
<1>4. CASE ~Taken(n)
  <2>1. places = {}
    BY <1>4 DEF Taken
  <2>2. Cardinality(places) = 0
    BY <2>1, FS_EmptySet
  <2> QED BY <1>2, <1>4, <2>2 DEF WireInv, OneFate
<1> QED BY <1>3, <1>4

(* Every variable keeps its type, and what LibOSDP has to send is always   *)
(* the last packet it built, whole (raw_write).                            *)
THEOREM TypeCorrect == Spec => []TypeOK
  BY Invariant, PTL DEF WireInv

(* Bytes come out at most once, in the order they went in, and none that   *)
(* was not sent: for packets and buffers of any length (raw_read).         *)
THEOREM OrderKept == Spec => []BytesInOrder
<1>1. WireInv => BytesInOrder
  BY DEF WireInv, InOrder, Sorted, OfTaken, BytesInOrder
<1> QED BY <1>1, Invariant, PTL

(* No packet is sent twice, and none that only had to wait is lost, in any *)
(* number of retries (raw_write).                                          *)
THEOREM PacketsKept == Spec => []PacketsAccountedFor
<1>1. WireInv => PacketsAccountedFor
  BY EachAccountedFor
<1> QED BY <1>1, Invariant, PTL
=============================================================================

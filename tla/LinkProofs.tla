----------------------------- MODULE LinkProofs -----------------------------
(***************************************************************************)
(* A control panel reads the status of a PD from its own bit of the mask,  *)
(* whichever PDs are on the bus, and tells its application only about     *)
(* devices that have been there since the PD came online.                  *)
(***************************************************************************)
EXTENDS Link, FiniteSetTheorems, TLAPS

-----------------------------------------------------------------------------
(* The masks.                                                              *)

Offsets == 0..125

LEMMA Powers ==
  ASSUME NEW k \in Int
  PROVE  /\ k = 0 => 2^k = 1
         /\ k = 1 => 2^k = 2
         /\ k = 2 => 2^k = 4
         /\ k = 3 => 2^k = 8
         /\ k = 4 => 2^k = 16
         /\ k = 5 => 2^k = 32
         /\ k = 6 => 2^k = 64
         /\ k = 7 => 2^k = 128
<1>1. ASSUME k = 0 PROVE 2^k = 1
  BY <1>1
<1>2. ASSUME k = 1 PROVE 2^k = 2
  BY <1>2
<1>3. ASSUME k = 2 PROVE 2^k = 4
  BY <1>3
<1>4. ASSUME k = 3 PROVE 2^k = 8
  BY <1>4
<1>5. ASSUME k = 4 PROVE 2^k = 16
  BY <1>5
<1>6. ASSUME k = 5 PROVE 2^k = 32
  BY <1>6
<1>7. ASSUME k = 6 PROVE 2^k = 64
  BY <1>7
<1>8. ASSUME k = 7 PROVE 2^k = 128
  BY <1>8
<1> QED BY <1>1, <1>2, <1>3, <1>4, <1>5, <1>6, <1>7, <1>8

(* The PDs of a byte, and what a set of them amounts to, bit by bit.       *)
PDsOf(byte) == {pd \in Offsets : pd \div 8 = byte}
Part(s, byte, bit, value) == IF 8 * byte + bit \in s THEN value ELSE 0
Amount(s, byte) ==
  Part(s, byte, 0, 1) + Part(s, byte, 1, 2) + Part(s, byte, 2, 4) + Part(s, byte, 3, 8)
    + Part(s, byte, 4, 16) + Part(s, byte, 5, 32) + Part(s, byte, 6, 64) + Part(s, byte, 7, 128)

LEMMA OffsetParts ==
  ASSUME NEW pd \in Offsets
  PROVE  /\ pd % 8 \in 0..7 /\ pd \div 8 \in 0..15
         /\ pd = 8 * (pd \div 8) + (pd % 8)
<1>1. pd \in 0..125 /\ pd \in Nat
  BY DEF Offsets
<1>2. pd % 8 \in 0..7 /\ pd \div 8 \in 0..15
  BY <1>1
<1>3. pd = 8 * (pd \div 8) + (pd % 8)
  BY <1>1
<1> QED BY <1>2, <1>3

LEMMA FewOffsets == IsFiniteSet(Offsets)
<1>1. 0 \in Int /\ 125 \in Int
  OBVIOUS
<1> QED BY <1>1, FS_Interval DEF Offsets

(* Taking a PD out of a set takes its bit out of the amount.               *)
LEMMA AmountOfRest ==
  ASSUME NEW byte \in 0..15, NEW s \in SUBSET PDsOf(byte), NEW x \in s
  PROVE  Amount(s, byte) = 2^(x % 8) + Amount(s \ {x}, byte)
<1>1. x \in Offsets /\ x \div 8 = byte
  BY DEF PDsOf
<1>2. PICK own \in 0..7 : x % 8 = own /\ x = 8 * byte + own
  BY <1>1, OffsetParts
<1> DEFINE Own(bit, value) == IF bit = own THEN value ELSE 0
<1>3. /\ Part(s, byte, 0, 1) = Part(s \ {x}, byte, 0, 1) + Own(0, 1)
      /\ Part(s \ {x}, byte, 0, 1) \in Nat /\ Own(0, 1) \in Nat
  BY <1>2 DEF Part
<1>4. /\ Part(s, byte, 1, 2) = Part(s \ {x}, byte, 1, 2) + Own(1, 2)
      /\ Part(s \ {x}, byte, 1, 2) \in Nat /\ Own(1, 2) \in Nat
  BY <1>2 DEF Part
<1>5. /\ Part(s, byte, 2, 4) = Part(s \ {x}, byte, 2, 4) + Own(2, 4)
      /\ Part(s \ {x}, byte, 2, 4) \in Nat /\ Own(2, 4) \in Nat
  BY <1>2 DEF Part
<1>6. /\ Part(s, byte, 3, 8) = Part(s \ {x}, byte, 3, 8) + Own(3, 8)
      /\ Part(s \ {x}, byte, 3, 8) \in Nat /\ Own(3, 8) \in Nat
  BY <1>2 DEF Part
<1>7. /\ Part(s, byte, 4, 16) = Part(s \ {x}, byte, 4, 16) + Own(4, 16)
      /\ Part(s \ {x}, byte, 4, 16) \in Nat /\ Own(4, 16) \in Nat
  BY <1>2 DEF Part
<1>8. /\ Part(s, byte, 5, 32) = Part(s \ {x}, byte, 5, 32) + Own(5, 32)
      /\ Part(s \ {x}, byte, 5, 32) \in Nat /\ Own(5, 32) \in Nat
  BY <1>2 DEF Part
<1>9. /\ Part(s, byte, 6, 64) = Part(s \ {x}, byte, 6, 64) + Own(6, 64)
      /\ Part(s \ {x}, byte, 6, 64) \in Nat /\ Own(6, 64) \in Nat
  BY <1>2 DEF Part
<1>10. /\ Part(s, byte, 7, 128) = Part(s \ {x}, byte, 7, 128) + Own(7, 128)
      /\ Part(s \ {x}, byte, 7, 128) \in Nat /\ Own(7, 128) \in Nat
  BY <1>2 DEF Part
<1>11. 2^(x % 8) = Own(0, 1) + Own(1, 2) + Own(2, 4) + Own(3, 8) + Own(4, 16) + Own(5, 32) + Own(6, 64) + Own(7, 128)
  <2>1. own \in Int /\ 2^(x % 8) = 2^own
    BY <1>2
  <2>2. CASE own = 0
    BY <2>1, <2>2, Powers
  <2>3. CASE own = 1
    BY <2>1, <2>3, Powers
  <2>4. CASE own = 2
    BY <2>1, <2>4, Powers
  <2>5. CASE own = 3
    BY <2>1, <2>5, Powers
  <2>6. CASE own = 4
    BY <2>1, <2>6, Powers
  <2>7. CASE own = 5
    BY <2>1, <2>7, Powers
  <2>8. CASE own = 6
    BY <2>1, <2>8, Powers
  <2>9. CASE own = 7
    BY <2>1, <2>9, Powers
  <2> QED BY <1>2, <2>2, <2>3, <2>4, <2>5, <2>6, <2>7, <2>8, <2>9
<1> HIDE DEF Own
<1> QED BY <1>3, <1>4, <1>5, <1>6, <1>7, <1>8, <1>9, <1>10, <1>11 DEF Amount

(* What a fold over the PDs of a byte does with one of its subsets, given  *)
(* what it does with the smaller ones.                                     *)
Unfolded(fold, S) ==
  [s \in SUBSET S |->
     IF s = {} THEN 0 ELSE LET x == CHOOSE pd \in s : TRUE IN 2^(x % 8) + fold[s \ {x}]]

Agrees(fold, S, byte, n) == \A s \in SUBSET S : Cardinality(s) <= n => fold[s] = Amount(s, byte)

LEMMA AgreesNext ==
  ASSUME NEW byte \in 0..15, NEW S \in SUBSET PDsOf(byte), NEW fold, fold = Unfolded(fold, S),
         NEW n \in Nat, Agrees(fold, S, byte, n)
  PROVE  Agrees(fold, S, byte, n + 1)
<1> SUFFICES ASSUME NEW s \in SUBSET S, Cardinality(s) <= n + 1
             PROVE  fold[s] = Amount(s, byte)
  BY DEF Agrees
<1>1. IsFiniteSet(s)
  <2>1. s \subseteq Offsets
    BY DEF PDsOf
  <2> QED BY <2>1, FewOffsets, FS_Subset
<1>2. CASE s = {}
  <2>1. fold[s] = 0
    BY <1>2 DEF Unfolded
  <2> QED BY <1>2, <2>1 DEF Amount, Part
<1>3. CASE s # {}
  <2> DEFINE x == CHOOSE pd \in s : TRUE
  <2>1. x \in s
    BY <1>3
  <2>2. fold[s] = 2^(x % 8) + fold[s \ {x}]
    BY <1>3 DEF Unfolded
  <2>3. Cardinality(s \ {x}) = Cardinality(s) - 1 /\ Cardinality(s) \in Nat
    BY <1>1, <2>1, FS_RemoveElement, FS_CardinalityType
  <2>4. fold[s \ {x}] = Amount(s \ {x}, byte)
    BY <2>3 DEF Agrees
  <2> QED BY <2>1, <2>2, <2>4, AmountOfRest
<1> QED BY <1>2, <1>3

(* Each byte of a mask amounts to its PDs.                                 *)
LEMMA MaskByte ==
  ASSUME NEW which \in SUBSET Offsets, NEW byte \in 0..15
  PROVE  Mask(which)[byte] = Amount(which, byte)
<1> DEFINE S == {pd \in which : pd \div 8 = byte}
           amounts == [s \in SUBSET S |-> Amount(s, byte)]
           fold == CHOOSE iter : iter = Unfolded(iter, S)
<1>1. S \in SUBSET PDsOf(byte)
  BY DEF PDsOf
<1>2. Mask(which)[byte] = fold[S]
  BY DEF Mask, MapThenFoldSet, Unfolded
<1>3. fold = Unfolded(fold, S)
  <2>1. ASSUME NEW s \in SUBSET S
        PROVE  amounts[s] = Unfolded(amounts, S)[s]
    <3>1. CASE s = {}
      BY <3>1 DEF Unfolded, Amount, Part
    <3>2. CASE s # {}
      <4> DEFINE x == CHOOSE pd \in s : TRUE
      <4>1. x \in s
        BY <3>2
      <4>2. Unfolded(amounts, S)[s] = 2^(x % 8) + Amount(s \ {x}, byte)
        BY <3>2 DEF Unfolded
      <4> QED BY <1>1, <4>1, <4>2, AmountOfRest
    <3> QED BY <3>1, <3>2
  <2>2. amounts = Unfolded(amounts, S)
    BY <2>1 DEF Unfolded
  <2> QED BY <2>2
<1> HIDE DEF fold
<1>4. Agrees(fold, S, byte, 0)
  <2> SUFFICES ASSUME NEW s \in SUBSET S, Cardinality(s) <= 0
               PROVE  fold[s] = Amount(s, byte)
    BY DEF Agrees
  <2>1. IsFiniteSet(s)
    <3>1. s \subseteq Offsets
      OBVIOUS
    <3> QED BY <3>1, FewOffsets, FS_Subset
  <2>2. s = {}
    BY <2>1, FS_EmptySet, FS_CardinalityType
  <2>3. fold[s] = 0
    BY <1>3, <2>2 DEF Unfolded
  <2> QED BY <2>2, <2>3 DEF Amount, Part
<1>5. \A n \in Nat : Agrees(fold, S, byte, n) => Agrees(fold, S, byte, n + 1)
  BY <1>1, <1>3, AgreesNext
<1>6. Agrees(fold, S, byte, 8)
  <2>1. Agrees(fold, S, byte, 0 + 1 + 1 + 1 + 1)
    BY <1>4, <1>5
  <2>2. Agrees(fold, S, byte, 4 + 1 + 1 + 1 + 1)
    BY <1>5, <2>1
  <2> QED BY <2>2
<1>7. Cardinality(S) <= 8
  <2>1. S \subseteq (8 * byte)..(8 * byte + 7)
    <3> SUFFICES ASSUME NEW pd \in S PROVE pd \in (8 * byte)..(8 * byte + 7)
      OBVIOUS
    <3>1. pd \in Nat /\ pd % 8 \in 0..7 /\ pd = 8 * byte + (pd % 8)
      BY OffsetParts DEF Offsets
    <3> QED BY <3>1
  <2>2. /\ IsFiniteSet((8 * byte)..(8 * byte + 7))
        /\ Cardinality((8 * byte)..(8 * byte + 7)) = 8
    BY FS_Interval
  <2> QED BY <2>1, <2>2, FS_Subset
<1>8. fold[S] = Amount(S, byte)
  BY <1>6, <1>7 DEF Agrees
<1>9. Amount(S, byte) = Amount(which, byte)
  <2>1. \A bit \in 0..7 : 8 * byte + bit \in S <=> 8 * byte + bit \in which
    BY DEF Offsets
  <2> QED BY <2>1 DEF Amount, Part
<1> QED BY <1>2, <1>8, <1>9

(* A bit of an amount is set if its PD is in the set.                      *)
LEMMA BitOfAmount ==
  ASSUME NEW s, NEW byte \in 0..15, NEW bit \in 0..7
  PROVE  /\ Amount(s, byte) \in 0..255
         /\ (Amount(s, byte) \div 2^bit) % 2 # 0 <=> 8 * byte + bit \in s
<1>1. PICK a \in {0, 1}, b \in {0, 2}, c \in {0, 4}, d \in {0, 8},
           e \in {0, 16}, f \in {0, 32}, g \in {0, 64}, h \in {0, 128} :
        /\ Amount(s, byte) = a + b + c + d + e + f + g + h
        /\ a = 1 <=> 8 * byte + 0 \in s
        /\ b = 2 <=> 8 * byte + 1 \in s
        /\ c = 4 <=> 8 * byte + 2 \in s
        /\ d = 8 <=> 8 * byte + 3 \in s
        /\ e = 16 <=> 8 * byte + 4 \in s
        /\ f = 32 <=> 8 * byte + 5 \in s
        /\ g = 64 <=> 8 * byte + 6 \in s
        /\ h = 128 <=> 8 * byte + 7 \in s
  BY DEF Amount, Part
<1>2. Amount(s, byte) \in 0..255
  BY <1>1
<1>3. CASE bit = 0
  <2>1. 2^bit = 1
    BY <1>3, Powers
  <2>2. ((a + b + c + d + e + f + g + h) \div 1) % 2 # 0 <=> a = 1
    BY <1>1
  <2> QED BY <1>1, <1>3, <2>1, <2>2
<1>4. CASE bit = 1
  <2>1. 2^bit = 2
    BY <1>4, Powers
  <2>2. ((a + b + c + d + e + f + g + h) \div 2) % 2 # 0 <=> b = 2
    BY <1>1
  <2> QED BY <1>1, <1>4, <2>1, <2>2
<1>5. CASE bit = 2
  <2>1. 2^bit = 4
    BY <1>5, Powers
  <2>2. ((a + b + c + d + e + f + g + h) \div 4) % 2 # 0 <=> c = 4
    BY <1>1
  <2> QED BY <1>1, <1>5, <2>1, <2>2
<1>6. CASE bit = 3
  <2>1. 2^bit = 8
    BY <1>6, Powers
  <2>2. ((a + b + c + d + e + f + g + h) \div 8) % 2 # 0 <=> d = 8
    BY <1>1
  <2> QED BY <1>1, <1>6, <2>1, <2>2
<1>7. CASE bit = 4
  <2>1. 2^bit = 16
    BY <1>7, Powers
  <2>2. ((a + b + c + d + e + f + g + h) \div 16) % 2 # 0 <=> e = 16
    BY <1>1
  <2> QED BY <1>1, <1>7, <2>1, <2>2
<1>8. CASE bit = 5
  <2>1. 2^bit = 32
    BY <1>8, Powers
  <2>2. ((a + b + c + d + e + f + g + h) \div 32) % 2 # 0 <=> f = 32
    BY <1>1
  <2> QED BY <1>1, <1>8, <2>1, <2>2
<1>9. CASE bit = 6
  <2>1. 2^bit = 64
    BY <1>9, Powers
  <2>2. ((a + b + c + d + e + f + g + h) \div 64) % 2 # 0 <=> g = 64
    BY <1>1
  <2> QED BY <1>1, <1>9, <2>1, <2>2
<1>10. CASE bit = 7
  <2>1. 2^bit = 128
    BY <1>10, Powers
  <2>2. ((a + b + c + d + e + f + g + h) \div 128) % 2 # 0 <=> h = 128
    BY <1>1
  <2> QED BY <1>1, <1>10, <2>1, <2>2
<1> QED BY <1>2, <1>3, <1>4, <1>5, <1>6, <1>7, <1>8, <1>9, <1>10

(* What is_online and is_secure read is whether the PD is in the set.      *)
LEMMA BitIsMember ==
  ASSUME NEW which \in SUBSET Offsets, NEW pd \in Offsets
  PROVE  Bit(Mask(which), pd) <=> pd \in which
<1>1. pd \div 8 \in 0..15 /\ pd % 8 \in 0..7 /\ 8 * (pd \div 8) + (pd % 8) = pd
  BY OffsetParts
<1>2. Mask(which)[pd \div 8] = Amount(which, pd \div 8)
  BY <1>1, MaskByte
<1>3. (Amount(which, pd \div 8) \div 2^(pd % 8)) % 2 # 0 <=> 8 * (pd \div 8) + (pd % 8) \in which
  BY <1>1, BitOfAmount
<1> QED BY <1>1, <1>2, <1>3 DEF Bit

(* is_online and is_secure tell of every PD exactly what LibOSDP said of   *)
(* it, on a bus of any size, and the mask fits LibOSDP's 16 bytes.         *)
THEOREM StatusIsExact ==
  ASSUME NEW pd \in 0..125, NEW which \in SUBSET (0..125)
  PROVE  /\ Bit(Mask(which), pd) <=> pd \in which
         /\ Mask(which) \in [0..15 -> 0..255]
<1>1. Bit(Mask(which), pd) <=> pd \in which
  BY BitIsMember DEF Offsets
<1>2. \A byte \in 0..15 : Mask(which)[byte] \in 0..255
  <2> TAKE byte \in 0..15
  <2>1. Mask(which)[byte] = Amount(which, byte)
    BY MaskByte DEF Offsets
  <2>2. 0 \in 0..7
    OBVIOUS
  <2> QED BY <2>1, <2>2, BitOfAmount
<1>3. Mask(which) = [byte \in 0..15 |-> Mask(which)[byte]]
  BY DEF Mask
<1> QED BY <1>1, <1>2, <1>3

-----------------------------------------------------------------------------
(* What the application is told.                                           *)

TypeOK ==
  /\ device \in [PDs -> Devices]
  /\ online \subseteq enabled /\ secure \subseteq online
  /\ enabled \subseteq PDs /\ asked \subseteq PDs
  /\ pdId \in [PDs -> Devices \union {None}]
  /\ capable \in [PDs -> BOOLEAN]
  /\ present \in [PDs -> SUBSET Devices]

(* While a PD is online, the identity LibOSDP keeps is that of a device    *)
(* that has been at its address since, as is the one that is there.        *)
IdentityKept == \A pd \in online : {pdId[pd], device[pd]} \subseteq present[pd]

LinkInv == TypeOK /\ IdentityKept

LEMMA OnlineIsRead ==
  ASSUME TypeOK, NEW pd \in PDs
  PROVE  is_online(pd) <=> pd \in online
<1>1. pd \in Offsets /\ online \in SUBSET Offsets
  BY PDsAssumption DEF TypeOK, Offsets
<1> QED BY <1>1, BitIsMember DEF is_online

LEMMA StepKeeps == ASSUME LinkInv, [Next]_vars PROVE LinkInv'
<1> USE DEF LinkInv, TypeOK, IdentityKept
<1>1. ASSUME NEW pd \in PDs, C_Online(pd) PROVE LinkInv'
  BY <1>1 DEF C_Online
<1>2. ASSUME NEW pd \in PDs, C_Secure(pd) \/ C_Offline(pd) PROVE LinkInv'
  BY <1>2 DEF C_Secure, C_Offline, Library
<1>3. ASSUME NEW pd \in PDs, C_Enabled(pd) PROVE LinkInv'
  BY <1>3 DEF C_Enabled
<1>4. ASSUME NEW pd \in PDs, Exchange(pd) PROVE LinkInv'
  <2>1. PICK d \in Devices : /\ device' = [device EXCEPT ![pd] = d]
                             /\ present' = [present EXCEPT ![pd] = @ \union {d}]
    BY <1>4 DEF Exchange
  <2>2. UNCHANGED <<online, secure, asked, told, pdId, capable, enabled>>
    BY <1>4 DEF Exchange, Library
  <2>3. TypeOK'
    BY <2>1, <2>2
  <2>4. ASSUME NEW other \in online PROVE {pdId[other], device'[other]} \subseteq present'[other]
    BY <2>1, <2>2
  <2> QED BY <2>2, <2>3, <2>4
<1>5. ASSUME NEW pd \in PDs, pd_id(pd) \/ capability(pd) PROVE LinkInv'
  BY <1>5 DEF pd_id, capability, Tell, Library
<1>6. ASSUME NEW pd \in PDs, NEW on \in BOOLEAN, Ask(pd, on) PROVE LinkInv'
  BY <1>6 DEF Ask, Library
<1>7. CASE UNCHANGED vars
  BY <1>7 DEF vars
<1> QED BY <1>1, <1>2, <1>3, <1>4, <1>5, <1>6, <1>7 DEF Next

LEMMA Invariant == Spec => []LinkInv
<1>1. Init => LinkInv
  BY DEF Init, LinkInv, TypeOK, IdentityKept
<1>2. LinkInv /\ [Next]_vars => LinkInv'
  BY StepKeeps
<1> QED BY <1>1, <1>2, PTL DEF Spec

(* Every variable keeps its type; a PD is online only while LibOSDP polls  *)
(* it, and secure only while it is online.                                 *)
THEOREM TypeCorrect == Spec => []TypeOK
<1>1. LinkInv => TypeOK
  BY DEF LinkInv
<1> QED BY <1>1, Invariant, PTL

(* pd_id and capability tell of a device that has been at the address      *)
(* since the PD came online, never of one of an earlier session, and       *)
(* nothing while the PD is offline: on a bus of any PDs, through any       *)
(* exchange of devices, noticed or not.                                    *)
THEOREM IdentityTold == Spec => IdentityIsCurrent
<1> DEFINE Current ==
      told' # told =>
        LET pd      == told'.pd
            nothing == IF told'.refused \/ ~capable[pd] THEN {None} ELSE {}
        IN told'.device \in (IF pd \in online THEN present[pd] \union nothing ELSE {None})
<1>1. LinkInv /\ [Next]_vars => [Current]_vars
  <2> SUFFICES ASSUME LinkInv, Next PROVE Current
    OBVIOUS
  <2>1. ASSUME NEW pd \in PDs, pd_id(pd) PROVE Current
    BY <2>1, OnlineIsRead DEF pd_id, Tell, LinkInv, IdentityKept
  <2>2. ASSUME NEW pd \in PDs, capability(pd) PROVE Current
    BY <2>2, OnlineIsRead DEF capability, Tell, LinkInv, IdentityKept
  <2>3. ASSUME NEW pd \in PDs, C_Online(pd) \/ C_Secure(pd) \/ C_Offline(pd) \/ C_Enabled(pd) \/ Exchange(pd)
        PROVE  Current
    BY <2>3 DEF C_Online, C_Secure, C_Offline, C_Enabled, Exchange
  <2>4. ASSUME NEW pd \in PDs, Ask(pd, TRUE) \/ Ask(pd, FALSE) PROVE Current
    BY <2>4 DEF Ask
  <2> QED BY <2>1, <2>2, <2>3, <2>4 DEF Next
<1>2. [][Current]_vars => IdentityIsCurrent
  BY PTL DEF IdentityIsCurrent
<1> QED BY <1>1, <1>2, Invariant, PTL DEF Spec
=============================================================================

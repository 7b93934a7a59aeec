------------------------------ MODULE Encoding ------------------------------
(***************************************************************************)
(* What the conversions between this crate's types and LibOSDP's structs   *)
(* are built from: counts of a unit of time, bytes with a length, codes of *)
(* enums, little-endian words.                                             *)
(*                                                                         *)
(* A conversion that may refuse (TryFrom) is an operator whose value is    *)
(* the set of its results: {x} when it yields x and {} when it refuses.    *)
(* The "?" of the code is then a bound of a set comprehension: where one   *)
(* part is refused the whole is.  Which Error a refusal is stays out.      *)
(***************************************************************************)
EXTENDS Integers, Sequences

\* The greatest value of an unsigned byte and of a 16 bit word.
U8  == 255
U16 == 65535

\* A Duration is a number of half milliseconds, so that times which are not
\* a whole number of the finest unit exist.
Millisecond == 2
Tenth       == 200
Second      == 2000

ToCountRounded(duration, unit, max) == {n \in {duration \div unit} : n <= max}
ToCountBelow(duration, unit, max) ==
  {n \in {duration \div unit} : duration % unit = 0 /\ n < max}

\* "duration" as a count of "unit" in a word of greatest value "max".
ToCount(duration, unit, max) ==
  {n \in {duration \div unit} : duration % unit = 0 /\ n <= max}

FromCount(count, unit) == unit * count

\* copy_into with the length beside it: an array of "max" bytes, zero after
\* the data, and the length cast to a word of greatest value "width".
ToBuffer(data, max, width) ==
  IF Len(data) > max
  THEN {}
  ELSE {[length |-> Len(data) % (width + 1),
         bytes  |-> [i \in 1..max |-> IF i <= Len(data) THEN data[i] ELSE 0]]}

FromShorterBuffer(buffer) ==
  IF buffer.length \in 0..(Len(buffer.bytes) - 1)
  THEN {SubSeq(buffer.bytes, 1, buffer.length)}
  ELSE {}

\* data.get(..length): refused when the length is past the array, or, where
\* C's length is signed, negative.
FromBuffer(buffer) ==
  IF buffer.length \in 0..Len(buffer.bytes)
  THEN {SubSeq(buffer.bytes, 1, buffer.length)}
  ELSE {}

\* An enum of this crate is a record from variants to codes.  A closed one
\* refuses a code that no variant has.
Decode(codes, code) == {name \in DOMAIN codes : codes[name] = code}

\* An open enum has one more variant, which carries any other code; its
\* values are pairs, <<name, 0>> or <<"Other", code>>.
Open(codes) == {<<name, 0>> : name \in DOMAIN codes} \union {<<"Other", c>> : c \in 0..U8}

OpenToC(codes, value) == IF value[1] = "Other" THEN value[2] ELSE codes[value[1]]

OpenFromC(codes, code) ==
  IF Decode(codes, code) = {}
  THEN <<"Other", code>>
  ELSE <<CHOOSE name \in DOMAIN codes : codes[name] = code, 0>>

\* ConvertEndian: three bytes, such as a vendor code, in a 32 bit word, and
\* back, which drops the fourth byte of the word.
AsLe(bytes) == bytes[1] + 256 * bytes[2] + 65536 * bytes[3]

ToLeBytes(word) == <<word % 256, (word \div 256) % 256, (word \div 65536) % 256>>

Byte  == 0..U8
Bytes == Seq(Byte)
Word  == 0..U16
Vendor == Byte \X Byte \X Byte
=============================================================================

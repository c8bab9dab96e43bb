-------------------------------- MODULE Wire --------------------------------
(* The data of the codec: what include/serialize.h says a registered field   *)
(* is, and the pure conversions between a value and its bytes that the       *)
(* encoder and the decoder call.                                             *)
(*                                                                           *)
(* A number is the bit pattern the code handles, a natural below the width   *)
(* of its C++ type: 2^32 is Mod32 and 2^64 is Mod64.  The base 128 of the    *)
(* variable-length integers is the code's; the widths are parameters.        *)
EXTENDS Integers, Sequences, SequencesExt

CONSTANTS Bytes32,  \* bytes of a uint32_t, 4 in the code
          Bytes64   \* bytes of a uint64_t, 8 in the code

Pow256[n \in Nat] == IF n = 0 THEN 1 ELSE 256 * Pow256[n - 1]

Mod32 == Pow256[Bytes32]
Mod64 == Pow256[Bytes64]

\* A uint64_t is wider than a uint32_t.
ASSUME WidthAssumption ==
  Bytes32 \in Nat \ {0} /\ Bytes64 \in Nat \ {0} /\ Bytes32 < Bytes64

Num32 == 0 .. (Mod32 - 1)
Num64 == 0 .. (Mod64 - 1)
Byte  == 0 .. 255

\* ceil(64 / 7): the length of the longest varint, enclosure_t::sz[10].
MaxVarintBytes == (8 * Bytes64 + 6) \div 7

-----------------------------------------------------------------------------
(* Fields.  An item is [num, shape, cpp, low, high, has, key]: the field     *)
(* number, "single", "vector" or "map", the C++ type of the value (or of an  *)
(* element), type & 0xFFFF, type >> BITNUM, whether there is a has-flag, and  *)
(* the C++ type of a map's key.  A flag that is the first member of its      *)
(* struct has the offset 0, which the encoder and the decoder take for none: *)
(* the item of such a field has no has-flag.                                 *)

TYPE_VARINT  == 0
TYPE_SVARINT == 1
TYPE_FIXED32 == 2
TYPE_FIXED64 == 3
PACKED       == 1   \* TYPE_PACKED >> BITNUM

WT_VARINT           == 0
WT_64BIT            == 1
WT_LENGTH_DELIMITED == 2
WT_GROUP_START      == 3
WT_GROUP_END        == 4
WT_32BIT            == 5

Ints32  == {"int32", "uint32"}
Ints64  == {"int64", "uint64"}
Scalars == {"bool", "float", "double", "string"} \cup Ints32 \cup Ints64

IsMessage(cpp) == cpp \notin Scalars

IntModulus(cpp) == IF cpp \in Ints32 THEN Mod32 ELSE Mod64

\* isMessage<T>::WRITE_TYPE
WriteType(cpp) ==
  CASE cpp \in {"bool"} \cup Ints32 \cup Ints64 -> WT_VARINT
    [] cpp = "float"                           -> WT_32BIT
    [] cpp = "double"                          -> WT_64BIT
    [] OTHER                                   -> WT_LENGTH_DELIMITED

\* What `if (v)` sees as false: -0.0 too, and the empty string.
IsZero(cpp, v) ==
  CASE cpp = "string" -> v = <<>>
    [] cpp = "float"  -> v \in {0, Mod32 \div 2}
    [] cpp = "double" -> v \in {0, Mod64 \div 2}
    [] OTHER          -> v = 0

-----------------------------------------------------------------------------
(* From a value to its bytes.                                                *)

VarintByteSize[v \in Nat] == IF v >= 128 THEN 1 + VarintByteSize[v \div 128] ELSE 1

\* (uint8_t)(value | 0x80) keeps seven bits and sets the eighth.
VarintBytes[v \in Nat] ==
  IF v >= 128 THEN <<128 + (v % 128)>> \o VarintBytes[v \div 128] ELSE <<v>>

\* int32_t(v) passed as a uint64_t: the sign bit is copied to the upper half.
SignExtend(v) == IF 2 * v >= Mod32 THEN v + (Mod64 - Mod32) ELSE v

\* (v << 1) ^ (v >> 31): the right shift of an unsigned number brings in the
\* sign bit alone, so the exclusive or changes the lowest bit alone.
ZigZag(v, modulus) == ((2 * v) % modulus) + (IF 2 * v >= modulus THEN 1 ELSE 0)

\* Mutant of Fixed: a byte is not masked.
FixedUnmasked(v, width) == [i \in 1 .. width |-> v \div Pow256[i - 1]]

Fixed(v, width) == [i \in 1 .. width |-> (v \div Pow256[i - 1]) % 256]

Tag(num, wireType) == VarintBytes[8 * num + wireType]

-----------------------------------------------------------------------------
(* From bytes to a value.                                                    *)

\* The positions at which a varint of bytes[cur + 1 .. end] can stop.
VarintStops(bytes, cur, end) == {i \in (cur + 1) .. end : bytes[i] < 128}

\* What the loop of ReadVarInt adds up, byte by byte; exact while its shift
\* count is below 64, which is for at most MaxVarintBytes bytes.
VarintValue(bytes) ==
  FoldRight(LAMBDA b, acc : (b % 128) + 128 * acc, bytes, 0) % Mod64

LittleEndian(bytes) == FoldRight(LAMBDA b, acc : b + 256 * acc, bytes, 0)

\* (c >> 1) ^ -(c & 1): an odd number yields the complement of its upper bits.
UnZigZag(c) == IF c % 2 = 0 THEN c \div 2 ELSE (Mod64 - 1) - (c \div 2)

\* T(u) of a uint64_t.
Narrow(cpp, u) ==
  CASE cpp = "bool"     -> IF u = 0 THEN 0 ELSE 1
    [] cpp \in Ints32   -> u % Mod32
    [] OTHER            -> u
-----------------------------------------------------------------------------
(* The keys of a map, in the order in which a std::map iterates.             *)

StringBefore(a, b) ==
  \/ IsStrictPrefix(a, b)
  \/ \E i \in DOMAIN a \cap DOMAIN b :
       SubSeq(a, 1, i - 1) = SubSeq(b, 1, i - 1) /\ a[i] < b[i]

\* std::map iterates by operator< of the key's C++ type.
KeyBefore(cpp, a, b) ==
  LET Signed(v) == IF cpp \in {"int32", "int64"} /\ 2 * v >= IntModulus(cpp)
                     THEN v - IntModulus(cpp) ELSE v
  IN  IF cpp = "string" THEN StringBefore(a, b) ELSE Signed(a) < Signed(b)

InOrder(item, map) ==
  {keys \in [1 .. Cardinality(DOMAIN map) -> DOMAIN map] :
     /\ Range(keys) = DOMAIN map
     /\ \A i, j \in DOMAIN keys : i < j => KeyBefore(item.key, keys[i], keys[j])}

Keys(item, map) == CHOOSE keys \in InOrder(item, map) : TRUE
=============================================================================

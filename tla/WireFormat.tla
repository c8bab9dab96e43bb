------------------------------ MODULE WireFormat ------------------------------
(* The reference: the bytes of a message by the encoding that serialize.h:71 *)
(* refers to (https://developers.google.com/protocol-buffers/docs/encoding). *)
(* It is written field by field from that page, with no regard to how the    *)
(* encoder goes about it.                                                    *)
EXTENDS Wire

(* The objects of a C++ program hold values of the types of their fields,    *)
(* and other objects.  An object is a pair [struct, value].                  *)

Object(cpp, v) == [struct |-> cpp, value |-> v]

HasType(Objects, cpp, v) ==
  CASE cpp = "string"                   -> v \in Seq(Byte)
    [] cpp = "bool"                     -> v \in {0, 1}
    [] cpp \in Ints32 \cup {"float"}    -> v \in Num32
    [] cpp \in Ints64 \cup {"double"}   -> v \in Num64
    [] OTHER                            -> Object(cpp, v) \in Objects

\* A std::map iterates in the order of its keys.
FieldHasType(Objects, item, v) ==
  CASE item.shape = "single" -> HasType(Objects, item.cpp, v)
    [] item.shape = "vector" -> /\ v \in Seq({v[i] : i \in DOMAIN v})
                                /\ \A i \in DOMAIN v : HasType(Objects, item.cpp, v[i])
    [] item.shape = "map"    -> /\ v = [k \in DOMAIN v |-> v[k]] /\ InOrder(item, v) # {}
                                /\ Cardinality(DOMAIN v) \in Nat
                                /\ \A k \in DOMAIN v : /\ HasType(Objects, item.key, k)
                                                       /\ HasType(Objects, item.cpp, v[k])

\* The values of a field of the item.
Members(item, v) == IF item.shape = "single" THEN {v} ELSE {v[k] : k \in DOMAIN v}

\* The objects in the fields of an object of a struct with the items.
Held(items, m) ==
  LET InField(item) == {Object(item.cpp, v) : v \in Members(item, m.value.val[item.num])}
      MapKeys(item) == IF item.shape # "map" THEN {}
                       ELSE {Object(item.key, k) : k \in DOMAIN m.value.val[item.num]}
  IN  {o \in UNION {InField(items[i]) \cup MapKeys(items[i]) : i \in DOMAIN items} : IsMessage(o.struct)}

WellTyped(structs, objects) ==
  \A m \in objects :
    /\ m.struct \in DOMAIN structs
    /\ \A item \in Range(structs[m.struct]) : FieldHasType(objects, item, m.value.val[item.num])

-----------------------------------------------------------------------------
\* 0, -1, 1, -2, ... become 0, 1, 2, 3, ...
ZigZagFormat(v, modulus) ==
  IF 2 * v < modulus THEN 2 * v ELSE 2 * (modulus - v) - 1

FormatType(cpp, type) ==
  CASE cpp = "string" \/ IsMessage(cpp)                       -> WT_LENGTH_DELIMITED
    [] cpp = "float" \/ (cpp \in Ints32 /\ type = TYPE_FIXED32)  -> WT_32BIT
    [] cpp = "double" \/ (cpp \in Ints64 /\ type = TYPE_FIXED64) -> WT_64BIT
    [] OTHER                                                  -> WT_VARINT

LengthDelimited(bytes) == VarintBytes[Len(bytes)] \o bytes

\* A value without its tag; formats are the bytes of the objects it can be.
Payload(formats, cpp, type, v) ==
  CASE cpp = "string"  -> LengthDelimited(v)
    [] IsMessage(cpp)  -> LengthDelimited(formats[Object(cpp, v)])
    [] FormatType(cpp, type) = WT_32BIT -> Fixed(v, Bytes32)
    [] FormatType(cpp, type) = WT_64BIT -> Fixed(v, Bytes64)
    [] OTHER -> VarintBytes[IF cpp \in Ints32 \cup Ints64 /\ type = TYPE_SVARINT
                              THEN ZigZagFormat(v, IntModulus(cpp))
                            ELSE IF cpp = "int32" THEN SignExtend(v) ELSE v]

Tagged(formats, num, cpp, type, v) ==
  Tag(num, FormatType(cpp, type)) \o Payload(formats, cpp, type, v)

EntryFormat(formats, item, k, v) ==
  Tag(item.num, WT_LENGTH_DELIMITED)
    \o LengthDelimited(Tagged(formats, 1, item.key, item.high, k)
                         \o Tagged(formats, 2, item.cpp, item.low, v))

PackedFormat(formats, item, v) ==
  Tag(item.num, WT_LENGTH_DELIMITED)
    \o LengthDelimited(FlattenSeq([i \in 1 .. Len(v) |-> Payload(formats, item.cpp, item.low, v[i])]))

\* The records of a field, one for each value: the field without a has-flag is
\* always there.  The entries of a map may come in any order; this is that of
\* std::map.
FieldRecords(formats, item, m) ==
  LET v == m.val[item.num]
      Record(x) == Tagged(formats, item.num, item.cpp, item.low, x)
      keys == Keys(item, v)
  IN  CASE item.shape = "single" -> IF item.has => m.has[item.num] THEN <<Record(v)>> ELSE <<>>
        [] item.shape = "vector" /\ item.high # PACKED -> [i \in 1 .. Len(v) |-> Record(v[i])]
        [] item.shape = "vector" /\ item.high = PACKED ->
             IF v = <<>> THEN <<>> ELSE <<PackedFormat(formats, item, v)>>
        [] OTHER -> [i \in 1 .. Cardinality(DOMAIN v) |->
                       EntryFormat(formats, item, keys[i], v[keys[i]])]

MessageFormat(formats, items, m) ==
  FlattenSeq([i \in 1 .. Len(items) |-> FlattenSeq(FieldRecords(formats, items[i], m))])

\* The bytes of each of the objects, which hold none but each other.
Formats(structs, objects) ==
  LET formats[m \in objects] == MessageFormat(formats, structs[m.struct], m.value)
  IN  formats
=============================================================================

----------------------------- MODULE WireMeaning -----------------------------
(* The reference: what the bytes of a message mean for an object, as the     *)
(* Protocol Buffers of which the repository has a copy define it.  The bytes *)
(* are a list of records; the records of one field make up its value, with   *)
(* no regard to those of other fields: of a number the last one counts, the  *)
(* parts of a nested message are one message, and so on.  There is no parser *)
(* and nothing is shared between two maps.  It is used by the checks alone.  *)
EXTENDS WireFormat

CONSTANTS Schema, Zero(_)  \* the zero value of a C++ type

\* The end of the varint that begins the bytes, 0 if there is none.
VarintEnd(bytes) ==
  LET stops == {i \in DOMAIN bytes : bytes[i] < 128}
  IN  IF stops = {} THEN 0 ELSE Min(stops)

Until(bytes, n) == SubSeq(bytes, 1, n)
Behind(bytes, n) == SubSeq(bytes, n + 1, Len(bytes))

\* A record of a number or of bytes.  A faulty one is "cut" short (or of a kind that
\* no field has), has a length that goes "beyond" the end, or an "overlong" varint;
\* nothing comes after it.
Record(num, wire, u, data) == [num |-> num, wire |-> wire, u |-> u, data |-> data, fault |-> "none"]
Faulty(why) == [num |-> 0, wire |-> 0, u |-> 0, data |-> <<>>, fault |-> why]

RECURSIVE Records(_)

\* The records of a tag and of what comes behind it.
Tagwise(num, wire, rest) ==
  LET n == VarintEnd(rest)
      u == VarintValue(Until(rest, n))
      width == IF wire = WT_64BIT THEN Bytes64 ELSE Bytes32
  IN  CASE wire \in {WT_VARINT, WT_LENGTH_DELIMITED} /\ n = 0 -> <<Faulty("cut")>>
        [] wire \in {WT_VARINT, WT_LENGTH_DELIMITED} /\ n > MaxVarintBytes -> <<Faulty("overlong")>>
        [] wire = WT_VARINT /\ n \in 1 .. MaxVarintBytes ->
             <<Record(num, wire, u, <<>>)>> \o Records(Behind(rest, n))
        [] wire = WT_LENGTH_DELIMITED /\ n \in 1 .. MaxVarintBytes ->
             IF n + u > Len(rest) THEN <<Faulty("beyond")>>
             ELSE <<Record(num, wire, 0, SubSeq(rest, n + 1, n + u))>> \o Records(Behind(rest, n + u))
        [] wire \in {WT_64BIT, WT_32BIT} ->
             IF Len(rest) < width THEN <<Faulty("cut")>>
             ELSE <<Record(num, wire, LittleEndian(Until(rest, width)), <<>>)>> \o Records(Behind(rest, width))
        [] OTHER -> <<Faulty("cut")>>

Records(bytes) ==
  LET n == VarintEnd(bytes)
      tag == VarintValue(Until(bytes, n))
  IN  CASE bytes = <<>>               -> <<>>
        [] bytes # <<>> /\ n = 0       -> <<Faulty("cut")>>
        [] n > MaxVarintBytes          -> <<Faulty("overlong")>>
        [] n \in 1 .. MaxVarintBytes   -> Tagwise(tag \div 8, tag % 8, Behind(bytes, n))

\* The records of a field, in their order.
Own(item, bytes) == SelectSeq(Records(bytes), LAMBDA rec : rec.num = item.num)
Datas(recs) == [i \in DOMAIN recs |-> recs[i].data]

-----------------------------------------------------------------------------
(* Numbers.                                                                  *)

NumberMeaning(item, u) ==
  LET c == u % IntModulus(item.cpp)
  IN  IF item.low # TYPE_SVARINT THEN Narrow(item.cpp, u)
      ELSE IF c % 2 = 0 THEN c \div 2 ELSE IntModulus(item.cpp) - (c + 1) \div 2

ScalarMeaning(item, rec) == IF item.cpp = "string" THEN rec.data ELSE NumberMeaning(item, rec.u)

\* The bytes of each number of a packed field; the last one may be cut short.
Packed(item) == item.shape = "vector" /\ item.high = PACKED

RECURSIVE PackedNumbers(_, _)
PackedNumbers(item, data) ==
  LET n == CASE FormatType(item.cpp, item.low) = WT_32BIT -> Bytes32
             [] FormatType(item.cpp, item.low) = WT_64BIT -> Bytes64
             [] OTHER -> VarintEnd(data)
  IN  IF data = <<>> THEN <<>>
      ELSE IF n = 0 \/ n >= Len(data) THEN <<data>>
      ELSE <<Until(data, n)>> \o PackedNumbers(item, Behind(data, n))

PackedWhole(item, number) ==
  CASE FormatType(item.cpp, item.low) = WT_32BIT -> Len(number) = Bytes32
    [] FormatType(item.cpp, item.low) = WT_64BIT -> Len(number) = Bytes64
    [] OTHER -> VarintEnd(number) # 0

PackedMeaning(item, data) ==
  LET numbers == SelectSeq(PackedNumbers(item, data), LAMBDA number : PackedWhole(item, number))
      Value(number) == IF FormatType(item.cpp, item.low) = WT_VARINT THEN VarintValue(number)
                       ELSE LittleEndian(number)
  IN  [i \in DOMAIN numbers |-> NumberMeaning(item, Value(numbers[i]))]

-----------------------------------------------------------------------------
(* Messages.                                                                 *)

\* An entry is a message with the key for its field 1 and the value for its field 2.
EntrySchema(item) ==
  LET Part(num, cpp, type) == [num |-> num, shape |-> "single", cpp |-> cpp, low |-> type,
                               high |-> 0, has |-> FALSE, key |-> "none"]
  IN  <<Part(1, item.key, item.high), Part(2, item.cpp, item.low)>>
EmptyEntry(item) == [val |-> <<Zero(item.key), Zero(item.cpp)>>, has |-> <<FALSE, FALSE>>]

Nested(item) == item.shape = "map" \/ IsMessage(item.cpp)
NestedItems(item) == IF item.shape = "map" THEN EntrySchema(item) ELSE Schema[item.cpp]

RECURSIVE Meaning(_, _, _)

\* Of two entries with one key the last counts.
MapMeaning(item, recs) ==
  FoldLeft(LAMBDA map, rec : LET entry == Meaning(EntrySchema(item), rec.data, EmptyEntry(item))
                             IN  (entry.val[1] :> entry.val[2]) @@ map,
           <<>>, recs)

VectorMeaning(item, recs) ==
  CASE Packed(item)        -> FlattenSeq([i \in DOMAIN recs |-> PackedMeaning(item, recs[i].data)])
    [] IsMessage(item.cpp) -> [i \in DOMAIN recs |-> Meaning(Schema[item.cpp], recs[i].data, Zero(item.cpp))]
    [] OTHER               -> [i \in DOMAIN recs |-> ScalarMeaning(item, recs[i])]

\* The value of a field with these records, which was old before.
FieldMeaning(item, recs, old) ==
  CASE item.shape = "map"                       -> MapMeaning(item, recs)
    [] item.shape = "vector"                    -> VectorMeaning(item, recs)
    [] item.shape = "single" /\ recs = <<>>      -> old
    [] item.shape = "single" /\ IsMessage(item.cpp) /\ recs # <<>> ->
         Meaning(Schema[item.cpp], FlattenSeq(Datas(recs)), old)
    [] OTHER                                    -> ScalarMeaning(item, Last(recs))

\* What the bytes make of an object: the vectors and the maps are new, the other
\* fields that the bytes leave out stay.
Meaning(items, bytes, obj) ==
  LET ItemsOf(n) == {item \in Range(items) : item.num = n}
      Said(n) == \E item \in ItemsOf(n) : item.has /\ Own(item, bytes) # <<>>
  IN  [val |-> [n \in DOMAIN obj.val |->
                  IF ItemsOf(n) = {} THEN obj.val[n]
                  ELSE LET item == CHOOSE item \in ItemsOf(n) : TRUE
                       IN  FieldMeaning(item, Own(item, bytes), obj.val[n])],
       has |-> [n \in DOMAIN obj.has |-> obj.has[n] \/ Said(n)]]

Emptied(items, obj) ==
  [obj EXCEPT !.val = [n \in DOMAIN obj.val |->
     IF \E i \in DOMAIN items : items[i].num = n /\ items[i].shape # "single"
       THEN <<>> ELSE obj.val[n]]]

-----------------------------------------------------------------------------
(* Which bytes are a message of their struct.                                *)

RECURSIVE Inside(_, _)

\* A message, or an entry of a map, and those that are inside one at any depth.
Part(items, bytes, of) == [items |-> items, bytes |-> bytes, of |-> of]
Inside(items, bytes) ==
  UNION {UNION {LET data == Own(item, bytes)[i].data
                IN  {Part(NestedItems(item), data, item)} \cup Inside(NestedItems(item), data)
                : i \in DOMAIN Own(item, bytes)} : item \in {x \in Range(items) : Nested(x)}}
AllParts(items, bytes) == {Part(items, bytes, [shape |-> "none"])} \cup Inside(items, bytes)

\* The numbers in the packed fields of a message.
InPacks(part) ==
  UNION {{<<item, number>> : number \in Range(FlattenSeq(
            [i \in DOMAIN Own(item, part.bytes) |-> PackedNumbers(item, Own(item, part.bytes)[i].data)]))}
         : item \in {x \in Range(part.items) : Packed(x)}}

\* Every record is whole, inside the nested messages and the packed fields too.
Whole(bytes) == \A rec \in Range(Records(bytes)) : rec.fault = "none"
RecordsWhole(part) == Whole(part.bytes)
PacksWhole(part) == \A n \in InPacks(part) : PackedWhole(n[1], n[2])
WellFormed(items, bytes) == \A part \in AllParts(items, bytes) : RecordsWhole(part) /\ PacksWhole(part)

\* The wire type of the records of a field.
WireOf(item) == IF Nested(item) \/ Packed(item) THEN WT_LENGTH_DELIMITED ELSE FormatType(item.cpp, item.low)

\* The lengths and the wire types are right and no varint is too long, though the
\* bytes may be cut short.
Sound(items, bytes) ==
  \A part \in AllParts(items, bytes) :
    /\ \A rec \in Range(Records(part.bytes)) :
         /\ rec.fault \in {"none", "cut"}
         /\ \A item \in Range(part.items) : rec.num = item.num => rec.wire = WireOf(item)
    /\ \A n \in InPacks(part) : Len(n[2]) <= MaxVarintBytes \/ FormatType(n[1].cpp, n[1].low) # WT_VARINT

-----------------------------------------------------------------------------
(* What is unusual in a message, though the format allows it or says how it  *)
(* is refused.                                                               *)

\* A map has two entries with one key.
KeyTwice(items, bytes) ==
  \E part \in AllParts(items, bytes) : \E item \in Range(part.items) :
    LET Key(i) == Meaning(EntrySchema(item), Own(item, part.bytes)[i].data, EmptyEntry(item)).val[1]
    IN  /\ item.shape = "map"
        /\ \E i, j \in DOMAIN Own(item, part.bytes) : i < j /\ Key(i) = Key(j)

\* A nested message, an entry or a packed field is cut short inside its length.
CutInside(items, bytes) ==
  \/ ~PacksWhole(Part(items, bytes, [shape |-> "none"]))
  \/ \E part \in Inside(items, bytes) : ~RecordsWhole(part) \/ ~PacksWhole(part)

\* A nested message that is more than numbers and strings comes in parts.
Flat(struct) == \A item \in Range(Schema[struct]) : item.shape = "single" /\ ~IsMessage(item.cpp)
InParts(items, bytes) ==
  \E part \in AllParts(items, bytes) : \E item \in Range(part.items) :
    /\ item.shape = "single" /\ IsMessage(item.cpp) /\ ~Flat(item.cpp)
    /\ Len(Own(item, part.bytes)) > 1

Regular(items, bytes) == ~KeyTwice(items, bytes) /\ ~CutInside(items, bytes) /\ ~InParts(items, bytes)

\* An entry goes on with its key or its value behind an entry, inside its value, of
\* a map of the same types.
EntryResumed(items, bytes) ==
  \E part \in AllParts(items, bytes) :
    /\ part.of.shape = "map"
    /\ LET recs == Records(part.bytes)
           Same(inner) == inner.of.shape = "map" /\ inner.of.key = part.of.key /\ inner.of.cpp = part.of.cpp
       IN  \E i, j \in DOMAIN recs :
             /\ i < j /\ recs[j].num \in {1, 2}
             /\ \E item \in Range(part.items) :
                  /\ item.num = recs[i].num /\ Nested(item)
                  /\ \E inner \in Inside(NestedItems(item), recs[i].data) : Same(inner)
=============================================================================

----------------------------- MODULE DecoderFormat -----------------------------
(* Which messages the decoder reads from the bytes that the format has for   *)
(* them: what their structs, their values and their flags have to be for     *)
(* that.                                                                     *)
EXTENDS Decoder, WireFormat

CONSTANT ReadObjects  \* the pairs [struct, value] that are to be read, and what they hold

\* The fields that are read as the format says: not the packed ones and the vectors
\* of floats, which are bound to converters of something else, nor a bool, a float or
\* a double that is registered with the type of another.
ReadsWell(item) ==
  /\ item.high = 0
  /\ item.cpp \in {"bool", "float", "double"} => item.low = TYPE_VARINT
  /\ item.cpp = "float" => item.shape = "single"

\* What convertMap binds for the key and the value of an entry.
Parts(item) == {EntryItem(1, item.key, item.high), EntryItem(2, item.cpp, item.low)}

FieldReads(item) ==
  IF item.shape = "map" THEN ~IsMessage(item.key) /\ \A part \in Parts(item) : ReadsWell(part)
  ELSE ReadsWell(item)

StructReads(struct) ==
  LET items == Schema[struct]
  IN  /\ items \in Seq(Range(items))
      /\ \A i, j \in DOMAIN items : items[i].num = items[j].num => i = j
      /\ \A item \in Range(items) :
           /\ item.shape \in {"single", "vector", "map"} /\ item.num \in Num32
           /\ item.has \in BOOLEAN /\ (item.has => item.shape = "single")
           /\ FieldReads(item)

\* The objects that bytes can say: a member without a flag has none, and one whose
\* flag is not set is as T() leaves it.
ObjectReads(m) ==
  LET items == Schema[m.struct]
      v == m.value
  IN  /\ m = Object(m.struct, v)
      /\ v = [val |-> [n \in Nums(items) |-> v.val[n]], has |-> [n \in Nums(items) |-> v.has[n]]]
      /\ \A item \in Range(items) :
           /\ v.has[item.num] \in BOOLEAN /\ (v.has[item.num] => item.has)
           /\ item.has /\ ~v.has[item.num] => v.val[item.num] = ZeroValue(item.cpp)

\* The maps of the same C++ types as one of the structs share its bindings, and
\* have to be coded as it is.
OneCoding(struct) ==
  \A map \in Range(Schema[struct]) : \A s \in DOMAIN Schema : \A other \in Range(Schema[s]) :
    map.shape = "map" /\ other.shape = "map" /\ TypePair(map) = TypePair(other)
      => Parts(map) = Parts(other)

Format == Formats(Schema, ReadObjects)

\* The messages are of their types, are read well with all that they hold, and are
\* not longer than a length can say.
ReadAsFormat ==
  /\ WellTyped(Schema, ReadObjects)
  /\ \A m \in ReadObjects :
       StructReads(m.struct) /\ OneCoding(m.struct) /\ ObjectReads(m) /\ Len(Format[m]) < Mod64

\* The bytes of m, decoded into a fresh object or into one that equals m.
Given(struct, bytes, before, m) ==
  /\ struct = m.struct /\ bytes = Format[m]
  /\ before \in {ZeroMessage[struct], m.value}

\* A call of operator>> on the bytes that the format has for a message returns true
\* and leaves that message in the object, on whatever was decoded before: it never
\* fails, never meets undefined behaviour, and adds nothing to what was there.
DecodesFormat ==
  \A m \in ReadObjects :
    /\ phase = "undefined" => ~Given(target.struct, buffer, target.value, m)
    /\ \A i \in DOMAIN last :
         Given(last[i].struct, last[i].bytes, last[i].before, m)
           => last[i].ok /\ last[i].after = m.value
===============================================================================

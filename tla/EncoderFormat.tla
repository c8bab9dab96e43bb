----------------------------- MODULE EncoderFormat -----------------------------
(* Which objects the encoder writes as the format says: what a struct, its   *)
(* values and its flags have to be for that.                                 *)
EXTENDS EncoderSizes

CONSTANTS AllObjects,      \* the pairs [struct, value] there are: the messages and what they hold
          FaithfulObjects  \* those of them whose bytes are to be those of the format

\* The fields that are written as the format says: not the vectors of another
\* type than TYPE_VARINT, the maps of fixed numbers, whose tags are those of
\* varints, the integers of TYPE_FIXED64, and the bools that are asserted not to be.
WrittenWell(item) ==
  CASE item.shape = "vector" -> item.low = TYPE_VARINT /\ item.high # PACKED
    [] item.shape = "map"    -> {item.low, item.high} \cap {TYPE_FIXED32, TYPE_FIXED64} = {}
    [] OTHER -> /\ Registered(item)
                /\ item.cpp \in {"bool", "float", "double"} => item.low = TYPE_VARINT
                /\ item.low = TYPE_FIXED32 => item.cpp \notin Ints64

\* An unsigned number of 32 bits is written as a signed one, and the zigzag of a
\* negative number is not that of the format.
NumberFits(cpp, type, v) ==
  /\ cpp = "uint32" /\ type = TYPE_VARINT => 2 * v < Mod32
  /\ cpp \in Ints32 \cup Ints64 /\ type = TYPE_SVARINT => 2 * v < IntModulus(cpp)

\* The encoder leaves out a zero, whatever the has-flag says.
FlagFits(item, m) ==
  item.shape = "single" /\ item.has =>
    m.has[item.num] = (IsMessage(item.cpp) \/ ~IsZero(item.cpp, m.val[item.num]))

WrittenAsFormat(objects) ==
  \A m \in objects : \A item \in Range(Schema[m.struct]) :
    /\ WrittenWell(item) /\ FlagFits(item, m.value)
    /\ \A v \in Members(item, m.value.val[item.num]) : NumberFits(item.cpp, item.low, v)

Format == Formats(Schema, AllObjects)

\* A call of operator<< returns true and leaves the bytes of the format.
EncodesFormat == Encoded => ret /\ out = Format[message]

\* The same of messages that are written well, with all they hold.
EncodesFormatIfWrittenWell == message \in FaithfulObjects => EncodesFormat
===============================================================================

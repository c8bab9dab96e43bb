------------------------------ MODULE MC_Encoder ------------------------------
(* The encoder on the tester's structs and on two structs that use the other *)
(* field kinds.  32 and 64 bits become 16 and 24: a varint of the one has up *)
(* to three bytes, of the other up to four, so that a sign-extended number   *)
(* is longer than an unsigned one, as five and ten bytes are.                *)
EXTENDS EncoderFormat, TesterStructs

\* Kinds has a field of each kind that is written as the format says, Packs has
\* vectors of a type other than TYPE_VARINT and a number that is neither counted
\* nor written, as its type is none of a single field, Wide has a fixed64 field,
\* Marks has maps of fixed numbers, Flags has a bool that encodeField
\* asserts not to be there, and Holder holds one; Gap, Behind and Names have
\* fields for which no converter is right.
KindsItems ==
  <<Single(1, "bool", TYPE_VARINT, TRUE), Single(2, "int64", TYPE_SVARINT, TRUE),
    Single(3, "uint32", TYPE_FIXED32, FALSE), Single(4, "Example", TYPE_VARINT, FALSE),
    Vector(5, "int32", TYPE_VARINT, 0), Map(6, "int32", TYPE_SVARINT, "string", TYPE_VARINT)>>
PacksItems ==
  <<Vector(1, "int32", TYPE_SVARINT, PACKED), Vector(2, "float", TYPE_FIXED32, PACKED),
    [Single(3, "int64", TYPE_VARINT, FALSE) EXCEPT !.high = PACKED],
    Vector(4, "uint32", TYPE_FIXED32, PACKED)>>
WideItems == <<Single(1, "uint64", TYPE_FIXED64, FALSE), Single(2, "bool", TYPE_VARINT, FALSE)>>
MarksItems ==
  <<Map(1, "uint32", TYPE_FIXED32, "int64", TYPE_FIXED64), Map(2, "uint64", TYPE_FIXED64, "string", TYPE_VARINT)>>
FlagsItems  == <<Single(1, "bool", TYPE_FIXED32, TRUE), Single(2, "bool", TYPE_VARINT, FALSE)>>
HolderItems == <<Single(1, "string", TYPE_VARINT, FALSE), Single(2, "Flags", TYPE_VARINT, FALSE)>>
GapItems    == <<Vector(1, "uint64", TYPE_FIXED32, PACKED)>>
BehindItems == <<Vector(1, "int32", TYPE_FIXED64, 0)>>
NamesItems  == <<Map(1, "int32", TYPE_FIXED32, "string", TYPE_FIXED32)>>

EncoderSchema ==
  TesterSchema @@ [Kinds |-> KindsItems, Packs |-> PacksItems, Wide |-> WideItems,
                   Marks |-> MarksItems, Flags |-> FlagsItems, Holder |-> HolderItems,
                   Gap |-> GapItems, Behind |-> BehindItems, Names |-> NamesItems]

\* Each vector of Packs is counted as it is written.
TagSize(v) == IF v = <<>> THEN 0 ELSE 1
PacksByteSize(m) ==
  FoldLeft(LAMBDA n, v : n + VarintByteSize[ZigZag(v, Mod32)], TagSize(m.val[1]), m.val[1])
    + FoldLeft(LAMBDA n, v : n + 1 + Bytes32, TagSize(m.val[2]), m.val[2])
    + TagSize(m.val[4]) + Bytes32 * Len(m.val[4])

-----------------------------------------------------------------------------
Of(struct, values) == {[struct |-> struct, value |-> v] : v \in values}
NoFlags(val) == [val |-> val, has |-> [i \in DOMAIN val |-> TRUE]]

\* Numbers at the edges of a length, and long enough strings that a nested
\* message needs a length of two bytes.
Long == [i \in 1 .. 126 |-> 7]
SomeExamples == {Flagged(id, str, f, d) :
  id \in {0, 127, 128, 16384, 32767}, str \in {<<>>, <<65>>}, f \in {0, 9, 32768}, d \in {0, 8388608}}
OneExample  == Flagged(128, <<65>>, 9, 7)
LongExample == Flagged(1, Long, 0, 0)
Vectors == {<<>>, <<OneExample>>, <<Flagged(0, <<>>, 0, 0), LongExample>>}
Maps == {<<>>, [k \in {1, 2} |-> OneExample], [k \in {1, 65535} |-> IF k = 1 THEN LongExample ELSE OneExample]}

SomeKinds == {NoFlags(<<1, s, w, e, v, m>>) : s \in {1, 63, 64}, w \in {0, 40000},
  e \in {OneExample, LongExample}, v \in {<<>>, <<0, 65535, 128>>},
  m \in {<<>>, [k \in {0, 5} |-> <<k>>]}}

PacksMessages == Of("Packs", {NoFlags(<<v, f, 5, f>>) : v \in {<<>>, <<1>>, <<64, 0>>}, f \in {<<>>, <<3>>}})

Fixed32Map == [k \in {1, 40000} |-> 8388609]
OtherMessages ==
  Of("Marks", {NoFlags(<<m, n>>) : m \in {<<>>, Fixed32Map}, n \in {<<>>, [k \in {5} |-> <<65>>]}})
    \cup Of("Flags", {NoFlags(<<1, 0>>)}) \cup Of("Holder", {NoFlags(<<Long, NoFlags(<<1, 1>>)>>)})
    \cup Of("Wide", {NoFlags(<<5, 1>>)}) \cup Of("Gap", {NoFlags(<<<<>>>>)})
    \cup Of("Behind", {NoFlags(<<<<5>>>>)})
    \cup Of("Names", {NoFlags(<<[k \in {5} |-> <<65>>]>>)})

TesterMessages ==
  Of("Example", SomeExamples) \cup Of("Examples", {Examples(v, m) : v \in Vectors, m \in Maps})
EncoderMessages == TesterMessages \cup Of("Kinds", SomeKinds) \cup PacksMessages \cup OtherMessages
HighMessages == Of("Example", {Flagged(id, <<>>, 0, 0) : id \in {1, 32767, 32768}})

-----------------------------------------------------------------------------
\* The objects, with those they hold.
WithHeld(messages) == messages \cup UNION {Held(EncoderSchema[m.struct], m) : m \in messages}
EncoderObjects == WithHeld(EncoderMessages \cup HighMessages)
EncoderFormats == Formats(EncoderSchema, EncoderObjects)

EncoderByteSize(struct, m) ==
  CASE struct \in DOMAIN TesterSchema -> TesterByteSize(struct, m)
    [] struct = "Packs"               -> PacksByteSize(m)
    [] struct = "Wide"                -> 2          \* the bool alone
    [] struct \in {"Gap", "Behind", "Names"} -> 0
    [] OTHER                          -> Len(EncoderFormats[Object(struct, m)])

\* Those that are written as the format says.
FaithfulStructs == DOMAIN TesterSchema \cup {"Kinds"}
EncoderFaithful == WithHeld({m \in EncoderMessages : m.struct \in FaithfulStructs})

\* They are of their types, as the theorems of EncoderProofs suppose of the
\* objects of a C++ program.
ASSUME ObjectsAreTyped == Typed(EncoderObjects) /\ FitsReserve(EncoderObjects)

\* So are those for which the bytes are claimed: they hold no others, no object
\* holds itself, and fields, values and flags are such as the encoder writes well.
Depth(m) == IF m.struct \in {"Example", "Flags"} THEN 0 ELSE 1
ASSUME FaithfulOnes ==
  /\ EncoderFaithful \subseteq EncoderObjects /\ Typed(EncoderFaithful)
  /\ WrittenAsFormat(EncoderFaithful)
  /\ \A m \in EncoderObjects : \A o \in Held(Schema[m.struct], m) : Depth(o) < Depth(m)

\* The getByteSize that is asked counts what the converters write, as do those of
\* the objects that the message holds: what the theorems of EncoderProofs suppose
\* of the user.  Of Behind and Names, whose fields no converter writes, it cannot.
CountsRight ==
  phase = "reserving" /\ message.struct \notin {"Behind", "Names"} =>
    Typed(WithHeld({message})) /\ CountsAsWritten(WithHeld({message}))

\* A field for which there is a converter: a vector of integers has no fixed coding
\* of another width than its own, and a map has for its key and its value none but
\* TYPE_VARINT and the fixed ones of their widths.
FixedOfWidth(cpp, type) ==
  \/ cpp \in Ints32 /\ type = TYPE_FIXED32
  \/ cpp \in Ints64 /\ type = TYPE_FIXED64
Convertible(item) ==
  CASE item.shape = "vector" -> \/ item.cpp \notin Ints32 \cup Ints64
                                \/ item.low \in {TYPE_VARINT, TYPE_SVARINT} \/ FixedOfWidth(item.cpp, item.low)
    [] item.shape = "map"    -> /\ item.high = TYPE_VARINT \/ FixedOfWidth(item.key, item.high)
                                /\ item.low = TYPE_VARINT \/ FixedOfWidth(item.cpp, item.low)
    [] OTHER                 -> TRUE
CodedBool(item) == item.shape = "single" /\ item.cpp = "bool" /\ item.low # TYPE_VARINT

\* A call of operator<< ends other than by returning only for a reason in the program:
\* it meets undefined behaviour only if the message, or one that it holds, has a
\* field for which there is no converter, and it is aborted only with assertions, in a
\* second call of one encoder, for a message that the empty string has room for, or
\* for a bool with a coding.
StopsOnlyIfMisused ==
  LET items == UNION {Range(Schema[m.struct]) : m \in WithHeld({message})}
  IN  /\ phase = "undefined" => \E item \in items : ~Convertible(item)
      /\ phase = "aborted" =>
           ~ndebug /\ (calls > 0 \/ nByteSize <= Capacity \/ \E item \in items : CodedBool(item))
===============================================================================

------------------------------ MODULE MC_Decoder ------------------------------
(* The decoder on bytes of the tester's structs, of a recursive struct and of *)
(* a struct with a field of each kind.  32 and 64 bits become 8 and 16.      *)
EXTENDS DecoderFormat, TesterStructs

NodeItems ==
  <<Single(1, "int32", TYPE_VARINT, FALSE), Map(2, "int32", TYPE_VARINT, "Node", TYPE_VARINT)>>
MixItems ==
  <<Single(1, "bool", TYPE_VARINT, TRUE), Single(2, "int64", TYPE_SVARINT, TRUE),
    Single(3, "uint32", TYPE_FIXED32, FALSE), Single(4, "Example", TYPE_VARINT, TRUE),
    Vector(5, "int32", TYPE_VARINT, PACKED), Map(6, "int32", TYPE_SVARINT, "string", TYPE_VARINT),
    Vector(7, "double", TYPE_VARINT, 0), Vector(8, "string", TYPE_VARINT, 0)>>

\* Two maps of the same C++ types whose keys are coded differently.
TwinsItems ==
  <<Map(1, "int32", TYPE_VARINT, "string", TYPE_VARINT),
    Map(2, "int32", TYPE_SVARINT, "string", TYPE_VARINT)>>

\* A number with a type that is none of a single field, and one that comes twice.
TwiceItems ==
  <<Single(1, "int32", TYPE_VARINT, TRUE), [Single(2, "int32", TYPE_VARINT, TRUE) EXCEPT !.high = PACKED],
    Single(1, "string", TYPE_VARINT, FALSE),
    Vector(3, "int32", TYPE_VARINT, 0), Single(4, "int64", TYPE_VARINT, TRUE)>>

\* Maps of the same types at two depths, in a struct that does not hold itself.
WrapItems ==
  <<Map(1, "int32", TYPE_SVARINT, "string", TYPE_VARINT), Single(2, "Mix", TYPE_VARINT, FALSE)>>

\* A field of each kind that is read as the format says.
PlainItems ==
  <<Single(1, "bool", TYPE_VARINT, TRUE), Single(2, "int64", TYPE_SVARINT, TRUE),
    Single(3, "uint32", TYPE_FIXED32, FALSE), Single(4, "Example", TYPE_VARINT, TRUE),
    Single(5, "int64", TYPE_FIXED64, TRUE), Vector(6, "double", TYPE_VARINT, 0),
    Vector(7, "string", TYPE_VARINT, 0), Map(8, "int32", TYPE_SVARINT, "string", TYPE_VARINT),
    Single(9, "Node", TYPE_VARINT, FALSE)>>

DecoderSchema ==
  TesterSchema @@ [Node |-> NodeItems, Mix |-> MixItems, Twice |-> TwiceItems, Wrap |-> WrapItems,
                   Plain |-> PlainItems]
TwinsSchema == [Twins |-> TwinsItems]

Reference == INSTANCE WireMeaning WITH Zero <- ZeroValue

-----------------------------------------------------------------------------
(* Bytes.  A record is a tag and a payload.                                  *)
Num(num, u)    == Tag(num, WT_VARINT) \o VarintBytes[u]
Wide(num, u)   == Tag(num, WT_64BIT) \o Fixed(u, Bytes64)
Narrowed(num, u) == Tag(num, WT_32BIT) \o Fixed(u, Bytes32)
Bin(num, data) == Tag(num, WT_LENGTH_DELIMITED) \o VarintBytes[Len(data)] \o data

FullExample == Flagged(200, <<65>>, 9, 7)
TwoExamples == Examples(<<FullExample, Flagged(0, <<>>, 0, 1)>>,
                        [k \in {1, 255} |-> Flagged(k, <<>>, 0, 0)])
Node(n, nodes) == [val |-> <<n, nodes>>, has |-> <<FALSE, FALSE>>]
Tree == Node(9, [k \in {1, 255} |-> Node(k, IF k = 1 THEN [j \in {4} |-> Node(5, <<>>)] ELSE <<>>)])
SomePlain ==
  [val |-> <<1, 65535, 200, FullExample, 65533, <<258, 1>>, <<<<>>, <<1, 2>>>>,
             [k \in {1, 255} |-> <<k>>], Tree>>,
   has |-> [i \in 1 .. 9 |-> i \in {1, 2, 4, 5}]]

\* The objects whose bytes are decoded as they are, with those they hold.
WithHeld(objects) == objects \cup UNION {Held(DecoderSchema[m.struct], m) : m \in objects}
DecoderObjects ==
  WithHeld(WithHeld(WithHeld(
    {Object("Example", FullExample), Object("Examples", TwoExamples), Object("Node", Tree),
     Object("Plain", SomePlain), Object("Plain", ZeroMessage["Plain"])})))
Written == Formats(DecoderSchema, DecoderObjects)

\* They are such as the theorems of DecoderFormatProofs suppose: they hold no
\* others, none holds itself, and no struct has itself for a member.
ASSUME ObjectsAreRead ==
  /\ ReadAsFormat
  /\ \A m \in ReadObjects : \A o \in Held(Schema[m.struct], m) : Len(Format[o]) < Len(Format[m])
Rank(struct) == IF struct \in {"Plain", "Wrap"} THEN 2 ELSE IF struct = "Mix" THEN 1 ELSE 0
ASSUME MembersAreOther ==
  \A struct \in DOMAIN Schema : \A item \in Range(Schema[struct]) :
    item.shape = "single" /\ IsMessage(item.cpp) => Rank(item.cpp) < Rank(struct)

ExampleBytes == Formats(TesterSchema, {Object("Example", FullExample)})[Object("Example", FullExample)]
\* Every cut of an encoded message, and the one of them that takes the string
\* but leaves its length.
Cuts(bytes) == {SubSeq(bytes, 1, n) : n \in 0 .. Len(bytes)}
CutInString == SubSeq(ExampleBytes, 1, 5)

Of(struct, inputs) == {[struct |-> struct, bytes |-> b] : b \in inputs}

ExampleInputs == (Cuts(ExampleBytes) \ {CutInString}) \cup
  {Num(1, 1) \o Num(1, 2),                         \* the last one counts
   Bin(2, <<66>>) \o Num(1, 3),                     \* another order
   Num(9, 300) \o Wide(10, 5) \o Narrowed(11, 5) \o Bin(12, <<8, 1>>) \o Num(1, 4),
   Num(1, 65535),                                  \* a number that is too wide
   Num(20, 5) \o Num(1, 6) \o <<160>>}             \* a tag that is cut short
ExamplesInputs ==
  {Written[Object("Examples", TwoExamples)],
   Bin(2, Num(1, 1) \o Bin(2, Num(1, 5))) \o Bin(2, Num(1, 2) \o Bin(2, Num(1, 6))),
   Bin(2, Num(1, 1) \o Bin(2, Num(1, 5)) \o Bin(2, Bin(2, <<65>>))),   \* a value in parts
   Bin(2, Bin(2, Num(1, 5)) \o Num(1, 7)),          \* the value before the key
   Bin(2, <<>>) \o Bin(1, <<>>),                    \* everything left out
   Bin(1, Num(1, 2)) \o <<11>>, Bin(1, Num(1, 2)) \o <<14, 1>>}
Leaf(k, n) == Bin(2, Num(1, k) \o Bin(2, Num(1, n)))
NodeInputs ==
  {Written[Object("Node", Tree)],
   Num(1, 9) \o Leaf(1, 2) \o Leaf(2, 3),
   Num(1, 9) \o Bin(2, Num(1, 1) \o Bin(2, Leaf(4, 5) \o Leaf(6, 7) \o Num(1, 8))) \o Leaf(2, 3)}
MixInputs ==
  {Num(1, 5) \o Num(2, 3) \o Narrowed(3, 7),
   Bin(4, Num(1, 7)) \o Bin(4, Bin(2, <<65>>)),     \* twice: the parts are merged
   Bin(5, <<1, 128, 2, 3>>) \o Bin(5, <<>>),
   Bin(6, Num(1, 3) \o Bin(2, <<65>>)) \o Bin(6, Num(1, 4)),
   Wide(7, 258) \o Wide(7, 1) \o Bin(8, <<>>) \o Bin(8, <<1, 2>>)}

Short(k, n) == Num(1, k) \o Bin(2, <<n>>)
WrapInputs == {Bin(1, Short(4, 65)) \o Bin(2, Bin(6, Short(3, 66))) \o Bin(1, Short(6, 67))}

PlainInputs == {Written[m] : m \in {o \in DecoderObjects : o.struct = "Plain"}}

TwiceInputs == {Num(1, 5) \o Num(2, 6) \o Num(3, 7) \o Num(4, 8)}

\* Messages without anything that the decoder is known to take in another way.
RegularInputs ==
  Of("Example", ExampleInputs) \cup Of("Examples", ExamplesInputs)
    \cup Of("Node", NodeInputs) \cup Of("Mix", MixInputs)
    \cup Of("Twice", TwiceInputs) \cup Of("Wrap", WrapInputs)
    \cup Of("Plain", PlainInputs)

\* A key that comes twice.
KeyInputs ==
  Of("Examples", {Bin(2, Num(1, 1) \o Bin(2, Num(1, 5))) \o Bin(2, Num(1, 1) \o Bin(2, Num(1, 6)))
                    \o Bin(1, Num(1, 2))})

\* A message, an entry, its value or a packed field that is cut short inside.
CutInputs ==
  Of("Examples", {Bin(1, <<8>>) \o Bin(2, Num(1, 4) \o <<18>>) \o Bin(1, Num(1, 2)),
                  Bin(2, Num(1, 4) \o Bin(2, <<8>>)) \o Bin(1, Num(1, 3)),
                  Bin(1, Num(1, 3) \o <<160>>) \o Bin(2, Num(1, 2) \o Bin(2, Num(1, 6)))})
    \cup Of("Mix", {Bin(4, Num(1, 7) \o <<18>>) \o Num(1, 1), Bin(6, Short(3, 65)) \o Bin(5, <<1, 128>>) \o <<160>>})

\* A nested message with a packed field, with a map, in two parts.
PartInputs ==
  Of("Wrap", {Bin(2, Bin(5, <<1>>)) \o Bin(1, Short(4, 65)) \o Bin(2, Bin(5, <<2>>)),
              Bin(2, Bin(6, Short(2, 65))) \o Bin(2, Bin(6, Short(4, 66)))})

\* The value of a recursive entry before its key, and in two parts.
ResumedInputs ==
  Of("Node", {Bin(2, Bin(2, Leaf(1, 2)) \o Num(1, 7)), Bin(2, Bin(2, Leaf(1, 2)) \o Bin(2, <<>>))})

\* A length beyond the end, a field of another wire type than its item, a
\* varint that is too long.
WildInputs ==
  Of("Example", {CutInString, <<18, 5, 65>>, Num(2, 1), Bin(1, <<1>>), Bin(3, <<>>),
                 Narrowed(1, 5), Wide(3, 261), <<8, 255, 255, 255, 1>>})
    \cup Of("Mix", {Bin(5, <<7, 255, 255, 255, 1, 8>>)})

IrregularInputs == KeyInputs \cup CutInputs \cup PartInputs \cup ResumedInputs
DecoderInputs == RegularInputs \cup IrregularInputs \cup WildInputs
DecoderUnspecified == {0, 299}

Fresh(struct) == [struct |-> struct, value |-> ZeroMessage[struct]]
DecoderTargets == {Fresh(s) : s \in {"Example", "Examples", "Node", "Mix", "Wrap", "Plain"}} \cup
  {[struct |-> "Twice", value |-> [val |-> <<1, 2, <<3>>, 4>>, has |-> <<FALSE, FALSE, FALSE, FALSE>>]],
   [struct |-> "Example", value |-> FullExample], [struct |-> "Examples", value |-> TwoExamples]}

\* One message with an entry in the first map, one with an entry in the second.
TwinsInputs == Of("Twins", {Bin(1, Num(1, 4)), Bin(2, Num(1, 4))})
TwinsObjects == {}
TwinsTargets == {Fresh("Twins")}

FreshTargets == {Fresh("Examples"), Fresh("Node")}

-----------------------------------------------------------------------------
\* The fields that are decoded at all: those before a number comes twice, but
\* for the numbers of a type that is none of a single field.
DecodedItems(struct) ==
  LET items == Schema[struct]
      nums(n) == [i \in 1 .. n |-> items[i].num]
      distinct == Max({n \in 0 .. Len(items) : IsInjective(nums(n))})
  IN  SelectSeq(SubSeq(items, 1, distinct),
                LAMBDA item : item.shape = "single" /\ item.cpp \in Scalars \ {"string"} => item.high = 0)

\* The inputs whose lengths and wire types are right, and of each input the fields
\* that the decoder does not take as the format means them.
SoundInputs == {i \in Inputs : Reference!Sound(DecodedItems(i.struct), i.bytes)}
OddFields ==
  [i \in Inputs |-> {item.num : item \in {x \in Range(DecodedItems(i.struct)) : ~Reference!Regular(<<x>>, i.bytes)}}]
Resumed(i) == Reference!EntryResumed(DecodedItems(i.struct), i.bytes)

\* The inputs are what they are said to be.
ASSUME InputsAreSorted ==
  Schema = DecoderSchema /\ Inputs = DecoderInputs =>
    /\ SoundInputs = Inputs \ WildInputs
    /\ \A i \in RegularInputs : OddFields[i] = {}
    /\ \A i \in KeyInputs \cup CutInputs \cup PartInputs : OddFields[i] # {}
    /\ \A i \in SoundInputs : Resumed(i) = (i \in ResumedInputs)

\* What a call was given, and whether the bytes were such.
InputOf(struct, bytes) == [struct |-> struct, bytes |-> bytes]
Judged(i) == InputOf(last[i].struct, last[i].bytes) \in SoundInputs

\* The call that returned last; the ones before were so in an earlier state.
Returning == phase = "idle" /\ last # <<>>

\* What a call has to leave: true if all records, the inner ones too, are whole,
\* and in the object what they mean.  The vectors and the maps of the fields that
\* are not decoded are emptied all the same.
Meant(call) ==
  Reference!Meaning(DecodedItems(call.struct), call.bytes, Reference!Emptied(Schema[call.struct], call.before))
AsMeant(call) ==
  /\ call.ok = Reference!WellFormed(DecodedItems(call.struct), call.bytes)
  /\ call.after = Meant(call)

\* The decoder is one of Protocol Buffers: a call on bytes whose lengths and wire
\* types are right returns whether they are a message, and what they mean.
DecodesMeaning ==
  Returning /\ Judged(Len(last)) => AsMeant(Last(last))

\* It is one field by field, for structs whose maps of the same types are coded alike
\* and whose packed fields are of TYPE_VARINT: on the same bytes, in any order, with
\* unknown fields, into a used object, a call returns whether the outermost records
\* are whole, and each field has its meaning but for those in which a key comes twice
\* in a map, something is cut short inside a length, or a nested message with more
\* than numbers and strings comes in parts.  What goes wrong in such a field, at any
\* depth, does not reach the fields beside it, before or behind.
DecodesRegularFields ==
  LET call  == Last(last)
      Left  == DOMAIN call.after.val \ OddFields[InputOf(call.struct, call.bytes)]
      meant == Meant(call)
  IN  Returning /\ Judged(Len(last)) =>
        /\ call.ok = Reference!Whole(call.bytes)
        /\ Restrict(call.after.val, Left) = Restrict(meant.val, Left)
        /\ Restrict(call.after.has, Left) = Restrict(meant.has, Left)

\* To decode the same bytes once more into the same object changes nothing: the
\* vectors and the maps of the object, and of the messages in it, are emptied
\* and not added to.
DecodeAgain ==
  phase = "idle" => \A i \in 2 .. Len(last) :
    LET first == last[i - 1]  again == last[i]
        Repeated == again.struct = first.struct /\ again.bytes = first.bytes /\ again.before = first.after
    IN  Repeated /\ Judged(i) => again.ok = first.ok /\ again.after = first.after

\* No bytes whose lengths and wire types are right lead to undefined behaviour:
\* entries inside entries of the same types neither lose nor share their targets.
FaultOnlyIfWild == fault # "none" => InputOf(target.struct, buffer) \notin SoundInputs

\* None do but those of an entry that goes on with its key or its value after an
\* entry of the same types inside its value: the static bindings of convertMap then
\* point to the locals of the inner one.  An entry in the order of the encoder, with
\* the key first, and one without such entries in it, in any order, are safe.
FaultOnlyIfWildOrResumed ==
  fault # "none" =>
    \/ InputOf(target.struct, buffer) \notin SoundInputs
    \/ fault = "stale target" /\ Resumed(InputOf(target.struct, buffer))
===============================================================================

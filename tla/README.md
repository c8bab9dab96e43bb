# A TLA+ model of ProtobufWrapper

ProtobufWrapper writes plain C++ structs in the wire format of Protocol Buffers
and reads them back. A struct names its fields in one template method,
`serialize(T& t)`, which runs with a `PBEncoder` or a `PBDecoder`, and computes
the length of its own encoding by hand in `getByteSize()`. Nothing but the
agreement of these three pieces of code (the sizes, the writer, the reader)
makes the codec correct. Paths below are relative to the repository.

A generator, a plug-in of a copy of `protoc`, prints such structs from a `.proto`
file.

Library and generator are sequential: there is no thread, no timer, no I/O but the
generator's output. What is hard in them is of another kind:

* **sizes that are computed before the bytes they count**: the encoder resizes a
  string to `getByteSize()` and then writes through a bare pointer; every nested
  message and map entry has a length prefix computed in the same way;
* **numbers at their edges**: sign extension, zigzag, shift counts, the seven-bit
  boundaries of a varint, bytes that are cut short;
* **converters that forget their types**: a field is bound to a function pointer
  whose parameter type is cast away, and is called by its wire type;
* **parsers inside parsers**: a nested message runs a parser of its own on a part
  of its caller's bytes, and its result is dropped;
* **two outputs that must agree**: the generator prints `serialize()` in one loop and
  `getByteSize()` in another, and sorts the structs by a rule that looks one way only;
* **state that outlives a call**: the bindings of `convertMap` are function-local
  statics that point to the locals of one call; an object may be decoded into twice.

## Inventory

| component | state | operations | interacts with | correct when | modelled |
|---|---|---|---|---|---|
| field items and wire types (`include/serialize.h`) | none | `makeItem`, `SERIALIZATION`, `isMessage` | read by encoder and decoder | both take the same coding from one item | `Wire`, `TesterStructs` |
| varint, zigzag, fixed primitives (`src/encoder.cpp`, `src/decoder.cpp`) | loop variables | `VarintByteSize`, `varInt`, `svarInt`, `fixed32/64`, `ReadVarInt`, `ConsumeBytes`, `convertVarint`, `convertSvarint` | called by encoder, decoder and every `getByteSize` | the size is exact, a cut is refused, a number comes back | `Wire`, `VarintLoop`, `WireProofs`, `VarintLoopProofs` |
| `PBEncoder` (`include/encoder.h`, `src/encoder.cpp`) | the target string and pointer, the list of converters | `operator<<`, `operator&`, `reserve`, the converters | calls `serialize()` and `getByteSize()` of the struct | it writes the format's bytes inside the reservation, prefixes exact | `Encoder`, `EncoderSizes`, `EncoderFormat`, `WireFormat`, `EncoderProofs`, `EncoderFormatProofs` |
| `PBDecoder`, `proto::Message` (`include/decoder.h`, `src/decoder.cpp`) | the bytes, a map from field number to converter, the statics of `convertMap` | `operator>>`, `bind`, `ParseFromBytes`, `call`, the converters | calls `serialize()` of the struct; parsers call parsers | the object holds what the bytes mean | `Decoder`, `WireMeaning`, `WireFormat`, `DecoderFormat`, `DecoderProofs`, `DecoderFormatProofs` |
| tester (`tester/main.cpp`) | two structs, a buffer | `test()`: encode, decode into a fresh object, decode into the same object | encoder and decoder in a row | its assertions hold, values arrive | `TesterStructs`, `Codec`, `ValueChannel`, `CodecProofs` |
| unittest (`unittest/main.cpp`) | as the tester | the same calls, compared with Google's library in benchmarks | encoder and decoder | as the tester | no: no operation of its own |
| struct generator (`tool/src/google/protobuf/compiler/struct`) | the sorted list of messages | `prepareMsgs`, `sortMsgs`, `getInsertIdx`, `printStruct`, `printByteSize`, `type2tag` | reads descriptors of `protoc`; what it prints runs with encoder and decoder | each struct is declared before its users, has a constructor, is declared and defined once, and counts what it makes the encoder write | `Generator`, `GeneratorProofs`; not the text, enums, includes, defaults |
| vendored `protoc` and runtime (`tool/src/google/protobuf`) | | | only `compiler/main.cc` names the generator | | no: third-party |

The hazards these components are exposed to, each at its line, are in
`PROJECT.json` with the properties that cover them.

## Modules

| module | what it is |
|---|---|
| `Wire` | data: what an item is, the wire types, and the pure conversions value to bytes and bytes to value |
| `VarintLoop` | the three varint loops, one action per iteration, over every cut of the bytes; the inductive invariant |
| `VarintLoopProofs` | its theorems, for every width and every number |
| `WireProofs` | induction over recursive functions, and what those of `Wire` compute |
| `TesterStructs` | the structs of the tester, with their `getByteSize` |
| `Encoder` | `PBEncoder`: registration, `reserve`, one action per kind of converter |
| `EncoderSizes` | how many bytes each converter writes, counted beforehand; what a `getByteSize` has to return, as hypotheses of the theorems |
| `EncoderProofs` | the encoder's theorems, for every schema, object and `getByteSize` of that kind |
| `WireFormat` | reference: the bytes that the format prescribes for an object, and what objects there are |
| `EncoderFormat` | for which objects the encoder is to write those bytes: `WrittenAsFormat`, and the property `EncodesFormatIfWrittenWell` |
| `EncoderFormatProofs` | that it writes them, for every schema and every such object |
| `Decoder` | `PBDecoder` and `proto::Message`: one action per kind of field, a stack of parsers |
| `DecoderProofs` | the decoder's theorems, for every schema and all bytes |
| `DecoderFormat` | which messages the decoder is to read from the bytes of the format: `ReadAsFormat`, and the property `DecodesFormat` |
| `DecoderFormatProofs` | that it reads them, for every schema and every such message |
| `WireMeaning` | reference: what bytes mean as Protocol Buffers define it, which bytes are a message, and which are unusual ones (recursive, only for TLC) |
| `ValueChannel` | abstract specification: a value that is sent is the value received, and it is received |
| `Codec` | the tester's program: an instance of `Encoder` and one of `Decoder`, each with its theorems; implements `ValueChannel` |
| `CodecProofs` | that it does, as far as safety goes, and that the assertions of `test()` hold |
| `Generator` | the struct generator: one action per iteration of its three loops over the messages of a file, with what it registers and counts for each field |
| `GeneratorProofs` | the theorems about its loops and about what it prints for the fields of a message, for every set of files |
| `MC_Varint`, `MC_Encoder`, `MC_Decoder`, `MC_Codec`, `MC_Generator` | values of the constants, and the properties that need a reference |

`Codec` composes `Encoder` and `Decoder`; both use `Wire`; `VarintLoop` checks the
operators of `Wire` that stand for a whole loop against the loops themselves
(`LoopsMatchWire`), which is what allows `Encoder` and `Decoder` to take a loop as
one step. `Generator` produces items of `TesterStructs`' kinds, the input of `Encoder`
and `Decoder`; its operator `Written` says in terms of bytes per field what the
actions of `Encoder` do with an item.

### How state and actions correspond to the code

`VarintLoop`. `value`, `size`, `sz`, `current`, `remaining`, `result` are the
variables of the loops in `VarintByteSize` (`include/encoder.h:12`), `varInt`
(`src/encoder.cpp:144`) and `ReadVarInt` (`src/decoder.cpp:64`); `scale` is
`2^shift`; `rests` is a history variable. `Widened` and `Narrowed` are what the
converters do around the loops. `Send` gives the reader a prefix of any length,
which is what a nested window or a truncated buffer does.

`Encoder`. A struct's `_functionSet` and the loops inside the converters are one
`agenda` of tasks: `ConvertMessage`, `ConvertArray` and `ConvertMap` put the tasks
of what they call in front of it. `out` is what lies between the beginning of the
string and `_target`, `region` is what `reserve()` made room for. `Begin` is
`operator<<` up to `getByteSize()`; `Reserve` and `ReserveAborts` are `reserve()`
in a build without and with assertions; `Finish` compares the sizes. `open` is a
history variable: where each length prefix said that its bytes end.
`ConvertEntryRunsOff` is the missing `return` of `ByteSize(value, TYPE_SVARINT)`
(`include/encoder.h:33`), which is undefined: the model takes the return of the
right number and the run off as its outcomes. `ConvertPackUnbound` is a call through an
entry that a table of converters does not have (`src/encoder.cpp:40-43`);
`ConvertEntryMisreads` is a key or value handed to a converter of another type
(`include/encoder.h:317-329`); both end in `phase = "undefined"`. `BeginAborts` and
`MessageAborts` are the assertion of `encodeField(bool)`, in the registration of a
struct and of a nested struct while its outer one is being written.

`Decoder`. A frame is one activation of `ParseFromBytes`: `cur` and `end` are its
window of the buffer, `obj` the object it decodes into. `Begin` is `operator>>`
with the two passes of `serialize()` (bind, then clear vectors and maps).
`VarintField`, `Fixed64Field`, `Fixed32Field`, `DelimitedField` are the cases of
the switch with the whole `Message::call` in the same step, up to the converter's
nested parser, which is a new frame; `Reject` and `ParseEnd` return to the caller
or to the converter (`Returned`). `statics` is the static `Message` of
`convertMap<K, V>`: its items are those of the first entry decoded in the program,
and `owner` is the frame whose locals its addresses point to. A converter called
with the address of another kind of data reads a number out of `Unspecified` or
ends in `phase = "undefined"`, with the reason in the history variable `fault`; a varint
that is too long for the shift of `ReadVarInt`, in packed data too (`PackedStored`), is
read as a number out of `Unspecified`. A float
is its bits; the float that is equal to a number, which the generic `convertVarint`
makes, is a value of its own (`FloatOf`). `BoundItems` is what the first run of
`serialize()` binds: nothing behind a field number that comes twice.

`Codec`. `turn` is the program counter of `test()`. The encoder's variables are
reset by `NextRound` (a new `PBEncoder` and buffer); `statics` stays. The two components
are taken as instances of `EncoderFormatProofs` and `DecoderFormatProofs`, the modules
that extend `Encoder` and `Decoder` with their theorems, so that `CodecProofs` can cite
what is proved of each.

`Generator`. A file is what `protoc` hands over. `Flattened` is
`FlattenMessagesInFile`; `InsertMsg` is an iteration of `sortMsgs` with the whole of
`getInsertIdx` (a message is found by `name()`, compared with a `ClassName()`);
`PrintStruct` and `PrintByteSize` are iterations of the printing loops, whose output is
kept as data: the item that `SERIALIZATION(...)` registers for a field
(`Registered`: `type2tag`, `type2string`), and when and what its `getByteSize()` adds
(`Counted`: `printByteSize`, `printFileByteSize`). That is an abstraction of text which,
as printed, a compiler refuses for some fields: the header declares `uint32_t
getByteSize()` and the source defines `uint64_t`; the parentheses of `sint` types and
of repeated integers do not match; `type2tag` leaves out the comma before a map's
codings; the loop over a map is always one of `std::map<int, struExample>`. The model
takes the expressions for what they are meant to be, and asks what is left to get wrong
once these are mended.

## Runs

| run | question | states |
|---|---|---|
| `varint` | do the three loops agree, on every cut, for every integer coding? | 13 195 |
| `varint_sint` | do negative sint numbers come back? (violated) | |
| `encoder` | right bytes, exact prefixes, inside the reservation, stopped for the known reasons only? | 30 940 |
| `encoder_high` | does a `uint32` from 2^31 on keep to its `getByteSize`? (violated) | |
| `decoder` | does each field that is regular hold what the bytes mean, after two calls in a row? | 64 676 |
| `decoder_twins` | do two maps of the same types keep their codings apart? (violated) | |
| `decoder_keys` | does the last of two entries with one key count? (violated) | |
| `decoder_order` | can an entry have its value before its key? (violated) | |
| `codec` | do encoder and decoder together implement a channel? | 16 675 |
| `codec_packed` | does a packed `repeated int32` come back? (violated) | |
| `codec_floats` | does a `repeated float` come back? (violated) | |
| `generator` | are structs declared before their users, each once, and counted as they are written? | 9 385 |

What the properties say:

* `SizeExact`, `TransportExact`, `ShiftDefined`, `RoundTripUnlessNegativeSint`
  (`varint`): size loop and write loop agree; `ReadVarInt` accepts exactly whole
  varints; its shift stays defined; which numbers survive.
* `WithinReservation`, `LengthPrefixesExact` (`encoder`): at every moment, not only
  at the end, the pointer is inside the string and inside every open length prefix.
* `EncodesFormatIfWrittenWell`, `SizesAgree` (`encoder`): the bytes are those of the
  reference, a second `operator<<` on the same encoder included. `WrittenWell` names the
  fields of which this does not hold: vectors of another type than `TYPE_VARINT` (no
  length), maps of fixed numbers (the tag of a varint), integers of `TYPE_FIXED64` (not
  written). `SizesAgree` holds for them too if the user counts what is written.
* `CountsRight` (`encoder`): the `getByteSize()` of the tester's structs counts each field
  as its converter writes it, for all objects but those of `encoder_high`. It is the
  hypothesis of the theorems about the encoder.
* `StopsOnlyIfMisused` (`encoder`): a call meets undefined behaviour only if the message,
  or one that it holds, has a field for which there is no converter (`Convertible`), and
  an assertion stops it only in a second call of one encoder, for a message that an empty
  string has room for, or for a `bool` with a coding.
* `WindowsNested` (`decoder`): the windows of the nested parsers partition the bytes.
* `ReadsForward` (`decoder`): no step reads a byte of the buffer for a second time, but
  for the parser of the whole buffer, which starts anew with each `operator>>`; this is
  what `Returns` rests on.
* `StaleOnlyIfRecursive` (`decoder`): the static bindings of a map are used with the
  addresses of an entry that has been left only when entries of one type lie inside each
  other.
* `DecodesFormat` (`decoder`): a call of `operator>>` on the bytes that the format has for
  a message, into a fresh object or into one that equals the message, and after whatever
  else the program has decoded, is never undefined, returns true and leaves that message.
  The exceptions are named by `ReadsWell` (packed fields, vectors of floats, a `bool`,
  `float` or `double` of another type than `TYPE_VARINT`: each bound to a converter of
  something else), `StructReads` (no field number twice), `ObjectReads` (a member whose
  flag is not set is as `T()` leaves it) and `OneCoding` (maps of the same C++ types that
  are coded differently).
* `DecodesMeaning`: on bytes whose lengths and wire types are right (`SoundInputs`, in
  `WireMeaning` `Sound`) a call returns whether all records are whole, the inner ones
  too, and leaves in the object what they mean: the meaning is that of the Protocol Buffers
  of which the repository has a copy, with the last entry of a key, the parts of a nested
  message merged and a packed field decoded by its coding. The code does not keep this:
  `decoder_keys` is a key that comes twice, `decoder_twins` are two maps of the same types.
* `DecodesRegularFields` (`decoder`): it does field by field, but for the fields of
  `OddFields`: those in which, at any depth, a map has a key twice, something is cut short
  inside a length, or a nested message with more than numbers and strings comes in parts.
  Such a field does not disturb those beside it, before or behind, and `operator>>` returns
  whether the *outermost* records are whole: what is cut short inside is passed over. The
  structs of the run have maps of the same types that are coded alike, and packed fields
  of `TYPE_VARINT`. In what is left are other orders, unknown fields, a message that is
  cut at its outermost level, groups, entries without key or value, values and messages of
  scalars in parts, used objects, and the fields before a number that is registered twice
  (`DecodedItems`).
* `FaultOnlyIfWild`: bytes whose lengths and wire types are right do not lead to undefined
  behaviour. `decoder_order` shows that they do: an entry of a recursive map with its value
  before its key is valid, and its key is written through an address that is no longer one.
* `FaultOnlyIfWildOrResumed` (`decoder`): they do in no other way than this
  (`EntryResumed`): an entry that goes on with its key or its value behind an entry of the
  same types inside its value. An entry in the order of the encoder, and one in the other
  order without such entries inside, is safe.
* `DecodeAgain` (`decoder`): decoding the same bytes twice changes nothing.
* `ImplementsChannel`, `TesterAsserts` (`codec`): the refinement and the assertions
  of `test()`.
* `OrderKept` (`generator`): a file that is `Orderly` gets a header in which every struct
  is declared before another holds it. `Orderly` is a condition on the file alone, read
  off `getInsertIdx`: no message stands after one that names it and one that it holds,
  and a message that is held is found by its name and printed. It is not an empty one:
  315 of the 543 acyclic uses of four messages satisfy it. It is sufficient and not
  necessary (480 of them come out right), and without it the property fails: of messages
  `A`, `B`, `C` in this order, where `A` uses `C` and `C` uses `B`, the header has
  `C`, `A`, `B`, and `C` holds a `B` that is declared below.
* `ConstructorsParse` (`generator`): the initialisers of a constructor begin with a colon
  and go on with commas, in exactly the structs in which no has-flag comes before the
  first member that is initialised. An optional `string` at the top of a proto2 message is
  enough to break the header.
* `EachStructOnce` (`generator`): header and source have the same structs in the same
  order, each once, and every message but the empty ones and the entries of maps.
* `CountsWhatIsWritten` (`generator`): the fields of which the generated `getByteSize()`
  counts what the generated `serialize()` makes the encoder write are exactly the
  `Countable` ones. They are few: nested messages, repeated fields below 16 of
  `TYPE_VARINT`, maps with matching codings. Every scalar is outside, as the encoder
  writes a zero without a has-flag that `getByteSize()` leaves out (proto3), and leaves
  out a zero with a has-flag that is counted (proto2).
* `Ends`, `Returns`: every loop and every call ends.

Every property has a mutant in the module it is about: a changed definition, next
to the original, under which the run finds the property violated.

### Bounds and why they are enough

* *Widths.* `Bytes32` and `Bytes64` are parameters. `varint` and `decoder` use 8 and
  16 bits, `encoder` and `codec` 16 and 24. The longest varint of the small type is
  then shorter than that of the wide one, as five and ten bytes are, so that sign
  extension changes a length; the last byte of the longest varint has spare bits. The
  theorems hold for every pair of widths that satisfies `WidthAssumption`.
* *Numbers.* `varint` takes every 8-bit number and the 16-bit numbers around each
  power of two. The other runs take numbers on both sides of 128 and 16384, the
  largest positive and the smallest negative one.
* *Messages.* Strings long enough that a nested message and an entry need a length of
  two bytes; empty and multi-element vectors and maps; one struct per other field kind.
* *Files.* All ways in which four messages can use each other that have some order in
  which they could be declared: three are needed for a message that stands between its
  user and its own use, a fourth for two insertions that disturb each other. One field of
  every type under each syntax and label, with tags of one and of two bytes; maps of a
  key and a value of each coding; `unittest/pb/test1.proto`; one file with a nested
  message whose short name is that of another, a message with members of a oneof only,
  one that holds itself and one of an imported file; and proto2 messages with has-flags before and behind the first
  number.
* *Inputs of the decoder.* `RegularInputs`: every cut of an encoded message, and one
  message per thing that can go differently: repeated and reordered fields, unknown numbers
  of each wire type, groups, packed fields, nested messages in parts, entries with the value
  first or in parts, entries inside entries. `KeyInputs`, `CutInputs`, `PartInputs` and
  `ResumedInputs` are what the exceptions of the properties name: a key twice, bytes that
  are cut short inside a length, parts of a message with a vector or a map, entries that go
  on behind an inner one. `WildInputs` are bytes with a length beyond the end, another wire
  type than the field's or an overlong varint, in packed data too; for these the code's
  behaviour is undefined or unspecified. The assumption `InputsAreSorted` evaluates for each
  input that it is in the set whose name it has, by the definitions of `WireMeaning` that the
  properties use. All of them are inputs of the passing run, in which a call on one of them
  may come before any other.
* *`MaxCalls`, `MaxRounds` = 2*: the second call is where state left over from the
  first one shows (the used object, the statics, `_target`). A third meets the same
  state again.

`CHECK_DEADLOCK FALSE` stands in the runs in which the program stops: after
`MaxCalls` or `MaxRounds`, at an assertion, in undefined behaviour; `VarintLoop`
stops when the number is read.

### Fairness

A call runs on the caller's thread and never waits. `FairSpec` is weak fairness of
the steps inside a call (`Reserve`, the converters, `Parse`), not of `Begin`: the
program may never call again. In `Codec` and `VarintLoop`, which are whole programs,
it is weak fairness of `Next`, and so it is in `Generator`: `Generate()` runs its loops to
their ends.

## What is proved

`VarintLoopProofs` proves, for every `Bytes32`, `Bytes64`, `Codings` and `Numbers`
that satisfy `WidthAssumption` and `CodingAssumption`:

| theorem | statement |
|---|---|
| `Inductive` | `Spec => []IInv` |
| `TypeCorrect` | `Spec => []TypeOK` |
| `SizeIsExact` | `Spec => []SizeExact` |
| `TransportIsExact` | `Spec => []TransportExact` |
| `ShiftIsDefined` | `Spec => []ShiftDefined` |
| `RoundTripHolds` | `Spec => []RoundTripUnlessNegativeSint` |
| `LoopsComputeWire` | `Spec => []LoopsMatchWire` |

The loops work on different variables, one after the other, so none of the
properties is inductive. `IInv` ties them together with the history variable
`rests`, the values that the size loop shifts through. `Chain` says that each is what
a shift by seven leaves of the one before; `Sizing` that the size loop counts them;
`Writing` that byte `i` is the low seven bits of `rests[i]`; `Reading` that
`result + scale * rests[current + 1]` is the number at every iteration of the reader,
so that the last byte, which is `rests[size]` itself, completes it. Since
`rests[current + 1] >= 1` as long as bytes follow, the same equation bounds `scale` by
the number and gives `ShiftDefined`. The round trip needs two facts about the
widenings: narrowing undoes sign extension (`Mod64 % Mod32 = 0`), and zigzag of a
number whose top bit is clear is twice the number.

Of the widths it is assumed only that they are positive and that `Bytes32 < Bytes64`;
that `Mod32` and `Mod64` are powers of 256, and the one a multiple of the other, is
proved by induction (`WidthsAre` in `WireProofs`).

`WireProofs` is about the recursive functions of `Wire`. The library's induction
theorems take a predicate, which the provers at hand cannot instantiate; here
induction runs over a *set* of numbers: a set of naturals that is not empty has a least
member (`MinIs`), so a set with 0 and the successors of its members is all of `Nat`
(`StepInduction`; also `RankInduction` and `DownInduction`). `LinearRecursion` shows by
the same argument that a function defined by recursion on a value of lower rank exists,
so that `VarintByteSize`, `VarintBytes` and `VarintValue` satisfy their defining
equations. On these rest

* `VarintBytesAre`: of every number `varInt` writes as many bytes as `VarintByteSize`
  counts, and only the last of them is below 128, where `ReadVarInt` stops;
* `VarintsComeBack`: of every number of 64 bits these are no more bytes than the buffer
  `enclosure_t::sz` holds, and `ReadVarInt` reads the number back.

`LoopsComputeWire` ties the loops to them: the values in `rests` are the successive
shifts of the number, so that the number of them, the bytes written and the sum
read are what the recursive functions say. With it the one step that `Encoder` and
`Decoder` take for a whole loop is justified for every number, and not only on those
of the run.

`GeneratorProofs` proves, for every set `Files` that satisfies
`FileAssumption` (every message of a file stands once in its flattened messages: the
files are trees) and, the last two, `FieldAssumption`:

| theorem | statement |
|---|---|
| `Inductive` | `Spec => []IInv` |
| `TypeCorrect` | `Spec => []TypeOK` |
| `OrderIsKept` | `Spec => []OrderKept` |
| `StructsAreComplete` | `Spec => []EachStructOnce` |
| `SizesAreCountable` | `Spec => []CountsWhatIsWritten` |
| `ConstructorsAreRight` | `Spec => []ConstructorsParse` |

`OrderKept` speaks of the header, which is printed from a list that was sorted in an
earlier loop, so it is not inductive. `IInv` follows a message through the loops.
`Sorting` says that `sorted` is the messages inserted so far, each once; `Ordered` that
in an orderly file none of them stands before one that it holds. `InsertMsg` keeps this
for two reasons, one per half of `Orderly`: `getInsertIdx` returns the place of the first
message that names the new one (`InsertIdxIs`), so that whatever holds it goes behind it;
and if the new message holds one that is there, nobody names it, so that it goes to the
end. `Printing` says that the structs are those of the messages the loop has seen and in
their order, `Counting` that the sizes are a beginning of the structs; that the two lists
end up equal needs both, because the two loops skip messages independently.

`FieldAssumption` says what `protoc` has checked of a message before the generator runs:
the field numbers are positive and differ, a map is a repeated field, the types are those
of `FieldDescriptor::Type`. It leaves out groups, of which the printed
`getByteSize()` does not compile, and messages with the name of a C++ type, because the
model names both by a string. Each struct and each size that is printed is that of its
message (`ContentsKept`), so both theorems come down to a statement on one message.
`SizesAreCountable` compares, for each kind of field, what is counted with what the
encoder writes: that the two differ in the time at which they count (`TimesDiffer`) or in
the bytes (`PartsDiffer`), or that the tag counted as one byte is one
(`TagIsOneByte`: exactly below 16). `ConstructorsAreRight` is an induction over the
fields with the invariant `Built`: after the first `i` of them the initialisers are a list
from a colon on if and only if each has-flag so far has an initialised member at or before
its own place, and no member of a field stands there twice.

`DecoderProofs` proves, for every schema, every set of inputs (all byte strings, not
only well-formed ones) and of targets that satisfy `DecoderAssumption`:

| theorem | statement |
|---|---|
| `InvariantHolds` | `Spec => []IInv` |
| `TypeCorrect` | `Spec => []TypeOK` |
| `WindowsAreNested` | `Spec => []WindowsNested` |
| `BindingsHold` | `Spec => []StaleOnlyIfRecursive` |
| `BytesReadOnce` | `Spec => ReadsForward` |

`IInv` is about the whole chain of parsers, not only the two on top, because a parser that
returns uncovers any of them. `Parsers`: each window is inside the buffer and ends where
the one below goes on. `Messages`: what a parser parses is held, directly or not, by
what those below it parse, and an entry is one of a map of the message below it.
`Owners`: the static bindings of a map belong to the entry on the chain, unless its key or
value is of a struct that can hold itself. Entering an entry takes the bindings
over, and this disturbs `Owners` only if an entry of the same type is further down; then
`Messages` gives the chain that makes the type recursive. So sharing the bindings among
all maps and depths of a program is harmless in every schema without recursive structs.
`BytesReadOnce` gives the bound that the run's `Returns` rests on: a call of `operator>>`
takes at most one step for each byte and one more for each parser.

`EncoderProofs` proves, for every schema that satisfies `SchemaAssumption`, every set
`Objects` that has the program's messages and what they hold (`Typed(Objects)`: each field
has a value of its type), and every set `Counting` of objects whose `getByteSize()` is
right:

| theorem | statement | for messages of `Counting`, with |
|---|---|---|
| `TypeCorrect` | `Spec => []TypeOK` | (all messages) |
| `ScheduleKept` | `Spec => [](Kinds /\ Schedule)` | `CountsAsWritten` |
| `PrefixesExact` | `Spec => []LengthPrefixesExact` | `CountsAsWritten` |
| `RoomIsKept` | `Spec => []WithinReservation` | `CountsAsWritten`, `FitsReserve` |
| `SizesAlwaysAgree` | `Spec => []SizesAgree` | `CountsAsWritten`, `FitsReserve` |

`getByteSize()` is code of the user, so the theorems cannot do without a hypothesis about
it. `CountsAsWritten` is the weakest that says something of single structs: the answer
is the sum over the *own* fields of what their converters write, where a nested message
counts as the answer of *its* `getByteSize()`. That these local agreements add up, through
any nesting, to exact prefixes and an exact total is what is proved. For maps it says
besides that `ByteSize(key, type)` is what the converter of keys writes (`EntryFits`),
which does not hold of a `uint32` from 2^31 on. `FitsReserve` is needed because
`reserve()` takes a `uint32_t`. The invariant `Schedule` says that at every moment

    nByteSize = what is written + what the tasks on the agenda are to write

and the same for the end of each open prefix with the tasks up to its own end. A
converter that replaces its task by those of what it calls leaves the sums alone (for a
map or a vector by induction over its elements, `Sums`), and one that
writes moves its bytes from the second summand to the first. The hypotheses are not empty: `CountsRight` checks
`Typed` and `CountsAsWritten` on the structs of the tester in every state of the run, and
`ObjectsAreTyped` in `MC_Encoder` is evaluated with it. Where they fail the code fails:
`encoder_high` is the object that is counted shorter than it is written.

`EncoderFormatProofs` proves which bytes these are. `AllObjects` are the objects of the
program and `FaithfulObjects` those of them, with all they hold, whose fields, values and
flags the encoder writes well (`WrittenAsFormat`); `Format` gives the bytes of each by
`WireFormat`:

| theorem | statement | for `FaithfulObjects` with |
|---|---|---|
| `WritesTheFormat` | `Spec => [](Kinds /\ Schedule /\ InFormat)` | `CountsAsWritten`, `WrittenAsFormat` |
| `EncodesTheFormat` | `Spec => []EncodesFormatIfWrittenWell` | `CountsAsWritten`, `WrittenAsFormat` |

The argument is that of `Schedule` with bytes in place of their number. `InFormat` says
that at every moment

    Format[message] = what is written \o what the tasks on the agenda are to write

where a task that is a nested message is to write `Format` of it. A task that is replaced
by those of what it calls keeps the sum (`TasksAreOpen`: for a map by induction over its
entries, with a length prefix that is the number of the bytes behind it, because
`getByteSize()` is right); one that writes moves its bytes over. That a field's tasks write
what the format says of the field (`FieldFormat`) is a comparison of two definitions that
were written apart: the encoder's converters, and the page of the format. It is where
`WrittenAsFormat` is used, and every conjunct of it is one of the faults in the list below.

`Format` is a recursive function on objects. That it is one at all needs that no object
holds itself; the theorems suppose a `depth` that decreases from an object to those it
holds (`Nests`), and `FormatIs` shows by induction over it that `Format` satisfies its
defining equation. A tree of C++ values has such a depth: its height. The run evaluates the
hypotheses on its instance (`ObjectsAreTyped`, `FaithfulOnes`, and the invariant
`CountsRight`).

`DecoderFormatProofs` proves the converse of what `EncoderFormatProofs` does. `ReadObjects`
are the messages, with all they hold, whose bytes `Format` gives:

| theorem | statement | for `ReadObjects` with |
|---|---|---|
| `FormatDecoded` | `Spec => []DecodesFormat` | `Readable(depth)`, `Membered(rank)` |

`Readable` says that the messages are of their types, that nesting ends, and
`ReadAsFormat`; `Membered` that no struct has itself as a single member, at any depth,
which is what makes `ZeroMessage` a definition (a C++ class cannot either). Nothing is
supposed of the other inputs: the program may decode any bytes before, in any order, and
leave its bindings in `convertMap`. The argument has three parts.

*What a parser reads.* `Reads(b, f, final)` says that from where the parser `f` stands to
the end of its window the buffer `b` is a sequence of records, each with the bytes of the
format, that turn the object of `f` into `final`. The records of one field fill its member
(`FieldReaches`), those of all fields a message that started with its vectors and maps
empty (`MessageReads`), and the two of an entry its key and value (`EntryReads`). These are
inductions over the records, on the path that `Reads` hides.

*What a step does.* `RecordStep` ties a step of `Parse` to a record: of the tag, the length
and the number at the front of the window it reads just what the format wrote there
(`VarintsComeBack`, the fixed numbers), finds the item with that number, and stores the
value or starts a parser inside. `EndStep` returns at the end of the window.

*The stack.* `OnTrack` is the invariant: with `finals`, one object for each parser, every
parser, once those inside it have left what they are to leave, reads what is before it and
then has its final object; and an entry with a record before it owns the static bindings.
It is kept when the innermost parser goes on (`ResumedTracks`), starts another
(`EnteredTracks`) or returns (`ReturnedTracks`). That the bindings are those of *some* map
of the schema (`BoundAsDeclared`) is an invariant of all inputs, and `OneCoding` makes them
right for this one. A recursive struct is no exception: on the bytes of the format the
nested message of an entry is its last record, so that an entry whose bindings were taken
over by one inside it reads nothing more.

`MC_Decoder` evaluates the hypotheses on its instance (`ObjectsAreRead`, `MembersAreOther`).

`CodecProofs` proves that the two together do what the tester asks of them, for every
schema and every set of values that satisfy `CodecAssumption`, and any number of rounds:

| theorem | statement | with |
|---|---|---|
| `ProgramInvariant` | `Spec => []Inv` | `RoundTrips(depth, rank)` |
| `AssertionsHold` | `Spec => []TesterAsserts` | `RoundTrips(depth, rank)` |
| `ValuesArrive` | `Spec => Channel!Init /\ [][Channel!Next]_(Channel!channelVars)` | `RoundTrips(depth, rank)` |

`RoundTrips` is what the theorems about the halves suppose, of one and the same set
`Objects`: the values that are sent, and what they hold, are counted as they are written
(`Enc!Program`), and are written and read as the format says (`Dec!Readable`,
`Dec!Membered`). `ValuesArrive` is the refinement of `ValueChannel` without its
fairness: the initial states map to initial states, and every step of the program is a
`Send`, a `Deliver` or a stutter of the channel. The argument has three parts.

*One format.* Each half speaks of its own instance of `WireFormat`, and so of a recursive
function of its own. Operator by operator the two are the same, and that they give the
same bytes for each object is an induction over `depth` (`SameFormat`).

*The halves.* The steps of `test()` are steps of the encoder or of the decoder, and leave
the other where it is; so the invariants behind `EncodesTheFormat` and `FormatDecoded` hold
of the program (`Enc!Writes`, `Dec!Decoding`). `NextRound` makes the encoder a new one
(`Enc!Fresh`) but leaves the decoder its bindings, which its invariant allows for.

*The seam.* `Flow` is what fits them together: once the encoder has returned, what it has
left is `Format` of the value that was sent (`Encoded`), and a decoder that is parsing was
given these bytes and a fresh object or that very value (`Dec!GivenNow`). When it returns,
`FormatDecoded` says what it leaves.

`MC_Codec` evaluates the hypotheses on the values of the run `codec`
(`ValuesGoThrough`). In `codec_packed` and `codec_floats` `Objects` is empty: their values
are outside of the theorems, and do not come back.

### What is only model-checked

* `DecodesRegularFields`, `DecodeAgain`, `FaultOnlyIfWildOrResumed`: they are stated in
  terms of `WireMeaning`, whose operators are `RECURSIVE` and for which the prover has no SMT
  backend.
* `StopsOnlyIfMisused`: the reasons are those of the structs of the instance.
* `CountsRight`: a statement about the `getByteSize()` of the tester.
* Liveness (`Ends`, `Returns`, and the part of `ImplementsChannel` that `ValuesArrive`
  leaves out: a value which is sent is received). Fairness and
  `ENABLED` are outside of the prover. `BytesReadOnce` is the bound that it rests on.

## What the runs found

Seven violated properties, with the lines of the documents they contradict in
`PROJECT.json`:

1. `svarInt` shifts an unsigned number, so the sign does not fill it: a negative
   `sint32` or `sint64` is encoded as another number (`src/encoder.cpp:154`;
   `varint_sint`).
2. A `uint32` from 2^31 on is written sign-extended in ten bytes, while the tester's
   `getByteSize` counts five (`src/encoder.cpp:211`; `encoder_high`).
3. Two maps of the same C++ types share one binding, and with it the codings of the
   first one decoded (`include/decoder.h:246`; `decoder_twins`).
4. The first of two entries with one key stays in the map, where the second one should win
   (`include/decoder.h:261`; `decoder_keys`).
5. An entry of a recursive map with its value before its key writes the key through an
   address in a call that has returned (`include/decoder.h:256`; `decoder_order`).
6. A packed `repeated int32` is written unpacked but bound as packed
   (`include/encoder.h:200`, `src/decoder.cpp:178`; `codec_packed`).
7. A `repeated float` is decoded by a converter of 64-bit integers: the four bytes are
   read as eight and converted as a number (`src/decoder.cpp:206`; `codec_floats`).

The passing runs say more of the code, as the exceptions that their properties name. In
the encoder (`WrittenWell`, `FlagFits`, `StopsOnlyIfMisused`):

* `encodeField` of a 64-bit integer has no branch for `TYPE_FIXED64`: the field is left out
  (`src/encoder.cpp:122`);
* the pack converters write no length between tag and numbers (`src/encoder.cpp:333`), and
  a table without a converter for a coding is called through all the same;
* `ByteSize` of a `sint` has no `return`: a map with such keys or values has entries of a
  length that is up to the build (`include/encoder.h:34`);
* the entries of a map take the wire type of key and value from the C++ type
  (`include/encoder.h:308`);
* a field that is set to zero is not written, because the has-flag is taken for whether
  there is one and is not read (`src/encoder.cpp:203`);
* the assertion on the capacity in `reserve()` stops a message shorter than the capacity of
  an empty string, and every second call (`src/encoder.cpp:24`).

In the decoder (`ReadsWell`, `Regular`):

* a nested message, an entry or a packed field that is cut short is passed over, and
  `operator>>` returns true (`src/decoder.cpp:60`);
* the second part of a nested message empties the vectors and maps that the first one filled
  (`include/decoder.h:117`);
* packed fields are read as plain varints whatever their coding (`include/decoder.h:211`).

In the generator (`Orderly`, `EachStructOnce`, `ConstructorsParse`, `Countable`):

* the order can hold a struct before it is declared (`struct_serialize.cc:246`);
* the struct of an empty message is left out, though another one may hold it
  (`struct_serialize.cc:349`);
* constructors and `getByteSize()` are right for the messages and the fields above only.

## What is not modelled

* Undefined behaviour has no effects of its own: the model stops there.
* Memory addresses and the layout of structs. A has-flag at offset zero, which the
  library takes for none (`include/decoder.h:59`), is an item with `has = FALSE`; that the
  struct has a flag which is then neither set nor kept is not among the runs' cases.
* Field types that do not compile: vectors of `bool` in the encoder, maps of floats
  (`SchemaAssumption` in `Encoder`).
* Threads. Nothing in the repository runs two; that the static bindings of `convertMap`
  would be shared by them is not a question the code answers.
* Of the generator: includes, enums, default values, names that are keywords or have
  capitals, `printSerialize` (its only call is commented out), and the
  layout of the text.
* The unittest program: its calls are those of the tester.
* The vendored `protoc` and runtime (`tool/src/google/protobuf` but for
  `compiler/struct`): about 450 000 of the repository's 455 000 lines, a copy of a
  third-party library that this repository did not write. A share of all lines is
  therefore small whatever is modelled; of the files that are this project's own
  (`include/`, `src/`, `tester/`, `compiler/struct/`) most lines are mapped.

## Plan

Done, in this order: `Wire`, `VarintLoop`, its proofs, `Encoder` with `WireFormat`,
`Decoder` with `WireMeaning`, `ValueChannel` and `Codec`, `Generator`, its proofs,
`WireProofs`, `DecoderProofs`, `EncoderSizes` and `EncoderProofs`, `EncoderFormat` and
`EncoderFormatProofs`, `DecoderFormat` and `DecoderFormatProofs`, `CodecProofs`.

What is left is out of the prover's reach: liveness, and what is said in terms of
`WireMeaning`.

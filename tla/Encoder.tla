------------------------------- MODULE Encoder -------------------------------
(* PBEncoder (include/encoder.h, src/encoder.cpp).  operator<< registers one *)
(* converter per field, asks the struct for its size, resizes the string to  *)
(* it and runs the converters, which write through a bare pointer: nothing   *)
(* but the agreement of getByteSize with the converters keeps the bytes      *)
(* inside the string and the length prefixes of nested messages true.        *)
(*                                                                           *)
(* The converters that are still to run are an agenda of tasks.  A converter *)
(* that calls others (a nested message, a vector, a map) puts them in front. *)
EXTENDS Wire

CONSTANTS
  Schema,             \* struct name -> the items its serialize() registers, in order
  GetByteSize(_, _),  \* the user's getByteSize of a struct name and a message
  Messages,           \* the pairs [struct, value] the caller encodes
  Builds,             \* values of NDEBUG: FALSE is a build with assertions
  Capacity,           \* capacity of the empty string the encoder is given
  MaxCalls            \* bound: calls of operator<< on one encoder

ASSUME EncoderAssumption ==
  /\ Builds \subseteq BOOLEAN
  /\ Capacity \in Nat /\ MaxCalls \in Nat
  /\ Messages # {} /\ \A m \in Messages : m.struct \in DOMAIN Schema

\* What compiles: encodeValue is not there for the elements of a vector of bool,
\* nor ByteSize for the floats and doubles of a map.
ASSUME SchemaAssumption ==
  \A struct \in DOMAIN Schema :
    /\ Schema[struct] \in Seq(Range(Schema[struct]))
    /\ \A item \in Range(Schema[struct]) :
         /\ item.num \in Nat /\ item.shape \in {"single", "vector", "map"}
         /\ {item.low, item.high} \subseteq TYPE_VARINT .. TYPE_FIXED64
         /\ item.shape = "vector" => item.cpp # "bool"
         /\ item.shape = "map" => {item.cpp, item.key} \cap {"float", "double"} = {}

VARIABLES
  ndebug,     \* the build
  phase,      \* "idle", "reserving", "converting", "aborted", "undefined"
  message,    \* the pair [struct, value] being encoded
  agenda,     \* tasks still to run
  nByteSize,  \* what value.getByteSize() answered
  region,     \* bytes of *_buffer that reserve() made room for
  out,        \* bytes between the begin of *_buffer and _target
  hasTarget,  \* _target is not NULL
  ret,        \* what the last operator<< returned
  calls,      \* how many have returned
  open        \* history: where each open length prefix said its bytes would end

vars == <<ndebug, phase, message, agenda, nByteSize, region, out, hasTarget, ret, calls, open>>

-----------------------------------------------------------------------------
(* Registration: what operator& and encodeField bind for an item.            *)

\* encodeField of an integer has no branch for TYPE_FIXED64, and compares the
\* whole of the type, where PACKED is no coding.
Registered(item) ==
  item.shape = "single" /\ item.cpp \in Ints32 \cup Ints64
    => item.low # TYPE_FIXED64 /\ item.high = 0

\* assert(value.type == TYPE_VARINT) of encodeField of a bool.
RegistrationAsserts(struct) ==
  \A item \in Range(Schema[struct]) :
    item.shape = "single" /\ item.cpp = "bool" => item.low = TYPE_VARINT /\ item.high = 0

\* Mutant of InTable: the missing entries are looked for one place too early.
InTableEarly(item) ==
  /\ item.cpp \in Ints64 => item.low # TYPE_SVARINT
  /\ item.cpp \in Ints32 => item.low # TYPE_FIXED32

\* The entries of the tables of vector converters: convsetSetPack64 has NULL for
\* TYPE_FIXED32, and TYPE_FIXED64 is behind the end of convsetSetPack32.
InTable(item) ==
  /\ item.cpp \in Ints64 => item.low # TYPE_FIXED32
  /\ item.cpp \in Ints32 => item.low # TYPE_FIXED64

\* Mutant of TagType: the type of the field does not count.
TagTypeOfCpp(cpp, type) == WriteType(cpp)

\* A string and a struct are bound as length-delimited, another scalar by its
\* C++ type unless its field type is fixed.
TagType(cpp, type) ==
  IF cpp = "string" \/ IsMessage(cpp) THEN WT_LENGTH_DELIMITED
  ELSE CASE type = TYPE_FIXED32 -> WT_32BIT
         [] type = TYPE_FIXED64 -> WT_64BIT
         [] OTHER               -> WriteType(cpp)

Value(tag, cpp, type, v, has) ==
  [op |-> "value", tag |-> tag, cpp |-> cpp, type |-> type, v |-> v, has |-> has]

FieldTask(item, v) ==
  IF item.shape = "single"
    THEN Value(Tag(item.num, TagType(item.cpp, item.low)), item.cpp, item.low, v, item.has)
    ELSE [op |-> item.shape, item |-> item, v |-> v]

\* The converters a struct's serialize() leaves in _functionSet.
FieldTasks(struct, value) ==
  LET items == Schema[struct]
      Task(item) == FieldTask(item, value.val[item.num])
  IN  FlattenSeq([i \in 1 .. Len(items) |-> IF Registered(items[i]) THEN <<Task(items[i])>> ELSE <<>>])

-----------------------------------------------------------------------------
(* What a converter writes.                                                  *)

\* Mutant of ScalarBytes: a string is written with its terminating zero.
ScalarBytesTerminated(cpp, type, v) ==
  CASE cpp = "string" -> VarintBytes[Len(v)] \o v \o <<0>>
    [] cpp = "bool"   -> <<v>>
    [] cpp = "float"  -> Fixed(v, Bytes32)
    [] cpp = "double" -> Fixed(v, Bytes64)
    [] OTHER          -> VarintBytes[v]

\* varInt, svarInt, fixed32 and fixed64 of an integer.
IntBytes(cpp, type, v) ==
  CASE type = TYPE_SVARINT -> VarintBytes[ZigZag(v, IntModulus(cpp))]
    [] type \in {TYPE_FIXED32, TYPE_FIXED64} ->
         Fixed(v, IF cpp \in Ints32 THEN Bytes32 ELSE Bytes64)
    [] OTHER -> VarintBytes[IF cpp \in Ints32 THEN SignExtend(v) ELSE v]

\* What is written after the tag.
ScalarBytes(cpp, type, v) ==
  CASE cpp = "string" -> VarintBytes[Len(v)] \o v
    [] cpp = "bool"   -> <<v>>
    [] cpp = "float"  -> Fixed(v, Bytes32)
    [] cpp = "double" -> Fixed(v, Bytes64)
    [] OTHER          -> IntBytes(cpp, type, v)

\* The elements of a vector one after the other, each with the tag.
ElementTasks(tag, item, v) ==
  [i \in 1 .. Len(v) |-> Value(tag, item.cpp, item.low, v[i], FALSE)]

ArrayTasks(item, v) == ElementTasks(Tag(item.num, TagType(item.cpp, item.low)), item, v)

\* A packed vector: the integers behind the tag at once, the others by their tasks.
PackTag(item) == Tag(item.num, WT_LENGTH_DELIMITED)

PackBytes(item, v) ==
  IF v = <<>> THEN <<>>
  ELSE IF item.cpp \in Ints32 \cup Ints64
    THEN PackTag(item) \o FlattenSeq([i \in 1 .. Len(v) |-> IntBytes(item.cpp, item.low, v[i])])
    ELSE PackTag(item)

PackTasks(item, v) ==
  IF v = <<>> \/ item.cpp \in Ints32 \cup Ints64 THEN <<>>
  ELSE ElementTasks(PackTag(item), item, v)

EntryTasks(item, map) ==
  LET keys == Keys(item, map)
  IN  [i \in 1 .. Cardinality(DOMAIN map) |->
        [op |-> "entry", item |-> item, k |-> keys[i], v |-> map[keys[i]]]]

\* serialize::ByteSize of a number; of a signed one of 32 bits the conversion to
\* uint64_t copies the sign.
NumberSize(cpp, type, v) ==
  LET wide == IF cpp = "int32" THEN SignExtend(v) ELSE v
  IN  CASE type = TYPE_VARINT  -> VarintByteSize[wide]
        [] type = TYPE_SVARINT -> VarintByteSize[ZigZag(wide, Mod64)]
        [] type = TYPE_FIXED32 -> Bytes32
        [] OTHER               -> Bytes64

Delimited(n) == VarintByteSize[n] + n

\* ByteSize of a key or a value.
ByteSize(cpp, type, v) ==
  CASE cpp = "string" -> Delimited(Len(v))
    [] IsMessage(cpp) -> Delimited(GetByteSize(cpp, v))
    [] OTHER          -> NumberSize(cpp, type, v)

\* infok and infov take their wire type from the C++ type alone.
EntryTag(num, cpp) == Tag(num, WriteType(cpp))

\* convsetSet has one function per type, of 32 bits for TYPE_SVARINT.
EntryValue(num, cpp, type, v) ==
  CASE type \in {TYPE_SVARINT, TYPE_FIXED32} ->
         Value(EntryTag(num, cpp), "uint32", type, v % Mod32, FALSE)
    [] type = TYPE_FIXED64 -> Value(EntryTag(num, cpp), "uint64", type, v, FALSE)
    [] OTHER -> Value(EntryTag(num, cpp), cpp, TYPE_VARINT, v, FALSE)

EntryKey(t)  == EntryValue(1, t.item.key, t.item.high, t.k)
EntryMapped(t) == EntryValue(2, t.item.cpp, t.item.low, t.v)

\* Mutant of EntrySize: the tag of the key is not counted.
EntrySizeShort(t) ==
    ByteSize(t.item.key, t.item.high, t.k)
  + Len(EntryMapped(t).tag) + ByteSize(t.item.cpp, t.item.low, t.v)

\* nByteSize of an entry.
EntrySize(t) ==
    Len(EntryKey(t).tag) + ByteSize(t.item.key, t.item.high, t.k)
  + Len(EntryMapped(t).tag) + ByteSize(t.item.cpp, t.item.low, t.v)

-----------------------------------------------------------------------------
Init ==
  /\ ndebug \in Builds
  /\ phase = "idle" /\ message = CHOOSE m \in Messages : TRUE
  /\ agenda = <<>> /\ nByteSize = 0 /\ region = 0
  /\ out = <<>> /\ hasTarget = FALSE
  /\ ret = FALSE /\ calls = 0 /\ open = {}

\* operator<<, up to and including getByteSize.
Begin ==
  /\ phase = "idle" /\ calls < MaxCalls
  /\ \E m \in Messages :
       /\ ndebug \/ RegistrationAsserts(m.struct)
       /\ message' = m
       /\ agenda' = FieldTasks(m.struct, m.value)
       /\ nByteSize' = GetByteSize(m.struct, m.value)
  /\ phase' = "reserving"
  /\ open' = {}
  /\ UNCHANGED <<ndebug, region, out, hasTarget, ret, calls>>

\* The registration of the message's own fields stops at the assertion.
BeginAborts ==
  /\ phase = "idle" /\ calls < MaxCalls /\ ~ndebug
  /\ \E m \in Messages : ~RegistrationAsserts(m.struct) /\ message' = m
  /\ phase' = "aborted" /\ open' = {}
  /\ UNCHANGED <<ndebug, agenda, nByteSize, region, out, hasTarget, ret, calls>>

\* assert(!_target); assert(_buffer->capacity() < nSize);
ReserveAsserts == ~hasTarget /\ Capacity < nByteSize % Mod32

Reserve ==
  /\ phase = "reserving"
  /\ ndebug \/ ReserveAsserts
  /\ region' = nByteSize % Mod32      \* reserve() takes a uint32_t
  /\ out' = <<>> /\ hasTarget' = TRUE
  /\ phase' = "converting"
  /\ UNCHANGED <<ndebug, message, agenda, nByteSize, ret, calls, open>>

ReserveAborts ==
  /\ phase = "reserving"
  /\ ~ndebug /\ ~ReserveAsserts
  /\ phase' = "aborted"
  /\ UNCHANGED <<ndebug, message, agenda, nByteSize, region, out, hasTarget, ret, calls, open>>

-----------------------------------------------------------------------------
(* doConvert: one converter, or one call it makes, per step.                 *)

Current == Head(agenda)

\* The length prefixes whose bytes are not all written yet.
StillOpen == {o \in open : o.rest < Len(agenda)}

Converting(op) ==
  /\ phase = "converting" /\ agenda # <<>> /\ Current.op = op
  /\ UNCHANGED <<ndebug, phase, message, nByteSize, region, hasTarget, ret, calls>>

\* The call leaves what the program says.
Leaves(op, to) ==
  /\ phase = "converting" /\ agenda # <<>> /\ Current.op = op
  /\ phase' = to
  /\ UNCHANGED <<ndebug, message, agenda, nByteSize, region, out, hasTarget, ret, calls, open>>

Emit(bytes, tasks) ==
  /\ out' = out \o bytes
  /\ agenda' = tasks \o Tail(agenda)
  /\ open' = StillOpen

\* A tag, a length n, and the tasks that are to write n bytes.
EmitPrefixed(tag, n, tasks) ==
  /\ out' = out \o tag \o VarintBytes[n]
  /\ agenda' = tasks \o Tail(agenda)
  /\ open' = StillOpen \cup {[rest |-> Len(agenda) - 1, end |-> Len(out') + n]}

\* Mutant of ConvertScalar: a field that is left out is looked at again.
ConvertScalarStays ==
  /\ Converting("value") /\ ~IsMessage(Current.cpp)
  /\ IF Current.has /\ IsZero(Current.cpp, Current.v)
       THEN UNCHANGED <<out, agenda, open>>
       ELSE Emit(Current.tag \o ScalarBytes(Current.cpp, Current.type, Current.v), <<>>)

\* encodeValue of a number or a string: left out when it is zero and the field
\* has a has-flag, whatever the flag says.
ConvertScalar ==
  /\ Converting("value") /\ ~IsMessage(Current.cpp)
  /\ IF Current.has /\ IsZero(Current.cpp, Current.v)
       THEN Emit(<<>>, <<>>)
       ELSE Emit(Current.tag \o ScalarBytes(Current.cpp, Current.type, Current.v), <<>>)

ConvertMessage ==
  /\ Converting("value") /\ IsMessage(Current.cpp)
  /\ ndebug \/ RegistrationAsserts(Current.cpp)
  /\ EmitPrefixed(Current.tag, GetByteSize(Current.cpp, Current.v),
                  FieldTasks(Current.cpp, Current.v))

MessageAborts ==
  /\ Leaves("value", "aborted")
  /\ IsMessage(Current.cpp) /\ ~ndebug /\ ~RegistrationAsserts(Current.cpp)

\* A vector whose type & 0xFFFF is zero, the TYPE_PACKED ones included.
ConvertArray ==
  /\ Converting("vector") /\ Current.item.low = TYPE_VARINT
  /\ Emit(<<>>, ArrayTasks(Current.item, Current.v))

\* A vector with another type: a length-delimited tag, then the elements.
ConvertPack ==
  /\ Converting("vector") /\ Current.item.low # TYPE_VARINT /\ InTable(Current.item)
  /\ Emit(PackBytes(Current.item, Current.v), PackTasks(Current.item, Current.v))

\* The converter that is not in the table is called all the same.
ConvertPackUnbound == Leaves("vector", "undefined") /\ ~InTable(Current.item)

ConvertMap ==
  /\ Converting("map")
  /\ Emit(<<>>, EntryTasks(Current.item, Current.v))

\* convsetSet hands whatever the key or the value is to a converter of a
\* uint32_t or, of TYPE_FIXED64, of a uint64_t.
Misread(cpp, type) ==
  type # TYPE_VARINT
    /\ cpp \notin IF type = TYPE_FIXED64 THEN Ints64 ELSE Ints32 \cup Ints64

EntryMisread ==
  \/ Misread(Current.item.key, Current.item.high)
  \/ Misread(Current.item.cpp, Current.item.low)

ConvertEntry ==
  /\ Converting("entry") /\ ~EntryMisread
  /\ EmitPrefixed(Tag(Current.item.num, WT_LENGTH_DELIMITED), EntrySize(Current),
                  <<EntryKey(Current), EntryMapped(Current)>>)

\* A string, a struct or a bool is read as a number, or a number as a wider one.
ConvertEntryMisreads == Leaves("entry", "undefined") /\ EntryMisread

\* ByteSize(value, TYPE_SVARINT) has no return statement: a build that
\* optimises does not come back from it.
ConvertEntryRunsOff ==
  /\ Leaves("entry", "undefined")
  /\ ~EntryMisread /\ TYPE_SVARINT \in {Current.item.low, Current.item.high}

Convert ==
  \/ ConvertScalar \/ ConvertMessage \/ MessageAborts
  \/ ConvertArray \/ ConvertPack \/ ConvertPackUnbound
  \/ ConvertMap \/ ConvertEntry \/ ConvertEntryMisreads \/ ConvertEntryRunsOff

\* if (_buffer.size() != nByteSize) return false; return true;
Finish ==
  /\ phase = "converting" /\ agenda = <<>>
  /\ ret' = (Len(out) = nByteSize)
  /\ phase' = "idle" /\ calls' = calls + 1
  /\ UNCHANGED <<ndebug, message, agenda, nByteSize, region, out, hasTarget, open>>

Next == Begin \/ BeginAborts \/ Reserve \/ ReserveAborts \/ Convert \/ Finish

Spec == Init /\ [][Next]_vars

\* operator<< runs to its end: the steps of a call that began are not put off.
FairSpec == Spec /\ WF_vars(Reserve \/ ReserveAborts \/ Convert \/ Finish)

-----------------------------------------------------------------------------
\* The variables hold values of their kinds.
TypeOK ==
  /\ ndebug \in Builds /\ message \in Messages
  /\ phase \in {"idle", "reserving", "converting", "aborted", "undefined"}
  /\ \A i \in DOMAIN agenda : agenda[i].op \in {"value", "vector", "map", "entry"}
  /\ nByteSize \in Nat /\ region \in Num32 /\ out \in Seq(Byte)
  /\ hasTarget \in BOOLEAN /\ ret \in BOOLEAN /\ calls \in 0 .. MaxCalls
  /\ \A o \in open : o.rest \in Nat /\ o.end \in Nat

\* The converters never write past the bytes reserve() made room for.
WithinReservation == phase = "converting" => Len(out) <= region

\* Every length prefix of a nested message or of a map's entry says how many
\* bytes the converters then write for it: not one more at any moment, and not
\* one less when they are through.  A reader finds every later field by it.
LengthPrefixesExact ==
  \A o \in open :
    /\ Len(out) <= o.end
    /\ Len(agenda) = o.rest => Len(out) = o.end

Encoded == phase = "idle" /\ calls > 0

\* operator<< returns true, and the string has just the bytes that were written:
\* a getByteSize that counts like the converters does agree with them, for the
\* vectors of other types too.
SizesAgree == Encoded => ret /\ Len(out) = region

\* A call that began comes back.
Returns == phase = "reserving" ~> phase \in {"idle", "aborted", "undefined"}
=============================================================================

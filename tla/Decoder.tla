------------------------------- MODULE Decoder -------------------------------
(* PBDecoder and proto::Message (include/decoder.h, src/decoder.cpp).        *)
(* operator>> binds a converter to each field number, clears the vectors and *)
(* maps, and parses the buffer one field at a time; a converter of a nested  *)
(* message or of a map's entry runs a parser of its own on the bytes of the  *)
(* field.  The parsers that have not returned are a stack of frames.         *)
(*                                                                           *)
(* convertMap keeps its bindings in a function-local static, one per pair of *)
(* key and value types for the whole program: they are filled by the first   *)
(* entry that is ever decoded and later calls change the addresses alone.    *)
EXTENDS Wire

CONSTANTS
  Schema,      \* struct name -> the items its serialize() registers, in order
  Inputs,      \* the pairs [struct, bytes] the program decodes
  Targets,     \* the pairs [struct, value] of fresh objects it decodes into
  Unspecified, \* numbers that memory nobody wrote, or an address, may hold
  MaxCalls     \* bound: calls of operator>> in the life of the program

ASSUME DecoderAssumption ==
  /\ \A i \in Inputs : i.struct \in DOMAIN Schema /\ i.bytes \in Seq(Byte)
  /\ Targets # {}
  /\ \A t \in Targets : t = [struct |-> t.struct, value |-> t.value] /\ t.struct \in DOMAIN Schema
  /\ \A struct \in DOMAIN Schema : \A i \in DOMAIN Schema[struct] :
       LET item == Schema[struct][i]
       IN  /\ IsMessage(item.cpp) => item.cpp \in DOMAIN Schema
           /\ item.shape = "map" /\ IsMessage(item.key) => item.key \in DOMAIN Schema
  /\ Unspecified \subseteq Num64 /\ Unspecified # {}
  /\ MaxCalls \in Nat

VARIABLES
  phase,    \* "idle", "parsing", "undefined"
  fault,    \* history: why the behaviour is undefined, "none" while it is not
  buffer,   \* the bytes of the decoder in use
  target,   \* the pair [struct, value] the caller decodes into, or decoded last
  frames,   \* parsers that have not returned, the innermost last
  statics,  \* the static Message of convertMap: <<K, V>> -> [items, owner]
  last,     \* history: the calls that returned, [struct, buffer, before, ok, after]
  calls     \* how many calls were begun

vars == <<phase, fault, buffer, target, frames, statics, last, calls>>

-----------------------------------------------------------------------------
(* Binding.                                                                  *)

\* The parameter type P of the converter a field is bound to: a uint64_t, a
\* uint32_t, or the bytes of a length-delimited field.
BoundTo(item) ==
  CASE item.shape = "map" \/ item.cpp = "string" \/ IsMessage(item.cpp)   -> "bin"
    [] item.shape = "vector" /\ item.high # 0
         /\ item.cpp \in {"bool"} \cup Ints32 \cup Ints64                  -> "bin"
    [] item.shape = "single" /\ item.cpp = "float"                        -> "u32"
    [] OTHER                                                              -> "u64"

ZeroScalar(cpp) == IF cpp = "string" THEN <<>> ELSE 0

\* An object has a member for each number of its struct, of the first item with
\* it: a second member with the number is emptied, if it is a vector or a map,
\* and never decoded into.
Nums(items) == {items[i].num : i \in DOMAIN items}
ItemOf(items, num) == items[Min({i \in DOMAIN items : items[i].num = num})]

\* What the first run of serialize() binds: bind() returns false for a number that
\* is there, and operator& then binds nothing more.
BoundItems ==
  [struct \in DOMAIN Schema |->
    LET items == Schema[struct]
        Distinct(n) == \A i, j \in 1 .. n : items[i].num = items[j].num => i = j
    IN  {items[n] : n \in {n \in DOMAIN items : Distinct(n)}}]

\* T(): a struct of the program zero-initialises its members.
ZeroMessage[struct \in DOMAIN Schema] ==
  LET items == Schema[struct]
      Zero(item) == IF item.shape # "single" THEN <<>>
                    ELSE IF IsMessage(item.cpp) THEN ZeroMessage[item.cpp]
                    ELSE ZeroScalar(item.cpp)
  IN  [val |-> [n \in Nums(items) |-> Zero(ItemOf(items, n))],
       has |-> [n \in Nums(items) |-> FALSE]]

ZeroValue(cpp) == IF IsMessage(cpp) THEN ZeroMessage[cpp] ELSE ZeroScalar(cpp)

\* Mutant of Cleared: nothing is emptied.
ClearedNot(struct, obj) == obj

\* operator& empties the vectors and the maps of a target and leaves the rest.
Cleared(struct, obj) ==
  [obj EXCEPT !.val = [n \in DOMAIN obj.val |->
     IF ItemOf(Schema[struct], n).shape = "single" THEN obj.val[n] ELSE <<>>]]

\* A parser of bytes cur + 1 .. end of the buffer.  item is the field of the
\* enclosing parser that it was called for.
Frame(kind, item, struct, obj, cur, end) ==
  [kind |-> kind, item |-> item, struct |-> struct, obj |-> obj, cur |-> cur, end |-> end]

NoItem == [num |-> 0]

EntryItem(num, cpp, type) ==
  [num |-> num, shape |-> "single", cpp |-> cpp, low |-> type, high |-> 0,
   has |-> FALSE, key |-> "none"]

TypePair(item) == <<item.key, item.cpp>>

Depth == Len(frames)
Top == frames[Depth]

\* convertValue tests the whole of the field's type, where PACKED is no coding.
StoresNothing(item) ==
  /\ item.shape = "single" /\ item.high # 0
  /\ item.cpp # "string" /\ ~IsMessage(item.cpp)

\* The converters the innermost parser finds its fields in.
Bound == IF Top.kind = "entry" THEN statics[TypePair(Top.item)].items
         ELSE BoundItems[Top.struct]

-----------------------------------------------------------------------------
Init ==
  /\ phase = "idle" /\ fault = "none"
  /\ buffer = <<>> /\ target = CHOOSE t \in Targets : TRUE
  /\ frames = <<>> /\ statics = <<>> /\ last = <<>> /\ calls = 0

\* operator>>: serialize() runs twice, to bind and to clear.
BeginWith(bytes, t) ==
  /\ phase = "idle" /\ calls < MaxCalls
  /\ buffer' = bytes /\ target' = t
  /\ frames' = <<Frame("root", NoItem, t.struct, Cleared(t.struct, t.value), 0, Len(bytes))>>
  /\ phase' = "parsing" /\ calls' = calls + 1
  /\ UNCHANGED <<fault, statics, last>>

\* Into a fresh object or into the one decoded before.
Begin ==
  phase = "idle" /\ \E i \in Inputs, t \in Targets \cup {target} :
    t.struct = i.struct /\ BeginWith(i.bytes, t)

-----------------------------------------------------------------------------
(* Reading.  ReadVarInt runs as one step: VarintLoop has its iterations.     *)

\* A varint of the innermost parser that starts after pos.
Complete(pos) == VarintStops(buffer, pos, Top.end) # {}
After(pos) == Min(VarintStops(buffer, pos, Top.end))

\* The numbers it may read: beyond MaxVarintBytes its shift is undefined.
Numbers(pos) ==
  IF ~Complete(pos) THEN {}
  ELSE IF After(pos) - pos > MaxVarintBytes THEN Unspecified
  ELSE {VarintValue(SubSeq(buffer, pos + 1, After(pos)))}

\* Mutant of HasBytes: the last byte is not taken.
HasBytesShort(pos, width) == Top.end - pos > width

HasBytes(pos, width) == Top.end - pos >= width
Fixed32or64(pos, width) == LittleEndian(SubSeq(buffer, pos + 1, pos + width))

\* while (remaining > 0)
Reading == phase = "parsing" /\ Top.cur < Top.end

\* The tags that may stand before pos.
Tags == Numbers(Top.cur)
FieldNumber(tag) == (tag \div 8) % Mod32
WireType(tag) == tag % 8

-----------------------------------------------------------------------------
(* Converting: Message::call and the converters.                             *)

Undefined(why) ==
  /\ phase' = "undefined" /\ fault' = why
  /\ UNCHANGED <<buffer, target, frames, statics, last, calls>>

\* The innermost parser goes on behind pos with this object.
Resume(pos, obj) ==
  /\ frames' = [frames EXCEPT ![Depth] =
                   Frame(Top.kind, Top.item, Top.struct, obj, pos, Top.end)]
  /\ UNCHANGED <<phase, fault, buffer, target, statics, last, calls>>

Stored(obj, item, v) ==
  IF StoresNothing(item) THEN obj ELSE
  [obj EXCEPT !.val[item.num] = IF item.shape = "vector" THEN Append(@, v) ELSE v,
              !.has[item.num] = @ \/ item.has]

\* A float or a double is its bits, a number below Mod64.  This is the one that
\* is equal to the number n instead, of whatever bits that is.
FloatOf(n) == Mod64 + n

\* convertVarint takes the bits of a float from a uint32_t and of a double from a
\* uint64_t.  The converters of a vector of floats, and those of the other field
\* types, convert the number.
TakesBits(item) ==
  item.low = TYPE_VARINT
    /\ (item.cpp = "double" \/ (item.cpp = "float" /\ item.shape = "single"))

\* convertValue and convertArray of a number.
Converted(item, u) ==
  LET wide   == IF item.low = TYPE_SVARINT THEN UnZigZag(u) ELSE u
      number == IF BoundTo(item) = "u32" THEN wide % Mod32 ELSE wide
  IN  IF item.cpp \in {"float", "double"} /\ ~TakesBits(item)
        THEN FloatOf(number) ELSE Narrow(item.cpp, number)

\* What a converter reads where the parser put a number of so many bytes: the
\* call passes the address alone, and neither side knows the other's type.
Received(item, u, width) ==
  CASE BoundTo(item) = "u32" -> {u % Mod32}
    [] BoundTo(item) = "u64" /\ width = Bytes32 ->
         {u + Mod32 * (g \div Mod32) : g \in Unspecified}
    [] OTHER -> {u}

\* convertMap points its static bindings to the locals of one call.  A parser
\* whose locals they no longer point to writes into a call that has returned.
OwnsTargets == Top.kind = "entry" => statics[TypePair(Top.item)].owner = Depth

Converter(num) == {item \in Bound : item.num = num}

\* No converter is bound to the number: call() does nothing.
CallNothing(num, pos) == Converter(num) = {} /\ Resume(pos, Top.obj)

CallNumber(num, u, width, pos) ==
  \E item \in Converter(num) :
    \/ ~OwnsTargets /\ Undefined("stale target")
    \/ OwnsTargets /\ BoundTo(item) = "bin" /\ Undefined("mismatch")
    \/ /\ OwnsTargets /\ BoundTo(item) # "bin"
       /\ \E r \in Received(item, u, width) :
            Resume(pos, Stored(Top.obj, item, Converted(item, r)))

\* convertArray of a packed field: the numbers up to one that is cut short,
\* whatever the coding of the field, and any number for one that is too long.
PackedStored(obj, item, pos, end) ==
  LET ends == SetToSortSeq({p \in (pos + 1) .. end : buffer[p] < 128}, <)
      Start(i) == IF i = 1 THEN pos ELSE ends[i - 1]
      TooLong == {i \in DOMAIN ends : ends[i] - Start(i) > MaxVarintBytes}
      Number(i, any) == IF i \in TooLong THEN any[i] ELSE VarintValue(SubSeq(buffer, Start(i) + 1, ends[i]))
      whole == pos = end \/ buffer[end] < 128
  IN  {[obj EXCEPT !.val[item.num] = @ \o [i \in 1 .. Len(ends) |-> Narrow(item.cpp, Number(i, any))],
                   !.has[item.num] = @ \/ (item.has /\ whole)] : any \in [TooLong -> Unspecified]}

\* Mutant of Enter: the parser does not go behind the bytes it hands on.
EnterStays(kind, item, struct, obj, pos, end) ==
  /\ frames' = Append(frames, Frame(kind, item, struct, obj, pos, end))
  /\ UNCHANGED <<phase, fault, buffer, target, last, calls>>

\* A converter that runs a parser of its own on bytes pos + 1 .. end.
Enter(kind, item, struct, obj, pos, end) ==
  /\ frames' = Append([frames EXCEPT ![Depth].cur = end],
                      Frame(kind, item, struct, obj, pos, end))
  /\ UNCHANGED <<phase, fault, buffer, target, last, calls>>

\* Mutant of EnterMessage: convertCustom decodes into a new object, too.
EnterMessageNew(item, pos, end) ==
  /\ Enter(IF item.shape = "single" THEN "message" ELSE "element",
           item, item.cpp, ZeroMessage[item.cpp], pos, end)
  /\ UNCHANGED statics

\* convertCustom decodes in place, convertCustomArray into a new element.
EnterMessage(item, pos, end) ==
  /\ IF item.shape = "single"
       THEN Enter("message", item, item.cpp, Cleared(item.cpp, Top.obj.val[item.num]), pos, end)
       ELSE Enter("element", item, item.cpp, ZeroMessage[item.cpp], pos, end)
  /\ UNCHANGED statics

\* Mutant of EntryItems: the halves of the type are swapped.
EntryItemsSwapped(item) ==
  IF TypePair(item) \in DOMAIN statics THEN statics[TypePair(item)].items
  ELSE {EntryItem(1, item.key, item.low), EntryItem(2, item.cpp, item.high)}

\* convertMap: the first entry of the types binds, a later one moves the addresses.
EntryItems(item) ==
  IF TypePair(item) \in DOMAIN statics THEN statics[TypePair(item)].items
  ELSE {EntryItem(1, item.key, item.high), EntryItem(2, item.cpp, item.low)}

\* The bindings of the types point to the locals of the parser that starts.
Rebound(item) ==
  [pair \in DOMAIN statics \cup {TypePair(item)} |->
     IF pair = TypePair(item) THEN [items |-> EntryItems(item), owner |-> Depth + 1]
     ELSE statics[pair]]

\* Mutant of EnterEntry: the addresses of the first entry of the types stay.
EnterEntryBoundOnce(item, pos, end) ==
  /\ Enter("entry", item, "none",
           [val |-> <<ZeroValue(item.key), ZeroValue(item.cpp)>>, has |-> <<FALSE, FALSE>>],
           pos, end)
  /\ statics' = IF TypePair(item) \in DOMAIN statics THEN statics ELSE Rebound(item)

EnterEntry(item, pos, end) ==
  /\ Enter("entry", item, "none",
           [val |-> <<ZeroValue(item.key), ZeroValue(item.cpp)>>, has |-> <<FALSE, FALSE>>],
           pos, end)
  /\ statics' = Rebound(item)

\* What the converter makes of the bytes it is handed.
Handed(item, pos, end) ==
  IF item.shape = "map" THEN EnterEntry(item, pos, end)
  ELSE IF IsMessage(item.cpp) THEN EnterMessage(item, pos, end)
  ELSE IF item.cpp = "string" THEN Resume(end, Stored(Top.obj, item, SubSeq(buffer, pos + 1, end)))
  ELSE \E obj \in PackedStored(Top.obj, item, pos, end) : Resume(end, obj)

\* A converter bound to a number takes the address of the bytes for one.
CallBytes(num, pos, end) ==
  \E item \in Converter(num) :
    \/ ~OwnsTargets /\ Undefined("stale target")
    \/ /\ OwnsTargets /\ BoundTo(item) # "bin"
       /\ \E g \in Unspecified : \E r \in Received(item, g, Bytes64) :
            Resume(end, Stored(Top.obj, item, Converted(item, r)))
    \/ /\ OwnsTargets /\ BoundTo(item) = "bin"
       /\ Handed(item, pos, end)

-----------------------------------------------------------------------------
(* A parser returns to the converter that called it.                         *)

\* std::map::insert keeps the entry that is there.
Inserted(map, k, v) ==
  [x \in DOMAIN map \cup {k} |-> IF x \in DOMAIN map THEN map[x] ELSE v]

\* What the converter leaves in the object of the enclosing parser: a nested
\* message is decoded in place and stays there even if the parser failed.
Returned(obj, f, ok) ==
  LET num  == f.item.num
      done == [obj EXCEPT !.has[num] = @ \/ (f.item.has /\ ok)]
  IN  CASE f.kind = "message"        -> [done EXCEPT !.val[num] = f.obj]
        [] f.kind = "element" /\ ok  -> [done EXCEPT !.val[num] = Append(@, f.obj)]
        [] f.kind = "entry" /\ ok    ->
             [done EXCEPT !.val[num] = Inserted(@, f.obj.val[1], f.obj.val[2])]
        [] OTHER -> done

\* Mutant of ReturnToCaller: the parser is not left.
ReturnToCallerKeeps(ok) ==
  /\ Depth = 1
  /\ target' = [target EXCEPT !.value = Top.obj]
  /\ phase' = "idle"
  /\ UNCHANGED <<fault, buffer, frames, statics, last, calls>>

\* operator>> returns what the outermost parser did.
ReturnToCaller(ok) ==
  /\ Depth = 1
  /\ target' = [target EXCEPT !.value = Top.obj]
  /\ last' = Append(last, [struct |-> target.struct, bytes |-> buffer,
                           before |-> target.value, ok |-> ok, after |-> Top.obj])
  /\ phase' = "idle" /\ frames' = <<>>
  /\ UNCHANGED <<fault, buffer, statics, calls>>

\* Message::call drops what the converter returned.
ReturnToParser(ok) ==
  /\ Depth > 1
  /\ frames' = [SubSeq(frames, 1, Depth - 1) EXCEPT ![Depth - 1].obj = Returned(@, Top, ok)]
  /\ UNCHANGED <<phase, fault, buffer, target, statics, last, calls>>

-----------------------------------------------------------------------------
(* ParseFromBytes: one field per step.                                       *)

VarintField ==
  /\ Reading
  /\ \E tag \in Tags :
       LET pos == After(Top.cur)
       IN  /\ WireType(tag) = WT_VARINT
           /\ \E u \in Numbers(pos) :
                \/ CallNothing(FieldNumber(tag), After(pos))
                \/ CallNumber(FieldNumber(tag), u, Bytes64, After(pos))

FixedField(wireType, width) ==
  /\ Reading
  /\ \E tag \in Tags :
       LET pos == After(Top.cur)
       IN  /\ WireType(tag) = wireType /\ HasBytes(pos, width)
           /\ \/ CallNothing(FieldNumber(tag), pos + width)
              \/ CallNumber(FieldNumber(tag), Fixed32or64(pos, width), width, pos + width)

Fixed64Field == FixedField(WT_64BIT, Bytes64)
Fixed32Field == FixedField(WT_32BIT, Bytes32)

\* current += size; remaining -= size: nothing compares the length with what
\* is left, so that a longer one leaves the buffer and never ends the loop.
DelimitedField ==
  /\ Reading
  /\ \E tag \in Tags :
       LET pos == After(Top.cur)
       IN  /\ WireType(tag) = WT_LENGTH_DELIMITED
           /\ \E size \in Numbers(pos) :
                LET data == After(pos)
                IN  IF HasBytes(data, size)
                      THEN \/ CallNothing(FieldNumber(tag), data + size)
                           \/ CallBytes(FieldNumber(tag), data, data + size)
                      ELSE Undefined("overrun")

\* The bytes after the tag are no field: cut short, a group, or unknown.
Unreadable(tag, pos) ==
  CASE WireType(tag) \in {WT_VARINT, WT_LENGTH_DELIMITED} -> ~Complete(pos)
    [] WireType(tag) = WT_64BIT -> ~HasBytes(pos, Bytes64)
    [] WireType(tag) = WT_32BIT -> ~HasBytes(pos, Bytes32)
    [] OTHER -> TRUE

\* Mutant of Reject: a tag that is cut short is waited for.
RejectPayload ==
  /\ Reading
  /\ \E tag \in Tags : Unreadable(tag, After(Top.cur))
  /\ ReturnToCaller(FALSE) \/ ReturnToParser(FALSE)

\* ParseFromBytes returns false.
Reject ==
  /\ Reading
  /\ ~Complete(Top.cur) \/ \E tag \in Tags : Unreadable(tag, After(Top.cur))
  /\ ReturnToCaller(FALSE) \/ ReturnToParser(FALSE)

ParseEnd ==
  /\ phase = "parsing" /\ Top.cur = Top.end
  /\ ReturnToCaller(TRUE) \/ ReturnToParser(TRUE)

Parse ==
  \/ VarintField \/ Fixed64Field \/ Fixed32Field \/ DelimitedField
  \/ Reject \/ ParseEnd

Next == Begin \/ Parse

Spec == Init /\ [][Next]_vars

\* operator>> runs to its end: the steps of a call that began are not put off.
FairSpec == Spec /\ WF_vars(Parse)

-----------------------------------------------------------------------------
\* The variables hold values of their kinds.
TypeOK ==
  /\ phase \in {"idle", "parsing", "undefined"}
  /\ fault \in {"none", "overrun", "mismatch", "stale target"}
  /\ (phase = "undefined") = (fault # "none")
  /\ (phase = "idle") = (frames = <<>>)
  /\ buffer \in Seq(Byte) /\ target.struct \in DOMAIN Schema
  /\ \A i \in DOMAIN frames : frames[i].kind \in {"root", "message", "element", "entry"}
  /\ \A pair \in DOMAIN statics : statics[pair].owner \in Nat \ {0}
  /\ calls \in 0 .. MaxCalls /\ Len(last) <= calls

\* Each parser stays in the bytes it was given, which are the bytes its caller
\* has put behind itself: no field is read by two parsers, and the caller goes
\* on where the nested parser has to stop.
WindowsNested ==
  \A i \in DOMAIN frames :
    /\ 0 <= frames[i].cur /\ frames[i].cur <= frames[i].end
    /\ frames[i].end <= Len(buffer)
    /\ i > 1 => frames[i].end = frames[i - 1].cur

\* Each step of a call leaves a byte behind that none reads again, or the parser it
\* is in: the call comes back after one step for each byte and one more.
ReadsForward ==
  [][phase = "parsing" /\ phase' = "parsing" => Top'.cur - Depth' > Top.cur - Depth]_vars

\* The structs that objects of these structs hold: in a field, a vector or a map.
HeldBy(structs) ==
  {t \in DOMAIN Schema : \E s \in structs : \E i \in DOMAIN Schema[s] :
     t \in {Schema[s][i].cpp, Schema[s][i].key}}

\* Objects of the one hold, at some depth, objects of the other: that is in every
\* set that has what the one holds and what its members hold.
Holds(struct, other) ==
  \A structs \in SUBSET DOMAIN Schema :
    HeldBy({struct}) \cup HeldBy(structs) \subseteq structs => other \in structs

\* The static bindings of convertMap are shared by all maps of the types, at any
\* depth.  A parser finds them pointing away from its locals only in an entry whose
\* value, or whose key, can hold another of them.
StaleOnlyIfRecursive ==
  fault = "stale target" =>
    Top.kind = "entry" /\ \E struct \in {Top.item.key, Top.item.cpp} :
                            struct \in DOMAIN Schema /\ Holds(struct, struct)

\* A call of operator>> that began comes back, on every input.
Returns == phase = "parsing" ~> phase \in {"idle", "undefined"}
=============================================================================

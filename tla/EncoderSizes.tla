----------------------------- MODULE EncoderSizes -----------------------------
(* How many bytes the converters of the encoder write, counted beforehand:   *)
(* what a getByteSize has to return for the encoder to keep its promises.    *)
EXTENDS Encoder, WireFormat

\* The sums of the first numbers of a sequence.
Sums(numbers) ==
  LET sums[i \in 0 .. Len(numbers)] == IF i = 0 THEN 0 ELSE sums[i - 1] + numbers[i]
  IN  sums

Total(numbers) == Sums(numbers)[Len(numbers)]

\* Of a field of one value, or of the entry of a map; a nested message is as long
\* as its getByteSize says.
CallSize(t) ==
  IF t.op = "entry" THEN Len(Tag(t.item.num, WT_LENGTH_DELIMITED)) + Delimited(EntrySize(t))
  ELSE IF IsMessage(t.cpp) THEN Len(t.tag) + Delimited(GetByteSize(t.cpp, t.v))
  ELSE IF t.has /\ IsZero(t.cpp, t.v) THEN 0
  ELSE Len(t.tag) + Len(ScalarBytes(t.cpp, t.type, t.v))

CallSizes(tasks) == Total([i \in 1 .. Len(tasks) |-> CallSize(tasks[i])])

\* Of any field.
TaskSize(t) ==
  CASE t.op = "vector" ->
         IF t.item.low = TYPE_VARINT THEN CallSizes(ArrayTasks(t.item, t.v))
         ELSE Len(PackBytes(t.item, t.v)) + CallSizes(PackTasks(t.item, t.v))
    [] t.op = "map" -> CallSizes(EntryTasks(t.item, t.v))
    [] OTHER        -> CallSize(t)

Sizes(tasks) == [i \in 1 .. Len(tasks) |-> TaskSize(tasks[i])]

-----------------------------------------------------------------------------
\* The objects of a C++ program: a getByteSize answers a number.
Typed(Objects) ==
  WellTyped(Schema, Objects) /\ \A m \in Objects : GetByteSize(m.struct, m.value) \in Nat

-----------------------------------------------------------------------------
(* getByteSize counts the fields as they are written.                        *)

\* ByteSize of a key or a value of a map is what its converter writes: ByteSize
\* counts an unsigned number of 32 bits as it is, which the converter writes with
\* the sign extended, and it zigzags 64 bits, where the converter zigzags 32.
EntryFits(cpp, type, v) ==
  /\ ~Misread(cpp, type)
  /\ (cpp = "uint32" /\ type = TYPE_VARINT) \/ type = TYPE_SVARINT => 2 * v < Mod32

CountsAsWritten(Objects) ==
  \A m \in Objects :
    /\ \A item \in Range(Schema[m.struct]) : item.shape = "map" =>
         LET map == m.value.val[item.num]
         IN  \A k \in DOMAIN map : /\ EntryFits(item.key, item.high, k)
                                   /\ EntryFits(item.cpp, item.low, map[k])
    /\ GetByteSize(m.struct, m.value) = Total(Sizes(FieldTasks(m.struct, m.value)))

\* No more than a uint32_t can count: reserve() takes one.
FitsReserve(Objects) == \A m \in Objects : GetByteSize(m.struct, m.value) < Mod32
=============================================================================

---------------------------- MODULE EncoderProofs ----------------------------
EXTENDS EncoderSizes, WireProofs

-----------------------------------------------------------------------------
(* Sums, and sequences in sequence.                                          *)

LEMMA SumsAre ==
  ASSUME NEW numbers \in Seq(Nat)
  PROVE  /\ Sums(numbers) \in [0 .. Len(numbers) -> Nat] /\ Len(numbers) \in Nat
         /\ Sums(numbers)[0] = 0
         /\ \A i \in 1 .. Len(numbers) : Sums(numbers)[i] = Sums(numbers)[i - 1] + numbers[i]
<1> DEFINE n == Len(numbers)
           D == 0 .. n
           Body(f) == [i \in D |-> IF i = 0 THEN 0 ELSE f[i - 1] + numbers[i]]
           rank == [i \in D |-> i]
           pred == [i \in D |-> i - 1]
           start == [i \in D |-> 0]
           step == [i \in D |-> [k \in Nat |-> IF i = 0 THEN 0 ELSE k + numbers[i]]]
<1>1. n \in Nat /\ \A i \in 1 .. n : numbers[i] \in Nat
  BY ElementOfSeq, LenProperties
<1> HIDE DEF n
<1>2. Descends(D, Nat, rank, {0}, pred, start, step)
  <2>1. step \in [D -> [Nat -> Nat]]
    BY <1>1
  <2>2. \A i \in D : i \notin {0} => pred[i] \in D /\ rank[pred[i]] < rank[i]
    BY <1>1
  <2>3. rank \in [D -> Nat] /\ start \in [D -> Nat] /\ {0} \in SUBSET D
    BY <1>1
  <2> HIDE DEF D, rank, pred, start, step
  <2> QED BY <2>1, <2>2, <2>3 DEF Descends
<1>3. PICK f \in [D -> Nat] : Solves(f, D, {0}, pred, start, step)
  <2> HIDE DEF D, rank, pred, start, step
  <2> QED BY <1>2, LinearRecursion
<1>4. \A i \in D : f[i] = IF i = 0 THEN 0 ELSE f[i - 1] + numbers[i]
  <2> TAKE i \in D
  <2>1. f[i] = IF i \in {0} THEN start[i] ELSE step[i][f[pred[i]]]
    BY <1>3 DEF Solves
  <2>2. CASE i # 0
    <3>1. i - 1 \in D /\ f[i - 1] \in Nat
      BY <1>1, <1>3, <2>2
    <3> QED BY <2>1, <2>2, <3>1
  <2>3. CASE i = 0
    BY <2>1, <2>3
  <2> QED BY <2>2, <2>3
<1>5. f = Body(f)
  BY <1>3, <1>4
<1> DEFINE g == Sums(numbers)
<1>6. g = Body(g)
  BY <1>5 DEF Sums, n
<1> HIDE DEF g
<1>7. g[0] = 0 /\ \A i \in 1 .. n : g[i] = g[i - 1] + numbers[i]
  BY <1>1, <1>6
<1> DEFINE Good == {i \in D : g[i] \in Nat}
<1>8. Good = D
  <2>1. \A i \in D : (\A j \in D : rank[j] < rank[i] => j \in Good) => i \in Good
    <3> SUFFICES ASSUME NEW i \in D, \A j \in D : rank[j] < rank[i] => j \in Good
                 PROVE  g[i] \in Nat
      OBVIOUS
    <3>1. CASE i = 0
      BY <1>7, <3>1
    <3>2. CASE i # 0
      <4>1. i \in 1 .. n /\ i - 1 \in D /\ rank[i - 1] < rank[i]
        BY <1>1, <3>2
      <4>2. g[i - 1] \in Nat /\ numbers[i] \in Nat
        BY <1>1, <4>1
      <4>3. g[i] = g[i - 1] + numbers[i]
        BY <1>7, <4>1
      <4> QED BY <4>2, <4>3
    <3> QED BY <3>1, <3>2
  <2>2. rank \in [D -> Nat] /\ Good \in SUBSET D
    BY <1>1
  <2>3. Inherits(D, rank, Good)
    BY <2>1, <2>2 DEF Inherits
  <2> HIDE DEF Good, rank, D
  <2> QED BY <2>3, RankInduction
<1>9. g \in [D -> Nat]
  BY <1>6, <1>8
<1> QED BY <1>1, <1>7, <1>9 DEF g, n

LEMMA TotalIs ==
  ASSUME NEW numbers \in Seq(Nat)
  PROVE  Total(numbers) \in Nat
<1>1. Len(numbers) \in 0 .. Len(numbers)
  BY SumsAre
<1> QED BY <1>1, SumsAre DEF Total

-----------------------------------------------------------------------------
(* Conversions.                                                              *)

LEMMA IntBytesAre ==
  ASSUME NEW cpp \in Ints32 \cup Ints64, NEW type, NEW v \in Nat
  PROVE  IntBytes(cpp, type, v) \in Seq(Byte)
<1>1. IntModulus(cpp) \in Nat \ {0}
  BY WidthsAre DEF IntModulus
<1>2. ZigZag(v, IntModulus(cpp)) \in Nat
  BY <1>1 DEF ZigZag
<1>3. SignExtend(v) \in Nat
  BY WidthsAre DEF SignExtend
<1>4. \A n \in Nat : VarintBytes[n] \in Seq(Byte)
  BY VarintBytesAre
<1>5. Fixed(v, Bytes32) \in Seq(Byte) /\ Fixed(v, Bytes64) \in Seq(Byte)
  BY FixedIs, WidthsAre
<1> QED BY <1>2, <1>3, <1>4, <1>5 DEF IntBytes

LEMMA ScalarBytesAre ==
  ASSUME NEW Objects, NEW cpp, NEW type, NEW v, HasType(Objects, cpp, v), ~IsMessage(cpp)
  PROVE  ScalarBytes(cpp, type, v) \in Seq(Byte)
<1>1. CASE cpp = "string"
  <2>1. v \in Seq(Byte) /\ Len(v) \in Nat
    BY <1>1, ValuesAre, LenProperties
  <2>2. VarintBytes[Len(v)] \in Seq(Byte)
    BY <2>1, VarintBytesAre
  <2>3. VarintBytes[Len(v)] \o v \in Seq(Byte)
    BY <2>1, <2>2, ConcatProperties
  <2> QED BY <1>1, <2>3 DEF ScalarBytes
<1>2. CASE cpp = "bool"
  <2>1. v \in {0, 1}
    BY <1>2, ValuesAre
  <2>2. v \in Byte
    BY <2>1 DEF Byte
  <2> QED BY <1>2, <2>2 DEF ScalarBytes
<1>3. CASE cpp \in {"float", "double"}
  <2>1. v \in Nat
    BY <1>3, ValuesAre
  <2>2. Fixed(v, Bytes32) \in Seq(Byte) /\ Fixed(v, Bytes64) \in Seq(Byte)
    BY <2>1, FixedIs, WidthsAre
  <2> QED BY <1>3, <2>2 DEF ScalarBytes
<1>4. CASE cpp \in Ints32 \cup Ints64
  <2>1. v \in Nat
    BY <1>4, ValuesAre
  <2>2. IntBytes(cpp, type, v) \in Seq(Byte)
    BY <1>4, <2>1, IntBytesAre
  <2>3. cpp \notin {"string", "bool", "float", "double"}
    BY <1>4, TypesDiffer
  <2> QED BY <2>2, <2>3 DEF ScalarBytes
<1> QED BY <1>1, <1>2, <1>3, <1>4, TypesDiffer

LEMMA WireTypesAre ==
  /\ \A cpp : WriteType(cpp) \in Nat
  /\ \A cpp, type : TagType(cpp, type) \in Nat
  /\ WT_LENGTH_DELIMITED \in Nat
BY DEF WriteType, TagType, WT_VARINT, WT_64BIT, WT_32BIT, WT_LENGTH_DELIMITED
-----------------------------------------------------------------------------
(* Tasks.                                                                    *)

IsItem(item) == \E struct \in DOMAIN Schema : item \in Range(Schema[struct])

EntriesFit(item, map) ==
  \A k \in DOMAIN map : EntryFits(item.key, item.high, k) /\ EntryFits(item.cpp, item.low, map[k])

\* A task for the objects; one to be counted on has no number that ByteSize miscounts.
IsTask(Objects, counted, t) ==
  \/ /\ t.op = "value" /\ t.tag \in Seq(Byte) /\ HasType(Objects, t.cpp, t.v)
  \/ /\ t.op \in {"vector", "map"} /\ t.op = t.item.shape /\ IsItem(t.item)
     /\ FieldHasType(Objects, t.item, t.v)
     /\ t.op = "map" /\ counted => EntriesFit(t.item, t.v)
  \/ /\ t.op = "entry" /\ IsItem(t.item) /\ t.item.shape = "map"
     /\ HasType(Objects, t.item.key, t.k) /\ HasType(Objects, t.item.cpp, t.v)
     /\ counted => EntryFits(t.item.key, t.item.high, t.k) /\ EntryFits(t.item.cpp, t.item.low, t.v)

AllTasks(Objects, counted, tasks) ==
  IsSeq(tasks) /\ \A i \in 1 .. Len(tasks) : IsTask(Objects, counted, tasks[i])

LEMMA ItemsAre ==
  ASSUME NEW item, IsItem(item)
  PROVE  /\ item.num \in Nat /\ item.shape \in {"single", "vector", "map"}
         /\ item.low \in 0 .. 3 /\ item.high \in 0 .. 3
         /\ item.shape = "map" => item.cpp \notin {"float", "double"} /\ item.key \notin {"float", "double"}
BY SchemaAssumption DEF IsItem, TYPE_VARINT, TYPE_FIXED64

LEMMA TasksFrom ==
  ASSUME NEW Objects, NEW counted, NEW S, NEW tasks \in Seq(S),
         \A t \in S : IsTask(Objects, counted, t)
  PROVE  AllTasks(Objects, counted, tasks)
<1>1. IsSeq(tasks)
  BY SeqOfItself
<1>2. \A i \in 1 .. Len(tasks) : tasks[i] \in S
  BY ElementOfSeq
<1> QED BY <1>1, <1>2 DEF AllTasks

LEMMA NoTasks ==
  ASSUME NEW Objects, NEW counted
  PROVE  AllTasks(Objects, counted, <<>>) /\ Sizes(<<>>) = <<>> /\ Total(<<>>) = 0
<1>1. <<>> \in Seq({}) /\ <<>> \in Seq(Nat) /\ Len(<<>>) = 0
  BY EmptySeq
<1>2. AllTasks(Objects, counted, <<>>)
  <2>1. IsSeq(<<>>)
    BY <1>1, SeqOfItself
  <2> QED BY <1>1, <2>1 DEF AllTasks
<1>3. Sizes(<<>>) = <<>>
  BY <1>1 DEF Sizes
<1>4. Total(<<>>) = 0
  BY <1>1, SumsAre DEF Total
<1> QED BY <1>2, <1>3, <1>4

LEMMA FieldTaskIs ==
  ASSUME NEW Objects, NEW counted, NEW item, IsItem(item), NEW v, FieldHasType(Objects, item, v),
         item.shape = "map" /\ counted => EntriesFit(item, v)
  PROVE  IsTask(Objects, counted, FieldTask(item, v))
<1> DEFINE t == FieldTask(item, v)
<1> SUFFICES IsTask(Objects, counted, t)
  OBVIOUS
<1>1. CASE item.shape = "single"
  <2>1. t.op = "value" /\ t.tag = Tag(item.num, TagType(item.cpp, item.low)) /\ t.cpp = item.cpp /\ t.v = v
    BY <1>1 DEF FieldTask, Value
  <2>2. t.tag \in Seq(Byte)
    BY <2>1, TagIs, WireTypesAre, ItemsAre
  <2>3. HasType(Objects, item.cpp, v)
    BY <1>1 DEF FieldHasType
  <2> HIDE DEF t
  <2> QED BY <2>1, <2>2, <2>3 DEF IsTask
<1>2. CASE item.shape # "single"
  <2>1. t.op = item.shape /\ t.item = item /\ t.v = v
    BY <1>2 DEF FieldTask
  <2>2. t.op \in {"vector", "map"}
    BY <1>2, <2>1, ItemsAre
  <2> HIDE DEF t
  <2> QED BY <2>1, <2>2 DEF IsTask
<1> QED BY <1>1, <1>2

\* The fields of an object.
LEMMA FieldTasksAre ==
  ASSUME NEW Objects, Typed(Objects), NEW counted, counted => CountsAsWritten(Objects),
         NEW m \in Objects
  PROVE  /\ AllTasks(Objects, counted, FieldTasks(m.struct, m.value))
         /\ GetByteSize(m.struct, m.value) \in Nat
         /\ counted => GetByteSize(m.struct, m.value) = Total(Sizes(FieldTasks(m.struct, m.value)))
<1> DEFINE struct == m.struct
           v == m.value
           items == Schema[struct]
           Task(item) == FieldTask(item, v.val[item.num])
           S == {Task(item) : item \in Range(items)}
           parts == [i \in 1 .. Len(items) |-> IF Registered(items[i]) THEN <<Task(items[i])>> ELSE <<>>]
<1>1. m \in Objects /\ m.struct = struct /\ m.value = v
  OBVIOUS
<1>2. /\ struct \in DOMAIN Schema /\ GetByteSize(struct, v) \in Nat
      /\ \A item \in Range(items) : FieldHasType(Objects, item, v.val[item.num])
  BY <1>1 DEF Typed, WellTyped
<1>3. counted =>
        /\ \A item \in Range(items) : item.shape = "map" => EntriesFit(item, v.val[item.num])
        /\ GetByteSize(struct, v) = Total(Sizes(FieldTasks(struct, v)))
  BY <1>1 DEF CountsAsWritten, EntriesFit
<1>4. items \in Seq(Range(items)) /\ \A item \in Range(items) : IsItem(item)
  BY <1>2, SchemaAssumption DEF IsItem
<1>5. \A item \in Range(items) : IsTask(Objects, counted, Task(item))
  BY <1>2, <1>3, <1>4, FieldTaskIs
<1>6. \A i \in 1 .. Len(items) : items[i] \in Range(items)
  BY <1>4, ElementOfSeq
<1> HIDE DEF items
<1>7. Len(items) \in Nat
  BY <1>4, LenProperties
<1>8. parts \in Seq(Seq(S))
  <2>1. \A t \in S : <<t>> \in Seq(S)
    OBVIOUS
  <2>2. <<>> \in Seq(S)
    BY EmptySeq
  <2>3. \A i \in 1 .. Len(items) : Task(items[i]) \in S
    BY <1>6
  <2> HIDE DEF S, Task
  <2>4. parts \in [1 .. Len(items) -> Seq(S)]
    BY <2>1, <2>2, <2>3
  <2> HIDE DEF parts
  <2> QED BY <1>7, <2>4, IsASeq
<1>9. FieldTasks(struct, v) = FlattenSeq(parts)
  BY DEF FieldTasks, items
<1>10. \A t \in S : IsTask(Objects, counted, t)
  BY <1>5
<1> HIDE DEF S, parts
<1>11. FlattenSeq(parts) \in Seq(S)
  BY <1>8, FlattenIs
<1>12. AllTasks(Objects, counted, FlattenSeq(parts))
  BY <1>10, <1>11, TasksFrom
<1> QED BY <1>2, <1>3, <1>9, <1>12

\* The elements of a vector.
LEMMA ElementTasksAre ==
  ASSUME NEW Objects, NEW counted, NEW tag \in Seq(Byte), NEW item, NEW v,
         item.shape = "vector", FieldHasType(Objects, item, v)
  PROVE  /\ AllTasks(Objects, counted, ElementTasks(tag, item, v))
         /\ \A i \in 1 .. Len(ElementTasks(tag, item, v)) : ElementTasks(tag, item, v)[i].op = "value"
<1> DEFINE tasks == ElementTasks(tag, item, v)
           S == {tasks[i] : i \in 1 .. Len(v)}
<1>1. v \in Seq({v[i] : i \in DOMAIN v}) /\ \A i \in DOMAIN v : HasType(Objects, item.cpp, v[i])
  BY DEF FieldHasType
<1>2. Len(v) \in Nat /\ DOMAIN v = 1 .. Len(v)
  BY <1>1, LenProperties
<1>3. tasks = [i \in 1 .. Len(v) |-> Value(tag, item.cpp, item.low, v[i], FALSE)]
  BY DEF ElementTasks
<1>4. \A i \in 1 .. Len(v) : tasks[i].op = "value" /\ tasks[i].tag = tag
                             /\ tasks[i].cpp = item.cpp /\ tasks[i].v = v[i]
  BY <1>3 DEF Value
<1>5. \A i \in 1 .. Len(v) : IsTask(Objects, counted, tasks[i])
  BY <1>1, <1>2, <1>4 DEF IsTask
<1>6. tasks \in [1 .. Len(v) -> S]
  BY <1>3
<1>7. \A t \in S : IsTask(Objects, counted, t)
  BY <1>5
<1> HIDE DEF tasks, S
<1>8. tasks \in Seq(S) /\ Len(tasks) = Len(v)
  BY <1>2, <1>6, IsASeq, LenProperties
<1> QED BY <1>4, <1>7, <1>8, TasksFrom DEF tasks

\* The entries of a map.
LEMMA EntryTasksAre ==
  ASSUME NEW Objects, NEW counted, NEW item, NEW map, IsItem(item), item.shape = "map",
         FieldHasType(Objects, item, map), counted => EntriesFit(item, map)
  PROVE  /\ AllTasks(Objects, counted, EntryTasks(item, map))
         /\ \A i \in 1 .. Len(EntryTasks(item, map)) : EntryTasks(item, map)[i].op = "entry"
<1> DEFINE tasks == EntryTasks(item, map)
           keys == Keys(item, map)
           n == Cardinality(DOMAIN map)
           S == {tasks[i] : i \in 1 .. n}
<1>1. /\ InOrder(item, map) # {} /\ n \in Nat
      /\ \A k \in DOMAIN map : HasType(Objects, item.key, k) /\ HasType(Objects, item.cpp, map[k])
  BY DEF FieldHasType
<1>2. keys \in [1 .. n -> DOMAIN map]
  BY <1>1, KeysAre
<1>3. \A i \in 1 .. n : keys[i] \in DOMAIN map
  <2> HIDE DEF keys
  <2> QED BY <1>2
<1>4. tasks = [i \in 1 .. n |-> [op |-> "entry", item |-> item, k |-> keys[i], v |-> map[keys[i]]]]
  BY DEF EntryTasks
<1> HIDE DEF keys, n, tasks
<1>5. \A i \in 1 .. n : tasks[i].op = "entry" /\ tasks[i].item = item
                        /\ tasks[i].k = keys[i] /\ tasks[i].v = map[keys[i]]
  BY <1>4
<1>6. \A i \in 1 .. n : IsTask(Objects, counted, tasks[i])
  <2> TAKE i \in 1 .. n
  <2>1. keys[i] \in DOMAIN map
    BY <1>3
  <2>2. HasType(Objects, item.key, keys[i]) /\ HasType(Objects, item.cpp, map[keys[i]])
    BY <1>1, <2>1
  <2>3. counted => /\ EntryFits(item.key, item.high, keys[i])
                   /\ EntryFits(item.cpp, item.low, map[keys[i]])
    BY <2>1 DEF EntriesFit
  <2> QED BY <1>5, <2>2, <2>3 DEF IsTask
<1>7. tasks \in [1 .. n -> S]
  BY <1>4
<1>8. \A t \in S : IsTask(Objects, counted, t)
  BY <1>6
<1> HIDE DEF S
<1>9. tasks \in Seq(S) /\ Len(tasks) = n
  BY <1>1, <1>7, IsASeq, LenProperties
<1> QED BY <1>5, <1>8, <1>9, TasksFrom DEF tasks
-----------------------------------------------------------------------------
(* The key and the value of an entry.                                        *)

LEMMA DelimitedIs ==
  ASSUME NEW n \in Nat
  PROVE  Delimited(n) \in Nat /\ Len(VarintBytes[n]) = VarintByteSize[n]
         /\ VarintBytes[n] \in Seq(Byte) /\ VarintByteSize[n] \in Nat
BY VarintBytesAre DEF Delimited

\* What ByteSize answers for a value that is not misread.
LEMMA ByteSizeIs ==
  ASSUME NEW Objects, Typed(Objects), NEW cpp, NEW type \in 0 .. 3, NEW v, HasType(Objects, cpp, v),
         cpp \notin {"float", "double"}
  PROVE  ByteSize(cpp, type, v) \in Nat
<1>1. CASE cpp = "string"
  <2>1. Len(v) \in Nat
    BY <1>1, ValuesAre, LenProperties
  <2>2. Delimited(Len(v)) \in Nat
    BY <2>1, DelimitedIs
  <2> QED BY <1>1, <2>2, TypesDiffer DEF ByteSize
<1>2. CASE IsMessage(cpp)
  <2> DEFINE m == [struct |-> cpp, value |-> v]
  <2>1. m \in Objects /\ m.struct = cpp /\ m.value = v
    BY <1>2, ValuesAre
  <2> HIDE DEF m
  <2>2. GetByteSize(cpp, v) \in Nat
    BY <2>1 DEF Typed
  <2>3. cpp # "string"
    BY <1>2, TypesDiffer
  <2> QED BY <1>2, <2>2, <2>3, DelimitedIs DEF ByteSize
<1>3. CASE cpp # "string" /\ ~IsMessage(cpp)
  <2>1. cpp \in Ints32 \cup Ints64 \cup {"bool"}
    BY <1>3, TypesDiffer
  <2>2. v \in Nat
    <3>1. cpp \in Ints32 \cup Ints64 => v \in Nat
      BY ValuesAre
    <3>2. cpp = "bool" => v \in {0, 1}
      BY ValuesAre
    <3> QED BY <2>1, <3>1, <3>2
  <2> DEFINE wide == IF cpp = "int32" THEN SignExtend(v) ELSE v
  <2>3. wide \in Nat /\ ZigZag(wide, Mod64) \in Nat
    BY <2>2, WidthsAre DEF SignExtend, ZigZag
  <2> HIDE DEF wide
  <2>4. VarintByteSize[wide] \in Nat /\ VarintByteSize[ZigZag(wide, Mod64)] \in Nat
    BY <2>3, VarintByteSizeIs
  <2>5. NumberSize(cpp, type, v) =
          CASE type = TYPE_VARINT  -> VarintByteSize[wide]
            [] type = TYPE_SVARINT -> VarintByteSize[ZigZag(wide, Mod64)]
            [] type = TYPE_FIXED32 -> Bytes32
            [] OTHER               -> Bytes64
    BY DEF NumberSize, wide
  <2>6. NumberSize(cpp, type, v) \in Nat
    BY <2>4, <2>5, WidthsAre
  <2> QED BY <1>3, <2>6 DEF ByteSize
<1> QED BY <1>1, <1>2, <1>3

\* A value of a type is what the length of its bytes is asked of.
LEMMA NumbersFit ==
  ASSUME NEW Objects, NEW cpp \in Ints32 \cup Ints64, NEW type \in 0 .. 3, NEW v,
         HasType(Objects, cpp, v), EntryFits(cpp, type, v)
  PROVE  /\ v \in Nat
         /\ type = TYPE_SVARINT => /\ v % Mod32 = v
                                   /\ NumberSize(cpp, type, v) = VarintByteSize[ZigZag(v, Mod32)]
         /\ type = TYPE_FIXED32 => NumberSize(cpp, type, v) = Bytes32
         /\ type = TYPE_FIXED64 => NumberSize(cpp, type, v) = Bytes64 /\ cpp \in Ints64
         /\ type = TYPE_VARINT =>
              NumberSize(cpp, type, v) = VarintByteSize[IF cpp \in Ints32 THEN SignExtend(v) ELSE v]
<1> USE DEF TYPE_VARINT, TYPE_SVARINT, TYPE_FIXED32, TYPE_FIXED64
<1>1. v \in Nat
  BY ValuesAre
<1>2. CASE type = TYPE_SVARINT
  <2>1. 2 * v < Mod32
    BY <1>2 DEF EntryFits
  <2>2. v % Mod32 = v /\ SignExtend(v) = v
    BY <1>1, <2>1, WidthsAre DEF SignExtend
  <2>3. ZigZag(v, Mod32) = 2 * v /\ ZigZag(v, Mod64) = 2 * v
    BY <1>1, <2>1, WidthsAre DEF ZigZag
  <2> QED BY <1>1, <1>2, <2>2, <2>3 DEF NumberSize
<1>3. CASE type \in {TYPE_FIXED32, TYPE_FIXED64}
  <2>1. type = TYPE_FIXED64 => cpp \in Ints64
    BY DEF EntryFits, Misread
  <2> QED BY <1>1, <1>3, <2>1 DEF NumberSize
<1>4. CASE type = TYPE_VARINT
  <2>1. cpp \in Ints32 => cpp \in {"int32", "uint32"}
    BY DEF Ints32
  <2>2. "int32" \in Ints32
    BY DEF Ints32
  <2>3. cpp = "uint32" => SignExtend(v) = v
    BY <1>1, <1>4, WidthsAre DEF EntryFits, SignExtend
  <2> QED BY <1>1, <1>4, <2>1, <2>2, <2>3 DEF NumberSize
<1> QED BY <1>1, <1>2, <1>3, <1>4

\* What nByteSize counts for the key or the value.
PartSize(num, cpp, type, v) == Len(EntryValue(num, cpp, type, v).tag) + ByteSize(cpp, type, v)

Counted(num, cpp, type, v) ==
  EntryFits(cpp, type, v) => CallSize(EntryValue(num, cpp, type, v)) = PartSize(num, cpp, type, v)

LEMMA EntryValueIs ==
  ASSUME NEW Objects, Typed(Objects), NEW counted, NEW num \in Nat, NEW cpp, NEW type \in 0 .. 3, NEW v,
         HasType(Objects, cpp, v), ~Misread(cpp, type), cpp \notin {"float", "double"}
  PROVE  /\ IsTask(Objects, counted, EntryValue(num, cpp, type, v))
         /\ EntryValue(num, cpp, type, v).op = "value"
         /\ Len(EntryValue(num, cpp, type, v).tag) \in Nat
         /\ Counted(num, cpp, type, v)
<1> USE DEF TYPE_VARINT, TYPE_SVARINT, TYPE_FIXED32, TYPE_FIXED64, PartSize, Counted
<1> DEFINE t == EntryValue(num, cpp, type, v)
           tag == EntryTag(num, cpp)
<1>1. tag \in Seq(Byte) /\ Len(tag) \in Nat
  BY TagIs, WireTypesAre DEF EntryTag
<1> HIDE DEF tag
<1>2. CASE type \in {TYPE_SVARINT, TYPE_FIXED32}
  <2>1. cpp \in Ints32 \cup Ints64 /\ "uint32" \in Ints32
    BY <1>2 DEF Misread, Ints32, Ints64
  <2>2. v \in Nat /\ v % Mod32 \in Num32
    <3>1. v \in Nat
      BY <2>1, ValuesAre
    <3> QED BY <3>1, WidthsAre DEF Num32
  <2>3. t = Value(tag, "uint32", type, v % Mod32, FALSE)
    <3>1. ~(type = TYPE_FIXED64)
      BY <1>2
    <3> HIDE DEF TYPE_VARINT, TYPE_SVARINT, TYPE_FIXED32, TYPE_FIXED64
    <3> QED BY <1>2, <3>1, Zenon DEF EntryValue, tag
  <2> HIDE DEF t
  <2>4. t.op = "value" /\ t.tag = tag /\ t.cpp = "uint32" /\ t.type = type /\ t.v = v % Mod32 /\ t.has = FALSE
    BY <2>3 DEF Value
  <2>5. HasType(Objects, "uint32", v % Mod32)
    <3>1. \A w \in Num32 : HasType(Objects, "uint32", w)
      BY DEF HasType, Ints32, Ints64
    <3> QED BY <2>2, <3>1
  <2>6. IsTask(Objects, counted, t)
    BY <1>1, <2>4, <2>5 DEF IsTask
  <2>7. CallSize(t) = Len(tag) + Len(IntBytes("uint32", type, v % Mod32))
    BY <2>1, <2>4, TypesDiffer DEF CallSize, ScalarBytes
  <2>8. ByteSize(cpp, type, v) = NumberSize(cpp, type, v)
    BY <2>1, TypesDiffer DEF ByteSize
  <2>9. ASSUME EntryFits(cpp, type, v), type = TYPE_SVARINT
        PROVE  Len(IntBytes("uint32", type, v % Mod32)) = NumberSize(cpp, type, v)
    <3>1. v % Mod32 = v /\ NumberSize(cpp, type, v) = VarintByteSize[ZigZag(v, Mod32)]
      BY <2>1, <2>9, NumbersFit
    <3>2. IntBytes("uint32", type, v) = VarintBytes[ZigZag(v, Mod32)]
      BY <2>1, <2>9 DEF IntBytes, IntModulus
    <3>3. ZigZag(v, Mod32) \in Nat
      BY <2>2, WidthsAre DEF ZigZag
    <3> QED BY <3>1, <3>2, <3>3, VarintBytesAre
  <2>10. ASSUME EntryFits(cpp, type, v), type = TYPE_FIXED32
         PROVE  Len(IntBytes("uint32", type, v % Mod32)) = NumberSize(cpp, type, v)
    <3>1. NumberSize(cpp, type, v) = Bytes32
      BY <2>1, <2>10, NumbersFit
    <3>2. IntBytes("uint32", type, v % Mod32) = Fixed(v % Mod32, Bytes32)
      BY <2>1, <2>10 DEF IntBytes
    <3>3. v % Mod32 \in Nat
      BY <2>2, WidthsAre
    <3> QED BY <3>1, <3>2, <3>3, FixedIs, WidthsAre
  <2> QED BY <1>1, <1>2, <2>4, <2>6, <2>7, <2>8, <2>9, <2>10 DEF t
<1>3. CASE type = TYPE_FIXED64
  <2>1. cpp \in Ints64 /\ "uint64" \in Ints64
    BY <1>3 DEF Misread, Ints32, Ints64
  <2>2. v \in Num64 /\ v \in Nat
    BY <2>1, ValuesAre
  <2>3. t = Value(tag, "uint64", type, v, FALSE)
    BY <1>3 DEF EntryValue, tag
  <2> HIDE DEF t
  <2>4. t.op = "value" /\ t.tag = tag /\ t.cpp = "uint64" /\ t.type = type /\ t.v = v /\ t.has = FALSE
    BY <2>3 DEF Value
  <2>5. HasType(Objects, "uint64", v)
    BY <2>1, <2>2 DEF HasType, Ints32
  <2>6. IsTask(Objects, counted, t)
    BY <1>1, <2>4, <2>5 DEF IsTask
  <2>7. CallSize(t) = Len(tag) + Len(IntBytes("uint64", type, v))
    BY <2>1, <2>4, TypesDiffer DEF CallSize, ScalarBytes
  <2>8. ByteSize(cpp, type, v) = NumberSize(cpp, type, v) /\ NumberSize(cpp, type, v) = Bytes64
    BY <1>3, <2>1, TypesDiffer DEF ByteSize, NumberSize
  <2>9. IntBytes("uint64", type, v) = Fixed(v, Bytes64)
    BY <1>3, <2>1, TypesDiffer DEF IntBytes
  <2>10. Len(IntBytes("uint64", type, v)) = Bytes64
    BY <2>2, <2>9, FixedIs, WidthsAre
  <2> QED BY <1>1, <2>4, <2>6, <2>7, <2>8, <2>10 DEF t
<1>4. CASE type = TYPE_VARINT
  <2>1. t = Value(tag, cpp, TYPE_VARINT, v, FALSE)
    BY <1>4 DEF EntryValue, tag
  <2> HIDE DEF t
  <2>2. t.op = "value" /\ t.tag = tag /\ t.cpp = cpp /\ t.type = TYPE_VARINT /\ t.v = v /\ t.has = FALSE
    BY <2>1 DEF Value
  <2>3. IsTask(Objects, counted, t)
    BY <1>1, <2>2 DEF IsTask
  <2>4. ASSUME EntryFits(cpp, type, v) PROVE CallSize(t) = Len(tag) + ByteSize(cpp, type, v)
    <3>1. CASE IsMessage(cpp)
      <4>1. cpp # "string"
        BY <3>1, TypesDiffer
      <4> QED BY <2>2, <3>1, <4>1 DEF CallSize, ByteSize
    <3>2. CASE ~IsMessage(cpp)
      <4>1. CallSize(t) = Len(tag) + Len(ScalarBytes(cpp, TYPE_VARINT, v))
        BY <2>2, <3>2 DEF CallSize
      <4>2. CASE cpp = "string"
        <5>1. v \in Seq(Byte) /\ Len(v) \in Nat
          BY <4>2, ValuesAre, LenProperties
        <5>2. Len(VarintBytes[Len(v)] \o v) = VarintByteSize[Len(v)] + Len(v)
          <6>1. VarintBytes[Len(v)] \in Seq(Byte) /\ Len(VarintBytes[Len(v)]) = VarintByteSize[Len(v)]
            BY <5>1, DelimitedIs
          <6> QED BY <5>1, <6>1, ConcatProperties
        <5>3. ScalarBytes(cpp, TYPE_VARINT, v) = VarintBytes[Len(v)] \o v
          BY <4>2 DEF ScalarBytes
        <5>4. ByteSize(cpp, type, v) = VarintByteSize[Len(v)] + Len(v)
          BY <3>2, <4>2 DEF ByteSize, Delimited
        <5> QED BY <4>1, <5>2, <5>3, <5>4
      <4>3. CASE cpp = "bool"
        <5>1. v \in {0, 1}
          BY <4>3, ValuesAre
        <5>2. VarintByteSize[v] = 1
          BY <5>1, VarintByteSizeIs
        <5>3. ScalarBytes(cpp, TYPE_VARINT, v) = <<v>>
          BY <4>3 DEF ScalarBytes
        <5>4. ByteSize(cpp, type, v) = VarintByteSize[v]
          BY <1>4, <3>2, <4>3 DEF ByteSize, NumberSize
        <5> QED BY <4>1, <5>2, <5>3, <5>4
      <4>4. CASE cpp \in Ints32 \cup Ints64
        <5> DEFINE wide == IF cpp \in Ints32 THEN SignExtend(v) ELSE v
        <5>1. v \in Nat /\ wide \in Nat
          <6>1. v \in Nat
            BY <4>4, ValuesAre
          <6> QED BY <6>1, WidthsAre DEF SignExtend
        <5>2. ByteSize(cpp, type, v) = VarintByteSize[wide]
          BY <1>4, <2>4, <3>2, <4>4, NumbersFit, TypesDiffer DEF ByteSize
        <5>3. ScalarBytes(cpp, TYPE_VARINT, v) = VarintBytes[wide]
          BY <4>4, TypesDiffer DEF ScalarBytes, IntBytes
        <5> HIDE DEF wide
        <5> QED BY <4>1, <5>1, <5>2, <5>3, VarintBytesAre
      <4> QED BY <3>2, <4>2, <4>3, <4>4, TypesDiffer
    <3> QED BY <3>1, <3>2
  <2> QED BY <1>1, <2>2, <2>3, <2>4 DEF t
<1> QED BY <1>2, <1>3, <1>4
\* Misread of either part, as EntryMisread says it of the current task.
Misreads(t) == Misread(t.item.key, t.item.high) \/ Misread(t.item.cpp, t.item.low)

LEMMA PairTotal ==
  ASSUME NEW a \in Nat, NEW b \in Nat
  PROVE  Total(<<a, b>>) = a + b
<1> DEFINE s == <<a, b>>
<1>1. s \in Seq(Nat) /\ Len(s) = 2 /\ s[1] = a /\ s[2] = b
  OBVIOUS
<1> HIDE DEF s
<1>2. Sums(s)[0] = 0 /\ \A i \in 1 .. 2 : Sums(s)[i] = Sums(s)[i - 1] + s[i]
  BY <1>1, SumsAre
<1>3. Sums(s)[1] = Sums(s)[0] + s[1] /\ Sums(s)[2] = Sums(s)[1] + s[2]
  BY <1>2
<1> QED BY <1>1, <1>2, <1>3 DEF Total, s

\* The two tasks of an entry.
LEMMA EntryIs ==
  ASSUME NEW Objects, Typed(Objects), NEW counted, NEW t, IsTask(Objects, counted, t),
         t.op = "entry", ~Misreads(t)
  PROVE  /\ AllTasks(Objects, counted, <<EntryKey(t), EntryMapped(t)>>)
         /\ EntrySize(t) \in Nat
         /\ counted => EntrySize(t) = Total(Sizes(<<EntryKey(t), EntryMapped(t)>>))
<1> DEFINE key == EntryKey(t)
           mapped == EntryMapped(t)
           keySize == ByteSize(t.item.key, t.item.high, t.k)
           mappedSize == ByteSize(t.item.cpp, t.item.low, t.v)
<1>1. /\ IsItem(t.item) /\ t.item.shape = "map"
      /\ HasType(Objects, t.item.key, t.k) /\ HasType(Objects, t.item.cpp, t.v)
  BY DEF IsTask
<1>13. counted => EntryFits(t.item.key, t.item.high, t.k) /\ EntryFits(t.item.cpp, t.item.low, t.v)
  BY DEF IsTask
<1>2. /\ t.item.low \in 0 .. 3 /\ t.item.high \in 0 .. 3
      /\ t.item.cpp \notin {"float", "double"} /\ t.item.key \notin {"float", "double"}
  BY <1>1, ItemsAre
<1>3. ~Misread(t.item.key, t.item.high) /\ ~Misread(t.item.cpp, t.item.low)
  BY DEF Misreads
<1>4. /\ IsTask(Objects, counted, key) /\ key.op = "value" /\ Len(key.tag) \in Nat
      /\ counted => CallSize(key) = Len(key.tag) + keySize
  <2>1. 1 \in Nat
    OBVIOUS
  <2>2. Counted(1, t.item.key, t.item.high, t.k)
    BY <2>1, <1>1, <1>2, <1>3, EntryValueIs
  <2>3. EntryKey(t) = EntryValue(1, t.item.key, t.item.high, t.k)
    BY DEF EntryKey
  <2>4. IsTask(Objects, counted, EntryValue(1, t.item.key, t.item.high, t.k))
    BY <2>1, <1>1, <1>2, <1>3, EntryValueIs
  <2>5. EntryValue(1, t.item.key, t.item.high, t.k).op = "value"
    BY DEF EntryValue, Value
  <2>6. Len(EntryValue(1, t.item.key, t.item.high, t.k).tag) \in Nat
    BY <2>1, <1>1, <1>2, <1>3, EntryValueIs
  <2> QED BY <1>13, <2>2, <2>3, <2>4, <2>5, <2>6 DEF PartSize, Counted
<1>5. /\ IsTask(Objects, counted, mapped) /\ mapped.op = "value" /\ Len(mapped.tag) \in Nat
      /\ counted => CallSize(mapped) = Len(mapped.tag) + mappedSize
  <2>1. 2 \in Nat
    OBVIOUS
  <2>2. Counted(2, t.item.cpp, t.item.low, t.v)
    BY <2>1, <1>1, <1>2, <1>3, EntryValueIs
  <2>3. EntryMapped(t) = EntryValue(2, t.item.cpp, t.item.low, t.v)
    BY DEF EntryMapped
  <2>4. IsTask(Objects, counted, EntryValue(2, t.item.cpp, t.item.low, t.v))
    BY <2>1, <1>1, <1>2, <1>3, EntryValueIs
  <2>5. EntryValue(2, t.item.cpp, t.item.low, t.v).op = "value"
    BY DEF EntryValue, Value
  <2>6. Len(EntryValue(2, t.item.cpp, t.item.low, t.v).tag) \in Nat
    BY <2>1, <1>1, <1>2, <1>3, EntryValueIs
  <2> QED BY <1>13, <2>2, <2>3, <2>4, <2>5, <2>6 DEF PartSize, Counted
<1>6. keySize \in Nat /\ mappedSize \in Nat
  BY <1>1, <1>2, ByteSizeIs
<1> DEFINE keyTag == Len(key.tag)
           mappedTag == Len(mapped.tag)
<1>7. EntrySize(t) = keyTag + keySize + mappedTag + mappedSize /\ keyTag \in Nat /\ mappedTag \in Nat
  BY <1>4, <1>5 DEF EntrySize
<1>12. counted => CallSize(key) = keyTag + keySize /\ CallSize(mapped) = mappedTag + mappedSize
  BY <1>4, <1>5
<1> HIDE DEF key, mapped, keySize, mappedSize, keyTag, mappedTag
<1> DEFINE tasks == <<key, mapped>>
<1>8. AllTasks(Objects, counted, tasks)
  <2>1. tasks \in Seq({key, mapped})
    OBVIOUS
  <2>2. \A x \in {key, mapped} : IsTask(Objects, counted, x)
    BY <1>4, <1>5
  <2> HIDE DEF tasks
  <2> QED BY <2>1, <2>2, TasksFrom
<1>9. Sizes(tasks) = <<CallSize(key), CallSize(mapped)>>
  <2>1. TaskSize(key) = CallSize(key) /\ TaskSize(mapped) = CallSize(mapped)
    BY <1>4, <1>5 DEF TaskSize
  <2>2. Len(tasks) = 2 /\ tasks[1] = key /\ tasks[2] = mapped
    OBVIOUS
  <2> HIDE DEF tasks
  <2>3. Sizes(tasks) = [i \in 1 .. 2 |-> TaskSize(tasks[i])]
    BY <2>2 DEF Sizes
  <2> QED BY <2>1, <2>2, <2>3
<1>10. counted => EntrySize(t) = Total(Sizes(tasks))
  <2> SUFFICES ASSUME counted PROVE EntrySize(t) = Total(Sizes(tasks))
    OBVIOUS
  <2>1. CallSize(key) \in Nat /\ CallSize(mapped) \in Nat
    BY <1>6, <1>7, <1>12
  <2>2. Total(Sizes(tasks)) = CallSize(key) + CallSize(mapped)
    BY <1>9, <2>1, PairTotal
  <2> QED BY <1>6, <1>7, <1>12, <2>2
<1>11. EntrySize(t) \in Nat
  BY <1>6, <1>7
<1> QED BY <1>8, <1>10, <1>11 DEF key, mapped

LEMMA CountedEntryReads ==
  ASSUME NEW Objects, NEW t, IsTask(Objects, TRUE, t), t.op = "entry"
  PROVE  ~Misreads(t)
BY DEF IsTask, EntryFits, Misreads
-----------------------------------------------------------------------------
(* What a converter writes is as long as it is counted.                      *)

\* A value: its prefix if it is a nested message, its bytes otherwise.
LEMMA ValueTaskIs ==
  ASSUME NEW Objects, Typed(Objects), NEW counted, NEW t, IsTask(Objects, counted, t), t.op = "value"
  PROVE  /\ t.tag \in Seq(Byte) /\ Len(t.tag) \in Nat
         /\ IsMessage(t.cpp) => /\ [struct |-> t.cpp, value |-> t.v] \in Objects
                                /\ GetByteSize(t.cpp, t.v) \in Nat
         /\ ~IsMessage(t.cpp) => /\ ScalarBytes(t.cpp, t.type, t.v) \in Seq(Byte)
                                 /\ t.tag \o ScalarBytes(t.cpp, t.type, t.v) \in Seq(Byte)
                                 /\ Len(t.tag \o ScalarBytes(t.cpp, t.type, t.v)) =
                                      Len(t.tag) + Len(ScalarBytes(t.cpp, t.type, t.v))
         /\ TaskSize(t) = CallSize(t) /\ TaskSize(t) \in Nat
<1>1. t.tag \in Seq(Byte) /\ HasType(Objects, t.cpp, t.v)
  BY DEF IsTask
<1>2. Len(t.tag) \in Nat
  BY <1>1, LenProperties
<1>3. TaskSize(t) = CallSize(t)
  BY DEF TaskSize
<1>4. CASE IsMessage(t.cpp)
  <2> DEFINE m == [struct |-> t.cpp, value |-> t.v]
  <2>1. m \in Objects /\ m.struct = t.cpp /\ m.value = t.v
    BY <1>1, <1>4, ValuesAre
  <2> HIDE DEF m
  <2>2. GetByteSize(t.cpp, t.v) \in Nat
    BY <2>1 DEF Typed
  <2>3. Delimited(GetByteSize(t.cpp, t.v)) \in Nat
    BY <2>2, DelimitedIs
  <2>4. CallSize(t) = Len(t.tag) + Delimited(GetByteSize(t.cpp, t.v))
    BY <1>4 DEF CallSize
  <2>5. CallSize(t) \in Nat
    BY <1>2, <2>3, <2>4
  <2> QED BY <1>1, <1>2, <1>3, <1>4, <2>1, <2>2, <2>5 DEF m
<1>5. CASE ~IsMessage(t.cpp)
  <2> DEFINE bytes == ScalarBytes(t.cpp, t.type, t.v)
  <2>1. bytes \in Seq(Byte)
    BY <1>1, <1>5, ScalarBytesAre
  <2>2. CallSize(t) \in {0, Len(t.tag) + Len(bytes)}
    BY <1>5 DEF CallSize
  <2> HIDE DEF bytes
  <2>3. Len(bytes) \in Nat /\ t.tag \o bytes \in Seq(Byte) /\ Len(t.tag \o bytes) = Len(t.tag) + Len(bytes)
    BY <1>1, <2>1, LenProperties, ConcatProperties
  <2>4. CallSize(t) \in Nat
    BY <1>2, <2>2, <2>3
  <2> QED BY <1>1, <1>2, <1>3, <1>5, <2>1, <2>3, <2>4 DEF bytes
<1> QED BY <1>4, <1>5

\* The tag and the length of an entry.
LEMMA EntryTaskIs ==
  ASSUME NEW Objects, Typed(Objects), NEW t, IsTask(Objects, TRUE, t), t.op = "entry"
  PROVE  /\ TaskSize(t) = CallSize(t) /\ TaskSize(t) \in Nat
         /\ TaskSize(t) = Len(Tag(t.item.num, WT_LENGTH_DELIMITED)) + Delimited(EntrySize(t))
<1>1. ~Misreads(t)
  BY CountedEntryReads
<1>2. EntrySize(t) \in Nat
  BY <1>1, EntryIs
<1>3. IsItem(t.item)
  BY DEF IsTask
<1>4. Len(Tag(t.item.num, WT_LENGTH_DELIMITED)) \in Nat
  BY <1>3, ItemsAre, TagIs, WireTypesAre
<1>5. Delimited(EntrySize(t)) \in Nat
  BY <1>2, DelimitedIs
<1>6. TaskSize(t) = CallSize(t)
  BY DEF TaskSize
<1>7. CallSize(t) = Len(Tag(t.item.num, WT_LENGTH_DELIMITED)) + Delimited(EntrySize(t))
  BY DEF CallSize
<1> QED BY <1>4, <1>5, <1>6, <1>7

\* Tasks of one call each.
LEMMA CallSizesAre ==
  ASSUME NEW Objects, Typed(Objects), NEW tasks, AllTasks(Objects, TRUE, tasks),
         \A i \in 1 .. Len(tasks) : tasks[i].op \in {"value", "entry"}
  PROVE  CallSizes(tasks) = Total(Sizes(tasks)) /\ CallSizes(tasks) \in Nat
<1>1. IsSeq(tasks) /\ \A i \in 1 .. Len(tasks) : IsTask(Objects, TRUE, tasks[i])
  BY DEF AllTasks
<1>2. \A i \in 1 .. Len(tasks) : TaskSize(tasks[i]) = CallSize(tasks[i]) /\ TaskSize(tasks[i]) \in Nat
  <2> TAKE i \in 1 .. Len(tasks)
  <2>1. CASE tasks[i].op = "value"
    BY <1>1, <2>1, ValueTaskIs
  <2>2. CASE tasks[i].op = "entry"
    BY <1>1, <2>2, EntryTaskIs
  <2> QED BY <2>1, <2>2
<1>3. [i \in 1 .. Len(tasks) |-> CallSize(tasks[i])] = Sizes(tasks)
  BY <1>2 DEF Sizes
<1>4. Sizes(tasks) \in Seq(Nat)
  <2>1. Len(tasks) \in Nat
    BY <1>1, LenProperties DEF IsSeq
  <2>2. Sizes(tasks) \in [1 .. Len(tasks) -> Nat]
    BY <1>2 DEF Sizes
  <2> QED BY <2>1, <2>2, IsASeq
<1> QED BY <1>3, <1>4, TotalIs DEF CallSizes

\* The elements of a vector, each with the tag or behind one.
LEMMA VectorTaskIs ==
  ASSUME NEW Objects, Typed(Objects), NEW counted, NEW t, IsTask(Objects, counted, t), t.op = "vector"
  PROVE  /\ PackBytes(t.item, t.v) \in Seq(Byte)
         /\ AllTasks(Objects, counted, ArrayTasks(t.item, t.v))
         /\ AllTasks(Objects, counted, PackTasks(t.item, t.v))
         /\ CallSizes(ArrayTasks(t.item, t.v)) = Total(Sizes(ArrayTasks(t.item, t.v)))
         /\ CallSizes(PackTasks(t.item, t.v)) = Total(Sizes(PackTasks(t.item, t.v)))
         /\ CallSizes(ArrayTasks(t.item, t.v)) \in Nat /\ CallSizes(PackTasks(t.item, t.v)) \in Nat
<1> DEFINE item == t.item
           v == t.v
           array == ArrayTasks(item, v)
           pack == PackTasks(item, v)
<1>1. IsItem(item) /\ item.shape = "vector" /\ FieldHasType(Objects, item, v)
  BY DEF IsTask
<1>2. item.num \in Nat
  BY <1>1, ItemsAre
<1> HIDE DEF item, v
<1>3. Tag(item.num, TagType(item.cpp, item.low)) \in Seq(Byte) /\ PackTag(item) \in Seq(Byte)
  BY <1>2, TagIs, WireTypesAre DEF PackTag
<1>4. ASSUME NEW c
      PROVE  /\ AllTasks(Objects, c, array)
             /\ \A i \in 1 .. Len(array) : array[i].op = "value"
  <2> DEFINE tag == Tag(item.num, TagType(item.cpp, item.low))
  <2>1. array = ElementTasks(tag, item, v)
    BY DEF ArrayTasks
  <2>2. tag \in Seq(Byte)
    BY <1>3
  <2> HIDE DEF array, tag
  <2>3. AllTasks(Objects, c, ElementTasks(tag, item, v))
    BY <1>1, <2>2, ElementTasksAre
  <2>4. \A i \in 1 .. Len(ElementTasks(tag, item, v)) : ElementTasks(tag, item, v)[i].op = "value"
    BY <1>1, <2>2, ElementTasksAre
  <2> QED BY <2>1, <2>3, <2>4
<1>5. ASSUME NEW c
      PROVE  /\ AllTasks(Objects, c, pack)
             /\ \A i \in 1 .. Len(pack) : pack[i].op = "value"
  <2>1. CASE pack = <<>>
    <3>1. AllTasks(Objects, c, <<>>)
      BY NoTasks
    <3>2. Len(<<>>) = 0
      BY EmptySeq
    <3> QED BY <2>1, <3>1, <3>2
  <2>2. CASE pack # <<>>
    <3>1. pack = ElementTasks(PackTag(item), item, v)
      BY <2>2 DEF PackTasks
    <3> HIDE DEF pack
    <3>2. PackTag(item) \in Seq(Byte)
      BY <1>3
    <3>3. AllTasks(Objects, c, ElementTasks(PackTag(item), item, v))
      BY <1>1, <3>2, ElementTasksAre
    <3>4. \A i \in 1 .. Len(ElementTasks(PackTag(item), item, v)) :
             ElementTasks(PackTag(item), item, v)[i].op = "value"
      BY <1>1, <3>2, ElementTasksAre
    <3> QED BY <3>1, <3>3, <3>4
  <2> QED BY <2>1, <2>2
<1>6. PackBytes(item, v) \in Seq(Byte)
  <2>1. CASE v = <<>>
    BY <2>1, EmptySeq DEF PackBytes
  <2>2. CASE v # <<>> /\ item.cpp \notin Ints32 \cup Ints64
    BY <1>3, <2>2 DEF PackBytes
  <2>3. CASE v # <<>> /\ item.cpp \in Ints32 \cup Ints64
    <3> DEFINE parts == [i \in 1 .. Len(v) |-> IntBytes(item.cpp, item.low, v[i])]
    <3>1. v \in Seq({v[i] : i \in DOMAIN v}) /\ \A i \in DOMAIN v : HasType(Objects, item.cpp, v[i])
      BY <1>1 DEF FieldHasType
    <3>2. Len(v) \in Nat /\ DOMAIN v = 1 .. Len(v)
      BY <3>1, LenProperties
    <3>3. \A i \in 1 .. Len(v) : v[i] \in Nat
      BY <2>3, <3>1, <3>2, ValuesAre
    <3>4. \A i \in 1 .. Len(v) : IntBytes(item.cpp, item.low, v[i]) \in Seq(Byte)
      BY <2>3, <3>3, IntBytesAre
    <3>5. parts \in [1 .. Len(v) -> Seq(Byte)]
      BY <3>4
    <3>6. PackBytes(item, v) = PackTag(item) \o FlattenSeq(parts)
      BY <2>3 DEF PackBytes
    <3> HIDE DEF parts
    <3>7. FlattenSeq(parts) \in Seq(Byte)
      BY <3>2, <3>5, IsASeq, FlattenIs
    <3> QED BY <1>3, <3>6, <3>7, ConcatProperties
  <2> QED BY <2>1, <2>2, <2>3
<1>7. CallSizes(array) = Total(Sizes(array)) /\ CallSizes(array) \in Nat
  <2> HIDE DEF array
  <2> QED BY <1>4, CallSizesAre
<1>8. CallSizes(pack) = Total(Sizes(pack)) /\ CallSizes(pack) \in Nat
  <2> HIDE DEF pack
  <2> QED BY <1>5, CallSizesAre
<1> QED BY <1>4, <1>5, <1>6, <1>7, <1>8 DEF item, v

\* The entries of a map.
LEMMA MapTaskIs ==
  ASSUME NEW Objects, Typed(Objects), NEW counted, NEW t, IsTask(Objects, counted, t), t.op = "map"
  PROVE  /\ AllTasks(Objects, counted, EntryTasks(t.item, t.v))
         /\ counted => /\ CallSizes(EntryTasks(t.item, t.v)) = Total(Sizes(EntryTasks(t.item, t.v)))
                       /\ CallSizes(EntryTasks(t.item, t.v)) \in Nat
<1> DEFINE tasks == EntryTasks(t.item, t.v)
<1>1. /\ IsItem(t.item) /\ t.item.shape = "map" /\ FieldHasType(Objects, t.item, t.v)
      /\ counted => EntriesFit(t.item, t.v)
  BY DEF IsTask
<1>2. AllTasks(Objects, counted, tasks)
  BY <1>1, EntryTasksAre
<1>5. \A i \in 1 .. Len(tasks) : tasks[i].op = "entry"
  BY <1>1, <1>2, EntryTasksAre
<1>3. ASSUME counted PROVE AllTasks(Objects, TRUE, tasks)
  BY <1>1, <1>3, EntryTasksAre
<1> HIDE DEF tasks
<1>4. counted => CallSizes(tasks) = Total(Sizes(tasks)) /\ CallSizes(tasks) \in Nat
  BY <1>5, <1>3, CallSizesAre
<1> QED BY <1>2, <1>4 DEF tasks

\* What the converter of a task writes itself, and the tasks it puts in front.
Own(t) ==
  CASE t.op = "value" ->
         IF IsMessage(t.cpp) THEN t.tag \o VarintBytes[GetByteSize(t.cpp, t.v)]
         ELSE IF t.has /\ IsZero(t.cpp, t.v) THEN <<>>
         ELSE t.tag \o ScalarBytes(t.cpp, t.type, t.v)
    [] t.op = "vector" -> IF t.item.low = TYPE_VARINT THEN <<>> ELSE PackBytes(t.item, t.v)
    [] t.op = "map" -> <<>>
    [] t.op = "entry" -> Tag(t.item.num, WT_LENGTH_DELIMITED) \o VarintBytes[EntrySize(t)]

Calls(t) ==
  CASE t.op = "value" -> IF IsMessage(t.cpp) THEN FieldTasks(t.cpp, t.v) ELSE <<>>
    [] t.op = "vector" -> IF t.item.low = TYPE_VARINT THEN ArrayTasks(t.item, t.v)
                          ELSE PackTasks(t.item, t.v)
    [] t.op = "map" -> EntryTasks(t.item, t.v)
    [] t.op = "entry" -> <<EntryKey(t), EntryMapped(t)>>

\* Whether it says how many bytes those are to write, and how many.
HasLength(t) == t.op = "entry" \/ (t.op = "value" /\ IsMessage(t.cpp))

Announced(t) == IF t.op = "entry" THEN EntrySize(t) ELSE GetByteSize(t.cpp, t.v)

\* It counts what it writes and what they write.
CountedTask(t) ==
  /\ TaskSize(t) \in Nat /\ TaskSize(t) = Len(Own(t)) + Total(Sizes(Calls(t)))
  /\ HasLength(t) => Announced(t) = Total(Sizes(Calls(t)))

Good(Objects, counted) == Typed(Objects) /\ (counted => CountsAsWritten(Objects))

LEMMA TaskIs ==
  ASSUME NEW Objects, NEW counted, Good(Objects, counted), NEW t, IsTask(Objects, counted, t),
         t.op = "entry" => ~Misreads(t)
  PROVE  /\ Own(t) \in Seq(Byte)
         /\ AllTasks(Objects, counted, Calls(t))
         /\ HasLength(t) => Announced(t) \in Nat
         /\ counted => CountedTask(t)
<1>1. Typed(Objects) /\ (counted => CountsAsWritten(Objects))
  BY DEF Good
<1>2. ASSUME NEW n \in Nat, NEW tag \in Seq(Byte)
      PROVE  /\ tag \o VarintBytes[n] \in Seq(Byte) /\ Len(tag) \in Nat
             /\ Len(tag \o VarintBytes[n]) + n = Len(tag) + Delimited(n)
  <2>1. VarintBytes[n] \in Seq(Byte) /\ Len(VarintBytes[n]) = VarintByteSize[n] /\ VarintByteSize[n] \in Nat
    BY DelimitedIs
  <2>2. Len(tag) \in Nat /\ Len(tag \o VarintBytes[n]) = Len(tag) + VarintByteSize[n]
    BY <2>1, LenProperties, ConcatProperties
  <2> QED BY <2>1, <2>2, ConcatProperties DEF Delimited
<1>3. CASE t.op = "value" /\ IsMessage(t.cpp)
  <2> DEFINE n == GetByteSize(t.cpp, t.v)
             sub == FieldTasks(t.cpp, t.v)
  <2>1. /\ t.tag \in Seq(Byte) /\ Len(t.tag) \in Nat /\ n \in Nat
        /\ [struct |-> t.cpp, value |-> t.v] \in Objects
        /\ TaskSize(t) = CallSize(t) /\ TaskSize(t) \in Nat
    BY <1>1, <1>3, ValueTaskIs
  <2>2. AllTasks(Objects, counted, sub) /\ (counted => n = Total(Sizes(sub)))
    <3> DEFINE m == [struct |-> t.cpp, value |-> t.v]
    <3>1. m \in Objects /\ m.struct = t.cpp /\ m.value = t.v
      BY <2>1
    <3> HIDE DEF m
    <3>2. AllTasks(Objects, counted, FieldTasks(m.struct, m.value))
      BY <1>1, <3>1, FieldTasksAre
    <3>3. counted => GetByteSize(m.struct, m.value) = Total(Sizes(FieldTasks(m.struct, m.value)))
      BY <1>1, <3>1, <3>2, FieldTasksAre
    <3> QED BY <3>1, <3>2, <3>3
  <2>3. /\ Own(t) = t.tag \o VarintBytes[n] /\ Calls(t) = sub /\ Announced(t) = n
        /\ CallSize(t) = Len(t.tag) + Delimited(n)
    BY <1>3 DEF Own, Calls, Announced, CallSize
  <2> HIDE DEF n, sub
  <2>4. Own(t) \in Seq(Byte) /\ Len(Own(t)) + n = CallSize(t)
    BY <1>2, <2>1, <2>3
  <2>5. counted => CountedTask(t)
    BY <2>1, <2>2, <2>3, <2>4 DEF CountedTask
  <2> QED BY <2>1, <2>2, <2>3, <2>4, <2>5
<1>4. CASE t.op = "value" /\ ~IsMessage(t.cpp)
  <2>1. /\ t.tag \o ScalarBytes(t.cpp, t.type, t.v) \in Seq(Byte)
        /\ Len(t.tag \o ScalarBytes(t.cpp, t.type, t.v)) = Len(t.tag) + Len(ScalarBytes(t.cpp, t.type, t.v))
        /\ TaskSize(t) = CallSize(t) /\ TaskSize(t) \in Nat
    BY <1>1, <1>4, ValueTaskIs
  <2>2. Calls(t) = <<>> /\ ~HasLength(t)
    BY <1>4 DEF Calls, HasLength
  <2>3. AllTasks(Objects, counted, Calls(t)) /\ Total(Sizes(Calls(t))) = 0
    BY <2>2, NoTasks
  <2>4. <<>> \in Seq(Byte) /\ Len(<<>>) = 0
    BY EmptySeq
  <2>5. Own(t) \in Seq(Byte) /\ Len(Own(t)) = CallSize(t)
    BY <1>4, <2>1, <2>4 DEF Own, CallSize
  <2>6. Len(Own(t)) \in Nat
    BY <2>1, <2>5
  <2>7. CountedTask(t)
    BY <2>1, <2>2, <2>3, <2>5 DEF CountedTask
  <2> QED BY <2>2, <2>3, <2>5, <2>7
<1>5. CASE t.op = "vector"
  <2>1. /\ PackBytes(t.item, t.v) \in Seq(Byte)
        /\ AllTasks(Objects, counted, ArrayTasks(t.item, t.v))
        /\ AllTasks(Objects, counted, PackTasks(t.item, t.v))
    BY <1>1, <1>5, VectorTaskIs
  <2>2. /\ CallSizes(ArrayTasks(t.item, t.v)) = Total(Sizes(ArrayTasks(t.item, t.v)))
        /\ CallSizes(PackTasks(t.item, t.v)) = Total(Sizes(PackTasks(t.item, t.v)))
        /\ CallSizes(ArrayTasks(t.item, t.v)) \in Nat /\ CallSizes(PackTasks(t.item, t.v)) \in Nat
    BY <1>1, <1>5, VectorTaskIs
  <2>3. ~HasLength(t)
    BY <1>5 DEF HasLength
  <2>4. <<>> \in Seq(Byte) /\ Len(<<>>) = 0
    BY EmptySeq
  <2>5. Len(PackBytes(t.item, t.v)) \in Nat
    BY <2>1, LenProperties
  <2>6. CASE t.item.low = TYPE_VARINT
    <3>1. Own(t) = <<>> /\ Calls(t) = ArrayTasks(t.item, t.v) /\ TaskSize(t) = CallSizes(ArrayTasks(t.item, t.v))
      BY <1>5, <2>6 DEF Own, Calls, TaskSize
    <3>2. CountedTask(t)
      BY <2>2, <2>3, <2>4, <3>1 DEF CountedTask
    <3> QED BY <2>1, <2>3, <2>4, <3>1, <3>2
  <2>7. CASE t.item.low # TYPE_VARINT
    <3>1. /\ Own(t) = PackBytes(t.item, t.v) /\ Calls(t) = PackTasks(t.item, t.v)
          /\ TaskSize(t) = Len(PackBytes(t.item, t.v)) + CallSizes(PackTasks(t.item, t.v))
      BY <1>5, <2>7 DEF Own, Calls, TaskSize
    <3>2. CountedTask(t)
      BY <2>2, <2>3, <2>5, <3>1 DEF CountedTask
    <3> QED BY <2>1, <2>3, <3>1, <3>2
  <2> QED BY <2>6, <2>7
<1>6. CASE t.op = "map"
  <2>1. /\ AllTasks(Objects, counted, EntryTasks(t.item, t.v))
        /\ counted => /\ CallSizes(EntryTasks(t.item, t.v)) = Total(Sizes(EntryTasks(t.item, t.v)))
                      /\ CallSizes(EntryTasks(t.item, t.v)) \in Nat
    BY <1>1, <1>6, MapTaskIs
  <2>2. <<>> \in Seq(Byte) /\ Len(<<>>) = 0
    BY EmptySeq
  <2>3. /\ Own(t) = <<>> /\ Calls(t) = EntryTasks(t.item, t.v) /\ ~HasLength(t)
        /\ TaskSize(t) = CallSizes(EntryTasks(t.item, t.v))
    BY <1>6 DEF Own, Calls, HasLength, TaskSize
  <2>4. counted => CountedTask(t)
    BY <2>1, <2>2, <2>3 DEF CountedTask
  <2> QED BY <2>1, <2>2, <2>3, <2>4
<1>7. CASE t.op = "entry"
  <2> DEFINE n == EntrySize(t)
             tag == Tag(t.item.num, WT_LENGTH_DELIMITED)
             sub == <<EntryKey(t), EntryMapped(t)>>
  <2>1. AllTasks(Objects, counted, sub) /\ n \in Nat /\ (counted => n = Total(Sizes(sub)))
    BY <1>1, <1>7, EntryIs
  <2>2. IsItem(t.item)
    BY <1>7 DEF IsTask
  <2>3. tag \in Seq(Byte)
    BY <2>2, ItemsAre, TagIs, WireTypesAre
  <2>4. Own(t) = tag \o VarintBytes[n] /\ Calls(t) = sub /\ Announced(t) = n
    BY <1>7 DEF Own, Calls, Announced
  <2>5. TaskSize(t) = Len(tag) + Delimited(n)
    BY <1>7 DEF TaskSize, CallSize
  <2> HIDE DEF n, tag, sub
  <2>6. Own(t) \in Seq(Byte) /\ Len(Own(t)) + n = TaskSize(t)
    BY <1>2, <2>1, <2>3, <2>4, <2>5
  <2>7. Delimited(n) \in Nat /\ Len(tag) \in Nat
    BY <1>2, <2>1, <2>3, DelimitedIs
  <2>8. counted => CountedTask(t)
    BY <2>1, <2>4, <2>5, <2>6, <2>7 DEF CountedTask
  <2> QED BY <2>1, <2>4, <2>6, <2>8
<1>8. t.op \in {"value", "vector", "map", "entry"}
  BY DEF IsTask
<1> QED BY <1>3, <1>4, <1>5, <1>6, <1>7, <1>8
-----------------------------------------------------------------------------
(* Agendas.                                                                  *)

LEMMA SumsOfConcat ==
  ASSUME NEW a \in Seq(Nat), NEW b \in Seq(Nat), NEW j \in 0 .. Len(b)
  PROVE  Sums(a \o b)[Len(a) + j] = Total(a) + Sums(b)[j]
<1> DEFINE m == Len(a)
           n == Len(b)
           c == a \o b
           f == Sums(a)
           g == Sums(b)
           h == Sums(c)
<1>1. /\ m \in Nat /\ f \in [0 .. m -> Nat] /\ f[0] = 0
      /\ \A i \in 1 .. m : f[i] = f[i - 1] + a[i]
  BY SumsAre
<1>2. /\ n \in Nat /\ g \in [0 .. n -> Nat] /\ g[0] = 0
      /\ \A i \in 1 .. n : g[i] = g[i - 1] + b[i]
  BY SumsAre
<1>3. /\ c \in Seq(Nat) /\ Len(c) = m + n
      /\ \A i \in 1 .. (m + n) : c[i] = IF i <= m THEN a[i] ELSE b[i - m]
  BY ConcatProperties
<1>4. \A i \in 1 .. m : a[i] \in Nat
  BY ElementOfSeq
<1>5. \A i \in 1 .. n : b[i] \in Nat
  BY ElementOfSeq
<1> HIDE DEF c
<1>6. h \in [0 .. (m + n) -> Nat] /\ h[0] = 0 /\ \A i \in 1 .. (m + n) : h[i] = h[i - 1] + c[i]
  BY <1>3, SumsAre
<1>7. j \in 0 .. n /\ Total(a) = f[m]
  BY DEF Total
<1> HIDE DEF m, n, f, g, h
<1>8. \A i \in 0 .. m : h[i] = f[i]
  <2> DEFINE G == {i \in 0 .. m : h[i] = f[i]}
  <2>1. 0 \in G
    BY <1>1, <1>6
  <2>2. \A i \in 1 .. m : i - 1 \in G => i \in G
    <3> SUFFICES ASSUME NEW i \in 1 .. m, h[i - 1] = f[i - 1] PROVE h[i] = f[i]
      BY <1>1
    <3>1. i \in 1 .. (m + n) /\ i <= m
      BY <1>1, <1>2
    <3>2. c[i] = a[i]
      BY <1>3, <3>1
    <3> QED BY <1>1, <1>6, <3>1, <3>2
  <2>3. G \in SUBSET (0 .. m)
    OBVIOUS
  <2> HIDE DEF G
  <2>4. G = 0 .. m
    BY <1>1, <2>1, <2>2, <2>3, UpTo
  <2> QED BY <2>4 DEF G
<1>9. \A i \in 0 .. n : h[m + i] = f[m] + g[i]
  <2> DEFINE G == {i \in 0 .. n : h[m + i] = f[m] + g[i]}
  <2>1. 0 \in G
    BY <1>1, <1>2, <1>8
  <2>2. \A i \in 1 .. n : i - 1 \in G => i \in G
    <3> SUFFICES ASSUME NEW i \in 1 .. n, h[m + (i - 1)] = f[m] + g[i - 1] PROVE h[m + i] = f[m] + g[i]
      BY <1>2
    <3>4. m + i \in 1 .. (m + n) /\ (m + i) - m = i /\ (m + i) - 1 = m + (i - 1) /\ ~(m + i <= m)
      BY <1>1, <1>2
    <3>5. c[m + i] = IF m + i <= m THEN a[m + i] ELSE b[(m + i) - m]
      BY <1>3, <3>4
    <3>1. m + i \in 1 .. (m + n) /\ c[m + i] = b[i] /\ (m + i) - 1 = m + (i - 1)
      BY <3>4, <3>5
    <3>2. h[m + i] = h[m + (i - 1)] + b[i]
      BY <1>6, <3>1
    <3>3. g[i] = g[i - 1] + b[i] /\ g[i - 1] \in Nat /\ b[i] \in Nat /\ f[m] \in Nat
      BY <1>1, <1>2, <1>5
    <3> QED BY <3>2, <3>3
  <2>3. G \in SUBSET (0 .. n)
    OBVIOUS
  <2> HIDE DEF G
  <2>4. G = 0 .. n
    BY <1>2, <2>1, <2>2, <2>3, UpTo
  <2> QED BY <2>4 DEF G
<1> QED BY <1>7, <1>9 DEF m, n, f, g, h, c

LEMMA SumsOfOne ==
  ASSUME NEW x \in Nat
  PROVE  Total(<<x>>) = x
<1> DEFINE s == <<x>>
<1>1. s \in Seq(Nat) /\ Len(s) = 1 /\ s[1] = x
  OBVIOUS
<1> HIDE DEF s
<1>2. Sums(s)[0] = 0 /\ \A i \in 1 .. 1 : Sums(s)[i] = Sums(s)[i - 1] + s[i]
  BY <1>1, SumsAre
<1>3. Sums(s)[1] = Sums(s)[0] + s[1]
  BY <1>2
<1> QED BY <1>1, <1>2, <1>3 DEF Total, s

LEMMA ConcatIsSeq ==
  ASSUME NEW a, IsSeq(a), NEW b, IsSeq(b)
  PROVE  /\ IsSeq(a \o b) /\ Len(a) \in Nat /\ Len(b) \in Nat /\ Len(a \o b) = Len(a) + Len(b)
         /\ \A i \in 1 .. (Len(a) + Len(b)) : (a \o b)[i] = IF i <= Len(a) THEN a[i] ELSE b[i - Len(a)]
<1> DEFINE S == {a[i] : i \in DOMAIN a} \cup {b[i] : i \in DOMAIN b}
<1>1. a \in Seq(S) /\ b \in Seq(S)
  BY SeqMonotonic DEF IsSeq
<1> HIDE DEF S
<1>2. a \o b \in Seq(S)
  BY <1>1, ConcatProperties
<1> QED BY <1>1, <1>2, ConcatProperties, LenProperties, SeqOfItself

LEMMA TailIsSeq ==
  ASSUME NEW s, IsSeq(s), s # <<>>
  PROVE  /\ IsSeq(Tail(s)) /\ Len(s) \in Nat \ {0} /\ Len(Tail(s)) = Len(s) - 1
         /\ \A i \in 1 .. (Len(s) - 1) : Tail(s)[i] = s[i + 1]
         /\ Head(s) = s[1] /\ s = <<Head(s)>> \o Tail(s) /\ IsSeq(<<Head(s)>>)
<1> DEFINE S == {s[i] : i \in DOMAIN s}
<1>1. s \in Seq(S)
  BY DEF IsSeq
<1> HIDE DEF S
<1>2. Len(s) \in Nat \ {0}
  BY <1>1, EmptySeq
<1>3. /\ Tail(s) \in Seq(S) /\ Len(Tail(s)) = Len(s) - 1 /\ Head(s) \in S
      /\ \A i \in 1 .. (Len(s) - 1) : Tail(s)[i] = s[i + 1]
  BY <1>1, HeadTailProperties
<1>4. Head(s) = s[1]
  OBVIOUS
<1>5. <<Head(s)>> \in Seq(S) /\ Len(<<Head(s)>>) = 1 /\ <<Head(s)>>[1] = s[1]
  BY <1>3, <1>4
<1>6. s = <<Head(s)>> \o Tail(s)
  <2> DEFINE h == <<Head(s)>>
             c == h \o Tail(s)
  <2>1. /\ c \in Seq(S) /\ Len(c) = Len(s)
        /\ \A i \in 1 .. Len(s) : c[i] = IF i <= 1 THEN h[1] ELSE Tail(s)[i - 1]
    <3> HIDE DEF h
    <3>1. h \in Seq(S) /\ Len(h) = 1
      BY <1>5 DEF h
    <3>2. c \in Seq(S) /\ Len(c) = Len(h) + Len(Tail(s))
      BY <1>3, <3>1, ConcatProperties
    <3>3. \A i \in 1 .. (Len(h) + Len(Tail(s))) :
            c[i] = IF i <= Len(h) THEN h[i] ELSE Tail(s)[i - Len(h)]
      <4>1. Tail(s) \in Seq(S)
        BY <1>3
      <4> QED BY <3>1, <4>1, ConcatProperties
    <3> HIDE DEF c
    <3> QED BY <1>2, <1>3, <3>1, <3>2, <3>3
  <2>2. h[1] = s[1]
    BY <1>5
  <2> HIDE DEF h, c
  <2>3. \A i \in 1 .. Len(s) : c[i] = s[i]
    <3> TAKE i \in 1 .. Len(s)
    <3>1. CASE i = 1
      BY <1>2, <2>1, <2>2, <3>1
    <3>2. CASE i # 1
      <4>1. i - 1 \in 1 .. (Len(s) - 1) /\ (i - 1) + 1 = i
        BY <1>2, <3>2
      <4>2. Tail(s)[i - 1] = s[i]
        BY <1>3, <4>1
      <4> QED BY <1>2, <2>1, <3>2, <4>2
    <3> QED BY <3>1, <3>2
  <2> QED BY <1>1, <2>1, <2>3, SeqEqual DEF c, h
<1>7. IsSeq(Tail(s)) /\ IsSeq(<<Head(s)>>)
  BY <1>3, <1>5, SeqOfItself
<1> QED BY <1>2, <1>3, <1>4, <1>6, <1>7

LEMMA AllTasksOfConcat ==
  ASSUME NEW Objects, NEW counted, NEW a, AllTasks(Objects, counted, a), NEW b, AllTasks(Objects, counted, b)
  PROVE  AllTasks(Objects, counted, a \o b)
<1>1. /\ IsSeq(a) /\ \A i \in 1 .. Len(a) : IsTask(Objects, counted, a[i])
      /\ IsSeq(b) /\ \A i \in 1 .. Len(b) : IsTask(Objects, counted, b[i])
  BY DEF AllTasks
<1> DEFINE c == a \o b
<1>2. /\ IsSeq(c) /\ Len(a) \in Nat /\ Len(b) \in Nat /\ Len(c) = Len(a) + Len(b)
      /\ \A i \in 1 .. (Len(a) + Len(b)) : c[i] = IF i <= Len(a) THEN a[i] ELSE b[i - Len(a)]
  BY <1>1, ConcatIsSeq
<1> HIDE DEF c
<1>3. \A i \in 1 .. Len(c) : IsTask(Objects, counted, c[i])
  <2> TAKE i \in 1 .. Len(c)
  <2>1. CASE i <= Len(a)
    <3>1. i \in 1 .. Len(a) /\ c[i] = a[i]
      BY <1>2, <2>1
    <3> QED BY <1>1, <3>1
  <2>2. CASE ~(i <= Len(a))
    <3>1. i - Len(a) \in 1 .. Len(b) /\ c[i] = b[i - Len(a)]
      BY <1>2, <2>2
    <3> QED BY <1>1, <3>1
  <2> QED BY <2>1, <2>2
<1> QED BY <1>2, <1>3 DEF AllTasks, c

LEMMA AllTasksOfTail ==
  ASSUME NEW Objects, NEW counted, NEW tasks, AllTasks(Objects, counted, tasks), tasks # <<>>
  PROVE  /\ IsTask(Objects, counted, Head(tasks)) /\ AllTasks(Objects, counted, Tail(tasks))
         /\ AllTasks(Objects, counted, <<Head(tasks)>>)
<1>1. IsSeq(tasks) /\ \A i \in 1 .. Len(tasks) : IsTask(Objects, counted, tasks[i])
  BY DEF AllTasks
<1>2. /\ IsSeq(Tail(tasks)) /\ Len(tasks) \in Nat \ {0} /\ Len(Tail(tasks)) = Len(tasks) - 1
      /\ \A i \in 1 .. (Len(tasks) - 1) : Tail(tasks)[i] = tasks[i + 1]
      /\ Head(tasks) = tasks[1] /\ IsSeq(<<Head(tasks)>>)
  BY <1>1, TailIsSeq
<1>3. IsTask(Objects, counted, Head(tasks))
  BY <1>1, <1>2
<1> DEFINE h == <<Head(tasks)>>
<1>4. Len(h) = 1 /\ h[1] = Head(tasks)
  OBVIOUS
<1> HIDE DEF h
<1>5. \A i \in 1 .. Len(h) : h[i] = Head(tasks)
  BY <1>4
<1>6. AllTasks(Objects, counted, h)
  BY <1>2, <1>3, <1>5 DEF AllTasks, h
<1>7. \A i \in 1 .. (Len(tasks) - 1) : i + 1 \in 1 .. Len(tasks)
  BY <1>2
<1>8. AllTasks(Objects, counted, Tail(tasks))
  BY <1>1, <1>2, <1>7 DEF AllTasks
<1> QED BY <1>3, <1>6, <1>8 DEF h

LEMMA CountedTaskIs ==
  ASSUME NEW Objects, Good(Objects, TRUE), NEW t, IsTask(Objects, TRUE, t)
  PROVE  CountedTask(t) /\ Own(t) \in Seq(Byte) /\ AllTasks(Objects, TRUE, Calls(t))
<1>1. t.op = "entry" => ~Misreads(t)
  BY CountedEntryReads
<1> QED BY <1>1, TaskIs

LEMMA SizesAre ==
  ASSUME NEW Objects, Good(Objects, TRUE), NEW tasks, AllTasks(Objects, TRUE, tasks)
  PROVE  Sizes(tasks) \in Seq(Nat) /\ Len(Sizes(tasks)) = Len(tasks) /\ Len(tasks) \in Nat
<1>1. IsSeq(tasks) /\ \A i \in 1 .. Len(tasks) : IsTask(Objects, TRUE, tasks[i])
  BY DEF AllTasks
<1>2. \A i \in 1 .. Len(tasks) : TaskSize(tasks[i]) \in Nat
  BY <1>1, CountedTaskIs DEF CountedTask
<1>3. Len(tasks) \in Nat
  BY <1>1, LenProperties DEF IsSeq
<1>4. Sizes(tasks) \in [1 .. Len(tasks) -> Nat]
  BY <1>2 DEF Sizes
<1>5. Sizes(tasks) \in Seq(Nat)
  BY <1>3, <1>4, IsASeq
<1> QED BY <1>3, <1>4, <1>5, LenProperties

SizesJoin(a, b) == Sizes(a \o b) = Sizes(a) \o Sizes(b)

LEMMA SizesOfConcat ==
  ASSUME NEW Objects, Good(Objects, TRUE), NEW a, AllTasks(Objects, TRUE, a), NEW b, AllTasks(Objects, TRUE, b)
  PROVE  SizesJoin(a, b)
<1> DEFINE c == a \o b
           x == Sizes(a)
           y == Sizes(b)
           z == Sizes(c)
<1>1. IsSeq(a) /\ IsSeq(b)
  BY DEF AllTasks
<1>2. /\ Len(a) \in Nat /\ Len(b) \in Nat /\ Len(c) = Len(a) + Len(b)
      /\ \A i \in 1 .. (Len(a) + Len(b)) : c[i] = IF i <= Len(a) THEN a[i] ELSE b[i - Len(a)]
  BY <1>1, ConcatIsSeq
<1>3. AllTasks(Objects, TRUE, c)
  BY AllTasksOfConcat
<1>4. \A i \in 1 .. Len(c) : z[i] = TaskSize(c[i])
  BY DEF Sizes
<1>5. \A i \in 1 .. Len(a) : x[i] = TaskSize(a[i])
  BY DEF Sizes
<1>6. \A i \in 1 .. Len(b) : y[i] = TaskSize(b[i])
  BY DEF Sizes
<1> HIDE DEF c
<1>7. x \in Seq(Nat) /\ y \in Seq(Nat) /\ z \in Seq(Nat) /\ Len(x) = Len(a) /\ Len(y) = Len(b) /\ Len(z) = Len(c)
  BY <1>3, SizesAre
<1> HIDE DEF x, y, z
<1> DEFINE w == x \o y
<1>8. /\ w \in Seq(Nat) /\ Len(w) = Len(x) + Len(y)
      /\ \A i \in 1 .. (Len(x) + Len(y)) : w[i] = IF i <= Len(x) THEN x[i] ELSE y[i - Len(x)]
  BY <1>7, ConcatProperties
<1> HIDE DEF w
<1>9. \A i \in 1 .. Len(z) : z[i] = w[i]
  <2> TAKE i \in 1 .. Len(z)
  <2>1. i \in 1 .. (Len(a) + Len(b)) /\ z[i] = TaskSize(c[i])
    BY <1>2, <1>4, <1>7
  <2>2. CASE i <= Len(a)
    <3>1. i \in 1 .. Len(a) /\ c[i] = a[i] /\ w[i] = x[i]
      BY <1>2, <1>7, <1>8, <2>1, <2>2
    <3> QED BY <1>5, <2>1, <3>1
  <2>3. CASE ~(i <= Len(a))
    <3>1. i - Len(a) \in 1 .. Len(b)
      BY <1>2, <2>1, <2>3
    <3>2. c[i] = b[i - Len(a)]
      BY <1>2, <2>1, <2>3
    <3>3. w[i] = y[i - Len(a)]
      BY <1>7, <1>8, <2>1, <2>3
    <3> QED BY <1>6, <2>1, <3>1, <3>2, <3>3
  <2> QED BY <2>2, <2>3
<1> QED BY <1>2, <1>7, <1>8, <1>9, SeqEqual DEF SizesJoin, c, x, y, z, w

\* What is left to be written until r tasks are left, of an agenda of which the
\* first converter has run.
After(tasks) == Calls(Head(tasks)) \o Tail(tasks)

ToWrite(tasks, r) == Sums(Sizes(tasks))[Len(tasks) - r]

LEMMA AfterIs ==
  ASSUME NEW Objects, Good(Objects, TRUE), NEW tasks, AllTasks(Objects, TRUE, tasks), tasks # <<>>
  PROVE  /\ AllTasks(Objects, TRUE, After(tasks))
         /\ Len(tasks) \in Nat \ {0} /\ Len(After(tasks)) \in Nat /\ Len(tasks) - 1 <= Len(After(tasks))
         /\ \A r \in 0 .. (Len(tasks) - 1) :
              /\ ToWrite(After(tasks), r) \in Nat
              /\ ToWrite(tasks, r) = Len(Own(Head(tasks))) + ToWrite(After(tasks), r)
         /\ ToWrite(After(tasks), Len(tasks) - 1) = Total(Sizes(Calls(Head(tasks))))
<1> DEFINE t == Head(tasks)
           sub == Calls(t)
           rest == Tail(tasks)
           k == Len(sub)
           n == Len(rest)
           own == Len(Own(t))
           f == Sums(Sizes(rest))
           total == Total(Sizes(sub))
<1>1. IsTask(Objects, TRUE, t) /\ AllTasks(Objects, TRUE, rest) /\ AllTasks(Objects, TRUE, <<t>>)
  BY AllTasksOfTail
<1>2. CountedTask(t) /\ Own(t) \in Seq(Byte) /\ AllTasks(Objects, TRUE, sub)
  BY <1>1, CountedTaskIs
<1>3. IsSeq(tasks) /\ IsSeq(sub) /\ IsSeq(rest)
  BY <1>1, <1>2 DEF AllTasks
<1>4. Len(tasks) \in Nat \ {0} /\ n = Len(tasks) - 1 /\ tasks = <<t>> \o rest
  BY <1>3, TailIsSeq
<1>5. /\ Sizes(rest) \in Seq(Nat) /\ Len(Sizes(rest)) = n /\ n \in Nat
      /\ Sizes(sub) \in Seq(Nat) /\ Len(Sizes(sub)) = k /\ k \in Nat
  BY <1>1, <1>2, SizesAre
<1>6. f \in [0 .. n -> Nat] /\ f[0] = 0
  BY <1>5, SumsAre
<1>7. total \in Nat /\ own \in Nat
  BY <1>2, <1>5, TotalIs, LenProperties
<1>8. TaskSize(t) \in Nat /\ TaskSize(t) = own + total
  BY <1>2 DEF CountedTask
<1>9. Sizes(<<t>>) = <<TaskSize(t)>>
  <2> DEFINE s == <<t>>
  <2>1. Len(s) = 1 /\ s[1] = t
    OBVIOUS
  <2> HIDE DEF s
  <2>2. Sizes(s) = [i \in 1 .. 1 |-> TaskSize(s[i])]
    BY <2>1 DEF Sizes
  <2>3. Sizes(s) = [i \in 1 .. 1 |-> TaskSize(t)]
    BY <2>1, <2>2
  <2> QED BY <2>3 DEF s
<1>10. \A j \in 0 .. n : Sums(Sizes(tasks))[1 + j] = TaskSize(t) + f[j]
  <2> TAKE j \in 0 .. n
  <2> DEFINE s == <<TaskSize(t)>>
  <2>1. Sizes(tasks) = s \o Sizes(rest)
    <3> DEFINE one == <<t>>
    <3>1. AllTasks(Objects, TRUE, one) /\ AllTasks(Objects, TRUE, rest)
      BY <1>1
    <3>2. tasks = one \o rest /\ Sizes(one) = s
      BY <1>4, <1>9
    <3> HIDE DEF one, rest, s
    <3>3. SizesJoin(one, rest)
      BY <3>1, SizesOfConcat
    <3> QED BY <3>2, <3>3 DEF SizesJoin
  <2>2. s \in Seq(Nat) /\ Len(s) = 1
    BY <1>8
  <2>3. Total(s) = TaskSize(t)
    BY <1>8, SumsOfOne
  <2> HIDE DEF s, t, rest, n, f
  <2>4. j \in 0 .. Len(Sizes(rest))
    BY <1>5
  <2>5. Sums(s \o Sizes(rest))[Len(s) + j] = Total(s) + Sums(Sizes(rest))[j]
    BY <1>5, <2>2, <2>4, SumsOfConcat
  <2> QED BY <2>1, <2>2, <2>3, <2>5 DEF f
<1>11. \A j \in 0 .. n : Sums(Sizes(After(tasks)))[k + j] = total + f[j]
  <2> TAKE j \in 0 .. n
  <2>1. Sizes(After(tasks)) = Sizes(sub) \o Sizes(rest)
    <3>1. After(tasks) = sub \o rest
      BY DEF After
    <3> HIDE DEF sub, rest
    <3>2. SizesJoin(sub, rest)
      BY <1>1, <1>2, SizesOfConcat
    <3> QED BY <3>1, <3>2 DEF SizesJoin
  <2> HIDE DEF sub, rest, n, k
  <2>2. j \in 0 .. Len(Sizes(rest))
    BY <1>5
  <2>3. Sums(Sizes(sub) \o Sizes(rest))[Len(Sizes(sub)) + j] = Total(Sizes(sub)) + Sums(Sizes(rest))[j]
    BY <1>5, <2>2, SumsOfConcat
  <2> QED BY <1>5, <2>1, <2>3
<1>12. AllTasks(Objects, TRUE, After(tasks))
  BY <1>1, <1>2, AllTasksOfConcat DEF After
<1>13. Len(After(tasks)) = k + n
  BY <1>3, ConcatIsSeq DEF After
<1> DEFINE m == Len(tasks)
           l == Len(After(tasks))
<1>14. m = n + 1 /\ l = k + n /\ m \in Nat \ {0} /\ l \in Nat /\ m - 1 <= l
  BY <1>4, <1>5, <1>13
<1> HIDE DEF t, sub, rest, k, n, own, f, total
<1>15. ASSUME NEW r \in 0 .. (m - 1)
       PROVE  /\ ToWrite(After(tasks), r) = total + f[n - r] /\ n - r \in 0 .. n
              /\ ToWrite(tasks, r) = TaskSize(t) + f[n - r]
  <2>1. n - r \in 0 .. n /\ l - r = k + (n - r) /\ m - r = 1 + (n - r)
    BY <1>5, <1>14
  <2>2. ToWrite(After(tasks), r) = Sums(Sizes(After(tasks)))[k + (n - r)]
    BY <2>1 DEF ToWrite
  <2>3. ToWrite(tasks, r) = Sums(Sizes(tasks))[1 + (n - r)]
    BY <2>1 DEF ToWrite
  <2> HIDE DEF m, l
  <2> QED BY <1>10, <1>11, <2>1, <2>2, <2>3
<1>16. ASSUME NEW r \in 0 .. (m - 1)
       PROVE  /\ ToWrite(After(tasks), r) \in Nat
              /\ ToWrite(tasks, r) = own + ToWrite(After(tasks), r)
  <2>1. f[n - r] \in Nat
    BY <1>6, <1>15
  <2> HIDE DEF m
  <2> QED BY <1>7, <1>8, <1>15, <2>1
<1>17. ToWrite(After(tasks), m - 1) = total
  <2>1. m - 1 \in 0 .. (m - 1) /\ n - (m - 1) = 0
    BY <1>5, <1>14
  <2>2. ToWrite(After(tasks), m - 1) = total + f[0]
    BY <1>15, <2>1
  <2> QED BY <1>6, <1>7, <2>2
<1> QED BY <1>12, <1>14, <1>16, <1>17 DEF t, sub, own, total
-----------------------------------------------------------------------------
(* Steps.                                                                    *)

\* A step of doConvert, for all converters at once: the current one writes its
\* bytes and puts the tasks it calls in front of the others,
Moves ==
  /\ phase = "converting" /\ agenda # <<>> /\ (Current.op = "entry" => ~Misreads(Current))
  /\ agenda' = After(agenda) /\ out' = out \o Own(Current)
  /\ open' = IF HasLength(Current)
               THEN StillOpen \cup {[rest |-> Len(agenda) - 1, end |-> Len(out') + Announced(Current)]}
               ELSE StillOpen
  /\ UNCHANGED <<ndebug, phase, message, nByteSize, region, hasTarget, ret, calls>>

\* or the call ends there.
Stops ==
  /\ phase = "converting" /\ phase' \in {"aborted", "undefined"}
  /\ UNCHANGED <<ndebug, message, agenda, nByteSize, region, out, hasTarget, ret, calls, open>>

\* Bytes that are written behind others.
LEMMA EmitPrefixedIs ==
  ASSUME NEW tag \in Seq(Byte), NEW n \in Nat, NEW tasks, out \in Seq(Byte), EmitPrefixed(tag, n, tasks)
  PROVE  /\ out' = out \o (tag \o VarintBytes[n]) /\ agenda' = tasks \o Tail(agenda)
         /\ open' = StillOpen \cup {[rest |-> Len(agenda) - 1, end |-> Len(out') + n]}
<1>1. VarintBytes[n] \in Seq(Byte)
  BY DelimitedIs
<1>2. (out \o tag) \o VarintBytes[n] = out \o (tag \o VarintBytes[n])
  <2>1. \A a, b, c \in Seq(Byte) : (a \o b) \o c = a \o (b \o c)
    OBVIOUS
  <2> DEFINE length == VarintBytes[n]
  <2>2. length \in Seq(Byte)
    BY <1>1
  <2> HIDE DEF length
  <2>3. (out \o tag) \o length = out \o (tag \o length)
    BY <2>1, <2>2
  <2> QED BY <2>3 DEF length
<1> QED BY <1>2 DEF EmitPrefixed

LEMMA ConvertIs ==
  ASSUME NEW Objects, Typed(Objects), AllTasks(Objects, FALSE, agenda), out \in Seq(Byte), Convert
  PROVE  Moves \/ Stops
<1>1. ASSUME agenda # <<>> PROVE IsTask(Objects, FALSE, Current)
  BY <1>1, AllTasksOfTail DEF Current
<1>2. CASE ConvertScalar
  <2> USE <1>2 DEF ConvertScalar, Converting
  <2>1. Current.op = "value" /\ ~IsMessage(Current.cpp)
    OBVIOUS
  <2>2. Calls(Current) = <<>> /\ ~HasLength(Current)
    BY <2>1 DEF Calls, HasLength
  <2>3. out' = out \o Own(Current) /\ agenda' = <<>> \o Tail(agenda) /\ open' = StillOpen
    <3>1. CASE Current.has /\ IsZero(Current.cpp, Current.v)
      <4>1. Own(Current) = <<>>
        BY <2>1, <3>1 DEF Own
      <4> QED BY <3>1, <4>1 DEF Emit
    <3>2. CASE ~(Current.has /\ IsZero(Current.cpp, Current.v))
      <4>1. Own(Current) = Current.tag \o ScalarBytes(Current.cpp, Current.type, Current.v)
        BY <2>1, <3>2 DEF Own
      <4> QED BY <3>2, <4>1 DEF Emit
    <3> QED BY <3>1, <3>2
  <2> QED BY <2>1, <2>2, <2>3 DEF Moves, After, Current
<1>3. CASE ConvertMessage
  <2> USE <1>3 DEF ConvertMessage, Converting
  <2>1. agenda # <<>> /\ Current.op = "value" /\ IsMessage(Current.cpp)
    OBVIOUS
  <2>2. Current.tag \in Seq(Byte) /\ GetByteSize(Current.cpp, Current.v) \in Nat
    BY <1>1, <2>1, ValueTaskIs
  <2>3. /\ Calls(Current) = FieldTasks(Current.cpp, Current.v) /\ HasLength(Current)
        /\ Own(Current) = Current.tag \o VarintBytes[GetByteSize(Current.cpp, Current.v)]
        /\ Announced(Current) = GetByteSize(Current.cpp, Current.v)
    BY <2>1 DEF Calls, HasLength, Own, Announced
  <2>4. EmitPrefixed(Current.tag, GetByteSize(Current.cpp, Current.v), FieldTasks(Current.cpp, Current.v))
    OBVIOUS
  <2>5. /\ out' = out \o Own(Current) /\ agenda' = Calls(Current) \o Tail(agenda)
        /\ open' = StillOpen \cup {[rest |-> Len(agenda) - 1, end |-> Len(out') + Announced(Current)]}
    BY <2>2, <2>3, <2>4, EmitPrefixedIs
  <2> QED BY <2>1, <2>3, <2>5 DEF Moves, After, Current
<1>4. CASE ConvertArray
  <2> USE <1>4 DEF ConvertArray, Converting
  <2>1. Current.op = "vector" /\ Current.item.low = TYPE_VARINT
    OBVIOUS
  <2>2. /\ Calls(Current) = ArrayTasks(Current.item, Current.v) /\ ~HasLength(Current)
        /\ Own(Current) = <<>>
    BY <2>1 DEF Calls, HasLength, Own
  <2> QED BY <2>1, <2>2 DEF Moves, After, Current, Emit
<1>5. CASE ConvertPack
  <2> USE <1>5 DEF ConvertPack, Converting
  <2>1. Current.op = "vector" /\ Current.item.low # TYPE_VARINT
    OBVIOUS
  <2>2. /\ Calls(Current) = PackTasks(Current.item, Current.v) /\ ~HasLength(Current)
        /\ Own(Current) = PackBytes(Current.item, Current.v)
    BY <2>1 DEF Calls, HasLength, Own
  <2> QED BY <2>1, <2>2 DEF Moves, After, Current, Emit
<1>6. CASE ConvertMap
  <2> USE <1>6 DEF ConvertMap, Converting
  <2>1. Current.op = "map"
    OBVIOUS
  <2>2. /\ Calls(Current) = EntryTasks(Current.item, Current.v) /\ ~HasLength(Current)
        /\ Own(Current) = <<>>
    BY <2>1 DEF Calls, HasLength, Own
  <2> QED BY <2>1, <2>2 DEF Moves, After, Current, Emit
<1>7. CASE ConvertEntry
  <2> USE <1>7 DEF ConvertEntry, Converting
  <2>1. agenda # <<>> /\ Current.op = "entry" /\ ~Misreads(Current)
    BY DEF EntryMisread, Misreads
  <2> DEFINE tag == Tag(Current.item.num, WT_LENGTH_DELIMITED)
  <2>2. tag \in Seq(Byte)
    <3>1. IsItem(Current.item)
      BY <1>1, <2>1 DEF IsTask
    <3> QED BY <3>1, ItemsAre, TagIs, WireTypesAre
  <2>3. EntrySize(Current) \in Nat
    BY <1>1, <2>1, EntryIs
  <2>4. /\ Calls(Current) = <<EntryKey(Current), EntryMapped(Current)>> /\ HasLength(Current)
        /\ Own(Current) = tag \o VarintBytes[EntrySize(Current)]
        /\ Announced(Current) = EntrySize(Current)
    BY <2>1 DEF Calls, HasLength, Own, Announced
  <2>5. EmitPrefixed(tag, EntrySize(Current), <<EntryKey(Current), EntryMapped(Current)>>)
    OBVIOUS
  <2> HIDE DEF tag
  <2>6. /\ out' = out \o Own(Current) /\ agenda' = Calls(Current) \o Tail(agenda)
        /\ open' = StillOpen \cup {[rest |-> Len(agenda) - 1, end |-> Len(out') + Announced(Current)]}
    BY <2>2, <2>3, <2>4, <2>5, EmitPrefixedIs
  <2> QED BY <2>1, <2>4, <2>6 DEF Moves, After, Current
<1>8. CASE MessageAborts \/ ConvertPackUnbound \/ ConvertEntryMisreads \/ ConvertEntryRunsOff
  BY <1>8 DEF MessageAborts, ConvertPackUnbound, ConvertEntryMisreads, ConvertEntryRunsOff, Leaves, Stops
<1> QED BY <1>2, <1>3, <1>4, <1>5, <1>6, <1>7, <1>8 DEF Convert
-----------------------------------------------------------------------------
(* The type invariant.                                                       *)

Kinds(Objects) ==
  /\ TypeOK
  /\ AllTasks(Objects, FALSE, agenda)
  /\ phase \in {"reserving", "converting"} => calls < MaxCalls

\* An encoder that has not been called.
Fresh ==
  /\ ndebug \in Builds /\ message \in Messages
  /\ phase = "idle" /\ agenda = <<>> /\ nByteSize = 0 /\ region = 0
  /\ out = <<>> /\ hasTarget = FALSE /\ ret = FALSE /\ calls = 0 /\ open = {}

LEMMA InitFresh == Init => Fresh
BY EncoderAssumption DEF Init, Fresh

LEMMA KindsInit ==
  ASSUME NEW Objects, Fresh
  PROVE  Kinds(Objects)
<1> USE DEF Fresh
<1>1. message \in Messages
  OBVIOUS
<1>2. AllTasks(Objects, FALSE, agenda)
  BY NoTasks
<1>3. agenda = <<>> /\ out \in Seq(Byte) /\ DOMAIN agenda = {}
  BY EmptySeq
<1>4. 0 \in Num32
  BY WidthsAre DEF Num32
<1>5. 0 \in 0 .. MaxCalls
  BY EncoderAssumption
<1>6. /\ ndebug \in Builds /\ phase = "idle" /\ nByteSize = 0 /\ region = 0 /\ open = {}
      /\ hasTarget = FALSE /\ ret = FALSE /\ calls = 0
  OBVIOUS
<1> HIDE DEF Fresh
<1> QED BY <1>1, <1>2, <1>3, <1>4, <1>5, <1>6 DEF Kinds, TypeOK

LEMMA OpsAre ==
  ASSUME NEW Objects, NEW tasks, AllTasks(Objects, FALSE, tasks)
  PROVE  \A i \in DOMAIN tasks : tasks[i].op \in {"value", "vector", "map", "entry"}
<1>1. IsSeq(tasks)
  BY DEF AllTasks
<1>2. DOMAIN tasks = 1 .. Len(tasks)
  BY <1>1, LenProperties DEF IsSeq
<1>3. \A i \in 1 .. Len(tasks) : IsTask(Objects, FALSE, tasks[i])
  BY DEF AllTasks
<1> QED BY <1>2, <1>3 DEF IsTask

LEMMA KindsStep ==
  ASSUME NEW Objects, Messages \subseteq Objects, Typed(Objects), Kinds(Objects), [Next]_vars
  PROVE  Kinds(Objects)'
<1> USE DEF Kinds
<1>1. CASE Begin
  <2>1. PICK m \in Messages : /\ message' = m /\ agenda' = FieldTasks(m.struct, m.value)
                              /\ nByteSize' = GetByteSize(m.struct, m.value)
    BY <1>1 DEF Begin
  <2>2. m \in Objects
    BY <2>1
  <2>3. AllTasks(Objects, FALSE, agenda') /\ nByteSize' \in Nat
    BY <2>1, <2>2, FieldTasksAre
  <2>4. \A i \in DOMAIN agenda' : agenda'[i].op \in {"value", "vector", "map", "entry"}
    BY <2>3, OpsAre
  <2> QED BY <1>1, <2>1, <2>3, <2>4 DEF Begin, TypeOK
<1>2. CASE BeginAborts
  BY <1>2 DEF BeginAborts, TypeOK
<1>3. CASE Reserve
  <2>1. nByteSize % Mod32 \in Num32
    BY WidthsAre DEF TypeOK, Num32
  <2>2. <<>> \in Seq(Byte)
    BY EmptySeq
  <2> QED BY <1>3, <2>1, <2>2 DEF Reserve, TypeOK
<1>4. CASE ReserveAborts
  BY <1>4 DEF ReserveAborts, TypeOK
<1>5. CASE Convert
  <2>1. AllTasks(Objects, FALSE, agenda) /\ out \in Seq(Byte)
    BY DEF TypeOK
  <2>2. Moves \/ Stops
    BY <1>5, <2>1, ConvertIs
  <2>3. CASE Stops
    BY <2>3 DEF Stops, TypeOK
  <2>4. CASE Moves
    <3>1. /\ agenda # <<>> /\ (Current.op = "entry" => ~Misreads(Current))
          /\ agenda' = Calls(Current) \o Tail(agenda) /\ out' = out \o Own(Current)
      BY <2>4 DEF Moves, After, Current
    <3>2. IsTask(Objects, FALSE, Current) /\ AllTasks(Objects, FALSE, Tail(agenda))
      BY <2>1, <3>1, AllTasksOfTail DEF Current
    <3>3. Good(Objects, FALSE)
      BY DEF Good
    <3>4. /\ Own(Current) \in Seq(Byte) /\ AllTasks(Objects, FALSE, Calls(Current))
          /\ HasLength(Current) => Announced(Current) \in Nat
      BY <3>1, <3>2, <3>3, TaskIs
    <3>5. out' \in Seq(Byte) /\ Len(out') \in Nat
      BY <2>1, <3>1, <3>4, ConcatProperties, LenProperties
    <3>6. AllTasks(Objects, FALSE, agenda')
      BY <3>1, <3>2, <3>4, AllTasksOfConcat
    <3>7. \A i \in DOMAIN agenda' : agenda'[i].op \in {"value", "vector", "map", "entry"}
      BY <3>6, OpsAre
    <3>8. \A o \in open' : o.rest \in Nat /\ o.end \in Nat
      <4>1. Len(agenda) - 1 \in Nat
        <5>1. IsSeq(agenda)
          BY <2>1 DEF AllTasks
        <5> QED BY <3>1, <5>1, TailIsSeq
      <4>2. \A o \in StillOpen : o.rest \in Nat /\ o.end \in Nat
        BY DEF StillOpen, TypeOK
      <4>3. CASE HasLength(Current)
        <5>1. Len(out') + Announced(Current) \in Nat
          BY <3>4, <3>5, <4>3
        <5>2. open' = StillOpen \cup {[rest |-> Len(agenda) - 1, end |-> Len(out') + Announced(Current)]}
          BY <2>4, <4>3 DEF Moves
        <5> QED BY <4>1, <4>2, <5>1, <5>2
      <4>4. CASE ~HasLength(Current)
        BY <2>4, <4>2, <4>4 DEF Moves
      <4> QED BY <4>3, <4>4
    <3> QED BY <2>4, <3>5, <3>6, <3>7, <3>8 DEF Moves, TypeOK
  <2> QED BY <2>2, <2>3, <2>4
<1>6. CASE Finish
  <2>1. calls + 1 \in 0 .. MaxCalls
    BY <1>6, EncoderAssumption DEF Finish, TypeOK
  <2> QED BY <1>6, <2>1 DEF Finish, TypeOK
<1>7. CASE UNCHANGED vars
  BY <1>7 DEF vars, TypeOK
<1> QED BY <1>1, <1>2, <1>3, <1>4, <1>5, <1>6, <1>7 DEF Next

\* The variables hold values of their kinds, whatever the objects are that the
\* program encodes: each field is of its type.
THEOREM TypeCorrect ==
  ASSUME NEW Objects, Messages \subseteq Objects, Typed(Objects)
  PROVE  Spec => []TypeOK
<1>1. Init => Kinds(Objects)
  BY InitFresh, KindsInit
<1>2. Kinds(Objects) /\ [Next]_vars => Kinds(Objects)'
  BY KindsStep
<1>3. Kinds(Objects) => TypeOK
  BY DEF Kinds
<1> QED BY <1>1, <1>2, <1>3, PTL DEF Spec
-----------------------------------------------------------------------------
(* The schedule.                                                             *)

\* Bytes of this call that are written.
Written == IF phase = "converting" THEN Len(out) ELSE 0

\* What is written and what the tasks are to write make up what getByteSize answered
\* and, up to the task where a length prefix ends, what the prefix says.
OnSchedule(Objects) ==
  message \in Objects /\ phase \in {"reserving", "converting"} =>
    /\ AllTasks(Objects, TRUE, agenda)
    /\ nByteSize = Written + ToWrite(agenda, 0)
    /\ \A o \in open : o.rest \in 0 .. Len(agenda) /\ o.end = Written + ToWrite(agenda, o.rest)

Asked ==
  /\ phase \in {"reserving", "converting"} => nByteSize = GetByteSize(message.struct, message.value)
  /\ phase = "reserving" => open = {}
  /\ phase = "converting" => region = nByteSize % Mod32

Finished(Objects) ==
  Encoded /\ message \in Objects =>
    /\ ret /\ Len(out) = nByteSize /\ region = nByteSize % Mod32
    /\ nByteSize = GetByteSize(message.struct, message.value)

Exact(Objects) == message \in Objects => LengthPrefixesExact

Schedule(Objects) == OnSchedule(Objects) /\ Asked /\ Finished(Objects) /\ Exact(Objects)

LEMMA ToWriteIs ==
  ASSUME NEW Objects, Good(Objects, TRUE), NEW tasks, AllTasks(Objects, TRUE, tasks)
  PROVE  /\ Len(tasks) \in Nat /\ \A r \in 0 .. Len(tasks) : ToWrite(tasks, r) \in Nat
         /\ ToWrite(tasks, Len(tasks)) = 0 /\ ToWrite(tasks, 0) = Total(Sizes(tasks))
<1> DEFINE s == Sizes(tasks)
           n == Len(tasks)
<1>1. s \in Seq(Nat) /\ Len(s) = n /\ n \in Nat
  BY SizesAre
<1> HIDE DEF s, n
<1>2. Sums(s) \in [0 .. n -> Nat] /\ Sums(s)[0] = 0
  BY <1>1, SumsAre
<1>3. \A r \in 0 .. n : n - r \in 0 .. n
  BY <1>1
<1>4. \A r \in 0 .. n : Sums(s)[n - r] \in Nat
  BY <1>2, <1>3
<1>5. n - n = 0 /\ n - 0 = n
  BY <1>1
<1> QED BY <1>1, <1>2, <1>4, <1>5 DEF ToWrite, Total, s, n

\* On schedule, no length prefix says more or less than is written.
LEMMA OpensAreExact ==
  ASSUME NEW Objects, Good(Objects, TRUE), NEW tasks, AllTasks(Objects, TRUE, tasks),
         NEW bytes \in Seq(Byte), NEW opens,
         \A o \in opens : o.rest \in 0 .. Len(tasks) /\ o.end = Len(bytes) + ToWrite(tasks, o.rest)
  PROVE  \A o \in opens : Len(bytes) <= o.end /\ (Len(tasks) = o.rest => Len(bytes) = o.end)
<1>1. /\ Len(tasks) \in Nat /\ \A r \in 0 .. Len(tasks) : ToWrite(tasks, r) \in Nat
      /\ ToWrite(tasks, Len(tasks)) = 0
  BY ToWriteIs
<1>2. Len(bytes) \in Nat
  BY LenProperties
<1> TAKE o \in opens
<1>3. o.rest \in 0 .. Len(tasks) /\ o.end = Len(bytes) + ToWrite(tasks, o.rest)
  OBVIOUS
<1>4. ToWrite(tasks, o.rest) \in Nat
  BY <1>1, <1>3
<1>5. Len(tasks) = o.rest => ToWrite(tasks, o.rest) = 0
  BY <1>1
<1> QED BY <1>2, <1>3, <1>4, <1>5

\* On schedule, the bytes never exceed the answer of getByteSize.
LEMMA ScheduleIsKept ==
  ASSUME NEW Objects, Good(Objects, TRUE), OnSchedule(Objects), message \in Objects, phase = "converting",
         out \in Seq(Byte)
  PROVE  Len(out) <= nByteSize /\ (agenda = <<>> => Len(out) = nByteSize)
<1>1. AllTasks(Objects, TRUE, agenda) /\ nByteSize = Len(out) + ToWrite(agenda, 0)
  BY DEF OnSchedule, Written
<1>2. /\ Len(agenda) \in Nat /\ \A r \in 0 .. Len(agenda) : ToWrite(agenda, r) \in Nat
      /\ ToWrite(agenda, Len(agenda)) = 0
  BY <1>1, ToWriteIs
<1>3. Len(out) \in Nat
  BY LenProperties
<1>4. ToWrite(agenda, 0) \in Nat
  BY <1>2
<1>5. agenda = <<>> => ToWrite(agenda, 0) = 0
  <2> SUFFICES ASSUME agenda = <<>> PROVE ToWrite(agenda, 0) = 0
    OBVIOUS
  <2>1. Len(agenda) = 0
    BY EmptySeq
  <2> QED BY <1>2, <2>1
<1> QED BY <1>1, <1>3, <1>4, <1>5

\* The step of a converter keeps the schedule.
LEMMA MovesOnSchedule ==
  ASSUME NEW Objects, Good(Objects, TRUE), OnSchedule(Objects), out \in Seq(Byte), Moves
  PROVE  OnSchedule(Objects)'
<1> SUFFICES ASSUME message \in Objects
             PROVE  /\ AllTasks(Objects, TRUE, agenda')
                    /\ nByteSize = Len(out') + ToWrite(agenda', 0)
                    /\ \A o \in open' : /\ o.rest \in 0 .. Len(agenda')
                                        /\ o.end = Len(out') + ToWrite(agenda', o.rest)
  BY DEF OnSchedule, Moves, Written
<1> DEFINE n == Len(agenda)
           own == Len(Own(Current))
           end == Len(out') + Announced(Current)
<1>1. /\ AllTasks(Objects, TRUE, agenda) /\ nByteSize = Len(out) + ToWrite(agenda, 0)
      /\ \A o \in open : o.rest \in 0 .. n /\ o.end = Len(out) + ToWrite(agenda, o.rest)
  BY DEF OnSchedule, Moves, Written
<1>2. agenda # <<>> /\ agenda' = After(agenda) /\ out' = out \o Own(Current)
  BY DEF Moves
<1>3. /\ AllTasks(Objects, TRUE, agenda')
      /\ n \in Nat \ {0} /\ Len(agenda') \in Nat /\ n - 1 <= Len(agenda')
  BY <1>1, <1>2, AfterIs
<1>4. \A r \in 0 .. (n - 1) : /\ ToWrite(agenda', r) \in Nat
                              /\ ToWrite(agenda, r) = own + ToWrite(agenda', r)
  BY <1>1, <1>2, AfterIs DEF Current
<1>5. ToWrite(agenda', n - 1) = Total(Sizes(Calls(Current)))
  BY <1>1, <1>2, AfterIs DEF Current
<1>6. CountedTask(Current) /\ Own(Current) \in Seq(Byte)
  <2>1. IsTask(Objects, TRUE, Current)
    BY <1>1, <1>2, AllTasksOfTail DEF Current
  <2> QED BY <2>1, CountedTaskIs
<1>7. Len(out) \in Nat /\ own \in Nat /\ Len(out') = Len(out) + own
  BY <1>2, <1>6, LenProperties, ConcatProperties
<1>8. HasLength(Current) => end = Len(out') + ToWrite(agenda', n - 1)
  BY <1>5, <1>6 DEF CountedTask
<1>9. open' = IF HasLength(Current) THEN StillOpen \cup {[rest |-> n - 1, end |-> end]} ELSE StillOpen
  BY DEF Moves
<1> HIDE DEF n, own, end
<1>10. \A r \in 0 .. (n - 1) : /\ r \in 0 .. Len(agenda')
                               /\ Len(out) + ToWrite(agenda, r) = Len(out') + ToWrite(agenda', r)
  <2> TAKE r \in 0 .. (n - 1)
  <2>1. r \in 0 .. Len(agenda')
    BY <1>3
  <2>2. ToWrite(agenda', r) \in Nat /\ ToWrite(agenda, r) = own + ToWrite(agenda', r)
    BY <1>4
  <2> QED BY <1>7, <2>1, <2>2
<1>11. nByteSize = Len(out') + ToWrite(agenda', 0)
  <2>1. 0 \in 0 .. (n - 1)
    BY <1>3
  <2> QED BY <1>1, <1>10, <2>1
<1>12. ASSUME NEW o \in StillOpen
       PROVE  o.rest \in 0 .. Len(agenda') /\ o.end = Len(out') + ToWrite(agenda', o.rest)
  <2>1. o \in open /\ o.rest < n
    BY DEF StillOpen, n
  <2>2. o.rest \in 0 .. n /\ o.end = Len(out) + ToWrite(agenda, o.rest)
    BY <1>1, <2>1 DEF n
  <2>3. o.rest \in 0 .. (n - 1)
    BY <1>3, <2>1, <2>2
  <2> QED BY <1>10, <2>2, <2>3
<1>13. ASSUME NEW o \in open'
       PROVE  o.rest \in 0 .. Len(agenda') /\ o.end = Len(out') + ToWrite(agenda', o.rest)
  <2>1. CASE o \in StillOpen
    BY <1>12, <2>1
  <2>2. CASE o \notin StillOpen
    <3>1. HasLength(Current) /\ o = [rest |-> n - 1, end |-> end]
      BY <1>9, <2>2
    <3>2. n - 1 \in 0 .. (n - 1)
      BY <1>3
    <3>3. n - 1 \in 0 .. Len(agenda')
      BY <1>10, <3>2
    <3> QED BY <1>8, <3>1, <3>3
  <2> QED BY <2>1, <2>2
<1> QED BY <1>3, <1>11, <1>13

LEMMA ScheduleStep ==
  ASSUME NEW Objects, Messages \subseteq Objects, Typed(Objects), Kinds(Objects),
         NEW Counting, Typed(Counting), CountsAsWritten(Counting), Schedule(Counting), [Next]_vars
  PROVE  Schedule(Counting)'
<1> USE DEF Schedule, Asked, Finished, Exact, Encoded
<1>1. Good(Counting, TRUE)
  BY DEF Good
<1>2. out \in Seq(Byte) /\ AllTasks(Objects, FALSE, agenda) /\ nByteSize \in Nat
  BY DEF Kinds, TypeOK
<1>3. CASE Begin
  <2> USE <1>3 DEF Begin
  <2>1. PICK m \in Messages : /\ message' = m /\ agenda' = FieldTasks(m.struct, m.value)
                              /\ nByteSize' = GetByteSize(m.struct, m.value)
    OBVIOUS
  <2>2. phase' = "reserving" /\ open' = {} /\ Written' = 0
    BY DEF Written
  <2>3. ASSUME m \in Counting
        PROVE  AllTasks(Counting, TRUE, agenda') /\ nByteSize' = 0 + ToWrite(agenda', 0)
    <3>1. AllTasks(Counting, TRUE, agenda')
      BY <2>1, <2>3, FieldTasksAre
    <3>2. /\ AllTasks(Counting, TRUE, FieldTasks(m.struct, m.value)) /\ GetByteSize(m.struct, m.value) \in Nat
          /\ TRUE => GetByteSize(m.struct, m.value) = Total(Sizes(FieldTasks(m.struct, m.value)))
      <4> HIDE DEF Schedule, Asked, Finished, Exact, Begin
      <4> DEFINE counted == TRUE
      <4>1. counted => CountsAsWritten(Counting)
        OBVIOUS
      <4> QED BY <2>3, <4>1, FieldTasksAre
    <3>3. nByteSize' = Total(Sizes(agenda')) /\ nByteSize' \in Nat
      BY <2>1, <3>2
    <3>4. ToWrite(agenda', 0) = Total(Sizes(agenda'))
      BY <1>1, <3>1, ToWriteIs
    <3> DEFINE left == ToWrite(agenda', 0)
    <3>5. nByteSize' = left /\ left \in Nat
      BY <3>3, <3>4
    <3> HIDE DEF left
    <3>6. nByteSize' = 0 + left
      BY <3>5
    <3> QED BY <3>1, <3>6 DEF left
  <2>4. OnSchedule(Counting)'
    BY <2>1, <2>2, <2>3 DEF OnSchedule
  <2>5. Exact(Counting)'
    BY <2>2 DEF LengthPrefixesExact
  <2> HIDE DEF Exact
  <2> QED BY <2>1, <2>2, <2>4, <2>5
<1>4. CASE BeginAborts
  BY <1>4 DEF BeginAborts, OnSchedule, LengthPrefixesExact
<1>5. CASE Reserve
  <2> USE <1>5 DEF Reserve
  <2>1. open' = {} /\ Written = 0 /\ Written' = 0 /\ phase = "reserving" /\ phase' = "converting"
    BY EmptySeq DEF Written
  <2>2. OnSchedule(Counting)'
    BY <2>1 DEF OnSchedule
  <2>3. Exact(Counting)'
    BY <2>1 DEF LengthPrefixesExact
  <2> HIDE DEF Exact
  <2> QED BY <2>1, <2>2, <2>3
<1>6. CASE ReserveAborts
  BY <1>6 DEF ReserveAborts, OnSchedule, LengthPrefixesExact
<1>7. CASE Convert
  <2>1. Moves \/ Stops
    BY <1>2, <1>7, ConvertIs
  <2>2. CASE Stops
    BY <2>2 DEF Stops, OnSchedule, LengthPrefixesExact
  <2>3. CASE Moves
    <3>1. OnSchedule(Counting)'
      BY <1>1, <1>2, <2>3, MovesOnSchedule
    <3>2. phase = "converting" /\ phase' = "converting" /\ message' = message
      BY <2>3 DEF Moves
    <3>3. out' \in Seq(Byte)
      <4>1. Kinds(Objects)'
        BY KindsStep
      <4> QED BY <4>1 DEF Kinds, TypeOK
    <3>4. Exact(Counting)'
      <4> SUFFICES ASSUME message' \in Counting PROVE LengthPrefixesExact'
        OBVIOUS
      <4>1. /\ AllTasks(Counting, TRUE, agenda')
            /\ \A o \in open' : o.rest \in 0 .. Len(agenda') /\ o.end = Len(out') + ToWrite(agenda', o.rest)
        BY <3>1, <3>2 DEF OnSchedule, Written
      <4> QED BY <1>1, <3>3, <4>1, OpensAreExact DEF LengthPrefixesExact
    <3> HIDE DEF Exact
    <3> QED BY <2>3, <3>1, <3>2, <3>4 DEF Moves
  <2> QED BY <2>1, <2>2, <2>3
<1>8. CASE Finish
  <2> USE <1>8 DEF Finish
  <2>1. phase = "converting" /\ phase' = "idle" /\ agenda = <<>>
    OBVIOUS
  <2>2. message \in Counting => Len(out) = nByteSize
    BY <1>1, <1>2, <2>1, ScheduleIsKept
  <2> QED BY <2>1, <2>2 DEF OnSchedule, LengthPrefixesExact
<1>9. CASE UNCHANGED vars
  BY <1>9 DEF vars, OnSchedule, Written, LengthPrefixesExact
<1> QED BY <1>3, <1>4, <1>5, <1>6, <1>7, <1>8, <1>9 DEF Next

LEMMA ScheduleInit ==
  ASSUME NEW Counting, Fresh
  PROVE  Schedule(Counting)
<1>1. phase = "idle" /\ open = {} /\ calls = 0
  BY DEF Fresh
<1>2. Exact(Counting)
  BY <1>1 DEF Exact, LengthPrefixesExact
<1> QED BY <1>1, <1>2 DEF Schedule, OnSchedule, Asked, Finished, Encoded
-----------------------------------------------------------------------------
(* What a user who counts the bytes as they are written is promised.  Objects *)
(* are those of the program, Counting those whose getByteSize counts so, which *)
(* hold no others; of a message that is not one of them nothing is claimed.    *)

\* The invariant: what is written and what is still to be written always make up
\* the answer of getByteSize, and the answers for the nested messages.
THEOREM ScheduleKept ==
  ASSUME NEW Objects, Messages \subseteq Objects, Typed(Objects),
         NEW Counting, Typed(Counting), CountsAsWritten(Counting)
  PROVE  Spec => [](Kinds(Objects) /\ Schedule(Counting))
<1>1. Init => Kinds(Objects) /\ Schedule(Counting)
  BY InitFresh, KindsInit, ScheduleInit
<1>2. Kinds(Objects) /\ Schedule(Counting) /\ [Next]_vars => (Kinds(Objects) /\ Schedule(Counting))'
  BY KindsStep, ScheduleStep
<1> QED BY <1>1, <1>2, PTL DEF Spec

\* The length that is written in front of a nested message or of an entry of a map
\* is that of the bytes that the converters write behind it, however deep it lies.
THEOREM PrefixesExact ==
  ASSUME NEW Objects, Messages \subseteq Objects, Typed(Objects),
         NEW Counting, Typed(Counting), CountsAsWritten(Counting)
  PROVE  Spec => [](message \in Counting => LengthPrefixesExact)
<1>1. Kinds(Objects) /\ Schedule(Counting) => (message \in Counting => LengthPrefixesExact)
  BY DEF Schedule, Exact
<1> QED BY <1>1, ScheduleKept, PTL

LEMMA FittingIs ==
  ASSUME NEW Objects, Typed(Objects), FitsReserve(Objects), NEW m \in Objects
  PROVE  GetByteSize(m.struct, m.value) % Mod32 = GetByteSize(m.struct, m.value)
<1> DEFINE n == GetByteSize(m.struct, m.value)
<1>1. n \in Nat /\ n < Mod32
  BY DEF Typed, FitsReserve
<1>2. Mod32 \in Nat \ {0}
  BY WidthsAre
<1> HIDE DEF n
<1> QED BY <1>1, <1>2 DEF n

\* The converters never write past the room that reserve() made in the string.
THEOREM RoomIsKept ==
  ASSUME NEW Objects, Messages \subseteq Objects, Typed(Objects),
         NEW Counting, Typed(Counting), CountsAsWritten(Counting), FitsReserve(Counting)
  PROVE  Spec => [](message \in Counting => WithinReservation)
<1>1. Kinds(Objects) /\ Schedule(Counting) => (message \in Counting => WithinReservation)
  <2> SUFFICES ASSUME Kinds(Objects), Schedule(Counting), message \in Counting, phase = "converting"
               PROVE  Len(out) <= region
    BY DEF WithinReservation
  <2>1. Good(Counting, TRUE) /\ out \in Seq(Byte)
    BY DEF Good, Kinds, TypeOK
  <2>2. OnSchedule(Counting) /\ region = nByteSize % Mod32 /\ nByteSize = GetByteSize(message.struct, message.value)
    BY DEF Schedule, Asked
  <2>3. Len(out) <= nByteSize
    BY <2>1, <2>2, ScheduleIsKept
  <2>4. region = nByteSize
    BY <2>2, FittingIs
  <2> QED BY <2>3, <2>4
<1> QED BY <1>1, ScheduleKept, PTL

\* A call that comes back has returned true and has written as many bytes as
\* reserve() made room for: no junk behind them, and none missing.
THEOREM SizesAlwaysAgree ==
  ASSUME NEW Objects, Messages \subseteq Objects, Typed(Objects),
         NEW Counting, Typed(Counting), CountsAsWritten(Counting), FitsReserve(Counting)
  PROVE  Spec => [](message \in Counting => SizesAgree)
<1>1. Kinds(Objects) /\ Schedule(Counting) => (message \in Counting => SizesAgree)
  <2> SUFFICES ASSUME Schedule(Counting), message \in Counting, Encoded
               PROVE  ret /\ Len(out) = region
    BY DEF SizesAgree
  <2>1. /\ ret /\ Len(out) = nByteSize /\ region = nByteSize % Mod32
        /\ nByteSize = GetByteSize(message.struct, message.value)
    BY DEF Schedule, Finished
  <2> QED BY <2>1, FittingIs
<1> QED BY <1>1, ScheduleKept, PTL
=============================================================================

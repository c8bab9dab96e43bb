-------------------------- MODULE EncoderFormatProofs --------------------------
(* That the encoder writes the bytes of the format, for messages that nest   *)
(* as deep as they like: what is written and the bytes of the tasks that are *)
(* still to run always make up the bytes of the message.                     *)
EXTENDS EncoderProofs, EncoderFormat

-----------------------------------------------------------------------------
(* Sequences.                                                                *)

\* A sequence is that of its elements, and what is true of each of them of all.
LEMMA FlattenSingles ==
  ASSUME NEW S, NEW s \in Seq(S)
  PROVE  FlattenSeq([i \in 1 .. Len(s) |-> <<s[i]>>]) = s
<1> DEFINE n == Len(s)
           singles == [i \in 1 .. n |-> <<s[i]>>]
<1>1. n \in Nat /\ \A i \in 1 .. n : s[i] \in S
  BY LenProperties, ElementOfSeq
<1>2. singles \in Seq(Seq(S)) /\ Len(singles) = n /\ \A i \in 1 .. n : singles[i] = <<s[i]>>
  BY <1>1
<1> HIDE DEF singles
<1>3. PICK flat : Flattens(flat, singles, S) /\ FlattenSeq(singles) = flat[n]
  BY <1>2, FlattenSteps
<1>4. flat[0] = <<>> /\ \A i \in 1 .. n : flat[i] = flat[i - 1] \o <<s[i]>>
  BY <1>2, <1>3 DEF Flattens
<1> DEFINE Holds == {i \in 0 .. n : flat[i] = SubSeq(s, 1, i)}
<1>5. 0 \in Holds
  <2>1. SubSeq(s, 1, 0) = <<>> /\ 0 \in 0 .. n
    BY <1>1, SubSeqProperties, EmptySeq
  <2> QED BY <1>4, <2>1
<1>6. ASSUME NEW i \in 1 .. n, i - 1 \in Holds
      PROVE  i \in Holds
  <2>1. 1 \in 1 .. n /\ i \in 1 .. n /\ i \in 0 .. n
    BY <1>1
  <2>2. SubSeq(s, 1, i) = SubSeq(s, 1, i - 1) \o <<s[i]>>
    BY <2>1, SubSeqRecursiveSecond
  <2> QED BY <1>4, <1>6, <2>1, <2>2
<1>7. Holds \in SUBSET (0 .. n)
  OBVIOUS
<1> HIDE DEF Holds
<1>8. n \in Holds
  BY <1>1, <1>5, <1>6, <1>7, UpTo
<1>9. SubSeq(s, 1, n) = s
  BY SubSeqFull
<1> QED BY <1>3, <1>8, <1>9 DEF Holds, singles

\* Sequences one after the other are as long as their lengths add up to.
Lengths(seqs) == [i \in 1 .. Len(seqs) |-> Len(seqs[i])]

\* FlattenSeq is as long as its parts together.
LEMMA FlattenLength ==
  ASSUME NEW S, NEW seqs \in Seq(Seq(S))
  PROVE  Len(FlattenSeq(seqs)) = Total(Lengths(seqs)) /\ Lengths(seqs) \in Seq(Nat)
<1> DEFINE n == Len(seqs)
           lengths == Lengths(seqs)
           sums == Sums(lengths)
<1>1. n \in Nat /\ \A i \in 1 .. n : seqs[i] \in Seq(S) /\ Len(seqs[i]) \in Nat
  BY LenProperties, ElementOfSeq
<1>2. lengths \in Seq(Nat) /\ Len(lengths) = n /\ \A i \in 1 .. n : lengths[i] = Len(seqs[i])
  BY <1>1 DEF Lengths
<1> HIDE DEF lengths
<1>3. sums \in [0 .. n -> Nat] /\ sums[0] = 0 /\ \A i \in 1 .. n : sums[i] = sums[i - 1] + lengths[i]
  BY <1>2, SumsAre
<1> HIDE DEF sums
<1>4. PICK flat : Flattens(flat, seqs, S) /\ FlattenSeq(seqs) = flat[n]
  BY FlattenSteps
<1>5. flat \in [0 .. n -> Seq(S)] /\ flat[0] = <<>> /\ \A i \in 1 .. n : flat[i] = flat[i - 1] \o seqs[i]
  BY <1>4 DEF Flattens
<1> DEFINE Holds == {i \in 0 .. n : Len(flat[i]) = sums[i]}
<1>6. 0 \in Holds
  BY <1>1, <1>3, <1>5, EmptySeq
<1>7. ASSUME NEW i \in 1 .. n, i - 1 \in Holds
      PROVE  i \in Holds
  <2>3. i \in 0 .. n /\ i - 1 \in 0 .. n
    BY <1>1
  <2>1. Len(flat[i - 1]) = sums[i - 1] /\ flat[i - 1] \in Seq(S)
    BY <1>5, <1>7, <2>3
  <2>2. Len(flat[i - 1] \o seqs[i]) = Len(flat[i - 1]) + Len(seqs[i])
    BY <1>1, <2>1, ConcatProperties
  <2> QED BY <1>2, <1>3, <1>5, <2>1, <2>2, <2>3
<1>8. Holds \in SUBSET (0 .. n)
  OBVIOUS
<1> HIDE DEF Holds
<1>9. n \in Holds
  BY <1>1, <1>6, <1>7, <1>8, UpTo
<1> QED BY <1>2, <1>4, <1>9 DEF Holds, sums, lengths, Total

-----------------------------------------------------------------------------
(* The bytes of the tasks.  F are the bytes of the objects.                  *)

\* Of a field of one value, or of the entry of a map.
ValueBytes(F, t) ==
  IF IsMessage(t.cpp) THEN t.tag \o LengthDelimited(F[Object(t.cpp, t.v)])
  ELSE IF t.has /\ IsZero(t.cpp, t.v) THEN <<>>
  ELSE t.tag \o ScalarBytes(t.cpp, t.type, t.v)

CallBytes(F, t) ==
  IF t.op = "entry"
    THEN Tag(t.item.num, WT_LENGTH_DELIMITED)
           \o LengthDelimited(ValueBytes(F, EntryKey(t)) \o ValueBytes(F, EntryMapped(t)))
    ELSE ValueBytes(F, t)

CallsBytes(F, tasks) == FlattenSeq([i \in 1 .. Len(tasks) |-> CallBytes(F, tasks[i])])

\* Of any field.
TaskBytes(F, t) ==
  CASE t.op = "vector" ->
         IF t.item.low = TYPE_VARINT THEN CallsBytes(F, ArrayTasks(t.item, t.v))
         ELSE PackBytes(t.item, t.v) \o CallsBytes(F, PackTasks(t.item, t.v))
    [] t.op = "map" -> CallsBytes(F, EntryTasks(t.item, t.v))
    [] OTHER        -> CallBytes(F, t)

AllBytes(F, tasks) == FlattenSeq([i \in 1 .. Len(tasks) |-> TaskBytes(F, tasks[i])])

\* The bytes of the objects are those of the tasks of their fields, and as many as
\* getByteSize answers.
Answers(F, m) ==
  /\ F[m] \in Seq(Byte) /\ F[m] = AllBytes(F, FieldTasks(m.struct, m.value))
  /\ Len(F[m]) = GetByteSize(m.struct, m.value)

Answered(F, Objects) == \A m \in Objects : Answers(F, m)

\* A task writes what is its own, then its calls write theirs, as many as are counted.
OpenTask(F, t) ==
  /\ TaskBytes(F, t) \in Seq(Byte) /\ Len(TaskBytes(F, t)) = TaskSize(t)
  /\ AllBytes(F, Calls(t)) \in Seq(Byte) /\ TaskBytes(F, t) = Own(t) \o AllBytes(F, Calls(t))

\* Without tasks nothing is written.
LEMMA NoBytes ==
  ASSUME NEW F
  PROVE  AllBytes(F, <<>>) = <<>> /\ <<>> \in Seq(Byte) /\ Len(<<>>) = 0
<1>1. Len(<<>>) = 0 /\ <<>> \in Seq(Byte) /\ 1 .. 0 = {}
  BY EmptySeq
<1>2. [i \in 1 .. Len(<<>>) |-> TaskBytes(F, <<>>[i])] = <<>>
  BY <1>1
<1> QED BY <1>1, <1>2, FlattenNone DEF AllBytes

\* The bytes of tasks of which each has as many as it is counted for.
LEMMA BytesOfTasks ==
  ASSUME NEW F, NEW Objects, Good(Objects, TRUE), NEW tasks, AllTasks(Objects, TRUE, tasks),
         \A i \in 1 .. Len(tasks) : TaskBytes(F, tasks[i]) \in Seq(Byte)
                                    /\ Len(TaskBytes(F, tasks[i])) = TaskSize(tasks[i])
  PROVE  /\ AllBytes(F, tasks) \in Seq(Byte) /\ Len(AllBytes(F, tasks)) = Total(Sizes(tasks))
         /\ [i \in 1 .. Len(tasks) |-> TaskBytes(F, tasks[i])] \in Seq(Seq(Byte))
<1> DEFINE seqs == [i \in 1 .. Len(tasks) |-> TaskBytes(F, tasks[i])]
<1>1. Len(tasks) \in Nat /\ Sizes(tasks) = [i \in 1 .. Len(tasks) |-> TaskSize(tasks[i])]
  BY SizesAre DEF Sizes
<1>2. seqs \in Seq(Seq(Byte)) /\ Len(seqs) = Len(tasks)
  BY <1>1
<1>3. \A i \in 1 .. Len(tasks) : Len(seqs[i]) = TaskSize(tasks[i])
  OBVIOUS
<1>4. AllBytes(F, tasks) = FlattenSeq(seqs)
  BY DEF AllBytes
<1> HIDE DEF seqs
<1>5. Lengths(seqs) = Sizes(tasks)
  BY <1>1, <1>2, <1>3 DEF Lengths
<1> QED BY <1>2, <1>4, <1>5, FlattenLength, FlattenIs DEF seqs

\* Of tasks that are one call each, the bytes are those of the calls.
LEMMA BytesOfCalls ==
  ASSUME NEW F, NEW Objects, NEW tasks, AllTasks(Objects, TRUE, tasks),
         \A i \in 1 .. Len(tasks) : tasks[i].op \in {"value", "entry"}
  PROVE  CallsBytes(F, tasks) = AllBytes(F, tasks)
<1>1. \A i \in 1 .. Len(tasks) : CallBytes(F, tasks[i]) = TaskBytes(F, tasks[i])
  BY DEF TaskBytes
<1>2. [i \in 1 .. Len(tasks) |-> CallBytes(F, tasks[i])] = [i \in 1 .. Len(tasks) |-> TaskBytes(F, tasks[i])]
  BY <1>1
<1> QED BY <1>2 DEF CallsBytes, AllBytes

\* A value: the bytes of a nested message are those of its tasks.
LEMMA ValueIsOpen ==
  ASSUME NEW F, NEW Objects, Good(Objects, TRUE), Answered(F, Objects),
         NEW t, IsTask(Objects, TRUE, t), t.op = "value"
  PROVE  OpenTask(F, t) /\ TaskBytes(F, t) = ValueBytes(F, t)
<1>1. TaskBytes(F, t) = ValueBytes(F, t)
  BY DEF TaskBytes, CallBytes
<1>2. Typed(Objects)
  BY DEF Good
<1>3. /\ t.tag \in Seq(Byte)
      /\ IsMessage(t.cpp) => Object(t.cpp, t.v) \in Objects /\ GetByteSize(t.cpp, t.v) \in Nat
      /\ ~IsMessage(t.cpp) => t.tag \o ScalarBytes(t.cpp, t.type, t.v) \in Seq(Byte)
  BY <1>2, ValueTaskIs DEF Object
<1>4. Own(t) \in Seq(Byte) /\ TaskSize(t) = Len(Own(t)) + Total(Sizes(Calls(t)))
  BY CountedTaskIs DEF CountedTask
<1>5. CASE ~IsMessage(t.cpp)
  <2>1. Calls(t) = <<>> /\ Own(t) = ValueBytes(F, t)
    BY <1>5 DEF Calls, Own, ValueBytes
  <2>2. AllBytes(F, Calls(t)) = <<>> /\ Total(Sizes(Calls(t))) = 0 /\ <<>> \in Seq(Byte)
    BY <2>1, NoBytes, NoTasks
  <2>3. Own(t) \o <<>> = Own(t) /\ Len(Own(t)) \in Nat
    BY <1>4, ConcatEmptySeq, LenProperties
  <2>4. TaskSize(t) = Len(Own(t))
    BY <1>4, <2>2, <2>3
  <2>5. TaskBytes(F, t) = Own(t) /\ AllBytes(F, Calls(t)) = <<>>
    BY <1>1, <2>1, <2>2
  <2> QED BY <1>1, <1>4, <2>2, <2>3, <2>4, <2>5, Zenon DEF OpenTask
<1>6. CASE IsMessage(t.cpp)
  <2> DEFINE o == Object(t.cpp, t.v)
             n == GetByteSize(t.cpp, t.v)
  <2>1. o \in Objects /\ n \in Nat /\ o.struct = t.cpp /\ o.value = t.v
    BY <1>3, <1>6 DEF Object
  <2>2. F[o] \in Seq(Byte) /\ F[o] = AllBytes(F, FieldTasks(t.cpp, t.v)) /\ Len(F[o]) = n
    BY <2>1 DEF Answered, Answers
  <2>3. Calls(t) = FieldTasks(t.cpp, t.v) /\ Own(t) = t.tag \o VarintBytes[n]
        /\ ValueBytes(F, t) = t.tag \o (VarintBytes[Len(F[o])] \o F[o])
    BY <1>6 DEF Calls, Own, ValueBytes, LengthDelimited
  <2>4. HasLength(t) /\ Announced(t) = n
    BY <1>6 DEF HasLength, Announced
  <2>5. n = Total(Sizes(Calls(t)))
    BY <2>4, CountedTaskIs DEF CountedTask
  <2>6. VarintBytes[n] \in Seq(Byte)
    BY <2>1, VarintBytesAre
  <2> HIDE DEF o, n
  <2>7. \A x, y, z \in Seq(Byte) : (x \o y) \o z = x \o (y \o z)
    BY JoinedEither
  <2>8. (t.tag \o VarintBytes[n]) \o F[o] = t.tag \o (VarintBytes[n] \o F[o])
    BY <1>3, <2>2, <2>6, <2>7, Zenon
  <2>9. TaskBytes(F, t) = Own(t) \o F[o] /\ AllBytes(F, Calls(t)) = F[o]
    BY <1>1, <2>2, <2>3, <2>8
  <2>10. Own(t) \o F[o] \in Seq(Byte) /\ Len(Own(t) \o F[o]) = Len(Own(t)) + Len(F[o])
    BY <1>4, <2>2, ConcatProperties
  <2> QED BY <1>1, <1>4, <2>2, <2>5, <2>9, <2>10 DEF OpenTask
<1> QED BY <1>1, <1>5, <1>6

\* Tasks that are open, one after the other.
LEMMA OpenTasks ==
  ASSUME NEW F, NEW Objects, Good(Objects, TRUE), NEW tasks, AllTasks(Objects, TRUE, tasks),
         \A i \in 1 .. Len(tasks) : OpenTask(F, tasks[i])
  PROVE  AllBytes(F, tasks) \in Seq(Byte) /\ Len(AllBytes(F, tasks)) = Total(Sizes(tasks))
BY BytesOfTasks DEF OpenTask

\* A task that writes nothing but a prefix of its own, of tasks that are open.
LEMMA OpenWith ==
  ASSUME NEW F, NEW Objects, Good(Objects, TRUE), NEW t, IsTask(Objects, TRUE, t),
         \A i \in 1 .. Len(Calls(t)) : OpenTask(F, Calls(t)[i]),
         TaskBytes(F, t) = Own(t) \o AllBytes(F, Calls(t))
  PROVE  OpenTask(F, t)
<1>1. /\ Own(t) \in Seq(Byte) /\ TaskSize(t) = Len(Own(t)) + Total(Sizes(Calls(t)))
      /\ AllTasks(Objects, TRUE, Calls(t))
  BY CountedTaskIs DEF CountedTask
<1>2. AllBytes(F, Calls(t)) \in Seq(Byte) /\ Len(AllBytes(F, Calls(t))) = Total(Sizes(Calls(t)))
  BY <1>1, OpenTasks
<1> DEFINE own == Own(t)
           rest == AllBytes(F, Calls(t))
<1>3. own \o rest \in Seq(Byte) /\ Len(own \o rest) = Len(own) + Len(rest)
  BY <1>1, <1>2, ConcatProperties
<1> QED BY <1>1, <1>2, <1>3 DEF OpenTask

\* A pair is two sequences of one element, one after the other.
LEMMA TwoAre ==
  ASSUME NEW S, NEW x \in S, NEW y \in S
  PROVE  <<x>> \in Seq(S) /\ <<y>> \in Seq(S) /\ <<x>> \o <<y>> = <<x, y>>
<1>1. <<x>> \in Seq(S) /\ <<y>> \in Seq(S)
  OBVIOUS
<1> DEFINE c == <<x>> \o <<y>>
           d == <<x, y>>
<1>3. c \in Seq(S) /\ Len(c) = 2 /\ \A i \in 1 .. 2 : c[i] = IF i <= 1 THEN x ELSE y
  BY <1>1, ConcatProperties
<1>4. d \in Seq(S) /\ Len(d) = 2 /\ d[1] = x /\ d[2] = y
  OBVIOUS
<1> HIDE DEF c, d
<1>5. \A i \in 1 .. 2 : c[i] = d[i]
  BY <1>3, <1>4
<1> QED BY <1>1, <1>3, <1>4, <1>5, SeqEqual DEF c, d

\* Two tasks write the bytes of the first and then those of the second.
LEMMA PairOfBytes ==
  ASSUME NEW F, NEW a, NEW b, TaskBytes(F, a) \in Seq(Byte), TaskBytes(F, b) \in Seq(Byte)
  PROVE  AllBytes(F, <<a, b>>) = TaskBytes(F, a) \o TaskBytes(F, b)
<1> DEFINE pair == <<a, b>>
           x == TaskBytes(F, a)
           y == TaskBytes(F, b)
           seqs == [i \in 1 .. Len(pair) |-> TaskBytes(F, pair[i])]
<1>1. Len(pair) = 2 /\ pair[1] = a /\ pair[2] = b
  OBVIOUS
<1> HIDE DEF pair
<1>2. 1 .. 2 = {1, 2}
  OBVIOUS
<1>3. seqs = [i \in 1 .. 2 |-> IF i = 1 THEN x ELSE y]
  BY <1>1, <1>2
<1> HIDE DEF x, y
<1>4. <<x, y>> = [i \in 1 .. 2 |-> IF i = 1 THEN x ELSE y]
  OBVIOUS
<1>5. <<x>> \in Seq(Seq(Byte)) /\ <<y>> \in Seq(Seq(Byte)) /\ <<x>> \o <<y>> = <<x, y>>
  <2>1. x \in Seq(Byte) /\ y \in Seq(Byte)
    BY DEF x, y
  <2> QED BY <2>1, TwoAre
<1>6. FlattenSeq(<<x, y>>) = FlattenSeq(<<x>>) \o FlattenSeq(<<y>>)
  BY <1>5, FlattenConcat
<1>7. FlattenSeq(<<x>>) = x /\ FlattenSeq(<<y>>) = y
  BY FlattenOne DEF x, y
<1>8. AllBytes(F, pair) = FlattenSeq(seqs)
  BY DEF AllBytes
<1> QED BY <1>3, <1>4, <1>6, <1>7, <1>8 DEF pair, x, y

\* The entry of a map: a length of what its two values take.
LEMMA EntryIsOpen ==
  ASSUME NEW F, NEW Objects, Good(Objects, TRUE), Answered(F, Objects),
         NEW t, IsTask(Objects, TRUE, t), t.op = "entry"
  PROVE  OpenTask(F, t)
<1> DEFINE a == EntryKey(t)
           b == EntryMapped(t)
           tag == Tag(t.item.num, WT_LENGTH_DELIMITED)
           x == ValueBytes(F, a)
           y == ValueBytes(F, b)
           n == EntrySize(t)
           pair == <<a, b>>
<1>1. ~Misreads(t)
  BY CountedEntryReads
<1>2. /\ AllTasks(Objects, TRUE, Calls(t)) /\ CountedTask(t)
  BY CountedTaskIs
<1>3. Calls(t) = pair /\ Own(t) = tag \o VarintBytes[n] /\ HasLength(t) /\ Announced(t) = n
  BY DEF Calls, Own, HasLength, Announced
<1>4. TaskBytes(F, t) = tag \o (VarintBytes[Len(x \o y)] \o (x \o y))
  BY DEF TaskBytes, CallBytes, LengthDelimited
<1>5. a.op = "value" /\ b.op = "value"
  BY DEF EntryKey, EntryMapped, EntryValue, Value
<1>6. tag \in Seq(Byte)
  <2>1. IsItem(t.item)
    BY DEF IsTask
  <2> QED BY <2>1, ItemsAre, TagIs, WireTypesAre
<1>7. n \in Nat /\ n = Total(Sizes(pair))
  <2>1. Typed(Objects)
    BY DEF Good
  <2>2. n \in Nat
    BY <1>1, <2>1, EntryIs
  <2> QED BY <1>2, <1>3, <2>2 DEF CountedTask
<1> HIDE DEF a, b, tag, n
<1>8. Len(pair) = 2 /\ pair[1] = a /\ pair[2] = b
  OBVIOUS
<1>9. IsTask(Objects, TRUE, a) /\ IsTask(Objects, TRUE, b)
  <2>1. 1 \in 1 .. 2 /\ 2 \in 1 .. 2
    OBVIOUS
  <2> HIDE DEF pair
  <2> QED BY <1>2, <1>3, <1>8, <2>1 DEF AllTasks
<1>10. OpenTask(F, a) /\ OpenTask(F, b) /\ TaskBytes(F, a) = x /\ TaskBytes(F, b) = y
  BY <1>5, <1>9, ValueIsOpen
<1>11. x \in Seq(Byte) /\ y \in Seq(Byte)
  BY <1>10 DEF OpenTask
<1> HIDE DEF x, y
<1>12. AllBytes(F, pair) = x \o y
  BY <1>10, <1>11, PairOfBytes
<1>13. x \o y \in Seq(Byte) /\ Len(x \o y) = n
  <2>1. \A i \in 1 .. Len(pair) : OpenTask(F, pair[i])
    BY <1>8, <1>10
  <2>2. AllTasks(Objects, TRUE, pair)
    BY <1>2, <1>3
  <2> HIDE DEF pair
  <2>3. AllBytes(F, pair) \in Seq(Byte) /\ Len(AllBytes(F, pair)) = Total(Sizes(pair))
    BY <2>1, <2>2, OpenTasks
  <2> QED BY <1>7, <1>12, <2>3
<1>14. (tag \o VarintBytes[n]) \o (x \o y) = tag \o (VarintBytes[n] \o (x \o y))
  <2> DEFINE z == x \o y
             w == VarintBytes[n]
  <2>1. \A p, q, r \in Seq(Byte) : (p \o q) \o r = p \o (q \o r)
    BY JoinedEither
  <2>2. w \in Seq(Byte) /\ z \in Seq(Byte)
    BY <1>7, <1>13, VarintBytesAre
  <2> HIDE DEF z, w
  <2>3. (tag \o w) \o z = tag \o (w \o z)
    BY <1>6, <2>1, <2>2, Zenon
  <2> QED BY <2>3 DEF z, w
<1>15. TaskBytes(F, t) = Own(t) \o AllBytes(F, Calls(t))
  BY <1>3, <1>4, <1>12, <1>13, <1>14
<1>16. \A i \in 1 .. Len(Calls(t)) : OpenTask(F, Calls(t)[i])
  BY <1>3, <1>8, <1>10
<1> QED BY <1>15, <1>16, OpenWith

\* A field of several values makes one call for each.
LEMMA OneCallEach ==
  ASSUME NEW Objects, NEW counted, NEW t, IsTask(Objects, counted, t), t.op \in {"vector", "map"}
  PROVE  \A i \in 1 .. Len(Calls(t)) : Calls(t)[i].op \in {"value", "entry"}
<1>1. IsItem(t.item) /\ FieldHasType(Objects, t.item, t.v) /\ t.item.shape = t.op
  BY DEF IsTask
<1>2. CASE t.op = "vector"
  <2> DEFINE tag == Tag(t.item.num, TagType(t.item.cpp, t.item.low))
             n == Len(t.v)
  <2>1. n \in Nat
    BY <1>1, <1>2, LenProperties DEF FieldHasType
  <2>2. \A i \in 1 .. Len(ElementTasks(tag, t.item, t.v)) : ElementTasks(tag, t.item, t.v)[i].op = "value"
    BY <2>1 DEF ElementTasks, Value
  <2>3. \A i \in 1 .. Len(ElementTasks(PackTag(t.item), t.item, t.v)) :
          ElementTasks(PackTag(t.item), t.item, t.v)[i].op = "value"
    BY <2>1 DEF ElementTasks, Value
  <2>4. \A i \in 1 .. Len(<<>>) : FALSE
    BY EmptySeq
  <2>5. Calls(t) \in {ElementTasks(tag, t.item, t.v), ElementTasks(PackTag(t.item), t.item, t.v), <<>>}
    BY <1>2 DEF Calls, ArrayTasks, PackTasks
  <2> QED BY <2>2, <2>3, <2>4, <2>5
<1>3. CASE t.op = "map"
  <2>1. FALSE => EntriesFit(t.item, t.v)
    OBVIOUS
  <2>2. \A i \in 1 .. Len(EntryTasks(t.item, t.v)) : EntryTasks(t.item, t.v)[i].op = "entry"
    <3> DEFINE n == Cardinality(DOMAIN t.v)
    <3>1. n \in Nat
      BY <1>1, <1>3 DEF FieldHasType
    <3> QED BY <3>1 DEF EntryTasks
  <2>3. Calls(t) = EntryTasks(t.item, t.v)
    BY <1>3 DEF Calls
  <2> QED BY <2>2, <2>3
<1> QED BY <1>2, <1>3

\* Every task is open.
LEMMA TasksAreOpen ==
  ASSUME NEW F, NEW Objects, Good(Objects, TRUE), Answered(F, Objects),
         NEW t, IsTask(Objects, TRUE, t)
  PROVE  OpenTask(F, t)
<1>1. AllTasks(Objects, TRUE, Calls(t)) /\ Own(t) \in Seq(Byte)
  BY CountedTaskIs
<1>2. \A i \in 1 .. Len(Calls(t)) : IsTask(Objects, TRUE, Calls(t)[i])
  BY <1>1 DEF AllTasks
<1>3. CASE t.op = "value"
  BY <1>3, ValueIsOpen
<1>4. CASE t.op = "entry"
  BY <1>4, EntryIsOpen
<1>5. CASE t.op \in {"vector", "map"}
  <2>1. \A i \in 1 .. Len(Calls(t)) : Calls(t)[i].op \in {"value", "entry"}
    BY <1>5, OneCallEach
  <2>2. \A i \in 1 .. Len(Calls(t)) : OpenTask(F, Calls(t)[i])
    BY <1>2, <2>1, ValueIsOpen, EntryIsOpen
  <2>3. CallsBytes(F, Calls(t)) = AllBytes(F, Calls(t))
    BY <1>1, <2>1, BytesOfCalls
  <2>4. CallsBytes(F, Calls(t)) \in Seq(Byte)
    BY <1>1, <2>2, <2>3, OpenTasks
  <2>5. <<>> \o CallsBytes(F, Calls(t)) = CallsBytes(F, Calls(t))
    BY <2>4, ConcatEmptySeq
  <2>6. TaskBytes(F, t) = Own(t) \o CallsBytes(F, Calls(t))
    BY <1>5, <2>5 DEF TaskBytes, Own, Calls
  <2> QED BY <2>2, <2>3, <2>6, OpenWith
<1>6. t.op \in {"value", "vector", "map", "entry"}
  BY DEF IsTask
<1> QED BY <1>3, <1>4, <1>5, <1>6

\* What agendas write that are run one after the other.
BytesJoin(F, a, b) ==
  /\ AllBytes(F, a \o b) = AllBytes(F, a) \o AllBytes(F, b)
  /\ AllBytes(F, a) \in Seq(Byte) /\ AllBytes(F, b) \in Seq(Byte)

\* The bytes of tasks that follow others on the agenda follow those of the others.
LEMMA BytesOfConcat ==
  ASSUME NEW F, NEW Objects, Good(Objects, TRUE), Answered(F, Objects),
         NEW a, AllTasks(Objects, TRUE, a), NEW b, AllTasks(Objects, TRUE, b)
  PROVE  BytesJoin(F, a, b)
<1> DEFINE Bytes(tasks) == [i \in 1 .. Len(tasks) |-> TaskBytes(F, tasks[i])]
           c == a \o b
<1>1. /\ \A i \in 1 .. Len(a) : IsTask(Objects, TRUE, a[i])
      /\ \A i \in 1 .. Len(b) : IsTask(Objects, TRUE, b[i])
      /\ IsSeq(a) /\ IsSeq(b)
  BY DEF AllTasks
<1>2. /\ \A i \in 1 .. Len(a) : TaskBytes(F, a[i]) \in Seq(Byte)
      /\ \A i \in 1 .. Len(b) : TaskBytes(F, b[i]) \in Seq(Byte)
      /\ \A i \in 1 .. Len(a) : OpenTask(F, a[i])
      /\ \A i \in 1 .. Len(b) : OpenTask(F, b[i])
  BY <1>1, TasksAreOpen DEF OpenTask
<1>3. /\ Len(a) \in Nat /\ Len(b) \in Nat /\ Len(c) = Len(a) + Len(b)
      /\ \A i \in 1 .. (Len(a) + Len(b)) : c[i] = IF i <= Len(a) THEN a[i] ELSE b[i - Len(a)]
  BY <1>1, ConcatIsSeq
<1>4. Bytes(a) \in Seq(Seq(Byte)) /\ Bytes(b) \in Seq(Seq(Byte)) /\ Len(Bytes(a)) = Len(a) /\ Len(Bytes(b)) = Len(b)
  BY <1>2, <1>3
<1> HIDE DEF c
<1>5. /\ \A i \in 1 .. Len(a) : c[i] = a[i]
      /\ \A i \in (Len(a) + 1) .. (Len(a) + Len(b)) : c[i] = b[i - Len(a)] /\ i - Len(a) \in 1 .. Len(b)
  BY <1>3
<1>6. \A i \in 1 .. Len(c) : TaskBytes(F, c[i]) \in Seq(Byte)
  <2> TAKE i \in 1 .. Len(c)
  <2>1. i \in 1 .. Len(a) \/ i \in (Len(a) + 1) .. (Len(a) + Len(b))
    BY <1>3
  <2> QED BY <1>2, <1>5, <2>1
<1>7. Bytes(c) \in Seq(Seq(Byte)) /\ Len(Bytes(c)) = Len(a) + Len(b)
  BY <1>3, <1>6
<1> DEFINE d == Bytes(a) \o Bytes(b)
<1>8. /\ d \in Seq(Seq(Byte)) /\ Len(d) = Len(a) + Len(b)
      /\ \A i \in 1 .. (Len(a) + Len(b)) : d[i] = IF i <= Len(a) THEN Bytes(a)[i] ELSE Bytes(b)[i - Len(a)]
  BY <1>4, ConcatProperties
<1> HIDE DEF d
<1>9. \A i \in 1 .. (Len(a) + Len(b)) : Bytes(c)[i] = d[i]
  <2> TAKE i \in 1 .. (Len(a) + Len(b))
  <2>1. CASE i \in 1 .. Len(a)
    <3>1. i <= Len(a) /\ i \in 1 .. Len(c)
      BY <1>3, <2>1
    <3> QED BY <1>5, <1>8, <2>1, <3>1
  <2>2. CASE i \in (Len(a) + 1) .. (Len(a) + Len(b))
    <3>1. ~(i <= Len(a)) /\ i \in 1 .. Len(c) /\ i - Len(a) \in 1 .. Len(b)
      BY <1>3, <2>2
    <3> QED BY <1>5, <1>8, <2>2, <3>1
  <2> QED BY <1>3, <2>1, <2>2
<1>10. Bytes(c) = d
  <2> DEFINE e == Bytes(c)
  <2>1. e \in Seq(Seq(Byte)) /\ Len(e) = Len(d) /\ \A i \in 1 .. Len(e) : e[i] = d[i]
    BY <1>7, <1>8, <1>9
  <2> HIDE DEF e
  <2>2. e = d
    BY <1>8, <2>1, SeqEqual
  <2> QED BY <2>2 DEF e
<1>11. FlattenSeq(d) = FlattenSeq(Bytes(a)) \o FlattenSeq(Bytes(b))
  BY <1>4, FlattenConcat DEF d
<1>12. AllBytes(F, a) \in Seq(Byte) /\ AllBytes(F, b) \in Seq(Byte)
  BY <1>2, OpenTasks
<1> QED BY <1>10, <1>11, <1>12 DEF AllBytes, BytesJoin, c

\* Running the first task of an agenda writes the first of its bytes.
LEMMA BytesAfter ==
  ASSUME NEW F, NEW Objects, Good(Objects, TRUE), Answered(F, Objects),
         NEW tasks, AllTasks(Objects, TRUE, tasks), tasks # <<>>
  PROVE  /\ Own(Head(tasks)) \in Seq(Byte) /\ AllBytes(F, After(tasks)) \in Seq(Byte)
         /\ AllBytes(F, tasks) = Own(Head(tasks)) \o AllBytes(F, After(tasks))
         /\ AllTasks(Objects, TRUE, After(tasks))
<1> DEFINE t == Head(tasks)
           rest == Tail(tasks)
           one == <<t>>
<1>1. /\ IsTask(Objects, TRUE, t) /\ AllTasks(Objects, TRUE, rest) /\ AllTasks(Objects, TRUE, one)
  BY AllTasksOfTail
<1>2. tasks = one \o rest
  BY TailIsSeq DEF AllTasks
<1>3. AllTasks(Objects, TRUE, Calls(t)) /\ Own(t) \in Seq(Byte)
  BY <1>1, CountedTaskIs
<1>4. OpenTask(F, t)
  BY <1>1, TasksAreOpen
<1> HIDE DEF t, rest
<1>5. AllBytes(F, one) = TaskBytes(F, t)
  <2>1. [i \in 1 .. Len(one) |-> TaskBytes(F, one[i])] = <<TaskBytes(F, t)>>
    OBVIOUS
  <2>2. AllBytes(F, one) = FlattenSeq(<<TaskBytes(F, t)>>)
    BY <2>1 DEF AllBytes
  <2> QED BY <1>4, <2>2, FlattenOne DEF OpenTask
<1> HIDE DEF one
<1>6. AllBytes(F, tasks) = TaskBytes(F, t) \o AllBytes(F, rest)
  <2>1. BytesJoin(F, one, rest)
    BY <1>1, BytesOfConcat
  <2> QED BY <1>2, <1>5, <2>1 DEF BytesJoin
<1>7. AllBytes(F, After(tasks)) = AllBytes(F, Calls(t)) \o AllBytes(F, rest)
      /\ AllBytes(F, Calls(t)) \in Seq(Byte) /\ AllBytes(F, rest) \in Seq(Byte)
  <2>1. BytesJoin(F, Calls(t), rest)
    BY <1>1, <1>3, BytesOfConcat
  <2> QED BY <2>1 DEF BytesJoin, After, t, rest
<1>8. AllTasks(Objects, TRUE, After(tasks))
  BY <1>1, <1>3, AllTasksOfConcat DEF After, t, rest
<1>9. AllBytes(F, After(tasks)) \in Seq(Byte)
  BY <1>7, ConcatProperties
<1>10. \A x, y, z \in Seq(Byte) : (x \o y) \o z = x \o (y \o z)
  BY JoinedEither
<1>11. (Own(t) \o AllBytes(F, Calls(t))) \o AllBytes(F, rest) = Own(t) \o (AllBytes(F, Calls(t)) \o AllBytes(F, rest))
  BY <1>3, <1>7, <1>10, Zenon
<1>12. TaskBytes(F, t) = Own(t) \o AllBytes(F, Calls(t))
  BY <1>4 DEF OpenTask
<1> QED BY <1>3, <1>6, <1>7, <1>8, <1>9, <1>11, <1>12 DEF t

-----------------------------------------------------------------------------
(* What a value is written as, and what it is in the format.                 *)

\* The types of the fields of one value and of vectors that are written well.
Suits(cpp, type) ==
  /\ cpp \in {"bool", "float", "double"} => type = TYPE_VARINT
  /\ cpp \in Ints32 \cup Ints64 => type # TYPE_FIXED64
  /\ type = TYPE_FIXED32 => cpp \notin Ints64

\* svarInt() is the zigzag of the format for numbers that are not negative.
LEMMA ZigZagFits ==
  ASSUME NEW v \in Nat, NEW m \in Nat \ {0}, 2 * v < m
  PROVE  ZigZag(v, m) = 2 * v /\ ZigZagFormat(v, m) = 2 * v
<1>1. (2 * v) % m = 2 * v
  BY Z3
<1> QED BY <1>1 DEF ZigZag, ZigZagFormat

\* An integer is written as the format says, and with its wire type.
LEMMA IntFormat ==
  ASSUME NEW F, NEW cpp \in Ints32 \cup Ints64, NEW type \in 0 .. 3, NEW v \in Nat,
         Suits(cpp, type), NumberFits(cpp, type, v)
  PROVE  TagType(cpp, type) = FormatType(cpp, type) /\ IntBytes(cpp, type, v) = Payload(F, cpp, type, v)
<1>1. cpp \notin {"string", "bool", "float", "double"} /\ ~IsMessage(cpp)
  BY TypesDiffer
<1>2. WriteType(cpp) = WT_VARINT
  BY <1>1 DEF WriteType
<1>3. cpp \in Ints32 => cpp \notin Ints64
  BY TypesDiffer
<1> USE DEF TYPE_VARINT, TYPE_SVARINT, TYPE_FIXED32, TYPE_FIXED64, WT_VARINT, WT_32BIT, WT_64BIT, WT_LENGTH_DELIMITED
<1>4. type \in {0, 1, 2}
  BY DEF Suits
<1>5. CASE type = 0
  <2>1. TagType(cpp, type) = WT_VARINT /\ FormatType(cpp, type) = WT_VARINT
    BY <1>1, <1>2, <1>5 DEF TagType, FormatType
  <2>2. IntBytes(cpp, type, v) = VarintBytes[IF cpp \in Ints32 THEN SignExtend(v) ELSE v]
    BY <1>5 DEF IntBytes
  <2>3. Payload(F, cpp, type, v) = VarintBytes[IF cpp = "int32" THEN SignExtend(v) ELSE v]
    BY <1>1, <1>5, <2>1 DEF Payload
  <2>4. cpp = "uint32" => SignExtend(v) = v
    BY <1>5, WidthsAre DEF NumberFits, SignExtend
  <2>5. cpp \in Ints32 <=> cpp \in {"int32", "uint32"}
    BY DEF Ints32
  <2> QED BY <2>1, <2>2, <2>3, <2>4, <2>5
<1>6. CASE type = 1
  <2>1. TagType(cpp, type) = WT_VARINT /\ FormatType(cpp, type) = WT_VARINT
    BY <1>1, <1>2, <1>6 DEF TagType, FormatType
  <2>2. IntBytes(cpp, type, v) = VarintBytes[ZigZag(v, IntModulus(cpp))]
    BY <1>6 DEF IntBytes
  <2>3. Payload(F, cpp, type, v) = VarintBytes[ZigZagFormat(v, IntModulus(cpp))]
    BY <1>1, <1>6, <2>1 DEF Payload
  <2>4. IntModulus(cpp) \in Nat \ {0} /\ 2 * v < IntModulus(cpp)
    BY <1>6, WidthsAre DEF NumberFits, IntModulus
  <2>5. ZigZag(v, IntModulus(cpp)) = ZigZagFormat(v, IntModulus(cpp))
    BY <2>4, ZigZagFits
  <2> QED BY <2>1, <2>2, <2>3, <2>5
<1>7. CASE type = 2
  <2>1. cpp \in Ints32
    BY <1>7 DEF Suits
  <2>2. TagType(cpp, type) = WT_32BIT /\ FormatType(cpp, type) = WT_32BIT
    BY <1>1, <1>7, <2>1 DEF TagType, FormatType
  <2>3. IntBytes(cpp, type, v) = Fixed(v, Bytes32)
    BY <1>7, <2>1 DEF IntBytes
  <2>4. Payload(F, cpp, type, v) = Fixed(v, Bytes32)
    BY <1>1, <2>2 DEF Payload
  <2> QED BY <2>2, <2>3, <2>4
<1> QED BY <1>4, <1>5, <1>6, <1>7

\* So is a value of any type but a struct.
LEMMA ScalarFormat ==
  ASSUME NEW F, NEW Objects, NEW cpp, NEW type \in 0 .. 3, NEW v, HasType(Objects, cpp, v),
         ~IsMessage(cpp), Suits(cpp, type), NumberFits(cpp, type, v)
  PROVE  TagType(cpp, type) = FormatType(cpp, type) /\ ScalarBytes(cpp, type, v) = Payload(F, cpp, type, v)
<1>1. cpp \in Ints32 \cup Ints64 \cup {"string", "bool", "float", "double"}
  BY TypesDiffer
<1> USE DEF TYPE_VARINT, TYPE_SVARINT, TYPE_FIXED32, TYPE_FIXED64, WT_VARINT, WT_32BIT, WT_64BIT, WT_LENGTH_DELIMITED
<1>2. CASE cpp \in Ints32 \cup Ints64
  <2>1. ScalarBytes(cpp, type, v) = IntBytes(cpp, type, v)
    BY <1>2, TypesDiffer DEF ScalarBytes
  <2>2. v \in Nat
    BY <1>2, ValuesAre
  <2> QED BY <1>2, <2>1, <2>2, IntFormat
<1>3. CASE cpp = "string"
  <2>4. cpp \notin Ints32 \cup Ints64 \cup {"float", "double"}
    BY <1>3, TypesDiffer
  <2>1. TagType(cpp, type) = WT_LENGTH_DELIMITED /\ FormatType(cpp, type) = WT_LENGTH_DELIMITED
    BY <1>3, <2>4 DEF TagType, FormatType
  <2>2. ScalarBytes(cpp, type, v) = VarintBytes[Len(v)] \o v
    BY <1>3 DEF ScalarBytes
  <2>3. Payload(F, cpp, type, v) = VarintBytes[Len(v)] \o v
    BY <1>3, <2>1 DEF Payload, LengthDelimited
  <2> QED BY <2>1, <2>2, <2>3
<1>4. CASE cpp = "bool"
  <2>1. type = 0 /\ cpp \notin Ints32 \cup Ints64
    BY <1>4, TypesDiffer DEF Suits
  <2>2. TagType(cpp, type) = WT_VARINT /\ FormatType(cpp, type) = WT_VARINT
    BY <1>4, <2>1, TypesDiffer DEF TagType, FormatType, WriteType
  <2>3. v \in Nat /\ ~(v >= 128)
    <3>1. v \in {0, 1}
      BY <1>4, ValuesAre
    <3> QED BY <3>1
  <2>4. VarintBytes[v] = <<v>>
    BY <2>3, VarintBytesIs
  <2>5. ScalarBytes(cpp, type, v) = <<v>>
    BY <1>4 DEF ScalarBytes
  <2>6. Payload(F, cpp, type, v) = VarintBytes[v]
    BY <1>4, <2>1, <2>2, TypesDiffer DEF Payload
  <2> QED BY <2>2, <2>4, <2>5, <2>6
<1>5. CASE cpp = "float"
  <2>1. type = 0 /\ cpp \notin Ints32 \cup Ints64 /\ ~IsMessage(cpp)
    BY <1>5, TypesDiffer DEF Suits
  <2>2. TagType(cpp, type) = WT_32BIT /\ FormatType(cpp, type) = WT_32BIT
    BY <1>5, <2>1 DEF TagType, FormatType, WriteType
  <2>3. ScalarBytes(cpp, type, v) = Fixed(v, Bytes32)
    BY <1>5 DEF ScalarBytes
  <2>4. Payload(F, cpp, type, v) = Fixed(v, Bytes32)
    BY <1>5, <2>1, <2>2 DEF Payload
  <2> QED BY <2>2, <2>3, <2>4
<1>6. CASE cpp = "double"
  <2>1. type = 0 /\ cpp \notin Ints32 \cup Ints64 /\ ~IsMessage(cpp)
    BY <1>6, TypesDiffer DEF Suits
  <2>2. TagType(cpp, type) = WT_64BIT /\ FormatType(cpp, type) = WT_64BIT
    BY <1>6, <2>1 DEF TagType, FormatType, WriteType
  <2>3. ScalarBytes(cpp, type, v) = Fixed(v, Bytes64)
    BY <1>6 DEF ScalarBytes
  <2>4. Payload(F, cpp, type, v) = Fixed(v, Bytes64)
    BY <1>6, <2>1, <2>2 DEF Payload
  <2> QED BY <2>2, <2>3, <2>4
<1> QED BY <1>1, <1>2, <1>3, <1>4, <1>5, <1>6

\* A value with its tag, of a field that is always written.
AsFormat(F, num, cpp, type, v, has) ==
  ValueBytes(F, Value(Tag(num, TagType(cpp, type)), cpp, type, v, has)) =
    IF has /\ ~IsMessage(cpp) /\ IsZero(cpp, v) THEN <<>> ELSE Tagged(F, num, cpp, type, v)

\* A converter of one value writes the record of the format, unless it leaves out a zero.
LEMMA ValueFormat ==
  ASSUME NEW F, NEW Objects, NEW num, NEW cpp, NEW type \in 0 .. 3, NEW v, HasType(Objects, cpp, v),
         Suits(cpp, type), NumberFits(cpp, type, v), NEW has
  PROVE  AsFormat(F, num, cpp, type, v, has)
<1> DEFINE t == Value(Tag(num, TagType(cpp, type)), cpp, type, v, has)
<1>1. /\ t.tag = Tag(num, TagType(cpp, type)) /\ t.cpp = cpp /\ t.type = type /\ t.v = v /\ t.has = has
  BY DEF Value
<1> HIDE DEF t
<1>2. CASE IsMessage(cpp)
  <2>2. cpp \notin Ints32 \cup Ints64 \cup {"string", "bool", "float", "double"}
    BY <1>2, TypesDiffer
  <2>5. TagType(cpp, type) = WT_LENGTH_DELIMITED /\ FormatType(cpp, type) = WT_LENGTH_DELIMITED
    BY <1>2, <2>2 DEF TagType, FormatType
  <2>1. TagType(cpp, type) = FormatType(cpp, type)
    BY <2>5
  <2>3. Payload(F, cpp, type, v) = LengthDelimited(F[Object(cpp, v)])
    BY <1>2, <2>2, <2>5 DEF Payload, WT_LENGTH_DELIMITED, WT_32BIT, WT_64BIT
  <2>4. ValueBytes(F, t) = t.tag \o LengthDelimited(F[Object(cpp, v)])
    BY <1>1, <1>2 DEF ValueBytes
  <2> QED BY <1>1, <1>2, <2>1, <2>3, <2>4 DEF AsFormat, Tagged, t
<1>3. CASE ~IsMessage(cpp)
  <2>1. TagType(cpp, type) = FormatType(cpp, type) /\ ScalarBytes(cpp, type, v) = Payload(F, cpp, type, v)
    BY <1>3, ScalarFormat
  <2>2. ValueBytes(F, t) = IF has /\ IsZero(cpp, v) THEN <<>> ELSE t.tag \o ScalarBytes(cpp, type, v)
    BY <1>1, <1>3 DEF ValueBytes
  <2> QED BY <1>1, <1>3, <2>1, <2>2 DEF AsFormat, Tagged, t
<1> QED BY <1>2, <1>3

\* A key or a value of a map.
LEMMA EntryValueFormat ==
  ASSUME NEW F, NEW Objects, NEW num, NEW cpp, NEW type \in 0 .. 1, NEW v, HasType(Objects, cpp, v),
         cpp \notin {"float", "double"}, EntryFits(cpp, type, v)
  PROVE  ValueBytes(F, EntryValue(num, cpp, type, v)) = Tagged(F, num, cpp, type, v)
<1> USE DEF TYPE_VARINT, TYPE_SVARINT, TYPE_FIXED32, TYPE_FIXED64, WT_VARINT, WT_32BIT, WT_64BIT, WT_LENGTH_DELIMITED
<1>1. CASE type = 0
  <2>1. TagType(cpp, type) = WriteType(cpp)
    <3>1. cpp = "string" \/ IsMessage(cpp) => WriteType(cpp) = WT_LENGTH_DELIMITED
      <4>1. cpp = "string" \/ IsMessage(cpp) => cpp \notin Ints32 \cup Ints64 \cup {"bool", "float", "double"}
        BY TypesDiffer
      <4> QED BY <4>1 DEF WriteType
    <3> QED BY <1>1, <3>1 DEF TagType
  <2>2. EntryValue(num, cpp, type, v) = Value(Tag(num, TagType(cpp, type)), cpp, type, v, FALSE)
    <3>1. type \notin {TYPE_SVARINT, TYPE_FIXED32} /\ type # TYPE_FIXED64 /\ type = TYPE_VARINT
      BY <1>1
    <3> HIDE DEF TYPE_VARINT, TYPE_SVARINT, TYPE_FIXED32, TYPE_FIXED64
    <3> QED BY <2>1, <3>1 DEF EntryValue, EntryTag
  <2>3. Suits(cpp, type) /\ NumberFits(cpp, type, v) /\ type \in 0 .. 3
    BY <1>1 DEF Suits, NumberFits, EntryFits
  <2>4. AsFormat(F, num, cpp, type, v, FALSE)
    BY <2>3, ValueFormat
  <2> QED BY <2>2, <2>4 DEF AsFormat
<1>2. CASE type = 1
  <2>1. cpp \in Ints32 \cup Ints64 /\ 2 * v < Mod32
    BY <1>2 DEF EntryFits, Misread
  <2>2. v \in Nat /\ Mod32 \in Nat \ {0} /\ Mod64 \in Nat /\ Mod32 < Mod64
    BY <2>1, ValuesAre, WidthsAre
  <2>3. cpp \notin {"string", "bool", "float", "double"} /\ ~IsMessage(cpp)
    BY <2>1, TypesDiffer
  <2>4. "uint32" \in Ints32
    BY DEF Ints32
  <2>5. ~IsMessage("uint32")
    BY <2>4, TypesDiffer
  <2>6. WriteType(cpp) = WT_VARINT /\ FormatType(cpp, type) = WT_VARINT
    BY <1>2, <2>1, <2>3 DEF WriteType, FormatType
  <2>7. EntryValue(num, cpp, type, v) = Value(Tag(num, WT_VARINT), "uint32", type, v % Mod32, FALSE)
    BY <1>2, <2>6 DEF EntryValue, EntryTag
  <2>8. v % Mod32 = v
    BY <2>1, <2>2
  <2>9. ValueBytes(F, EntryValue(num, cpp, type, v)) = Tag(num, WT_VARINT) \o ScalarBytes("uint32", type, v)
    BY <2>5, <2>7, <2>8 DEF ValueBytes, Value
  <2>10. ScalarBytes("uint32", type, v) = VarintBytes[2 * v]
    <3>1. ScalarBytes("uint32", type, v) = IntBytes("uint32", type, v)
      BY <2>4, TypesDiffer DEF ScalarBytes
    <3>2. IntBytes("uint32", type, v) = VarintBytes[ZigZag(v, Mod32)]
      BY <1>2, <2>4 DEF IntBytes, IntModulus
    <3> QED BY <2>1, <2>2, <3>1, <3>2, ZigZagFits
  <2>11. Payload(F, cpp, type, v) = VarintBytes[2 * v]
    <3>1. Payload(F, cpp, type, v) = VarintBytes[ZigZagFormat(v, IntModulus(cpp))]
      BY <1>2, <2>1, <2>3, <2>6 DEF Payload
    <3>2. IntModulus(cpp) \in Nat \ {0} /\ 2 * v < IntModulus(cpp)
      BY <2>1, <2>2 DEF IntModulus
    <3> QED BY <2>2, <3>1, <3>2, ZigZagFits
  <2> QED BY <2>6, <2>9, <2>10, <2>11 DEF Tagged
<1> QED BY <1>1, <1>2

\* A field that is written well is written as its records.
WellFormed(Objects, item, m) ==
  /\ IsItem(item) /\ FieldHasType(Objects, item, m.val[item.num])
  /\ item.shape = "map" => EntriesFit(item, m.val[item.num])
  /\ WrittenWell(item) /\ FlagFits(item, m)
  /\ \A v \in Members(item, m.val[item.num]) : NumberFits(item.cpp, item.low, v)

\* The converter of a field that is written well writes the records of the format.
LEMMA FieldFormat ==
  ASSUME NEW F, NEW Objects, Good(Objects, TRUE), Answered(F, Objects),
         NEW item, NEW m, WellFormed(Objects, item, m)
  PROVE  /\ FlattenSeq(FieldRecords(F, item, m)) = TaskBytes(F, FieldTask(item, m.val[item.num]))
         /\ IsTask(Objects, TRUE, FieldTask(item, m.val[item.num]))
<1> DEFINE v == m.val[item.num]
           t == FieldTask(item, v)
<1>1. IsItem(item) /\ FieldHasType(Objects, item, v) /\ (item.shape = "map" => EntriesFit(item, v))
  BY DEF WellFormed
<1>2. /\ WrittenWell(item) /\ FlagFits(item, m)
      /\ \A x \in Members(item, v) : NumberFits(item.cpp, item.low, x)
  BY DEF WellFormed
<1>3. /\ item.shape \in {"single", "vector", "map"} /\ item.low \in 0 .. 3 /\ item.high \in 0 .. 3
      /\ item.shape = "map" => item.cpp \notin {"float", "double"} /\ item.key \notin {"float", "double"}
  BY <1>1, ItemsAre
<1>4. IsTask(Objects, TRUE, t)
  <2> HIDE DEF t, v
  <2>1. item.shape = "map" /\ TRUE => EntriesFit(item, v)
    BY <1>1
  <2> QED BY <1>1, <2>1, FieldTaskIs DEF t
<1>5. TaskBytes(F, t) \in Seq(Byte)
  BY <1>4, TasksAreOpen DEF OpenTask
<1> USE DEF TYPE_VARINT, TYPE_SVARINT, TYPE_FIXED32, TYPE_FIXED64
<1>6. CASE item.shape = "single"
  <2> DEFINE record == Tagged(F, item.num, item.cpp, item.low, v)
  <2>1. t = Value(Tag(item.num, TagType(item.cpp, item.low)), item.cpp, item.low, v, item.has)
    BY <1>6 DEF FieldTask
  <2>2. Suits(item.cpp, item.low) /\ HasType(Objects, item.cpp, v) /\ NumberFits(item.cpp, item.low, v)
    BY <1>1, <1>2, <1>6 DEF WrittenWell, Registered, Suits, FieldHasType, Members
  <2>3. t.op = "value"
    BY <2>1 DEF Value
  <2>4. TaskBytes(F, t) = ValueBytes(F, t)
    BY <2>3 DEF TaskBytes, CallBytes
  <2>5. TaskBytes(F, t) = IF item.has /\ ~IsMessage(item.cpp) /\ IsZero(item.cpp, v) THEN <<>> ELSE record
    <3>1. AsFormat(F, item.num, item.cpp, item.low, v, item.has)
      <4> HIDE DEF v
      <4> QED BY <1>3, <2>2, ValueFormat
    <3> QED BY <2>1, <2>4, <3>1 DEF AsFormat
  <2>6. FieldRecords(F, item, m) = IF item.has => m.has[item.num] THEN <<record>> ELSE <<>>
    BY <1>6 DEF FieldRecords
  <2>7. item.has => (m.has[item.num] = (IsMessage(item.cpp) \/ ~IsZero(item.cpp, v)))
    BY <1>2, <1>6 DEF FlagFits
  <2> HIDE DEF t, v, record
  <2>8. CASE item.has /\ ~IsMessage(item.cpp) /\ IsZero(item.cpp, v)
    BY <1>4, <2>5, <2>6, <2>7, <2>8, FlattenNone DEF t, v
  <2>9. CASE ~(item.has /\ ~IsMessage(item.cpp) /\ IsZero(item.cpp, v))
    <3>1. TaskBytes(F, t) = record /\ FieldRecords(F, item, m) = <<record>>
      BY <2>5, <2>6, <2>7, <2>9
    <3>2. FlattenSeq(<<record>>) = record
      BY <1>5, <3>1, FlattenOne
    <3> QED BY <1>4, <3>1, <3>2 DEF t, v
  <2> QED BY <2>8, <2>9
<1>7. CASE item.shape = "vector"
  <2>1. item.low = 0 /\ item.high # PACKED
    BY <1>2, <1>7 DEF WrittenWell
  <2>2. \A i \in DOMAIN v : HasType(Objects, item.cpp, v[i]) /\ NumberFits(item.cpp, item.low, v[i])
    BY <1>1, <1>2, <1>7 DEF FieldHasType, Members
  <2>3. Len(v) \in Nat /\ DOMAIN v = 1 .. Len(v)
    BY <1>1, <1>7, LenProperties DEF FieldHasType
  <2> DEFINE tag == Tag(item.num, TagType(item.cpp, item.low))
             tasks == ArrayTasks(item, v)
  <2>4. t.op = "vector" /\ t.item = item /\ t.v = v
    BY <1>7 DEF FieldTask
  <2>5. TaskBytes(F, t) = CallsBytes(F, tasks)
    BY <2>1, <2>4 DEF TaskBytes
  <2>6. tasks = [i \in 1 .. Len(v) |-> Value(tag, item.cpp, item.low, v[i], FALSE)] /\ Len(tasks) = Len(v)
    BY <2>3 DEF ArrayTasks, ElementTasks
  <2>7. FieldRecords(F, item, m) = [i \in 1 .. Len(v) |-> Tagged(F, item.num, item.cpp, item.low, v[i])]
    BY <1>7, <2>1 DEF FieldRecords
  <2>8. Suits(item.cpp, item.low)
    BY <2>1 DEF Suits
  <2> HIDE DEF t, v
  <2>9. ASSUME NEW i \in 1 .. Len(v)
        PROVE  CallBytes(F, tasks[i]) = Tagged(F, item.num, item.cpp, item.low, v[i])
    <3> DEFINE x == Value(tag, item.cpp, item.low, v[i], FALSE)
    <3>1. tasks[i] = x /\ x.op = "value"
      BY <2>6 DEF Value
    <3>2. CallBytes(F, x) = ValueBytes(F, x)
      BY <3>1 DEF CallBytes
    <3>3. HasType(Objects, item.cpp, v[i]) /\ NumberFits(item.cpp, item.low, v[i])
      BY <2>2, <2>3
    <3> DEFINE w == v[i]
    <3>4. HasType(Objects, item.cpp, w) /\ NumberFits(item.cpp, item.low, w)
      BY <3>3
    <3> HIDE DEF w
    <3>5. AsFormat(F, item.num, item.cpp, item.low, w, FALSE)
      BY <1>3, <2>8, <3>4, ValueFormat
    <3> QED BY <3>1, <3>2, <3>5 DEF AsFormat, w
  <2> HIDE DEF tasks
  <2>10. [i \in 1 .. Len(tasks) |-> CallBytes(F, tasks[i])] =
         [i \in 1 .. Len(v) |-> Tagged(F, item.num, item.cpp, item.low, v[i])]
    BY <2>6, <2>9
  <2> QED BY <1>4, <2>5, <2>7, <2>10 DEF CallsBytes, t, v
<1>8. CASE item.shape = "map"
  <2>1. item.low \in 0 .. 1 /\ item.high \in 0 .. 1
    <3>1. {item.low, item.high} \cap {TYPE_FIXED32, TYPE_FIXED64} = {}
      BY <1>2, <1>8 DEF WrittenWell
    <3>2. item.low \in {0, 1, 2, 3} /\ item.high \in {0, 1, 2, 3}
      BY <1>3
    <3>3. item.low \notin {2, 3} /\ item.high \notin {2, 3}
      BY <3>1
    <3> QED BY <3>2, <3>3
  <2> DEFINE keys == Keys(item, v)
             n == Cardinality(DOMAIN v)
             tasks == EntryTasks(item, v)
  <2>2. /\ n \in Nat /\ InOrder(item, v) # {}
        /\ \A k \in DOMAIN v : HasType(Objects, item.key, k) /\ HasType(Objects, item.cpp, v[k])
    BY <1>1, <1>8 DEF FieldHasType
  <2>3. \A i \in 1 .. n : keys[i] \in DOMAIN v
    BY <2>2, KeysAre
  <2>4. t.op = "map" /\ t.item = item /\ t.v = v
    BY <1>8 DEF FieldTask
  <2>5. TaskBytes(F, t) = CallsBytes(F, tasks)
    BY <2>4 DEF TaskBytes
  <2>6. tasks = [i \in 1 .. n |-> [op |-> "entry", item |-> item, k |-> keys[i], v |-> v[keys[i]]]]
        /\ Len(tasks) = n
    BY <2>2 DEF EntryTasks
  <2>7. FieldRecords(F, item, m) = [i \in 1 .. n |-> EntryFormat(F, item, keys[i], v[keys[i]])]
    BY <1>8 DEF FieldRecords
  <2> HIDE DEF t, v, n, keys
  <2>8. ASSUME NEW i \in 1 .. n
        PROVE  CallBytes(F, tasks[i]) = EntryFormat(F, item, keys[i], v[keys[i]])
    <3> DEFINE e == tasks[i]
    <3>1. e.op = "entry" /\ e.item = item /\ e.k = keys[i] /\ e.v = v[keys[i]]
      BY <2>6
    <3> HIDE DEF e
    <3>2. /\ HasType(Objects, item.key, keys[i]) /\ HasType(Objects, item.cpp, v[keys[i]])
          /\ EntryFits(item.key, item.high, keys[i]) /\ EntryFits(item.cpp, item.low, v[keys[i]])
      BY <1>1, <1>8, <2>2, <2>3 DEF EntriesFit
    <3>3. ValueBytes(F, EntryKey(e)) = Tagged(F, 1, item.key, item.high, keys[i])
      BY <1>3, <1>8, <2>1, <3>1, <3>2, EntryValueFormat DEF EntryKey
    <3>4. ValueBytes(F, EntryMapped(e)) = Tagged(F, 2, item.cpp, item.low, v[keys[i]])
      BY <1>3, <1>8, <2>1, <3>1, <3>2, EntryValueFormat DEF EntryMapped
    <3> QED BY <3>1, <3>3, <3>4 DEF CallBytes, EntryFormat, e
  <2> HIDE DEF tasks
  <2>9. [i \in 1 .. Len(tasks) |-> CallBytes(F, tasks[i])] =
        [i \in 1 .. n |-> EntryFormat(F, item, keys[i], v[keys[i]])]
    BY <2>6, <2>8
  <2> QED BY <1>4, <2>5, <2>7, <2>9 DEF CallsBytes, t, v
<1> QED BY <1>3, <1>6, <1>7, <1>8

\* A message whose fields are written well is written as its fields.
LEMMA MessageIs ==
  ASSUME NEW F, NEW Objects, Good(Objects, TRUE), Answered(F, Objects),
         NEW struct \in DOMAIN Schema, NEW value,
         \A item \in Range(Schema[struct]) : WellFormed(Objects, item, value)
  PROVE  /\ MessageFormat(F, Schema[struct], value) = AllBytes(F, FieldTasks(struct, value))
         /\ AllTasks(Objects, TRUE, FieldTasks(struct, value))
<1> DEFINE items == Schema[struct]
           n == Len(items)
           Task(item) == FieldTask(item, value.val[item.num])
           S == {Task(items[i]) : i \in 1 .. n}
           tasks == [i \in 1 .. n |-> Task(items[i])]
<1>1. n \in Nat /\ DOMAIN items = 1 .. n
  BY SchemaAssumption, LenProperties
<1>2. \A i \in 1 .. n : WellFormed(Objects, items[i], value)
  BY <1>1 DEF Range
<1>3. \A i \in 1 .. n : Registered(items[i])
  <2> TAKE i \in 1 .. n
  <2>1. WrittenWell(items[i])
    BY <1>2 DEF WellFormed
  <2>2. items[i].shape # "single" => Registered(items[i])
    BY DEF Registered
  <2>3. items[i].shape = "single" => Registered(items[i])
    BY <2>1 DEF WrittenWell
  <2> QED BY <2>2, <2>3
<1>4. \A i \in 1 .. n :
        /\ FlattenSeq(FieldRecords(F, items[i], value)) = TaskBytes(F, Task(items[i]))
        /\ IsTask(Objects, TRUE, Task(items[i]))
  BY <1>2, FieldFormat
<1>5. FieldTasks(struct, value) = FlattenSeq([i \in 1 .. n |-> <<Task(items[i])>>])
  BY <1>3 DEF FieldTasks
<1> HIDE DEF items, n, Task
<1>6. tasks \in Seq(S) /\ Len(tasks) = n /\ \A i \in 1 .. n : tasks[i] = Task(items[i])
  BY <1>1
<1>7. FieldTasks(struct, value) = tasks
  <2>1. [i \in 1 .. n |-> <<Task(items[i])>>] = [i \in 1 .. Len(tasks) |-> <<tasks[i]>>]
    BY <1>6
  <2> HIDE DEF tasks
  <2> QED BY <1>5, <1>6, <2>1, FlattenSingles
<1>8. \A t \in S : IsTask(Objects, TRUE, t)
  BY <1>4
<1> HIDE DEF S, tasks
<1>9. AllTasks(Objects, TRUE, tasks)
  BY <1>6, <1>8, TasksFrom
<1>10. [i \in 1 .. n |-> FlattenSeq(FieldRecords(F, items[i], value))] = [i \in 1 .. Len(tasks) |-> TaskBytes(F, tasks[i])]
  BY <1>4, <1>6
<1>11. MessageFormat(F, items, value) = AllBytes(F, tasks)
  BY <1>10 DEF MessageFormat, AllBytes, n
<1> QED BY <1>7, <1>9, <1>11 DEF items

-----------------------------------------------------------------------------
(* The formats.  No object holds itself: depth is how deep the objects nest. *)

Nests(depth) == Nesting(Schema, AllObjects, depth)

IsFormat(F) == F = [m \in AllObjects |-> MessageFormat(F, Schema[m.struct], m.value)]

LEMMA ItemsShaped == Itemised(Schema)
BY SchemaAssumption DEF Itemised

\* The bytes of the format are well defined.
LEMMA FormatIs ==
  ASSUME NEW depth, Nests(depth), Typed(AllObjects)
  PROVE  IsFormat(Format)
BY ItemsShaped, FormatsAre DEF Typed, Nests, IsFormat, Format

-----------------------------------------------------------------------------
(* The objects whose bytes are claimed.                                      *)

\* A field that holds none but some of the objects is a field of those.
LEMMA TypeBelow ==
  ASSUME NEW Objects, NEW Lower, NEW cpp, NEW v, HasType(Objects, cpp, v),
         IsMessage(cpp) => Object(cpp, v) \in Lower
  PROVE  HasType(Lower, cpp, v)
<1>1. CASE IsMessage(cpp)
  <2>1. cpp \notin Ints32 \cup Ints64 \cup {"string", "bool", "float", "double"}
    BY <1>1, TypesDiffer
  <2> QED BY <1>1, <2>1 DEF HasType
<1>2. CASE ~IsMessage(cpp)
  <2>1. cpp \in Ints32 \cup Ints64 \cup {"string", "bool", "float", "double"}
    BY <1>2, TypesDiffer
  <2>2. HasType(Objects, cpp, v) = HasType(Lower, cpp, v)
    BY <2>1, TypesDiffer DEF HasType
  <2> QED BY <2>2
<1> QED BY <1>1, <1>2

\* The fields of an object are of their types in any set that has what the object holds.
LEMMA FieldsBelow ==
  ASSUME NEW Objects, WellTyped(Schema, Objects), NEW Lower, NEW m \in Objects,
         Held(Schema[m.struct], m) \subseteq Lower
  PROVE  \A item \in Range(Schema[m.struct]) : FieldHasType(Lower, item, m.value.val[item.num])
<1> DEFINE items == Schema[m.struct]
<1> SUFFICES ASSUME NEW item \in Range(items) PROVE FieldHasType(Lower, item, m.value.val[item.num])
  OBVIOUS
<1>1. PICK j \in DOMAIN items : item = items[j]
  BY DEF Range
<1> DEFINE v == m.value.val[item.num]
<1>2. FieldHasType(Objects, item, v) /\ item.shape \in {"single", "vector", "map"}
  BY SchemaAssumption DEF WellTyped
<1>3. ASSUME NEW x \in Members(item, v), HasType(Objects, item.cpp, x)
      PROVE  HasType(Lower, item.cpp, x)
  <2>1. IsMessage(item.cpp) => Object(item.cpp, x) \in Lower
    <3> SUFFICES ASSUME IsMessage(item.cpp) PROVE Object(item.cpp, x) \in Lower
      OBVIOUS
    <3> DEFINE o == Object(item.cpp, x)
    <3>1. IsMessage(o.struct) /\ o = Object(items[j].cpp, x) /\ x \in Members(items[j], m.value.val[items[j].num])
      BY <1>1 DEF Object
    <3> HIDE DEF o, items
    <3>2. o \in Held(items, m)
      BY <3>1, HeldAre
    <3> QED BY <3>2 DEF o, items
  <2> QED BY <1>3, <2>1, TypeBelow
<1>4. ASSUME item.shape = "map", NEW k \in DOMAIN v, HasType(Objects, item.key, k)
      PROVE  HasType(Lower, item.key, k)
  <2>1. IsMessage(item.key) => Object(item.key, k) \in Lower
    <3> SUFFICES ASSUME IsMessage(item.key) PROVE Object(item.key, k) \in Lower
      OBVIOUS
    <3> DEFINE o == Object(item.key, k)
    <3>1. IsMessage(o.struct) /\ o = Object(items[j].key, k) /\ items[j].shape = "map"
          /\ k \in DOMAIN m.value.val[items[j].num]
      BY <1>1, <1>4 DEF Object
    <3> HIDE DEF o, items
    <3>2. o \in Held(items, m)
      BY <3>1, HeldAre
    <3> QED BY <3>2 DEF o, items
  <2> QED BY <1>4, <2>1, TypeBelow
<1> HIDE DEF items, v
<1>5. CASE item.shape = "single"
  <2>1. v \in Members(item, v) /\ HasType(Objects, item.cpp, v)
    BY <1>2, <1>5 DEF Members, FieldHasType
  <2>2. HasType(Lower, item.cpp, v)
    BY <1>3, <2>1
  <2> QED BY <1>5, <2>2 DEF FieldHasType, v
<1>6. CASE item.shape = "vector"
  <2>1. /\ v \in Seq({v[i] : i \in DOMAIN v})
        /\ \A i \in DOMAIN v : v[i] \in Members(item, v) /\ HasType(Objects, item.cpp, v[i])
    BY <1>2, <1>6 DEF Members, FieldHasType
  <2>2. \A i \in DOMAIN v : HasType(Lower, item.cpp, v[i])
    BY <1>3, <2>1
  <2> QED BY <1>6, <2>1, <2>2 DEF FieldHasType, v
<1>7. CASE item.shape = "map"
  <2>1. /\ v = [k \in DOMAIN v |-> v[k]] /\ InOrder(item, v) # {} /\ Cardinality(DOMAIN v) \in Nat
        /\ \A k \in DOMAIN v : /\ v[k] \in Members(item, v) /\ HasType(Objects, item.cpp, v[k])
                               /\ HasType(Objects, item.key, k)
    BY <1>2, <1>7 DEF Members, FieldHasType
  <2>2. \A k \in DOMAIN v : HasType(Lower, item.cpp, v[k]) /\ HasType(Lower, item.key, k)
    BY <1>3, <1>4, <1>7, <2>1
  <2> QED BY <1>7, <2>1, <2>2 DEF FieldHasType, v
<1> QED BY <1>2, <1>5, <1>6, <1>7

\* The bytes of the format are those of the tasks, and as many as are counted.
LEMMA FaithfulAnswered ==
  ASSUME NEW depth, Nests(depth), Typed(AllObjects), FaithfulObjects \subseteq AllObjects,
         Typed(FaithfulObjects), CountsAsWritten(FaithfulObjects), WrittenAsFormat(FaithfulObjects)
  PROVE  Answered(Format, FaithfulObjects)
<1> DEFINE rank == [m \in FaithfulObjects |-> depth[m]]
           Holds == {m \in FaithfulObjects : Answers(Format, m)}
<1>1. depth \in [AllObjects -> Nat] /\ WellTyped(Schema, FaithfulObjects)
  BY DEF Nests, Nesting, Typed
<1>2. ASSUME NEW m \in FaithfulObjects, \A o \in FaithfulObjects : depth[o] < depth[m] => Answers(Format, o)
      PROVE  Answers(Format, m)
  <2> DEFINE Lower == {o \in FaithfulObjects : depth[o] < depth[m]}
             F == Format
             items == Schema[m.struct]
  <2>1. ASSUME NEW o \in FaithfulObjects, NEW p \in Held(Schema[o.struct], o)
        PROVE  p \in FaithfulObjects /\ depth[p] < depth[o]
    <3>1. p \in FaithfulObjects
      BY <1>1, ItemsShaped, HeldInside
    <3> QED BY <3>1 DEF Nests, Nesting
  <2>2. Held(items, m) \subseteq Lower
    BY <2>1
  <2>3. \A o \in Lower : Held(Schema[o.struct], o) \subseteq Lower
    <3> TAKE o \in Lower
    <3>1. \A p \in Held(Schema[o.struct], o) : p \in FaithfulObjects /\ depth[p] < depth[o]
      BY <2>1
    <3>2. depth[o] \in Nat /\ depth[m] \in Nat /\ depth[o] < depth[m] /\ \A p \in FaithfulObjects : depth[p] \in Nat
      BY <1>1
    <3> QED BY <3>1, <3>2
  <2>4. Lower \subseteq FaithfulObjects /\ Answered(F, Lower)
    BY <1>2 DEF Answered
  <2> HIDE DEF Lower
  <2>5. WellTyped(Schema, Lower)
    <3>1. ASSUME NEW o \in Lower
          PROVE  /\ o.struct \in DOMAIN Schema
                 /\ \A item \in Range(Schema[o.struct]) : FieldHasType(Lower, item, o.value.val[item.num])
      <4>1. o \in FaithfulObjects /\ Held(Schema[o.struct], o) \subseteq Lower
        BY <2>3, <2>4
      <4>2. o.struct \in DOMAIN Schema
        BY <1>1, <4>1, ItemsShaped, FieldsAre
      <4> QED BY <1>1, <4>1, <4>2, FieldsBelow
    <3> QED BY <3>1 DEF WellTyped
  <2>6. Good(Lower, TRUE)
    <3>1. Typed(Lower)
      BY <2>4, <2>5 DEF Typed
    <3>2. CountsAsWritten(Lower)
      BY <2>4 DEF CountsAsWritten
    <3> QED BY <3>1, <3>2 DEF Good
  <2>7. m.struct \in DOMAIN Schema
    BY <1>1, ItemsShaped, FieldsAre
  <2>8. \A item \in Range(items) : WellFormed(Lower, item, m.value)
    <3> TAKE item \in Range(items)
    <3>1. IsItem(item)
      BY <2>7 DEF IsItem
    <3>2. FieldHasType(Lower, item, m.value.val[item.num])
      BY <1>1, <2>2, FieldsBelow
    <3>3. item.shape = "map" => EntriesFit(item, m.value.val[item.num])
      BY DEF CountsAsWritten, EntriesFit
    <3>4. /\ WrittenWell(item) /\ FlagFits(item, m.value)
          /\ \A v \in Members(item, m.value.val[item.num]) : NumberFits(item.cpp, item.low, v)
      BY DEF WrittenAsFormat
    <3> QED BY <3>1, <3>2, <3>3, <3>4 DEF WellFormed
  <2> DEFINE tasks == FieldTasks(m.struct, m.value)
  <2> HIDE DEF F
  <2>9. MessageFormat(F, items, m.value) = AllBytes(F, tasks) /\ AllTasks(Lower, TRUE, tasks)
    BY <2>4, <2>6, <2>7, <2>8, MessageIs
  <2>10. F[m] = AllBytes(F, tasks)
    <3>1. IsFormat(F)
      BY FormatIs DEF F
    <3>2. m \in AllObjects
      OBVIOUS
    <3> QED BY <2>9, <3>1, <3>2 DEF IsFormat
  <2>11. GetByteSize(m.struct, m.value) = Total(Sizes(tasks))
    BY DEF CountsAsWritten
  <2> HIDE DEF tasks
  <2>12. \A i \in 1 .. Len(tasks) : OpenTask(F, tasks[i])
    <3>1. \A i \in 1 .. Len(tasks) : IsTask(Lower, TRUE, tasks[i])
      BY <2>9 DEF AllTasks
    <3> QED BY <2>4, <2>6, <3>1, TasksAreOpen
  <2>13. AllBytes(F, tasks) \in Seq(Byte) /\ Len(AllBytes(F, tasks)) = Total(Sizes(tasks))
    BY <2>6, <2>9, <2>12, OpenTasks
  <2> QED BY <2>10, <2>11, <2>13 DEF Answers, tasks, F
<1>3. Inherits(FaithfulObjects, rank, Holds)
  <2>1. rank \in [FaithfulObjects -> Nat] /\ Holds \in SUBSET FaithfulObjects
    BY <1>1
  <2>2. \A m \in FaithfulObjects : rank[m] = depth[m]
    OBVIOUS
  <2> HIDE DEF rank
  <2> QED BY <1>2, <2>1, <2>2 DEF Inherits
<1> HIDE DEF rank, Holds
<1>4. Holds = FaithfulObjects
  BY <1>3, RankInduction
<1> QED BY <1>4 DEF Holds, Answered

-----------------------------------------------------------------------------
(* The bytes that are written.                                               *)

\* What the theorems suppose of the program: its messages and what they hold are
\* of their types, no object holds itself, and those for which the bytes are claimed
\* are counted as they are written and written as the format says.
Program(depth) ==
  /\ Messages \subseteq AllObjects /\ Typed(AllObjects) /\ Nests(depth)
  /\ FaithfulObjects \subseteq AllObjects /\ Typed(FaithfulObjects)
  /\ CountsAsWritten(FaithfulObjects) /\ WrittenAsFormat(FaithfulObjects)

SoFar == IF phase = "converting" THEN out ELSE <<>>

\* What is written and what the tasks are to write are the bytes of the message.
InFormat ==
  /\ message \in FaithfulObjects /\ phase \in {"reserving", "converting"} =>
       SoFar \o AllBytes(Format, agenda) = Format[message]
  /\ message \in FaithfulObjects /\ Encoded => out = Format[message]

Writes == Kinds(AllObjects) /\ Schedule(FaithfulObjects) /\ InFormat

\* The suppositions, as the lemmas of the tasks use them.
LEMMA ProgramIs ==
  ASSUME NEW depth, Program(depth)
  PROVE  /\ Good(FaithfulObjects, TRUE) /\ Answered(Format, FaithfulObjects)
         /\ \A m \in FaithfulObjects : Format[m] \in Seq(Byte)
                                       /\ Format[m] = AllBytes(Format, FieldTasks(m.struct, m.value))
<1>1. Answered(Format, FaithfulObjects)
  BY FaithfulAnswered DEF Program
<1>2. Good(FaithfulObjects, TRUE)
  BY DEF Program, Good
<1> QED BY <1>1, <1>2 DEF Answered, Answers

\* Every step keeps what is written and what is to be written the bytes of the format.
LEMMA InFormatStep ==
  ASSUME NEW depth, Program(depth), Writes, [Next]_vars
  PROVE  InFormat'
<1>1. /\ Good(FaithfulObjects, TRUE) /\ Answered(Format, FaithfulObjects)
      /\ \A m \in FaithfulObjects : Format[m] \in Seq(Byte)
                                    /\ Format[m] = AllBytes(Format, FieldTasks(m.struct, m.value))
  BY ProgramIs
<1>2. out \in Seq(Byte) /\ AllTasks(AllObjects, FALSE, agenda)
  BY DEF Writes, Kinds, TypeOK
<1>3. message \in FaithfulObjects /\ phase \in {"reserving", "converting"} => AllTasks(FaithfulObjects, TRUE, agenda)
  BY DEF Writes, Schedule, OnSchedule
<1>4. InFormat
  BY DEF Writes
<1> USE DEF InFormat, Encoded
<1>5. CASE Begin
  <2> USE <1>5 DEF Begin
  <2>1. PICK m \in Messages : message' = m /\ agenda' = FieldTasks(m.struct, m.value)
    OBVIOUS
  <2>2. phase' = "reserving" /\ SoFar' = <<>>
    BY DEF SoFar
  <2>3. ASSUME m \in FaithfulObjects PROVE <<>> \o AllBytes(Format, agenda') = Format[m]
    BY <1>1, <2>1, <2>3, ConcatEmptySeq
  <2> QED BY <2>1, <2>2, <2>3
<1>6. CASE BeginAborts
  BY <1>6 DEF BeginAborts
<1>7. CASE Reserve
  <2>1. SoFar = <<>> /\ SoFar' = <<>> /\ phase = "reserving" /\ phase' = "converting"
        /\ message' = message /\ agenda' = agenda
    BY <1>7 DEF Reserve, SoFar
  <2> QED BY <1>4, <2>1
<1>8. CASE ReserveAborts
  BY <1>8 DEF ReserveAborts
<1>9. CASE Convert
  <2>1. Typed(AllObjects)
    BY DEF Program
  <2>2. Moves \/ Stops
    BY <1>2, <1>9, <2>1, ConvertIs
  <2>3. CASE Stops
    BY <2>3 DEF Stops
  <2>4. CASE Moves
    <3>1. /\ phase = "converting" /\ phase' = "converting" /\ message' = message /\ agenda # <<>>
          /\ agenda' = After(agenda) /\ out' = out \o Own(Head(agenda))
      BY <2>4 DEF Moves, Current
    <3>2. ASSUME message \in FaithfulObjects
          PROVE  out' \o AllBytes(Format, agenda') = Format[message]
      <4>1. out \o AllBytes(Format, agenda) = Format[message]
        BY <1>4, <3>1, <3>2 DEF SoFar
      <4> DEFINE own == Own(Head(agenda))
                 rest == AllBytes(Format, After(agenda))
      <4>2. own \in Seq(Byte) /\ rest \in Seq(Byte) /\ AllBytes(Format, agenda) = own \o rest
        BY <1>1, <1>3, <3>1, <3>2, BytesAfter
      <4>3. \A x, y, z \in Seq(Byte) : (x \o y) \o z = x \o (y \o z)
        BY JoinedEither
      <4> HIDE DEF own, rest
      <4>4. (out \o own) \o rest = out \o (own \o rest)
        BY <1>2, <4>2, <4>3, Zenon
      <4> QED BY <3>1, <4>1, <4>2, <4>4 DEF own, rest
    <3> QED BY <3>1, <3>2 DEF SoFar
  <2> QED BY <2>2, <2>3, <2>4
<1>10. CASE Finish
  <2>1. phase = "converting" /\ phase' = "idle" /\ agenda = <<>> /\ out' = out /\ message' = message
    BY <1>10 DEF Finish
  <2>2. AllBytes(Format, <<>>) = <<>>
    BY NoBytes
  <2>3. out \o <<>> = out
    BY <1>2, ConcatEmptySeq
  <2> QED BY <1>4, <2>1, <2>2, <2>3 DEF SoFar
<1>11. CASE UNCHANGED vars
  BY <1>4, <1>11 DEF vars, SoFar
<1> QED BY <1>5, <1>6, <1>7, <1>8, <1>9, <1>10, <1>11 DEF Next

\* An encoder that has not been called has written what it should.
LEMMA FreshWrites == Fresh => Writes
<1> SUFFICES ASSUME Fresh PROVE Writes
  OBVIOUS
<1>1. phase = "idle" /\ calls = 0
  BY DEF Fresh
<1> QED BY <1>1, KindsInit, ScheduleInit DEF Writes, InFormat, Encoded

LEMMA WritesNext ==
  ASSUME NEW depth, Program(depth), Writes, [Next]_vars
  PROVE  Writes'
<1>1. Messages \subseteq AllObjects /\ Typed(AllObjects) /\ Typed(FaithfulObjects) /\ CountsAsWritten(FaithfulObjects)
  BY DEF Program
<1>2. Kinds(AllObjects) /\ Schedule(FaithfulObjects)
  BY DEF Writes
<1>3. Kinds(AllObjects)'
  BY <1>1, <1>2, KindsStep
<1>4. Schedule(FaithfulObjects)'
  BY <1>1, <1>2, ScheduleStep
<1> QED BY <1>3, <1>4, InFormatStep DEF Writes

\* The invariant: at each converter, what is written and the bytes of what is still to
\* be run make up the bytes that the format has for the message.
THEOREM WritesTheFormat ==
  ASSUME NEW depth, Program(depth)
  PROVE  Spec => []Writes
<1>1. Init => Writes
  BY InitFresh, FreshWrites
<1>2. Writes /\ [Next]_vars => Writes'
  BY WritesNext
<1> QED BY <1>1, <1>2, PTL DEF Spec

LEMMA WritesMeans == Writes => EncodesFormatIfWrittenWell
BY DEF Writes, Schedule, Finished, InFormat, EncodesFormatIfWrittenWell, EncodesFormat

\* A message that is written well, with all that it holds, is encoded as the bytes
\* that the format has for it, and operator<< returns true: the encoding that
\* serialize.h:71 refers to, for messages that nest as deep as they like.
THEOREM EncodesTheFormat ==
  ASSUME NEW depth, Program(depth)
  PROVE  Spec => []EncodesFormatIfWrittenWell
<1> QED BY WritesMeans, WritesTheFormat, PTL

-----------------------------------------------------------------------------
(* What a program sees of the call, for one that is composed of this module. *)

\* An encoder of its own for the next call.
LEMMA FreshNext == Fresh' => Writes'
BY FreshWrites, PTL

\* A step of a call is one inside it, or its return with what was written for the message.
LEMMA CallReturns ==
  ASSUME NEW depth, Program(depth), Writes, Next
  PROVE  \/ calls' = calls
         \/ /\ calls' = calls + 1 /\ phase' = "idle" /\ message' = message
            /\ message \in Messages
            /\ message \in FaithfulObjects => ret' /\ out' = Format[message]
<1>1. TypeOK /\ AllTasks(AllObjects, FALSE, agenda) /\ Typed(AllObjects)
  BY DEF Writes, Kinds, Program
<1>2. CASE Begin \/ BeginAborts \/ Reserve \/ ReserveAborts
  BY <1>2 DEF Begin, BeginAborts, Reserve, ReserveAborts
<1>3. CASE Convert
  <2>1. Moves \/ Stops
    BY <1>1, <1>3, ConvertIs DEF TypeOK
  <2> QED BY <2>1 DEF Moves, Stops
<1>4. CASE Finish
  <2>1. calls' = calls + 1 /\ phase' = "idle" /\ message' = message /\ message \in Messages /\ calls \in Nat
    BY <1>1, <1>4, EncoderAssumption DEF Finish, TypeOK
  <2>2. Encoded'
    BY <2>1 DEF Encoded
  <2>3. Writes'
    BY WritesNext
  <2>4. message \in FaithfulObjects => ret' /\ out' = Format[message]
    BY <2>1, <2>2, <2>3 DEF Writes, Schedule, Finished, InFormat
  <2> QED BY <2>1, <2>4
<1> QED BY <1>2, <1>3, <1>4 DEF Next
=============================================================================

-------------------------- MODULE DecoderFormatProofs --------------------------
(* Theorems about DecoderFormat, for every schema, every message that it     *)
(* says is read well and all other inputs of the program.                    *)
EXTENDS DecoderProofs, DecoderFormat

-----------------------------------------------------------------------------
(* Numbers.                                                                  *)

IsNumber(cpp) == cpp # "string" /\ ~IsMessage(cpp)

\* What the converter of the item makes of the number u, of so many bytes: v.
Yields(item, u, width, v) ==
  \A r \in Received(item, u, width) : Converted(item, r) = v

LEMMA ReceivedAre ==
  ASSUME NEW item, NEW u \in Num64, NEW width
  PROVE  /\ BoundTo(item) = "u64" /\ width = Bytes64 => Received(item, u, width) = {u}
         /\ BoundTo(item) = "u32" => Received(item, u, width) = {u % Mod32}
         /\ BoundTo(item) = "u64" /\ width = Bytes32 =>
              \A r \in Received(item, u, width) : \E k \in Nat : r = u + Mod32 * k
<1>1. Bytes32 # Bytes64
  BY WidthsAre
<1>2. \A g \in Unspecified : g \div Mod32 \in Nat
  <2>1. Unspecified \subseteq Nat
    BY DecoderAssumption DEF Num64
  <2>2. Mod32 \in Nat \ {0}
    BY WidthsAre
  <2> QED BY <2>1, <2>2
<1> QED BY <1>1, <1>2 DEF Received

\* How a field that is read well is bound.
LEMMA NumbersBound ==
  ASSUME NEW item, ReadsWell(item), item.shape # "map", IsNumber(item.cpp)
  PROVE  /\ BoundTo(item) = IF item.cpp = "float" THEN "u32" ELSE "u64"
         /\ ~StoresNothing(item)
<1>1. item.cpp \in Ints32 \cup Ints64 \cup {"bool", "float", "double"}
  BY TypesDiffer DEF IsNumber
<1> QED BY <1>1, TypesDiffer DEF BoundTo, ReadsWell, StoresNothing, IsNumber

\* A number that is read well comes back, whatever its type and its coding.
LEMMA NumberComesBack ==
  ASSUME NEW item, ReadsWell(item), item.shape # "map", IsNumber(item.cpp),
         NEW formats, NEW objects, NEW v, HasType(objects, item.cpp, v)
  PROVE  \/ /\ FormatType(item.cpp, item.low) = WT_VARINT
            /\ \E u \in Num64 : /\ Payload(formats, item.cpp, item.low, v) = VarintBytes[u]
                                /\ Yields(item, u, Bytes64, v)
         \/ /\ FormatType(item.cpp, item.low) = WT_32BIT
            /\ Payload(formats, item.cpp, item.low, v) = Fixed(v, Bytes32)
            /\ v \in Num32 /\ Yields(item, v, Bytes32, v)
         \/ /\ FormatType(item.cpp, item.low) = WT_64BIT
            /\ Payload(formats, item.cpp, item.low, v) = Fixed(v, Bytes64)
            /\ v \in Num64 /\ Yields(item, v, Bytes64, v)
<1> DEFINE cpp == item.cpp
           low == item.low
           type == FormatType(cpp, low)
           wide(u) == IF low = TYPE_SVARINT THEN UnZigZag(u) ELSE u
<1>1. Mod32 \in Nat \ {0} /\ Mod64 \in Nat \ {0} /\ Mod32 < Mod64
  BY WidthsAre
<1>2. cpp \in Ints32 \cup Ints64 \cup {"bool", "float", "double"} /\ ~IsMessage(cpp) /\ cpp # "string"
  BY TypesDiffer DEF IsNumber
<1>3. BoundTo(item) = IF cpp = "float" THEN "u32" ELSE "u64"
  BY NumbersBound
<1>4. Num32 \subseteq Num64 /\ Num64 \subseteq Nat
  BY <1>1 DEF Num32, Num64
<1>5. \A u \in Num64 : BoundTo(item) = "u64" => Received(item, u, Bytes64) = {u}
  BY ReceivedAre
<1>6. CASE cpp \in Ints32
  <2>1. v \in Num32 /\ cpp \notin Ints64 \cup {"bool", "float", "double"} /\ IntModulus(cpp) = Mod32
    BY <1>6, ValuesAre, TypesDiffer DEF IntModulus
  <2>2. \A u : Converted(item, u) = wide(u) % Mod32
    BY <1>3, <1>6, <2>1 DEF Converted, Narrow
  <2>3. CASE low = TYPE_FIXED32
    <3>1. type = WT_32BIT /\ Payload(formats, cpp, low, v) = Fixed(v, Bytes32)
      BY <1>2, <1>6, <2>1, <2>3 DEF FormatType, Payload, WT_32BIT, WT_64BIT
    <3>2. ASSUME NEW r \in Received(item, v, Bytes32) PROVE Converted(item, r) = v
      <4>1. PICK k \in Nat : r = v + Mod32 * k
        BY <1>3, <1>4, <2>1, ReceivedAre
      <4>2. wide(r) = r
        BY <2>3 DEF TYPE_SVARINT, TYPE_FIXED32
      <4>3. (v + Mod32 * k) % Mod32 = v
        BY <1>1, <2>1, RestIs DEF Num32
      <4> QED BY <2>2, <4>1, <4>2, <4>3
    <3> QED BY <2>1, <3>1, <3>2 DEF Yields
  <2>4. CASE low # TYPE_FIXED32
    <3> DEFINE u == IF low = TYPE_SVARINT THEN ZigZagFormat(v, Mod32)
                    ELSE IF cpp = "int32" THEN SignExtend(v) ELSE v
    <3>1. type = WT_VARINT
      BY <1>2, <1>6, <2>1, <2>4 DEF FormatType
    <3>2. Payload(formats, cpp, low, v) = VarintBytes[u]
      BY <1>2, <1>6, <2>1, <3>1 DEF Payload, WT_VARINT, WT_32BIT, WT_64BIT
    <3>3. u \in Num64 /\ wide(u) % Mod32 = v
      BY <1>4, <2>1, ZigZagComesBack, SignComesBack, WideIs
    <3> HIDE DEF u
    <3>4. Yields(item, u, Bytes64, v)
      BY <1>3, <1>5, <2>1, <2>2, <3>3 DEF Yields
    <3> QED BY <3>1, <3>2, <3>3, <3>4
  <2> QED BY <2>3, <2>4
<1>7. CASE cpp \in Ints64
  <2>1. v \in Num64 /\ cpp \notin Ints32 \cup {"bool", "float", "double", "int32"} /\ IntModulus(cpp) = Mod64
    BY <1>7, ValuesAre, TypesDiffer DEF IntModulus, Ints32
  <2>2. \A u : Converted(item, u) = wide(u)
    BY <1>3, <1>7, <2>1 DEF Converted, Narrow
  <2>3. CASE low = TYPE_FIXED64
    <3>1. type = WT_64BIT /\ Payload(formats, cpp, low, v) = Fixed(v, Bytes64)
      BY <1>2, <1>7, <2>1, <2>3 DEF FormatType, Payload, WT_32BIT, WT_64BIT
    <3>2. wide(v) = v
      BY <2>3 DEF TYPE_SVARINT, TYPE_FIXED64
    <3> QED BY <1>3, <1>5, <2>1, <2>2, <3>1, <3>2 DEF Yields
  <2>4. CASE low # TYPE_FIXED64
    <3> DEFINE u == IF low = TYPE_SVARINT THEN ZigZagFormat(v, Mod64) ELSE v
    <3>1. type = WT_VARINT
      BY <1>2, <1>7, <2>1, <2>4 DEF FormatType
    <3>2. Payload(formats, cpp, low, v) = VarintBytes[u]
      BY <1>2, <1>7, <2>1, <3>1 DEF Payload, WT_VARINT, WT_32BIT, WT_64BIT
    <3>3. u \in Num64 /\ wide(u) = v
      BY <2>1, ZigZagComesBack
    <3> HIDE DEF u
    <3>4. Yields(item, u, Bytes64, v)
      BY <1>3, <1>5, <2>1, <2>2, <3>3 DEF Yields
    <3> QED BY <3>1, <3>2, <3>3, <3>4
  <2> QED BY <2>3, <2>4
<1>8. CASE cpp = "bool"
  <2>1. v \in {0, 1} /\ low = TYPE_VARINT /\ cpp \notin Ints32 \cup Ints64
    BY <1>8, ValuesAre, TypesDiffer DEF ReadsWell
  <2>2. type = WT_VARINT /\ Payload(formats, cpp, low, v) = VarintBytes[v]
    BY <1>2, <1>8, <2>1 DEF FormatType, Payload, WT_VARINT, WT_32BIT, WT_64BIT
  <2>3. Converted(item, v) = v
    BY <1>3, <1>8, <2>1 DEF Converted, Narrow, TYPE_VARINT, TYPE_SVARINT
  <2>4. v \in Num64
    BY <1>1, <2>1 DEF Num64
  <2> QED BY <1>3, <1>5, <1>8, <2>2, <2>3, <2>4 DEF Yields
<1>9. CASE cpp = "float"
  <2>1. v \in Num32 /\ low = TYPE_VARINT /\ item.shape = "single" /\ cpp \notin Ints32 \cup Ints64
    BY <1>9, ValuesAre, TypesDiffer DEF ReadsWell
  <2>2. type = WT_32BIT /\ Payload(formats, cpp, low, v) = Fixed(v, Bytes32)
    BY <1>2, <1>9, <2>1 DEF FormatType, Payload, WT_32BIT, WT_64BIT
  <2>3. v % Mod32 = v
    BY <2>1, WideIs
  <2>4. Received(item, v, Bytes32) = {v}
    BY <1>3, <1>4, <1>9, <2>1, <2>3, ReceivedAre
  <2>5. Converted(item, v) = v
    BY <1>3, <1>9, <2>1, <2>3 DEF Converted, Narrow, TakesBits, TYPE_VARINT, TYPE_SVARINT
  <2> QED BY <2>1, <2>2, <2>4, <2>5 DEF Yields
<1>10. CASE cpp = "double"
  <2>1. v \in Num64 /\ low = TYPE_VARINT /\ cpp \notin Ints32 \cup Ints64
    BY <1>10, ValuesAre, TypesDiffer DEF ReadsWell
  <2>2. type = WT_64BIT /\ Payload(formats, cpp, low, v) = Fixed(v, Bytes64)
    BY <1>2, <1>10, <2>1 DEF FormatType, Payload, WT_32BIT, WT_64BIT
  <2>3. Converted(item, v) = v
    BY <1>3, <1>10, <2>1 DEF Converted, Narrow, TakesBits, TYPE_VARINT, TYPE_SVARINT
  <2> QED BY <1>3, <1>5, <1>10, <2>1, <2>2, <2>3 DEF Yields
<1> QED BY <1>2, <1>6, <1>7, <1>8, <1>9, <1>10

-----------------------------------------------------------------------------
(* Bytes in the buffer.                                                      *)

\* The bytes stand in b behind the place at.
Lies(b, at, bytes) ==
  /\ bytes \in Seq(Byte) /\ at \in Nat /\ at + Len(bytes) <= Len(b)
  /\ \A t \in 1 .. Len(bytes) : b[at + t] = bytes[t]

LEMMA LiesWhole ==
  ASSUME NEW b \in Seq(Byte)
  PROVE  Lies(b, 0, b)
BY LenProperties DEF Lies

LEMMA LiesSub ==
  ASSUME NEW b \in Seq(Byte), NEW at, NEW bytes, Lies(b, at, bytes)
  PROVE  SubSeq(b, at + 1, at + Len(bytes)) = bytes
<1> DEFINE n == Len(bytes)
           s == SubSeq(b, at + 1, at + n)
<1>1. /\ bytes \in Seq(Byte) /\ at \in Nat /\ n \in Nat /\ at + n <= Len(b) /\ Len(b) \in Nat
      /\ \A t \in 1 .. n : b[at + t] = bytes[t]
  BY LenProperties DEF Lies
<1>2. \A i \in (at + 1) .. (at + n) : b[i] \in Byte
  BY <1>1, ElementOfSeq
<1>3. s \in Seq(Byte) /\ Len(s) = n /\ \A i \in 1 .. n : s[i] = b[at + 1 + i - 1]
  <2>1. at + 1 \in Int /\ at + n \in Int /\ (at + n) - (at + 1) + 1 = n
    BY <1>1
  <2> HIDE DEF n
  <2>2. /\ SubSeq(b, at + 1, at + n) \in Seq(Byte)
        /\ Len(SubSeq(b, at + 1, at + n)) = IF at + 1 <= at + n THEN (at + n) - (at + 1) + 1 ELSE 0
        /\ \A i \in 1 .. (at + n) - (at + 1) + 1 : SubSeq(b, at + 1, at + n)[i] = b[at + 1 + i - 1]
    BY <1>2, <2>1, SubSeqProperties
  <2>3. n = 0 \/ at + 1 <= at + n
    BY <1>1
  <2> QED BY <1>1, <2>1, <2>2, <2>3
<1>4. \A i \in 1 .. n : at + 1 + i - 1 = at + i
  BY <1>1
<1> HIDE DEF s
<1>5. \A i \in 1 .. n : s[i] = bytes[i]
  BY <1>1, <1>3, <1>4
<1>6. s = bytes
  BY <1>1, <1>3, <1>5, SeqEqual
<1> QED BY <1>6 DEF s

LEMMA LiesSplit ==
  ASSUME NEW b, NEW at, NEW x \in Seq(Byte), NEW y \in Seq(Byte), Lies(b, at, x \o y)
  PROVE  /\ Lies(b, at, x) /\ Lies(b, at + Len(x), y)
         /\ Len(x \o y) = Len(x) + Len(y) /\ Len(x) \in Nat /\ Len(y) \in Nat
<1>1. /\ x \o y \in Seq(Byte) /\ Len(x \o y) = Len(x) + Len(y) /\ Len(x) \in Nat /\ Len(y) \in Nat
      /\ \A i \in 1 .. Len(x) + Len(y) : (x \o y)[i] = IF i <= Len(x) THEN x[i] ELSE y[i - Len(x)]
  BY ConcatProperties, LenProperties
<1> DEFINE z == x \o y
           m == Len(x)
           n == Len(y)
<1> HIDE DEF z
<1>2. /\ at \in Nat /\ at + (m + n) <= Len(b)
      /\ \A t \in 1 .. (m + n) : b[at + t] = z[t]
  BY <1>1 DEF Lies, z
<1>3. \A i \in 1 .. (m + n) : z[i] = IF i <= m THEN x[i] ELSE y[i - m]
  BY <1>1 DEF z
<1>4. m \in Nat /\ n \in Nat
  BY <1>1
<1>5. Len(b) >= at + m + n
  BY <1>2, <1>4
<1>6. Lies(b, at, x)
  <2>1. \A t \in 1 .. m : t \in 1 .. (m + n) /\ t <= m
    BY <1>4
  <2>2. \A t \in 1 .. m : b[at + t] = x[t]
    BY <1>2, <1>3, <2>1
  <2>3. at + m <= Len(b)
    BY <1>2, <1>4, <1>5
  <2> QED BY <1>2, <2>2, <2>3 DEF Lies
<1>7. Lies(b, at + m, y)
  <2>1. \A t \in 1 .. n : m + t \in 1 .. (m + n) /\ ~(m + t <= m) /\ (m + t) - m = t /\ (at + m) + t = at + (m + t)
    BY <1>2, <1>4
  <2> HIDE DEF m, n
  <2>2. \A t \in 1 .. n : b[(at + m) + t] = y[t]
    BY <1>2, <1>3, <2>1
  <2>3. (at + m) + n <= Len(b) /\ at + m \in Nat
    BY <1>2, <1>4, <1>5
  <2> QED BY <2>2, <2>3 DEF Lies, m, n
<1> QED BY <1>1, <1>6, <1>7

\* The places between the sequences of bytes that stand behind at, one after the other.
Places(ats, b, at, seqs, bytes) ==
  /\ ats \in [0 .. Len(seqs) -> Nat] /\ ats[0] = at /\ ats[Len(seqs)] = at + Len(bytes)
  /\ \A i \in 1 .. Len(seqs) : Lies(b, ats[i - 1], seqs[i]) /\ ats[i] = ats[i - 1] + Len(seqs[i])

LEMMA LiesFlat ==
  ASSUME NEW b, NEW at, NEW seqs \in Seq(Seq(Byte)), Lies(b, at, FlattenSeq(seqs))
  PROVE  \E ats : Places(ats, b, at, seqs, FlattenSeq(seqs))
<1> DEFINE n == Len(seqs)
           bytes == FlattenSeq(seqs)
<1>1. PICK flat : Flattens(flat, seqs, Byte) /\ bytes = flat[n]
  BY FlattenSteps
<1> HIDE DEF bytes
<1>2. /\ flat \in [0 .. n -> Seq(Byte)] /\ flat[0] = <<>>
      /\ \A i \in 1 .. n : flat[i] = flat[i - 1] \o seqs[i]
  BY <1>1 DEF Flattens
<1>3. n \in Nat /\ \A i \in 1 .. n : seqs[i] \in Seq(Byte)
  BY LenProperties, ElementOfSeq
<1>4. Lies(b, at, bytes) /\ at \in Nat
  BY DEF Lies, bytes
<1> HIDE DEF n
<1>5. ASSUME NEW i \in 1 .. n, Lies(b, at, flat[i])
      PROVE  /\ Lies(b, at, flat[i - 1]) /\ Lies(b, at + Len(flat[i - 1]), seqs[i])
             /\ Len(flat[i]) = Len(flat[i - 1]) + Len(seqs[i])
  <2>1. i - 1 \in 0 .. n
    BY <1>3
  <2>2. flat[i - 1] \in Seq(Byte) /\ seqs[i] \in Seq(Byte) /\ flat[i] = flat[i - 1] \o seqs[i]
    BY <1>2, <1>3, <2>1
  <2> DEFINE x == flat[i - 1]
             y == seqs[i]
             z == flat[i]
  <2>3. x \in Seq(Byte) /\ y \in Seq(Byte) /\ z = x \o y /\ Lies(b, at, z)
    BY <1>5, <2>2
  <2> HIDE DEF x, y, z
  <2>4. Lies(b, at, x) /\ Lies(b, at + Len(x), y) /\ Len(x \o y) = Len(x) + Len(y)
    BY <2>3, LiesSplit
  <2> QED BY <2>3, <2>4 DEF x, y, z
<1> DEFINE Good == {i \in 1 .. n : Lies(b, at, flat[i])}
<1>6. n # 0 => Good = 1 .. n
  <2> SUFFICES ASSUME n # 0 PROVE Good = 1 .. n
    OBVIOUS
  <2>1. n \in Nat \ {0} /\ Good \in SUBSET (1 .. n) /\ n \in Good
    BY <1>1, <1>3, <1>4
  <2>2. \A i \in 1 .. (n - 1) : i + 1 \in Good => i \in Good
    <3> TAKE i \in 1 .. (n - 1)
    <3>1. i + 1 \in 1 .. n /\ (i + 1) - 1 = i /\ i \in 1 .. n
      BY <1>3
    <3>2. i + 1 \in Good => Lies(b, at, flat[(i + 1) - 1])
      BY <1>5, <3>1
    <3> QED BY <3>1, <3>2
  <2> HIDE DEF Good
  <2> QED BY <2>1, <2>2, DownInduction
<1>7. \A i \in 1 .. n : Lies(b, at, flat[i])
  BY <1>3, <1>6
<1> DEFINE ats == [i \in 0 .. n |-> at + Len(flat[i])]
<1>8. \A i \in 0 .. n : Len(flat[i]) \in Nat
  BY <1>2, LenProperties
<1>9. ats \in [0 .. n -> Nat]
  BY <1>4, <1>8
<1>10. ats[0] = at /\ ats[n] = at + Len(bytes)
  <2>1. Len(flat[0]) = 0
    BY <1>2
  <2>2. 0 \in 0 .. n /\ n \in 0 .. n /\ at + 0 = at
    BY <1>3, <1>4
  <2>3. ats[0] = at + Len(flat[0]) /\ ats[n] = at + Len(flat[n])
    BY <2>2
  <2> HIDE DEF ats
  <2> QED BY <1>1, <2>1, <2>2, <2>3
<1>11. \A i \in 1 .. n : Lies(b, ats[i - 1], seqs[i]) /\ ats[i] = ats[i - 1] + Len(seqs[i])
  <2> TAKE i \in 1 .. n
  <2>1. i - 1 \in 0 .. n /\ i \in 0 .. n /\ Len(seqs[i]) \in Nat
    BY <1>3, LenProperties
  <2>2. /\ Lies(b, at + Len(flat[i - 1]), seqs[i])
        /\ Len(flat[i]) = Len(flat[i - 1]) + Len(seqs[i])
    BY <1>5, <1>7
  <2>3. at + Len(flat[i]) = (at + Len(flat[i - 1])) + Len(seqs[i])
    <3> DEFINE x == Len(flat[i - 1])
               y == Len(seqs[i])
    <3>1. x \in Nat /\ y \in Nat /\ Len(flat[i]) = x + y
      BY <1>8, <2>1, <2>2
    <3> HIDE DEF x, y
    <3>2. at + (x + y) = (at + x) + y
      BY <1>4, <3>1
    <3> QED BY <3>1, <3>2 DEF x, y
  <2> QED BY <2>1, <2>2, <2>3
<1> HIDE DEF ats
<1>12. Places(ats, b, at, seqs, bytes)
  BY <1>9, <1>10, <1>11 DEF Places, n
<1> QED BY <1>12 DEF bytes

\* ReadVarInt reads the number v and stops before to.
ReadsAs(pos, v, to) ==
  Complete(pos) /\ After(pos) = to /\ Numbers(pos) = {v}

LEMMA VarintRead ==
  ASSUME buffer \in Seq(Byte), Top.end \in Nat, Top.end <= Len(buffer), NEW pos, NEW v \in Num64,
         Lies(buffer, pos, VarintBytes[v]), pos + Len(VarintBytes[v]) <= Top.end
  PROVE  ReadsAs(pos, v, pos + Len(VarintBytes[v])) /\ Len(VarintBytes[v]) \in Nat \ {0}
<1> DEFINE bytes == VarintBytes[v]
           n == Len(bytes)
           end == Top.end
           stops == VarintStops(buffer, pos, end)
<1>1. v \in Nat
  BY WidthsAre DEF Num64
<1>2. /\ bytes \in Seq(Byte) /\ n \in Nat \ {0} /\ bytes[n] < 128
      /\ \A i \in 1 .. (n - 1) : bytes[i] >= 128
  BY <1>1, VarintBytesAre
<1>3. n <= MaxVarintBytes /\ VarintValue(bytes) = v
  BY VarintsComeBack
<1>4. /\ pos \in Nat /\ \A t \in 1 .. n : buffer[pos + t] = bytes[t]
      /\ pos + n <= end /\ end \in Nat
  BY DEF Lies
<1>5. SubSeq(buffer, pos + 1, pos + n) = bytes
  BY LiesSub
<1> HIDE DEF bytes, n, end
<1>6. pos + n \in stops
  BY <1>2, <1>4 DEF VarintStops
<1>7. \A i \in stops : pos + n <= i
  <2> SUFFICES ASSUME NEW i \in stops, i < pos + n PROVE FALSE
    BY <1>2, <1>4 DEF VarintStops
  <2>1. i \in (pos + 1) .. end /\ buffer[i] < 128
    BY DEF VarintStops
  <2> DEFINE t == i - pos
  <2>2. t \in 1 .. (n - 1) /\ t \in 1 .. n /\ pos + t = i
    BY <1>2, <1>4, <2>1
  <2> HIDE DEF t
  <2>3. bytes[t] < 128 /\ bytes[t] >= 128 /\ bytes[t] \in Byte
    BY <1>2, <1>4, <2>1, <2>2, ElementOfSeq DEF n
  <2> DEFINE x == bytes[t]
  <2>4. x < 128 /\ x >= 128 /\ x \in 0 .. 255
    BY <2>3 DEF Byte
  <2> HIDE DEF x
  <2> QED BY <2>4
<1>8. Min(stops) = pos + n
  <2>1. stops \in SUBSET Nat /\ stops # {}
    BY <1>4, <1>6 DEF VarintStops
  <2>2. Min(stops) \in stops /\ \A k \in stops : Min(stops) <= k
    <3> HIDE DEF stops
    <3> QED BY <2>1, MinIs
  <2> DEFINE m == Min(stops)
             to == pos + n
  <2>3. m <= to /\ to <= m /\ m \in Nat /\ to \in Nat
    BY <1>2, <1>4, <1>6, <1>7, <2>1, <2>2
  <2> HIDE DEF m, to
  <2>4. m = to
    BY <2>3
  <2> QED BY <2>4 DEF m, to
<1>9. Complete(pos) /\ After(pos) = pos + n
  BY <1>6, <1>8 DEF Complete, After, end
<1>10. (pos + n) - pos = n
  BY <1>2, <1>4
<1>11. ~(After(pos) - pos > MaxVarintBytes)
  <2>1. MaxVarintBytes \in Int
    BY WidthAssumption DEF MaxVarintBytes
  <2> QED BY <1>2, <1>3, <1>9, <1>10, <2>1
<1>12. Numbers(pos) = {v}
  BY <1>3, <1>5, <1>9, <1>11 DEF Numbers
<1> QED BY <1>2, <1>9, <1>12 DEF ReadsAs, n, bytes

-----------------------------------------------------------------------------
(* The bytes of the format.                                                  *)

InBytes(formats, objects) == \A o \in objects : formats[o] \in Seq(Byte)

LEMMA DelimitedIs ==
  ASSUME NEW bytes \in Seq(Byte)
  PROVE  LengthDelimited(bytes) \in Seq(Byte) /\ VarintBytes[Len(bytes)] \in Seq(Byte)
<1>1. Len(bytes) \in Nat
  BY LenProperties
<1>2. VarintBytes[Len(bytes)] \in Seq(Byte)
  BY <1>1, VarintBytesAre
<1> QED BY <1>2, ConcatProperties DEF LengthDelimited

LEMMA PayloadIs ==
  ASSUME NEW F, NEW objects, InBytes(F, objects), NEW cpp, NEW type, NEW v, HasType(objects, cpp, v)
  PROVE  Payload(F, cpp, type, v) \in Seq(Byte)
<1>1. CASE cpp = "string"
  <2>1. v \in Seq(Byte) /\ ~IsMessage(cpp) /\ FormatType(cpp, type) = WT_LENGTH_DELIMITED
    BY <1>1, ValuesAre, TypesDiffer DEF FormatType
  <2>2. Payload(F, cpp, type, v) = LengthDelimited(v)
    BY <1>1, <2>1 DEF Payload, WT_LENGTH_DELIMITED, WT_32BIT, WT_64BIT
  <2> QED BY <2>1, <2>2, DelimitedIs
<1>2. CASE IsMessage(cpp)
  <2> DEFINE bytes == F[Object(cpp, v)]
  <2>1. Object(cpp, v) \in objects
    BY <1>2, ValuesAre DEF Object
  <2>2. bytes \in Seq(Byte)
    BY <2>1 DEF InBytes
  <2>3. cpp # "string" /\ FormatType(cpp, type) = WT_LENGTH_DELIMITED
    BY <1>2, TypesDiffer DEF FormatType
  <2>4. Payload(F, cpp, type, v) = LengthDelimited(bytes)
    BY <1>2, <2>3 DEF Payload, WT_LENGTH_DELIMITED, WT_32BIT, WT_64BIT
  <2> HIDE DEF bytes
  <2> QED BY <2>2, <2>4, DelimitedIs
<1>3. CASE cpp # "string" /\ ~IsMessage(cpp)
  <2>1. cpp \in Ints32 \cup Ints64 \cup {"bool", "float", "double"}
    BY <1>3, TypesDiffer
  <2>2. v \in Nat
    <3>1. cpp = "bool" => v \in {0, 1}
      BY ValuesAre
    <3>2. cpp # "bool" => v \in Nat
      BY <2>1, ValuesAre
    <3> QED BY <3>1, <3>2
  <2>3. Bytes32 \in Nat /\ Bytes64 \in Nat
    BY WidthsAre
  <2> DEFINE u == IF cpp \in Ints32 \cup Ints64 /\ type = TYPE_SVARINT
                    THEN ZigZagFormat(v, IntModulus(cpp))
                  ELSE IF cpp = "int32" THEN SignExtend(v) ELSE v
  <2>4. u \in Nat
    <3>1. cpp \in Ints32 => v \in Num32 /\ IntModulus(cpp) = Mod32
      BY ValuesAre DEF IntModulus
    <3>2. cpp \in Ints64 => v \in Num64 /\ IntModulus(cpp) = Mod64
      BY ValuesAre, TypesDiffer DEF IntModulus
    <3>3. Num64 \subseteq Nat
      BY WidthsAre DEF Num64
    <3>4. cpp \in Ints32 \cup Ints64 => ZigZagFormat(v, IntModulus(cpp)) \in Nat
      BY <3>1, <3>2, <3>3, ZigZagComesBack
    <3>5. cpp = "int32" => SignExtend(v) \in Nat
      BY <3>1, <3>3, SignComesBack DEF Ints32
    <3> QED BY <2>2, <3>4, <3>5
  <2>5. Payload(F, cpp, type, v) \in {Fixed(v, Bytes32), Fixed(v, Bytes64), VarintBytes[u]}
    BY <1>3 DEF Payload
  <2>6. VarintBytes[u] \in Seq(Byte)
    <3> HIDE DEF u
    <3> QED BY <2>4, VarintBytesAre
  <2>7. Fixed(v, Bytes32) \in Seq(Byte) /\ Fixed(v, Bytes64) \in Seq(Byte)
    BY <2>2, <2>3, FixedIs
  <2> HIDE DEF u
  <2> QED BY <2>5, <2>6, <2>7
<1> QED BY <1>1, <1>2, <1>3

LEMMA TypeIs ==
  ASSUME NEW cpp, NEW type
  PROVE  FormatType(cpp, type) \in 0 .. 7
BY DEF FormatType, WT_LENGTH_DELIMITED, WT_32BIT, WT_64BIT, WT_VARINT

LEMMA TaggedIs ==
  ASSUME NEW F, NEW objects, InBytes(F, objects), NEW cpp, NEW type, NEW v, HasType(objects, cpp, v),
         NEW num \in Nat
  PROVE  Tagged(F, num, cpp, type, v) \in Seq(Byte)
<1>1. Tag(num, FormatType(cpp, type)) \in Seq(Byte)
  <2> DEFINE t == FormatType(cpp, type)
  <2>1. t \in 0 .. 7
    BY TypeIs
  <2> HIDE DEF t
  <2>3. t \in Nat
    BY <2>1
  <2>2. Tag(num, t) \in Seq(Byte)
    BY <2>3, TagIs
  <2> QED BY <2>2 DEF t
<1>2. Payload(F, cpp, type, v) \in Seq(Byte)
  BY PayloadIs
<1> QED BY <1>1, <1>2, ConcatProperties DEF Tagged

\* The bytes of an entry, behind its tag and its length.
EntryBytes(F, item, k, v) ==
  Tagged(F, 1, item.key, item.high, k) \o Tagged(F, 2, item.cpp, item.low, v)

LEMMA EntryIs ==
  ASSUME NEW F, NEW objects, InBytes(F, objects), NEW item, NEW k, NEW v,
         HasType(objects, item.key, k), HasType(objects, item.cpp, v), item.num \in Nat
  PROVE  /\ EntryBytes(F, item, k, v) \in Seq(Byte)
         /\ EntryFormat(F, item, k, v) =
              Tag(item.num, WT_LENGTH_DELIMITED) \o LengthDelimited(EntryBytes(F, item, k, v))
         /\ EntryFormat(F, item, k, v) \in Seq(Byte)
<1>1. Tagged(F, 1, item.key, item.high, k) \in Seq(Byte) /\ Tagged(F, 2, item.cpp, item.low, v) \in Seq(Byte)
  BY TaggedIs
<1>2. EntryBytes(F, item, k, v) \in Seq(Byte)
  BY <1>1, ConcatProperties DEF EntryBytes
<1>3. Tag(item.num, WT_LENGTH_DELIMITED) \in Seq(Byte)
  BY TagIs DEF WT_LENGTH_DELIMITED
<1>4. LengthDelimited(EntryBytes(F, item, k, v)) \in Seq(Byte)
  BY <1>2, DelimitedIs
<1>5. EntryFormat(F, item, k, v) =
        Tag(item.num, WT_LENGTH_DELIMITED) \o LengthDelimited(EntryBytes(F, item, k, v))
  BY DEF EntryFormat, EntryBytes
<1> HIDE DEF EntryBytes, EntryFormat, LengthDelimited, Tag
<1> QED BY <1>2, <1>3, <1>4, <1>5, ConcatProperties

-----------------------------------------------------------------------------
(* The records of a field: what each of them says, and its bytes.            *)

RecordBytes(F, item, x) ==
  IF item.shape = "map" THEN EntryFormat(F, item, x[1], x[2])
  ELSE Tagged(F, item.num, item.cpp, item.low, x)

Fits(objects, item, x) ==
  IF item.shape = "map" THEN HasType(objects, item.key, x[1]) /\ HasType(objects, item.cpp, x[2])
  ELSE HasType(objects, item.cpp, x)

\* How many records there are of a field of the message m, and what the i-th says.
Count(item, m) ==
  CASE item.shape = "single" -> IF item.has => m.has[item.num] THEN 1 ELSE 0
    [] item.shape = "vector" -> Len(m.val[item.num])
    [] item.shape = "map"    -> Cardinality(DOMAIN m.val[item.num])

Said(item, m, i) ==
  LET v == m.val[item.num]
      keys == Keys(item, v)
  IN  CASE item.shape = "single" -> v
        [] item.shape = "vector" -> v[i]
        [] item.shape = "map"    -> <<keys[i], v[keys[i]]>>

LEMMA RecordIs ==
  ASSUME NEW F, NEW objects, InBytes(F, objects), NEW item, item.num \in Nat, NEW x, Fits(objects, item, x)
  PROVE  RecordBytes(F, item, x) \in Seq(Byte)
BY EntryIs, TaggedIs DEF RecordBytes, Fits

LEMMA SaidFits ==
  ASSUME NEW objects, NEW item, item.shape \in {"single", "vector", "map"},
         NEW m, FieldHasType(objects, item, m.val[item.num])
  PROVE  /\ Count(item, m) \in Nat
         /\ \A i \in 1 .. Count(item, m) : Fits(objects, item, Said(item, m, i))
<1> DEFINE v == m.val[item.num]
           n == Count(item, m)
<1>1. CASE item.shape = "single"
  <2>1. n \in {0, 1} /\ \A i : Said(item, m, i) = v
    BY <1>1 DEF Count, Said
  <2>2. HasType(objects, item.cpp, v)
    BY <1>1 DEF FieldHasType
  <2> QED BY <1>1, <2>1, <2>2 DEF Fits
<1>2. CASE item.shape = "vector"
  <2>1. n = Len(v) /\ \A i : Said(item, m, i) = v[i]
    BY <1>2 DEF Count, Said
  <2>2. IsSeq(v) /\ \A i \in DOMAIN v : HasType(objects, item.cpp, v[i])
    BY <1>2 DEF FieldHasType, IsSeq
  <2> HIDE DEF v, n
  <2>3. Len(v) \in Nat /\ DOMAIN v = 1 .. Len(v)
    BY <2>2, LenProperties DEF IsSeq
  <2> QED BY <1>2, <2>1, <2>2, <2>3 DEF Fits, n
<1>3. CASE item.shape = "map"
  <2> DEFINE keys == Keys(item, v)
  <2>1. n = Cardinality(DOMAIN v) /\ \A i : Said(item, m, i) = <<keys[i], v[keys[i]]>>
    BY <1>3 DEF Count, Said
  <2>2. /\ InOrder(item, v) # {} /\ Cardinality(DOMAIN v) \in Nat
        /\ \A k \in DOMAIN v : HasType(objects, item.key, k) /\ HasType(objects, item.cpp, v[k])
    BY <1>3 DEF FieldHasType
  <2>3. keys \in [1 .. Cardinality(DOMAIN v) -> DOMAIN v]
    BY <2>2, KeysAre
  <2> HIDE DEF keys, v, n
  <2>4. \A i \in 1 .. n : keys[i] \in DOMAIN v
    BY <2>1, <2>3
  <2>5. \A i \in 1 .. n : HasType(objects, item.key, keys[i]) /\ HasType(objects, item.cpp, v[keys[i]])
    BY <2>2, <2>4
  <2> QED BY <1>3, <2>1, <2>2, <2>5 DEF Fits, n
<1> QED BY <1>1, <1>2, <1>3

LEMMA RecordsAre ==
  ASSUME NEW F, NEW objects, InBytes(F, objects), NEW item, item.num \in Nat,
         item.shape \in {"single", "vector", "map"}, item.shape = "vector" => item.high # PACKED,
         NEW m, FieldHasType(objects, item, m.val[item.num])
  PROVE  /\ FieldRecords(F, item, m) =
              [i \in 1 .. Count(item, m) |-> RecordBytes(F, item, Said(item, m, i))]
         /\ FieldRecords(F, item, m) \in Seq(Seq(Byte)) /\ Len(FieldRecords(F, item, m)) = Count(item, m)
<1> DEFINE n == Count(item, m)
           Bytes(i) == RecordBytes(F, item, Said(item, m, i))
           records == [i \in 1 .. n |-> Bytes(i)]
           v == m.val[item.num]
<1>1. n \in Nat /\ \A i \in 1 .. n : Fits(objects, item, Said(item, m, i))
  BY SaidFits
<1>2. \A i \in 1 .. n : Bytes(i) \in Seq(Byte)
  BY <1>1, RecordIs
<1>3. records \in Seq(Seq(Byte)) /\ Len(records) = n
  <2> HIDE DEF n, Bytes
  <2>1. records \in [1 .. n -> Seq(Byte)]
    BY <1>2
  <2> HIDE DEF records
  <2> QED BY <1>1, <2>1, IsASeq, LenProperties
<1>4. FieldRecords(F, item, m) = records
  <2>1. CASE item.shape = "single"
    <3>1. \A i : Bytes(i) = Tagged(F, item.num, item.cpp, item.low, v)
      BY <2>1 DEF RecordBytes, Said
    <3>2. n = IF item.has => m.has[item.num] THEN 1 ELSE 0
      BY <2>1 DEF Count
    <3>3. FieldRecords(F, item, m) =
            IF item.has => m.has[item.num] THEN <<Tagged(F, item.num, item.cpp, item.low, v)>> ELSE <<>>
      BY <2>1 DEF FieldRecords
    <3> DEFINE one == Tagged(F, item.num, item.cpp, item.low, v)
               b == item.has => m.has[item.num]
               s == IF b THEN <<one>> ELSE <<>>
    <3> HIDE DEF one, b, n, Bytes
    <3>4. s \in Seq({one}) /\ Len(s) = n /\ \A i \in 1 .. n : s[i] = one
      <4>1. CASE b
        <5>1. n = 1 /\ s = <<one>>
          BY <3>2, <4>1 DEF b
        <5> HIDE DEF s
        <5> QED BY <5>1
      <4>2. CASE ~b
        <5>1. n = 0 /\ s = <<>>
          BY <3>2, <4>2 DEF b
        <5> HIDE DEF s
        <5> QED BY <5>1
      <4> QED BY <4>1, <4>2
    <3>5. records = s
      <4>1. \A i \in 1 .. n : records[i] = one
        BY <3>1 DEF one
      <4>2. records \in Seq(Seq(Byte)) /\ Len(records) = n
        BY <1>3
      <4> HIDE DEF records, s
      <4> QED BY <3>4, <4>1, <4>2, SeqEqual
    <3> QED BY <3>3, <3>5 DEF one, b
  <2>2. CASE item.shape = "vector"
    <3>1. n = Len(v) /\ \A i : Bytes(i) = Tagged(F, item.num, item.cpp, item.low, v[i])
      BY <2>2 DEF Count, RecordBytes, Said
    <3>2. FieldRecords(F, item, m) = [i \in 1 .. Len(v) |-> Tagged(F, item.num, item.cpp, item.low, v[i])]
      BY <2>2 DEF FieldRecords
    <3> HIDE DEF n, Bytes
    <3> QED BY <3>1, <3>2
  <2>3. CASE item.shape = "map"
    <3> DEFINE keys == Keys(item, v)
    <3>1. \A i : Said(item, m, i) = <<keys[i], v[keys[i]]>>
      BY <2>3 DEF Said
    <3>2. n = Cardinality(DOMAIN v)
      BY <2>3 DEF Count
    <3>3. FieldRecords(F, item, m) =
            [i \in 1 .. Cardinality(DOMAIN v) |-> EntryFormat(F, item, keys[i], v[keys[i]])]
      BY <2>3 DEF FieldRecords
    <3> HIDE DEF n, keys, v
    <3>4. \A i : Bytes(i) = EntryFormat(F, item, keys[i], v[keys[i]])
      BY <2>3, <3>1 DEF RecordBytes
    <3> HIDE DEF Bytes
    <3> QED BY <3>2, <3>3, <3>4
  <2> QED BY <2>1, <2>2, <2>3
<1> QED BY <1>3, <1>4

-----------------------------------------------------------------------------
(* Messages.                                                                 *)

LEMMA HasTypeAmong ==
  ASSUME NEW objects, NEW others, NEW cpp, NEW v, HasType(objects, cpp, v),
         IsMessage(cpp) => Object(cpp, v) \in others
  PROVE  HasType(others, cpp, v)
<1>1. CASE IsMessage(cpp)
  BY <1>1, TypesDiffer DEF HasType
<1>2. CASE ~IsMessage(cpp)
  BY <1>2, TypesDiffer, ValuesAre DEF HasType
<1> QED BY <1>1, <1>2

\* The values of a message are typed by the objects that it holds.
LEMMA FieldsHold ==
  ASSUME NEW objects, NEW others, NEW m, NEW items, Held(items, m) \subseteq others, NEW i \in DOMAIN items,
         FieldHasType(objects, items[i], m.value.val[items[i].num]),
         items[i].shape \in {"single", "vector", "map"}
  PROVE  FieldHasType(others, items[i], m.value.val[items[i].num])
<1> DEFINE item == items[i]
           v == m.value.val[item.num]
<1>1. \A x \in Members(item, v) : HasType(objects, item.cpp, x) => HasType(others, item.cpp, x)
  <2> SUFFICES ASSUME NEW x \in Members(item, v), HasType(objects, item.cpp, x)
               PROVE  HasType(others, item.cpp, x)
    OBVIOUS
  <2> DEFINE o == Object(item.cpp, x)
  <2>1. o.struct = item.cpp /\ o = Object(item.cpp, x)
    BY DEF Object
  <2> HIDE DEF o
  <2>2. IsMessage(item.cpp) => o \in others
    BY <2>1, HeldAre
  <2> HIDE DEF item, v
  <2> QED BY <2>1, <2>2, HasTypeAmong
<1>2. item.shape = "map" =>
        \A x \in DOMAIN v : HasType(objects, item.key, x) => HasType(others, item.key, x)
  <2> SUFFICES ASSUME item.shape = "map", NEW x \in DOMAIN v, HasType(objects, item.key, x)
               PROVE  HasType(others, item.key, x)
    OBVIOUS
  <2> DEFINE o == Object(item.key, x)
  <2>1. o.struct = item.key /\ o = Object(item.key, x)
    BY DEF Object
  <2> HIDE DEF o
  <2>2. IsMessage(item.key) => o \in others
    BY <2>1, HeldAre
  <2> HIDE DEF item, v
  <2> QED BY <2>1, <2>2, HasTypeAmong
<1> HIDE DEF item, v
<1>3. FieldHasType(objects, item, v) /\ item.shape \in {"single", "vector", "map"}
  BY DEF item, v
<1>4. FieldHasType(others, item, v)
  <2>1. CASE item.shape = "single"
    <3>1. v \in Members(item, v) /\ HasType(objects, item.cpp, v)
      BY <1>3, <2>1 DEF Members, FieldHasType
    <3>2. HasType(others, item.cpp, v)
      BY <1>1, <3>1
    <3> QED BY <2>1, <3>2 DEF FieldHasType
  <2>2. CASE item.shape = "vector"
    <3>1. \A k \in DOMAIN v : v[k] \in Members(item, v)
      BY <2>2 DEF Members
    <3>2. v \in Seq({v[k] : k \in DOMAIN v}) /\ \A k \in DOMAIN v : HasType(objects, item.cpp, v[k])
      BY <1>3, <2>2 DEF FieldHasType
    <3>3. \A k \in DOMAIN v : HasType(others, item.cpp, v[k])
      BY <1>1, <3>1, <3>2
    <3> QED BY <2>2, <3>2, <3>3 DEF FieldHasType
  <2>3. CASE item.shape = "map"
    <3>1. \A k \in DOMAIN v : v[k] \in Members(item, v)
      BY <2>3 DEF Members
    <3>2. /\ v = [k \in DOMAIN v |-> v[k]] /\ InOrder(item, v) # {} /\ Cardinality(DOMAIN v) \in Nat
          /\ \A k \in DOMAIN v : HasType(objects, item.key, k) /\ HasType(objects, item.cpp, v[k])
      BY <1>3, <2>3 DEF FieldHasType
    <3>3. \A k \in DOMAIN v : HasType(others, item.key, k) /\ HasType(others, item.cpp, v[k])
      BY <1>1, <1>2, <2>3, <3>1, <3>2
    <3> QED BY <2>3, <3>2, <3>3 DEF FieldHasType
  <2> QED BY <1>3, <2>1, <2>2, <2>3
<1> QED BY <1>4 DEF item, v

\* What the schema says of an item of a struct that is read.
LEMMA ItemIs ==
  ASSUME NEW struct, StructReads(struct), NEW i \in DOMAIN Schema[struct]
  PROVE  LET item == Schema[struct][i]
         IN  /\ item.num \in Num32 /\ item.num \in Nat /\ item.shape \in {"single", "vector", "map"}
             /\ item.has \in BOOLEAN /\ (item.has => item.shape = "single") /\ FieldReads(item)
             /\ item.shape = "vector" => item.high # PACKED
             /\ \A j \in DOMAIN Schema[struct] : Schema[struct][j].num = item.num => i = j
<1> DEFINE items == Schema[struct]
           item == items[i]
<1>1. item \in Range(items)
  BY DEF Range
<1>2. /\ item.shape \in {"single", "vector", "map"} /\ item.num \in Num32
      /\ item.has \in BOOLEAN /\ (item.has => item.shape = "single") /\ FieldReads(item)
      /\ \A j \in DOMAIN items : items[i].num = items[j].num => i = j
  BY <1>1 DEF StructReads
<1> HIDE DEF item, items
<1>3. item.num \in Nat
  BY <1>2, WidthsAre DEF Num32
<1>4. item.shape = "vector" => item.high # PACKED
  BY <1>2 DEF FieldReads, ReadsWell, PACKED
<1> QED BY <1>2, <1>3, <1>4 DEF item, items

\* The fields of a message are flattened one after the other.
FieldsOf(F, items, value) == [i \in 1 .. Len(items) |-> FlattenSeq(FieldRecords(F, items[i], value))]

LEMMA MessageIs ==
  ASSUME NEW F, NEW objects, InBytes(F, objects), NEW m, StructReads(m.struct),
         NEW all, \A item \in Range(Schema[m.struct]) : FieldHasType(all, item, m.value.val[item.num]),
         Held(Schema[m.struct], m) \subseteq objects
  PROVE  /\ FieldsOf(F, Schema[m.struct], m.value) \in Seq(Seq(Byte))
         /\ Len(FieldsOf(F, Schema[m.struct], m.value)) = Len(Schema[m.struct])
         /\ MessageFormat(F, Schema[m.struct], m.value) = FlattenSeq(FieldsOf(F, Schema[m.struct], m.value))
         /\ MessageFormat(F, Schema[m.struct], m.value) \in Seq(Byte)
<1> DEFINE items == Schema[m.struct]
           n == Len(items)
           fields == FieldsOf(F, items, m.value)
<1>1. n \in Nat /\ DOMAIN items = 1 .. n
  BY LenProperties DEF StructReads
<1>2. ASSUME NEW i \in 1 .. n PROVE FlattenSeq(FieldRecords(F, items[i], m.value)) \in Seq(Byte)
  <2> DEFINE item == items[i]
             value == m.value
             v == value.val[item.num]
  <2>1. /\ item.num \in Nat /\ item.shape \in {"single", "vector", "map"}
        /\ item.shape = "vector" => item.high # PACKED
    BY <1>1, ItemIs
  <2>2. FieldHasType(all, item, v)
    BY <1>1 DEF Range
  <2>3. FieldHasType(objects, item, v)
    BY <1>1, <2>1, <2>2, FieldsHold
  <2>5. FieldHasType(objects, item, value.val[item.num])
    BY <2>3
  <2> HIDE DEF item, items, value, v
  <2>4. FieldRecords(F, item, value) \in Seq(Seq(Byte))
    BY <2>1, <2>5, RecordsAre
  <2>6. FlattenSeq(FieldRecords(F, item, value)) \in Seq(Byte)
    BY <2>4, FlattenIs
  <2> QED BY <2>6 DEF item, value
<1>3. fields \in [1 .. n -> Seq(Byte)]
  BY <1>2 DEF FieldsOf
<1>4. MessageFormat(F, items, m.value) = FlattenSeq(fields)
  BY DEF MessageFormat, FieldsOf
<1> HIDE DEF fields, n
<1>5. fields \in Seq(Seq(Byte)) /\ Len(fields) = n
  BY <1>1, <1>3, IsASeq, LenProperties
<1> QED BY <1>4, <1>5, FlattenIs DEF fields, n

\* Objects of a program are finite: none holds itself.
Readable(depth) == Itemised(Schema) /\ Nesting(Schema, ReadObjects, depth) /\ ReadAsFormat

LEMMA FormatIs ==
  ASSUME NEW depth, Readable(depth)
  PROVE  /\ InBytes(Format, ReadObjects)
         /\ \A m \in ReadObjects :
              /\ FieldsOf(Format, Schema[m.struct], m.value) \in Seq(Seq(Byte))
              /\ Len(FieldsOf(Format, Schema[m.struct], m.value)) = Len(Schema[m.struct])
              /\ Format[m] = FlattenSeq(FieldsOf(Format, Schema[m.struct], m.value))
<1>1. Itemised(Schema) /\ Nesting(Schema, ReadObjects, depth) /\ WellTyped(Schema, ReadObjects)
  BY DEF Readable, ReadAsFormat
<1>2. Format = [m \in ReadObjects |-> MessageFormat(Format, Schema[m.struct], m.value)]
  BY <1>1, FormatsAre DEF Format
<1> HIDE DEF Format
<1>3. \A m \in ReadObjects : Format[m] = MessageFormat(Format, Schema[m.struct], m.value)
  BY <1>2
<1>4. ASSUME NEW m \in ReadObjects
      PROVE  /\ StructReads(m.struct) /\ Held(Schema[m.struct], m) \subseteq ReadObjects
             /\ \A item \in Range(Schema[m.struct]) :
                  FieldHasType(ReadObjects, item, m.value.val[item.num])
  <2>1. StructReads(m.struct)
    BY DEF Readable, ReadAsFormat
  <2>2. Held(Schema[m.struct], m) \subseteq ReadObjects
    BY <1>1, HeldInside
  <2> QED BY <1>1, <2>1, <2>2 DEF WellTyped
<1> DEFINE Good == {m \in ReadObjects : Format[m] \in Seq(Byte)}
<1>5. Inherits(ReadObjects, depth, Good)
  <2>1. depth \in [ReadObjects -> Nat] /\ Good \in SUBSET ReadObjects
    BY <1>1 DEF Nesting
  <2>2. ASSUME NEW m \in ReadObjects, \A o \in ReadObjects : depth[o] < depth[m] => o \in Good
        PROVE  m \in Good
    <3> DEFINE held == Held(Schema[m.struct], m)
    <3>1. \A o \in held : o \in Good
      <4> TAKE o \in held
      <4>1. o \in ReadObjects
        BY <1>4
      <4>2. depth[o] < depth[m]
        BY <1>1, <4>1 DEF Nesting
      <4> QED BY <2>2, <4>1, <4>2
    <3>2. InBytes(Format, held)
      BY <3>1 DEF InBytes
    <3>3. MessageFormat(Format, Schema[m.struct], m.value) \in Seq(Byte)
      BY <1>4, <3>2, MessageIs
    <3> QED BY <1>3, <3>3
  <2> HIDE DEF Good
  <2> QED BY <2>1, <2>2 DEF Inherits
<1>6. Good = ReadObjects
  <2> HIDE DEF Good
  <2> QED BY <1>5, RankInduction
<1>7. InBytes(Format, ReadObjects)
  BY <1>6 DEF InBytes
<1>8. ASSUME NEW m \in ReadObjects
      PROVE  /\ FieldsOf(Format, Schema[m.struct], m.value) \in Seq(Seq(Byte))
             /\ Len(FieldsOf(Format, Schema[m.struct], m.value)) = Len(Schema[m.struct])
             /\ Format[m] = FlattenSeq(FieldsOf(Format, Schema[m.struct], m.value))
  BY <1>3, <1>4, <1>7, MessageIs
<1> QED BY <1>7, <1>8

-----------------------------------------------------------------------------
(* T() of a struct.  No struct is a member of itself.                        *)

Membered(rank) ==
  /\ rank \in [DOMAIN Schema -> Nat]
  /\ \A struct \in DOMAIN Schema : \A item \in Range(Schema[struct]) :
       item.shape = "single" /\ IsMessage(item.cpp) => rank[item.cpp] < rank[struct]

LEMMA ItemOfIs ==
  ASSUME NEW S, NEW items \in Seq(S), NEW num \in Nums(items)
  PROVE  \E i \in DOMAIN items : items[i].num = num /\ ItemOf(items, num) = items[i]
<1> DEFINE places == {i \in DOMAIN items : items[i].num = num}
<1>1. places \in SUBSET Nat /\ places # {}
  BY LenProperties DEF Nums
<1>2. Min(places) \in places
  <2> HIDE DEF places
  <2> QED BY <1>1, MinIs
<1>3. ItemOf(items, num) = items[Min(places)]
  BY DEF ItemOf
<1> QED BY <1>2, <1>3

ZeroField(zeros, item) ==
  IF item.shape # "single" THEN <<>>
  ELSE IF IsMessage(item.cpp) THEN zeros[item.cpp] ELSE ZeroScalar(item.cpp)

ZeroOf(zeros, items) ==
  [val |-> [n \in Nums(items) |-> ZeroField(zeros, ItemOf(items, n))],
   has |-> [n \in Nums(items) |-> FALSE]]

LEMMA ZeroOfMembers ==
  ASSUME NEW f, NEW g, NEW S, NEW items \in Seq(S),
         \A i \in DOMAIN items :
           items[i].shape = "single" /\ IsMessage(items[i].cpp) => f[items[i].cpp] = g[items[i].cpp]
  PROVE  ZeroOf(f, items) = ZeroOf(g, items)
<1>1. \A n \in Nums(items) : ZeroField(f, ItemOf(items, n)) = ZeroField(g, ItemOf(items, n))
  <2> TAKE n \in Nums(items)
  <2>1. PICK i \in DOMAIN items : ItemOf(items, n) = items[i]
    BY ItemOfIs
  <2> QED BY <2>1 DEF ZeroField
<1> HIDE DEF ZeroField, Nums, ItemOf
<1> QED BY <1>1 DEF ZeroOf

\* ZeroMessage is well defined.
LEMMA ZeroIs ==
  ASSUME Itemised(Schema), NEW rank, Membered(rank)
  PROVE  ZeroMessage = [struct \in DOMAIN Schema |-> ZeroOf(ZeroMessage, Schema[struct])]
<1> DEFINE D == DOMAIN Schema
           Below(n) == {s \in D : rank[s] < n}
           Body(f, s) == ZeroOf(f, Schema[s])
           Part(f, n) == f = [s \in Below(n) |-> Body(f, s)]
           Solved == {n \in Nat : \E f : Part(f, n)}
<1>1. rank \in [D -> Nat]
  BY DEF Membered
<1>2. ASSUME NEW f, NEW g, NEW s \in D, \A o \in D : rank[o] < rank[s] => f[o] = g[o]
      PROVE  Body(f, s) = Body(g, s)
  <2> DEFINE items == Schema[s]
  <2>1. items \in Seq(Range(items))
    BY DEF Itemised
  <2>2. ASSUME NEW i \in DOMAIN items, items[i].shape = "single", IsMessage(items[i].cpp)
        PROVE  f[items[i].cpp] = g[items[i].cpp]
    <3>1. items[i] \in Range(items)
      BY DEF Range
    <3>2. items[i].cpp \in D
      BY <2>2, DecoderAssumption
    <3>3. rank[items[i].cpp] < rank[s]
      BY <2>2, <3>1 DEF Membered
    <3> QED BY <1>2, <3>2, <3>3
  <2> HIDE DEF items
  <2>3. ZeroOf(f, items) = ZeroOf(g, items)
    BY <2>1, <2>2, ZeroOfMembers
  <2> QED BY <2>3 DEF items
<1> HIDE DEF Body, D
<1>3. \A n \in Nat : \A s \in Below(n) : \A o \in D : rank[o] < rank[s] => o \in Below(n)
  BY <1>1
<1>4. 0 \in Solved
  <2>1. Below(0) = {}
    BY <1>1
  <2> DEFINE f == [s \in {} |-> 0]
  <2>2. Part(f, 0)
    BY <2>1
  <2> QED BY <2>2
<1>5. ASSUME NEW n \in Solved PROVE n + 1 \in Solved
  <2>1. n \in Nat
    OBVIOUS
  <2>2. PICK f : Part(f, n)
    OBVIOUS
  <2> DEFINE g == [s \in Below(n + 1) |-> Body(f, s)]
  <2>3. \A s \in Below(n) : s \in Below(n + 1) /\ s \in D /\ f[s] = Body(f, s)
    BY <1>1, <2>1, <2>2
  <2>4. \A s \in Below(n) : g[s] = f[s]
    BY <2>3
  <2>5. \A s \in Below(n + 1) : \A o \in D : rank[o] < rank[s] => o \in Below(n)
    BY <1>1, <2>1
  <2>6. \A s \in Below(n + 1) : Body(f, s) = Body(g, s)
    <3> TAKE s \in Below(n + 1)
    <3>1. s \in D /\ \A o \in D : rank[o] < rank[s] => f[o] = g[o]
      BY <2>4, <2>5
    <3> HIDE DEF g
    <3> QED BY <1>2, <3>1
  <2>7. Part(g, n + 1)
    BY <2>6
  <2> HIDE DEF Part
  <2> QED BY <2>1, <2>7
<1>6. Solved = Nat
  <2>1. Solved \in SUBSET Nat
    OBVIOUS
  <2> HIDE DEF Solved
  <2> QED BY <1>4, <1>5, <2>1, StepInduction
<1> DEFINE Solution(n) == CHOOSE f : Part(f, n)
<1>7. \A n \in Nat : Part(Solution(n), n)
  <2> HIDE DEF Part
  <2> QED BY <1>6
<1> HIDE DEF Solution
<1> DEFINE F == [s \in D |-> Body(Solution(rank[s]), s)]
           Same == {o \in D : \A n \in Nat : o \in Below(n) => Solution(n)[o] = F[o]}
<1>8. Same = D
  <2>1. Inherits(D, rank, Same)
    <3> SUFFICES ASSUME NEW o \in D,
                        \A p \in D : rank[p] < rank[o] => p \in Same
                 PROVE  o \in Same
      BY <1>1 DEF Inherits
    <3> SUFFICES ASSUME NEW n \in Nat, o \in Below(n) PROVE Solution(n)[o] = F[o]
      OBVIOUS
    <3>1. rank[o] \in Nat
      BY <1>1
    <3>2. Solution(n)[o] = Body(Solution(n), o)
      BY <1>7
    <3>3. \A p \in D : rank[p] < rank[o] => Solution(n)[p] = Solution(rank[o])[p]
      <4> SUFFICES ASSUME NEW p \in D, rank[p] < rank[o]
                   PROVE  Solution(n)[p] = Solution(rank[o])[p]
        OBVIOUS
      <4>1. p \in Below(n) /\ p \in Below(rank[o]) /\ p \in Same
        BY <1>3
      <4> HIDE DEF F, Below
      <4> QED BY <3>1, <4>1
    <3>4. Body(Solution(n), o) = Body(Solution(rank[o]), o)
      BY <1>2, <3>3
    <3> QED BY <3>2, <3>4
  <2> HIDE DEF Same
  <2> QED BY <2>1, RankInduction
<1>9. ASSUME NEW s \in D PROVE F[s] = Body(F, s)
  <2>1. rank[s] \in Nat
    BY <1>1
  <2>2. \A o \in D : rank[o] < rank[s] => Solution(rank[s])[o] = F[o]
    <3> SUFFICES ASSUME NEW o \in D, rank[o] < rank[s] PROVE Solution(rank[s])[o] = F[o]
      OBVIOUS
    <3>1. o \in Below(rank[s])
      OBVIOUS
    <3>2. o \in Same
      BY <1>8
    <3> HIDE DEF F, Below
    <3> QED BY <2>1, <3>1, <3>2
  <2>3. F[s] = Body(Solution(rank[s]), s)
    OBVIOUS
  <2> HIDE DEF F
  <2> QED BY <1>2, <2>2, <2>3
<1>10. F = [s \in D |-> Body(F, s)]
  BY <1>9
<1> HIDE DEF F
<1> DEFINE IsSolution(f) == f = [struct \in DOMAIN Schema |-> ZeroOf(f, Schema[struct])]
<1>11. IsSolution(F)
  BY <1>10 DEF Body, D
<1>12. ZeroMessage = CHOOSE f : IsSolution(f)
  BY Zenon DEF ZeroMessage, ZeroOf, ZeroField
<1>13. IsSolution(ZeroMessage)
  <2> HIDE DEF IsSolution
  <2> QED BY <1>11, <1>12
<1> QED BY <1>13

-----------------------------------------------------------------------------
(* What a parser makes of the bytes before it, record by record.             *)

\* What convertMap has bound for the maps of the types, whichever was the first.
Coded(item) ==
  \A struct \in DOMAIN Schema : \A other \in Range(Schema[struct]) :
    other.shape = "map" /\ TypePair(other) = TypePair(item) => Parts(other) = Parts(item)

\* The items whose bytes a parser of its own reads.
Nested(item) == item.shape = "map" \/ IsMessage(item.cpp)

\* A record of the item that says x comes to a parser with the object o.
Takes(o, item, x) ==
  /\ o = [val |-> o.val, has |-> o.has]
  /\ item.shape \in {"single", "vector", "map"} /\ item.num \in Num32 /\ item.has \in BOOLEAN
  /\ FieldReads(item) /\ Fits(ReadObjects, item, x)
  /\ item.shape = "map" => x = <<x[1], x[2]>> /\ Coded(item)
  /\ item.shape = "single" /\ IsMessage(item.cpp) => o.val[item.num] \in {ZeroMessage[item.cpp], x}

\* What it makes of the member and of the object.
Grown(item, before, x) ==
  IF item.shape = "single" THEN x
  ELSE IF item.shape = "vector" THEN Append(before, x)
  ELSE Inserted(before, x[1], x[2])

Applied(o, item, x) ==
  [val |-> [o.val EXCEPT ![item.num] = Grown(item, @, x)],
   has |-> [o.has EXCEPT ![item.num] = @ \/ item.has]]

\* The fields that a parser finds its converters for.
Fields(f) == IF f.kind = "entry" THEN Parts(f.item) ELSE BoundItems[f.struct]

\* The parser further on.
Moved(f, to, p) == Frame(f.kind, f.item, f.struct, p, to, f.end)

\* The record before the parser f takes it to another place and object.  Nothing comes
\* behind a nested message in an entry, whose bindings it may take over.
ReadsRecord(b, f, to, p) ==
  \E item \in Fields(f) : \E x :
    /\ \A other \in Fields(f) : other.num = item.num => other = item
    /\ Takes(f.obj, item, x) /\ p = Applied(f.obj, item, x)
    /\ Lies(b, f.cur, RecordBytes(Format, item, x))
    /\ to = f.cur + Len(RecordBytes(Format, item, x)) /\ f.cur < to /\ to <= f.end
    /\ f.kind = "entry" /\ Nested(item) => to = f.end

Path(b, f, n, ats, objs) ==
  /\ ats[0] = f.cur /\ objs[0] = f.obj
  /\ \A j \in 1 .. n : ReadsRecord(b, Moved(f, ats[j - 1], objs[j - 1]), ats[j], objs[j])

Reaches(b, f, to, p) ==
  \E n \in Nat : \E ats, objs : Path(b, f, n, ats, objs) /\ ats[n] = to /\ objs[n] = p

\* It reads all that is before it, and has this object in the end.
Reads(b, f, final) == Reaches(b, f, f.end, final)

LEMMA MovedIs ==
  ASSUME NEW f, NEW to, NEW p
  PROVE  /\ Moved(f, to, p).cur = to /\ Moved(f, to, p).obj = p /\ Moved(f, to, p).end = f.end
         /\ Moved(f, to, p).kind = f.kind /\ Moved(f, to, p).item = f.item
         /\ Moved(f, to, p).struct = f.struct
         /\ \A to2, p2 : Moved(Moved(f, to, p), to2, p2) = Moved(f, to2, p2)
         /\ IsFrame(f) => Moved(f, f.cur, f.obj) = f
BY DEF Moved, Frame, IsFrame

LEMMA Stays ==
  ASSUME NEW b, NEW f
  PROVE  Reaches(b, f, f.cur, f.obj)
<1> DEFINE ats == [j \in 0 .. 0 |-> f.cur]
           objs == [j \in 0 .. 0 |-> f.obj]
<1>1. Path(b, f, 0, ats, objs) /\ ats[0] = f.cur /\ objs[0] = f.obj
  BY DEF Path
<1> QED BY <1>1 DEF Reaches

\* One way after the other.
LEMMA GoesOn ==
  ASSUME NEW b, NEW f, NEW to, NEW p, Reaches(b, f, to, p),
         NEW to2, NEW p2, Reaches(b, Moved(f, to, p), to2, p2)
  PROVE  Reaches(b, f, to2, p2)
<1>a. PICK m \in Nat : \E ats, objs : Path(b, f, m, ats, objs) /\ ats[m] = to /\ objs[m] = p
  BY DEF Reaches
<1>1. PICK ats, objs : Path(b, f, m, ats, objs) /\ ats[m] = to /\ objs[m] = p
  BY <1>a
<1>b. PICK n \in Nat : \E ats2, objs2 :
        Path(b, Moved(f, to, p), n, ats2, objs2) /\ ats2[n] = to2 /\ objs2[n] = p2
  BY DEF Reaches
<1>2. PICK ats2, objs2 :
        Path(b, Moved(f, to, p), n, ats2, objs2) /\ ats2[n] = to2 /\ objs2[n] = p2
  BY <1>b
<1> DEFINE A(j) == IF j <= m THEN ats[j] ELSE ats2[j - m]
           O(j) == IF j <= m THEN objs[j] ELSE objs2[j - m]
           all == [j \in 0 .. (m + n) |-> A(j)]
           objects == [j \in 0 .. (m + n) |-> O(j)]
<1>3. ats2[0] = to /\ objs2[0] = p
  BY <1>2, MovedIs DEF Path
<1>4. \A j \in 1 .. n : ReadsRecord(b, Moved(f, ats2[j - 1], objs2[j - 1]), ats2[j], objs2[j])
  BY <1>2, MovedIs DEF Path
<1>5. \A j \in 1 .. m : ReadsRecord(b, Moved(f, ats[j - 1], objs[j - 1]), ats[j], objs[j])
  BY <1>1 DEF Path
<1>6. A(m + n) = to2 /\ O(m + n) = p2
  <2>1. CASE n = 0
    BY <1>1, <1>2, <1>3, <2>1
  <2>2. CASE n # 0
    <3>1. ~(m + n <= m) /\ (m + n) - m = n
      BY <2>2
    <3> QED BY <1>2, <3>1
  <2> QED BY <2>1, <2>2
<1>7. \A j \in 1 .. (m + n) : ReadsRecord(b, Moved(f, A(j - 1), O(j - 1)), A(j), O(j))
  <2> TAKE j \in 1 .. (m + n)
  <2>1. CASE j <= m
    <3>1. j \in 1 .. m /\ j - 1 <= m
      BY <2>1
    <3> QED BY <1>5, <2>1, <3>1
  <2>2. CASE j = m + 1
    <3>1. 1 \in 1 .. n /\ ~(j <= m) /\ j - m = 1 /\ j - 1 = m /\ j - 1 <= m /\ 1 - 1 = 0
      BY <2>2
    <3>2. A(j - 1) = to /\ O(j - 1) = p /\ A(j) = ats2[1] /\ O(j) = objs2[1]
      BY <1>1, <3>1
    <3>3. ReadsRecord(b, Moved(f, ats2[0], objs2[0]), ats2[1], objs2[1])
      BY <1>4, <3>1
    <3> HIDE DEF A, O
    <3> QED BY <1>3, <3>2, <3>3
  <2>3. CASE j > m + 1
    <3>1. /\ j - m \in 1 .. n /\ ~(j <= m) /\ ~(j - 1 <= m) /\ (j - m) - 1 = (j - 1) - m
      BY <2>3
    <3>2. /\ A(j - 1) = ats2[(j - 1) - m] /\ O(j - 1) = objs2[(j - 1) - m]
          /\ A(j) = ats2[j - m] /\ O(j) = objs2[j - m]
      BY <3>1
    <3>3. ReadsRecord(b, Moved(f, ats2[(j - m) - 1], objs2[(j - m) - 1]), ats2[j - m], objs2[j - m])
      BY <1>4, <3>1
    <3> HIDE DEF A, O
    <3> QED BY <3>1, <3>2, <3>3
  <2> QED BY <2>1, <2>2, <2>3
<1>8. m + n \in Nat /\ 0 \in 0 .. (m + n) /\ m + n \in 0 .. (m + n) /\ 0 <= m
      /\ \A j \in 1 .. (m + n) : j \in 0 .. (m + n) /\ j - 1 \in 0 .. (m + n)
  OBVIOUS
<1>9. A(0) = f.cur /\ O(0) = f.obj
  BY <1>1, <1>8 DEF Path
<1> HIDE DEF A, O
<1>10. Path(b, f, m + n, all, objects) /\ all[m + n] = to2 /\ objects[m + n] = p2
  BY <1>6, <1>7, <1>8, <1>9 DEF Path
<1> QED BY <1>8, <1>10 DEF Reaches

LEMMA GoesOneOn ==
  ASSUME NEW b, NEW f, IsFrame(f), NEW to, NEW p, ReadsRecord(b, f, to, p)
  PROVE  Reaches(b, f, to, p)
<1> DEFINE ats == [j \in 0 .. 1 |-> IF j = 0 THEN f.cur ELSE to]
           objs == [j \in 0 .. 1 |-> IF j = 0 THEN f.obj ELSE p]
<1>1. ats[0] = f.cur /\ objs[0] = f.obj /\ ats[1] = to /\ objs[1] = p
  OBVIOUS
<1>2. \A j \in 1 .. 1 : j = 1 /\ j - 1 = 0
  OBVIOUS
<1>3. Moved(f, f.cur, f.obj) = f
  BY MovedIs
<1> HIDE DEF ats, objs
<1>4. Path(b, f, 1, ats, objs)
  BY <1>1, <1>2, <1>3 DEF Path
<1> QED BY <1>1, <1>4 DEF Reaches

\* A parser that is not at its end has a record before it, and reads the rest after it.
LEMMA ReadsOne ==
  ASSUME NEW b, NEW f, IsFrame(f), f.cur # f.end, NEW final, Reads(b, f, final)
  PROVE  \E to, p : ReadsRecord(b, f, to, p) /\ Reads(b, Moved(f, to, p), final)
<1>a. PICK n \in Nat : \E ats, objs : Path(b, f, n, ats, objs) /\ ats[n] = f.end /\ objs[n] = final
  BY DEF Reads, Reaches
<1>1. PICK ats, objs : Path(b, f, n, ats, objs) /\ ats[n] = f.end /\ objs[n] = final
  BY <1>a
<1>2. n # 0
  BY <1>1 DEF Path
<1> DEFINE k == n - 1
           ats2 == [j \in 0 .. k |-> ats[j + 1]]
           objs2 == [j \in 0 .. k |-> objs[j + 1]]
           g == Moved(f, ats[1], objs[1])
<1>3. /\ k \in Nat /\ n = k + 1 /\ 1 \in 1 .. n /\ 0 \in 0 .. k /\ 1 - 1 = 0
      /\ \A j \in 1 .. k : /\ j + 1 \in 1 .. n /\ (j + 1) - 1 = j /\ (j - 1) + 1 = j
                           /\ j \in 0 .. k /\ j - 1 \in 0 .. k
  BY <1>2
<1>4. /\ ats[0] = f.cur /\ objs[0] = f.obj
      /\ \A j \in 1 .. n : ReadsRecord(b, Moved(f, ats[j - 1], objs[j - 1]), ats[j], objs[j])
  BY <1>1 DEF Path
<1>5. ReadsRecord(b, f, ats[1], objs[1])
  <2>1. ReadsRecord(b, Moved(f, ats[0], objs[0]), ats[1], objs[1])
    BY <1>3, <1>4
  <2>2. Moved(f, ats[0], objs[0]) = f
    BY <1>4, MovedIs
  <2> QED BY <2>1, <2>2
<1> HIDE DEF k
<1>6. Path(b, g, k, ats2, objs2)
  <2>1. ats2[0] = g.cur /\ objs2[0] = g.obj
    <3>1. ats2[0] = ats[1] /\ objs2[0] = objs[1]
      BY <1>3
    <3> QED BY <3>1, MovedIs
  <2>2. \A j \in 1 .. k : ReadsRecord(b, Moved(g, ats2[j - 1], objs2[j - 1]), ats2[j], objs2[j])
    <3> TAKE j \in 1 .. k
    <3>1. ats2[j - 1] = ats[j] /\ objs2[j - 1] = objs[j] /\ ats2[j] = ats[j + 1] /\ objs2[j] = objs[j + 1]
      BY <1>3
    <3>2. ReadsRecord(b, Moved(f, ats[j], objs[j]), ats[j + 1], objs[j + 1])
      BY <1>3, <1>4
    <3>3. Moved(g, ats[j], objs[j]) = Moved(f, ats[j], objs[j])
      BY MovedIs
    <3> QED BY <3>1, <3>2, <3>3
  <2> QED BY <2>1, <2>2 DEF Path
<1>7. ats2[k] = f.end /\ objs2[k] = final /\ g.end = f.end
  <2>1. ats2[k] = ats[k + 1] /\ objs2[k] = objs[k + 1]
    BY <1>3
  <2> QED BY <1>1, <1>3, <2>1, MovedIs
<1> HIDE DEF ats2, objs2
<1>8. Reads(b, g, final)
  BY <1>3, <1>6, <1>7 DEF Reads, Reaches
<1> QED BY <1>5, <1>8

LEMMA RecordMoves ==
  ASSUME NEW b, NEW f, NEW to, NEW p, ReadsRecord(b, f, to, p)
  PROVE  f.cur \in Nat /\ to \in Nat /\ f.cur < to /\ to <= f.end
<1>a. PICK item \in Fields(f) : \E x : /\ Lies(b, f.cur, RecordBytes(Format, item, x)) /\ f.cur < to /\ to <= f.end
                                      /\ to = f.cur + Len(RecordBytes(Format, item, x))
  BY DEF ReadsRecord
<1>1. PICK x : /\ Lies(b, f.cur, RecordBytes(Format, item, x)) /\ f.cur < to /\ to <= f.end
               /\ to = f.cur + Len(RecordBytes(Format, item, x))
  BY <1>a
<1> DEFINE bytes == RecordBytes(Format, item, x)
<1>2. bytes \in Seq(Byte) /\ f.cur \in Nat
  BY <1>1 DEF Lies
<1> HIDE DEF bytes
<1>3. Len(bytes) \in Nat
  BY <1>2, LenProperties
<1>4. to = f.cur + Len(bytes)
  BY <1>1 DEF bytes
<1> QED BY <1>1, <1>2, <1>3, <1>4

\* At the end nothing more comes.
LEMMA ReadsEnd ==
  ASSUME NEW b, NEW f, f.cur = f.end, NEW final, Reads(b, f, final)
  PROVE  final = f.obj
<1>a. PICK n \in Nat : \E ats, objs : Path(b, f, n, ats, objs) /\ ats[n] = f.end /\ objs[n] = final
  BY DEF Reads, Reaches
<1>1. PICK ats, objs : Path(b, f, n, ats, objs) /\ ats[n] = f.end /\ objs[n] = final
  BY <1>a
<1>2. \A j \in 1 .. n : /\ ats[j - 1] \in Nat /\ ats[j] \in Nat /\ ats[j - 1] < ats[j]
  <2> TAKE j \in 1 .. n
  <2>1. ReadsRecord(b, Moved(f, ats[j - 1], objs[j - 1]), ats[j], objs[j])
    BY <1>1 DEF Path
  <2> QED BY <2>1, RecordMoves, MovedIs
<1> DEFINE Above == {j \in 0 .. n : j = 0 \/ ats[0] < ats[j]}
<1>3. Above = 0 .. n
  <2>1. 0 \in Above /\ Above \in SUBSET (0 .. n)
    OBVIOUS
  <2>2. \A j \in 1 .. n : j - 1 \in Above => j \in Above
    <3>0. SUFFICES ASSUME NEW j \in 1 .. n, j - 1 \in Above PROVE j \in 0 .. n /\ ats[0] < ats[j]
      OBVIOUS
    <3>1. 1 \in 1 .. n /\ 1 - 1 = 0
      OBVIOUS
    <3>2. ats[0] \in Nat /\ ats[j - 1] \in Nat /\ ats[j] \in Nat /\ ats[j - 1] < ats[j]
      BY <1>2, <3>1
    <3>3. j - 1 = 0 \/ ats[0] < ats[j - 1]
      BY <3>0
    <3> QED BY <3>2, <3>3
  <2> HIDE DEF Above
  <2> QED BY <2>1, <2>2, UpTo
<1>4. n = 0
  <2> SUFFICES ASSUME n # 0 PROVE FALSE
    OBVIOUS
  <2>1. n \in 0 .. n /\ 1 \in 1 .. n /\ 1 - 1 = 0 /\ n \in 1 .. n
    OBVIOUS
  <2>2. ats[0] < ats[n]
    BY <1>3, <2>1
  <2>3. ats[0] = ats[n] /\ ats[0] \in Nat
    BY <1>1, <1>2, <2>1 DEF Path
  <2> QED BY <2>2, <2>3
<1> QED BY <1>1, <1>4 DEF Path

\* The member, record by record, from v on.
Fills(vs, item, m, v) ==
  /\ vs[0] = v /\ vs[Count(item, m)] = m.val[item.num]
  /\ \A j \in 1 .. Count(item, m) :
       /\ vs[j] = Grown(item, vs[j - 1], Said(item, m, j))
       /\ item.shape = "single" => vs[j - 1] = v

\* A map without keys is an empty function, as is a vector without elements.
LEMMA EmptyMap ==
  ASSUME NEW v
  PROVE  Restrict(v, {}) = <<>>
BY DEF Restrict

LEMMA InsertedIs ==
  ASSUME NEW K, NEW v, NEW k
  PROVE  Inserted(Restrict(v, K), k, v[k]) = Restrict(v, K \cup {k})
BY DEF Inserted, Restrict

LEMMA SingleFills ==
  ASSUME NEW item, item.shape = "single", NEW m, NEW v,
         Count(item, m) = 0 => v = m.val[item.num]
  PROVE  \E vs : Fills(vs, item, m, v)
<1> DEFINE w == m.val[item.num]
           n == Count(item, m)
           vs == [j \in 0 .. 1 |-> IF j = 0 THEN v ELSE w]
<1>1. n \in {0, 1} /\ \A j : Said(item, m, j) = w
  BY DEF Count, Said
<1>2. vs[0] = v /\ vs[1] = w
  OBVIOUS
<1> HIDE DEF vs, n
<1>3. vs[n] = w
  BY <1>1, <1>2 DEF n
<1>4. \A j \in 1 .. n : j = 1 /\ j - 1 = 0
  BY <1>1
<1>5. Fills(vs, item, m, v)
  BY <1>1, <1>2, <1>3, <1>4 DEF Fills, n, Grown
<1> QED BY <1>5

LEMMA VectorFills ==
  ASSUME NEW item, item.shape = "vector", NEW m, IsSeq(m.val[item.num])
  PROVE  \E vs : Fills(vs, item, m, <<>>)
<1> DEFINE v == m.val[item.num]
           n == Count(item, m)
           S == {v[i] : i \in DOMAIN v}
           vs == [j \in 0 .. n |-> SubSeq(v, 1, j)]
<1>1. n = Len(v) /\ \A j : Said(item, m, j) = v[j]
  BY DEF Count, Said
<1>2. v \in Seq(S)
  BY DEF IsSeq
<1> HIDE DEF v, n, S
<1>3. n \in Nat
  BY <1>1, <1>2, LenProperties
<1>4. \A i \in 1 .. n : v[i] \in S
  BY <1>1, <1>2, ElementOfSeq
<1>5. ASSUME NEW j \in 1 .. n PROVE SubSeq(v, 1, j) = Append(SubSeq(v, 1, j - 1), v[j])
  <2> DEFINE x == SubSeq(v, 1, j - 1)
             y == SubSeq(v, 1, j)
  <2>1. /\ x \in Seq(S) /\ Len(x) = j - 1 /\ \A i \in 1 .. (j - 1) : x[i] = v[i]
    <3>1. \A i \in 1 .. (j - 1) : v[i] \in S
      BY <1>3, <1>4
    <3>2. j - 1 \in Int /\ 1 \in Int
      OBVIOUS
    <3>3. /\ SubSeq(v, 1, j - 1) \in Seq(S)
          /\ Len(SubSeq(v, 1, j - 1)) = IF 1 <= j - 1 THEN (j - 1) - 1 + 1 ELSE 0
          /\ \A i \in 1 .. (j - 1) - 1 + 1 : SubSeq(v, 1, j - 1)[i] = v[1 + i - 1]
      BY <3>1, <3>2, SubSeqProperties
    <3>4. (IF 1 <= j - 1 THEN (j - 1) - 1 + 1 ELSE 0) = j - 1 /\ (j - 1) - 1 + 1 = j - 1
          /\ \A i \in 1 .. (j - 1) : 1 + i - 1 = i
      OBVIOUS
    <3> QED BY <3>3, <3>4
  <2>2. /\ y \in Seq(S) /\ Len(y) = j /\ \A i \in 1 .. j : y[i] = v[i]
    <3>1. \A i \in 1 .. j : v[i] \in S
      BY <1>3, <1>4
    <3>3. /\ SubSeq(v, 1, j) \in Seq(S)
          /\ Len(SubSeq(v, 1, j)) = IF 1 <= j THEN j - 1 + 1 ELSE 0
          /\ \A i \in 1 .. j - 1 + 1 : SubSeq(v, 1, j)[i] = v[1 + i - 1]
      BY <3>1, SubSeqProperties
    <3>4. (IF 1 <= j THEN j - 1 + 1 ELSE 0) = j /\ j - 1 + 1 = j
          /\ \A i \in 1 .. j : 1 + i - 1 = i
      OBVIOUS
    <3> QED BY <3>3, <3>4
  <2> DEFINE e == v[j]
             z == Append(x, e)
  <2>3. e \in S
    BY <1>4
  <2> HIDE DEF x, y
  <2>4. z \in Seq(S) /\ Len(z) = Len(x) + 1 /\ (\A i \in 1 .. Len(x) : z[i] = x[i]) /\ z[Len(x) + 1] = e
    <3> HIDE DEF e
    <3> QED BY <2>1, <2>3, AppendProperties
  <2>5. Len(z) = j /\ \A i \in 1 .. j : z[i] = y[i]
    <3> HIDE DEF z
    <3>1. \A i \in 1 .. j : i \in 1 .. (j - 1) \/ i = j
      OBVIOUS
    <3>2. (j - 1) + 1 = j
      OBVIOUS
    <3> QED BY <2>1, <2>2, <2>4, <3>1, <3>2
  <2> HIDE DEF z
  <2>6. y = z
    BY <2>2, <2>4, <2>5, SeqEqual
  <2> QED BY <2>6 DEF x, y, z
<1>6. vs[0] = <<>> /\ vs[n] = v
  <2>1. vs[0] = SubSeq(v, 1, 0) /\ vs[n] = SubSeq(v, 1, n)
    BY <1>3
  <2>2. SubSeq(v, 1, 0) = <<>>
    BY <1>2, SubSeqProperties, EmptySeq
  <2>3. SubSeq(v, 1, n) = v
    BY <1>1, <1>2, SubSeqFull
  <2> QED BY <2>1, <2>2, <2>3
<1>7. \A j \in 1 .. n : vs[j] = Append(vs[j - 1], v[j])
  <2> TAKE j \in 1 .. n
  <2>1. j \in 0 .. n /\ j - 1 \in 0 .. n
    BY <1>3
  <2> QED BY <1>5, <2>1
<1> HIDE DEF vs
<1>8. Fills(vs, item, m, <<>>)
  BY <1>1, <1>6, <1>7 DEF Fills, n, v, Grown
<1> QED BY <1>8

LEMMA MapFills ==
  ASSUME NEW item, item.shape = "map", NEW m, InOrder(item, m.val[item.num]) # {},
         Cardinality(DOMAIN m.val[item.num]) \in Nat,
         m.val[item.num] = [k \in DOMAIN m.val[item.num] |-> m.val[item.num][k]]
  PROVE  \E vs : Fills(vs, item, m, <<>>)
<1> DEFINE v == m.val[item.num]
           n == Count(item, m)
           keys == Keys(item, v)
           K(j) == {keys[i] : i \in 1 .. j}
           vs == [j \in 0 .. n |-> Restrict(v, K(j))]
<1>1. n = Cardinality(DOMAIN v) /\ \A j : Said(item, m, j) = <<keys[j], v[keys[j]]>>
  BY DEF Count, Said
<1>2. n \in Nat /\ K(n) = DOMAIN v
  <2>1. {keys[i] : i \in 1 .. Cardinality(DOMAIN v)} = DOMAIN v
    <3>1. keys \in InOrder(item, v)
      BY DEF Keys
    <3> HIDE DEF keys, v, n
    <3> QED BY <3>1 DEF InOrder, Range
  <2>2. n \in Nat
    BY <1>1
  <2> HIDE DEF keys, v, n
  <2> QED BY <1>1, <2>1, <2>2
<1>3. v = [k \in DOMAIN v |-> v[k]]
  OBVIOUS
<1> HIDE DEF v, n, keys
<1>4. K(0) = {} /\ \A j \in 1 .. n : K(j) = K(j - 1) \cup {keys[j]}
  <2>1. 1 .. 0 = {} /\ \A j \in 1 .. n : 1 .. j = (1 .. (j - 1)) \cup {j}
    OBVIOUS
  <2> QED BY <2>1
<1>5. vs[0] = <<>> /\ vs[n] = v
  <2>1. vs[0] = Restrict(v, K(0)) /\ vs[n] = Restrict(v, K(n))
    BY <1>2
  <2> HIDE DEF K
  <2>2. vs[0] = Restrict(v, {}) /\ vs[n] = Restrict(v, DOMAIN v)
    BY <1>2, <1>4, <2>1
  <2>3. Restrict(v, {}) = <<>>
    BY EmptyMap
  <2>4. Restrict(v, DOMAIN v) = v
    BY <1>3 DEF Restrict
  <2> HIDE DEF vs
  <2> QED BY <2>2, <2>3, <2>4
<1>6. \A j \in 1 .. n : vs[j] = Inserted(vs[j - 1], keys[j], v[keys[j]])
  <2> TAKE j \in 1 .. n
  <2>1. j \in 0 .. n /\ j - 1 \in 0 .. n
    BY <1>2
  <2> DEFINE L == K(j - 1)
             x == keys[j]
  <2>2. vs[j] = Restrict(v, K(j)) /\ vs[j - 1] = Restrict(v, L)
    BY <2>1
  <2>3. K(j) = L \cup {x}
    BY <1>4
  <2> HIDE DEF vs, K, L, x
  <2>4. Inserted(Restrict(v, L), x, v[x]) = Restrict(v, L \cup {x})
    BY InsertedIs
  <2>5. vs[j] = Inserted(vs[j - 1], x, v[x])
    BY <2>2, <2>3, <2>4
  <2> QED BY <2>5 DEF x
<1> HIDE DEF vs
<1>7. \A j \in 1 .. n : vs[j] = Grown(item, vs[j - 1], Said(item, m, j))
  BY <1>1, <1>6 DEF Grown
<1>8. Fills(vs, item, m, <<>>)
  BY <1>1, <1>5, <1>7 DEF Fills, n, v
<1> QED BY <1>8

-----------------------------------------------------------------------------
(* A field of a message.                                                     *)

\* An item that is read well, wherever it is in the schema.
Usable(item) ==
  /\ item.shape \in {"single", "vector", "map"} /\ item.num \in Num32
  /\ item.has \in BOOLEAN /\ (item.has => item.shape = "single")
  /\ FieldReads(item) /\ (item.shape = "map" => Coded(item))

\* What bytes can say of the field of the message m.
Sayable(item, m) ==
  /\ FieldHasType(ReadObjects, item, m.val[item.num])
  /\ m.has[item.num] \in BOOLEAN /\ (m.has[item.num] => item.has)
  /\ item.has /\ ~m.has[item.num] => m.val[item.num] = ZeroValue(item.cpp)

IsObject(o) ==
  o = [val |-> [k \in DOMAIN o.val |-> o.val[k]], has |-> [k \in DOMAIN o.has |-> o.has[k]]]

\* The object that the field of m is decoded into: emptied, and zero or already there.
StartsAt(o, item, m) ==
  /\ IsObject(o) /\ item.num \in DOMAIN o.val /\ item.num \in DOMAIN o.has
  /\ o.val[item.num] \in IF item.shape = "single" THEN {ZeroValue(item.cpp), m.val[item.num]} ELSE {<<>>}
  /\ o.has[item.num] \in {FALSE, m.has[item.num]}

With(o, num, v, h) ==
  [val |-> [o.val EXCEPT ![num] = v], has |-> [o.has EXCEPT ![num] = h]]

LEMMA WithIs ==
  ASSUME NEW o, IsObject(o), NEW num, num \in DOMAIN o.val, num \in DOMAIN o.has, NEW v, NEW h
  PROVE  /\ With(o, num, o.val[num], o.has[num]) = o
         /\ With(o, num, v, h).val[num] = v /\ With(o, num, v, h).has[num] = h
         /\ With(o, num, v, h) = [val |-> With(o, num, v, h).val, has |-> With(o, num, v, h).has]
         /\ \A w, i : With(With(o, num, v, h), num, w, i) = With(o, num, w, i)
         /\ IsObject(With(o, num, v, h))
         /\ DOMAIN With(o, num, v, h).val = DOMAIN o.val /\ DOMAIN With(o, num, v, h).has = DOMAIN o.has
         /\ \A k : k # num => With(o, num, v, h).val[k] = o.val[k] /\ With(o, num, v, h).has[k] = o.has[k]
BY DEF With, IsObject

LEMMA AppliedIs ==
  ASSUME NEW o, NEW item, NEW x
  PROVE  Applied(o, item, x) = With(o, item.num, Grown(item, o.val[item.num], x), o.has[item.num] \/ item.has)
BY DEF Applied, With

LEMMA FieldFills ==
  ASSUME NEW item, Usable(item), NEW m, Sayable(item, m), NEW o, StartsAt(o, item, m)
  PROVE  \E vs : Fills(vs, item, m, o.val[item.num])
<1> DEFINE v == o.val[item.num]
<1>1. CASE item.shape = "single"
  <2>1. v \in {ZeroValue(item.cpp), m.val[item.num]}
    BY <1>1 DEF StartsAt
  <2>2. Count(item, m) = 0 => item.has /\ ~m.has[item.num]
    BY <1>1 DEF Count
  <2>3. Count(item, m) = 0 => v = m.val[item.num]
    BY <2>1, <2>2 DEF Sayable
  <2> HIDE DEF v
  <2>4. \E vs : Fills(vs, item, m, v)
    BY <1>1, <2>3, SingleFills
  <2> QED BY <2>4 DEF v
<1>2. CASE item.shape = "vector"
  <2>1. v = <<>> /\ IsSeq(m.val[item.num])
    BY <1>2 DEF StartsAt, Sayable, FieldHasType, IsSeq
  <2> HIDE DEF v
  <2>2. \E vs : Fills(vs, item, m, <<>>)
    BY <1>2, <2>1, VectorFills
  <2> QED BY <2>1, <2>2 DEF v
<1>3. CASE item.shape = "map"
  <2>1. v = <<>>
    BY <1>3 DEF StartsAt
  <2> DEFINE w == m.val[item.num]
  <2>2. InOrder(item, w) # {} /\ Cardinality(DOMAIN w) \in Nat /\ w = [k \in DOMAIN w |-> w[k]]
    BY <1>3 DEF Sayable, FieldHasType
  <2> HIDE DEF v
  <2>3. \E vs : Fills(vs, item, m, <<>>)
    BY <1>3, <2>2, MapFills
  <2> QED BY <2>1, <2>3 DEF v
<1> QED BY <1>1, <1>2, <1>3 DEF Usable

\* The flag is set by the first record, if there is one, and is right then.
LEMMA FlagIs ==
  ASSUME NEW item, Usable(item), NEW m, Sayable(item, m), NEW o, StartsAt(o, item, m)
  PROVE  /\ o.has[item.num] \in BOOLEAN
         /\ Count(item, m) = 0 => o.has[item.num] = m.has[item.num]
         /\ Count(item, m) # 0 => (o.has[item.num] \/ item.has) = m.has[item.num]
<1>1. /\ o.has[item.num] \in {FALSE, m.has[item.num]} /\ m.has[item.num] \in BOOLEAN
      /\ (m.has[item.num] => item.has) /\ item.has \in BOOLEAN
      /\ item.has => item.shape = "single"
  BY DEF StartsAt, Sayable, Usable
<1>2. item.shape = "single" => Count(item, m) = IF item.has => m.has[item.num] THEN 1 ELSE 0
  BY DEF Count
<1> DEFINE h == o.has[item.num]
           g == m.has[item.num]
           i == item.has
           n == Count(item, m)
<1>3. /\ h \in BOOLEAN /\ g \in BOOLEAN /\ i \in BOOLEAN /\ h \in {FALSE, g} /\ (g => i)
      /\ i => n = IF i => g THEN 1 ELSE 0
  BY <1>1, <1>2
<1> HIDE DEF h, g, i, n
<1>4. CASE i
  <2>1. g => n = 1
    BY <1>3, <1>4
  <2>2. ~g => n = 0
    BY <1>3, <1>4
  <2>3. ~g => h = FALSE
    BY <1>3
  <2>4. n = 0 => ~g
    BY <2>1
  <2>5. n = 0 => h = g
    BY <2>3, <2>4, <1>3
  <2>6. n # 0 => g
    BY <2>2
  <2>7. n # 0 => (h \/ i) = g
    BY <1>4, <2>6, <1>3, Zenon
  <2> QED BY <1>3, <2>5, <2>7 DEF h, g, i, n
<1>5. CASE ~i
  <2>1. ~g
    BY <1>3, <1>5
  <2>2. h = FALSE /\ g = FALSE /\ i = FALSE
    BY <2>1, <1>3, <1>5
  <2> QED BY <2>2 DEF h, g, i, n
<1> QED BY <1>3, <1>4, <1>5 

-----------------------------------------------------------------------------

LEMMA PlacesRise ==
  ASSUME NEW ats, NEW b, NEW at, NEW seqs \in Seq(Seq(Byte)), NEW bytes, Places(ats, b, at, seqs, bytes)
  PROVE  \A i \in 0 .. Len(seqs) : ats[i] \in Nat /\ ats[i] <= at + Len(bytes)
<1> DEFINE n == Len(seqs)
           top1 == at + Len(bytes)
           Good == {i \in 1 .. n : ats[i] <= top1}
<1>1. n \in Nat /\ \A i \in 1 .. n : Len(seqs[i]) \in Nat
  BY LenProperties, ElementOfSeq
<1>2. /\ \A i \in 0 .. n : ats[i] \in Nat
      /\ ats[n] = top1
      /\ \A i \in 1 .. n : ats[i] = ats[i - 1] + Len(seqs[i])
  BY DEF Places
<1> HIDE DEF n, top1
<1>3. top1 \in Nat
  BY <1>1, <1>2
<1>4. ASSUME NEW i \in 1 .. n, ats[i] <= top1
      PROVE  ats[i - 1] <= top1
  <2>1. i - 1 \in 0 .. n /\ i \in 0 .. n
    BY <1>1
  <2> DEFINE x == ats[i - 1]
             y == ats[i]
             z == Len(seqs[i])
  <2>2. x \in Nat /\ y \in Nat /\ z \in Nat /\ y = x + z /\ y <= top1
    BY <1>1, <1>2, <1>4, <2>1
  <2> HIDE DEF x, y, z
  <2>3. x <= top1
    BY <1>3, <2>2
  <2> QED BY <2>3 DEF x
<1>5. n # 0 => Good = 1 .. n
  <2> SUFFICES ASSUME n # 0 PROVE Good = 1 .. n
    OBVIOUS
  <2>1. n \in Nat \ {0} /\ Good \in SUBSET (1 .. n) /\ n \in Good
    BY <1>1, <1>2, <1>3
  <2>2. \A i \in 1 .. (n - 1) : i + 1 \in Good => i \in Good
    <3> TAKE i \in 1 .. (n - 1)
    <3>1. i + 1 \in 1 .. n /\ (i + 1) - 1 = i /\ i \in 1 .. n
      BY <1>1
    <3>2. i + 1 \in Good => ats[(i + 1) - 1] <= top1
      BY <1>4, <3>1
    <3> QED BY <3>1, <3>2
  <2> HIDE DEF Good
  <2> QED BY <2>1, <2>2, DownInduction
<1>6. \A i \in 1 .. n : ats[i] <= top1
  BY <1>1, <1>5
<1>7. ats[0] <= top1
  <2>1. CASE n = 0
    BY <1>2, <1>3, <2>1
  <2>2. CASE n # 0
    <3>1. 1 \in 1 .. n /\ 1 - 1 = 0
      BY <1>1, <2>2
    <3>2. ats[1 - 1] <= top1
      BY <1>4, <1>6, <3>1
    <3> QED BY <3>1, <3>2
  <2> QED BY <2>1, <2>2
<1>8. \A i \in 0 .. n : i = 0 \/ i \in 1 .. n
  BY <1>1
<1> QED BY <1>2, <1>6, <1>7, <1>8 DEF n, top1

\* A record is never empty.
LEMMA TagBytes ==
  ASSUME NEW num \in Nat, NEW type \in Nat
  PROVE  Tag(num, type) \in Seq(Byte) /\ Len(Tag(num, type)) \in Nat \ {0}
<1>1. 8 * num + type \in Nat
  OBVIOUS
<1>2. VarintBytes[8 * num + type] \in Seq(Byte) /\ Len(VarintBytes[8 * num + type]) \in Nat \ {0}
  BY <1>1, VarintBytesAre
<1> QED BY <1>2 DEF Tag

LEMMA RecordNotEmpty ==
  ASSUME NEW F, NEW objects, InBytes(F, objects), NEW item, item.num \in Nat, NEW x, Fits(objects, item, x)
  PROVE  RecordBytes(F, item, x) # <<>>
<1>1. CASE item.shape = "map"
  <2> DEFINE t == Tag(item.num, WT_LENGTH_DELIMITED)
             p == LengthDelimited(EntryBytes(F, item, x[1], x[2]))
  <2>1. t \in Seq(Byte) /\ Len(t) \in Nat \ {0}
    BY TagBytes DEF WT_LENGTH_DELIMITED
  <2>2. EntryBytes(F, item, x[1], x[2]) \in Seq(Byte) /\ RecordBytes(F, item, x) = t \o p
    BY <1>1, EntryIs DEF RecordBytes, Fits
  <2>3. p \in Seq(Byte)
    BY <2>2, DelimitedIs
  <2> HIDE DEF t, p
  <2>4. t \o p # <<>>
    BY <2>1, <2>3
  <2> QED BY <2>2, <2>4
<1>2. CASE item.shape # "map"
  <2> DEFINE n == FormatType(item.cpp, item.low)
             t == Tag(item.num, n)
             p == Payload(F, item.cpp, item.low, x)
  <2>1. n \in 0 .. 7
    BY TypeIs
  <2> HIDE DEF n
  <2>2. n \in Nat
    BY <2>1
  <2>3. t \in Seq(Byte) /\ Len(t) \in Nat \ {0}
    BY <2>2, TagBytes
  <2>4. p \in Seq(Byte)
    BY <1>2, PayloadIs DEF Fits
  <2>5. RecordBytes(F, item, x) = t \o p
    BY <1>2 DEF RecordBytes, Tagged, n
  <2> HIDE DEF t, p
  <2>6. t \o p # <<>>
    BY <2>3, <2>4
  <2> QED BY <2>5, <2>6
<1> QED BY <1>1, <1>2

LEMMA RecordIsLong ==
  ASSUME NEW F, NEW objects, InBytes(F, objects), NEW item, item.num \in Nat, NEW x, Fits(objects, item, x)
  PROVE  RecordBytes(F, item, x) \in Seq(Byte) /\ Len(RecordBytes(F, item, x)) \in Nat \ {0}
<1>1. RecordBytes(F, item, x) \in Seq(Byte)
  BY RecordIs
<1>2. Len(RecordBytes(F, item, x)) \in Nat
  BY <1>1, LenProperties
<1>3. RecordBytes(F, item, x) # <<>>
  BY RecordNotEmpty
<1> QED BY <1>1, <1>2, <1>3, EmptySeq

-----------------------------------------------------------------------------

LEMMA UsableIs ==
  ASSUME NEW item, Usable(item)
  PROVE  /\ item.num \in Nat /\ item.shape \in {"single", "vector", "map"}
         /\ item.shape = "vector" => item.high # PACKED
<1>1. item.num \in Nat
  <2>1. item.num \in 0 .. (Mod32 - 1)
    BY DEF Usable, Num32
  <2>2. Mod32 \in Nat
    BY WidthsAre
  <2> QED BY <2>1, <2>2
<1> QED BY <1>1 DEF Usable, FieldReads, ReadsWell, PACKED

\* What the i-th record of the field of m finds before it, and leaves.
Between(o, item, vs, i) ==
  With(o, item.num, vs[i], IF i = 0 THEN o.has[item.num] ELSE o.has[item.num] \/ item.has)

LEMMA BetweenGrows ==
  ASSUME NEW item, Usable(item), NEW m, Sayable(item, m), NEW o, StartsAt(o, item, m),
         NEW vs, Fills(vs, item, m, o.val[item.num]), NEW n \in Nat, n = Count(item, m)
  PROVE  /\ Between(o, item, vs, 0) = o
         /\ Between(o, item, vs, n) = With(o, item.num, m.val[item.num], m.has[item.num])
         /\ \A i \in 1 .. n : /\ Between(o, item, vs, i) = Applied(Between(o, item, vs, i - 1), item, Said(item, m, i))
                              /\ Between(o, item, vs, i - 1).val[item.num] = vs[i - 1]
                              /\ IsObject(Between(o, item, vs, i - 1))
<1> DEFINE num == item.num
           h == o.has[num]
           g == item.has
           H(i) == IF i = 0 THEN h ELSE h \/ g
           B(i) == With(o, num, vs[i], H(i))
<1>1. IsObject(o) /\ num \in DOMAIN o.val /\ num \in DOMAIN o.has
  BY DEF StartsAt
<1>2. h \in BOOLEAN /\ g \in BOOLEAN
  BY FlagIs DEF Usable
<1>3. H(n) = m.has[num]
  BY FlagIs
<1>4. vs[0] = o.val[num] /\ vs[n] = m.val[num]
  BY DEF Fills
<1>5. \A i \in 1 .. n : vs[i] = Grown(item, vs[i - 1], Said(item, m, i))
  BY DEF Fills
<1>6. \A i \in 1 .. n : H(i) = (H(i - 1) \/ g)
  <2> TAKE i \in 1 .. n
  <2>1. i # 0 /\ i - 1 \in Nat
    OBVIOUS
  <2>2. CASE i - 1 = 0
    BY <2>1, <2>2
  <2>3. CASE i - 1 # 0
    <3>1. H(i) = (h \/ g) /\ H(i - 1) = (h \/ g)
      BY <2>1, <2>3
    <3> HIDE DEF h, g, H
    <3>2. ((h \/ g) \/ g) = (h \/ g)
      BY <1>2
    <3> QED BY <3>1, <3>2
  <2> QED BY <2>2, <2>3
<1> HIDE DEF H
<1>7. ASSUME NEW i
      PROVE  B(i).val[num] = vs[i] /\ B(i).has[num] = H(i) /\ IsObject(B(i))
  BY <1>1, WithIs
<1>8. ASSUME NEW i \in 1 .. n
      PROVE  B(i) = Applied(B(i - 1), item, Said(item, m, i))
  <2> DEFINE x == Said(item, m, i)
             p == B(i - 1)
  <2>1. Applied(p, item, x) = With(p, num, Grown(item, p.val[num], x), p.has[num] \/ g)
    BY AppliedIs
  <2>2. p.val[num] = vs[i - 1] /\ p.has[num] = H(i - 1)
    BY <1>7
  <2>3. With(p, num, Grown(item, p.val[num], x), p.has[num] \/ g) = With(p, num, vs[i], H(i))
    BY <1>5, <1>6, <2>2
  <2>4. With(p, num, vs[i], H(i)) = B(i)
    BY <1>1, WithIs
  <2> QED BY <2>1, <2>3, <2>4
<1>9. \A i : Between(o, item, vs, i) = B(i)
  BY DEF Between, H
<1>10. B(0) = o
  <2>1. H(0) = h
    BY DEF H
  <2> QED BY <1>1, <1>4, <2>1, WithIs
<1>11. B(n) = With(o, num, m.val[num], m.has[num])
  BY <1>3, <1>4
<1> HIDE DEF B
<1> QED BY <1>7, <1>8, <1>9, <1>10, <1>11

\* Which parser reads a field: its number is bound to it alone, and in an entry it
\* has one record, with nothing behind it if another parser reads that.
ReadsField(f, item, end) ==
  /\ IsFrame(f) /\ item \in Fields(f)
  /\ \A other \in Fields(f) : other.num = item.num => other = item
  /\ f.kind = "entry" => item.shape = "single" /\ (Nested(item) => end = f.end)
  /\ end <= f.end

\* The parser reads all records of a field, and the member is as it is in the message.
LEMMA FieldReaches ==
  ASSUME NEW depth, Readable(depth), NEW item, Usable(item), NEW m, Sayable(item, m),
         NEW b, NEW f, f.end \in Nat, NEW bytes, bytes = FlattenSeq(FieldRecords(Format, item, m)),
         Lies(b, f.cur, bytes), ReadsField(f, item, f.cur + Len(bytes)), StartsAt(f.obj, item, m)
  PROVE  Reaches(b, f, f.cur + Len(bytes), With(f.obj, item.num, m.val[item.num], m.has[item.num]))
<1> DEFINE o == f.obj
           n == Count(item, m)
           seqs == FieldRecords(Format, item, m)
           end == f.cur + Len(bytes)
<1>1. InBytes(Format, ReadObjects)
  BY FormatIs
<1>2. FieldHasType(ReadObjects, item, m.val[item.num])
  BY DEF Sayable
<1>3. /\ item.num \in Nat /\ item.shape \in {"single", "vector", "map"}
      /\ item.shape = "vector" => item.high # PACKED
  BY UsableIs
<1>4. /\ seqs = [i \in 1 .. n |-> RecordBytes(Format, item, Said(item, m, i))]
      /\ seqs \in Seq(Seq(Byte)) /\ Len(seqs) = n
  <2> HIDE DEF seqs, n
  <2>1. FieldRecords(Format, item, m) = [i \in 1 .. Count(item, m) |-> RecordBytes(Format, item, Said(item, m, i))]
        /\ FieldRecords(Format, item, m) \in Seq(Seq(Byte)) /\ Len(FieldRecords(Format, item, m)) = Count(item, m)
    BY <1>1, <1>2, <1>3, RecordsAre
  <2> QED BY <2>1 DEF seqs, n
<1>5. n \in Nat /\ \A i \in 1 .. n : Fits(ReadObjects, item, Said(item, m, i))
  BY <1>2, <1>3, SaidFits
<1>6. \A i \in 1 .. n : Len(RecordBytes(Format, item, Said(item, m, i))) \in Nat \ {0}
  BY <1>1, <1>3, <1>5, RecordIsLong
<1> HIDE DEF n, seqs
<1>7. PICK ats : Places(ats, b, f.cur, seqs, bytes)
  BY <1>4, LiesFlat DEF seqs
<1>8. \A i \in 0 .. n : ats[i] \in Nat /\ ats[i] <= end
  BY <1>4, <1>7, PlacesRise
<1>9. /\ ats[0] = f.cur /\ ats[n] = end
      /\ \A i \in 1 .. n : /\ Lies(b, ats[i - 1], seqs[i])
                           /\ ats[i] = ats[i - 1] + Len(seqs[i])
  BY <1>4, <1>7 DEF Places
<1>10. \A i \in 1 .. n : seqs[i] = RecordBytes(Format, item, Said(item, m, i))
  BY <1>4
<1>11. PICK vs : Fills(vs, item, m, o.val[item.num])
  BY FieldFills
<1> DEFINE objs == [i \in 0 .. n |-> Between(o, item, vs, i)]
<1>12. /\ Between(o, item, vs, 0) = o
       /\ Between(o, item, vs, n) = With(o, item.num, m.val[item.num], m.has[item.num])
       /\ \A i \in 1 .. n : /\ Between(o, item, vs, i) = Applied(Between(o, item, vs, i - 1), item, Said(item, m, i))
                            /\ Between(o, item, vs, i - 1).val[item.num] = vs[i - 1]
                            /\ IsObject(Between(o, item, vs, i - 1))
  <2> HIDE DEF o
  <2>1. n = Count(item, m) /\ StartsAt(o, item, m)
    BY DEF n, o
  <2> QED BY <1>5, <1>11, <2>1, BetweenGrows
<1>13. ASSUME NEW i \in 1 .. n
       PROVE  ReadsRecord(b, Moved(f, ats[i - 1], objs[i - 1]), ats[i], objs[i])
  <2> DEFINE x == Said(item, m, i)
             p == objs[i - 1]
             g == Moved(f, ats[i - 1], p)
  <2>1. i - 1 \in 0 .. n /\ i \in 0 .. n
    BY <1>5
  <2>2. p = Between(o, item, vs, i - 1) /\ objs[i] = Between(o, item, vs, i)
    BY <2>1
  <2>3. objs[i] = Applied(p, item, x) /\ p.val[item.num] = vs[i - 1] /\ IsObject(p)
    BY <1>12, <2>2
  <2>4. Takes(p, item, x)
    <3>1. p = [val |-> p.val, has |-> p.has]
      BY <2>3 DEF IsObject
    <3>2. item.shape = "map" => x = <<x[1], x[2]>>
      BY DEF Said
    <3>3. item.shape = "single" /\ IsMessage(item.cpp) => p.val[item.num] \in {ZeroMessage[item.cpp], x}
      <4> SUFFICES ASSUME item.shape = "single" /\ IsMessage(item.cpp)
                   PROVE  p.val[item.num] \in {ZeroMessage[item.cpp], x}
        OBVIOUS
      <4>1. p.val[item.num] = o.val[item.num]
        BY <1>11, <2>3 DEF Fills, n
      <4>2. x = m.val[item.num]
        BY DEF Said
      <4>3. o.val[item.num] \in {ZeroValue(item.cpp), m.val[item.num]}
        BY DEF StartsAt
      <4> QED BY <4>1, <4>2, <4>3 DEF ZeroValue
    <3> HIDE DEF p, x
    <3>4. Fits(ReadObjects, item, x)
      BY <1>5 DEF x
    <3> QED BY <3>1, <3>2, <3>3, <3>4 DEF Takes, Usable
  <2>5. /\ Lies(b, ats[i - 1], RecordBytes(Format, item, x))
        /\ ats[i] = ats[i - 1] + Len(RecordBytes(Format, item, x))
    BY <1>9, <1>10
  <2>6. ats[i - 1] < ats[i] /\ ats[i] <= end
    <3> DEFINE l == Len(RecordBytes(Format, item, x))
    <3>1. l \in Nat \ {0} /\ ats[i - 1] \in Nat /\ ats[i] = ats[i - 1] + l
      BY <1>6, <1>8, <2>1, <2>5
    <3> HIDE DEF l
    <3> QED BY <1>8, <2>1, <3>1
  <2>7. end <= f.end /\ item \in Fields(f)
        /\ (\A other \in Fields(f) : other.num = item.num => other = item)
        /\ (f.kind = "entry" => item.shape = "single" /\ (Nested(item) => end = f.end))
    BY DEF ReadsField
  <2>8. f.kind = "entry" => ats[i] = end
    <3> SUFFICES ASSUME f.kind = "entry" PROVE ats[i] = end
      OBVIOUS
    <3>1. n \in {0, 1}
      BY <2>7 DEF n, Count
    <3>2. i = n
      BY <3>1
    <3> QED BY <1>9, <3>2
  <2>9. ats[i] <= f.end
    <3>1. ats[i] \in Nat /\ end \in Nat
      BY <1>5, <1>8, <1>9, <2>1
    <3> HIDE DEF end
    <3> QED BY <2>6, <2>7, <3>1
  <2> HIDE DEF p, x
  <2>10. /\ g.cur = ats[i - 1] /\ g.obj = p /\ g.end = f.end /\ g.kind = f.kind
         /\ Fields(g) = Fields(f)
    BY MovedIs DEF Fields
  <2> HIDE DEF g, end, objs
  <2> QED BY <2>3, <2>4, <2>5, <2>6, <2>7, <2>8, <2>9, <2>10 DEF ReadsRecord, p, x, g
<1>14. objs[0] = o /\ objs[n] = With(o, item.num, m.val[item.num], m.has[item.num])
  BY <1>5, <1>12
<1> HIDE DEF objs
<1>15. Path(b, f, n, ats, objs)
  BY <1>9, <1>13, <1>14 DEF Path
<1> QED BY <1>5, <1>9, <1>14, <1>15 DEF Reaches

-----------------------------------------------------------------------------
(* A message.                                                                *)

LEMMA BoundAre ==
  ASSUME NEW struct \in DOMAIN Schema, StructReads(struct)
  PROVE  /\ BoundItems[struct] = Range(Schema[struct])
         /\ \A item, other \in Range(Schema[struct]) : other.num = item.num => other = item
<1> DEFINE items == Schema[struct]
           Distinct(n) == \A i, j \in 1 .. n : items[i].num = items[j].num => i = j
<1>1. items \in Seq(Range(items))
      /\ \A i, j \in DOMAIN items : items[i].num = items[j].num => i = j
  BY DEF StructReads
<1>2. DOMAIN items = 1 .. Len(items) /\ Len(items) \in Nat
  BY <1>1, LenProperties
<1>3. BoundItems[struct] = {items[n] : n \in {n \in DOMAIN items : Distinct(n)}}
  BY DEF BoundItems
<1>4. \A n \in DOMAIN items : Distinct(n)
  <2> TAKE n \in DOMAIN items
  <2>1. \A i \in 1 .. n : i \in DOMAIN items
    BY <1>2
  <2> QED BY <1>1, <2>1
<1>5. Range(items) = {items[n] : n \in DOMAIN items}
  BY DEF Range
<1> HIDE DEF items, Distinct
<1>6. BoundItems[struct] = {items[n] : n \in DOMAIN items}
  BY <1>3, <1>4
<1>7. \A item, other \in Range(items) : other.num = item.num => other = item
  BY <1>1, <1>5
<1> QED BY <1>5, <1>6, <1>7 DEF items

\* An object that the message is decoded into.
Starts(o, items, v) ==
  /\ IsObject(o) /\ DOMAIN o.val = Nums(items) /\ DOMAIN o.has = Nums(items)
  /\ \A i \in DOMAIN items : StartsAt(o, items[i], v)

\* The object behind the first fields of the message.
Filled(o, items, v, i) ==
  LET Behind(num) == \E j \in 1 .. i : items[j].num = num
  IN  [val |-> [n \in Nums(items) |-> IF Behind(n) THEN v.val[n] ELSE o.val[n]],
       has |-> [n \in Nums(items) |-> IF Behind(n) THEN v.has[n] ELSE o.has[n]]]

LEMMA FilledNone ==
  ASSUME NEW o, NEW items, NEW v, Starts(o, items, v)
  PROVE  Filled(o, items, v, 0) = o
<1>1. ~ \E j \in 1 .. 0 : TRUE
  OBVIOUS
<1>2. Filled(o, items, v, 0) = [val |-> [n \in Nums(items) |-> o.val[n]], has |-> [n \in Nums(items) |-> o.has[n]]]
  BY <1>1 DEF Filled
<1> QED BY <1>2 DEF Starts, IsObject

LEMMA FilledAll ==
  ASSUME NEW o, NEW S, NEW items \in Seq(S), NEW v,
         v = [val |-> [n \in Nums(items) |-> v.val[n]], has |-> [n \in Nums(items) |-> v.has[n]]]
  PROVE  Filled(o, items, v, Len(items)) = v
<1>1. DOMAIN items = 1 .. Len(items)
  BY LenProperties
<1>2. \A n \in Nums(items) : \E j \in 1 .. Len(items) : items[j].num = n
  BY <1>1 DEF Nums
<1>3. Filled(o, items, v, Len(items)) = [val |-> [n \in Nums(items) |-> v.val[n]], has |-> [n \in Nums(items) |-> v.has[n]]]
  BY <1>2 DEF Filled
<1> QED BY <1>3

LEMMA FilledNext ==
  ASSUME NEW o, NEW S, NEW items \in Seq(S), NEW v, Starts(o, items, v), NEW i \in 1 .. Len(items),
         \A k, j \in DOMAIN items : items[k].num = items[j].num => k = j
  PROVE  /\ StartsAt(Filled(o, items, v, i - 1), items[i], v)
         /\ Filled(o, items, v, i) =
              With(Filled(o, items, v, i - 1), items[i].num, v.val[items[i].num], v.has[items[i].num])
<1> DEFINE num == items[i].num
           Behind(k, n) == \E j \in 1 .. k : items[j].num = n
           p == Filled(o, items, v, i - 1)
           q == Filled(o, items, v, i)
<1>1. DOMAIN items = 1 .. Len(items) /\ Len(items) \in Nat
  BY LenProperties
<1>2. num \in Nums(items) /\ i \in DOMAIN items
  BY <1>1 DEF Nums
<1>3. ~Behind(i - 1, num)
  <2> SUFFICES ASSUME NEW j \in 1 .. (i - 1), items[j].num = num PROVE FALSE
    OBVIOUS
  <2>1. j \in DOMAIN items /\ j # i
    BY <1>1
  <2> QED BY <1>2, <2>1
<1>4. \A n : Behind(i, n) <=> (Behind(i - 1, n) \/ n = num)
  <2>1. \A j \in 1 .. i : j \in 1 .. (i - 1) \/ j = i
    OBVIOUS
  <2>2. i \in 1 .. i /\ \A j \in 1 .. (i - 1) : j \in 1 .. i
    OBVIOUS
  <2> QED BY <2>1, <2>2
<1> DEFINE P(n) == IF Behind(i - 1, n) THEN v.val[n] ELSE o.val[n]
           R(n) == IF Behind(i - 1, n) THEN v.has[n] ELSE o.has[n]
           P2(n) == IF Behind(i, n) THEN v.val[n] ELSE o.val[n]
           R2(n) == IF Behind(i, n) THEN v.has[n] ELSE o.has[n]
<1>5. p = [val |-> [n \in Nums(items) |-> P(n)], has |-> [n \in Nums(items) |-> R(n)]]
  BY DEF Filled
<1>6. q = [val |-> [n \in Nums(items) |-> P2(n)], has |-> [n \in Nums(items) |-> R2(n)]]
  BY DEF Filled
<1>7. P(num) = o.val[num] /\ R(num) = o.has[num] /\ P2(num) = v.val[num] /\ R2(num) = v.has[num]
  BY <1>3, <1>4
<1>8. \A n : n # num => P2(n) = P(n) /\ R2(n) = R(n)
  BY <1>4
<1> HIDE DEF P, P2, R, R2, p, q
<1>9. IsObject(p) /\ DOMAIN p.val = Nums(items) /\ DOMAIN p.has = Nums(items)
  BY <1>5 DEF IsObject
<1>10. p.val[num] = o.val[num] /\ p.has[num] = o.has[num]
  BY <1>2, <1>5, <1>7
<1>11. StartsAt(o, items[i], v)
  BY <1>2 DEF Starts
<1> HIDE DEF num
<1>12. StartsAt(p, items[i], v)
  <2>1. num = items[i].num
    BY DEF num
  <2> QED BY <1>2, <1>9, <1>10, <1>11, <2>1 DEF StartsAt
<1>13. q = With(p, num, v.val[num], v.has[num])
  BY <1>2, <1>5, <1>6, <1>7, <1>8 DEF With
<1> QED BY <1>12, <1>13 DEF p, q, num

-----------------------------------------------------------------------------

\* What the fields of a message that is read are.
LEMMA FieldsRead ==
  ASSUME ReadAsFormat, NEW m \in ReadObjects, NEW i \in DOMAIN Schema[m.struct]
  PROVE  /\ m.struct \in DOMAIN Schema /\ StructReads(m.struct) /\ ObjectReads(m)
         /\ Schema[m.struct][i] \in Range(Schema[m.struct])
         /\ Usable(Schema[m.struct][i]) /\ Sayable(Schema[m.struct][i], m.value)
<1> DEFINE items == Schema[m.struct]
           item == items[i]
<1>1. /\ m.struct \in DOMAIN Schema /\ StructReads(m.struct) /\ ObjectReads(m) /\ OneCoding(m.struct)
      /\ \A it \in Range(items) : FieldHasType(ReadObjects, it, m.value.val[it.num])
  BY DEF ReadAsFormat, WellTyped
<1>2. item \in Range(items)
  BY DEF Range
<1>3. /\ item.num \in Num32 /\ item.shape \in {"single", "vector", "map"}
      /\ item.has \in BOOLEAN /\ (item.has => item.shape = "single") /\ FieldReads(item)
  BY <1>1, ItemIs
<1>4. item.shape = "map" => Coded(item)
  BY <1>1, <1>2 DEF OneCoding, Coded
<1>5. Usable(item)
  <2> HIDE DEF item
  <2> QED BY <1>3, <1>4 DEF Usable
<1>6. /\ m.value.has[item.num] \in BOOLEAN /\ (m.value.has[item.num] => item.has)
      /\ item.has /\ ~m.value.has[item.num] => m.value.val[item.num] = ZeroValue(item.cpp)
  BY <1>1, <1>2 DEF ObjectReads
<1>7. FieldHasType(ReadObjects, item, m.value.val[item.num])
  BY <1>1, <1>2
<1> HIDE DEF item
<1>8. Sayable(item, m.value)
  BY <1>6, <1>7 DEF Sayable
<1> QED BY <1>1, <1>2, <1>5, <1>8 DEF item

\* The parser of a message reads its bytes, and leaves that message in its object.
LEMMA MessageReads ==
  ASSUME NEW depth, Readable(depth), NEW m \in ReadObjects,
         NEW b, NEW f, IsFrame(f), f.kind # "entry", f.struct = m.struct, f.end \in Nat,
         Lies(b, f.cur, Format[m]), f.end = f.cur + Len(Format[m]),
         Starts(f.obj, Schema[m.struct], m.value)
  PROVE  Reads(b, f, m.value)
<1> DEFINE items == Schema[m.struct]
           n == Len(items)
           v == m.value
           o == f.obj
           seqs == FieldsOf(Format, items, v)
           P(i) == Filled(o, items, v, i)
<1>1. ReadAsFormat /\ m.struct \in DOMAIN Schema /\ StructReads(m.struct) /\ ObjectReads(m)
  BY DEF Readable, ReadAsFormat, WellTyped
<1>2. items \in Seq(Range(items)) /\ \A k, j \in DOMAIN items : items[k].num = items[j].num => k = j
  BY <1>1 DEF StructReads
<1>3. n \in Nat /\ DOMAIN items = 1 .. n
  BY <1>2, LenProperties
<1>4. seqs \in Seq(Seq(Byte)) /\ Len(seqs) = n /\ Format[m] = FlattenSeq(seqs)
  BY FormatIs
<1>5. \A i \in 1 .. n : seqs[i] = FlattenSeq(FieldRecords(Format, items[i], v))
  BY DEF FieldsOf
<1>6. v = [val |-> [k \in Nums(items) |-> v.val[k]], has |-> [k \in Nums(items) |-> v.has[k]]]
  BY <1>1 DEF ObjectReads
<1> HIDE DEF seqs
<1>7. PICK ats : Places(ats, b, f.cur, seqs, FlattenSeq(seqs))
  BY <1>4, LiesFlat
<1>8. \A i \in 0 .. n : ats[i] \in Nat /\ ats[i] <= f.end
  BY <1>4, <1>7, PlacesRise
<1>9. /\ ats[0] = f.cur /\ ats[n] = f.end
      /\ \A i \in 1 .. n : Lies(b, ats[i - 1], seqs[i]) /\ ats[i] = ats[i - 1] + Len(seqs[i])
  BY <1>4, <1>7 DEF Places
<1>10. P(0) = o /\ P(n) = v
  <2>1. P(0) = o
    BY FilledNone
  <2>2. P(n) = v
    BY <1>2, <1>6, FilledAll
  <2> QED BY <2>1, <2>2
<1>11. ASSUME NEW i \in 1 .. n
       PROVE  Reaches(b, Moved(f, ats[i - 1], P(i - 1)), ats[i], P(i))
  <2> DEFINE item == items[i]
             p == P(i - 1)
             g == Moved(f, ats[i - 1], p)
             bytes == seqs[i]
  <2>1. item \in Range(items) /\ Usable(item) /\ Sayable(item, v)
    BY <1>1, <1>3, FieldsRead
  <2>2. StartsAt(p, item, v) /\ P(i) = With(p, item.num, v.val[item.num], v.has[item.num])
    BY <1>2, FilledNext
  <2>3. i - 1 \in 0 .. n /\ i \in 0 .. n
    BY <1>3
  <2>4. bytes = FlattenSeq(FieldRecords(Format, item, v)) /\ Lies(b, ats[i - 1], bytes)
        /\ ats[i] = ats[i - 1] + Len(bytes) /\ ats[i] <= f.end
    BY <1>5, <1>8, <1>9, <2>3
  <2>5. /\ BoundItems[m.struct] = Range(items)
        /\ \A other \in Range(items) : other.num = item.num => other = item
    BY <1>1, <2>1, BoundAre
  <2> HIDE DEF p, item, bytes
  <2>6. g.cur = ats[i - 1] /\ g.obj = p /\ g.end = f.end /\ g.kind = f.kind /\ g.struct = f.struct
    BY MovedIs
  <2>7. IsFrame(g) /\ Fields(g) = Range(items)
    BY <2>5, <2>6 DEF IsFrame, Moved, Frame, Fields
  <2> HIDE DEF g
  <2>8. ReadsField(g, item, ats[i])
    BY <2>1, <2>4, <2>5, <2>6, <2>7 DEF ReadsField
  <2>9. Reaches(b, g, g.cur + Len(bytes), With(g.obj, item.num, v.val[item.num], v.has[item.num]))
    BY <2>1, <2>2, <2>4, <2>6, <2>8, FieldReaches
  <2> QED BY <2>2, <2>4, <2>6, <2>9 DEF g, p
<1> DEFINE Good == {i \in 0 .. n : Reaches(b, f, ats[i], P(i))}
<1>12. 0 \in Good
  <2>1. Reaches(b, f, f.cur, f.obj)
    BY Stays
  <2> QED BY <1>3, <1>9, <1>10, <2>1
<1>13. \A i \in 1 .. n : i - 1 \in Good => i \in Good
  <2> SUFFICES ASSUME NEW i \in 1 .. n, Reaches(b, f, ats[i - 1], P(i - 1))
               PROVE  Reaches(b, f, ats[i], P(i))
    BY <1>3
  <2> HIDE DEF P
  <2> QED BY <1>11, GoesOn
<1>14. Good = 0 .. n
  <2> HIDE DEF Good
  <2>1. Good \in SUBSET (0 .. n)
    BY DEF Good
  <2> QED BY <1>3, <1>12, <1>13, <2>1, UpTo
<1>15. Reaches(b, f, ats[n], P(n))
  BY <1>3, <1>14
<1> QED BY <1>9, <1>10, <1>15 DEF Reads

-----------------------------------------------------------------------------

\* A fresh object is one that the message can be decoded into.
LEMMA ZeroStarts ==
  ASSUME NEW depth, Readable(depth), NEW rank, Membered(rank), NEW m \in ReadObjects
  PROVE  /\ Starts(ZeroMessage[m.struct], Schema[m.struct], m.value)
         /\ \A i \in DOMAIN Schema[m.struct] :
              ItemOf(Schema[m.struct], Schema[m.struct][i].num) = Schema[m.struct][i]
<1> DEFINE items == Schema[m.struct]
           v == m.value
           Val(n) == ZeroField(ZeroMessage, ItemOf(items, n))
           z == ZeroMessage[m.struct]
<1>1. /\ ReadAsFormat /\ Itemised(Schema) /\ m.struct \in DOMAIN Schema
      /\ StructReads(m.struct) /\ ObjectReads(m)
  BY DEF Readable, ReadAsFormat, WellTyped
<1>2. items \in Seq(Range(items)) /\ \A k, j \in DOMAIN items : items[k].num = items[j].num => k = j
  BY <1>1 DEF StructReads
<1>3. z = [val |-> [n \in Nums(items) |-> Val(n)], has |-> [n \in Nums(items) |-> FALSE]]
  <2>1. ZeroMessage = [struct \in DOMAIN Schema |-> ZeroOf(ZeroMessage, Schema[struct])]
    BY <1>1, ZeroIs
  <2>2. z = ZeroOf(ZeroMessage, items)
    BY <1>1, <2>1
  <2> QED BY <2>2 DEF ZeroOf
<1>4. ASSUME NEW i \in DOMAIN items
      PROVE  ItemOf(items, items[i].num) = items[i] /\ items[i].num \in Nums(items)
  <2>1. items[i].num \in Nums(items)
    BY DEF Nums
  <2>2. PICK k \in DOMAIN items : items[k].num = items[i].num /\ ItemOf(items, items[i].num) = items[k]
    BY <1>2, <2>1, ItemOfIs
  <2>3. k = i
    BY <1>2, <2>2
  <2> QED BY <2>1, <2>2, <2>3
<1> HIDE DEF Val, z
<1>5. IsObject(z) /\ DOMAIN z.val = Nums(items) /\ DOMAIN z.has = Nums(items)
  BY <1>3 DEF IsObject
<1>6. ASSUME NEW i \in DOMAIN items
      PROVE  StartsAt(z, items[i], v)
  <2> DEFINE item == items[i]
  <2>1. Val(item.num) = IF item.shape = "single" THEN ZeroValue(item.cpp) ELSE <<>>
    BY <1>4 DEF Val, ZeroField, ZeroValue
  <2>2. z.val[item.num] = Val(item.num) /\ z.has[item.num] = FALSE /\ item.num \in Nums(items)
    BY <1>3, <1>4
  <2> HIDE DEF item, v
  <2>3. StartsAt(z, item, v)
    BY <1>5, <2>1, <2>2 DEF StartsAt
  <2> QED BY <2>3 DEF item
<1> HIDE DEF items
<1>7. Starts(z, items, v)
  BY <1>5, <1>6 DEF Starts
<1> QED BY <1>4, <1>7 DEF items, z

\* operator& empties the vectors and the maps of a fresh object or of the message itself.
LEMMA ClearedStarts ==
  ASSUME NEW depth, Readable(depth), NEW rank, Membered(rank), NEW m \in ReadObjects,
         NEW s, s \in {ZeroMessage[m.struct], m.value}
  PROVE  Starts(Cleared(m.struct, s), Schema[m.struct], m.value)
<1> DEFINE items == Schema[m.struct]
           v == m.value
           Val(n) == IF ItemOf(items, n).shape = "single" THEN s.val[n] ELSE <<>>
           c == Cleared(m.struct, s)
<1>1. Starts(ZeroMessage[m.struct], items, v) /\ \A i \in DOMAIN items : ItemOf(items, items[i].num) = items[i]
  BY ZeroStarts
<1>2. ObjectReads(m)
  BY DEF Readable, ReadAsFormat
<1>3. v = [val |-> [n \in Nums(items) |-> v.val[n]], has |-> [n \in Nums(items) |-> v.has[n]]]
  BY <1>2 DEF ObjectReads
<1>4. IsObject(s) /\ DOMAIN s.val = Nums(items) /\ DOMAIN s.has = Nums(items)
  <2>1. IsObject(v) /\ DOMAIN v.val = Nums(items) /\ DOMAIN v.has = Nums(items)
    <3> HIDE DEF v
    <3> QED BY <1>3 DEF IsObject
  <2> QED BY <1>1, <2>1 DEF Starts
<1>5. c = [val |-> [n \in Nums(items) |-> Val(n)], has |-> s.has]
  <2>1. c = [s EXCEPT !.val = [n \in Nums(items) |-> Val(n)]]
    BY <1>4 DEF Cleared
  <2>2. s = [val |-> s.val, has |-> s.has]
    BY <1>4 DEF IsObject
  <2> HIDE DEF c, Val
  <2> QED BY <2>1, <2>2
<1>6. s.has = [n \in DOMAIN s.has |-> s.has[n]]
  BY <1>4 DEF IsObject
<1> HIDE DEF Val, c, v
<1>7. IsObject(c) /\ DOMAIN c.val = Nums(items) /\ DOMAIN c.has = Nums(items)
  BY <1>4, <1>5, <1>6 DEF IsObject
<1>8. ASSUME NEW i \in DOMAIN items
      PROVE  StartsAt(c, items[i], v)
  <2> DEFINE item == items[i]
  <2>1. item.num \in Nums(items)
    BY DEF Nums
  <2>2. c.val[item.num] = Val(item.num) /\ c.has[item.num] = s.has[item.num]
    BY <1>5, <2>1
  <2>3. Val(item.num) = IF item.shape = "single" THEN s.val[item.num] ELSE <<>>
    BY <1>1 DEF Val
  <2>4. StartsAt(ZeroMessage[m.struct], item, v)
    BY <1>1 DEF Starts
  <2>5. /\ item.shape = "single" => s.val[item.num] \in {ZeroValue(item.cpp), v.val[item.num]}
        /\ s.has[item.num] \in {FALSE, v.has[item.num]}
    <3>1. CASE s = v
      BY <3>1
    <3>2. CASE s = ZeroMessage[m.struct]
      <4> HIDE DEF item
      <4>1. StartsAt(s, item, v)
        BY <2>4, <3>2
      <4> QED BY <4>1 DEF StartsAt
    <3> QED BY <3>1, <3>2 DEF v
  <2> HIDE DEF item
  <2>6. StartsAt(c, item, v)
    BY <1>7, <2>1, <2>2, <2>3, <2>5 DEF StartsAt
  <2> QED BY <2>6 DEF item
<1> HIDE DEF items
<1>9. Starts(c, items, v)
  BY <1>7, <1>8 DEF Starts
<1> QED BY <1>9 DEF items, c, v

-----------------------------------------------------------------------------
(* An entry of a map: a message with two fields, the key and the value.      *)

LEMMA TwoAre ==
  ASSUME NEW k, NEW v
  PROVE  DOMAIN <<k, v>> = 1 .. 2 /\ <<k, v>>[1] = k /\ <<k, v>>[2] = v
         /\ <<k, v>> = [i \in 1 .. 2 |-> <<k, v>>[i]]
OBVIOUS

LEMMA TwoWith ==
  ASSUME NEW k, NEW v, NEW x
  PROVE  [<<k, v>> EXCEPT ![1] = x] = <<x, v>> /\ [<<k, v>> EXCEPT ![2] = x] = <<k, x>>
<1> DEFINE t == <<k, v>>
           a == <<x, v>>
           b == <<k, x>>
<1>1. DOMAIN t = 1 .. 2 /\ t[1] = k /\ t[2] = v /\ t = [i \in 1 .. 2 |-> t[i]]
  BY TwoAre
<1>2. DOMAIN a = 1 .. 2 /\ a[1] = x /\ a[2] = v /\ a = [i \in 1 .. 2 |-> a[i]]
  BY TwoAre
<1>3. DOMAIN b = 1 .. 2 /\ b[1] = k /\ b[2] = x /\ b = [i \in 1 .. 2 |-> b[i]]
  BY TwoAre
<1> HIDE DEF t, a, b
<1>4. \A i \in 1 .. 2 : i = 1 \/ i = 2
  OBVIOUS
<1>5. [t EXCEPT ![1] = x] = a
  BY <1>1, <1>2, <1>4
<1>6. [t EXCEPT ![2] = x] = b
  BY <1>1, <1>3, <1>4
<1> QED BY <1>5, <1>6 DEF t, a, b

\* The object of the parser of an entry.
Pair(k, v) == [val |-> <<k, v>>, has |-> <<FALSE, FALSE>>]

IsPair(p, k, v) ==
  /\ IsObject(p) /\ DOMAIN p.val = 1 .. 2 /\ DOMAIN p.has = 1 .. 2
  /\ p.val[1] = k /\ p.val[2] = v /\ p.has[1] = FALSE /\ p.has[2] = FALSE

LEMMA PairIs ==
  ASSUME NEW k, NEW v
  PROVE  IsPair(Pair(k, v), k, v)
<1> DEFINE t == <<k, v>>
           h == <<FALSE, FALSE>>
<1>1. DOMAIN t = 1 .. 2 /\ t[1] = k /\ t[2] = v /\ t = [i \in 1 .. 2 |-> t[i]]
  BY TwoAre
<1>2. DOMAIN h = 1 .. 2 /\ h[1] = FALSE /\ h[2] = FALSE /\ h = [i \in 1 .. 2 |-> h[i]]
  BY TwoAre
<1>3. Pair(k, v) = [val |-> t, has |-> h]
  BY DEF Pair
<1> HIDE DEF t, h
<1>4. Pair(k, v).val = t /\ Pair(k, v).has = h
  BY <1>3
<1>5. IsObject(Pair(k, v))
  BY <1>1, <1>2, <1>3, <1>4 DEF IsObject
<1> QED BY <1>1, <1>2, <1>4, <1>5 DEF IsPair

Unset(h) == h = FALSE

LEMMA PairWith ==
  ASSUME NEW k, NEW v, NEW x, NEW h, Unset(h)
  PROVE  With(Pair(k, v), 1, x, h) = Pair(x, v) /\ With(Pair(k, v), 2, x, h) = Pair(k, x)
<1>1. [<<h, h>> EXCEPT ![1] = h] = <<h, h>> /\ [<<h, h>> EXCEPT ![2] = h] = <<h, h>>
  BY TwoWith
<1>2. [<<k, v>> EXCEPT ![1] = x] = <<x, v>> /\ [<<k, v>> EXCEPT ![2] = x] = <<k, x>>
  BY TwoWith
<1>3. \A a, b : Pair(a, b) = [val |-> <<a, b>>, has |-> <<h, h>>]
  BY DEF Pair, Unset
<1>4. Pair(k, v).val = <<k, v>> /\ Pair(k, v).has = <<h, h>>
  BY <1>3
<1> QED BY <1>1, <1>2, <1>3, <1>4 DEF With

\* A part of an entry, and what the object m of an entry says of it.
Part(part, m, num, cpp, bytes) ==
  /\ Usable(part) /\ Sayable(part, m) /\ part.num = num /\ part.shape = "single" /\ part.cpp = cpp
  /\ FieldRecords(Format, part, m) = <<bytes>>

LEMMA PartsAre ==
  ASSUME NEW item, item.shape = "map", FieldReads(item), NEW k, NEW v,
         HasType(ReadObjects, item.key, k), HasType(ReadObjects, item.cpp, v)
  PROVE  /\ Part(EntryItem(1, item.key, item.high), Pair(k, v), 1, item.key,
                 Tagged(Format, 1, item.key, item.high, k))
         /\ Part(EntryItem(2, item.cpp, item.low), Pair(k, v), 2, item.cpp,
                 Tagged(Format, 2, item.cpp, item.low, v))
         /\ ~IsMessage(item.key)
<1> DEFINE first == EntryItem(1, item.key, item.high)
           second == EntryItem(2, item.cpp, item.low)
           m == Pair(k, v)
<1>1. /\ first.num = 1 /\ first.shape = "single" /\ first.cpp = item.key /\ first.low = item.high
      /\ first.has = FALSE
      /\ second.num = 2 /\ second.shape = "single" /\ second.cpp = item.cpp /\ second.low = item.low
      /\ second.has = FALSE
  BY DEF EntryItem
<1>2. Parts(item) = {first, second}
  BY DEF Parts
<1> HIDE DEF first, second
<1>3. /\ m.val[1] = k /\ m.val[2] = v /\ m.has[1] = FALSE /\ m.has[2] = FALSE
  <2>1. IsPair(m, k, v)
    BY PairIs
  <2> QED BY <2>1 DEF IsPair
<1> HIDE DEF m
<1>4. ReadsWell(first) /\ ReadsWell(second) /\ ~IsMessage(first.cpp)
  BY <1>1, <1>2 DEF FieldReads
<1>5. 1 \in Num32 /\ 2 \in Num32
  BY WidthsAre DEF Num32
<1>6. Usable(first) /\ Usable(second)
  BY <1>1, <1>4, <1>5 DEF Usable, FieldReads
<1>7. Sayable(first, m) /\ Sayable(second, m)
  BY <1>1, <1>3 DEF Sayable, FieldHasType
<1>8. ~IsMessage(item.key)
  BY <1>1, <1>4
<1>9. FieldRecords(Format, first, m) = <<Tagged(Format, 1, item.key, item.high, k)>>
  BY <1>1, <1>3 DEF FieldRecords
<1>10. FieldRecords(Format, second, m) = <<Tagged(Format, 2, item.cpp, item.low, v)>>
  BY <1>1, <1>3 DEF FieldRecords
<1>11. /\ Part(first, m, 1, item.key, Tagged(Format, 1, item.key, item.high, k))
       /\ Part(second, m, 2, item.cpp, Tagged(Format, 2, item.cpp, item.low, v))
  BY <1>1, <1>6, <1>7, <1>9, <1>10 DEF Part
<1> QED BY <1>8, <1>11 DEF first, second, m

LEMMA EntryReads ==
  ASSUME NEW depth, Readable(depth), NEW item, item.shape = "map", FieldReads(item), NEW k, NEW v,
         HasType(ReadObjects, item.key, k), HasType(ReadObjects, item.cpp, v), item.num \in Nat,
         NEW b, NEW f, IsFrame(f), f.kind = "entry", f.item = item, f.end \in Nat,
         Lies(b, f.cur, EntryBytes(Format, item, k, v)),
         f.end = f.cur + Len(EntryBytes(Format, item, k, v)),
         f.obj = Pair(ZeroValue(item.key), ZeroValue(item.cpp))
  PROVE  Reads(b, f, Pair(k, v))
<1> DEFINE first == EntryItem(1, item.key, item.high)
           second == EntryItem(2, item.cpp, item.low)
           m == Pair(k, v)
           x == Tagged(Format, 1, item.key, item.high, k)
           y == Tagged(Format, 2, item.cpp, item.low, v)
           zk == ZeroValue(item.key)
           zv == ZeroValue(item.cpp)
           mid == f.cur + Len(x)
<1>1. InBytes(Format, ReadObjects)
  BY FormatIs
<1>2. x \in Seq(Byte) /\ y \in Seq(Byte)
  BY <1>1, TaggedIs
<1>3. EntryBytes(Format, item, k, v) = x \o y
  BY DEF EntryBytes
<1>4. Fields(f) = {first, second}
  BY DEF Fields, Parts
<1>5. /\ Part(first, m, 1, item.key, x) /\ Part(second, m, 2, item.cpp, y)
      /\ ~IsMessage(item.key)
  BY PartsAre
<1> HIDE DEF first, second, x, y, m, zk, zv
<1>51. /\ Usable(first) /\ Usable(second) /\ first.num = 1 /\ second.num = 2
       /\ Sayable(first, m) /\ Sayable(second, m)
       /\ first.shape = "single" /\ second.shape = "single" /\ ~Nested(first)
       /\ first.cpp = item.key /\ second.cpp = item.cpp
       /\ FieldRecords(Format, first, m) = <<x>> /\ FieldRecords(Format, second, m) = <<y>>
  BY <1>5 DEF Part, Nested
<1>6. Lies(b, f.cur, x) /\ Lies(b, mid, y) /\ Len(x \o y) = Len(x) + Len(y) /\ Len(x) \in Nat /\ Len(y) \in Nat
  BY <1>2, <1>3, LiesSplit
<1>7. FlattenSeq(<<x>>) = x /\ FlattenSeq(<<y>>) = y
  BY <1>2, FlattenOne
<1>8. /\ m.val[1] = k /\ m.val[2] = v /\ m.has[1] = FALSE /\ m.has[2] = FALSE
  <2>1. IsPair(m, k, v)
    BY PairIs DEF m
  <2> QED BY <2>1 DEF IsPair
<1>9. f.cur \in Nat /\ mid \in Nat /\ f.end = mid + Len(y) /\ mid <= f.end
  <2>1. f.cur \in Nat
    BY <1>6 DEF Lies
  <2>2. f.end = f.cur + (Len(x) + Len(y))
    BY <1>3, <1>6
  <2> QED BY <1>6, <2>1, <2>2
<1> HIDE DEF mid
<1>10. f.obj = Pair(zk, zv)
  BY DEF zk, zv
<1>11. Reaches(b, f, mid, Pair(k, zv))
  <2>1. StartsAt(f.obj, first, m)
    <3> DEFINE o == f.obj
    <3> HIDE DEF o
    <3>0. IsPair(o, zk, zv) /\ 1 \in 1 .. 2
      BY <1>10, PairIs DEF o
    <3>1. IsObject(o) /\ 1 \in DOMAIN o.val /\ 1 \in DOMAIN o.has /\ o.val[1] = zk /\ o.has[1] = FALSE
      BY <3>0 DEF IsPair
    <3>2. StartsAt(o, first, m)
      BY <1>51, <3>1 DEF StartsAt, zk
    <3> QED BY <3>2 DEF o
  <2>2. mid = f.cur + Len(x)
    BY DEF mid
  <2>3. ReadsField(f, first, mid)
    BY <1>4, <1>51, <1>9 DEF ReadsField
  <2>4. Reaches(b, f, f.cur + Len(x), With(f.obj, first.num, m.val[first.num], m.has[first.num]))
    BY <1>51, <1>6, <1>7, <2>1, <2>2, <2>3, FieldReaches
  <2>5. With(f.obj, first.num, m.val[first.num], m.has[first.num]) = Pair(k, zv)
    <3> DEFINE h == m.has[1]
    <3>1. With(f.obj, first.num, m.val[first.num], m.has[first.num]) = With(Pair(zk, zv), 1, k, h)
      BY <1>51, <1>8, <1>10
    <3>2. With(Pair(zk, zv), 1, k, h) = Pair(k, zv)
      <4>1. Unset(h)
        BY <1>8 DEF Unset
      <4> HIDE DEF h
      <4> QED BY <4>1, PairWith
    <3> QED BY <3>1, <3>2
  <2> QED BY <2>2, <2>4, <2>5
<1> DEFINE g == Moved(f, mid, Pair(k, zv))
<1>12. g.cur = mid /\ g.obj = Pair(k, zv) /\ g.end = f.end /\ g.kind = f.kind /\ g.item = f.item
  BY MovedIs
<1>13. IsFrame(g) /\ Fields(g) = Fields(f)
  BY <1>12 DEF IsFrame, Moved, Frame, Fields
<1> HIDE DEF g
<1>14. Reaches(b, g, f.end, Pair(k, v))
  <2>1. StartsAt(g.obj, second, m)
    <3> DEFINE o == g.obj
    <3> HIDE DEF o
    <3>0. IsPair(o, k, zv) /\ 2 \in 1 .. 2
      BY <1>12, PairIs DEF o
    <3>1. IsObject(o) /\ 2 \in DOMAIN o.val /\ 2 \in DOMAIN o.has /\ o.val[2] = zv /\ o.has[2] = FALSE
      BY <3>0 DEF IsPair
    <3>2. StartsAt(o, second, m)
      BY <1>51, <3>1 DEF StartsAt, zv
    <3> QED BY <3>2 DEF o
  <2>2. ReadsField(g, second, f.end)
    BY <1>4, <1>51, <1>9, <1>12, <1>13 DEF ReadsField
  <2>3. Reaches(b, g, g.cur + Len(y), With(g.obj, second.num, m.val[second.num], m.has[second.num]))
    BY <1>51, <1>6, <1>7, <1>9, <1>12, <2>1, <2>2, FieldReaches
  <2>4. With(g.obj, second.num, m.val[second.num], m.has[second.num]) = Pair(k, v)
    <3> DEFINE h == m.has[2]
    <3>1. With(g.obj, second.num, m.val[second.num], m.has[second.num]) = With(Pair(k, zv), 2, v, h)
      BY <1>51, <1>8, <1>12
    <3>2. With(Pair(k, zv), 2, v, h) = Pair(k, v)
      <4>1. Unset(h)
        BY <1>8 DEF Unset
      <4> HIDE DEF h
      <4> QED BY <4>1, PairWith
    <3> QED BY <3>1, <3>2
  <2> QED BY <1>9, <1>12, <2>3, <2>4
<1>15. Reaches(b, f, f.end, Pair(k, v))
  BY <1>11, <1>14, GoesOn DEF g
<1> QED BY <1>15 DEF Reads, m

-----------------------------------------------------------------------------
(* A step of the parser reads the record that is before it.                  *)

LEMMA TagSaysAll ==
  ASSUME NEW num \in Num32, NEW type \in 0 .. 7
  PROVE  /\ 8 * num + type \in Num64 /\ FieldNumber(8 * num + type) = num /\ WireType(8 * num + type) = type
         /\ num \in Nat /\ type \in Nat
<1> DEFINE M == Mod32
           L == Mod64
           d == Bytes64 - Bytes32
           tag == 8 * num + type
<1>1. M \in Nat \ {0} /\ L \in Nat \ {0} /\ d \in Nat \ {0} /\ Bytes64 = Bytes32 + d /\ Bytes32 \in Nat
  BY WidthsAre
<1>2. L = M * Pow256[d]
  <2>1. Pow256[Bytes32 + d] = Pow256[Bytes32] * Pow256[d]
    <3> HIDE DEF d
    <3> QED BY <1>1, PowersAre, PowersMultiply
  <2> HIDE DEF d
  <2> QED BY <1>1, <2>1 DEF Mod32, Mod64
<1>3. Pow256[d] \in Nat /\ 256 <= Pow256[d]
  <2> DEFINE e == d - 1
  <2>1. e \in Nat /\ d = e + 1
    BY <1>1
  <2> HIDE DEF d, e
  <2>2. Pow256[e] \in Nat \ {0} /\ Pow256[e + 1] = 256 * Pow256[e] /\ Pow256[e + 1] \in Nat \ {0}
    BY <2>1, PowersAre
  <2> DEFINE p == Pow256[e]
  <2> HIDE DEF p
  <2>3. p \in Nat \ {0} => 256 <= 256 * p
    OBVIOUS
  <2> QED BY <2>1, <2>2, <2>3 DEF p
<1> HIDE DEF M, L, d
<1>4. 256 * M <= L
  <2> DEFINE p == Pow256[d]
             q == p - 256
  <2>1. p \in Nat /\ q \in Nat /\ p = q + 256 /\ L = M * p
    BY <1>2, <1>3
  <2> HIDE DEF p, q
  <2>2. M * (q + 256) = M * q + M * 256 /\ M * q \in Nat
    BY <1>1, <2>1
  <2> QED BY <1>1, <2>1, <2>2
<1>5. num \in Nat /\ num <= M - 1
  BY <1>1 DEF Num32, M
<1>6. tag \in Nat /\ tag < L
  BY <1>1, <1>4, <1>5
<1>7. tag \div 8 = num /\ tag % 8 = type /\ num % M = num
  <2>1. tag = 8 * num + type /\ num \in Nat /\ type \in 0 .. 7
    BY <1>5
  <2>2. tag \div 8 = num /\ tag % 8 = type
    <3> QED BY <2>1
  <2> QED BY <1>1, <1>5, <2>2
<1> QED BY <1>1, <1>5, <1>6, <1>7 DEF Num64, L, M, FieldNumber, WireType

\* What a parser of its own, or a string, is handed.
Inner(item, x) ==
  IF item.shape = "map" THEN EntryBytes(Format, item, x[1], x[2])
  ELSE IF IsMessage(item.cpp) THEN Format[Object(item.cpp, x)] ELSE x

Delimited(item) == Nested(item) \/ item.cpp = "string"

LEMMA DelimitedRecord ==
  ASSUME InBytes(Format, ReadObjects), NEW item, item.num \in Nat, Delimited(item),
         NEW x, Fits(ReadObjects, item, x)
  PROVE  /\ RecordBytes(Format, item, x) = Tag(item.num, WT_LENGTH_DELIMITED) \o LengthDelimited(Inner(item, x))
         /\ Inner(item, x) \in Seq(Byte)
<1>1. CASE item.shape = "map"
  BY <1>1, EntryIs DEF RecordBytes, Fits, Inner
<1>2. CASE item.shape # "map" /\ item.cpp = "string"
  <2> DEFINE cpp == item.cpp
  <2>1. x \in Seq(Byte) /\ ~IsMessage(cpp) /\ FormatType(cpp, item.low) = WT_LENGTH_DELIMITED
    BY <1>2, ValuesAre, TypesDiffer DEF FormatType, Fits
  <2>2. Payload(Format, cpp, item.low, x) = LengthDelimited(x)
    BY <1>2, <2>1 DEF Payload, WT_LENGTH_DELIMITED, WT_32BIT, WT_64BIT
  <2> QED BY <1>2, <2>1, <2>2 DEF RecordBytes, Tagged, Inner
<1>3. CASE item.shape # "map" /\ IsMessage(item.cpp)
  <2> DEFINE cpp == item.cpp
             bytes == Format[Object(cpp, x)]
  <2>1. Object(cpp, x) \in ReadObjects
    BY <1>3, ValuesAre DEF Object, Fits
  <2>2. bytes \in Seq(Byte)
    BY <2>1 DEF InBytes
  <2>3. cpp # "string" /\ FormatType(cpp, item.low) = WT_LENGTH_DELIMITED
    BY <1>3, TypesDiffer DEF FormatType
  <2>4. Payload(Format, cpp, item.low, x) = LengthDelimited(bytes)
    BY <1>3, <2>3 DEF Payload, WT_LENGTH_DELIMITED, WT_32BIT, WT_64BIT
  <2> QED BY <1>3, <2>2, <2>3, <2>4 DEF RecordBytes, Tagged, Inner
<1> QED BY <1>1, <1>2, <1>3 DEF Delimited, Nested

-----------------------------------------------------------------------------

\* The innermost parser is not at its end.
Ready ==
  /\ buffer \in Seq(Byte) /\ Len(buffer) < Mod64
  /\ Top.cur \in Nat /\ Top.end \in Nat /\ Top.cur < Top.end /\ Top.end <= Len(buffer)

\* A tag and its payload stand before the parser, which go as far as to.
TagStands(tag, payload, to) ==
  \E pos \in Nat : /\ ReadsAs(Top.cur, tag, pos) /\ Lies(buffer, pos, payload)
                   /\ pos + Len(payload) = to /\ pos <= Top.end

LEMMA TagRead ==
  ASSUME Ready, NEW num \in Num32, NEW type \in 0 .. 7, NEW payload \in Seq(Byte),
         NEW bytes, bytes = Tag(num, type) \o payload, NEW tag, tag = 8 * num + type,
         Lies(buffer, Top.cur, bytes), Top.cur + Len(bytes) <= Top.end
  PROVE  TagStands(tag, payload, Top.cur + Len(bytes))
<1> DEFINE v == 8 * num + type
           t == Tag(num, type)
           pos == Top.cur + Len(t)
<1>1. v \in Num64 /\ num \in Nat /\ type \in Nat
  BY TagSaysAll
<1>2. t = VarintBytes[v] /\ t \in Seq(Byte)
  BY <1>1, TagIs DEF Tag
<1>3. Lies(buffer, Top.cur, t) /\ Lies(buffer, pos, payload)
      /\ Len(t \o payload) = Len(t) + Len(payload) /\ Len(t) \in Nat /\ Len(payload) \in Nat
  <2>1. Lies(buffer, Top.cur, t \o payload)
    OBVIOUS
  <2> DEFINE c == Top.cur
             b == buffer
  <2>2. t \in Seq(Byte) /\ payload \in Seq(Byte) /\ Lies(b, c, t \o payload)
    BY <1>2, <2>1
  <2> HIDE DEF t, c, b
  <2>3. Lies(b, c, t) /\ Lies(b, c + Len(t), payload)
        /\ Len(t \o payload) = Len(t) + Len(payload) /\ Len(t) \in Nat /\ Len(payload) \in Nat
    BY <2>2, LiesSplit
  <2> QED BY <2>3 DEF b, c
<1>4. pos \in Nat /\ pos + Len(payload) = Top.cur + Len(bytes) /\ pos <= Top.end
  <2> DEFINE c == Top.cur
             e == Top.end
  <2>1. c \in Nat /\ e \in Nat /\ Len(bytes) = Len(t) + Len(payload) /\ c + Len(bytes) <= e
    BY <1>3 DEF Ready, t
  <2> HIDE DEF c, e, t
  <2>2. c + Len(t) \in Nat /\ (c + Len(t)) + Len(payload) = c + Len(bytes) /\ c + Len(t) <= e
    BY <1>3, <2>1
  <2> QED BY <2>2 DEF c, e
<1> HIDE DEF v
<1>5. ReadsAs(Top.cur, v, Top.cur + Len(VarintBytes[v]))
  <2>1. Lies(buffer, Top.cur, VarintBytes[v]) /\ Top.cur + Len(VarintBytes[v]) <= Top.end
    BY <1>2, <1>3, <1>4
  <2> QED BY <1>1, <2>1, VarintRead DEF Ready
<1>6. ReadsAs(Top.cur, v, pos)
  BY <1>2, <1>5
<1> QED BY <1>3, <1>4, <1>6 DEF TagStands, v

\* What a parser with a tag before it may do.
OneOf(tag, pos) ==
  \/ /\ WireType(tag) = WT_VARINT
     /\ \E u \in Numbers(pos) : CallNothing(FieldNumber(tag), After(pos)) \/ CallNumber(FieldNumber(tag), u, Bytes64, After(pos))
  \/ /\ WireType(tag) = WT_64BIT
     /\ \/ CallNothing(FieldNumber(tag), pos + Bytes64)
        \/ CallNumber(FieldNumber(tag), Fixed32or64(pos, Bytes64), Bytes64, pos + Bytes64)
  \/ /\ WireType(tag) = WT_32BIT
     /\ \/ CallNothing(FieldNumber(tag), pos + Bytes32)
        \/ CallNumber(FieldNumber(tag), Fixed32or64(pos, Bytes32), Bytes32, pos + Bytes32)
  \/ /\ WireType(tag) = WT_LENGTH_DELIMITED
     /\ \E size \in Numbers(pos) :
          \/ ~HasBytes(After(pos), size)
          \/ CallNothing(FieldNumber(tag), After(pos) + size)
          \/ CallBytes(FieldNumber(tag), After(pos), After(pos) + size)
  \/ Unreadable(tag, pos)

LEMMA OneField ==
  ASSUME Ready, Parse, NEW tag, NEW pos, ReadsAs(Top.cur, tag, pos)
  PROVE  OneOf(tag, pos)
<1>1. Complete(Top.cur) /\ After(Top.cur) = pos /\ Tags = {tag}
  BY DEF ReadsAs, Tags
<1>2. CASE VarintField
  BY <1>1, <1>2 DEF VarintField, OneOf
<1>3. CASE Fixed64Field
  BY <1>1, <1>3 DEF Fixed64Field, FixedField, OneOf
<1>4. CASE Fixed32Field
  BY <1>1, <1>4 DEF Fixed32Field, FixedField, OneOf
<1>5. CASE DelimitedField
  BY <1>1, <1>5 DEF DelimitedField, OneOf
<1>6. CASE Reject
  BY <1>1, <1>6 DEF Reject, OneOf
<1>7. CASE ParseEnd
  BY <1>7 DEF ParseEnd, Ready
<1> QED BY <1>2, <1>3, <1>4, <1>5, <1>6, <1>7 DEF Parse

LEMMA NumberCalled ==
  ASSUME NEW item, NEW num, Converter(num) = {item}, OwnsTargets, BoundTo(item) # "bin",
         NEW u, NEW width, NEW x, Yields(item, u, width, x), NEW pos,
         CallNothing(num, pos) \/ CallNumber(num, u, width, pos)
  PROVE  Resume(pos, Stored(Top.obj, item, x))
<1>1. CallNumber(num, u, width, pos)
  BY DEF CallNothing
<1>2. PICK r \in Received(item, u, width) : Resume(pos, Stored(Top.obj, item, Converted(item, r)))
  BY <1>1 DEF CallNumber
<1>3. Converted(item, r) = x
  BY DEF Yields
<1> QED BY <1>2, <1>3

-----------------------------------------------------------------------------

LEMMA FixedRead ==
  ASSUME Ready, NEW pos, NEW width \in {Bytes32, Bytes64}, NEW v,
         width = Bytes32 => v \in Num32, width = Bytes64 => v \in Num64,
         Lies(buffer, pos, Fixed(v, width)), pos + Len(Fixed(v, width)) <= Top.end
  PROVE  /\ Fixed32or64(pos, width) = v /\ HasBytes(pos, width)
         /\ Len(Fixed(v, width)) = width
<1>1. width \in Nat /\ v \in Nat
  BY WidthsAre DEF Num32, Num64
<1>2. Fixed(v, width) \in Seq(Byte) /\ Len(Fixed(v, width)) = width
  BY <1>1, FixedIs
<1>3. LittleEndian(Fixed(v, width)) = v
  <2>1. v < Pow256[width]
    BY WidthsAre DEF Num32, Num64, Mod32, Mod64
  <2> QED BY <1>1, <2>1, FixedComesBack
<1> DEFINE bytes == Fixed(v, width)
           b == buffer
<1>4. Lies(b, pos, bytes) /\ b \in Seq(Byte) /\ Len(bytes) = width
  BY <1>2 DEF Ready
<1> HIDE DEF b, bytes
<1>5. SubSeq(b, pos + 1, pos + width) = bytes
  BY <1>4, LiesSub
<1>6. Fixed32or64(pos, width) = v
  BY <1>3, <1>5 DEF Fixed32or64, b, bytes
<1>7. pos \in Nat
  BY <1>4 DEF Lies
<1>8. HasBytes(pos, width)
  <2> DEFINE e == Top.end
  <2>1. pos + width <= e /\ e \in Nat
    BY <1>2 DEF Ready
  <2> HIDE DEF e
  <2>2. e - pos >= width
    BY <1>1, <1>7, <2>1
  <2> QED BY <2>2 DEF HasBytes, e
<1> QED BY <1>2, <1>6, <1>8

\* The record of a number is read: the number is stored as it is in the message.
LEMMA NumberStep ==
  ASSUME Ready, Parse, InBytes(Format, ReadObjects), OwnsTargets,
         NEW item, Converter(item.num) = {item}, item.num \in Num32,
         ReadsWell(item), item.shape # "map", IsNumber(item.cpp),
         NEW x, HasType(ReadObjects, item.cpp, x),
         NEW bytes, bytes = RecordBytes(Format, item, x),
         Lies(buffer, Top.cur, bytes), Top.cur + Len(bytes) <= Top.end
  PROVE  Resume(Top.cur + Len(bytes), Stored(Top.obj, item, x)) /\ ~StoresNothing(item)
<1> DEFINE num == item.num
           type == FormatType(item.cpp, item.low)
           payload == Payload(Format, item.cpp, item.low, x)
           tag == 8 * num + type
           to == Top.cur + Len(bytes)
<1>1. type \in 0 .. 7
  BY TypeIs
<1>2. payload \in Seq(Byte)
  BY PayloadIs
<1>3. bytes = Tag(num, type) \o payload
  BY DEF RecordBytes, Tagged
<1>4. /\ BoundTo(item) # "bin" /\ ~StoresNothing(item)
  BY NumbersBound
<1>5. \/ /\ type = WT_VARINT
         /\ \E u \in Num64 : payload = VarintBytes[u] /\ Yields(item, u, Bytes64, x)
      \/ /\ type = WT_32BIT /\ payload = Fixed(x, Bytes32) /\ x \in Num32 /\ Yields(item, x, Bytes32, x)
      \/ /\ type = WT_64BIT /\ payload = Fixed(x, Bytes64) /\ x \in Num64 /\ Yields(item, x, Bytes64, x)
  BY NumberComesBack
<1> HIDE DEF type, payload
<1> HIDE DEF tag
<1>6. /\ FieldNumber(tag) = num /\ WireType(tag) = type
  BY <1>1, TagSaysAll DEF tag
<1>13. TagStands(tag, payload, to)
  <2>1. tag = 8 * num + type
    BY DEF tag
  <2> HIDE DEF num
  <2>2. num \in Num32
    BY DEF num
  <2> QED BY <1>1, <1>2, <1>3, <2>1, <2>2, TagRead
<1>7. PICK pos \in Nat : /\ ReadsAs(Top.cur, tag, pos) /\ Lies(buffer, pos, payload)
                         /\ pos + Len(payload) = to /\ pos <= Top.end
  BY <1>13 DEF TagStands
<1> HIDE DEF to
<1>8. OneOf(tag, pos)
  BY <1>7, OneField
<1>9. to <= Top.end
  BY DEF to
<1>10. CASE type = WT_VARINT
  <2>1. PICK u \in Num64 : payload = VarintBytes[u] /\ Yields(item, u, Bytes64, x)
    BY <1>5, <1>10 DEF WT_VARINT, WT_32BIT, WT_64BIT
  <2>2. ReadsAs(pos, u, to)
    <3>1. Lies(buffer, pos, VarintBytes[u]) /\ pos + Len(VarintBytes[u]) <= Top.end
      BY <1>7, <1>9, <2>1
    <3>2. ReadsAs(pos, u, pos + Len(VarintBytes[u]))
      BY <3>1, VarintRead DEF Ready
    <3> QED BY <1>7, <2>1, <3>2
  <2>3. Complete(pos) /\ After(pos) = to /\ Numbers(pos) = {u}
    BY <2>2 DEF ReadsAs
  <2>4. ~Unreadable(tag, pos)
    BY <1>6, <1>10, <2>3 DEF Unreadable, WT_VARINT, WT_64BIT, WT_32BIT, WT_LENGTH_DELIMITED
  <2>5. CallNothing(num, to) \/ CallNumber(num, u, Bytes64, to)
    BY <1>6, <1>8, <1>10, <2>3, <2>4 DEF OneOf, WT_VARINT, WT_64BIT, WT_32BIT, WT_LENGTH_DELIMITED
  <2>6. Resume(to, Stored(Top.obj, item, x))
    BY <1>4, <2>1, <2>5, NumberCalled
  <2> QED BY <1>4, <2>6 DEF to
<1>11. CASE type = WT_32BIT
  <2>1. payload = Fixed(x, Bytes32) /\ x \in Num32 /\ Yields(item, x, Bytes32, x) /\ Bytes32 # Bytes64
    BY <1>5, <1>11, WidthsAre DEF WT_VARINT, WT_32BIT, WT_64BIT
  <2>2. Fixed32or64(pos, Bytes32) = x /\ HasBytes(pos, Bytes32) /\ Len(payload) = Bytes32
    BY <1>7, <1>9, <2>1, FixedRead
  <2>4. ~Unreadable(tag, pos)
    BY <1>6, <1>11, <2>2 DEF Unreadable, WT_VARINT, WT_64BIT, WT_32BIT, WT_LENGTH_DELIMITED
  <2>5. CallNothing(num, to) \/ CallNumber(num, x, Bytes32, to)
    BY <1>6, <1>7, <1>8, <1>11, <2>2, <2>4 DEF OneOf, WT_VARINT, WT_64BIT, WT_32BIT, WT_LENGTH_DELIMITED
  <2>6. Resume(to, Stored(Top.obj, item, x))
    BY <1>4, <2>1, <2>5, NumberCalled
  <2> QED BY <1>4, <2>6 DEF to
<1>12. CASE type = WT_64BIT
  <2>1. payload = Fixed(x, Bytes64) /\ x \in Num64 /\ Yields(item, x, Bytes64, x) /\ Bytes32 # Bytes64
    BY <1>5, <1>12, WidthsAre DEF WT_VARINT, WT_32BIT, WT_64BIT
  <2>2. Fixed32or64(pos, Bytes64) = x /\ HasBytes(pos, Bytes64) /\ Len(payload) = Bytes64
    BY <1>7, <1>9, <2>1, FixedRead
  <2>4. ~Unreadable(tag, pos)
    BY <1>6, <1>12, <2>2 DEF Unreadable, WT_VARINT, WT_64BIT, WT_32BIT, WT_LENGTH_DELIMITED
  <2>5. CallNothing(num, to) \/ CallNumber(num, x, Bytes64, to)
    BY <1>6, <1>7, <1>8, <1>12, <2>2, <2>4 DEF OneOf, WT_VARINT, WT_64BIT, WT_32BIT, WT_LENGTH_DELIMITED
  <2>6. Resume(to, Stored(Top.obj, item, x))
    BY <1>4, <2>1, <2>5, NumberCalled
  <2> QED BY <1>4, <2>6 DEF to
<1> QED BY <1>5, <1>10, <1>11, <1>12

-----------------------------------------------------------------------------

LEMMA BytesCalled ==
  ASSUME NEW item, NEW num, Converter(num) = {item}, OwnsTargets, BoundTo(item) = "bin",
         NEW pos, NEW end, CallNothing(num, end) \/ CallBytes(num, pos, end)
  PROVE  Handed(item, pos, end)
<1>1. CallBytes(num, pos, end)
  BY DEF CallNothing
<1> QED BY <1>1 DEF CallBytes

LEMMA DelimitedBound ==
  ASSUME NEW item, Delimited(item)
  PROVE  BoundTo(item) = "bin"
<1>1. item.shape = "map" \/ item.cpp = "string" \/ IsMessage(item.cpp)
  BY DEF Delimited, Nested
<1>2. ~(item.shape = "single" /\ item.cpp = "float")
  BY <1>1, TypesDiffer DEF IsMessage, Scalars
<1>3. ~(item.shape = "vector" /\ item.high # 0 /\ item.cpp \in {"bool"} \cup Ints32 \cup Ints64)
  BY <1>1, TypesDiffer
<1> QED BY <1>1, <1>2, <1>3 DEF BoundTo

\* The bytes of the record stand behind pos, as far as to.
HandedOn(item, x, to) ==
  \E pos \in Nat : /\ Lies(buffer, pos, Inner(item, x)) /\ pos + Len(Inner(item, x)) = to
                   /\ Handed(item, pos, to)

\* The record of a string, a message or an entry is read: its bytes are handed on.
LEMMA DelimitedStep ==
  ASSUME Ready, Parse, InBytes(Format, ReadObjects), OwnsTargets,
         NEW item, Converter(item.num) = {item}, item.num \in Num32,
         Delimited(item), NEW x, Fits(ReadObjects, item, x),
         NEW bytes, bytes = RecordBytes(Format, item, x),
         Lies(buffer, Top.cur, bytes), Top.cur + Len(bytes) <= Top.end
  PROVE  HandedOn(item, x, Top.cur + Len(bytes))
<1> DEFINE num == item.num
           type == WT_LENGTH_DELIMITED
           inner == Inner(item, x)
           size == Len(inner)
           payload == LengthDelimited(inner)
           tag == 8 * num + type
           to == Top.cur + Len(bytes)
<1>1. type \in 0 .. 7 /\ num \in Nat
  BY WidthsAre DEF WT_LENGTH_DELIMITED, Num32
<1>2. inner \in Seq(Byte) /\ bytes = Tag(num, type) \o payload
  BY <1>1, DelimitedRecord
<1> HIDE DEF inner
<1>3. payload \in Seq(Byte) /\ VarintBytes[size] \in Seq(Byte)
  BY <1>2, DelimitedIs
<1>4. FieldNumber(tag) = num /\ WireType(tag) = WT_LENGTH_DELIMITED
  BY <1>1, TagSaysAll
<1> HIDE DEF tag
<1>5. TagStands(tag, payload, to)
  <2>1. tag = 8 * num + type
    BY DEF tag
  <2> HIDE DEF num, payload
  <2>2. num \in Num32
    BY DEF num
  <2> QED BY <1>1, <1>2, <1>3, <2>1, <2>2, TagRead
<1>6. PICK pos \in Nat : /\ ReadsAs(Top.cur, tag, pos) /\ Lies(buffer, pos, payload)
                         /\ pos + Len(payload) = to /\ pos <= Top.end
  BY <1>5 DEF TagStands
<1>7. to <= Top.end
  OBVIOUS
<1> HIDE DEF to
<1> DEFINE len == VarintBytes[size]
           data == pos + Len(len)
<1>8. Lies(buffer, pos, len) /\ Lies(buffer, data, inner) /\ Len(payload) = Len(len) + size
      /\ Len(len) \in Nat /\ size \in Nat
  <2> DEFINE b == buffer
  <2>1. Lies(b, pos, len \o inner) /\ payload = len \o inner
    BY <1>6 DEF LengthDelimited
  <2>2. len \in Seq(Byte)
    BY <1>3
  <2> HIDE DEF b, len, payload
  <2>3. Lies(b, pos, len) /\ Lies(b, pos + Len(len), inner) /\ Len(len \o inner) = Len(len) + Len(inner)
        /\ Len(len) \in Nat /\ Len(inner) \in Nat
    BY <1>2, <2>1, <2>2, LiesSplit
  <2> QED BY <2>1, <2>3 DEF b
<1> HIDE DEF payload, size
<1>9. data \in Nat /\ data + size = to /\ data <= Top.end /\ size < Mod64
  <2> DEFINE e == Top.end
             l == Len(len)
             lb == Len(buffer)
  <2>1. pos \in Nat /\ l \in Nat /\ size \in Nat /\ e \in Nat /\ to = pos + (l + size) /\ to <= e
        /\ e <= lb /\ lb < Mod64 /\ lb \in Nat
    BY <1>6, <1>7, <1>8 DEF Ready
  <2>2. Mod64 \in Nat
    BY WidthsAre
  <2> DEFINE M == Mod64
  <2> HIDE DEF e, l, lb, M
  <2>3. pos + l \in Nat /\ (pos + l) + size = to /\ pos + l <= e /\ size < M
    BY <2>1, <2>2 DEF M
  <2> QED BY <2>3 DEF e, l, M
<1>10. size \in Num64
  BY <1>8, <1>9, WidthsAre DEF Num64
<1>11. ReadsAs(pos, size, data)
  <2>1. Lies(buffer, pos, VarintBytes[size]) /\ pos + Len(VarintBytes[size]) <= Top.end
    BY <1>8, <1>9
  <2> QED BY <1>10, <2>1, VarintRead DEF Ready
<1>12. Complete(pos) /\ After(pos) = data /\ Numbers(pos) = {size}
  BY <1>11 DEF ReadsAs
<1> HIDE DEF data, len
<1>13. HasBytes(data, size)
  <2> DEFINE e == Top.end
  <2>1. e \in Nat /\ data \in Nat /\ size \in Nat /\ data + size <= e
    BY <1>7, <1>8, <1>9 DEF Ready
  <2> HIDE DEF e
  <2>2. e - data >= size
    BY <2>1
  <2> QED BY <2>2 DEF HasBytes, e
<1>14. OneOf(tag, pos)
  BY <1>6, OneField
<1>15. ~Unreadable(tag, pos)
  BY <1>4, <1>12 DEF Unreadable, WT_VARINT, WT_64BIT, WT_32BIT, WT_LENGTH_DELIMITED
<1>16. CallNothing(num, to) \/ CallBytes(num, data, to)
  <2>1. CallNothing(num, data + size) \/ CallBytes(num, data, data + size)
    BY <1>4, <1>12, <1>13, <1>14, <1>15 DEF OneOf, WT_VARINT, WT_64BIT, WT_32BIT, WT_LENGTH_DELIMITED
  <2>2. data + size = to
    BY <1>9
  <2> QED BY <2>1, <2>2
<1>17. BoundTo(item) = "bin"
  BY DelimitedBound
<1>18. Handed(item, data, to)
  BY <1>16, <1>17, BytesCalled
<1>19. HandedOn(item, x, to)
  BY <1>8, <1>9, <1>18 DEF HandedOn, inner, size
<1> QED BY <1>19 DEF to

-----------------------------------------------------------------------------

Put(o, k, v, h) == [o EXCEPT !.val[k] = v, !.has[k] = h]

LEMMA PutIs ==
  ASSUME NEW o, o = [val |-> o.val, has |-> o.has], NEW k, NEW v, NEW h
  PROVE  Put(o, k, v, h) = With(o, k, v, h)
<1> DEFINE V == o.val
           H == o.has
           q == [o EXCEPT !.val[k] = v]
<1>1. o = [val |-> V, has |-> H]
  OBVIOUS
<1>2. q = [val |-> [V EXCEPT ![k] = v], has |-> H]
  BY <1>1
<1>3. [q EXCEPT !.has[k] = h] = [val |-> [V EXCEPT ![k] = v], has |-> [H EXCEPT ![k] = h]]
  <2> HIDE DEF q, V, H
  <2> QED BY <1>2
<1> QED BY <1>3 DEF Put, With

LEMMA StoredIs ==
  ASSUME NEW o, o = [val |-> o.val, has |-> o.has], NEW item, item.shape \in {"single", "vector"},
         ~StoresNothing(item), NEW x
  PROVE  Stored(o, item, x) = Applied(o, item, x)
<1> DEFINE num == item.num
           new == IF item.shape = "vector" THEN Append(o.val[num], x) ELSE x
           flag == o.has[num] \/ item.has
<1>1. Stored(o, item, x) = Put(o, num, new, flag)
  BY DEF Stored, Put
<1>2. Grown(item, o.val[num], x) = new
  BY DEF Grown
<1>3. Applied(o, item, x) = With(o, num, Grown(item, o.val[num], x), flag)
  BY AppliedIs
<1> HIDE DEF new, flag
<1>4. Put(o, num, new, flag) = With(o, num, new, flag)
  BY PutIs
<1> QED BY <1>1, <1>2, <1>3, <1>4

\* The record before the innermost parser takes it further, or starts another parser.
StartsParser(item, x, to, p) ==
  /\ Nested(item) /\ item \in Fields(Top) /\ Takes(Top.obj, item, x) /\ p = Applied(Top.obj, item, x)
  /\ Top.kind = "entry" => to = Top.end
  /\ HandedOn(item, x, to)

LEMMA RecordStep ==
  ASSUME Ready, Parse, InBytes(Format, ReadObjects), Bound = Fields(Top), OwnsTargets,
         NEW to, NEW p, ReadsRecord(buffer, Top, to, p)
  PROVE  Resume(to, p) \/ \E item, x : StartsParser(item, x, to, p)
<1> DEFINE b == buffer
           f == Top
<1>a. PICK item \in Fields(f) : \E x :
        /\ \A other \in Fields(f) : other.num = item.num => other = item
        /\ Takes(f.obj, item, x) /\ p = Applied(f.obj, item, x)
        /\ Lies(b, f.cur, RecordBytes(Format, item, x))
        /\ to = f.cur + Len(RecordBytes(Format, item, x)) /\ f.cur < to /\ to <= f.end
        /\ f.kind = "entry" /\ Nested(item) => to = f.end
  BY DEF ReadsRecord
<1>1. PICK x :
        /\ \A other \in Fields(f) : other.num = item.num => other = item
        /\ Takes(f.obj, item, x) /\ p = Applied(f.obj, item, x)
        /\ Lies(b, f.cur, RecordBytes(Format, item, x))
        /\ to = f.cur + Len(RecordBytes(Format, item, x)) /\ f.cur < to /\ to <= f.end
        /\ f.kind = "entry" /\ Nested(item) => to = f.end
  BY <1>a
<1>2. Converter(item.num) = {item}
  BY <1>1 DEF Converter
<1>3. /\ f.obj = [val |-> f.obj.val, has |-> f.obj.has]
      /\ item.shape \in {"single", "vector", "map"} /\ item.num \in Num32
      /\ FieldReads(item) /\ Fits(ReadObjects, item, x)
  BY <1>1 DEF Takes
<1> DEFINE bytes == RecordBytes(Format, item, x)
<1>4. Lies(b, f.cur, bytes) /\ to = f.cur + Len(bytes) /\ f.cur + Len(bytes) <= f.end
  BY <1>1
<1> HIDE DEF b, f, bytes
<1>5. CASE Delimited(item)
  <2>1. HandedOn(item, x, to)
    BY <1>2, <1>3, <1>4, <1>5, DelimitedStep DEF b, f, bytes
  <2>2. CASE Nested(item)
    <3>1. StartsParser(item, x, to, p)
      BY <1>1, <2>1, <2>2 DEF StartsParser, f
    <3> QED BY <3>1
  <2>3. CASE ~Nested(item)
    <3>1. item.cpp = "string" /\ item.shape # "map" /\ ~IsMessage(item.cpp)
      BY <1>5, <2>3 DEF Delimited, Nested
    <3>2. Inner(item, x) = x
      BY <3>1 DEF Inner
    <3>3. PICK pos \in Nat : Lies(b, pos, x) /\ pos + Len(x) = to /\ Handed(item, pos, to)
      BY <2>1, <3>2 DEF HandedOn, b
    <3>4. SubSeq(b, pos + 1, to) = x
      <4>1. b \in Seq(Byte)
        BY DEF Ready, b
      <4>2. SubSeq(b, pos + 1, pos + Len(x)) = x
        BY <3>3, <4>1, LiesSub
      <4> QED BY <3>3, <4>2
    <3>5. Resume(to, Stored(Top.obj, item, x))
      BY <3>1, <3>3, <3>4 DEF Handed, b
    <3>6. ~StoresNothing(item)
      BY <3>1 DEF StoresNothing
    <3>7. Stored(f.obj, item, x) = Applied(f.obj, item, x)
      BY <1>3, <3>1, <3>6, StoredIs
    <3> QED BY <1>1, <3>5, <3>7 DEF f
  <2> QED BY <2>2, <2>3
<1>6. CASE ~Delimited(item)
  <2>1. item.shape # "map" /\ IsNumber(item.cpp) /\ ReadsWell(item)
    BY <1>3, <1>6 DEF Delimited, Nested, IsNumber, FieldReads
  <2>2. HasType(ReadObjects, item.cpp, x)
    BY <1>3, <2>1 DEF Fits
  <2>3. Resume(f.cur + Len(bytes), Stored(Top.obj, item, x)) /\ ~StoresNothing(item)
    BY <1>2, <1>3, <1>4, <2>1, <2>2, NumberStep DEF b, f, bytes
  <2>4. Stored(f.obj, item, x) = Applied(f.obj, item, x)
    BY <1>3, <2>1, <2>3, StoredIs
  <2>5. Resume(to, Stored(Top.obj, item, x))
    BY <1>4, <2>3
  <2> QED BY <1>1, <2>4, <2>5 DEF f
<1> QED BY <1>5, <1>6

-----------------------------------------------------------------------------
(* A parser that another one starts, and what it leaves when it returns.     *)

\* The parser of the item that starts at pos, in the object o of the one around it.
Started(item, o, pos, end) ==
  IF item.shape = "map"
    THEN Frame("entry", item, "none", Pair(ZeroValue(item.key), ZeroValue(item.cpp)), pos, end)
  ELSE IF item.shape = "single"
    THEN Frame("message", item, item.cpp, Cleared(item.cpp, o.val[item.num]), pos, end)
  ELSE Frame("element", item, item.cpp, ZeroMessage[item.cpp], pos, end)

\* Its object in the end.
Made(item, x) == IF item.shape = "map" THEN Pair(x[1], x[2]) ELSE x

LEMMA StartedIs ==
  ASSUME NEW item, NEW o, NEW pos, NEW end
  PROVE  LET f == Started(item, o, pos, end)
         IN  /\ IsFrame(f) /\ f.item = item /\ f.cur = pos /\ f.end = end
             /\ f.kind = "entry" <=> item.shape = "map"
             /\ f.kind \in {"message", "element", "entry"}
BY DEF Started, IsFrame, Frame

LEMMA HandedStarts ==
  ASSUME NEW item, Nested(item), NEW pos, NEW end, Handed(item, pos, end)
  PROVE  /\ frames' = Entered(frames, Started(item, Top.obj, pos, end))
         /\ UNCHANGED <<phase, fault, buffer, target, last, calls>>
         /\ statics' = IF item.shape = "map" THEN Rebound(item) ELSE statics
<1> DEFINE f == Started(item, Top.obj, pos, end)
<1>1. f.end = end
  BY StartedIs
<1>2. Entered(frames, f) = Append([frames EXCEPT ![Depth].cur = end], f)
  BY <1>1 DEF Entered, Depth
<1>3. CASE item.shape = "map"
  <2>1. EnterEntry(item, pos, end)
    BY <1>3 DEF Handed
  <2>2. /\ Enter("entry", item, "none", Pair(ZeroValue(item.key), ZeroValue(item.cpp)), pos, end)
        /\ statics' = Rebound(item)
    BY <2>1 DEF EnterEntry, Pair
  <2>3. f = Frame("entry", item, "none", Pair(ZeroValue(item.key), ZeroValue(item.cpp)), pos, end)
    BY <1>3 DEF Started
  <2> HIDE DEF f
  <2> QED BY <1>2, <1>3, <2>2, <2>3 DEF Enter, f
<1>4. CASE item.shape # "map"
  <2>1. EnterMessage(item, pos, end)
    BY <1>4 DEF Handed, Nested
  <2>2. CASE item.shape = "single"
    <3>1. f = Frame("message", item, item.cpp, Cleared(item.cpp, Top.obj.val[item.num]), pos, end)
      BY <1>4, <2>2 DEF Started
    <3>2. Enter("message", item, item.cpp, Cleared(item.cpp, Top.obj.val[item.num]), pos, end)
          /\ statics' = statics
      BY <2>1, <2>2 DEF EnterMessage
    <3> HIDE DEF f
    <3> QED BY <1>2, <1>4, <3>1, <3>2 DEF Enter, f
  <2>3. CASE item.shape # "single"
    <3>1. f = Frame("element", item, item.cpp, ZeroMessage[item.cpp], pos, end)
      BY <1>4, <2>3 DEF Started
    <3>2. Enter("element", item, item.cpp, ZeroMessage[item.cpp], pos, end) /\ statics' = statics
      BY <2>1, <2>3 DEF EnterMessage
    <3> HIDE DEF f
    <3> QED BY <1>2, <1>4, <3>1, <3>2 DEF Enter, f
  <2> QED BY <2>2, <2>3
<1> QED BY <1>3, <1>4

\* The parser that is started reads all it is handed.
LEMMA StartedReads ==
  ASSUME NEW depth, Readable(depth), NEW rank, Membered(rank), NEW o, NEW item, NEW x, Nested(item),
         Takes(o, item, x), NEW b, NEW pos \in Nat, NEW end, Lies(b, pos, Inner(item, x)),
         pos + Len(Inner(item, x)) = end
  PROVE  Reads(b, Started(item, o, pos, end), Made(item, x))
<1> DEFINE f == Started(item, o, pos, end)
           inner == Inner(item, x)
<1>1. IsFrame(f) /\ f.item = item /\ f.cur = pos /\ f.end = end /\ (f.kind = "entry" <=> item.shape = "map")
  BY StartedIs
<1>2. end \in Nat
  <2>1. inner \in Seq(Byte)
    BY DEF Lies
  <2>2. Len(inner) \in Nat
    BY <2>1, LenProperties
  <2> HIDE DEF inner
  <2> QED BY <2>2 DEF inner
<1>3. /\ item.shape \in {"single", "vector", "map"} /\ item.num \in Num32
      /\ FieldReads(item) /\ Fits(ReadObjects, item, x)
      /\ item.shape = "single" /\ IsMessage(item.cpp) => o.val[item.num] \in {ZeroMessage[item.cpp], x}
  BY DEF Takes
<1>4. item.num \in Nat
  BY <1>3, WidthsAre DEF Num32
<1>5. CASE item.shape = "map"
  <2>1. HasType(ReadObjects, item.key, x[1]) /\ HasType(ReadObjects, item.cpp, x[2])
    BY <1>3, <1>5 DEF Fits
  <2>2. inner = EntryBytes(Format, item, x[1], x[2])
    BY <1>5 DEF Inner
  <2>3. f.obj = Pair(ZeroValue(item.key), ZeroValue(item.cpp)) /\ Made(item, x) = Pair(x[1], x[2])
    BY <1>5 DEF Started, Frame, Made
  <2> HIDE DEF f
  <2>4. Reads(b, f, Pair(x[1], x[2]))
    BY <1>1, <1>2, <1>3, <1>4, <1>5, <2>1, <2>2, <2>3, EntryReads
  <2> QED BY <2>3, <2>4 DEF f
<1>6. CASE item.shape # "map"
  <2> DEFINE m == Object(item.cpp, x)
  <2>1. IsMessage(item.cpp)
    BY <1>6 DEF Nested
  <2>2. m \in ReadObjects /\ m.struct = item.cpp /\ m.value = x
    <3>1. HasType(ReadObjects, item.cpp, x)
      BY <1>3, <1>6 DEF Fits
    <3> QED BY <2>1, <3>1, ValuesAre DEF Object
  <2>3. inner = Format[m]
    BY <1>6, <2>1 DEF Inner
  <2> HIDE DEF m
  <2>4. f.struct = item.cpp /\ f.kind # "entry" /\ Starts(f.obj, Schema[m.struct], m.value)
    <3>1. CASE item.shape = "single"
      <4>1. f.struct = item.cpp /\ f.kind # "entry" /\ f.obj = Cleared(item.cpp, o.val[item.num])
        BY <1>6, <3>1 DEF Started, Frame
      <4>2. o.val[item.num] \in {ZeroMessage[m.struct], m.value}
        BY <1>3, <2>1, <2>2, <3>1
      <4> DEFINE s == o.val[item.num]
      <4> HIDE DEF s
      <4>3. Starts(Cleared(m.struct, s), Schema[m.struct], m.value)
        BY <2>2, <4>2, ClearedStarts DEF s
      <4> QED BY <2>2, <4>1, <4>3 DEF s
    <3>2. CASE item.shape # "single"
      <4>1. f.struct = item.cpp /\ f.kind # "entry" /\ f.obj = ZeroMessage[item.cpp]
        BY <1>6, <3>2 DEF Started, Frame
      <4>2. Starts(ZeroMessage[m.struct], Schema[m.struct], m.value)
        BY <2>2, ZeroStarts
      <4> QED BY <2>2, <4>1, <4>2
    <3> QED BY <3>1, <3>2
  <2> HIDE DEF f
  <2>5. Reads(b, f, m.value)
    BY <1>1, <1>2, <2>2, <2>3, <2>4, MessageReads
  <2> QED BY <1>6, <2>2, <2>5 DEF f, Made
<1> QED BY <1>5, <1>6

-----------------------------------------------------------------------------

FlagSet(o, k, h) == [o EXCEPT !.has[k] = h]
ValueSet(o, k, v) == [o EXCEPT !.val[k] = v]

LEMMA BothSet ==
  ASSUME NEW o, o = [val |-> o.val, has |-> o.has], NEW k, NEW v, NEW h
  PROVE  ValueSet(FlagSet(o, k, h), k, v) = With(o, k, v, h)
<1> DEFINE V == o.val
           H == o.has
           q == FlagSet(o, k, h)
<1>1. o = [val |-> V, has |-> H]
  OBVIOUS
<1>2. q = [val |-> V, has |-> [H EXCEPT ![k] = h]]
  <2> HIDE DEF V, H
  <2> QED BY <1>1 DEF FlagSet
<1>3. ValueSet(q, k, v) = [val |-> [V EXCEPT ![k] = v], has |-> [H EXCEPT ![k] = h]]
  <2> HIDE DEF q, V, H
  <2> QED BY <1>2 DEF ValueSet
<1> QED BY <1>3 DEF With

\* What the object around the parser g is when that returns true.
Back(o, g) == Returned(o, g, TRUE)

\* What the parser left, as if the record had been applied at once.
LEMMA ReturnedIs ==
  ASSUME NEW o, NEW item, NEW x, Takes(o, item, x), NEW p, NEW pos, NEW end,
         NEW g, g.kind = Started(item, p, pos, end).kind, g.item = item, g.obj = Made(item, x)
  PROVE  Back(o, g) = Applied(o, item, x)
<1> DEFINE num == item.num
           flag == o.has[num] \/ item.has
           done == FlagSet(o, num, flag)
<1>1. /\ o = [val |-> o.val, has |-> o.has]
      /\ item.shape \in {"single", "vector", "map"} /\ item.has \in BOOLEAN
  BY DEF Takes
<1>2. done.val = o.val
  BY <1>1 DEF FlagSet
<1>3. [o EXCEPT !.has[num] = @ \/ (item.has /\ TRUE)] = done
  <2>1. (item.has /\ TRUE) = item.has
    BY <1>1
  <2> QED BY <2>1 DEF FlagSet
<1>4. ASSUME NEW v PROVE ValueSet(done, num, v) = With(o, num, v, flag)
  <2> HIDE DEF flag, num
  <2> QED BY <1>1, BothSet
<1>5. Applied(o, item, x) = With(o, num, Grown(item, o.val[num], x), flag)
  BY AppliedIs
<1> HIDE DEF flag, num
<1>6. CASE item.shape = "map"
  <2>1. g.kind = "entry" /\ g.obj = Pair(x[1], x[2])
    BY <1>6 DEF Started, Frame, Made
  <2>2. g.obj.val[1] = x[1] /\ g.obj.val[2] = x[2]
    BY <2>1 DEF Pair
  <2>3. Returned(o, g, TRUE) = [done EXCEPT !.val[num] = Inserted(@, x[1], x[2])]
    BY <1>3, <2>1, <2>2 DEF Returned, num
  <2>4. Grown(item, o.val[num], x) = Inserted(o.val[num], x[1], x[2])
    BY <1>6 DEF Grown
  <2> HIDE DEF done
  <2>5. Returned(o, g, TRUE) = ValueSet(done, num, Grown(item, o.val[num], x))
    BY <1>2, <2>3, <2>4 DEF ValueSet
  <2> QED BY <1>4, <1>5, <2>5 DEF Back
<1>7. CASE item.shape = "single"
  <2>1. g.kind = "message" /\ g.obj = x
    BY <1>7 DEF Started, Frame, Made
  <2>2. Returned(o, g, TRUE) = [done EXCEPT !.val[num] = x]
    BY <1>3, <2>1 DEF Returned, num
  <2>3. Grown(item, o.val[num], x) = x
    BY <1>7 DEF Grown
  <2> HIDE DEF done
  <2>4. Returned(o, g, TRUE) = ValueSet(done, num, Grown(item, o.val[num], x))
    BY <2>2, <2>3 DEF ValueSet
  <2> QED BY <1>4, <1>5, <2>4 DEF Back
<1>8. CASE item.shape = "vector"
  <2>1. g.kind = "element" /\ g.obj = x
    BY <1>8 DEF Started, Frame, Made
  <2>2. Returned(o, g, TRUE) = [done EXCEPT !.val[num] = Append(@, x)]
    BY <1>3, <2>1 DEF Returned, num
  <2>3. Grown(item, o.val[num], x) = Append(o.val[num], x)
    BY <1>8 DEF Grown
  <2> HIDE DEF done
  <2>4. Returned(o, g, TRUE) = ValueSet(done, num, Grown(item, o.val[num], x))
    BY <1>2, <2>2, <2>3 DEF ValueSet
  <2> QED BY <1>4, <1>5, <2>4 DEF Back
<1> QED BY <1>1, <1>6, <1>7, <1>8

-----------------------------------------------------------------------------
(* A call on the bytes of a message.                                         *)

\* Each parser, with what those inside it will leave, reads what is before it and has
\* its final object then.  An entry with a record before it owns the bindings.
Stands(b, fs, bound, finals, i) ==
  LET f == fs[i]
      g == fs[i + 1]
  IN  /\ i = Len(fs) => Reads(b, f, finals[i])
      /\ i < Len(fs) =>
           Reads(b, Moved(f, f.cur, Back(f.obj, Moved(g, g.end, finals[i + 1]))), finals[i])
      /\ f.kind = "entry" =>
           Coded(f.item) /\ (f.cur = f.end \/ (i = Len(fs) /\ bound[TypePair(f.item)].owner = i))

OnTrack(b, fs, bound, finals) ==
  \A i \in 1 .. Len(fs) : Stands(b, fs, bound, finals, i)

\* The same parsers with other objects, further on.
LEMMA MovedSame ==
  ASSUME NEW f, NEW g, g.kind = f.kind, g.item = f.item, g.struct = f.struct, g.end = f.end,
         NEW to, NEW p
  PROVE  Moved(g, to, p) = Moved(f, to, p)
BY DEF Moved

LEMMA StandsLast ==
  ASSUME NEW fs, NEW b, NEW bound, NEW finals, NEW n \in Nat, n = Len(fs),
         NEW f, f = fs[n], Reads(b, f, finals[n]),
         f.kind = "entry" => Coded(f.item) /\ (f.cur = f.end \/ bound[TypePair(f.item)].owner = n)
  PROVE  Stands(b, fs, bound, finals, n)
<1>1. ~(n < Len(fs))
  OBVIOUS
<1> QED BY <1>1 DEF Stands

LEMMA StandsBelow ==
  ASSUME NEW fs, NEW b, NEW bound, NEW finals, NEW i \in Nat, i < Len(fs), Len(fs) \in Nat,
         NEW f, f = fs[i], NEW g, g = fs[i + 1],
         NEW e, e = finals[i + 1],
         Reads(b, Moved(f, f.cur, Back(f.obj, Moved(g, g.end, e))), finals[i]),
         f.kind = "entry" => Coded(f.item) /\ f.cur = f.end
  PROVE  Stands(b, fs, bound, finals, i)
<1>1. i # Len(fs)
  OBVIOUS
<1> QED BY <1>1 DEF Stands

LEMMA ResumedTracks ==
  ASSUME NEW fs, IsStack(fs), Len(fs) > 0, NEW b, NEW bound, NEW finals, OnTrack(b, fs, bound, finals),
         NEW top, top = fs[Len(fs)], top.cur # top.end, NEW to, NEW p,
         Reads(b, Moved(top, to, p), finals[Len(fs)])
  PROVE  OnTrack(b, Resumed(fs, to, p), bound, finals)
<1> DEFINE n == Len(fs)
           gs == Resumed(fs, to, p)
<1>1. n \in Nat /\ n > 0 /\ \A i \in 1 .. n : IsFrame(fs[i])
  BY StackShape
<1>2. /\ Len(gs) = n
      /\ \A i \in 1 .. n : gs[i] = IF i < n THEN fs[i] ELSE
           Frame(fs[i].kind, fs[i].item, fs[i].struct, p, to, fs[i].end)
  BY StackResumed
<1> HIDE DEF n, gs
<1>3. gs[n] = Moved(top, to, p) /\ n \in 1 .. n
  BY <1>1, <1>2 DEF Moved, n
<1>4. \A i \in 1 .. n : i < n => gs[i] = fs[i]
  BY <1>2
<1>5. ASSUME NEW i \in 1 .. n PROVE Stands(b, gs, bound, finals, i)
  <2>1. Stands(b, fs, bound, finals, i)
    BY DEF OnTrack, n
  <2>2. CASE i = n
    <3>1. gs[i].kind = top.kind /\ gs[i].item = top.item
      BY <1>3, <2>2, MovedIs
    <3>2. top.kind = "entry" => Coded(top.item) /\ bound[TypePair(top.item)].owner = n
      BY <2>1, <2>2 DEF Stands, n
    <3>3. Reads(b, gs[n], finals[n])
      BY <1>3 DEF n
    <3>4. n = Len(gs) /\ n \in Nat
      BY <1>1, <1>2
    <3>5. gs[n].kind = "entry" => Coded(gs[n].item) /\ bound[TypePair(gs[n].item)].owner = n
      BY <2>2, <3>1, <3>2
    <3> QED BY <2>2, <3>3, <3>4, <3>5, StandsLast
  <2>3. CASE i < n
    <3> DEFINE f == fs[i]
               g == fs[i + 1]
               g2 == gs[i + 1]
    <3>1. gs[i] = f /\ i # n
      BY <1>1, <1>4, <2>3
    <3>2. g2.kind = g.kind /\ g2.item = g.item /\ g2.struct = g.struct /\ g2.end = g.end
      <4>1. CASE i + 1 < n
        <5>1. i + 1 \in 1 .. n
          BY <1>1, <4>1
        <5> QED BY <1>4, <4>1, <5>1
      <4>2. CASE i + 1 = n
        BY <1>3, <4>2, MovedIs DEF n
      <4> QED BY <1>1, <2>3, <4>1, <4>2
    <3>3. Moved(g2, g2.end, finals[i + 1]) = Moved(g, g.end, finals[i + 1])
      BY <3>2, MovedSame
    <3>4. /\ Reads(b, Moved(f, f.cur, Back(f.obj, Moved(g, g.end, finals[i + 1]))), finals[i])
          /\ f.kind = "entry" => Coded(f.item) /\ f.cur = f.end
      BY <2>1, <2>3, <3>1 DEF Stands, n
    <3> HIDE DEF f, g, g2
    <3>5. Reads(b, Moved(f, f.cur, Back(f.obj, Moved(g2, g2.end, finals[i + 1]))), finals[i])
      BY <3>3, <3>4
    <3>6. i \in Nat /\ i < Len(gs) /\ Len(gs) \in Nat
      BY <1>1, <1>2, <2>3
    <3> QED BY <3>1, <3>4, <3>5, <3>6, StandsBelow DEF g2
  <2> QED BY <1>1, <2>2, <2>3
<1> QED BY <1>2, <1>5 DEF OnTrack, gs, n

-----------------------------------------------------------------------------
\* A parser below another one, when the others change their places and objects.
LEMMA StillStands ==
  ASSUME NEW fs, NEW gs, NEW b, NEW bound, NEW bound2, NEW finals, NEW more, NEW i \in Nat,
         i < Len(fs), i < Len(gs), Len(gs) \in Nat, Len(fs) \in Nat,
         Stands(b, fs, bound, finals, i), gs[i] = fs[i],
         NEW g, g = fs[i + 1], NEW h, h = gs[i + 1],
         h.kind = g.kind, h.item = g.item, h.struct = g.struct, h.end = g.end,
         more[i] = finals[i], more[i + 1] = finals[i + 1]
  PROVE  Stands(b, gs, bound2, more, i)
<1> DEFINE f == fs[i]
           e == finals[i + 1]
<1>1. Moved(h, h.end, e) = Moved(g, g.end, e)
  BY MovedSame
<1>2. i # Len(fs)
  OBVIOUS
<1>3. /\ Reads(b, Moved(f, f.cur, Back(f.obj, Moved(g, g.end, e))), finals[i])
      /\ f.kind = "entry" => Coded(f.item) /\ f.cur = f.end
  BY <1>2 DEF Stands
<1> HIDE DEF f, e
<1>4. Reads(b, Moved(f, f.cur, Back(f.obj, Moved(h, h.end, e))), more[i])
  BY <1>1, <1>3
<1>5. f = gs[i] /\ e = more[i + 1]
  BY DEF f, e
<1> QED BY <1>3, <1>4, <1>5, StandsBelow

\* A record of the item that says x, before the parser top, has the parser f started.
StartsFrom(top, item, x, pos, to, p, f, made) ==
  /\ Takes(top.obj, item, x) /\ p = Applied(top.obj, item, x)
  /\ f = Started(item, top.obj, pos, to) /\ made = Made(item, x)
  /\ top.kind = "entry" => to = top.end

\* The n-th parser owns the bindings, if the item is a map.
Owned(bound, item, n) == item.shape = "map" => bound[TypePair(item)].owner = n

\* The parsers are on their way to an object of the lowest.
SomeTrackOf(b, fs, bound, v) == \E finals : finals[1] = v /\ OnTrack(b, fs, bound, finals)

\* A parser is started on the record before the innermost one.
LEMMA EnteredTracks ==
  ASSUME NEW fs, IsStack(fs), NEW n, n = Len(fs), n > 0, NEW b, NEW bound, NEW finals,
         OnTrack(b, fs, bound, finals), NEW top, top = fs[n],
         NEW item, NEW x, NEW p, NEW pos, NEW to, NEW f, NEW made,
         StartsFrom(top, item, x, pos, to, p, f, made), Reads(b, f, made),
         Reads(b, Moved(top, to, p), finals[n]),
         NEW bound2, NEW k, k = n + 1, Owned(bound2, item, k)
  PROVE  SomeTrackOf(b, Entered(fs, f), bound2, finals[1])
<1>0. /\ Takes(top.obj, item, x) /\ p = Applied(top.obj, item, x)
      /\ f = Started(item, top.obj, pos, to) /\ made = Made(item, x)
      /\ top.kind = "entry" => to = top.end
      /\ item.shape = "map" => bound2[TypePair(item)].owner = n + 1
  BY DEF StartsFrom, Owned
<1> DEFINE gs == Entered(fs, f)
           more == [i \in 1 .. (n + 1) |-> IF i <= n THEN finals[i] ELSE made]
<1>1. n \in Nat /\ \A i \in 1 .. n : IsFrame(fs[i])
  BY StackShape
<1>2. IsFrame(f) /\ f.item = item /\ f.end = to /\ (f.kind = "entry" <=> item.shape = "map")
  BY <1>0, StartedIs
<1>3. /\ Len(gs) = n + 1
      /\ \A i \in 1 .. n : gs[i] =
           IF i < n THEN fs[i]
           ELSE Frame(fs[i].kind, fs[i].item, fs[i].struct, fs[i].obj, f.end, fs[i].end)
      /\ gs[n + 1] = f
  BY <1>2, StackEntered
<1>4. (\A i \in 1 .. n : more[i] = finals[i]) /\ more[n + 1] = made
  BY <1>1
<1> HIDE DEF gs, more
<1>5. \A i \in 1 .. n : i < n => gs[i] = fs[i]
  BY <1>3
<1>6. gs[n] = Moved(top, to, top.obj)
  BY <1>1, <1>2, <1>3 DEF Moved
<1>7. n + 1 = Len(gs) /\ n < Len(gs) /\ Len(gs) \in Nat /\ n + 1 \in Nat
  BY <1>1, <1>3
<1>8. ASSUME NEW i \in 1 .. n, i < n PROVE Stands(b, gs, bound2, more, i)
  <2> DEFINE g == fs[i + 1]
             h == gs[i + 1]
  <2>1. Stands(b, fs, bound, finals, i)
    BY DEF OnTrack
  <2>2. i \in Nat /\ i + 1 \in 1 .. n /\ i < Len(gs)
    BY <1>1, <1>7, <1>8
  <2>3. h.kind = g.kind /\ h.item = g.item /\ h.struct = g.struct /\ h.end = g.end
    <3>1. CASE i + 1 < n
      BY <1>5, <2>2, <3>1
    <3>2. CASE i + 1 = n
      BY <1>6, <3>2, MovedIs
    <3> QED BY <2>2, <3>1, <3>2
  <2>4. more[i] = finals[i] /\ more[i + 1] = finals[i + 1] /\ gs[i] = fs[i]
    BY <1>4, <1>5, <1>8, <2>2
  <2> HIDE DEF g, h
  <2>5. g = fs[i + 1] /\ h = gs[i + 1]
    BY DEF g, h
  <2> QED BY <1>1, <1>7, <1>8, <2>1, <2>2, <2>3, <2>4, <2>5, StillStands
<1>9. Stands(b, gs, bound2, more, n)
  <2> DEFINE t == gs[n]
             g == Moved(f, f.end, made)
  <2>1. t.cur = to /\ t.obj = top.obj /\ t.end = top.end /\ t.kind = top.kind /\ t.item = top.item
        /\ Moved(t, to, p) = Moved(top, to, p)
    BY <1>6, MovedIs
  <2>2. Back(top.obj, g) = p
    <3> DEFINE o == top.obj
    <3>1. g.kind = Started(item, o, pos, to).kind /\ g.item = item /\ g.obj = Made(item, x)
      BY <1>0, <1>2, MovedIs
    <3>2. Takes(o, item, x) /\ p = Applied(o, item, x)
      BY <1>0
    <3> HIDE DEF g, o
    <3>3. Back(o, g) = Applied(o, item, x)
      BY <3>1, <3>2, ReturnedIs
    <3> QED BY <3>2, <3>3 DEF o
  <2>3. Stands(b, fs, bound, finals, n)
    BY <1>1 DEF OnTrack
  <2>4. top.kind = "entry" => Coded(top.item)
    BY <2>3 DEF Stands
  <2> HIDE DEF t
  <2>5. Reads(b, Moved(t, t.cur, Back(t.obj, g)), more[n])
    <3>1. more[n] = finals[n]
      BY <1>1, <1>4
    <3>2. Moved(t, t.cur, Back(t.obj, g)) = Moved(top, to, p)
      BY <2>1, <2>2
    <3> QED BY <3>1, <3>2
  <2>6. t.kind = "entry" => Coded(t.item) /\ t.cur = t.end
    BY <1>0, <2>1, <2>4
  <2>7. t = gs[n] /\ f = gs[n + 1] /\ made = more[n + 1]
    BY <1>3, <1>4 DEF t
  <2> QED BY <1>1, <1>7, <2>5, <2>6, <2>7, StandsBelow
<1>10. Stands(b, gs, bound2, more, n + 1)
  <2> DEFINE newest == n + 1
  <2>1. f.kind = "entry" => Coded(f.item) /\ bound2[TypePair(f.item)].owner = newest
    BY <1>0, <1>2 DEF Takes
  <2>2. f = gs[newest] /\ Reads(b, f, more[newest])
    BY <1>3, <1>4
  <2>3. newest \in Nat /\ newest = Len(gs)
    BY <1>7
  <2> HIDE DEF newest
  <2>4. Stands(b, gs, bound2, more, newest)
    BY <2>1, <2>2, <2>3, StandsLast
  <2> QED BY <2>4 DEF newest
<1>11. OnTrack(b, gs, bound2, more)
  <2>1. ASSUME NEW i \in 1 .. (n + 1) PROVE i = n + 1 \/ i = n \/ (i \in 1 .. n /\ i < n)
    BY <1>1
  <2> QED BY <1>3, <1>8, <1>9, <1>10, <2>1 DEF OnTrack
<1>12. more[1] = finals[1]
  BY <1>1, <1>4
<1> QED BY <1>11, <1>12 DEF gs, SomeTrackOf

\* The innermost parser is at its end and returns.
LEMMA ReturnedTracks ==
  ASSUME NEW fs, IsStack(fs), NEW n, n = Len(fs), n > 1, NEW b, NEW bound, NEW finals,
         OnTrack(b, fs, bound, finals), NEW top, top = fs[n], top.cur = top.end, top.obj = finals[n],
         NEW p, p = Back(fs[n - 1].obj, top)
  PROVE  OnTrack(b, ReturnedTo(fs, p), bound, finals)
<1> DEFINE gs == ReturnedTo(fs, p)
           k == n - 1
           f == fs[n - 1]
<1>1. n \in Nat /\ (\A i \in 1 .. n : IsFrame(fs[i])) /\ n \in 1 .. n
  BY StackShape
<1>2. /\ Len(gs) = n - 1
      /\ \A i \in 1 .. (n - 1) : gs[i] = IF i < n - 1 THEN fs[i] ELSE
           Frame(fs[i].kind, fs[i].item, fs[i].struct, p, fs[i].cur, fs[i].end)
  BY StackReturned
<1>3. k \in Nat /\ k \in 1 .. n /\ k \in 1 .. k /\ k < n /\ k + 1 = n /\ n - 1 = k
  BY <1>1
<1> HIDE DEF k, gs
<1>4. \A i \in 1 .. k : i < k => gs[i] = fs[i]
  BY <1>2, <1>3
<1>5a. f = fs[k] /\ k = Len(gs)
  BY <1>2 DEF k
<1> HIDE DEF f
<1>5b. gs[k] = Frame(f.kind, f.item, f.struct, p, f.cur, f.end)
  <2>1. gs[k] = Frame(fs[k].kind, fs[k].item, fs[k].struct, p, fs[k].cur, fs[k].end)
    <3>1. k \in 1 .. (n - 1) /\ ~(k < n - 1)
      BY <1>3
    <3> HIDE DEF gs
    <3> QED BY <1>2, <3>1
  <2> QED BY <1>5a, <2>1
<1>5. gs[k] = Moved(f, f.cur, p) /\ k = Len(gs) /\ f = fs[k]
  BY <1>5a, <1>5b DEF Moved
<1>51. /\ gs[k].kind = f.kind /\ gs[k].item = f.item /\ gs[k].struct = f.struct
       /\ gs[k].cur = f.cur /\ gs[k].end = f.end
  BY <1>5b DEF Frame
<1>6. ASSUME NEW i \in 1 .. k, i < k PROVE Stands(b, gs, bound, finals, i)
  <2> DEFINE g == fs[i + 1]
             h == gs[i + 1]
  <2>1. i \in Nat /\ i \in 1 .. n /\ i + 1 \in 1 .. k /\ i < n
    BY <1>3, <1>6
  <2>2. Stands(b, fs, bound, finals, i)
    BY <2>1 DEF OnTrack
  <2>3. h.kind = g.kind /\ h.item = g.item /\ h.struct = g.struct /\ h.end = g.end
    <3>1. CASE i + 1 < k
      BY <1>4, <2>1, <3>1
    <3>2. CASE i + 1 = k
      BY <1>5, <1>51, <3>2
    <3> QED BY <1>3, <2>1, <3>1, <3>2
  <2> HIDE DEF g, h
  <2>4. g = fs[i + 1] /\ h = gs[i + 1] /\ gs[i] = fs[i]
    BY <1>4, <1>6 DEF g, h
  <2>5. i < Len(fs) /\ i < Len(gs) /\ Len(gs) \in Nat /\ Len(fs) \in Nat
    BY <1>3, <1>5, <1>6, <2>1
  <2> HIDE DEF gs
  <2> QED BY <2>1, <2>2, <2>3, <2>4, <2>5, StillStands
<1>7. Stands(b, gs, bound, finals, k)
  <2> DEFINE t == gs[k]
  <2>1. Stands(b, fs, bound, finals, k)
    BY <1>3 DEF OnTrack
  <2>2. /\ Reads(b, Moved(f, f.cur, Back(f.obj, Moved(top, top.end, finals[n]))), finals[k])
        /\ f.kind = "entry" => Coded(f.item) /\ f.cur = f.end
    <3>1. k < Len(fs) /\ k # Len(fs) /\ fs[k] = f /\ fs[k + 1] = top /\ finals[k + 1] = finals[n]
      BY <1>3, <1>5
    <3> QED BY <2>1, <3>1 DEF Stands
  <2>3. Moved(top, top.end, finals[n]) = top
    <3>1. IsFrame(top)
      BY <1>1
    <3> QED BY <3>1, MovedIs
  <2>4. p = Back(f.obj, top)
    BY DEF f
  <2>5. Reads(b, t, finals[k])
    BY <1>5, <2>2, <2>3, <2>4
  <2>6. t.kind = f.kind /\ t.item = f.item /\ t.cur = f.cur /\ t.end = f.end
    BY <1>51
  <2> HIDE DEF t
  <2>7. t = gs[k]
    BY DEF t
  <2> QED BY <1>3, <1>5, <2>2, <2>5, <2>6, <2>7, StandsLast
<1>8. ASSUME NEW i \in 1 .. k PROVE i = k \/ i < k
  BY <1>3
<1> QED BY <1>5, <1>6, <1>7, <1>8 DEF OnTrack, gs

-----------------------------------------------------------------------------
(* The bindings of convertMap are those of a map of the schema.              *)

BoundAsDeclared(bound) ==
  \A pair \in DOMAIN bound : \E struct \in DOMAIN Schema : \E item \in Range(Schema[struct]) :
    item.shape = "map" /\ TypePair(item) = pair /\ bound[pair].items = Parts(item)

\* The maps of the schema.
DeclaredMap(item) ==
  item.shape = "map" /\ \E struct \in DOMAIN Schema : item \in Range(Schema[struct])

LEMMA ReboundDeclared ==
  ASSUME BoundAsDeclared(statics), NEW item, DeclaredMap(item)
  PROVE  BoundAsDeclared(Rebound(item))
<1> DEFINE bound == Rebound(item)
<1>1. EntryItems(item) = IF TypePair(item) \in DOMAIN statics THEN statics[TypePair(item)].items ELSE Parts(item)
  BY DEF EntryItems, Parts
<1> SUFFICES ASSUME NEW pair \in DOMAIN bound
             PROVE  \E struct \in DOMAIN Schema : \E map \in Range(Schema[struct]) :
                      map.shape = "map" /\ TypePair(map) = pair /\ bound[pair].items = Parts(map)
  BY DEF BoundAsDeclared
<1>2. pair \in DOMAIN statics \cup {TypePair(item)}
  BY DEF Rebound
<1>3. pair # TypePair(item) => bound[pair] = statics[pair]
  BY <1>2 DEF Rebound
<1>4. pair = TypePair(item) => bound[pair].items = EntryItems(item)
  BY <1>2 DEF Rebound
<1> HIDE DEF bound
<1>5. CASE pair \in DOMAIN statics
  <2>1. bound[pair].items = statics[pair].items
    BY <1>1, <1>3, <1>4, <1>5
  <2> QED BY <1>5, <2>1 DEF BoundAsDeclared
<1>6. CASE pair \notin DOMAIN statics
  <2>1. pair = TypePair(item) /\ bound[pair].items = Parts(item)
    BY <1>1, <1>2, <1>4, <1>6
  <2> QED BY <2>1 DEF DeclaredMap
<1> QED BY <1>5, <1>6

\* A parser finds its converters for the fields it reads.
LEMMA BoundIsFields ==
  ASSUME IInv, Depth \in Nat \ {0}, BoundAsDeclared(statics), Top.kind = "entry" => Coded(Top.item)
  PROVE  Bound = Fields(Top)
<1>1. CASE Top.kind = "entry"
  <2> DEFINE pair == TypePair(Top.item)
  <2>1. pair \in DOMAIN statics
    BY <1>1 DEF IInv, Messages, Top
  <2>2. \E struct \in DOMAIN Schema : \E item \in Range(Schema[struct]) :
          item.shape = "map" /\ TypePair(item) = pair /\ statics[pair].items = Parts(item)
    BY <2>1 DEF BoundAsDeclared
  <2>3. statics[pair].items = Parts(Top.item)
    BY <1>1, <2>2 DEF Coded
  <2> QED BY <1>1, <2>3 DEF Bound, Fields
<1>2. CASE Top.kind # "entry"
  BY <1>2 DEF Bound, Fields
<1> QED BY <1>1, <1>2

\* A step of Parse keeps that.
LEMMA ParseDeclared ==
  ASSUME IInv, Parse, BoundAsDeclared(statics)
  PROVE  BoundAsDeclared(statics')
<1>1. Depth \in Nat \ {0} /\ (Fails \/ Resumes \/ Enters \/ Leaves)
  BY ParseDoes DEF IInv, Calls
<1>2. CASE Fails
  BY <1>2 DEF Fails, Undefined
<1>3. CASE Resumes
  BY <1>3 DEF Resumes, Resume
<1>4. CASE Leaves
  BY <1>4 DEF Leaves, ReturnToCaller, ReturnToParser
<1>5. CASE Enters
  <2>1. PICK item \in Bound, pos \in (Top.cur + 2) .. Top.end, end \in Nat :
          \/ item.shape = "map" /\ EnterEntry(item, pos, end)
          \/ item.shape # "map" /\ IsMessage(item.cpp) /\ EnterMessage(item, pos, end)
    BY <1>5 DEF Enters
  <2>2. CASE item.shape = "map" /\ EnterEntry(item, pos, end)
    <3>1. Top.kind # "entry" /\ \E n \in DOMAIN Schema[Top.struct] : item = Schema[Top.struct][n]
      BY <1>1, <2>1, <2>2, EntersFrom
    <3>2. Top.struct \in DOMAIN Schema
      BY <1>1, <3>1 DEF IInv, Messages, Top
    <3>3. DeclaredMap(item)
      BY <2>2, <3>1, <3>2 DEF DeclaredMap, Range
    <3>4. statics' = Rebound(item)
      BY <2>2 DEF EnterEntry
    <3> QED BY <3>3, <3>4, ReboundDeclared
  <2>3. CASE EnterMessage(item, pos, end)
    BY <2>3 DEF EnterMessage
  <2> QED BY <2>1, <2>2, <2>3
<1> QED BY <1>1, <1>2, <1>3, <1>4, <1>5

LEMMA NextDeclared ==
  ASSUME IInv, BoundAsDeclared(statics), [Next]_vars
  PROVE  BoundAsDeclared(statics')
<1>1. CASE Parse
  BY <1>1, ParseDeclared
<1>2. CASE Begin
  BY <1>2 DEF Begin, BeginWith
<1>3. CASE UNCHANGED vars
  BY <1>3 DEF vars
<1> QED BY <1>1, <1>2, <1>3 DEF Next

LEMMA InitDeclared == Init => BoundAsDeclared(statics)
<1>1. DOMAIN <<>> = {}
  OBVIOUS
<1> QED BY <1>1 DEF Init, BoundAsDeclared

\* A parser that has read its bytes returns true.
LEMMA EndStep ==
  ASSUME Parse, Top.cur \in Nat, Top.cur = Top.end
  PROVE  ReturnToCaller(TRUE) \/ ReturnToParser(TRUE)
<1>1. ~(Top.cur < Top.end)
  OBVIOUS
<1>2. ~Reading
  BY <1>1 DEF Reading
<1> QED BY <1>2 DEF Parse, VarintField, FixedField, Fixed64Field, Fixed32Field, DelimitedField,
                    Reject, ParseEnd

-----------------------------------------------------------------------------
(* A call on the bytes of a message is on its way to it, until it returns.   *)

GivenNow(m) == Given(target.struct, buffer, target.value, m)

SomeTrack(m) == SomeTrackOf(buffer, frames, statics, m.value)

LEMMA ReturnStep ==
  ASSUME IsStack(frames), Depth \in Nat, ReturnToParser(TRUE)
  PROVE  /\ Depth > 1 /\ frames' = ReturnedTo(frames, Back(frames[Depth - 1].obj, Top))
         /\ UNCHANGED <<phase, buffer, target, statics, last>>
<1> DEFINE n == Depth - 1
           hs == SubSeq(frames, 1, n)
           obj == Returned(hs[n].obj, Top, TRUE)
<1>1. frames' = ReturnedTo(frames, obj) /\ Depth > 1 /\ UNCHANGED <<phase, buffer, target, statics, last>>
  BY DEF ReturnToParser, ReturnedTo, Depth
<1>2. n \in Nat /\ n \in 1 .. n /\ \A i \in 1 .. n : i \in 1 .. Len(frames)
  BY <1>1 DEF Depth
<1>3. hs[n] = frames[n]
  <2> DEFINE S == {frames[i] : i \in DOMAIN frames}
  <2>1. frames \in Seq(S)
    BY DEF IsStack, IsSeq
  <2> HIDE DEF S, n
  <2>2. \A i \in 1 .. n : frames[i] \in S
    BY <1>2, <2>1, ElementOfSeq
  <2>3. \A i \in 1 .. n : SubSeq(frames, 1, n)[i] = frames[i]
    BY <1>2, <2>2, SubSeqProperties
  <2> QED BY <1>2, <2>3
<1>4. obj = Back(frames[n].obj, Top)
  BY <1>3 DEF Back
<1> HIDE DEF obj
<1> QED BY <1>1, <1>4

LEMMA TrackResumed ==
  ASSUME IsStack(frames), Depth \in Nat \ {0}, NEW finals, OnTrack(buffer, frames, statics, finals),
         Top.cur # Top.end, NEW to, NEW p, Resume(to, p), Reads(buffer, Moved(Top, to, p), finals[Depth])
  PROVE  /\ OnTrack(buffer', frames', statics', finals)
         /\ UNCHANGED <<phase, buffer, target, last>>
<1> DEFINE fs == frames
           b == buffer
           bound == statics
           top == Top
<1>1. /\ frames' = Resumed(fs, to, p) /\ buffer' = b /\ statics' = bound
      /\ UNCHANGED <<phase, buffer, target, last>>
  BY DEF Resume, Resumed, Top, Depth
<1>2. /\ IsStack(fs) /\ Len(fs) > 0 /\ OnTrack(b, fs, bound, finals) /\ top = fs[Len(fs)]
      /\ top.cur # top.end /\ Reads(b, Moved(top, to, p), finals[Len(fs)])
  BY DEF Depth, Top
<1> HIDE DEF fs, b, bound, top
<1>3. OnTrack(b, Resumed(fs, to, p), bound, finals)
  BY <1>2, ResumedTracks
<1> QED BY <1>1, <1>3

LEMMA TrackReturned ==
  ASSUME IsStack(frames), Depth \in Nat \ {0}, NEW finals, OnTrack(buffer, frames, statics, finals),
         Top.cur = Top.end, Top.obj = finals[Depth], ReturnToParser(TRUE)
  PROVE  /\ OnTrack(buffer', frames', statics', finals)
         /\ UNCHANGED <<phase, buffer, target, last>>
<1> DEFINE fs == frames
           b == buffer
           bound == statics
           n == Depth
           top == Top
           p == Back(fs[n - 1].obj, top)
<1>1. /\ n > 1 /\ frames' = ReturnedTo(fs, p) /\ buffer' = b /\ statics' = bound
      /\ UNCHANGED <<phase, buffer, target, last>>
  BY ReturnStep
<1>2. /\ IsStack(fs) /\ n = Len(fs) /\ OnTrack(b, fs, bound, finals) /\ top = fs[n]
      /\ top.cur = top.end /\ top.obj = finals[n] /\ p = Back(fs[n - 1].obj, top)
  BY DEF Depth, Top
<1> HIDE DEF fs, b, bound, top, n, p
<1>3. OnTrack(b, ReturnedTo(fs, p), bound, finals)
  BY <1>1, <1>2, ReturnedTracks
<1> QED BY <1>1, <1>3

LEMMA TrackEntered ==
  ASSUME NEW depth, Readable(depth), NEW rank, Membered(rank),
         IsStack(frames), Depth \in Nat \ {0}, NEW finals, OnTrack(buffer, frames, statics, finals),
         NEW item, NEW x, NEW to, NEW p, StartsParser(item, x, to, p),
         Reads(buffer, Moved(Top, to, p), finals[Depth])
  PROVE  /\ SomeTrackOf(buffer', frames', statics', finals[1])
         /\ UNCHANGED <<phase, buffer, target, last>>
<1> DEFINE fs == frames
           b == buffer
           bound == statics
           n == Depth
           top == Top
           o == top.obj
           inner == Inner(item, x)
           made == Made(item, x)
<1>1. /\ Nested(item) /\ Takes(o, item, x) /\ p = Applied(o, item, x)
      /\ top.kind = "entry" => to = top.end
  BY DEF StartsParser
<1>2. PICK pos \in Nat : Lies(b, pos, inner) /\ pos + Len(inner) = to /\ Handed(item, pos, to)
  BY DEF StartsParser, HandedOn
<1> DEFINE f == Started(item, o, pos, to)
<1>3. /\ frames' = Entered(fs, f) /\ UNCHANGED <<phase, buffer, target, last>>
      /\ statics' = IF item.shape = "map" THEN Rebound(item) ELSE bound
  BY <1>1, <1>2, HandedStarts
<1>4. item.shape = "map" => statics'[TypePair(item)].owner = n + 1
  <2>1. Rebound(item)[TypePair(item)].owner = n + 1
    BY DEF Rebound
  <2> QED BY <1>3, <2>1
<1>5. /\ IsStack(fs) /\ n = Len(fs) /\ n > 0 /\ OnTrack(b, fs, bound, finals) /\ top = fs[n]
      /\ Reads(b, Moved(top, to, p), finals[n])
  BY DEF Depth, Top
<1>6. Reads(b, f, made)
  <2> HIDE DEF o, b
  <2> QED BY <1>1, <1>2, StartedReads
<1> DEFINE bound2 == statics'
           k == n + 1
<1>7. StartsFrom(top, item, x, pos, to, p, f, made)
  BY <1>1 DEF StartsFrom
<1>8. Owned(bound2, item, k)
  BY <1>4 DEF Owned
<1>9. frames' = Entered(fs, f) /\ UNCHANGED <<phase, buffer, target, last>> /\ buffer' = b /\ statics' = bound2
  BY <1>3
<1>10. k = n + 1
  OBVIOUS
<1> HIDE DEF fs, b, bound, n, top, o, inner, made, f, bound2, k
<1>11. SomeTrackOf(b, Entered(fs, f), bound2, finals[1])
  BY <1>5, <1>6, <1>7, <1>8, <1>10, EnteredTracks
<1> QED BY <1>9, <1>11

-----------------------------------------------------------------------------
\* A step of a call on the bytes of m keeps it on its way, or returns with m.
ReturnsWith(m) ==
  /\ Depth = 1 /\ Top.obj = m.value
  /\ ReturnToCaller(TRUE)

Goes(m) == SomeTrack(m)' /\ UNCHANGED <<phase, buffer, target, last>>

LEMMA GivenGoes ==
  ASSUME NEW depth, Readable(depth), NEW rank, Membered(rank), NEW m \in ReadObjects,
         IInv, BoundAsDeclared(statics), Parse, buffer = Format[m], SomeTrack(m)
  PROVE  Goes(m) \/ ReturnsWith(m)
<1> DEFINE n == Depth
<1>1. n \in Nat \ {0} /\ IsStack(frames) /\ n = Len(frames)
  BY ParseDoes DEF IInv, Calls, Parsers, Depth
<1>2. PICK finals : finals[1] = m.value /\ OnTrack(buffer, frames, statics, finals)
  BY DEF SomeTrack, SomeTrackOf
<1>3. /\ Reads(buffer, Top, finals[n])
      /\ Top.kind = "entry" =>
           Coded(Top.item) /\ (Top.cur = Top.end \/ statics[TypePair(Top.item)].owner = n)
  <2>1. Stands(buffer, frames, statics, finals, n)
    BY <1>1, <1>2 DEF OnTrack
  <2> QED BY <1>1, <2>1 DEF Stands, Top
<1>4. /\ buffer \in Seq(Byte) /\ Top.cur \in Nat /\ Top.end \in Nat
      /\ Top.cur <= Top.end /\ Top.end <= Len(buffer)
  <2>1. InWindow(n)
    BY <1>1 DEF IInv, Parsers
  <2> QED BY <2>1 DEF IInv, Calls, InWindow, Top
<1>5. CASE Top.cur = Top.end
  <2>1. Top.obj = finals[n]
    <3> DEFINE f == Top
               b == buffer
               final == finals[n]
    <3>1. f.cur = f.end /\ Reads(b, f, final)
      BY <1>3, <1>5
    <3> HIDE DEF f, b, final
    <3>2. final = f.obj
      BY <3>1, ReadsEnd
    <3> QED BY <3>2 DEF f, final
  <2>2. ReturnToCaller(TRUE) \/ ReturnToParser(TRUE)
    BY <1>4, <1>5, EndStep
  <2>3. CASE ReturnToCaller(TRUE)
    <3>1. Depth = 1
      BY <2>3 DEF ReturnToCaller
    <3> QED BY <1>2, <2>1, <2>3, <3>1 DEF ReturnsWith
  <2>4. CASE ReturnToParser(TRUE)
    <3>1. /\ OnTrack(buffer', frames', statics', finals)
          /\ UNCHANGED <<phase, buffer, target, last>>
      BY <1>1, <1>2, <1>5, <2>1, <2>4, TrackReturned
    <3> QED BY <1>2, <3>1 DEF Goes, SomeTrack, SomeTrackOf
  <2> QED BY <2>2, <2>3, <2>4
<1>6. CASE Top.cur # Top.end
  <2>1. Ready
    <3>1. Len(buffer) < Mod64
      BY DEF Readable, ReadAsFormat
    <3> QED BY <1>4, <1>6, <3>1 DEF Ready
  <2>2. Bound = Fields(Top)
    BY <1>1, <1>3, BoundIsFields
  <2>3. OwnsTargets
    BY <1>3, <1>6 DEF OwnsTargets
  <2>4. InBytes(Format, ReadObjects)
    BY FormatIs
  <2>5. IsFrame(Top)
    BY <1>1, StackShape DEF Top
  <2>6. PICK to, p : ReadsRecord(buffer, Top, to, p) /\ Reads(buffer, Moved(Top, to, p), finals[n])
    <3> DEFINE f == Top
               b == buffer
               final == finals[n]
    <3>1. IsFrame(f) /\ f.cur # f.end /\ Reads(b, f, final)
      BY <1>3, <1>6, <2>5
    <3> HIDE DEF f, b, final
    <3>2. \E to, p : ReadsRecord(b, f, to, p) /\ Reads(b, Moved(f, to, p), final)
      BY <3>1, ReadsOne
    <3> QED BY <3>2 DEF f, b, final
  <2>7. Resume(to, p) \/ \E item, x : StartsParser(item, x, to, p)
    BY <2>1, <2>2, <2>3, <2>4, <2>6, RecordStep
  <2>8. CASE Resume(to, p)
    <3>1. /\ OnTrack(buffer', frames', statics', finals)
          /\ UNCHANGED <<phase, buffer, target, last>>
      BY <1>1, <1>2, <1>6, <2>6, <2>8, TrackResumed
    <3> QED BY <1>2, <3>1 DEF Goes, SomeTrack, SomeTrackOf
  <2>9. CASE \E item, x : StartsParser(item, x, to, p)
    <3>1. PICK item, x : StartsParser(item, x, to, p)
      BY <2>9
    <3>2. SomeTrackOf(buffer', frames', statics', finals[1]) /\ UNCHANGED <<phase, buffer, target, last>>
      BY <1>1, <1>2, <2>6, <3>1, TrackEntered
    <3> QED BY <1>2, <3>2 DEF Goes, SomeTrack
  <2> QED BY <2>7, <2>8, <2>9
<1> QED BY <1>5, <1>6

\* Any step of Parse stays in the call, or returns from it.
LEMMA ParseLeavesAlone ==
  ASSUME IInv, Parse
  PROVE  /\ phase = "parsing"
         /\ \/ UNCHANGED <<buffer, target, last>>
            \/ \E ok \in BOOLEAN : ReturnToCaller(ok)
<1>1. phase = "parsing" /\ (Fails \/ Resumes \/ Enters \/ Leaves)
  BY ParseDoes DEF IInv, Calls
<1>2. CASE Fails
  BY <1>1, <1>2 DEF Fails, Undefined
<1>3. CASE Resumes
  BY <1>1, <1>3 DEF Resumes, Resume
<1>4. CASE Enters
  BY <1>1, <1>4 DEF Enters, EnterEntry, EnterMessage, Enter
<1>5. CASE Leaves
  BY <1>1, <1>5 DEF Leaves, ReturnToParser
<1> QED BY <1>1, <1>2, <1>3, <1>4, <1>5

-----------------------------------------------------------------------------
(* The two halves of DecodesFormat, for one message.                         *)

OnItsWay(m) ==
  GivenNow(m) => phase # "undefined" /\ (phase = "parsing" => SomeTrack(m))

Came(l, m) == Given(l.struct, l.bytes, l.before, m) => l.ok /\ l.after = m.value

CameBack(m) == \A i \in DOMAIN last : Came(last[i], m)

Decodes(m) == OnItsWay(m) /\ CameBack(m)

LEMMA LastCame ==
  ASSUME IsSeq(last), NEW m, CameBack(m), NEW l, last' = Append(last, l), Came(l, m)
  PROVE  CameBack(m)'
<1> DEFINE s == last
           S == {s[i] : i \in DOMAIN s} \cup {l}
<1>1. s \in Seq(S) /\ l \in S
  BY SeqMonotonic DEF IsSeq
<1>2. \A i \in 1 .. Len(s) : Came(s[i], m)
  <2>1. DOMAIN s = 1 .. Len(s)
    BY <1>1, LenProperties
  <2> QED BY <2>1 DEF CameBack
<1> HIDE DEF S
<1>3. /\ Append(s, l) \in Seq(S) /\ Len(Append(s, l)) = Len(s) + 1
      /\ \A i \in 1 .. Len(s) : Append(s, l)[i] = s[i]
      /\ Append(s, l)[Len(s) + 1] = l
      /\ Len(s) \in Nat
  BY <1>1, AppendProperties, LenProperties
<1>4. DOMAIN Append(s, l) = 1 .. (Len(s) + 1)
  BY <1>3, LenProperties
<1>5. ASSUME NEW i \in 1 .. (Len(s) + 1) PROVE Came(Append(s, l)[i], m)
  <2>1. i \in 1 .. Len(s) \/ i = Len(s) + 1
    BY <1>3
  <2> QED BY <1>2, <1>3, <2>1
<1> QED BY <1>4, <1>5 DEF CameBack

LEMMA ParseDecodes ==
  ASSUME NEW depth, Readable(depth), NEW rank, Membered(rank), NEW m \in ReadObjects,
         IInv, BoundAsDeclared(statics), Parse, Decodes(m)
  PROVE  Decodes(m)'
<1>1. /\ phase = "parsing"
      /\ \/ UNCHANGED <<buffer, target, last>>
         \/ \E ok \in BOOLEAN : ReturnToCaller(ok)
  BY ParseLeavesAlone
<1>2. CASE \E ok \in BOOLEAN : ReturnToCaller(ok)
  <2>1. PICK ok \in BOOLEAN : ReturnToCaller(ok)
    BY <1>2
  <2> DEFINE l == [struct |-> target.struct, bytes |-> buffer,
                   before |-> target.value, ok |-> ok, after |-> Top.obj]
  <2>2. last' = Append(last, l) /\ phase' = "idle"
    BY <2>1 DEF ReturnToCaller
  <2>3. Came(l, m)
    <3> SUFFICES ASSUME GivenNow(m) PROVE ok /\ Top.obj = m.value
      BY DEF Came, GivenNow
    <3>1. buffer = Format[m] /\ SomeTrack(m)
      BY <1>1 DEF GivenNow, Given, Decodes, OnItsWay
    <3>2. ~Goes(m)
      BY <1>1, <2>2 DEF Goes
    <3>3. ReturnsWith(m)
      BY <3>1, <3>2, GivenGoes
    <3>4. Top.obj = m.value /\ ReturnToCaller(TRUE)
      BY <3>3 DEF ReturnsWith
    <3>5. ok
      <4> DEFINE l2 == [struct |-> target.struct, bytes |-> buffer,
                        before |-> target.value, ok |-> TRUE, after |-> Top.obj]
      <4>1. last' = Append(last, l) /\ last' = Append(last, l2)
        BY <2>2, <3>4 DEF ReturnToCaller
      <4>2. l = l2
        <5> HIDE DEF l, l2
        <5>1. IsSeq(last)
          BY DEF IInv, Calls
        <5> DEFINE s == last
                   S == {s[i] : i \in DOMAIN s} \cup {l, l2}
        <5>2. s \in Seq(S) /\ l \in S /\ l2 \in S
          BY <5>1, SeqMonotonic DEF IsSeq
        <5> HIDE DEF S
        <5>3. Append(s, l)[Len(s) + 1] = l /\ Append(s, l2)[Len(s) + 1] = l2
          BY <5>2, AppendProperties
        <5> QED BY <4>1, <5>3
      <4>3. l.ok = ok /\ l2.ok = TRUE
        OBVIOUS
      <4> HIDE DEF l, l2
      <4> QED BY <4>2, <4>3
    <3> QED BY <3>4, <3>5
  <2>4. CameBack(m)'
    <3>1. IsSeq(last) /\ CameBack(m)
      BY DEF IInv, Calls, Decodes
    <3> HIDE DEF l
    <3> QED BY <2>2, <2>3, <3>1, LastCame
  <2> QED BY <2>2, <2>4 DEF Decodes, OnItsWay
<1>3. CASE UNCHANGED <<buffer, target, last>>
  <2>1. CameBack(m)'
    BY <1>3 DEF CameBack, Decodes
  <2>2. GivenNow(m)' => GivenNow(m)
    BY <1>3 DEF GivenNow
  <2>3. ASSUME GivenNow(m) PROVE phase' # "undefined" /\ (phase' = "parsing" => SomeTrack(m)')
    <3>1. buffer = Format[m] /\ SomeTrack(m)
      BY <1>1, <2>3 DEF GivenNow, Given, Decodes, OnItsWay
    <3>2. Goes(m) \/ ReturnsWith(m)
      BY <3>1, GivenGoes
    <3>3. CASE Goes(m)
      BY <1>1, <3>3 DEF Goes
    <3>4. CASE ReturnsWith(m)
      BY <3>4 DEF ReturnsWith, ReturnToCaller
    <3> QED BY <3>2, <3>3, <3>4
  <2> QED BY <2>1, <2>2, <2>3 DEF Decodes, OnItsWay
<1> QED BY <1>1, <1>2, <1>3

\* A call on the bytes of a message starts on its way to it.
LEMMA BeginWithDecodes ==
  ASSUME NEW depth, Readable(depth), NEW rank, Membered(rank), NEW m \in ReadObjects,
         NEW bytes, NEW t, BeginWith(bytes, t), Decodes(m)
  PROVE  Decodes(m)'
<1> DEFINE f == Frame("root", NoItem, t.struct, Cleared(t.struct, t.value), 0, Len(bytes))
<1>2. /\ buffer' = bytes /\ target' = t /\ frames' = <<f>> /\ phase' = "parsing"
      /\ statics' = statics /\ last' = last
  BY DEF BeginWith
<1>3. CameBack(m)'
  BY <1>2 DEF CameBack, Decodes
<1>4. ASSUME GivenNow(m)' PROVE SomeTrack(m)'
  <2>1. t.struct = m.struct /\ bytes = Format[m] /\ t.value \in {ZeroMessage[m.struct], m.value}
    BY <1>2, <1>4 DEF GivenNow, Given
  <2>2. bytes \in Seq(Byte)
    BY <2>1, FormatIs DEF InBytes
  <2>3. Len(bytes) \in Nat /\ Lies(bytes, 0, bytes)
    BY <2>2, LiesWhole
  <2>4. /\ IsFrame(f) /\ f.kind = "root" /\ f.struct = m.struct /\ f.cur = 0 /\ f.end = Len(bytes)
        /\ f.obj = Cleared(m.struct, t.value)
    BY <2>1 DEF Frame, IsFrame
  <2>5. Starts(f.obj, Schema[m.struct], m.value)
    <3> DEFINE s == t.value
    <3>1. s \in {ZeroMessage[m.struct], m.value} /\ f.obj = Cleared(m.struct, s)
      BY <2>1, <2>4
    <3> HIDE DEF s, f
    <3>2. Starts(Cleared(m.struct, s), Schema[m.struct], m.value)
      BY <3>1, ClearedStarts
    <3> QED BY <3>1, <3>2
  <2> DEFINE b == bytes
             fs == <<f>>
             finals == <<m.value>>
             bound == statics
  <2>6. Reads(b, f, m.value)
    <3>1. f.kind # "entry" /\ f.end \in Nat /\ Lies(b, f.cur, Format[m])
      BY <2>1, <2>3, <2>4
    <3>2. f.end = f.cur + Len(Format[m])
      BY <2>1, <2>3, <2>4
    <3> HIDE DEF b, f
    <3> QED BY <2>4, <2>5, <3>1, <3>2, MessageReads
  <2>7. Len(fs) = 1 /\ fs[1] = f
    <3> HIDE DEF f
    <3> QED BY <2>4, SingleStack
  <2>8. finals[1] = m.value
    OBVIOUS
  <2> HIDE DEF fs, finals, f, b, bound
  <2>9. Stands(b, fs, bound, finals, 1)
    <3> DEFINE n == 1
    <3>1. n \in Nat /\ n = Len(fs) /\ f = fs[n] /\ Reads(b, f, finals[n]) /\ f.kind # "entry"
      BY <2>4, <2>6, <2>7, <2>8
    <3> HIDE DEF n
    <3>2. Stands(b, fs, bound, finals, n)
      BY <3>1, StandsLast
    <3> QED BY <3>2 DEF n
  <2>10. OnTrack(b, fs, bound, finals)
    BY <2>7, <2>9 DEF OnTrack
  <2>11. SomeTrackOf(b, fs, bound, m.value)
    BY <2>8, <2>10 DEF SomeTrackOf
  <2> QED BY <1>2, <2>11 DEF SomeTrack, b, fs, f, bound
<1> QED BY <1>2, <1>3, <1>4 DEF Decodes, OnItsWay

LEMMA InitDecodes ==
  ASSUME NEW m, Init
  PROVE  Decodes(m)
<1>1. DOMAIN <<>> = {}
  OBVIOUS
<1> QED BY <1>1 DEF Init, Decodes, OnItsWay, CameBack

LEMMA StutterDecodes ==
  ASSUME NEW m, UNCHANGED vars, Decodes(m)
  PROVE  Decodes(m)'
BY DEF vars, Decodes, OnItsWay, CameBack, GivenNow, SomeTrack

-----------------------------------------------------------------------------
(* The invariant, and what each step of a program does to it.                *)

Decoding == IInv /\ BoundAsDeclared(statics) /\ \A m \in ReadObjects : Decodes(m)

LEMMA DecodingInit == Init => Decoding
BY InitHolds, InitDeclared, InitDecodes DEF Decoding

\* A call on any bytes, into any object.
LEMMA DecodingBegun ==
  ASSUME NEW depth, Readable(depth), NEW rank, Membered(rank), Decoding,
         NEW bytes \in Seq(Byte), NEW t, t = [struct |-> t.struct, value |-> t.value],
         t.struct \in DOMAIN Schema, BeginWith(bytes, t)
  PROVE  Decoding'
<1>1. IInv'
  BY BeginWithKeeps DEF Decoding
<1>2. BoundAsDeclared(statics)'
  BY DEF Decoding, BeginWith
<1>3. ASSUME NEW m \in ReadObjects PROVE Decodes(m)'
  BY BeginWithDecodes DEF Decoding
<1> QED BY <1>1, <1>2, <1>3 DEF Decoding

LEMMA DecodingGoesOn ==
  ASSUME NEW depth, Readable(depth), NEW rank, Membered(rank), Decoding, Parse
  PROVE  Decoding'
<1>1. IInv'
  BY ParseKeeps DEF Decoding
<1>2. BoundAsDeclared(statics)'
  BY ParseDeclared DEF Decoding
<1>3. ASSUME NEW m \in ReadObjects PROVE Decodes(m)'
  BY ParseDecodes DEF Decoding
<1> QED BY <1>1, <1>2, <1>3 DEF Decoding

LEMMA DecodingRests ==
  ASSUME Decoding, UNCHANGED vars
  PROVE  Decoding'
<1>1. IInv'
  BY StutterKeeps DEF Decoding
<1>2. BoundAsDeclared(statics)'
  BY DEF Decoding, vars
<1>3. ASSUME NEW m \in ReadObjects PROVE Decodes(m)'
  BY StutterDecodes DEF Decoding
<1> QED BY <1>1, <1>2, <1>3 DEF Decoding

\* For every schema, every set of messages whose types are those the format speaks of,
\* every other input and every bound: a call of operator>> on the bytes that the format
\* has for one of them, into a fresh object or into one equal to it, is never undefined
\* and, if it returns, returns true and leaves that message in the object, however
\* deep its messages and maps are nested and whatever bindings earlier calls have
\* left in convertMap.
THEOREM FormatDecoded ==
  ASSUME NEW depth, Readable(depth), NEW rank, Membered(rank)
  PROVE  Spec => []DecodesFormat
<1>1. Decoding /\ [Next]_vars => Decoding'
  <2> SUFFICES ASSUME Decoding, [Next]_vars PROVE Decoding'
    OBVIOUS
  <2>1. CASE Begin
    <3>1. PICK inp \in Inputs, t \in Targets \cup {target} :
            t.struct = inp.struct /\ BeginWith(inp.bytes, t)
      BY <2>1 DEF Begin
    <3> DEFINE bytes == inp.bytes
    <3>2. /\ bytes \in Seq(Byte)
          /\ t = [struct |-> t.struct, value |-> t.value] /\ t.struct \in DOMAIN Schema
      BY <3>1, DecoderAssumption DEF Decoding, IInv, Calls
    <3>3. BeginWith(bytes, t)
      BY <3>1
    <3> HIDE DEF bytes
    <3> QED BY <3>2, <3>3, DecodingBegun
  <2>2. CASE Parse
    BY <2>2, DecodingGoesOn
  <2>3. CASE UNCHANGED vars
    BY <2>3, DecodingRests
  <2> QED BY <2>1, <2>2, <2>3 DEF Next
<1>2. Decoding => DecodesFormat
  <2> SUFFICES ASSUME Decoding, NEW m \in ReadObjects
               PROVE  /\ phase = "undefined" => ~Given(target.struct, buffer, target.value, m)
                      /\ \A i \in DOMAIN last :
                           Given(last[i].struct, last[i].bytes, last[i].before, m)
                             => last[i].ok /\ last[i].after = m.value
    BY DEF DecodesFormat
  <2>1. Decodes(m)
    BY DEF Decoding
  <2> QED BY <2>1 DEF Decodes, OnItsWay, CameBack, Came, GivenNow
<1> QED BY <1>1, <1>2, DecodingInit, PTL DEF Spec

-----------------------------------------------------------------------------
(* What a program sees of the call, for one that is composed of this module. *)

\* All of the calls returned true.
AllOk(results) == \A i \in DOMAIN results : results[i].ok

\* A step of a call on the bytes of m stays in the call or is its return, with true
\* and with m.
LEMMA GivenReturns ==
  ASSUME NEW depth, Readable(depth), NEW rank, Membered(rank), Decoding, Parse,
         NEW m \in ReadObjects, GivenNow(m)
  PROVE  /\ fault' = "none"
         /\ \/ phase' = "parsing" /\ UNCHANGED <<buffer, target, last>>
            \/ /\ phase' = "idle" /\ target' = [struct |-> target.struct, value |-> m.value]
               /\ last'[Len(last')].ok
               /\ AllOk(last) => AllOk(last')
<1>1. phase = "parsing"
  BY ParseLeavesAlone DEF Decoding
<1>2. buffer = Format[m] /\ SomeTrack(m)
  BY <1>1 DEF Decoding, Decodes, OnItsWay, GivenNow, Given
<1>3. Goes(m) \/ ReturnsWith(m)
  BY <1>2, GivenGoes DEF Decoding
<1>4. phase' \in {"parsing", "idle"}
  BY <1>1, <1>3 DEF Goes, ReturnsWith, ReturnToCaller
<1>5. fault' = "none"
  BY <1>4, DecodingGoesOn DEF Decoding, IInv, Calls
<1>6. CASE Goes(m)
  BY <1>1, <1>5, <1>6 DEF Goes
<1>7. CASE ReturnsWith(m)
  <2> DEFINE l == [struct |-> target.struct, bytes |-> buffer,
                   before |-> target.value, ok |-> TRUE, after |-> Top.obj]
             s == last
             S == {s[i] : i \in DOMAIN s} \cup {l}
  <2>1. /\ last' = Append(s, l) /\ phase' = "idle"
        /\ target' = [target EXCEPT !.value = m.value]
    BY <1>7 DEF ReturnsWith, ReturnToCaller
  <2>2. l.ok
    OBVIOUS
  <2>3. IsSeq(s)
    BY DEF Decoding, IInv, Calls
  <2> HIDE DEF l
  <2>4. s \in Seq(S) /\ l \in S
    BY <2>3, SeqMonotonic DEF IsSeq
  <2> HIDE DEF S, s
  <2>5. /\ Append(s, l) \in Seq(S) /\ Len(Append(s, l)) = Len(s) + 1
        /\ \A i \in 1 .. Len(s) : Append(s, l)[i] = s[i]
        /\ Append(s, l)[Len(s) + 1] = l
        /\ Len(s) \in Nat /\ DOMAIN s = 1 .. Len(s)
    BY <2>4, AppendProperties, LenProperties
  <2>6. DOMAIN Append(s, l) = 1 .. (Len(s) + 1)
    BY <2>5, LenProperties
  <2>7. \A i \in 1 .. (Len(s) + 1) : i \in 1 .. Len(s) \/ i = Len(s) + 1
    BY <2>5
  <2>8. AllOk(s) => AllOk(Append(s, l))
    BY <2>2, <2>5, <2>6, <2>7 DEF AllOk
  <2>9. Append(s, l)[Len(Append(s, l))].ok
    BY <2>2, <2>5
  <2>10. target' = [struct |-> target.struct, value |-> m.value]
    <3>1. target = [struct |-> target.struct, value |-> target.value]
      BY DEF Decoding, IInv, Calls
    <3> QED BY <2>1, <3>1
  <2> QED BY <1>5, <2>1, <2>8, <2>9, <2>10 DEF s
<1> QED BY <1>3, <1>6, <1>7
==============================================================================

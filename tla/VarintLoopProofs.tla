-------------------------- MODULE VarintLoopProofs --------------------------
(* What holds of the three varint loops for every width, coding and number.  *)
(*                                                                           *)
(* The loops run one after the other over different variables, so that none  *)
(* of the properties is inductive by itself.  The history variable rests     *)
(* ties them together: it lists the values that the shifts by seven bits     *)
(* leave, the writer's next byte is read off it, and the reader's sum is     *)
(* complete but for the rest that it has not read.                           *)
EXTENDS VarintLoop, WireProofs

-----------------------------------------------------------------------------
\* What a number is widened to is a uint64_t: the parameter of varInt.
LEMMA WideType ==
  ASSUME NEW c \in Codings, NEW v \in 0 .. (IntModulus(c[1]) - 1)
  PROVE  Widened(c, v) \in Num64
<1> DEFINE M == IntModulus(c[1])
<1>1. M \in Nat \ {0} /\ M <= Mod64 /\ v \in 0 .. (M - 1)
  BY WidthsAre DEF IntModulus
<1>2. CASE c[2] = TYPE_SVARINT
  <2>1. ZigZag(v, M) \in 0 .. (M - 1)
    <3> HIDE DEF M
    <3>1. CASE 2 * v >= M
      <4>0. 2 * v \in Nat /\ M <= 2 * v /\ 2 * v < 2 * M
        BY <1>1, <3>1
      <4>1. (2 * v) % M = 2 * v - M
        BY <1>1, <4>0, RemainderOnce
      <4> QED BY <1>1, <3>1, <4>1 DEF ZigZag
    <3>2. CASE 2 * v < M
      <4>1. (2 * v) % M = 2 * v
        BY <1>1, <3>2
      <4> QED BY <1>1, <3>2, <4>1 DEF ZigZag
    <3> QED BY <1>1, <3>1, <3>2
  <2> QED BY <1>1, <1>2, <2>1, WidthsAre DEF Widened, Num64
<1>3. CASE c[2] # TYPE_SVARINT /\ c[1] \in Ints32
  BY <1>3, WidthsAre DEF Widened, SignExtend, IntModulus, Num64
<1>4. CASE c[2] # TYPE_SVARINT /\ c[1] \notin Ints32
  BY <1>4, WidthsAre DEF Widened, IntModulus, Num64
<1> QED BY <1>2, <1>3, <1>4

\* One iteration of a loop that shifts by seven bits.
LEMMA ShiftSeven ==
  ASSUME NEW x \in Num64
  PROVE  /\ x \in Nat /\ x \div 128 \in Num64
         /\ 128 + (x % 128) \in Byte
         /\ (128 + (x % 128)) % 128 = x % 128
         /\ x < 128 => x \in Byte /\ x % 128 = x /\ x \div 128 = 0
         /\ x >= 128 => x \div 128 >= 1
BY WidthsAre DEF Num64, Byte

-----------------------------------------------------------------------------
\* Before the first iteration nothing is counted, written or read.
LEMMA InitInvariant == Init => IInv
<1> SUFFICES ASSUME Init PROVE IInv
  OBVIOUS
<1>1. coding \in Codings /\ orig \in 0 .. (IntModulus(coding[1]) - 1)
  <2>1. IntModulus(coding[1]) \in Nat
    BY WidthsAre DEF IntModulus
  <2>2. orig \in Nat /\ orig < IntModulus(coding[1])
    BY CodingAssumption DEF Init
  <2> QED BY <2>1, <2>2 DEF Init
<1>2. Wide \in Num64
  BY <1>1, WideType DEF Wide
<1>3. rests = <<Wide>> /\ Len(rests) = 1 /\ rests[1] = Wide /\ rests \in Seq(Num64)
  BY <1>2 DEF Init
<1>4. 0 \in Num64
  BY WidthsAre DEF Num64
<1>5. TypeOK
  <2>1. sz = <<>> /\ sz \in Seq(Byte) /\ size = 0 /\ current = 0 /\ remaining = 0
    BY DEF Init
  <2>2. pc = "size" /\ value = Wide /\ scale = 1 /\ result = 0 /\ ok \in BOOLEAN
    BY DEF Init
  <2> HIDE DEF Wide
  <2> QED BY <1>1, <1>2, <1>3, <1>4, <2>1, <2>2 DEF TypeOK
<1> QED BY <1>3, <1>5 DEF Init, IInv, Chain, Sizing, Writing, Reading

\* An iteration of VarintByteSize adds one shifted value and one byte.
LEMMA SizeStepInvariant == IInv /\ SizeStep => IInv'
<1> SUFFICES ASSUME IInv, SizeStep PROVE IInv'
  OBVIOUS
<1>1. Wide \in Num64 /\ Wide' = Wide
  BY WideType DEF IInv, TypeOK, Wide, SizeStep
<1>2. /\ pc = "size" /\ size \in Nat /\ value \in Num64 /\ rests \in Seq(Num64)
      /\ value = rests[Len(rests)] /\ Len(rests) = size + 1 /\ sz = <<>> /\ current = 0
      /\ scale = 1 /\ result = 0
  BY DEF IInv, TypeOK, Sizing, Reading, SizeStep
<1>3. value \in Nat /\ value \div 128 \in Num64
  BY <1>2, ShiftSeven
<1>4. Writing' /\ Reading'
  <2>1. rests[1] = Wide /\ Len(rests) >= 1 /\ Len(sz) = 0
    BY <1>2 DEF IInv, Chain
  <2>2. Reading'
    BY <1>2 DEF SizeStep, Reading
  <2>3. CASE value >= 128
    BY <1>2, <2>1, <2>2, <2>3 DEF SizeStep, Writing
  <2>4. CASE ~(value >= 128)
    <3>1. /\ value' = rests'[1] /\ sz' = <<>> /\ Len(sz') = 0
          /\ size' = size + 1 /\ pc' = "write"
      BY <1>2, <2>1, <2>4 DEF SizeStep
    <3> QED BY <1>2, <2>2, <3>1 DEF Writing
  <2> QED BY <2>3, <2>4
<1>5. CASE value >= 128
  <2>1. rests' \in Seq(Num64) /\ Len(rests') = Len(rests) + 1
    BY <1>2, <1>3, <1>5 DEF SizeStep
  <2>2. TypeOK'
    BY <1>3, <1>5, <2>1 DEF IInv, TypeOK, SizeStep
  <2>3. Chain'
    <3>1. /\ rests[1] = Wide /\ Len(rests) >= 1 /\ Len(rests) \in Nat
          /\ \A i \in 1 .. (Len(rests) - 1) :
               rests[i] >= 128 /\ rests[i + 1] = rests[i] \div 128
      BY <1>2 DEF IInv, Chain
    <3>2. /\ \A i \in 1 .. Len(rests) : rests'[i] = rests[i]
          /\ rests'[Len(rests) + 1] = value \div 128
      BY <1>2, <1>3, <1>5 DEF SizeStep
    <3>3. ASSUME NEW i \in 1 .. (Len(rests') - 1)
          PROVE  rests'[i] >= 128 /\ rests'[i + 1] = rests'[i] \div 128
      <4>1. CASE i = Len(rests)
        BY <1>2, <1>5, <3>1, <3>2, <4>1
      <4>2. CASE i # Len(rests)
        BY <2>1, <3>1, <3>2, <4>2
      <4> QED BY <4>1, <4>2
    <3> QED BY <1>1, <2>1, <3>1, <3>2, <3>3 DEF Chain
  <2>4. Sizing'
    BY <1>2, <1>3, <1>5, <2>1 DEF SizeStep, Sizing
  <2> QED BY <1>4, <2>2, <2>3, <2>4 DEF IInv
<1>6. CASE value < 128
  <2>1. TypeOK'
    BY <1>1, <1>3, <1>6 DEF IInv, TypeOK, SizeStep
  <2>2. Chain' /\ Sizing'
    BY <1>1, <1>2, <1>3, <1>6 DEF IInv, Chain, SizeStep, Sizing
  <2> QED BY <1>4, <2>1, <2>2 DEF IInv
<1> QED BY <1>3, <1>5, <1>6 DEF Num64

\* An iteration of varInt writes the byte of the value that the size loop saw.
LEMMA WriteStepInvariant == IInv /\ WriteStep => IInv'
<1> SUFFICES ASSUME IInv, WriteStep PROVE IInv'
  OBVIOUS
<1>1. Wide' = Wide
  BY DEF Wide, WriteStep
<1>2. /\ pc = "write" /\ size \in Nat /\ value \in Num64 /\ rests \in Seq(Num64)
      /\ value = rests[Len(sz) + 1] /\ Len(sz) < size /\ Len(rests) = size
      /\ rests[size] < 128 /\ sz \in Seq(Byte) /\ Len(sz) \in Nat
      /\ current = 0 /\ scale = 1 /\ result = 0
  BY DEF IInv, TypeOK, Sizing, Writing, Reading, WriteStep
<1>3. /\ value \in Nat /\ value \div 128 \in Num64 /\ 128 + (value % 128) \in Byte
      /\ value < 128 => value \in Byte
  BY <1>2, ShiftSeven
<1>4. \A i \in 1 .. (Len(rests) - 1) : rests[i] >= 128 /\ rests[i + 1] = rests[i] \div 128
  BY DEF IInv, Chain
<1>5. Chain' /\ Sizing' /\ Reading'
  BY <1>1, <1>2 DEF IInv, WriteStep, Chain, Sizing, Reading
<1>6. CASE value >= 128
  <2>1. Len(sz) + 1 < size /\ rests[Len(sz) + 2] = value \div 128
    BY <1>2, <1>3, <1>4, <1>6
  <2>2. sz' \in Seq(Byte) /\ Len(sz') = Len(sz) + 1
    <3>1. sz' = Append(sz, 128 + (value % 128))
      BY <1>6 DEF WriteStep
    <3>2. ASSUME NEW b \in Byte PROVE Append(sz, b) \in Seq(Byte) /\ Len(Append(sz, b)) = Len(sz) + 1
      BY <1>2
    <3> QED BY <1>3, <3>1, <3>2
  <2>3. TypeOK'
    BY <1>3, <1>6, <2>2 DEF IInv, TypeOK, WriteStep
  <2>4. Writing'
    BY <1>2, <1>6, <2>1, <2>2 DEF IInv, WriteStep, Writing
  <2> QED BY <1>5, <2>3, <2>4 DEF IInv
<1>7. CASE value < 128
  <2>1. Len(sz) + 1 = size
    <3> SUFFICES ASSUME Len(sz) + 1 # size PROVE FALSE
      OBVIOUS
    <3>1. Len(sz) + 1 \in 1 .. (Len(rests) - 1)
      BY <1>2
    <3>2. rests[Len(sz) + 1] >= 128
      BY <1>4, <3>1
    <3> QED BY <1>2, <1>3, <1>7, <3>2
  <2>2. sz' \in Seq(Byte) /\ Len(sz') = Len(sz) + 1
    <3>1. sz' = Append(sz, value) /\ value \in Byte
      BY <1>3, <1>7 DEF WriteStep
    <3> QED BY <1>2, <3>1
  <2>3. TypeOK'
    BY <1>3, <1>7, <2>2 DEF IInv, TypeOK, WriteStep
  <2>4. Writing'
    <3>1. /\ sz' = Append(sz, value) /\ pc' = "send" /\ size' = size /\ rests' = rests
      BY <1>3, <1>7 DEF WriteStep
    <3>2. \A i \in 1 .. Len(sz) :
            sz[i] = IF i < size THEN 128 + (rests[i] % 128) ELSE rests[i]
      BY DEF IInv, Writing
    <3> QED BY <1>2, <2>1, <2>2, <3>1, <3>2 DEF Writing
  <2> QED BY <1>5, <2>3, <2>4 DEF IInv
<1> QED BY <1>3, <1>6, <1>7

\* The reader starts on a prefix with nothing read.
LEMMA SendInvariant == IInv /\ Send => IInv'
<1> SUFFICES ASSUME IInv, Send PROVE IInv'
  OBVIOUS
<1>1. Wide' = Wide
  BY DEF Wide, Send
<1>2. /\ pc = "send" /\ current = 0 /\ scale = 1 /\ result = 0 /\ size \in Nat
      /\ Len(rests) = size /\ rests[1] = Wide /\ Len(rests) >= 1
      /\ Len(sz) = size /\ rests \in Seq(Num64)
  BY DEF IInv, TypeOK, Chain, Sizing, Writing, Reading, Send
<1>3. remaining' \in 0 .. size
  BY <1>2 DEF Send
<1>4. TypeOK'
  BY <1>2, <1>3 DEF IInv, TypeOK, Send
<1>5. Chain' /\ Sizing' /\ Writing'
  BY <1>1, <1>2 DEF IInv, Chain, Sizing, Writing, Send
<1>6. Reading'
  <2>1. Wide \in Nat
    BY <1>2, ShiftSeven
  <2> QED BY <1>1, <1>2, <1>3, <2>1 DEF Send, Reading
<1> QED BY <1>4, <1>5, <1>6 DEF IInv

\* The sum of the reader before and after one byte.
LEMMA ReadStepInvariant == IInv /\ ReadStep => IInv'
<1> SUFFICES ASSUME IInv, ReadStep PROVE IInv'
  OBVIOUS
<1> DEFINE i == current + 1
           r == rests[i]
<1>1. Wide' = Wide /\ Wide \in Num64
  BY WideType DEF IInv, TypeOK, Wide, ReadStep
<1>2. /\ pc = "read" /\ current \in Nat /\ size \in Nat /\ scale \in Nat \ {0}
      /\ remaining \in Nat /\ remaining > 0 /\ result \in Num64
      /\ current < size /\ current + remaining <= size
      /\ result + scale * r = Wide
      /\ Len(rests) = size /\ Len(sz) = size /\ rests \in Seq(Num64)
      /\ rests[size] < 128
  BY DEF IInv, TypeOK, Sizing, Writing, Reading, ReadStep
<1>3. r \in Num64 /\ i \in 1 .. size
  BY <1>2
<1>4. sz[i] = IF i < size THEN 128 + (r % 128) ELSE r
  BY <1>2, <1>3 DEF IInv, Writing
<1>5. i < size => r >= 128 /\ rests[i + 1] = r \div 128
  BY <1>2, <1>3 DEF IInv, Chain
<1> HIDE DEF r
<1>6. /\ r \in Nat /\ (128 + (r % 128)) % 128 = r % 128
      /\ r < 128 => r % 128 = r /\ r \div 128 = 0
      /\ r % 128 \in Nat
  BY <1>3, ShiftSeven
<1>7. i = size => r < 128
  BY <1>2 DEF r
<1>8. sz[i] % 128 = r % 128 /\ (sz[i] >= 128 <=> i < size)
  <2>1. CASE i < size
    <3>1. sz[i] = 128 + (r % 128)
      BY <1>4, <2>1
    <3> QED BY <1>6, <2>1, <3>1
  <2>2. CASE i = size
    <3>1. sz[i] = r /\ r < 128 /\ ~(i < size)
      BY <1>2, <1>4, <1>7, <2>2
    <3> QED BY <1>6, <3>1
  <2>3. i < size \/ i = size
    BY <1>2
  <2> QED BY <2>1, <2>2, <2>3
<1>9. /\ scale * r = (r % 128) * scale + (128 * scale) * (r \div 128)
      /\ (r % 128) * scale \in Nat /\ (128 * scale) * (r \div 128) \in Nat
  BY <1>2, <1>6, SplitRest
<1>10. /\ result + (r % 128) * scale + (128 * scale) * (r \div 128) = Wide
       /\ result + (r % 128) * scale \in Num64
  BY <1>1, <1>2, <1>9, WidthsAre DEF Num64
<1>11. result' = result + (r % 128) * scale
  <2>1. result' = (result + (r % 128) * scale) % Mod64
    BY <1>8 DEF ReadStep
  <2>2. \A x \in Num64 : x % Mod64 = x
    BY WidthsAre DEF Num64
  <2> QED BY <1>10, <2>1, <2>2
<1>12. /\ scale' = 128 * scale /\ current' = i /\ remaining' = remaining - 1
       /\ size' = size /\ sz' = sz /\ rests' = rests
       /\ ok' = ~(sz[i] >= 128) /\ pc' = IF sz[i] >= 128 THEN "read" ELSE "done"
  BY DEF ReadStep
<1>13. TypeOK'
  <2>1. ok' \in BOOLEAN /\ pc' \in {"read", "done"}
    BY <1>12
  <2>2. scale' \in Nat \ {0} /\ current' \in Nat /\ remaining' \in Nat
    BY <1>2, <1>12
  <2>3. result' \in Num64
    BY <1>10, <1>11
  <2> QED BY <2>1, <2>2, <2>3 DEF IInv, TypeOK, ReadStep
<1>14. Chain' /\ Sizing' /\ Writing'
  <2>1. pc' \in {"read", "done"}
    BY <1>12
  <2> QED BY <1>1, <1>2, <1>12, <2>1 DEF IInv, Chain, Sizing, Writing
<1>15. Reading'
  <2>1. CASE i < size
    <3>1. pc' = "read" /\ rests'[current' + 1] = r \div 128
      BY <1>5, <1>8, <1>12, <2>1
    <3>2. result' + scale' * rests'[current' + 1] = Wide
      BY <1>10, <1>11, <1>12, <3>1
    <3> QED BY <1>1, <1>2, <1>12, <2>1, <3>1, <3>2 DEF Reading
  <2>2. CASE i = size
    <3>0. ~(sz[i] >= 128)
      BY <1>2, <1>8, <2>2
    <3>1. pc' = "done" /\ ok' = TRUE
      BY <1>12, <3>0
    <3>2. (128 * scale) * (r \div 128) = 0
      BY <1>2, <1>6, <1>7, <2>2
    <3>3. result' = Wide
      BY <1>1, <1>2, <1>9, <1>10, <1>11, <3>2 DEF Num64
    <3>4. current' # 0 /\ current' = size'
      BY <1>2, <1>12, <2>2
    <3>5. (ok' <=> current' = size') /\ (ok' => result' = Wide')
      BY <1>1, <3>1, <3>3, <3>4
    <3>6. pc' \notin {"size", "write", "send"} /\ pc' # "read"
      BY <3>1
    <3> QED BY <3>4, <3>5, <3>6, Zenon DEF Reading
  <2> QED BY <1>2, <2>1, <2>2
<1> QED BY <1>13, <1>14, <1>15 DEF IInv

\* A reader that runs out of bytes has not read the last one.
LEMMA ReadTruncatedInvariant == IInv /\ ReadTruncated => IInv'
<1> SUFFICES ASSUME IInv, ReadTruncated PROVE IInv'
  OBVIOUS
<1>1. Wide' = Wide
  BY DEF Wide, ReadTruncated
<1>2. pc = "read" /\ current < size /\ current \in Nat /\ size \in Nat
  BY DEF IInv, TypeOK, Reading, ReadTruncated
<1>3. pc' = "done" /\ ok' = FALSE /\ UNCHANGED <<size, sz, rests, current, scale, result>>
  BY DEF ReadTruncated
<1>4. TypeOK'
  BY DEF IInv, TypeOK, ReadTruncated
<1>5. Chain' /\ Sizing' /\ Writing' /\ Reading'
  BY <1>1, <1>2, <1>3 DEF IInv, Chain, Sizing, Writing, Reading
<1> QED BY <1>4, <1>5 DEF IInv

-----------------------------------------------------------------------------
\* The loops of every number stay within the inductive invariant.
THEOREM Inductive == Spec => []IInv
<1>1. IInv /\ [Next]_vars => IInv'
  <2> SUFFICES ASSUME IInv, [Next]_vars PROVE IInv'
    OBVIOUS
  <2>1. CASE SizeStep
    BY <2>1, SizeStepInvariant
  <2>2. CASE WriteStep
    BY <2>2, WriteStepInvariant
  <2>3. CASE Send
    BY <2>3, SendInvariant
  <2>4. CASE ReadStep
    BY <2>4, ReadStepInvariant
  <2>5. CASE ReadTruncated
    BY <2>5, ReadTruncatedInvariant
  <2>6. CASE UNCHANGED vars
    BY <2>6 DEF vars, IInv, TypeOK, Chain, Sizing, Writing, Reading, Wide
  <2> QED BY <2>1, <2>2, <2>3, <2>4, <2>5, <2>6 DEF Next
<1> QED BY <1>1, InitInvariant, PTL DEF Spec

\* Every variable keeps its type: in particular no byte exceeds 255 and no
\* number leaves the 64 bits the code gives it.
THEOREM TypeCorrect == Spec => []TypeOK
<1>1. IInv => TypeOK
  BY DEF IInv
<1> QED BY <1>1, Inductive, PTL

\* VarintByteSize counts exactly the bytes that varInt writes.
THEOREM SizeIsExact == Spec => []SizeExact
<1>1. IInv => SizeExact
  BY DEF IInv, Writing, SizeExact
<1> QED BY <1>1, Inductive, PTL

\* ReadVarInt accepts exactly the whole varint and reads the number written.
THEOREM TransportIsExact == Spec => []TransportExact
<1>1. IInv => TransportExact
  BY DEF IInv, Writing, Reading, TransportExact
<1> QED BY <1>1, Inductive, PTL

\* ReadVarInt never shifts by 64 or more on what varInt wrote.
THEOREM ShiftIsDefined == Spec => []ShiftDefined
<1>1. IInv => ShiftDefined
  <2> SUFFICES ASSUME IInv, pc = "read" PROVE scale < Mod64
    BY DEF ShiftDefined
  <2>1. /\ current \in Nat /\ scale \in Nat \ {0} /\ current < size /\ size \in Nat
        /\ result \in Num64 /\ result + scale * rests[current + 1] = Wide
        /\ Len(rests) = size /\ rests \in Seq(Num64)
    BY DEF IInv, TypeOK, Sizing, Reading
  <2>2. CASE current = 0
    BY <2>2, WidthsAre DEF IInv, Reading
  <2>3. CASE current # 0
    <3>1. current \in 1 .. (Len(rests) - 1)
      BY <2>1, <2>3
    <3>2. /\ rests[current] >= 128 /\ rests[current] \in Num64
          /\ rests[current + 1] = rests[current] \div 128
      BY <2>1, <3>1 DEF IInv, Chain
    <3>3. rests[current + 1] \in Nat /\ rests[current + 1] >= 1
      BY <3>2, ShiftSeven
    <3>4. scale <= scale * rests[current + 1] /\ scale * rests[current + 1] \in Nat
      BY <2>1, <3>3, ProductGrows
    <3>5. Wide \in Num64
      BY WideType DEF IInv, TypeOK, Wide
    <3> QED BY <2>1, <3>4, <3>5, WidthsAre DEF Num64
  <2> QED BY <2>2, <2>3
<1> QED BY <1>1, Inductive, PTL

\* The narrow pattern is what is left of a sign-extended number.
LEMMA SignExtendNarrow ==
  ASSUME NEW v \in Num32
  PROVE  SignExtend(v) % Mod32 = v
<1>1. Mod32 \in Nat \ {0} /\ Mod64 \in Nat /\ Mod64 % Mod32 = 0 /\ v \in 0 .. (Mod32 - 1)
  BY WidthsAre DEF Num32
<1> DEFINE k == Mod64 \div Mod32
<1>2. Mod64 = Mod32 * k /\ k \in Int
  BY <1>1
<1> HIDE DEF k
<1>3. (Mod32 * 0 + v) % Mod32 = v /\ Mod32 * 0 + v = v
  BY <1>1, RemainderUnique
<1>4. (Mod32 * (k - 1) + v) % Mod32 = v
  BY <1>1, <1>2, RemainderUnique
<1>5. Mod32 * (k - 1) + v = v + (Mod64 - Mod32)
  BY <1>1, <1>2
<1> QED BY <1>3, <1>4, <1>5 DEF SignExtend

\* A number of any int or uint field, and a sint that is not negative, comes
\* back as it was, whatever the widths.
THEOREM RoundTripHolds == Spec => []RoundTripUnlessNegativeSint
<1>1. IInv => RoundTripUnlessNegativeSint
  <2> DEFINE M == IntModulus(coding[1])
  <2> SUFFICES ASSUME IInv, pc = "done", ok,
                      coding[2] = TYPE_SVARINT => 2 * orig < M
               PROVE  Narrowed(coding, Wide) = orig
    BY WidthsAre DEF RoundTripUnlessNegativeSint, IInv, Reading, TypeOK, IntModulus
  <2>1. /\ coding \in Codings /\ orig \in 0 .. (M - 1) /\ coding[1] \in Ints32 \cup Ints64
        /\ M \in Nat /\ Mod32 \in Nat \ {0}
    BY CodingAssumption, WidthsAre DEF IInv, TypeOK, IntModulus
  <2>2. coding[1] \in Ints32 => M = Mod32
    BY DEF IntModulus
  <2>3. coding[1] # "bool"
    BY <2>1 DEF Ints32, Ints64
  <2> HIDE DEF M
  <2>4. coding[1] \in Ints32 => orig \in Num32 /\ orig % Mod32 = orig
    BY <2>1, <2>2 DEF Num32
  <2>5. CASE coding[2] = TYPE_SVARINT
    <3>1. 2 * orig < M /\ 2 * orig \in Nat /\ (2 * orig) % M = 2 * orig
      BY <2>1, <2>5
    <3>2. Wide = 2 * orig
      BY <2>1, <2>5, <3>1 DEF Wide, Widened, ZigZag, M
    <3>3. UnZigZag(2 * orig) = orig
      BY <2>1 DEF UnZigZag
    <3> QED BY <2>3, <2>4, <2>5, <3>2, <3>3 DEF Narrowed, Narrow
  <2>6. CASE coding[2] # TYPE_SVARINT /\ coding[1] \in Ints32
    <3>1. Wide % Mod32 = orig
      BY <2>4, <2>6, SignExtendNarrow DEF Wide, Widened
    <3> QED BY <2>3, <2>6, <3>1 DEF Narrowed, Narrow
  <2>7. CASE coding[2] # TYPE_SVARINT /\ coding[1] \notin Ints32
    BY <2>3, <2>7 DEF Narrowed, Narrow, Wide, Widened
  <2> QED BY <2>5, <2>6, <2>7
<1> QED BY <1>1, Inductive, PTL
\* A value of the loops is a sequence of what shifts leave.
LEMMA RestsAreShifts ==
  ASSUME IInv, pc # "size"
  PROVE  IsShifts(rests, size) /\ rests[1] = Wide
<1>1. /\ size \in Nat /\ rests \in Seq(Num64) /\ Len(rests) = size /\ rests[size] < 128
      /\ Len(rests) >= 1 /\ rests[1] = Wide
      /\ \A i \in 1 .. (Len(rests) - 1) : rests[i] >= 128 /\ rests[i + 1] = rests[i] \div 128
  BY DEF IInv, TypeOK, Chain, Sizing
<1>2. rests \in [1 .. size -> Nat]
  <2>1. rests \in [1 .. size -> Num64]
    BY <1>1, LenProperties
  <2>2. Num64 \subseteq Nat
    BY WidthsAre DEF Num64
  <2> QED BY <2>1, <2>2
<1> QED BY <1>1, <1>2 DEF IsShifts

\* The three loops compute the operators of Wire: one evaluation of VarintByteSize,
\* VarintBytes or VarintValue in the encoder's and the decoder's model stands for
\* a whole loop of the code, and no varint outgrows the buffer it is written to.
THEOREM LoopsComputeWire == Spec => []LoopsMatchWire
<1>1. IInv => LoopsMatchWire
  <2> SUFFICES ASSUME IInv, pc \in {"send", "read", "done"} PROVE LoopsMatchWire
    BY DEF LoopsMatchWire
  <2>1. IsShifts(rests, size) /\ rests[1] = Wide /\ size \in Nat \ {0}
    BY RestsAreShifts DEF IsShifts
  <2>2. /\ sz \in Seq(Byte) /\ Len(sz) = size
        /\ \A i \in 1 .. size : sz[i] = ShiftByte(rests, size, i)
    BY DEF IInv, TypeOK, Writing, ShiftByte
  <2>3. Wide \in Num64
    BY WideType DEF IInv, TypeOK, Wide
  <2> HIDE DEF Wide
  <2>4. Wide \in Nat /\ Wide < Mod64 /\ Wide % Mod64 = Wide
    BY <2>3, WidthsAre DEF Num64
  <2>5. VarintByteSize[Wide] = size /\ \A i \in 1 .. size : VarintBytes[Wide][i] = sz[i]
    BY <2>1, <2>2, ShiftsAreWritten
  <2>6. sz = VarintBytes[Wide]
    <3>1. VarintBytes[Wide] \in Seq(Byte) /\ Len(VarintBytes[Wide]) = size
      BY <2>4, <2>5, VarintBytesAre
    <3> QED BY <2>2, <2>5, <3>1, SeqEqual
  <2>7. Len(sz) <= MaxVarintBytes
    BY <2>1, <2>2, <2>4, ShiftsFit
  <2>8. ASSUME pc = "done", ok
        PROVE  /\ current \in VarintStops(sz, 0, Len(sz))
               /\ result = VarintValue(SubSeq(sz, 1, current))
    <3>1. current = size /\ result = Wide
      BY <2>8 DEF IInv, Reading
    <3>2. sz[size] < 128
      BY <2>1, <2>2 DEF IsShifts, ShiftByte
    <3>3. current \in VarintStops(sz, 0, Len(sz))
      BY <2>1, <2>2, <3>1, <3>2 DEF VarintStops
    <3>4. SubSeq(sz, 1, current) = sz
      BY <2>2, <3>1
    <3>5. VarintValue(sz) = Wide
      BY <2>1, <2>2, <2>4, ShiftsAreRead
    <3> QED BY <3>1, <3>3, <3>4, <3>5
  <2> QED BY <2>5, <2>6, <2>7, <2>8 DEF LoopsMatchWire
<1> QED BY <1>1, Inductive, PTL
=============================================================================

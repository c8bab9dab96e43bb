----------------------------- MODULE VarintLoop -----------------------------
(* The three loops a number goes through: VarintByteSize counts its bytes    *)
(* (include/encoder.h), varInt writes them (src/encoder.cpp), and            *)
(* Message::ReadVarInt reads them back (src/decoder.cpp) from a window that   *)
(* may have been cut short.  One action per iteration.  Before the loops the *)
(* number is widened as its field type says, after them it is narrowed.      *)
EXTENDS Wire

CONSTANTS Codings,  \* the pairs <<C++ type, TYPE_*>> of the integer fields
          Numbers   \* the numbers a caller may pass

ASSUME CodingAssumption ==
  /\ Codings \subseteq ((Ints32 \cup Ints64) \X {TYPE_VARINT, TYPE_SVARINT})
  /\ Numbers \subseteq Nat

VARIABLES
  pc,         \* "size", "write", "send", "read", "done"
  coding,     \* the member of Codings in use
  orig,       \* the number the caller passed
  value,      \* the parameter the running loop shifts
  size,       \* i of VarintByteSize
  sz,         \* the bytes written
  current,    \* how many of them ReadVarInt has consumed
  remaining,  \* how many it may still consume
  scale,      \* 2^shift
  result,     \* the number read so far
  ok,         \* what ReadVarInt returned
  rests       \* history: the values the size loop has seen, one per byte

vars == <<pc, coding, orig, value, size, sz, current, remaining, scale, result, ok, rests>>

\* Mutant of Widened: the shift of the zigzag coding does not drop the top bit.
WidenedUnwrapped(c, v) ==
  IF c[2] = TYPE_SVARINT THEN 2 * v
  ELSE IF c[1] \in Ints32 THEN SignExtend(v) ELSE v

\* The uint64_t that encodeValue and encodeValueSvarint hand to varInt.
Widened(c, v) ==
  IF c[2] = TYPE_SVARINT THEN ZigZag(v, IntModulus(c[1]))
  ELSE IF c[1] \in Ints32 THEN SignExtend(v) ELSE v

\* Mutant of Narrowed: a zigzag number is taken as it is.
NarrowedPlain(c, u) == Narrow(c[1], u)

\* What convertValue stores for the uint64_t that was read.
Narrowed(c, u) ==
  IF c[2] = TYPE_SVARINT THEN Narrow(c[1], UnZigZag(u)) ELSE Narrow(c[1], u)

Wide == Widened(coding, orig)

Init ==
  /\ pc = "size"
  /\ coding \in Codings
  /\ orig \in {n \in Numbers : n < IntModulus(coding[1])}
  /\ value = Wide
  /\ size = 0 /\ sz = <<>>
  /\ current = 0 /\ remaining = 0 /\ scale = 1 /\ result = 0 /\ ok = FALSE
  /\ rests = <<Wide>>

\* Mutant of SizeStep: the loop stops at 0x80 too.
SizeStepOffByOne ==
  /\ pc = "size"
  /\ size' = size + 1
  /\ IF value > 128
       THEN /\ value' = value \div 128
            /\ rests' = Append(rests, value \div 128)
            /\ UNCHANGED pc
       ELSE /\ value' = Wide
            /\ pc' = "write"
            /\ UNCHANGED rests
  /\ UNCHANGED <<coding, orig, sz, current, remaining, scale, result, ok>>

\* while (value >= 0x80) { ++i; value >>= 7; } return ++i;
SizeStep ==
  /\ pc = "size"
  /\ size' = size + 1
  /\ IF value >= 128
       THEN /\ value' = value \div 128
            /\ rests' = Append(rests, value \div 128)
            /\ UNCHANGED pc
       ELSE /\ value' = Wide
            /\ pc' = "write"
            /\ UNCHANGED rests
  /\ UNCHANGED <<coding, orig, sz, current, remaining, scale, result, ok>>

\* while (value >= 0x80) { *target++ = value | 0x80; value >>= 7; } *target++ = value;
WriteStep ==
  /\ pc = "write"
  /\ IF value >= 128
       THEN /\ sz' = Append(sz, 128 + (value % 128))
            /\ value' = value \div 128
            /\ UNCHANGED pc
       ELSE /\ sz' = Append(sz, value)
            /\ pc' = "send"
            /\ UNCHANGED value
  /\ UNCHANGED <<coding, orig, size, current, remaining, scale, result, ok, rests>>

\* The reader is given the whole varint or a proper prefix of it.
Send ==
  /\ pc = "send"
  /\ \E n \in 0 .. Len(sz) : remaining' = n
  /\ pc' = "read"
  /\ UNCHANGED <<coding, orig, value, size, sz, current, scale, result, ok, rests>>

\* Mutant of ReadStep: shift += 8.
ReadStepShift8 ==
  /\ pc = "read"
  /\ remaining > 0
  /\ LET next_number == sz[current + 1]
     IN  /\ result' = (result + (next_number % 128) * scale) % Mod64
         /\ pc' = IF next_number >= 128 THEN "read" ELSE "done"
         /\ ok' = (next_number < 128)
  /\ scale' = 256 * scale
  /\ current' = current + 1
  /\ remaining' = remaining - 1
  /\ UNCHANGED <<coding, orig, value, size, sz, rests>>

\* One iteration of the do-while loop of ReadVarInt.
ReadStep ==
  /\ pc = "read"
  /\ remaining > 0
  /\ LET next_number == sz[current + 1]
         keep_going  == next_number >= 128
     IN  /\ result' = (result + (next_number % 128) * scale) % Mod64
         /\ pc' = IF keep_going THEN "read" ELSE "done"
         /\ ok' = ~keep_going
  /\ scale' = 128 * scale
  /\ current' = current + 1
  /\ remaining' = remaining - 1
  /\ UNCHANGED <<coding, orig, value, size, sz, rests>>

\* Mutants of ReadTruncated: it returns true; it asks for the byte again.
ReadTruncatedTrue ==
  /\ pc = "read"
  /\ remaining = 0
  /\ pc' = "done" /\ ok' = TRUE
  /\ UNCHANGED <<coding, orig, value, size, sz, current, remaining, scale, result, rests>>
ReadTruncatedAgain == pc = "read" /\ remaining = 0 /\ UNCHANGED vars

\* ConsumeBytes finds fewer bytes than it needs, and ReadVarInt returns false.
ReadTruncated ==
  /\ pc = "read"
  /\ remaining = 0
  /\ pc' = "done" /\ ok' = FALSE
  /\ UNCHANGED <<coding, orig, value, size, sz, current, remaining, scale, result, rests>>

Next == SizeStep \/ WriteStep \/ Send \/ ReadStep \/ ReadTruncated

Spec == Init /\ [][Next]_vars

\* A loop that is running keeps running: nothing in the code blocks it.
FairSpec == Spec /\ WF_vars(Next)

-----------------------------------------------------------------------------
\* The variables hold values of the types the code declares for them.
TypeOK ==
  /\ pc \in {"size", "write", "send", "read", "done"}
  /\ coding \in Codings
  /\ orig \in 0 .. (IntModulus(coding[1]) - 1)
  /\ value \in Num64 /\ size \in Nat
  /\ sz \in Seq(Byte)
  /\ current \in Nat /\ remaining \in Nat /\ scale \in Nat \ {0}
  /\ result \in Num64 /\ ok \in BOOLEAN
  /\ rests \in Seq(Num64)

\* VarintByteSize, which getByteSize adds up, counts exactly the bytes varInt
\* writes: a disagreement of the two loops moves every later field.
SizeExact == pc \in {"send", "read", "done"} => Len(sz) = size

\* ReadVarInt answers true exactly when it was given the whole varint, and then
\* it has read the number that was written: nothing that was cut short is
\* taken for a smaller number.
TransportExact ==
  pc = "done" => /\ ok <=> current = Len(sz)
                 /\ ok => result = Wide

\* The shift count of ReadVarInt stays below 64 on the bytes varInt writes, so
\* the shift of its accumulation is defined.
ShiftDefined == pc = "read" /\ remaining > 0 => scale < Mod64

\* The loops compute what the operators of Wire say, which the modules of the
\* encoder and the decoder use for a whole loop at once.
LoopsMatchWire ==
  /\ pc \in {"send", "read", "done"} =>
       /\ sz = VarintBytes[Wide] /\ size = VarintByteSize[Wide]
       /\ Len(sz) <= MaxVarintBytes
  /\ pc = "done" /\ ok =>
       /\ current \in VarintStops(sz, 0, Len(sz))
       /\ result = VarintValue(SubSeq(sz, 1, current))

(* The loops run one after the other over different variables, and none of   *)
(* the properties above is inductive.  These parts together are.             *)

\* Each value is what a shift of seven bits leaves of the one before it.
Chain ==
  /\ Len(rests) >= 1 /\ rests[1] = Wide
  /\ \A i \in 1 .. (Len(rests) - 1) : rests[i] >= 128 /\ rests[i + 1] = rests[i] \div 128

Sizing ==
  /\ pc = "size" => value = rests[Len(rests)] /\ Len(rests) = size + 1 /\ sz = <<>>
  /\ pc # "size" => Len(rests) = size /\ rests[size] < 128

Writing ==
  /\ pc = "write" => Len(sz) < size /\ value = rests[Len(sz) + 1]
  /\ pc \in {"send", "read", "done"} => Len(sz) = size
  /\ \A i \in 1 .. Len(sz) :
       sz[i] = IF i < size THEN 128 + (rests[i] % 128) ELSE rests[i]

Reading ==
  /\ current = 0 => scale = 1 /\ result = 0
  /\ pc \in {"size", "write", "send"} => current = 0
  /\ pc = "read" => /\ current < size /\ current + remaining <= size
                    /\ result + scale * rests[current + 1] = Wide
  /\ pc = "done" => (ok <=> current = size) /\ (ok => result = Wide)

\* The inductive invariant: at every iteration the three loops are where the
\* shifted values say, and what is read plus the rest not read is the number.
IInv == TypeOK /\ Chain /\ Sizing /\ Writing /\ Reading

\* The number the receiver stores is the number the sender had.
RoundTrip == pc = "done" /\ ok => Narrowed(coding, result) = orig

\* The numbers that survive every coding: all those of int and uint fields,
\* the negative ones that travel sign-extended included, and those of sint
\* fields that are not negative.
RoundTripUnlessNegativeSint ==
  pc = "done" /\ ok /\ ~(coding[2] = TYPE_SVARINT /\ 2 * orig >= IntModulus(coding[1]))
    => Narrowed(coding, result) = orig

\* Every conversion ends, whatever the number and wherever it was cut.
Ends == <>(pc = "done")
=============================================================================

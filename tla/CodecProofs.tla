------------------------------ MODULE CodecProofs ------------------------------
(* Theorems about Codec, for every schema, every set of values whose types   *)
(* those of the two components speak of, and every number of rounds.         *)
EXTENDS Codec, WireProofs, TLAPS

-----------------------------------------------------------------------------
(* The encoder and the decoder each come with a reference for the bytes of a *)
(* message, which are the same operator by operator.                         *)

LEMMA SameWidths == Enc!Mod32 = Dec!Mod32 /\ Enc!Mod64 = Dec!Mod64
BY DEF Enc!Mod32, Enc!Mod64, Dec!Mod32, Dec!Mod64, Enc!Pow256, Dec!Pow256

LEMMA SameVarints == Enc!VarintBytes = Dec!VarintBytes
BY DEF Enc!VarintBytes, Dec!VarintBytes

LEMMA SameFixed ==
  ASSUME NEW v, NEW width
  PROVE  Enc!Fixed(v, width) = Dec!Fixed(v, width)
BY DEF Enc!Fixed, Dec!Fixed, Enc!Pow256, Dec!Pow256

LEMMA SameFlatten ==
  ASSUME NEW s
  PROVE  Enc!FlattenSeq(s) = Dec!FlattenSeq(s)
BY DEF Enc!FlattenSeq, Dec!FlattenSeq

LEMMA SameTypes ==
  ASSUME NEW cpp, NEW type
  PROVE  /\ Enc!IsMessage(cpp) = Dec!IsMessage(cpp)
         /\ Enc!FormatType(cpp, type) = Dec!FormatType(cpp, type)
         /\ Enc!Ints32 = Dec!Ints32 /\ Enc!Ints64 = Dec!Ints64
BY DEF Enc!IsMessage, Dec!IsMessage, Enc!Scalars, Dec!Scalars,
       Enc!Ints32, Dec!Ints32, Enc!Ints64, Dec!Ints64, Enc!FormatType, Dec!FormatType,
       Enc!WT_LENGTH_DELIMITED, Dec!WT_LENGTH_DELIMITED, Enc!WT_VARINT, Dec!WT_VARINT,
       Enc!WT_32BIT, Dec!WT_32BIT, Enc!WT_64BIT, Dec!WT_64BIT,
       Enc!TYPE_FIXED32, Dec!TYPE_FIXED32, Enc!TYPE_FIXED64, Dec!TYPE_FIXED64

LEMMA SameOrder ==
  ASSUME NEW cpp, NEW a, NEW b
  PROVE  Enc!KeyBefore(cpp, a, b) = Dec!KeyBefore(cpp, a, b)
BY SameWidths
   DEF Enc!KeyBefore, Dec!KeyBefore, Enc!StringBefore, Dec!StringBefore,
       Enc!IntModulus, Dec!IntModulus, Enc!Ints32, Dec!Ints32,
       Enc!IsStrictPrefix, Dec!IsStrictPrefix, Enc!IsPrefix, Dec!IsPrefix

LEMMA SameKeys ==
  ASSUME NEW item, NEW map
  PROVE  /\ Enc!InOrder(item, map) = Dec!InOrder(item, map)
         /\ Enc!Keys(item, map) = Dec!Keys(item, map)
<1>1. Enc!InOrder(item, map) = Dec!InOrder(item, map)
  <2> DEFINE ks == [1 .. Enc!Cardinality(DOMAIN map) -> DOMAIN map]
             E == {keys \in ks : /\ Enc!Range(keys) = DOMAIN map
                        /\ \A i, j \in DOMAIN keys : i < j => Enc!KeyBefore(item.key, keys[i], keys[j])}
             D == {keys \in ks : /\ Dec!Range(keys) = DOMAIN map
                        /\ \A i, j \in DOMAIN keys : i < j => Dec!KeyBefore(item.key, keys[i], keys[j])}
  <2>1. E = D
    BY SameOrder DEF Enc!Range, Dec!Range
  <2>2. Enc!InOrder(item, map) = E /\ Dec!InOrder(item, map) = D
    BY DEF Enc!InOrder, Dec!InOrder, Enc!Cardinality, Dec!Cardinality
  <2> QED BY <2>1, <2>2
<1> DEFINE E == Enc!InOrder(item, map)
           D == Dec!InOrder(item, map)
<1>2. Enc!Keys(item, map) = (CHOOSE keys \in E : TRUE) /\ Dec!Keys(item, map) = (CHOOSE keys \in D : TRUE)
  BY Zenon DEF Enc!Keys, Dec!Keys
<1> HIDE DEF E, D
<1>3. E = D
  BY <1>1 DEF E, D
<1> QED BY <1>1, <1>2, <1>3

LEMMA SamePayload ==
  ASSUME NEW F, NEW cpp, NEW type, NEW v
  PROVE  Enc!Payload(F, cpp, type, v) = Dec!Payload(F, cpp, type, v)
<1>1. \A bytes : Enc!LengthDelimited(bytes) = Dec!LengthDelimited(bytes)
  BY SameVarints DEF Enc!LengthDelimited, Dec!LengthDelimited
<1>2. \A n : Enc!ZigZagFormat(v, n) = Dec!ZigZagFormat(v, n)
  BY DEF Enc!ZigZagFormat, Dec!ZigZagFormat
<1>3. Enc!SignExtend(v) = Dec!SignExtend(v) /\ Enc!IntModulus(cpp) = Dec!IntModulus(cpp)
  BY SameWidths, SameTypes DEF Enc!SignExtend, Dec!SignExtend, Enc!IntModulus, Dec!IntModulus
<1> QED BY <1>1, <1>2, <1>3, SameVarints, SameFixed, SameTypes
        DEF Enc!Payload, Dec!Payload, Enc!Object, Dec!Object, Enc!WT_32BIT, Dec!WT_32BIT,
            Enc!WT_64BIT, Dec!WT_64BIT, Enc!TYPE_SVARINT, Dec!TYPE_SVARINT

LEMMA SameTagged ==
  ASSUME NEW F, NEW num, NEW cpp, NEW type, NEW v
  PROVE  Enc!Tagged(F, num, cpp, type, v) = Dec!Tagged(F, num, cpp, type, v)
BY SamePayload, SameTypes, SameVarints DEF Enc!Tagged, Dec!Tagged, Enc!Tag, Dec!Tag

LEMMA SameEntry ==
  ASSUME NEW F, NEW item, NEW k, NEW v
  PROVE  Enc!EntryFormat(F, item, k, v) = Dec!EntryFormat(F, item, k, v)
BY SameTagged, SameVarints
   DEF Enc!EntryFormat, Dec!EntryFormat, Enc!Tag, Dec!Tag, Enc!LengthDelimited, Dec!LengthDelimited,
       Enc!WT_LENGTH_DELIMITED, Dec!WT_LENGTH_DELIMITED

LEMMA SamePacked ==
  ASSUME NEW F, NEW item, NEW v
  PROVE  Enc!PackedFormat(F, item, v) = Dec!PackedFormat(F, item, v)
<1> DEFINE e == [i \in 1 .. Len(v) |-> Enc!Payload(F, item.cpp, item.low, v[i])]
           d == [i \in 1 .. Len(v) |-> Dec!Payload(F, item.cpp, item.low, v[i])]
<1>1. e = d
  BY SamePayload
<1>2. Enc!FlattenSeq(e) = Dec!FlattenSeq(d)
  <2> HIDE DEF e, d
  <2> QED BY <1>1, SameFlatten
<1> QED BY <1>2, SameVarints
        DEF Enc!PackedFormat, Dec!PackedFormat, Enc!Tag, Dec!Tag, Enc!LengthDelimited, Dec!LengthDelimited,
            Enc!WT_LENGTH_DELIMITED, Dec!WT_LENGTH_DELIMITED

LEMMA SameRecords ==
  ASSUME NEW F, NEW item, NEW m
  PROVE  Enc!FieldRecords(F, item, m) = Dec!FieldRecords(F, item, m)
<1> DEFINE v == m.val[item.num]
           ek == Enc!Keys(item, v)
           dk == Dec!Keys(item, v)
<1>1. ek = dk
  BY SameKeys
<1>2. Enc!PACKED = Dec!PACKED
  BY DEF Enc!PACKED, Dec!PACKED
<1>3. [i \in 1 .. Len(v) |-> Enc!Tagged(F, item.num, item.cpp, item.low, v[i])]
        = [i \in 1 .. Len(v) |-> Dec!Tagged(F, item.num, item.cpp, item.low, v[i])]
  BY SameTagged
<1>4. [i \in 1 .. Enc!Cardinality(DOMAIN v) |-> Enc!EntryFormat(F, item, ek[i], v[ek[i]])]
        = [i \in 1 .. Dec!Cardinality(DOMAIN v) |-> Dec!EntryFormat(F, item, dk[i], v[dk[i]])]
  <2>1. Enc!Cardinality(DOMAIN v) = Dec!Cardinality(DOMAIN v)
    BY DEF Enc!Cardinality, Dec!Cardinality
  <2> HIDE DEF v, ek, dk
  <2> QED BY <1>1, <2>1, SameEntry
<1> QED BY <1>1, <1>2, <1>3, <1>4, SameTagged, SamePacked DEF Enc!FieldRecords, Dec!FieldRecords

LEMMA SameMessage ==
  ASSUME NEW F, NEW items, NEW m
  PROVE  Enc!MessageFormat(F, items, m) = Dec!MessageFormat(F, items, m)
<1> DEFINE e == [i \in 1 .. Len(items) |-> Enc!FlattenSeq(Enc!FieldRecords(F, items[i], m))]
           d == [i \in 1 .. Len(items) |-> Dec!FlattenSeq(Dec!FieldRecords(F, items[i], m))]
<1>1. e = d
  BY SameRecords, SameFlatten
<1>2. Enc!FlattenSeq(e) = Dec!FlattenSeq(d)
  <2> HIDE DEF e, d
  <2> QED BY <1>1, SameFlatten
<1> QED BY <1>2 DEF Enc!MessageFormat, Dec!MessageFormat

-----------------------------------------------------------------------------
\* What the theorems suppose of the program: the values and what they hold are such as
\* the encoder writes and the decoder reads as the format says, and they are counted
\* as they are written; none holds itself, and no struct has itself for a member.
RoundTrips(depth, rank) == Enc!Program(depth) /\ Dec!Readable(depth) /\ Dec!Membered(rank)

\* The encoder and the decoder agree about the bytes of a message: by induction over
\* how deep it nests.
LEMMA SameFormat ==
  ASSUME NEW depth, NEW rank, RoundTrips(depth, rank), NEW m \in Objects
  PROVE  Enc!Format[m] = Dec!Format[m]
<1> DEFINE E == Enc!Format
           D == Dec!Format
           MF(f, o) == Enc!MessageFormat(f, Schema[o.struct], o.value)
           Equal == {o \in Objects : E[o] = D[o]}
<1>1. /\ Enc!Itemised(Schema) /\ Enc!WellTyped(Schema, Objects) /\ Enc!Nesting(Schema, Objects, depth)
  BY CodecAssumption, Enc!ItemsShaped, WidthAssumption DEF RoundTrips, Enc!Program, Enc!Nests, Enc!Typed
<1>2. E = [o \in Objects |-> MF(E, o)]
  BY <1>1, CodecAssumption, WidthAssumption, Enc!FormatsAre DEF Enc!Format
<1>3. Dec!Itemised(Schema) /\ Dec!WellTyped(Schema, Objects) /\ Dec!Nesting(Schema, Objects, depth)
  BY DEF RoundTrips, Dec!Readable, Dec!ReadAsFormat
<1>4. D = [o \in Objects |-> Dec!MessageFormat(D, Schema[o.struct], o.value)]
  BY <1>3, CodecAssumption, WidthAssumption, Dec!FormatsAre DEF Dec!Format
<1>5. depth \in [Objects -> Nat]
  BY <1>1 DEF Enc!Nesting
<1> HIDE DEF E, D
<1>6. ASSUME NEW o \in Objects, \A p \in Objects : depth[p] < depth[o] => p \in Equal
      PROVE  o \in Equal
  <2> DEFINE items == Schema[o.struct]
  <2>1. \A p \in Enc!Held(items, o) : E[p] = D[p]
    <3> TAKE p \in Enc!Held(items, o)
    <3>1. p \in Objects
      BY <1>1, CodecAssumption, WidthAssumption, Enc!HeldInside
    <3>2. depth[p] < depth[o]
      BY <1>1, <3>1 DEF Enc!Nesting
    <3> QED BY <1>6, <3>1, <3>2
  <2>2. Enc!Shaped(items, o)
    BY <1>1, CodecAssumption, WidthAssumption, Enc!FieldsAre
  <2> HIDE DEF items
  <2>3. Enc!MessageFormat(E, items, o.value) = Enc!MessageFormat(D, items, o.value)
    BY <2>1, <2>2, CodecAssumption, WidthAssumption, Enc!MessageOfHeld
  <2>4. Enc!MessageFormat(D, items, o.value) = Dec!MessageFormat(D, items, o.value)
    BY SameMessage
  <2>5. E[o] = Enc!MessageFormat(E, items, o.value) /\ D[o] = Dec!MessageFormat(D, items, o.value)
    BY <1>2, <1>4 DEF items
  <2> QED BY <2>3, <2>4, <2>5
<1>7. Inherits(Objects, depth, Equal)
  BY <1>5, <1>6 DEF Inherits
<1> HIDE DEF Equal
<1>8. Equal = Objects
  BY <1>7, RankInduction
<1> QED BY <1>8 DEF Equal, E, D

-----------------------------------------------------------------------------
(* The program: whose turn it is, and what it holds.                         *)

\* A value that was encoded, and the bytes it was encoded as.
Encoded ==
  /\ encPhase = "idle" /\ encCalls = 1
  /\ sent \in Values /\ ret /\ out = Enc!Format[sent]

\* Where the program is, what has been sent and received there, and that the decoder is
\* given nothing but the bytes of what was sent.
Flow ==
  /\ turn \in {"encode", "fresh", "again", "done"}
  /\ fault = "none" /\ Dec!AllOk(last)
  /\ turn = "encode" => encCalls = 0
  /\ turn # "encode" => Encoded
  /\ turn # "fresh" => received = sent
  /\ turn \in {"encode", "done"} => decPhase = "idle"
  /\ decPhase = "parsing" => Dec!GivenNow(sent)

\* The invariants of the two components, and how they fit.
Inv == Enc!Writes /\ Dec!Decoding /\ Flow

LEMMA InvInit == Init => Inv
<1> SUFFICES ASSUME Init PROVE Inv
  OBVIOUS
<1>1. Enc!Writes
  BY CodecAssumption, WidthAssumption, Enc!InitFresh, Enc!FreshWrites DEF Init
<1>2. Dec!Decoding
  BY CodecAssumption, WidthAssumption, Dec!DecodingInit DEF Init
<1>3. encCalls = 0 /\ decPhase = "idle" /\ fault = "none" /\ last = <<>>
  BY DEF Init, Enc!Init, Dec!Init
<1>4. Dec!AllOk(<<>>)
  <2>1. DOMAIN <<>> = {}
    OBVIOUS
  <2> QED BY <2>1 DEF Dec!AllOk
<1> QED BY <1>1, <1>2, <1>3, <1>4 DEF Init, Inv, Flow

\* The encoder does not change.
LEMMA EncoderRests ==
  ASSUME NEW depth, Enc!Program(depth), Enc!Writes, UNCHANGED encVars
  PROVE  Enc!Writes'
<1>1. UNCHANGED Enc!vars
  BY DEF encVars, Enc!vars
<1> QED BY <1>1, CodecAssumption, WidthAssumption, Enc!WritesNext

\* Nor does the decoder.
LEMMA DecoderRests ==
  ASSUME Dec!Decoding, UNCHANGED decVars
  PROVE  Dec!Decoding'
<1>1. UNCHANGED Dec!vars
  BY DEF decVars, Dec!vars
<1> QED BY <1>1, CodecAssumption, WidthAssumption, Dec!DecodingRests

\* A step of the encoder is one inside the call, or sends a value.
LEMMA EncodeInv ==
  ASSUME NEW depth, NEW rank, RoundTrips(depth, rank), Inv, EncodeStep
  PROVE  /\ Inv'
         /\ \/ UNCHANGED <<sent, received>>
            \/ sent' \in Values /\ received = sent /\ UNCHANGED received
<1>1. /\ turn = "encode" /\ encCalls = 0 /\ decPhase = "idle" /\ received = sent
      /\ fault = "none" /\ Dec!AllOk(last)
  BY DEF EncodeStep, Inv, Flow
<1>2. UNCHANGED <<rounds, received, decVars>>
  BY DEF EncodeStep
<1>3. Enc!Writes'
  BY CodecAssumption, WidthAssumption, Enc!WritesNext DEF RoundTrips, Inv, EncodeStep
<1>4. Dec!Decoding'
  BY <1>2, DecoderRests DEF Inv
<1>5. UNCHANGED <<fault, last, decPhase>>
  BY <1>2 DEF decVars
<1>6. \/ encCalls' = encCalls
      \/ /\ encCalls' = encCalls + 1 /\ encPhase' = "idle" /\ message' = message
         /\ message \in Values
         /\ message \in Objects => ret' /\ out' = Enc!Format[message]
  BY CodecAssumption, WidthAssumption, Enc!CallReturns DEF RoundTrips, Inv, EncodeStep
<1>7. CASE encCalls' = encCalls
  <2>1. UNCHANGED <<turn, sent>>
    BY <1>1, <1>7 DEF EncodeStep
  <2> QED BY <1>1, <1>2, <1>3, <1>4, <1>5, <1>7, <2>1 DEF Inv, Flow
<1>8. CASE encCalls' # encCalls
  <2>1. /\ encCalls' = 1 /\ encPhase' = "idle" /\ message' = message /\ message \in Values
        /\ message \in Objects => ret' /\ out' = Enc!Format[message]
    BY <1>1, <1>6, <1>8
  <2>2. Values \subseteq Objects
    BY DEF RoundTrips, Enc!Program
  <2>3. turn' = "fresh" /\ sent' = message
    BY <2>1 DEF EncodeStep
  <2>4. Encoded'
    BY <2>1, <2>2, <2>3 DEF Encoded
  <2> QED BY <1>1, <1>2, <1>3, <1>4, <1>5, <2>1, <2>3, <2>4 DEF Inv, Flow
<1> QED BY <1>7, <1>8

\* What is sent is a message that both theorems speak of.
LEMMA SentIs ==
  ASSUME NEW depth, NEW rank, RoundTrips(depth, rank), sent \in Values
  PROVE  /\ sent \in Objects /\ sent = [struct |-> sent.struct, value |-> sent.value]
         /\ sent.struct \in DOMAIN Schema
         /\ Enc!Format[sent] = Dec!Format[sent] /\ Enc!Format[sent] \in Seq(Dec!Byte)
<1>1. sent \in Objects
  BY DEF RoundTrips, Enc!Program
<1>2. sent = [struct |-> sent.struct, value |-> sent.value] /\ sent.struct \in DOMAIN Schema
  BY CodecAssumption DEF Dec!DecoderAssumption
<1>3. Enc!Format[sent] = Dec!Format[sent]
  BY <1>1, SameFormat
<1>4. Dec!Format[sent] \in Seq(Dec!Byte)
  <2>1. Dec!InBytes(Dec!Format, Objects)
    BY CodecAssumption, WidthAssumption, Dec!FormatIs DEF RoundTrips
  <2> QED BY <1>1, <2>1 DEF Dec!InBytes
<1> QED BY <1>1, <1>2, <1>3, <1>4

\* The decoder is given the bytes of what was sent, and a fresh object or the one sent.
LEMMA BeginInv ==
  ASSUME NEW depth, NEW rank, RoundTrips(depth, rank), Inv, DecodeBegin
  PROVE  Inv' /\ UNCHANGED <<sent, received>>
<1>1. turn \in {"fresh", "again"} /\ UNCHANGED <<turn, rounds, sent, received, encVars>>
  BY DEF DecodeBegin
<1>2. Encoded /\ Encoded'
  BY <1>1 DEF Inv, Flow, Encoded, encVars
<1>3. /\ sent \in Objects /\ sent = [struct |-> sent.struct, value |-> sent.value]
      /\ sent.struct \in DOMAIN Schema
      /\ out = Dec!Format[sent] /\ out \in Seq(Dec!Byte)
  BY <1>2, SentIs DEF Encoded
<1>4. PICK t : /\ t = [struct |-> t.struct, value |-> t.value] /\ t.struct = sent.struct
               /\ t.value \in {Dec!ZeroMessage[sent.struct], sent.value}
               /\ Dec!BeginWith(out, t)
  BY <1>3 DEF DecodeBegin
<1>5. Dec!Decoding'
  <2>1. t.struct \in DOMAIN Schema
    BY <1>3, <1>4
  <2> QED BY <1>3, <1>4, <2>1, CodecAssumption, WidthAssumption, Dec!DecodingBegun DEF RoundTrips, Inv
<1>6. Enc!Writes'
  BY <1>1, EncoderRests DEF Inv, RoundTrips
<1>7. buffer' = out /\ target' = t /\ UNCHANGED <<fault, last>> /\ decPhase' = "parsing"
  BY <1>4 DEF Dec!BeginWith
<1>8. Dec!GivenNow(sent)'
  BY <1>1, <1>3, <1>4, <1>7 DEF Dec!GivenNow, Dec!Given
<1> QED BY <1>1, <1>2, <1>5, <1>6, <1>7, <1>8 DEF Inv, Flow

\* A step of the decoder is one inside the call, or leaves what was sent.
LEMMA DecodeInv ==
  ASSUME NEW depth, NEW rank, RoundTrips(depth, rank), Inv, DecodeStep
  PROVE  /\ Inv'
         /\ UNCHANGED sent /\ (UNCHANGED received \/ received' = sent)
<1>1. Dec!Parse /\ UNCHANGED <<rounds, sent, encVars>>
  BY DEF DecodeStep
<1>2. decPhase = "parsing"
  BY <1>1, CodecAssumption, WidthAssumption, Dec!ParseLeavesAlone DEF Inv, Dec!Decoding
<1>3. turn \in {"fresh", "again"} /\ Dec!GivenNow(sent) /\ Encoded /\ Encoded' /\ Dec!AllOk(last)
  BY <1>1, <1>2 DEF Inv, Flow, Encoded, encVars
<1>4. sent \in Objects /\ sent = [struct |-> sent.struct, value |-> sent.value]
  BY <1>3, SentIs DEF Encoded
<1>5. Dec!Decoding' /\ Enc!Writes'
  BY <1>1, EncoderRests, CodecAssumption, WidthAssumption, Dec!DecodingGoesOn DEF Inv, RoundTrips
<1>6. /\ fault' = "none"
      /\ \/ decPhase' = "parsing" /\ UNCHANGED <<buffer, target, last>>
         \/ /\ decPhase' = "idle" /\ target' = [struct |-> target.struct, value |-> sent.value]
            /\ last'[Len(last')].ok
            /\ Dec!AllOk(last) => Dec!AllOk(last')
  BY <1>1, <1>3, <1>4, CodecAssumption, WidthAssumption, Dec!GivenReturns DEF Inv, RoundTrips
<1>7. CASE decPhase' = "parsing"
  <2>1. UNCHANGED <<buffer, target, last, turn, received>>
    BY <1>6, <1>7 DEF DecodeStep
  <2>2. Dec!GivenNow(sent)'
    BY <1>1, <1>3, <2>1 DEF Dec!GivenNow
  <2> QED BY <1>1, <1>3, <1>5, <1>6, <1>7, <2>1, <2>2 DEF Inv, Flow
<1>8. CASE decPhase' # "parsing"
  <2>1. /\ decPhase' = "idle" /\ target' = [struct |-> target.struct, value |-> sent.value]
        /\ last'[Len(last')].ok /\ Dec!AllOk(last')
    BY <1>3, <1>6, <1>8
  <2>2. target.struct = sent.struct
    BY <1>3 DEF Dec!GivenNow, Dec!Given
  <2>3. received' = sent /\ turn' \in {"again", "done"}
    BY <1>4, <2>1, <2>2 DEF DecodeStep
  <2> QED BY <1>1, <1>3, <1>5, <1>6, <2>1, <2>3 DEF Inv, Flow
<1> QED BY <1>7, <1>8

\* The next round starts with an encoder that has not been called.
LEMMA RoundInv ==
  ASSUME NEW depth, NEW rank, RoundTrips(depth, rank), Inv, NextRound
  PROVE  Inv' /\ UNCHANGED <<sent, received>>
<1> USE DEF NextRound
<1>1. Encoded /\ decPhase = "idle" /\ received = sent /\ fault = "none" /\ Dec!AllOk(last)
  BY DEF Inv, Flow
<1>2. Enc!Writes'
  <2>1. ndebug \in {TRUE} /\ message \in Values
    BY DEF Inv, Enc!Writes, Enc!Kinds, Enc!TypeOK
  <2>2. Enc!Fresh'
    BY <1>1, <2>1 DEF Enc!Fresh, Encoded
  <2> QED BY <2>2, CodecAssumption, WidthAssumption, Enc!FreshNext
<1>3. Dec!Decoding'
  BY DecoderRests DEF Inv
<1> QED BY <1>1, <1>2, <1>3 DEF Inv, Flow, decVars

\* Every step keeps the invariant, and sends, delivers, or changes neither value.
LEMMA InvStep ==
  ASSUME NEW depth, NEW rank, RoundTrips(depth, rank), Inv, [Next]_vars
  PROVE  /\ Inv'
         /\ \/ UNCHANGED <<sent, received>>
            \/ sent' \in Values /\ received = sent /\ UNCHANGED received
            \/ received' = sent /\ UNCHANGED sent
<1>1. CASE EncodeStep
  BY <1>1, EncodeInv
<1>2. CASE DecodeBegin
  BY <1>2, BeginInv
<1>3. CASE DecodeStep
  BY <1>3, DecodeInv
<1>4. CASE NextRound
  BY <1>4, RoundInv
<1>5. CASE UNCHANGED vars
  <2>1. UNCHANGED <<turn, sent, received, encVars, decVars>>
    BY <1>5 DEF vars
  <2>2. Enc!Writes' /\ Dec!Decoding'
    BY <2>1, EncoderRests, DecoderRests DEF Inv, RoundTrips
  <2> QED BY <2>1, <2>2 DEF Inv, Flow, Encoded, encVars, decVars, Dec!GivenNow
<1> QED BY <1>1, <1>2, <1>3, <1>4, <1>5 DEF Next

\* The invariant holds of the program.
THEOREM ProgramInvariant ==
  ASSUME NEW depth, NEW rank, RoundTrips(depth, rank)
  PROVE  Spec => []Inv
<1>1. Inv /\ [Next]_vars => Inv'
  BY InvStep
<1> QED BY <1>1, InvInit, PTL DEF Spec

-----------------------------------------------------------------------------
(* The theorems.                                                             *)

\* assert(b) and assert(b2) of test(): for every schema and any number of rounds, each
\* operator>> returns true and meets no undefined behaviour on the bytes that operator<<
\* has left, whatever the rounds before have left in the bindings of convertMap.
THEOREM AssertionsHold ==
  ASSUME NEW depth, NEW rank, RoundTrips(depth, rank)
  PROVE  Spec => []TesterAsserts
<1>1. Inv => TesterAsserts
  BY DEF Inv, Flow, Encoded, Dec!AllOk, TesterAsserts
<1> QED BY <1>1, ProgramInvariant, PTL

\* The program implements ValueChannel as far as safety goes: its initial states are
\* those of the channel, and each of its steps is a Send, a Deliver or a stutter. What
\* operator>> leaves is always the very value that was encoded last.
THEOREM ValuesArrive ==
  ASSUME NEW depth, NEW rank, RoundTrips(depth, rank)
  PROVE  Spec => Channel!Init /\ [][Channel!Next]_(Channel!channelVars)
<1>1. Init => Channel!Init
  BY DEF Init, Channel!Init
<1>2. Inv /\ [Next]_vars => [Channel!Next]_(Channel!channelVars)
  <2> SUFFICES ASSUME Inv, [Next]_vars PROVE [Channel!Next]_(Channel!channelVars)
    OBVIOUS
  <2> USE DEF Channel!channelVars
  <2>1. CASE UNCHANGED <<sent, received>>
    BY <2>1
  <2>2. CASE sent' \in Values /\ received = sent /\ UNCHANGED received
    BY <2>2 DEF Channel!Next, Channel!Send
  <2>3. CASE received' = sent /\ UNCHANGED sent
    BY <2>3 DEF Channel!Next, Channel!Deliver
  <2> QED BY <2>1, <2>2, <2>3, InvStep
<1> QED BY <1>1, <1>2, ProgramInvariant, PTL DEF Spec
================================================================================

------------------------------- MODULE MC_Codec -------------------------------
(* The codec on the tester's structs, with the numbers of 16 and 24 bits.    *)
(* A value has each has-flag set exactly where the field is not zero: the    *)
(* encoder sends no other flags, and for the same reason there is no -0.0.   *)
EXTENDS Codec, TesterStructs

\* What the generator registers for `repeated int32 ids = 1 [packed = true]`.
IdsItems == <<Vector(1, "int32", TYPE_VARINT, PACKED)>>

\* `repeated float` and `repeated double`.
FloatsItems == <<Vector(1, "float", TYPE_VARINT, 0), Vector(2, "double", TYPE_VARINT, 0)>>

CodecSchema == TesterSchema @@ [Ids |-> IdsItems, Floats |-> FloatsItems]

Long == [i \in 1 .. 126 |-> 7]
SomeExamples ==
  {Flagged(id, str, f, d) : id \in {0, 128, 32767}, str \in {<<>>, <<65, 66>>},
                            f \in {0, 9}, d \in {0, 8388609}}
OneExample  == Flagged(128, <<65>>, 9, 7)
LongExample == Flagged(1, Long, 0, 0)
ZeroExample == Flagged(0, <<>>, 0, 0)
Vectors == {<<>>, <<OneExample, ZeroExample, LongExample>>}
Maps == {<<>>, [k \in {0, 65535} |-> IF k = 0 THEN LongExample ELSE OneExample]}

CodecValues ==
  {[struct |-> "Example", value |-> e] : e \in SomeExamples} \cup
  {[struct |-> "Examples", value |-> Examples(v, m)] : v \in Vectors, m \in Maps}
CodecUnspecified == {0}

\* Users of Ids and of Floats who count what the converters write.
CodecByteSize(struct, m) ==
  CASE struct = "Ids"    -> 2 * Len(m.val[1])
    [] struct = "Floats" -> (1 + Bytes32) * Len(m.val[1]) + (1 + Bytes64) * Len(m.val[2])
    [] OTHER             -> TesterByteSize(struct, m)

NoFlags(val) == [val |-> val, has |-> <<FALSE, FALSE>>]
PackedValues == {[struct |-> "Ids", value |-> [val |-> <<<<5, 6>>>>, has |-> <<FALSE>>]]}
FloatValues ==
  {[struct |-> "Floats", value |-> NoFlags(<<fs, ds>>)] : fs \in {<<>>, <<9, 32768>>}, ds \in {<<>>, <<7, 8388609>>}}

-----------------------------------------------------------------------------
\* The values of the tester, with those they hold.
CodecObjects ==
  CodecValues \cup {[struct |-> "Example", value |-> e] : e \in {OneExample, ZeroExample, LongExample}}
NoObjects == {}

\* They are such as the theorems of CodecProofs suppose: written and read as the
\* format says and counted as they are written; none holds itself, and no struct has
\* itself for a member.
NestingDepth == [m \in Objects |-> IF m.struct = "Examples" THEN 1 ELSE 0]
Rank == [struct \in DOMAIN Schema |-> IF struct = "Examples" THEN 1 ELSE 0]
ASSUME ValuesGoThrough ==
  Objects # {} => Enc!Program(NestingDepth) /\ Dec!Readable(NestingDepth) /\ Dec!Membered(Rank)
===============================================================================

---------------------------- MODULE DecoderProofs ----------------------------
(* Theorems about Decoder, for every schema, every input and every bound.    *)
(*                                                                           *)
(* A step of Parse does one of five things to the stack of parsers, whatever *)
(* the field (ParseDoes): it resumes the innermost one further on, starts a  *)
(* parser of bytes further on, returns to the caller or to the parser below, *)
(* or is undefined.  The invariant is kept by each of the five.              *)
EXTENDS Decoder, WireProofs

-----------------------------------------------------------------------------
(* Stacks of parsers.                                                        *)

IsFrame(f) == f = Frame(f.kind, f.item, f.struct, f.obj, f.cur, f.end)

IsStack(fs) ==
  IsSeq(fs) /\ \A i \in DOMAIN fs : IsFrame(fs[i])

LEMMA StackShape ==
  ASSUME NEW fs, IsStack(fs)
  PROVE  Len(fs) \in Nat /\ DOMAIN fs = 1 .. Len(fs) /\ \A i \in 1 .. Len(fs) : IsFrame(fs[i])
BY DEF IsStack, IsSeq

\* A sequence of parsers is a stack.
LEMMA StackOf ==
  ASSUME NEW S, NEW fs \in Seq(S), \A i \in 1 .. Len(fs) : IsFrame(fs[i])
  PROVE  IsStack(fs)
<1>1. DOMAIN fs = 1 .. Len(fs) /\ IsSeq(fs)
  BY LenProperties, SeqOfItself
<1> QED BY <1>1 DEF IsStack

LEMMA EmptyStack ==
  IsStack(<<>>) /\ Len(<<>>) = 0
<1> DEFINE fs == <<>>
           S == {}
<1>1. fs \in Seq(S) /\ Len(fs) = 0
  OBVIOUS
<1> HIDE DEF fs, S
<1>2. \A i \in 1 .. Len(fs) : IsFrame(fs[i])
  BY <1>1
<1>3. IsStack(fs)
  BY <1>1, <1>2, StackOf
<1> QED BY <1>1, <1>3 DEF fs

LEMMA SingleStack ==
  ASSUME NEW f, IsFrame(f)
  PROVE  IsStack(<<f>>) /\ Len(<<f>>) = 1 /\ <<f>>[1] = f
<1> DEFINE fs == <<f>>
           S == {f}
<1>1. fs \in Seq(S) /\ Len(fs) = 1 /\ fs[1] = f
  OBVIOUS
<1> HIDE DEF fs, S
<1>2. \A i \in 1 .. Len(fs) : IsFrame(fs[i])
  BY <1>1
<1>3. IsStack(fs)
  BY <1>1, <1>2, StackOf
<1> QED BY <1>1, <1>3 DEF fs

\* What Resume, Enter and ReturnToParser make of a stack.
Resumed(fs, pos, obj) ==
  LET f == fs[Len(fs)]
  IN  [fs EXCEPT ![Len(fs)] = Frame(f.kind, f.item, f.struct, obj, pos, f.end)]

Entered(fs, f) == Append([fs EXCEPT ![Len(fs)].cur = f.end], f)

ReturnedTo(fs, obj) == [SubSeq(fs, 1, Len(fs) - 1) EXCEPT ![Len(fs) - 1].obj = obj]

\* One parser goes on elsewhere, the others are as they were.
LEMMA StackResumed ==
  ASSUME NEW fs, IsStack(fs), NEW pos, NEW obj, Len(fs) > 0
  PROVE  /\ IsStack(Resumed(fs, pos, obj)) /\ Len(Resumed(fs, pos, obj)) = Len(fs)
         /\ \A i \in 1 .. Len(fs) : Resumed(fs, pos, obj)[i] = IF i < Len(fs) THEN fs[i] ELSE
              Frame(fs[i].kind, fs[i].item, fs[i].struct, obj, pos, fs[i].end)
<1> DEFINE d == Len(fs)
           gs == Resumed(fs, pos, obj)
           moved == Frame(fs[d].kind, fs[d].item, fs[d].struct, obj, pos, fs[d].end)
           S == {fs[i] : i \in DOMAIN fs} \cup {moved}
<1>1. d \in 1 .. Len(fs) /\ IsFrame(fs[d])
  BY StackShape
<1>3. fs \in Seq(S) /\ moved \in S
  BY SeqMonotonic DEF IsStack, IsSeq
<1>4. IsFrame(moved)
  BY DEF Frame, IsFrame
<1>5. gs = [fs EXCEPT ![d] = moved]
  BY DEF Resumed
<1> HIDE DEF S, moved, gs
<1>6. gs \in Seq(S) /\ Len(gs) = d /\ \A i \in 1 .. d : gs[i] = IF i = d THEN moved ELSE fs[i]
  BY <1>1, <1>3, <1>5, ExceptSeq
<1>7. \A i \in 1 .. Len(gs) : IsFrame(gs[i])
  BY <1>1, <1>4, <1>6, StackShape
<1>8. IsStack(gs)
  BY <1>6, <1>7, StackOf
<1> QED BY <1>1, <1>6, <1>8 DEF moved, gs

\* The innermost parser is behind the bytes of a new one.
LEMMA StackEntered ==
  ASSUME NEW fs, IsStack(fs), Len(fs) > 0, NEW f, IsFrame(f)
  PROVE  /\ IsStack(Entered(fs, f)) /\ Len(Entered(fs, f)) = Len(fs) + 1
         /\ \A i \in 1 .. Len(fs) : Entered(fs, f)[i] =
              IF i < Len(fs) THEN fs[i]
              ELSE Frame(fs[i].kind, fs[i].item, fs[i].struct, fs[i].obj, f.end, fs[i].end)
         /\ Entered(fs, f)[Len(fs) + 1] = f
<1> DEFINE d == Len(fs)
           gs == Entered(fs, f)
           end == f.end
           moved == Frame(fs[d].kind, fs[d].item, fs[d].struct, fs[d].obj, end, fs[d].end)
           new == f
           hs == [fs EXCEPT ![d] = moved]
           S == {fs[i] : i \in DOMAIN fs} \cup {moved, new}
<1>1. d \in 1 .. Len(fs) /\ IsFrame(fs[d]) /\ Len(fs) \in Nat
  BY StackShape
<1>2. [fs[d] EXCEPT !.cur = end] = moved
  BY <1>1 DEF Frame, IsFrame
<1>3. fs \in Seq(S) /\ moved \in S /\ new \in S
  BY SeqMonotonic DEF IsStack, IsSeq
<1>4. IsFrame(moved) /\ IsFrame(new)
  BY DEF Frame, IsFrame
<1>5. gs = Append(hs, new)
  BY <1>2 DEF Entered
<1> HIDE DEF S, moved, new, hs, gs
<1>6. hs \in Seq(S) /\ Len(hs) = d /\ \A i \in 1 .. d : hs[i] = IF i = d THEN moved ELSE fs[i]
  BY <1>1, <1>3, ExceptSeq DEF hs
<1>7. /\ gs \in Seq(S) /\ Len(gs) = d + 1
      /\ gs[d + 1] = new /\ \A i \in 1 .. d : gs[i] = hs[i]
  <2>1. /\ Append(hs, new) \in Seq(S) /\ Len(Append(hs, new)) = Len(hs) + 1
        /\ \A i \in 1 .. Len(hs) : Append(hs, new)[i] = hs[i]
        /\ Append(hs, new)[Len(hs) + 1] = new
    BY <1>3, <1>6, AppendProperties
  <2> QED BY <1>5, <1>6, <2>1
<1>8. \A i \in 1 .. (d + 1) : gs[i] = IF i < d THEN fs[i] ELSE IF i = d THEN moved ELSE new
  <2> TAKE i \in 1 .. (d + 1)
  <2>1. d \in Nat
    BY <1>1
  <2>2. CASE i = d + 1
    BY <1>7, <2>1, <2>2
  <2>3. CASE i # d + 1
    <3>1. i \in 1 .. d
      BY <2>1, <2>3
    <3>2. gs[i] = hs[i] /\ hs[i] = IF i = d THEN moved ELSE fs[i]
      BY <1>6, <1>7, <3>1
    <3> QED BY <2>1, <3>1, <3>2
  <2> QED BY <2>2, <2>3
<1>9. \A i \in 1 .. Len(gs) : IsFrame(gs[i])
  <2>1. \A i \in 1 .. d : IsFrame(fs[i])
    BY StackShape
  <2>2. \A i \in 1 .. (d + 1) : i < d => i \in 1 .. d
    BY <1>1
  <2> QED BY <1>4, <1>7, <1>8, <2>1, <2>2
<1>10. IsStack(gs)
  BY <1>7, <1>9, StackOf
<1>11. \A i \in 1 .. d : gs[i] = IF i < d THEN fs[i] ELSE moved
  BY <1>1, <1>8
<1> QED BY <1>1, <1>7, <1>10, <1>11 DEF moved, new, gs

\* The innermost parser is left, and the one below has another object.
LEMMA StackReturned ==
  ASSUME NEW fs, IsStack(fs), Len(fs) > 1, NEW obj
  PROVE  /\ IsStack(ReturnedTo(fs, obj)) /\ Len(ReturnedTo(fs, obj)) = Len(fs) - 1
         /\ \A i \in 1 .. (Len(fs) - 1) :
              ReturnedTo(fs, obj)[i] = IF i < Len(fs) - 1 THEN fs[i] ELSE
                Frame(fs[i].kind, fs[i].item, fs[i].struct, obj, fs[i].cur, fs[i].end)
<1> DEFINE d == Len(fs)
           gs == ReturnedTo(fs, obj)
           n == d - 1
           hs == SubSeq(fs, 1, n)
           below == Frame(fs[n].kind, fs[n].item, fs[n].struct, obj, fs[n].cur, fs[n].end)
           S == {fs[i] : i \in DOMAIN fs} \cup {below}
<1>1. d = Len(fs) /\ d \in Nat /\ n \in 1 .. Len(fs) /\ IsFrame(fs[n]) /\ n \in Nat
  BY StackShape
<1>2. fs \in Seq(S) /\ below \in S
  BY SeqMonotonic DEF IsStack, IsSeq
<1>3. IsFrame(below)
  BY DEF Frame, IsFrame
<1>4. [fs[n] EXCEPT !.obj = obj] = below
  BY <1>1 DEF Frame, IsFrame
<1> HIDE DEF S, below
<1>5. \A i \in 1 .. n : fs[i] \in S
  BY <1>1, <1>2, ElementOfSeq
<1>6. hs \in Seq(S) /\ Len(hs) = n /\ \A i \in 1 .. n : hs[i] = fs[i]
  BY <1>1, <1>5, SubSeqProperties
<1> HIDE DEF hs
<1>7. gs = [hs EXCEPT ![n] = [hs[n] EXCEPT !.obj = obj]]
  BY DEF hs, ReturnedTo
<1> HIDE DEF n, gs
<1>8. n \in 1 .. n /\ hs[n] = fs[n]
  <2>1. n \in Nat /\ n > 0
    BY <1>1
  <2> QED BY <1>6, <2>1
<1>9. gs = [hs EXCEPT ![n] = below]
  BY <1>4, <1>7, <1>8
<1>10. gs \in Seq(S) /\ Len(gs) = n /\ \A i \in 1 .. n : gs[i] = IF i = n THEN below ELSE fs[i]
  <2>1. /\ [hs EXCEPT ![n] = below] \in Seq(S) /\ Len([hs EXCEPT ![n] = below]) = Len(hs)
        /\ \A i \in 1 .. Len(hs) : [hs EXCEPT ![n] = below][i] = IF i = n THEN below ELSE hs[i]
    BY <1>2, <1>6, <1>8, ExceptSeq
  <2> QED BY <1>6, <1>9, <2>1
<1>11. \A i \in 1 .. Len(gs) : IsFrame(gs[i])
  BY <1>1, <1>3, <1>10, StackShape
<1>12. IsStack(gs)
  BY <1>10, <1>11, StackOf
<1> QED BY <1>1, <1>10, <1>12 DEF below, n, gs

-----------------------------------------------------------------------------
(* The invariant.                                                            *)

\* The parsers of a call.  WindowsNested is kept with the ends as numbers.
InWindow(i) ==
  /\ frames[i].kind \in {"root", "message", "element", "entry"}
  /\ frames[i].cur \in Nat /\ frames[i].end \in Nat
  /\ frames[i].cur <= frames[i].end /\ frames[i].end <= Len(buffer)
  /\ i > 1 => frames[i].end = frames[i - 1].cur

Parsers ==
  /\ IsStack(frames)
  /\ \A i \in 1 .. Depth : InWindow(i)

Calls ==
  /\ phase \in {"idle", "parsing", "undefined"}
  /\ fault \in {"none", "overrun", "mismatch", "stale target"}
  /\ (phase = "undefined") = (fault # "none")
  /\ (phase = "idle") = (frames = <<>>)
  /\ buffer \in Seq(Byte)
  /\ target = [struct |-> target.struct, value |-> target.value]
  /\ target.struct \in DOMAIN Schema
  /\ calls \in 0 .. MaxCalls
  /\ IsSeq(last)
  /\ Len(last) + (IF phase = "idle" THEN 0 ELSE 1) <= calls

\* What the parsers are parsers of: each message, at whatever depth, is held by
\* those around it, and an entry is one of a map of the message around it.
IsMapOf(item, struct) ==
  item.shape = "map" /\ \E n \in DOMAIN Schema[struct] : item = Schema[struct][n]

Messages ==
  /\ \A i \in 1 .. Depth :
       frames[i].kind # "entry" => frames[i].struct \in DOMAIN Schema
  /\ \A i \in 1 .. Depth : frames[i].kind = "entry" =>
       /\ i > 1 /\ frames[i - 1].kind # "entry" /\ IsMapOf(frames[i].item, frames[i - 1].struct)
       /\ TypePair(frames[i].item) \in DOMAIN statics
       /\ i < Depth => /\ frames[i + 1].kind # "entry"
                             /\ frames[i + 1].struct \in {frames[i].item.key, frames[i].item.cpp}
  /\ \A i, j \in 1 .. Depth :
       i < j /\ frames[i].kind # "entry" /\ frames[j].kind # "entry"
         => Holds(frames[i].struct, frames[j].struct)

\* convertMap binds two single fields, of the types of the key and of the value.
Statics ==
  \A pair \in DOMAIN statics :
    /\ statics[pair].owner \in Nat \ {0}
    /\ \A item \in statics[pair].items : item.shape = "single" /\ item.cpp \in {pair[1], pair[2]}

\* A map whose key or value can hold another of the same types.
Recursive(item) ==
  \E struct \in {item.key, item.cpp} : struct \in DOMAIN Schema /\ Holds(struct, struct)

\* The bindings point to the locals of an entry, but of a recursive map.
Owners ==
  \A i \in 1 .. Depth : frames[i].kind = "entry" =>
    statics[TypePair(frames[i].item)].owner = i \/ Recursive(frames[i].item)

IInv == Calls /\ Parsers /\ Messages /\ Statics /\ Owners /\ StaleOnlyIfRecursive
-----------------------------------------------------------------------------
(* What a step of Parse does.                                                *)

Fails ==
  \E why \in {"overrun", "mismatch", "stale target"} :
    Undefined(why) /\ (why = "stale target" => ~OwnsTargets)

Resumes == \E pos \in (Top.cur + 1) .. Top.end : \E obj : Resume(pos, obj)

Enters ==
  \E item \in Bound, pos \in (Top.cur + 2) .. Top.end, end \in Nat :
    /\ pos <= end /\ end <= Top.end
    /\ \/ item.shape = "map" /\ EnterEntry(item, pos, end)
       \/ item.shape # "map" /\ IsMessage(item.cpp) /\ EnterMessage(item, pos, end)

Leaves == \E ok \in BOOLEAN : ReturnToCaller(ok) \/ ReturnToParser(ok)

\* The bytes of a number end behind the position it starts at, in the window.
LEMMA AfterIs ==
  ASSUME NEW pos \in Nat, Top.end \in Nat, Complete(pos)
  PROVE  After(pos) \in (pos + 1) .. Top.end
<1>1. VarintStops(buffer, pos, Top.end) \in SUBSET Nat
  BY DEF VarintStops
<1>2. After(pos) \in VarintStops(buffer, pos, Top.end)
  BY <1>1, MinIs DEF After, Complete
<1> QED BY <1>2 DEF VarintStops

\* What is read as a number is one of 64 bits.
LEMMA NumbersAre ==
  ASSUME NEW pos \in Nat, Top.end \in Nat, Top.end <= Len(buffer), buffer \in Seq(Byte)
  PROVE  Numbers(pos) \subseteq Num64 /\ (Numbers(pos) # {} => Complete(pos))
<1>1. CASE ~Complete(pos)
  BY <1>1 DEF Numbers
<1>2. CASE Complete(pos)
  <2>1. After(pos) \in (pos + 1) .. Top.end
    BY <1>2, AfterIs
  <2> DEFINE bytes == SubSeq(buffer, pos + 1, After(pos))
  <2>2. \A i \in (pos + 1) .. After(pos) : i \in 1 .. Len(buffer)
    BY <2>1
  <2>3. \A i \in (pos + 1) .. After(pos) : buffer[i] \in Byte
    BY <2>2, ElementOfSeq
  <2>4. bytes \in Seq(Byte)
    BY <2>1, <2>3, SubSeqProperties
  <2> HIDE DEF bytes
  <2>5. VarintValue(bytes) \in Num64
    BY <2>4, VarintValueIs
  <2>6. Unspecified \subseteq Num64
    BY DecoderAssumption
  <2> QED BY <1>2, <2>5, <2>6 DEF Numbers, bytes
<1> QED BY <1>1, <1>2

LEMMA ParseDoes ==
  ASSUME Parse, Parsers, buffer \in Seq(Byte), (phase = "idle") = (frames = <<>>)
  PROVE  phase = "parsing" /\ Depth \in Nat \ {0} /\ (Fails \/ Resumes \/ Enters \/ Leaves)
<1>1. phase = "parsing"
  BY DEF Parse, VarintField, FixedField, Fixed64Field, Fixed32Field, DelimitedField, Reject,
         ParseEnd, Reading
<1>2. Depth \in Nat \ {0}
  BY <1>1, StackShape, EmptySeq DEF Parsers, Depth, IsStack, IsSeq
<1> SUFFICES Fails \/ Resumes \/ Enters \/ Leaves
  BY <1>1, <1>2
<1>3. /\ Top.cur \in Nat /\ Top.end \in Nat /\ Top.cur <= Top.end /\ Top.end <= Len(buffer)
  BY <1>2 DEF Parsers, InWindow, Top
<1>4. \A pos \in Nat : /\ Numbers(pos) \subseteq Num64
                       /\ (Numbers(pos) # {} => After(pos) \in (pos + 1) .. Top.end)
  BY <1>3, NumbersAre, AfterIs
<1>5. ASSUME NEW num, NEW u, NEW width, NEW pos \in (Top.cur + 1) .. Top.end,
             CallNumber(num, u, width, pos)
      PROVE  Fails \/ Resumes
  BY <1>5 DEF CallNumber, Fails, Resumes
<1>6. ASSUME NEW num, NEW pos \in (Top.cur + 1) .. Top.end, CallNothing(num, pos)
      PROVE  Resumes
  BY <1>6 DEF CallNothing, Resumes
<1>7. CASE VarintField
  <2>1. PICK tag \in Tags, u \in Numbers(After(Top.cur)) :
          \/ CallNothing(FieldNumber(tag), After(After(Top.cur)))
          \/ CallNumber(FieldNumber(tag), u, Bytes64, After(After(Top.cur)))
    BY <1>7 DEF VarintField
  <2>2. After(Top.cur) \in (Top.cur + 1) .. Top.end
    BY <1>3, <1>4, <2>1 DEF Tags
  <2>3. After(After(Top.cur)) \in (After(Top.cur) + 1) .. Top.end
    BY <1>3, <1>4, <2>1, <2>2
  <2>4. After(After(Top.cur)) \in (Top.cur + 1) .. Top.end
    BY <1>3, <2>2, <2>3
  <2> QED BY <1>5, <1>6, <2>1, <2>4
<1>8. ASSUME NEW wireType, NEW width \in Nat, FixedField(wireType, width)
      PROVE  Fails \/ Resumes
  <2>1. PICK tag \in Tags :
          /\ HasBytes(After(Top.cur), width)
          /\ \/ CallNothing(FieldNumber(tag), After(Top.cur) + width)
             \/ CallNumber(FieldNumber(tag), Fixed32or64(After(Top.cur), width), width,
                           After(Top.cur) + width)
    BY <1>8 DEF FixedField
  <2>2. After(Top.cur) \in (Top.cur + 1) .. Top.end
    BY <1>3, <1>4, <2>1 DEF Tags
  <2>3. After(Top.cur) + width \in (Top.cur + 1) .. Top.end
    BY <1>3, <2>1, <2>2 DEF HasBytes
  <2> QED BY <1>5, <1>6, <2>1, <2>3
<1>9. CASE DelimitedField
  <2>1. PICK tag \in Tags, size \in Numbers(After(Top.cur)) :
          IF HasBytes(After(After(Top.cur)), size)
            THEN \/ CallNothing(FieldNumber(tag), After(After(Top.cur)) + size)
                 \/ CallBytes(FieldNumber(tag), After(After(Top.cur)), After(After(Top.cur)) + size)
            ELSE Undefined("overrun")
    BY <1>9 DEF DelimitedField
  <2> DEFINE pos == After(After(Top.cur))
             end == pos + size
  <2>2. After(Top.cur) \in (Top.cur + 1) .. Top.end
    BY <1>3, <1>4, <2>1 DEF Tags
  <2>3. pos \in (After(Top.cur) + 1) .. Top.end /\ size \in Nat
    <3>1. After(Top.cur) \in Nat
      BY <1>3, <2>2
    <3>2. size \in Num64
      BY <1>4, <2>1, <3>1
    <3>3. size \in Nat
      BY <3>2, WidthsAre DEF Num64
    <3> QED BY <1>4, <2>1, <3>1, <3>3
  <2>4. pos \in (Top.cur + 2) .. Top.end /\ pos \in Nat /\ end \in Nat /\ pos <= end
    BY <1>3, <2>2, <2>3
  <2> HIDE DEF pos, end
  <2>5. CASE ~HasBytes(pos, size)
    BY <2>1, <2>5 DEF Fails, pos
  <2>6. CASE HasBytes(pos, size)
    <3>1. end <= Top.end /\ end \in (Top.cur + 1) .. Top.end
      BY <1>3, <2>3, <2>4, <2>6 DEF HasBytes, end
    <3>2. CASE CallNothing(FieldNumber(tag), end)
      BY <1>6, <3>1, <3>2
    <3>3. CASE CallBytes(FieldNumber(tag), pos, end)
      <4>1. PICK item \in Converter(FieldNumber(tag)) :
              \/ ~OwnsTargets /\ Undefined("stale target")
              \/ \E obj : Resume(end, obj)
              \/ Handed(item, pos, end)
        BY <3>3 DEF CallBytes
      <4>2. item \in Bound
        BY DEF Converter
      <4>3. CASE ~OwnsTargets /\ Undefined("stale target")
        BY <4>3 DEF Fails
      <4>4. CASE \E obj : Resume(end, obj)
        BY <3>1, <4>4 DEF Resumes
      <4>5. CASE Handed(item, pos, end)
        <5>1. CASE item.shape = "map" \/ IsMessage(item.cpp)
          BY <2>4, <3>1, <4>2, <4>5, <5>1 DEF Handed, Enters
        <5>2. CASE ~(item.shape = "map" \/ IsMessage(item.cpp))
          <6>1. \E obj : Resume(end, obj)
            BY <4>5, <5>2 DEF Handed
          <6> QED BY <3>1, <6>1 DEF Resumes
        <5> QED BY <5>1, <5>2
      <4> QED BY <4>1, <4>3, <4>4, <4>5
    <3> QED BY <2>1, <2>6, <3>2, <3>3 DEF pos, end
  <2> QED BY <2>5, <2>6
<1>10. Bytes32 \in Nat /\ Bytes64 \in Nat
  BY WidthsAre
<1>11. CASE Reject \/ ParseEnd
  BY <1>11 DEF Reject, ParseEnd, Leaves
<1> QED
  BY <1>1, <1>2, <1>7, <1>8, <1>9, <1>10, <1>11 DEF Parse, Fixed64Field, Fixed32Field
-----------------------------------------------------------------------------
(* What the steps do to the stack.                                           *)

LEMMA ResumeDoes ==
  ASSUME IsStack(frames), Depth \in Nat \ {0}, NEW pos, NEW obj, Resume(pos, obj)
  PROVE  /\ IsStack(frames') /\ Depth' = Depth
         /\ \A i \in 1 .. Depth :
              /\ frames'[i].kind = frames[i].kind /\ frames'[i].item = frames[i].item
              /\ frames'[i].struct = frames[i].struct /\ frames'[i].end = frames[i].end
              /\ frames'[i].cur = IF i < Depth THEN frames[i].cur ELSE pos
<1>1. frames' = Resumed(frames, pos, obj)
  BY DEF Resume, Resumed, Top, Depth
<1>2. /\ IsStack(frames') /\ Depth' = Depth
      /\ \A i \in 1 .. Depth : frames'[i] = IF i < Depth THEN frames[i] ELSE
           Frame(frames[i].kind, frames[i].item, frames[i].struct, obj, pos, frames[i].end)
  BY <1>1, StackResumed DEF Depth
<1>3. \A i \in 1 .. Depth :
        /\ frames'[i].kind = frames[i].kind /\ frames'[i].item = frames[i].item
        /\ frames'[i].struct = frames[i].struct /\ frames'[i].end = frames[i].end
        /\ frames'[i].cur = IF i < Depth THEN frames[i].cur ELSE pos
  <2> TAKE i \in 1 .. Depth
  <2>1. CASE i < Depth
    BY <1>2, <2>1
  <2>2. CASE ~(i < Depth)
    <3>1. frames'[i] = Frame(frames[i].kind, frames[i].item, frames[i].struct, obj, pos, frames[i].end)
      BY <1>2, <2>2
    <3> QED BY <2>2, <3>1 DEF Frame
  <2> QED BY <2>1, <2>2
<1> QED BY <1>2, <1>3

LEMMA EnterDoes ==
  ASSUME IsStack(frames), Depth \in Nat \ {0},
         NEW kind, NEW item, NEW struct, NEW obj, NEW pos, NEW end,
         Enter(kind, item, struct, obj, pos, end)
  PROVE  /\ IsStack(frames') /\ Depth' = Depth + 1
         /\ \A i \in 1 .. Depth :
              /\ frames'[i].kind = frames[i].kind /\ frames'[i].item = frames[i].item
              /\ frames'[i].struct = frames[i].struct /\ frames'[i].end = frames[i].end
              /\ frames'[i].cur = IF i < Depth THEN frames[i].cur ELSE end
         /\ frames'[Depth + 1] = Frame(kind, item, struct, obj, pos, end)
<1> DEFINE f == Frame(kind, item, struct, obj, pos, end)
<1>1. IsFrame(f) /\ f.end = end
  BY DEF Frame, IsFrame
<1>2. frames' = Entered(frames, f)
  BY <1>1 DEF Enter, Entered, Depth
<1> HIDE DEF f
<1>3. /\ IsStack(frames') /\ Depth' = Depth + 1
      /\ \A i \in 1 .. Depth : frames'[i] =
           IF i < Depth THEN frames[i]
           ELSE Frame(frames[i].kind, frames[i].item, frames[i].struct, frames[i].obj, end, frames[i].end)
      /\ frames'[Depth + 1] = f
  BY <1>1, <1>2, StackEntered DEF Depth
<1>4. \A i \in 1 .. Depth :
        /\ frames'[i].kind = frames[i].kind /\ frames'[i].item = frames[i].item
        /\ frames'[i].struct = frames[i].struct /\ frames'[i].end = frames[i].end
        /\ frames'[i].cur = IF i < Depth THEN frames[i].cur ELSE end
  <2> TAKE i \in 1 .. Depth
  <2>1. CASE i < Depth
    BY <1>3, <2>1
  <2>2. CASE ~(i < Depth)
    <3>1. frames'[i] = Frame(frames[i].kind, frames[i].item, frames[i].struct, frames[i].obj, end, frames[i].end)
          /\ i = Depth
      BY <1>3, <2>2
    <3> QED BY <2>2, <3>1 DEF Frame
  <2> QED BY <2>1, <2>2
<1> QED BY <1>3, <1>4 DEF f

LEMMA ReturnToParserDoes ==
  ASSUME IsStack(frames), NEW ok, ReturnToParser(ok)
  PROVE  /\ IsStack(frames') /\ Depth' = Depth - 1 /\ Depth > 1 /\ Depth \in Nat
         /\ \A i \in 1 .. (Depth - 1) :
              /\ frames'[i].kind = frames[i].kind /\ frames'[i].item = frames[i].item
              /\ frames'[i].struct = frames[i].struct /\ frames'[i].end = frames[i].end
              /\ frames'[i].cur = frames[i].cur
<1> DEFINE obj == Returned(SubSeq(frames, 1, Depth - 1)[Depth - 1].obj, Top, ok)
<1>1. frames' = ReturnedTo(frames, obj)
  BY DEF ReturnToParser, ReturnedTo, Depth
<1>2. Depth > 1 /\ Depth \in Nat
  BY StackShape DEF ReturnToParser, Depth
<1> HIDE DEF obj
<1>3. /\ IsStack(frames') /\ Depth' = Depth - 1
      /\ \A i \in 1 .. (Depth - 1) : frames'[i] = IF i < Depth - 1 THEN frames[i] ELSE
           Frame(frames[i].kind, frames[i].item, frames[i].struct, obj, frames[i].cur, frames[i].end)
  BY <1>1, <1>2, StackReturned DEF Depth
<1>4. \A i \in 1 .. (Depth - 1) :
        /\ frames'[i].kind = frames[i].kind /\ frames'[i].item = frames[i].item
        /\ frames'[i].struct = frames[i].struct /\ frames'[i].end = frames[i].end
        /\ frames'[i].cur = frames[i].cur
  <2> TAKE i \in 1 .. (Depth - 1)
  <2>1. CASE i < Depth - 1
    BY <1>3, <2>1
  <2>2. CASE ~(i < Depth - 1)
    <3>1. frames'[i] = Frame(frames[i].kind, frames[i].item, frames[i].struct, obj,
                             frames[i].cur, frames[i].end)
      BY <1>3, <2>2
    <3> QED BY <3>1 DEF Frame
  <2> QED BY <2>1, <2>2
<1> QED BY <1>2, <1>3, <1>4

LEMMA BeginDoes ==
  ASSUME NEW bytes \in Seq(Byte), NEW t, BeginWith(bytes, t)
  PROVE  /\ IsStack(frames') /\ Depth' = 1 /\ buffer' = bytes /\ Len(bytes) \in Nat
         /\ \E obj : frames'[1] = Frame("root", NoItem, t.struct, obj, 0, Len(bytes))
<1> DEFINE f == Frame("root", NoItem, t.struct, Cleared(t.struct, t.value), 0, Len(bytes))
<1>1. frames' = <<f>> /\ buffer' = bytes
  BY DEF BeginWith
<1>2. IsFrame(f)
  BY DEF Frame, IsFrame
<1>3. Len(bytes) \in Nat
  OBVIOUS
<1> HIDE DEF f
<1>4. IsStack(<<f>>) /\ Len(<<f>>) = 1 /\ <<f>>[1] = f
  BY <1>2, SingleStack
<1> QED BY <1>1, <1>3, <1>4 DEF f, Depth

-----------------------------------------------------------------------------
(* The invariant is kept.                                                    *)

\* Inside a call only the stack and the bindings change.
LEMMA CallsStay ==
  ASSUME Calls, phase = "parsing", phase' = phase, fault' = fault, buffer' = buffer,
         target' = target, last' = last, calls' = calls, frames' # <<>>
  PROVE  Calls'
<1>1. fault = "none" /\ Len(last) + 1 <= calls
  BY DEF Calls
<1> QED BY <1>1 DEF Calls

LEMMA SameDepth ==
  ASSUME frames' = frames
  PROVE  Depth' = Depth
BY DEF Depth

LEMMA NoDepth ==
  /\ frames = <<>> => Depth = 0
  /\ frames' = <<>> => Depth' = 0
BY EmptyStack DEF Depth

LEMMA NotEmpty ==
  ASSUME Depth' > 0
  PROVE  frames' # <<>>
<1>1. frames' = <<>> => Depth' = 0
  BY EmptyStack DEF Depth
<1> QED BY <1>1

\* They are parsers of the same messages and entries, or the lowest of them.
LEMMA SameParsers ==
  ASSUME Messages, Statics, Owners, Depth \in Nat, Depth' \in Nat, Depth' <= Depth,
         statics' = statics,
         \A i \in 1 .. Depth' :
           /\ frames'[i].kind = frames[i].kind /\ frames'[i].item = frames[i].item
           /\ frames'[i].struct = frames[i].struct
  PROVE  Messages' /\ Statics' /\ Owners'
<1>1. \A i \in 1 .. Depth' : /\ i \in 1 .. Depth /\ (i > 1 => i - 1 \in 1 .. Depth')
                            /\ (i < Depth' => i + 1 \in 1 .. Depth' /\ i < Depth)
  OBVIOUS
<1>2. Statics'
  BY DEF Statics
<1>3. Owners'
  BY <1>1 DEF Owners
<1>4. \A i \in 1 .. Depth' : frames'[i].kind = "entry" =>
        /\ i > 1 /\ frames'[i - 1].kind # "entry" /\ IsMapOf(frames'[i].item, frames'[i - 1].struct)
        /\ TypePair(frames'[i].item) \in DOMAIN statics'
        /\ i < Depth' => /\ frames'[i + 1].kind # "entry"
                         /\ frames'[i + 1].struct \in {frames'[i].item.key, frames'[i].item.cpp}
  <2> SUFFICES ASSUME NEW i \in 1 .. Depth', frames'[i].kind = "entry"
               PROVE  /\ i > 1 /\ frames'[i - 1].kind # "entry"
                      /\ IsMapOf(frames'[i].item, frames'[i - 1].struct)
                      /\ TypePair(frames'[i].item) \in DOMAIN statics'
                      /\ i < Depth' =>
                           /\ frames'[i + 1].kind # "entry"
                           /\ frames'[i + 1].struct \in {frames'[i].item.key, frames'[i].item.cpp}
    OBVIOUS
  <2>1. i \in 1 .. Depth /\ frames[i].kind = "entry" /\ frames'[i].item = frames[i].item
    BY <1>1
  <2>2. /\ i > 1 /\ frames[i - 1].kind # "entry" /\ IsMapOf(frames[i].item, frames[i - 1].struct)
        /\ TypePair(frames[i].item) \in DOMAIN statics
        /\ i < Depth => /\ frames[i + 1].kind # "entry"
                        /\ frames[i + 1].struct \in {frames[i].item.key, frames[i].item.cpp}
    BY <2>1 DEF Messages
  <2>3. /\ frames'[i - 1].kind = frames[i - 1].kind /\ frames'[i - 1].struct = frames[i - 1].struct
        /\ i < Depth' => /\ i < Depth /\ frames'[i + 1].kind = frames[i + 1].kind
                         /\ frames'[i + 1].struct = frames[i + 1].struct
    BY <1>1, <2>2
  <2> QED BY <2>1, <2>2, <2>3
<1>5. \A i \in 1 .. Depth' : frames'[i].kind # "entry" => frames'[i].struct \in DOMAIN Schema
  BY <1>1 DEF Messages
<1>6. \A i, j \in 1 .. Depth' :
        i < j /\ frames'[i].kind # "entry" /\ frames'[j].kind # "entry"
          => Holds(frames'[i].struct, frames'[j].struct)
  BY <1>1 DEF Messages
<1> QED BY <1>2, <1>3, <1>4, <1>5, <1>6 DEF Messages

LEMMA InitHolds == Init => IInv
<1> SUFFICES ASSUME Init PROVE IInv
  OBVIOUS
<1>1. target \in Targets
  BY DecoderAssumption DEF Init
<1>2. /\ <<>> \in Seq({}) /\ Len(<<>>) = 0 /\ DOMAIN <<>> = {} /\ <<>> \in Seq(Byte)
  OBVIOUS
<1>3. IsStack(<<>>)
  BY EmptyStack
<1>4. Calls
  <2>1. IsSeq(<<>>)
    BY <1>3 DEF IsStack
  <2> QED BY <1>1, <1>2, <2>1, DecoderAssumption DEF Init, Calls
<1>5. Parsers /\ Messages /\ Owners
  <2>1. frames = <<>> /\ Depth = 0
    BY NoDepth DEF Init
  <2> QED BY <1>3, <2>1 DEF Parsers, Messages, Owners
<1>6. Statics
  BY <1>2 DEF Init, Statics
<1>7. StaleOnlyIfRecursive
  BY DEF Init, StaleOnlyIfRecursive
<1> QED BY <1>4, <1>5, <1>6, <1>7 DEF IInv

\* Of a call on any bytes, into any object.
LEMMA BeginWithKeeps ==
  ASSUME IInv, NEW bytes \in Seq(Byte), NEW t, t = [struct |-> t.struct, value |-> t.value],
         t.struct \in DOMAIN Schema, BeginWith(bytes, t)
  PROVE  IInv'
<1>4. /\ IsStack(frames') /\ Depth' = 1 /\ buffer' = bytes /\ Len(bytes) \in Nat
      /\ \E obj : frames'[1] = Frame("root", NoItem, t.struct, obj, 0, Len(bytes))
  BY BeginDoes
<1>5. /\ frames'[1].kind = "root" /\ frames'[1].struct = t.struct
      /\ frames'[1].cur = 0 /\ frames'[1].end = Len(bytes)
  BY <1>4 DEF Frame
<1>6. Calls'
  <2>1. /\ phase' = "parsing" /\ phase = "idle" /\ fault' = fault /\ target' = t
        /\ calls' = calls + 1 /\ calls < MaxCalls /\ last' = last
    BY DEF BeginWith
  <2>2. frames' # <<>>
    BY <1>4, NotEmpty
  <2>3. IsSeq(last) /\ Len(last) + 0 <= calls /\ calls \in 0 .. MaxCalls /\ fault = "none"
    <3>1. (IF phase = "idle" THEN 0 ELSE 1) = 0
      BY <2>1
    <3> QED BY <2>1, <3>1 DEF IInv, Calls
  <2>4. Len(last) \in Nat /\ MaxCalls \in Nat
    BY <2>3, DecoderAssumption DEF IsSeq
  <2>5. calls' \in 0 .. MaxCalls /\ Len(last') + 1 <= calls'
    BY <2>1, <2>3, <2>4
  <2> QED BY <1>4, <2>1, <2>2, <2>3, <2>5 DEF Calls
<1>7. Parsers'
  BY <1>4, <1>5 DEF Parsers, InWindow
<1>8. Messages' /\ Owners'
  BY <1>4, <1>5 DEF Messages, Owners
<1>9. Statics' /\ StaleOnlyIfRecursive'
  BY DEF BeginWith, IInv, Statics, StaleOnlyIfRecursive, Calls
<1> QED BY <1>6, <1>7, <1>8, <1>9 DEF IInv

LEMMA BeginKeeps ==
  ASSUME IInv, Begin
  PROVE  IInv'
<1>1. PICK inp \in Inputs, t \in Targets \cup {target} :
        t.struct = inp.struct /\ BeginWith(inp.bytes, t)
  BY DEF Begin
<1> DEFINE bytes == inp.bytes
<1>2. /\ bytes \in Seq(Byte)
      /\ t = [struct |-> t.struct, value |-> t.value] /\ t.struct \in DOMAIN Schema
  BY <1>1, DecoderAssumption DEF IInv, Calls
<1>3. BeginWith(bytes, t)
  BY <1>1
<1> HIDE DEF bytes
<1> QED BY <1>2, <1>3, BeginWithKeeps

LEMMA FailsKeeps ==
  ASSUME IInv, phase = "parsing", Depth \in Nat \ {0}, Fails
  PROVE  IInv'
<1>0. Depth \in 1 .. Depth
  OBVIOUS
<1>1. PICK why \in {"overrun", "mismatch", "stale target"} :
        Undefined(why) /\ (why = "stale target" => ~OwnsTargets)
  BY DEF Fails
<1>2. /\ phase' = "undefined" /\ fault' = why /\ buffer' = buffer /\ target' = target
      /\ frames' = frames /\ statics' = statics /\ last' = last /\ calls' = calls
  BY <1>1 DEF Undefined
<1>3. Calls'
  BY <1>2 DEF IInv, Calls
<1>4. Parsers' /\ Messages' /\ Statics' /\ Owners'
  <2>1. Depth' = Depth
    BY <1>2, SameDepth
  <2> QED BY <1>2, <2>1 DEF IInv, Parsers, InWindow, Messages, Statics, Owners
<1>5. why = "stale target" => Top.kind = "entry" /\ Recursive(Top.item)
  <2>2. Top.kind = "entry" => statics[TypePair(Top.item)].owner = Depth \/ Recursive(Top.item)
    BY <1>0 DEF IInv, Owners, Top
  <2> QED BY <1>1, <2>2 DEF OwnsTargets
<1>6. StaleOnlyIfRecursive'
  BY <1>2, <1>5 DEF StaleOnlyIfRecursive, Recursive, Top, Depth
<1> QED BY <1>3, <1>4, <1>6 DEF IInv

LEMMA ResumesKeeps ==
  ASSUME IInv, phase = "parsing", Depth \in Nat \ {0}, Resumes
  PROVE  IInv'
<1>1. PICK pos \in (Top.cur + 1) .. Top.end : \E obj : Resume(pos, obj)
  BY DEF Resumes
<1>2. PICK obj : Resume(pos, obj)
  BY <1>1
<1>3. /\ IsStack(frames') /\ Depth' = Depth
      /\ \A i \in 1 .. Depth :
           /\ frames'[i].kind = frames[i].kind /\ frames'[i].item = frames[i].item
           /\ frames'[i].struct = frames[i].struct /\ frames'[i].end = frames[i].end
           /\ frames'[i].cur = IF i < Depth THEN frames[i].cur ELSE pos
  BY <1>2, ResumeDoes DEF IInv, Parsers
<1>4. /\ phase' = phase /\ fault' = fault /\ buffer' = buffer /\ target' = target
      /\ statics' = statics /\ last' = last /\ calls' = calls
  BY <1>2 DEF Resume
<1>5. Calls'
  BY <1>3, <1>4, NotEmpty, CallsStay DEF IInv
<1>6. Parsers'
  <2>1. \A i \in 1 .. Depth : InWindow(i)
    BY DEF IInv, Parsers
  <2>2. \A i \in 1 .. Depth : i > 1 => i - 1 \in 1 .. Depth /\ i - 1 < Depth
    OBVIOUS
  <2>3. pos \in Nat /\ pos <= frames[Depth].end
    BY <1>1, <2>1 DEF InWindow, Top
  <2>4. \A i \in 1 .. Depth : InWindow(i)'
    <3> TAKE i \in 1 .. Depth
    <3>1. /\ frames'[i].kind = frames[i].kind /\ frames'[i].end = frames[i].end
          /\ frames'[i].cur = IF i < Depth THEN frames[i].cur ELSE pos
          /\ i > 1 => frames'[i - 1].cur = frames[i - 1].cur
      BY <1>3, <2>2
    <3>2. i < Depth \/ i = Depth
      OBVIOUS
    <3> QED BY <1>4, <2>1, <2>3, <3>1, <3>2 DEF InWindow
  <2> QED BY <1>3, <2>4 DEF Parsers
<1>7. Messages' /\ Statics' /\ Owners'
  BY <1>3, <1>4, SameParsers DEF IInv
<1>8. StaleOnlyIfRecursive'
  BY <1>4 DEF IInv, Calls, StaleOnlyIfRecursive
<1> QED BY <1>5, <1>6, <1>7, <1>8 DEF IInv

LEMMA LeavesKeeps ==
  ASSUME IInv, phase = "parsing", Depth \in Nat \ {0}, Leaves
  PROVE  IInv'
<1>1. PICK ok \in BOOLEAN : ReturnToCaller(ok) \/ ReturnToParser(ok)
  BY DEF Leaves
<1>2. CASE ReturnToCaller(ok)
  <2> DEFINE done == [struct |-> target.struct, bytes |-> buffer,
                      before |-> target.value, ok |-> ok, after |-> Top.obj]
  <2>1. /\ phase' = "idle" /\ frames' = <<>> /\ fault' = fault /\ buffer' = buffer
        /\ statics' = statics /\ calls' = calls
        /\ target' = [target EXCEPT !.value = Top.obj] /\ last' = Append(last, done)
    BY <1>2 DEF ReturnToCaller
  <2>2. target' = [struct |-> target.struct, value |-> Top.obj]
    BY <2>1 DEF IInv, Calls
  <2> HIDE DEF done
  <2>3. Len(last') = Len(last) + 1 /\ Len(last) \in Nat
        /\ IsSeq(last')
    <3>1. IsSeq(last)
      BY DEF IInv, Calls
    <3> QED BY <2>1, <3>1, AppendIsSeq
  <2>4. Calls'
    <3>1. fault = "none" /\ Len(last) + 1 <= calls /\ calls \in 0 .. MaxCalls
      BY DEF IInv, Calls
    <3>2. Len(last') + 0 <= calls'
      BY <2>1, <2>3, <3>1
    <3> QED BY <2>1, <2>2, <2>3, <3>1, <3>2 DEF IInv, Calls
  <2>6. IsStack(frames') /\ Depth' = 0
    BY <2>1, EmptyStack, NoDepth
  <2>7. Parsers' /\ Messages' /\ Owners'
    BY <2>6 DEF Parsers, Messages, Owners
  <2>8. Statics' /\ StaleOnlyIfRecursive'
    BY <2>1 DEF IInv, Statics, Calls, StaleOnlyIfRecursive
  <2> QED BY <2>4, <2>7, <2>8 DEF IInv
<1>3. CASE ReturnToParser(ok)
  <2>1. /\ phase' = phase /\ fault' = fault /\ buffer' = buffer /\ target' = target
        /\ statics' = statics /\ last' = last /\ calls' = calls
    BY <1>3 DEF ReturnToParser
  <2>2. /\ IsStack(frames') /\ Depth' = Depth - 1 /\ Depth > 1 /\ Depth \in Nat
        /\ \A i \in 1 .. (Depth - 1) :
             /\ frames'[i].kind = frames[i].kind /\ frames'[i].item = frames[i].item
             /\ frames'[i].struct = frames[i].struct /\ frames'[i].end = frames[i].end
             /\ frames'[i].cur = frames[i].cur
    BY <1>3, ReturnToParserDoes DEF IInv, Parsers
  <2>3. Calls'
    <3>1. Depth' > 0
      BY <2>2
    <3> QED BY <2>1, <3>1, NotEmpty, CallsStay DEF IInv
  <2>4. Parsers'
    <3>1. \A i \in 1 .. (Depth - 1) : InWindow(i)
      BY <2>2 DEF IInv, Parsers
    <3>2. \A i \in 1 .. (Depth - 1) : i > 1 => i - 1 \in 1 .. (Depth - 1)
      BY <2>2
    <3>3. \A i \in 1 .. (Depth - 1) : InWindow(i)'
      BY <2>1, <2>2, <3>1, <3>2 DEF InWindow
    <3> QED BY <2>2, <3>3 DEF Parsers
  <2>5. Messages' /\ Statics' /\ Owners'
    BY <2>1, <2>2, SameParsers DEF IInv
  <2>7. StaleOnlyIfRecursive'
    BY <2>1 DEF IInv, Calls, StaleOnlyIfRecursive
  <2> QED BY <2>3, <2>4, <2>5, <2>7 DEF IInv
<1> QED BY <1>1, <1>2, <1>3

\* Whom an object holds is held by whoever holds it.
LEMMA HoldsNext ==
  ASSUME NEW struct \in DOMAIN Schema, NEW other \in DOMAIN Schema,
         NEW n \in DOMAIN Schema[struct], other \in {Schema[struct][n].cpp, Schema[struct][n].key}
  PROVE  /\ Holds(struct, other)
         /\ \A s \in DOMAIN Schema : Holds(s, struct) => Holds(s, other)
<1>1. \A structs : struct \in structs => other \in HeldBy(structs)
  BY DEF HeldBy
<1> QED BY <1>1 DEF Holds

\* The field that a nested parser is called for is one of the message around it: of
\* the innermost parser, or of the parser below the entry that is innermost.
LEMMA EntersFrom ==
  ASSUME IInv, Depth \in Nat \ {0}, NEW item \in Bound
  PROVE  /\ Top.kind = "entry" => item.shape = "single" /\ item.cpp \in {Top.item.key, Top.item.cpp}
         /\ Top.kind # "entry" => \E n \in DOMAIN Schema[Top.struct] : item = Schema[Top.struct][n]
<1>1. CASE Top.kind = "entry"
  <2>1. TypePair(Top.item) \in DOMAIN statics
    BY <1>1 DEF IInv, Messages, Top
  <2>2. item \in statics[TypePair(Top.item)].items
    BY <1>1 DEF Bound
  <2> QED BY <1>1, <2>1, <2>2 DEF IInv, Statics, TypePair
<1>2. CASE Top.kind # "entry"
  <2>1. Top.struct \in DOMAIN Schema
    BY <1>2 DEF IInv, Messages, Top
  <2>2. item \in BoundItems[Top.struct]
    BY <1>2 DEF Bound
  <2> QED BY <1>2, <2>1, <2>2 DEF BoundItems
<1> QED BY <1>1, <1>2

\* A parser that starts where the field of another one is.
LEMMA EnterKeeps ==
  ASSUME IInv, Depth \in Nat \ {0}, phase = "parsing", NEW kind \in {"message", "element", "entry"},
         NEW item, NEW struct, NEW obj, NEW pos \in (Top.cur + 2) .. Top.end, NEW end \in Nat,
         pos <= end, end <= Top.end, Enter(kind, item, struct, obj, pos, end)
  PROVE  Calls' /\ Parsers' /\ StaleOnlyIfRecursive'
<1>1. /\ phase' = phase /\ fault' = fault /\ buffer' = buffer /\ target' = target
      /\ last' = last /\ calls' = calls
  BY DEF Enter
<1>2. /\ IsStack(frames') /\ Depth' = Depth + 1
      /\ \A i \in 1 .. Depth :
           /\ frames'[i].kind = frames[i].kind /\ frames'[i].item = frames[i].item
           /\ frames'[i].struct = frames[i].struct /\ frames'[i].end = frames[i].end
           /\ frames'[i].cur = IF i < Depth THEN frames[i].cur ELSE end
      /\ frames'[Depth + 1] = Frame(kind, item, struct, obj, pos, end)
  BY EnterDoes DEF IInv, Parsers
<1>3. Calls'
  <2>1. Depth' > 0
    BY <1>2
  <2> QED BY <1>1, <2>1, NotEmpty, CallsStay DEF IInv
<1>4. /\ frames'[Depth + 1].kind = kind /\ frames'[Depth + 1].cur = pos
      /\ frames'[Depth + 1].end = end
  BY <1>2 DEF Frame
<1>5. /\ Top.cur \in Nat /\ Top.end \in Nat /\ Top.end <= Len(buffer) /\ pos \in Nat
  BY DEF IInv, Parsers, InWindow, Top
<1>6. Parsers'
  <2>1. \A i \in 1 .. Depth : InWindow(i)
    BY DEF IInv, Parsers
  <2>2. \A i \in 1 .. Depth : i > 1 => i - 1 \in 1 .. Depth /\ i - 1 < Depth
    OBVIOUS
  <2>3. \A i \in 1 .. Depth : InWindow(i)'
    <3> TAKE i \in 1 .. Depth
    <3>1. /\ frames'[i].kind = frames[i].kind /\ frames'[i].end = frames[i].end
          /\ frames'[i].cur = IF i < Depth THEN frames[i].cur ELSE end
          /\ i > 1 => frames'[i - 1].cur = frames[i - 1].cur
      BY <1>2, <2>2
    <3>2. i < Depth \/ i = Depth
      OBVIOUS
    <3> QED BY <1>1, <2>1, <3>1, <3>2 DEF InWindow, Top
  <2>4. \A i : i = Depth + 1 => InWindow(i)'
    <3>0. SUFFICES ASSUME NEW i, i = Depth + 1 PROVE InWindow(i)'
      OBVIOUS
    <3>1. i - 1 = Depth /\ Depth \in 1 .. Depth /\ ~(Depth < Depth) /\ end <= Len(buffer)
      BY <1>5, <3>0
    <3>2. frames'[i - 1].cur = end
      BY <1>2, <3>1
    <3>3. pos \in Nat /\ pos <= end
      BY <1>5
    <3> QED BY <1>1, <1>4, <3>0, <3>1, <3>2, <3>3 DEF InWindow
  <2>5. \A i \in 1 .. (Depth + 1) : i \in 1 .. Depth \/ i = Depth + 1
    OBVIOUS
  <2>6. \A i \in 1 .. Depth' : InWindow(i)'
    <3> TAKE i \in 1 .. Depth'
    <3>1. i \in 1 .. (Depth + 1)
      BY <1>2
    <3> QED BY <2>3, <2>4, <2>5, <3>1
  <2> QED BY <1>2, <2>6 DEF Parsers
<1>7. StaleOnlyIfRecursive'
  BY <1>1 DEF IInv, Calls, StaleOnlyIfRecursive
<1> QED BY <1>3, <1>6, <1>7

LEMMA EnterMessageKeeps ==
  ASSUME IInv, Depth \in Nat \ {0}, phase = "parsing", NEW item \in Bound,
         NEW pos \in (Top.cur + 2) .. Top.end, NEW end \in Nat, pos <= end, end <= Top.end,
         item.shape # "map", IsMessage(item.cpp), EnterMessage(item, pos, end)
  PROVE  IInv'
<1>1. /\ statics' = statics
      /\ \E kind \in {"message", "element"} : \E obj : Enter(kind, item, item.cpp, obj, pos, end)
  BY DEF EnterMessage
<1>0. PICK kind \in {"message", "element"} : \E obj : Enter(kind, item, item.cpp, obj, pos, end)
  BY <1>1
<1>2. PICK obj : Enter(kind, item, item.cpp, obj, pos, end)
  BY <1>0
<1>3. Calls' /\ Parsers' /\ StaleOnlyIfRecursive'
  BY <1>2, EnterKeeps
<1>4. /\ Depth' = Depth + 1
      /\ \A i \in 1 .. Depth :
           /\ frames'[i].kind = frames[i].kind /\ frames'[i].item = frames[i].item
           /\ frames'[i].struct = frames[i].struct
      /\ frames'[Depth + 1].kind = kind /\ frames'[Depth + 1].struct = item.cpp
  <2>1. /\ Depth' = Depth + 1
        /\ \A i \in 1 .. Depth :
             /\ frames'[i].kind = frames[i].kind /\ frames'[i].item = frames[i].item
             /\ frames'[i].struct = frames[i].struct
        /\ frames'[Depth + 1] = Frame(kind, item, item.cpp, obj, pos, end)
    BY <1>2, EnterDoes DEF IInv, Parsers
  <2> QED BY <2>1 DEF Frame
<1> DEFINE d == IF Top.kind = "entry" THEN Depth - 1 ELSE Depth
<1>5. /\ d \in 1 .. Depth /\ frames[d].kind # "entry" /\ frames[d].struct \in DOMAIN Schema
      /\ item.cpp \in DOMAIN Schema
      /\ \E n \in DOMAIN Schema[frames[d].struct] :
           item.cpp \in {Schema[frames[d].struct][n].cpp, Schema[frames[d].struct][n].key}
  <2>1. CASE Top.kind = "entry"
    <3>1. /\ Depth > 1 /\ frames[Depth - 1].kind # "entry"
          /\ IsMapOf(Top.item, frames[Depth - 1].struct)
          /\ frames[Depth - 1].struct \in DOMAIN Schema
      BY <2>1 DEF IInv, Messages, Top
    <3>2. PICK n \in DOMAIN Schema[frames[Depth - 1].struct] :
            Top.item = Schema[frames[Depth - 1].struct][n] /\ Top.item.shape = "map"
      BY <3>1 DEF IsMapOf
    <3>3. item.cpp \in {Top.item.cpp, Top.item.key}
      BY <2>1, EntersFrom
    <3>4. item.cpp \in DOMAIN Schema
      BY <3>1, <3>2, <3>3, DecoderAssumption
    <3> QED BY <2>1, <3>1, <3>2, <3>3, <3>4
  <2>2. CASE Top.kind # "entry"
    <3>1. frames[Depth].struct \in DOMAIN Schema
      BY <2>2 DEF IInv, Messages, Top
    <3>2. PICK n \in DOMAIN Schema[frames[Depth].struct] : item = Schema[frames[Depth].struct][n]
      BY <2>2, EntersFrom DEF Top
    <3>3. item.cpp \in DOMAIN Schema
      BY <3>1, <3>2, DecoderAssumption
    <3> QED BY <2>2, <3>1, <3>2, <3>3 DEF Top
  <2> QED BY <2>1, <2>2
<1>6. \A i \in 1 .. Depth : frames[i].kind # "entry" => Holds(frames[i].struct, item.cpp)
  <2> SUFFICES ASSUME NEW i \in 1 .. Depth, frames[i].kind # "entry"
               PROVE  Holds(frames[i].struct, item.cpp)
    OBVIOUS
  <2>1. i <= d
    BY <1>5 DEF Top
  <2>2. frames[i].struct \in DOMAIN Schema /\ (i < d => Holds(frames[i].struct, frames[d].struct))
    BY <1>5 DEF IInv, Messages
  <2>3. i < d \/ i = d
    BY <1>5, <2>1
  <2> HIDE DEF d
  <2> QED BY <1>5, <2>2, <2>3, HoldsNext
<1>7. Messages'
  <2>1. \A i \in 1 .. (Depth + 1) :
          frames'[i].kind # "entry" => frames'[i].struct \in DOMAIN Schema
    <3>1. \A i \in 1 .. (Depth + 1) : i \in 1 .. Depth \/ i = Depth + 1
      OBVIOUS
    <3>2. \A i \in 1 .. Depth : frames[i].kind # "entry" => frames[i].struct \in DOMAIN Schema
      BY DEF IInv, Messages
    <3> HIDE DEF d
    <3> QED BY <1>4, <1>5, <3>1, <3>2
  <2>2. \A i \in 1 .. (Depth + 1) : frames'[i].kind = "entry" =>
          /\ i > 1 /\ frames'[i - 1].kind # "entry" /\ IsMapOf(frames'[i].item, frames'[i - 1].struct)
          /\ TypePair(frames'[i].item) \in DOMAIN statics
          /\ i < Depth + 1 => /\ frames'[i + 1].kind # "entry"
                              /\ frames'[i + 1].struct \in {frames'[i].item.key, frames'[i].item.cpp}
    <3> SUFFICES ASSUME NEW i \in 1 .. (Depth + 1), frames'[i].kind = "entry"
                 PROVE  /\ i > 1 /\ frames'[i - 1].kind # "entry"
                        /\ IsMapOf(frames'[i].item, frames'[i - 1].struct)
                        /\ TypePair(frames'[i].item) \in DOMAIN statics
                        /\ i < Depth + 1 =>
                             /\ frames'[i + 1].kind # "entry"
                             /\ frames'[i + 1].struct \in {frames'[i].item.key, frames'[i].item.cpp}
      OBVIOUS
    <3>1. i \in 1 .. Depth /\ frames[i].kind = "entry"
      BY <1>4
    <3>2. /\ i > 1 /\ frames[i - 1].kind # "entry" /\ IsMapOf(frames[i].item, frames[i - 1].struct)
          /\ TypePair(frames[i].item) \in DOMAIN statics
          /\ i < Depth => /\ frames[i + 1].kind # "entry"
                          /\ frames[i + 1].struct \in {frames[i].item.key, frames[i].item.cpp}
      BY <3>1 DEF IInv, Messages
    <3>3. i - 1 \in 1 .. Depth /\ (i < Depth => i + 1 \in 1 .. Depth)
      BY <3>1, <3>2
    <3>4. i = Depth => item.cpp \in {frames[i].item.key, frames[i].item.cpp}
      BY <3>1, EntersFrom DEF Top
    <3> QED BY <1>4, <3>1, <3>2, <3>3, <3>4
  <2>3. \A i, j \in 1 .. (Depth + 1) :
          i < j /\ frames'[i].kind # "entry" /\ frames'[j].kind # "entry"
            => Holds(frames'[i].struct, frames'[j].struct)
    <3> SUFFICES ASSUME NEW i \in 1 .. (Depth + 1), NEW j \in 1 .. (Depth + 1), i < j,
                        frames'[i].kind # "entry", frames'[j].kind # "entry"
                 PROVE  Holds(frames'[i].struct, frames'[j].struct)
      OBVIOUS
    <3>1. i \in 1 .. Depth /\ frames[i].kind # "entry" /\ frames'[i].struct = frames[i].struct
      BY <1>4
    <3>2. CASE j = Depth + 1
      BY <1>4, <1>6, <3>1, <3>2
    <3>3. CASE j # Depth + 1
      <4>1. j \in 1 .. Depth /\ frames[j].kind # "entry" /\ frames'[j].struct = frames[j].struct
        BY <1>4, <3>3
      <4> QED BY <3>1, <4>1 DEF IInv, Messages
    <3> QED BY <3>2, <3>3
  <2> QED BY <1>1, <1>4, <2>1, <2>2, <2>3 DEF Messages
<1>8. Statics' /\ Owners'
  BY <1>1, <1>4 DEF IInv, Statics, Owners
<1> QED BY <1>3, <1>7, <1>8 DEF IInv

LEMMA EnterEntryKeeps ==
  ASSUME IInv, Depth \in Nat \ {0}, phase = "parsing", NEW item \in Bound,
         NEW pos \in (Top.cur + 2) .. Top.end, NEW end \in Nat, pos <= end, end <= Top.end,
         item.shape = "map", EnterEntry(item, pos, end)
  PROVE  IInv'
<1>1. /\ statics' = Rebound(item)
      /\ \E obj : Enter("entry", item, "none", obj, pos, end)
  BY DEF EnterEntry
<1>2. PICK obj : Enter("entry", item, "none", obj, pos, end)
  BY <1>1
<1>3. Calls' /\ Parsers' /\ StaleOnlyIfRecursive'
  BY <1>2, EnterKeeps
<1>4. /\ Depth' = Depth + 1
      /\ \A i \in 1 .. Depth :
           /\ frames'[i].kind = frames[i].kind /\ frames'[i].item = frames[i].item
           /\ frames'[i].struct = frames[i].struct
      /\ frames'[Depth + 1].kind = "entry" /\ frames'[Depth + 1].item = item
  <2>1. /\ Depth' = Depth + 1
        /\ \A i \in 1 .. Depth :
             /\ frames'[i].kind = frames[i].kind /\ frames'[i].item = frames[i].item
             /\ frames'[i].struct = frames[i].struct
        /\ frames'[Depth + 1] = Frame("entry", item, "none", obj, pos, end)
    BY <1>2, EnterDoes DEF IInv, Parsers
  <2> QED BY <2>1 DEF Frame
<1>5. Top.kind # "entry" /\ \E n \in DOMAIN Schema[Top.struct] : item = Schema[Top.struct][n]
  BY EntersFrom
<1>6. IsMapOf(item, Top.struct)
  BY <1>5 DEF IsMapOf
<1>7. /\ DOMAIN statics' = DOMAIN statics \cup {TypePair(item)}
      /\ \A pair \in DOMAIN statics' :
           statics'[pair] = IF pair = TypePair(item)
                              THEN [items |-> EntryItems(item), owner |-> Depth + 1]
                              ELSE statics[pair]
  BY <1>1 DEF Rebound
<1>8. Messages'
  <2>1. \A i \in 1 .. (Depth + 1) :
          frames'[i].kind # "entry" => frames'[i].struct \in DOMAIN Schema
    BY <1>4 DEF IInv, Messages
  <2>2. \A i \in 1 .. (Depth + 1) : frames'[i].kind = "entry" =>
          /\ i > 1 /\ frames'[i - 1].kind # "entry" /\ IsMapOf(frames'[i].item, frames'[i - 1].struct)
          /\ TypePair(frames'[i].item) \in DOMAIN statics'
          /\ i < Depth + 1 => /\ frames'[i + 1].kind # "entry"
                              /\ frames'[i + 1].struct \in {frames'[i].item.key, frames'[i].item.cpp}
    <3> SUFFICES ASSUME NEW i \in 1 .. (Depth + 1), frames'[i].kind = "entry"
                 PROVE  /\ i > 1 /\ frames'[i - 1].kind # "entry"
                        /\ IsMapOf(frames'[i].item, frames'[i - 1].struct)
                        /\ TypePair(frames'[i].item) \in DOMAIN statics'
                        /\ i < Depth + 1 =>
                             /\ frames'[i + 1].kind # "entry"
                             /\ frames'[i + 1].struct \in {frames'[i].item.key, frames'[i].item.cpp}
      OBVIOUS
    <3>1. CASE i = Depth + 1
      <4>1. i - 1 = Depth /\ Depth \in 1 .. Depth /\ i > 1 /\ ~(i < Depth + 1)
        BY <3>1
      <4>2. frames'[Depth].kind # "entry" /\ IsMapOf(item, frames'[Depth].struct)
        BY <1>4, <1>5, <1>6, <4>1 DEF Top
      <4>3. frames'[i].item = item
        BY <1>4, <3>1
      <4> QED BY <1>7, <4>1, <4>2, <4>3
    <3>2. CASE i # Depth + 1
      <4>1. i \in 1 .. Depth /\ frames[i].kind = "entry"
        BY <1>4, <3>2
      <4>2. /\ i > 1 /\ frames[i - 1].kind # "entry" /\ IsMapOf(frames[i].item, frames[i - 1].struct)
            /\ TypePair(frames[i].item) \in DOMAIN statics
            /\ i < Depth => /\ frames[i + 1].kind # "entry"
                            /\ frames[i + 1].struct \in {frames[i].item.key, frames[i].item.cpp}
        BY <4>1 DEF IInv, Messages
      <4>3. i # Depth
        BY <1>5, <4>1 DEF Top
      <4>4. i - 1 \in 1 .. Depth /\ i + 1 \in 1 .. Depth /\ i < Depth
        BY <4>1, <4>2, <4>3
      <4> QED BY <1>4, <1>7, <4>1, <4>2, <4>4
    <3> QED BY <3>1, <3>2
  <2>3. \A i, j \in 1 .. (Depth + 1) :
          i < j /\ frames'[i].kind # "entry" /\ frames'[j].kind # "entry"
            => Holds(frames'[i].struct, frames'[j].struct)
    <3> SUFFICES ASSUME NEW i \in 1 .. (Depth + 1), NEW j \in 1 .. (Depth + 1), i < j,
                        frames'[i].kind # "entry", frames'[j].kind # "entry"
                 PROVE  Holds(frames'[i].struct, frames'[j].struct)
      OBVIOUS
    <3>1. i \in 1 .. Depth /\ frames[i].kind # "entry" /\ frames'[i].struct = frames[i].struct
      BY <1>4
    <3>2. j \in 1 .. Depth /\ frames[j].kind # "entry" /\ frames'[j].struct = frames[j].struct
      BY <1>4
    <3> QED BY <3>1, <3>2 DEF IInv, Messages
  <2> QED BY <1>4, <2>1, <2>2, <2>3 DEF Messages
<1>9. Statics'
  <2>1. \A f \in EntryItems(item) : f.shape = "single" /\ f.cpp \in {item.key, item.cpp}
    BY DEF EntryItems, EntryItem, IInv, Statics, TypePair
  <2> SUFFICES ASSUME NEW pair \in DOMAIN statics'
               PROVE  /\ statics'[pair].owner \in Nat \ {0}
                      /\ \A f \in statics'[pair].items : f.shape = "single" /\ f.cpp \in {pair[1], pair[2]}
    BY DEF Statics
  <2>2. CASE pair = TypePair(item)
    BY <1>7, <2>1, <2>2 DEF TypePair
  <2>3. CASE pair # TypePair(item)
    BY <1>7, <2>3 DEF IInv, Statics
  <2> QED BY <2>2, <2>3
<1>10. Owners'
  <2> SUFFICES ASSUME NEW i \in 1 .. (Depth + 1), frames'[i].kind = "entry"
               PROVE  statics'[TypePair(frames'[i].item)].owner = i \/ Recursive(frames'[i].item)
    BY <1>4 DEF Owners
  <2>1. CASE i = Depth + 1
    BY <1>4, <1>7, <2>1
  <2>2. CASE i # Depth + 1
    <3>1. i \in 1 .. Depth /\ frames[i].kind = "entry" /\ frames'[i].item = frames[i].item
      BY <1>4, <2>2
    <3>2. TypePair(frames[i].item) \in DOMAIN statics
      BY <3>1 DEF IInv, Messages
    <3>3. CASE TypePair(frames[i].item) # TypePair(item)
      BY <1>7, <3>1, <3>2, <3>3 DEF IInv, Owners
    <3>4. CASE TypePair(frames[i].item) = TypePair(item)
      <4> DEFINE held == frames[i + 1].struct
      <4>1. i < Depth /\ i + 1 \in 1 .. Depth
        BY <1>5, <3>1 DEF Top
      <4>2. frames[i + 1].kind # "entry" /\ held \in {frames[i].item.key, frames[i].item.cpp}
        BY <3>1, <4>1 DEF IInv, Messages
      <4>3. held \in {item.key, item.cpp}
        BY <3>4, <4>2 DEF TypePair
      <4>4. held \in DOMAIN Schema /\ Top.struct \in DOMAIN Schema
        BY <1>5, <4>1, <4>2 DEF IInv, Messages, Top
      <4>5. held = Top.struct \/ Holds(held, Top.struct)
        BY <1>5, <4>1, <4>2 DEF IInv, Messages, Top
      <4> HIDE DEF held
      <4>6. Holds(held, held)
        BY <1>5, <4>3, <4>4, <4>5, HoldsNext
      <4> QED BY <3>1, <4>2, <4>4, <4>6 DEF Recursive
    <3> QED BY <3>3, <3>4
  <2> QED BY <2>1, <2>2
<1> QED BY <1>3, <1>8, <1>9, <1>10 DEF IInv

LEMMA ParseKeeps ==
  ASSUME IInv, Parse
  PROVE  IInv'
<1>1. phase = "parsing" /\ Depth \in Nat \ {0} /\ (Fails \/ Resumes \/ Enters \/ Leaves)
  BY ParseDoes DEF IInv, Calls
<1>2. CASE Enters
  BY <1>1, <1>2, EnterMessageKeeps, EnterEntryKeeps DEF Enters
<1> QED BY <1>1, <1>2, FailsKeeps, ResumesKeeps, LeavesKeeps

LEMMA FramesAre ==
  ASSUME Parsers
  PROVE  DOMAIN frames = 1 .. Depth
BY StackShape DEF Parsers, Depth

LEMMA StutterKeeps ==
  ASSUME IInv, UNCHANGED vars
  PROVE  IInv'
<1>0. Depth' = Depth
  BY SameDepth DEF vars
<1>1. Calls' /\ Parsers'
  BY <1>0 DEF IInv, vars, Calls, Parsers, InWindow
<1>2. Messages' /\ Statics' /\ Owners'
  BY <1>0 DEF IInv, vars, Messages, Statics, Owners
<1>3. StaleOnlyIfRecursive'
  BY DEF IInv, vars, StaleOnlyIfRecursive, Top, Depth
<1> QED BY <1>1, <1>2, <1>3 DEF IInv

\* The conjunction of the parts is inductive.
THEOREM InvariantHolds == Spec => []IInv
<1>1. IInv /\ [Next]_vars => IInv'
  BY BeginKeeps, ParseKeeps, StutterKeeps DEF Next
<1> QED BY <1>1, InitHolds, PTL DEF Spec

-----------------------------------------------------------------------------
(* The theorems.                                                             *)

\* The variables of the decoder hold values of their kinds.
THEOREM TypeCorrect == Spec => []TypeOK
<1>1. IInv => TypeOK
  <2> SUFFICES ASSUME IInv PROVE TypeOK
    OBVIOUS
  <2>1. Len(last) <= calls /\ calls \in 0 .. MaxCalls
    <3>1. Len(last) \in Nat
      BY AppendIsSeq DEF IInv, Calls
    <3>2. Len(last) + (IF phase = "idle" THEN 0 ELSE 1) <= calls /\ calls \in 0 .. MaxCalls
      BY DEF IInv, Calls
    <3>3. CASE phase = "idle"
      BY <3>1, <3>2, <3>3, DecoderAssumption
    <3>4. CASE phase # "idle"
      BY <3>1, <3>2, <3>4, DecoderAssumption
    <3> QED BY <3>3, <3>4
  <2>2. \A i \in DOMAIN frames : frames[i].kind \in {"root", "message", "element", "entry"}
    BY FramesAre DEF IInv, Parsers, InWindow
  <2> QED BY <2>1, <2>2 DEF IInv, Calls, Statics, TypeOK
<1> QED BY <1>1, InvariantHolds, PTL

\* The parsers of one call of operator>> have nested windows: a parser is started on
\* bytes that the parser below has put behind itself, and stays in them, whatever the
\* bytes and however they are nested.
THEOREM WindowsAreNested == Spec => []WindowsNested
<1>1. IInv => WindowsNested
  <2> SUFFICES ASSUME IInv PROVE WindowsNested
    OBVIOUS
  <2>1. DOMAIN frames = 1 .. Depth /\ \A i \in 1 .. Depth : InWindow(i)
    BY FramesAre DEF IInv, Parsers
  <2> SUFFICES ASSUME NEW i \in 1 .. Depth
               PROVE  /\ 0 <= frames[i].cur /\ frames[i].cur <= frames[i].end
                      /\ frames[i].end <= Len(buffer)
                      /\ i > 1 => frames[i].end = frames[i - 1].cur
    BY <2>1 DEF WindowsNested
  <2> QED BY <2>1 DEF InWindow
<1> QED BY <1>1, InvariantHolds, PTL

\* The static bindings of convertMap are found stale only by an entry of a map whose
\* value or key can hold another map of the types: for any schema that is not so
\* recursive, sharing them among the maps and the depths of a program is harmless.
THEOREM BindingsHold == Spec => []StaleOnlyIfRecursive
<1>1. IInv => StaleOnlyIfRecursive
  BY DEF IInv
<1> QED BY <1>1, InvariantHolds, PTL

\* No byte is read twice: ParseFromBytes and the parsers it nests take at most one
\* step for each byte, so that operator>> ends on every input.
THEOREM BytesReadOnce == Spec => ReadsForward
<1> DEFINE Forward == phase = "parsing" /\ phase' = "parsing" => Top'.cur - Depth' > Top.cur - Depth
<1>1. ASSUME IInv, Parse, phase' = "parsing" PROVE Forward
  <2>1. phase = "parsing" /\ Depth \in Nat \ {0} /\ (Fails \/ Resumes \/ Enters \/ Leaves)
    BY <1>1, ParseDoes DEF IInv, Calls
  <2>2. /\ Top.cur \in Nat /\ Top.end \in Nat /\ Top.cur <= Top.end /\ IsStack(frames)
        /\ Depth > 1 => Top.end = frames[Depth - 1].cur
    BY <1>1, <2>1 DEF IInv, Parsers, InWindow, Top
  <2>3. CASE Resumes
    <3>1. PICK pos \in (Top.cur + 1) .. Top.end : \E obj : Resume(pos, obj)
      BY <2>3 DEF Resumes
    <3>2. Depth' = Depth /\ frames'[Depth].cur = pos
      BY <2>1, <2>2, <3>1, ResumeDoes
    <3> QED BY <2>1, <2>2, <3>1, <3>2 DEF Top, Depth
  <2>4. CASE Enters
    <3>1. PICK pos \in (Top.cur + 2) .. Top.end, end \in Nat :
            \E kind, item, struct, obj : Enter(kind, item, struct, obj, pos, end)
      BY <2>4 DEF Enters, EnterEntry, EnterMessage
    <3>2. PICK kind, item, struct, obj : Enter(kind, item, struct, obj, pos, end)
      BY <3>1
    <3>3. Depth' = Depth + 1 /\ frames'[Depth + 1] = Frame(kind, item, struct, obj, pos, end)
      BY <2>1, <2>2, <3>2, EnterDoes
    <3>4. Depth' = Depth + 1 /\ Top'.cur = pos
      BY <3>3 DEF Frame, Top, Depth
    <3> QED BY <2>1, <2>2, <3>1, <3>4
  <2>5. CASE Leaves
    <3>1. PICK ok \in BOOLEAN : ReturnToParser(ok)
      BY <1>1, <2>5 DEF Leaves, ReturnToCaller
    <3>2. /\ Depth' = Depth - 1 /\ Depth > 1
          /\ frames'[Depth - 1].cur = frames[Depth - 1].cur
      <4>1. /\ Depth' = Depth - 1 /\ Depth > 1
            /\ \A i \in 1 .. (Depth - 1) : frames'[i].cur = frames[i].cur
        BY <2>2, <3>1, ReturnToParserDoes
      <4> QED BY <2>1, <4>1
    <3>3. Depth' = Depth - 1 /\ Top'.cur = Top.end
      BY <2>2, <3>2 DEF Top, Depth
    <3> QED BY <2>1, <2>2, <3>3
  <2>6. ~Fails
    BY <1>1 DEF Fails, Undefined
  <2> QED BY <2>1, <2>3, <2>4, <2>5, <2>6
<1>2. IInv /\ [Next]_vars => [phase = "parsing" /\ phase' = "parsing" => Top'.cur - Depth' > Top.cur - Depth]_vars
  <2> SUFFICES ASSUME IInv, Next, phase = "parsing", phase' = "parsing"
               PROVE  Top'.cur - Depth' > Top.cur - Depth
    BY DEF vars
  <2>1. Parse
    BY DEF Next, Begin, BeginWith
  <2> QED BY <1>1, <2>1
<1> QED BY <1>2, InvariantHolds, PTL DEF Spec, ReadsForward

=============================================================================

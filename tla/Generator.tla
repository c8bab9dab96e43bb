------------------------------ MODULE Generator ------------------------------
(* The struct generator (compiler/struct): codeSerialize flattens the        *)
(* messages of a .proto file, sorts them one by one, and prints first a      *)
(* header with a struct and its serialize() per message, then a source file  *)
(* with its getByteSize().  One action per iteration of its three loops.     *)
(*                                                                           *)
(* A C++ compiler reads the header from its top: a struct must be declared   *)
(* before another holds it.  And the two files are printed independently     *)
(* although the one has to count what the other makes the encoder write.     *)
EXTENDS TesterStructs

CONSTANT Files
  \* What the parser of .proto files hands over, each a record of
  \*   syntax   "proto2" or "proto3"
  \*   top      the messages at the top level, in the order of the file
  \*   nested   message -> the messages declared in it, in order
  \*   entries  the messages that protoc makes for the fields of type map
  \*   fields   message -> its fields, in order
  \* A message is its ClassName().  A field is [num, type, label, packed, map,
  \* message, name, oneof, weak]: message is the ClassName() of its type and
  \* name what message_type()->name() says, which has no enclosing names in it.

Classes(f) == DOMAIN f.fields

\* FlattenMessagesInFile: a nested message stands before the one around it.
Flattened(f) ==
  LET Flatten[c \in Classes(f)] ==
        FlattenSeq([i \in DOMAIN f.nested[c] |-> Flatten[f.nested[c][i]]]) \o <<c>>
  IN  FlattenSeq([i \in DOMAIN f.top |-> Flatten[f.top[i]]])

\* Every message stands in the file once.
ASSUME FileAssumption ==
  \A f \in Files : /\ Flattened(f) \in Seq(Classes(f))
                   /\ IsInjective(Flattened(f)) /\ Range(Flattened(f)) = Classes(f)

VARIABLES
  file,    \* the member of Files the generator runs on
  phase,   \* "sort", "header", "source", "done"
  idx,     \* the iteration of the running loop
  sorted,  \* result of sortMsgs, then _message_generators
  header,  \* the structs printed: name, the initialisers of the constructor, and
           \* the items serialize() registers
  source   \* the getByteSize() printed: name and what is counted per field

vars == <<file, phase, idx, sorted, header, source>>

-----------------------------------------------------------------------------
(* Fields.                                                                   *)

\* prepareMsgs leaves out the fields of a oneof.
Kept(f, c) == SelectSeq(f.fields[c], LAMBDA fld : ~fld.weak /\ ~fld.oneof)

Fixed64Types  == {"fixed64", "sfixed64"}
Fixed32Types  == {"fixed32", "sfixed32"}
SintTypes     == {"sint32", "sint64"}
WideTypes     == {"int64", "uint64", "sint64"} \cup Fixed64Types
PrefixedTypes == {"message", "string", "bytes"}

Key(f, fld)   == f.fields[fld.message][1]
Mapped(f, fld) == f.fields[fld.message][2]

\* FieldDescriptor::Type without groups, of which the getByteSize() that is printed
\* does not compile.
Types ==
  {"double", "float", "bool", "enum", "int32", "uint32"}
    \cup PrefixedTypes \cup WideTypes \cup SintTypes \cup Fixed32Types

\* Of a field, and of the key and the value of a map.  Names of messages are other
\* than those that stand for the C++ types here.
IsTyped(part) == part.type \in Types /\ (part.type = "message" => IsMessage(part.message))

\* What the parser has checked of a field: a map is a repeated field.
IsField(f, fld) ==
  /\ fld.num \in Nat \ {0} /\ fld.label \in {"optional", "required", "repeated"} /\ IsTyped(fld)
  /\ fld.map => fld.label = "repeated" /\ IsTyped(Key(f, fld)) /\ IsTyped(Mapped(f, fld))

\* The numbers of a message's fields differ.
ASSUME FieldAssumption ==
  \A f \in Files : \A c \in Classes(f) :
    /\ f.syntax \in {"proto2", "proto3"}
    /\ Kept(f, c) \in Seq(Range(f.fields[c]))
    /\ \A i \in DOMAIN Kept(f, c) : IsField(f, Kept(f, c)[i])
    /\ \A i, j \in DOMAIN Kept(f, c) : Kept(f, c)[i].num = Kept(f, c)[j].num => i = j

\* type2string; an enum is an int32 to the encoder and the decoder.
Cpp(fld) ==
  CASE fld.type \in {"double", "float", "bool"} -> fld.type
    [] fld.type \in {"string", "bytes"}         -> "string"
    [] fld.type \in WideTypes                   -> "int64"
    [] fld.type = "message"                     -> fld.message
    [] OTHER                                    -> "int32"

\* Mutant of FieldType: sfixed32 and sfixed64 are forgotten.
FieldTypeUnsigned(fld) ==
  CASE fld.type = "fixed64"    -> TYPE_FIXED64
    [] fld.type \in SintTypes  -> TYPE_SVARINT
    [] fld.type = "fixed32"    -> TYPE_FIXED32
    [] OTHER                   -> TYPE_VARINT

\* getFieldType, and the switch of type2tag.
FieldType(fld) ==
  CASE fld.type \in Fixed64Types -> TYPE_FIXED64
    [] fld.type \in SintTypes    -> TYPE_SVARINT
    [] fld.type \in Fixed32Types -> TYPE_FIXED32
    [] OTHER                     -> TYPE_VARINT

\* A proto2 optional field has a bool has_f next to it.
HasFlag(f, fld) == f.syntax = "proto2" /\ fld.label = "optional"

\* What printStruct declares and registers for a field.  type2tag takes the
\* coding of a map's value from the key (and leaves out the comma before the two,
\* so that a header with a map of another coding has to be mended by hand).
Registered(f, fld) ==
  CASE fld.map -> LET key == Key(f, fld)
                  IN  Map(fld.num, Cpp(key), FieldType(key), Cpp(Mapped(f, fld)), FieldType(key))
    [] ~fld.map /\ fld.label = "repeated" ->
         Vector(fld.num, Cpp(fld), FieldType(fld), IF fld.packed THEN PACKED ELSE 0)
    [] OTHER ->
         Single(fld.num, Cpp(fld), FieldType(fld), HasFlag(f, fld))

\* The members a constructor initialises.
Initialised(fld) == ~fld.map /\ fld.label # "repeated" /\ fld.type \notin {"string", "message"}

\* The initialisers of a constructor, each a member's name behind a separator.
Initialiser(sep, member, num) == <<[sep |-> sep, member |-> member, num |-> num]>>

\* Mutant of Initialisers: the colon stands before the first member of all.
InitialisersByPosition(f, flds) ==
  FlattenSeq([i \in DOMAIN flds |->
    (IF Initialised(flds[i]) THEN Initialiser(IF i = 1 THEN ":" ELSE ",", "field", flds[i].num) ELSE <<>>)
      \o (IF HasFlag(f, flds[i]) THEN Initialiser(",", "has", flds[i].num) ELSE <<>>)])

\* printStruct keeps a flag of whether an initialiser was printed, which the
\* has-flags neither set nor look at.
Initialisers(f, flds) ==
  LET First(i) == \A j \in 1 .. (i - 1) : ~Initialised(flds[j])
  IN  FlattenSeq([i \in DOMAIN flds |->
        (IF Initialised(flds[i]) THEN Initialiser(IF First(i) THEN ":" ELSE ",", "field", flds[i].num) ELSE <<>>)
          \o (IF HasFlag(f, flds[i]) THEN Initialiser(",", "has", flds[i].num) ELSE <<>>)])

\* printFileByteSize.
SizeOf(fld) ==
  CASE fld.type \in PrefixedTypes                                  -> "prefixed"
    [] fld.type \in {"float", "sint32"} \cup Fixed32Types          -> "4 bytes"
    [] fld.type \in {"double", "sint64"} \cup Fixed64Types         -> "8 bytes"
    [] OTHER                                                       -> "varint"

\* A part of a size: when it counts, the bytes of a tag, and of what follows.
Part(when, tag, bytes) == [when |-> when, tag |-> tag, bytes |-> bytes]

TagSize(fld) == Len(Tag(fld.num, 0))

\* What printByteSize counts for a field, where its expressions are taken for
\* what they are to be: as they are printed the parentheses of integers in a
\* vector and of sint32 and sint64 do not match.  Of a proto2 file it looks at
\* nothing but optional fields; it takes the tag of a repeated field for one byte.
Counted(f, fld) ==
  IF f.syntax = "proto2"
    THEN IF fld.label = "optional" THEN {Part("has", TagSize(fld), <<SizeOf(fld)>>)} ELSE {}
    ELSE CASE fld.map -> {Part("each", TagSize(fld), <<SizeOf(Key(f, fld)), SizeOf(Mapped(f, fld))>>)}
           [] ~fld.map /\ fld.label = "repeated" -> {Part("each", 1, <<SizeOf(fld)>>)}
           [] OTHER ->
                {Part(IF fld.type = "message" THEN "always" ELSE "not zero", TagSize(fld), <<SizeOf(fld)>>)}

-----------------------------------------------------------------------------
(* Messages.                                                                 *)

\* printStruct and printByteSize skip a message without fields and the entry of
\* a map.
Printed(f, c) == Kept(f, c) # <<>> /\ c \notin f.entries

\* The structs that items hold by value, in a vector or in a map.
HeldBy(items) == {item \in {items[i].cpp : i \in DOMAIN items} : IsMessage(item)}

Items(f, c) == [i \in DOMAIN Kept(f, c) |-> Registered(f, Kept(f, c)[i])]

\* Those of the file: what it imports is declared by the includes, above all.
Holds(f, c) == HeldBy(Items(f, c)) \cap Classes(f)

Struct(f, c) == [name |-> c, inits |-> Initialisers(f, Kept(f, c)), items |-> Items(f, c)]

\* getInsertIdx compares the name of a field's message with a ClassName(): the
\* two are the same text only for messages at the top level.
Sees(f, c, item) ==
  \E fld \in Range(Kept(f, c)) : fld.type = "message" /\ fld.name = item

\* Mutant of InsertIdx: the message goes after the first one that uses it.
InsertIdxAfter(f, msgs, item) ==
  Min({i + 1 : i \in {i \in DOMAIN msgs : Sees(f, msgs[i], item)}} \cup {Len(msgs) + 1})

\* getInsertIdx: where the first message is that uses item, or the end.
InsertIdx(f, msgs, item) ==
  Min({i \in DOMAIN msgs : Sees(f, msgs[i], item)} \cup {Len(msgs) + 1})

-----------------------------------------------------------------------------
Init ==
  /\ file \in Files
  /\ phase = "sort" /\ idx = 1
  /\ sorted = <<>> /\ header = <<>> /\ source = <<>>

\* An iteration of sortMsgs.
InsertMsg ==
  /\ phase = "sort" /\ idx <= Len(Flattened(file))
  /\ LET item == Flattened(file)[idx]
     IN  sorted' = InsertAt(sorted, InsertIdx(file, sorted, item), item)
  /\ idx' = idx + 1
  /\ UNCHANGED <<file, phase, header, source>>

\* Mutant of PrintStruct: the iteration that skips a message does not go on.
PrintStructStays ==
  /\ phase = "header" /\ idx <= Len(sorted)
  /\ LET c == sorted[idx]
     IN  IF Printed(file, c)
           THEN header' = Append(header, Struct(file, c)) /\ idx' = idx + 1
           ELSE UNCHANGED <<header, idx>>
  /\ UNCHANGED <<file, phase, sorted, source>>

\* Mutant of PrintStruct: the loop over the fields counts in the loop's own index.
PrintStructSharesIdx ==
  /\ phase = "header" /\ idx <= Len(sorted)
  /\ LET c == sorted[idx]
     IN  /\ header' = IF Printed(file, c)
                        THEN Append(header, Struct(file, c))
                        ELSE header
         /\ idx' = idx + Len(Kept(file, c)) + 1
  /\ UNCHANGED <<file, phase, sorted, source>>

\* An iteration of printStruct.
PrintStruct ==
  /\ phase = "header" /\ idx <= Len(sorted)
  /\ LET c == sorted[idx]
     IN  header' = IF Printed(file, c)
                     THEN Append(header, Struct(file, c))
                     ELSE header
  /\ idx' = idx + 1
  /\ UNCHANGED <<file, phase, sorted, source>>

Counts(f, c) == [i \in DOMAIN Kept(f, c) |-> Counted(f, Kept(f, c)[i])]

\* Mutant of PrintByteSize: it skips what printSerialize skips, which is not
\* the entries of maps.
PrintByteSizeOfEntries ==
  /\ phase = "source" /\ idx <= Len(sorted)
  /\ LET c == sorted[idx]
     IN  source' = IF Kept(file, c) # <<>>
                     THEN Append(source, [name |-> c, counts |-> Counts(file, c)])
                     ELSE source
  /\ idx' = idx + 1
  /\ UNCHANGED <<file, phase, sorted, header>>

\* An iteration of printByteSize.
PrintByteSize ==
  /\ phase = "source" /\ idx <= Len(sorted)
  /\ LET c == sorted[idx]
     IN  source' = IF Printed(file, c)
                     THEN Append(source, [name |-> c, counts |-> Counts(file, c)])
                     ELSE source
  /\ idx' = idx + 1
  /\ UNCHANGED <<file, phase, sorted, header>>

\* A loop is through and the next one begins.
LoopEnds(from, to, n) ==
  /\ phase = from /\ idx > n
  /\ phase' = to /\ idx' = 1
  /\ UNCHANGED <<file, sorted, header, source>>

SortEnds   == LoopEnds("sort", "header", Len(Flattened(file)))
HeaderEnds == LoopEnds("header", "source", Len(sorted))
SourceEnds == LoopEnds("source", "done", Len(sorted))

Next == InsertMsg \/ SortEnds \/ PrintStruct \/ HeaderEnds \/ PrintByteSize \/ SourceEnds

Spec == Init /\ [][Next]_vars

\* Generate() runs its loops to their ends.
FairSpec == Spec /\ WF_vars(Next)

-----------------------------------------------------------------------------
(* What the encoder makes of a registered item, in the terms of Counted.     *)

\* The bytes that ScalarBytes of the encoder writes after a tag.
WrittenAs(cpp, type) ==
  CASE cpp = "string" \/ IsMessage(cpp)                                -> "prefixed"
    [] cpp = "float"                                                   -> "4 bytes"
    [] cpp = "double"                                                  -> "8 bytes"
    [] cpp \in Ints32 \cup Ints64 /\ type = TYPE_SVARINT               -> "zigzag"
    [] cpp \in Ints32 /\ type \in {TYPE_FIXED32, TYPE_FIXED64}         -> "4 bytes"
    [] cpp \in Ints64 /\ type \in {TYPE_FIXED32, TYPE_FIXED64}         -> "8 bytes"
    [] OTHER                                                           -> "varint"

\* A key or a value of a map: the table of converters goes by the coding alone.
WrittenInEntry(cpp, type) ==
  CASE type = TYPE_SVARINT -> "zigzag"
    [] type = TYPE_FIXED32 -> "4 bytes"
    [] type = TYPE_FIXED64 -> "8 bytes"
    [] OTHER               -> WrittenAs(cpp, type)

\* As Registered, ConvertScalar, ConvertArray, ConvertPack and ConvertEntry of the
\* module Encoder have it.
Written(item) ==
  LET tag   == Len(Tag(item.num, 0))
      bytes == <<WrittenAs(item.cpp, item.low)>>
  IN  CASE item.shape = "map" ->
             {Part("each", tag, <<WrittenInEntry(item.key, item.high), WrittenInEntry(item.cpp, item.low)>>)}
        [] item.shape = "vector" ->
             IF item.low = TYPE_VARINT THEN {Part("each", tag, bytes)}
                                       ELSE {Part("once", tag, <<>>), Part("each", 0, bytes)}
        [] item.shape = "single" ->
             IF item.cpp \in Ints32 \cup Ints64 /\ item.low = TYPE_FIXED64
               THEN {}
               ELSE {Part(IF item.has /\ ~IsMessage(item.cpp) THEN "not zero" ELSE "always", tag, bytes)}

-----------------------------------------------------------------------------
\* The variables hold values of their kinds.
TypeOK ==
  /\ file \in Files /\ phase \in {"sort", "header", "source", "done"}
  /\ idx \in 1 .. (Len(Flattened(file)) + 1)
  /\ sorted \in Seq(Classes(file))
  /\ \A i \in DOMAIN header : header[i].name \in Classes(file)
  /\ \A i \in DOMAIN source : source[i].name \in Classes(file)

\* A struct of the header is declared before another one holds it.
DeclaredBeforeUse ==
  \A i \in DOMAIN header : \A held \in Holds(file, header[i].name) \ {header[i].name} :
    \E j \in 1 .. (i - 1) : header[j].name = held

\* What the files of DeclaredBeforeUse have in common.  A message is put before
\* the first one that names it and what it holds itself is not looked at, so
\* that it must not stand after one that names it and one that it holds; a
\* message that is held must be found by its name, and must be printed.
Orderly(f) ==
  LET flat == Flattened(f)
      Earlier(i) == {flat[j] : j \in 1 .. (i - 1)}
  IN  /\ \A c \in Classes(f) : \A held \in Holds(f, c) : Printed(f, held)
      /\ \A i \in DOMAIN flat :
           /\ \A c \in Earlier(i) : flat[i] \in Holds(f, c) => Sees(f, c, flat[i])
           /\ (\E c \in Earlier(i) : Sees(f, c, flat[i]))
                => Holds(f, flat[i]) \cap Earlier(i) = {}

\* sortMsgs is right for orderly files: whatever else a file holds, the header
\* of such a file can be compiled from its top.
OrderKept == Orderly(file) => DeclaredBeforeUse

\* A constructor's initialisers are a list that begins with a colon and goes on
\* with commas, each member in it once, of every struct but those with an
\* optional field of proto2 that stands before all members with an initialiser:
\* there the has-flag comes first, behind a comma.
ConstructorsParse ==
  \A i \in DOMAIN header :
    LET flds  == Kept(file, header[i].name)
        inits == header[i].inits
        parses == /\ \A n \in DOMAIN inits : inits[n].sep = IF n = 1 THEN ":" ELSE ","
                  /\ \A n, k \in DOMAIN inits :
                       inits[n].num = inits[k].num /\ inits[n].member = inits[k].member => n = k
    IN  parses <=> \A n \in DOMAIN flds : HasFlag(file, flds[n]) => \E k \in 1 .. n : Initialised(flds[k])

\* The header and the source have the same structs in the same order, each once,
\* and no message but the empty ones and the entries of maps is lost: a
\* getByteSize() that is declared is defined.
EachStructOnce ==
  phase = "done" =>
    LET Names(structs) == [i \in DOMAIN structs |-> structs[i].name]
    IN  /\ Names(header) = Names(source) /\ IsInjective(Names(header))
        /\ Range(Names(header)) = {c \in Classes(file) : Printed(file, c)}

\* The fields of which the generated getByteSize() counts what the generated
\* serialize() makes the encoder write, tag by tag and byte by byte.  A required
\* fixed64 of proto2 is among them: it is neither counted nor written.  So is a
\* sint32 next to a key of fixed32: it is written as the key is.
Countable(f, fld) ==
  IF f.syntax = "proto2"
    THEN fld.label = "required" /\ fld.type \in Fixed64Types
    ELSE CASE fld.map ->
                LET key == Key(f, fld)
                    value == Mapped(f, fld)
                IN  IF FieldType(key) = TYPE_VARINT
                      THEN FieldType(value) = TYPE_VARINT
                      ELSE key.type \notin SintTypes /\ SizeOf(value) = SizeOf(key)
           [] ~fld.map /\ fld.label = "repeated" -> fld.num < 16 /\ FieldType(fld) = TYPE_VARINT
           [] OTHER -> fld.type = "message"

\* For those fields, and for no other, the two generated files agree.  A struct
\* with another field has an operator<< that returns false for some values, or
\* writes past what it reserved.
CountsWhatIsWritten ==
  \A i \in DOMAIN source :
    LET c == source[i].name
    IN  \A n \in DOMAIN source[i].counts :
          source[i].counts[n] = Written(header[i].items[n]) <=> Countable(file, Kept(file, c)[n])

\* The generator comes to its end.
Ends == <>(phase = "done")
=============================================================================

----------------------------- MODULE MC_Generator -----------------------------
(* The generator on every way in which four messages can use each other, and *)
(* on a few files with the other kinds of messages and fields.               *)
EXTENDS Generator

Field(num, type, label, message, name) ==
  [num |-> num, type |-> type, label |-> label, packed |-> FALSE, map |-> FALSE,
   message |-> message, name |-> name, oneof |-> FALSE, weak |-> FALSE]

Scalar(num, type, label)      == Field(num, type, label, "", "")
MessageField(num, label, c)   == Field(num, "message", label, c, c)
Packed(num, type)             == [Scalar(num, type, "repeated") EXCEPT !.packed = TRUE]
MapField(num, entry, name)    ==
  [Field(num, "message", "repeated", entry, name) EXCEPT !.map = TRUE]

ProtoFile(syntax, top, nested, entries, fields) ==
  [syntax |-> syntax, top |-> top, entries |-> entries, fields |-> fields,
   nested |-> [c \in DOMAIN fields |-> IF c \in DOMAIN nested THEN nested[c] ELSE <<>>]]

Flat(syntax, top, fields) == ProtoFile(syntax, top, <<>>, {}, fields)

-----------------------------------------------------------------------------
(* Files of four messages A, B, C and D in this order, each with a number    *)
(* and with fields of the messages it uses.                                  *)

Top == <<"A", "B", "C", "D">>

\* A message uses others that come before it in some order of the four: the
\* uses of a file that can be compiled in one order at least.
Acyclic(uses) ==
  \E p \in Permutations(1 .. 4) :
    \A u \in uses : p[u[1]] < p[u[2]]

Pairs == {<<i, j>> \in (1 .. 4) \X (1 .. 4) : i # j}

UsingFile(uses) ==
  Flat("proto3", Top,
    [c \in Range(Top) |->
      LET i == CHOOSE i \in DOMAIN Top : Top[i] = c
          used == SetToSortSeq({u[2] : u \in {u \in uses : u[1] = i}}, <)
      IN  <<Packed(1, "int32")>> \o [n \in DOMAIN used |-> MessageField(n + 1, "repeated", Top[used[n]])]])

UsingFiles == {UsingFile(uses) : uses \in {s \in SUBSET Pairs : Acyclic(s)}}

-----------------------------------------------------------------------------
ScalarTypes ==
  <<"double", "float", "bool", "enum", "string", "bytes", "int32", "uint32", "int64", "uint64",
    "sint32", "sint64", "fixed32", "sfixed32", "fixed64", "sfixed64">>

\* One message with one field of each type and of a label.
ScalarFile(syntax, label, num, packed) ==
  Flat(syntax, <<"A">>,
    [c \in {"A"} |->
       [i \in DOMAIN ScalarTypes |->
         LET fld == Scalar(num + i, ScalarTypes[i], label)
         IN  [fld EXCEPT !.packed = packed /\ ScalarTypes[i] \notin PrefixedTypes]]])

ScalarFiles ==
  {ScalarFile("proto3", "optional", 0, FALSE), ScalarFile("proto3", "repeated", 8, FALSE),
   ScalarFile("proto3", "repeated", 8, TRUE), ScalarFile("proto2", "optional", 0, FALSE),
   ScalarFile("proto2", "required", 0, FALSE), ScalarFile("proto2", "repeated", 0, TRUE)}

KeyTypes == {"string", "bool", "int32", "sint64", "fixed32", "sfixed64"}
ValueTypes == {"string", "int32", "int64", "sint32", "sint64", "fixed32", "sfixed32", "fixed64", "enum"}

\* A map stands in its message's file as a nested message with two fields.
MapFile(syntax, num, key, value) ==
  ProtoFile(syntax, <<"A">>, [c \in {"A"} |-> <<"A_MEntry_DoNotUse">>], {"A_MEntry_DoNotUse"},
    [c \in {"A", "A_MEntry_DoNotUse"} |->
       IF c = "A" THEN <<MapField(num, "A_MEntry_DoNotUse", "MEntry")>>
                  ELSE <<Scalar(1, key, "optional"), value>>])

MapFiles ==
  {MapFile("proto3", 2, key, Scalar(2, value, "optional")) : key \in KeyTypes, value \in ValueTypes}
    \cup {MapFile("proto3", 16, key, MessageField(2, "optional", "A")) : key \in KeyTypes}
    \cup {MapFile("proto2", 2, "int32", Scalar(2, "int32", "optional"))}

\* unittest/pb/test1.proto: the struct of the tester in a vector and in a map.
Test1 ==
  ProtoFile("proto3", <<"struExample", "struExamples">>,
    [c \in {"struExamples"} |-> <<"struExamples_MEntry_DoNotUse">>],
    {"struExamples_MEntry_DoNotUse"},
    [c \in {"struExample", "struExamples", "struExamples_MEntry_DoNotUse"} |->
       CASE c = "struExample" ->
              <<Scalar(1, "uint32", "optional"), Scalar(2, "string", "optional"),
                Scalar(3, "float", "optional"), Scalar(4, "double", "optional")>>
         [] c = "struExamples" ->
              <<MessageField(1, "repeated", "struExample"),
                MapField(2, "struExamples_MEntry_DoNotUse", "MEntry")>>
         [] OTHER -> <<Scalar(1, "int32", "optional"), MessageField(2, "optional", "struExample")>>])

\* A holds the nested A_X, and its name is that of another message X; Z has only
\* a weak field and the members of a oneof, and is not printed although B holds
\* it; D holds itself and a message of an imported file.
Odd ==
  ProtoFile("proto3", <<"A", "X", "B", "Z", "D">>, [c \in {"A"} |-> <<"A_X">>], {},
    [c \in {"A", "A_X", "X", "B", "Z", "D"} |->
       CASE c = "A"   -> <<Field(1, "message", "optional", "A_X", "X")>>
         [] c = "A_X" -> <<Scalar(1, "int64", "optional")>>
         [] c = "X"   -> <<Scalar(100, "sint32", "optional")>>
         [] c = "B"   -> <<MessageField(300, "optional", "Z"), MessageField(2, "repeated", "X")>>
         [] c = "Z"   -> <<[Scalar(1, "int32", "optional") EXCEPT !.oneof = TRUE],
                           [MessageField(2, "optional", "X") EXCEPT !.weak = TRUE]>>
         [] OTHER     -> <<MessageField(20, "repeated", "D"), MessageField(21, "optional", "Imported"),
                       Packed(3, "sfixed32")>>])

\* Two messages of proto2 in which members with a flag, with an initialiser and
\* with neither follow each other in one order and in another.
MixedFields(first, second) ==
  <<first, Scalar(2, "string", "required"), second, Scalar(4, "bool", "required"), Scalar(5, "bytes", "optional")>>
Mixed ==
  Flat("proto2", <<"A", "B">>,
    [c \in {"A", "B"} |->
       IF c = "A" THEN MixedFields(Scalar(1, "string", "optional"), Scalar(3, "int32", "optional"))
                  ELSE MixedFields(Scalar(1, "string", "required"), Scalar(3, "int32", "optional"))])

MCFiles == UsingFiles \cup ScalarFiles \cup MapFiles \cup {Test1, Odd, Mixed}

=============================================================================

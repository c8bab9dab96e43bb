---------------------------- MODULE TesterStructs ----------------------------
(* The structs of tester/main.cpp as the codec sees them: the items that     *)
(* serialize() registers and what getByteSize() computes by hand.            *)
EXTENDS Wire

Item(num, shape, cpp, low, high, has, key) ==
  [num |-> num, shape |-> shape, cpp |-> cpp, low |-> low, high |-> high,
   has |-> has, key |-> key]

Single(num, cpp, type, has) == Item(num, "single", cpp, type, 0, has, "none")
Vector(num, cpp, type, packed) == Item(num, "vector", cpp, type, packed, FALSE, "none")
Map(num, key, keyType, cpp, type) == Item(num, "map", cpp, type, keyType, FALSE, key)

\* struExample: every field has a has-flag.
ExampleItems ==
  <<Single(1, "uint32", TYPE_VARINT, TRUE), Single(2, "string", TYPE_VARINT, TRUE),
    Single(3, "float", TYPE_VARINT, TRUE), Single(4, "double", TYPE_VARINT, TRUE)>>

\* struExamples: a vector of struExample and a map from int to struExample.
ExamplesItems ==
  <<Vector(1, "Example", TYPE_VARINT, 0), Map(2, "int32", TYPE_VARINT, "Example", TYPE_VARINT)>>

TesterSchema == [Example |-> ExampleItems, Examples |-> ExamplesItems]

Example(id, str, f, db, has) ==
  [val |-> <<id, str, f, db>>, has |-> [i \in 1 .. 4 |-> i \in has]]

Examples(v, m) == [val |-> <<v, m>>, has |-> [i \in 1 .. 2 |-> FALSE]]

\* Flags that say which fields are not zero, as a caller of the tester sets them.
Flagged(id, str, f, db) ==
  Example(id, str, f, db,
          {i \in 1 .. 4 : ~IsZero(ExampleItems[i].cpp, <<id, str, f, db>>[i])})

-----------------------------------------------------------------------------
Prefixed(n) == VarintByteSize[n] + n

\* Mutant of ExampleByteSize: the float is counted when it is zero, too.
ExampleByteSizeLong(m) ==
  LET Counted(i, n) == IF IsZero(ExampleItems[i].cpp, m.val[i]) THEN 0 ELSE 1 + n
  IN  Counted(1, VarintByteSize[m.val[1]]) + Counted(2, Prefixed(Len(m.val[2])))
        + 1 + Bytes32 + Counted(4, Bytes64)

\* getByteSize of struExample: `if (id)`, `if (!str.empty())`, `if (f)`, `if (db)`.
ExampleByteSize(m) ==
  LET Counted(i, n) == IF IsZero(ExampleItems[i].cpp, m.val[i]) THEN 0 ELSE 1 + n
  IN  Counted(1, VarintByteSize[m.val[1]]) + Counted(2, Prefixed(Len(m.val[2])))
        + Counted(3, Bytes32) + Counted(4, Bytes64)

\* Mutant of ExamplesByteSize: the tag of a map's entry is not counted.
ExamplesByteSizeShort(m) ==
  LET Entry(k) == 1 + VarintByteSize[SignExtend(k)] + 1 + Prefixed(ExampleByteSize(m.val[2][k]))
  IN  FoldLeft(LAMBDA sum, e : sum + 1 + Prefixed(ExampleByteSize(e)), 0, m.val[1])
        + FoldFunction(LAMBDA n, sum : n + sum, 0, [k \in DOMAIN m.val[2] |-> Prefixed(Entry(k))])

\* getByteSize of struExamples.
ExamplesByteSize(m) ==
  LET v == m.val[1]
      map == m.val[2]
      Entry(k) == 1 + VarintByteSize[SignExtend(k)] + 1 + Prefixed(ExampleByteSize(map[k]))
  IN  FoldLeft(LAMBDA sum, e : sum + 1 + Prefixed(ExampleByteSize(e)), 0, v)
        + FoldFunction(LAMBDA n, sum : n + sum, 0,
                       [k \in DOMAIN map |-> 1 + Prefixed(Entry(k))])

TesterByteSize(struct, m) ==
  IF struct = "Example" THEN ExampleByteSize(m) ELSE ExamplesByteSize(m)
=============================================================================

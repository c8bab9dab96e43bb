--------------------------- MODULE GeneratorProofs ---------------------------
(* What holds of the struct generator for every set of files.                *)
(*                                                                           *)
(* sorted holds the messages inserted so far, each once, and of an orderly   *)
(* file in an order in which what a message holds does not stand behind it.  *)
(* The printing loops go through it from the front, so that the structs      *)
(* printed are in the order of their messages; and the source file is always *)
(* a beginning of the header.  Of a message it prints what its fields call   *)
(* for: initialisers, and the sizes of what is written.                      *)
EXTENDS Generator, WireProofs

-----------------------------------------------------------------------------
(* The invariant.                                                            *)

Flat == Flattened(file)

\* How many messages are inserted.
Inserted == IF phase = "sort" THEN idx - 1 ELSE Len(Flat)

\* How many messages the loops for the header and for the source have seen.
SeenByHeader ==
  IF phase = "sort" THEN 0 ELSE IF phase = "header" THEN idx - 1 ELSE Len(sorted)
SeenBySource ==
  IF phase \in {"sort", "header"} THEN 0 ELSE IF phase = "source" THEN idx - 1 ELSE Len(sorted)

Typed ==
  /\ file \in Files
  /\ phase \in {"sort", "header", "source", "done"}
  /\ idx \in 1 .. (Len(Flat) + 1)

\* The first messages of the file, each once.
Sorting ==
  /\ sorted \in Seq(Classes(file)) /\ Len(sorted) = Inserted
  /\ \A p, q \in 1 .. Len(sorted) : sorted[p] = sorted[q] => p = q
  /\ \A p \in 1 .. Len(sorted) : \E j \in 1 .. Inserted : sorted[p] = Flat[j]
  /\ \A j \in 1 .. Inserted : \E p \in 1 .. Len(sorted) : sorted[p] = Flat[j]

\* A message does not stand before what it holds.
Ordered ==
  Orderly(file) =>
    \A p, q \in 1 .. Len(sorted) : sorted[q] \in Holds(file, sorted[p]) => q <= p

\* The structs printed are those of the messages seen, in their order.
Printing ==
  /\ header \in Seq({Struct(file, c) : c \in Classes(file)})
  /\ \A i \in 1 .. Len(header) : \E p \in 1 .. SeenByHeader :
       header[i].name = sorted[p] /\ Printed(file, sorted[p])
  /\ \A p \in 1 .. SeenByHeader : Printed(file, sorted[p]) =>
       \E i \in 1 .. Len(header) : header[i].name = sorted[p]
  /\ \A i, j \in 1 .. Len(header), p, q \in 1 .. SeenByHeader :
       header[i].name = sorted[p] /\ header[j].name = sorted[q] => (p < q <=> i < j)

\* The sizes printed are those of the structs of the messages seen.
Counting ==
  /\ source \in Seq([name : Classes(file), counts : {Counts(file, c) : c \in Classes(file)}])
  /\ Len(source) <= Len(header)
  /\ \A i \in 1 .. Len(source) : source[i].name = header[i].name
  /\ \A i \in 1 .. Len(header), p \in 1 .. Len(sorted) :
       header[i].name = sorted[p] => (i <= Len(source) <=> p <= SeenBySource)

IInv == Typed /\ Sorting /\ Ordered /\ Printing /\ Counting

-----------------------------------------------------------------------------
(* Lemmas.                                                                   *)

\* InsertAt moves what stands from the place on by one.
LEMMA InsertAtIs ==
  ASSUME NEW S, NEW s \in Seq(S), NEW k \in 1 .. (Len(s) + 1), NEW e \in S
  PROVE  /\ InsertAt(s, k, e) \in Seq(S)
         /\ Len(InsertAt(s, k, e)) = Len(s) + 1
         /\ InsertAt(s, k, e) = [i \in 1 .. (Len(s) + 1) |->
                                  IF i < k THEN s[i] ELSE IF i = k THEN e ELSE s[i - 1]]
<1> DEFINE front == SubSeq(s, 1, k - 1)
           back == SubSeq(s, k, Len(s))
           both == front \o <<e>>
<1>1. /\ front \in Seq(S) /\ Len(front) = k - 1
      /\ \A i \in 1 .. (k - 1) : front[i] = s[i]
  BY SubSeqProperties
<1>2. /\ back \in Seq(S) /\ Len(back) = Len(s) - k + 1
      /\ \A i \in 1 .. (Len(s) - k + 1) : back[i] = s[k + i - 1]
  BY SubSeqProperties
<1>3. <<e>> \in Seq(S) /\ Len(<<e>>) = 1 /\ <<e>>[1] = e
  OBVIOUS
<1> HIDE DEF front, back
<1>4. /\ both \in Seq(S) /\ Len(both) = k
      /\ \A i \in 1 .. k : both[i] = IF i < k THEN s[i] ELSE e
  BY <1>1, <1>3, ConcatProperties
<1> HIDE DEF both
<1>5. /\ both \o back \in Seq(S) /\ Len(both \o back) = Len(s) + 1
      /\ \A i \in 1 .. (Len(s) + 1) :
           (both \o back)[i] = IF i <= k THEN both[i] ELSE back[i - k]
  <2>1. Len(both) + Len(back) = Len(s) + 1
    BY <1>2, <1>4
  <2>2. /\ both \o back \in Seq(S) /\ Len(both \o back) = Len(both) + Len(back)
        /\ \A i \in 1 .. (Len(both) + Len(back)) :
             (both \o back)[i] = IF i <= Len(both) THEN both[i] ELSE back[i - Len(both)]
    BY <1>2, <1>4, ConcatProperties
  <2> DEFINE all == both \o back
  <2> HIDE DEF all
  <2> QED BY <1>4, <2>1, <2>2 DEF all
<1>6. InsertAt(s, k, e) = both \o back
  BY DEF InsertAt, both, front, back
<1>7. ASSUME NEW i \in 1 .. (Len(s) + 1)
      PROVE  (both \o back)[i] = IF i < k THEN s[i] ELSE IF i = k THEN e ELSE s[i - 1]
  <2>1. CASE i <= k
    BY <1>4, <1>5, <2>1
  <2>2. CASE i > k
    <3>1. i - k \in 1 .. (Len(s) - k + 1) /\ k + (i - k) - 1 = i - 1
      BY <2>2
    <3>2. back[i - k] = s[i - 1]
      BY <1>2, <3>1
    <3>3. (both \o back)[i] = back[i - k]
      BY <1>5, <2>2
    <3>4. ~(i < k) /\ i # k
      BY <2>2
    <3> QED BY <3>2, <3>3, <3>4
  <2>3. i <= k \/ i > k
    OBVIOUS
  <2> QED BY <2>1, <2>2, <2>3
<1>8. both \o back = [i \in 1 .. (Len(s) + 1) |->
                       IF i < k THEN s[i] ELSE IF i = k THEN e ELSE s[i - 1]]
  <2> DEFINE all == both \o back
  <2>1. all \in Seq(S) /\ Len(all) = Len(s) + 1
    BY <1>5
  <2>2. \A i \in 1 .. (Len(s) + 1) :
          all[i] = IF i < k THEN s[i] ELSE IF i = k THEN e ELSE s[i - 1]
    BY <1>7
  <2> HIDE DEF all
  <2>3. all = [i \in 1 .. (Len(s) + 1) |-> all[i]]
    BY <2>1
  <2> QED BY <2>2, <2>3 DEF all
<1> QED BY <1>5, <1>6, <1>8

\* getInsertIdx returns the place of the first message that names the other one,
\* or the end.
LEMMA InsertIdxIs ==
  ASSUME NEW f, NEW S, NEW msgs \in Seq(S), NEW item
  PROVE  LET k == InsertIdx(f, msgs, item)
         IN  /\ k \in 1 .. (Len(msgs) + 1)
             /\ \A i \in 1 .. Len(msgs) : i < k => ~Sees(f, msgs[i], item)
             /\ k <= Len(msgs) => Sees(f, msgs[k], item)
<1> DEFINE Seeing == {i \in DOMAIN msgs : Sees(f, msgs[i], item)} \cup {Len(msgs) + 1}
<1>1. Seeing \in SUBSET (1 .. (Len(msgs) + 1)) /\ Len(msgs) + 1 \in Seeing
  OBVIOUS
<1>2. \A i \in 1 .. Len(msgs) : Sees(f, msgs[i], item) <=> i \in Seeing
  OBVIOUS
<1>3. InsertIdx(f, msgs, item) = Min(Seeing)
  BY DEF InsertIdx
<1> HIDE DEF Seeing
<1>4. Min(Seeing) \in Seeing /\ \A n \in Seeing : Min(Seeing) <= n
  BY <1>1, MinIs
<1>5. DOMAIN msgs = 1 .. Len(msgs) /\ Len(msgs) \in Nat
  OBVIOUS
<1>6. Min(Seeing) \in 1 .. (Len(msgs) + 1)
  BY <1>1, <1>4
<1>7. \A i \in 1 .. Len(msgs) : i < Min(Seeing) => ~Sees(f, msgs[i], item)
  BY <1>2, <1>4, <1>5, <1>6
<1>8. Min(Seeing) <= Len(msgs) => Sees(f, msgs[Min(Seeing)], item)
  BY <1>2, <1>4, <1>5, <1>6
<1> QED BY <1>3, <1>6, <1>7, <1>8

\* Each message of a file stands once in its flattened messages.
LEMMA FlattenedIs ==
  ASSUME NEW f \in Files
  PROVE  /\ Flattened(f) \in Seq(Classes(f))
         /\ \A i, j \in 1 .. Len(Flattened(f)) : Flattened(f)[i] = Flattened(f)[j] => i = j
         /\ \A c \in Classes(f) : \E i \in 1 .. Len(Flattened(f)) : Flattened(f)[i] = c
<1> DEFINE flat == Flattened(f)
<1>1. flat \in Seq(Classes(f)) /\ IsInjective(flat) /\ Range(flat) = Classes(f)
  BY FileAssumption
<1> HIDE DEF flat
<1>2. DOMAIN flat = 1 .. Len(flat)
  BY <1>1
<1>3. /\ \A i, j \in 1 .. Len(flat) : flat[i] = flat[j] => i = j
      /\ \A c \in Classes(f) : \E i \in 1 .. Len(flat) : flat[i] = c
  BY <1>1, <1>2 DEF IsInjective, Range
<1> QED BY <1>1, <1>3 DEF flat


-----------------------------------------------------------------------------
(* Every step keeps the invariant.                                           *)

\* As long as no struct is to be printed there is none, and no size.
LEMMA NothingPrinted ==
  ASSUME Printing, Counting, SeenByHeader = 0
  PROVE  Len(header) = 0 /\ Len(source) = 0
<1>1. Len(header) \in Nat /\ Len(source) \in Nat
  BY DEF Printing, Counting
<1>2. \A i \in 1 .. Len(header) : \E p \in 1 .. 0 : TRUE
  BY DEF Printing
<1>3. Len(header) = 0
  BY <1>1, <1>2
<1> QED BY <1>1, <1>3 DEF Counting

\* A step that sees no more messages and prints no struct disturbs no struct.
LEMMA PrintingStays ==
  ASSUME Printing, file' = file, sorted' = sorted, header' = header,
         SeenByHeader' = SeenByHeader
  PROVE  Printing'
<1>1. header' \in Seq({Struct(file', c) : c \in Classes(file')})
  BY DEF Printing
<1>2. \A i \in 1 .. Len(header') : \E p \in 1 .. SeenByHeader' :
        header'[i].name = sorted'[p] /\ Printed(file', sorted'[p])
  BY DEF Printing
<1>3. \A p \in 1 .. SeenByHeader' : Printed(file', sorted'[p]) =>
        \E i \in 1 .. Len(header') : header'[i].name = sorted'[p]
  BY DEF Printing
<1>4. \A i, j \in 1 .. Len(header'), p, q \in 1 .. SeenByHeader' :
        header'[i].name = sorted'[p] /\ header'[j].name = sorted'[q] => (p < q <=> i < j)
  BY DEF Printing
<1> QED BY <1>1, <1>2, <1>3, <1>4 DEF Printing

LEMMA InitHolds == Init => IInv
<1> SUFFICES ASSUME Init PROVE IInv
  OBVIOUS
<1> USE DEF Init
<1>1. Flat \in Seq(Classes(file)) /\ Len(Flat) \in Nat
  BY FlattenedIs DEF Flat
<1>2. Inserted = 0 /\ SeenByHeader = 0 /\ SeenBySource = 0
  BY DEF Inserted, SeenByHeader, SeenBySource
<1>3. Typed
  BY <1>1 DEF Typed
<1>4. Sorting
  BY <1>2 DEF Sorting
<1>5. Ordered
  BY DEF Ordered
<1>6. Printing
  BY <1>2 DEF Printing
<1>7. Counting
  BY <1>2 DEF Counting
<1> QED BY <1>3, <1>4, <1>5, <1>6, <1>7 DEF IInv

\* What a message holds is not behind it when the message is inserted, and what
\* holds the message is not before it.
LEMMA InsertMsgKeeps == IInv /\ InsertMsg => IInv'
<1> SUFFICES ASSUME IInv, InsertMsg PROVE IInv'
  OBVIOUS
<1> DEFINE item == Flat[idx]
           k == InsertIdx(file, sorted, item)
           Was(p) == IF p < k THEN p ELSE p - 1
<1>1. /\ file \in Files /\ phase = "sort" /\ idx \in 1 .. Len(Flat)
      /\ file' = file /\ phase' = phase /\ idx' = idx + 1
      /\ header' = header /\ source' = source
      /\ sorted' = InsertAt(sorted, k, item)
  BY DEF IInv, Typed, InsertMsg, Flat
<1>2. /\ Flat \in Seq(Classes(file)) /\ Len(Flat) \in Nat
      /\ \A i, j \in 1 .. Len(Flat) : Flat[i] = Flat[j] => i = j
  BY <1>1, FlattenedIs DEF Flat
<1>3. Flat' = Flat /\ Inserted = idx - 1 /\ Inserted' = idx
  BY <1>1, <1>2 DEF Flat, Inserted
<1>4. /\ sorted \in Seq(Classes(file)) /\ Len(sorted) = idx - 1
      /\ \A p, q \in 1 .. (idx - 1) : sorted[p] = sorted[q] => p = q
      /\ \A p \in 1 .. (idx - 1) : \E j \in 1 .. (idx - 1) : sorted[p] = Flat[j]
      /\ \A j \in 1 .. (idx - 1) : \E p \in 1 .. (idx - 1) : sorted[p] = Flat[j]
  BY <1>3 DEF IInv, Sorting
<1>5. item \in Classes(file)
  BY <1>1, <1>2
<1>6. /\ k \in 1 .. idx
      /\ \A i \in 1 .. (idx - 1) : i < k => ~Sees(file, sorted[i], item)
      /\ k <= idx - 1 => Sees(file, sorted[k], item)
  <2>1. /\ k \in 1 .. (Len(sorted) + 1)
        /\ \A i \in 1 .. Len(sorted) : i < k => ~Sees(file, sorted[i], item)
        /\ k <= Len(sorted) => Sees(file, sorted[k], item)
    <3> HIDE DEF item
    <3> QED BY <1>4, InsertIdxIs
  <2> HIDE DEF k, item
  <2> QED BY <1>1, <1>4, <2>1
<1> HIDE DEF k, item
<1>7. /\ sorted' \in Seq(Classes(file)) /\ Len(sorted') = idx
      /\ \A p \in 1 .. idx :
           sorted'[p] = IF p < k THEN sorted[p] ELSE IF p = k THEN item ELSE sorted[p - 1]
  <2>1. sorted \in Seq(Classes(file)) /\ k \in 1 .. (Len(sorted) + 1) /\ Len(sorted) + 1 = idx
    BY <1>1, <1>4, <1>6
  <2>2. /\ InsertAt(sorted, k, item) \in Seq(Classes(file))
        /\ Len(InsertAt(sorted, k, item)) = Len(sorted) + 1
        /\ \A p \in 1 .. (Len(sorted) + 1) :
             InsertAt(sorted, k, item)[p] =
               IF p < k THEN sorted[p] ELSE IF p = k THEN item ELSE sorted[p - 1]
    <3> DEFINE Messages == Classes(file)
    <3>1. sorted \in Seq(Messages) /\ k \in 1 .. (Len(sorted) + 1) /\ item \in Messages
      BY <1>5, <2>1
    <3> HIDE DEF Was, Messages
    <3>2. /\ InsertAt(sorted, k, item) \in Seq(Messages)
          /\ Len(InsertAt(sorted, k, item)) = Len(sorted) + 1
      BY <3>1, InsertAtIs
    <3>3. InsertAt(sorted, k, item) =
            [p \in 1 .. (Len(sorted) + 1) |->
               IF p < k THEN sorted[p] ELSE IF p = k THEN item ELSE sorted[p - 1]]
      BY <3>1, InsertAtIs
    <3> QED BY <3>2, <3>3 DEF Messages
  <2> QED BY <1>1, <2>1, <2>2
<1>8. /\ sorted'[k] = item
      /\ \A p \in 1 .. idx : p # k => Was(p) \in 1 .. (idx - 1) /\ sorted'[p] = sorted[Was(p)]
  BY <1>1, <1>6, <1>7
<1>9. \A p, q \in 1 .. idx : p # k /\ q # k => (Was(p) = Was(q) => p = q) /\ (Was(q) <= Was(p) => q <= p)
  BY <1>1, <1>6
<1>10. \A p \in 1 .. (idx - 1) : sorted[p] # item
  <2> TAKE p \in 1 .. (idx - 1)
  <2>1. PICK j \in 1 .. (idx - 1) : sorted[p] = Flat[j]
    BY <1>4
  <2>2. j \in 1 .. Len(Flat) /\ j # idx
    BY <1>1, <1>2, <2>1
  <2> QED BY <1>1, <1>2, <2>1, <2>2 DEF item
<1>11. \A p \in 1 .. (idx - 1) : \E n \in 1 .. idx : n # k /\ Was(n) = p
  <2> TAKE p \in 1 .. (idx - 1)
  <2> DEFINE n == IF p < k THEN p ELSE p + 1
  <2>1. n \in 1 .. idx /\ n # k /\ Was(n) = p
    BY <1>1, <1>6
  <2> QED BY <2>1
<1> HIDE DEF Was
<1>12. Typed'
  BY <1>1, <1>2, <1>3 DEF IInv, Typed
<1>13. Sorting'
  <2>1. \A p, q \in 1 .. idx : sorted'[p] = sorted'[q] => p = q
    <3> SUFFICES ASSUME NEW p \in 1 .. idx, NEW q \in 1 .. idx, sorted'[p] = sorted'[q]
                 PROVE  p = q
      OBVIOUS
    <3>1. CASE p = k \/ q = k
      BY <1>8, <1>10, <3>1
    <3>2. CASE p # k /\ q # k
      <4>1. /\ Was(p) \in 1 .. (idx - 1) /\ Was(q) \in 1 .. (idx - 1)
            /\ sorted[Was(p)] = sorted[Was(q)]
        BY <1>8, <3>2
      <4>2. Was(p) = Was(q)
        BY <1>4, <4>1
      <4> QED BY <1>9, <3>2, <4>2
    <3> QED BY <3>1, <3>2
  <2>2. \A p \in 1 .. idx : \E j \in 1 .. idx : sorted'[p] = Flat[j]
    <3> TAKE p \in 1 .. idx
    <3>1. CASE p = k
      BY <1>1, <1>8, <3>1 DEF item
    <3>2. CASE p # k
      <4>1. PICK j \in 1 .. (idx - 1) : sorted[Was(p)] = Flat[j]
        BY <1>4, <1>8, <3>2
      <4>2. j \in 1 .. idx
        BY <1>1, <4>1
      <4> QED BY <1>8, <3>2, <4>1, <4>2
    <3> QED BY <3>1, <3>2
  <2>3. \A j \in 1 .. idx : \E p \in 1 .. idx : sorted'[p] = Flat[j]
    <3> TAKE j \in 1 .. idx
    <3>1. CASE j = idx
      BY <1>6, <1>8, <3>1 DEF item
    <3>2. CASE j # idx
      <4>1. j \in 1 .. (idx - 1)
        BY <1>1, <3>2
      <4>2. PICK p \in 1 .. (idx - 1) : sorted[p] = Flat[j]
        BY <1>4, <4>1
      <4>3. PICK n \in 1 .. idx : n # k /\ Was(n) = p
        BY <1>11
      <4> QED BY <1>8, <4>2, <4>3
    <3> QED BY <3>1, <3>2
  <2> QED BY <1>1, <1>3, <1>7, <2>1, <2>2, <2>3 DEF Sorting
<1>14. Ordered'
  <2> SUFFICES ASSUME Orderly(file), NEW p \in 1 .. idx, NEW q \in 1 .. idx,
                      sorted'[q] \in Holds(file, sorted'[p])
               PROVE  q <= p
    BY <1>1, <1>7 DEF Ordered
  <2> DEFINE Earlier == {Flat[j] : j \in 1 .. (idx - 1)}
  <2>1. \A n \in 1 .. (idx - 1) : sorted[n] \in Earlier
    BY <1>4
  <2>2. /\ \A c \in Earlier : item \in Holds(file, c) => Sees(file, c, item)
        /\ (\E c \in Earlier : Sees(file, c, item)) => Holds(file, item) \cap Earlier = {}
    <3>1. DOMAIN Flat = 1 .. Len(Flat)
      BY <1>2
    <3> QED BY <1>1, <3>1 DEF Orderly, Flat, item
  <2> HIDE DEF Earlier
  <2>3. CASE p = k /\ q = k
    BY <2>3, <1>6
  <2>4. CASE p # k /\ q = k
    <3>1. Was(p) \in 1 .. (idx - 1) /\ Sees(file, sorted[Was(p)], item)
      BY <1>8, <2>1, <2>2, <2>4
    <3>2. ~(Was(p) < k)
      BY <1>6, <3>1
    <3> QED BY <1>1, <1>6, <2>4, <3>2 DEF Was
  <2>5. CASE p = k /\ q # k
    <3>1. Was(q) \in 1 .. (idx - 1) /\ sorted[Was(q)] \in Holds(file, item) \cap Earlier
      BY <1>8, <2>1, <2>5
    <3>2. \A n \in 1 .. (idx - 1) : ~Sees(file, sorted[n], item)
      BY <2>1, <2>2, <3>1
    <3>3. ~(k <= idx - 1)
      BY <1>1, <1>6, <3>2
    <3> QED BY <1>1, <1>6, <2>5, <3>3
  <2>6. CASE p # k /\ q # k
    <3>1. /\ Was(p) \in 1 .. (idx - 1) /\ Was(q) \in 1 .. (idx - 1)
          /\ sorted[Was(q)] \in Holds(file, sorted[Was(p)])
      BY <1>8, <2>6
    <3>2. Was(q) <= Was(p)
      BY <1>4, <3>1 DEF IInv, Ordered
    <3> QED BY <1>9, <2>6, <3>2
  <2> QED BY <2>3, <2>4, <2>5, <2>6
<1>15. SeenByHeader = 0 /\ SeenByHeader' = 0 /\ Len(header) = 0 /\ Len(source) = 0
  BY <1>1, NothingPrinted DEF SeenByHeader, IInv
<1>16. Printing'
  <2>1. header \in Seq({Struct(file, c) : c \in Classes(file)})
    BY DEF IInv, Printing
  <2> QED BY <1>1, <1>15, <2>1 DEF Printing
<1>17. Counting'
  <2>1. source \in Seq([name : Classes(file), counts : {Counts(file, c) : c \in Classes(file)}])
    BY DEF IInv, Counting
  <2> QED BY <1>1, <1>15, <2>1 DEF Counting
<1> QED BY <1>12, <1>13, <1>14, <1>16, <1>17 DEF IInv

LEMMA SortEndsKeeps == IInv /\ SortEnds => IInv'
<1> SUFFICES ASSUME IInv, SortEnds PROVE IInv'
  OBVIOUS
<1>1. /\ phase = "sort" /\ phase' = "header" /\ idx' = 1
      /\ file' = file /\ sorted' = sorted /\ header' = header /\ source' = source
      /\ idx > Len(Flat) /\ file \in Files /\ idx \in 1 .. (Len(Flat) + 1)
  BY DEF IInv, Typed, SortEnds, LoopEnds, Flat
<1>2. Flat' = Flat /\ Len(Flat) \in Nat
  BY <1>1, FlattenedIs DEF Flat
<1>3. Inserted' = Inserted /\ SeenByHeader = 0 /\ SeenByHeader' = 0
  BY <1>1, <1>2 DEF Inserted, SeenByHeader
<1>4. Len(header) = 0 /\ Len(source) = 0
  BY <1>3, NothingPrinted DEF IInv
<1>5. Typed'
  BY <1>1, <1>2 DEF IInv, Typed
<1>6. Sorting'
  BY <1>1, <1>2, <1>3 DEF IInv, Sorting
<1>7. Ordered'
  BY <1>1 DEF IInv, Ordered
<1>8. Printing'
  BY <1>1, <1>3, <1>4 DEF IInv, Printing
<1>9. Counting'
  BY <1>1, <1>4 DEF IInv, Counting
<1> QED BY <1>5, <1>6, <1>7, <1>8, <1>9 DEF IInv

\* The struct of the next message goes behind those of all messages before it.
LEMMA PrintStructKeeps == IInv /\ PrintStruct => IInv'
<1> SUFFICES ASSUME IInv, PrintStruct PROVE IInv'
  OBVIOUS
<1> DEFINE c == sorted[idx]
<1>1. /\ phase = "header" /\ phase' = phase /\ idx' = idx + 1
      /\ file' = file /\ sorted' = sorted /\ source' = source
      /\ header' = IF Printed(file, c) THEN Append(header, Struct(file, c)) ELSE header
      /\ idx <= Len(sorted) /\ file \in Files /\ idx \in 1 .. (Len(Flat) + 1)
  BY DEF IInv, Typed, PrintStruct, Flat
<1>2. Flat' = Flat /\ Len(Flat) \in Nat
  BY <1>1, FlattenedIs DEF Flat
<1>3. /\ Inserted = Len(Flat) /\ Inserted' = Inserted
      /\ SeenByHeader = idx - 1 /\ SeenByHeader' = idx
      /\ SeenBySource = 0 /\ SeenBySource' = 0
  BY <1>1, <1>2 DEF Inserted, SeenByHeader, SeenBySource
<1>4. /\ sorted \in Seq(Classes(file)) /\ Len(sorted) = Len(Flat)
      /\ \A p, q \in 1 .. Len(sorted) : sorted[p] = sorted[q] => p = q
  BY <1>3 DEF IInv, Sorting
<1>5. idx \in 1 .. Len(sorted) /\ Len(sorted) \in Nat /\ c \in Classes(file)
  BY <1>1, <1>2, <1>4
<1> HIDE DEF c
<1>6. /\ header \in Seq({Struct(file, d) : d \in Classes(file)}) /\ Len(header) \in Nat
      /\ \A i \in 1 .. Len(header) : \E p \in 1 .. (idx - 1) :
           header[i].name = sorted[p] /\ Printed(file, sorted[p])
      /\ \A p \in 1 .. (idx - 1) : Printed(file, sorted[p]) =>
           \E i \in 1 .. Len(header) : header[i].name = sorted[p]
      /\ \A i, j \in 1 .. Len(header), p, q \in 1 .. (idx - 1) :
           header[i].name = sorted[p] /\ header[j].name = sorted[q] => (p < q <=> i < j)
  BY <1>3 DEF IInv, Printing
<1>7. Len(source) = 0 /\ source \in Seq([name : Classes(file), counts : {Counts(file, d) : d \in Classes(file)}])
  <2>1. Len(source) \in Nat /\ Len(source) <= Len(header)
    BY DEF IInv, Counting
  <2>2. \A i \in 1 .. Len(header) : ~(i <= Len(source))
    <3> TAKE i \in 1 .. Len(header)
    <3>1. PICK p \in 1 .. (idx - 1) : header[i].name = sorted[p]
      BY <1>6
    <3>2. p \in 1 .. Len(sorted) /\ ~(p <= SeenBySource)
      BY <1>3, <1>5, <3>1
    <3> QED BY <3>1, <3>2 DEF IInv, Counting
  <2>3. Len(source) = 0
    BY <1>6, <2>1, <2>2
  <2> QED BY <2>3 DEF IInv, Counting
<1>8. Typed'
  BY <1>1, <1>2, <1>4, <1>5 DEF IInv, Typed
<1>9. Sorting'
  BY <1>1, <1>2, <1>3 DEF IInv, Sorting
<1>10. Ordered'
  BY <1>1 DEF IInv, Ordered
<1>11. CASE ~Printed(file, c)
  <2>1. header' = header
    BY <1>1, <1>11
  <2>2. \A i \in 1 .. Len(header), p \in 1 .. idx : header[i].name = sorted[p] => p \in 1 .. (idx - 1)
    <3> SUFFICES ASSUME NEW i \in 1 .. Len(header), header[i].name = sorted[idx] PROVE FALSE
      BY <1>5
    <3>1. PICK p \in 1 .. (idx - 1) : header[i].name = sorted[p] /\ Printed(file, sorted[p])
      BY <1>6
    <3> QED BY <1>11, <3>1 DEF c
  <2>3. \A p \in 1 .. (idx - 1) : p \in 1 .. idx
    BY <1>5
  <2>4. \A p \in 1 .. idx : Printed(file, sorted[p]) => p \in 1 .. (idx - 1)
    BY <1>5, <1>11 DEF c
  <2>5. \A i \in 1 .. Len(header) : \E p \in 1 .. idx :
          header[i].name = sorted[p] /\ Printed(file, sorted[p])
    BY <1>6, <2>3
  <2>6. \A p \in 1 .. idx : Printed(file, sorted[p]) =>
          \E i \in 1 .. Len(header) : header[i].name = sorted[p]
    BY <1>6, <2>4
  <2>7. \A i, j \in 1 .. Len(header), p, q \in 1 .. idx :
          header[i].name = sorted[p] /\ header[j].name = sorted[q] => (p < q <=> i < j)
    BY <1>6, <2>2
  <2>8. Printing'
    <3>1. file' = file /\ sorted' = sorted /\ SeenByHeader' = idx
      BY <1>1, <1>3
    <3>2. header' \in Seq({Struct(file', d) : d \in Classes(file')})
      BY <1>6, <2>1, <3>1
    <3> QED BY <2>1, <2>5, <2>6, <2>7, <3>1, <3>2 DEF Printing
  <2>9. Counting'
    BY <1>1, <1>3, <2>1 DEF IInv, Counting
  <2> QED BY <1>8, <1>9, <1>10, <2>8, <2>9 DEF IInv
<1>12. CASE Printed(file, c)
  <2> DEFINE n == Len(header) + 1
             new == Struct(file, c)
  <2>1. /\ header' \in Seq({Struct(file, d) : d \in Classes(file)}) /\ Len(header') = n
        /\ \A i \in 1 .. Len(header) : header'[i] = header[i]
        /\ header'[n] = new
    <3>1. new \in {Struct(file, d) : d \in Classes(file)}
      BY <1>5
    <3> HIDE DEF new
    <3> QED BY <1>1, <1>6, <1>12, <3>1 DEF new
  <2>2. header'[n].name = sorted[idx]
    BY <2>1 DEF Struct, c
  <2>3. \A i \in 1 .. n : i \in 1 .. Len(header) \/ i = n
    BY <1>6
  <2>4. \A p \in 1 .. idx : p \in 1 .. (idx - 1) \/ p = idx
    BY <1>5
  <2>5. \A p \in 1 .. (idx - 1) : p \in 1 .. idx /\ p < idx /\ sorted[p] # sorted[idx]
    BY <1>4, <1>5
  <2>6. \A i \in 1 .. Len(header) : i \in 1 .. n /\ i < n
    BY <1>6
  <2>7. idx \in 1 .. idx /\ n \in 1 .. n /\ ~(idx < idx) /\ ~(n < n)
    BY <1>5, <1>6
  <2> HIDE DEF n, new
  <2>8. \A i \in 1 .. n : \E p \in 1 .. idx :
          header'[i].name = sorted[p] /\ Printed(file, sorted[p])
    <3> TAKE i \in 1 .. n
    <3>1. CASE i = n
      BY <1>12, <2>2, <2>7, <3>1 DEF c
    <3>2. CASE i \in 1 .. Len(header)
      BY <1>6, <2>1, <2>5, <3>2
    <3> QED BY <2>3, <3>1, <3>2
  <2>9. \A p \in 1 .. idx : Printed(file, sorted[p]) =>
          \E i \in 1 .. n : header'[i].name = sorted[p]
    <3> TAKE p \in 1 .. idx
    <3>1. CASE p = idx
      BY <2>2, <2>7, <3>1
    <3>2. CASE p \in 1 .. (idx - 1)
      BY <1>6, <2>1, <2>6, <3>2
    <3> QED BY <2>4, <3>1, <3>2
  <2>10. \A i \in 1 .. n, p \in 1 .. idx : header'[i].name = sorted[p] =>
           \/ i = n /\ p = idx
           \/ i \in 1 .. Len(header) /\ p \in 1 .. (idx - 1) /\ header[i].name = sorted[p]
    <3> SUFFICES ASSUME NEW i \in 1 .. n, NEW p \in 1 .. idx, header'[i].name = sorted[p]
                 PROVE  \/ i = n /\ p = idx
                        \/ i \in 1 .. Len(header) /\ p \in 1 .. (idx - 1) /\ header[i].name = sorted[p]
      OBVIOUS
    <3>1. CASE i = n
      BY <2>2, <2>4, <2>5, <3>1
    <3>2. CASE i \in 1 .. Len(header)
      <4>1. PICK q \in 1 .. (idx - 1) : header[i].name = sorted[q]
        BY <1>6, <3>2
      <4>2. p # idx
        BY <2>1, <2>5, <3>2, <4>1
      <4> QED BY <2>1, <2>4, <3>2, <4>2
    <3> QED BY <2>3, <3>1, <3>2
  <2>11. \A i, j \in 1 .. n, p, q \in 1 .. idx :
           header'[i].name = sorted[p] /\ header'[j].name = sorted[q] => (p < q <=> i < j)
    <3> SUFFICES ASSUME NEW i \in 1 .. n, NEW j \in 1 .. n, NEW p \in 1 .. idx, NEW q \in 1 .. idx,
                        header'[i].name = sorted[p], header'[j].name = sorted[q]
                 PROVE  p < q <=> i < j
      OBVIOUS
    <3>1. CASE i = n /\ p = idx /\ j = n /\ q = idx
      BY <2>7, <3>1
    <3>2. CASE i = n /\ p = idx /\ j \in 1 .. Len(header) /\ q \in 1 .. (idx - 1)
      BY <1>5, <1>6, <3>2 DEF n
    <3>3. CASE i \in 1 .. Len(header) /\ p \in 1 .. (idx - 1) /\ j = n /\ q = idx
      BY <1>5, <1>6, <3>3 DEF n
    <3>4. CASE /\ i \in 1 .. Len(header) /\ p \in 1 .. (idx - 1) /\ header[i].name = sorted[p]
               /\ j \in 1 .. Len(header) /\ q \in 1 .. (idx - 1) /\ header[j].name = sorted[q]
      BY <1>6, <3>4
    <3> QED BY <2>10, <3>1, <3>2, <3>3, <3>4
  <2>12. Printing'
    <3>1. file' = file /\ sorted' = sorted /\ SeenByHeader' = idx /\ Len(header') = n
      BY <1>1, <1>3, <2>1
    <3>2. header' \in Seq({Struct(file', d) : d \in Classes(file')})
      BY <2>1, <3>1
    <3> QED BY <2>8, <2>9, <2>11, <3>1, <3>2 DEF Printing
  <2>13. Counting'
    <3>1. \A i \in 1 .. n, p \in 1 .. Len(sorted) : ~(i <= 0) /\ ~(p <= 0)
      OBVIOUS
    <3>2. /\ source' \in Seq([name : Classes(file'), counts : {Counts(file', d) : d \in Classes(file')}])
          /\ Len(source') = 0 /\ Len(source') <= Len(header')
      BY <1>1, <1>6, <1>7, <2>1 DEF n
    <3> QED BY <1>1, <1>3, <2>1, <3>1, <3>2 DEF Counting
  <2> QED BY <1>8, <1>9, <1>10, <2>12, <2>13 DEF IInv
<1> QED BY <1>11, <1>12

LEMMA HeaderEndsKeeps == IInv /\ HeaderEnds => IInv'
<1> SUFFICES ASSUME IInv, HeaderEnds PROVE IInv'
  OBVIOUS
<1>1. /\ phase = "header" /\ phase' = "source" /\ idx' = 1
      /\ file' = file /\ sorted' = sorted /\ header' = header /\ source' = source
      /\ idx > Len(sorted) /\ file \in Files /\ idx \in 1 .. (Len(Flat) + 1)
  BY DEF IInv, Typed, HeaderEnds, LoopEnds, Flat
<1>2. Flat' = Flat /\ Len(Flat) \in Nat
  BY <1>1, FlattenedIs DEF Flat
<1>3. Inserted' = Inserted /\ Len(sorted) = Len(Flat)
  BY <1>1, <1>2 DEF Inserted, IInv, Sorting
<1>4. SeenByHeader' = SeenByHeader /\ SeenBySource' = SeenBySource
  BY <1>1, <1>2, <1>3 DEF SeenByHeader, SeenBySource
<1>5. Typed'
  BY <1>1, <1>2 DEF IInv, Typed
<1>6. Sorting'
  BY <1>1, <1>2, <1>3 DEF IInv, Sorting
<1>7. Ordered'
  BY <1>1 DEF IInv, Ordered
<1>8. Printing'
  BY <1>1, <1>4, PrintingStays DEF IInv
<1>9. Counting'
  BY <1>1, <1>4 DEF IInv, Counting
<1> QED BY <1>5, <1>6, <1>7, <1>8, <1>9 DEF IInv

\* The size that is printed is that of the next struct of the header.
LEMMA PrintByteSizeKeeps == IInv /\ PrintByteSize => IInv'
<1> SUFFICES ASSUME IInv, PrintByteSize PROVE IInv'
  OBVIOUS
<1> DEFINE c == sorted[idx]
           sizes == [name |-> c, counts |-> Counts(file, c)]
<1>1. /\ phase = "source" /\ phase' = phase /\ idx' = idx + 1
      /\ file' = file /\ sorted' = sorted /\ header' = header
      /\ source' = IF Printed(file, c) THEN Append(source, sizes) ELSE source
      /\ idx <= Len(sorted) /\ file \in Files /\ idx \in 1 .. (Len(Flat) + 1)
  BY DEF IInv, Typed, PrintByteSize, Flat
<1>2. Flat' = Flat /\ Len(Flat) \in Nat
  BY <1>1, FlattenedIs DEF Flat
<1>3. /\ Inserted = Len(Flat) /\ Inserted' = Inserted
      /\ SeenByHeader = Len(sorted) /\ SeenByHeader' = Len(sorted)
      /\ SeenBySource = idx - 1 /\ SeenBySource' = idx
  BY <1>1, <1>2 DEF Inserted, SeenByHeader, SeenBySource
<1>4. /\ sorted \in Seq(Classes(file)) /\ Len(sorted) = Len(Flat)
      /\ \A p, q \in 1 .. Len(sorted) : sorted[p] = sorted[q] => p = q
  BY <1>3 DEF IInv, Sorting
<1>5. idx \in 1 .. Len(sorted) /\ Len(sorted) \in Nat /\ c \in Classes(file)
  BY <1>1, <1>2, <1>4
<1> HIDE DEF c
<1>6. /\ header \in Seq({Struct(file, d) : d \in Classes(file)}) /\ Len(header) \in Nat
      /\ \A i \in 1 .. Len(header) : \E p \in 1 .. Len(sorted) :
           header[i].name = sorted[p] /\ Printed(file, sorted[p])
      /\ \A p \in 1 .. Len(sorted) : Printed(file, sorted[p]) =>
           \E i \in 1 .. Len(header) : header[i].name = sorted[p]
      /\ \A i, j \in 1 .. Len(header), p, q \in 1 .. Len(sorted) :
           header[i].name = sorted[p] /\ header[j].name = sorted[q] => (p < q <=> i < j)
  BY <1>3 DEF IInv, Printing
<1>7. /\ source \in Seq([name : Classes(file), counts : {Counts(file, d) : d \in Classes(file)}])
      /\ Len(source) \in Nat /\ Len(source) <= Len(header)
      /\ \A i \in 1 .. Len(source) : source[i].name = header[i].name
      /\ \A i \in 1 .. Len(header), p \in 1 .. Len(sorted) :
           header[i].name = sorted[p] => (i <= Len(source) <=> p <= idx - 1)
  BY <1>3 DEF IInv, Counting
<1>8. Typed'
  BY <1>1, <1>2, <1>4, <1>5 DEF IInv, Typed
<1>9. Sorting'
  BY <1>1, <1>2, <1>3 DEF IInv, Sorting
<1>10. Ordered'
  BY <1>1 DEF IInv, Ordered
<1>11. Printing'
  BY <1>1, <1>3, PrintingStays DEF IInv
<1>12. file' = file /\ sorted' = sorted /\ header' = header /\ SeenBySource' = idx
  BY <1>1, <1>3
<1>13. CASE ~Printed(file, c)
  <2>1. source' = source
    BY <1>1, <1>13
  <2>2. \A i \in 1 .. Len(header), p \in 1 .. Len(sorted) : header[i].name = sorted[p] => p # idx
    <3> SUFFICES ASSUME NEW i \in 1 .. Len(header), header[i].name = sorted[idx] PROVE FALSE
      OBVIOUS
    <3>1. PICK q \in 1 .. Len(sorted) : header[i].name = sorted[q] /\ Printed(file, sorted[q])
      BY <1>6
    <3> QED BY <1>13, <3>1 DEF c
  <2>3. \A i \in 1 .. Len(header), p \in 1 .. Len(sorted) :
          header[i].name = sorted[p] => (i <= Len(source) <=> p <= idx)
    BY <1>5, <1>7, <2>2
  <2>4. Counting'
    BY <1>7, <1>12, <2>1, <2>3 DEF Counting
  <2> QED BY <1>8, <1>9, <1>10, <1>11, <2>4 DEF IInv
<1>14. CASE Printed(file, c)
  <2> DEFINE n == Len(source) + 1
  <2>1. /\ source' \in Seq([name : Classes(file), counts : {Counts(file, d) : d \in Classes(file)}])
        /\ Len(source') = n
        /\ \A i \in 1 .. Len(source) : source'[i] = source[i]
        /\ source'[n] = sizes
    <3>1. sizes \in [name : Classes(file), counts : {Counts(file, d) : d \in Classes(file)}]
      BY <1>5
    <3> HIDE DEF sizes
    <3> QED BY <1>1, <1>7, <1>14, <3>1
  <2>2. source'[n].name = sorted[idx]
    BY <2>1 DEF c
  <2> HIDE DEF sizes
  <2>3. PICK i \in 1 .. Len(header) : header[i].name = sorted[idx]
    BY <1>5, <1>6, <1>14 DEF c
  <2>4. ~(i <= Len(source))
    <3>1. ~(idx <= idx - 1)
      BY <1>5
    <3> QED BY <1>5, <1>7, <2>3, <3>1
  <2>5. n \in 1 .. Len(header) /\ n <= i
    BY <1>6, <1>7, <2>3, <2>4
  <2>6. i = n
    <3>1. PICK p \in 1 .. Len(sorted) : header[n].name = sorted[p]
      BY <1>6, <2>5
    <3>2. ~(n <= Len(source))
      BY <1>7
    <3>3. ~(p <= idx - 1)
      BY <1>7, <2>5, <3>1, <3>2
    <3>4. ~(p < idx)
      BY <1>5, <3>3
    <3>5. ~(n < i)
      BY <1>5, <1>6, <2>3, <2>5, <3>1, <3>4
    <3> QED BY <2>3, <2>5, <3>5
  <2>7. header[n].name = sorted[idx]
    BY <2>3, <2>6
  <2>8. \A j \in 1 .. n : source'[j].name = header[j].name
    <3> TAKE j \in 1 .. n
    <3>1. j \in 1 .. Len(source) \/ j = n
      BY <1>7
    <3> QED BY <1>7, <2>1, <2>2, <2>7, <3>1
  <2>9. \A j \in 1 .. Len(header), p \in 1 .. Len(sorted) :
          header[j].name = sorted[p] => (j <= n <=> p <= idx)
    <3> SUFFICES ASSUME NEW j \in 1 .. Len(header), NEW p \in 1 .. Len(sorted),
                        header[j].name = sorted[p]
                 PROVE  j <= n <=> p <= idx
      OBVIOUS
    <3> HIDE DEF n
    <3>1. idx \in 1 .. Len(sorted) /\ n \in 1 .. Len(header)
      BY <1>5, <2>5
    <3>2. idx < p <=> n < j
      BY <1>6, <2>7, <3>1
    <3> QED BY <1>5, <1>6, <3>1, <3>2
  <2>10. Counting'
    <3>1. source' \in Seq([name : Classes(file'), counts : {Counts(file', d) : d \in Classes(file')}])
      BY <1>12, <2>1
    <3>2. Len(source') = n /\ n <= Len(header)
      BY <2>1, <2>5
    <3> HIDE DEF n
    <3> QED BY <1>12, <2>8, <2>9, <3>1, <3>2 DEF Counting
  <2> QED BY <1>8, <1>9, <1>10, <1>11, <2>10 DEF IInv
<1> QED BY <1>13, <1>14

LEMMA SourceEndsKeeps == IInv /\ SourceEnds => IInv'
<1> SUFFICES ASSUME IInv, SourceEnds PROVE IInv'
  OBVIOUS
<1>1. /\ phase = "source" /\ phase' = "done" /\ idx' = 1
      /\ file' = file /\ sorted' = sorted /\ header' = header /\ source' = source
      /\ idx > Len(sorted) /\ file \in Files /\ idx \in 1 .. (Len(Flat) + 1)
  BY DEF IInv, Typed, SourceEnds, LoopEnds, Flat
<1>2. Flat' = Flat /\ Len(Flat) \in Nat
  BY <1>1, FlattenedIs DEF Flat
<1>3. Inserted' = Inserted /\ Len(sorted) = Len(Flat)
  BY <1>1, <1>2 DEF Inserted, IInv, Sorting
<1>4. SeenByHeader' = SeenByHeader /\ SeenBySource' = SeenBySource
  BY <1>1, <1>2, <1>3 DEF SeenByHeader, SeenBySource
<1>5. Typed'
  BY <1>1, <1>2 DEF IInv, Typed
<1>6. Sorting'
  BY <1>1, <1>2, <1>3 DEF IInv, Sorting
<1>7. Ordered'
  BY <1>1 DEF IInv, Ordered
<1>8. Printing'
  BY <1>1, <1>4, PrintingStays DEF IInv
<1>9. Counting'
  BY <1>1, <1>4 DEF IInv, Counting
<1> QED BY <1>5, <1>6, <1>7, <1>8, <1>9 DEF IInv

LEMMA StutterKeeps == IInv /\ UNCHANGED vars => IInv'
<1> SUFFICES ASSUME IInv, UNCHANGED vars PROVE IInv'
  OBVIOUS
<1>1. /\ file' = file /\ phase' = phase /\ idx' = idx
      /\ sorted' = sorted /\ header' = header /\ source' = source
  BY DEF vars
<1>2. Flat' = Flat
  BY <1>1 DEF Flat
<1>3. Inserted' = Inserted /\ SeenByHeader' = SeenByHeader /\ SeenBySource' = SeenBySource
  BY <1>1, <1>2 DEF Inserted, SeenByHeader, SeenBySource
<1>4. Typed'
  BY <1>1, <1>2 DEF IInv, Typed
<1>5. Sorting'
  BY <1>1, <1>2, <1>3 DEF IInv, Sorting
<1>6. Ordered'
  BY <1>1 DEF IInv, Ordered
<1>7. Printing'
  BY <1>1, <1>3, PrintingStays DEF IInv
<1>8. Counting'
  BY <1>1, <1>3 DEF IInv, Counting
<1> QED BY <1>4, <1>5, <1>6, <1>7, <1>8 DEF IInv

\* Every state of the generator satisfies the invariant.
THEOREM Inductive == Spec => []IInv
<1>1. IInv /\ [Next]_vars => IInv'
  BY InsertMsgKeeps, SortEndsKeeps, PrintStructKeeps, HeaderEndsKeeps,
     PrintByteSizeKeeps, SourceEndsKeeps, StutterKeeps DEF Next
<1> QED BY InitHolds, <1>1, PTL DEF Spec

-----------------------------------------------------------------------------
(* What follows from the invariant.                                          *)

\* The variables hold values of their kinds, for every set of files.
THEOREM TypeCorrect == Spec => []TypeOK
<1>1. IInv => TypeOK
  <2> SUFFICES ASSUME IInv PROVE TypeOK
    OBVIOUS
  <2>1. /\ file \in Files /\ phase \in {"sort", "header", "source", "done"}
        /\ idx \in 1 .. (Len(Flattened(file)) + 1) /\ sorted \in Seq(Classes(file))
    BY DEF IInv, Typed, Sorting, Flat
  <2>2. \A i \in DOMAIN header : header[i].name \in Classes(file)
    <3>1. header \in Seq({Struct(file, c) : c \in Classes(file)})
      BY DEF IInv, Printing
    <3>2. \A d \in {Struct(file, c) : c \in Classes(file)} : d.name \in Classes(file)
      BY DEF Struct
    <3> QED BY <3>1, <3>2
  <2>3. \A i \in DOMAIN source : source[i].name \in Classes(file)
    <3> DEFINE Sizes == [name : Classes(file), counts : {Counts(file, c) : c \in Classes(file)}]
    <3>1. source \in Seq(Sizes)
      BY DEF IInv, Counting
    <3>2. \A d \in Sizes : d.name \in Classes(file)
      OBVIOUS
    <3> HIDE DEF Sizes
    <3> QED BY <3>1, <3>2
  <2> QED BY <2>1, <2>2, <2>3 DEF TypeOK
<1> QED BY Inductive, <1>1, PTL

\* sortMsgs is right for every orderly file: in the header printed for it each
\* struct is declared before another one holds it.
THEOREM OrderIsKept == Spec => []OrderKept
<1>1. IInv => OrderKept
  <2> SUFFICES ASSUME IInv, Orderly(file),
                      NEW i \in DOMAIN header,
                      NEW held \in Holds(file, header[i].name) \ {header[i].name}
               PROVE  \E j \in 1 .. (i - 1) : header[j].name = held
    BY DEF OrderKept, DeclaredBeforeUse
  <2>1. i \in 1 .. Len(header) /\ Len(header) \in Nat
    BY DEF IInv, Printing
  <2>2. PICK p \in 1 .. SeenByHeader : header[i].name = sorted[p]
    BY <2>1 DEF IInv, Printing
  <2>3. /\ Flat \in Seq(Classes(file)) /\ Len(Flat) \in Nat
        /\ \A c \in Classes(file) : \E n \in 1 .. Len(Flat) : Flat[n] = c
    BY FlattenedIs DEF IInv, Typed, Flat
  <2>4. phase # "sort" /\ Inserted = Len(Flat)
    <3>1. phase # "sort"
      BY <2>2 DEF SeenByHeader
    <3> QED BY <3>1 DEF Inserted
  <2>5. sorted \in Seq(Classes(file)) /\ Len(sorted) = Len(Flat)
    BY <2>4 DEF IInv, Sorting
  <2>6. SeenByHeader \in Nat /\ SeenByHeader <= Len(sorted)
    <3>1. idx \in 1 .. (Len(Flat) + 1)
      BY DEF IInv, Typed
    <3> QED BY <2>3, <2>4, <2>5, <3>1 DEF SeenByHeader
  <2>7. header[i].name \in Classes(file)
    BY <2>2, <2>3, <2>5, <2>6
  <2>8. held \in Classes(file) /\ Printed(file, held)
    <3>1. held \in Classes(file)
      BY DEF Holds
    <3> QED BY <2>7, <3>1 DEF Orderly
  <2>9. PICK n \in 1 .. Len(Flat) : Flat[n] = held
    BY <2>3, <2>8
  <2>10. PICK q \in 1 .. Len(sorted) : sorted[q] = held
    BY <2>4, <2>9 DEF IInv, Sorting
  <2>11. p \in 1 .. Len(sorted)
    BY <2>5, <2>6
  <2>12. q <= p
    BY <2>2, <2>10, <2>11 DEF IInv, Ordered
  <2>13. q # p
    BY <2>2, <2>10
  <2>14. q \in 1 .. SeenByHeader /\ q < p
    BY <2>5, <2>6, <2>12, <2>13
  <2>15. PICK j \in 1 .. Len(header) : header[j].name = sorted[q]
    BY <2>8, <2>10, <2>14 DEF IInv, Printing
  <2>16. j < i
    BY <2>1, <2>2, <2>14, <2>15 DEF IInv, Printing
  <2>17. j \in 1 .. (i - 1)
    BY <2>1, <2>16
  <2> QED BY <2>10, <2>15, <2>17
<1> QED BY Inductive, <1>1, PTL

\* For every file the header and the source have the same structs in the same
\* order, each once: those of the messages that are to be printed.
THEOREM StructsAreComplete == Spec => []EachStructOnce
<1>1. IInv => EachStructOnce
  <2> SUFFICES ASSUME IInv, phase = "done" PROVE EachStructOnce
    BY DEF EachStructOnce
  <2> DEFINE Names(structs) == [i \in DOMAIN structs |-> structs[i].name]
  <2>1. /\ Flat \in Seq(Classes(file)) /\ Len(Flat) \in Nat
        /\ \A c \in Classes(file) : \E n \in 1 .. Len(Flat) : Flat[n] = c
    BY FlattenedIs DEF IInv, Typed, Flat
  <2>2. Inserted = Len(Flat) /\ SeenByHeader = Len(sorted) /\ SeenBySource = Len(sorted)
    BY DEF Inserted, SeenByHeader, SeenBySource
  <2>3. /\ sorted \in Seq(Classes(file)) /\ Len(sorted) = Len(Flat)
        /\ \A p, q \in 1 .. Len(sorted) : sorted[p] = sorted[q] => p = q
        /\ \A j \in 1 .. Len(Flat) : \E p \in 1 .. Len(sorted) : sorted[p] = Flat[j]
    BY <2>2 DEF IInv, Sorting
  <2>4. /\ DOMAIN header = 1 .. Len(header) /\ Len(header) \in Nat
        /\ \A i \in 1 .. Len(header) : \E p \in 1 .. Len(sorted) :
             header[i].name = sorted[p] /\ Printed(file, sorted[p])
        /\ \A p \in 1 .. Len(sorted) : Printed(file, sorted[p]) =>
             \E i \in 1 .. Len(header) : header[i].name = sorted[p]
        /\ \A i, j \in 1 .. Len(header), p, q \in 1 .. Len(sorted) :
             header[i].name = sorted[p] /\ header[j].name = sorted[q] => (p < q <=> i < j)
    BY <2>2 DEF IInv, Printing
  <2>5. /\ DOMAIN source = 1 .. Len(source) /\ Len(source) \in Nat
        /\ Len(source) <= Len(header)
        /\ \A i \in 1 .. Len(source) : source[i].name = header[i].name
        /\ \A i \in 1 .. Len(header), p \in 1 .. Len(sorted) :
             header[i].name = sorted[p] => (i <= Len(source) <=> p <= Len(sorted))
    BY <2>2 DEF IInv, Counting
  <2>6. \A i \in 1 .. Len(header) : i <= Len(source)
    <3> TAKE i \in 1 .. Len(header)
    <3>1. PICK p \in 1 .. Len(sorted) : header[i].name = sorted[p]
      BY <2>4
    <3>2. p <= Len(sorted)
      OBVIOUS
    <3> QED BY <2>5, <3>1, <3>2
  <2>7. Len(source) = Len(header)
    <3>1. CASE Len(header) = 0
      BY <2>5, <3>1
    <3>2. CASE Len(header) # 0
      <4>1. Len(header) \in 1 .. Len(header)
        BY <2>4, <3>2
      <4>2. Len(header) <= Len(source)
        BY <2>6, <4>1
      <4>3. Len(header) \in Nat /\ Len(source) \in Nat /\ Len(source) <= Len(header)
        BY <2>4, <2>5
      <4> QED BY <4>2, <4>3
    <3> QED BY <3>1, <3>2
  <2>8. Names(header) = Names(source)
    BY <2>4, <2>5, <2>7
  <2>9. IsInjective(Names(header))
    <3>1. \A i, j \in 1 .. Len(header) : header[i].name = header[j].name => i = j
      <4> SUFFICES ASSUME NEW i \in 1 .. Len(header), NEW j \in 1 .. Len(header),
                          header[i].name = header[j].name
                   PROVE  i = j
        OBVIOUS
      <4>1. PICK p \in 1 .. Len(sorted) : header[i].name = sorted[p]
        BY <2>4
      <4>2. ~(p < p)
        OBVIOUS
      <4>3. ~(i < j) /\ ~(j < i)
        BY <2>4, <4>1, <4>2
      <4> QED BY <4>3
    <3> QED BY <2>4, <3>1 DEF IsInjective
  <2>10. Range(Names(header)) = {c \in Classes(file) : Printed(file, c)}
    <3>1. \A i \in 1 .. Len(header) : header[i].name \in Classes(file) /\ Printed(file, header[i].name)
      <4> TAKE i \in 1 .. Len(header)
      <4>1. PICK p \in 1 .. Len(sorted) : header[i].name = sorted[p] /\ Printed(file, sorted[p])
        BY <2>4
      <4> QED BY <2>3, <4>1
    <3>2. ASSUME NEW c \in Classes(file), Printed(file, c)
          PROVE  \E i \in 1 .. Len(header) : header[i].name = c
      <4>1. PICK n \in 1 .. Len(Flat) : Flat[n] = c
        BY <2>1
      <4>2. PICK p \in 1 .. Len(sorted) : sorted[p] = c
        BY <2>3, <4>1
      <4> QED BY <2>4, <3>2, <4>2
    <3> QED BY <2>4, <3>1, <3>2 DEF Range
  <2> QED BY <2>8, <2>9, <2>10 DEF EachStructOnce
<1> QED BY Inductive, <1>1, PTL

-----------------------------------------------------------------------------
(* What is printed is that of its message.                                   *)

Contents ==
  /\ \A i \in DOMAIN header : /\ header[i].name \in Classes(file)
                              /\ header[i] = Struct(file, header[i].name)
  /\ \A i \in DOMAIN source : /\ i \in DOMAIN header /\ source[i].name = header[i].name
                              /\ source[i].counts = Counts(file, source[i].name)

CountsOfName ==
  \A i \in 1 .. Len(source) : source[i].counts = Counts(file, source[i].name)

LEMMA CountsStay ==
  ASSUME IInv, CountsOfName, [Next]_vars
  PROVE  CountsOfName'
<1>1. source \in Seq([name : Classes(file), counts : {Counts(file, d) : d \in Classes(file)}])
  BY DEF IInv, Counting
<1>2. Len(source) \in Nat
  BY <1>1
<1>3. CASE file' = file /\ source' = source
  BY <1>3 DEF CountsOfName
<1>4. CASE PrintByteSize
  <2> DEFINE c == sorted[idx]
             sizes == [name |-> c, counts |-> Counts(file, c)]
             n == Len(source) + 1
  <2>1. file' = file /\ source' = IF Printed(file, c) THEN Append(source, sizes) ELSE source
    BY <1>4 DEF PrintByteSize
  <2>2. CASE ~Printed(file, c)
    BY <1>3, <2>1, <2>2
  <2>3. CASE Printed(file, c)
    <3>1. sizes.name = c /\ sizes.counts = Counts(file, c)
      OBVIOUS
    <3> HIDE DEF sizes, c
    <3>4. \A e : /\ Len(Append(source, e)) = n /\ Append(source, e)[n] = e
                /\ \A i \in 1 .. Len(source) : Append(source, e)[i] = source[i]
      BY <1>1, SeqOfItself, AppendIsSeq
    <3>2. /\ Len(source') = n /\ source'[n] = sizes
          /\ \A i \in 1 .. Len(source) : source'[i] = source[i]
      BY <1>2, <2>1, <2>3, <3>4
    <3>3. \A i \in 1 .. n : source'[i].counts = Counts(file, source'[i].name)
      <4> TAKE i \in 1 .. n
      <4>1. CASE i = n
        BY <3>1, <3>2, <4>1
      <4>2. CASE i # n
        <5>1. i \in 1 .. Len(source)
          BY <1>2, <4>2
        <5> QED BY <3>2, <5>1 DEF CountsOfName
      <4> QED BY <4>1, <4>2
    <3> QED BY <2>1, <3>2, <3>3 DEF CountsOfName
  <2> QED BY <2>2, <2>3
<1>5. PrintByteSize \/ (file' = file /\ source' = source)
  BY DEF Next, InsertMsg, SortEnds, PrintStruct, HeaderEnds, SourceEnds, LoopEnds, vars
<1> QED BY <1>3, <1>4, <1>5

\* Struct for struct and size for size.
LEMMA ContentsKept == Spec => []Contents
<1>1. Init => CountsOfName
  <2> SUFFICES ASSUME Init PROVE CountsOfName
    OBVIOUS
  <2>1. source = <<>> /\ Len(<<>>) = 0
    BY EmptySeq DEF Init
  <2> QED BY <2>1 DEF CountsOfName
<1>2. IInv /\ CountsOfName /\ [Next]_vars => CountsOfName'
  BY CountsStay
<1>3. IInv /\ CountsOfName => Contents
  <2> SUFFICES ASSUME IInv, CountsOfName PROVE Contents
    OBVIOUS
  <2>1. header \in Seq({Struct(file, c) : c \in Classes(file)})
    BY DEF IInv, Printing
  <2>2. \A d \in {Struct(file, c) : c \in Classes(file)} : d.name \in Classes(file) /\ d = Struct(file, d.name)
    BY DEF Struct
  <2>3. \A i \in DOMAIN header : header[i].name \in Classes(file) /\ header[i] = Struct(file, header[i].name)
    BY <2>1, <2>2
  <2>4. /\ source \in Seq([name : Classes(file), counts : {Counts(file, d) : d \in Classes(file)}])
        /\ Len(source) <= Len(header) /\ \A i \in 1 .. Len(source) : source[i].name = header[i].name
    BY DEF IInv, Counting
  <2>5. /\ DOMAIN source = 1 .. Len(source) /\ DOMAIN header = 1 .. Len(header)
        /\ Len(source) \in Nat /\ Len(header) \in Nat
    BY <2>1, <2>4, LenProperties
  <2>6. \A i \in DOMAIN source : i \in DOMAIN header /\ source[i].name = header[i].name
    BY <2>4, <2>5
  <2> QED BY <2>3, <2>5, <2>6 DEF Contents, CountsOfName
<1> QED BY <1>1, <1>2, <1>3, Inductive, PTL DEF Spec

-----------------------------------------------------------------------------
(* The sizes of the fields.                                                  *)

LEMMA PartsDiffer ==
  ASSUME NEW a, NEW b, NEW c, NEW d, NEW e, NEW f
  PROVE  /\ {Part(a, b, c)} = {Part(d, e, f)} <=> a = d /\ b = e /\ c = f
         /\ {Part(a, b, c)} # {}
         /\ \A g, h, i : a # d => {Part(a, b, c), Part(d, e, f)} # {Part(g, h, i)}
<1>1. Part(a, b, c) = Part(d, e, f) <=> a = d /\ b = e /\ c = f
  BY DEF Part
<1>2. {Part(a, b, c)} = {Part(d, e, f)} <=> Part(a, b, c) = Part(d, e, f)
  OBVIOUS
<1>3. ASSUME NEW g, NEW h, NEW i, a # d
      PROVE  {Part(a, b, c), Part(d, e, f)} # {Part(g, h, i)}
  <2>1. Part(a, b, c) # Part(d, e, f)
    BY <1>1, <1>3
  <2> QED BY <2>1
<1>4. {Part(a, b, c)} # {}
  OBVIOUS
<1> QED BY <1>1, <1>2, <1>3, <1>4

Only(when, tag, bytes) == {Part(when, tag, bytes)}

LEMMA TimesDiffer ==
  \A a, b, c, d, e, f : a # d => Only(a, b, c) # Only(d, e, f)
<1> SUFFICES ASSUME NEW a, NEW b, NEW c, NEW d, NEW e, NEW f, a # d
             PROVE  Only(a, b, c) # Only(d, e, f)
  OBVIOUS
<1>1. Part(a, b, c) # Part(d, e, f)
  BY DEF Part
<1> HIDE DEF Part
<1> QED BY <1>1 DEF Only

\* A tag is one byte below the field number 16.
LEMMA TagIsOneByte ==
  ASSUME NEW num \in Nat
  PROVE  Len(Tag(num, 0)) = 1 <=> num < 16
<1>1. 8 * num \in Nat /\ (8 * num) \div 128 \in Nat /\ (8 * num >= 128 <=> ~(num < 16)) /\ 8 * num + 0 = 8 * num
  OBVIOUS
<1>2. Len(VarintBytes[8 * num]) = VarintByteSize[8 * num]
  BY <1>1, VarintBytesAre
<1>3. VarintByteSize[8 * num] = IF 8 * num >= 128 THEN 1 + VarintByteSize[(8 * num) \div 128] ELSE 1
  BY <1>1, VarintByteSizeIs
<1>4. VarintByteSize[(8 * num) \div 128] \in Nat \ {0}
  BY <1>1, VarintByteSizeIs
<1>5. Tag(num, 0) = VarintBytes[8 * num]
  BY <1>1 DEF Tag
<1> HIDE DEF Tag
<1>6. Len(Tag(num, 0)) = VarintByteSize[8 * num]
  BY <1>2, <1>5
<1> DEFINE length == Len(Tag(num, 0))
           size == VarintByteSize[8 * num]
           rest == VarintByteSize[(8 * num) \div 128]
<1>7. length = size /\ rest \in Nat \ {0} /\ size = IF num < 16 THEN 1 ELSE 1 + rest
  BY <1>1, <1>3, <1>4, <1>6
<1> HIDE DEF length, size, rest
<1>8. length = 1 <=> num < 16
  BY <1>7
<1> QED BY <1>8 DEF length

\* How a field, a key or a value is coded and counted.
LEMMA CodingsAre ==
  ASSUME NEW part, IsTyped(part)
  PROVE  /\ FieldType(part) \in {TYPE_VARINT, TYPE_SVARINT, TYPE_FIXED32, TYPE_FIXED64}
         /\ SizeOf(part) \in {"prefixed", "4 bytes", "8 bytes", "varint"}
         /\ FieldType(part) = TYPE_VARINT <=> WrittenAs(Cpp(part), TYPE_VARINT) = SizeOf(part)
         /\ FieldType(part) = TYPE_SVARINT <=> part.type \in SintTypes
         /\ FieldType(part) = TYPE_FIXED32 => SizeOf(part) = "4 bytes"
         /\ FieldType(part) = TYPE_FIXED64 => SizeOf(part) = "8 bytes"
         /\ Cpp(part) \in Ints32 \cup Ints64 /\ FieldType(part) = TYPE_FIXED64 <=> part.type \in Fixed64Types
         /\ part.type = "message" => /\ IsMessage(Cpp(part)) /\ SizeOf(part) = "prefixed"
                                     /\ FieldType(part) = TYPE_VARINT
         /\ part.type # "message" => ~IsMessage(Cpp(part))
<1> DEFINE type == part.type
           cpp == Cpp(part)
           coding == FieldType(part)
           size == SizeOf(part)
           Written0 == WrittenAs(cpp, TYPE_VARINT)
<1>a. type \in Types /\ (type = "message" => IsMessage(part.message))
  BY DEF IsTyped
<1>1. /\ type \in {"double", "float", "bool", "enum", "int32", "uint32", "int64", "uint64",
                   "message", "string", "bytes"} => coding = TYPE_VARINT
      /\ type \in {"sint32", "sint64"} => coding = TYPE_SVARINT
      /\ type \in {"fixed32", "sfixed32"} => coding = TYPE_FIXED32
      /\ type \in {"fixed64", "sfixed64"} => coding = TYPE_FIXED64
  BY DEF FieldType, Fixed64Types, Fixed32Types, SintTypes
<1>2. /\ type \in {"message", "string", "bytes"} => size = "prefixed"
      /\ type \in {"float", "sint32", "fixed32", "sfixed32"} => size = "4 bytes"
      /\ type \in {"double", "sint64", "fixed64", "sfixed64"} => size = "8 bytes"
      /\ type \in {"bool", "enum", "int32", "uint32", "int64", "uint64"} => size = "varint"
  BY DEF SizeOf, PrefixedTypes, Fixed64Types, Fixed32Types
<1>3. /\ type \in {"double", "float", "bool"} => cpp = type
      /\ type \in {"string", "bytes"} => cpp = "string"
      /\ type \in {"int64", "uint64", "sint64", "fixed64", "sfixed64"} => cpp = "int64"
      /\ type = "message" => cpp = part.message
      /\ type \in {"enum", "int32", "uint32", "sint32", "fixed32", "sfixed32"} => cpp = "int32"
  BY DEF Cpp, WideTypes, Fixed64Types
<1>4. /\ cpp = "string" \/ IsMessage(cpp) => Written0 = "prefixed"
      /\ cpp = "float" => Written0 = "4 bytes"
      /\ cpp = "double" => Written0 = "8 bytes"
      /\ cpp \in {"bool", "int32", "int64"} => Written0 = "varint"
  BY DEF WrittenAs, IsMessage, Scalars, Ints32, Ints64, TYPE_VARINT, TYPE_SVARINT, TYPE_FIXED32, TYPE_FIXED64
<1>5. type \in {"double", "float", "bool", "enum", "int32", "uint32", "int64", "uint64",
                "message", "string", "bytes", "sint32", "sint64", "fixed32", "sfixed32", "fixed64", "sfixed64"}
  BY <1>a DEF Types, PrefixedTypes, WideTypes, Fixed64Types, Fixed32Types, SintTypes
<1>6. /\ TYPE_VARINT # TYPE_SVARINT /\ TYPE_VARINT # TYPE_FIXED32 /\ TYPE_VARINT # TYPE_FIXED64
      /\ TYPE_SVARINT # TYPE_FIXED32 /\ TYPE_SVARINT # TYPE_FIXED64 /\ TYPE_FIXED32 # TYPE_FIXED64
  BY DEF TYPE_VARINT, TYPE_SVARINT, TYPE_FIXED32, TYPE_FIXED64
<1>7. /\ \A c \in {"double", "float", "bool", "string"} : c \notin Ints32 \cup Ints64
      /\ \A c \in {"int32", "int64"} : c \in Ints32 \cup Ints64
      /\ \A c : IsMessage(c) => c \notin Ints32 \cup Ints64
  BY DEF Ints32, Ints64, IsMessage, Scalars
<1>8. SintTypes = {"sint32", "sint64"} /\ Fixed64Types = {"fixed64", "sfixed64"}
  BY DEF SintTypes, Fixed64Types
<1> HIDE DEF type, cpp, coding, size, Written0
<1>9. /\ coding \in {TYPE_VARINT, TYPE_SVARINT, TYPE_FIXED32, TYPE_FIXED64}
      /\ size \in {"prefixed", "4 bytes", "8 bytes", "varint"}
  BY <1>1, <1>2, <1>5
<1>10. coding = TYPE_VARINT <=> Written0 = size
  <2>1. CASE type \in {"string", "bytes"}
    BY <1>1, <1>2, <1>3, <1>4, <1>6, <2>1
  <2>2. CASE type = "message"
    BY <1>a, <1>1, <1>2, <1>3, <1>4, <1>6, <2>2
  <2>3. CASE type \in {"double", "float", "bool"}
    BY <1>1, <1>2, <1>3, <1>4, <1>6, <2>3
  <2>4. CASE type \in {"enum", "int32", "uint32", "int64", "uint64"}
    BY <1>1, <1>2, <1>3, <1>4, <1>6, <2>4
  <2>5. CASE type \in {"sint32", "fixed32", "sfixed32"}
    <3>1. coding # TYPE_VARINT
      BY <1>1, <1>6, <2>5
    <3>2. Written0 = "varint" /\ size = "4 bytes"
      BY <1>2, <1>3, <1>4, <2>5
    <3> QED BY <3>1, <3>2
  <2>6. CASE type \in {"sint64", "fixed64", "sfixed64"}
    <3>1. coding # TYPE_VARINT
      BY <1>1, <1>6, <2>6
    <3>2. Written0 = "varint" /\ size = "8 bytes"
      BY <1>2, <1>3, <1>4, <2>6
    <3> QED BY <3>1, <3>2
  <2> QED BY <1>5, <2>1, <2>2, <2>3, <2>4, <2>5, <2>6
<1>11. coding = TYPE_SVARINT <=> type \in SintTypes
  BY <1>1, <1>5, <1>6, <1>8
<1>12. /\ coding = TYPE_FIXED32 => size = "4 bytes"
       /\ coding = TYPE_FIXED64 => size = "8 bytes"
  <2>1. /\ coding = TYPE_FIXED32 => type \in {"fixed32", "sfixed32"}
        /\ coding = TYPE_FIXED64 => type \in {"fixed64", "sfixed64"}
    BY <1>1, <1>5, <1>6
  <2> QED BY <1>2, <2>1
<1>13. cpp \in Ints32 \cup Ints64 /\ coding = TYPE_FIXED64 <=> type \in Fixed64Types
  BY <1>1, <1>3, <1>5, <1>6, <1>7, <1>8
<1>14. type = "message" => IsMessage(cpp) /\ size = "prefixed" /\ coding = TYPE_VARINT
  BY <1>a, <1>1, <1>2, <1>3
<1>15. type # "message" => ~IsMessage(cpp)
  <2>1. \A c \in {"double", "float", "bool", "string", "int32", "int64"} : ~IsMessage(c)
    BY DEF IsMessage, Scalars, Ints32, Ints64
  <2> QED BY <1>3, <1>5, <2>1
<1> QED BY <1>9, <1>10, <1>11, <1>12, <1>13, <1>14, <1>15 DEF type, cpp, coding, size, Written0

\* The entry of a map: all four depend on the coding of the key alone.
LEMMA EntriesAre ==
  ASSUME NEW key, IsTyped(key), NEW value, IsTyped(value)
  PROVE  /\ WrittenInEntry(Cpp(key), FieldType(key)) = SizeOf(key)
         /\ WrittenInEntry(Cpp(value), FieldType(key)) = SizeOf(value)
         <=> IF FieldType(key) = TYPE_VARINT
               THEN FieldType(value) = TYPE_VARINT
               ELSE key.type \notin SintTypes /\ SizeOf(value) = SizeOf(key)
<1> DEFINE coding == FieldType(key)
           asKey == WrittenInEntry(Cpp(key), coding)
           asValue == WrittenInEntry(Cpp(value), coding)
<1>1. /\ TYPE_VARINT # TYPE_SVARINT /\ TYPE_VARINT # TYPE_FIXED32 /\ TYPE_VARINT # TYPE_FIXED64
      /\ TYPE_SVARINT # TYPE_FIXED32 /\ TYPE_SVARINT # TYPE_FIXED64 /\ TYPE_FIXED32 # TYPE_FIXED64
  BY DEF TYPE_VARINT, TYPE_SVARINT, TYPE_FIXED32, TYPE_FIXED64
<1>2. coding \in {TYPE_VARINT, TYPE_SVARINT, TYPE_FIXED32, TYPE_FIXED64}
  BY CodingsAre
<1>3. CASE coding = TYPE_VARINT
  <2>1. asKey = WrittenAs(Cpp(key), TYPE_VARINT) /\ asValue = WrittenAs(Cpp(value), TYPE_VARINT)
    BY <1>1, <1>3 DEF WrittenInEntry
  <2>2. asKey = SizeOf(key) /\ (asValue = SizeOf(value) <=> FieldType(value) = TYPE_VARINT)
    BY <1>3, <2>1, CodingsAre
  <2> QED BY <1>3, <2>2
<1>4. CASE coding = TYPE_SVARINT
  <2>1. asKey = "zigzag"
    BY <1>1, <1>4 DEF WrittenInEntry
  <2>2. key.type \in SintTypes
    BY <1>4, CodingsAre
  <2>3. SizeOf(key) \in {"prefixed", "4 bytes", "8 bytes", "varint"}
    BY CodingsAre
  <2>4. asKey # SizeOf(key)
    BY <2>1, <2>3
  <2> QED BY <1>1, <1>4, <2>2, <2>4
<1>5. CASE coding = TYPE_FIXED32
  <2>1. asKey = "4 bytes" /\ asValue = "4 bytes"
    BY <1>1, <1>5 DEF WrittenInEntry
  <2>2. SizeOf(key) = "4 bytes" /\ key.type \notin SintTypes
    BY <1>1, <1>5, CodingsAre
  <2> QED BY <1>1, <1>5, <2>1, <2>2
<1>6. CASE coding = TYPE_FIXED64
  <2>1. asKey = "8 bytes" /\ asValue = "8 bytes"
    BY <1>1, <1>6 DEF WrittenInEntry
  <2>2. SizeOf(key) = "8 bytes" /\ key.type \notin SintTypes
    BY <1>1, <1>6, CodingsAre
  <2> QED BY <1>1, <1>6, <2>1, <2>2
<1> QED BY <1>2, <1>3, <1>4, <1>5, <1>6

\* What is written of the three kinds of items.
LEMMA WrittenOfMap ==
  ASSUME NEW num, NEW key, NEW keyType, NEW cpp, NEW type
  PROVE  Written(Map(num, key, keyType, cpp, type)) =
           {Part("each", Len(Tag(num, 0)), <<WrittenInEntry(key, keyType), WrittenInEntry(cpp, type)>>)}
<1> DEFINE item == Map(num, key, keyType, cpp, type)
<1>1. /\ item.num = num /\ item.shape = "map" /\ item.cpp = cpp /\ item.low = type
      /\ item.high = keyType /\ item.key = key
  BY DEF Map, Item
<1> HIDE DEF item
<1>2. Written(item) = {Part("each", Len(Tag(item.num, 0)), <<WrittenInEntry(item.key, item.high),
                                                              WrittenInEntry(item.cpp, item.low)>>)}
  BY <1>1 DEF Written
<1>3. Written(item) = {Part("each", Len(Tag(num, 0)), <<WrittenInEntry(key, keyType), WrittenInEntry(cpp, type)>>)}
  BY <1>1, <1>2
<1> QED BY <1>3 DEF item

LEMMA WrittenOfVector ==
  ASSUME NEW num, NEW cpp, NEW type, NEW packed
  PROVE  LET written == Written(Vector(num, cpp, type, packed))
             bytes == <<WrittenAs(cpp, type)>>
         IN  /\ type = TYPE_VARINT => written = {Part("each", Len(Tag(num, 0)), bytes)}
             /\ type # TYPE_VARINT => written = {Part("once", Len(Tag(num, 0)), <<>>), Part("each", 0, bytes)}
<1> DEFINE item == Vector(num, cpp, type, packed)
<1>1. item.num = num /\ item.shape = "vector" /\ item.cpp = cpp /\ item.low = type
  BY DEF Vector, Item
<1> HIDE DEF item
<1>2. CASE type = TYPE_VARINT
  <2>1. Written(item) = {Part("each", Len(Tag(item.num, 0)), <<WrittenAs(item.cpp, item.low)>>)}
    BY <1>1, <1>2 DEF Written
  <2>2. Written(item) = {Part("each", Len(Tag(num, 0)), <<WrittenAs(cpp, type)>>)}
    BY <1>1, <2>1
  <2> QED BY <1>2, <2>2 DEF item
<1>3. CASE type # TYPE_VARINT
  <2>1. Written(item) = {Part("once", Len(Tag(item.num, 0)), <<>>), Part("each", 0, <<WrittenAs(item.cpp, item.low)>>)}
    BY <1>1, <1>3 DEF Written
  <2>2. Written(item) = {Part("once", Len(Tag(num, 0)), <<>>), Part("each", 0, <<WrittenAs(cpp, type)>>)}
    BY <1>1, <2>1
  <2> QED BY <1>3, <2>2 DEF item
<1> QED BY <1>2, <1>3

LEMMA WrittenOfSingle ==
  ASSUME NEW num, NEW cpp, NEW type, NEW has
  PROVE  LET written == Written(Single(num, cpp, type, has))
             nothing == cpp \in Ints32 \cup Ints64 /\ type = TYPE_FIXED64
             Bytes(when) == {Part(when, Len(Tag(num, 0)), <<WrittenAs(cpp, type)>>)}
         IN  /\ nothing => written = {}
             /\ ~nothing /\ has /\ ~IsMessage(cpp) => written = Bytes("not zero")
             /\ ~nothing /\ ~(has /\ ~IsMessage(cpp)) => written = Bytes("always")
<1> DEFINE item == Single(num, cpp, type, has)
           nothing == cpp \in Ints32 \cup Ints64 /\ type = TYPE_FIXED64
           flagged == has /\ ~IsMessage(cpp)
           Bytes(when) == {Part(when, Len(Tag(num, 0)), <<WrittenAs(cpp, type)>>)}
<1>1. item.num = num /\ item.shape = "single" /\ item.cpp = cpp /\ item.low = type /\ item.has = has
  BY DEF Single, Item
<1> HIDE DEF item
<1>2. CASE nothing
  <2>1. Written(item) = {}
    BY <1>1, <1>2 DEF Written
  <2> QED BY <1>2, <2>1 DEF item
<1>3. CASE ~nothing /\ flagged
  <2>1. Written(item) = {Part("not zero", Len(Tag(item.num, 0)), <<WrittenAs(item.cpp, item.low)>>)}
    BY <1>1, <1>3 DEF Written
  <2>2. Written(item) = Bytes("not zero")
    BY <1>1, <2>1
  <2> QED BY <1>3, <2>2 DEF item
<1>4. CASE ~nothing /\ ~flagged
  <2>1. Written(item) = {Part("always", Len(Tag(item.num, 0)), <<WrittenAs(item.cpp, item.low)>>)}
    BY <1>1, <1>4 DEF Written
  <2>2. Written(item) = Bytes("always")
    BY <1>1, <2>1
  <2> QED BY <1>4, <2>2 DEF item
<1> QED BY <1>2, <1>3, <1>4

\* A field is counted as it is written just if it is countable.
LEMMA FieldCounts ==
  ASSUME NEW f, f.syntax \in {"proto2", "proto3"}, NEW fld, IsField(f, fld)
  PROVE  Counted(f, fld) = Written(Registered(f, fld)) <=> Countable(f, fld)
<1> DEFINE coding == FieldType(fld)
           cpp == Cpp(fld)
           size == SizeOf(fld)
           tag == Len(Tag(fld.num, 0))
           bytes == <<WrittenAs(cpp, coding)>>
           counted == Counted(f, fld)
           written == Written(Registered(f, fld))
<1>1. /\ fld.num \in Nat \ {0} /\ fld.label \in {"optional", "required", "repeated"} /\ IsTyped(fld)
      /\ fld.map => fld.label = "repeated" /\ IsTyped(Key(f, fld)) /\ IsTyped(Mapped(f, fld))
  BY DEF IsField
<1>3. CASE fld.map
  <2> DEFINE key == Key(f, fld)
             value == Mapped(f, fld)
             entry == <<WrittenInEntry(Cpp(key), FieldType(key)), WrittenInEntry(Cpp(value), FieldType(key))>>
  <2>1. Registered(f, fld) = Map(fld.num, Cpp(key), FieldType(key), Cpp(value), FieldType(key))
    BY <1>3 DEF Registered
  <2>2. written = {Part("each", tag, entry)}
    BY <2>1, WrittenOfMap
  <2>3. CASE f.syntax = "proto2"
    <3>1. counted = {} /\ ~Countable(f, fld)
      BY <1>1, <1>3, <2>3 DEF Counted, Countable
    <3> QED BY <2>2, <3>1, PartsDiffer
  <2>4. CASE f.syntax = "proto3"
    <3>1. counted = {Part("each", tag, <<SizeOf(key), SizeOf(value)>>)}
      BY <1>3, <2>4 DEF Counted, TagSize
    <3>2. counted = written <=> <<SizeOf(key), SizeOf(value)>> = entry
      BY <2>2, <3>1, PartsDiffer
    <3>3. counted = written <=> SizeOf(key) = entry[1] /\ SizeOf(value) = entry[2]
      BY <3>2
    <3>4. Countable(f, fld) <=>
            IF FieldType(key) = TYPE_VARINT
              THEN FieldType(value) = TYPE_VARINT
              ELSE key.type \notin SintTypes /\ SizeOf(value) = SizeOf(key)
      BY <1>3, <2>4 DEF Countable
    <3> QED BY <1>1, <1>3, <3>3, <3>4, EntriesAre
  <2> QED BY <2>3, <2>4
<1>4. CASE ~fld.map /\ fld.label = "repeated"
  <2>1. PICK packed : Registered(f, fld) = Vector(fld.num, cpp, coding, packed)
    BY <1>4 DEF Registered
  <2>2. /\ coding = TYPE_VARINT => written = {Part("each", tag, bytes)}
        /\ coding # TYPE_VARINT => written = {Part("once", tag, <<>>), Part("each", 0, bytes)}
    <3> DEFINE item == Vector(fld.num, cpp, coding, packed)
    <3>1. /\ coding = TYPE_VARINT => Written(item) = {Part("each", tag, bytes)}
          /\ coding # TYPE_VARINT => Written(item) = {Part("once", tag, <<>>), Part("each", 0, bytes)}
      BY WrittenOfVector
    <3>2. written = Written(item)
      BY <2>1
    <3> HIDE DEF item, written, coding, tag, bytes
    <3> QED BY <3>1, <3>2
  <2>3. CASE f.syntax = "proto2"
    <3>1. counted = {} /\ ~Countable(f, fld)
      BY <1>4, <2>3 DEF Counted, Countable
    <3>2. written # {}
      BY <2>2, PartsDiffer
    <3> QED BY <3>1, <3>2
  <2>4. CASE f.syntax = "proto3"
    <3>1. counted = {Part("each", 1, <<size>>)} /\ (Countable(f, fld) <=> fld.num < 16 /\ coding = TYPE_VARINT)
      BY <1>4, <2>4 DEF Counted, Countable
    <3>2. CASE coding = TYPE_VARINT
      <4>1. WrittenAs(cpp, coding) = size
        BY <1>1, <3>2, CodingsAre
      <4>3. bytes = <<size>>
        BY <4>1
      <4>2. counted = written <=> tag = 1
        <5>1. written = {Part("each", tag, bytes)} /\ counted = {Part("each", 1, bytes)}
          BY <2>2, <3>1, <3>2, <4>3
        <5> HIDE DEF written, counted, tag, bytes
        <5> QED BY <5>1, PartsDiffer
      <4> QED BY <1>1, <3>1, <3>2, <4>2, TagIsOneByte
    <3>3. CASE coding # TYPE_VARINT
      <4>1. written # counted
        BY <2>2, <3>1, <3>3, PartsDiffer
      <4> QED BY <3>1, <3>3, <4>1
    <3> QED BY <3>2, <3>3
  <2> QED BY <2>3, <2>4
<1>5. CASE ~fld.map /\ fld.label # "repeated"
  <2> DEFINE has == HasFlag(f, fld)
             nothing == cpp \in Ints32 \cup Ints64 /\ coding = TYPE_FIXED64
  <2>1. Registered(f, fld) = Single(fld.num, cpp, coding, has)
    BY <1>5 DEF Registered
  <2>2. /\ nothing => written = {}
        /\ ~nothing /\ has /\ ~IsMessage(cpp) => written = {Part("not zero", tag, bytes)}
        /\ ~nothing /\ ~(has /\ ~IsMessage(cpp)) => written = {Part("always", tag, bytes)}
    <3> DEFINE item == Single(fld.num, cpp, coding, has)
    <3>1. /\ nothing => Written(item) = {}
          /\ ~nothing /\ has /\ ~IsMessage(cpp) => Written(item) = {Part("not zero", tag, bytes)}
          /\ ~nothing /\ ~(has /\ ~IsMessage(cpp)) => Written(item) = {Part("always", tag, bytes)}
      BY WrittenOfSingle
    <3>2. written = Written(item)
      BY <2>1
    <3> HIDE DEF item, written, nothing, has, tag, bytes
    <3> QED BY <3>1, <3>2
  <2>3. nothing <=> fld.type \in Fixed64Types
    BY <1>1, CodingsAre
  <2>4. CASE f.syntax = "proto2"
    <3>1. CASE fld.label = "optional"
      <4>1. counted = {Part("has", TagSize(fld), <<size>>)} /\ ~Countable(f, fld)
        BY <2>4, <3>1 DEF Counted, Countable
      <4> DEFINE tagSize == TagSize(fld)
      <4>2. counted # {}
        BY <4>1, PartsDiffer
      <4>3. counted # {Part("not zero", tag, bytes)}
        <5>1. Only("has", tagSize, <<size>>) # Only("not zero", tag, bytes)
          <6> HIDE DEF tag, tagSize, bytes, size
          <6>1. "has" # "not zero"
            OBVIOUS
          <6> QED BY <6>1, TimesDiffer, Zenon
        <5> QED BY <4>1, <5>1 DEF Only
      <4>4. counted # {Part("always", tag, bytes)}
        <5>1. Only("has", tagSize, <<size>>) # Only("always", tag, bytes)
          <6> HIDE DEF tag, tagSize, bytes, size
          <6>1. "has" # "always"
            OBVIOUS
          <6> QED BY <6>1, TimesDiffer, Zenon
        <5> QED BY <4>1, <5>1 DEF Only
      <4>5. written # counted
        <5> HIDE DEF written, counted, nothing, has, tag, bytes
        <5> QED BY <2>2, <4>2, <4>3, <4>4
      <4> QED BY <4>1, <4>5
    <3>2. CASE fld.label = "required"
      <4>1. counted = {} /\ (Countable(f, fld) <=> fld.type \in Fixed64Types)
        BY <2>4, <3>2 DEF Counted, Countable
      <4>2. \A when : {Part(when, tag, bytes)} # {}
        BY PartsDiffer
      <4>3. written = {} <=> nothing
        <5> HIDE DEF written, nothing, has, tag, bytes
        <5> QED BY <2>2, <4>2
      <4> QED BY <2>3, <4>1, <4>3
    <3> QED BY <1>1, <1>5, <3>1, <3>2
  <2>5. CASE f.syntax = "proto3"
    <3>1. ~has /\ (Countable(f, fld) <=> fld.type = "message")
      BY <1>5, <2>5 DEF HasFlag, Countable
    <3>2. CASE fld.type = "message"
      <4>1. counted = {Part("always", tag, <<"prefixed">>)}
        BY <1>1, <1>5, <2>5, <3>2, CodingsAre DEF Counted, TagSize
      <4>2. IsMessage(cpp) /\ WrittenAs(cpp, coding) = "prefixed" /\ fld.type \notin Fixed64Types
        BY <1>1, <3>2, CodingsAre DEF Fixed64Types
      <4> QED BY <2>2, <2>3, <3>1, <3>2, <4>1, <4>2
    <3>3. CASE fld.type # "message"
      <4>1. counted = {Part("not zero", tag, <<size>>)}
        BY <1>5, <2>5, <3>3 DEF Counted, TagSize
      <4>2. counted # {}
        BY <4>1, PartsDiffer
      <4>3. counted # {Part("always", tag, bytes)}
        <5>1. Only("not zero", tag, <<size>>) # Only("always", tag, bytes)
          <6> HIDE DEF tag, bytes, size
          <6>1. "not zero" # "always"
            OBVIOUS
          <6> QED BY <6>1, TimesDiffer, Zenon
        <5> QED BY <4>1, <5>1 DEF Only
      <4>4. written # counted
        <5> HIDE DEF written, counted, nothing, has, tag, bytes
        <5> QED BY <2>2, <3>1, <4>2, <4>3
      <4> QED BY <3>1, <3>3, <4>4
    <3> QED BY <3>2, <3>3
  <2> QED BY <2>4, <2>5
<1> QED BY <1>3, <1>4, <1>5

\* CountsWhatIsWritten: the generated getByteSize() counts what the generated
\* serialize() makes the encoder write, of the countable fields and no others.
THEOREM SizesAreCountable == Spec => []CountsWhatIsWritten
<1>1. Contents /\ Typed => CountsWhatIsWritten
  <2> SUFFICES ASSUME Contents, Typed,
                      NEW i \in DOMAIN source, NEW n \in DOMAIN source[i].counts
               PROVE  source[i].counts[n] = Written(header[i].items[n])
                        <=> Countable(file, Kept(file, source[i].name)[n])
    BY DEF CountsWhatIsWritten
  <2> DEFINE c == source[i].name
             fld == Kept(file, c)[n]
  <2>1. /\ i \in DOMAIN header /\ header[i].name = c /\ c \in Classes(file)
        /\ header[i] = Struct(file, c) /\ source[i].counts = Counts(file, c)
    BY DEF Contents
  <2>2. n \in DOMAIN Kept(file, c) /\ source[i].counts[n] = Counted(file, fld)
    BY <2>1 DEF Counts
  <2>3. header[i].items[n] = Registered(file, fld)
    BY <2>1, <2>2 DEF Struct, Items
  <2>4. file.syntax \in {"proto2", "proto3"} /\ IsField(file, fld)
    BY <2>1, <2>2, FieldAssumption DEF Typed
  <2> QED BY <2>2, <2>3, <2>4, FieldCounts
<1>2. IInv => Typed
  BY DEF IInv
<1> QED BY <1>1, <1>2, ContentsKept, Inductive, PTL

-----------------------------------------------------------------------------
(* The constructors.  What matters of the fields are the places of those     *)
(* with an initialiser, inits, of those with a has-flag, flags, and the      *)
(* numbers, num.                                                             *)

Colon == ":"
Comma == ","

Initialisings == [sep : {Colon, Comma}, member : {"field", "has"}, num : Nat]

FirstIn(inits, i) == \A j \in 1 .. (i - 1) : j \notin inits

\* The two parts of ConstructorsParse, and what it comes down to.
Starts(s) == \A k \in 1 .. Len(s) : s[k].sep = IF k = 1 THEN Colon ELSE Comma
Once(s)   == \A k, l \in 1 .. Len(s) : s[k].num = s[l].num /\ s[k].member = s[l].member => k = l
Begun(inits, flags, i) == \A j \in 1 .. i : j \in flags => \E k \in 1 .. j : k \in inits

\* The initialisers of the first i fields.
Built(s, num, inits, flags, i) ==
  /\ s \in Seq(Initialisings)
  /\ \A k \in 1 .. Len(s) : \E j \in 1 .. i : s[k].num = num[j]
  /\ Once(s)
  /\ Len(s) = 0 <=> \A j \in 1 .. i : j \notin inits /\ j \notin flags
  /\ Starts(s) <=> Begun(inits, flags, i)

\* An initialiser e behind those of s.
Extends(t, s, e) ==
  /\ t \in Seq(Initialisings) /\ Len(t) = Len(s) + 1
  /\ \A k \in 1 .. Len(s) : t[k] = s[k]
  /\ t[Len(s) + 1] = e
  /\ Starts(t) <=> Starts(s) /\ e.sep = IF Len(s) = 0 THEN Colon ELSE Comma
  /\ Once(s) /\ (\A k \in 1 .. Len(s) : s[k].num = e.num => s[k].member # e.member) => Once(t)

LEMMA InitialiserAdded ==
  ASSUME NEW s \in Seq(Initialisings), NEW e \in Initialisings
  PROVE  Extends(s \o <<e>>, s, e)
<1> DEFINE S == Initialisings
           t == s \o <<e>>
           one == <<e>>
<1>1. one \in Seq(S) /\ Len(one) = 1 /\ one[1] = e /\ Len(s) \in Nat
  BY LenProperties
<1> HIDE DEF one
<1>2. /\ s \o one \in Seq(S) /\ Len(s \o one) = Len(s) + 1
      /\ \A i \in 1 .. (Len(s) + 1) : (s \o one)[i] = IF i <= Len(s) THEN s[i] ELSE one[i - Len(s)]
  <2>1. /\ s \o one \in Seq(S) /\ Len(s \o one) = Len(s) + Len(one)
        /\ \A i \in 1 .. (Len(s) + Len(one)) : (s \o one)[i] = IF i <= Len(s) THEN s[i] ELSE one[i - Len(s)]
    BY <1>1, ConcatProperties
  <2> DEFINE u == s \o one
  <2> HIDE DEF u
  <2> QED BY <1>1, <2>1 DEF u
<1>3. t = s \o one
  BY DEF one
<1> DEFINE n == Len(s)
<1>4. n \in Nat /\ t \in Seq(S) /\ Len(t) = n + 1 /\ t[n + 1] = e
  BY <1>1, <1>2, <1>3
<1>5. \A k \in 1 .. n : t[k] = s[k]
  BY <1>1, <1>2, <1>3
<1> HIDE DEF t, n
<1>6. Starts(t) <=> Starts(s) /\ e.sep = IF n = 0 THEN Colon ELSE Comma
  <2>1. \A k \in 1 .. (n + 1) : k = n + 1 \/ k \in 1 .. n
    BY <1>4
  <2>2. 1 .. n \in SUBSET (1 .. (n + 1)) /\ n + 1 \in 1 .. (n + 1) /\ (n + 1 = 1 <=> n = 0)
    BY <1>4
  <2>3. Starts(s) <=> \A k \in 1 .. n : s[k].sep = IF k = 1 THEN Colon ELSE Comma
    BY DEF Starts, n
  <2>4. Starts(t) <=> \A k \in 1 .. (n + 1) : t[k].sep = IF k = 1 THEN Colon ELSE Comma
    BY <1>4 DEF Starts
  <2> QED BY <1>4, <1>5, <2>1, <2>2, <2>3, <2>4
<1>7. ASSUME Once(s), \A k \in 1 .. n : s[k].num = e.num => s[k].member # e.member
      PROVE  Once(t)
  <2> SUFFICES ASSUME NEW k \in 1 .. (n + 1), NEW l \in 1 .. (n + 1),
                      t[k].num = t[l].num, t[k].member = t[l].member
               PROVE  k = l
    BY <1>4 DEF Once
  <2>1. CASE k \in 1 .. n /\ l \in 1 .. n
    BY <1>5, <1>7, <2>1 DEF Once, n
  <2>2. CASE k \in 1 .. n /\ l = n + 1
    BY <1>4, <1>5, <1>7, <2>2
  <2>3. CASE l \in 1 .. n /\ k = n + 1
    BY <1>4, <1>5, <1>7, <2>3
  <2>4. CASE k = n + 1 /\ l = n + 1
    BY <2>4
  <2> QED BY <1>4, <2>1, <2>2, <2>3, <2>4
<1>8. Extends(t, s, e)
  BY <1>4, <1>5, <1>6, <1>7 DEF Extends, n
<1> QED BY <1>8 DEF t

\* The initialisers of one more field.
LEMMA FieldAdded ==
  ASSUME NEW n \in Nat, NEW num \in [1 .. n -> Nat], \A j, k \in 1 .. n : num[j] = num[k] => j = k,
         NEW inits, NEW flags, NEW i \in 1 .. n, NEW s, Built(s, num, inits, flags, i - 1),
         NEW a, a = IF i \in inits
                      THEN Initialiser(IF FirstIn(inits, i) THEN Colon ELSE Comma, "field", num[i]) ELSE <<>>,
         NEW b, b = IF i \in flags THEN Initialiser(Comma, "has", num[i]) ELSE <<>>
  PROVE  Built(s \o (a \o b), num, inits, flags, i)
<1> DEFINE S == Initialisings
           m == s \o a
           t == m \o b
           before == \A j \in 1 .. (i - 1) : j \notin flags
           first == FirstIn(inits, i)
           begun == Begun(inits, flags, i - 1)
           inited == [sep |-> IF first THEN Colon ELSE Comma, member |-> "field", num |-> num[i]]
           flagged == [sep |-> Comma, member |-> "has", num |-> num[i]]
<1>1. /\ s \in Seq(S) /\ Len(s) \in Nat /\ Once(s)
      /\ \A k \in 1 .. Len(s) : \E j \in 1 .. (i - 1) : s[k].num = num[j]
      /\ Len(s) = 0 <=> first /\ before
      /\ Starts(s) <=> begun
  BY LenProperties DEF Built, FirstIn
<1>2. /\ inited \in S /\ inited.sep = (IF first THEN Colon ELSE Comma) /\ inited.member = "field" /\ inited.num = num[i]
      /\ flagged \in S /\ flagged.sep = Comma /\ flagged.member = "has" /\ flagged.num = num[i]
  BY DEF Initialisings
<1>3. /\ a = IF i \in inits THEN <<inited>> ELSE <<>>
      /\ b = IF i \in flags THEN <<flagged>> ELSE <<>>
  BY DEF Initialiser
<1>4. \A k \in 1 .. Len(s) : s[k].num # num[i]
  BY <1>1
<1>5. Colon # Comma
  BY DEF Colon, Comma
<1>6. first => (begun <=> before)
  BY DEF FirstIn, Begun
<1>7. Begun(inits, flags, i) <=> begun /\ (i \in flags => i \in inits \/ ~first)
  <2>1. \A j \in 1 .. i : j = i \/ j \in 1 .. (i - 1)
    OBVIOUS
  <2>2. i \in 1 .. i /\ 1 .. (i - 1) \in SUBSET (1 .. i)
    OBVIOUS
  <2>3. (\E k \in 1 .. i : k \in inits) <=> i \in inits \/ ~first
    BY <2>1, <2>2 DEF FirstIn
  <2> QED BY <2>1, <2>2, <2>3 DEF Begun
<1> HIDE DEF inited, flagged, first, before, begun
<1>8. /\ m \in Seq(S) /\ Len(m) \in Nat /\ Once(m)
      /\ \A k \in 1 .. Len(m) : (\E j \in 1 .. (i - 1) : m[k].num = num[j]) \/ (m[k].num = num[i] /\ m[k].member = "field")
      /\ Len(m) = 0 <=> Len(s) = 0 /\ i \notin inits
      /\ Starts(m) <=> begun /\ (i \in inits => (first <=> Len(s) = 0))
  <2>1. CASE i \in inits
    <3>1. m = s \o <<inited>>
      BY <1>3, <2>1
    <3>2. /\ m \in Seq(S) /\ Len(m) = Len(s) + 1
          /\ \A k \in 1 .. Len(s) : m[k] = s[k]
          /\ m[Len(s) + 1] = inited
          /\ Starts(m) <=> Starts(s) /\ inited.sep = IF Len(s) = 0 THEN Colon ELSE Comma
          /\ Once(s) /\ (\A k \in 1 .. Len(s) : s[k].num = inited.num => s[k].member # inited.member) => Once(m)
      <4>1. Extends(m, s, inited)
        BY <1>1, <1>2, <3>1, InitialiserAdded
      <4> HIDE DEF m
      <4> QED BY <4>1 DEF Extends
    <3> HIDE DEF m
    <3>3. Once(m)
      BY <1>1, <1>2, <1>4, <3>2
    <3>4. Starts(m) <=> begun /\ (first <=> Len(s) = 0)
      BY <1>1, <1>2, <1>5, <3>2
    <3>5. Len(m) \in Nat /\ Len(m) # 0
      BY <1>1, <3>2
    <3>6. \A k \in 1 .. Len(m) : (\E j \in 1 .. (i - 1) : m[k].num = num[j]) \/ (m[k].num = num[i] /\ m[k].member = "field")
      <4>1. m[Len(s) + 1].num = num[i] /\ m[Len(s) + 1].member = "field"
        BY <1>2, <3>2
      <4>2. \A k \in 1 .. Len(m) : k = Len(s) + 1 \/ k \in 1 .. Len(s)
        BY <1>1, <3>2
      <4>3. \A k \in 1 .. Len(s) : \E j \in 1 .. (i - 1) : m[k].num = num[j]
        BY <1>1, <3>2
      <4> QED BY <4>1, <4>2, <4>3
    <3> QED BY <2>1, <3>2, <3>3, <3>4, <3>5, <3>6
  <2>2. CASE i \notin inits
    <3>1. m = s
      BY <1>1, <1>3, <2>2, ConcatEmptySeq
    <3> HIDE DEF m
    <3> QED BY <1>1, <2>2, <3>1
  <2> QED BY <2>1, <2>2
<1> HIDE DEF m
<1>9. /\ t \in Seq(S) /\ Len(t) \in Nat /\ Once(t)
      /\ \A k \in 1 .. Len(t) : \E j \in 1 .. i : t[k].num = num[j]
      /\ Len(t) = 0 <=> Len(m) = 0 /\ i \notin flags
      /\ Starts(t) <=> Starts(m) /\ (i \in flags => Len(m) # 0)
  <2>1. \A k \in 1 .. Len(m) : \E j \in 1 .. i : m[k].num = num[j]
    BY <1>8
  <2>2. CASE i \in flags
    <3>1. t = m \o <<flagged>>
      BY <1>3, <2>2
    <3>2. /\ t \in Seq(S) /\ Len(t) = Len(m) + 1
          /\ \A k \in 1 .. Len(m) : t[k] = m[k]
          /\ t[Len(m) + 1] = flagged
          /\ Starts(t) <=> Starts(m) /\ flagged.sep = IF Len(m) = 0 THEN Colon ELSE Comma
          /\ Once(m) /\ (\A k \in 1 .. Len(m) : m[k].num = flagged.num => m[k].member # flagged.member) => Once(t)
      <4>1. Extends(t, m, flagged)
        BY <1>2, <1>8, <3>1, InitialiserAdded
      <4> HIDE DEF t
      <4> QED BY <4>1 DEF Extends
    <3> HIDE DEF t
    <3>3. \A k \in 1 .. Len(m) : m[k].num = num[i] => m[k].member = "field"
      BY <1>8
    <3>4. Once(t)
      BY <1>2, <1>8, <3>2, <3>3
    <3>5. Starts(t) <=> Starts(m) /\ Len(m) # 0
      BY <1>2, <1>5, <3>2
    <3>6. Len(t) \in Nat /\ Len(t) # 0
      BY <1>8, <3>2
    <3>7. \A k \in 1 .. Len(t) : \E j \in 1 .. i : t[k].num = num[j]
      <4>1. i \in 1 .. i
        OBVIOUS
      <4>2. t[Len(m) + 1].num = num[i]
        BY <1>2, <3>2
      <4>3. \A k \in 1 .. Len(t) : k = Len(m) + 1 \/ k \in 1 .. Len(m)
        BY <1>8, <3>2
      <4>4. \A k \in 1 .. Len(m) : \E j \in 1 .. i : t[k].num = num[j]
        BY <2>1, <3>2
      <4> QED BY <4>1, <4>2, <4>3, <4>4
    <3> QED BY <2>2, <3>2, <3>4, <3>5, <3>6, <3>7
  <2>3. CASE i \notin flags
    <3>1. t = m
      BY <1>3, <1>8, <2>3, ConcatEmptySeq
    <3> HIDE DEF t
    <3> QED BY <1>8, <2>1, <2>3, <3>1
  <2> QED BY <2>2, <2>3
<1>10. s \o (a \o b) = t
  <2>1. a \in Seq(S) /\ b \in Seq(S)
    <3>1. <<inited>> \in Seq(S) /\ <<flagged>> \in Seq(S) /\ <<>> \in Seq(S)
      BY <1>2, EmptySeq
    <3> QED BY <1>3, <3>1
  <2>2. (s \o a) \o b = s \o (a \o b)
    <3>1. s \in Seq(S)
      BY <1>1
    <3> HIDE DEF S
    <3> QED BY ONLY <2>1, <3>1, ConcatAssociative
  <2> QED BY <2>2 DEF m
<1> HIDE DEF t
<1>11. Starts(t) <=> Begun(inits, flags, i)
  BY <1>1, <1>6, <1>7, <1>8, <1>9
<1>12. Len(t) = 0 <=> \A j \in 1 .. i : j \notin inits /\ j \notin flags
  <2>1. first /\ before /\ i \notin inits /\ i \notin flags <=> \A j \in 1 .. i : j \notin inits /\ j \notin flags
    <3>1. \A j \in 1 .. i : j = i \/ j \in 1 .. (i - 1)
      OBVIOUS
    <3>2. i \in 1 .. i /\ 1 .. (i - 1) \in SUBSET (1 .. i)
      OBVIOUS
    <3> QED BY <3>1, <3>2 DEF first, before, FirstIn
  <2> QED BY <1>1, <1>8, <1>9, <2>1
<1> QED BY <1>9, <1>10, <1>11, <1>12 DEF Built

\* The places of the fields with an initialiser, and of those with a has-flag.
InitPlaces(flds)    == {i \in DOMAIN flds : Initialised(flds[i])}
FlagPlaces(f, flds) == {i \in DOMAIN flds : HasFlag(f, flds[i])}
Numbers(flds)       == [i \in DOMAIN flds |-> flds[i].num]

\* What printStruct prints for a field.
Segment(num, inits, flags, i) ==
  (IF i \in inits THEN Initialiser(IF FirstIn(inits, i) THEN Colon ELSE Comma, "field", num[i]) ELSE <<>>)
    \o (IF i \in flags THEN Initialiser(Comma, "has", num[i]) ELSE <<>>)

LEMMA InitialisersAre ==
  ASSUME NEW f, NEW T, NEW flds \in Seq(T)
  PROVE  Initialisers(f, flds) =
           FlattenSeq([i \in DOMAIN flds |->
             Segment(Numbers(flds), InitPlaces(flds), FlagPlaces(f, flds), i)])
<1> DEFINE num == Numbers(flds)
           inits == InitPlaces(flds)
           flags == FlagPlaces(f, flds)
           First(i) == \A j \in 1 .. (i - 1) : ~Initialised(flds[j])
           PrintedAs(i) ==
             (IF Initialised(flds[i]) THEN Initialiser(IF First(i) THEN ":" ELSE ",", "field", flds[i].num) ELSE <<>>)
               \o (IF HasFlag(f, flds[i]) THEN Initialiser(",", "has", flds[i].num) ELSE <<>>)
<1>1. DOMAIN flds = 1 .. Len(flds) /\ Len(flds) \in Nat
  BY LenProperties
<1>2. ASSUME NEW i \in DOMAIN flds
      PROVE  PrintedAs(i) = Segment(num, inits, flags, i)
  <2>1. num[i] = flds[i].num /\ (i \in inits <=> Initialised(flds[i])) /\ (i \in flags <=> HasFlag(f, flds[i]))
    BY DEF Numbers, InitPlaces, FlagPlaces
  <2>2. First(i) <=> FirstIn(inits, i)
    <3>1. 1 .. (i - 1) \in SUBSET DOMAIN flds
      BY <1>1
    <3> QED BY <3>1 DEF FirstIn, InitPlaces
  <2> HIDE DEF num, inits, flags, First
  <2> QED BY <2>1, <2>2 DEF Segment, Colon, Comma
<1> HIDE DEF num, inits, flags
<1>3. [i \in DOMAIN flds |-> PrintedAs(i)] = [i \in DOMAIN flds |-> Segment(num, inits, flags, i)]
  BY <1>2
<1>4. Initialisers(f, flds) = FlattenSeq([i \in DOMAIN flds |-> PrintedAs(i)])
  BY DEF Initialisers
<1>5. Initialisers(f, flds) = FlattenSeq([i \in DOMAIN flds |-> Segment(num, inits, flags, i)])
  BY <1>3, <1>4
<1> QED BY <1>5 DEF num, inits, flags

LEMMA SegmentsBuild ==
  ASSUME NEW n \in Nat, NEW num \in [1 .. n -> Nat], \A j, k \in 1 .. n : num[j] = num[k] => j = k,
         NEW inits \in SUBSET (1 .. n), NEW flags \in SUBSET (1 .. n)
  PROVE  \A seqs : seqs = [i \in 1 .. n |-> Segment(num, inits, flags, i)]
                      => Built(FlattenSeq(seqs), num, inits, flags, n)
<1> TAKE seqs
<1> HAVE seqs = [i \in 1 .. n |-> Segment(num, inits, flags, i)]
<1> DEFINE S == Initialisings
<1>1. \A i \in 1 .. n : Segment(num, inits, flags, i) \in Seq(S)
  <2> TAKE i \in 1 .. n
  <2> DEFINE a == IF i \in inits THEN Initialiser(IF FirstIn(inits, i) THEN Colon ELSE Comma, "field", num[i]) ELSE <<>>
             b == IF i \in flags THEN Initialiser(Comma, "has", num[i]) ELSE <<>>
  <2>1. \A sep \in {Colon, Comma}, member \in {"field", "has"} : Initialiser(sep, member, num[i]) \in Seq(S)
    BY DEF Initialiser, Initialisings
  <2>2. <<>> \in Seq(S)
    BY EmptySeq
  <2>3. a \in Seq(S) /\ b \in Seq(S)
    <3> HIDE DEF S
    <3> QED BY <2>1, <2>2
  <2> HIDE DEF S, a, b
  <2>4. a \o b \in Seq(S)
    BY <2>3, ConcatProperties
  <2> QED BY <2>4 DEF Segment, a, b
<1>2. seqs \in Seq(Seq(S)) /\ Len(seqs) = n
  <2>1. seqs \in [1 .. n -> Seq(S)]
    BY <1>1
  <2> HIDE DEF S
  <2> QED BY <2>1, SeqDef, LenProperties
<1>3. \A i \in 1 .. n : seqs[i] = Segment(num, inits, flags, i)
  OBVIOUS
<1> HIDE DEF S
<1>4. PICK flat : Flattens(flat, seqs, S) /\ FlattenSeq(seqs) = flat[n]
  BY <1>2, FlattenSteps
<1>5. flat[0] = <<>> /\ \A i \in 1 .. n : flat[i] = flat[i - 1] \o Segment(num, inits, flags, i)
  BY <1>2, <1>3, <1>4 DEF Flattens
<1> DEFINE Good == {i \in Nat : i <= n => Built(flat[i], num, inits, flags, i)}
<1>6. 0 \in Good
  <2>1. flat[0] \in Seq(Initialisings) /\ Len(flat[0]) = 0
    BY <1>5, EmptySeq
  <2>2. Built(flat[0], num, inits, flags, 0)
    BY <2>1 DEF Built, Starts, Once, Begun
  <2> QED BY <2>2
<1>7. ASSUME NEW j \in Good
      PROVE  j + 1 \in Good
  <2>1. CASE j + 1 <= n
    <3> DEFINE i == j + 1
    <3>1. i \in 1 .. n /\ i - 1 = j
      BY <2>1
    <3>2. Built(flat[j], num, inits, flags, j)
      BY <2>1
    <3>3. flat[i] = flat[j] \o Segment(num, inits, flags, i)
      BY <1>5, <3>1
    <3> DEFINE a == IF i \in inits THEN Initialiser(IF FirstIn(inits, i) THEN Colon ELSE Comma, "field", num[i]) ELSE <<>>
               b == IF i \in flags THEN Initialiser(Comma, "has", num[i]) ELSE <<>>
    <3>4. Segment(num, inits, flags, i) = a \o b
      BY DEF Segment
    <3> HIDE DEF i
    <3>5. Built(flat[j], num, inits, flags, i - 1)
      BY <3>1, <3>2
    <3>6. Built(flat[j] \o (a \o b), num, inits, flags, i)
      BY <3>1, <3>5, FieldAdded
    <3>7. Built(flat[i], num, inits, flags, i)
      BY <3>3, <3>4, <3>6
    <3> QED BY <3>1, <3>7 DEF i
  <2>2. CASE ~(j + 1 <= n)
    BY <2>2
  <2> QED BY <2>1, <2>2
<1>8. Good = Nat
  <2> HIDE DEF Good
  <2>1. Good \in SUBSET Nat
    BY DEF Good
  <2> QED BY <1>6, <1>7, <2>1, StepInduction
<1>9. Built(flat[n], num, inits, flags, n)
  BY <1>8
<1> QED BY <1>4, <1>9

\* ConstructorsParse: a constructor's initialisers are a list from a colon on,
\* each member in it once, but for the fields of proto2 before any initialiser.
THEOREM ConstructorsAreRight == Spec => []ConstructorsParse
<1>1. Contents /\ Typed => ConstructorsParse
  <2> SUFFICES ASSUME Contents, Typed, NEW i \in DOMAIN header
               PROVE  LET flds  == Kept(file, header[i].name)
                          inits == header[i].inits
                          parses ==
                            /\ \A n \in DOMAIN inits : inits[n].sep = IF n = 1 THEN ":" ELSE ","
                            /\ \A n, k \in DOMAIN inits :
                                 inits[n].num = inits[k].num /\ inits[n].member = inits[k].member => n = k
                      IN  parses <=> \A n \in DOMAIN flds : HasFlag(file, flds[n]) => \E k \in 1 .. n : Initialised(flds[k])
    BY DEF ConstructorsParse
  <2> DEFINE c == header[i].name
             flds == Kept(file, c)
             n == Len(flds)
             num == Numbers(flds)
             inits == InitPlaces(flds)
             flags == FlagPlaces(file, flds)
             s == header[i].inits
             T == Range(file.fields[c])
  <2>1. c \in Classes(file) /\ s = Initialisers(file, flds)
    BY DEF Contents, Struct
  <2>2. /\ flds \in Seq(T)
        /\ \A j \in DOMAIN flds : flds[j].num \in Nat
        /\ \A j, k \in DOMAIN flds : flds[j].num = flds[k].num => j = k
    BY <2>1, FieldAssumption DEF Typed, IsField
  <2> HIDE DEF c, T, s, flds
  <2>3. n \in Nat /\ DOMAIN flds = 1 .. n
    BY <2>2, LenProperties
  <2>4. /\ num \in [1 .. n -> Nat] /\ \A j, k \in 1 .. n : num[j] = num[k] => j = k
        /\ inits \in SUBSET (1 .. n) /\ flags \in SUBSET (1 .. n)
    BY <2>2, <2>3 DEF Numbers, InitPlaces, FlagPlaces
  <2> DEFINE seqs == [j \in 1 .. n |-> Segment(num, inits, flags, j)]
  <2>5. s = FlattenSeq(seqs)
    BY <2>1, <2>2, <2>3, InitialisersAre
  <2>6. Built(s, num, inits, flags, n)
    <3> HIDE DEF n, num, inits, flags
    <3>1. \A t : t = seqs => Built(FlattenSeq(t), num, inits, flags, n)
      BY <2>3, <2>4, SegmentsBuild
    <3> HIDE DEF seqs
    <3> QED BY <2>5, <3>1
  <2>7. DOMAIN s = 1 .. Len(s)
    BY <2>6, LenProperties DEF Built
  <2>8. (\A k \in DOMAIN s : s[k].sep = IF k = 1 THEN ":" ELSE ",") <=> Starts(s)
    BY <2>7 DEF Starts, Colon, Comma
  <2>9. \A j, k \in DOMAIN s : s[j].num = s[k].num /\ s[j].member = s[k].member => j = k
    BY <2>6, <2>7 DEF Built, Once
  <2>10. Begun(inits, flags, n) <=>
           \A j \in DOMAIN flds : HasFlag(file, flds[j]) => \E k \in 1 .. j : Initialised(flds[k])
    <3>1. \A j \in DOMAIN flds : 1 .. j \in SUBSET DOMAIN flds
      BY <2>3
    <3>2. \A j \in DOMAIN flds : (\E k \in 1 .. j : k \in inits) <=> \E k \in 1 .. j : Initialised(flds[k])
      BY <3>1 DEF InitPlaces
    <3>3. \A j \in DOMAIN flds : j \in flags <=> HasFlag(file, flds[j])
      BY DEF FlagPlaces
    <3> HIDE DEF inits, flags
    <3> QED BY <2>3, <3>2, <3>3 DEF Begun
  <2>11. Starts(s) <=> Begun(inits, flags, n)
    BY <2>6 DEF Built
  <2> QED BY <2>8, <2>9, <2>10, <2>11 DEF s, flds, c
<1>2. IInv => Typed
  BY DEF IInv
<1> QED BY <1>1, <1>2, ContentsKept, Inductive, PTL
=============================================================================

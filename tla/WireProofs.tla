------------------------------ MODULE WireProofs ------------------------------
(* Lemmas about the operators of Wire and of the community modules it uses.  *)
(*                                                                           *)
(* Wire defines its conversions by recursion.  A recursive function is, for  *)
(* the provers, a function that satisfies its equation if there is one; that *)
(* there is one follows from LinearRecursion, and what holds of it from a    *)
(* smallest counterexample (MinIs).                                          *)
EXTENDS WireFormat, SequenceTheorems, FiniteSetTheorems, NaturalsInduction, WellFoundedInduction, TLAPS

\* A set of naturals that is not empty has a least member, which Min finds.
LEMMA MinIs ==
  ASSUME NEW S \in SUBSET Nat, S # {}
  PROVE  Min(S) \in S /\ \A n \in S : Min(S) <= n
<1> DEFINE R == {ss \in Nat \X Nat : ss[1] < ss[2]}
<1>1. IsWellFoundedOn(R, Nat)
  BY NatLessThanWellFounded DEF OpToRel
<1>2. \E x \in S : \A y \in S : <<y, x>> \notin R
  <2> HIDE DEF R
  <2> QED BY <1>1, WFMin
<1>3. \A x, y \in S : <<y, x>> \notin R => x <= y
  OBVIOUS
<1>4. \E x \in S : \A y \in S : x <= y
  BY <1>2, <1>3
<1> QED BY <1>4 DEF Min

\* f goes from each x to what step makes of its value at pred[x], a place of a lower
\* rank, down to a place of Base.
Descends(D, V, rank, Base, pred, start, step) ==
  /\ rank \in [D -> Nat] /\ Base \in SUBSET D
  /\ start \in [D -> V] /\ step \in [D -> [V -> V]]
  /\ \A x \in D : x \notin Base => pred[x] \in D /\ rank[pred[x]] < rank[x]

Solves(f, D, Base, pred, start, step) ==
  \A x \in D : f[x] = IF x \in Base THEN start[x] ELSE step[x][f[pred[x]]]

\* Such a function is well defined.
LEMMA LinearRecursion ==
  ASSUME NEW D, NEW V, NEW rank, NEW Base, NEW pred, NEW start, NEW step,
         Descends(D, V, rank, Base, pred, start, step)
  PROVE  \E f \in [D -> V] : Solves(f, D, Base, pred, start, step)
<1> SUFFICES ASSUME rank \in [D -> Nat], Base \in SUBSET D,
                    start \in [D -> V], step \in [D -> [V -> V]],
                    \A x \in D : x \notin Base => pred[x] \in D /\ rank[pred[x]] < rank[x]
             PROVE  \E f \in [D -> V] : Solves(f, D, Base, pred, start, step)
  BY DEF Descends
<1> DEFINE Below(n) == {x \in D : rank[x] < n}
           Part(f, n) == /\ f \in [Below(n) -> V]
                           /\ \A x \in Below(n) :
                                f[x] = IF x \in Base THEN start[x] ELSE step[x][f[pred[x]]]
           Unsolved == {n \in Nat : ~ \E f : Part(f, n)}
<1>1. \A n \in Nat : \A x \in Below(n + 1) : x \notin Base => pred[x] \in Below(n)
  <2> SUFFICES ASSUME NEW n \in Nat, NEW x \in Below(n + 1), x \notin Base
               PROVE  pred[x] \in Below(n)
    OBVIOUS
  <2>1. x \in D /\ rank[x] \in Nat /\ rank[x] < n + 1
    OBVIOUS
  <2>2. pred[x] \in D /\ rank[pred[x]] \in Nat /\ rank[pred[x]] < rank[x]
    BY <2>1
  <2> QED BY <2>1, <2>2
<1>2. \A n \in Nat : Below(n) \subseteq D /\ Below(n) \subseteq Below(n + 1)
  OBVIOUS
<1>3. \E f : Part(f, 0)
  <2>1. Below(0) = {}
    OBVIOUS
  <2>2. Part([x \in Below(0) |-> start[x]], 0)
    BY <2>1
  <2> QED BY <2>2
<1>4. ASSUME NEW n \in Nat, NEW f, Part(f, n) PROVE \E g : Part(g, n + 1)
  <2> DEFINE g == [x \in Below(n + 1) |-> IF x \in Base THEN start[x] ELSE step[x][f[pred[x]]]]
  <2>1. \A x \in Below(n + 1) : x \notin Base => pred[x] \in Below(n) /\ f[pred[x]] \in V
    BY <1>1, <1>4
  <2>2. g \in [Below(n + 1) -> V]
    BY <1>2, <2>1
  <2>3. \A y \in Below(n) : g[y] = f[y]
    BY <1>2, <1>4
  <2>4. \A x \in Below(n + 1) : g[x] = IF x \in Base THEN start[x] ELSE step[x][g[pred[x]]]
    BY <2>1, <2>3
  <2> QED BY <2>2, <2>4
<1> HIDE DEF Below, Part
<1>5. Unsolved = {}
  <2> SUFFICES ASSUME Unsolved # {} PROVE FALSE
    OBVIOUS
  <2> DEFINE n == Min(Unsolved)
  <2>1. n \in Unsolved /\ \A k \in Unsolved : n <= k
    BY MinIs
  <2> HIDE DEF n
  <2>2. n # 0
    BY <1>3, <2>1
  <2>3. n - 1 \in Nat /\ n - 1 \notin Unsolved
    <3>1. n \in Nat /\ n - 1 \in Nat /\ ~(n <= n - 1)
      BY <2>1, <2>2
    <3> QED BY <2>1, <3>1
  <2>4. \E g : Part(g, (n - 1) + 1)
    BY <1>4, <2>3
  <2> QED BY <2>1, <2>3, <2>4
<1> DEFINE Solution(n) == CHOOSE f : Part(f, n)
<1>6. \A n \in Nat : Part(Solution(n), n)
  BY <1>5
<1> HIDE DEF Solution
<1> DEFINE f == [x \in D |-> Solution(rank[x] + 1)[x]]
           Different == {n \in Nat : \E x \in Below(n), m \in Nat :
                                       x \in Below(m) /\ Solution(m)[x] # Solution(rank[x] + 1)[x]}
<1>7. \A x \in D : rank[x] \in Nat /\ x \in Below(rank[x] + 1)
  BY DEF Below
<1>8. \A m \in Nat : \A x \in Below(m) : Solution(m)[x] = Solution(rank[x] + 1)[x]
  <2> SUFFICES ASSUME Different # {} PROVE FALSE
    OBVIOUS
  <2> DEFINE n == Min(Different)
  <2>1. n \in Different /\ \A k \in Different : n <= k
    BY MinIs
  <2> HIDE DEF n
  <2>2. PICK x \in Below(n), m \in Nat : x \in Below(m) /\ Solution(m)[x] # Solution(rank[x] + 1)[x]
    BY <2>1
  <2>3. x \in D /\ rank[x] \in Nat /\ n \in Nat /\ rank[x] < n /\ rank[x] < m /\ x \in Below(rank[x] + 1)
    BY <1>7, <2>1, <2>2 DEF Below
  <2>4. /\ Solution(m)[x] = IF x \in Base THEN start[x] ELSE step[x][Solution(m)[pred[x]]]
        /\ Solution(rank[x] + 1)[x] =
             IF x \in Base THEN start[x] ELSE step[x][Solution(rank[x] + 1)[pred[x]]]
    BY <1>6, <2>2, <2>3 DEF Part
  <2>5. x \notin Base /\ Solution(m)[pred[x]] # Solution(rank[x] + 1)[pred[x]]
    BY <2>2, <2>4
  <2>6. /\ pred[x] \in D /\ rank[pred[x]] \in Nat /\ rank[pred[x]] < rank[x]
    BY <2>3, <2>5
  <2>7. pred[x] \in Below(rank[x]) /\ pred[x] \in Below(m) /\ pred[x] \in Below(rank[x] + 1)
    BY <2>3, <2>6 DEF Below
  <2>8. rank[x] \notin Different
    BY <2>1, <2>3
  <2>9. \A k \in Nat : pred[x] \in Below(k) => Solution(k)[pred[x]] = Solution(rank[pred[x]] + 1)[pred[x]]
    BY <2>3, <2>7, <2>8
  <2> QED BY <2>3, <2>5, <2>7, <2>9
<1>9. \A x \in D : f[x] \in V
  BY <1>6, <1>7 DEF Part
<1>10. \A x \in D : f[x] = IF x \in Base THEN start[x] ELSE step[x][f[pred[x]]]
  <2> TAKE x \in D
  <2> DEFINE n == rank[x] + 1
  <2>1. n \in Nat /\ x \in Below(n)
    BY <1>7
  <2>2. Solution(n)[x] = IF x \in Base THEN start[x] ELSE step[x][Solution(n)[pred[x]]]
    BY <1>6, <2>1 DEF Part
  <2>3. ASSUME x \notin Base PROVE f[pred[x]] = Solution(n)[pred[x]]
    <3>1. pred[x] \in D /\ rank[pred[x]] \in Nat /\ rank[pred[x]] < rank[x]
      BY <2>3
    <3>2. pred[x] \in Below(n)
      BY <1>7, <3>1 DEF Below
    <3> QED BY <1>8, <2>1, <3>1, <3>2
  <2> QED BY <2>2, <2>3
<1> HIDE DEF f
<1>11. f \in [D -> V]
  BY <1>9 DEF f
<1> QED BY <1>10, <1>11 DEF Solves

\* Good holds of an x of D whenever it holds of all that have a lower rank.
Inherits(D, rank, Good) ==
  /\ rank \in [D -> Nat] /\ Good \in SUBSET D
  /\ \A x \in D : (\A y \in D : rank[y] < rank[x] => y \in Good) => x \in Good

\* Then it holds of all of D.
LEMMA RankInduction ==
  ASSUME NEW D, NEW rank, NEW Good, Inherits(D, rank, Good)
  PROVE  Good = D
<1> USE DEF Inherits
<1> DEFINE Wrong == {rank[x] : x \in D \ Good}
<1> SUFFICES ASSUME Wrong # {} PROVE FALSE
  OBVIOUS
<1>1. Wrong \in SUBSET Nat
  OBVIOUS
<1> DEFINE n == Min(Wrong)
<1>2. n \in Wrong /\ \A k \in Wrong : n <= k
  <2> HIDE DEF Wrong
  <2> QED BY <1>1, MinIs
<1> HIDE DEF n
<1>3. PICK x \in D \ Good : rank[x] = n
  BY <1>2
<1>4. ASSUME NEW y \in D, rank[y] < rank[x] PROVE y \in Good
  <2>1. rank[y] \in Nat /\ n \in Nat /\ ~(n <= rank[y])
    BY <1>3, <1>4
  <2> QED BY <1>2, <2>1
<1> QED BY <1>3, <1>4

\* Induction over the numbers: what holds of 0 and of the next after each.
LEMMA StepInduction ==
  ASSUME NEW Good \in SUBSET Nat, 0 \in Good, \A n \in Good : n + 1 \in Good
  PROVE  Good = Nat
<1> DEFINE rank == [n \in Nat |-> n]
<1>1. ASSUME NEW n \in Nat, \A m \in Nat : rank[m] < rank[n] => m \in Good
      PROVE  n \in Good
  <2>1. CASE n = 0
    BY <2>1
  <2>2. CASE n # 0
    <3>1. n - 1 \in Nat /\ rank[n - 1] < rank[n] /\ (n - 1) + 1 = n
      BY <2>2
    <3>2. n - 1 \in Good
      BY <1>1, <3>1
    <3> QED BY <3>1, <3>2
  <2> QED BY <2>1, <2>2
<1>2. Inherits(Nat, rank, Good)
  BY <1>1 DEF Inherits
<1> HIDE DEF rank
<1> QED BY <1>2, RankInduction

\* From the last place of a sequence to the first.
LEMMA DownInduction ==
  ASSUME NEW n \in Nat \ {0}, NEW Good \in SUBSET (1 .. n), n \in Good,
         \A i \in 1 .. (n - 1) : i + 1 \in Good => i \in Good
  PROVE  Good = 1 .. n
<1> DEFINE rank == [i \in 1 .. n |-> n - i]
<1>1. ASSUME NEW i \in 1 .. n, \A k \in 1 .. n : rank[k] < rank[i] => k \in Good
      PROVE  i \in Good
  <2>1. CASE i = n
    BY <2>1
  <2>2. CASE i # n
    <3>1. i \in 1 .. (n - 1) /\ i + 1 \in 1 .. n /\ rank[i + 1] < rank[i]
      BY <2>2
    <3> QED BY <1>1, <3>1
  <2> QED BY <2>1, <2>2
<1>2. Inherits(1 .. n, rank, Good)
  <2>1. rank \in [1 .. n -> Nat]
    OBVIOUS
  <2> HIDE DEF rank
  <2> QED BY <1>1, <2>1 DEF Inherits
<1> HIDE DEF rank
<1> QED BY <1>2, RankInduction

\* What holds of 0 and goes from a number to the next one holds up to n.
LEMMA UpTo ==
  ASSUME NEW n \in Nat, NEW Holds \in SUBSET (0 .. n), 0 \in Holds,
         \A i \in 1 .. n : i - 1 \in Holds => i \in Holds
  PROVE  Holds = 0 .. n
<1> DEFINE D == 0 .. n
           rank == [i \in D |-> i]
<1>1. \A i \in D : (\A j \in D : rank[j] < rank[i] => j \in Holds) => i \in Holds
  <2> SUFFICES ASSUME NEW i \in D, \A j \in D : rank[j] < rank[i] => j \in Holds
               PROVE  i \in Holds
    OBVIOUS
  <2>1. CASE i = 0
    BY <2>1
  <2>2. CASE i # 0
    <3>1. i \in 1 .. n /\ i - 1 \in D /\ rank[i - 1] < rank[i]
      BY <2>2
    <3> QED BY <3>1
  <2> QED BY <2>1, <2>2
<1>2. Inherits(D, rank, Holds)
  BY <1>1 DEF Inherits
<1> HIDE DEF rank
<1> QED BY <1>2, RankInduction

\* A sequence, of whatever elements: it is one of its own.
IsSeq(s) == s \in Seq({s[i] : i \in DOMAIN s})

\* A sequence is one of its own elements.
LEMMA SeqOfItself ==
  ASSUME NEW S, NEW s \in Seq(S)
  PROVE  IsSeq(s)
<1> DEFINE T == {s[i] : i \in DOMAIN s}
<1>1. Len(s) \in Nat /\ s \in [1 .. Len(s) -> S] /\ DOMAIN s = 1 .. Len(s)
  BY LenProperties
<1>2. s \in [1 .. Len(s) -> T]
  BY <1>1
<1> HIDE DEF T
<1>3. s \in Seq(T)
  BY <1>1, <1>2, SeqDef
<1> QED BY <1>3 DEF T, IsSeq

\* Append keeps the elements of a set.
LEMMA AppendIsSeq ==
  ASSUME NEW s, IsSeq(s), NEW e
  PROVE  IsSeq(Append(s, e)) /\ Len(Append(s, e)) = Len(s) + 1 /\ Len(s) \in Nat
<1> DEFINE S == {s[i] : i \in DOMAIN s} \cup {e}
<1>1. s \in Seq(S) /\ e \in S
  BY SeqMonotonic DEF IsSeq
<1> HIDE DEF S
<1>2. Append(s, e) \in Seq(S) /\ Len(Append(s, e)) = Len(s) + 1 /\ Len(s) \in Nat
  BY <1>1, AppendProperties, LenProperties
<1> QED BY <1>2, SeqOfItself

\* FlattenSeq, one sequence after the other.
Flattens(flat, seqs, S) ==
  /\ flat \in [0 .. Len(seqs) -> Seq(S)] /\ flat[0] = <<>>
  /\ \A i \in 1 .. Len(seqs) : flat[i] = flat[i - 1] \o seqs[i]

\* FlattenSeq adds one sequence after the other.
LEMMA FlattenSteps ==
  ASSUME NEW S, NEW seqs \in Seq(Seq(S))
  PROVE  \E flat : Flattens(flat, seqs, S) /\ FlattenSeq(seqs) = flat[Len(seqs)]
<1>1. CASE Len(seqs) = 0
  <2>1. seqs = <<>>
    BY <1>1, EmptySeq
  <2> DEFINE flat == [i \in 0 .. 0 |-> seqs]
  <2>2. FlattenSeq(seqs) = seqs /\ flat[0] = seqs
    BY <1>1 DEF FlattenSeq
  <2>3. seqs \in Seq(S)
    BY <2>1
  <2>4. flat \in [0 .. Len(seqs) -> Seq(S)] /\ \A i \in 1 .. Len(seqs) : FALSE
    BY <1>1, <2>3
  <2> HIDE DEF flat
  <2>5. Flattens(flat, seqs, S)
    BY <2>1, <2>2, <2>4 DEF Flattens
  <2> QED BY <1>1, <2>2, <2>5
<1>2. CASE Len(seqs) # 0
  <2> DEFINE n == Len(seqs)
             D == 1 .. n
             V == Seq(S)
             Body(f) == [i \in D |-> IF i = 1 THEN seqs[i] ELSE f[i - 1] \o seqs[i]]
             rank == [i \in D |-> i]
             pred == [i \in D |-> i - 1]
             start == [i \in D |-> seqs[i]]
             step == [i \in D |-> [k \in V |-> k \o seqs[i]]]
  <2>1. n \in Nat \ {0} /\ \A i \in D : seqs[i] \in V
    BY <1>2, ElementOfSeq, LenProperties
  <2>2. \A k, l \in V : k \o l \in V
    BY ConcatProperties
  <2> HIDE DEF n, V
  <2>3. Descends(D, V, rank, {1}, pred, start, step)
    <3>1. step \in [D -> [V -> V]]
      BY <2>1, <2>2
    <3>2. \A i \in D : i \notin {1} => pred[i] \in D /\ rank[pred[i]] < rank[i]
      BY <2>1
    <3>3. rank \in [D -> Nat] /\ start \in [D -> V] /\ {1} \in SUBSET D
      BY <2>1
    <3> HIDE DEF D, rank, pred, start, step
    <3> QED BY <3>1, <3>2, <3>3 DEF Descends
  <2>4. PICK f \in [D -> V] : Solves(f, D, {1}, pred, start, step)
    <3> HIDE DEF D, rank, pred, start, step
    <3> QED BY <2>3, LinearRecursion
  <2>5. \A i \in D : f[i] = IF i = 1 THEN seqs[i] ELSE f[i - 1] \o seqs[i]
    <3> TAKE i \in D
    <3>1. f[i] = IF i \in {1} THEN start[i] ELSE step[i][f[pred[i]]]
      BY <2>4 DEF Solves
    <3>2. CASE i # 1
      <4>1. i - 1 \in D /\ f[i - 1] \in V
        BY <2>1, <2>4, <3>2
      <4> QED BY <3>1, <3>2, <4>1
    <3>3. CASE i = 1
      BY <3>1, <3>3
    <3> QED BY <3>2, <3>3
  <2>6. f = Body(f)
    BY <2>4, <2>5
  <2> DEFINE g == CHOOSE g : g = Body(g)
  <2>7. g = Body(g)
    BY <2>6
  <2>8. FlattenSeq(seqs) = g[n]
    BY <1>2 DEF FlattenSeq, n
  <2> HIDE DEF g
  <2> DEFINE Good == {i \in D : g[i] \in V}
  <2>9. Good = D
    <3>1. \A i \in D : (\A j \in D : rank[j] < rank[i] => j \in Good) => i \in Good
      <4> SUFFICES ASSUME NEW i \in D, \A j \in D : rank[j] < rank[i] => j \in Good
                   PROVE  g[i] \in V
        OBVIOUS
      <4>1. CASE i = 1
        BY <2>1, <2>7, <4>1
      <4>2. CASE i # 1
        <5>1. i - 1 \in D /\ rank[i - 1] < rank[i]
          BY <2>1, <4>2
        <5>2. g[i - 1] \in V /\ g[i] = g[i - 1] \o seqs[i]
          BY <2>7, <4>2, <5>1
        <5> QED BY <2>1, <2>2, <5>2
      <4> QED BY <4>1, <4>2
    <3>2. rank \in [D -> Nat] /\ Good \in SUBSET D
      BY <2>1
    <3>3. Inherits(D, rank, Good)
      BY <3>1, <3>2 DEF Inherits
    <3> HIDE DEF Good, rank, D
    <3> QED BY <3>3, RankInduction
  <2>10. n \in D
    BY <2>1
  <2> DEFINE flat == [i \in 0 .. n |-> IF i = 0 THEN <<>> ELSE g[i]]
  <2>11. \A i \in D : g[i] \in V
    BY <2>9
  <2>12. <<>> \in V /\ \A s \in V : <<>> \o s = s
    BY EmptySeq, ConcatEmptySeq DEF V
  <2>13. flat[0] = <<>> /\ flat \in [0 .. n -> V]
    BY <2>1, <2>11, <2>12
  <2>14. \A i \in 1 .. n : flat[i] = flat[i - 1] \o seqs[i]
    <3> TAKE i \in 1 .. n
    <3>1. flat[i] = g[i] /\ seqs[i] \in V
      BY <2>1
    <3>2. CASE i = 1
      <4>1. flat[i - 1] = <<>> /\ g[i] = seqs[i]
        BY <2>1, <2>7, <3>2
      <4> QED BY <2>12, <3>1, <4>1
    <3>3. CASE i # 1
      <4>1. i - 1 \in 0 .. n /\ i - 1 # 0 /\ i \in D
        BY <2>1, <3>3
      <4>2. flat[i - 1] = g[i - 1]
        BY <4>1
      <4>3. g[i] = g[i - 1] \o seqs[i]
        BY <2>7, <3>3, <4>1
      <4> QED BY <3>1, <4>2, <4>3
    <3> QED BY <3>2, <3>3
  <2>15. flat[n] = g[n]
    BY <2>1
  <2> HIDE DEF flat
  <2>16. Flattens(flat, seqs, S)
    BY <2>13, <2>14 DEF Flattens, n, V
  <2> QED BY <2>8, <2>15, <2>16 DEF n
<1> QED BY <1>1, <1>2

\* FlattenSeq keeps the elements of a set.
LEMMA FlattenIs ==
  ASSUME NEW S, NEW seqs \in Seq(Seq(S))
  PROVE  FlattenSeq(seqs) \in Seq(S)
<1>1. PICK flat : Flattens(flat, seqs, S) /\ FlattenSeq(seqs) = flat[Len(seqs)]
  BY FlattenSteps
<1>2. Len(seqs) \in 0 .. Len(seqs)
  BY LenProperties
<1> QED BY <1>1, <1>2 DEF Flattens

\* FlattenSeq of no sequences is none.
LEMMA FlattenNone ==
  FlattenSeq(<<>>) = <<>>
BY EmptySeq DEF FlattenSeq

\* \o is associative.
LEMMA JoinedEither ==
  ASSUME NEW S
  PROVE  \A x, y, z \in Seq(S) : (x \o y) \o z = x \o (y \o z)
BY ConcatAssociative

\* FlattenSeq of a concatenation.
LEMMA FlattenConcat ==
  ASSUME NEW S, NEW a \in Seq(Seq(S)), NEW b \in Seq(Seq(S))
  PROVE  FlattenSeq(a \o b) = FlattenSeq(a) \o FlattenSeq(b)
<1> DEFINE m == Len(a)
           n == Len(b)
           c == a \o b
<1>1. c \in Seq(Seq(S)) /\ Len(c) = m + n
      /\ \A i \in 1 .. (m + n) : c[i] = IF i <= m THEN a[i] ELSE b[i - m]
  BY ConcatProperties
<1>2. PICK f : Flattens(f, a, S) /\ FlattenSeq(a) = f[m]
  BY FlattenSteps
<1>3. PICK g : Flattens(g, b, S) /\ FlattenSeq(b) = g[n]
  BY FlattenSteps
<1> HIDE DEF c
<1>4. PICK h : Flattens(h, c, S) /\ FlattenSeq(c) = h[Len(c)]
  BY <1>1, FlattenSteps
<1>5. f \in [0 .. m -> Seq(S)] /\ f[0] = <<>> /\ \A i \in 1 .. m : f[i] = f[i - 1] \o a[i]
  BY <1>2 DEF Flattens
<1>6. g \in [0 .. n -> Seq(S)] /\ g[0] = <<>> /\ \A i \in 1 .. n : g[i] = g[i - 1] \o b[i]
  BY <1>3 DEF Flattens
<1>7. h[0] = <<>> /\ \A i \in 1 .. (m + n) : h[i] = h[i - 1] \o c[i]
  BY <1>1, <1>4 DEF Flattens
<1>8. \A i \in 1 .. n : b[i] \in Seq(S)
  BY ElementOfSeq
<1>9. m \in Nat /\ n \in Nat
  BY LenProperties
<1> HIDE DEF m, n
<1>10. h[m] = f[m]
  <2> DEFINE Holds == {i \in 0 .. m : h[i] = f[i]}
  <2>1. Holds \in SUBSET (0 .. m) /\ 0 \in Holds
    BY <1>9, <1>5, <1>7
  <2>2. ASSUME NEW i \in 1 .. m, i - 1 \in Holds
        PROVE  i \in Holds
    <3>1. h[i - 1] = f[i - 1] /\ i \in 0 .. m /\ i \in 1 .. (m + n) /\ i <= m
      BY <1>9, <2>2
    <3>2. h[i] = h[i - 1] \o c[i] /\ c[i] = a[i] /\ f[i] = f[i - 1] \o a[i]
      BY <1>1, <1>5, <1>7, <3>1
    <3> QED BY <3>1, <3>2
  <2> HIDE DEF Holds
  <2>3. Holds = 0 .. m
    BY <1>9, <2>1, <2>2, UpTo
  <2>4. m \in Holds
    BY <1>9, <2>3
  <2> QED BY <2>4 DEF Holds
<1>12. \A x, y, z \in Seq(S) : (x \o y) \o z = x \o (y \o z)
  BY JoinedEither
<1>11. h[m + n] = f[m] \o g[n]
  <2> DEFINE Holds == {i \in 0 .. n : h[m + i] = f[m] \o g[i]}
  <2>1. f[m] \in Seq(S) /\ \A i \in 0 .. n : g[i] \in Seq(S)
    BY <1>5, <1>6, <1>9
  <2>2. f[m] \o <<>> = f[m]
    BY <2>1, ConcatEmptySeq
  <2>3. Holds \in SUBSET (0 .. n) /\ 0 \in Holds
    <3>1. h[m + 0] = f[m] \o g[0] /\ 0 \in 0 .. n
      BY <1>6, <1>9, <1>10, <2>2
    <3> QED BY <3>1
  <2>4. ASSUME NEW i \in 1 .. n, i - 1 \in Holds
        PROVE  i \in Holds
    <3>1. i \in 0 .. n /\ i - 1 \in 0 .. n /\ m + i \in 1 .. (m + n) /\ (m + i) - 1 = m + (i - 1)
          /\ ~(m + i <= m) /\ (m + i) - m = i
      BY <1>9
    <3>2. h[m + i] = h[m + (i - 1)] \o b[i]
      BY <1>1, <1>7, <3>1
    <3>3. g[i] = g[i - 1] \o b[i] /\ b[i] \in Seq(S)
      BY <1>6, <1>8
    <3>4. h[m + (i - 1)] = f[m] \o g[i - 1]
      BY <2>4
    <3>5. f[m] \in Seq(S) /\ g[i - 1] \in Seq(S)
      BY <2>1, <3>1
    <3>6. (f[m] \o g[i - 1]) \o b[i] = f[m] \o (g[i - 1] \o b[i])
      <4>1. b[i] \in Seq(S)
        BY <3>3
      <4> QED BY <3>5, <4>1, <1>12, Zenon
    <3> QED BY <3>1, <3>2, <3>3, <3>4, <3>6
  <2> HIDE DEF Holds
  <2>5. Holds = 0 .. n
    BY <1>9, <2>3, <2>4, UpTo
  <2>6. n \in Holds
    BY <1>9, <2>5
  <2> QED BY <2>6 DEF Holds
<1> QED BY <1>1, <1>2, <1>3, <1>4, <1>11 DEF c

\* FlattenSeq of one sequence is the sequence.
LEMMA FlattenOne ==
  ASSUME NEW S, NEW s \in Seq(S)
  PROVE  FlattenSeq(<<s>>) = s
<1> DEFINE one == <<s>>
<1>1. one \in Seq(Seq(S)) /\ Len(one) = 1 /\ one[1] = s
  OBVIOUS
<1> HIDE DEF one
<1>2. PICK f : Flattens(f, one, S) /\ FlattenSeq(one) = f[1]
  BY <1>1, FlattenSteps
<1>3. f[0] = <<>> /\ \A i \in 1 .. 1 : f[i] = f[i - 1] \o one[i]
  BY <1>1, <1>2 DEF Flattens
<1>4. 1 \in 1 .. 1 /\ 1 - 1 = 0
  OBVIOUS
<1>5. f[1] = <<>> \o s
  BY <1>1, <1>3, <1>4
<1> QED BY <1>2, <1>5, ConcatEmptySeq DEF one

\* From one on, and from the next one on.
LEMMA FlattenFrom ==
  ASSUME NEW S, NEW seqs \in Seq(Seq(S)), NEW i \in 1 .. Len(seqs)
  PROVE  /\ FlattenSeq(SubSeq(seqs, i, Len(seqs))) = seqs[i] \o FlattenSeq(SubSeq(seqs, i + 1, Len(seqs)))
         /\ seqs[i] \in Seq(S) /\ FlattenSeq(SubSeq(seqs, i + 1, Len(seqs))) \in Seq(S)
<1> DEFINE n == Len(seqs)
           rest == SubSeq(seqs, i + 1, n)
<1>1. n \in Nat /\ n \in i .. n /\ seqs[i] \in Seq(S) /\ i \in Int /\ i >= 1
  BY ElementOfSeq, LenProperties
<1>2. SubSeq(seqs, i, n) = <<seqs[i]>> \o rest
  BY <1>1, SubSeqRecursiveFirst
<1>3. rest \in Seq(Seq(S))
  <2>1. \A j \in (i + 1) .. n : seqs[j] \in Seq(S)
    BY <1>1, ElementOfSeq
  <2> QED BY <1>1, <2>1, SubSeqProperties
<1>4. <<seqs[i]>> \in Seq(Seq(S))
  BY <1>1
<1> HIDE DEF rest
<1>5. FlattenSeq(SubSeq(seqs, i, n)) = FlattenSeq(<<seqs[i]>>) \o FlattenSeq(rest)
  BY <1>2, <1>3, <1>4, FlattenConcat
<1> QED BY <1>1, <1>3, <1>5, FlattenOne, FlattenIs DEF rest

-----------------------------------------------------------------------------
(* Arithmetic.                                                               *)

\* The remainder of a number that holds the modulus once.
LEMMA RemainderOnce ==
  ASSUME NEW m \in Nat \ {0}, NEW x \in Nat, m <= x, x < 2 * m
  PROVE  x % m = x - m
<1> DEFINE q == x \div m
           r == x % m
<1>1. q \in Int /\ r \in 0 .. (m - 1) /\ x = m * q + r
  OBVIOUS
<1> HIDE DEF q, r
<1>2. q = 1
  <2>1. ~(q >= 2)
    <3> SUFFICES ASSUME q >= 2 PROVE FALSE
      OBVIOUS
    <3>1. PICK k \in Nat : q = k + 2
      <4>1. q - 2 \in Nat /\ q = (q - 2) + 2
        BY <1>1
      <4> QED BY <4>1
    <3>2. m * (k + 2) = m * k + 2 * m /\ m * k \in Nat
      BY <3>1
    <3> QED BY <1>1, <3>1, <3>2
  <2>2. ~(q <= 0)
    <3> SUFFICES ASSUME q <= 0 PROVE FALSE
      OBVIOUS
    <3>1. PICK k \in Nat : q = -k
      <4>1. -q \in Nat /\ q = -(-q)
        BY <1>1
      <4> QED BY <4>1
    <3>2. m * (-k) = -(m * k) /\ m * k \in Nat
      BY <3>1
    <3> QED BY <1>1, <3>1, <3>2
  <2> QED BY <1>1, <2>1, <2>2
<1>3. r = x - m
  BY <1>1, <1>2
<1> QED BY <1>3 DEF r

\* The remainder of a number is the one number below the modulus that is a
\* multiple away.
LEMMA RemainderUnique ==
  ASSUME NEW m \in Nat \ {0}, NEW k \in Int, NEW r \in 0 .. (m - 1)
  PROVE  (m * k + r) % m = r
<1> DEFINE x == m * k + r
           q == x \div m
           s == x % m
<1>1. x \in Int /\ q \in Int /\ s \in 0 .. (m - 1) /\ x = m * q + s
  <2>1. x \in Int
    OBVIOUS
  <2> HIDE DEF x
  <2> QED BY <2>1
<1> HIDE DEF q, s
<1>2. m * k + r = m * q + s
  BY <1>1
<1>3. ~(q > k)
  <2> SUFFICES ASSUME q > k PROVE FALSE
    OBVIOUS
  <2>1. PICK d \in Nat : q = k + 1 + d
    <3>1. q - k - 1 \in Nat /\ q = k + 1 + (q - k - 1)
      BY <1>1
    <3> QED BY <3>1
  <2>2. m * (k + 1 + d) = m * k + m + m * d /\ m * d \in Nat /\ m * k \in Int
    BY <2>1
  <2> QED BY <1>1, <1>2, <2>1, <2>2
<1>4. ~(q < k)
  <2> SUFFICES ASSUME q < k PROVE FALSE
    OBVIOUS
  <2>1. PICK d \in Nat : k = q + 1 + d
    <3>1. k - q - 1 \in Nat /\ k = q + 1 + (k - q - 1)
      BY <1>1
    <3> QED BY <3>1
  <2>2. m * (q + 1 + d) = m * q + m + m * d /\ m * d \in Nat /\ m * q \in Int
    BY <1>1, <2>1
  <2> QED BY <1>1, <1>2, <2>1, <2>2
<1>5. q = k
  BY <1>1, <1>3, <1>4
<1>6. s = r
  BY <1>1, <1>2, <1>5
<1> QED BY <1>6 DEF s

\* A byte is seven bits of the value and the rest is the value shifted by seven.
LEMMA SplitRest ==
  ASSUME NEW s \in Nat, NEW r \in Nat
  PROVE  /\ s * r = (r % 128) * s + (128 * s) * (r \div 128)
         /\ (r % 128) * s \in Nat
         /\ (128 * s) * (r \div 128) \in Nat
<1> DEFINE q == r \div 128
           m == r % 128
<1>1. q \in Nat /\ m \in Nat /\ r = 128 * q + m
  OBVIOUS
<1> HIDE DEF q, m
<1>2. s * (128 * q + m) = m * s + (128 * s) * q
  BY <1>1
<1>3. m * s \in Nat /\ (128 * s) * q \in Nat
  BY <1>1
<1>4. /\ s * r = m * s + (128 * s) * q
      /\ m * s \in Nat /\ (128 * s) * q \in Nat
  BY <1>1, <1>2, <1>3
<1> QED BY <1>4 DEF q, m

\* A product with a number that is not zero is not smaller.
LEMMA ProductGrows ==
  ASSUME NEW s \in Nat, NEW r \in Nat, r >= 1
  PROVE  s <= s * r
<1>1. PICK k \in Nat : r = k + 1
  <2>1. r - 1 \in Nat /\ r = (r - 1) + 1
    OBVIOUS
  <2> QED BY <2>1
<1>2. s * (k + 1) = s * k + s /\ s * k \in Nat
  BY <1>1
<1> QED BY <1>1, <1>2

-----------------------------------------------------------------------------
(* The widths.                                                               *)

\* The powers of a number.
IsPowers(p, b) ==
  p[0] = 1 /\ \A n \in Nat : p[n] \in Nat \ {0} /\ p[n + 1] = b * p[n]

\* The powers of a number are a function that its recursion defines.
LEMMA PowersExist ==
  ASSUME NEW b \in Nat \ {0}
  PROVE  \E f : f = [n \in Nat |-> IF n = 0 THEN 1 ELSE b * f[n - 1]]
<1> DEFINE Body(f) == [n \in Nat |-> IF n = 0 THEN 1 ELSE b * f[n - 1]]
           V == Nat \ {0}
           rank == [n \in Nat |-> n]
           pred == [n \in Nat |-> n - 1]
           start == [n \in Nat |-> 1]
           step == [n \in Nat |-> [k \in V |-> b * k]]
<1>1. Descends(Nat, V, rank, {0}, pred, start, step)
  <2>1. \A k \in V : b * k \in V
    OBVIOUS
  <2> HIDE DEF V
  <2>2. step \in [Nat -> [V -> V]]
    BY <2>1
  <2>3. start \in [Nat -> V]
    BY DEF V
  <2> HIDE DEF step, start
  <2> QED BY <2>2, <2>3 DEF Descends
<1>2. PICK f \in [Nat -> V] : Solves(f, Nat, {0}, pred, start, step)
  <2> HIDE DEF V, rank, pred, start, step
  <2> QED BY <1>1, LinearRecursion
<1>3. \A n \in Nat : f[n] = IF n = 0 THEN 1 ELSE b * f[n - 1]
  <2> TAKE n \in Nat
  <2>1. f[n] = IF n \in {0} THEN start[n] ELSE step[n][f[pred[n]]]
    BY <1>2 DEF Solves
  <2>2. CASE n # 0
    <3>1. n - 1 \in Nat /\ f[n - 1] \in V
      BY <1>2, <2>2
    <3> QED BY <2>1, <2>2, <3>1
  <2>3. CASE n = 0
    BY <2>1, <2>3
  <2> QED BY <2>2, <2>3
<1>4. f = Body(f)
  BY <1>2, <1>3
<1> QED BY <1>4

\* What its recursion says of it.
LEMMA PowersFrom ==
  ASSUME NEW b \in Nat \ {0}, NEW f, f = [n \in Nat |-> IF n = 0 THEN 1 ELSE b * f[n - 1]]
  PROVE  IsPowers(f, b)
<1>1. f[0] = 1
  OBVIOUS
<1>2. ASSUME NEW n \in Nat PROVE f[n + 1] = b * f[n]
  <2>1. n + 1 \in Nat /\ n + 1 # 0 /\ (n + 1) - 1 = n
    OBVIOUS
  <2> QED BY <2>1
<1> DEFINE Good == {n \in Nat : f[n] \in Nat \ {0}}
<1>3. \A n \in Good : n + 1 \in Good
  BY <1>2
<1>4. Good = Nat
  <2>1. 0 \in Good
    BY <1>1
  <2> HIDE DEF Good
  <2>2. Good \in SUBSET Nat
    BY DEF Good
  <2> QED BY <1>3, <2>1, <2>2, StepInduction
<1>5. \A n \in Nat : f[n] \in Nat \ {0}
  BY <1>4
<1> HIDE DEF Good
<1> QED BY <1>1, <1>2, <1>5 DEF IsPowers

\* The powers of 256.
LEMMA PowersAre ==
  /\ IsPowers(Pow256, 256)
  /\ \A n \in Nat : Pow256[n] \in Nat \ {0} /\ Pow256[n + 1] = 256 * Pow256[n]
<1> DEFINE g == Pow256
<1>1. g = [n \in Nat |-> IF n = 0 THEN 1 ELSE 256 * g[n - 1]]
  BY PowersExist DEF Pow256
<1> HIDE DEF g
<1>2. IsPowers(g, 256)
  BY <1>1, PowersFrom
<1> QED BY <1>2 DEF IsPowers, g

\* Powers multiply as their exponents add.
LEMMA PowersMultiply ==
  ASSUME NEW b \in Nat, NEW p, IsPowers(p, b), NEW m \in Nat
  PROVE  \A n \in Nat : p[m + n] = p[m] * p[n]
<1> DEFINE Good == {n \in Nat : p[m + n] = p[m] * p[n]}
<1>1. p[0] = 1 /\ \A n \in Nat : p[n] \in Nat /\ p[n + 1] = b * p[n]
  BY DEF IsPowers
<1>2. p[m + 0] = p[m] * p[0]
  BY <1>1
<1>3. ASSUME NEW n \in Nat, p[m + n] = p[m] * p[n]
      PROVE  p[m + (n + 1)] = p[m] * p[n + 1]
  <2>1. m + n \in Nat /\ m + (n + 1) = (m + n) + 1
    OBVIOUS
  <2>2. p[m + (n + 1)] = b * (p[m] * p[n])
    BY <1>1, <1>3, <2>1
  <2>3. p[n + 1] = b * p[n] /\ p[m] \in Nat /\ p[n] \in Nat
    BY <1>1
  <2>4. ASSUME NEW x \in Nat, NEW y \in Nat PROVE b * (x * y) = x * (b * y)
    OBVIOUS
  <2> QED BY <2>2, <2>3, <2>4
<1>4. Good = Nat
  <2>1. 0 \in Good /\ Good \in SUBSET Nat
    BY <1>2
  <2>2. \A n \in Good : n + 1 \in Good
    BY <1>3
  <2> HIDE DEF Good
  <2> QED BY <2>1, <2>2, StepInduction
<1> QED BY <1>4

\* The numbers of a uint64_t are those of some uint32_ts.
LEMMA WidthsAre ==
  /\ Bytes32 \in Nat \ {0} /\ Bytes64 \in Nat \ {0} /\ Bytes32 < Bytes64
  /\ Mod32 \in Nat \ {0} /\ Mod64 \in Nat \ {0}
  /\ 256 <= Mod32 /\ Mod32 < Mod64 /\ Mod64 % Mod32 = 0
<1>1. ASSUME NEW n \in Nat \ {0} PROVE Pow256[n] \in Nat \ {0} /\ 256 <= Pow256[n]
  <2> DEFINE k == n - 1
  <2>1. k \in Nat /\ n = k + 1
    OBVIOUS
  <2> HIDE DEF k
  <2>2. Pow256[k] \in Nat \ {0} /\ Pow256[n] = 256 * Pow256[k]
    BY <2>1, PowersAre
  <2> QED BY <2>2
<1> DEFINE more == Bytes64 - Bytes32
           q == Pow256[more]
<1>2. more \in Nat \ {0} /\ Bytes64 = Bytes32 + more
  BY WidthAssumption
<1>3. q \in Nat \ {0} /\ 256 <= q
  BY <1>1, <1>2
<1>4. Mod32 \in Nat \ {0} /\ 256 <= Mod32 /\ Mod64 \in Nat \ {0}
  BY <1>1, WidthAssumption DEF Mod32, Mod64
<1>5. Mod64 = Mod32 * q
  BY <1>2, WidthAssumption, PowersAre, PowersMultiply DEF Mod32, Mod64
<1> HIDE DEF q, more
<1>6. Mod64 % Mod32 = 0
  <2>1. (Mod32 * q + 0) % Mod32 = 0
    BY <1>3, <1>4, RemainderUnique
  <2>2. Mod32 * q + 0 = Mod64
    BY <1>4, <1>5
  <2> QED BY <2>1, <2>2
<1>7. Mod32 < Mod64
  <2>1. q - 1 \in Nat /\ q - 1 >= 1
    BY <1>3
  <2>2. Mod32 <= Mod32 * (q - 1) /\ Mod32 * (q - 1) \in Nat
    BY <1>4, <2>1, ProductGrows
  <2>3. Mod32 * (q - 1) = Mod32 * q - Mod32
    BY <1>3, <1>4
  <2> QED BY <1>4, <1>5, <2>2, <2>3
<1> QED BY <1>4, <1>6, <1>7, WidthAssumption

-----------------------------------------------------------------------------
(* The recursive functions of Wire.                                          *)

\* The recursion of VarintByteSize defines a function.
LEMMA VarintByteSizeIs ==
  /\ VarintByteSize \in [Nat -> Nat \ {0}]
  /\ \A v \in Nat : VarintByteSize[v] = IF v >= 128 THEN 1 + VarintByteSize[v \div 128] ELSE 1
<1> DEFINE Body(f) == [v \in Nat |-> IF v >= 128 THEN 1 + f[v \div 128] ELSE 1]
           V == Nat \ {0}
           Base == {v \in Nat : v < 128}
           rank == [v \in Nat |-> v]
           pred == [v \in Nat |-> v \div 128]
           start == [v \in Nat |-> 1]
           step == [v \in Nat |-> [n \in V |-> 1 + n]]
<1>1. \A v \in Nat : v >= 128 => v \div 128 \in Nat /\ v \div 128 < v
  OBVIOUS
<1>2. Descends(Nat, V, rank, Base, pred, start, step)
  BY <1>1 DEF Descends
<1>3. PICK f \in [Nat -> V] : Solves(f, Nat, Base, pred, start, step)
  <2> HIDE DEF V, Base, rank, pred, start, step
  <2> QED BY <1>2, LinearRecursion
<1>4. \A v \in Nat : f[v] = IF v >= 128 THEN 1 + f[v \div 128] ELSE 1
  <2> TAKE v \in Nat
  <2>1. f[v] = IF v \in Base THEN start[v] ELSE step[v][f[pred[v]]]
    BY <1>3 DEF Solves
  <2>2. CASE v >= 128
    <3>1. f[v \div 128] \in V
      BY <1>1, <1>3, <2>2
    <3>2. v \notin Base /\ pred[v] = v \div 128 /\ step[v][f[v \div 128]] = 1 + f[v \div 128]
      BY <2>2, <3>1
    <3> QED BY <2>1, <2>2, <3>2
  <2>3. CASE ~(v >= 128)
    BY <2>1, <2>3
  <2> QED BY <2>2, <2>3
<1>5. f = Body(f)
  BY <1>3, <1>4
<1>6. VarintByteSize = Body(VarintByteSize)
  BY <1>5 DEF VarintByteSize
<1> DEFINE Good == {v \in Nat : VarintByteSize[v] \in V}
<1>7. Good = Nat
  <2>1. \A v \in Nat : (\A w \in Nat : rank[w] < rank[v] => w \in Good) => v \in Good
    BY <1>1, <1>6
  <2>2. rank \in [Nat -> Nat] /\ Good \in SUBSET Nat
    OBVIOUS
  <2>9. Inherits(Nat, rank, Good)
    BY <2>1, <2>2 DEF Inherits
  <2> HIDE DEF Good, rank
  <2> QED BY <2>9, RankInduction
<1>8. \A v \in Nat : VarintByteSize[v] \in Nat \ {0}
  BY <1>7
<1>9. \A v \in Nat : VarintByteSize[v] = IF v >= 128 THEN 1 + VarintByteSize[v \div 128] ELSE 1
  BY <1>6
<1>10. VarintByteSize = [v \in Nat |-> VarintByteSize[v]]
  BY <1>6
<1> HIDE DEF Good, V, Body
<1> QED BY <1>8, <1>9, <1>10

\* So does that of VarintBytes, with bytes for values.
LEMMA VarintBytesIs ==
  /\ VarintBytes \in [Nat -> Seq(Byte)]
  /\ \A v \in Nat : VarintBytes[v] =
       IF v >= 128 THEN <<128 + (v % 128)>> \o VarintBytes[v \div 128] ELSE <<v>>
<1> DEFINE Body(f) == [v \in Nat |->
                        IF v >= 128 THEN <<128 + (v % 128)>> \o f[v \div 128] ELSE <<v>>]
           V == Seq(Byte)
           Base == {v \in Nat : v < 128}
           rank == [v \in Nat |-> v]
           pred == [v \in Nat |-> v \div 128]
           start == [v \in Nat |-> IF v < 128 THEN <<v>> ELSE <<>>]
           step == [v \in Nat |-> [s \in V |-> <<128 + (v % 128)>> \o s]]
<1>1. \A v \in Nat : v >= 128 => v \div 128 \in Nat /\ v \div 128 < v
  OBVIOUS
<1>2. \A v \in Nat : <<128 + (v % 128)>> \in V /\ (v < 128 => <<v>> \in V) /\ <<>> \in V
  BY DEF Byte
<1>3. \A v \in Nat, s \in V : <<128 + (v % 128)>> \o s \in V
  BY <1>2
<1> HIDE DEF V
<1>4. Descends(Nat, V, rank, Base, pred, start, step)
  <2>1. start \in [Nat -> V]
    BY <1>2
  <2>2. step \in [Nat -> [V -> V]]
    BY <1>3
  <2>3. \A v \in Nat : v \notin Base => pred[v] \in Nat /\ rank[pred[v]] < rank[v]
    BY <1>1
  <2>4. rank \in [Nat -> Nat] /\ Base \in SUBSET Nat
    OBVIOUS
  <2> HIDE DEF Base, rank, pred, start, step
  <2> QED BY <2>1, <2>2, <2>3, <2>4 DEF Descends
<1>5. PICK f \in [Nat -> V] : Solves(f, Nat, Base, pred, start, step)
  <2> HIDE DEF Base, rank, pred, start, step
  <2> QED BY <1>4, LinearRecursion
<1>6. \A v \in Nat : f[v] = IF v >= 128 THEN <<128 + (v % 128)>> \o f[v \div 128] ELSE <<v>>
  <2> TAKE v \in Nat
  <2>1. f[v] = IF v \in Base THEN start[v] ELSE step[v][f[pred[v]]]
    BY <1>5 DEF Solves
  <2>2. CASE v >= 128
    <3>1. f[v \div 128] \in V
      BY <1>1, <1>5, <2>2
    <3>2. v \notin Base /\ pred[v] = v \div 128
      BY <2>2
    <3>3. \A s \in V : step[v][s] = <<128 + (v % 128)>> \o s
      OBVIOUS
    <3>4. step[v][f[v \div 128]] = <<128 + (v % 128)>> \o f[v \div 128]
      BY <3>1, <3>3
    <3> HIDE DEF Base, pred, step
    <3> QED BY <2>1, <2>2, <3>2, <3>4
  <2>3. CASE ~(v >= 128)
    BY <2>1, <2>3
  <2> QED BY <2>2, <2>3
<1>7. f = Body(f)
  BY <1>5, <1>6
<1>8. VarintBytes = Body(VarintBytes)
  BY <1>7 DEF VarintBytes
<1> DEFINE Good == {v \in Nat : VarintBytes[v] \in V}
<1>9. Good = Nat
  <2>1. ASSUME NEW v \in Nat, \A w \in Nat : rank[w] < rank[v] => w \in Good
        PROVE  v \in Good
    <3> DEFINE w == v \div 128
    <3>1. VarintBytes[v] = IF v >= 128 THEN <<128 + (v % 128)>> \o VarintBytes[w] ELSE <<v>>
      BY <1>8
    <3>2. CASE v >= 128
      <4>1. w \in Nat /\ rank[w] < rank[v]
        BY <1>1, <3>2
      <4>2. VarintBytes[w] \in V
        BY <2>1, <4>1
      <4> QED BY <1>3, <3>1, <3>2, <4>2
    <3>3. CASE ~(v >= 128)
      <4>1. v < 128
        BY <3>3
      <4> QED BY <1>2, <3>1, <3>3, <4>1
    <3> QED BY <3>2, <3>3
  <2>2. rank \in [Nat -> Nat] /\ Good \in SUBSET Nat
    OBVIOUS
  <2>9. Inherits(Nat, rank, Good)
    BY <2>1, <2>2 DEF Inherits
  <2> HIDE DEF Good, rank
  <2> QED BY <2>9, RankInduction
<1>10. \A v \in Nat : VarintBytes[v] \in Seq(Byte)
  BY <1>9 DEF V
<1>11. \A v \in Nat : VarintBytes[v] =
         IF v >= 128 THEN <<128 + (v % 128)>> \o VarintBytes[v \div 128] ELSE <<v>>
  BY <1>8
<1>12. VarintBytes = [v \in Nat |-> VarintBytes[v]]
  BY <1>8
<1> HIDE DEF Good, Body
<1> QED BY <1>10, <1>11, <1>12

\* VarintByteSize counts the bytes of VarintBytes; only the last is below 128.
THEOREM VarintBytesAre ==
  \A v \in Nat :
    /\ VarintBytes[v] \in Seq(Byte) /\ Len(VarintBytes[v]) = VarintByteSize[v]
    /\ VarintByteSize[v] \in Nat \ {0}
    /\ VarintBytes[v][VarintByteSize[v]] < 128
    /\ \A i \in 1 .. (VarintByteSize[v] - 1) : VarintBytes[v][i] >= 128
<1> DEFINE Size(v) == VarintByteSize[v]
           Good == {v \in Nat : /\ Len(VarintBytes[v]) = Size(v)
                                /\ VarintBytes[v][Size(v)] < 128
                                /\ \A i \in 1 .. (Size(v) - 1) : VarintBytes[v][i] >= 128}
           rank == [v \in Nat |-> v]
<1>1. \A v \in Nat : Size(v) \in Nat \ {0} /\ VarintBytes[v] \in Seq(Byte)
  BY VarintByteSizeIs, VarintBytesIs
<1>2. ASSUME NEW v \in Nat, \A w \in Nat : rank[w] < rank[v] => w \in Good
      PROVE  v \in Good
  <2>1. CASE v >= 128
    <3> DEFINE w == v \div 128
               b == 128 + (v % 128)
    <3>1. w \in Nat /\ w < v /\ b \in Byte /\ b >= 128
      BY <2>1 DEF Byte
    <3>2. Size(v) = 1 + Size(w) /\ VarintBytes[v] = <<b>> \o VarintBytes[w]
      BY <2>1, VarintByteSizeIs, VarintBytesIs
    <3> HIDE DEF w, b
    <3>3. /\ Len(VarintBytes[w]) = Size(w) /\ VarintBytes[w][Size(w)] < 128
          /\ \A i \in 1 .. (Size(w) - 1) : VarintBytes[w][i] >= 128
      BY <1>2, <3>1
    <3> DEFINE s == VarintBytes[w]
               n == Size(w)
    <3>4. s \in Seq(Byte) /\ n \in Nat \ {0} /\ <<b>> \in Seq(Byte) /\ Len(<<b>>) = 1 /\ <<b>>[1] = b
      BY <1>1, <3>1
    <3>5. /\ VarintBytes[v] = <<b>> \o s /\ Size(v) = 1 + n /\ Len(s) = n
          /\ s[n] < 128 /\ \A i \in 1 .. (n - 1) : s[i] >= 128
      BY <3>2, <3>3
    <3> HIDE DEF s, n, Size
    <3>6. /\ Len(<<b>> \o s) = 1 + n
          /\ \A i \in 1 .. (1 + n) : (<<b>> \o s)[i] = IF i <= 1 THEN b ELSE s[i - 1]
      <4>1. /\ Len(<<b>> \o s) = Len(<<b>>) + Len(s)
            /\ \A i \in 1 .. (Len(<<b>>) + Len(s)) :
                 (<<b>> \o s)[i] = IF i <= Len(<<b>>) THEN <<b>>[i] ELSE s[i - Len(<<b>>)]
        BY <3>4, ConcatProperties
      <4> QED BY <3>4, <3>5, <4>1
    <3>7. Len(VarintBytes[v]) = Size(v) /\ VarintBytes[v][Size(v)] < 128
      BY <3>4, <3>5, <3>6
    <3>8. \A i \in 1 .. (Size(v) - 1) : VarintBytes[v][i] >= 128
      BY <3>1, <3>4, <3>5, <3>6
    <3> QED BY <3>7, <3>8
  <2>2. CASE ~(v >= 128)
    <3>1. Size(v) = 1 /\ VarintBytes[v] = <<v>>
      BY <2>2, VarintByteSizeIs, VarintBytesIs
    <3> HIDE DEF Size
    <3> QED BY <2>2, <3>1
  <2> QED BY <2>1, <2>2
<1>3. Good = Nat
  <2>1. rank \in [Nat -> Nat] /\ Good \in SUBSET Nat
    OBVIOUS
  <2>2. \A v \in Nat : (\A w \in Nat : rank[w] < rank[v] => w \in Good) => v \in Good
    BY <1>2
  <2>9. Inherits(Nat, rank, Good)
    BY <2>1, <2>2 DEF Inherits
  <2> HIDE DEF Good, rank, Size
  <2> QED BY <2>9, RankInduction
<1> QED BY <1>1, <1>3

\* What FoldRight adds up of the digits of a number, over their places.
IsSum(sums, n, digits, base) ==
  sums = [s \in SUBSET (1 .. n) |->
            IF s = {} THEN 0 ELSE digits[Min(s)] + base * sums[s \ {Min(s)}]]

SumsOf(n, digits, base) == CHOOSE sums : IsSum(sums, n, digits, base)

AddsUp(sums, n, digits, base) ==
  /\ sums[{}] = 0
  /\ \A s \in SUBSET (1 .. n) :
       /\ sums[s] \in Nat
       /\ s # {} => sums[s] = digits[Min(s)] + base * sums[s \ {Min(s)}]

LEMMA DigitSums ==
  ASSUME NEW n \in Nat, NEW digits \in [1 .. n -> Nat], NEW base \in Nat
  PROVE  AddsUp(SumsOf(n, digits, base), n, digits, base)
<1> DEFINE All == 1 .. n
           iter == SumsOf(n, digits, base)
           D == SUBSET All
           rank == [s \in D |-> Cardinality(s)]
           Base == {{}}
           pred == [s \in D |-> s \ {Min(s)}]
           start == [s \in D |-> 0]
           step == [s \in D |-> [k \in Nat |-> IF s = {} THEN 0 ELSE digits[Min(s)] + base * k]]
           Body(f) == [s \in D |-> IF s = {} THEN 0
                                   ELSE digits[Min(s)] + base * f[s \ {Min(s)}]]
<1>1. \A s \in D : s # {} => Min(s) \in s /\ digits[Min(s)] \in Nat
  <2> TAKE s \in D
  <2>1. s \in SUBSET Nat
    OBVIOUS
  <2>2. s # {} => Min(s) \in s
    BY <2>1, MinIs
  <2>3. \A i \in All : digits[i] \in Nat
    OBVIOUS
  <2>4. s # {} => Min(s) \in All
    BY <2>2
  <2> HIDE DEF D, All
  <2> QED BY <2>2, <2>3, <2>4
<1>2. \A s \in D : IsFiniteSet(s) /\ Cardinality(s) \in Nat
  <2>1. IsFiniteSet(All)
    BY FS_Interval
  <2> QED BY <2>1, FS_Subset, FS_CardinalityType
<1>3. \A s \in D : s \notin Base => pred[s] \in D /\ rank[pred[s]] < rank[s]
  <2> SUFFICES ASSUME NEW s \in D, s # {} PROVE pred[s] \in D /\ rank[pred[s]] < rank[s]
    OBVIOUS
  <2>1. pred[s] = s \ {Min(s)} /\ pred[s] \in D
    OBVIOUS
  <2>2. Cardinality(s \ {Min(s)}) = Cardinality(s) - 1
    BY <1>1, <1>2, FS_RemoveElement
  <2> QED BY <1>2, <2>1, <2>2
<1>4. Descends(D, Nat, rank, Base, pred, start, step)
  <2>1. rank \in [D -> Nat] /\ Base \in SUBSET D /\ start \in [D -> Nat]
    BY <1>2
  <2>2. step \in [D -> [Nat -> Nat]]
    BY <1>1
  <2> HIDE DEF D, Base, rank, pred, start, step
  <2> QED BY <1>3, <2>1, <2>2 DEF Descends
<1>5. PICK f \in [D -> Nat] : Solves(f, D, Base, pred, start, step)
  <2> HIDE DEF D, Base, rank, pred, start, step
  <2> QED BY <1>4, LinearRecursion
<1>6. f = Body(f)
  <2>1. \A s \in D : f[s] = Body(f)[s]
    <3> TAKE s \in D
    <3>1. f[s] = IF s \in Base THEN start[s] ELSE step[s][f[pred[s]]]
      BY <1>5 DEF Solves
    <3>2. CASE s = {}
      BY <3>1, <3>2
    <3>3. CASE s # {}
      <4>1. f[pred[s]] \in Nat
        BY <1>3, <1>5, <3>3
      <4> QED BY <3>1, <3>3, <4>1
    <3> QED BY <3>2, <3>3
  <2> QED BY <1>5, <2>1
<1>7. iter = Body(iter)
  <2>1. \A g : IsSum(g, n, digits, base) <=> g = Body(g)
    BY DEF IsSum
  <2>2. IsSum(f, n, digits, base)
    BY <1>6, <2>1
  <2> QED BY <2>1, <2>2 DEF SumsOf
<1> HIDE DEF iter
<1> DEFINE Good == {s \in D : iter[s] \in Nat}
<1>9. Good = D
  <2>1. ASSUME NEW s \in D, \A t \in D : rank[t] < rank[s] => t \in Good
        PROVE  s \in Good
    <3>1. CASE s = {}
      <4>1. iter[s] = 0
        BY <1>7, <3>1
      <4> QED BY <4>1
    <3>2. CASE s # {}
      <4>1. s \ {Min(s)} \in D /\ rank[s \ {Min(s)}] < rank[s]
        BY <1>3, <3>2
      <4>2. iter[s \ {Min(s)}] \in Nat
        BY <2>1, <4>1
      <4>3. iter[s] = digits[Min(s)] + base * iter[s \ {Min(s)}]
        BY <1>7, <3>2
      <4>4. digits[Min(s)] \in Nat
        BY <1>1, <3>2
      <4>5. \A x, y, z \in Nat : x + y * z \in Nat
        OBVIOUS
      <4> DEFINE low == digits[Min(s)]
                 high == iter[s \ {Min(s)}]
      <4>6. low \in Nat /\ high \in Nat /\ iter[s] = low + base * high
        BY <4>2, <4>3, <4>4
      <4> HIDE DEF low, high
      <4>7. iter[s] \in Nat
        BY <4>5, <4>6
      <4> QED BY <4>7
    <3> QED BY <3>1, <3>2
  <2>2. rank \in [D -> Nat] /\ Good \in SUBSET D
    BY <1>2
  <2>3. \A s \in D : (\A t \in D : rank[t] < rank[s] => t \in Good) => s \in Good
    BY <2>1
  <2>9. Inherits(D, rank, Good)
    BY <2>2, <2>3 DEF Inherits
  <2> HIDE DEF Good, D, rank
  <2> QED BY <2>9, RankInduction
<1>10. iter[{}] = 0
  BY <1>7
<1>11. \A s \in D : iter[s] \in Nat
  BY <1>9
<1>12. \A s \in D : s # {} => iter[s] = digits[Min(s)] + base * iter[s \ {Min(s)}]
  BY <1>7
<1> QED BY <1>10, <1>11, <1>12 DEF AddsUp, iter

\* What ReadVarInt adds up, over the places of the bytes.
LEMMA VarintSums ==
  ASSUME NEW bytes \in Seq(Byte)
  PROVE  \E sums :
           /\ sums[{}] = 0
           /\ \A s \in SUBSET (1 .. Len(bytes)) :
                /\ sums[s] \in Nat
                /\ s # {} => sums[s] = (bytes[Min(s)] % 128) + 128 * sums[s \ {Min(s)}]
           /\ VarintValue(bytes) = sums[1 .. Len(bytes)] % Mod64
<1> DEFINE n == Len(bytes)
           digits == [i \in 1 .. n |-> bytes[i] % 128]
           Body(g) == [s \in SUBSET (1 .. n) |->
                         IF s = {} THEN 0 ELSE (bytes[Min(s)] % 128) + 128 * g[s \ {Min(s)}]]
           iter == SumsOf(n, digits, 128)
<1>1. n \in Nat /\ DOMAIN bytes = 1 .. n /\ digits \in [1 .. n -> Nat]
  <2>1. n \in Nat /\ DOMAIN bytes = 1 .. n /\ \A i \in 1 .. n : bytes[i] \in Byte
    BY ElementOfSeq
  <2>2. \A b \in Byte : b % 128 \in Nat
    BY DEF Byte
  <2> QED BY <2>1, <2>2
<1>2. \A s \in SUBSET (1 .. n) : s # {} => Min(s) \in 1 .. n
  <2> TAKE s \in SUBSET (1 .. n)
  <2>1. s \in SUBSET Nat
    BY <1>1
  <2>2. s # {} => Min(s) \in s
    BY <2>1, MinIs
  <2> HIDE DEF n
  <2> QED BY <2>2
<1>3. \A g : g = Body(g) <=> IsSum(g, n, digits, 128)
  BY <1>2 DEF IsSum
<1>4. VarintValue(bytes) = (CHOOSE g : g = Body(g))[1 .. n] % Mod64
  BY <1>1 DEF VarintValue, FoldRight, MapThenFoldSet
<1>5. (CHOOSE g : g = Body(g)) = iter
  <2> HIDE DEF Body
  <2> QED BY <1>3 DEF SumsOf
<1> HIDE DEF Body, iter
<1>6. VarintValue(bytes) = iter[1 .. n] % Mod64
  BY <1>4, <1>5
<1>7. AddsUp(iter, n, digits, 128)
  <2>1. 128 \in Nat
    OBVIOUS
  <2> HIDE DEF digits, n
  <2> QED BY <1>1, <2>1, DigitSums DEF iter
<1>8. \A s \in SUBSET (1 .. n) : s # {} => digits[Min(s)] = bytes[Min(s)] % 128
  BY <1>2
<1> HIDE DEF digits
<1>9. \A s \in SUBSET (1 .. n) :
        /\ iter[s] \in Nat
        /\ s # {} => iter[s] = (bytes[Min(s)] % 128) + 128 * iter[s \ {Min(s)}]
  <2> HIDE DEF n
  <2> QED BY <1>7, <1>8 DEF AddsUp
<1>10. iter[{}] = 0
  BY <1>7 DEF AddsUp
<1> WITNESS iter
<1> QED BY <1>6, <1>9, <1>10

\* It is a number of 64 bits.
LEMMA VarintValueIs ==
  ASSUME NEW bytes \in Seq(Byte)
  PROVE  VarintValue(bytes) \in Num64
<1> DEFINE All == 1 .. Len(bytes)
<1>1. PICK sums : (\A s \in SUBSET All : sums[s] \in Nat) /\ VarintValue(bytes) = sums[All] % Mod64
  BY VarintSums
<1>2. sums[All] \in Nat
  BY <1>1
<1> HIDE DEF All
<1> QED BY <1>1, <1>2, WidthsAre DEF Num64
-----------------------------------------------------------------------------
(* What the shifts of a loop leave, from the first number to the last.       *)

IsShifts(r, n) ==
  /\ n \in Nat \ {0} /\ r \in [1 .. n -> Nat] /\ r[n] < 128
  /\ \A i \in 1 .. (n - 1) : r[i] >= 128 /\ r[i + 1] = r[i] \div 128

ShiftByte(r, n, i) == IF i < n THEN 128 + (r[i] % 128) ELSE r[i]

\* They end, whatever the number.
LEMMA ShiftsEnd ==
  \A v \in Nat : \E n, r : IsShifts(r, n) /\ r[1] = v
<1> DEFINE rank == [v \in Nat |-> v]
           Good == {v \in Nat : \E n, r : IsShifts(r, n) /\ r[1] = v}
<1>1. ASSUME NEW v \in Nat, \A u \in Nat : rank[u] < rank[v] => u \in Good
      PROVE  \E n, r : IsShifts(r, n) /\ r[1] = v
  <2>1. CASE v < 128
    <3> DEFINE r == [i \in 1 .. 1 |-> v]
    <3>1. r[1] = v /\ r \in [1 .. 1 -> Nat]
      OBVIOUS
    <3> HIDE DEF r
    <3>2. IsShifts(r, 1)
      BY <2>1, <3>1 DEF IsShifts
    <3> QED BY <3>1, <3>2
  <2>2. CASE v >= 128
    <3>1. v \div 128 \in Nat /\ rank[v \div 128] < rank[v]
      BY <2>2
    <3>2. PICK n, r : IsShifts(r, n) /\ r[1] = v \div 128
      BY <1>1, <3>1
    <3> DEFINE s == [i \in 1 .. (n + 1) |-> IF i = 1 THEN v ELSE r[i - 1]]
    <3>3. n \in Nat \ {0} /\ r \in [1 .. n -> Nat] /\ r[n] < 128
          /\ \A i \in 1 .. (n - 1) : r[i] >= 128 /\ r[i + 1] = r[i] \div 128
      BY <3>2 DEF IsShifts
    <3>4. s[1] = v /\ \A i \in 2 .. (n + 1) : s[i] = r[i - 1]
      BY <3>3
    <3>5. s \in [1 .. (n + 1) -> Nat]
      <4>1. \A i \in 1 .. (n + 1) : i # 1 => r[i - 1] \in Nat
        BY <3>3
      <4> QED BY <4>1
    <3> HIDE DEF s
    <3>6. ASSUME NEW i \in 1 .. ((n + 1) - 1) PROVE s[i] >= 128 /\ s[i + 1] = s[i] \div 128
      <4>1. CASE i = 1
        <5>1. s[2] = r[1]
          BY <3>3, <3>4
        <5> QED BY <2>2, <3>2, <3>4, <4>1, <5>1
      <4>2. CASE i # 1
        <5> DEFINE k == i - 1
        <5>1. k \in 1 .. (n - 1) /\ i = k + 1
          BY <3>3, <4>2
        <5>2. s[i] = r[k] /\ s[i + 1] = r[k + 1]
          BY <3>3, <3>4, <5>1
        <5> QED BY <3>3, <5>1, <5>2
      <4> QED BY <4>1, <4>2
    <3>7. s[n + 1] < 128 /\ n + 1 \in Nat \ {0}
      BY <3>3, <3>4
    <3>8. IsShifts(s, n + 1)
      BY <3>5, <3>6, <3>7 DEF IsShifts
    <3> QED BY <3>4, <3>8
  <2> QED BY <2>1, <2>2
<1>2. Inherits(Nat, rank, Good)
  BY <1>1 DEF Inherits
<1>3. Good = Nat
  <2> HIDE DEF Good, rank
  <2> QED BY <1>2, RankInduction
<1> QED BY <1>3

\* VarintByteSize and VarintBytes are one byte for each of them.
LEMMA ShiftsAreWritten ==
  ASSUME NEW n, NEW r, IsShifts(r, n)
  PROVE  VarintByteSize[r[1]] = n /\ \A j \in 1 .. n : VarintBytes[r[1]][j] = ShiftByte(r, n, j)
<1>1. /\ n \in Nat \ {0} /\ r \in [1 .. n -> Nat] /\ r[n] < 128
      /\ \A i \in 1 .. (n - 1) : r[i] >= 128 /\ r[i + 1] = r[i] \div 128
  BY DEF IsShifts
<1> DEFINE rank == [i \in 1 .. n |-> n - i]
           Right(i) == /\ VarintByteSize[r[i]] = n - i + 1
                       /\ \A j \in 1 .. (n - i + 1) : VarintBytes[r[i]][j] = ShiftByte(r, n, i + j - 1)
           Good == {i \in 1 .. n : Right(i)}
<1>2. ASSUME NEW i \in 1 .. n, \A k \in 1 .. n : rank[k] < rank[i] => k \in Good
      PROVE  Right(i)
  <2> DEFINE v == r[i]
  <2>0. v \in Nat
    BY <1>1
  <2>1. CASE i = n
    <3>1. v < 128 /\ ShiftByte(r, n, n) = v
      BY <1>1, <2>1 DEF ShiftByte
    <3> HIDE DEF v
    <3>2. VarintByteSize[v] = 1
      BY <2>0, <3>1, VarintByteSizeIs
    <3>3. VarintBytes[v] = <<v>>
      <4>1. VarintBytes[v] = IF v >= 128 THEN <<128 + (v % 128)>> \o VarintBytes[v \div 128] ELSE <<v>>
        BY <2>0, VarintBytesIs
      <4>2. ~(v >= 128)
        BY <2>0, <3>1
      <4> QED BY <4>1, <4>2
    <3>4. VarintBytes[v][1] = v
      BY <3>3
    <3>5. n - i + 1 = 1
      BY <1>1, <2>1
    <3>6. \A j \in 1 .. 1 : VarintBytes[v][j] = ShiftByte(r, n, i + j - 1)
      <4> TAKE j \in 1 .. 1
      <4>1. j = 1 /\ i + j - 1 = n
        BY <1>1, <2>1
      <4> QED BY <3>1, <3>4, <4>1
    <3> QED BY <3>2, <3>5, <3>6 DEF v
  <2>2. CASE i # n
    <3> DEFINE u == r[i + 1]
    <3>1. i + 1 \in 1 .. n /\ i \in 1 .. (n - 1) /\ rank[i + 1] < rank[i]
      BY <1>1, <2>2
    <3>2. v >= 128 /\ u = v \div 128 /\ u \in Nat
      BY <1>1, <3>1
    <3>3. Right(i + 1)
      BY <1>2, <3>1
    <3>4. VarintByteSize[u] = n - i /\ \A j \in 1 .. (n - i) : VarintBytes[u][j] = ShiftByte(r, n, i + j)
      <4>1. n - (i + 1) + 1 = n - i /\ \A j \in 1 .. (n - i) : (i + 1) + j - 1 = i + j
        BY <1>1
      <4> QED BY <3>3, <4>1
    <3>5. ShiftByte(r, n, i) = 128 + (v % 128)
      BY <1>1, <3>1 DEF ShiftByte
    <3> HIDE DEF v, u, Right
    <3>6. VarintByteSize[v] = 1 + VarintByteSize[u]
      BY <2>0, <3>2, VarintByteSizeIs
    <3>7. VarintBytes[v] = <<128 + (v % 128)>> \o VarintBytes[u]
      BY <2>0, <3>2, VarintBytesIs
    <3>8. VarintBytes[u] \in Seq(Byte) /\ Len(VarintBytes[u]) = n - i
      BY <3>2, <3>4, VarintBytesAre
    <3>9. 128 + (v % 128) \in Byte
      BY <2>0 DEF Byte
    <3>10. ASSUME NEW b \in Byte, NEW w \in Seq(Byte)
           PROVE  (<<b>> \o w)[1] = b /\ \A j \in 2 .. (Len(w) + 1) : (<<b>> \o w)[j] = w[j - 1]
      OBVIOUS
    <3>11. /\ VarintBytes[v][1] = 128 + (v % 128)
           /\ \A j \in 2 .. (n - i + 1) : VarintBytes[v][j] = VarintBytes[u][j - 1]
      BY <3>7, <3>8, <3>9, <3>10
    <3>12. \A j \in 1 .. (n - i + 1) : VarintBytes[v][j] = ShiftByte(r, n, i + j - 1)
      <4> TAKE j \in 1 .. (n - i + 1)
      <4>1. CASE j = 1
        <5>1. i + j - 1 = i
          BY <4>1
        <5> QED BY <3>5, <3>11, <4>1, <5>1
      <4>2. CASE j # 1
        <5>1. j \in 2 .. (n - i + 1) /\ j - 1 \in 1 .. (n - i) /\ i + (j - 1) = i + j - 1
          BY <1>1, <4>2
        <5> QED BY <3>4, <3>11, <5>1
      <4> QED BY <4>1, <4>2
    <3>13. VarintByteSize[v] = n - i + 1
      BY <1>1, <3>4, <3>6
    <3> QED BY <3>12, <3>13 DEF Right, v
  <2> QED BY <2>1, <2>2
<1>3. Inherits(1 .. n, rank, Good)
  <2>1. rank \in [1 .. n -> Nat]
    BY <1>1
  <2> HIDE DEF Right, rank
  <2> QED BY <1>2, <2>1 DEF Inherits
<1>4. Good = 1 .. n
  <2> HIDE DEF Good, rank
  <2> QED BY <1>3, RankInduction
<1>5. 1 \in 1 .. n /\ n - 1 + 1 = n /\ \A j \in 1 .. n : 1 + j - 1 = j
  BY <1>1
<1>6. Right(1)
  BY <1>4, <1>5
<1> QED BY <1>5, <1>6

\* What ReadVarInt adds up of their bytes is the first of them.
LEMMA ShiftsAreRead ==
  ASSUME NEW n, NEW r, IsShifts(r, n), NEW bytes \in Seq(Byte), Len(bytes) = n,
         \A i \in 1 .. n : bytes[i] = ShiftByte(r, n, i)
  PROVE  VarintValue(bytes) = r[1] % Mod64
<1>1. /\ n \in Nat \ {0} /\ r \in [1 .. n -> Nat] /\ r[n] < 128
      /\ \A i \in 1 .. (n - 1) : r[i] >= 128 /\ r[i + 1] = r[i] \div 128
  BY DEF IsShifts
<1>2. PICK sums : /\ sums[{}] = 0
                  /\ \A s \in SUBSET (1 .. n) :
                       /\ sums[s] \in Nat
                       /\ s # {} => sums[s] = (bytes[Min(s)] % 128) + 128 * sums[s \ {Min(s)}]
                  /\ VarintValue(bytes) = sums[1 .. n] % Mod64
  BY VarintSums
<1> DEFINE rank == [i \in 1 .. n |-> n - i]
           Good == {i \in 1 .. n : sums[i .. n] = r[i]}
<1>3. ASSUME NEW i \in 1 .. n, \A k \in 1 .. n : rank[k] < rank[i] => k \in Good
      PROVE  sums[i .. n] = r[i]
  <2> DEFINE s == i .. n
             v == r[i]
  <2>1. s \in SUBSET Nat /\ s # {} /\ s \in SUBSET (1 .. n)
    <3>1. i \in s /\ \A k \in s : k \in Nat /\ k \in 1 .. n
      BY <1>1
    <3> HIDE DEF s
    <3> QED BY <3>1
  <2>2. Min(s) = i
    <3>1. Min(s) \in s /\ \A k \in s : Min(s) <= k
      BY <2>1, MinIs
    <3>2. i \in s
      BY <1>1
    <3> QED BY <1>1, <3>1, <3>2
  <2>3. s \ {i} = (i + 1) .. n
    BY <1>1
  <2>4. sums[s] = (bytes[i] % 128) + 128 * sums[(i + 1) .. n]
    <3> HIDE DEF s
    <3>1. sums[s] = (bytes[Min(s)] % 128) + 128 * sums[s \ {Min(s)}]
      BY <1>2, <2>1
    <3> QED BY <2>2, <2>3, <3>1
  <2>5. v \in Nat
    BY <1>1
  <2>6. CASE i = n
    <3>1. v < 128 /\ bytes[i] = v
      BY <1>1, <2>6 DEF ShiftByte
    <3>2. (i + 1) .. n = {}
      BY <1>1, <2>6
    <3>3. sums[(i + 1) .. n] = 0
      BY <1>2, <3>2
    <3> HIDE DEF v, s
    <3>4. v % 128 = v
      BY <2>5, <3>1
    <3>5. sums[s] = v
      BY <2>4, <2>5, <3>1, <3>3, <3>4
    <3> QED BY <3>5 DEF v, s
  <2>7. CASE i # n
    <3>1. i + 1 \in 1 .. n /\ i \in 1 .. (n - 1) /\ rank[i + 1] < rank[i]
      BY <1>1, <2>7
    <3>2. sums[(i + 1) .. n] = r[i + 1]
      BY <1>3, <3>1
    <3>3. r[i + 1] = v \div 128 /\ bytes[i] = 128 + (v % 128)
      BY <1>1, <3>1 DEF ShiftByte
    <3> HIDE DEF v, s
    <3>4. (128 + (v % 128)) % 128 = v % 128 /\ (v % 128) + 128 * (v \div 128) = v
      BY <2>5
    <3>5. sums[s] = v
      BY <2>4, <3>2, <3>3, <3>4
    <3> QED BY <3>5 DEF v, s
  <2> QED BY <2>6, <2>7
<1>4. Inherits(1 .. n, rank, Good)
  <2>1. rank \in [1 .. n -> Nat]
    BY <1>1
  <2> HIDE DEF rank
  <2> QED BY <1>3, <2>1 DEF Inherits
<1>5. Good = 1 .. n
  <2> HIDE DEF Good, rank
  <2> QED BY <1>4, RankInduction
<1>6. sums[1 .. n] = r[1]
  <2>1. 1 \in 1 .. n
    BY <1>1
  <2> QED BY <1>5, <2>1
<1> QED BY <1>2, <1>6
\* A number of 64 bits has no more of them than the buffer of varInt has room for.
LEMMA ShiftsFit ==
  ASSUME NEW n, NEW r, IsShifts(r, n), r[1] < Mod64
  PROVE  n <= MaxVarintBytes
<1>1. /\ n \in Nat \ {0} /\ r \in [1 .. n -> Nat]
      /\ \A i \in 1 .. (n - 1) : r[i] >= 128 /\ r[i + 1] = r[i] \div 128
  BY DEF IsShifts
<1>2. Bytes64 \in Nat \ {0} /\ Mod64 = Pow256[Bytes64]
  BY WidthAssumption DEF Mod64
<1>3. CASE n = 1
  BY <1>2, <1>3 DEF MaxVarintBytes
<1>4. CASE n # 1
  <2>1. PICK p : IsPowers(p, 2)
    BY PowersExist, PowersFrom
  <2>2. p[0] = 1 /\ \A k \in Nat : p[k] \in Nat \ {0} /\ p[k + 1] = 2 * p[k]
    BY <2>1 DEF IsPowers
  <2>3. p[7] = 128 /\ p[8] = 256
    <3>1. p[1] = 2 /\ p[2] = 4 /\ p[3] = 8 /\ p[4] = 16
      <4>1. p[0 + 1] = 2 /\ p[1 + 1] = 2 * p[1] /\ p[2 + 1] = 2 * p[2] /\ p[3 + 1] = 2 * p[3]
        BY <2>2
      <4> QED BY <4>1
    <3>2. p[4 + 1] = 2 * p[4] /\ p[5 + 1] = 2 * p[5] /\ p[6 + 1] = 2 * p[6] /\ p[7 + 1] = 2 * p[7]
      BY <2>2
    <3> QED BY <3>1, <3>2
  <2>4. \A m, k \in Nat : p[m + k] = p[m] * p[k]
    BY <2>1, PowersMultiply
  <2>5. ASSUME NEW m \in Nat, NEW k \in Nat, p[m] < p[k] PROVE m < k
    <3> SUFFICES ASSUME m >= k PROVE FALSE
      OBVIOUS
    <3>1. PICK d \in Nat : m = k + d
      <4>1. m - k \in Nat /\ m = k + (m - k)
        OBVIOUS
      <4> QED BY <4>1
    <3>2. p[k] \in Nat /\ p[d] \in Nat /\ p[d] >= 1
      BY <2>2
    <3>4. p[m] = p[k] * p[d]
      BY <2>4, <3>1
    <3>3. p[k] <= p[k] * p[d]
      BY <3>2, ProductGrows
    <3> QED BY <2>5, <3>2, <3>3, <3>4
  <2>6. Pow256[Bytes64] = p[8 * Bytes64]
    <3> DEFINE Same == {k \in Nat : Pow256[k] = p[8 * k]}
    <3>1. ASSUME NEW k \in Nat, Pow256[k] = p[8 * k] PROVE Pow256[k + 1] = p[8 * (k + 1)]
      <4>1. 8 * (k + 1) = 8 * k + 8 /\ 8 * k \in Nat
        OBVIOUS
      <4>2. p[8 * k + 8] = p[8 * k] * p[8]
        BY <2>4, <4>1
      <4>3. Pow256[k + 1] = 256 * Pow256[k] /\ Pow256[k] \in Nat
        BY PowersAre
      <4> QED BY <2>3, <3>1, <4>1, <4>2, <4>3
    <3>2. Pow256[0] = p[8 * 0]
      BY <2>2, PowersAre DEF IsPowers
    <3>3. Same = Nat
      <4>1. 0 \in Same /\ Same \in SUBSET Nat /\ \A k \in Same : k + 1 \in Same
        BY <3>1, <3>2
      <4> HIDE DEF Same
      <4> QED BY <4>1, StepInduction
    <3> QED BY <1>2, <3>3
  <2>7. p[7 * (n - 1)] <= r[1]
    <3> DEFINE Big == {i \in 1 .. n : p[7 * (n - i)] <= r[i]}
    <3>1. n \in Big
      <4>1. n - 1 \in 1 .. (n - 1) /\ (n - 1) + 1 = n /\ 7 * (n - n) = 0
        BY <1>1, <1>4
      <4>2. r[n - 1] >= 128 /\ r[n] = r[n - 1] \div 128 /\ r[n - 1] \in Nat
        BY <1>1, <4>1
      <4>3. r[n] >= 1
        BY <4>2
      <4>4. p[7 * (n - n)] <= r[n]
        <5> DEFINE z == 7 * (n - n)
        <5>1. z = 0
          BY <4>1
        <5> HIDE DEF z
        <5>2. p[z] = 1 /\ r[n] \in Nat
          BY <1>1, <2>2, <5>1
        <5>3. p[z] <= r[n]
          BY <4>3, <5>2
        <5> QED BY <5>3 DEF z
      <4> QED BY <1>1, <4>4
    <3>2. ASSUME NEW i \in 1 .. (n - 1), i + 1 \in Big PROVE i \in Big
      <4> DEFINE k == 7 * (n - (i + 1))
      <4>1. k \in Nat /\ 7 * (n - i) = k + 7 /\ i \in 1 .. n
        BY <1>1
      <4>2. p[k] <= r[i + 1]
        BY <3>2
      <4>3. r[i + 1] = r[i] \div 128 /\ r[i] \in Nat
        BY <1>1
      <4> HIDE DEF k
      <4>4. p[k + 7] = p[k] * 128 /\ p[k] \in Nat
        <5>1. p[k + 7] = p[k] * p[7]
          BY <2>4, <4>1
        <5>2. p[k] \in Nat
          BY <2>2, <4>1
        <5> QED BY <2>3, <5>1, <5>2
      <4>5. 128 * (r[i] \div 128) <= r[i] /\ r[i] \div 128 \in Nat
        BY <4>3
      <4>6. p[7 * (n - i)] <= r[i]
        BY <4>1, <4>2, <4>3, <4>4, <4>5
      <4> QED BY <4>1, <4>6
    <3>3. Big = 1 .. n
      <4>1. Big \in SUBSET (1 .. n)
        OBVIOUS
      <4> HIDE DEF Big
      <4> QED BY <1>1, <3>1, <3>2, <4>1, DownInduction
    <3>4. 1 \in 1 .. n
      BY <1>1
    <3> QED BY <3>3, <3>4
  <2>8. 7 * (n - 1) < 8 * Bytes64
    <3> DEFINE a == 7 * (n - 1)
               b == 8 * Bytes64
    <3>1. a \in Nat /\ b \in Nat
      BY <1>1, <1>2
    <3>2. p[a] <= r[1] /\ r[1] < p[b] /\ r[1] \in Nat
      BY <1>1, <1>2, <2>6, <2>7
    <3> HIDE DEF a, b
    <3>3. p[a] \in Nat /\ p[b] \in Nat
      BY <2>2, <3>1
    <3>4. a < b
      BY <2>5, <3>1, <3>2, <3>3
    <3> QED BY <3>4 DEF a, b
  <2> QED BY <1>1, <1>2, <2>8 DEF MaxVarintBytes
<1> QED BY <1>3, <1>4

\* A varint holds any number of 64 bits: it is not longer than the buffer it is written
\* to, and ReadVarInt adds up the number of which varInt wrote the bytes.
THEOREM VarintsComeBack ==
  \A v \in Num64 : Len(VarintBytes[v]) <= MaxVarintBytes /\ VarintValue(VarintBytes[v]) = v
<1> TAKE v \in Num64
<1>1. v \in Nat /\ v < Mod64 /\ Mod64 \in Nat \ {0} /\ v % Mod64 = v
  BY WidthsAre DEF Num64
<1>2. PICK n, r : IsShifts(r, n) /\ r[1] = v
  BY <1>1, ShiftsEnd
<1>3. VarintBytes[v] \in Seq(Byte) /\ Len(VarintBytes[v]) = VarintByteSize[v]
  BY <1>1, VarintBytesAre
<1>4. VarintByteSize[v] = n /\ \A j \in 1 .. n : VarintBytes[v][j] = ShiftByte(r, n, j)
  BY <1>2, ShiftsAreWritten
<1>5. VarintValue(VarintBytes[v]) = v
  BY <1>1, <1>2, <1>3, <1>4, ShiftsAreRead
<1>6. n <= MaxVarintBytes
  BY <1>1, <1>2, ShiftsFit
<1> QED BY <1>3, <1>4, <1>5, <1>6
-----------------------------------------------------------------------------
(* The keys of a map that can be ordered: each of them, once or more.        *)

LEMMA KeysAre ==
  ASSUME NEW item, NEW map, InOrder(item, map) # {}
  PROVE  /\ Keys(item, map) \in [1 .. Cardinality(DOMAIN map) -> DOMAIN map]
         /\ {Keys(item, map)[i] : i \in 1 .. Cardinality(DOMAIN map)} = DOMAIN map
<1> DEFINE keys == Keys(item, map)
<1>1. keys \in InOrder(item, map)
  BY DEF Keys
<1> HIDE DEF keys
<1>2. keys \in [1 .. Cardinality(DOMAIN map) -> DOMAIN map] /\ Range(keys) = DOMAIN map
  BY <1>1 DEF InOrder
<1>3. {keys[i] : i \in 1 .. Cardinality(DOMAIN map)} = Range(keys)
  BY <1>2 DEF Range
<1> QED BY <1>2, <1>3 DEF keys
-----------------------------------------------------------------------------
(* Conversions and types.                                                    *)

LEMMA FixedIs ==
  ASSUME NEW v \in Nat, NEW width \in Nat
  PROVE  Fixed(v, width) \in Seq(Byte) /\ Len(Fixed(v, width)) = width
<1>1. \A i \in 1 .. width : (v \div Pow256[i - 1]) % 256 \in Byte
  <2> TAKE i \in 1 .. width
  <2>1. i - 1 \in Nat
    OBVIOUS
  <2>2. Pow256[i - 1] \in Nat \ {0}
    BY <2>1, PowersAre
  <2> QED BY <2>2 DEF Byte
<1>2. Fixed(v, width) \in [1 .. width -> Byte]
  BY <1>1 DEF Fixed
<1> QED BY <1>2, IsASeq, LenProperties

\* The C++ types are told apart.
LEMMA TypesDiffer ==
  /\ \A cpp \in Ints32 \cup Ints64 : cpp \notin {"string", "bool", "float", "double"} /\ ~IsMessage(cpp)
  /\ \A cpp \in {"string", "bool", "float", "double"} : ~IsMessage(cpp) /\ cpp \notin Ints32 \cup Ints64
  /\ \A cpp : ~IsMessage(cpp) => cpp \in Ints32 \cup Ints64 \cup {"string", "bool", "float", "double"}
  /\ \A cpp : IsMessage(cpp) => cpp \notin Ints32 \cup Ints64 \cup {"string", "bool", "float", "double"}
  /\ Ints32 \cap Ints64 = {}
BY DEF Ints32, Ints64, IsMessage, Scalars

\* What HasType says of each type.
LEMMA ValuesAre ==
  ASSUME NEW Objects, NEW cpp, NEW v, HasType(Objects, cpp, v)
  PROVE  /\ cpp = "string" => v \in Seq(Byte)
         /\ cpp = "bool" => v \in {0, 1}
         /\ cpp \in Ints32 \cup {"float"} => v \in Num32
         /\ cpp \in Ints64 \cup {"double"} => v \in Num64
         /\ cpp \in Ints32 \cup Ints64 \cup {"float", "double"} => v \in Nat
         /\ IsMessage(cpp) => [struct |-> cpp, value |-> v] \in Objects
<1>1. cpp = "string" => v \in Seq(Byte)
  BY DEF HasType, Ints32, Ints64
<1>2. cpp = "bool" => v \in {0, 1}
  BY DEF HasType, Ints32, Ints64
<1>3. cpp \in Ints32 \cup {"float"} => v \in Num32
  BY DEF HasType, Ints32, Ints64
<1>4. cpp \in Ints64 \cup {"double"} => v \in Num64
  BY DEF HasType, Ints32, Ints64
<1>5. IsMessage(cpp) => [struct |-> cpp, value |-> v] \in Objects
  BY TypesDiffer DEF HasType, Object
<1>6. Num32 \subseteq Nat /\ Num64 \subseteq Nat
  BY WidthsAre DEF Num32, Num64
<1> QED BY <1>1, <1>2, <1>3, <1>4, <1>5, <1>6

\* A tag is a varint of bytes, and not empty.
LEMMA TagIs ==
  ASSUME NEW num \in Nat, NEW wireType \in Nat
  PROVE  Tag(num, wireType) \in Seq(Byte) /\ Len(Tag(num, wireType)) \in Nat
<1>1. 8 * num + wireType \in Nat
  OBVIOUS
<1> HIDE DEF Tag
<1>2. VarintBytes[8 * num + wireType] \in Seq(Byte)
  BY <1>1, VarintBytesAre
<1> QED BY <1>2, LenProperties DEF Tag
-----------------------------------------------------------------------------
(* The formats.  No object holds itself: depth is how deep the objects nest. *)

\* Each struct has a sequence of items, of the three shapes.
Itemised(structs) ==
  \A struct \in DOMAIN structs :
    /\ structs[struct] \in Seq(Range(structs[struct]))
    /\ \A item \in Range(structs[struct]) : item.shape \in {"single", "vector", "map"}

Nesting(structs, objects, depth) ==
  /\ depth \in [objects -> Nat]
  /\ \A m \in objects : \A o \in Held(structs[m.struct], m) : o \in objects => depth[o] < depth[m]

\* The bytes of a message depend on those of the objects that it holds alone.
LEMMA PayloadOfHeld ==
  ASSUME NEW F, NEW G, NEW cpp, NEW type, NEW v, IsMessage(cpp) => F[Object(cpp, v)] = G[Object(cpp, v)]
  PROVE  Payload(F, cpp, type, v) = Payload(G, cpp, type, v)
<1>1. CASE IsMessage(cpp)
  <2> DEFINE f == F[Object(cpp, v)]
             g == G[Object(cpp, v)]
  <2>1. f = g
    BY <1>1
  <2> HIDE DEF f, g
  <2>2. LengthDelimited(f) = LengthDelimited(g)
    BY <2>1
  <2> QED BY <2>2 DEF Payload, f, g
<1>2. CASE ~IsMessage(cpp)
  BY <1>2 DEF Payload
<1> QED BY <1>1, <1>2

\* What typing says of the fields of an object.
Shaped(items, m) ==
  /\ items \in Seq(Range(items))
  /\ \A item \in Range(items) : item.shape \in {"single", "vector", "map"}
       /\ (item.shape = "vector" => IsSeq(m.value.val[item.num]))
       /\ (item.shape = "map" => InOrder(item, m.value.val[item.num]) # {})

\* What an item of a struct names is among the objects that the message holds.
LEMMA HeldAre ==
  ASSUME NEW items, NEW m, NEW i \in DOMAIN items, NEW o, IsMessage(o.struct),
         \/ \E v \in Members(items[i], m.value.val[items[i].num]) : o = Object(items[i].cpp, v)
         \/ items[i].shape = "map" /\ \E k \in DOMAIN m.value.val[items[i].num] : o = Object(items[i].key, k)
  PROVE  o \in Held(items, m)
<1> DEFINE InField(item) == {Object(item.cpp, v) : v \in Members(item, m.value.val[item.num])}
           MapKeys(item) == IF item.shape # "map" THEN {}
                            ELSE {Object(item.key, k) : k \in DOMAIN m.value.val[item.num]}
           Both(item) == InField(item) \cup MapKeys(item)
<1>1. o \in Both(items[i])
  OBVIOUS
<1>2. Held(items, m) = {x \in UNION {Both(items[j]) : j \in DOMAIN items} : IsMessage(x.struct)}
  BY Zenon DEF Held
<1> HIDE DEF Both
<1> QED BY <1>1, <1>2

\* The bytes of a message depend on those of the objects that it holds alone.
LEMMA MessageOfHeld ==
  ASSUME NEW F, NEW G, NEW m, NEW items, Shaped(items, m),
         \A o \in Held(items, m) : F[o] = G[o]
  PROVE  MessageFormat(F, items, m.value) = MessageFormat(G, items, m.value)
<1>1. DOMAIN items = 1 .. Len(items) /\ Len(items) \in Nat
  BY LenProperties DEF Shaped
<1>2. ASSUME NEW i \in 1 .. Len(items)
      PROVE  FieldRecords(F, items[i], m.value) = FieldRecords(G, items[i], m.value)
  <2> DEFINE item == items[i]
             v == m.value.val[item.num]
  <2>1. item \in Range(items)
    BY <1>1 DEF Range
  <2>2. /\ item.shape \in {"single", "vector", "map"} /\ (item.shape = "vector" => IsSeq(v))
        /\ (item.shape = "map" => InOrder(item, v) # {})
    BY <2>1 DEF Shaped
  <2>3. \A x \in Members(item, v) : IsMessage(item.cpp) => F[Object(item.cpp, x)] = G[Object(item.cpp, x)]
    <3> SUFFICES ASSUME NEW x \in Members(item, v), IsMessage(item.cpp) PROVE Object(item.cpp, x) \in Held(items, m)
      OBVIOUS
    <3>1. Object(item.cpp, x).struct = item.cpp /\ i \in DOMAIN items
      BY <1>1 DEF Object
    <3> DEFINE o == Object(item.cpp, x)
    <3>2. o = Object(item.cpp, x) /\ IsMessage(o.struct)
      BY <3>1
    <3> HIDE DEF o
    <3>3. o \in Held(items, m)
      BY <3>1, <3>2, HeldAre
    <3> QED BY <3>2, <3>3
  <2>4. item.shape = "map" =>
          \A x \in DOMAIN v : IsMessage(item.key) => F[Object(item.key, x)] = G[Object(item.key, x)]
    <3> SUFFICES ASSUME item.shape = "map", NEW x \in DOMAIN v, IsMessage(item.key)
                 PROVE Object(item.key, x) \in Held(items, m)
      OBVIOUS
    <3>1. Object(item.key, x).struct = item.key /\ i \in DOMAIN items
      BY <1>1 DEF Object
    <3> DEFINE o == Object(item.key, x)
    <3>2. o = Object(item.key, x) /\ IsMessage(o.struct)
      BY <3>1
    <3> HIDE DEF o
    <3>3. o \in Held(items, m)
      BY <3>1, <3>2, HeldAre
    <3> QED BY <3>2, <3>3
  <2> HIDE DEF item, v
  <2>5. \A x \in Members(item, v) : Payload(F, item.cpp, item.low, x) = Payload(G, item.cpp, item.low, x)
    BY <2>3, PayloadOfHeld
  <2>6. \A num : \A x \in Members(item, v) : Tagged(F, num, item.cpp, item.low, x) = Tagged(G, num, item.cpp, item.low, x)
    BY <2>5 DEF Tagged
  <2>7. CASE item.shape = "single"
    <3>1. v \in Members(item, v)
      BY <2>7 DEF Members
    <3>2. Tagged(F, item.num, item.cpp, item.low, v) = Tagged(G, item.num, item.cpp, item.low, v)
      BY <2>6, <3>1
    <3> QED BY <2>7, <3>2 DEF FieldRecords, item, v
  <2>8. CASE item.shape = "vector"
    <3>1. DOMAIN v = 1 .. Len(v) /\ Len(v) \in Nat
      BY <2>2, <2>8, LenProperties DEF IsSeq
    <3>2. \A j \in 1 .. Len(v) : v[j] \in Members(item, v)
      BY <2>8, <3>1 DEF Members
    <3>3. [j \in 1 .. Len(v) |-> Tagged(F, item.num, item.cpp, item.low, v[j])] =
          [j \in 1 .. Len(v) |-> Tagged(G, item.num, item.cpp, item.low, v[j])]
      BY <2>6, <3>2
    <3>4. [j \in 1 .. Len(v) |-> Payload(F, item.cpp, item.low, v[j])] =
          [j \in 1 .. Len(v) |-> Payload(G, item.cpp, item.low, v[j])]
      BY <2>5, <3>2
    <3>5. PackedFormat(F, item, v) = PackedFormat(G, item, v)
      BY <3>4 DEF PackedFormat
    <3> QED BY <2>8, <3>3, <3>5 DEF FieldRecords, item, v
  <2>9. CASE item.shape = "map"
    <3> DEFINE keys == Keys(item, v)
               n == Cardinality(DOMAIN v)
    <3>6. keys \in [1 .. n -> DOMAIN v]
      BY <2>2, <2>9, KeysAre
    <3>1. \A j \in 1 .. n : keys[j] \in DOMAIN v
      BY <3>6
    <3>2. \A k \in DOMAIN v : v[k] \in Members(item, v)
      BY <2>9 DEF Members
    <3>3. \A k \in DOMAIN v : Tagged(F, 1, item.key, item.high, k) = Tagged(G, 1, item.key, item.high, k)
      BY <2>4, <2>9, PayloadOfHeld DEF Tagged
    <3>4. \A k \in DOMAIN v : EntryFormat(F, item, k, v[k]) = EntryFormat(G, item, k, v[k])
      BY <2>6, <3>2, <3>3 DEF EntryFormat
    <3> HIDE DEF keys, n
    <3>5. [j \in 1 .. n |-> EntryFormat(F, item, keys[j], v[keys[j]])] =
          [j \in 1 .. n |-> EntryFormat(G, item, keys[j], v[keys[j]])]
      BY <3>1, <3>4
    <3> QED BY <2>9, <3>5 DEF FieldRecords, item, v, keys, n
  <2> QED BY <2>2, <2>7, <2>8, <2>9 DEF item
<1>3. [i \in 1 .. Len(items) |-> FlattenSeq(FieldRecords(F, items[i], m.value))] =
      [i \in 1 .. Len(items) |-> FlattenSeq(FieldRecords(G, items[i], m.value))]
  BY <1>2
<1> QED BY <1>3 DEF MessageFormat

\* Objects that hold values of their types hold each other.
LEMMA HeldInside ==
  ASSUME NEW structs, Itemised(structs), NEW Objects, WellTyped(structs, Objects), NEW m \in Objects, NEW o \in Held(structs[m.struct], m)
  PROVE  o \in Objects
<1> DEFINE items == structs[m.struct]
           InField(item) == {Object(item.cpp, v) : v \in Members(item, m.value.val[item.num])}
           MapKeys(item) == IF item.shape # "map" THEN {}
                            ELSE {Object(item.key, k) : k \in DOMAIN m.value.val[item.num]}
           Both(item) == InField(item) \cup MapKeys(item)
<1>1. Held(items, m) = {x \in UNION {Both(items[j]) : j \in DOMAIN items} : IsMessage(x.struct)}
  BY Zenon DEF Held
<1>2. PICK j \in DOMAIN items : o \in Both(items[j]) /\ IsMessage(o.struct)
  <2> HIDE DEF items, Both
  <2>1. o \in Held(items, m)
    BY DEF items
  <2> QED BY <1>1, <2>1
<1> DEFINE item == items[j]
           v == m.value.val[item.num]
<1>3. m.struct \in DOMAIN structs /\ item \in Range(items)
  BY <1>2 DEF WellTyped, Range
<1>4. FieldHasType(Objects, item, v) /\ item.shape \in {"single", "vector", "map"}
  BY <1>3 DEF WellTyped, Itemised
<1>5. \A cpp, x : IsMessage(cpp) /\ HasType(Objects, cpp, x) => Object(cpp, x) \in Objects
  BY ValuesAre DEF Object
<1>6. \A cpp, x : Object(cpp, x).struct = cpp
  BY DEF Object
<1> HIDE DEF items, item, v
<1>7. \A x \in Members(item, v) : HasType(Objects, item.cpp, x)
  BY <1>4 DEF FieldHasType, Members
<1>8. item.shape = "map" => \A k \in DOMAIN v : HasType(Objects, item.key, k)
  BY <1>4 DEF FieldHasType
<1>9. CASE o \in InField(items[j])
  <2>1. PICK x \in Members(item, v) : o = Object(item.cpp, x)
    BY <1>9 DEF item, v
  <2> QED BY <1>2, <1>5, <1>6, <1>7, <2>1
<1>10. CASE o \in MapKeys(items[j])
  <2>1. item.shape = "map" /\ \E k \in DOMAIN v : o = Object(item.key, k)
    BY <1>10 DEF item, v
  <2>2. PICK k \in DOMAIN v : o = Object(item.key, k)
    BY <2>1
  <2> QED BY <1>2, <1>5, <1>6, <1>8, <2>1, <2>2
<1> QED BY <1>2, <1>9, <1>10

\* Typed objects have the fields of their struct.
LEMMA FieldsAre ==
  ASSUME NEW structs, Itemised(structs), NEW Objects, WellTyped(structs, Objects), NEW m \in Objects
  PROVE  m.struct \in DOMAIN structs /\ Shaped(structs[m.struct], m)
<1>1. m.struct \in DOMAIN structs
  BY DEF WellTyped
<1>2. ASSUME NEW item \in Range(structs[m.struct])
      PROVE  /\ item.shape \in {"single", "vector", "map"}
             /\ (item.shape = "vector" => IsSeq(m.value.val[item.num]))
             /\ (item.shape = "map" => InOrder(item, m.value.val[item.num]) # {})
  <2>1. FieldHasType(Objects, item, m.value.val[item.num])
    BY DEF WellTyped
  <2>2. item.shape \in {"single", "vector", "map"}
    BY <1>1 DEF Itemised
  <2>3. item.shape = "vector" => IsSeq(m.value.val[item.num])
    BY <2>1 DEF FieldHasType, IsSeq
  <2>4. item.shape = "map" => InOrder(item, m.value.val[item.num]) # {}
    BY <2>1 DEF FieldHasType
  <2> QED BY <2>2, <2>3, <2>4
<1>3. structs[m.struct] \in Seq(Range(structs[m.struct]))
  BY <1>1 DEF Itemised
<1> QED BY <1>1, <1>2, <1>3 DEF Shaped

\* The bytes of the format are well defined.
LEMMA FormatsAre ==
  ASSUME NEW structs, Itemised(structs), NEW objects, WellTyped(structs, objects),
         NEW depth, Nesting(structs, objects, depth)
  PROVE  Formats(structs, objects) =
           [m \in objects |-> MessageFormat(Formats(structs, objects), structs[m.struct], m.value)]
<1> DEFINE MF(f, m) == MessageFormat(f, structs[m.struct], m.value)
           Below(n) == {m \in objects : depth[m] < n}
           Part(f, n) == f = [m \in Below(n) |-> MF(f, m)]
           Solved == {n \in Nat : \E f : Part(f, n)}
<1>1. depth \in [objects -> Nat]
  BY DEF Nesting
<1>2. ASSUME NEW f, NEW g, NEW m \in objects,
             \A o \in objects : depth[o] < depth[m] => f[o] = g[o]
      PROVE  MF(f, m) = MF(g, m)
  <2> DEFINE items == structs[m.struct]
  <2>1. ASSUME NEW o \in Held(items, m) PROVE f[o] = g[o]
    <3>1. o \in objects
      BY <1>1, HeldInside
    <3> QED BY <1>2, <3>1 DEF Nesting
  <2>2. Shaped(items, m)
    BY <1>1, FieldsAre
  <2> HIDE DEF items
  <2>3. MessageFormat(f, items, m.value) = MessageFormat(g, items, m.value)
    BY <2>1, <2>2, MessageOfHeld
  <2> QED BY <2>3 DEF items
<1> HIDE DEF MF
<1>3. \A n \in Nat : \A m \in Below(n) : \A o \in objects : depth[o] < depth[m] => o \in Below(n)
  BY <1>1
<1>4. 0 \in Solved
  <2>1. Below(0) = {}
    BY <1>1
  <2> DEFINE f == [m \in {} |-> 0]
  <2>2. Part(f, 0)
    BY <2>1
  <2> QED BY <2>2
<1>5. ASSUME NEW n \in Solved PROVE n + 1 \in Solved
  <2>1. n \in Nat
    OBVIOUS
  <2>2. PICK f : Part(f, n)
    OBVIOUS
  <2> DEFINE g == [m \in Below(n + 1) |-> MF(f, m)]
  <2>3. \A m \in Below(n) : m \in Below(n + 1) /\ m \in objects /\ f[m] = MF(f, m)
    BY <1>1, <2>1, <2>2
  <2>4. \A m \in Below(n) : g[m] = f[m]
    BY <2>3
  <2>5. \A m \in Below(n + 1) : \A o \in objects : depth[o] < depth[m] => o \in Below(n)
    BY <1>1, <2>1
  <2>6. \A m \in Below(n + 1) : MF(f, m) = MF(g, m)
    <3> TAKE m \in Below(n + 1)
    <3>1. m \in objects /\ \A o \in objects : depth[o] < depth[m] => f[o] = g[o]
      BY <2>4, <2>5
    <3> HIDE DEF g
    <3> QED BY <1>2, <3>1
  <2>7. Part(g, n + 1)
    BY <2>6
  <2> HIDE DEF Part
  <2> QED BY <2>1, <2>7
<1>6. Solved = Nat
  <2>1. Solved \in SUBSET Nat
    OBVIOUS
  <2> HIDE DEF Solved
  <2> QED BY <1>4, <1>5, <2>1, StepInduction
<1> DEFINE Solution(n) == CHOOSE f : Part(f, n)
<1>7. \A n \in Nat : Part(Solution(n), n)
  <2> HIDE DEF Part
  <2> QED BY <1>6
<1> HIDE DEF Solution
<1> DEFINE F == [m \in objects |-> MF(Solution(depth[m]), m)]
           Same == {o \in objects : \A n \in Nat : o \in Below(n) => Solution(n)[o] = F[o]}
<1>8. Same = objects
  <2>1. Inherits(objects, depth, Same)
    <3> SUFFICES ASSUME NEW o \in objects,
                        \A p \in objects : depth[p] < depth[o] => p \in Same
                 PROVE  o \in Same
      BY <1>1 DEF Inherits
    <3> SUFFICES ASSUME NEW n \in Nat, o \in Below(n) PROVE Solution(n)[o] = F[o]
      OBVIOUS
    <3>1. depth[o] \in Nat
      BY <1>1
    <3>2. Solution(n)[o] = MF(Solution(n), o)
      BY <1>7
    <3>3. \A p \in objects : depth[p] < depth[o] => Solution(n)[p] = Solution(depth[o])[p]
      <4> SUFFICES ASSUME NEW p \in objects, depth[p] < depth[o]
                   PROVE  Solution(n)[p] = Solution(depth[o])[p]
        OBVIOUS
      <4>1. p \in Below(n) /\ p \in Below(depth[o]) /\ p \in Same
        BY <1>3
      <4> HIDE DEF F, Below
      <4> QED BY <3>1, <4>1
    <3>4. MF(Solution(n), o) = MF(Solution(depth[o]), o)
      BY <1>2, <3>3
    <3> QED BY <3>2, <3>4
  <2> HIDE DEF Same
  <2> QED BY <2>1, RankInduction
<1>9. ASSUME NEW m \in objects PROVE F[m] = MF(F, m)
  <2>1. depth[m] \in Nat
    BY <1>1
  <2>2. \A o \in objects : depth[o] < depth[m] => Solution(depth[m])[o] = F[o]
    <3> SUFFICES ASSUME NEW o \in objects, depth[o] < depth[m] PROVE Solution(depth[m])[o] = F[o]
      OBVIOUS
    <3>1. o \in Below(depth[m])
      OBVIOUS
    <3>2. o \in Same
      BY <1>8
    <3> HIDE DEF F, Below
    <3> QED BY <2>1, <3>1, <3>2
  <2>3. F[m] = MF(Solution(depth[m]), m)
    OBVIOUS
  <2> HIDE DEF F
  <2> QED BY <1>2, <2>2, <2>3
<1>10. F = [m \in objects |-> MF(F, m)]
  BY <1>9
<1> HIDE DEF F
<1> DEFINE IsFormat(f) == f = [m \in objects |-> MessageFormat(f, structs[m.struct], m.value)]
<1>11. IsFormat(F)
  BY <1>10 DEF MF
<1>12. Formats(structs, objects) = CHOOSE f : IsFormat(f)
  BY Zenon DEF Formats
<1>13. IsFormat(Formats(structs, objects))
  <2> HIDE DEF IsFormat
  <2> QED BY <1>11, <1>12
<1> QED BY <1>13

-----------------------------------------------------------------------------
(* Numbers come back.                                                        *)

\* A quotient is the number of times that the divisor fits.
LEMMA QuotientUnique ==
  ASSUME NEW m \in Nat \ {0}, NEW q \in Nat, NEW r \in 0 .. (m - 1)
  PROVE  (m * q + r) \div m = q
<1> DEFINE x == m * q + r
           k == x \div m
           s == x % m
<1>1. x \in Nat /\ m * q \in Nat
  OBVIOUS
<1>2. s = r
  BY RemainderUnique
<1>3. x = m * k + s /\ k \in Int
  <2> HIDE DEF x
  <2> QED BY <1>1
<1>4. m * k = m * q
  <2> HIDE DEF k, s
  <2> QED BY <1>1, <1>2, <1>3
<1> HIDE DEF k, x
<1> QED BY <1>3, <1>4 DEF x, k

LEMMA QuotientSteps ==
  ASSUME NEW v \in Nat, NEW p \in Nat \ {0}
  PROVE  v \div (256 * p) = (v \div p) \div 256 /\ v \div p \in Nat
<1> DEFINE q == v \div p
           r == v % p
           a == q \div 256
           b == q % 256
<1>1. v = p * q + r /\ q \in Nat /\ r \in 0 .. (p - 1)
  OBVIOUS
<1>2. q = 256 * a + b /\ a \in Nat /\ b \in 0 .. 255
  BY <1>1
<1> HIDE DEF q, r, a, b
<1> DEFINE s == p * b + r
<1>3. s \in 0 .. (256 * p - 1)
  <2>1. p * b <= p * 255 /\ p * b \in Nat
    BY <1>2
  <2>2. p * 255 = 255 * p
    OBVIOUS
  <2> HIDE DEF s
  <2>3. s = p * b + r
    BY DEF s
  <2> QED BY <1>1, <2>1, <2>2, <2>3
<1>4. v = (256 * p) * a + s
  <2>1. p * (256 * a + b) = (256 * p) * a + p * b
    BY <1>2
  <2>2. p * (256 * a + b) \in Nat /\ p * b \in Nat /\ (256 * p) * a \in Nat
    BY <1>2
  <2> QED BY <1>1, <1>2, <2>1, <2>2
<1>5. 256 * p \in Nat \ {0}
  OBVIOUS
<1> HIDE DEF s
<1>6. ((256 * p) * a + s) \div (256 * p) = a
  BY <1>2, <1>3, <1>5, QuotientUnique
<1> QED BY <1>1, <1>4, <1>6 DEF q, a

\* What FoldRight adds up of the bytes of a fixed number.
LEMMA EndianSums ==
  ASSUME NEW bytes \in Seq(Byte)
  PROVE  LittleEndian(bytes) = SumsOf(Len(bytes), [i \in 1 .. Len(bytes) |-> bytes[i]], 256)[1 .. Len(bytes)]
<1> DEFINE n == Len(bytes)
           digits == [i \in 1 .. n |-> bytes[i]]
           Body(g) == [s \in SUBSET (1 .. n) |->
                         IF s = {} THEN 0 ELSE bytes[Min(s)] + 256 * g[s \ {Min(s)}]]
<1>1. DOMAIN bytes = 1 .. n
  OBVIOUS
<1>2. \A s \in SUBSET (1 .. n) : s # {} => Min(s) \in 1 .. n
  <2> TAKE s \in SUBSET (1 .. n)
  <2>1. s \in SUBSET Nat
    OBVIOUS
  <2>2. s # {} => Min(s) \in s
    BY <2>1, MinIs
  <2> HIDE DEF n
  <2> QED BY <2>2
<1>3. \A g : g = Body(g) <=> IsSum(g, n, digits, 256)
  BY <1>2 DEF IsSum
<1>4. LittleEndian(bytes) = (CHOOSE g : g = Body(g))[1 .. n]
  BY <1>1 DEF LittleEndian, FoldRight, MapThenFoldSet
<1>5. (CHOOSE g : g = Body(g)) = SumsOf(n, digits, 256)
  <2> HIDE DEF Body, digits, n
  <2> QED BY <1>3 DEF SumsOf
<1> HIDE DEF Body
<1> QED BY <1>4, <1>5

\* decodeFixed32 and decodeFixed64 read what encodeFixed32 and encodeFixed64 write.
LEMMA FixedComesBack ==
  ASSUME NEW v \in Nat, NEW width \in Nat, v < Pow256[width]
  PROVE  LittleEndian(Fixed(v, width)) = v
<1> DEFINE bytes == Fixed(v, width)
           digits == [i \in 1 .. width |-> bytes[i]]
           sums == SumsOf(width, digits, 256)
<1>1. bytes \in Seq(Byte) /\ Len(bytes) = width
  BY FixedIs
<1>2. digits \in [1 .. width -> Nat]
  <2>1. \A i \in 1 .. width : bytes[i] \in Byte
    <3> HIDE DEF bytes
    <3> QED BY <1>1, ElementOfSeq
  <2> QED BY <2>1 DEF Byte
<1>3. \A i \in 1 .. width : digits[i] = (v \div Pow256[i - 1]) % 256
  BY DEF Fixed
<1>4. LittleEndian(bytes) = sums[1 .. width]
  <2> HIDE DEF bytes
  <2> QED BY <1>1, EndianSums
<1>5. AddsUp(sums, width, digits, 256)
  <2>1. 256 \in Nat
    OBVIOUS
  <2> HIDE DEF digits
  <2> QED BY <1>2, <2>1, DigitSums
<1> HIDE DEF bytes, digits, sums
<1> DEFINE Holds == {i \in 0 .. width : sums[(width - i + 1) .. width] = v \div Pow256[width - i]}
<1>6. 0 \in Holds
  <2>1. (width - 0 + 1) .. width = {} /\ width - 0 = width
    OBVIOUS
  <2>2. Pow256[width] \in Nat \ {0}
    BY PowersAre
  <2>3. v \div Pow256[width] = 0
    BY <2>2
  <2> QED BY <1>5, <2>1, <2>3 DEF AddsUp
<1>7. ASSUME NEW i \in 1 .. width, i - 1 \in Holds PROVE i \in Holds
  <2> DEFINE k == width - i
             s == (k + 1) .. width
  <2>1. k \in Nat /\ k + 1 \in 1 .. width /\ width - (i - 1) = k + 1 /\ width - (i - 1) + 1 = k + 2
    OBVIOUS
  <2>2. sums[(k + 2) .. width] = v \div Pow256[k + 1]
    <3>1. sums[(width - (i - 1) + 1) .. width] = v \div Pow256[width - (i - 1)]
      BY <1>7
    <3> HIDE DEF k
    <3> QED BY <2>1, <3>1
  <2>3. s \in SUBSET (1 .. width) /\ s # {} /\ s \in SUBSET Nat /\ k + 1 \in s
    BY <2>1
  <2>4. Min(s) = k + 1
    <3>1. Min(s) \in s /\ \A j \in s : Min(s) <= j
      BY <2>3, MinIs
    <3> QED BY <2>1, <2>3, <3>1
  <2>5. s \ {k + 1} = (k + 2) .. width
    BY <2>1
  <2>6. sums[s] = digits[k + 1] + 256 * sums[(k + 2) .. width]
    <3> HIDE DEF s, k
    <3>1. sums[s] = digits[Min(s)] + 256 * sums[s \ {Min(s)}]
      BY <1>5, <2>3 DEF AddsUp
    <3> QED BY <2>4, <2>5, <3>1
  <2>7. digits[k + 1] = (v \div Pow256[k]) % 256
    BY <1>3, <2>1
  <2>8. Pow256[k] \in Nat \ {0} /\ Pow256[k + 1] = 256 * Pow256[k]
    BY <2>1, PowersAre
  <2>9. v \div Pow256[k + 1] = (v \div Pow256[k]) \div 256 /\ v \div Pow256[k] \in Nat
    <3> DEFINE p == Pow256[k]
    <3>1. p \in Nat \ {0} /\ Pow256[k + 1] = 256 * p
      BY <2>8
    <3> HIDE DEF p
    <3>2. v \div (256 * p) = (v \div p) \div 256 /\ v \div p \in Nat
      BY <3>1, QuotientSteps
    <3> QED BY <3>1, <3>2 DEF p
  <2> DEFINE q == v \div Pow256[k]
  <2>10. sums[s] = (q % 256) + 256 * (q \div 256) /\ q \in Nat
    BY <2>2, <2>6, <2>7, <2>9
  <2> HIDE DEF q, s, k
  <2>11. sums[s] = q
    BY <2>10
  <2> QED BY <2>1, <2>11 DEF q, s, k
<1>8. Holds = 0 .. width
  <2>1. Holds \in SUBSET (0 .. width) /\ \A i \in 1 .. width : i - 1 \in Holds => i \in Holds
    BY <1>7
  <2> HIDE DEF Holds
  <2> QED BY <1>6, <2>1, UpTo
<1>9. sums[1 .. width] = v \div Pow256[0]
  <2>1. width \in Holds
    <3>1. width \in 0 .. width
      OBVIOUS
    <3> HIDE DEF Holds
    <3> QED BY <1>8, <3>1
  <2>2. width - width = 0 /\ width - width + 1 = 1
    OBVIOUS
  <2> QED BY <2>1, <2>2
<1>10. Pow256[0] = 1
  BY PowersAre DEF IsPowers
<1>11. v \div 1 = v
  OBVIOUS
<1> QED BY <1>4, <1>9, <1>10, <1>11 DEF bytes

\* A number below a modulus is the rest of any that is multiples of it away.
LEMMA RestIs ==
  ASSUME NEW m \in Nat \ {0}, NEW v \in 0 .. (m - 1), NEW k \in Int
  PROVE  (v + m * k) % m = v /\ v % m = v
<1>1. (m * k + v) % m = v
  BY RemainderUnique
<1>2. m * k + v = v + m * k
  OBVIOUS
<1>3. v % m = v
  OBVIOUS
<1> QED BY <1>1, <1>2, <1>3

\* A 32-bit number and the number it is in 64 bits.
LEMMA WideIs ==
  ASSUME NEW v \in Num32
  PROVE  (v + (Mod64 - Mod32)) % Mod32 = v /\ v % Mod32 = v
<1>1. Mod32 \in Nat \ {0} /\ Mod64 \in Nat /\ Mod64 % Mod32 = 0
  BY WidthsAre
<1> DEFINE k == Mod64 \div Mod32
<1>2. Mod64 = Mod32 * k /\ k \in Int
  BY <1>1
<1>3. v \in 0 .. (Mod32 - 1)
  BY DEF Num32
<1> DEFINE m == Mod32
           M == Mod64
<1> HIDE DEF k
<1>4. m \in Nat \ {0} /\ M = m * k /\ k \in Int /\ v \in 0 .. (m - 1) /\ v \in Nat
  BY <1>1, <1>2, <1>3
<1> HIDE DEF m, M
<1>5. (v + m * (k - 1)) % m = v /\ v % m = v
  <2>1. k - 1 \in Int
    BY <1>4
  <2> QED BY <1>4, <2>1, RestIs
<1>6. v + (M - m) = v + m * (k - 1)
  <2>1. m * (k - 1) = m * k - m /\ m * k \in Int
    BY <1>4
  <2> QED BY <1>4, <2>1
<1> QED BY <1>5, <1>6 DEF m, M

\* The sign is copied to the upper half, which is dropped again.
LEMMA SignComesBack ==
  ASSUME NEW v \in Num32
  PROVE  SignExtend(v) \in Num64 /\ SignExtend(v) % Mod32 = v
<1>1. Mod32 \in Nat \ {0} /\ Mod64 \in Nat /\ Mod32 < Mod64
  BY WidthsAre
<1>2. v \in Nat /\ v < Mod32
  BY <1>1 DEF Num32
<1>3. SignExtend(v) \in Num64
  BY <1>1, <1>2 DEF SignExtend, Num64
<1>4. SignExtend(v) % Mod32 = v
  BY WideIs DEF SignExtend
<1> QED BY <1>3, <1>4

\* convertSvarint undoes the zigzag of the format.
LEMMA ZigZagComesBack ==
  /\ \A v \in Num32 : ZigZagFormat(v, Mod32) \in Num64 /\ UnZigZag(ZigZagFormat(v, Mod32)) % Mod32 = v
  /\ \A v \in Num64 : ZigZagFormat(v, Mod64) \in Num64 /\ UnZigZag(ZigZagFormat(v, Mod64)) = v
<1>1. Mod32 \in Nat \ {0} /\ Mod64 \in Nat \ {0} /\ Mod32 < Mod64
  BY WidthsAre
<1>2. ASSUME NEW m \in Nat, NEW v \in Nat, v < m, m <= Mod64
      PROVE  /\ ZigZagFormat(v, m) \in Num64
             /\ UnZigZag(ZigZagFormat(v, m)) = IF 2 * v < m THEN v ELSE v + (Mod64 - m)
  <2> DEFINE M == Mod64
  <2>1. M \in Nat /\ m <= M /\ v < m
    BY <1>1, <1>2
  <2>2. CASE 2 * v < m
    <3>1. ZigZagFormat(v, m) = 2 * v
      BY <2>2 DEF ZigZagFormat
    <3>2. (2 * v) % 2 = 0 /\ (2 * v) \div 2 = v
      OBVIOUS
    <3>3. 2 * v \in 0 .. (M - 1)
      BY <2>1, <2>2
    <3> QED BY <2>2, <3>1, <3>2, <3>3 DEF UnZigZag, Num64
  <2>3. CASE ~(2 * v < m)
    <3> DEFINE d == m - v - 1
    <3>1. ZigZagFormat(v, m) = 2 * (m - v) - 1
      BY <2>3 DEF ZigZagFormat
    <3>2. d \in Nat /\ 2 * (m - v) - 1 = 2 * d + 1
      BY <2>1
    <3>3. (2 * d + 1) % 2 = 1 /\ (2 * d + 1) \div 2 = d
      BY <3>2
    <3>4. 2 * d + 1 \in 0 .. (M - 1) /\ (M - 1) - d = v + (M - m)
      BY <2>1, <2>3
    <3> HIDE DEF d
    <3>5. UnZigZag(2 * d + 1) = (M - 1) - d
      BY <3>3 DEF UnZigZag
    <3> QED BY <2>3, <3>1, <3>2, <3>4, <3>5 DEF Num64
  <2> QED BY <2>2, <2>3
<1>3. ASSUME NEW v \in Num32
      PROVE  ZigZagFormat(v, Mod32) \in Num64 /\ UnZigZag(ZigZagFormat(v, Mod32)) % Mod32 = v
  <2>1. v \in Nat /\ v < Mod32 /\ Mod32 <= Mod64
    BY <1>1 DEF Num32
  <2>2. (v + (Mod64 - Mod32)) % Mod32 = v /\ v % Mod32 = v
    BY WideIs
  <2> QED BY <1>1, <1>2, <2>1, <2>2
<1>4. ASSUME NEW v \in Num64
      PROVE  ZigZagFormat(v, Mod64) \in Num64 /\ UnZigZag(ZigZagFormat(v, Mod64)) = v
  <2>1. v \in Nat /\ v < Mod64 /\ v + (Mod64 - Mod64) = v
    BY <1>1 DEF Num64
  <2> QED BY <1>1, <1>2, <2>1
<1> QED BY <1>3, <1>4
=============================================================================

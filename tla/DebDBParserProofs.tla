------------------------- MODULE DebDBParserProofs -------------------------
(***************************************************************************)
(* Proofs about DebDBParser and the vocabulary files it reads, for all     *)
(* vocabularies.                                                           *)
(*                                                                         *)
(* The writer: FlattenSeq lays its pieces out one behind the other, so     *)
(* that each character of a body, each field and each record has its place *)
(* in the file.  The reader: Progress says at which of these places it is  *)
(* and what it has read by then; each helper leads from one to the next.   *)
(* Whether blanks at the ends of lines are lost, or a line that is a dot   *)
(* is, depends on characters and their neighbours only: Neat says so of a  *)
(* body, which is easier to keep at each step than what Canonical says of  *)
(* its set of lines.                                                       *)
(***************************************************************************)
EXTENDS DebDBParser, FiniteSetTheorems, WellFoundedInduction, TLAPS

-----------------------------------------------------------------------------
(* Sequences of characters.                                                *)

String == Seq(Chars)

(* A set of natural numbers has a least one.                               *)
LEMMA LeastNatural ==
  ASSUME NEW T \in SUBSET Nat, T # {}
  PROVE  \E k \in T : \A m \in T : k <= m
<1>1. PICK k \in T : \A m \in T : <<m, k>> \notin OpToRel(<, Nat)
  BY WFMin, NatLessThanWellFounded, Zenon
<1>2. \A m \in T : ~(m < k)
  BY <1>1, Zenon DEF OpToRel
<1> QED
  BY <1>2

(* A length is a natural number.                                           *)
LEMMA LenNat == ASSUME NEW s \in String PROVE Len(s) \in Nat
BY DEF String

(* The characters of two strings put together.                             *)
LEMMA CatFacts ==
  ASSUME NEW s \in String, NEW t \in String
  PROVE  /\ s \o t \in String /\ Len(s \o t) = Len(s) + Len(t)
         /\ \A k \in 1..Len(s) : (s \o t)[k] = s[k]
         /\ \A k \in 1..Len(t) : (s \o t)[Len(s) + k] = t[k]
BY DEF String

(* Strings are equal when their characters are.                            *)
LEMMA SameString ==
  ASSUME NEW s \in String, NEW t \in String, Len(s) = Len(t), \A k \in 1..Len(s) : s[k] = t[k]
  PROVE  s = t
BY DEF String

(* The characters of a part of a string.                                   *)
LEMMA PieceFacts ==
  ASSUME NEW s \in String, NEW i \in 1..(Len(s) + 1), NEW j \in 0..Len(s)
  PROVE  /\ SubSeq(s, i, j) \in String
         /\ Len(SubSeq(s, i, j)) = IF i <= j THEN j - i + 1 ELSE 0
         /\ \A k \in 1..Len(SubSeq(s, i, j)) : SubSeq(s, i, j)[k] = s[i + k - 1]
<1>1. Len(s) \in Nat /\ s \in [1..Len(s) -> Chars]
  BY DEF String
<1>2. SubSeq(s, i, j) = [k \in 1..(j - i + 1) |-> s[i + k - 1]]
  OBVIOUS
<1>3. CASE i <= j
  <2> DEFINE t == SubSeq(s, i, j)
             m == j - i + 1
  <2>1. \A k \in 1..m : i + k - 1 \in 1..Len(s)
    BY <1>1, <1>3
  <2>2. t \in [1..m -> Chars] /\ m \in Nat
    <3>1. \A k \in 1..m : s[i + k - 1] \in Chars
      BY <1>1, <2>1
    <3>2. m \in Nat
      BY <1>1, <1>3
    <3> QED
      BY <1>2, <3>1, <3>2
  <2>3. \A k \in 1..m : t[k] = s[i + k - 1]
    BY <1>2
  <2> HIDE DEF t, m
  <2>4. t \in Seq(Chars) /\ Len(t) = m
    BY <2>2
  <2> QED
    BY <1>3, <2>3, <2>4 DEF String, t, m
<1>4. CASE ~(i <= j)
  <2>1. SubSeq(s, i, j) = <<>>
    BY <1>4
  <2> QED
    BY <1>4, <2>1 DEF String
<1> QED
  BY <1>3, <1>4

-----------------------------------------------------------------------------
(* What FlattenSeq makes of pieces.                                        *)

UpTo(seqs) ==
  LET flatten[i \in 1..Len(seqs)] ==
        IF i = 1 THEN seqs[i] ELSE flatten[i - 1] \o seqs[i]
  IN  flatten

(* FlattenSeq is the last value of any solution of its recursion.          *)
LEMMA FlattenIsLast ==
  ASSUME NEW seqs, Len(seqs) # 0
  PROVE  FlattenSeq(seqs) = UpTo(seqs)[Len(seqs)]
BY DEF FlattenSeq, UpTo

(* The recursion has a solution.                                           *)
LEMMA UpToExists ==
  ASSUME NEW p, NEW l \in Nat \ {0}
  PROVE  \E f : f = [i \in 1..l |-> IF i = 1 THEN p[i] ELSE f[i - 1] \o p[i]]
<1> DEFINE Solved(m) == \E f : f = [i \in 1..m |-> IF i = 1 THEN p[i] ELSE f[i - 1] \o p[i]]
           T == {m \in Nat \ {0} : ~Solved(m)}
<1>1. Solved(1)
  <2> DEFINE f == [i \in 1..1 |-> p[i]]
  <2>1. f = [i \in 1..1 |-> IF i = 1 THEN p[i] ELSE f[i - 1] \o p[i]]
    OBVIOUS
  <2> HIDE DEF f
  <2> QED
    BY <2>1
<1>2. ASSUME NEW m \in Nat \ {0}, Solved(m)
      PROVE  Solved(m + 1)
  <2>1. PICK f : f = [i \in 1..m |-> IF i = 1 THEN p[i] ELSE f[i - 1] \o p[i]]
    BY <1>2
  <2> DEFINE g == [i \in 1..(m + 1) |-> IF i = m + 1 THEN f[m] \o p[i] ELSE f[i]]
             h == [i \in 1..(m + 1) |-> IF i = 1 THEN p[i] ELSE g[i - 1] \o p[i]]
  <2>2. ASSUME NEW i \in 1..(m + 1)
        PROVE  g[i] = IF i = 1 THEN p[i] ELSE g[i - 1] \o p[i]
    <3>1. CASE i = m + 1
      <4>1. i - 1 \in 1..(m + 1) /\ i - 1 # m + 1 /\ i - 1 = m /\ i # 1
        BY <3>1
      <4>2. g[i] = f[m] \o p[i] /\ g[i - 1] = f[m]
        BY <3>1, <4>1
      <4> QED
        BY <4>1, <4>2
    <3>2. CASE i # m + 1 /\ i # 1
      <4>1. i \in 1..m /\ i - 1 \in 1..(m + 1) /\ i - 1 # m + 1
        BY <3>2
      <4>2. g[i] = f[i] /\ g[i - 1] = f[i - 1]
        BY <3>2, <4>1
      <4>3. f[i] = f[i - 1] \o p[i]
        BY <2>1, <3>2, <4>1
      <4> QED
        BY <3>2, <4>2, <4>3
    <3>3. CASE i # m + 1 /\ i = 1
      <4>1. i \in 1..m
        BY <3>3
      <4>2. g[i] = f[i] /\ f[i] = p[i]
        BY <2>1, <3>3, <4>1
      <4> QED
        BY <3>3, <4>2
    <3> QED
      BY <3>1, <3>2, <3>3
  <2>3. g = h
    <3>1. \A i \in 1..(m + 1) : g[i] = h[i]
      BY <2>2
    <3> QED
      BY <3>1
  <2> HIDE DEF g
  <2> QED
    BY <2>3
<1>3. ASSUME T # {}
      PROVE  FALSE
  <2>1. PICK m \in T : \A k \in T : m <= k
    BY <1>3, LeastNatural
  <2>2. m # 1
    BY <1>1, <2>1
  <2>3. m - 1 \in Nat \ {0} /\ ~(m - 1 >= m) /\ (m - 1) + 1 = m
    BY <2>1, <2>2
  <2>4. m - 1 \notin T
    BY <2>1, <2>3
  <2>5. Solved(m - 1)
    BY <2>3, <2>4
  <2> HIDE DEF Solved
  <2>6. Solved((m - 1) + 1)
    BY <1>2, <2>3, <2>5
  <2> QED
    BY <2>1, <2>3, <2>6
<1> QED
  BY <1>3

(* UpTo is a solution, and FlattenSeq its last value.                      *)
LEMMA UpToFacts ==
  ASSUME NEW seqs \in Seq(String), seqs # <<>>
  PROVE  /\ Len(seqs) \in Nat \ {0} /\ seqs \in [1..Len(seqs) -> String]
         /\ UpTo(seqs) \in [1..Len(seqs) -> String]
         /\ UpTo(seqs)[1] = seqs[1]
         /\ \A i \in 1..(Len(seqs) - 1) : UpTo(seqs)[i + 1] = UpTo(seqs)[i] \o seqs[i + 1]
         /\ FlattenSeq(seqs) = UpTo(seqs)[Len(seqs)]
<1> DEFINE l == Len(seqs)
           f == UpTo(seqs)
<1>1. l \in Nat \ {0} /\ seqs \in [1..l -> String]
  OBVIOUS
<1>2. f = [i \in 1..l |-> IF i = 1 THEN seqs[i] ELSE f[i - 1] \o seqs[i]]
  <2> DEFINE Solution(g) == g = [i \in 1..l |-> IF i = 1 THEN seqs[i] ELSE g[i - 1] \o seqs[i]]
  <2>1. \E g : Solution(g)
    <3> HIDE DEF l
    <3> QED
      BY <1>1, UpToExists
  <2>2. f = CHOOSE g : Solution(g)
    BY DEF UpTo
  <2>3. Solution(f)
    <3> HIDE DEF Solution, f
    <3> QED
      BY <2>1, <2>2
  <2> QED
    BY <2>3
<1> HIDE DEF f, l
<1>3. \A i \in 1..l : f[i] = IF i = 1 THEN seqs[i] ELSE f[i - 1] \o seqs[i]
  BY <1>2, Zenon
<1>4. f[1] = seqs[1]
  <2>1. 1 \in 1..l
    BY <1>1
  <2> QED
    BY <1>3, <2>1
<1>5. ASSUME NEW i \in 1..(l - 1)
      PROVE  f[i + 1] = f[i] \o seqs[i + 1]
  <2>1. i + 1 \in 1..l /\ i + 1 # 1 /\ (i + 1) - 1 = i
    BY <1>1
  <2>2. f[i + 1] = f[(i + 1) - 1] \o seqs[i + 1]
    BY <1>3, <2>1
  <2> QED
    BY <2>1, <2>2
<1>6. \A i \in 1..l : f[i] \in String
  <2> DEFINE T == {i \in 1..l : f[i] \notin String}
  <2>1. ASSUME T # {}
        PROVE  FALSE
    <3>1. T \in SUBSET Nat
      BY <1>1
    <3>2. PICK i \in T : \A k \in T : i <= k
      BY <2>1, <3>1, LeastNatural
    <3>3. i # 1
      <4>1. seqs[1] \in String
        BY <1>1
      <4> QED
        BY <1>4, <3>2, <4>1
    <3>4. i \in 1..l /\ i - 1 \in 1..l /\ ~(i <= i - 1)
      BY <1>1, <3>2, <3>3
    <3>5. f[i - 1] \in String
      BY <3>2, <3>4
    <3>6. f[i] = f[i - 1] \o seqs[i]
      BY <1>3, <3>3, <3>4
    <3>7. seqs[i] \in String
      BY <1>1, <3>4
    <3> QED
      BY <3>2, <3>5, <3>6, <3>7, CatFacts
  <2> QED
    BY <2>1
<1>7. FlattenSeq(seqs) = f[l]
  BY <1>1, FlattenIsLast DEF l, f
<1>8. f \in [1..l -> String]
  <2> DEFINE g(i) == IF i = 1 THEN seqs[i] ELSE f[i - 1] \o seqs[i]
  <2>1. f = [i \in 1..l |-> g(i)]
    BY <1>2
  <2> HIDE DEF g
  <2>2. f = [i \in 1..l |-> f[i]]
    BY <2>1
  <2> QED
    BY <1>6, <2>2
<1> QED
  BY <1>1, <1>4, <1>5, <1>7, <1>8 DEF f, l

(* What is put together first is what the whole begins with.               *)
LEMMA UpToIsPrefix ==
  ASSUME NEW seqs \in Seq(String), seqs # <<>>,
         NEW i \in 1..Len(seqs), NEW j \in 1..Len(seqs), i <= j
  PROVE  /\ Len(UpTo(seqs)[i]) <= Len(UpTo(seqs)[j])
         /\ \A k \in 1..Len(UpTo(seqs)[i]) : UpTo(seqs)[j][k] = UpTo(seqs)[i][k]
<1> DEFINE l == Len(seqs)
           f == UpTo(seqs)
           Begins(m) == Len(f[i]) <= Len(f[m]) /\ \A k \in 1..Len(f[i]) : f[m][k] = f[i][k]
           T == {m \in i..l : ~Begins(m)}
<1>1. /\ l \in Nat \ {0} /\ seqs \in [1..l -> String] /\ f \in [1..l -> String]
      /\ \A m \in 1..(l - 1) : f[m + 1] = f[m] \o seqs[m + 1]
  BY UpToFacts
<1> HIDE DEF f, l
<1>2. ASSUME T # {}
      PROVE  FALSE
  <2>1. T \in SUBSET Nat
    BY <1>1 DEF l
  <2>2. PICK m \in T : \A k \in T : m <= k
    BY <1>2, <2>1, LeastNatural
  <2>3. m # i /\ m \in i..l
    <3>1. f[i] \in String
      BY <1>1 DEF l
    <3>2. Begins(i)
      BY <3>1 DEF String
    <3> QED
      BY <2>2, <3>2
  <2>4. /\ m - 1 \in i..l /\ m - 1 \in 1..(l - 1) /\ (m - 1) + 1 = m
        /\ m \in 1..l /\ m - 1 \in 1..l /\ i \in 1..l
    BY <1>1, <2>3 DEF l
  <2>5. Begins(m - 1)
    <3>1. ~(m <= m - 1)
      BY <2>4
    <3>2. m - 1 \notin T
      BY <2>2, <3>1, Zenon
    <3> HIDE DEF Begins
    <3> QED
      BY <2>4, <3>2
  <2>6. f[m] = f[m - 1] \o seqs[m]
    <3>1. f[(m - 1) + 1] = f[m - 1] \o seqs[(m - 1) + 1]
      BY <1>1, <2>4
    <3> QED
      BY <2>4, <3>1
  <2> DEFINE a == f[m - 1]
             b == seqs[m]
             x == f[i]
  <2>7. a \in String /\ b \in String /\ x \in String
    BY <1>1, <2>4
  <2>8. Len(a \o b) = Len(a) + Len(b) /\ \A k \in 1..Len(a) : (a \o b)[k] = a[k]
    BY <2>7, CatFacts
  <2>9. Len(a) \in Nat /\ Len(b) \in Nat /\ Len(x) \in Nat /\ Len(x) <= Len(a)
        /\ \A k \in 1..Len(x) : a[k] = x[k]
    <3>1. Len(a) \in Nat /\ Len(b) \in Nat /\ Len(x) \in Nat
      BY <2>7, LenNat, Zenon
    <3>2. Len(x) <= Len(a) /\ \A k \in 1..Len(x) : a[k] = x[k]
      BY <2>5
    <3> QED
      BY <3>1, <3>2
  <2>10. Len(x) <= Len(a \o b) /\ \A k \in 1..Len(x) : (a \o b)[k] = x[k]
    <3> HIDE DEF a, b, x
    <3> QED
      BY <2>8, <2>9
  <2>11. Begins(m)
    BY <2>6, <2>10
  <2> QED
    BY <2>2, <2>11
<1>3. j \in i..l
  BY <1>1 DEF l
<1>4. Begins(j)
  BY <1>2, <1>3
<1> QED
  BY <1>4 DEF f

(* Piece i stands behind the first From(seqs, i) characters.               *)
From(seqs, i) == IF i = 1 THEN 0 ELSE Len(UpTo(seqs)[i - 1])

LaidOut(seqs) ==
  /\ FlattenSeq(seqs) \in String
  /\ \A i \in 1..(Len(seqs) + 1) : From(seqs, i) \in 0..Len(FlattenSeq(seqs))
  /\ From(seqs, 1) = 0 /\ From(seqs, Len(seqs) + 1) = Len(FlattenSeq(seqs))
  /\ \A i \in 1..Len(seqs) : From(seqs, i + 1) = From(seqs, i) + Len(seqs[i])
  /\ \A i \in 1..Len(seqs) : \A k \in 1..Len(seqs[i]) :
       FlattenSeq(seqs)[From(seqs, i) + k] = seqs[i][k]

(* FlattenSeq lays its pieces out one behind the other.                    *)
LEMMA FlattenLaysOut ==
  ASSUME NEW seqs \in Seq(String)
  PROVE  LaidOut(seqs)
<1>1. CASE seqs = <<>>
  <2>1. FlattenSeq(seqs) = <<>> /\ Len(seqs) = 0 /\ <<>> \in String /\ Len(<<>>) = 0
    BY <1>1 DEF FlattenSeq, String
  <2>2. From(seqs, 1) = 0 /\ Len(seqs) + 1 = 1
    BY <2>1 DEF From
  <2> QED
    BY <2>1, <2>2 DEF LaidOut
<1>2. CASE seqs # <<>>
  <2> DEFINE l == Len(seqs)
             f == UpTo(seqs)
             w == FlattenSeq(seqs)
  <2>1. /\ l \in Nat \ {0} /\ seqs \in [1..l -> String] /\ f \in [1..l -> String]
        /\ f[1] = seqs[1] /\ w = f[l]
        /\ \A m \in 1..(l - 1) : f[m + 1] = f[m] \o seqs[m + 1]
    BY <1>2, UpToFacts
  <2>2. ASSUME NEW i \in 1..l
        PROVE  /\ Len(f[i]) \in 0..Len(w) /\ Len(w) \in Nat
               /\ \A k \in 1..Len(f[i]) : w[k] = f[i][k]
    <3>1. l \in 1..l /\ i <= l
      BY <2>1
    <3>2. Len(f[i]) <= Len(f[l]) /\ \A k \in 1..Len(f[i]) : f[l][k] = f[i][k]
      BY <1>2, <3>1, UpToIsPrefix
    <3>3. f[i] \in String /\ f[l] \in String
      BY <2>1, <3>1
    <3>4. Len(f[i]) \in Nat /\ Len(f[l]) \in Nat
      BY <3>3, LenNat
    <3> HIDE DEF f, l, w
    <3> QED
      BY <2>1, <3>2, <3>4
  <2>3. w \in String /\ l \in 1..l
    BY <2>1
  <2>4. ASSUME NEW i \in 1..l
        PROVE  /\ From(seqs, i + 1) = Len(f[i])
               /\ From(seqs, i) \in Nat
               /\ From(seqs, i + 1) = From(seqs, i) + Len(seqs[i])
               /\ \A k \in 1..Len(seqs[i]) : f[i][From(seqs, i) + k] = seqs[i][k]
    <3>1. i + 1 # 1 /\ (i + 1) - 1 = i
      BY <2>1
    <3>2. From(seqs, i + 1) = Len(f[i])
      BY <3>1 DEF From
    <3>3. Len(seqs[i]) \in Nat
      BY <2>1, LenNat
    <3>4. CASE i = 1
      <4>1. From(seqs, i) = 0 /\ f[i] = seqs[i]
        BY <2>1, <3>4 DEF From
      <4>2. \A k \in 1..Len(seqs[i]) : 0 + k = k
        OBVIOUS
      <4> QED
        BY <3>2, <3>3, <4>1, <4>2
    <3>5. CASE i # 1
      <4>1. i - 1 \in 1..(l - 1) /\ (i - 1) + 1 = i /\ i - 1 \in 1..l
        BY <2>1, <3>5
      <4>2. f[i] = f[i - 1] \o seqs[i]
        <5>1. f[(i - 1) + 1] = f[i - 1] \o seqs[(i - 1) + 1]
          BY <2>1, <4>1
        <5> QED
          BY <4>1, <5>1
      <4>3. From(seqs, i) = Len(f[i - 1])
        BY <3>5 DEF From
      <4>4. f[i - 1] \in String /\ seqs[i] \in String
        BY <2>1, <4>1
      <4>5. Len(f[i]) = Len(f[i - 1]) + Len(seqs[i]) /\ Len(f[i - 1]) \in Nat
            /\ \A k \in 1..Len(seqs[i]) : f[i][Len(f[i - 1]) + k] = seqs[i][k]
        <5> DEFINE a == f[i - 1]
                   b == seqs[i]
        <5>1. Len(a \o b) = Len(a) + Len(b) /\ \A k \in 1..Len(b) : (a \o b)[Len(a) + k] = b[k]
          BY <4>4, CatFacts
        <5>2. Len(a) \in Nat
          BY <4>4, LenNat
        <5> QED
          BY <4>2, <5>1, <5>2, Zenon
      <4> QED
        BY <3>2, <4>3, <4>5
    <3> QED
      BY <3>4, <3>5
  <2>5. From(seqs, 1) = 0
    BY DEF From
  <2> HIDE DEF f, l, w
  <2>6. ASSUME NEW i \in 1..(l + 1)
        PROVE  From(seqs, i) \in 0..Len(w)
    <3>1. CASE i = 1
      <4>1. Len(w) \in Nat
        BY <2>3, LenNat
      <4> QED
        BY <2>5, <3>1, <4>1
    <3>2. CASE i # 1
      <4>1. i - 1 \in 1..l /\ (i - 1) + 1 = i
        BY <2>1, <3>2
      <4>2. From(seqs, (i - 1) + 1) = Len(f[i - 1]) /\ Len(f[i - 1]) \in 0..Len(w)
        BY <2>2, <2>4, <4>1
      <4> QED
        BY <4>1, <4>2
    <3> QED
      BY <3>1, <3>2
  <2>7. From(seqs, l + 1) = Len(w)
    BY <2>1, <2>3, <2>4
  <2>8. ASSUME NEW i \in 1..l, NEW k \in 1..Len(seqs[i])
        PROVE  w[From(seqs, i) + k] = seqs[i][k]
    <3>1. Len(seqs[i]) \in Nat
      BY <2>1, LenNat
    <3>2. From(seqs, i) + k \in 1..Len(f[i])
      BY <2>4, <3>1
    <3>3. w[From(seqs, i) + k] = f[i][From(seqs, i) + k]
      BY <2>2, <3>2
    <3> QED
      BY <2>4, <3>3
  <2>9. \A i \in 1..l : From(seqs, i + 1) = From(seqs, i) + Len(seqs[i])
    BY <2>4
  <2> QED
    BY <2>3, <2>5, <2>6, <2>7, <2>8, <2>9 DEF LaidOut, l, w
<1> QED
  BY <1>1, <1>2

(* Pieces of one character follow each other.                              *)
LEMMA SingleCharacters ==
  ASSUME NEW seqs \in Seq(String), NEW x \in 1..Len(seqs), NEW y \in x..Len(seqs),
         \A i \in x..y : Len(seqs[i]) = 1,
         NEW i \in x..(y + 1)
  PROVE  From(seqs, i) = From(seqs, x) + (i - x)
<1> DEFINE T == {m \in x..(y + 1) : From(seqs, m) # From(seqs, x) + (m - x)}
<1>1. /\ Len(seqs) \in Nat /\ From(seqs, x) \in Nat
      /\ \A m \in 1..Len(seqs) : From(seqs, m + 1) = From(seqs, m) + Len(seqs[m])
  <2>1. Len(seqs) \in Nat
    OBVIOUS
  <2>2. x \in 1..(Len(seqs) + 1) /\ Len(FlattenSeq(seqs)) \in Nat
    BY <2>1, FlattenLaysOut, LenNat DEF LaidOut
  <2>3. LaidOut(seqs)
    BY FlattenLaysOut
  <2>4. From(seqs, x) \in 0..Len(FlattenSeq(seqs))
    BY <2>2, <2>3 DEF LaidOut
  <2>5. \A m \in 1..Len(seqs) : From(seqs, m + 1) = From(seqs, m) + Len(seqs[m])
    BY <2>3 DEF LaidOut
  <2> QED
    BY <2>1, <2>2, <2>4, <2>5
<1>2. ASSUME T # {}
      PROVE  FALSE
  <2>1. T \in SUBSET Nat
    BY <1>1
  <2>2. PICK m \in T : \A k \in T : m <= k
    BY <1>2, <2>1, LeastNatural
  <2>3. m \in x..(y + 1) /\ m # x
    BY <1>1, <2>2
  <2>4. m - 1 \in x..(y + 1) /\ m - 1 \in x..y /\ m - 1 \in 1..Len(seqs) /\ (m - 1) + 1 = m /\ ~(m <= m - 1)
    BY <1>1, <2>3
  <2>5. From(seqs, m - 1) = From(seqs, x) + ((m - 1) - x)
    BY <2>2, <2>4
  <2>6. From(seqs, m) = From(seqs, m - 1) + 1
    BY <1>1, <2>4
  <2> QED
    BY <1>1, <2>2, <2>3, <2>5, <2>6
<1> QED
  BY <1>2

-----------------------------------------------------------------------------
(* A body as escaped() prints it.                                          *)

Piece(v, i) ==
  IF i > 1 /\ v[i - 1] = Newline
  THEN IF v[i] = Newline THEN <<Blank, Dot, v[i]>>
       ELSE IF v[i] # Blank THEN <<Blank, v[i]>> ELSE <<v[i]>>
  ELSE <<v[i]>>
Pieces(v) == [i \in DOMAIN v |-> Piece(v, i)]

(* Before character i of v, so many are printed.                           *)
Before(v, i) == From(Pieces(v), i)

(* A piece is one character, or that character behind a blank, or " ." and *)
(* a newline.                                                              *)
LEMMA PieceIs ==
  ASSUME NEW v \in String, NEW i \in 1..Len(v)
  PROVE  /\ Pieces(v)[i] = Piece(v, i) /\ Piece(v, i) \in String
         /\ ~(i > 1 /\ v[i - 1] = Newline) => Piece(v, i) = <<v[i]>> /\ Len(Piece(v, i)) = 1
<1>1. v[i] \in Chars /\ i \in DOMAIN v
  BY DEF String
<1>2. Blank \in Chars /\ Dot \in Chars
  BY DEF Chars
<1>3. Pieces(v)[i] = Piece(v, i)
  BY <1>1 DEF Pieces
<1>4. Piece(v, i) \in String
  BY <1>1, <1>2 DEF Piece, String
<1>5. ~(i > 1 /\ v[i - 1] = Newline) => Piece(v, i) = <<v[i]>>
  BY DEF Piece
<1> QED
  BY <1>3, <1>4, <1>5

(* The pieces of a body are strings.                                       *)
LEMMA PiecesFacts ==
  ASSUME NEW v \in String
  PROVE  Pieces(v) \in Seq(String) /\ Len(Pieces(v)) = Len(v) /\ Len(v) \in Nat
<1>1. Len(v) \in Nat /\ DOMAIN v = 1..Len(v)
  BY DEF String
<1> DEFINE l == Len(v)
           p == Pieces(v)
<1>2. p \in [1..l -> String]
  <2>1. p = [i \in 1..l |-> Piece(v, i)]
    BY <1>1 DEF Pieces
  <2>2. \A i \in 1..l : Piece(v, i) \in String
    BY PieceIs
  <2> QED
    BY <2>1, <2>2
<1> HIDE DEF p, l
<1>3. p \in Seq(String) /\ Len(p) = l
  BY <1>1, <1>2 DEF l
<1> QED
  BY <1>1, <1>3 DEF p, l

(* escaped prints the pieces of a body one behind the other.               *)
LEMMA EscapedFacts ==
  ASSUME NEW v \in String
  PROVE  /\ escaped(v) \in String /\ Len(escaped(v)) \in Nat /\ Len(v) \in Nat
         /\ \A i \in 1..(Len(v) + 1) : Before(v, i) \in 0..Len(escaped(v))
         /\ Before(v, 1) = 0 /\ Before(v, Len(v) + 1) = Len(escaped(v))
         /\ \A i \in 1..Len(v) :
              /\ Before(v, i + 1) = Before(v, i) + Len(Piece(v, i))
              /\ \A k \in 1..Len(Piece(v, i)) : escaped(v)[Before(v, i) + k] = Piece(v, i)[k]
<1> DEFINE p == Pieces(v)
           w == escaped(v)
<1>1. w = FlattenSeq(p)
  BY DEF escaped, Pieces, Piece
<1>2. p \in Seq(String) /\ Len(p) = Len(v) /\ Len(v) \in Nat
  BY PiecesFacts
<1>3. LaidOut(p)
  BY <1>2, FlattenLaysOut
<1>4. \A i \in 1..Len(v) : p[i] = Piece(v, i)
  BY PieceIs
<1> HIDE DEF p, w
<1>5. w \in String /\ Len(w) \in Nat
  BY <1>1, <1>3, LenNat DEF LaidOut
<1>6. /\ \A i \in 1..(Len(v) + 1) : From(p, i) \in 0..Len(w)
      /\ From(p, 1) = 0 /\ From(p, Len(v) + 1) = Len(w)
      /\ \A i \in 1..Len(v) :
              /\ From(p, i + 1) = From(p, i) + Len(Piece(v, i))
              /\ \A k \in 1..Len(Piece(v, i)) : w[From(p, i) + k] = Piece(v, i)[k]
  BY <1>1, <1>2, <1>3, <1>4 DEF LaidOut
<1>7. \A i : Before(v, i) = From(p, i)
  BY DEF Before, p
<1> QED
  BY <1>2, <1>5, <1>6, <1>7 DEF w

(* The line that begins with character x of v goes up to character y.      *)
LineOf(v, x, y) ==
  /\ y \in (x - 1)..Len(v)
  /\ \A i \in x..y : v[i] # Newline
  /\ y < Len(v) => v[y + 1] = Newline

(* Every line has an end.                                                  *)
LEMMA LineExists ==
  ASSUME NEW v \in String, NEW x \in 1..(Len(v) + 1)
  PROVE  \E y \in (x - 1)..Len(v) : LineOf(v, x, y)
<1>1. Len(v) \in Nat
  BY LenNat
<1> DEFINE T == {m \in (x - 1)..Len(v) : m = Len(v) \/ v[m + 1] = Newline}
<1>2. T \in SUBSET Nat /\ Len(v) \in T
  BY <1>1
<1>3. PICK y \in T : \A m \in T : y <= m
  BY <1>2, LeastNatural, Zenon
<1>4. ASSUME NEW i \in x..y
      PROVE  v[i] # Newline
  <2>1. i - 1 \in (x - 1)..Len(v) /\ (i - 1) + 1 = i /\ ~(y <= i - 1)
    BY <1>1, <1>3
  <2>2. i - 1 \notin T
    BY <1>3, <2>1, Zenon
  <2> QED
    BY <2>1, <2>2
<1>5. y < Len(v) => v[y + 1] = Newline
  BY <1>1, <1>3
<1> QED
  BY <1>3, <1>4, <1>5 DEF LineOf

(* The line behind its first character is printed as it is, and a newline  *)
(* follows.                                                                *)
LEMMA LinePrinted ==
  ASSUME NEW v \in String, NEW x \in 1..Len(v), NEW y \in x..Len(v), LineOf(v, x, y)
  PROVE  /\ \A k \in 1..(y - x) : escaped(v)[Before(v, x + 1) + k] = v[x + k]
         /\ Before(v, y + 1) = Before(v, x + 1) + (y - x)
         /\ y < Len(v) => /\ escaped(v)[Before(v, y + 1) + 1] = Newline
                          /\ Before(v, y + 2) = Before(v, y + 1) + 1
<1> DEFINE w == escaped(v)
<1>1. /\ Len(v) \in Nat
      /\ \A i \in 1..(Len(v) + 1) : Before(v, i) \in Nat
      /\ \A i \in 1..Len(v) :
           /\ Before(v, i + 1) = Before(v, i) + Len(Piece(v, i))
           /\ \A k \in 1..Len(Piece(v, i)) : w[Before(v, i) + k] = Piece(v, i)[k]
  <2>1. \A i \in 1..(Len(v) + 1) : Before(v, i) \in 0..Len(escaped(v))
    BY EscapedFacts
  <2>2. \A i \in 1..(Len(v) + 1) : Before(v, i) \in Nat
    <3>1. Len(escaped(v)) \in Nat
      BY EscapedFacts
    <3> QED
      BY <2>1, <3>1
  <2> QED
    BY <2>2, EscapedFacts, Zenon
<1>2. /\ \A i \in x..y : v[i] # Newline
      /\ y < Len(v) => v[y + 1] = Newline
  BY DEF LineOf
<1> HIDE DEF w
<1>3. ASSUME NEW i \in (x + 1)..y
      PROVE  Len(Piece(v, i)) = 1 /\ Piece(v, i) = <<v[i]>>
  <2>1. i \in 1..Len(v) /\ i - 1 \in x..y
    BY <1>1
  <2> QED
    BY <1>2, <2>1, PieceIs
<1>4. ASSUME NEW i \in (x + 1)..(y + 1)
      PROVE  Before(v, i) = Before(v, x + 1) + (i - (x + 1))
  <2>1. CASE x = y
    BY <1>1, <2>1
  <2>2. CASE x # y
    <3> DEFINE p == Pieces(v)
    <3>1. p \in Seq(String) /\ Len(p) = Len(v)
      BY PiecesFacts
    <3>2. \A k \in (x + 1)..y : Len(p[k]) = 1
      <4>1. \A k \in (x + 1)..y : k \in 1..Len(v)
        BY <1>1
      <4> QED
        BY <1>3, <4>1, PieceIs
    <3>3. x + 1 \in 1..Len(v) /\ y \in (x + 1)..Len(v)
      BY <1>1, <2>2
    <3> HIDE DEF p
    <3>4. From(p, i) = From(p, x + 1) + (i - (x + 1))
      BY <3>1, <3>2, <3>3, SingleCharacters
    <3> QED
      BY <3>4 DEF Before, p
  <2> QED
    BY <2>1, <2>2
<1>5. ASSUME NEW k \in 1..(y - x)
      PROVE  w[Before(v, x + 1) + k] = v[x + k]
  <2>1. x + k \in (x + 1)..y /\ x + k \in (x + 1)..(y + 1) /\ x + k \in 1..Len(v) /\ 1 \in 1..1
    BY <1>1
  <2>2. Before(v, x + k) = Before(v, x + 1) + ((x + k) - (x + 1))
    BY <1>4, <2>1
  <2>3. w[Before(v, x + k) + 1] = v[x + k]
    <3>1. Len(Piece(v, x + k)) = 1 /\ Piece(v, x + k) = <<v[x + k]>>
      BY <1>3, <2>1
    <3>2. \A m \in 1..1 : w[Before(v, x + k) + m] = (<<v[x + k]>>)[m]
      BY <1>1, <2>1, <3>1
    <3> QED
      BY <2>1, <3>2
  <2>4. Before(v, x + 1) \in Nat
    BY <1>1
  <2>5. Before(v, x + k) + 1 = Before(v, x + 1) + k
    BY <2>2, <2>4
  <2> QED
    BY <2>3, <2>5
<1>6. Before(v, y + 1) = Before(v, x + 1) + (y - x)
  <2>1. y + 1 \in (x + 1)..(y + 1) /\ (y + 1) - (x + 1) = y - x
    BY <1>1
  <2> QED
    BY <1>4, <2>1
<1>7. ASSUME y < Len(v)
      PROVE  w[Before(v, y + 1) + 1] = Newline /\ Before(v, y + 2) = Before(v, y + 1) + 1
  <2>1. y + 1 \in 1..Len(v) /\ (y + 1) - 1 = y /\ y \in x..y /\ 1 \in 1..1 /\ (y + 1) + 1 = y + 2
    BY <1>1, <1>7
  <2>2. Len(Piece(v, y + 1)) = 1 /\ Piece(v, y + 1) = <<Newline>>
    <3>1. v[y] # Newline /\ v[y + 1] = Newline
      BY <1>2, <1>7, <2>1
    <3> QED
      BY <2>1, <3>1, PieceIs
  <2>3. /\ Before(v, (y + 1) + 1) = Before(v, y + 1) + Len(Piece(v, y + 1))
        /\ \A k \in 1..Len(Piece(v, y + 1)) : w[Before(v, y + 1) + k] = Piece(v, y + 1)[k]
    BY <1>1, <2>1
  <2> QED
    BY <2>1, <2>2, <2>3
<1> QED
  BY <1>5, <1>6, <1>7 DEF w

-----------------------------------------------------------------------------
(* Canonical bodies.                                                       *)

(* Every line has a beginning.                                             *)
LEMMA StartExists ==
  ASSUME NEW v \in String, NEW y \in 0..Len(v)
  PROVE  \E x \in 1..(y + 1) : (x = 1 \/ v[x - 1] = Newline) /\ \A i \in x..y : v[i] # Newline
<1>1. Len(v) \in Nat /\ y \in Nat
  BY LenNat
<1> DEFINE T == {m \in 0..y : y - m = 0 \/ v[y - m] = Newline}
<1>2. T \in SUBSET Nat /\ y \in T
  BY <1>1
<1>3. PICK m \in T : \A k \in T : m <= k
  BY <1>2, LeastNatural, Zenon
<1> DEFINE x == y - m + 1
<1>4. x \in 1..(y + 1) /\ x - 1 = y - m /\ m \in 0..y
  BY <1>1, <1>3
<1>5. x = 1 \/ v[x - 1] = Newline
  BY <1>1, <1>3, <1>4
<1>6. ASSUME NEW i \in x..y
      PROVE  v[i] # Newline
  <2>1. y - i \in 0..y /\ y - (y - i) = i /\ ~(m <= y - i)
    BY <1>1, <1>4
  <2>2. y - i \notin T
    BY <1>3, <2>1, Zenon
  <2> QED
    BY <2>1, <2>2
<1> QED
  BY <1>4, <1>5, <1>6

(* Characters p + 1 to q - 1 of b are a line.                              *)
IsLine(b, p, q) ==
  /\ p \in 0..Len(b) /\ q \in (p + 1)..(Len(b) + 1)
  /\ p = 0 \/ b[p] = Newline
  /\ q = Len(b) + 1 \/ b[q] = Newline
  /\ \A i \in (p + 1)..(q - 1) : b[i] # Newline

(* The bounds between which lines lie.                                     *)
LEMMA BoundsAre ==
  ASSUME NEW b \in String
  PROVE  \A r : r \in LineBounds(b) <=> r \in 0..(Len(b) + 1) /\ (r = 0 \/ r = Len(b) + 1 \/ b[r] = Newline)
<1>1. Len(b) \in Nat /\ DOMAIN b = 1..Len(b)
  BY DEF String
<1> QED
  BY <1>1 DEF LineBounds

(* What lies between two neighbouring bounds is one of Lines.              *)
LEMMA IsLineInLines ==
  ASSUME NEW b \in String, NEW p, NEW q, IsLine(b, p, q)
  PROVE  SubSeq(b, p + 1, q - 1) \in Lines(b)
<1>1. /\ p \in 0..Len(b) /\ q \in (p + 1)..(Len(b) + 1) /\ Len(b) \in Nat
      /\ p = 0 \/ b[p] = Newline
      /\ q = Len(b) + 1 \/ b[q] = Newline
      /\ \A i \in (p + 1)..(q - 1) : b[i] # Newline
  BY LenNat DEF IsLine
<1>2. p \in LineBounds(b) /\ q \in LineBounds(b) /\ p < q
  BY <1>1, BoundsAre
<1>3. ASSUME NEW r \in LineBounds(b)
      PROVE  ~(p < r /\ r < q)
  <2>1. r \in 0..(Len(b) + 1) /\ (r = 0 \/ r = Len(b) + 1 \/ b[r] = Newline)
    BY BoundsAre
  <2>2. ASSUME p < r, r < q
        PROVE  FALSE
    <3>1. r \in (p + 1)..(q - 1) /\ r # 0 /\ r # Len(b) + 1
      BY <1>1, <2>1, <2>2
    <3> QED
      BY <1>1, <2>1, <3>1
  <2> QED
    BY <2>2
<1> DEFINE t == <<p, q>>
<1>4. t \in LineBounds(b) \X LineBounds(b) /\ t[1] = p /\ t[2] = q
  BY <1>2
<1>5. t \in {s \in LineBounds(b) \X LineBounds(b) :
               s[1] < s[2] /\ \A r \in LineBounds(b) : ~(s[1] < r /\ r < s[2])}
  BY <1>2, <1>3, <1>4
<1> HIDE DEF t
<1>6. SubSeq(b, t[1] + 1, t[2] - 1) \in Lines(b)
  BY <1>5, Zenon DEF Lines
<1> QED
  BY <1>4, <1>6

(* And nothing else is.                                                    *)
LEMMA LinesAreLines ==
  ASSUME NEW b \in String, NEW l \in Lines(b)
  PROVE  \E p, q : IsLine(b, p, q) /\ l = SubSeq(b, p + 1, q - 1)
<1> DEFINE Pairs == {s \in LineBounds(b) \X LineBounds(b) :
                       s[1] < s[2] /\ \A r \in LineBounds(b) : ~(s[1] < r /\ r < s[2])}
<1>1. PICK s \in Pairs : l = SubSeq(b, s[1] + 1, s[2] - 1)
  BY Zenon DEF Lines
<1> DEFINE p == s[1]
           q == s[2]
<1>2. p \in LineBounds(b) /\ q \in LineBounds(b) /\ p < q /\ \A r \in LineBounds(b) : ~(p < r /\ r < q)
  OBVIOUS
<1> HIDE DEF p, q
<1>3. Len(b) \in Nat
  BY LenNat
<1>4. /\ p \in 0..Len(b) /\ q \in (p + 1)..(Len(b) + 1)
      /\ p = 0 \/ b[p] = Newline
      /\ q = Len(b) + 1 \/ b[q] = Newline
  BY <1>2, <1>3, BoundsAre
<1>5. ASSUME NEW i \in (p + 1)..(q - 1)
      PROVE  b[i] # Newline
  <2>1. i \in 0..(Len(b) + 1) /\ p < i /\ i < q
    BY <1>3, <1>4
  <2>2. i \notin LineBounds(b)
    BY <1>2, <2>1
  <2> QED
    BY <2>1, <2>2, BoundsAre
<1>6. IsLine(b, p, q)
  BY <1>4, <1>5 DEF IsLine
<1>7. l = SubSeq(b, p + 1, q - 1)
  BY <1>1 DEF p, q
<1> QED
  BY <1>6, <1>7

(* A blank is inside its line, and a dot at the beginning of a line that   *)
(* is not the first is not alone.                                          *)
Neat(b) ==
  /\ \A i \in 1..Len(b) :
       b[i] = Blank => i > 1 /\ i < Len(b) /\ b[i - 1] # Newline /\ b[i + 1] # Newline
  /\ \A i \in 2..Len(b) :
       b[i - 1] = Newline /\ b[i] = Dot => i < Len(b) /\ b[i + 1] # Newline

FirstBreak(b) == CHOOSE i \in {i \in DOMAIN b : b[i] = Newline} :
                   \A j \in {k \in DOMAIN b : b[k] = Newline} : i <= j
Later(b) == SubSeq(b, 1 + FirstBreak(b), Len(b))

(* Behind its first newline, the characters of a body are its later lines. *)
LEMMA LaterFacts ==
  ASSUME NEW b \in String, NEW i \in 1..Len(b), b[i] = Newline
  PROVE  /\ LaterLines(b) = Lines(Later(b))
         /\ FirstBreak(b) \in 1..Len(b) /\ b[FirstBreak(b)] = Newline /\ FirstBreak(b) <= i
         /\ Later(b) \in String /\ Len(Later(b)) = Len(b) - FirstBreak(b)
         /\ \A k \in 1..(Len(b) - FirstBreak(b)) : Later(b)[k] = b[FirstBreak(b) + k]
<1> DEFINE T == {k \in DOMAIN b : b[k] = Newline}
           f == FirstBreak(b)
<1>1. Len(b) \in Nat /\ DOMAIN b = 1..Len(b) /\ T \in SUBSET Nat /\ i \in T
  BY DEF String
<1>2. \E k \in T : \A m \in T : k <= m
  <2> HIDE DEF T
  <2> QED
    BY <1>1, LeastNatural
<1>3. f \in T /\ \A m \in T : f <= m
  BY <1>2 DEF FirstBreak
<1>4. f \in 1..Len(b) /\ b[f] = Newline /\ f <= i
  BY <1>1, <1>3
<1>5. LaterLines(b) = Lines(Later(b))
  <2>1. T # {}
    BY <1>1
  <2> QED
    BY <2>1 DEF LaterLines, Later, FirstBreak
<1>6. 1 + f \in 1..(Len(b) + 1) /\ Len(b) \in 0..Len(b)
  BY <1>1, <1>4
<1> HIDE DEF f, T
<1>7. /\ Later(b) \in String
      /\ Len(Later(b)) = (IF 1 + f <= Len(b) THEN Len(b) - (1 + f) + 1 ELSE 0)
      /\ \A k \in 1..Len(Later(b)) : Later(b)[k] = b[1 + f + k - 1]
  BY <1>6, PieceFacts DEF Later, f
<1>8. Len(Later(b)) = Len(b) - f
  <2>1. CASE 1 + f <= Len(b)
    <3>1. Len(Later(b)) = Len(b) - (1 + f) + 1
      BY <1>7, <2>1
    <3>2. Len(b) \in Nat /\ f \in Nat
      BY <1>1, <1>4
    <3>3. Len(b) - (1 + f) + 1 = Len(b) - f
      BY <3>2
    <3> QED
      BY <3>1, <3>3
  <2>2. CASE ~(1 + f <= Len(b))
    <3>1. Len(Later(b)) = 0
      BY <1>7, <2>2
    <3>2. Len(b) \in Nat /\ f \in 1..Len(b)
      BY <1>1, <1>4
    <3>3. Len(b) - f = 0
      BY <2>2, <3>2
    <3> QED
      BY <3>1, <3>3
  <2> QED
    BY <2>1, <2>2
<1>9. \A k \in 1..(Len(b) - f) : Later(b)[k] = b[f + k]
  <2>1. \A k \in 1..(Len(b) - f) : 1 + f + k - 1 = f + k
    BY <1>1, <1>4
  <2> QED
    BY <1>7, <1>8, <2>1
<1> QED
  BY <1>4, <1>5, <1>7, <1>8, <1>9 DEF f

(* The characters of a line.                                               *)
LEMMA LineFacts ==
  ASSUME NEW b \in String, NEW p, NEW q, IsLine(b, p, q)
  PROVE  /\ Len(b) \in Nat /\ p \in 0..Len(b) /\ q \in (p + 1)..(Len(b) + 1)
         /\ SubSeq(b, p + 1, q - 1) \in String
         /\ Len(SubSeq(b, p + 1, q - 1)) = q - p - 1
         /\ \A k \in 1..(q - p - 1) : SubSeq(b, p + 1, q - 1)[k] = b[p + k]
<1>1. Len(b) \in Nat /\ p \in 0..Len(b) /\ q \in (p + 1)..(Len(b) + 1)
  BY LenNat DEF IsLine
<1>2. p + 1 \in 1..(Len(b) + 1) /\ q - 1 \in 0..Len(b)
  BY <1>1
<1> DEFINE l == SubSeq(b, p + 1, q - 1)
<1>3. /\ l \in String
      /\ Len(l) = (IF p + 1 <= q - 1 THEN (q - 1) - (p + 1) + 1 ELSE 0)
      /\ \A k \in 1..Len(l) : l[k] = b[(p + 1) + k - 1]
  BY <1>2, PieceFacts
<1> HIDE DEF l
<1>4. Len(l) = q - p - 1
  BY <1>1, <1>3
<1>5. \A k \in 1..(q - p - 1) : l[k] = b[p + k]
  <2>1. \A k \in 1..(q - p - 1) : (p + 1) + k - 1 = p + k
    BY <1>1
  <2> QED
    BY <1>3, <1>4, <2>1
<1> QED
  BY <1>1, <1>3, <1>4, <1>5 DEF l

(* A canonical body is neat: a misplaced blank or dot would be in one of   *)
(* its lines.                                                              *)
LEMMA CanonicalIsNeat ==
  ASSUME NEW b \in String, Canonical(b)
  PROVE  Neat(b)
<1>1. Len(b) \in Nat
  BY LenNat
<1>2. \A l \in Lines(b) : l = <<>> \/ (l[1] # Blank /\ l[Len(l)] # Blank)
  BY DEF Canonical
<1>3. \A p, q : IsLine(b, p, q) /\ q > p + 1 => b[p + 1] # Blank /\ b[q - 1] # Blank
  <2> SUFFICES ASSUME NEW p, NEW q, IsLine(b, p, q), q > p + 1
               PROVE  b[p + 1] # Blank /\ b[q - 1] # Blank
    OBVIOUS
  <2> DEFINE l == SubSeq(b, p + 1, q - 1)
  <2>1. /\ p \in 0..Len(b) /\ q \in (p + 1)..(Len(b) + 1) /\ l \in String /\ Len(l) = q - p - 1
        /\ \A k \in 1..(q - p - 1) : l[k] = b[p + k]
    BY LineFacts
  <2>2. l \in Lines(b)
    BY IsLineInLines
  <2> HIDE DEF l
  <2>3. 1 \in 1..(q - p - 1) /\ q - p - 1 \in 1..(q - p - 1) /\ p + (q - p - 1) = q - 1
    BY <1>1, <2>1
  <2>4. l # <<>>
    BY <1>1, <2>1, <2>3
  <2>5. l[1] = b[p + 1] /\ l[Len(l)] = b[q - 1]
    BY <2>1, <2>3
  <2> QED
    BY <1>2, <2>2, <2>4, <2>5
<1>4. ASSUME NEW i \in 1..Len(b), b[i] = Blank
      PROVE  i > 1 /\ i < Len(b) /\ b[i - 1] # Newline /\ b[i + 1] # Newline
  <2>1. b[i] # Newline
    BY <1>4 DEF Blank, Newline
  <2>2. ASSUME i = 1 \/ b[i - 1] = Newline
        PROVE  FALSE
    <3>1. i \in 1..(Len(b) + 1)
      BY <1>1
    <3>2. PICK y \in (i - 1)..Len(b) : LineOf(b, i, y)
      BY <3>1, LineExists
    <3>3. y \in (i - 1)..Len(b) /\ (\A k \in i..y : b[k] # Newline) /\ (y < Len(b) => b[y + 1] = Newline)
      BY <3>2 DEF LineOf
    <3>4. y # i - 1
      BY <1>1, <2>1, <3>3
    <3>5. i - 1 \in 0..Len(b) /\ (i - 1) + 1 = i /\ (y + 1) - 1 = y /\ y + 1 \in i..(Len(b) + 1) /\ y + 1 > i
      BY <1>1, <3>3, <3>4
    <3>6. IsLine(b, i - 1, y + 1)
      <4>1. i - 1 = 0 \/ b[i - 1] = Newline
        BY <2>2
      <4>2. y + 1 = Len(b) + 1 \/ b[y + 1] = Newline
        BY <1>1, <3>3, <3>5
      <4>3. \A k \in ((i - 1) + 1)..((y + 1) - 1) : b[k] # Newline
        BY <3>3, <3>5
      <4> QED
        BY <3>5, <4>1, <4>2, <4>3 DEF IsLine
    <3>7. b[(i - 1) + 1] # Blank
      BY <1>3, <3>5, <3>6
    <3> QED
      BY <1>4, <3>5, <3>7
  <2>3. ASSUME i = Len(b) \/ b[i + 1] = Newline
        PROVE  FALSE
    <3>1. i \in 0..Len(b)
      BY <1>1
    <3>2. PICK x \in 1..(i + 1) : (x = 1 \/ b[x - 1] = Newline) /\ \A k \in x..i : b[k] # Newline
      BY <3>1, StartExists
    <3>3. x # i + 1
      <4>1. (i + 1) # 1 /\ (i + 1) - 1 = i
        BY <1>1
      <4> QED
        BY <2>1, <3>2, <4>1
    <3>4. x - 1 \in 0..Len(b) /\ (x - 1) + 1 = x /\ (i + 1) - 1 = i /\ i + 1 \in x..(Len(b) + 1) /\ i + 1 > x
      BY <1>1, <3>2, <3>3
    <3>5. IsLine(b, x - 1, i + 1)
      <4>1. x - 1 = 0 \/ b[x - 1] = Newline
        BY <3>2, <3>4
      <4>2. i + 1 = Len(b) + 1 \/ b[i + 1] = Newline
        BY <2>3
      <4>3. \A k \in ((x - 1) + 1)..((i + 1) - 1) : b[k] # Newline
        BY <3>2, <3>4
      <4> QED
        BY <3>4, <4>1, <4>2, <4>3 DEF IsLine
    <3>6. b[(i + 1) - 1] # Blank
      BY <1>3, <3>4, <3>5
    <3> QED
      BY <1>4, <3>4, <3>6
  <2> QED
    BY <1>1, <2>2, <2>3
<1>5. ASSUME NEW i \in 2..Len(b), b[i - 1] = Newline, b[i] = Dot, i = Len(b) \/ b[i + 1] = Newline
      PROVE  FALSE
  <2> DEFINE f == FirstBreak(b)
             d == Later(b)
             p == i - 1 - f
             q == i + 1 - f
  <2>1. i - 1 \in 1..Len(b)
    BY <1>1
  <2>2. /\ LaterLines(b) = Lines(d)
        /\ f \in 1..Len(b) /\ b[f] = Newline /\ f <= i - 1
        /\ d \in String /\ Len(d) = Len(b) - f
        /\ \A k \in 1..(Len(b) - f) : d[k] = b[f + k]
    BY <1>5, <2>1, LaterFacts
  <2> HIDE DEF f, d
  <2>3. /\ p \in 0..Len(d) /\ q \in (p + 1)..(Len(d) + 1) /\ q - p - 1 = 1
        /\ p + 1 \in 1..(Len(b) - f) /\ f + (p + 1) = i
    BY <1>1, <2>2
  <2>4. p = 0 \/ d[p] = Newline
    <3>1. ASSUME p # 0
          PROVE  d[p] = Newline
      <4>1. p \in 1..(Len(b) - f) /\ f + p = i - 1
        BY <1>1, <2>2, <2>3, <3>1
      <4> QED
        BY <1>5, <2>2, <4>1
    <3> QED
      BY <3>1
  <2>5. q = Len(d) + 1 \/ d[q] = Newline
    <3>1. CASE i = Len(b)
      BY <1>1, <2>2, <3>1
    <3>2. CASE i # Len(b)
      <4>1. q \in 1..(Len(b) - f) /\ f + q = i + 1
        BY <1>1, <2>2, <3>2
      <4> QED
        BY <1>5, <2>2, <3>2, <4>1
    <3> QED
      BY <3>1, <3>2
  <2>6. d[p + 1] = Dot
    BY <1>5, <2>2, <2>3
  <2>7. \A k \in (p + 1)..(q - 1) : d[k] # Newline
    <3>1. \A k \in (p + 1)..(q - 1) : k = p + 1
      BY <1>1, <2>2, <2>3
    <3> QED
      BY <2>6, <3>1 DEF Dot, Newline
  <2> HIDE DEF p, q
  <2>8. IsLine(d, p, q)
    BY <2>3, <2>4, <2>5, <2>7 DEF IsLine
  <2> DEFINE l == SubSeq(d, p + 1, q - 1)
  <2>9. l \in Lines(d) /\ l \in String /\ Len(l) = q - p - 1 /\ \A k \in 1..(q - p - 1) : l[k] = d[p + k]
    BY <2>2, <2>8, LineFacts, IsLineInLines
  <2> HIDE DEF l
  <2>10. l = <<Dot>>
    <3>1. Len(l) = 1 /\ l[1] = Dot
      BY <2>3, <2>6, <2>9
    <3>2. <<Dot>> \in String /\ Len(<<Dot>>) = 1 /\ <<Dot>>[1] = Dot
      BY DEF String, Chars
    <3>3. \A k \in 1..1 : k = 1
      OBVIOUS
    <3> QED
      BY <2>9, <3>1, <3>2, <3>3, SameString
  <2> QED
    BY <2>2, <2>9, <2>10 DEF Canonical
<1>6. \A i \in 2..Len(b) : b[i - 1] = Newline /\ b[i] = Dot => i < Len(b) /\ b[i + 1] # Newline
  BY <1>1, <1>5
<1> QED
  BY <1>4, <1>6 DEF Neat

(* A neat body is canonical: every line is free of such blanks and dots.   *)
LEMMA NeatIsCanonical ==
  ASSUME NEW b \in String, Neat(b)
  PROVE  Canonical(b)
<1>1. /\ Len(b) \in Nat
      /\ \A i \in 1..Len(b) :
           b[i] = Blank => i > 1 /\ i < Len(b) /\ b[i - 1] # Newline /\ b[i + 1] # Newline
      /\ \A i \in 2..Len(b) :
           b[i - 1] = Newline /\ b[i] = Dot => i < Len(b) /\ b[i + 1] # Newline
  BY LenNat DEF Neat
<1>2. ASSUME NEW l \in Lines(b), l # <<>>
      PROVE  l[1] # Blank /\ l[Len(l)] # Blank
  <2>1. PICK p, q : IsLine(b, p, q) /\ l = SubSeq(b, p + 1, q - 1)
    BY LinesAreLines
  <2>2. /\ p \in 0..Len(b) /\ q \in (p + 1)..(Len(b) + 1) /\ l \in String /\ Len(l) = q - p - 1
        /\ \A k \in 1..(q - p - 1) : l[k] = b[p + k]
    BY <2>1, LineFacts
  <2>3. (p = 0 \/ b[p] = Newline) /\ (q = Len(b) + 1 \/ b[q] = Newline)
    BY <2>1 DEF IsLine
  <2>4. Len(l) # 0
    BY <1>2, <2>2 DEF String
  <2>5. /\ 1 \in 1..(q - p - 1) /\ q - p - 1 \in 1..(q - p - 1) /\ p + (q - p - 1) = q - 1
        /\ p + 1 \in 1..Len(b) /\ (p + 1) - 1 = p /\ q - 1 \in 1..Len(b) /\ (q - 1) + 1 = q
    BY <1>1, <2>2, <2>4
  <2>6. l[1] = b[p + 1] /\ l[Len(l)] = b[q - 1]
    BY <2>2, <2>5
  <2>7. b[p + 1] # Blank
    <3>1. ASSUME b[p + 1] = Blank
          PROVE  FALSE
      <4>1. p + 1 > 1 /\ b[(p + 1) - 1] # Newline
        BY <1>1, <2>5, <3>1
      <4> QED
        BY <2>2, <2>3, <2>5, <4>1
    <3> QED
      BY <3>1
  <2>8. b[q - 1] # Blank
    <3>1. ASSUME b[q - 1] = Blank
          PROVE  FALSE
      <4>1. q - 1 < Len(b) /\ b[(q - 1) + 1] # Newline
        BY <1>1, <2>5, <3>1
      <4> QED
        BY <1>1, <2>2, <2>3, <2>5, <4>1
    <3> QED
      BY <3>1
  <2> QED
    BY <2>6, <2>7, <2>8
<1>3. ASSUME <<Dot>> \in LaterLines(b)
      PROVE  FALSE
  <2>1. PICK i \in 1..Len(b) : b[i] = Newline
    <3>1. DOMAIN b = 1..Len(b)
      BY DEF String
    <3> QED
      BY <1>3, <3>1 DEF LaterLines
  <2> DEFINE f == FirstBreak(b)
             d == Later(b)
  <2>2. /\ LaterLines(b) = Lines(d)
        /\ f \in 1..Len(b) /\ b[f] = Newline
        /\ d \in String /\ Len(d) = Len(b) - f
        /\ \A k \in 1..(Len(b) - f) : d[k] = b[f + k]
    BY <2>1, LaterFacts
  <2> HIDE DEF f, d
  <2>3. PICK l \in Lines(d) : l = <<Dot>>
    BY <1>3, <2>2
  <2>4. Len(l) = 1 /\ l[1] = Dot
    BY <2>3
  <2>5. PICK p, q : IsLine(d, p, q) /\ l = SubSeq(d, p + 1, q - 1)
    BY <2>2, LinesAreLines
  <2>6. /\ Len(d) \in Nat /\ p \in 0..Len(d) /\ q \in (p + 1)..(Len(d) + 1) /\ Len(l) = q - p - 1
        /\ \A k \in 1..(q - p - 1) : l[k] = d[p + k]
    <3>1. d \in String /\ IsLine(d, p, q) /\ SubSeq(d, p + 1, q - 1) = l
      BY <2>2, <2>5
    <3> HIDE <2>2, <2>5
    <3>2. /\ Len(d) \in Nat /\ p \in 0..Len(d) /\ q \in (p + 1)..(Len(d) + 1)
          /\ Len(SubSeq(d, p + 1, q - 1)) = q - p - 1
          /\ \A k \in 1..(q - p - 1) : SubSeq(d, p + 1, q - 1)[k] = d[p + k]
      BY <3>1, LineFacts
    <3> QED
      BY <3>1, <3>2
  <2>7. (p = 0 \/ d[p] = Newline) /\ (q = Len(d) + 1 \/ d[q] = Newline)
    BY <2>5 DEF IsLine
  <2>8. q = p + 2 /\ 1 \in 1..(q - p - 1) /\ p + 1 \in 1..(Len(b) - f)
    <3>1. Len(b) \in Nat /\ f \in 1..Len(b) /\ Len(d) = Len(b) - f
      BY <1>1, <2>2
    <3>2. q - p - 1 = 1
      BY <2>4, <2>6
    <3>3. Len(d) \in Nat /\ p \in 0..Len(d) /\ q \in (p + 1)..(Len(d) + 1)
      BY <2>6
    <3>4. q = p + 2
      BY <3>2, <3>3
    <3> QED
      BY <3>1, <3>3, <3>4
  <2> DEFINE j == f + p + 1
  <2>9. j \in 2..Len(b) /\ j - 1 = f + p /\ j = f + (p + 1) /\ j + 1 = f + q
    <3>1. Len(b) \in Nat /\ f \in 1..Len(b) /\ Len(d) = Len(b) - f
      BY <1>1, <2>2
    <3>2. p \in 0..Len(d) /\ q = p + 2 /\ p + 1 \in 1..(Len(b) - f)
      BY <2>6, <2>8
    <3> QED
      BY <3>1, <3>2
  <2>10. b[j] = Dot
    <3>1. d[p + 1] = Dot
      BY <2>4, <2>6, <2>8
    <3>2. d[p + 1] = b[f + (p + 1)]
      BY <2>2, <2>8
    <3> QED
      BY <2>9, <3>1, <3>2
  <2>11. b[j - 1] = Newline
    <3>1. CASE p = 0
      BY <1>1, <2>2, <2>9, <3>1
    <3>2. CASE p # 0
      <4>1. p \in 1..(Len(b) - f)
        BY <2>2, <2>6, <3>2
      <4> QED
        BY <2>2, <2>7, <2>9, <3>2, <4>1
    <3> QED
      BY <3>1, <3>2
  <2> HIDE DEF j
  <2>12. j < Len(b) /\ b[j + 1] # Newline
    BY <1>1, <2>9, <2>10, <2>11
  <2>13. q \in 1..(Len(b) - f) /\ q # Len(d) + 1
    BY <1>1, <2>2, <2>6, <2>8, <2>9, <2>12
  <2> QED
    BY <2>2, <2>7, <2>9, <2>12, <2>13
<1> QED
  BY <1>2, <1>3 DEF Canonical

-----------------------------------------------------------------------------
(* The stream.                                                             *)

(* skip stops at the first character that is not skipped, or at the end.   *)
LEMMA SkipFacts ==
  ASSUME file \in String, NEW p \in 1..(Len(file) + 1), NEW S
  PROVE  /\ skip(p, S) \in p..(Len(file) + 1)
         /\ \A i \in p..(skip(p, S) - 1) : file[i] \in S
         /\ skip(p, S) = Len(file) + 1 \/ file[skip(p, S)] \notin S
<1> DEFINE Stops(q) == (\A i \in p..(q - 1) : file[i] \in S) /\ (q = Len(file) + 1 \/ file[q] \notin S)
           T == {q \in p..(Len(file) + 1) : q = Len(file) + 1 \/ file[q] \notin S}
<1>1. Len(file) \in Nat
  BY LenNat
<1>2. T \in SUBSET Nat /\ Len(file) + 1 \in T
  BY <1>1
<1>3. PICK q \in T : \A m \in T : q <= m
  BY <1>2, LeastNatural, Zenon
<1>4. \A i \in p..(q - 1) : file[i] \in S
  <2> SUFFICES ASSUME NEW i \in p..(q - 1)
               PROVE  file[i] \in S
    OBVIOUS
  <2>1. i \in p..(Len(file) + 1) /\ ~(q <= i)
    BY <1>1, <1>3
  <2>2. i \notin T
    BY <1>3, <2>1, Zenon
  <2> QED
    BY <2>1, <2>2
<1>5. Stops(q) /\ q \in p..(Len(file) + 1)
  BY <1>3, <1>4
<1>6. skip(p, S) = CHOOSE m \in p..(Len(file) + 1) : Stops(m)
  BY DEF skip
<1> HIDE DEF Stops
<1>7. skip(p, S) \in p..(Len(file) + 1) /\ Stops(skip(p, S))
  BY <1>5, <1>6
<1> QED
  BY <1>7 DEF Stops

(* There is one such place.                                                *)
LEMMA SkipIs ==
  ASSUME file \in String, NEW p \in 1..(Len(file) + 1), NEW S, NEW q \in p..(Len(file) + 1),
         \A i \in p..(q - 1) : file[i] \in S,
         q = Len(file) + 1 \/ file[q] \notin S
  PROVE  skip(p, S) = q
<1> DEFINE r == skip(p, S)
<1>1. Len(file) \in Nat
  BY LenNat
<1>2. /\ r \in p..(Len(file) + 1)
      /\ \A i \in p..(r - 1) : file[i] \in S
      /\ r = Len(file) + 1 \/ file[r] \notin S
  BY SkipFacts
<1> HIDE DEF r
<1>3. ~(r < q)
  <2>1. ASSUME r < q
        PROVE  FALSE
    <3>1. r \in p..(q - 1) /\ r # Len(file) + 1
      BY <1>1, <1>2, <2>1
    <3> QED
      BY <1>2, <3>1
  <2> QED
    BY <2>1
<1>4. ~(q < r)
  <2>1. ASSUME q < r
        PROVE  FALSE
    <3>1. q \in p..(r - 1) /\ q # Len(file) + 1
      BY <1>1, <1>2, <2>1
    <3> QED
      BY <1>2, <3>1
  <2> QED
    BY <2>1
<1> QED
  BY <1>1, <1>2, <1>3, <1>4 DEF r

-----------------------------------------------------------------------------
(* Lines put together.                                                     *)

LastSolid(b) == CHOOSE i \in {i \in DOMAIN b : b[i] # Blank} :
                  \A j \in {k \in DOMAIN b : b[k] # Blank} : j <= i

(* The last character that is not blank is the only one with blanks behind *)
(* it.                                                                     *)
LEMMA LastSolidIs ==
  ASSUME NEW b \in String, NEW i \in 1..Len(b), b[i] # Blank, \A j \in (i + 1)..Len(b) : b[j] = Blank
  PROVE  trimmed(b) = SubSeq(b, 1, i)
<1> DEFINE T == {k \in DOMAIN b : b[k] # Blank}
<1>1. Len(b) \in Nat /\ DOMAIN b = 1..Len(b)
  BY DEF String
<1>2. i \in T /\ \A j \in T : j <= i
  BY <1>1
<1>3. \A j \in T : j \in Nat
  BY <1>1
<1>4. trimmed(b) = SubSeq(b, 1, CHOOSE k \in T : \A j \in T : j <= k)
  BY <1>2 DEF trimmed
<1> HIDE DEF T
<1>5. (CHOOSE k \in T : \A j \in T : j <= k) = i
  <2>1. \A k \in T : (\A j \in T : j <= k) => k = i
    BY <1>2, <1>3
  <2> QED
    BY <1>2, <2>1
<1> QED
  BY <1>4, <1>5

(* A string that is not all blanks has a last character that is not.       *)
LEMMA LastSolidExists ==
  ASSUME NEW b \in String, NEW k \in 1..Len(b), b[k] # Blank
  PROVE  \E i \in k..Len(b) : b[i] # Blank /\ \A j \in (i + 1)..Len(b) : b[j] = Blank
<1> DEFINE l == Len(b)
           T == {m \in 0..(l - k) : b[l - m] # Blank}
<1>1. l \in Nat
  BY LenNat
<1>2. l - k \in T /\ T \in SUBSET Nat
  <2>1. l - k \in 0..(l - k) /\ l - (l - k) = k
    BY <1>1
  <2> QED
    BY <1>1, <2>1
<1>3. PICK m \in T : \A j \in T : m <= j
  BY <1>2, LeastNatural, Zenon
<1>4. l - m \in k..l /\ b[l - m] # Blank
  BY <1>1, <1>3
<1>5. ASSUME NEW j \in ((l - m) + 1)..l
      PROVE  b[j] = Blank
  <2>1. l - j \in 0..(l - k) /\ l - (l - j) = j /\ ~(m <= l - j)
    BY <1>1, <1>3, <1>4
  <2>2. l - j \notin T
    BY <1>3, <2>1, Zenon
  <2> QED
    BY <2>1, <2>2
<1> QED
  BY <1>4, <1>5

(* What is read of a line: it does not begin with a blank.                 *)
LineText(t) == t \in String /\ (\A i \in 1..Len(t) : t[i] # Newline) /\ (t = <<>> \/ t[1] # Blank)

(* It has lost the blanks at its end, too.                                 *)
TrimmedText(t) == LineText(t) /\ (t = <<>> \/ t[Len(t)] # Blank)

(* The empty string.                                                       *)
LEMMA EmptyString == <<>> \in String /\ Len(<<>>) = 0 /\ \A s \in String : s = <<>> <=> Len(s) = 0
BY DEF String

(* The characters a string begins with.                                    *)
LEMMA PrefixFacts ==
  ASSUME NEW s \in String, NEW m \in 0..Len(s)
  PROVE  /\ SubSeq(s, 1, m) \in String /\ Len(SubSeq(s, 1, m)) = m
         /\ \A k \in 1..m : SubSeq(s, 1, m)[k] = s[k]
<1>1. Len(s) \in Nat /\ 1 \in 1..(Len(s) + 1)
  BY LenNat
<1>2. /\ SubSeq(s, 1, m) \in String
      /\ Len(SubSeq(s, 1, m)) = IF 1 <= m THEN m - 1 + 1 ELSE 0
      /\ \A k \in 1..Len(SubSeq(s, 1, m)) : SubSeq(s, 1, m)[k] = s[1 + k - 1]
  BY <1>1, PieceFacts
<1>3. Len(SubSeq(s, 1, m)) = m
  <2>1. m \in Nat
    BY <1>1
  <2> QED
    BY <1>2, <2>1
<1>4. \A k \in 1..m : 1 + k - 1 = k
  BY <1>1
<1> QED
  BY <1>2, <1>3, <1>4

(* A last line is trimmed by itself.                                       *)
LEMMA TrimmedBehind ==
  ASSUME NEW a \in String, a = <<>> \/ a[Len(a)] # Blank, NEW t, LineText(t)
  PROVE  \E u : TrimmedText(u) /\ trimmed(a \o t) = a \o u /\ (t = <<>> \/ t[Len(t)] # Blank => u = t)
<1> DEFINE b == a \o t
<1>1. t \in String /\ Len(t) \in Nat /\ Len(a) \in Nat /\ <<>> \in String
  BY LenNat, EmptyString DEF LineText
<1>2. /\ b \in String /\ Len(b) = Len(a) + Len(t)
      /\ \A k \in 1..Len(a) : b[k] = a[k]
      /\ \A k \in 1..Len(t) : b[Len(a) + k] = t[k]
  BY <1>1, CatFacts
<1>3. CASE t = <<>>
  <2>1. b = a
    BY <1>3 DEF String
  <2>2. trimmed(a) = a
    <3>1. CASE a = <<>>
      BY <3>1 DEF trimmed
    <3>2. CASE a # <<>>
      <4>1. Len(a) \in 1..Len(a) /\ a[Len(a)] # Blank /\ \A j \in (Len(a) + 1)..Len(a) : a[j] = Blank
        BY <1>1, <3>2, EmptyString
      <4>2. trimmed(a) = SubSeq(a, 1, Len(a))
        BY <4>1, LastSolidIs
      <4> QED
        BY <4>2 DEF String
    <3> QED
      BY <3>1, <3>2
  <2>3. TrimmedText(t)
    BY <1>3 DEF TrimmedText
  <2> QED
    BY <1>3, <2>1, <2>2, <2>3
<1>4. CASE t # <<>>
  <2>1. 1 \in 1..Len(t) /\ t[1] # Blank
    BY <1>1, <1>4, EmptyString DEF LineText
  <2>2. PICK i \in 1..Len(t) : t[i] # Blank /\ \A j \in (i + 1)..Len(t) : t[j] = Blank
    BY <1>1, <2>1, LastSolidExists
  <2> DEFINE u == SubSeq(t, 1, i)
  <2>3. u \in String /\ Len(u) = i /\ \A k \in 1..i : u[k] = t[k]
    BY <1>1, <2>2, PrefixFacts
  <2>4. (t = <<>> \/ t[Len(t)] # Blank) => u = t
    <3>1. ASSUME t[Len(t)] # Blank
          PROVE  i = Len(t)
      BY <1>1, <2>2, <3>1
    <3>2. SubSeq(t, 1, Len(t)) = t
      BY <1>1 DEF String
    <3> QED
      BY <1>4, <3>1, <3>2
  <2> HIDE DEF u, b
  <2>5. trimmed(b) = SubSeq(b, 1, Len(a) + i)
    <3>1. Len(a) + i \in 1..Len(b)
      BY <1>1, <1>2, <2>2
    <3>2. b[Len(a) + i] # Blank
      BY <1>2, <2>2
    <3>3. \A j \in (Len(a) + i + 1)..Len(b) : b[j] = Blank
      <4> SUFFICES ASSUME NEW j \in (Len(a) + i + 1)..Len(b)
                   PROVE  b[j] = Blank
        OBVIOUS
      <4>1. j - Len(a) \in 1..Len(t) /\ j - Len(a) \in (i + 1)..Len(t) /\ Len(a) + (j - Len(a)) = j
        BY <1>1, <1>2, <2>2
      <4>2. b[Len(a) + (j - Len(a))] = t[j - Len(a)] /\ t[j - Len(a)] = Blank
        BY <1>2, <2>2, <4>1
      <4> QED
        BY <4>1, <4>2
    <3> QED
      BY <1>2, <3>1, <3>2, <3>3, LastSolidIs
  <2>6. SubSeq(b, 1, Len(a) + i) = a \o u
    <3> DEFINE x == SubSeq(b, 1, Len(a) + i)
               y == a \o u
    <3>1. Len(a) + i \in 0..Len(b)
      BY <1>1, <1>2, <2>2
    <3>2. x \in String /\ Len(x) = Len(a) + i /\ \A k \in 1..(Len(a) + i) : x[k] = b[k]
      BY <1>2, <3>1, PrefixFacts
    <3>3. /\ y \in String /\ Len(y) = Len(a) + i
          /\ \A k \in 1..Len(a) : y[k] = a[k]
          /\ \A k \in 1..i : y[Len(a) + k] = u[k]
      BY <2>3, CatFacts
    <3> HIDE DEF x, y
    <3>4. ASSUME NEW k \in 1..(Len(a) + i)
          PROVE  x[k] = y[k]
      <4>1. CASE k <= Len(a)
        <5>1. k \in 1..Len(a)
          BY <1>1, <4>1
        <5> QED
          BY <1>2, <3>2, <3>3, <5>1
      <4>2. CASE ~(k <= Len(a))
        <5>1. k - Len(a) \in 1..i /\ k - Len(a) \in 1..Len(t) /\ Len(a) + (k - Len(a)) = k
          BY <1>1, <2>2, <4>2
        <5>2. b[Len(a) + (k - Len(a))] = t[k - Len(a)]
          BY <1>2, <5>1
        <5>3. y[Len(a) + (k - Len(a))] = u[k - Len(a)] /\ u[k - Len(a)] = t[k - Len(a)]
          BY <2>3, <3>3, <5>1
        <5> QED
          BY <3>2, <5>1, <5>2, <5>3
      <4> QED
        BY <4>1, <4>2
    <3>5. x = y
      BY <3>2, <3>3, <3>4, SameString
    <3> QED
      BY <3>5 DEF x, y
  <2>7. TrimmedText(u)
    <3>1. \A k \in 1..Len(t) : t[k] # Newline
      BY DEF LineText
    <3>2. \A k \in 1..i : k \in 1..Len(t)
      BY <1>1, <2>2
    <3>3. 1 \in 1..i /\ i \in 1..i
      BY <1>1, <2>2
    <3>4. u[1] # Blank /\ u[Len(u)] # Blank
      BY <2>1, <2>2, <2>3, <3>3
    <3>5. \A k \in 1..Len(u) : u[k] # Newline
      BY <2>3, <3>1, <3>2
    <3> QED
      BY <2>3, <3>4, <3>5 DEF TrimmedText, LineText
  <2>8. trimmed(b) = a \o u
    BY <2>5, <2>6
  <2> QED
    BY <2>7, <2>8, <2>4 DEF b
<1> QED
  BY <1>3, <1>4

(* A number that is neither 0 nor 1.                                       *)
LEMMA AtLeastTwo == \A x \in Nat : x # 0 /\ x # 1 => x > 1
OBVIOUS

(* A summand on both sides.                                                *)
LEMMA Cancel ==
  ASSUME NEW x \in Nat, NEW y \in Nat, NEW z \in Nat, x + y = x + z
  PROVE  y = z
OBVIOUS

(* A line without blanks at its ends is neat.                              *)
LEMMA NeatLine ==
  ASSUME NEW t, TrimmedText(t)
  PROVE  t \in String /\ Neat(t)
<1>1. /\ t \in String /\ (\A i \in 1..Len(t) : t[i] # Newline)
      /\ t = <<>> \/ t[1] # Blank
      /\ t = <<>> \/ t[Len(t)] # Blank
      /\ Len(t) \in Nat
  BY LenNat DEF TrimmedText, LineText
<1>2. ASSUME NEW i \in 1..Len(t), t[i] = Blank
      PROVE  i > 1 /\ i < Len(t) /\ t[i - 1] # Newline /\ t[i + 1] # Newline
  <2>1. t # <<>>
    BY <1>1, <1>2, EmptyString
  <2>2. i > 1 /\ i < Len(t)
    BY <1>1, <1>2, <2>1
  <2>3. i - 1 \in 1..Len(t) /\ i + 1 \in 1..Len(t)
    BY <1>1, <2>2
  <2> QED
    BY <1>1, <2>2, <2>3
<1>3. ASSUME NEW i \in 2..Len(t), t[i - 1] = Newline
      PROVE  FALSE
  <2>1. i - 1 \in 1..Len(t)
    BY <1>1
  <2> QED
    BY <1>1, <1>3, <2>1
<1> QED
  BY <1>1, <1>2, <1>3 DEF Neat

(* A string with a newline behind it.                                      *)
LEMMA BreakFacts ==
  ASSUME NEW b \in String
  PROVE  /\ Append(b, Newline) \in String /\ Len(Append(b, Newline)) = Len(b) + 1
         /\ Append(b, Newline) # <<>>
         /\ Append(b, Newline)[Len(b) + 1] = Newline
         /\ \A i \in 1..Len(b) : Append(b, Newline)[i] = b[i]
BY DEF String, Chars

(* A neat body is neat with a newline behind it.                           *)
LEMMA NeatBreak ==
  ASSUME NEW b \in String, Neat(b)
  PROVE  Neat(Append(b, Newline))
<1> DEFINE a == Append(b, Newline)
<1>1. /\ Len(b) \in Nat
      /\ \A i \in 1..Len(b) :
           b[i] = Blank => i > 1 /\ i < Len(b) /\ b[i - 1] # Newline /\ b[i + 1] # Newline
      /\ \A i \in 2..Len(b) :
           b[i - 1] = Newline /\ b[i] = Dot => i < Len(b) /\ b[i + 1] # Newline
  BY LenNat DEF Neat
<1>2. Len(a) = Len(b) + 1 /\ a[Len(b) + 1] = Newline /\ \A i \in 1..Len(b) : a[i] = b[i]
  BY BreakFacts
<1> HIDE DEF a
<1>3. Newline # Blank /\ Newline # Dot
  BY DEF Newline, Blank, Dot
<1>4. ASSUME NEW i \in 1..Len(a), a[i] = Blank
      PROVE  i > 1 /\ i < Len(a) /\ a[i - 1] # Newline /\ a[i + 1] # Newline
  <2>1. i \in 1..Len(b)
    BY <1>1, <1>2, <1>3, <1>4
  <2>2. i > 1 /\ i < Len(b) /\ b[i - 1] # Newline /\ b[i + 1] # Newline
    BY <1>1, <1>2, <1>4, <2>1
  <2>3. i - 1 \in 1..Len(b) /\ i + 1 \in 1..Len(b) /\ i < Len(a)
    BY <1>1, <1>2, <2>2
  <2> QED
    BY <1>2, <2>2, <2>3
<1>5. ASSUME NEW i \in 2..Len(a), a[i - 1] = Newline, a[i] = Dot
      PROVE  i < Len(a) /\ a[i + 1] # Newline
  <2>1. i \in 2..Len(b) /\ i - 1 \in 1..Len(b) /\ i \in 1..Len(b)
    BY <1>1, <1>2, <1>3, <1>5
  <2>2. b[i - 1] = Newline /\ b[i] = Dot
    BY <1>2, <1>5, <2>1
  <2>3. i < Len(b) /\ b[i + 1] # Newline
    BY <1>1, <2>1, <2>2
  <2>4. i + 1 \in 1..Len(b) /\ i < Len(a)
    BY <1>1, <1>2, <2>3
  <2> QED
    BY <1>2, <2>3, <2>4
<1> QED
  BY <1>4, <1>5 DEF Neat, a

(* A neat body is neat with a newline and a trimmed line that is not a dot *)
(* behind it.                                                              *)
LEMMA NeatNext ==
  ASSUME NEW a \in String, a # <<>>, a[Len(a)] = Newline, Neat(a),
         NEW u, TrimmedText(u), u # <<Dot>>
  PROVE  a \o u \in String /\ Neat(a \o u)
<1> DEFINE b == a \o u
           l == Len(a)
<1>1. /\ l \in Nat /\ l # 0 /\ Len(u) \in Nat /\ u \in String
      /\ \A i \in 1..l :
           a[i] = Blank => i > 1 /\ i < l /\ a[i - 1] # Newline /\ a[i + 1] # Newline
      /\ \A i \in 2..l :
           a[i - 1] = Newline /\ a[i] = Dot => i < l /\ a[i + 1] # Newline
  BY LenNat, EmptyString DEF Neat, TrimmedText, LineText
<1>2. /\ \A i \in 1..Len(u) : u[i] # Newline
      /\ Len(u) # 0 => u[1] # Blank /\ u[Len(u)] # Blank
  BY EmptyString DEF TrimmedText, LineText
<1>3. /\ b \in String /\ Len(b) = l + Len(u)
      /\ \A k \in 1..l : b[k] = a[k]
      /\ \A k \in 1..Len(u) : b[l + k] = u[k]
  BY <1>1, CatFacts
<1>4. Newline # Blank /\ Newline # Dot /\ a[l] = Newline
  BY DEF Newline, Blank, Dot
<1>5. ~(Len(u) = 1 /\ u[1] = Dot)
  <2>1. ASSUME Len(u) = 1, u[1] = Dot
        PROVE  FALSE
    <3>1. <<Dot>> \in String /\ Len(<<Dot>>) = 1 /\ \A k \in 1..1 : <<Dot>>[k] = Dot
      BY DEF String, Chars
    <3>2. \A k \in 1..1 : u[k] = Dot
      BY <2>1
    <3>3. u = <<Dot>>
      BY <1>1, <2>1, <3>1, <3>2, SameString
    <3> QED
      BY <3>3
  <2> QED
    BY <2>1
<1> HIDE DEF b, l
<1>6. \A k \in (l + 1)..(l + Len(u)) : k - l \in 1..Len(u) /\ b[k] = u[k - l] /\ b[k] # Newline
  <2> SUFFICES ASSUME NEW k \in (l + 1)..(l + Len(u))
               PROVE  k - l \in 1..Len(u) /\ b[k] = u[k - l] /\ b[k] # Newline
    OBVIOUS
  <2>1. k - l \in 1..Len(u) /\ l + (k - l) = k
    BY <1>1
  <2>2. b[l + (k - l)] = u[k - l] /\ u[k - l] # Newline
    BY <1>2, <1>3, <2>1
  <2> QED
    BY <2>1, <2>2
<1>7. ASSUME NEW i \in 1..Len(b), b[i] = Blank
      PROVE  i > 1 /\ i < Len(b) /\ b[i - 1] # Newline /\ b[i + 1] # Newline
  <2>1. CASE i <= l
    <3>1. i \in 1..l
      BY <1>1, <2>1
    <3>2. i > 1 /\ i < l /\ a[i - 1] # Newline /\ a[i + 1] # Newline
      BY <1>1, <1>3, <1>7, <3>1
    <3>3. i - 1 \in 1..l /\ i + 1 \in 1..l /\ i < Len(b)
      BY <1>1, <1>3, <3>2
    <3> QED
      BY <1>3, <3>2, <3>3
  <2>2. CASE ~(i <= l)
    <3>1. i \in (l + 1)..(l + Len(u)) /\ Len(u) # 0
      BY <1>1, <1>3, <2>2
    <3>2. i - l \in 1..Len(u) /\ u[i - l] = Blank
      BY <1>6, <1>7, <3>1
    <3>3. i - l # 1 /\ i - l # Len(u)
      BY <1>2, <3>1, <3>2
    <3>4. i - 1 \in (l + 1)..(l + Len(u)) /\ i + 1 \in (l + 1)..(l + Len(u)) /\ i > 1 /\ i < Len(b)
      <4>1. Len(b) = l + Len(u) /\ l \in Nat /\ Len(u) \in Nat
        BY <1>1, <1>3
      <4> QED
        BY <3>1, <3>3, <4>1
    <3> QED
      BY <1>6, <3>4
  <2> QED
    BY <2>1, <2>2
<1>8. ASSUME NEW i \in 2..Len(b), b[i - 1] = Newline, b[i] = Dot
      PROVE  i < Len(b) /\ b[i + 1] # Newline
  <2>1. CASE i <= l
    <3>1. i \in 2..l /\ i - 1 \in 1..l /\ i \in 1..l
      BY <1>1, <2>1
    <3>2. a[i - 1] = Newline /\ a[i] = Dot
      BY <1>3, <1>8, <3>1
    <3>3. i < l /\ a[i + 1] # Newline
      BY <1>1, <3>1, <3>2
    <3>4. i + 1 \in 1..l /\ i < Len(b)
      BY <1>1, <1>3, <3>3
    <3> QED
      BY <1>3, <3>3, <3>4
  <2>2. CASE ~(i <= l)
    <3>1. i \in (l + 1)..(l + Len(u))
      BY <1>1, <1>3, <2>2
    <3>2. ASSUME i # l + 1
          PROVE  FALSE
      <4>1. i - 1 \in (l + 1)..(l + Len(u))
        BY <1>1, <3>1, <3>2
      <4> QED
        BY <1>6, <1>8, <4>1
    <3>3. i - l = 1 /\ i = l + 1
      BY <1>1, <3>2
    <3>4. u[1] = Dot
      BY <1>6, <1>8, <3>1, <3>3
    <3>5. Len(u) # 1
      BY <1>5, <3>4
    <3>6. i + 1 \in (l + 1)..(l + Len(u)) /\ i < Len(b)
      <4>1. Len(b) = l + Len(u) /\ l \in Nat /\ Len(u) \in Nat
        BY <1>1, <1>3
      <4>2. Len(u) > 1
        <5>1. Len(u) # 0
          BY <3>1, <3>3, <4>1
        <5> QED
          BY <3>5, <4>1, <5>1, AtLeastTwo, Zenon
      <4> QED
        BY <3>3, <4>1, <4>2
    <3> QED
      BY <1>6, <3>6
  <2> QED
    BY <2>1, <2>2
<1> QED
  BY <1>3, <1>7, <1>8 DEF Neat, b

(* undotted takes a last line away that is a dot, and nothing else.        *)
LEMMA UndottedIs ==
  ASSUME NEW a \in String, NEW u \in String
  PROVE  undotted(a \o u, Len(a)) = IF u = <<Dot>> THEN a ELSE a \o u
<1> DEFINE b == a \o u
<1>1. Len(a) \in Nat /\ Len(u) \in Nat
  BY LenNat
<1>2. /\ b \in String /\ Len(b) = Len(a) + Len(u)
      /\ \A k \in 1..Len(a) : b[k] = a[k]
      /\ \A k \in 1..Len(u) : b[Len(a) + k] = u[k]
  BY CatFacts
<1>3. <<Dot>> \in String /\ Len(<<Dot>>) = 1 /\ <<Dot>>[1] = Dot /\ \A k \in 1..1 : <<Dot>>[k] = Dot
  BY DEF String, Chars
<1>4. undotted(b, Len(a)) = IF Len(b) = Len(a) + 1 /\ b[Len(b)] = Dot THEN SubSeq(b, 1, Len(a)) ELSE b
  BY DEF undotted
<1> HIDE DEF b
<1>5. u = <<Dot>> <=> Len(b) = Len(a) + 1 /\ b[Len(b)] = Dot
  <2>1. ASSUME u = <<Dot>>
        PROVE  Len(b) = Len(a) + 1 /\ b[Len(b)] = Dot
    <3>1. Len(u) = 1 /\ u[1] = Dot /\ 1 \in 1..Len(u)
      BY <1>3, <2>1
    <3> QED
      BY <1>2, <3>1
  <2>2. ASSUME Len(b) = Len(a) + 1, b[Len(b)] = Dot
        PROVE  u = <<Dot>>
    <3>1. Len(u) = 1
      <4>1. Len(a) + Len(u) = Len(a) + 1
        BY <1>2, <2>2
      <4> QED
        BY <1>1, <4>1, Cancel
    <3>2. 1 \in 1..Len(u) /\ \A k \in 1..1 : k = 1
      BY <3>1
    <3>3. u[1] = Dot
      BY <1>2, <2>2, <3>2
    <3>4. \A k \in 1..1 : u[k] = Dot
      BY <3>2, <3>3
    <3> QED
      BY <1>3, <3>1, <3>4, SameString
  <2> QED
    BY <2>1, <2>2
<1>6. SubSeq(b, 1, Len(a)) = a
  <2>1. Len(a) \in 0..Len(b)
    BY <1>1, <1>2
  <2>2. /\ SubSeq(b, 1, Len(a)) \in String /\ Len(SubSeq(b, 1, Len(a))) = Len(a)
        /\ \A k \in 1..Len(a) : SubSeq(b, 1, Len(a))[k] = b[k]
    BY <1>2, <2>1, PrefixFacts
  <2> QED
    BY <1>2, <2>2, SameString
<1> QED
  BY <1>4, <1>5, <1>6 DEF b

(* The body with one more line.                                            *)
LEMMA ContinuationFacts ==
  ASSUME NEW b \in String, NEW t, LineText(t)
  PROVE  \E u : /\ TrimmedText(u) /\ (t = <<>> \/ t[Len(t)] # Blank => u = t)
                /\ undotted(trimmed(Append(b, Newline) \o t), Len(b) + 1)
                     = IF u = <<Dot>> THEN Append(b, Newline) ELSE Append(b, Newline) \o u
<1> DEFINE a == Append(b, Newline)
<1>1. a \in String /\ Len(a) = Len(b) + 1 /\ a # <<>> /\ a[Len(b) + 1] = Newline
  BY BreakFacts
<1> HIDE DEF a
<1>2. a[Len(a)] # Blank
  BY <1>1 DEF Newline, Blank
<1>3. PICK u : TrimmedText(u) /\ trimmed(a \o t) = a \o u /\ (t = <<>> \/ t[Len(t)] # Blank => u = t)
  BY <1>1, <1>2, TrimmedBehind
<1>4. u \in String
  BY <1>3 DEF TrimmedText, LineText
<1>5. undotted(a \o u, Len(a)) = IF u = <<Dot>> THEN a ELSE a \o u
  BY <1>1, <1>4, UndottedIs
<1> QED
  BY <1>1, <1>3, <1>5 DEF a

-----------------------------------------------------------------------------
(* Where the writer puts the fields.                                       *)

Vocabularies == Seq(Seq(Seq(Alnum) \X String) \ {<<>>})
Fields(r) == [i \in DOMAIN r |-> writeDebStyleField(r[i])]
Recs(voc) == [i \in DOMAIN voc |-> writeRecord(voc[i])]

(* The name and the body of a field.                                       *)
LEMMA FieldTypes ==
  ASSUME NEW f \in Seq(Alnum) \X String
  PROVE  /\ f[1] \in String /\ f[2] \in String
         /\ Len(f[1]) \in Nat /\ \A i \in 1..Len(f[1]) : f[1][i] \in Alnum
<1>1. f[1] \in Seq(Alnum) /\ f[2] \in String
  OBVIOUS
<1>2. Seq(Alnum) \subseteq String
  BY DEF String, Chars
<1>3. Len(f[1]) \in Nat /\ f[1] \in [1..Len(f[1]) -> Alnum]
  BY <1>1
<1> QED
  BY <1>1, <1>2, <1>3

(* Field f stands behind the first o characters of w.                      *)
FieldAt(w, o, f) ==
  /\ \A i \in 1..Len(f[1]) : w[o + i] = f[1][i]
  /\ w[o + Len(f[1]) + 1] = Colon /\ w[o + Len(f[1]) + 2] = Blank
  /\ \A i \in 1..Len(escaped(f[2])) : w[o + Len(f[1]) + 2 + i] = escaped(f[2])[i]
  /\ w[o + Len(f[1]) + 2 + Len(escaped(f[2])) + 1] = Newline
FieldLen(f) == Len(f[1]) + 3 + Len(escaped(f[2]))

(* writeDebStyleField prints the name, a colon, a blank, the body and a    *)
(* newline.                                                                *)
LEMMA FieldWritten ==
  ASSUME NEW f \in Seq(Alnum) \X String
  PROVE  /\ writeDebStyleField(f) \in String /\ Len(writeDebStyleField(f)) = FieldLen(f)
         /\ FieldAt(writeDebStyleField(f), 0, f)
<1> DEFINE a == f[1]
           sep == <<Colon, Blank>>
           e == escaped(f[2])
           nl == <<Newline>>
           ab == a \o sep
           abe == ab \o e
           w == abe \o nl
<1>1. a \in String /\ e \in String /\ sep \in String /\ nl \in String
  BY FieldTypes, EscapedFacts DEF String, Chars
<1>2. Len(sep) = 2 /\ sep[1] = Colon /\ sep[2] = Blank /\ Len(nl) = 1 /\ nl[1] = Newline
  OBVIOUS
<1>3. Len(a) \in Nat /\ Len(e) \in Nat
  BY <1>1, LenNat
<1> HIDE DEF a, sep, e, nl
<1>4. /\ ab \in String /\ Len(ab) = Len(a) + 2
      /\ \A k \in 1..Len(a) : ab[k] = a[k]
      /\ \A k \in 1..2 : ab[Len(a) + k] = sep[k]
  <2>1. /\ a \o sep \in String /\ Len(a \o sep) = Len(a) + Len(sep)
        /\ \A k \in 1..Len(a) : (a \o sep)[k] = a[k]
        /\ \A k \in 1..Len(sep) : (a \o sep)[Len(a) + k] = sep[k]
    BY <1>1, CatFacts
  <2> QED
    BY <1>2, <2>1, Zenon DEF ab
<1> HIDE DEF ab
<1>5. /\ abe \in String /\ Len(abe) = Len(ab) + Len(e)
      /\ \A k \in 1..Len(ab) : abe[k] = ab[k]
      /\ \A k \in 1..Len(e) : abe[Len(ab) + k] = e[k]
  BY <1>1, <1>4, CatFacts
<1> HIDE DEF abe
<1>6. /\ w \in String /\ Len(w) = Len(abe) + 1
      /\ \A k \in 1..Len(abe) : w[k] = abe[k]
      /\ \A k \in 1..1 : w[Len(abe) + k] = nl[k]
  <2>1. abe \in String
    BY <1>5
  <2>2. /\ abe \o nl \in String /\ Len(abe \o nl) = Len(abe) + Len(nl)
        /\ \A k \in 1..Len(abe) : (abe \o nl)[k] = abe[k]
        /\ \A k \in 1..Len(nl) : (abe \o nl)[Len(abe) + k] = nl[k]
    BY <1>1, <2>1, CatFacts
  <2> QED
    BY <1>2, <2>2, Zenon DEF w
<1>7. writeDebStyleField(f) = w
  BY DEF writeDebStyleField, a, sep, e, nl, ab, abe
<1> HIDE DEF w
<1>8. Len(ab) = Len(a) + 2 /\ Len(abe) = Len(a) + 2 + Len(e) /\ Len(w) = Len(a) + 3 + Len(e)
  BY <1>3, <1>4, <1>5, <1>6
<1>9. ASSUME NEW k \in 1..Len(ab)
      PROVE  w[k] = ab[k]
  <2>1. k \in 1..Len(abe)
    BY <1>3, <1>8
  <2> QED
    BY <1>5, <1>6, <2>1
<1>10. \A i \in 1..Len(a) : w[0 + i] = a[i]
  <2> SUFFICES ASSUME NEW i \in 1..Len(a)
               PROVE  w[0 + i] = a[i]
    OBVIOUS
  <2>1. i \in 1..Len(ab) /\ 0 + i = i
    BY <1>3, <1>8
  <2> QED
    BY <1>4, <1>9, <2>1
<1>11. w[0 + Len(a) + 1] = Colon /\ w[0 + Len(a) + 2] = Blank
  <2>1. Len(a) + 1 \in 1..Len(ab) /\ Len(a) + 2 \in 1..Len(ab) /\ 1 \in 1..2 /\ 2 \in 1..2
    BY <1>3, <1>8
  <2>2. 0 + Len(a) + 1 = Len(a) + 1 /\ 0 + Len(a) + 2 = Len(a) + 2
    BY <1>3
  <2>3. w[Len(a) + 1] = sep[1] /\ w[Len(a) + 2] = sep[2]
    BY <1>4, <1>9, <2>1
  <2> QED
    BY <1>2, <2>2, <2>3
<1>12. \A i \in 1..Len(e) : w[0 + Len(a) + 2 + i] = e[i]
  <2> SUFFICES ASSUME NEW i \in 1..Len(e)
               PROVE  w[0 + Len(a) + 2 + i] = e[i]
    OBVIOUS
  <2>1. Len(ab) + i \in 1..Len(abe) /\ 0 + Len(a) + 2 + i = Len(ab) + i
    BY <1>3, <1>8
  <2> QED
    BY <1>5, <1>6, <2>1
<1>13. w[0 + Len(a) + 2 + Len(e) + 1] = Newline
  <2>1. 0 + Len(a) + 2 + Len(e) + 1 = Len(abe) + 1 /\ 1 \in 1..1
    BY <1>3, <1>8
  <2> QED
    BY <1>2, <1>6, <2>1
<1>14. FieldAt(w, 0, f)
  BY <1>10, <1>11, <1>12, <1>13 DEF FieldAt, a, e
<1> QED
  BY <1>6, <1>7, <1>8, <1>14 DEF FieldLen, a, e

(* A field written into a file stands in it as it does by itself.          *)
LEMMA FieldMoved ==
  ASSUME NEW f \in Seq(Alnum) \X String, NEW w, NEW o \in Nat,
         \A i \in 1..FieldLen(f) : w[o + i] = writeDebStyleField(f)[i]
  PROVE  FieldAt(w, o, f)
<1> DEFINE s == writeDebStyleField(f)
           a == Len(f[1])
           e == Len(escaped(f[2]))
<1>1. a \in Nat /\ e \in Nat /\ FieldLen(f) = a + 3 + e
  BY FieldTypes, EscapedFacts DEF FieldLen
<1>2. FieldAt(s, 0, f) /\ \A i \in 1..FieldLen(f) : w[o + i] = s[i]
  BY FieldWritten
<1> HIDE DEF s
<1>3. /\ \A i \in 1..a : s[0 + i] = f[1][i]
      /\ s[0 + a + 1] = Colon /\ s[0 + a + 2] = Blank
      /\ \A i \in 1..e : s[0 + a + 2 + i] = escaped(f[2])[i]
      /\ s[0 + a + 2 + e + 1] = Newline
  BY <1>2 DEF FieldAt
<1> HIDE DEF a, e
<1>4. \A i \in 1..a : w[o + i] = f[1][i]
  <2> SUFFICES ASSUME NEW i \in 1..a
               PROVE  w[o + i] = f[1][i]
    OBVIOUS
  <2>1. i \in 1..FieldLen(f) /\ 0 + i = i
    BY <1>1
  <2> QED
    BY <1>2, <1>3, <2>1
<1>5. w[o + a + 1] = Colon /\ w[o + a + 2] = Blank
  <2>1. a + 1 \in 1..FieldLen(f) /\ a + 2 \in 1..FieldLen(f)
    BY <1>1
  <2>2. 0 + a + 1 = a + 1 /\ 0 + a + 2 = a + 2 /\ o + (a + 1) = o + a + 1 /\ o + (a + 2) = o + a + 2
    BY <1>1
  <2>3. w[o + (a + 1)] = s[a + 1] /\ w[o + (a + 2)] = s[a + 2]
    BY <1>2, <2>1
  <2> QED
    BY <1>3, <2>2, <2>3
<1>6. \A i \in 1..e : w[o + a + 2 + i] = escaped(f[2])[i]
  <2> SUFFICES ASSUME NEW i \in 1..e
               PROVE  w[o + a + 2 + i] = escaped(f[2])[i]
    OBVIOUS
  <2>1. a + 2 + i \in 1..FieldLen(f) /\ 0 + a + 2 + i = a + 2 + i /\ o + (a + 2 + i) = o + a + 2 + i
    BY <1>1
  <2>2. w[o + (a + 2 + i)] = s[a + 2 + i]
    BY <1>2, <2>1
  <2>3. s[0 + a + 2 + i] = escaped(f[2])[i]
    BY <1>3
  <2> QED
    BY <2>1, <2>2, <2>3
<1>7. w[o + a + 2 + e + 1] = Newline
  <2>1. a + 2 + e + 1 \in 1..FieldLen(f) /\ 0 + a + 2 + e + 1 = a + 2 + e + 1
        /\ o + (a + 2 + e + 1) = o + a + 2 + e + 1
    BY <1>1
  <2>2. w[o + (a + 2 + e + 1)] = s[a + 2 + e + 1]
    BY <1>2, <2>1
  <2> QED
    BY <1>3, <2>1, <2>2
<1> QED
  BY <1>4, <1>5, <1>6, <1>7 DEF FieldAt, a, e

(* The length of a printed field.                                          *)
LEMMA FieldLenNat ==
  ASSUME NEW f \in Seq(Alnum) \X String
  PROVE  FieldLen(f) \in Nat
<1>1. Len(f[1]) \in Nat /\ Len(escaped(f[2])) \in Nat
  BY FieldTypes, EscapedFacts
<1> QED
  BY <1>1 DEF FieldLen

(* Field j of record r begins behind the first Offset(r, j) characters of  *)
(* the record.                                                             *)
Offset(r, j) == From(Fields(r), j)
RecordLen(r) == Offset(r, Len(r) + 1) + 1

(* The fields of a record.                                                 *)
LEMMA FieldsFacts ==
  ASSUME NEW r \in Seq(Seq(Alnum) \X String)
  PROVE  /\ Len(r) \in Nat /\ Fields(r) \in Seq(String) /\ Len(Fields(r)) = Len(r)
         /\ \A j \in 1..Len(r) : /\ r[j] \in Seq(Alnum) \X String
                                 /\ Fields(r)[j] = writeDebStyleField(r[j])
                                 /\ Len(Fields(r)[j]) = FieldLen(r[j])
<1> DEFINE l == Len(r)
           p == Fields(r)
<1>1. l \in Nat /\ DOMAIN r = 1..l /\ \A j \in 1..l : r[j] \in Seq(Alnum) \X String
  OBVIOUS
<1>2. p = [j \in 1..l |-> writeDebStyleField(r[j])]
  BY <1>1, Zenon DEF Fields
<1>3. ASSUME NEW j \in 1..l
      PROVE  p[j] = writeDebStyleField(r[j]) /\ p[j] \in String /\ Len(p[j]) = FieldLen(r[j])
  <2>1. p[j] = writeDebStyleField(r[j])
    BY <1>2, Zenon
  <2>2. r[j] \in Seq(Alnum) \X String
    BY <1>1
  <2>3. writeDebStyleField(r[j]) \in String /\ Len(writeDebStyleField(r[j])) = FieldLen(r[j])
    BY <2>2, FieldWritten
  <2> QED
    BY <2>1, <2>3
<1> HIDE DEF l, p
<1>4. p \in [1..l -> String]
  <2>1. \A j \in 1..l : writeDebStyleField(r[j]) \in String
    BY <1>3
  <2> QED
    BY <1>2, <2>1
<1>5. p \in Seq(String) /\ Len(p) = l
  <2>1. l \in Nat
    BY <1>1
  <2> QED
    BY <1>4, <2>1
<1> QED
  BY <1>1, <1>3, <1>5 DEF l, p

(* Each field begins where the one before it ends.                         *)
LEMMA OffsetFacts ==
  ASSUME NEW r \in Seq(Seq(Alnum) \X String)
  PROVE  /\ Offset(r, 1) = 0 /\ Len(r) \in Nat
         /\ \A j \in 1..(Len(r) + 1) : Offset(r, j) \in Nat /\ Offset(r, j) <= Offset(r, Len(r) + 1)
         /\ \A j \in 1..Len(r) : Offset(r, j + 1) = Offset(r, j) + FieldLen(r[j])
         /\ RecordLen(r) \in Nat \ {0}
<1> DEFINE p == Fields(r)
           w == FlattenSeq(p)
<1>1. /\ Len(r) \in Nat /\ p \in Seq(String) /\ Len(p) = Len(r)
      /\ \A j \in 1..Len(r) : Len(p[j]) = FieldLen(r[j])
  BY FieldsFacts
<1>2. LaidOut(p)
  BY <1>1, FlattenLaysOut
<1> HIDE DEF p
<1>3. /\ w \in String
      /\ \A j \in 1..(Len(r) + 1) : From(p, j) \in 0..Len(w)
      /\ From(p, 1) = 0 /\ From(p, Len(r) + 1) = Len(w)
      /\ \A j \in 1..Len(r) : From(p, j + 1) = From(p, j) + Len(p[j])
  BY <1>1, <1>2 DEF LaidOut
<1>4. Len(w) \in Nat
  BY <1>3, LenNat
<1>5. \A j \in 1..(Len(r) + 1) : From(p, j) \in Nat /\ From(p, j) <= From(p, Len(r) + 1)
  BY <1>3, <1>4
<1>6. \A j : Offset(r, j) = From(p, j)
  BY DEF Offset, p
<1>7. RecordLen(r) \in Nat \ {0}
  BY <1>3, <1>4, <1>6 DEF RecordLen
<1> QED
  BY <1>1, <1>3, <1>5, <1>6, <1>7

(* Record r stands behind the first o characters of w.                     *)
RecordAt(w, o, r) ==
  /\ \A j \in 1..Len(r) : FieldAt(w, o + Offset(r, j), r[j])
  /\ w[o + RecordLen(r)] = Newline

(* A record prints its fields one behind the other, and an empty line.     *)
LEMMA RecordWritten ==
  ASSUME NEW r \in Seq(Seq(Alnum) \X String)
  PROVE  /\ writeRecord(r) \in String /\ Len(writeRecord(r)) = RecordLen(r)
         /\ \A w : \A o \in Nat :
              (\A i \in 1..RecordLen(r) : w[o + i] = writeRecord(r)[i]) => RecordAt(w, o, r)
<1> DEFINE p == Fields(r)
           x == FlattenSeq(p)
           s == writeRecord(r)
           nl == <<Newline>>
<1>1. /\ Len(r) \in Nat /\ p \in Seq(String) /\ Len(p) = Len(r)
      /\ \A j \in 1..Len(r) : /\ r[j] \in Seq(Alnum) \X String
                              /\ p[j] = writeDebStyleField(r[j])
                              /\ Len(p[j]) = FieldLen(r[j])
  BY FieldsFacts
<1>2. LaidOut(p)
  BY <1>1, FlattenLaysOut
<1>3. s = x \o nl
  BY DEF writeRecord, Fields
<1>4. nl \in String /\ Len(nl) = 1 /\ nl[1] = Newline
  BY DEF String, Chars
<1>5. \A j : Offset(r, j) = From(p, j)
  BY DEF Offset
<1> HIDE DEF p, s, nl
<1>6. /\ x \in String
      /\ \A j \in 1..(Len(r) + 1) : From(p, j) \in 0..Len(x)
      /\ From(p, 1) = 0 /\ From(p, Len(r) + 1) = Len(x)
      /\ \A j \in 1..Len(r) : From(p, j + 1) = From(p, j) + Len(p[j])
      /\ \A j \in 1..Len(r) : \A k \in 1..Len(p[j]) : x[From(p, j) + k] = p[j][k]
  BY <1>1, <1>2 DEF LaidOut
<1> HIDE DEF x
<1>7. Len(x) \in Nat /\ RecordLen(r) = Len(x) + 1
  BY <1>6, <1>5, LenNat DEF RecordLen
<1>8. /\ s \in String /\ Len(s) = Len(x) + 1
      /\ \A k \in 1..Len(x) : s[k] = x[k]
      /\ s[Len(x) + 1] = Newline
  <2>1. /\ x \o nl \in String /\ Len(x \o nl) = Len(x) + Len(nl)
        /\ \A k \in 1..Len(x) : (x \o nl)[k] = x[k]
        /\ \A k \in 1..Len(nl) : (x \o nl)[Len(x) + k] = nl[k]
    BY <1>6, <1>4, CatFacts
  <2>2. 1 \in 1..1
    OBVIOUS
  <2> QED
    BY <1>3, <1>4, <2>1, <2>2, Zenon
<1>9. ASSUME NEW w, NEW o \in Nat, \A i \in 1..RecordLen(r) : w[o + i] = s[i]
      PROVE  RecordAt(w, o, r)
  <2>1. w[o + RecordLen(r)] = Newline
    <3>1. Len(x) + 1 \in 1..RecordLen(r)
      BY <1>7
    <3> QED
      BY <1>7, <1>8, <1>9, <3>1
  <2>2. ASSUME NEW j \in 1..Len(r)
        PROVE  FieldAt(w, o + Offset(r, j), r[j])
    <3> DEFINE f == r[j]
               a == From(p, j)
    <3>1. f \in Seq(Alnum) \X String /\ p[j] = writeDebStyleField(f) /\ Len(p[j]) = FieldLen(f)
      BY <1>1
    <3>2. j \in 1..(Len(r) + 1) /\ j + 1 \in 1..(Len(r) + 1)
      BY <1>1
    <3>3. From(p, j + 1) = a + FieldLen(f) /\ a \in 0..Len(x) /\ From(p, j + 1) \in 0..Len(x)
      BY <1>6, <3>1, <3>2
    <3>4. FieldLen(f) \in Nat
      BY <3>1, FieldLenNat
    <3>5. \A i \in 1..FieldLen(f) : x[a + i] = p[j][i]
      BY <1>6, <3>1
    <3> HIDE DEF f, a
    <3>6. ASSUME NEW i \in 1..FieldLen(f)
          PROVE  w[(o + a) + i] = writeDebStyleField(f)[i]
      <4>1. a + i \in 1..Len(x) /\ a + i \in 1..RecordLen(r) /\ (o + a) + i = o + (a + i)
        BY <1>7, <3>3, <3>4
      <4>2. w[o + (a + i)] = s[a + i] /\ s[a + i] = x[a + i]
        BY <1>8, <1>9, <4>1
      <4>3. x[a + i] = writeDebStyleField(f)[i]
        BY <3>1, <3>5
      <4> QED
        BY <4>1, <4>2, <4>3
    <3>7. o + a \in Nat
      BY <1>7, <3>3
    <3>8. FieldAt(w, o + a, f)
      BY <3>1, <3>6, <3>7, FieldMoved
    <3> QED
      BY <1>5, <3>8 DEF a, f
  <2> QED
    BY <2>1, <2>2 DEF RecordAt
<1>10. Len(s) = RecordLen(r)
  BY <1>7, <1>8
<1> QED
  BY <1>8, <1>9, <1>10 DEF s

(* Record k begins behind the first Place(voc, k) characters of the file.  *)
Place(voc, k) == From(Recs(voc), k)

(* The records of a vocabulary.                                            *)
LEMMA RecsFacts ==
  ASSUME NEW voc \in Vocabularies
  PROVE  /\ Len(voc) \in Nat /\ Recs(voc) \in Seq(String) /\ Len(Recs(voc)) = Len(voc)
         /\ \A k \in 1..Len(voc) : /\ voc[k] \in Seq(Seq(Alnum) \X String) \ {<<>>}
                                   /\ Recs(voc)[k] = writeRecord(voc[k])
                                   /\ Len(Recs(voc)[k]) = RecordLen(voc[k])
<1> DEFINE l == Len(voc)
           p == Recs(voc)
<1>1. l \in Nat /\ DOMAIN voc = 1..l /\ \A k \in 1..l : voc[k] \in Seq(Seq(Alnum) \X String) \ {<<>>}
  BY DEF Vocabularies
<1>2. p = [k \in 1..l |-> writeRecord(voc[k])]
  BY <1>1, Zenon DEF Recs
<1>3. ASSUME NEW k \in 1..l
      PROVE  p[k] = writeRecord(voc[k]) /\ p[k] \in String /\ Len(p[k]) = RecordLen(voc[k])
  <2>1. p[k] = writeRecord(voc[k])
    BY <1>2, Zenon
  <2>2. voc[k] \in Seq(Seq(Alnum) \X String)
    BY <1>1
  <2>3. writeRecord(voc[k]) \in String /\ Len(writeRecord(voc[k])) = RecordLen(voc[k])
    BY <2>2, RecordWritten
  <2> QED
    BY <2>1, <2>3
<1> HIDE DEF l, p
<1>4. p \in [1..l -> String]
  <2>1. \A k \in 1..l : writeRecord(voc[k]) \in String
    BY <1>3
  <2> QED
    BY <1>2, <2>1
<1>5. p \in Seq(String) /\ Len(p) = l
  <2>1. l \in Nat
    BY <1>1
  <2> QED
    BY <1>4, <2>1
<1> QED
  BY <1>1, <1>3, <1>5 DEF l, p

(* write prints the records one behind the other.                          *)
LEMMA VocabularyWritten ==
  ASSUME NEW voc \in Vocabularies
  PROVE  /\ write(voc) \in String /\ Len(voc) \in Nat
         /\ \A k \in 1..(Len(voc) + 1) : Place(voc, k) \in 0..Len(write(voc))
         /\ Place(voc, 1) = 0 /\ Place(voc, Len(voc) + 1) = Len(write(voc))
         /\ \A k \in 1..Len(voc) :
              /\ Place(voc, k + 1) = Place(voc, k) + RecordLen(voc[k])
              /\ RecordAt(write(voc), Place(voc, k), voc[k])
<1> DEFINE p == Recs(voc)
           w == write(voc)
<1>1. /\ Len(voc) \in Nat /\ p \in Seq(String) /\ Len(p) = Len(voc)
      /\ \A k \in 1..Len(voc) : /\ voc[k] \in Seq(Seq(Alnum) \X String)
                                /\ p[k] = writeRecord(voc[k])
                                /\ Len(p[k]) = RecordLen(voc[k])
  BY RecsFacts
<1>2. LaidOut(p)
  BY <1>1, FlattenLaysOut
<1>3. w = FlattenSeq(p)
  BY DEF write, Recs
<1>4. \A k : Place(voc, k) = From(p, k)
  BY DEF Place
<1> HIDE DEF p, w
<1>5. /\ w \in String
      /\ \A k \in 1..(Len(voc) + 1) : From(p, k) \in 0..Len(w)
      /\ From(p, 1) = 0 /\ From(p, Len(voc) + 1) = Len(w)
      /\ \A k \in 1..Len(voc) : From(p, k + 1) = From(p, k) + Len(p[k])
      /\ \A k \in 1..Len(voc) : \A i \in 1..Len(p[k]) : w[From(p, k) + i] = p[k][i]
  BY <1>1, <1>2, <1>3 DEF LaidOut
<1>6. ASSUME NEW k \in 1..Len(voc)
      PROVE  RecordAt(w, From(p, k), voc[k])
  <2>1. \A i \in 1..RecordLen(voc[k]) : w[From(p, k) + i] = writeRecord(voc[k])[i]
    BY <1>1, <1>5
  <2>2. k \in 1..(Len(voc) + 1) /\ Len(w) \in Nat
    BY <1>1, <1>5, LenNat
  <2>3. From(p, k) \in Nat
    BY <1>5, <2>2
  <2>4. voc[k] \in Seq(Seq(Alnum) \X String)
    BY <1>1
  <2> QED
    BY <2>1, <2>3, <2>4, RecordWritten
<1>7. \A k \in 1..Len(voc) : From(p, k + 1) = From(p, k) + RecordLen(voc[k])
  BY <1>1, <1>5
<1> QED
  BY <1>1, <1>4, <1>5, <1>6, <1>7 DEF w

-----------------------------------------------------------------------------
(* Any file.                                                               *)

NeatBodies == {b \in String : Neat(b)}
ReadRecords == UNION {[D -> NeatBodies] : D \in SUBSET String}

Written == source \in Sources /\ file = write(source)

ParserTypes ==
  /\ file \in String /\ pos \in 1..(Len(file) + 1)
  /\ field \in String /\ body \in NeatBodies
  /\ rec \in ReadRecords /\ records \in Seq(ReadRecords)
  /\ source # <<>> => Written

(* What SourcesAssumption says of a vocabulary.                            *)
LEMMA SourceFacts ==
  ASSUME NEW voc \in Sources
  PROVE  /\ voc \in Vocabularies /\ write(voc) \in String
         /\ \A i \in 1..Len(voc) :
              /\ \A j \in 1..Len(voc[i]) : Len(voc[i][j][2]) <= MaxBody
              /\ \A j, k \in 1..Len(voc[i]) : voc[i][j][1] = voc[i][k][1] => j = k
<1>1. voc \in Vocabularies
  BY SourcesAssumption DEF Vocabularies, String
<1>2. write(voc) \in String
  BY <1>1, VocabularyWritten
<1>3. DOMAIN voc = 1..Len(voc) /\ \A i \in 1..Len(voc) : DOMAIN voc[i] = 1..Len(voc[i])
  BY <1>1 DEF Vocabularies
<1>4. \A i \in DOMAIN voc :
        /\ \A j \in DOMAIN voc[i] : Len(voc[i][j][2]) <= MaxBody
        /\ \A j, k \in DOMAIN voc[i] : voc[i][j][1] = voc[i][k][1] => j = k
  BY SourcesAssumption, Zenon
<1> QED
  BY <1>1, <1>2, <1>3, <1>4

(* The types hold at first.                                                *)
LEMMA InitTypes == Init => ParserTypes
<1> SUFFICES ASSUME Init
             PROVE  ParserTypes
  OBVIOUS
<1>1. <<>> \in String /\ Len(<<>>) = 0
  BY EmptyString
<1>2. file \in String
  <2>1. CASE source \in Sources /\ file = write(source)
    BY <2>1, SourceFacts
  <2>2. CASE file \in Inputs
    BY <2>2, InputsAssumption DEF String
  <2> QED
    BY <2>1, <2>2 DEF Init
<1>3. pos \in 1..(Len(file) + 1)
  <2>1. pos = 1 /\ Len(file) \in Nat
    BY <1>2, LenNat DEF Init
  <2> QED
    BY <2>1
<1>4. Neat(<<>>)
  BY <1>1 DEF Neat
<1>5. rec \in ReadRecords
  <2>1. NoRecord \in [{} -> NeatBodies]
    BY DEF NoRecord
  <2>2. [{} -> NeatBodies] \in {[D -> NeatBodies] : D \in SUBSET String}
    OBVIOUS
  <2> QED
    BY <2>1, <2>2 DEF Init, ReadRecords
<1>6. field \in String /\ body \in NeatBodies /\ records \in Seq(ReadRecords)
  BY <1>1, <1>4 DEF Init, NeatBodies
<1>7. source # <<>> => Written
  BY DEF Init, Written
<1> QED
  BY <1>2, <1>3, <1>5, <1>6, <1>7 DEF ParserTypes

(* What appendFieldBody reads.                                             *)
LineRead == SubSeq(file, lineStart, lineEnd - 1)

(* Where appendFieldBody begins and ends to read, in any file.             *)
LEMMA LineReadFacts ==
  ASSUME file \in String, pos \in 1..(Len(file) + 1)
  PROVE  /\ Len(file) \in Nat
         /\ lineStart \in pos..(Len(file) + 1) /\ lineEnd \in lineStart..(Len(file) + 1)
         /\ LineText(LineRead)
<1>1. Len(file) \in Nat
  BY LenNat
<1>2. /\ lineStart \in pos..(Len(file) + 1)
      /\ lineStart = Len(file) + 1 \/ file[lineStart] # Blank
  <2>1. /\ skip(pos, {Blank}) \in pos..(Len(file) + 1)
        /\ skip(pos, {Blank}) = Len(file) + 1 \/ file[skip(pos, {Blank})] \notin {Blank}
    BY SkipFacts
  <2> QED
    BY <2>1 DEF lineStart
<1>3. lineStart \in 1..(Len(file) + 1)
  BY <1>1, <1>2
<1>4. /\ lineEnd \in lineStart..(Len(file) + 1)
      /\ \A i \in lineStart..(lineEnd - 1) : file[i] \in Chars \ {Newline}
  BY <1>3, SkipFacts DEF lineEnd
<1> DEFINE p == lineStart
           q == lineEnd - 1
           t == SubSeq(file, p, q)
<1>5. p \in 1..(Len(file) + 1) /\ q \in 0..Len(file)
  BY <1>1, <1>3, <1>4
<1>6. /\ t \in String
      /\ Len(t) = IF p <= q THEN q - p + 1 ELSE 0
      /\ \A k \in 1..Len(t) : t[k] = file[p + k - 1]
  BY <1>5, PieceFacts
<1>7. \A i \in p..q : file[i] # Newline
  BY <1>4
<1>8. p = Len(file) + 1 \/ file[p] # Blank
  BY <1>2
<1>9. LineRead = t
  BY DEF LineRead
<1> HIDE DEF p, q, t
<1>10. ASSUME NEW k \in 1..Len(t)
       PROVE  p + k - 1 \in p..q /\ p <= q
  <2>1. CASE p <= q
    <3>1. Len(t) = q - p + 1
      BY <1>6, <2>1
    <3> QED
      BY <1>1, <1>5, <2>1, <3>1
  <2>2. CASE ~(p <= q)
    <3>1. Len(t) = 0
      BY <1>6, <2>2
    <3> QED
      BY <3>1
  <2> QED
    BY <2>1, <2>2
<1>11. \A k \in 1..Len(t) : t[k] # Newline
  BY <1>6, <1>7, <1>10
<1>12. ASSUME t # <<>>
       PROVE  t[1] # Blank
  <2>1. 1 \in 1..Len(t)
    <3>1. Len(t) \in Nat /\ Len(t) # 0
      BY <1>6, <1>12, LenNat, EmptyString
    <3> QED
      BY <3>1
  <2>2. p + 1 - 1 = p /\ p # Len(file) + 1
    <3>1. p <= q
      BY <1>10, <2>1
    <3> QED
      BY <1>1, <1>5, <3>1
  <2>3. t[1] = file[p + 1 - 1]
    BY <1>6, <2>1
  <2> QED
    BY <1>8, <2>2, <2>3
<1>13. LineText(t)
  BY <1>6, <1>11, <1>12 DEF LineText
<1> QED
  BY <1>1, <1>2, <1>4, <1>9, <1>13

(* Every helper keeps the types: bodies are neat at every step.            *)
LEMMA TypesKept == ParserTypes /\ [Next]_vars => ParserTypes'
<1> SUFFICES ASSUME ParserTypes, [Next]_vars
             PROVE  ParserTypes'
  OBVIOUS
<1>1. /\ file \in String /\ pos \in 1..(Len(file) + 1)
      /\ field \in String /\ body \in NeatBodies
      /\ rec \in ReadRecords /\ records \in Seq(ReadRecords)
      /\ source # <<>> => Written
      /\ Len(file) \in Nat
  BY LenNat DEF ParserTypes
<1>2. ASSUME source' = source, file' = file
      PROVE  (source # <<>> => Written)'
  BY <1>1, <1>2 DEF Written
<1>3. eaten \in pos..(Len(file) + 1) /\ eaten \in 1..(Len(file) + 1)
  <2>1. skip(pos, {Blank, Newline}) \in pos..(Len(file) + 1)
    BY <1>1, SkipFacts
  <2> QED
    BY <1>1, <2>1 DEF eaten
<1>4. ASSUME appendFieldBody
      PROVE  file' = file /\ pos' \in 1..(Len(file) + 1)
  <2>1. lineEnd \in 1..(Len(file) + 1)
    BY <1>1, LineReadFacts
  <2>2. file' = file /\ pos' = IF AtEOF(lineEnd) THEN lineEnd ELSE lineEnd + 1
    BY <1>4 DEF appendFieldBody
  <2>3. CASE AtEOF(lineEnd)
    BY <2>1, <2>2, <2>3
  <2>4. CASE ~AtEOF(lineEnd)
    <3>1. lineEnd <= Len(file)
      BY <1>1, <2>1, <2>4 DEF AtEOF
    <3> QED
      BY <1>1, <2>1, <2>2, <2>4, <3>1
  <2> QED
    BY <2>3, <2>4
<1>5. LineText(LineRead)
  BY <1>1, LineReadFacts
<1>6. CASE Construct
  <2>1. UNCHANGED <<source, file, field, body, rec, records>> /\ pos' = eaten
    BY <1>6 DEF Construct, eatSpacesAndEmptyLines
  <2> QED
    BY <1>1, <1>3, <1>2, <2>1 DEF ParserTypes
<1>7. CASE NextRecord
  <2>1. UNCHANGED <<source, file, pos, field, body, records>> /\ (rec' = rec \/ rec' = NoRecord)
    BY <1>7 DEF NextRecord, stream
  <2>2. NoRecord \in ReadRecords
    <3>1. NoRecord \in [{} -> NeatBodies]
      BY DEF NoRecord
    <3>2. [{} -> NeatBodies] \in {[D -> NeatBodies] : D \in SUBSET String}
      OBVIOUS
    <3> QED
      BY <3>1, <3>2 DEF ReadRecords
  <2> QED
    BY <1>1, <1>2, <2>1, <2>2 DEF ParserTypes
<1>8. CASE GetFieldName
  <2> DEFINE e == skip(pos, Alnum)
  <2>1. e \in pos..(Len(file) + 1)
    BY <1>1, SkipFacts
  <2>2. GetFieldName =>
          \/ Throw
          \/ /\ field' = SubSeq(file, pos, e - 1) /\ pos' = e
             /\ UNCHANGED <<source, file, body, rec, records>>
    BY DEF GetFieldName
  <2> HIDE DEF e
  <2>3. CASE Throw
    BY <1>1, <1>2, <2>3 DEF Throw, stream, ParserTypes
  <2>4. CASE /\ field' = SubSeq(file, pos, e - 1) /\ pos' = e
             /\ UNCHANGED <<source, file, body, rec, records>>
    <3>1. e - 1 \in 0..Len(file) /\ e \in 1..(Len(file) + 1)
      BY <1>1, <2>1
    <3>2. SubSeq(file, pos, e - 1) \in String
      BY <1>1, <3>1, PieceFacts
    <3> QED
      BY <1>1, <1>2, <2>4, <3>1, <3>2 DEF ParserTypes
  <2> QED
    BY <1>8, <2>2, <2>3, <2>4
<1>9. CASE EatFieldSep
  <2> DEFINE e == skip(pos, {Blank})
  <2>1. e \in pos..(Len(file) + 1)
    BY <1>1, SkipFacts
  <2>2. EatFieldSep =>
          \/ Throw
          \/ /\ ~AtEOF(e) /\ pos' = e + 1
             /\ UNCHANGED <<source, file, field, body, rec, records>>
    BY DEF EatFieldSep
  <2> HIDE DEF e
  <2>3. CASE Throw
    BY <1>1, <1>2, <2>3 DEF Throw, stream, ParserTypes
  <2>4. CASE /\ ~AtEOF(e) /\ pos' = e + 1
             /\ UNCHANGED <<source, file, field, body, rec, records>>
    <3>1. e + 1 \in 1..(Len(file) + 1)
      BY <1>1, <2>1, <2>4 DEF AtEOF
    <3> QED
      BY <1>1, <1>2, <2>4, <3>1 DEF ParserTypes
  <2> QED
    BY <1>9, <2>2, <2>3, <2>4
<1>10. CASE FirstLine
  <2>1. appendFieldBody /\ body' = appended(<<>>) /\ UNCHANGED <<source, field, rec, records>>
    BY <1>10 DEF FirstLine
  <2>2. appended(<<>>) = trimmed(<<>> \o LineRead)
    BY DEF appended, LineRead
  <2>3. PICK u : TrimmedText(u) /\ trimmed(<<>> \o LineRead) = <<>> \o u
    <3> DEFINE z == <<>>
    <3>1. z \in String /\ (z = <<>> \/ z[Len(z)] # Blank)
      BY EmptyString
    <3> HIDE DEF z
    <3>2. \E u : /\ TrimmedText(u) /\ trimmed(z \o LineRead) = z \o u
                /\ (LineRead = <<>> \/ LineRead[Len(LineRead)] # Blank => u = LineRead)
      BY <1>5, <3>1, TrimmedBehind
    <3>3. \E u : TrimmedText(u) /\ trimmed(z \o LineRead) = z \o u
      BY <3>2, Zenon
    <3> QED
      BY <3>3, Zenon DEF z
  <2>4. u \in String /\ Neat(u)
    BY <2>3, NeatLine
  <2>5. body' \in NeatBodies
    <3>1. <<>> \o u = u
      BY <2>4 DEF String
    <3> QED
      BY <2>1, <2>2, <2>3, <2>4, <3>1 DEF NeatBodies
  <2> QED
    BY <1>1, <1>4, <1>2, <2>1, <2>5 DEF ParserTypes
<1>11. CASE EatSpaces
  <2>1. UNCHANGED <<source, file, field, body, rec, records>> /\ pos' = eaten
    BY <1>11 DEF EatSpaces, eatSpacesAndEmptyLines
  <2> QED
    BY <1>1, <1>3, <1>2, <2>1 DEF ParserTypes
<1>12. CASE ContinuationLine
  <2> DEFINE new == undotted(appended(Append(body, Newline)), Len(body) + 1)
             a == Append(body, Newline)
  <2>1. /\ appendFieldBody /\ UNCHANGED <<source, field, rec, records>>
        /\ body' = body \/ body' = new
    BY <1>12 DEF ContinuationLine
  <2>2. body \in String /\ Neat(body)
    BY <1>1 DEF NeatBodies
  <2>3. new = undotted(trimmed(a \o LineRead), Len(body) + 1)
    BY DEF appended, LineRead
  <2>4. PICK u : /\ TrimmedText(u)
                 /\ undotted(trimmed(a \o LineRead), Len(body) + 1) = IF u = <<Dot>> THEN a ELSE a \o u
    BY <1>5, <2>2, ContinuationFacts
  <2>5. a \in String /\ a # <<>> /\ a[Len(a)] = Newline /\ Neat(a)
    BY <2>2, BreakFacts, NeatBreak
  <2> HIDE DEF a, new
  <2>6. u # <<Dot>> => a \o u \in String /\ Neat(a \o u)
    BY <2>4, <2>5, NeatNext
  <2>7. new \in NeatBodies
    BY <2>3, <2>4, <2>5, <2>6 DEF NeatBodies
  <2>8. body' \in NeatBodies
    BY <1>1, <2>1, <2>7
  <2> QED
    BY <1>1, <1>4, <1>2, <2>1, <2>8 DEF ParserTypes
<1>13. CASE InsertField
  <2> DEFINE new == [f \in DOMAIN rec \cup {field} |-> IF f \in DOMAIN rec THEN rec[f] ELSE body]
  <2>1. /\ UNCHANGED <<source, file, pos, field, body>>
        /\ rec' = new /\ (records' = records \/ records' = Append(records, rec'))
    BY <1>13 DEF InsertField, stream
  <2>2. new \in ReadRecords
    <3>1. PICK D \in SUBSET String : rec \in [D -> NeatBodies]
      BY <1>1 DEF ReadRecords
    <3>2. new \in [D \cup {field} -> NeatBodies] /\ D \cup {field} \in SUBSET String
      BY <1>1, <3>1
    <3> HIDE DEF new
    <3> QED
      BY <3>2 DEF ReadRecords
  <2> HIDE DEF new
  <2>3. records' \in Seq(ReadRecords)
    <3>1. CASE records' = records
      BY <1>1, <3>1
    <3>2. CASE records' = Append(records, rec')
      BY <1>1, <2>1, <2>2, <3>2
    <3> QED
      BY <2>1, <3>1, <3>2
  <2> QED
    BY <1>1, <1>2, <2>1, <2>2, <2>3 DEF ParserTypes
<1>14. CASE ReadError \/ UNCHANGED vars
  <2>1. UNCHANGED <<source, file, pos, field, body, rec, records>>
    BY <1>14 DEF ReadError, stream, vars
  <2> QED
    BY <1>1, <1>2, <2>1 DEF ParserTypes
<1> QED
  BY <1>6, <1>7, <1>8, <1>9, <1>10, <1>11, <1>12, <1>13, <1>14 DEF Next, Parse

(* So every body returned is canonical.                                    *)
LEMMA NeatIsEnough == ParserTypes => BodiesCanonical
<1> SUFFICES ASSUME ParserTypes, NEW i \in DOMAIN records, NEW f \in DOMAIN records[i]
             PROVE  Canonical(records[i][f])
  BY DEF BodiesCanonical
<1>1. records[i] \in ReadRecords
  BY DEF ParserTypes
<1>2. PICK D \in SUBSET String : records[i] \in [D -> NeatBodies]
  BY <1>1 DEF ReadRecords
<1>3. records[i][f] \in NeatBodies
  BY <1>2
<1> QED
  BY <1>3, NeatIsCanonical DEF NeatBodies

-----------------------------------------------------------------------------
(* The lines of a printed body.                                            *)

(* In the file, a newline follows the printed body.  Line t is printed     *)
(* behind the first h characters; y characters of v are printed then, and  *)
(* the end of the line stands for the next one or is that newline.         *)
After(v, y) == IF y = Len(v) THEN Len(escaped(v)) + 1 ELSE Before(v, y + 2)

PrintedLine(v, h, t, y) ==
  /\ h \in Nat /\ y \in 0..Len(v) /\ (y = Len(v) \/ v[y + 1] = Newline)
  /\ TrimmedText(t) /\ After(v, y) = h + Len(t) + 1
  /\ \A k \in 1..Len(t) : escaped(v)[h + k] = t[k]
  /\ IF y = Len(v) THEN h + Len(t) = Len(escaped(v))
     ELSE h + Len(t) < Len(escaped(v)) /\ escaped(v)[h + Len(t) + 1] = Newline

(* Characters x to y of v are a line of it.                                *)
LEMMA LineIsTrimmed ==
  ASSUME NEW v \in String, Neat(v), NEW x \in 1..(Len(v) + 1), x = 1 \/ v[x - 1] = Newline,
         NEW y \in (x - 1)..Len(v), LineOf(v, x, y)
  PROVE  /\ TrimmedText(SubSeq(v, x, y)) /\ Len(SubSeq(v, x, y)) = y - x + 1
         /\ \A k \in 1..(y - x + 1) : SubSeq(v, x, y)[k] = v[x + k - 1]
<1> DEFINE t == SubSeq(v, x, y)
<1>1. Len(v) \in Nat /\ y \in 0..Len(v)
  <2>1. Len(v) \in Nat
    BY LenNat
  <2> QED
    BY <2>1
<1>2. /\ t \in String
      /\ Len(t) = IF x <= y THEN y - x + 1 ELSE 0
      /\ \A k \in 1..Len(t) : t[k] = v[x + k - 1]
  BY <1>1, PieceFacts
<1>3. /\ \A i \in x..y : v[i] # Newline
      /\ y < Len(v) => v[y + 1] = Newline
      /\ \A i \in 1..Len(v) :
           v[i] = Blank => i > 1 /\ i < Len(v) /\ v[i - 1] # Newline /\ v[i + 1] # Newline
  BY DEF LineOf, Neat
<1> HIDE DEF t
<1>4. Len(t) = y - x + 1
  <2>1. CASE x <= y
    BY <1>2, <2>1
  <2>2. CASE ~(x <= y)
    <3>1. y - x + 1 = 0
      BY <1>1, <2>2
    <3>2. Len(t) = 0
      BY <1>2, <2>2
    <3> QED
      BY <3>1, <3>2
  <2> QED
    BY <2>1, <2>2
<1>5. \A k \in 1..(y - x + 1) : x + k - 1 \in x..y
  BY <1>1
<1>6. \A k \in 1..(y - x + 1) : t[k] = v[x + k - 1]
  BY <1>2, <1>4
<1>7. \A k \in 1..Len(t) : t[k] # Newline
  BY <1>3, <1>4, <1>5, <1>6
<1>8. ASSUME t # <<>>
      PROVE  t[1] # Blank /\ t[Len(t)] # Blank
  <2>1. Len(t) # 0
    BY <1>2, <1>8, EmptyString
  <2>2. x <= y
    BY <1>1, <1>4, <2>1
  <2>3. 1 \in 1..(y - x + 1) /\ y - x + 1 \in 1..(y - x + 1) /\ x + 1 - 1 = x /\ x + (y - x + 1) - 1 = y
        /\ x \in 1..Len(v) /\ y \in 1..Len(v)
    BY <1>1, <2>2
  <2>4. t[1] = v[x] /\ t[Len(t)] = v[y]
    BY <1>4, <1>6, <2>3
  <2>5. v[x] # Blank
    <3>1. ASSUME v[x] = Blank
          PROVE  FALSE
      <4>1. x > 1 /\ v[x - 1] # Newline
        BY <1>3, <2>3, <3>1
      <4> QED
        BY <4>1
    <3> QED
      BY <3>1
  <2>6. v[y] # Blank
    <3>1. ASSUME v[y] = Blank
          PROVE  FALSE
      <4>1. y < Len(v) /\ v[y + 1] # Newline
        BY <1>3, <2>3, <3>1
      <4> QED
        BY <1>3, <4>1
    <3> QED
      BY <3>1
  <2> QED
    BY <2>4, <2>5, <2>6
<1>9. TrimmedText(t)
  BY <1>2, <1>7, <1>8 DEF TrimmedText, LineText
<1> QED
  BY <1>4, <1>6, <1>9 DEF t

(* The first line of a body is printed as it is.                           *)
LEMMA FirstLinePrinted ==
  ASSUME NEW v \in String, Neat(v)
  PROVE  \E y \in 0..Len(v) : PrintedLine(v, 0, SubSeq(v, 1, y), y)
<1> DEFINE w == escaped(v)
<1>1. /\ Len(v) \in Nat /\ Len(w) \in Nat
      /\ \A i \in 1..(Len(v) + 1) : Before(v, i) \in 0..Len(w)
      /\ Before(v, 1) = 0 /\ Before(v, Len(v) + 1) = Len(w)
      /\ \A i \in 1..Len(v) :
           /\ Before(v, i + 1) = Before(v, i) + Len(Piece(v, i))
           /\ \A k \in 1..Len(Piece(v, i)) : w[Before(v, i) + k] = Piece(v, i)[k]
  BY EscapedFacts
<1>2. 1 \in 1..(Len(v) + 1)
  BY <1>1
<1>3. PICK y \in (1 - 1)..Len(v) : LineOf(v, 1, y)
  BY <1>2, LineExists
<1> DEFINE t == SubSeq(v, 1, y)
<1>4. /\ TrimmedText(t) /\ Len(t) = y - 1 + 1
      /\ \A k \in 1..(y - 1 + 1) : t[k] = v[1 + k - 1]
  BY <1>2, <1>3, LineIsTrimmed
<1>5. y \in 0..Len(v) /\ y - 1 + 1 = y /\ \A k \in 1..y : 1 + k - 1 = k
  BY <1>1, <1>3
<1>6. Len(t) = y /\ \A k \in 1..y : t[k] = v[k]
  BY <1>4, <1>5
<1>7. (\A i \in 1..y : v[i] # Newline) /\ (y < Len(v) => v[y + 1] = Newline)
  BY <1>3 DEF LineOf
<1> HIDE DEF t, w
<1>8. ASSUME Len(v) # 0
      PROVE  Before(v, 2) = 1 /\ w[1] = v[1]
  <2>1. 1 \in 1..Len(v) /\ 1 + 1 = 2 /\ 0 + 1 = 1 /\ 1 \in 1..1
    BY <1>1, <1>8
  <2>2. Piece(v, 1) = <<v[1]>> /\ Len(Piece(v, 1)) = 1
    BY <2>1, PieceIs
  <2>3. Before(v, 1 + 1) = Before(v, 1) + Len(Piece(v, 1)) /\ \A k \in 1..Len(Piece(v, 1)) : w[Before(v, 1) + k] = Piece(v, 1)[k]
    BY <1>1, <2>1
  <2>4. Before(v, 2) = 1
    BY <1>1, <2>1, <2>2, <2>3
  <2>5. w[Before(v, 1) + 1] = Piece(v, 1)[1]
    BY <2>1, <2>2, <2>3
  <2> QED
    BY <1>1, <2>1, <2>2, <2>4, <2>5
<1>9. /\ \A k \in 1..y : w[k] = v[k]
      /\ Before(v, y + 1) = y
      /\ y < Len(v) => w[y + 1] = Newline /\ Before(v, y + 2) = y + 1
  <2>1. CASE y = 0
    <3>1. Before(v, y + 1) = y /\ \A k \in 1..y : FALSE
      BY <1>1, <2>1
    <3>2. ASSUME y < Len(v)
          PROVE  w[y + 1] = Newline /\ Before(v, y + 2) = y + 1
      BY <1>1, <1>7, <1>8, <2>1, <3>2
    <3> QED
      BY <3>1, <3>2
  <2>2. CASE y # 0
    <3>1. Len(v) # 0 /\ 1 \in 1..Len(v) /\ y \in 1..Len(v)
      BY <1>1, <1>5, <2>2
    <3>2. /\ \A k \in 1..(y - 1) : w[Before(v, 1 + 1) + k] = v[1 + k]
          /\ Before(v, y + 1) = Before(v, 1 + 1) + (y - 1)
          /\ y < Len(v) => w[Before(v, y + 1) + 1] = Newline /\ Before(v, y + 2) = Before(v, y + 1) + 1
      BY <1>3, <3>1, LinePrinted DEF w
    <3>3. Before(v, 1 + 1) = 1 /\ w[1] = v[1]
      BY <1>8, <3>1
    <3>4. Before(v, y + 1) = y
      BY <3>1, <3>2, <3>3
    <3>5. ASSUME NEW k \in 1..y
          PROVE  w[k] = v[k]
      <4>1. CASE k = 1
        BY <3>3, <4>1
      <4>2. CASE k # 1
        <5>1. k - 1 \in 1..(y - 1) /\ 1 + (k - 1) = k
          BY <1>5, <4>2
        <5>2. w[1 + (k - 1)] = v[1 + (k - 1)]
          BY <3>2, <3>3, <5>1
        <5> QED
          BY <5>1, <5>2
      <4> QED
        BY <4>1, <4>2
    <3> QED
      BY <3>2, <3>4, <3>5
  <2> QED
    BY <2>1, <2>2
<1>10. \A k \in 1..Len(t) : w[0 + k] = t[k]
  <2> SUFFICES ASSUME NEW k \in 1..Len(t)
               PROVE  w[0 + k] = t[k]
    OBVIOUS
  <2>1. k \in 1..y /\ 0 + k = k
    BY <1>6
  <2> QED
    BY <1>6, <1>9, <2>1
<1>11. y = Len(v) \/ v[y + 1] = Newline
  BY <1>1, <1>5, <1>7
<1>12. CASE y = Len(v)
  <2>1. 0 + Len(t) = Len(w)
    BY <1>1, <1>5, <1>6, <1>9, <1>12
  <2>2. After(v, y) = 0 + Len(t) + 1
    BY <1>12, <2>1 DEF After, w
  <2>3. PrintedLine(v, 0, t, y)
    BY <1>4, <1>5, <1>10, <1>12, <2>1, <2>2 DEF PrintedLine, w
  <2> QED
    BY <1>5, <2>3 DEF t
<1>13. CASE y # Len(v)
  <2>1. y < Len(v) /\ y + 2 \in 1..(Len(v) + 1) /\ 0 + Len(t) = y
    BY <1>1, <1>5, <1>6, <1>13
  <2>2. w[y + 1] = Newline /\ Before(v, y + 2) = y + 1 /\ Before(v, y + 2) \in 0..Len(w)
    BY <1>1, <1>9, <2>1
  <2>3. After(v, y) = 0 + Len(t) + 1 /\ 0 + Len(t) < Len(w) /\ w[0 + Len(t) + 1] = Newline
    BY <1>1, <1>5, <1>13, <2>1, <2>2 DEF After
  <2>4. PrintedLine(v, 0, t, y)
    BY <1>4, <1>5, <1>10, <1>11, <1>13, <2>3 DEF PrintedLine, w
  <2> QED
    BY <1>5, <2>4 DEF t
<1> QED
  BY <1>12, <1>13

(* A body up to one more newline.                                          *)
LEMMA OneMore ==
  ASSUME NEW v \in String, NEW y \in 0..(Len(v) - 1), v[y + 1] = Newline
  PROVE  SubSeq(v, 1, y + 1) = Append(SubSeq(v, 1, y), Newline)
<1> DEFINE s == SubSeq(v, 1, y)
           a == Append(s, Newline)
           b == SubSeq(v, 1, y + 1)
<1>1. Len(v) \in Nat /\ y \in 0..Len(v) /\ y + 1 \in 0..Len(v)
  <2>1. Len(v) \in Nat
    BY LenNat
  <2> QED
    BY <2>1
<1>2. s \in String /\ Len(s) = y /\ \A k \in 1..y : s[k] = v[k]
  BY <1>1, PrefixFacts
<1>3. b \in String /\ Len(b) = y + 1 /\ \A k \in 1..(y + 1) : b[k] = v[k]
  BY <1>1, PrefixFacts
<1> HIDE DEF s, b
<1>4. a \in String /\ Len(a) = y + 1 /\ a[y + 1] = Newline /\ \A k \in 1..y : a[k] = s[k]
  BY <1>2, BreakFacts
<1> HIDE DEF a
<1>5. ASSUME NEW k \in 1..(y + 1)
      PROVE  b[k] = a[k]
  <2>1. CASE k = y + 1
    BY <1>3, <1>4, <2>1
  <2>2. CASE k # y + 1
    <3>1. k \in 1..y
      BY <1>1, <2>2
    <3> QED
      BY <1>2, <1>3, <1>4, <3>1
  <2> QED
    BY <2>1, <2>2
<1>6. b = a
  BY <1>3, <1>4, <1>5, SameString
<1> QED
  BY <1>6 DEF a, b, s

(* A body up to the end of one more line.                                  *)
LEMMA LineMore ==
  ASSUME NEW v \in String, NEW y \in 0..(Len(v) - 2), v[y + 1] = Newline, NEW z \in (y + 2)..Len(v)
  PROVE  SubSeq(v, 1, z) = Append(SubSeq(v, 1, y), Newline) \o SubSeq(v, y + 2, z)
<1> DEFINE a == SubSeq(v, 1, y + 1)
           t == SubSeq(v, y + 2, z)
           c == a \o t
           b == SubSeq(v, 1, z)
<1>1. /\ Len(v) \in Nat /\ y + 1 \in 0..Len(v) /\ z \in 0..Len(v) /\ y + 2 \in 1..(Len(v) + 1)
      /\ y \in 0..(Len(v) - 1) /\ y \in Nat /\ z \in Nat /\ y + 2 <= z
  <2>1. Len(v) \in Nat
    BY LenNat
  <2> QED
    BY <2>1
<1>2. a = Append(SubSeq(v, 1, y), Newline)
  BY <1>1, OneMore
<1>3. a \in String /\ Len(a) = y + 1 /\ \A k \in 1..(y + 1) : a[k] = v[k]
  BY <1>1, PrefixFacts
<1>4. b \in String /\ Len(b) = z /\ \A k \in 1..z : b[k] = v[k]
  BY <1>1, PrefixFacts
<1>5. /\ t \in String
      /\ Len(t) = IF y + 2 <= z THEN z - (y + 2) + 1 ELSE 0
      /\ \A k \in 1..Len(t) : t[k] = v[(y + 2) + k - 1]
  BY <1>1, PieceFacts
<1> HIDE DEF a, b, t
<1>6. Len(t) = z - y - 1
  <2>1. Len(t) = z - (y + 2) + 1
    BY <1>1, <1>5
  <2> QED
    BY <1>1, <2>1
<1>7. /\ c \in String /\ Len(c) = Len(a) + Len(t)
      /\ \A k \in 1..Len(a) : c[k] = a[k]
      /\ \A k \in 1..Len(t) : c[Len(a) + k] = t[k]
  BY <1>3, <1>5, CatFacts
<1> HIDE DEF c
<1>8. ASSUME NEW k \in 1..z
      PROVE  b[k] = c[k]
  <2>1. CASE k <= y + 1
    <3>1. k \in 1..(y + 1)
      BY <1>1, <2>1
    <3> QED
      BY <1>3, <1>4, <1>7, <3>1
  <2>2. CASE ~(k <= y + 1)
    <3>1. k - (y + 1) \in 1..(z - y - 1) /\ (y + 1) + (k - (y + 1)) = k /\ (y + 2) + (k - (y + 1)) - 1 = k
      BY <1>1, <2>2
    <3>2. c[(y + 1) + (k - (y + 1))] = t[k - (y + 1)]
      BY <1>3, <1>6, <1>7, <3>1
    <3>3. t[k - (y + 1)] = v[(y + 2) + (k - (y + 1)) - 1]
      BY <1>5, <1>6, <3>1
    <3> QED
      BY <1>4, <3>1, <3>2, <3>3
  <2> QED
    BY <2>1, <2>2
<1>9. Len(c) = z
  <2>1. Len(c) = (y + 1) + (z - y - 1)
    BY <1>3, <1>6, <1>7
  <2> QED
    BY <1>1, <2>1
<1>10. b = c
  BY <1>4, <1>7, <1>8, <1>9, SameString
<1> QED
  BY <1>2, <1>10 DEF b, c, t

(* Behind a newline a blank is printed, then the next line, or a dot and   *)
(* the newline of an empty one; what is read of it is that line again.     *)
LEMMA NextLinePrinted ==
  ASSUME NEW v \in String, Neat(v), NEW y \in 0..(Len(v) - 2), v[y + 1] = Newline
  PROVE  /\ Before(v, y + 2) \in 0..(Len(escaped(v)) - 1) /\ escaped(v)[Before(v, y + 2) + 1] = Blank
         /\ \E t, z : /\ PrintedLine(v, Before(v, y + 2) + 1, t, z) /\ t # <<>>
                      /\ SubSeq(v, 1, z) = IF t = <<Dot>> THEN Append(SubSeq(v, 1, y), Newline)
                                           ELSE Append(SubSeq(v, 1, y), Newline) \o t
<1> DEFINE w == escaped(v)
           x == y + 2
           g == Before(v, x)
<1>1. /\ Len(v) \in Nat /\ Len(w) \in Nat
      /\ \A i \in 1..(Len(v) + 1) : Before(v, i) \in 0..Len(w)
      /\ Before(v, Len(v) + 1) = Len(w)
      /\ \A i \in 1..Len(v) :
           /\ Before(v, i + 1) = Before(v, i) + Len(Piece(v, i))
           /\ \A k \in 1..Len(Piece(v, i)) : w[Before(v, i) + k] = Piece(v, i)[k]
  BY EscapedFacts
<1>2. /\ x \in 1..Len(v) /\ x \in 1..(Len(v) + 1) /\ x - 1 = y + 1 /\ x > 1 /\ x + 1 \in 1..(Len(v) + 1)
      /\ y \in 0..(Len(v) - 1) /\ y + 1 \in 0..Len(v) /\ y + 1 \in 1..Len(v) /\ y \in Nat /\ y + 2 = x
  BY <1>1
<1>3. /\ \A i \in 1..Len(v) :
           v[i] = Blank => i > 1 /\ i < Len(v) /\ v[i - 1] # Newline /\ v[i + 1] # Newline
      /\ \A i \in 2..Len(v) :
           v[i - 1] = Newline /\ v[i] = Dot => i < Len(v) /\ v[i + 1] # Newline
  BY DEF Neat
<1>4. v[x - 1] = Newline
  BY <1>2
<1>5. v[x] # Blank
  BY <1>2, <1>3, <1>4
<1> HIDE DEF w, x
<1>6. /\ Before(v, x + 1) = g + Len(Piece(v, x))
      /\ \A k \in 1..Len(Piece(v, x)) : w[g + k] = Piece(v, x)[k]
      /\ g \in 0..Len(w) /\ Before(v, x + 1) \in 0..Len(w)
  BY <1>1, <1>2
<1> HIDE DEF g
<1>7. CASE v[x] = Newline
  <2> DEFINE t == <<Dot>>
             z == y + 1
  <2>1. Piece(v, x) = <<Blank, Dot, Newline>>
    BY <1>2, <1>4, <1>7 DEF Piece
  <2>2. Len(Piece(v, x)) = 3 /\ Piece(v, x)[1] = Blank /\ Piece(v, x)[2] = Dot /\ Piece(v, x)[3] = Newline
    BY <2>1
  <2>3. 1 \in 1..3 /\ 2 \in 1..3 /\ 3 \in 1..3
    OBVIOUS
  <2>4. w[g + 1] = Blank /\ w[g + 2] = Dot /\ w[g + 3] = Newline /\ Before(v, x + 1) = g + 3
    BY <1>6, <2>2, <2>3
  <2>5. t \in String /\ Len(t) = 1 /\ t[1] = Dot /\ t # <<>> /\ \A k \in 1..1 : k = 1
    BY DEF String, Chars
  <2> HIDE DEF t
  <2>6. TrimmedText(t)
    <3>1. Dot # Newline /\ Dot # Blank
      BY DEF Dot, Newline, Blank
    <3>2. \A k \in 1..Len(t) : t[k] # Newline
      BY <2>5, <3>1
    <3>3. t[1] # Blank /\ t[Len(t)] # Blank
      BY <2>5, <3>1
    <3> QED
      BY <2>5, <3>2, <3>3 DEF TrimmedText, LineText
  <2>7. z # Len(v) /\ z \in 0..Len(v) /\ z + 2 = x + 1 /\ z + 1 = x
    BY <1>1, <1>2
  <2>8. After(v, z) = g + 3
    BY <2>4, <2>7 DEF After
  <2>9. (g + 1) + Len(t) + 1 = g + 3 /\ (g + 1) + Len(t) < Len(w) /\ g + 1 \in Nat /\ g \in 0..(Len(w) - 1)
    BY <1>1, <1>6, <2>4, <2>5
  <2>10. \A k \in 1..Len(t) : w[(g + 1) + k] = t[k]
    <3>1. (g + 1) + 1 = g + 2
      BY <1>1, <1>6
    <3> QED
      BY <2>4, <2>5, <3>1
  <2>11. v[z + 1] = Newline
    BY <1>7, <2>7
  <2>12. SubSeq(v, 1, z) = Append(SubSeq(v, 1, y), Newline)
    BY <1>2, OneMore
  <2> HIDE DEF z
  <2>13. PrintedLine(v, g + 1, t, z)
    BY <2>4, <2>6, <2>7, <2>8, <2>9, <2>10, <2>11, Zenon DEF PrintedLine, w
  <2>14. SubSeq(v, 1, z) = IF t = <<Dot>> THEN Append(SubSeq(v, 1, y), Newline)
                           ELSE Append(SubSeq(v, 1, y), Newline) \o t
    BY <2>12 DEF t
  <2>15. \E tt, zz : /\ PrintedLine(v, g + 1, tt, zz) /\ tt # <<>>
                     /\ SubSeq(v, 1, zz) = IF tt = <<Dot>> THEN Append(SubSeq(v, 1, y), Newline)
                                           ELSE Append(SubSeq(v, 1, y), Newline) \o tt
    BY <2>5, <2>13, <2>14, Zenon
  <2> QED
    BY <2>4, <2>9, <2>15 DEF g, w, x
<1>8. CASE v[x] # Newline
  <2>1. Piece(v, x) = <<Blank, v[x]>>
    BY <1>2, <1>4, <1>5, <1>8 DEF Piece
  <2>2. Len(Piece(v, x)) = 2 /\ Piece(v, x)[1] = Blank /\ Piece(v, x)[2] = v[x]
    BY <2>1
  <2>3. 1 \in 1..2 /\ 2 \in 1..2
    OBVIOUS
  <2>4. w[g + 1] = Blank /\ w[g + 2] = v[x] /\ Before(v, x + 1) = g + 2
    BY <1>6, <2>2, <2>3
  <2>5. PICK z \in (x - 1)..Len(v) : LineOf(v, x, z)
    BY <1>2, LineExists
  <2>6. (\A i \in x..z : v[i] # Newline) /\ (z < Len(v) => v[z + 1] = Newline)
    BY <2>5 DEF LineOf
  <2>7. z \in x..Len(v) /\ z \in 0..Len(v) /\ z \in Nat
    <3>1. z # x - 1
      <4>1. ASSUME z = x - 1
            PROVE  FALSE
        <5>1. z < Len(v) /\ z + 1 = x
          BY <1>1, <1>2, <4>1
        <5> QED
          BY <1>8, <2>6, <5>1
      <4> QED
        BY <4>1
    <3> QED
      BY <1>1, <1>2, <2>5, <3>1
  <2> DEFINE t == SubSeq(v, x, z)
  <2>8. /\ TrimmedText(t) /\ Len(t) = z - x + 1
        /\ \A k \in 1..(z - x + 1) : t[k] = v[x + k - 1]
    BY <1>2, <1>4, <2>5, LineIsTrimmed
  <2>9. SubSeq(v, 1, z) = Append(SubSeq(v, 1, y), Newline) \o t
    <3>1. z \in (y + 2)..Len(v) /\ y \in 0..(Len(v) - 2)
      BY <1>2, <2>7
    <3> QED
      BY <3>1, LineMore DEF x
  <2>10. /\ \A k \in 1..(z - x) : w[Before(v, x + 1) + k] = v[x + k]
         /\ Before(v, z + 1) = Before(v, x + 1) + (z - x)
         /\ z < Len(v) => /\ w[Before(v, z + 1) + 1] = Newline
                          /\ Before(v, z + 2) = Before(v, z + 1) + 1
    BY <1>2, <2>5, <2>7, LinePrinted DEF w
  <2> HIDE DEF t
  <2>11. t # <<>> /\ t # <<Dot>>
    <3>1. Len(t) # 0
      BY <1>1, <1>2, <2>7, <2>8
    <3>2. ASSUME t = <<Dot>>
          PROVE  FALSE
      <4>1. Len(t) = 1 /\ t[1] = Dot
        BY <3>2
      <4>2. z = x /\ x + 1 - 1 = x /\ 1 \in 1..(z - x + 1)
        <5>1. z - x + 1 = 1
          BY <2>8, <4>1
        <5> QED
          BY <1>2, <2>7, <5>1
      <4>3. v[x] = Dot
        BY <2>8, <4>1, <4>2
      <4>4. x \in 2..Len(v)
        BY <1>1, <1>2
      <4>5. x < Len(v) /\ v[x + 1] # Newline
        BY <1>3, <1>4, <4>3, <4>4
      <4> QED
        BY <2>6, <4>2, <4>5
    <3> QED
      BY <3>1, <3>2, EmptyString
  <2>12. (g + 1) + Len(t) = Before(v, z + 1) /\ g + 1 \in Nat /\ g \in 0..(Len(w) - 1)
         /\ (g + 1) + Len(t) + 1 = Before(v, z + 1) + 1
    <3>1. g \in Nat /\ Len(w) \in Nat /\ g + 2 <= Len(w)
      BY <1>1, <1>6, <2>4
    <3>2. Before(v, z + 1) = (g + 2) + (z - x)
      BY <2>4, <2>10
    <3>3. (g + 1) + (z - x + 1) = (g + 2) + (z - x)
      BY <1>2, <2>7, <3>1
    <3> QED
      BY <2>8, <3>1, <3>2, <3>3
  <2>13. \A k \in 1..Len(t) : w[(g + 1) + k] = t[k]
    <3> SUFFICES ASSUME NEW k \in 1..Len(t)
                 PROVE  w[(g + 1) + k] = t[k]
      OBVIOUS
    <3>1. k \in 1..(z - x + 1) /\ t[k] = v[x + k - 1]
      BY <2>8
    <3>2. CASE k = 1
      <4>1. (g + 1) + k = g + 2 /\ x + k - 1 = x
        BY <1>1, <1>2, <1>6, <3>2
      <4> QED
        BY <2>4, <3>1, <4>1
    <3>3. CASE k # 1
      <4>1. k - 1 \in 1..(z - x) /\ (g + 2) + (k - 1) = (g + 1) + k /\ x + (k - 1) = x + k - 1
        BY <1>1, <1>2, <1>6, <2>7, <3>1, <3>3
      <4>2. w[(g + 2) + (k - 1)] = v[x + (k - 1)]
        BY <2>4, <2>10, <4>1
      <4> QED
        BY <3>1, <4>1, <4>2
    <3> QED
      BY <3>2, <3>3
  <2>14. PrintedLine(v, g + 1, t, z)
    <3>1. z = Len(v) \/ v[z + 1] = Newline
      BY <1>1, <2>6, <2>7
    <3>2. CASE z = Len(v)
      <4>1. (g + 1) + Len(t) = Len(w)
        BY <1>1, <2>12, <3>2
      <4>2. After(v, z) = (g + 1) + Len(t) + 1
        BY <3>2, <4>1 DEF After, w
      <4> QED
        BY <2>7, <2>8, <2>12, <2>13, <3>2, <4>1, <4>2, Zenon DEF PrintedLine, w
    <3>3. CASE z # Len(v)
      <4>1. z < Len(v) /\ z + 2 \in 1..(Len(v) + 1)
        BY <1>1, <2>7, <3>3
      <4>2. w[Before(v, z + 1) + 1] = Newline /\ Before(v, z + 2) = Before(v, z + 1) + 1
            /\ Before(v, z + 2) \in 0..Len(w)
        BY <1>1, <2>10, <4>1
      <4>3. After(v, z) = (g + 1) + Len(t) + 1 /\ w[(g + 1) + Len(t) + 1] = Newline
        BY <2>12, <3>3, <4>2 DEF After
      <4>4. (g + 1) + Len(t) < Len(w)
        <5>1. (g + 1) + Len(t) + 1 <= Len(w)
          BY <1>1, <2>12, <4>2
        <5>2. Len(t) \in Nat
          BY <2>8, LenNat DEF TrimmedText, LineText
        <5> QED
          BY <1>1, <2>12, <5>1, <5>2
      <4> QED
        BY <2>7, <2>8, <2>12, <2>13, <3>1, <3>3, <4>3, <4>4, Zenon DEF PrintedLine, w
    <3> QED
      BY <3>2, <3>3
  <2>15. \E tt, zz : /\ PrintedLine(v, g + 1, tt, zz) /\ tt # <<>>
                     /\ SubSeq(v, 1, zz) = IF tt = <<Dot>> THEN Append(SubSeq(v, 1, y), Newline)
                                           ELSE Append(SubSeq(v, 1, y), Newline) \o tt
    BY <2>9, <2>11, <2>14, Zenon
  <2> QED
    BY <2>4, <2>12, <2>15 DEF g, w, x
<1> QED
  BY <1>7, <1>8

-----------------------------------------------------------------------------
(* How far the parser has got in a file that was written.                  *)

WrittenWell ==
  /\ source # <<>> /\ Written
  /\ \A i \in 1..Len(source) : \A j \in 1..Len(source[i]) : Printable(source[i][j][2])

(* Where field j of record k begins, and its body.                         *)
FieldStart(voc, k, j) == Place(voc, k) + Offset(voc[k], j)
BodyStart(voc, k, j) == FieldStart(voc, k, j) + Len(voc[k][j][1]) + 2

(* Field j of record k in the file.                                        *)
LEMMA PrintedFacts ==
  ASSUME WrittenWell, NEW k \in 1..Len(source), NEW j \in 1..Len(source[k])
  PROVE  /\ Len(source) \in Nat /\ Len(source[k]) \in Nat
         /\ source[k][j] \in Seq(Alnum) \X String
         /\ Neat(source[k][j][2]) /\ Len(source[k][j][2]) <= MaxBody
         /\ source[k][j][2] = <<>> \/ source[k][j][2][Len(source[k][j][2])] # Newline
         /\ file \in String /\ Len(file) \in Nat /\ FieldStart(source, k, j) \in Nat
         /\ FieldAt(file, FieldStart(source, k, j), source[k][j])
         /\ FieldStart(source, k, j + 1) = FieldStart(source, k, j) + FieldLen(source[k][j])
         /\ FieldStart(source, k, j + 1) < Place(source, k + 1)
         /\ Place(source, k + 1) <= Len(file)
<1> DEFINE r == source[k]
           f == r[j]
<1>1. source \in Sources /\ file = write(source) /\ source \in Vocabularies
  BY SourceFacts DEF WrittenWell, Written
<1>2. /\ file \in String /\ Len(source) \in Nat
      /\ \A m \in 1..(Len(source) + 1) : Place(source, m) \in 0..Len(file)
      /\ \A m \in 1..Len(source) :
           /\ Place(source, m + 1) = Place(source, m) + RecordLen(source[m])
           /\ RecordAt(file, Place(source, m), source[m])
  BY <1>1, VocabularyWritten
<1>3. Len(file) \in Nat
  BY <1>2, LenNat
<1>4. r \in Seq(Seq(Alnum) \X String) /\ f \in Seq(Alnum) \X String
  <2>1. r \in Seq(Seq(Alnum) \X String)
    BY <1>1, RecsFacts
  <2> QED
    BY <2>1, FieldsFacts
<1>5. Len(f[2]) <= MaxBody /\ Printable(f[2])
  BY <1>1, SourceFacts DEF WrittenWell
<1>6. f[2] \in String /\ Neat(f[2]) /\ (f[2] = <<>> \/ f[2][Len(f[2])] # Newline)
  <2>1. f[2] \in String
    BY <1>4, FieldTypes
  <2>2. Canonical(f[2]) /\ (f[2] = <<>> \/ f[2][Len(f[2])] # Newline)
    BY <1>5 DEF Printable
  <2> HIDE DEF f
  <2>3. Neat(f[2])
    BY <2>1, <2>2, CanonicalIsNeat
  <2> QED
    BY <2>1, <2>2, <2>3
<1> HIDE DEF r
<1>7. /\ Len(r) \in Nat
      /\ \A m \in 1..(Len(r) + 1) : Offset(r, m) \in Nat /\ Offset(r, m) <= Offset(r, Len(r) + 1)
      /\ \A m \in 1..Len(r) : Offset(r, m + 1) = Offset(r, m) + FieldLen(r[m])
      /\ RecordLen(r) = Offset(r, Len(r) + 1) + 1
  BY <1>4, OffsetFacts DEF RecordLen
<1>8. j \in 1..Len(r)
  BY DEF r
<1>9. j \in 1..(Len(r) + 1) /\ j + 1 \in 1..(Len(r) + 1) /\ Len(r) + 1 \in 1..(Len(r) + 1)
      /\ k \in 1..(Len(source) + 1) /\ k + 1 \in 1..(Len(source) + 1)
  BY <1>2, <1>7, <1>8
<1> DEFINE R == Place(source, k)
           a == Offset(r, j)
           b == Offset(r, j + 1)
           c == Offset(r, Len(r) + 1)
<1>10. R \in Nat /\ a \in Nat /\ b \in Nat /\ c \in Nat /\ b <= c
  BY <1>2, <1>3, <1>7, <1>9
<1>11. b = a + FieldLen(f)
  BY <1>7, <1>8
<1>12. Place(source, k + 1) = R + (c + 1) /\ Place(source, k + 1) <= Len(file)
  <2>1. Place(source, k + 1) = R + RecordLen(r)
    BY <1>2 DEF r
  <2>2. Place(source, k + 1) \in 0..Len(file)
    BY <1>2, <1>9
  <2> QED
    BY <1>3, <1>7, <2>1, <2>2
<1>13. FieldAt(file, R + a, f)
  <2>1. RecordAt(file, R, r)
    BY <1>2 DEF r
  <2> QED
    BY <1>8, <2>1 DEF RecordAt
<1>14. FieldStart(source, k, j) = R + a /\ FieldStart(source, k, j + 1) = R + b
  BY DEF FieldStart, r
<1> HIDE DEF R, a, b, c, f
<1>15. FieldLen(f) \in Nat
  BY <1>4, FieldLenNat
<1>16. /\ FieldStart(source, k, j + 1) = FieldStart(source, k, j) + FieldLen(f)
       /\ FieldStart(source, k, j + 1) < Place(source, k + 1)
       /\ FieldStart(source, k, j) \in Nat
  <2>1. R + b = (R + a) + FieldLen(f) /\ R + a \in Nat
    BY <1>10, <1>11, <1>15
  <2>2. R + b < R + (c + 1)
    BY <1>10
  <2> QED
    BY <1>12, <1>14, <2>1, <2>2
<1>17. FieldAt(file, FieldStart(source, k, j), f)
  BY <1>13, <1>14
<1> QED
  BY <1>2, <1>3, <1>4, <1>5, <1>6, <1>7, <1>12, <1>16, <1>17 DEF f, r

(* Record k in the file.                                                   *)
LEMMA RecordFacts ==
  ASSUME WrittenWell
  PROVE  /\ Len(source) \in Nat \ {0} /\ file \in String /\ Len(file) \in Nat
         /\ Place(source, 1) = 0 /\ Place(source, Len(source) + 1) = Len(file)
         /\ \A k \in 1..(Len(source) + 1) : Place(source, k) \in 0..Len(file)
         /\ \A k \in 1..Len(source) :
              /\ Len(source[k]) \in Nat \ {0}
              /\ FieldStart(source, k, 1) = Place(source, k)
              /\ Place(source, k + 1) = FieldStart(source, k, Len(source[k]) + 1) + 1
              /\ file[Place(source, k + 1)] = Newline
<1>1. source \in Sources /\ file = write(source) /\ source \in Vocabularies /\ source # <<>>
  BY SourceFacts DEF WrittenWell, Written
<1>2. /\ file \in String /\ Len(source) \in Nat
      /\ Place(source, 1) = 0 /\ Place(source, Len(source) + 1) = Len(file)
      /\ \A k \in 1..(Len(source) + 1) : Place(source, k) \in 0..Len(file)
      /\ \A k \in 1..Len(source) :
           /\ Place(source, k + 1) = Place(source, k) + RecordLen(source[k])
           /\ RecordAt(file, Place(source, k), source[k])
  BY <1>1, VocabularyWritten
<1>3. Len(file) \in Nat
  BY <1>2, LenNat
<1>4. Len(source) # 0
  BY <1>1 DEF Vocabularies
<1>5. ASSUME NEW k \in 1..Len(source)
      PROVE  /\ Len(source[k]) \in Nat \ {0}
             /\ FieldStart(source, k, 1) = Place(source, k)
             /\ Place(source, k + 1) = FieldStart(source, k, Len(source[k]) + 1) + 1
             /\ file[Place(source, k + 1)] = Newline
  <2> DEFINE r == source[k]
             R == Place(source, k)
             c == Offset(r, Len(r) + 1)
  <2>1. r \in Seq(Seq(Alnum) \X String) /\ r # <<>>
    BY <1>1, RecsFacts
  <2>2. Len(r) \in Nat /\ Len(r) # 0
    BY <2>1
  <2>3. Offset(r, 1) = 0 /\ c \in Nat /\ RecordLen(r) = c + 1
    <3>1. Len(r) + 1 \in 1..(Len(r) + 1)
      BY <2>2
    <3> QED
      BY <2>1, <3>1, OffsetFacts DEF RecordLen
  <2>4. R \in Nat
    <3>1. k \in 1..(Len(source) + 1)
      BY <1>2
    <3> QED
      BY <1>2, <1>3, <3>1
  <2>5. Place(source, k + 1) = R + RecordLen(r) /\ file[R + RecordLen(r)] = Newline
    BY <1>2 DEF RecordAt
  <2>6. FieldStart(source, k, 1) = R + Offset(r, 1) /\ FieldStart(source, k, Len(r) + 1) = R + c
    BY DEF FieldStart
  <2> HIDE DEF r, R, c
  <2>7. FieldStart(source, k, 1) = R /\ Place(source, k + 1) = FieldStart(source, k, Len(r) + 1) + 1
    BY <2>3, <2>4, <2>5, <2>6
  <2> QED
    BY <2>2, <2>5, <2>7 DEF r, R
<1> QED
  BY <1>2, <1>3, <1>4, <1>5

(* A line in the file, behind h characters, that appendFieldBody reads.    *)
LEMMA LineReadIs ==
  ASSUME file \in String, NEW h \in 0..Len(file), pos \in 1..(h + 1), \A i \in pos..h : file[i] = Blank,
         NEW t, TrimmedText(t), h + Len(t) + 1 <= Len(file),
         \A k \in 1..Len(t) : file[h + k] = t[k], file[h + Len(t) + 1] = Newline
  PROVE  lineEnd = h + Len(t) + 1 /\ LineRead = t
<1>1. Len(file) \in Nat /\ t \in String /\ Len(t) \in Nat /\ h \in Nat
  <2>1. Len(file) \in Nat /\ t \in String
    BY LenNat DEF TrimmedText, LineText
  <2> QED
    BY <2>1, LenNat
<1>2. \A k \in 1..Len(t) : t[k] # Newline
  BY DEF TrimmedText, LineText
<1>3. pos \in 1..(Len(file) + 1) /\ h + 1 \in pos..(Len(file) + 1) /\ h + 1 \in 1..(Len(file) + 1) /\ (h + 1) - 1 = h
  BY <1>1
<1>4. file[h + 1] # Blank
  <2>1. CASE t = <<>>
    <3>1. Len(t) = 0
      BY <2>1
    <3>2. h + Len(t) + 1 = h + 1
      BY <1>1, <3>1
    <3> QED
      BY <3>2 DEF Newline, Blank
  <2>2. CASE t # <<>>
    <3>1. t[1] # Blank
      BY <2>2 DEF TrimmedText, LineText
    <3>2. 1 \in 1..Len(t)
      BY <1>1, <2>2, EmptyString
    <3> QED
      BY <3>1, <3>2
  <2> QED
    BY <2>1, <2>2
<1>5. skip(pos, {Blank}) = h + 1
  <2>1. \A i \in pos..((h + 1) - 1) : file[i] \in {Blank}
    BY <1>3
  <2>2. file[h + 1] \notin {Blank}
    BY <1>4
  <2> QED
    BY <1>3, <2>1, <2>2, SkipIs
<1>6. lineStart = h + 1
  BY <1>5 DEF lineStart
<1> DEFINE q == h + Len(t) + 1
<1>7. q \in (h + 1)..(Len(file) + 1) /\ q - 1 = h + Len(t) /\ q - 1 \in 0..Len(file)
  BY <1>1
<1>8. \A i \in (h + 1)..(q - 1) : file[i] \in Chars \ {Newline}
  <2> SUFFICES ASSUME NEW i \in (h + 1)..(q - 1)
               PROVE  file[i] \in Chars \ {Newline}
    OBVIOUS
  <2>1. i - h \in 1..Len(t) /\ h + (i - h) = i /\ i \in 1..Len(file)
    BY <1>1, <1>7
  <2>2. file[i] \in Chars
    BY <2>1 DEF String
  <2>3. file[h + (i - h)] # Newline
    BY <1>2, <2>1
  <2> QED
    BY <2>1, <2>2, <2>3
<1>9. file[q] \notin Chars \ {Newline}
  OBVIOUS
<1> HIDE DEF q
<1>10. skip(h + 1, Chars \ {Newline}) = q
  BY <1>3, <1>7, <1>8, <1>9, SkipIs
<1>11. lineEnd = q
  BY <1>6, <1>10 DEF lineEnd
<1>12. LineRead = t
  <2> DEFINE s == SubSeq(file, h + 1, q - 1)
  <2>1. /\ s \in String
        /\ Len(s) = IF h + 1 <= q - 1 THEN (q - 1) - (h + 1) + 1 ELSE 0
        /\ \A k \in 1..Len(s) : s[k] = file[(h + 1) + k - 1]
    BY <1>3, <1>7, PieceFacts
  <2>2. LineRead = s
    BY <1>6, <1>11 DEF LineRead
  <2> HIDE DEF s
  <2>3. Len(s) = Len(t)
    <3>1. CASE h + 1 <= q - 1
      <4>1. Len(s) = (q - 1) - (h + 1) + 1
        BY <2>1, <3>1
      <4>2. (q - 1) - (h + 1) + 1 = Len(t)
        BY <1>1, <1>7
      <4> QED
        BY <4>1, <4>2
    <3>2. CASE ~(h + 1 <= q - 1)
      <4>1. Len(s) = 0
        BY <2>1, <3>2
      <4>2. Len(t) = 0
        BY <1>1, <1>7, <3>2
      <4> QED
        BY <4>1, <4>2
    <3> QED
      BY <3>1, <3>2
  <2>4. \A k \in 1..Len(s) : s[k] = t[k]
    <3> SUFFICES ASSUME NEW k \in 1..Len(s)
                 PROVE  s[k] = t[k]
      OBVIOUS
    <3>1. (h + 1) + k - 1 = h + k /\ k \in 1..Len(t)
      BY <1>1, <2>3
    <3> QED
      BY <2>1, <3>1
  <2> QED
    BY <1>1, <2>1, <2>2, <2>3, <2>4, SameString
<1> QED
  BY <1>11, <1>12 DEF q

-----------------------------------------------------------------------------
(* What has been read.                                                     *)

(* The first m fields of record r.                                         *)
Loaded(r, m) == [f \in {r[i][1] : i \in 1..m} |-> r[CHOOSE i \in 1..m : r[i][1] = f][2]]

(* Each of the fields has its own body, since their names differ.          *)
LEMMA LoadedIs ==
  ASSUME NEW r, NEW l \in Nat, \A i, j \in 1..l : r[i][1] = r[j][1] => i = j,
         NEW m \in 0..l
  PROVE  /\ DOMAIN Loaded(r, m) = {r[i][1] : i \in 1..m}
         /\ \A i \in 1..m : Loaded(r, m)[r[i][1]] = r[i][2]
<1>1. DOMAIN Loaded(r, m) = {r[i][1] : i \in 1..m}
  BY DEF Loaded
<1>2. ASSUME NEW i \in 1..m
      PROVE  Loaded(r, m)[r[i][1]] = r[i][2]
  <2> DEFINE f == r[i][1]
             c == CHOOSE j \in 1..m : r[j][1] = f
  <2>1. c \in 1..m /\ r[c][1] = f
    <3>1. i \in 1..m /\ r[i][1] = f
      OBVIOUS
    <3> HIDE DEF f
    <3> QED
      BY <3>1
  <2>2. f \in {r[j][1] : j \in 1..m}
    OBVIOUS
  <2>3. Loaded(r, m)[f] = r[c][2]
    <3> HIDE DEF f
    <3> QED
      BY <2>2 DEF Loaded
  <2> HIDE DEF c
  <2>4. c = i
    <3>1. c \in 1..l /\ i \in 1..l
      BY <2>1
    <3> QED
      BY <2>1, <3>1
  <2> QED
    BY <2>3, <2>4
<1> QED
  BY <1>1, <1>2

(* insert adds the next field.                                             *)
LEMMA LoadedMore ==
  ASSUME NEW r, NEW l \in Nat, \A i, j \in 1..l : r[i][1] = r[j][1] => i = j,
         NEW m \in 1..l
  PROVE  [f \in DOMAIN Loaded(r, m - 1) \cup {r[m][1]} |->
            IF f \in DOMAIN Loaded(r, m - 1) THEN Loaded(r, m - 1)[f] ELSE r[m][2]] = Loaded(r, m)
<1> DEFINE L == Loaded(r, m - 1)
           M == Loaded(r, m)
           x == r[m][1]
           D == DOMAIN L \cup {x}
           N == [f \in D |-> IF f \in DOMAIN L THEN L[f] ELSE r[m][2]]
<1>1. m - 1 \in 0..l /\ m \in 0..l /\ m \in 1..m
  OBVIOUS
<1>2. DOMAIN L = {r[i][1] : i \in 1..(m - 1)} /\ \A i \in 1..(m - 1) : L[r[i][1]] = r[i][2]
  BY <1>1, LoadedIs
<1>3. DOMAIN M = {r[i][1] : i \in 1..m} /\ \A i \in 1..m : M[r[i][1]] = r[i][2]
  BY <1>1, LoadedIs
<1>4. DOMAIN M = D
  <2>1. \A i \in 1..m : i = m \/ i \in 1..(m - 1)
    OBVIOUS
  <2>2. \A i \in 1..(m - 1) : i \in 1..m
    OBVIOUS
  <2> HIDE DEF L, M
  <2> QED
    BY <1>1, <1>2, <1>3, <2>1, <2>2
<1>5. x \notin DOMAIN L
  <2>1. ASSUME NEW i \in 1..(m - 1), r[i][1] = x
        PROVE  FALSE
    <3>1. i \in 1..l /\ m \in 1..l /\ i # m
      OBVIOUS
    <3> QED
      BY <2>1, <3>1
  <2> HIDE DEF L, x
  <2> QED
    BY <1>2, <2>1
<1>6. ASSUME NEW f \in D
      PROVE  M[f] = IF f \in DOMAIN L THEN L[f] ELSE r[m][2]
  <2>1. CASE f \in DOMAIN L
    <3> HIDE DEF L, M
    <3>1. PICK i \in 1..(m - 1) : f = r[i][1]
      BY <1>2, <2>1
    <3>2. i \in 1..m
      OBVIOUS
    <3> QED
      BY <1>2, <1>3, <2>1, <3>1, <3>2
  <2>2. CASE f \notin DOMAIN L
    <3>1. f = x
      BY <2>2
    <3>2. M[x] = r[m][2]
      <4> HIDE DEF M
      <4> QED
        BY <1>1, <1>3
    <3> QED
      BY <2>2, <3>1, <3>2
  <2> QED
    BY <2>1, <2>2
<1>7. M = [f \in D |-> M[f]]
  <2>1. M = [f \in DOMAIN M |-> M[f]]
    BY DEF Loaded
  <2> QED
    BY <1>4, <2>1
<1> HIDE DEF L, M, D
<1>8. M = N
  BY <1>6, <1>7
<1> QED
  BY <1>8 DEF D, L, M

(* The record nextRecord begins with.                                      *)
LEMMA LoadedNothing == \A r : Loaded(r, 0) = NoRecord
<1> SUFFICES ASSUME NEW r
             PROVE  Loaded(r, 0) = NoRecord
  OBVIOUS
<1>1. {r[i][1] : i \in 1..0} = {}
  OBVIOUS
<1> QED
  BY <1>1 DEF Loaded, NoRecord

(* All fields are the record.                                              *)
LEMMA LoadedAll ==
  ASSUME NEW r, DOMAIN r = 1..Len(r)
  PROVE  Loaded(r, Len(r)) = asRecord(r)
BY DEF Loaded, asRecord

-----------------------------------------------------------------------------
(* How far the parser has got.                                             *)

ReadUpTo(k) == records = [i \in 1..(k - 1) |-> asRecord(source[i])]

InField(k, j) ==
  /\ k \in 1..Len(source) /\ j \in 1..Len(source[k])
  /\ ReadUpTo(k) /\ rec = Loaded(source[k], j - 1)

AtNext(k) ==
  /\ k \in 1..(Len(source) + 1) /\ ReadUpTo(k)
  /\ pos = Place(source, k) + 1 /\ isBOL = TRUE /\ isEOF = (k = Len(source) + 1)
AtName(k, j) ==
  /\ InField(k, j)
  /\ pos = FieldStart(source, k, j) + 1 /\ isBOL = TRUE /\ isEOF = FALSE
AtSep(k, j) ==
  /\ InField(k, j) /\ field = source[k][j][1]
  /\ pos = FieldStart(source, k, j) + Len(source[k][j][1]) + 1 /\ isEOF = FALSE
AtBody(k, j) ==
  /\ InField(k, j) /\ field = source[k][j][1]
  /\ pos = BodyStart(source, k, j) /\ isEOF = FALSE
(* y characters of the body have been read, and the end of their line.     *)
AtEat(k, j, y) ==
  LET v == source[k][j][2]
  IN  /\ InField(k, j) /\ field = source[k][j][1]
      /\ y \in 0..Len(v) /\ (y = Len(v) \/ v[y + 1] = Newline) /\ body = SubSeq(v, 1, y)
      /\ pos = BodyStart(source, k, j) + After(v, y) + 1 /\ isBOL = TRUE /\ isEOF = FALSE
(* The next line begins, behind its first blank.                           *)
AtMore(k, j, y) ==
  LET v == source[k][j][2]
  IN  /\ InField(k, j) /\ field = source[k][j][1]
      /\ y \in 0..(Len(v) - 2) /\ v[y + 1] = Newline /\ body = SubSeq(v, 1, y)
      /\ pos = BodyStart(source, k, j) + Before(v, y + 2) + 2 /\ isEOF = FALSE
AtInsert(k, j) ==
  /\ InField(k, j) /\ field = source[k][j][1] /\ body = source[k][j][2] /\ isBOL = TRUE
  /\ IF j < Len(source[k])
     THEN n = 0 /\ isEOF = FALSE /\ pos = FieldStart(source, k, j + 1) + 1
     ELSE n = 1 /\ isEOF = (k = Len(source)) /\ pos = Place(source, k + 1) + 1

Progress ==
  \/ pc = "construct" /\ records = <<>> /\ pos = 1 /\ isBOL = TRUE /\ isEOF = FALSE
  \/ pc = "next" /\ \E k : AtNext(k)
  \/ pc = "name" /\ \E k, j : AtName(k, j)
  \/ pc = "sep" /\ \E k, j : AtSep(k, j)
  \/ pc = "body" /\ \E k, j : AtBody(k, j)
  \/ pc = "eat" /\ \E k, j, y : AtEat(k, j, y)
  \/ pc = "more" /\ \E k, j, y : AtMore(k, j, y)
  \/ pc = "insert" /\ \E k, j : AtInsert(k, j)
  \/ pc = "end" /\ ReadUpTo(Len(source) + 1)
  \/ pc = "failed"

(* A step that does not return or insert leaves these alone.               *)
LEMMA InFieldKept ==
  ASSUME NEW k, NEW j, InField(k, j), source' = source, rec' = rec, records' = records
  PROVE  InField(k, j)'
BY DEF InField, ReadUpTo

(* A field does not begin with a blank or a newline, even if its name is   *)
(* empty.                                                                  *)
LEMMA NameBegins ==
  ASSUME NEW f \in Seq(Alnum) \X String, NEW w, NEW o \in Nat, FieldAt(w, o, f)
  PROVE  w[o + 1] \notin {Blank, Newline}
<1> DEFINE l == Len(f[1])
<1>1. l \in Nat /\ (\A i \in 1..l : f[1][i] \in Alnum)
  BY FieldTypes
<1>2. (\A i \in 1..l : w[o + i] = f[1][i]) /\ w[o + l + 1] = Colon
  BY DEF FieldAt
<1>3. Colon \notin {Blank, Newline} /\ \A c \in Alnum : c \notin {Blank, Newline}
  <2>1. Colon \notin {Blank, Newline}
    BY DEF Colon, Blank, Newline
  <2>2. Alnum \cap {Blank, Dot, Colon, Newline} = {}
    BY AlnumAssumption
  <2> QED
    BY <2>1, <2>2
<1> HIDE DEF l
<1>4. CASE l = 0
  <2>1. o + l + 1 = o + 1
    BY <1>1, <1>4
  <2> QED
    BY <1>2, <1>3, <2>1
<1>5. CASE l # 0
  <2>1. 1 \in 1..l
    BY <1>1, <1>5
  <2> QED
    BY <1>1, <1>2, <1>3, <2>1
<1> QED
  BY <1>4, <1>5

-----------------------------------------------------------------------------
(* The steps.                                                              *)

(* In the file neither.                                                    *)
LEMMA FieldBegins ==
  ASSUME WrittenWell, NEW k \in 1..Len(source), NEW j \in 1..Len(source[k])
  PROVE  /\ FieldStart(source, k, j) \in Nat /\ FieldStart(source, k, j) + 1 <= Len(file)
         /\ file[FieldStart(source, k, j) + 1] \notin {Blank, Newline}
<1> DEFINE f == source[k][j]
           o == FieldStart(source, k, j)
           a == Len(f[1])
           e == Len(escaped(f[2]))
           q == FieldStart(source, k, j + 1)
           R == Place(source, k + 1)
<1>1. /\ f \in Seq(Alnum) \X String /\ o \in Nat /\ FieldAt(file, o, f) /\ Len(file) \in Nat
      /\ q = o + FieldLen(f) /\ q < R /\ R <= Len(file)
  BY PrintedFacts
<1> HIDE DEF o, q, R, f
<1>2. file[o + 1] \notin {Blank, Newline}
  BY <1>1, NameBegins
<1>3. a \in Nat /\ e \in Nat /\ FieldLen(f) = a + 3 + e
  BY <1>1, FieldTypes, EscapedFacts DEF FieldLen
<1> HIDE DEF a, e
<1>4. q = o + (a + 3 + e)
  BY <1>1, <1>3
<1>5. R \in Nat
  <2>1. k + 1 \in 1..(Len(source) + 1)
    <3>1. Len(source) \in Nat
      BY RecordFacts
    <3> QED
      BY <3>1
  <2>2. Place(source, k + 1) \in 0..Len(file)
    BY <2>1, RecordFacts
  <2> QED
    BY <1>1, <2>2 DEF R
<1>6. o + 1 <= Len(file)
  BY <1>1, <1>3, <1>4, <1>5
<1> QED
  BY <1>1, <1>2, <1>6 DEF o

(* A record begins in the file where the one before it ends.               *)
LEMMA RecordBegins ==
  ASSUME WrittenWell, NEW k \in 1..(Len(source) + 1)
  PROVE  /\ Place(source, k) \in Nat /\ Place(source, k) + 1 \in 1..(Len(file) + 1)
         /\ k = Len(source) + 1 <=> Place(source, k) + 1 = Len(file) + 1
         /\ k # Len(source) + 1 => file[Place(source, k) + 1] \notin {Blank, Newline}
<1>1. /\ Len(source) \in Nat \ {0} /\ Len(file) \in Nat
      /\ Place(source, Len(source) + 1) = Len(file) /\ Place(source, k) \in 0..Len(file)
  BY RecordFacts
<1>2. CASE k = Len(source) + 1
  BY <1>1, <1>2
<1>3. CASE k # Len(source) + 1
  <2>1. k \in 1..Len(source)
    BY <1>1, <1>3
  <2>2. Len(source[k]) \in Nat \ {0} /\ FieldStart(source, k, 1) = Place(source, k)
    BY <2>1, RecordFacts
  <2>3. 1 \in 1..Len(source[k])
    BY <2>2
  <2>4. /\ FieldStart(source, k, 1) + 1 <= Len(file)
        /\ file[FieldStart(source, k, 1) + 1] \notin {Blank, Newline}
    BY <2>1, <2>3, FieldBegins
  <2>5. Place(source, k) + 1 <= Len(file) /\ file[Place(source, k) + 1] \notin {Blank, Newline}
    BY <2>2, <2>4
  <2> QED
    BY <1>1, <1>3, <2>5
<1> QED
  BY <1>2, <1>3

(* eatSpacesAndEmptyLines, where there is nothing to eat.                  *)
LEMMA NothingEaten ==
  ASSUME file \in String, pos \in 1..(Len(file) + 1),
         pos = Len(file) + 1 \/ file[pos] \notin {Blank, Newline},
         eatSpacesAndEmptyLines
  PROVE  /\ pos' = pos /\ n' = 0 /\ isBOL' = isBOL /\ isEOF' = (isEOF \/ AtEOF(pos))
<1>1. Len(file) \in Nat
  BY LenNat
<1>2. eaten = pos
  <2>1. pos \in pos..(Len(file) + 1) /\ \A i \in pos..(pos - 1) : file[i] \in {Blank, Newline}
    BY <1>1
  <2>2. skip(pos, {Blank, Newline}) = pos
    BY <2>1, SkipIs
  <2> QED
    BY <2>2 DEF eaten
<1>3. n' = Cardinality({i \in pos..(eaten - 1) : file[i] = Newline})
  BY DEF eatSpacesAndEmptyLines
<1>4. {i \in pos..(eaten - 1) : file[i] = Newline} = {}
  BY <1>1, <1>2
<1>5. n' = 0
  BY <1>3, <1>4, FS_EmptySet
<1>6. isBOL' = IF eaten > pos THEN file[eaten - 1] = Newline ELSE isBOL
  BY DEF eatSpacesAndEmptyLines
<1>7. isBOL' = isBOL
  <2>1. ~(eaten > pos)
    BY <1>1, <1>2
  <2> QED
    BY <1>6, <2>1, Zenon
<1>8. pos' = eaten /\ isEOF' = (isEOF \/ AtEOF(eaten))
  BY Zenon DEF eatSpacesAndEmptyLines
<1> QED
  BY <1>2, <1>5, <1>7, <1>8, Zenon

(* One blank, or one newline.                                              *)
LEMMA OneEaten ==
  ASSUME file \in String, pos \in 1..Len(file), file[pos] \in {Blank, Newline},
         pos + 1 = Len(file) + 1 \/ file[pos + 1] \notin {Blank, Newline},
         eatSpacesAndEmptyLines
  PROVE  /\ pos' = pos + 1 /\ n' = (IF file[pos] = Newline THEN 1 ELSE 0)
         /\ isBOL' = (file[pos] = Newline) /\ isEOF' = (isEOF \/ AtEOF(pos + 1))
<1>1. Len(file) \in Nat
  BY LenNat
<1>2. eaten = pos + 1
  <2>1. /\ pos \in 1..(Len(file) + 1) /\ pos + 1 \in pos..(Len(file) + 1)
        /\ \A i \in pos..((pos + 1) - 1) : i = pos
    BY <1>1
  <2>2. \A i \in pos..((pos + 1) - 1) : file[i] \in {Blank, Newline}
    BY <2>1
  <2>3. skip(pos, {Blank, Newline}) = pos + 1
    BY <2>1, <2>2, SkipIs
  <2> QED
    BY <2>3 DEF eaten
<1>3. /\ n' = Cardinality({i \in pos..(eaten - 1) : file[i] = Newline})
      /\ pos' = eaten /\ isEOF' = (isEOF \/ AtEOF(eaten))
      /\ isBOL' = IF eaten > pos THEN file[eaten - 1] = Newline ELSE isBOL
  BY Zenon DEF eatSpacesAndEmptyLines
<1>4. eaten > pos /\ eaten - 1 = pos /\ \A i : i \in pos..(eaten - 1) <=> i = pos
  BY <1>1, <1>2
<1>5. isBOL' = (file[pos] = Newline)
  BY <1>3, <1>4, Zenon
<1>6. n' = IF file[pos] = Newline THEN 1 ELSE 0
  <2>1. CASE file[pos] = Newline
    <3>1. {i \in pos..(eaten - 1) : file[i] = Newline} = {pos}
      BY <1>4, <2>1
    <3> QED
      BY <1>3, <2>1, <3>1, FS_Singleton
  <2>2. CASE file[pos] # Newline
    <3>1. {i \in pos..(eaten - 1) : file[i] = Newline} = {}
      BY <1>4, <2>2
    <3> QED
      BY <1>3, <2>2, <3>1, FS_EmptySet
  <2> QED
    BY <2>1, <2>2
<1> QED
  BY <1>2, <1>3, <1>5, <1>6, Zenon

(* The constructor has nothing to eat.                                     *)
LEMMA ConstructStep ==
  ASSUME WrittenWell, records = <<>>, pos = 1, isBOL = TRUE, isEOF = FALSE, Construct
  PROVE  pc' = "next" /\ AtNext(1)'
<1>1. /\ Len(source) \in Nat \ {0} /\ Len(file) \in Nat /\ file \in String /\ Place(source, 1) = 0
  BY RecordFacts
<1>2. 1 \in 1..(Len(source) + 1) /\ 1 # Len(source) + 1
  BY <1>1
<1>3. file[Place(source, 1) + 1] \notin {Blank, Newline} /\ Place(source, 1) + 1 \in 1..(Len(file) + 1)
      /\ Place(source, 1) + 1 # Len(file) + 1
  BY <1>2, RecordBegins
<1>4. pos = Place(source, 1) + 1
  BY <1>1
<1>5. pc' = "next" /\ eatSpacesAndEmptyLines /\ UNCHANGED <<source, file, records>>
  BY DEF Construct
<1>6. pos' = pos /\ isBOL' = isBOL /\ isEOF' = (isEOF \/ AtEOF(pos))
  BY <1>1, <1>3, <1>4, <1>5, NothingEaten
<1>7. ~AtEOF(pos)
  BY <1>1, <1>3, <1>4 DEF AtEOF
<1>8. isEOF' = (1 = Len(source) + 1)
  BY <1>2, <1>6, <1>7, Zenon
<1>9. ReadUpTo(1)'
  <2>1. records' = <<>> /\ 1..(1 - 1) = {}
    BY <1>5
  <2>2. [i \in 1..(1 - 1) |-> asRecord(source'[i])] = <<>>
    BY <2>1
  <2> QED
    BY <2>1, <2>2 DEF ReadUpTo
<1>10. isBOL' = TRUE /\ pos' = Place(source', 1) + 1 /\ isEOF' = (1 = Len(source') + 1) /\ 1 \in 1..(Len(source') + 1)
  BY <1>2, <1>4, <1>5, <1>6, <1>8, Zenon
<1> QED
  BY <1>5, <1>9, <1>10, Zenon DEF AtNext

(* nextRecord reads a record while there is one.                           *)
LEMMA NextRecordStep ==
  ASSUME WrittenWell, NEW k, AtNext(k), NextRecord
  PROVE  \/ pc' = "end" /\ ReadUpTo(Len(source) + 1)'
         \/ pc' = "name" /\ AtName(k, 1)'
<1>1. /\ k \in 1..(Len(source) + 1) /\ ReadUpTo(k)
      /\ pos = Place(source, k) + 1 /\ isBOL = TRUE /\ isEOF = (k = Len(source) + 1)
  BY Zenon DEF AtNext
<1>2. /\ IF isEOF THEN pc' = "end" /\ UNCHANGED rec ELSE pc' = "name" /\ rec' = NoRecord
      /\ UNCHANGED <<source, file, pos, isBOL, isEOF, records>>
  BY Zenon DEF NextRecord, stream
<1>3. Len(source) \in Nat \ {0}
  BY RecordFacts
<1>4. CASE k = Len(source) + 1
  <2>1. pc' = "end"
    BY <1>1, <1>2, <1>4, Zenon
  <2>2. ReadUpTo(Len(source) + 1)'
    BY <1>1, <1>2, <1>4 DEF ReadUpTo
  <2> QED
    BY <2>1, <2>2
<1>5. CASE k # Len(source) + 1
  <2>1. pc' = "name" /\ rec' = NoRecord /\ isEOF' = FALSE /\ isBOL' = TRUE
    BY <1>1, <1>2, <1>5, Zenon
  <2>2. k \in 1..Len(source)
    BY <1>1, <1>3, <1>5
  <2>3. Len(source[k]) \in Nat \ {0} /\ FieldStart(source, k, 1) = Place(source, k)
    BY <2>2, RecordFacts
  <2>4. 1 \in 1..Len(source[k]) /\ 1 - 1 = 0
    BY <2>3
  <2>5. rec' = Loaded(source'[k], 1 - 1)
    BY <2>1, <2>4, LoadedNothing
  <2>6. ReadUpTo(k)'
    BY <1>1, <1>2 DEF ReadUpTo
  <2>7. InField(k, 1)'
    BY <1>2, <2>2, <2>4, <2>5, <2>6 DEF InField
  <2>8. pos' = FieldStart(source', k, 1) + 1
    BY <1>1, <1>2, <2>3
  <2> QED
    BY <2>1, <2>7, <2>8, Zenon DEF AtName
<1> QED
  BY <1>4, <1>5

(* getFieldName reads a name, and stops at the colon.                      *)
LEMMA NameStep ==
  ASSUME WrittenWell, NEW k, NEW j, AtName(k, j), GetFieldName
  PROVE  pc' = "sep" /\ AtSep(k, j)'
<1> DEFINE f == source[k][j]
           o == FieldStart(source, k, j)
           a == f[1]
           e == skip(pos, Alnum)
           q == o + Len(a) + 1
<1>1. /\ InField(k, j) /\ k \in 1..Len(source) /\ j \in 1..Len(source[k])
      /\ pos = o + 1 /\ isBOL = TRUE /\ isEOF = FALSE
  BY Zenon DEF AtName, InField
<1>2. /\ f \in Seq(Alnum) \X String /\ o \in Nat /\ FieldAt(file, o, f) /\ file \in String /\ Len(file) \in Nat
      /\ FieldStart(source, k, j + 1) = o + FieldLen(f)
      /\ FieldStart(source, k, j + 1) < Place(source, k + 1) /\ Place(source, k + 1) <= Len(file)
  BY <1>1, PrintedFacts
<1>3. Place(source, k + 1) \in Nat
  <2>1. k + 1 \in 1..(Len(source) + 1)
    <3>1. Len(source) \in Nat
      BY RecordFacts
    <3> QED
      BY <1>1, <3>1
  <2>2. Place(source, k + 1) \in 0..Len(file)
    BY <2>1, RecordFacts
  <2> QED
    BY <1>2, <2>2
<1> HIDE DEF f, o
<1>4. Len(a) \in Nat /\ a \in String /\ (\A i \in 1..Len(a) : a[i] \in Alnum)
      /\ Len(escaped(f[2])) \in Nat /\ FieldLen(f) = Len(a) + 3 + Len(escaped(f[2]))
  BY <1>2, FieldTypes, EscapedFacts DEF FieldLen
<1>5. (\A i \in 1..Len(a) : file[o + i] = a[i]) /\ file[q] = Colon
  BY <1>2 DEF FieldAt
<1> HIDE DEF a, e, q
<1>6. q \in pos..(Len(file) + 1) /\ q <= Len(file) /\ pos \in 1..(Len(file) + 1) /\ q \in Nat
      /\ q - 1 = o + Len(a) /\ q - 1 \in 0..Len(file)
  <2>1. o + (Len(a) + 3 + Len(escaped(f[2]))) < Len(file)
    BY <1>2, <1>3, <1>4
  <2>2. q = o + Len(a) + 1
    BY DEF q
  <2> QED
    BY <1>1, <1>2, <1>4, <2>1, <2>2
<1>7. \A i \in pos..(q - 1) : file[i] \in Alnum
  <2> SUFFICES ASSUME NEW i \in pos..(q - 1)
               PROVE  file[i] \in Alnum
    OBVIOUS
  <2>1. i - o \in 1..Len(a) /\ o + (i - o) = i
    BY <1>1, <1>2, <1>4, <1>6
  <2>2. file[o + (i - o)] = a[i - o] /\ a[i - o] \in Alnum
    BY <1>4, <1>5, <2>1
  <2> QED
    BY <2>1, <2>2
<1>8. file[q] \notin Alnum
  BY <1>5, AlnumAssumption
<1>9. e = q
  BY <1>2, <1>6, <1>7, <1>8, SkipIs DEF e
<1>10. ~AtEOF(e)
  BY <1>2, <1>6, <1>9 DEF AtEOF
<1>11. IF ~isBOL \/ (AtEOF(e) /\ e > pos) THEN Throw
       ELSE /\ field' = SubSeq(file, pos, e - 1)
            /\ isEOF' = (isEOF \/ AtEOF(e))
            /\ pos' = e
            /\ pc' = "sep"
            /\ UNCHANGED <<source, file, isBOL, n, body, rec, records>>
  BY Zenon DEF GetFieldName, e
<1>12. /\ field' = SubSeq(file, pos, e - 1)
       /\ isEOF' = (isEOF \/ AtEOF(e))
       /\ pos' = e
       /\ pc' = "sep"
       /\ UNCHANGED <<source, file, isBOL, n, body, rec, records>>
  BY <1>1, <1>10, <1>11, Zenon
<1>13. isEOF' = FALSE
  BY <1>1, <1>10, <1>12, Zenon
<1>14. SubSeq(file, pos, q - 1) = a
  <2> DEFINE s == SubSeq(file, pos, q - 1)
  <2>1. /\ s \in String
        /\ Len(s) = IF pos <= q - 1 THEN (q - 1) - pos + 1 ELSE 0
        /\ \A i \in 1..Len(s) : s[i] = file[pos + i - 1]
    BY <1>2, <1>6, PieceFacts
  <2> HIDE DEF s
  <2>2. Len(s) = Len(a)
    <3>1. CASE pos <= q - 1
      <4>1. Len(s) = (q - 1) - pos + 1
        BY <2>1, <3>1
      <4>2. (q - 1) - pos + 1 = Len(a)
        BY <1>1, <1>2, <1>4, <1>6
      <4> QED
        BY <4>1, <4>2
    <3>2. CASE ~(pos <= q - 1)
      <4>1. Len(s) = 0
        BY <2>1, <3>2
      <4>2. Len(a) = 0
        BY <1>1, <1>2, <1>4, <1>6, <3>2
      <4> QED
        BY <4>1, <4>2
    <3> QED
      BY <3>1, <3>2
  <2>3. \A i \in 1..Len(s) : s[i] = a[i]
    <3> SUFFICES ASSUME NEW i \in 1..Len(s)
                 PROVE  s[i] = a[i]
      OBVIOUS
    <3>1. pos + i - 1 = o + i /\ i \in 1..Len(a)
      BY <1>1, <1>2, <1>4, <2>2
    <3> QED
      BY <1>5, <2>1, <3>1
  <2>4. s = a
    BY <1>4, <2>1, <2>2, <2>3, SameString
  <2> QED
    BY <2>4 DEF s
<1>15. field' = source'[k][j][1] /\ pos' = FieldStart(source', k, j) + Len(source'[k][j][1]) + 1
  <2>1. field' = a /\ pos' = q /\ source' = source
    BY <1>9, <1>12, <1>14
  <2> QED
    BY <2>1 DEF a, q, o, f
<1>16. InField(k, j)'
  BY <1>1, <1>12, InFieldKept
<1> QED
  BY <1>12, <1>13, <1>15, <1>16, Zenon DEF AtSep

(* A field in terms of its parts.                                          *)
LEMMA FieldInFile ==
  ASSUME WrittenWell, NEW k \in 1..Len(source), NEW j \in 1..Len(source[k])
  PROVE  /\ BodyStart(source, k, j) \in Nat \ {0} /\ BodyStart(source, k, j) - 1 \in Nat \ {0}
         /\ source[k][j][2] \in String
         /\ file \in String /\ Len(file) \in Nat /\ Len(escaped(source[k][j][2])) \in Nat
         /\ file[BodyStart(source, k, j) - 1] = Colon /\ file[BodyStart(source, k, j)] = Blank
         /\ FieldStart(source, k, j) + Len(source[k][j][1]) + 1 = BodyStart(source, k, j) - 1
         /\ \A i \in 1..Len(escaped(source[k][j][2])) :
              file[BodyStart(source, k, j) + i] = escaped(source[k][j][2])[i]
         /\ FieldStart(source, k, j + 1) = BodyStart(source, k, j) + Len(escaped(source[k][j][2])) + 1
         /\ file[BodyStart(source, k, j) + Len(escaped(source[k][j][2])) + 1] = Newline
         /\ BodyStart(source, k, j) + Len(escaped(source[k][j][2])) + 1 < Len(file)
<1> DEFINE f == source[k][j]
           o == FieldStart(source, k, j)
           a == Len(f[1])
           E == escaped(f[2])
           B == BodyStart(source, k, j)
<1>1. /\ f \in Seq(Alnum) \X String /\ o \in Nat /\ FieldAt(file, o, f) /\ file \in String /\ Len(file) \in Nat
      /\ FieldStart(source, k, j + 1) = o + FieldLen(f)
      /\ FieldStart(source, k, j + 1) < Place(source, k + 1) /\ Place(source, k + 1) <= Len(file)
  BY PrintedFacts
<1>2. Place(source, k + 1) \in Nat
  <2>1. k + 1 \in 1..(Len(source) + 1)
    <3>1. Len(source) \in Nat
      BY RecordFacts
    <3> QED
      BY <3>1
  <2>2. Place(source, k + 1) \in 0..Len(file)
    BY <2>1, RecordFacts
  <2> QED
    BY <1>1, <2>2
<1>3. B = o + a + 2
  BY DEF BodyStart
<1> HIDE DEF f, o
<1>4. f[2] \in String /\ a \in Nat /\ Len(E) \in Nat /\ FieldLen(f) = a + 3 + Len(E)
  BY <1>1, FieldTypes, EscapedFacts DEF FieldLen
<1>5. /\ file[o + a + 1] = Colon /\ file[o + a + 2] = Blank
      /\ \A i \in 1..Len(E) : file[o + a + 2 + i] = E[i]
      /\ file[o + a + 2 + Len(E) + 1] = Newline
  BY <1>1 DEF FieldAt
<1> HIDE DEF a, E, B
<1>6. B \in Nat \ {0} /\ B - 1 \in Nat \ {0} /\ o + a + 1 = B - 1
  BY <1>1, <1>3, <1>4
<1>7. FieldStart(source, k, j + 1) = B + Len(E) + 1
  BY <1>1, <1>3, <1>4
<1>8. B + Len(E) + 1 < Len(file)
  <2>1. B + Len(E) + 1 < Place(source, k + 1) /\ B + Len(E) + 1 \in Nat
    BY <1>1, <1>4, <1>6, <1>7
  <2> QED
    BY <1>1, <1>2, <2>1
<1>9. /\ file[B - 1] = Colon /\ file[B] = Blank
      /\ \A i \in 1..Len(E) : file[B + i] = E[i]
      /\ file[B + Len(E) + 1] = Newline
  BY <1>3, <1>5, <1>6
<1> QED
  BY <1>1, <1>4, <1>6, <1>7, <1>8, <1>9 DEF B, E, f, o, a

(* eatFieldSep goes behind the colon.                                      *)
LEMMA SepStep ==
  ASSUME WrittenWell, NEW k, NEW j, AtSep(k, j), EatFieldSep
  PROVE  pc' = "body" /\ AtBody(k, j)'
<1> DEFINE B == BodyStart(source, k, j)
           e == skip(pos, {Blank})
<1>1. /\ InField(k, j) /\ k \in 1..Len(source) /\ j \in 1..Len(source[k])
      /\ field = source[k][j][1]
      /\ pos = FieldStart(source, k, j) + Len(source[k][j][1]) + 1 /\ isEOF = FALSE
  BY Zenon DEF AtSep, InField
<1>2. /\ B \in Nat \ {0} /\ B - 1 \in Nat \ {0} /\ file \in String /\ Len(file) \in Nat
      /\ file[B - 1] = Colon
      /\ FieldStart(source, k, j) + Len(source[k][j][1]) + 1 = B - 1
      /\ Len(escaped(source[k][j][2])) \in Nat
      /\ B + Len(escaped(source[k][j][2])) + 1 < Len(file)
  BY <1>1, FieldInFile
<1> HIDE DEF B, e
<1>3. pos = B - 1
  BY <1>1, <1>2
<1>4. pos \in 1..(Len(file) + 1) /\ pos \in pos..(Len(file) + 1) /\ pos <= Len(file) /\ pos + 1 = B
      /\ \A i \in pos..(pos - 1) : file[i] \in {Blank}
  <2>1. B < Len(file)
    BY <1>2
  <2> QED
    BY <1>2, <1>3, <2>1
<1>5. file[pos] = Colon /\ file[pos] \notin {Blank}
  BY <1>2, <1>3 DEF Colon, Blank
<1>6. e = pos
  BY <1>2, <1>4, <1>5, SkipIs DEF e
<1>7. ~(AtEOF(e) \/ file[e] # Colon)
  BY <1>2, <1>4, <1>5, <1>6 DEF AtEOF
<1>8. IF AtEOF(e) \/ file[e] # Colon THEN Throw
      ELSE /\ pos' = e + 1
           /\ pc' = "body"
           /\ UNCHANGED <<source, file, isBOL, isEOF, n, field, body, rec, records>>
  BY Zenon DEF EatFieldSep, e
<1>9. /\ pos' = e + 1
      /\ pc' = "body"
      /\ UNCHANGED <<source, file, isBOL, isEOF, n, field, body, rec, records>>
  BY <1>7, <1>8, Zenon
<1>10. pos' = BodyStart(source', k, j)
  BY <1>4, <1>6, <1>9 DEF B
<1>11. field' = source'[k][j][1] /\ isEOF' = FALSE
  BY <1>1, <1>9
<1>12. InField(k, j)'
  BY <1>1, <1>9, InFieldKept
<1> QED
  BY <1>9, <1>10, <1>11, <1>12, Zenon DEF AtBody

(* appendFieldBody reads a printed line.                                   *)
LEMMA AppendReads ==
  ASSUME WrittenWell, NEW k \in 1..Len(source), NEW j \in 1..Len(source[k]),
         NEW h, NEW t, NEW y, PrintedLine(source[k][j][2], h, t, y),
         pos \in 1..(BodyStart(source, k, j) + h + 1),
         \A i \in pos..(BodyStart(source, k, j) + h) : file[i] = Blank,
         isEOF = FALSE, appendFieldBody
  PROVE  /\ LineRead = t
         /\ pos' = BodyStart(source, k, j) + After(source[k][j][2], y) + 1
         /\ isBOL' = TRUE /\ isEOF' = FALSE /\ file' = file
<1> DEFINE v == source[k][j][2]
           E == escaped(v)
           B == BodyStart(source, k, j)
           g == B + h
           A == After(v, y)
<1>1. /\ B \in Nat \ {0} /\ file \in String /\ Len(file) \in Nat /\ Len(E) \in Nat
      /\ \A i \in 1..Len(E) : file[B + i] = E[i]
      /\ file[B + Len(E) + 1] = Newline
      /\ B + Len(E) + 1 < Len(file)
  BY FieldInFile
<1>2. /\ h \in Nat /\ TrimmedText(t) /\ A = h + Len(t) + 1
      /\ \A i \in 1..Len(t) : E[h + i] = t[i]
      /\ IF y = Len(v) THEN h + Len(t) = Len(E)
         ELSE h + Len(t) < Len(E) /\ E[h + Len(t) + 1] = Newline
  BY DEF PrintedLine
<1> HIDE DEF v, E, B, A
<1>3. t \in String /\ Len(t) \in Nat
  <2>1. t \in String
    BY <1>2 DEF TrimmedText, LineText
  <2> QED
    BY <2>1, LenNat
<1>4. h + Len(t) <= Len(E) /\ file[B + (h + Len(t) + 1)] = Newline
  <2>1. CASE y = Len(v)
    <3>1. h + Len(t) = Len(E)
      BY <1>2, <2>1
    <3>2. B + (h + Len(t) + 1) = B + Len(E) + 1
      <4>1. \A p, q, l, m \in Nat : q + l = m => p + (q + l + 1) = p + m + 1
        OBVIOUS
      <4>2. B \in Nat /\ h \in Nat /\ Len(t) \in Nat /\ Len(E) \in Nat
        BY <1>1, <1>2, <1>3
      <4> QED
        BY <3>1, <4>1, <4>2
    <3> QED
      BY <1>1, <3>1, <3>2
  <2>2. CASE y # Len(v)
    <3>1. h + Len(t) < Len(E) /\ E[h + Len(t) + 1] = Newline
      BY <1>2, <2>2
    <3>2. h + Len(t) + 1 \in 1..Len(E)
      BY <1>1, <1>2, <1>3, <3>1
    <3>3. file[B + (h + Len(t) + 1)] = E[h + Len(t) + 1]
      BY <1>1, <3>2
    <3>4. h + Len(t) <= Len(E)
      BY <1>1, <1>2, <1>3, <3>1
    <3> QED
      BY <3>1, <3>3, <3>4
  <2> QED
    BY <2>1, <2>2
<1>5. g \in 0..Len(file) /\ g + Len(t) + 1 <= Len(file) /\ g + Len(t) + 1 = B + (h + Len(t) + 1)
  BY <1>1, <1>2, <1>3, <1>4
<1>6. \A i \in 1..Len(t) : file[g + i] = t[i]
  <2> SUFFICES ASSUME NEW i \in 1..Len(t)
               PROVE  file[g + i] = t[i]
    OBVIOUS
  <2>1. h + i \in 1..Len(E) /\ B + (h + i) = g + i
    BY <1>1, <1>2, <1>3, <1>4
  <2>2. file[B + (h + i)] = E[h + i]
    BY <1>1, <2>1
  <2> QED
    BY <1>2, <2>1, <2>2
<1>7. pos \in 1..(g + 1) /\ \A i \in pos..g : file[i] = Blank
  BY DEF B
<1>8. file[g + Len(t) + 1] = Newline
  BY <1>4, <1>5
<1> HIDE DEF g
<1>9. lineEnd = g + Len(t) + 1 /\ LineRead = t
  BY <1>1, <1>2, <1>5, <1>6, <1>7, <1>8, LineReadIs
<1>10. ~AtEOF(lineEnd)
  <2>1. lineEnd <= Len(file) /\ lineEnd \in Nat
    BY <1>1, <1>3, <1>5, <1>9
  <2> QED
    BY <1>1, <2>1 DEF AtEOF
<1>11. /\ pos' = IF AtEOF(lineEnd) THEN lineEnd ELSE lineEnd + 1
       /\ isEOF' = (isEOF \/ AtEOF(lineEnd))
       /\ isBOL' = (isBOL \/ ~AtEOF(lineEnd))
       /\ file' = file
  BY Zenon DEF appendFieldBody
<1>12. isBOL' = TRUE /\ isEOF' = FALSE /\ pos' = lineEnd + 1
  BY <1>10, <1>11, Zenon
<1>13. lineEnd = B + A
  BY <1>1, <1>2, <1>3, <1>5, <1>9
<1> QED
  BY <1>9, <1>11, <1>12, <1>13 DEF B, A, v

(* Nothing, and something behind it.                                       *)
LEMMA EmptyThen == \A u \in String : <<>> \o u = u
BY DEF String

(* The first line of the body is read as it was printed.                   *)
LEMMA FirstLineStep ==
  ASSUME WrittenWell, NEW k, NEW j, AtBody(k, j), FirstLine
  PROVE  pc' = "eat" /\ \E y : AtEat(k, j, y)'
<1> DEFINE v == source[k][j][2]
           B == BodyStart(source, k, j)
<1>1. /\ InField(k, j) /\ k \in 1..Len(source) /\ j \in 1..Len(source[k])
      /\ field = source[k][j][1] /\ pos = B /\ isEOF = FALSE
  BY Zenon DEF AtBody, InField
<1>2. /\ B \in Nat \ {0} /\ v \in String /\ file[B] = Blank
  BY <1>1, FieldInFile
<1>3. Neat(v)
  BY <1>1, PrintedFacts
<1> HIDE DEF v
<1>4. PICK y \in 0..Len(v) : PrintedLine(v, 0, SubSeq(v, 1, y), y)
  BY <1>2, <1>3, FirstLinePrinted
<1> DEFINE t == SubSeq(v, 1, y)
<1>5. appendFieldBody /\ pc' = "eat" /\ body' = appended(<<>>) /\ UNCHANGED <<source, field, rec, records>>
  BY Zenon DEF FirstLine
<1>6. B + 0 + 1 = B + 1 /\ B + 0 = B /\ pos \in 1..(B + 1) /\ \A i \in pos..B : i = B
  BY <1>1, <1>2
<1>7. \A i \in pos..B : file[i] = Blank
  BY <1>2, <1>6
<1>8. /\ LineRead = t
      /\ pos' = B + After(v, y) + 1 /\ isBOL' = TRUE /\ isEOF' = FALSE /\ file' = file
  <2>1. PrintedLine(source[k][j][2], 0, t, y)
    BY <1>4 DEF v
  <2>2. pos \in 1..(B + 0 + 1) /\ \A i \in pos..(B + 0) : file[i] = Blank
    BY <1>6, <1>7
  <2> HIDE DEF t
  <2>3. /\ LineRead = t
        /\ pos' = BodyStart(source, k, j) + After(source[k][j][2], y) + 1
        /\ isBOL' = TRUE /\ isEOF' = FALSE /\ file' = file
    BY <1>1, <1>5, <2>1, <2>2, AppendReads
  <2> QED
    BY <2>3 DEF v
<1>9. body' = t
  <2>1. TrimmedText(t)
    BY <1>4 DEF PrintedLine
  <2>2. LineText(t) /\ (t = <<>> \/ t[Len(t)] # Blank) /\ t \in String
    BY <2>1 DEF TrimmedText, LineText
  <2> HIDE DEF t
  <2>3. \E u : TrimmedText(u) /\ trimmed(<<>> \o t) = <<>> \o u /\ (t = <<>> \/ t[Len(t)] # Blank => u = t)
    <3> DEFINE z == <<>>
    <3>1. z \in String /\ (z = <<>> \/ z[Len(z)] # Blank)
      BY EmptyString
    <3> HIDE DEF z
    <3>2. \E u : TrimmedText(u) /\ trimmed(z \o t) = z \o u /\ (t = <<>> \/ t[Len(t)] # Blank => u = t)
      BY <2>2, <3>1, TrimmedBehind
    <3> QED
      BY <3>2 DEF z
  <2>4. trimmed(<<>> \o t) = <<>> \o t
    BY <2>2, <2>3, Zenon
  <2>5. <<>> \o t = t
    BY <2>2, EmptyThen
  <2>6. appended(<<>>) = trimmed(<<>> \o LineRead)
    BY DEF appended, LineRead
  <2> QED
    BY <1>5, <1>8, <2>4, <2>5, <2>6
<1>10. y \in 0..Len(v) /\ (y = Len(v) \/ v[y + 1] = Newline)
  BY <1>4 DEF PrintedLine
<1>11. InField(k, j)'
  BY <1>1, <1>5, InFieldKept
<1>12. AtEat(k, j, y)'
  <2>1. source'[k][j][2] = v /\ field' = source'[k][j][1] /\ BodyStart(source', k, j) = B
    BY <1>1, <1>5 DEF v
  <2> HIDE DEF B
  <2>2. /\ y \in 0..Len(source'[k][j][2])
        /\ y = Len(source'[k][j][2]) \/ source'[k][j][2][y + 1] = Newline
        /\ body' = SubSeq(source'[k][j][2], 1, y)
        /\ pos' = BodyStart(source', k, j) + After(source'[k][j][2], y) + 1
    BY <1>8, <1>9, <1>10, <2>1
  <2> QED
    BY <1>8, <1>11, <2>1, <2>2, Zenon DEF AtEat
<1> QED
  BY <1>5, <1>12

(* So is a later one, behind its newline; a dot becomes an empty one.      *)
LEMMA ContinuationStep ==
  ASSUME WrittenWell, NEW k, NEW j, NEW y, AtMore(k, j, y), ContinuationLine
  PROVE  pc' = "eat" /\ \E z : AtEat(k, j, z)'
<1> DEFINE v == source[k][j][2]
           B == BodyStart(source, k, j)
           h == Before(v, y + 2) + 1
<1>1. /\ InField(k, j) /\ k \in 1..Len(source) /\ j \in 1..Len(source[k])
      /\ field = source[k][j][1]
      /\ y \in 0..(Len(v) - 2) /\ v[y + 1] = Newline /\ body = SubSeq(v, 1, y)
      /\ pos = B + Before(v, y + 2) + 2 /\ isEOF = FALSE
  BY Zenon DEF AtMore, InField
<1>2. /\ B \in Nat \ {0} /\ v \in String /\ file[B] = Blank
  BY <1>1, FieldInFile
<1>3. Neat(v) /\ Len(v) <= MaxBody
  BY <1>1, PrintedFacts
<1> HIDE DEF v
<1>4. Len(v) \in Nat /\ y \in 0..Len(v) /\ y < Len(v)
  <2>1. Len(v) \in Nat
    BY <1>2, LenNat
  <2> QED
    BY <1>1, <2>1
<1>5. PICK t, z : /\ PrintedLine(v, h, t, z) /\ t # <<>>
                  /\ SubSeq(v, 1, z) = IF t = <<Dot>> THEN Append(SubSeq(v, 1, y), Newline)
                                       ELSE Append(SubSeq(v, 1, y), Newline) \o t
  BY <1>1, <1>2, <1>3, NextLinePrinted
<1>6. h \in Nat /\ TrimmedText(t) /\ z \in 0..Len(v) /\ (z = Len(v) \/ v[z + 1] = Newline)
  BY <1>5 DEF PrintedLine
<1>7. pos = B + h + 1
  <2>1. Before(v, y + 2) \in Nat
    <3>1. Before(v, y + 2) \in 0..(Len(escaped(v)) - 1) /\ Len(escaped(v)) \in Nat
      BY <1>1, <1>2, <1>3, NextLinePrinted, EscapedFacts
    <3> QED
      BY <3>1
  <2> QED
    BY <1>1, <1>2, <2>1
<1> HIDE DEF h, B
<1>8. pos \in 1..(B + h + 1) /\ \A i \in pos..(B + h) : file[i] = Blank
  BY <1>2, <1>6, <1>7
<1>9. /\ appendFieldBody /\ pc' = "eat" /\ UNCHANGED <<source, field, rec, records>>
      /\ body' = IF Len(body) >= MaxBody THEN body
                 ELSE undotted(appended(Append(body, Newline)), Len(body) + 1)
  BY Zenon DEF ContinuationLine
<1>10. /\ LineRead = t
       /\ pos' = B + After(v, z) + 1 /\ isBOL' = TRUE /\ isEOF' = FALSE /\ file' = file
  <2>1. PrintedLine(source[k][j][2], h, t, z)
    BY <1>5 DEF v
  <2>2. /\ pos \in 1..(BodyStart(source, k, j) + h + 1)
        /\ \A i \in pos..(BodyStart(source, k, j) + h) : file[i] = Blank
    BY <1>8 DEF B
  <2>3. /\ LineRead = t
        /\ pos' = BodyStart(source, k, j) + After(source[k][j][2], z) + 1
        /\ isBOL' = TRUE /\ isEOF' = FALSE /\ file' = file
    BY <1>1, <1>9, <2>1, <2>2, AppendReads
  <2> QED
    BY <2>3 DEF v, B
<1>11. body \in String /\ Len(body) = y
  BY <1>1, <1>2, <1>4, PrefixFacts
<1>12. body' = SubSeq(v, 1, z)
  <2>1. ~(Len(body) >= MaxBody)
    BY <1>3, <1>4, <1>11, MaxBodyAssumption
  <2>2. body' = undotted(appended(Append(body, Newline)), Len(body) + 1)
    BY <1>9, <2>1, Zenon
  <2>3. appended(Append(body, Newline)) = trimmed(Append(body, Newline) \o t)
    BY <1>10 DEF appended, LineRead
  <2>4. LineText(t) /\ (t = <<>> \/ t[Len(t)] # Blank)
    BY <1>6 DEF TrimmedText
  <2>5. \E u : /\ TrimmedText(u) /\ (t = <<>> \/ t[Len(t)] # Blank => u = t)
               /\ undotted(trimmed(Append(body, Newline) \o t), Len(body) + 1)
                    = IF u = <<Dot>> THEN Append(body, Newline) ELSE Append(body, Newline) \o u
    BY <1>11, <2>4, ContinuationFacts
  <2>6. undotted(trimmed(Append(body, Newline) \o t), Len(body) + 1)
          = IF t = <<Dot>> THEN Append(body, Newline) ELSE Append(body, Newline) \o t
    BY <2>4, <2>5, Zenon
  <2> QED
    BY <1>1, <1>5, <2>2, <2>3, <2>6, Zenon
<1>13. InField(k, j)'
  BY <1>1, <1>9, InFieldKept
<1>14. AtEat(k, j, z)'
  <2>1. source'[k][j][2] = v /\ field' = source'[k][j][1] /\ BodyStart(source', k, j) = B
    BY <1>1, <1>9 DEF v, B
  <2>2. /\ z \in 0..Len(source'[k][j][2])
        /\ z = Len(source'[k][j][2]) \/ source'[k][j][2][z + 1] = Newline
        /\ body' = SubSeq(source'[k][j][2], 1, z)
        /\ pos' = BodyStart(source', k, j) + After(source'[k][j][2], z) + 1
    BY <1>6, <1>10, <1>12, <2>1
  <2> QED
    BY <1>10, <1>13, <2>1, <2>2, Zenon DEF AtEat
<1> QED
  BY <1>9, <1>14

(* A later line of a body is one blank away, and does not begin with       *)
(* another.                                                                *)
LEMMA NextLineBegins ==
  ASSUME WrittenWell, NEW k \in 1..Len(source), NEW j \in 1..Len(source[k]),
         NEW y \in 0..(Len(source[k][j][2]) - 2), source[k][j][2][y + 1] = Newline
  PROVE  LET p == BodyStart(source, k, j) + Before(source[k][j][2], y + 2) + 1
         IN  p \in 1..Len(file) /\ file[p] = Blank /\ file[p + 1] \notin {Blank, Newline} /\ p + 1 <= Len(file)
<1> DEFINE v == source[k][j][2]
           E == escaped(v)
           B == BodyStart(source, k, j)
           g == Before(v, y + 2)
           h == g + 1
           p == B + g + 1
<1>1. /\ B \in Nat \ {0} /\ v \in String /\ file \in String /\ Len(file) \in Nat /\ Len(E) \in Nat
      /\ \A i \in 1..Len(E) : file[B + i] = E[i]
      /\ B + Len(E) + 1 < Len(file)
  BY FieldInFile
<1>2. Neat(v)
  BY PrintedFacts
<1>3. y \in 0..(Len(v) - 2) /\ v[y + 1] = Newline
  OBVIOUS
<1> HIDE DEF v, B
<1>4. /\ g \in 0..(Len(E) - 1) /\ E[g + 1] = Blank
      /\ \E t, z : PrintedLine(v, h, t, z) /\ t # <<>>
  BY <1>1, <1>2, <1>3, NextLinePrinted
<1>5. PICK t, z : PrintedLine(v, h, t, z) /\ t # <<>>
  BY <1>4
<1>6. /\ h \in Nat /\ TrimmedText(t) /\ \A i \in 1..Len(t) : E[h + i] = t[i]
      /\ IF z = Len(v) THEN h + Len(t) = Len(E) ELSE h + Len(t) < Len(E) /\ E[h + Len(t) + 1] = Newline
  BY <1>5 DEF PrintedLine
<1> HIDE DEF E, g
<1>7. t \in String /\ t[1] # Blank /\ \A i \in 1..Len(t) : t[i] # Newline
  BY <1>5, <1>6 DEF TrimmedText, LineText
<1>8. Len(t) \in Nat /\ 1 \in 1..Len(t)
  <2>1. Len(t) \in Nat
    BY <1>7, LenNat
  <2>2. Len(t) # 0
    BY <1>5, <1>7, EmptyString
  <2> QED
    BY <2>1, <2>2
<1>9. h + Len(t) <= Len(E)
  <2>1. h + Len(t) = Len(E) \/ h + Len(t) < Len(E)
    BY <1>6, Zenon
  <2> QED
    BY <1>1, <1>6, <1>8, <2>1
<1>10. E[h + 1] \notin {Blank, Newline}
  BY <1>6, <1>7, <1>8
<1>11. g \in Nat /\ g + 1 \in 1..Len(E) /\ h + 1 \in 1..Len(E)
  BY <1>1, <1>4, <1>6, <1>8, <1>9
<1>12. p = B + (g + 1) /\ p + 1 = B + (h + 1) /\ p \in 1..Len(file) /\ p + 1 <= Len(file)
  BY <1>1, <1>11
<1>13. file[p] = Blank /\ file[p + 1] \notin {Blank, Newline}
  <2>1. file[B + (g + 1)] = E[g + 1] /\ file[B + (h + 1)] = E[h + 1]
    BY <1>1, <1>11
  <2> QED
    BY <1>4, <1>10, <1>12, <2>1
<1> QED
  BY <1>12, <1>13 DEF B, g, v

(* After a line, a blank leads to the next line of the body; the next      *)
(* field follows at once; an empty line ends the record. None is taken for *)
(* another.                                                                *)
LEMMA EatStep ==
  ASSUME WrittenWell, NEW k, NEW j, NEW y, AtEat(k, j, y), EatSpaces
  PROVE  \/ pc' = "more" /\ AtMore(k, j, y)'
         \/ pc' = "insert" /\ AtInsert(k, j)'
<1> DEFINE v == source[k][j][2]
           B == BodyStart(source, k, j)
<1>1. /\ InField(k, j) /\ k \in 1..Len(source) /\ j \in 1..Len(source[k])
      /\ field = source[k][j][1]
      /\ y \in 0..Len(v) /\ (y = Len(v) \/ v[y + 1] = Newline) /\ body = SubSeq(v, 1, y)
      /\ pos = B + After(v, y) + 1 /\ isBOL = TRUE /\ isEOF = FALSE
  BY Zenon DEF AtEat, InField
<1>2. /\ eatSpacesAndEmptyLines
      /\ pc' = IF n' = 0 /\ ~isBOL' THEN "more" ELSE "insert"
      /\ UNCHANGED <<source, file, field, body, rec, records>>
  BY Zenon DEF EatSpaces
<1>3. /\ v \in String /\ file \in String /\ Len(file) \in Nat /\ B \in Nat \ {0} /\ Len(escaped(v)) \in Nat
      /\ FieldStart(source, k, j + 1) = B + Len(escaped(v)) + 1
  BY <1>1, FieldInFile
<1>4. v = <<>> \/ v[Len(v)] # Newline
  BY <1>1, PrintedFacts
<1>5. Len(v) \in Nat /\ Len(source) \in Nat /\ Len(source[k]) \in Nat
  <2>1. Len(v) \in Nat
    BY <1>3, LenNat
  <2> QED
    BY <1>1, <2>1, PrintedFacts
<1>6. InField(k, j)'
  BY <1>1, <1>2, InFieldKept
<1>7. source'[k][j][2] = v /\ field' = source'[k][j][1] /\ BodyStart(source', k, j) = B
  BY <1>1, <1>2
<1>8. CASE y # Len(v)
  <2>1. v[y + 1] = Newline
    BY <1>1, <1>8
  <2>2. y + 1 # Len(v)
    <3>1. Len(v) # 0
      BY <1>1, <1>5, <1>8
    <3>2. v # <<>>
      BY <3>1, EmptyString
    <3> HIDE DEF v
    <3>3. v[Len(v)] # Newline
      BY <1>4, <3>2, Zenon
    <3> QED
      BY <2>1, <3>3, Zenon
  <2>3. y \in 0..(Len(v) - 2)
    BY <1>1, <1>5, <1>8, <2>2
  <2>4. pos = B + Before(v, y + 2) + 1
    BY <1>1, <1>8 DEF After
  <2>5. pos \in 1..Len(file) /\ file[pos] = Blank /\ file[pos + 1] \notin {Blank, Newline} /\ pos + 1 <= Len(file)
    <3>1. LET p == B + Before(v, y + 2) + 1
          IN  p \in 1..Len(file) /\ file[p] = Blank /\ file[p + 1] \notin {Blank, Newline} /\ p + 1 <= Len(file)
      BY <1>1, <2>1, <2>3, NextLineBegins
    <3> HIDE DEF v, B
    <3> QED
      BY <2>4, <3>1
  <2>6. file[pos] \in {Blank, Newline} /\ file[pos] # Newline
    BY <2>5 DEF Blank, Newline
  <2>7. /\ pos' = pos + 1 /\ n' = (IF file[pos] = Newline THEN 1 ELSE 0)
        /\ isBOL' = (file[pos] = Newline) /\ isEOF' = (isEOF \/ AtEOF(pos + 1))
    BY <1>2, <1>3, <2>5, <2>6, OneEaten
  <2>8. n' = 0 /\ isBOL' = FALSE
    BY <2>6, <2>7, Zenon
  <2>9. isEOF' = FALSE
    <3>1. ~AtEOF(pos + 1)
      BY <1>3, <2>5 DEF AtEOF
    <3> QED
      BY <1>1, <2>7, <3>1, Zenon
  <2>10. pc' = "more"
    BY <1>2, <2>8
  <2>11. pos' = B + Before(v, y + 2) + 2
    <3>1. Before(v, y + 2) \in Nat
      <4>1. Neat(v)
        BY <1>1, PrintedFacts
      <4>2. Before(v, y + 2) \in 0..(Len(escaped(v)) - 1)
        <5> HIDE DEF v
        <5> QED
          BY <1>3, <2>1, <2>3, <4>1, NextLinePrinted
      <4> QED
        BY <1>3, <4>2
    <3>2. \A b, g \in Nat : (b + g + 1) + 1 = b + g + 2
      OBVIOUS
    <3> QED
      BY <1>3, <2>4, <2>7, <3>1, <3>2
  <2>12. AtMore(k, j, y)'
    <3>1. /\ y \in 0..(Len(source'[k][j][2]) - 2) /\ source'[k][j][2][y + 1] = Newline
          /\ body' = SubSeq(source'[k][j][2], 1, y)
          /\ pos' = BodyStart(source', k, j) + Before(source'[k][j][2], y + 2) + 2
      BY <1>1, <1>2, <1>7, <2>1, <2>3, <2>11
    <3> QED
      BY <1>6, <1>7, <2>9, <3>1, Zenon DEF AtMore
  <2> QED
    BY <2>10, <2>12
<1>9. CASE y = Len(v)
  <2> DEFINE q == FieldStart(source, k, j + 1)
             R == Place(source, k + 1)
  <2>1. body' = source'[k][j][2]
    <3>1. SubSeq(v, 1, Len(v)) = v
      <4> HIDE DEF v
      <4>1. /\ SubSeq(v, 1, Len(v)) \in String /\ Len(SubSeq(v, 1, Len(v))) = Len(v)
            /\ \A i \in 1..Len(v) : SubSeq(v, 1, Len(v))[i] = v[i]
        BY <1>3, <1>5, PrefixFacts
      <4> QED
        BY <1>3, <4>1, SameString
    <3> QED
      BY <1>1, <1>2, <1>7, <1>9, <3>1, Zenon
  <2>2. pos = q + 1 /\ q \in Nat
    <3>1. After(v, y) = Len(escaped(v)) + 1
      BY <1>9 DEF After
    <3>2. \A b, e \in Nat : b + (e + 1) + 1 = (b + e + 1) + 1 /\ b + e + 1 \in Nat
      OBVIOUS
    <3>3. B \in Nat
      BY <1>3
    <3> HIDE DEF v, B
    <3> QED
      BY <1>1, <1>3, <3>1, <3>2, <3>3
  <2>3. CASE j < Len(source[k])
    <3>1. j + 1 \in 1..Len(source[k])
      BY <1>1, <1>5, <2>3
    <3>2. q + 1 <= Len(file) /\ file[q + 1] \notin {Blank, Newline}
      BY <1>1, <3>1, FieldBegins
    <3> HIDE DEF q
    <3>3. pos \in 1..(Len(file) + 1) /\ file[pos] \notin {Blank, Newline}
      BY <1>3, <2>2, <3>2
    <3>4. pos' = pos /\ n' = 0 /\ isBOL' = isBOL /\ isEOF' = (isEOF \/ AtEOF(pos))
      BY <1>2, <1>3, <3>3, NothingEaten
    <3>5. isEOF' = FALSE
      <4>1. ~AtEOF(pos)
        BY <1>3, <2>2, <3>2 DEF AtEOF
      <4> QED
        BY <1>1, <3>4, <4>1, Zenon
    <3>6. isBOL' = TRUE
      BY <1>1, <3>4
    <3>7. pc' = "insert"
      BY <1>2, <3>6
    <3>8. pos' = FieldStart(source', k, j + 1) + 1 /\ j < Len(source'[k])
      BY <1>2, <2>2, <2>3, <3>4 DEF q
    <3>9. AtInsert(k, j)'
      BY <1>6, <1>7, <2>1, <3>4, <3>5, <3>6, <3>8, Zenon DEF AtInsert
    <3> QED
      BY <3>7, <3>9
  <2>4. CASE ~(j < Len(source[k]))
    <3>1. j = Len(source[k])
      BY <1>1, <1>5, <2>4
    <3>2. R = q + 1 /\ file[R] = Newline
      BY <1>1, <3>1, RecordFacts
    <3>3. k + 1 \in 1..(Len(source) + 1)
      BY <1>1, <1>5
    <3>4. /\ R \in Nat /\ R + 1 \in 1..(Len(file) + 1)
          /\ k + 1 = Len(source) + 1 <=> R + 1 = Len(file) + 1
          /\ k + 1 # Len(source) + 1 => file[R + 1] \notin {Blank, Newline}
      BY <3>3, RecordBegins
    <3> HIDE DEF R, q
    <3>5. pos = R /\ R \in 1..Len(file)
      BY <1>3, <2>2, <3>2, <3>4
    <3>6. file[R] \in {Blank, Newline} /\ (R + 1 = Len(file) + 1 \/ file[R + 1] \notin {Blank, Newline})
      BY <3>2, <3>4
    <3>7. /\ pos' = pos + 1 /\ n' = (IF file[pos] = Newline THEN 1 ELSE 0)
          /\ isBOL' = (file[pos] = Newline) /\ isEOF' = (isEOF \/ AtEOF(pos + 1))
      BY <1>2, <1>3, <3>5, <3>6, OneEaten
    <3>8. n' = 1 /\ isBOL' = TRUE
      BY <3>2, <3>5, <3>7, Zenon
    <3>9. isEOF' = (k = Len(source))
      <4>1. AtEOF(R + 1) <=> k = Len(source)
        <5>1. AtEOF(R + 1) <=> R + 1 = Len(file) + 1
          BY <1>3, <3>4 DEF AtEOF
        <5>2. k + 1 = Len(source) + 1 <=> k = Len(source)
          BY <1>1, <1>5
        <5> QED
          BY <3>4, <5>1, <5>2, Zenon
      <4> QED
        BY <1>1, <3>5, <3>7, <4>1, Zenon
    <3>10. pc' = "insert"
      BY <1>2, <3>8
    <3>11. pos' = Place(source', k + 1) + 1 /\ ~(j < Len(source'[k])) /\ isEOF' = (k = Len(source'))
      BY <1>2, <2>4, <3>5, <3>7, <3>9 DEF R
    <3>12. AtInsert(k, j)'
      BY <1>6, <1>7, <2>1, <3>8, <3>11, Zenon DEF AtInsert
    <3> QED
      BY <3>10, <3>12
  <2> QED
    BY <2>3, <2>4
<1> QED
  BY <1>8, <1>9

(* A sequence with one more element.                                       *)
LEMMA AppendIs ==
  ASSUME NEW T, NEW s \in Seq(T), NEW e \in T
  PROVE  Append(s, e) = [i \in 1..(Len(s) + 1) |-> IF i \in 1..Len(s) THEN s[i] ELSE e]
<1> DEFINE a == Append(s, e)
           l == Len(s)
<1>1. l \in Nat /\ a \in Seq(T) /\ Len(a) = l + 1
  OBVIOUS
<1>2. (\A i \in 1..l : a[i] = s[i]) /\ a[l + 1] = e
  OBVIOUS
<1>3. DOMAIN a = 1..(l + 1) /\ a = [i \in DOMAIN a |-> a[i]]
  <2> HIDE DEF a, l
  <2>1. a \in [1..Len(a) -> T]
    BY <1>1
  <2> QED
    BY <1>1, <2>1
<1> HIDE DEF a, l
<1>4. \A i \in 1..(l + 1) : a[i] = IF i \in 1..l THEN s[i] ELSE e
  <2>1. \A i \in 1..(l + 1) : i \in 1..l \/ i = l + 1
    BY <1>1
  <2>2. l + 1 \notin 1..l
    BY <1>1
  <2> QED
    BY <1>2, <2>1, <2>2
<1>5. a = [i \in 1..(l + 1) |-> IF i \in 1..l THEN s[i] ELSE e]
  BY <1>3, <1>4
<1> QED
  BY <1>5 DEF a, l

(* insert completes the field, and the last field the record.              *)
LEMMA InsertStep ==
  ASSUME WrittenWell, NEW k, NEW j, AtInsert(k, j), InsertField
  PROVE  \/ pc' = "name" /\ AtName(k, j + 1)'
         \/ pc' = "next" /\ AtNext(k + 1)'
<1> DEFINE r == source[k]
<1>1. /\ InField(k, j) /\ field = r[j][1] /\ body = r[j][2] /\ isBOL = TRUE
      /\ IF j < Len(r)
         THEN n = 0 /\ isEOF = FALSE /\ pos = FieldStart(source, k, j + 1) + 1
         ELSE n = 1 /\ isEOF = (k = Len(source)) /\ pos = Place(source, k + 1) + 1
  BY Zenon DEF AtInsert
<1>2. /\ k \in 1..Len(source) /\ j \in 1..Len(r)
      /\ records = [i \in 1..(k - 1) |-> asRecord(source[i])] /\ rec = Loaded(r, j - 1)
  BY <1>1 DEF InField, ReadUpTo
<1>3. /\ rec' = [f \in DOMAIN rec \cup {field} |-> IF f \in DOMAIN rec THEN rec[f] ELSE body]
      /\ IF isEOF \/ n > 0
         THEN records' = Append(records, rec') /\ pc' = "next"
         ELSE UNCHANGED records /\ pc' = "name"
      /\ UNCHANGED <<source, file, pos, isBOL, isEOF>>
  BY Zenon DEF InsertField, stream
<1>4. /\ Len(source) \in Nat /\ Len(r) \in Nat /\ DOMAIN r = 1..Len(r)
      /\ \A a, b \in 1..Len(r) : r[a][1] = r[b][1] => a = b
  <2>1. source \in Sources
    BY DEF WrittenWell, Written
  <2>2. /\ source \in Vocabularies
        /\ \A a, b \in 1..Len(r) : r[a][1] = r[b][1] => a = b
    BY <1>2, <2>1, SourceFacts
  <2>3. r \in Seq(Seq(Alnum) \X String) /\ Len(source) \in Nat
    BY <1>2, <2>2, RecsFacts
  <2> QED
    BY <2>2, <2>3
<1> HIDE DEF r
<1>5. rec' = Loaded(r, j)
  <2>1. rec' = [f \in DOMAIN Loaded(r, j - 1) \cup {r[j][1]} |->
                  IF f \in DOMAIN Loaded(r, j - 1) THEN Loaded(r, j - 1)[f] ELSE r[j][2]]
    BY <1>1, <1>2, <1>3
  <2> QED
    BY <1>2, <1>4, <2>1, LoadedMore
<1>6. CASE j < Len(r)
  <2>1. n = 0 /\ isEOF = FALSE /\ pos = FieldStart(source, k, j + 1) + 1
    BY <1>1, <1>6, Zenon
  <2>2. ~(n > 0)
    BY <2>1
  <2>3. records' = records /\ pc' = "name"
    BY <1>3, <2>1, <2>2, Zenon
  <2>4. j + 1 \in 1..Len(r) /\ (j + 1) - 1 = j
    BY <1>2, <1>4, <1>6
  <2>5. InField(k, j + 1)'
    <3>1. rec' = Loaded(source'[k], (j + 1) - 1)
      BY <1>3, <1>5, <2>4 DEF r
    <3>2. k \in 1..Len(source') /\ j + 1 \in 1..Len(source'[k])
      BY <1>2, <1>3, <2>4 DEF r
    <3>3. records' = [i \in 1..(k - 1) |-> asRecord(source'[i])]
      BY <1>2, <1>3, <2>3
    <3> QED
      BY <3>1, <3>2, <3>3 DEF InField, ReadUpTo
  <2>6. pos' = FieldStart(source', k, j + 1) + 1 /\ isBOL' = TRUE /\ isEOF' = FALSE
    BY <1>1, <1>3, <2>1
  <2> QED
    BY <2>3, <2>5, <2>6, Zenon DEF AtName
<1>7. CASE ~(j < Len(r))
  <2>1. n = 1 /\ isEOF = (k = Len(source)) /\ pos = Place(source, k + 1) + 1
    BY <1>1, <1>7, Zenon
  <2>2. n > 0
    BY <2>1
  <2>3. records' = Append(records, rec') /\ pc' = "next"
    BY <1>3, <2>2, Zenon
  <2>4. rec' = asRecord(source[k])
    <3>1. j = Len(r)
      BY <1>2, <1>4, <1>7
    <3> QED
      BY <1>4, <1>5, <3>1, LoadedAll DEF r
  <2>5. ReadUpTo(k + 1)'
    <3> DEFINE F(i) == asRecord(source[i])
               s == [i \in 1..(k - 1) |-> F(i)]
    <3>1. k \in Nat \ {0} /\ k - 1 \in Nat /\ (k - 1) + 1 = k /\ (k + 1) - 1 = k
      BY <1>2, <1>4
    <3>2. rec' = F(k)
      BY <2>4
    <3>3. records' = Append(s, F(k))
      BY <1>2, <2>3, <3>2
    <3> HIDE DEF F
    <3>4. Append(s, F(k)) = [i \in 1..k |-> F(i)]
      <4>1. s \in Seq({F(i) : i \in 1..k}) /\ Len(s) = k - 1
        BY <3>1
      <4>2. F(k) \in {F(i) : i \in 1..k}
        BY <3>1
      <4>3. Append(s, F(k)) = [i \in 1..(Len(s) + 1) |-> IF i \in 1..Len(s) THEN s[i] ELSE F(k)]
        <5> DEFINE T == {F(i) : i \in 1..k}
        <5>1. s \in Seq(T) /\ F(k) \in T
          BY <4>1, <4>2
        <5> HIDE DEF T, s
        <5> QED
          BY <5>1, AppendIs
      <4>4. \A i \in 1..k : (IF i \in 1..(k - 1) THEN s[i] ELSE F(k)) = F(i)
        BY <3>1
      <4> QED
        BY <3>1, <4>1, <4>3, <4>4
    <3>5. records' = [i \in 1..((k + 1) - 1) |-> asRecord(source'[i])]
      BY <1>3, <3>1, <3>3, <3>4 DEF F
    <3> QED
      BY <3>5 DEF ReadUpTo
  <2>6. k + 1 \in 1..(Len(source') + 1)
    BY <1>2, <1>3, <1>4
  <2>7. isEOF' = (k + 1 = Len(source') + 1)
    <3>1. k = Len(source) <=> k + 1 = Len(source) + 1
      BY <1>2, <1>4
    <3> QED
      BY <1>3, <2>1, <3>1
  <2>8. pos' = Place(source', k + 1) + 1 /\ isBOL' = TRUE
    BY <1>1, <1>3, <2>1
  <2> QED
    BY <2>3, <2>5, <2>6, <2>7, <2>8, Zenon DEF AtNext
<1> QED
  BY <1>6, <1>7

-----------------------------------------------------------------------------
(* The invariant and the theorem.                                          *)

(* The vocabulary and the file stay.                                       *)
LEMMA SourceKept == [Next]_vars => source' = source /\ file' = file
BY DEF Next, Parse, Construct, NextRecord, GetFieldName, EatFieldSep, FirstLine, EatSpaces,
       ContinuationLine, InsertField, ReadError, Throw, eatSpacesAndEmptyLines, appendFieldBody,
       vars, stream

(* The progress holds at first.                                            *)
LEMMA InitProgress == Init => Progress
BY DEF Init, Progress

(* Every helper leads from one place in the file to the next one.          *)
LEMMA ProgressKept == WrittenWell /\ Progress /\ [Next]_vars => Progress'
<1> SUFFICES ASSUME WrittenWell, Progress, [Next]_vars
             PROVE  Progress'
  OBVIOUS
<1>1. CASE Construct
  <2>1. pc = "construct"
    BY <1>1 DEF Construct
  <2>2. records = <<>> /\ pos = 1 /\ isBOL = TRUE /\ isEOF = FALSE
    BY <2>1 DEF Progress
  <2>3. pc' = "next" /\ AtNext(1)'
    BY <1>1, <2>2, ConstructStep
  <2> QED
    BY <2>3, Zenon DEF Progress
<1>2. CASE NextRecord
  <2>1. pc = "next"
    BY <1>2 DEF NextRecord
  <2>2. PICK k : AtNext(k)
    BY <2>1 DEF Progress
  <2>3. (pc' = "end" /\ ReadUpTo(Len(source) + 1)') \/ (pc' = "name" /\ AtName(k, 1)')
    BY <1>2, <2>2, NextRecordStep
  <2> QED
    BY <2>3, Zenon DEF Progress
<1>3. CASE GetFieldName
  <2>1. pc = "name"
    BY <1>3 DEF GetFieldName
  <2>2. PICK k, j : AtName(k, j)
    BY <2>1 DEF Progress
  <2>3. pc' = "sep" /\ AtSep(k, j)'
    BY <1>3, <2>2, NameStep
  <2> QED
    BY <2>3, Zenon DEF Progress
<1>4. CASE EatFieldSep
  <2>1. pc = "sep"
    BY <1>4 DEF EatFieldSep
  <2>2. PICK k, j : AtSep(k, j)
    BY <2>1 DEF Progress
  <2>3. pc' = "body" /\ AtBody(k, j)'
    BY <1>4, <2>2, SepStep
  <2> QED
    BY <2>3, Zenon DEF Progress
<1>5. CASE FirstLine
  <2>1. pc = "body"
    BY <1>5 DEF FirstLine
  <2>2. PICK k, j : AtBody(k, j)
    BY <2>1 DEF Progress
  <2>3. pc' = "eat" /\ \E y : AtEat(k, j, y)'
    BY <1>5, <2>2, FirstLineStep
  <2> QED
    BY <2>3, Zenon DEF Progress
<1>6. CASE EatSpaces
  <2>1. pc = "eat"
    BY <1>6 DEF EatSpaces
  <2>2. PICK k, j, y : AtEat(k, j, y)
    BY <2>1 DEF Progress
  <2>3. (pc' = "more" /\ AtMore(k, j, y)') \/ (pc' = "insert" /\ AtInsert(k, j)')
    BY <1>6, <2>2, EatStep
  <2> QED
    BY <2>3, Zenon DEF Progress
<1>7. CASE ContinuationLine
  <2>1. pc = "more"
    BY <1>7 DEF ContinuationLine
  <2>2. PICK k, j, y : AtMore(k, j, y)
    BY <2>1 DEF Progress
  <2>3. pc' = "eat" /\ \E z : AtEat(k, j, z)'
    BY <1>7, <2>2, ContinuationStep
  <2> QED
    BY <2>3, Zenon DEF Progress
<1>8. CASE InsertField
  <2>1. pc = "insert"
    BY <1>8 DEF InsertField
  <2>2. PICK k, j : AtInsert(k, j)
    BY <2>1 DEF Progress
  <2>3. (pc' = "name" /\ AtName(k, j + 1)') \/ (pc' = "next" /\ AtNext(k + 1)')
    BY <1>8, <2>2, InsertStep
  <2> QED
    BY <2>3, Zenon DEF Progress
<1>9. CASE ReadError
  BY <1>9 DEF ReadError, Progress
<1>10. CASE UNCHANGED vars
  <2>1. UNCHANGED <<source, file, pos, isBOL, isEOF, n, field, body, rec, records, pc>>
    BY <1>10 DEF vars, stream
  <2>2. \A k : ReadUpTo(k)' <=> ReadUpTo(k)
    BY <2>1, Zenon DEF ReadUpTo
  <2>3. \A k, j : InField(k, j)' <=> InField(k, j)
    BY <2>1, <2>2, Zenon DEF InField
  <2>4. \A k : AtNext(k)' <=> AtNext(k)
    BY <2>1, <2>2, Zenon DEF AtNext
  <2>5. \A k, j : AtName(k, j)' <=> AtName(k, j)
    BY <2>1, <2>3, Zenon DEF AtName
  <2>6. \A k, j : AtSep(k, j)' <=> AtSep(k, j)
    BY <2>1, <2>3, Zenon DEF AtSep
  <2>7. \A k, j : AtBody(k, j)' <=> AtBody(k, j)
    BY <2>1, <2>3, Zenon DEF AtBody
  <2>8. \A k, j, y : AtEat(k, j, y)' <=> AtEat(k, j, y)
    BY <2>1, <2>3 DEF AtEat
  <2>9. \A k, j, y : AtMore(k, j, y)' <=> AtMore(k, j, y)
    BY <2>1, <2>3, Zenon DEF AtMore
  <2>10. \A k, j : AtInsert(k, j)' <=> AtInsert(k, j)
    BY <2>1, <2>3, Zenon DEF AtInsert
  <2>11. ReadUpTo(Len(source) + 1)' <=> ReadUpTo(Len(source) + 1)
    BY <2>1, Zenon DEF ReadUpTo
  <2> QED
    BY <2>1, <2>4, <2>5, <2>6, <2>7, <2>8, <2>9, <2>10, <2>11, Zenon DEF Progress
<1> QED
  BY <1>1, <1>2, <1>3, <1>4, <1>5, <1>6, <1>7, <1>8, <1>9, <1>10 DEF Next, Parse

(* What has been read of a file written from printable bodies, and where   *)
(* in the file and in which field the parser is.                           *)
ParserInv == ParserTypes /\ (WrittenWell => Progress)

(* ParserInv is inductive.                                                 *)
LEMMA InvariantKept == ParserInv /\ [Next]_vars => ParserInv'
<1> SUFFICES ASSUME ParserInv, [Next]_vars
             PROVE  ParserInv'
  OBVIOUS
<1>1. ParserTypes'
  BY TypesKept DEF ParserInv
<1>2. ASSUME WrittenWell'
      PROVE  Progress'
  <2>1. WrittenWell
    BY <1>2, SourceKept DEF WrittenWell, Written
  <2> QED
    BY <2>1, ProgressKept DEF ParserInv
<1> QED
  BY <1>1, <1>2 DEF ParserInv

(* ParserInv implies RoundTrip: at the end all records have been read.     *)
LEMMA InvariantIsEnough == ParserInv => RoundTrip
<1> SUFFICES ASSUME ParserInv
             PROVE  RoundTrip
  OBVIOUS
<1>1. BodiesCanonical
  BY NeatIsEnough DEF ParserInv
<1>2. ASSUME pc \in {"end", "thrown"}, source # <<>>,
             \A i \in DOMAIN source : \A j \in DOMAIN source[i] : Printable(source[i][j][2])
      PROVE  records = [i \in DOMAIN source |-> asRecord(source[i])]
  <2>1. Written
    BY <1>2 DEF ParserInv, ParserTypes
  <2>2. source \in Vocabularies
    BY <2>1, SourceFacts DEF Written
  <2>3. Len(source) \in Nat /\ DOMAIN source = 1..Len(source) /\ \A i \in 1..Len(source) : DOMAIN source[i] = 1..Len(source[i])
    BY <2>2 DEF Vocabularies
  <2>4. WrittenWell
    BY <1>2, <2>1, <2>3 DEF WrittenWell
  <2>5. Progress
    BY <2>4 DEF ParserInv
  <2>6. ReadUpTo(Len(source) + 1)
    BY <1>2, <2>5 DEF Progress
  <2>7. (Len(source) + 1) - 1 = Len(source)
    BY <2>3
  <2> QED
    BY <2>3, <2>6, <2>7 DEF ReadUpTo
<1> QED
  BY <1>1, <1>2 DEF RoundTrip

(* What Vocabulary::write prints of any vocabulary with printable bodies,  *)
(* DebDBParser::nextRecord reads back record by record and field by field; *)
(* and the bodies it reads of any file at all are in canonical form.       *)
THEOREM WhatIsWrittenIsRead == Spec => []RoundTrip
<1>1. Init => ParserInv
  BY InitTypes, InitProgress DEF ParserInv
<1>2. ParserInv /\ [Next]_vars => ParserInv'
  BY InvariantKept
<1>3. ParserInv => RoundTrip
  BY InvariantIsEnough
<1> QED
  BY <1>1, <1>2, <1>3, PTL DEF Spec

(* No file written from printable bodies is rejected by any of the helpers *)
(* that throw: getFieldName outside a line's beginning or at the end of    *)
(* the file, and eatFieldSep without a colon.                              *)
THEOREM WhatIsWrittenIsAccepted == Spec => [](WrittenWell => pc # "thrown")
<1>1. Init => ParserInv
  BY InitTypes, InitProgress DEF ParserInv
<1>2. ParserInv /\ [Next]_vars => ParserInv'
  BY InvariantKept
<1>3. ParserInv => (WrittenWell => pc # "thrown")
  BY DEF ParserInv, Progress
<1> QED
  BY <1>1, <1>2, <1>3, PTL DEF Spec
=============================================================================

------------------------ MODULE PackageRecordProofs ------------------------
(***************************************************************************)
(* ept::apt::PackageRecord with the RecordParser it is: index finds the    *)
(* fields of a record by their names, and the getters return what was      *)
(* written in them, for any records, names and lists of tags.              *)
(***************************************************************************)
EXTENDS PackageRecord, FiniteSetTheorems, WellFoundedInduction, TLAPS

-----------------------------------------------------------------------------
(* Least and greatest numbers.                                             *)

LEMMA LeastNatural ==
  ASSUME NEW T \in SUBSET Nat, T # {}
  PROVE  \E n \in T : \A m \in T : n <= m
<1>1. PICK n \in T : \A m \in T : <<m, n>> \notin OpToRel(<, Nat)
  BY WFMin, NatLessThanWellFounded, Zenon
<1>2. \A m \in T : ~(m < n)
  BY <1>1, Zenon DEF OpToRel
<1> QED
  BY <1>2

LEMMA MinFacts ==
  ASSUME NEW T \in SUBSET Nat, T # {}
  PROVE  Min(T) \in T /\ \A m \in T : Min(T) <= m
BY LeastNatural DEF Min

LEMMA MaxFacts ==
  ASSUME NEW b \in Nat, NEW T \in SUBSET (0..b), T # {}
  PROVE  Max(T) \in T /\ \A m \in T : m <= Max(T)
<1> DEFINE U == {n \in 0..b : b - n \in T}
<1>0. \A m \in T : \E n \in 0..b : b - n = m
  <2> SUFFICES ASSUME NEW m \in T PROVE \E n \in 0..b : b - n = m
    OBVIOUS
  <2>1. m \in 0..b
    OBVIOUS
  <2>2. b - m \in 0..b /\ b - (b - m) = m
    BY <2>1
  <2> QED
    BY <2>2
<1>1. U # {} /\ U \in SUBSET Nat
  <2>1. PICK m \in T : m \in 0..b
    OBVIOUS
  <2>2. PICK n \in 0..b : b - n = m
    BY <1>0
  <2>3. b - n \in T
    BY <2>2
  <2>4. n \in U
    BY <2>3
  <2>5. \A k \in U : k \in Nat
    OBVIOUS
  <2> HIDE DEF U
  <2> QED
    BY <2>4, <2>5
<1>2. PICK n \in U : \A m \in U : n <= m
  <2> HIDE DEF U
  <2> QED
    BY <1>1, LeastNatural
<1>3. b - n \in T
  OBVIOUS
<1>4. ASSUME NEW m \in T PROVE m <= b - n
  <2>1. PICK k \in 0..b : b - k = m
    BY <1>0
  <2>2. b - k \in T
    BY <2>1
  <2>3. k \in U
    BY <2>2
  <2> QED
    BY <1>2, <2>1, <2>3
<1> HIDE DEF U
<1>5. \E x \in T : \A m \in T : x >= m
  BY <1>3, <1>4
<1> QED
  BY <1>5 DEF Max

(* The least of a set is the number that has the properties of one.        *)
LEMMA MinIs ==
  ASSUME NEW T \in SUBSET Nat, NEW n \in T, \A m \in T : n <= m
  PROVE  Min(T) = n
<1>1. Min(T) \in T /\ \A m \in T : Min(T) <= m
  BY MinFacts
<1>2. Min(T) <= n /\ n <= Min(T) /\ Min(T) \in Nat /\ n \in Nat
  BY <1>1
<1> QED
  BY <1>2

-----------------------------------------------------------------------------
(* The order of strings.                                                   *)

String == Seq(Nat)

LEMMA LessIrreflexive == ASSUME NEW a \in String PROVE ~Less(a, a)
BY DEF String, Less

LEMMA LessTransitive ==
  ASSUME NEW a \in String, NEW b \in String, NEW d \in String, Less(a, b), Less(b, d)
  PROVE  Less(a, d)
<1>1. PICK k \in DOMAIN b : /\ k <= Len(a) + 1 /\ \A i \in 1..(k - 1) : a[i] = b[i]
                            /\ k <= Len(a) => a[k] < b[k]
  BY DEF Less
<1>2. PICK l \in DOMAIN d : /\ l <= Len(b) + 1 /\ \A i \in 1..(l - 1) : b[i] = d[i]
                            /\ l <= Len(b) => b[l] < d[l]
  BY DEF Less
<1>3. k \in Nat \ {0} /\ l \in Nat \ {0} /\ k <= Len(b) /\ l <= Len(d)
  BY DEF String
<1>4. CASE k <= l
  <2>1. k \in DOMAIN d
    BY <1>3, <1>4 DEF String
  <2>2. \A i \in 1..(k - 1) : a[i] = d[i]
    BY <1>1, <1>2, <1>3, <1>4
  <2>3. ASSUME k <= Len(a)
        PROVE  a[k] < d[k]
    <3>0. k \in 1..Len(a) /\ k \in 1..Len(b) /\ k \in 1..Len(d)
      BY <1>3, <1>4, <2>3 DEF String
    <3>1. a[k] \in Nat /\ b[k] \in Nat /\ d[k] \in Nat
      BY <3>0 DEF String
    <3>2. a[k] < b[k] /\ b[k] <= d[k]
      <4>1. CASE k = l
        BY <1>1, <1>2, <1>3, <2>3, <3>1, <4>1
      <4>2. CASE k < l
        <5>1. k \in 1..(l - 1)
          BY <1>3, <4>2
        <5>2. b[k] = d[k]
          BY <1>2, <5>1
        <5> QED
          BY <1>1, <2>3, <3>1, <5>2
      <4> QED
        BY <1>3, <1>4, <4>1, <4>2
    <3> QED
      BY <3>1, <3>2
  <2> QED
    BY <1>1, <2>1, <2>2, <2>3 DEF Less
<1>5. CASE l < k
  <2>1. l <= Len(a) + 1
    BY <1>1, <1>3, <1>5 DEF String
  <2>2. \A i \in 1..(l - 1) : a[i] = d[i]
    BY <1>1, <1>2, <1>3, <1>5
  <2>3. ASSUME l <= Len(a)
        PROVE  a[l] < d[l]
    <3>0. l \in 1..(k - 1)
      BY <1>3, <1>5
    <3>1. a[l] = b[l]
      BY <1>1, <3>0
    <3>2. l <= Len(b)
      BY <1>3, <1>5 DEF String
    <3> QED
      BY <1>2, <3>1, <3>2
  <2> QED
    BY <1>2, <2>1, <2>2, <2>3 DEF Less
<1> QED
  BY <1>3, <1>4, <1>5

(* Two strings that differ do so first somewhere, or where one ends.       *)
LEMMA LessTotal ==
  ASSUME NEW a \in String, NEW b \in String, ~Less(a, b), ~Less(b, a)
  PROVE  a = b
<1> DEFINE Differ(k) == k = Len(a) + 1 \/ k = Len(b) + 1 \/ a[k] # b[k]
           D == {k \in Nat \ {0} : k <= Len(a) + 1 /\ k <= Len(b) + 1 /\ Differ(k)}
<1>1. Len(a) + 1 \in D \/ Len(b) + 1 \in D
  BY DEF String
<1>2. PICK k \in D : \A m \in D : k <= m
  BY <1>1, LeastNatural
<1>3. ASSUME NEW i \in 1..(k - 1)
      PROVE  a[i] = b[i]
  <2>1. k \in Nat /\ k <= Len(a) + 1 /\ k <= Len(b) + 1 /\ Len(a) \in Nat /\ Len(b) \in Nat
    BY <1>2 DEF String
  <2>2. i \in Nat \ {0} /\ i < k
    BY <2>1
  <2>3. i \notin D
    BY <1>2, <2>1, <2>2
  <2> QED
    BY <2>1, <2>2, <2>3
<1>4. CASE k <= Len(a) /\ k <= Len(b)
  <2>1. k \in DOMAIN a /\ k \in DOMAIN b /\ a[k] \in Nat /\ b[k] \in Nat /\ a[k] # b[k]
    BY <1>2, <1>4 DEF String
  <2>2. ~(a[k] < b[k])
    BY <1>2, <1>3, <2>1 DEF Less
  <2>3. ~(b[k] < a[k])
    BY <1>2, <1>3, <2>1 DEF Less
  <2> QED
    BY <2>1, <2>2, <2>3
<1>5. CASE k = Len(a) + 1 /\ k <= Len(b)
  <2>1. k \in DOMAIN b
    BY <1>2, <1>5 DEF String
  <2>2. ~(k <= Len(a))
    BY <1>5 DEF String
  <2> QED
    BY <1>2, <1>3, <2>1, <2>2 DEF Less
<1>6. CASE k = Len(b) + 1 /\ k <= Len(a)
  <2>1. k \in DOMAIN a
    BY <1>2, <1>6 DEF String
  <2>2. ~(k <= Len(b))
    BY <1>6 DEF String
  <2> QED
    BY <1>2, <1>3, <2>1, <2>2 DEF Less
<1>7. CASE k = Len(a) + 1 /\ k = Len(b) + 1
  BY <1>3, <1>7 DEF String
<1> QED
  BY <1>2, <1>4, <1>5, <1>6, <1>7 DEF String

LEMMA NotLessTransitive ==
  ASSUME NEW a \in String, NEW b \in String, NEW d \in String, ~Less(b, a), ~Less(d, b)
  PROVE  ~Less(d, a)
BY LessTransitive, LessTotal
-----------------------------------------------------------------------------
(* scan, Sort, index.                                                      *)

(* A record that ends with a newline, and is more than that.               *)
Complete == Len(buffer) > 1 /\ Last(buffer) = NL

Increasing(s) == \A i, j \in 1..Len(s) : i < j => s[i] < s[j]

(* The beginnings of fields after the first up to offset p, and whether    *)
(* there is an empty line before it.                                       *)
StartsTo(p) == {i \in 1..p : at(i - 1) = NL /\ ~isspace(at(i))}
EmptyLineTo(p) == \E i \in 1..p : at(i - 1) = NL /\ at(i) = NL

ParserTypes ==
  /\ buffer \in String /\ str \in String
  /\ pc \in {"scan", "sort", "search", "ready"}
  /\ pos \in 0..Len(buffer)
  /\ ends \in Seq(0..Len(buffer)) /\ Increasing(ends)
  /\ begin \in -1..(size - 1) /\ end \in 0..size /\ begin < end
  /\ found \in {Nothing} \cup 0..size
  /\ pc \in {"scan", "sort"} => found = Nothing /\ begin = -1 /\ end = 0

(* What scan has found so far, and in the end: where the fields of the     *)
(* record end, in their order.                                             *)
ScanInv ==
  /\ pc = "scan" => (buffer = <<>> => ends = <<>>) /\ \A i \in 1..size : ends[i] <= pos
  /\ Complete /\ pc = "scan" =>
       /\ pos < Len(buffer) /\ (pos > 0 => at(pos - 1) = NL /\ at(pos) # NL)
       /\ ~EmptyLineTo(pos)
       /\ ToSet(ends) = StartsTo(pos)
  /\ Complete /\ pc # "scan" => ToSet(ends) = (FieldStarts \ {0}) \cup {RecordEnd}

SortInv ==
  pc \in {"search", "ready"} =>
    /\ sorted \in [1..size -> 0..(size - 1)] /\ ToSet(sorted) = 0..(size - 1)
    /\ \A i, j \in 1..size : i < j => ~Less(name(sorted[j]), name(sorted[i]))

(* The name looked for is not before the interval, and not behind it.      *)
SearchInv ==
  /\ pc = "search" =>
       /\ begin = -1 \/ ~Less(str, name(sorted[begin + 1]))
       /\ end = size \/ Less(str, name(sorted[end + 1]))
  /\ found # Nothing =>
       /\ pc = "ready"
       /\ \/ found = size /\ \A i \in 0..(size - 1) : name(i) # str
          \/ found \in 0..(size - 1) /\ name(found) = str

LookupInv == ParserTypes /\ ScanInv /\ SortInv /\ SearchInv

LEMMA ColonFacts ==
  ASSUME NEW s \in String
  PROVE  /\ colon(s) \in 1..(Len(s) + 1)
         /\ colon(s) <= Len(s) => s[colon(s)] = COLON
         /\ \A i \in 1..(colon(s) - 1) : s[i] # COLON
<1> DEFINE T == {i \in DOMAIN s : s[i] = COLON} \cup {Len(s) + 1}
<1>1. T \in SUBSET Nat /\ T # {} /\ Len(s) \in Nat /\ DOMAIN s = 1..Len(s)
  BY DEF String
<1>2. colon(s) \in T /\ \A i \in T : colon(s) <= i
  BY <1>1, MinFacts DEF colon
<1>3. ASSUME NEW i \in 1..(colon(s) - 1)
      PROVE  s[i] # COLON
  <2>1. i \in DOMAIN s /\ i < colon(s)
    BY <1>1, <1>2
  <2>2. i \notin T
    BY <1>1, <1>2, <2>1
  <2> QED
    BY <2>1, <2>2
<1> QED
  BY <1>1, <1>2, <1>3

LEMMA PieceIsString ==
  ASSUME NEW s \in String, NEW i \in 1..(Len(s) + 1), NEW j \in 0..Len(s)
  PROVE  /\ SubSeq(s, i, j) \in String
         /\ Len(SubSeq(s, i, j)) = IF i <= j THEN j - i + 1 ELSE 0
         /\ \A k \in 1..Len(SubSeq(s, i, j)) : SubSeq(s, i, j)[k] = s[i + k - 1]
<1>1. Len(s) \in Nat /\ s \in [1..Len(s) -> Nat]
  BY DEF String
<1>2. \A k \in i..j : k \in 1..Len(s)
  BY <1>1
<1>3. SubSeq(s, i, j) = [k \in 1..(j - i + 1) |-> s[i + k - 1]]
  OBVIOUS
<1>4. CASE i <= j
  <2>1. \A k \in 1..(j - i + 1) : i + k - 1 \in 1..Len(s)
    BY <1>1, <1>4
  <2>2. SubSeq(s, i, j) \in [1..(j - i + 1) -> Nat] /\ j - i + 1 \in Nat
    <3>1. \A k \in 1..(j - i + 1) : s[i + k - 1] \in Nat
      BY <1>1, <2>1
    <3>2. j - i + 1 \in Nat
      BY <1>1, <1>4
    <3> QED
      BY <1>3, <3>1, <3>2
  <2>3. SubSeq(s, i, j) \in Seq(Nat) /\ Len(SubSeq(s, i, j)) = j - i + 1
    <3> DEFINE t == SubSeq(s, i, j)
               m == j - i + 1
    <3>1. t \in [1..m -> Nat] /\ m \in Nat
      BY <2>2
    <3> HIDE DEF t, m
    <3>2. t \in Seq(Nat) /\ Len(t) = m
      BY <3>1
    <3> QED
      BY <3>2 DEF t, m
  <2> QED
    BY <1>3, <1>4, <2>3 DEF String
<1>5. CASE ~(i <= j)
  <2>1. SubSeq(s, i, j) = <<>>
    BY <1>5
  <2> QED
    BY <1>5, <2>1 DEF String
<1> QED
  BY <1>4, <1>5

(* Where field idx lies.                                                   *)
From(idx) == IF idx = 0 THEN 0 ELSE ends[idx]

LEMMA FieldFacts ==
  ASSUME ParserTypes, NEW idx \in 0..(size - 1)
  PROVE  /\ field(idx) = SubSeq(buffer, From(idx) + 1, ends[idx + 1])
         /\ From(idx) \in 0..Len(buffer) /\ ends[idx + 1] \in 0..Len(buffer)
         /\ idx > 0 => From(idx) < ends[idx + 1]
         /\ field(idx) \in String /\ name(idx) \in String
<1>1. size \in Nat /\ Len(buffer) \in Nat /\ buffer \in String /\ ends \in [1..size -> 0..Len(buffer)]
  BY DEF ParserTypes, size, String
<1>2. idx + 1 \in 1..size /\ (idx > 0 => idx \in 1..size)
  BY <1>1
<1>3. From(idx) \in 0..Len(buffer) /\ ends[idx + 1] \in 0..Len(buffer)
  BY <1>1, <1>2 DEF From
<1>4. field(idx) = SubSeq(buffer, From(idx) + 1, ends[idx + 1])
  <2>1. ~(idx >= size)
    BY <1>1
  <2> QED
    BY <2>1 DEF field, From
<1>5. ASSUME idx > 0
      PROVE  From(idx) < ends[idx + 1]
  BY <1>1, <1>2, <1>5 DEF ParserTypes, Increasing, From, size
<1>6. field(idx) \in String
  <2>1. From(idx) + 1 \in 1..(Len(buffer) + 1)
    BY <1>1, <1>3
  <2> QED
    BY <1>1, <1>3, <1>4, <2>1, PieceIsString
<1>7. colon(field(idx)) \in 1..(Len(field(idx)) + 1) /\ Len(field(idx)) \in Nat
  BY <1>6, ColonFacts DEF String
<1>8. name(idx) \in String
  <2> DEFINE f == field(idx)
             n == colon(f) - 1
  <2>1. n \in 0..Len(f) /\ 1 \in 1..(Len(f) + 1)
    BY <1>7
  <2>2. f \in String
    BY <1>6
  <2>3. name(idx) = SubSeq(f, 1, n)
    BY DEF name
  <2> HIDE DEF f, n
  <2> QED
    BY <2>1, <2>2, <2>3, PieceIsString
<1> QED
  BY <1>3, <1>4, <1>5, <1>6, <1>8

LEMMA NextFacts ==
  ASSUME ParserTypes, ScanInv, pc = "scan", more
  PROVE  /\ next \in 0..Len(buffer)
         /\ buffer = <<>> => next = Len(buffer)
         /\ buffer # <<>> => /\ next > pos
                             /\ next < Len(buffer) => at(next - 1) = NL
                             /\ \A j \in pos..(next - 2) : at(j) # NL
<1> DEFINE T == {i + 1 : i \in {j \in pos..(Len(buffer) - 1) : at(j) = NL}} \cup {Len(buffer)}
<1>1. Len(buffer) \in Nat /\ pos \in 0..Len(buffer)
  BY DEF ParserTypes, String
<1>2. T \in SUBSET Nat /\ T # {}
  BY <1>1
<1>3. next \in T /\ \A i \in T : next <= i
  BY <1>2, MinFacts DEF next
<1>4. ASSUME NEW i \in T, i # Len(buffer)
      PROVE  i \in 0..Len(buffer) /\ i > pos /\ at(i - 1) = NL
  <2>1. PICK j \in pos..(Len(buffer) - 1) : at(j) = NL /\ i = j + 1
    BY <1>4
  <2>2. i - 1 = j
    BY <1>1, <2>1
  <2> QED
    BY <1>1, <2>1, <2>2
<1>5. next \in 0..Len(buffer) /\ (next = Len(buffer) \/ (next > pos /\ at(next - 1) = NL))
  <2>1. next \in T
    BY <1>3
  <2> HIDE DEF T
  <2> QED
    BY <1>1, <1>4, <2>1
<1>6. CASE buffer = <<>>
  BY <1>5, <1>6
<1>7. CASE buffer # <<>>
  <2>1. pos < Len(buffer) - 1
    BY <1>7 DEF more
  <2>2. ASSUME NEW j \in pos..(next - 2), at(j) = NL
        PROVE  FALSE
    <3>1. j \in pos..(Len(buffer) - 1) /\ j + 1 < next
      BY <1>1, <1>5
    <3>2. j + 1 \in T
      BY <2>2, <3>1
    <3> QED
      BY <1>1, <1>3, <1>5, <3>1, <3>2
  <2> QED
    BY <1>1, <1>5, <1>7, <2>1, <2>2
<1> QED
  BY <1>6, <1>7

LEMMA AppendFacts ==
  ASSUME NEW s, NEW S, s \in Seq(S), NEW x \in S
  PROVE  /\ Append(s, x) \in Seq(S) /\ Len(Append(s, x)) = Len(s) + 1
         /\ \A i \in 1..Len(s) : Append(s, x)[i] = s[i]
         /\ Append(s, x)[Len(s) + 1] = x
         /\ ToSet(Append(s, x)) = ToSet(s) \cup {x}
<1>1. /\ Append(s, x) \in Seq(S) /\ Len(Append(s, x)) = Len(s) + 1
      /\ \A i \in 1..Len(s) : Append(s, x)[i] = s[i]
      /\ Append(s, x)[Len(s) + 1] = x
      /\ DOMAIN s = 1..Len(s) /\ Len(s) \in Nat
      /\ DOMAIN Append(s, x) = 1..(Len(s) + 1)
  OBVIOUS
<1>2. ASSUME NEW y
      PROVE  y \in ToSet(Append(s, x)) <=> y \in ToSet(s) \cup {x}
  <2>1. y \in ToSet(Append(s, x)) <=> \E i \in 1..(Len(s) + 1) : Append(s, x)[i] = y
    BY <1>1 DEF ToSet
  <2>2. (\E i \in 1..(Len(s) + 1) : Append(s, x)[i] = y) <=> (\E i \in 1..Len(s) : s[i] = y) \/ x = y
    BY <1>1
  <2>3. y \in ToSet(s) <=> \E i \in 1..Len(s) : s[i] = y
    BY <1>1 DEF ToSet
  <2> QED
    BY <2>1, <2>2, <2>3
<1>3. ToSet(Append(s, x)) = ToSet(s) \cup {x}
  <2> DEFINE A == ToSet(Append(s, x))
             B == ToSet(s) \cup {x}
  <2>1. \A y : y \in A <=> y \in B
    BY <1>2
  <2> HIDE DEF A, B
  <2>2. A = B
    BY <2>1
  <2> QED
    BY <2>2 DEF A, B
<1> QED
  BY <1>1, <1>3

(* A number greater than all keeps a sequence increasing.                  *)
LEMMA AppendIncreasing ==
  ASSUME NEW s, NEW S \in SUBSET Nat, s \in Seq(S), Increasing(s), NEW x \in S,
         \A i \in 1..Len(s) : s[i] < x
  PROVE  Increasing(Append(s, x))
<1> DEFINE t == Append(s, x)
<1>1. /\ Len(t) = Len(s) + 1 /\ Len(s) \in Nat
      /\ \A i \in 1..Len(s) : t[i] = s[i]
      /\ t[Len(s) + 1] = x
  BY AppendFacts
<1> HIDE DEF t
<1>2. ASSUME NEW i \in 1..Len(t), NEW j \in 1..Len(t), i < j
      PROVE  t[i] < t[j]
  <2>1. CASE j = Len(s) + 1
    BY <1>1, <1>2, <2>1
  <2>2. CASE j # Len(s) + 1
    <3>1. i \in 1..Len(s) /\ j \in 1..Len(s)
      BY <1>1, <1>2, <2>2
    <3>2. s[i] < s[j]
      BY <1>2, <3>1 DEF Increasing
    <3> QED
      BY <1>1, <3>1, <3>2
  <2> QED
    BY <2>1, <2>2
<1>3. Increasing(t)
  BY <1>2 DEF Increasing
<1> QED
  BY <1>3 DEF t

LEMMA TypeFacts ==
  ASSUME ParserTypes
  PROVE  /\ size \in Nat /\ Len(buffer) \in Nat
         /\ \A i \in 1..size : ends[i] \in 0..Len(buffer)
         /\ \A i \in 0..(Len(buffer) - 1) : at(i) \in Nat
         /\ buffer # <<>> => Len(buffer) > 0
<1>1. buffer \in Seq(Nat) /\ ends \in Seq(0..Len(buffer))
  BY DEF ParserTypes, String
<1>2. ASSUME NEW i \in 0..(Len(buffer) - 1)
      PROVE  at(i) \in Nat
  <2>1. i + 1 \in 1..Len(buffer)
    BY <1>1
  <2> QED
    BY <1>1, <2>1 DEF at
<1> QED
  BY <1>1, <1>2 DEF size

-----------------------------------------------------------------------------
(* A round of scan's loop.                                                 *)

LEMMA ScanTypes ==
  ASSUME ParserTypes, ScanInv, Scan
  PROVE  /\ ParserTypes'
         /\ pc' = "scan" => buffer' # <<>> /\ \A i \in 1..size' : ends'[i] <= pos'
<1>0. pc = "scan" /\ more /\ pos' = next /\ UNCHANGED <<buffer, sorted, search>>
  BY DEF Scan
<1>1. size \in Nat /\ Len(buffer) \in Nat /\ (buffer # <<>> => Len(buffer) > 0)
  BY TypeFacts
<1>2. /\ next \in 0..Len(buffer)
      /\ buffer = <<>> => next = Len(buffer)
      /\ buffer # <<>> => next > pos
  BY <1>0, NextFacts
<1>3. \A i \in 1..size : ends[i] < next /\ ends[i] \in Nat
  <2>1. \A i \in 1..size : ends[i] <= pos /\ ends[i] \in Nat
    BY <1>0, TypeFacts DEF ScanInv
  <2>2. CASE buffer = <<>>
    BY <1>0, <2>2 DEF ScanInv, size
  <2>3. CASE buffer # <<>>
    BY <1>1, <1>2, <2>1, <2>3 DEF ParserTypes
  <2> QED
    BY <2>2, <2>3
<1>4. ends \in Seq(0..Len(buffer)) /\ Increasing(ends)
  BY DEF ParserTypes
<1>5. /\ ends' \in Seq(0..Len(buffer)) /\ Increasing(ends')
      /\ size' \in Nat /\ \A i \in 1..size' : ends'[i] <= next
  <2>1. CASE ends' = Append(ends, next)
    <3>1. Len(ends') = size + 1 /\ ends'[size + 1] = next /\ \A i \in 1..size : ends'[i] = ends[i]
      BY <1>2, <1>4, <2>1, AppendFacts DEF size
    <3>2. \A i \in 1..(size + 1) : i = size + 1 \/ i \in 1..size
      BY <1>1
    <3>3. \A i \in 1..size' : ends'[i] <= next
      BY <1>1, <1>2, <1>3, <3>1, <3>2 DEF size
    <3>4. ends' \in Seq(0..Len(buffer))
      BY <1>2, <1>4, <2>1, AppendFacts
    <3>5. Increasing(ends')
      BY <1>2, <1>3, <1>4, <2>1, AppendIncreasing DEF size
    <3> QED
      BY <1>1, <3>1, <3>3, <3>4, <3>5 DEF size
  <2>2. CASE ends' = ends
    BY <1>1, <1>2, <1>3, <1>4, <2>2 DEF size
  <2> QED
    BY <2>1, <2>2 DEF Scan
<1>6. pc' \in {"sort", "scan"} /\ (pc' = "scan" => next # Len(buffer))
  BY DEF Scan
<1>7. begin = -1 /\ end = 0 /\ found = Nothing
  BY <1>0 DEF ParserTypes
<1>8. buffer' = buffer /\ str' = str /\ begin' = begin /\ end' = end /\ found' = found
  BY <1>0 DEF search
<1>9. ParserTypes'
  <2>1. begin' \in -1..(size' - 1) /\ end' \in 0..size' /\ begin' < end'
    <3>1. \A k \in Nat : -1 \in -1..(k - 1) /\ 0 \in 0..k
      OBVIOUS
    <3>2. size' \in Nat /\ begin' = -1 /\ end' = 0
      BY <1>5, <1>7, <1>8
    <3>3. begin' \in -1..(size' - 1)
      BY <3>1, <3>2
    <3>4. end' \in 0..size'
      BY <3>1, <3>2
    <3>5. begin' < end'
      BY <3>2
    <3> QED
      BY <3>3, <3>4, <3>5
  <2>2. found' = Nothing
    BY <1>7, <1>8
  <2>3. buffer' \in String /\ str' \in String
    BY <1>8 DEF ParserTypes
  <2>4. pos' \in 0..Len(buffer') /\ ends' \in Seq(0..Len(buffer'))
    BY <1>0, <1>2, <1>5, <1>8
  <2> QED
    BY <1>5, <1>6, <1>7, <1>8, <2>1, <2>2, <2>3, <2>4 DEF ParserTypes
<1> QED
  BY <1>0, <1>2, <1>5, <1>6, <1>8, <1>9

(* Up to the next newline there is no more of what scan looks for, and     *)
(* after it there is what it finds.                                        *)
LEMMA NextStarts ==
  ASSUME ParserTypes, ScanInv, Complete, pc = "scan", more
  PROVE  /\ buffer # <<>> /\ pos < next /\ next \in 1..Len(buffer) /\ at(next - 1) = NL
         /\ ~EmptyLineTo(next - 1)
         /\ StartsTo(next - 1) = ToSet(ends)
<1>0. Len(buffer) \in Nat /\ Len(buffer) > 1 /\ pos \in 0..Len(buffer) /\ buffer # <<>>
  BY TypeFacts DEF Complete, ParserTypes
<1>1. /\ next \in 0..Len(buffer) /\ next > pos
      /\ next < Len(buffer) => at(next - 1) = NL
      /\ \A j \in pos..(next - 2) : at(j) # NL
  BY <1>0, NextFacts
<1>2. at(Len(buffer) - 1) = NL
  <2>1. Len(buffer) - 1 + 1 = Len(buffer)
    BY <1>0
  <2> QED
    BY <2>1 DEF Complete, Last, at
<1>3. next \in 1..Len(buffer) /\ at(next - 1) = NL
  BY <1>0, <1>1, <1>2
<1>4. ~EmptyLineTo(pos) /\ ToSet(ends) = StartsTo(pos)
  BY DEF ScanInv
<1>5. ASSUME NEW i \in 1..(next - 1), at(i - 1) = NL
      PROVE  i \in 1..pos
  <2>1. i - 1 \notin pos..(next - 2)
    BY <1>1, <1>5
  <2> QED
    BY <1>0, <1>1, <2>1
<1>6. ~EmptyLineTo(next - 1)
  BY <1>4, <1>5 DEF EmptyLineTo
<1>7. \A i \in 1..pos : i \in 1..(next - 1)
  BY <1>0, <1>1
<1>8. StartsTo(next - 1) = StartsTo(pos)
  BY <1>5, <1>7 DEF StartsTo
<1> QED
  BY <1>0, <1>1, <1>3, <1>4, <1>6, <1>8

(* The end of the record, when scan sees it.                               *)
LEMMA RecordEndIs ==
  ASSUME ParserTypes, Len(buffer) > 1, NEW q \in 1..Len(buffer), ~EmptyLineTo(q - 1),
         q = Len(buffer) \/ (at(q - 1) = NL /\ at(q) = NL)
  PROVE  RecordEnd = q
<1> DEFINE T == {Len(buffer)} \cup {i \in 1..(Len(buffer) - 1) : at(i - 1) = NL /\ at(i) = NL}
<1>0. Len(buffer) \in Nat
  BY TypeFacts
<1>1. T \in SUBSET Nat
  BY <1>0
<1>2. q \in T
  BY <1>0
<1>3. ASSUME NEW i \in T
      PROVE  q <= i
  <2>1. CASE i = Len(buffer)
    BY <2>1
  <2>2. CASE i # Len(buffer) /\ i < q
    <3>1. i \in 1..(q - 1) /\ at(i - 1) = NL /\ at(i) = NL
      BY <1>0, <2>2
    <3> QED
      BY <3>1 DEF EmptyLineTo
  <2> QED
    BY <1>0, <1>1, <2>1, <2>2
<1>4. Min(T) = q
  <2> HIDE DEF T
  <2> QED
    BY <1>1, <1>2, <1>3, MinIs
<1> QED
  BY <1>4 DEF RecordEnd

LEMMA FieldStartsAre ==
  ASSUME RecordEnd \in Nat \ {0}
  PROVE  /\ 0 \in FieldStarts
         /\ FieldStarts \ {0} = StartsTo(RecordEnd - 1)
BY DEF FieldStarts, StartsTo

LEMMA ScanFinds ==
  ASSUME ParserTypes, ScanInv, Scan
  PROVE  ScanInv'
<1>0. pc = "scan" /\ more /\ pos' = next /\ UNCHANGED <<buffer, sorted, search>>
  BY DEF Scan
<1>1. pc' = "scan" => buffer' # <<>> /\ \A i \in 1..size' : ends'[i] <= pos'
  BY ScanTypes
<1>2. SUFFICES ASSUME Complete'
               PROVE  /\ pc' = "scan" => /\ pos' < Len(buffer)
                                         /\ at(pos' - 1) = NL /\ at(pos') # NL
                                         /\ ~EmptyLineTo(pos')
                                         /\ ToSet(ends') = StartsTo(pos')
                      /\ pc' # "scan" => ToSet(ends') = (FieldStarts \ {0}) \cup {RecordEnd}
  <2>1. FieldStarts' = FieldStarts /\ RecordEnd' = RecordEnd
    BY <1>0 DEF FieldStarts, RecordEnd, at
  <2>2. StartsTo(pos)' = StartsTo(pos') /\ EmptyLineTo(pos)' = EmptyLineTo(pos')
    BY <1>0 DEF StartsTo, EmptyLineTo, at
  <2>3. at(pos - 1)' = at(pos' - 1) /\ at(pos)' = at(pos')
    BY <1>0 DEF at
  <2> QED
    BY <1>0, <1>1, <2>1, <2>2, <2>3 DEF ScanInv
<1>3. Complete
  BY <1>0, <1>2 DEF Complete
<1>4. /\ buffer # <<>> /\ pos < next /\ next \in 1..Len(buffer) /\ at(next - 1) = NL
      /\ ~EmptyLineTo(next - 1)
      /\ StartsTo(next - 1) = ToSet(ends)
  BY <1>0, <1>3, NextStarts
<1>5. Len(buffer) \in Nat /\ Len(buffer) > 1
  BY <1>3, TypeFacts DEF Complete
<1>6. ASSUME NEW x
      PROVE  x \in 1..next <=> x \in 1..(next - 1) \/ x = next
  BY <1>4, <1>5
<1>7. CASE next = Len(buffer) \/ at(next) = NL
  <2>1. pc' = "sort" /\ ends' = Append(ends, next)
    BY <1>7 DEF Scan
  <2>2. RecordEnd = next
    BY <1>4, <1>5, <1>7, RecordEndIs
  <2>3. FieldStarts \ {0} = StartsTo(next - 1)
    BY <1>4, <2>2, FieldStartsAre
  <2>4. ToSet(ends') = ToSet(ends) \cup {next}
    <3>1. ends \in Seq(0..Len(buffer)) /\ next \in 0..Len(buffer)
      BY <1>4 DEF ParserTypes
    <3> QED
      BY <2>1, <3>1, AppendFacts
  <2> QED
    BY <1>4, <2>1, <2>2, <2>3, <2>4
<1>8. CASE ~(next = Len(buffer) \/ at(next) = NL)
  <2>1. pc' = "scan" /\ ends' = IF ~isspace(at(next)) THEN Append(ends, next) ELSE ends
    BY <1>8 DEF Scan
  <2>2. ~EmptyLineTo(next)
    BY <1>4, <1>6, <1>8 DEF EmptyLineTo
  <2>3. StartsTo(next) = StartsTo(next - 1) \cup IF ~isspace(at(next)) THEN {next} ELSE {}
    BY <1>4, <1>6 DEF StartsTo
  <2>4. ToSet(ends') = ToSet(ends) \cup IF ~isspace(at(next)) THEN {next} ELSE {}
    <3>1. ends \in Seq(0..Len(buffer)) /\ next \in 0..Len(buffer)
      BY <1>4 DEF ParserTypes
    <3> QED
      BY <2>1, <3>1, AppendFacts
  <2> QED
    BY <1>0, <1>4, <1>5, <1>8, <2>1, <2>2, <2>3, <2>4
<1> QED
  BY <1>7, <1>8

(* The loop does not run off the end of a record that ends with a newline. *)
LEMMA ScanEndsIncomplete ==
  ASSUME ParserTypes, ScanInv, pc = "scan", ~more
  PROVE  ~Complete
<1> SUFFICES ASSUME Complete
             PROVE  FALSE
  OBVIOUS
<1>1. Len(buffer) \in Nat /\ Len(buffer) > 1 /\ pos \in 0..Len(buffer) /\ buffer[Len(buffer)] = NL
  BY TypeFacts DEF Complete, ParserTypes, Last
<1>2. pos < Len(buffer) /\ (pos > 0 => at(pos) # NL)
  BY DEF ScanInv
<1>3. pos = Len(buffer) - 1
  BY <1>1, <1>2 DEF more
<1>4. at(pos) = buffer[Len(buffer)]
  BY <1>1, <1>3 DEF at
<1> QED
  BY <1>1, <1>2, <1>3, <1>4

-----------------------------------------------------------------------------
(* The sort and the search.                                                *)

(* Neighbours in order make a sorted sequence.                             *)
LEMMA SortedPairs ==
  ASSUME NEW m \in Nat, NEW f \in [1..m -> String],
         \A i \in 1..(m - 1) : ~Less(f[i + 1], f[i])
  PROVE  \A i, j \in 1..m : i < j => ~Less(f[j], f[i])
<1> SUFFICES ASSUME NEW i \in 1..m, \E j \in 1..m : i < j /\ Less(f[j], f[i])
             PROVE  FALSE
  OBVIOUS
<1> DEFINE D == {j \in 1..m : i < j /\ Less(f[j], f[i])}
<1>1. D \in SUBSET Nat /\ D # {}
  OBVIOUS
<1>2. PICK j \in D : \A k \in D : j <= k
  <2> HIDE DEF D
  <2> QED
    BY <1>1, LeastNatural
<1>3. j \in 1..m /\ i < j /\ Less(f[j], f[i])
  OBVIOUS
<1>4. j - 1 \in 1..(m - 1) /\ j - 1 \in 1..m /\ (j - 1) + 1 = j
  BY <1>3
<1>5. ~Less(f[j], f[j - 1])
  BY <1>4
<1>6. CASE j - 1 = i
  BY <1>3, <1>5, <1>6
<1>7. CASE j - 1 # i
  <2>1. i < j - 1
    BY <1>3, <1>4, <1>7
  <2>2. j - 1 \notin D
    <3>1. ~(j <= j - 1)
      BY <1>3
    <3> HIDE DEF D
    <3> QED
      BY <1>2, <3>1
  <2>3. ~Less(f[j - 1], f[i])
    BY <1>4, <2>1, <2>2
  <2>4. f[j] \in String /\ f[j - 1] \in String /\ f[i] \in String
    BY <1>3, <1>4
  <2> QED
    BY <1>3, <1>5, <2>3, <2>4, NotLessTransitive
<1> QED
  BY <1>6, <1>7

LEMMA NamesKept ==
  ASSUME UNCHANGED <<buffer, ends>>
  PROVE  \A i : name(i)' = name(i)
BY DEF name, field, size

LEMMA SortSorts ==
  ASSUME ParserTypes, Sort
  PROVE  SortInv'
<1>1. size \in Nat
  BY TypeFacts
<1>2. PICK s \in SetToSeqs(0..(size - 1)) :
        /\ \A i \in 1..(size - 1) : ~Less(name(s[i + 1]), name(s[i]))
        /\ sorted' = s
  BY DEF Sort
<1>3. Cardinality(0..(size - 1)) = size /\ IsFiniteSet(0..(size - 1))
  BY <1>1, FS_Interval
<1>4. s \in [1..size -> 0..(size - 1)] /\ \A i, j \in 1..size : i # j => s[i] # s[j]
  BY <1>3 DEF SetToSeqs
<1>5. ToSet(s) = 0..(size - 1)
  <2>1. s \in Injection(1..size, 0..(size - 1))
    BY <1>4 DEF Injection, IsInjective
  <2>2. Cardinality(1..size) = size
    BY <1>1, FS_Interval
  <2>3. s \in Surjection(1..size, 0..(size - 1))
    BY <1>3, <2>1, <2>2, FS_Injection
  <2> QED
    BY <1>4, <2>3 DEF Surjection, ToSet
<1>6. \A i, j \in 1..size : i < j => ~Less(name(s[j]), name(s[i]))
  <2> DEFINE f == [i \in 1..size |-> name(s[i])]
  <2>1. \A i \in 1..size : name(s[i]) \in String
    BY <1>4, FieldFacts
  <2>2. f \in [1..size -> String]
    BY <2>1
  <2>3. \A i \in 1..(size - 1) : i \in 1..size /\ i + 1 \in 1..size
    BY <1>1
  <2>4. \A i \in 1..(size - 1) : ~Less(f[i + 1], f[i])
    BY <1>2, <2>3
  <2>5. \A i \in 1..size : f[i] = name(s[i])
    OBVIOUS
  <2> HIDE DEF f
  <2>6. \A i, j \in 1..size : i < j => ~Less(f[j], f[i])
    BY <1>1, <2>2, <2>4, SortedPairs
  <2> QED
    BY <2>5, <2>6
<1>7. /\ sorted' = s /\ size' = size /\ \A i : name(i)' = name(i)
  BY <1>2, NamesKept DEF Sort, size
<1> QED
  BY <1>4, <1>5, <1>6, <1>7 DEF SortInv

LEMMA SortedNames ==
  ASSUME ParserTypes, SortInv, pc \in {"search", "ready"}, NEW i \in 1..size
  PROVE  sorted[i] \in 0..(size - 1) /\ name(sorted[i]) \in String
BY FieldFacts DEF SortInv

LEMMA SearchKeeps ==
  ASSUME ParserTypes, SortInv, SearchInv, Search
  PROVE  ParserTypes' /\ SearchInv'
<1>1. /\ pc = "search" /\ end - begin > 1
      /\ UNCHANGED <<members, pos, str, found, pc>>
  BY DEF Search
<1> DEFINE cur == (end + begin) \div 2
<1>2. size \in Nat /\ begin \in -1..(size - 1) /\ end \in 0..size /\ begin < end
  BY TypeFacts DEF ParserTypes
<1>3. cur \in 0..(size - 1) /\ begin < cur /\ cur < end
  BY <1>1, <1>2
<1>4. IF Less(str, name(sorted[cur + 1]))
      THEN end' = cur /\ UNCHANGED begin
      ELSE begin' = cur /\ UNCHANGED end
  BY DEF Search
<1> HIDE DEF cur
<1>5. /\ buffer' = buffer /\ ends' = ends /\ sorted' = sorted /\ size' = size
      /\ \A i : name(i)' = name(i)
  BY <1>1, NamesKept DEF members, size
<1>6. begin' \in -1..(size - 1) /\ end' \in 0..size /\ begin' < end'
  BY <1>2, <1>3, <1>4
<1>7. ParserTypes'
  BY <1>1, <1>5, <1>6 DEF ParserTypes
<1>8. SearchInv'
  <2>1. found = Nothing
    BY <1>1 DEF SearchInv
  <2>2. /\ begin' = -1 \/ ~Less(str, name(sorted[begin' + 1]))
        /\ end' = size \/ Less(str, name(sorted[end' + 1]))
    BY <1>1, <1>4 DEF SearchInv
  <2>3. (name(sorted[begin + 1]))' = name(sorted[begin' + 1])
    BY <1>5 DEF name, field, size
  <2>4. (name(sorted[end + 1]))' = name(sorted[end' + 1])
    BY <1>5 DEF name, field, size
  <2> QED
    BY <1>1, <1>5, <2>1, <2>2, <2>3, <2>4 DEF SearchInv
<1> QED
  BY <1>7, <1>8

LEMMA SearchFinds ==
  ASSUME ParserTypes, SortInv, SearchInv, SearchEnds
  PROVE  ParserTypes' /\ SearchInv'
<1>1. /\ pc = "search" /\ end - begin <= 1 /\ pc' = "ready"
      /\ begin' = -1 /\ end' = 0
      /\ UNCHANGED <<members, pos, str>>
  BY DEF SearchEnds
<1>2. found' = IF begin = -1 \/ name(sorted[begin + 1]) # str THEN size ELSE sorted[begin + 1]
  BY DEF SearchEnds
<1>3. size \in Nat /\ begin \in -1..(size - 1) /\ end \in 0..size /\ begin < end /\ str \in String
  BY TypeFacts DEF ParserTypes
<1>4. end = begin + 1
  BY <1>1, <1>3
<1>5. /\ buffer' = buffer /\ ends' = ends /\ sorted' = sorted /\ size' = size /\ str' = str /\ pos' = pos
      /\ \A i : name(i)' = name(i)
  BY <1>1, NamesKept DEF members, size
<1>6. /\ begin = -1 \/ ~Less(str, name(sorted[begin + 1]))
      /\ end = size \/ Less(str, name(sorted[end + 1]))
  BY <1>1 DEF SearchInv
<1>7. ASSUME NEW k \in 1..size, name(sorted[k]) = str
      PROVE  begin # -1 /\ name(sorted[begin + 1]) = str
  <2>1. \A i, j \in 1..size : i < j => ~Less(name(sorted[j]), name(sorted[i]))
    BY <1>1 DEF SortInv
  <2>2. k <= begin + 1
    <3>1. CASE end = size
      BY <1>3, <1>4, <3>1
    <3>2. CASE end # size /\ k > begin + 1
      <4>1. end + 1 \in 1..size /\ Less(str, name(sorted[end + 1]))
        BY <1>3, <1>6, <3>2
      <4>2. k = end + 1 \/ end + 1 < k
        BY <1>3, <1>4, <3>2
      <4>3. end + 1 # k
        BY <1>3, <1>7, <4>1, LessIrreflexive
      <4>4. ~Less(str, name(sorted[end + 1]))
        BY <1>7, <2>1, <4>1, <4>2, <4>3
      <4> QED
        BY <4>1, <4>4
    <3> QED
      BY <1>3, <3>1, <3>2
  <2>3. begin # -1 /\ begin + 1 \in 1..size
    BY <1>3, <2>2
  <2>4. CASE k = begin + 1
    BY <1>7, <2>3, <2>4
  <2>5. CASE k < begin + 1
    <3>1. ~Less(name(sorted[begin + 1]), str)
      BY <1>7, <2>1, <2>3, <2>5
    <3>2. ~Less(str, name(sorted[begin + 1]))
      BY <1>6, <2>3
    <3>3. name(sorted[begin + 1]) \in String
      BY <1>1, <2>3, SortedNames
    <3> QED
      BY <1>3, <2>3, <3>1, <3>2, <3>3, LessTotal
  <2> QED
    BY <1>3, <2>2, <2>3, <2>4, <2>5
<1>8. \/ found' = size /\ \A i \in 0..(size - 1) : name(i) # str
      \/ found' \in 0..(size - 1) /\ name(found') = str
  <2>1. CASE begin = -1 \/ name(sorted[begin + 1]) # str
    <3>1. ASSUME NEW i \in 0..(size - 1)
          PROVE  name(i) # str
      <4>1. PICK k \in 1..size : sorted[k] = i
        BY <1>1, <1>3 DEF SortInv, ToSet
      <4> QED
        BY <1>7, <2>1, <4>1
    <3> QED
      BY <1>2, <2>1, <3>1
  <2>2. CASE ~(begin = -1 \/ name(sorted[begin + 1]) # str)
    <3>1. begin + 1 \in 1..size
      BY <1>3, <2>2
    <3>2. sorted[begin + 1] \in 0..(size - 1)
      BY <1>1, <3>1, SortedNames
    <3> QED
      BY <1>2, <2>2, <3>2
  <2> QED
    BY <2>1, <2>2
<1>9. found' \in 0..size
  BY <1>3, <1>8
<1>10. ParserTypes'
  <2>1. begin' \in -1..(size' - 1) /\ end' \in 0..size' /\ begin' < end'
    BY <1>1, <1>3, <1>5
  <2> QED
    BY <1>1, <1>5, <1>9, <2>1 DEF ParserTypes
<1>11. SearchInv'
  <2>1. name(found)' = name(found')
    BY <1>5 DEF name, field, size
  <2> QED
    BY <1>1, <1>5, <1>8, <2>1 DEF SearchInv
<1> QED
  BY <1>10, <1>11

-----------------------------------------------------------------------------
(* The steps together.                                                     *)

LEMMA LookupInit == InitParser => LookupInv
<1> SUFFICES ASSUME InitParser
             PROVE  LookupInv
  OBVIOUS
<1>1. /\ buffer = <<>> /\ ends = <<>> /\ sorted = <<>> /\ pos = 0
      /\ str = <<>> /\ begin = -1 /\ end = 0 /\ found = -1 /\ pc = "ready" /\ Nothing = -1
  BY DEF InitParser, Nothing
<1>2. Len(buffer) = 0 /\ size = 0 /\ buffer \in String /\ str \in String
  BY <1>1 DEF String, size
<1>3. ends \in Seq(0..Len(buffer)) /\ Increasing(ends)
  BY <1>1 DEF Increasing
<1>4. ParserTypes
  BY <1>1, <1>2, <1>3 DEF ParserTypes
<1>5. ScanInv
  BY <1>1, <1>2 DEF ScanInv, Complete
<1>6. SortInv
  <2>1. sorted \in [1..size -> 0..(size - 1)] /\ ToSet(sorted) = 0..(size - 1)
    BY <1>1, <1>2 DEF ToSet
  <2> QED
    BY <1>2, <2>1 DEF SortInv
<1>7. SearchInv
  BY <1>1 DEF SearchInv
<1> QED
  BY <1>4, <1>5, <1>6, <1>7 DEF LookupInv

LEMMA LookupStutter == LookupInv /\ UNCHANGED parserVars => LookupInv'
<1> SUFFICES ASSUME LookupInv, UNCHANGED parserVars
             PROVE  LookupInv'
  OBVIOUS
<1>1. /\ buffer' = buffer /\ ends' = ends /\ sorted' = sorted /\ pos' = pos /\ size' = size
      /\ str' = str /\ begin' = begin /\ end' = end /\ found' = found /\ pc' = pc
  BY DEF parserVars, members, search, size
<1>2. ParserTypes'
  BY <1>1 DEF LookupInv, ParserTypes
<1>3. ScanInv'
  BY <1>1 DEF LookupInv, ScanInv, Complete, EmptyLineTo, StartsTo, FieldStarts, RecordEnd, at
<1>4. SortInv'
  BY <1>1 DEF LookupInv, SortInv, name, field
<1>5. SearchInv'
  BY <1>1 DEF LookupInv, SearchInv, name, field
<1> QED
  BY <1>2, <1>3, <1>4, <1>5 DEF LookupInv

(* A step that changes neither the record nor what is known of it.         *)
LEMMA MembersKept ==
  ASSUME ScanInv, SortInv, pc # "scan", pc' # "scan", UNCHANGED members
  PROVE  /\ ScanInv'
         /\ (pc' \in {"search", "ready"} => pc \in {"search", "ready"}) => SortInv'
<1>1. buffer' = buffer /\ ends' = ends /\ sorted' = sorted /\ size' = size
  BY DEF members, size
<1>2. ScanInv'
  BY <1>1 DEF ScanInv, Complete, FieldStarts, RecordEnd, at
<1>3. ASSUME pc' \in {"search", "ready"} => pc \in {"search", "ready"}
      PROVE  SortInv'
  BY <1>1, <1>3 DEF SortInv, name, field
<1> QED
  BY <1>2, <1>3

LEMMA LookupStep == LookupInv /\ ParserStep => LookupInv'
<1> SUFFICES ASSUME LookupInv, ParserStep
             PROVE  LookupInv'
  OBVIOUS
<1> USE DEF LookupInv
<1>0. size \in Nat /\ Len(buffer) \in Nat
  BY TypeFacts
<1>1. ASSUME NEW s \in Buffers, ScanCall(s)
      PROVE  LookupInv'
  <2>1. /\ buffer' = s /\ ends' = <<>> /\ pos' = 0 /\ pc' = "scan"
        /\ str' = <<>> /\ begin' = -1 /\ end' = 0 /\ found' = Nothing
    BY <1>1 DEF ScanCall, NewSearch
  <2>2. s \in String /\ <<>> \in String /\ Len(s) \in Nat
    BY BuffersAssumption DEF String
  <2>3. size' = 0 /\ ends' \in Seq(0..Len(buffer')) /\ Increasing(ends')
    BY <2>1 DEF size, Increasing
  <2>4. ParserTypes'
    BY <2>1, <2>2, <2>3 DEF ParserTypes
  <2>5. ScanInv'
    <3>1. StartsTo(pos)' = {} /\ ~EmptyLineTo(pos)' /\ ToSet(ends)' = {}
      BY <2>1 DEF StartsTo, EmptyLineTo, ToSet
    <3>2. Complete' => pos' < Len(buffer')
      BY <2>1 DEF Complete
    <3>3. pc' = "scan" => (buffer' = <<>> => ends' = <<>>) /\ \A i \in 1..size' : ends'[i] <= pos'
      <4>1. 1..size' = {}
        BY <2>3
      <4> QED
        BY <2>1, <4>1
    <3>4. Complete' /\ pc' = "scan" =>
            /\ pos' < Len(buffer') /\ (pos' > 0 => at(pos - 1)' = NL /\ at(pos)' # NL)
            /\ ~EmptyLineTo(pos)' /\ ToSet(ends)' = StartsTo(pos)'
      <4>1. ~(pos' > 0) /\ (Complete' => pos' < Len(buffer'))
        BY <2>1, <3>2
      <4>2. ToSet(ends)' = StartsTo(pos)' /\ ~EmptyLineTo(pos)'
        BY <3>1, Zenon
      <4> QED
        BY <4>1, <4>2, Zenon
    <3>5. pc' = "scan"
      BY <2>1
    <3> QED
      BY <3>3, <3>4, <3>5 DEF ScanInv
  <2> QED
    BY <2>1, <2>4, <2>5 DEF SortInv, SearchInv, Nothing
<1>2. CASE Scan
  <2>1. ParserTypes' /\ ScanInv'
    BY <1>2, ScanTypes, ScanFinds
  <2>2. pc' \in {"scan", "sort"}
    BY <1>2 DEF Scan
  <2>3. found' = Nothing
    BY <2>1, <2>2 DEF ParserTypes
  <2> QED
    BY <2>1, <2>2, <2>3 DEF SortInv, SearchInv
<1>3. CASE ScanEnds
  <2>1. pc = "scan" /\ ~more /\ pc' = "sort" /\ UNCHANGED <<members, pos, search>>
    BY <1>3 DEF ScanEnds
  <2>2. ~Complete
    BY <2>1, ScanEndsIncomplete
  <2>3. UNCHANGED <<buffer, ends, pos, str, begin, end, found>> /\ size' = size
    BY <2>1 DEF members, search, size
  <2>4. ParserTypes'
    BY <2>1, <2>3 DEF ParserTypes
  <2>5. ScanInv'
    BY <2>1, <2>2, <2>3 DEF ScanInv, Complete
  <2>6. found' = Nothing
    BY <2>1, <2>4 DEF ParserTypes
  <2> QED
    BY <2>1, <2>4, <2>5, <2>6 DEF SortInv, SearchInv
<1>4. CASE Sort
  <2>1. pc = "sort" /\ pos' = 0 /\ pc' = "ready" /\ UNCHANGED <<buffer, ends, search>>
    BY <1>4 DEF Sort
  <2>2. UNCHANGED <<buffer, ends, str, begin, end, found>> /\ size' = size
    BY <2>1 DEF search, size
  <2>3. ParserTypes'
    BY <1>0, <2>1, <2>2 DEF ParserTypes
  <2>4. ScanInv'
    BY <2>1, <2>2 DEF ScanInv, Complete, FieldStarts, RecordEnd, at
  <2>5. SortInv'
    BY <1>4, SortSorts
  <2>6. found' = Nothing
    BY <2>1, <2>2 DEF ParserTypes
  <2> QED
    BY <2>1, <2>3, <2>4, <2>5, <2>6 DEF SearchInv
<1>5. ASSUME NEW s \in Names, IndexCall(s)
      PROVE  LookupInv'
  <2>1. /\ pc = "ready" /\ pc' = "search" /\ UNCHANGED <<members, pos>>
        /\ str' = s /\ begin' = -1 /\ end' = size /\ found' = Nothing
    BY <1>5 DEF IndexCall, NewSearch
  <2>2. UNCHANGED <<buffer, ends, sorted, pos>> /\ size' = size /\ s \in String
    BY <2>1, NamesAssumption DEF members, size, String
  <2>3. begin' \in -1..(size' - 1) /\ end' \in 0..size' /\ begin' < end'
    BY <1>0, <2>1, <2>2
  <2>4. ParserTypes'
    BY <2>1, <2>2, <2>3 DEF ParserTypes
  <2>5. ScanInv' /\ SortInv'
    BY <2>1, MembersKept
  <2> QED
    BY <2>1, <2>2, <2>4, <2>5 DEF SearchInv
<1>6. CASE Search
  <2>1. ParserTypes' /\ SearchInv'
    BY <1>6, SearchKeeps
  <2>2. pc = "search" /\ pc' = pc /\ UNCHANGED members
    BY <1>6 DEF Search
  <2> QED
    BY <2>1, <2>2, MembersKept
<1>7. CASE SearchEnds
  <2>1. ParserTypes' /\ SearchInv'
    BY <1>7, SearchFinds
  <2>2. pc = "search" /\ pc' = "ready" /\ UNCHANGED members
    BY <1>7 DEF SearchEnds
  <2> QED
    BY <2>1, <2>2, MembersKept
<1> QED
  BY <1>1, <1>2, <1>3, <1>4, <1>5, <1>6, <1>7 DEF ParserStep

(* The fields that scan made are the fields of the record.                 *)
LEMMA FieldsOfRecord ==
  ASSUME LookupInv, Complete, pc # "scan"
  PROVE  /\ size > 0
         /\ \A idx \in 0..(size - 1) : From(idx) \in FieldStarts /\ field(idx) = FieldAt(From(idx))
         /\ \A i \in FieldStarts : \E idx \in 0..(size - 1) : From(idx) = i
<1>0. /\ ParserTypes /\ size \in Nat /\ Len(buffer) \in Nat /\ Len(buffer) > 1
      /\ ends \in [1..size -> 0..Len(buffer)]
      /\ \A i, j \in 1..size : i < j => ends[i] < ends[j]
  BY TypeFacts DEF LookupInv, Complete, ParserTypes, Increasing, size
<1>1. ToSet(ends) = (FieldStarts \ {0}) \cup {RecordEnd}
  BY DEF LookupInv, ScanInv
<1>2. RecordEnd \in 1..Len(buffer)
  <2> DEFINE T == {Len(buffer)} \cup {i \in 1..(Len(buffer) - 1) : at(i - 1) = NL /\ at(i) = NL}
  <2>1. T \in SUBSET Nat /\ T # {} /\ T \in SUBSET (1..Len(buffer))
    BY <1>0
  <2>2. Min(T) \in T
    <3> HIDE DEF T
    <3> QED
      BY <2>1, MinFacts
  <2> QED
    BY <2>1, <2>2 DEF RecordEnd
<1>3. 0 \in FieldStarts /\ \A i \in FieldStarts : i \in Nat /\ i < RecordEnd
  BY <1>2 DEF FieldStarts
<1>4. \A x : x \in ToSet(ends) <=> \E k \in 1..size : ends[k] = x
  BY <1>0 DEF ToSet
<1>5. PICK last \in 1..size : ends[last] = RecordEnd
  BY <1>1, <1>4
<1>6. size > 0 /\ 0 \in 0..(size - 1)
  BY <1>0, <1>5
<1>7. ASSUME NEW k \in 1..size
      PROVE  /\ ends[k] \in FieldStarts \/ ends[k] = RecordEnd
             /\ ends[k] > 0
             /\ k < size => ends[k] \in FieldStarts
  <2>1. ends[k] \in (FieldStarts \ {0}) \cup {RecordEnd}
    BY <1>1, <1>4
  <2>2. ends[k] > 0
    BY <1>2, <1>3, <2>1
  <2>3. ASSUME k < size, ends[k] = RecordEnd
        PROVE  FALSE
    <3>1. k + 1 \in 1..size /\ ends[k] < ends[k + 1]
      BY <1>0, <2>3
    <3>2. ends[k + 1] \in (FieldStarts \ {0}) \cup {RecordEnd}
      BY <1>1, <1>4, <3>1
    <3> QED
      BY <1>2, <1>3, <2>3, <3>1, <3>2
  <2> QED
    BY <2>1, <2>2, <2>3
<1>8. ASSUME NEW idx \in 0..(size - 1)
      PROVE  From(idx) \in FieldStarts /\ field(idx) = FieldAt(From(idx))
  <2>1. idx + 1 \in 1..size /\ (idx > 0 => idx \in 1..size /\ idx < size)
    BY <1>0
  <2>2. From(idx) \in FieldStarts
    BY <1>3, <1>7, <2>1 DEF From
  <2> DEFINE T == {j \in FieldStarts : j > From(idx)} \cup {RecordEnd}
  <2>3. T \in SUBSET Nat
    BY <1>2, <1>3
  <2>4. ends[idx + 1] > From(idx)
    BY <1>0, <1>7, <2>1 DEF From
  <2>5. ends[idx + 1] \in T
    BY <1>7, <2>1, <2>4
  <2>6. ASSUME NEW j \in T
        PROVE  ends[idx + 1] <= j
    <3>1. j > From(idx) /\ From(idx) \in Nat /\ j \in Nat /\ (j \in FieldStarts \/ j = RecordEnd)
      BY <1>2, <1>3, <2>2
    <3>2. j \in (FieldStarts \ {0}) \cup {RecordEnd}
      BY <3>1
    <3>3. PICK k \in 1..size : ends[k] = j
      BY <1>1, <1>4, <3>2
    <3>4. k > idx
      <4>1. CASE idx = 0
        BY <4>1
      <4>2. CASE idx # 0 /\ k <= idx
        <5>1. idx \in 1..size /\ From(idx) = ends[idx]
          BY <2>1, <4>2 DEF From
        <5>2. k = idx \/ ends[k] < ends[idx]
          BY <1>0, <4>2, <5>1
        <5> QED
          BY <1>0, <3>1, <3>3, <5>1, <5>2
      <4> QED
        BY <1>0, <4>1, <4>2
    <3>5. k = idx + 1 \/ ends[idx + 1] < ends[k]
      BY <1>0, <2>1, <3>4
    <3> QED
      BY <1>0, <2>1, <3>3, <3>5
  <2>7. Min(T) = ends[idx + 1]
    <3> HIDE DEF T
    <3> QED
      BY <2>3, <2>5, <2>6, MinIs
  <2>8. field(idx) = SubSeq(buffer, From(idx) + 1, ends[idx + 1])
    BY <1>0, FieldFacts
  <2> QED
    BY <2>2, <2>7, <2>8 DEF FieldAt
<1>9. ASSUME NEW i \in FieldStarts
      PROVE  \E idx \in 0..(size - 1) : From(idx) = i
  <2>1. CASE i = 0
    BY <1>6, <2>1 DEF From
  <2>2. CASE i # 0
    <3>1. PICK k \in 1..size : ends[k] = i
      BY <1>1, <1>4, <2>2
    <3>2. i < RecordEnd /\ i \in Nat
      BY <1>3
    <3>3. k < last
      <4>1. CASE last < k
        BY <1>0, <1>2, <1>5, <3>1, <3>2, <4>1
      <4>2. CASE last = k
        BY <1>2, <1>5, <3>1, <3>2, <4>2
      <4> QED
        BY <1>0, <4>1, <4>2
    <3>4. k \in 0..(size - 1) /\ k # 0
      BY <1>0, <3>3
    <3> QED
      BY <3>1, <3>4 DEF From
  <2> QED
    BY <2>1, <2>2
<1> QED
  BY <1>6, <1>8, <1>9

LEMMA LookupInvImplies == LookupInv => LookupFinds
<1> SUFFICES ASSUME LookupInv
             PROVE  LookupFinds
  OBVIOUS
<1>0. /\ ParserTypes /\ size \in Nat /\ Len(buffer) \in Nat
      /\ ends \in [1..size -> 0..Len(buffer)]
      /\ \A i, j \in 1..size : i < j => ends[i] < ends[j]
  BY TypeFacts DEF LookupInv, ParserTypes, Increasing, size
<1>1. InBounds
  <2>1. ASSUME NEW i \in DOMAIN ends
        PROVE  ends[i] \in 0..Len(buffer) /\ (i > 1 => ends[i - 1] < ends[i])
    <3>1. i \in 1..size /\ (i > 1 => i - 1 \in 1..size /\ i - 1 < i)
      BY <1>0
    <3> QED
      BY <1>0, <3>1
  <2>2. pc \in {"ready", "search"} => Len(sorted) = size /\ ToSet(sorted) = 0..(size - 1)
    <3>1. pc \in {"ready", "search"} => sorted \in [1..size -> 0..(size - 1)] /\ ToSet(sorted) = 0..(size - 1)
      BY DEF LookupInv, SortInv
    <3> QED
      BY <1>0, <3>1
  <2> QED
    BY <1>0, <2>1, <2>2 DEF InBounds, ParserTypes
<1>2. ASSUME found # Nothing, Complete
      PROVE  LET having == {i \in FieldStarts : NameAt(i) = str}
             IN  IF having = {} THEN found = size
                 ELSE found < size /\ \E i \in having : field(found) = FieldAt(i)
  <2>1. /\ pc = "ready"
        /\ \/ found = size /\ \A i \in 0..(size - 1) : name(i) # str
           \/ found \in 0..(size - 1) /\ name(found) = str
    BY <1>2 DEF LookupInv, SearchInv
  <2>2. /\ \A idx \in 0..(size - 1) : From(idx) \in FieldStarts /\ field(idx) = FieldAt(From(idx))
        /\ \A i \in FieldStarts : \E idx \in 0..(size - 1) : From(idx) = i
    BY <1>2, <2>1, FieldsOfRecord
  <2>3. \A idx \in 0..(size - 1) : NameAt(From(idx)) = name(idx)
    BY <2>2 DEF NameAt, name
  <2>4. CASE found = size /\ \A i \in 0..(size - 1) : name(i) # str
    BY <2>2, <2>3, <2>4
  <2>5. CASE found \in 0..(size - 1) /\ name(found) = str
    <3>1. From(found) \in FieldStarts /\ NameAt(From(found)) = str /\ field(found) = FieldAt(From(found))
      BY <2>2, <2>3, <2>5
    <3>2. found < size
      BY <1>0, <2>5
    <3> QED
      BY <3>1, <3>2
  <2> QED
    BY <2>1, <2>4, <2>5
<1> QED
  BY <1>1, <1>2 DEF LookupFinds, Complete

LEMMA LookupInvariant == Spec => []LookupInv
<1>1. Init => LookupInv
  BY LookupInit DEF Init
<1>2. LookupInv /\ [Next]_vars => LookupInv'
  <2> SUFFICES ASSUME LookupInv, [Next]_vars
               PROVE  LookupInv'
    OBVIOUS
  <2>1. CASE Parser
    BY <2>1, LookupStep DEF Parser
  <2>2. CASE ~Parser
    <3>1. UNCHANGED parserVars
      BY <2>2 DEF Next, ParseTags, Sep, Tag, Braces, ParseEnds, In, vars
    <3> QED
      BY <3>1, LookupStutter
  <2> QED
    BY <2>1, <2>2
<1> QED
  BY <1>1, <1>2, PTL DEF Spec

(***************************************************************************)
(* For any records and any names: index finds a field that has the name,   *)
(* if the record has one, after any sequence of scans and searches, and    *)
(* never looks outside the fields (recordparser.cc:43-140).                *)
(***************************************************************************)
THEOREM IndexFinds == Spec => []LookupFinds
BY LookupInvariant, LookupInvImplies, PTL
-----------------------------------------------------------------------------
(* Sequences joined with a separator between them.                         *)

LEMMA CatFacts ==
  ASSUME NEW s \in String, NEW t \in String
  PROVE  /\ s \o t \in String /\ Len(s \o t) = Len(s) + Len(t)
         /\ \A k \in 1..Len(s) : (s \o t)[k] = s[k]
         /\ \A k \in 1..Len(t) : (s \o t)[Len(s) + k] = t[k]
BY DEF String

LEMMA SameString ==
  ASSUME NEW s \in String, NEW t \in String, Len(s) = Len(t), \A k \in 1..Len(s) : s[k] = t[k]
  PROVE  s = t
BY DEF String

(* What stands before each of them, with them.                             *)
Pieces(seqs, sep) ==
  [i \in DOMAIN seqs |-> IF i = 1 THEN seqs[i] ELSE sep \o seqs[i]]
UpTo(seqs, sep) ==
  LET flatten[i \in 1..Len(Pieces(seqs, sep))] ==
        IF i = 1 THEN Pieces(seqs, sep)[i] ELSE flatten[i - 1] \o Pieces(seqs, sep)[i]
  IN  flatten

LEMMA JoinedIsLast ==
  ASSUME NEW seqs, NEW sep, Len(Pieces(seqs, sep)) # 0
  PROVE  Joined(seqs, sep) = UpTo(seqs, sep)[Len(Pieces(seqs, sep))]
BY DEF Joined, FlattenSeq, UpTo, Pieces

(* The recursion has a solution.                                           *)
LEMMA UpToExists ==
  ASSUME NEW p, NEW n \in Nat \ {0}
  PROVE  \E f : f = [i \in 1..n |-> IF i = 1 THEN p[i] ELSE f[i - 1] \o p[i]]
<1> DEFINE Solved(m) == \E f : f = [i \in 1..m |-> IF i = 1 THEN p[i] ELSE f[i - 1] \o p[i]]
           T == {m \in Nat \ {0} : ~Solved(m)}
<1>1. Solved(1)
  <2> DEFINE f == [i \in 1..1 |-> p[i]]
  <2>1. f = [i \in 1..1 |-> IF i = 1 THEN p[i] ELSE f[i - 1] \o p[i]]
    OBVIOUS
  <2> HIDE DEF f
  <2> QED
    BY <2>1
<1>2. ASSUME NEW m \in Nat \ {0}, Solved(m)
      PROVE  Solved(m + 1)
  <2>1. PICK f : f = [i \in 1..m |-> IF i = 1 THEN p[i] ELSE f[i - 1] \o p[i]]
    BY <1>2
  <2> DEFINE g == [i \in 1..(m + 1) |-> IF i = m + 1 THEN f[m] \o p[i] ELSE f[i]]
             h == [i \in 1..(m + 1) |-> IF i = 1 THEN p[i] ELSE g[i - 1] \o p[i]]
  <2>2. ASSUME NEW i \in 1..(m + 1)
        PROVE  g[i] = IF i = 1 THEN p[i] ELSE g[i - 1] \o p[i]
    <3>1. CASE i = m + 1
      <4>1. i - 1 \in 1..(m + 1) /\ i - 1 # m + 1 /\ i - 1 = m /\ i # 1
        BY <3>1
      <4>2. g[i] = f[m] \o p[i] /\ g[i - 1] = f[m]
        BY <3>1, <4>1
      <4> QED
        BY <4>1, <4>2
    <3>2. CASE i # m + 1 /\ i # 1
      <4>1. i \in 1..m /\ i - 1 \in 1..(m + 1) /\ i - 1 # m + 1
        BY <3>2
      <4>2. g[i] = f[i] /\ g[i - 1] = f[i - 1]
        BY <3>2, <4>1
      <4>3. f[i] = f[i - 1] \o p[i]
        BY <2>1, <3>2, <4>1
      <4> QED
        BY <3>2, <4>2, <4>3
    <3>3. CASE i # m + 1 /\ i = 1
      <4>1. i \in 1..m
        BY <3>3
      <4>2. g[i] = f[i] /\ f[i] = p[i]
        BY <2>1, <3>3, <4>1
      <4> QED
        BY <3>3, <4>2
    <3> QED
      BY <3>1, <3>2, <3>3
  <2>3. g = h
    <3>1. \A i \in 1..(m + 1) : g[i] = h[i]
      BY <2>2
    <3> QED
      BY <3>1
  <2> HIDE DEF g
  <2> QED
    BY <2>3
<1>3. ASSUME T # {}
      PROVE  FALSE
  <2>1. PICK m \in T : \A k \in T : m <= k
    BY <1>3, LeastNatural
  <2>2. m # 1
    BY <1>1, <2>1
  <2>3. m - 1 \in Nat \ {0} /\ ~(m - 1 >= m) /\ (m - 1) + 1 = m
    BY <2>1, <2>2
  <2>4. m - 1 \notin T
    BY <2>1, <2>3
  <2>5. Solved(m - 1)
    BY <2>3, <2>4
  <2> HIDE DEF Solved
  <2>6. Solved((m - 1) + 1)
    BY <1>2, <2>3, <2>5
  <2> QED
    BY <2>1, <2>3, <2>6
<1> QED
  BY <1>3

LEMMA UpToFacts ==
  ASSUME NEW seqs \in Seq(String), NEW sep \in String, seqs # <<>>
  PROVE  /\ Len(seqs) \in Nat \ {0} /\ seqs \in [1..Len(seqs) -> String]
         /\ UpTo(seqs, sep) \in [1..Len(seqs) -> String]
         /\ UpTo(seqs, sep)[1] = seqs[1]
         /\ \A i \in 1..(Len(seqs) - 1) :
              UpTo(seqs, sep)[i + 1] = UpTo(seqs, sep)[i] \o (sep \o seqs[i + 1])
         /\ Joined(seqs, sep) = UpTo(seqs, sep)[Len(seqs)]
<1> DEFINE n == Len(seqs)
           p == Pieces(seqs, sep)
           f == UpTo(seqs, sep)
<1>1. n \in Nat \ {0} /\ seqs \in [1..n -> String] /\ DOMAIN seqs = 1..n
  OBVIOUS
<1>2. p = [i \in 1..n |-> IF i = 1 THEN seqs[i] ELSE sep \o seqs[i]]
  BY <1>1 DEF Pieces
<1>3. ASSUME NEW i \in 1..n
      PROVE  p[i] \in String
  <2>1. seqs[i] \in String
    BY <1>1
  <2>2. sep \o seqs[i] \in String
    BY <2>1, CatFacts
  <2> QED
    BY <1>2, <2>1, <2>2
<1>4. p \in Seq(String) /\ Len(p) = n
  <2>1. p \in [1..n -> String]
    BY <1>2, <1>3
  <2> HIDE DEF p, n
  <2> QED
    BY <1>1, <2>1
<1>5. f = [i \in 1..n |-> IF i = 1 THEN p[i] ELSE f[i - 1] \o p[i]]
  <2> DEFINE Solution(g) == g = [i \in 1..n |-> IF i = 1 THEN p[i] ELSE g[i - 1] \o p[i]]
  <2>1. \E g : Solution(g)
    <3> HIDE DEF p, n
    <3> QED
      BY <1>1, UpToExists
  <2>2. f = CHOOSE g : Solution(g)
    <3>1. f = CHOOSE g : g = [i \in 1..Len(p) |-> IF i = 1 THEN p[i] ELSE g[i - 1] \o p[i]]
      BY DEF UpTo
    <3>2. Len(p) = n
      BY <1>4
    <3> HIDE DEF f, p, n
    <3> QED
      BY <3>1, <3>2
  <2>3. Solution(f)
    <3> HIDE DEF Solution, f
    <3> QED
      BY <2>1, <2>2
  <2> QED
    BY <2>3
<1> HIDE DEF p, f, n
<1>6. \A i \in 1..n : f[i] = IF i = 1 THEN p[i] ELSE f[i - 1] \o p[i]
  BY <1>5, Zenon
<1>7. f[1] = seqs[1]
  <2>1. 1 \in 1..n
    BY <1>1
  <2>2. f[1] = p[1] /\ p[1] = seqs[1]
    BY <1>2, <1>6, <2>1
  <2> QED
    BY <2>2
<1>8. ASSUME NEW i \in 1..(n - 1)
      PROVE  f[i + 1] = f[i] \o (sep \o seqs[i + 1])
  <2>1. i + 1 \in 1..n /\ i + 1 # 1 /\ (i + 1) - 1 = i
    BY <1>1
  <2>2. f[i + 1] = f[(i + 1) - 1] \o p[i + 1]
    BY <1>6, <2>1
  <2>3. p[i + 1] = sep \o seqs[i + 1]
    BY <1>2, <2>1
  <2> QED
    BY <2>1, <2>2, <2>3
<1>9. \A i \in 1..n : f[i] \in String
  <2> DEFINE T == {i \in 1..n : f[i] \notin String}
  <2>1. ASSUME T # {}
        PROVE  FALSE
    <3>0. T \in SUBSET Nat
      BY <1>1
    <3>1. PICK i \in T : \A k \in T : i <= k
      BY <2>1, <3>0, LeastNatural
    <3>2. i # 1
      <4>1. seqs[1] \in String
        BY <1>1
      <4> QED
        BY <1>7, <3>1, <4>1
    <3>3. i \in 1..n /\ i - 1 \in 1..n /\ ~(i <= i - 1) /\ i - 1 \in 1..(n - 1)
      BY <1>1, <3>1, <3>2
    <3>4. f[i - 1] \in String
      BY <3>1, <3>3
    <3>5. f[i] = f[i - 1] \o p[i]
      BY <1>6, <3>2, <3>3
    <3>6. p[i] \in String
      BY <1>3, <3>3
    <3> QED
      BY <3>1, <3>4, <3>5, <3>6, CatFacts
  <2> QED
    BY <2>1
<1>10. Joined(seqs, sep) = f[n]
  <2>1. Len(p) # 0
    BY <1>1, <1>4
  <2>2. Joined(seqs, sep) = f[Len(p)]
    BY <2>1, JoinedIsLast DEF p, f
  <2> QED
    BY <1>4, <2>2
<1>11. f \in [1..n -> String]
  <2>1. f = [i \in 1..n |-> f[i]]
    <3> DEFINE g(i) == IF i = 1 THEN p[i] ELSE f[i - 1] \o p[i]
    <3>1. f = [i \in 1..n |-> g(i)]
      BY <1>5
    <3> HIDE DEF g
    <3> QED
      BY <3>1
  <2> QED
    BY <1>9, <2>1
<1> QED
  BY <1>1, <1>7, <1>8, <1>10, <1>11 DEF f, n

(* Piece i starts after Start and ends at Stop.                            *)
Stop(seqs, sep, i) == Len(UpTo(seqs, sep)[i])
Start(seqs, sep, i) == Stop(seqs, sep, i) - Len(seqs[i])

LEMMA CatThree ==
  ASSUME NEW r \in String, NEW s \in String, NEW t \in String
  PROVE  /\ r \o (s \o t) \in String
         /\ Len(r \o (s \o t)) = Len(r) + Len(s) + Len(t)
         /\ \A k \in 1..Len(r) : (r \o (s \o t))[k] = r[k]
         /\ \A k \in 1..Len(s) : (r \o (s \o t))[Len(r) + k] = s[k]
         /\ \A k \in 1..Len(t) : (r \o (s \o t))[Len(r) + Len(s) + k] = t[k]
<1> DEFINE u == s \o t
           v == r \o u
<1>1. /\ u \in String /\ Len(u) = Len(s) + Len(t)
      /\ \A k \in 1..Len(s) : u[k] = s[k]
      /\ \A k \in 1..Len(t) : u[Len(s) + k] = t[k]
  BY CatFacts
<1>2. Len(r) \in Nat /\ Len(s) \in Nat /\ Len(t) \in Nat
  BY DEF String
<1> HIDE DEF u
<1>3. /\ v \in String /\ Len(v) = Len(r) + Len(u)
      /\ \A k \in 1..Len(r) : v[k] = r[k]
      /\ \A k \in 1..Len(u) : v[Len(r) + k] = u[k]
  BY <1>1, CatFacts
<1> HIDE DEF v
<1>4. \A k \in 1..Len(s) : v[Len(r) + k] = s[k]
  BY <1>1, <1>2, <1>3
<1>5. ASSUME NEW k \in 1..Len(t)
      PROVE  v[Len(r) + Len(s) + k] = t[k]
  <2>1. Len(s) + k \in 1..Len(u) /\ Len(r) + (Len(s) + k) = Len(r) + Len(s) + k
    BY <1>1, <1>2
  <2>2. v[Len(r) + (Len(s) + k)] = u[Len(s) + k]
    BY <1>3, <2>1
  <2> QED
    BY <1>1, <2>1, <2>2
<1> QED
  BY <1>1, <1>2, <1>3, <1>4, <1>5 DEF v, u

LEMMA LenNat == ASSUME NEW s \in String PROVE Len(s) \in Nat
BY DEF String

LEMMA CatLength ==
  ASSUME NEW r \in String, NEW s \in String, NEW t \in String
  PROVE  Len(r \o (s \o t)) = Len(r) + Len(s) + Len(t)
BY CatThree

LEMMA CatSecond ==
  ASSUME NEW r \in String, NEW s \in String, NEW t \in String, NEW k \in 1..Len(s)
  PROVE  (r \o (s \o t))[Len(r) + k] = s[k]
<1>1. \A j \in 1..Len(s) : (r \o (s \o t))[Len(r) + j] = s[j]
  BY CatThree
<1> QED
  BY <1>1, Zenon

LEMMA CatThird ==
  ASSUME NEW r \in String, NEW s \in String, NEW t \in String, NEW k \in 1..Len(t)
  PROVE  (r \o (s \o t))[Len(r) + Len(s) + k] = t[k]
<1>1. \A j \in 1..Len(t) : (r \o (s \o t))[Len(r) + Len(s) + j] = t[j]
  BY CatThree
<1> QED
  BY <1>1, Zenon

LEMMA SecondWithin ==
  ASSUME NEW l \in Nat, NEW m \in Nat, NEW n \in Nat, NEW k \in 1..m
  PROVE  l + k \in 1..(l + m + n)
OBVIOUS

(* What is joined first is what the whole begins with.                     *)
LEMMA UpToIsPrefix ==
  ASSUME NEW seqs \in Seq(String), NEW sep \in String, seqs # <<>>,
         NEW i \in 1..Len(seqs), NEW j \in 1..Len(seqs), i <= j
  PROVE  /\ Stop(seqs, sep, i) <= Stop(seqs, sep, j)
         /\ \A k \in 1..Stop(seqs, sep, i) : UpTo(seqs, sep)[j][k] = UpTo(seqs, sep)[i][k]
<1> DEFINE n == Len(seqs)
           f == UpTo(seqs, sep)
           Begins(m) == Len(f[i]) <= Len(f[m]) /\ \A k \in 1..Len(f[i]) : f[m][k] = f[i][k]
           T == {m \in i..n : ~Begins(m)}
<1>1. /\ n \in Nat \ {0} /\ seqs \in [1..n -> String] /\ f \in [1..n -> String]
      /\ \A m \in 1..(n - 1) : f[m + 1] = f[m] \o (sep \o seqs[m + 1])
  BY UpToFacts
<1> HIDE DEF f, n
<1>2. ASSUME T # {}
      PROVE  FALSE
  <2>1. T \in SUBSET Nat
    BY <1>1 DEF n
  <2>2. PICK m \in T : \A k \in T : m <= k
    BY <1>2, <2>1, LeastNatural
  <2>3. m # i /\ m \in i..n
    <3>1. f[i] \in String
      BY <1>1 DEF n
    <3>2. Begins(i)
      BY <3>1 DEF String
    <3> QED
      BY <2>2, <3>2
  <2>4. /\ m - 1 \in i..n /\ m - 1 \in 1..(n - 1) /\ (m - 1) + 1 = m
        /\ m \in 1..n /\ m - 1 \in 1..n /\ i \in 1..n
    BY <1>1, <2>3 DEF n
  <2>5. Begins(m - 1)
    <3>1. ~(m <= m - 1)
      BY <2>4
    <3>2. m - 1 \notin T
      BY <2>2, <3>1, Zenon
    <3> HIDE DEF Begins
    <3> QED
      BY <2>4, <3>2
  <2>6. f[m] = f[m - 1] \o (sep \o seqs[m])
    <3>1. f[(m - 1) + 1] = f[m - 1] \o (sep \o seqs[(m - 1) + 1])
      BY <1>1, <2>4
    <3> QED
      BY <2>4, <3>1
  <2>7. f[m - 1] \in String /\ sep \o seqs[m] \in String /\ f[i] \in String
    <3>1. f[m - 1] \in String /\ seqs[m] \in String /\ f[i] \in String
      BY <1>1, <2>4
    <3> QED
      BY <3>1, CatFacts
  <2> DEFINE a == f[m - 1]
             b == sep \o seqs[m]
             x == f[i]
  <2>8. Len(a \o b) = Len(a) + Len(b) /\ \A k \in 1..Len(a) : (a \o b)[k] = a[k]
    BY <2>7, CatFacts
  <2>9. Len(a) \in Nat /\ Len(b) \in Nat /\ Len(x) \in Nat /\ Len(x) <= Len(a)
        /\ \A k \in 1..Len(x) : a[k] = x[k]
    <3>1. Len(a) \in Nat /\ Len(b) \in Nat /\ Len(x) \in Nat
      BY <2>7, LenNat, Zenon
    <3>2. Len(x) <= Len(a) /\ \A k \in 1..Len(x) : a[k] = x[k]
      BY <2>5
    <3> QED
      BY <3>1, <3>2
  <2>10. Len(x) <= Len(a \o b) /\ \A k \in 1..Len(x) : (a \o b)[k] = x[k]
    <3> HIDE DEF a, b, x
    <3> QED
      BY <2>8, <2>9
  <2>11. Begins(m)
    BY <2>6, <2>10
  <2> QED
    BY <2>2, <2>11
<1>3. j \in i..n
  BY <1>1 DEF n
<1>4. Begins(j)
  BY <1>2, <1>3
<1> QED
  BY <1>4 DEF f, Stop

LEMMA StartsAndStops ==
  ASSUME NEW seqs \in Seq(String), NEW sep \in String, seqs # <<>>
  PROVE  /\ \A i \in 1..Len(seqs) :
              /\ Start(seqs, sep, i) \in Nat
              /\ Stop(seqs, sep, i) = Start(seqs, sep, i) + Len(seqs[i])
              /\ Stop(seqs, sep, i) \in Nat
              /\ Stop(seqs, sep, i) <= Len(Joined(seqs, sep))
         /\ Start(seqs, sep, 1) = 0
         /\ \A i \in 1..(Len(seqs) - 1) : Start(seqs, sep, i + 1) = Stop(seqs, sep, i) + Len(sep)
         /\ Stop(seqs, sep, Len(seqs)) = Len(Joined(seqs, sep))
         /\ Joined(seqs, sep) \in String
<1> DEFINE n == Len(seqs)
           f == UpTo(seqs, sep)
<1>1. /\ n \in Nat \ {0} /\ seqs \in [1..n -> String] /\ f \in [1..n -> String]
      /\ f[1] = seqs[1] /\ Joined(seqs, sep) = f[n]
      /\ \A m \in 1..(n - 1) : f[m + 1] = f[m] \o (sep \o seqs[m + 1])
  BY UpToFacts
<1>2. 1 \in 1..n /\ n \in 1..n
  BY <1>1
<1>3. \A i \in 1..n : Len(f[i]) \in Nat /\ Len(seqs[i]) \in Nat
  <2> SUFFICES ASSUME NEW i \in 1..n PROVE Len(f[i]) \in Nat /\ Len(seqs[i]) \in Nat
    OBVIOUS
  <2>1. f[i] \in String /\ seqs[i] \in String
    BY <1>1
  <2> QED
    BY <2>1 DEF String
<1>4. Start(seqs, sep, 1) = 0
  BY <1>1, <1>2, <1>3 DEF Start, Stop
<1>5. ASSUME NEW i \in 1..(n - 1)
      PROVE  Len(f[i + 1]) = Len(f[i]) + Len(sep) + Len(seqs[i + 1])
  <2>1. i \in 1..n /\ i + 1 \in 1..n
    BY <1>1
  <2>2. f[i] \in String /\ seqs[i + 1] \in String
    BY <1>1, <2>1
  <2>3. Len(f[i] \o (sep \o seqs[i + 1])) = Len(f[i]) + Len(sep) + Len(seqs[i + 1])
    BY <2>2, CatThree
  <2> QED
    BY <1>1, <2>3, Zenon
<1>6. ASSUME NEW i \in 1..(n - 1)
      PROVE  Start(seqs, sep, i + 1) = Stop(seqs, sep, i) + Len(sep)
  <2>1. i \in 1..n /\ i + 1 \in 1..n
    BY <1>1
  <2>2. Len(f[i]) \in Nat /\ Len(sep) \in Nat /\ Len(seqs[i + 1]) \in Nat
    BY <1>3, <2>1 DEF String
  <2> DEFINE u == Len(f[i])
             v == Len(f[i + 1])
             w == Len(seqs[i + 1])
             l == Len(sep)
  <2>3. v = u + l + w
    BY <1>5
  <2>4. Start(seqs, sep, i + 1) = v - w /\ Stop(seqs, sep, i) = u
    BY DEF Start, Stop
  <2>5. u \in Nat /\ w \in Nat /\ l \in Nat
    BY <2>2
  <2>6. v - w = u + l
    <3> HIDE DEF u, v, w, l
    <3> QED
      BY <2>3, <2>5
  <2> QED
    BY <2>4, <2>6
<1>7. ASSUME NEW i \in 1..n
      PROVE  /\ Start(seqs, sep, i) \in Nat
             /\ Stop(seqs, sep, i) = Start(seqs, sep, i) + Len(seqs[i])
             /\ Stop(seqs, sep, i) \in Nat
             /\ Stop(seqs, sep, i) <= Len(Joined(seqs, sep))
  <2>1. Len(f[i]) \in Nat /\ Len(seqs[i]) \in Nat
    BY <1>3
  <2>2. Start(seqs, sep, i) \in Nat
    <3>1. CASE i = 1
      BY <1>4, <3>1
    <3>2. CASE i # 1
      <4>1. i - 1 \in 1..(n - 1) /\ (i - 1) + 1 = i /\ i - 1 \in 1..n
        BY <1>1, <3>2
      <4>2. Start(seqs, sep, (i - 1) + 1) = Stop(seqs, sep, i - 1) + Len(sep)
        BY <1>6, <4>1
      <4>3. Stop(seqs, sep, i - 1) \in Nat /\ Len(sep) \in Nat
        BY <1>3, <4>1 DEF Stop, String
      <4> QED
        BY <4>1, <4>2, <4>3
    <3> QED
      BY <3>1, <3>2
  <2>3. Stop(seqs, sep, i) <= Stop(seqs, sep, n)
    <3>1. i <= n
      BY <1>1
    <3> QED
      BY <1>2, <3>1, UpToIsPrefix
  <2> QED
    BY <1>1, <2>1, <2>2, <2>3 DEF Start, Stop
<1>8. Stop(seqs, sep, n) = Len(Joined(seqs, sep)) /\ Joined(seqs, sep) \in String
  BY <1>1, <1>2 DEF Stop
<1> QED
  BY <1>4, <1>6, <1>7, <1>8

(* The pieces and the separators are where Start and Stop say.             *)
LEMMA Layout ==
  ASSUME NEW seqs \in Seq(String), NEW sep \in String, seqs # <<>>, NEW i \in 1..Len(seqs)
  PROVE  /\ \A k \in 1..Len(seqs[i]) : Joined(seqs, sep)[Start(seqs, sep, i) + k] = seqs[i][k]
         /\ i < Len(seqs) =>
              \A k \in 1..Len(sep) : Joined(seqs, sep)[Stop(seqs, sep, i) + k] = sep[k]
<1> DEFINE n == Len(seqs)
           f == UpTo(seqs, sep)
           j == Joined(seqs, sep)
<1>1. /\ n \in Nat \ {0} /\ seqs \in [1..n -> String] /\ f \in [1..n -> String]
      /\ f[1] = seqs[1] /\ j = f[n]
      /\ \A m \in 1..(n - 1) : f[m + 1] = f[m] \o (sep \o seqs[m + 1])
  BY UpToFacts
<1>2. n \in 1..n /\ i <= n
  BY <1>1
<1>3. ASSUME NEW m \in 1..n, NEW k \in 1..Stop(seqs, sep, m)
      PROVE  j[k] = f[m][k]
  <2>1. m <= n
    BY <1>1
  <2> QED
    BY <1>1, <1>2, <2>1, UpToIsPrefix
<1>4. seqs[i] \in String /\ f[i] \in String /\ Len(seqs[i]) \in Nat /\ Len(f[i]) \in Nat /\ Len(sep) \in Nat
  <2>1. seqs[i] \in String /\ f[i] \in String
    BY <1>1
  <2> QED
    BY <2>1 DEF String
<1>5. /\ Start(seqs, sep, i) \in Nat /\ Stop(seqs, sep, i) = Start(seqs, sep, i) + Len(seqs[i])
      /\ Start(seqs, sep, 1) = 0
      /\ \A m \in 1..(n - 1) : Start(seqs, sep, m + 1) = Stop(seqs, sep, m) + Len(sep)
      /\ \A m \in 1..n : Stop(seqs, sep, m) \in Nat
  BY StartsAndStops
<1> HIDE DEF f, j, n
<1>6. ASSUME NEW k \in 1..Len(seqs[i])
      PROVE  j[Start(seqs, sep, i) + k] = seqs[i][k]
  <2> DEFINE q == Start(seqs, sep, i)
  <2>1. q + k \in 1..Stop(seqs, sep, i)
    BY <1>4, <1>5
  <2>2. j[q + k] = f[i][q + k]
    BY <1>3, <2>1 DEF n
  <2>3. f[i][q + k] = seqs[i][k]
    <3>1. CASE i = 1
      BY <1>1, <1>5, <3>1
    <3>2. CASE i # 1
      <4> DEFINE m == i - 1
      <4>1. m \in 1..(n - 1) /\ m + 1 = i /\ m \in 1..n
        BY <1>1, <3>2 DEF n
      <4>2. f[i] = f[m] \o (sep \o seqs[i])
        BY <1>1, <4>1
      <4>3. q = Stop(seqs, sep, m) + Len(sep) /\ Stop(seqs, sep, m) = Len(f[m])
        BY <1>5, <4>1 DEF Stop, f
      <4>4. f[m] \in String
        BY <1>1, <4>1
      <4>5. (f[m] \o (sep \o seqs[i]))[Len(f[m]) + Len(sep) + k] = seqs[i][k]
        BY <1>4, <4>4, CatThird, Zenon
      <4> HIDE DEF m, q
      <4> QED
        BY <4>2, <4>3, <4>5
    <3> QED
      BY <3>1, <3>2
  <2> QED
    BY <2>2, <2>3
<1>7. ASSUME i < n, NEW k \in 1..Len(sep)
      PROVE  j[Stop(seqs, sep, i) + k] = sep[k]
  <2> DEFINE m == i + 1
             q == Stop(seqs, sep, i)
  <2>1. i \in 1..(n - 1) /\ m \in 1..n
    BY <1>1, <1>7 DEF n
  <2>2. f[m] = f[i] \o (sep \o seqs[m]) /\ seqs[m] \in String
    BY <1>1, <2>1
  <2>3. /\ (f[i] \o (sep \o seqs[m]))[Len(f[i]) + k] = sep[k]
        /\ Len(f[i] \o (sep \o seqs[m])) = Len(f[i]) + Len(sep) + Len(seqs[m])
    <3>1. (f[i] \o (sep \o seqs[m]))[Len(f[i]) + k] = sep[k]
      BY <1>4, <2>2, CatSecond, Zenon
    <3>2. Len(f[i] \o (sep \o seqs[m])) = Len(f[i]) + Len(sep) + Len(seqs[m])
      BY <1>4, <2>2, CatLength, Zenon
    <3> QED
      BY <3>1, <3>2, Zenon
  <2>4. Len(seqs[m]) \in Nat
    BY <2>2 DEF String
  <2>7. q = Len(f[i]) /\ Stop(seqs, sep, m) = Len(f[m])
    BY DEF Stop, f
  <2>8. q + k \in 1..Stop(seqs, sep, m)
    <3>1. Stop(seqs, sep, m) = q + Len(sep) + Len(seqs[m])
      BY <2>2, <2>3, <2>7
    <3>2. q \in Nat
      BY <1>4, <2>7
    <3>3. q + k \in 1..(q + Len(sep) + Len(seqs[m]))
      BY <1>4, <2>4, <3>2, SecondWithin, Zenon
    <3> QED
      BY <3>1, <3>3, Zenon
  <2>9. j[q + k] = f[m][q + k]
    <3> HIDE DEF m, q
    <3> QED
      BY <1>3, <2>1, <2>8
  <2>10. j[q + k] = sep[k]
    BY <2>2, <2>3, <2>7, <2>9, Zenon
  <2> QED
    BY <2>10
<1> QED
  BY <1>6, <1>7 DEF j, n

(* Nothing else is there.                                                  *)
LEMMA LayoutCovers ==
  ASSUME NEW seqs \in Seq(String), NEW sep \in String, seqs # <<>>,
         NEW p \in 1..Len(Joined(seqs, sep))
  PROVE  \/ \E i \in 1..Len(seqs) : \E k \in 1..Len(seqs[i]) : p = Start(seqs, sep, i) + k
         \/ \E i \in 1..(Len(seqs) - 1), k \in 1..Len(sep) : p = Stop(seqs, sep, i) + k
<1> DEFINE n == Len(seqs)
           a(i) == Start(seqs, sep, i)
           b(i) == Stop(seqs, sep, i)
           T == {i \in 1..n : p <= b(i)}
<1>1. /\ \A i \in 1..n : a(i) \in Nat /\ b(i) = a(i) + Len(seqs[i]) /\ b(i) \in Nat
      /\ a(1) = 0 /\ b(n) = Len(Joined(seqs, sep)) /\ Joined(seqs, sep) \in String
      /\ \A i \in 1..(n - 1) : a(i + 1) = b(i) + Len(sep)
  BY StartsAndStops
<1>2. n \in Nat \ {0} /\ seqs \in [1..n -> String] /\ Len(sep) \in Nat
      /\ \A i \in 1..n : Len(seqs[i]) \in Nat
  <2>1. n \in Nat \ {0} /\ seqs \in [1..n -> String]
    OBVIOUS
  <2>2. \A i \in 1..n : seqs[i] \in String
    BY <2>1
  <2> QED
    BY <2>1, <2>2 DEF String
<1>3. p \in Nat \ {0} /\ p <= b(n)
  BY <1>1 DEF String
<1> HIDE DEF a, b, n
<1>4. n \in T /\ T \in SUBSET Nat
  BY <1>2, <1>3
<1>5. PICK i \in T : \A m \in T : i <= m
  BY <1>4, LeastNatural
<1>6. i \in 1..n /\ p <= b(i)
  BY <1>5
<1>7. CASE p > a(i)
  <2>1. p - a(i) \in 1..Len(seqs[i]) /\ p = a(i) + (p - a(i))
    BY <1>1, <1>2, <1>3, <1>6, <1>7
  <2> QED
    BY <1>6, <2>1 DEF n, a
<1>8. CASE ~(p > a(i))
  <2>1. i # 1
    BY <1>1, <1>3, <1>8
  <2>2. i - 1 \in 1..(n - 1) /\ (i - 1) + 1 = i /\ i - 1 \in 1..n /\ ~(i <= i - 1)
    BY <1>2, <1>6, <2>1
  <2>3. ~(p <= b(i - 1))
    <3>1. i - 1 \notin T
      BY <1>5, <2>2, Zenon
    <3> QED
      BY <2>2, <3>1
  <2>4. a(i) = b(i - 1) + Len(sep) /\ b(i - 1) \in Nat /\ a(i) \in Nat
    BY <1>1, <1>6, <2>2
  <2>5. p - b(i - 1) \in 1..Len(sep) /\ p = b(i - 1) + (p - b(i - 1))
    BY <1>2, <1>3, <1>8, <2>3, <2>4
  <2> QED
    BY <2>2, <2>5 DEF n, b
<1> QED
  BY <1>7, <1>8

-----------------------------------------------------------------------------
(* How a tag is written, and what expand_tag_braces makes of it.           *)

Blank == {SP, NL, COMMA, LBRACE, RBRACE}
WellFormed == [prefix : TagText, parts : Seq(TagText)]

LEMMA TagTextFacts ==
  ASSUME NEW p \in TagText
  PROVE  p \in String /\ Len(p) \in Nat \ {0} /\ \A k \in 1..Len(p) : p[k] \notin Blank
<1>1. p \in Seq(Nat \ Blank) /\ p # <<>>
  BY DEF TagText, Blank
<1>2. p \in String /\ Len(p) \in Nat \ {0}
  BY <1>1 DEF String
<1>3. \A k \in 1..Len(p) : p[k] \in Nat \ Blank
  BY <1>1
<1> QED
  BY <1>2, <1>3

LEMMA PartsFacts ==
  ASSUME NEW t \in WellFormed
  PROVE  /\ t.prefix \in TagText /\ t.prefix \in String
         /\ t.parts \in Seq(String) /\ Len(t.parts) \in Nat
         /\ \A i \in 1..Len(t.parts) : t.parts[i] \in TagText /\ t.parts[i] \in String
<1>1. t.prefix \in TagText /\ t.parts \in Seq(TagText)
  BY DEF WellFormed
<1>2. \A i \in 1..Len(t.parts) : t.parts[i] \in TagText
  BY <1>1
<1>3. t.parts \in Seq(String)
  <2>1. TagText \in SUBSET String
    BY TagTextFacts
  <2> QED
    BY <1>1, <2>1
<1> QED
  BY <1>1, <1>2, <1>3, TagTextFacts

Commas(t) == Joined(t.parts, <<COMMA>>)

(* Between the braces are the parts and the commas.                        *)
LEMMA CommasFacts ==
  ASSUME NEW t \in WellFormed, t.parts # <<>>
  PROVE  /\ <<COMMA>> \in String /\ Len(<<COMMA>>) = 1
         /\ Commas(t) \in String /\ Len(Commas(t)) \in Nat \ {0}
         /\ \A k \in 1..Len(Commas(t)) :
              \/ \E q \in 1..Len(t.parts) : \E m \in 1..Len(t.parts[q]) :
                   k = Start(t.parts, <<COMMA>>, q) + m /\ Commas(t)[k] = t.parts[q][m]
              \/ \E q \in 1..(Len(t.parts) - 1) :
                   k = Stop(t.parts, <<COMMA>>, q) + 1 /\ Commas(t)[k] = COMMA
         /\ \A k \in 1..Len(Commas(t)) : Commas(t)[k] \notin {SP, NL, LBRACE, RBRACE}
<1> DEFINE s == <<COMMA>>
           n == Len(t.parts)
           j == Commas(t)
<1>1. s \in String /\ Len(s) = 1 /\ s[1] = COMMA
  BY DEF String, COMMA
<1>2. /\ t.parts \in Seq(String) /\ n \in Nat \ {0}
      /\ \A i \in 1..n : t.parts[i] \in TagText /\ t.parts[i] \in String
  <2>1. t.parts \in Seq(String) /\ n \in Nat
    BY PartsFacts
  <2>2. n # 0
    BY <2>1
  <2> QED
    BY <2>1, <2>2, PartsFacts
<1> HIDE DEF s, n
<1>3. /\ j \in String
      /\ Stop(t.parts, s, 1) = Start(t.parts, s, 1) + Len(t.parts[1])
      /\ Stop(t.parts, s, 1) <= Len(j) /\ Start(t.parts, s, 1) = 0
  <2>1. 1 \in 1..Len(t.parts)
    BY <1>2 DEF n
  <2> QED
    BY <1>1, <1>2, <2>1, StartsAndStops DEF Commas, s
<1>4. Len(j) \in Nat \ {0}
  <2>1. Len(t.parts[1]) \in Nat \ {0} /\ Len(j) \in Nat
    BY <1>2, <1>3, TagTextFacts, LenNat
  <2> QED
    BY <1>3, <2>1
<1>5. ASSUME NEW k \in 1..Len(j)
      PROVE  \/ \E q \in 1..n : \E m \in 1..Len(t.parts[q]) :
                  k = Start(t.parts, s, q) + m /\ j[k] = t.parts[q][m]
             \/ \E q \in 1..(n - 1) :
                  k = Stop(t.parts, s, q) + 1 /\ j[k] = COMMA
  <2>1. \/ \E q \in 1..n : \E m \in 1..Len(t.parts[q]) : k = Start(t.parts, s, q) + m
        \/ \E q \in 1..(n - 1) : \E m \in 1..Len(s) : k = Stop(t.parts, s, q) + m
    BY <1>1, <1>2, LayoutCovers DEF Commas, n, s
  <2>2. CASE \E q \in 1..n : \E m \in 1..Len(t.parts[q]) : k = Start(t.parts, s, q) + m
    <3>1. PICK q \in 1..n : \E m \in 1..Len(t.parts[q]) : k = Start(t.parts, s, q) + m
      BY <2>2
    <3>2. PICK m \in 1..Len(t.parts[q]) : k = Start(t.parts, s, q) + m
      BY <3>1
    <3>3. j[Start(t.parts, s, q) + m] = t.parts[q][m]
      BY <1>1, <1>2, Layout DEF Commas, n, s
    <3> QED
      BY <3>2, <3>3
  <2>3. CASE \E q \in 1..(n - 1) : \E m \in 1..Len(s) : k = Stop(t.parts, s, q) + m
    <3>1. PICK q \in 1..(n - 1) : \E m \in 1..Len(s) : k = Stop(t.parts, s, q) + m
      BY <2>3
    <3>2. 1 \in 1..Len(s) /\ \A m \in 1..Len(s) : m = 1
      BY <1>1
    <3>3. k = Stop(t.parts, s, q) + 1
      BY <3>1, <3>2
    <3>4. q \in 1..n /\ q < n
      BY <1>2
    <3>5. j[Stop(t.parts, s, q) + 1] = s[1]
      <4>1. \A m \in 1..Len(s) : j[Stop(t.parts, s, q) + m] = s[m]
        <5>1. q \in 1..Len(t.parts) /\ q < Len(t.parts)
          BY <3>4 DEF n
        <5>2. q < Len(t.parts) =>
                \A m \in 1..Len(s) : Joined(t.parts, s)[Stop(t.parts, s, q) + m] = s[m]
          BY <1>1, <1>2, <5>1, Layout
        <5>3. Joined(t.parts, s) = j
          BY DEF Commas, s
        <5> QED
          BY <5>1, <5>2, <5>3, Zenon
      <4> QED
        BY <3>2, <4>1
    <3> QED
      BY <1>1, <3>3, <3>5
  <2> QED
    BY <2>1, <2>2, <2>3
<1>6. ASSUME NEW k \in 1..Len(j)
      PROVE  j[k] \notin {SP, NL, LBRACE, RBRACE}
  <2>1. CASE \E q \in 1..n : \E m \in 1..Len(t.parts[q]) :
               k = Start(t.parts, s, q) + m /\ j[k] = t.parts[q][m]
    <3>1. PICK q \in 1..n : \E m \in 1..Len(t.parts[q]) : j[k] = t.parts[q][m]
      BY <2>1
    <3>2. \A m \in 1..Len(t.parts[q]) : t.parts[q][m] \notin Blank
      BY <1>2, TagTextFacts
    <3> QED
      BY <3>1, <3>2 DEF Blank
  <2>2. CASE j[k] = COMMA
    BY <2>2 DEF COMMA, SP, NL, LBRACE, RBRACE
  <2> QED
    BY <1>5, <2>1, <2>2
<1> QED
  BY <1>1, <1>3, <1>4, <1>5, <1>6 DEF s, n

LEMMA BracedFacts ==
  ASSUME NEW t \in WellFormed, t.parts # <<>>
  PROVE  /\ WrittenTag(t) \in String
         /\ Len(WrittenTag(t)) = Len(t.prefix) + Len(Commas(t)) + 2
         /\ \A k \in 1..Len(t.prefix) : WrittenTag(t)[k] = t.prefix[k]
         /\ WrittenTag(t)[Len(t.prefix) + 1] = LBRACE
         /\ \A k \in 1..Len(Commas(t)) : WrittenTag(t)[Len(t.prefix) + 1 + k] = Commas(t)[k]
         /\ WrittenTag(t)[Len(WrittenTag(t))] = RBRACE
<1> DEFINE p == t.prefix
           j == Commas(t)
           lb == <<LBRACE>>
           rb == <<RBRACE>>
           a == p \o lb
           b == a \o j
           w == b \o rb
<1>1. /\ p \in String /\ j \in String /\ lb \in String /\ rb \in String
      /\ Len(lb) = 1 /\ Len(rb) = 1 /\ lb[1] = LBRACE /\ rb[1] = RBRACE
  <2>1. p \in String /\ j \in String
    BY PartsFacts, CommasFacts
  <2>2. /\ lb \in String /\ rb \in String
        /\ Len(lb) = 1 /\ Len(rb) = 1 /\ lb[1] = LBRACE /\ rb[1] = RBRACE
    BY DEF String, LBRACE, RBRACE
  <2> QED
    BY <2>1, <2>2
<1>2. WrittenTag(t) = w
  BY DEF WrittenTag, Commas
<1> HIDE DEF p, j, lb, rb
<1>3. Len(p) \in Nat /\ Len(j) \in Nat /\ 1 \in 1..1
  BY <1>1, LenNat
<1>4. /\ a \in String /\ Len(a) = Len(p) + 1
      /\ \A k \in 1..Len(p) : a[k] = p[k]
      /\ a[Len(p) + 1] = LBRACE
  <2>1. /\ a \in String /\ Len(a) = Len(p) + Len(lb)
        /\ \A k \in 1..Len(p) : a[k] = p[k]
        /\ \A k \in 1..Len(lb) : a[Len(p) + k] = lb[k]
    BY <1>1, CatFacts
  <2> QED
    BY <1>1, <1>3, <2>1
<1> HIDE DEF a
<1>5. /\ b \in String /\ Len(b) = Len(p) + 1 + Len(j)
      /\ \A k \in 1..Len(p) : b[k] = p[k]
      /\ b[Len(p) + 1] = LBRACE
      /\ \A k \in 1..Len(j) : b[Len(p) + 1 + k] = j[k]
  <2>1. /\ b \in String /\ Len(b) = Len(a) + Len(j)
        /\ \A k \in 1..Len(a) : b[k] = a[k]
        /\ \A k \in 1..Len(j) : b[Len(a) + k] = j[k]
    BY <1>1, <1>4, CatFacts
  <2>2. Len(p) + 1 \in 1..Len(a) /\ \A k \in 1..Len(p) : k \in 1..Len(a)
    BY <1>3, <1>4
  <2> QED
    BY <1>3, <1>4, <2>1, <2>2
<1> HIDE DEF b
<1>6. /\ w \in String /\ Len(w) = Len(b) + Len(rb)
      /\ \A k \in 1..Len(b) : w[k] = b[k]
      /\ \A k \in 1..Len(rb) : w[Len(b) + k] = rb[k]
  BY <1>1, <1>5, CatFacts
<1> HIDE DEF w
<1>7. Len(w) = Len(p) + Len(j) + 2 /\ w[Len(w)] = RBRACE
  <2>1. Len(w) = Len(b) + 1 /\ w[Len(b) + 1] = RBRACE
    BY <1>1, <1>3, <1>6
  <2> QED
    BY <1>3, <1>5, <2>1
<1>8. \A k \in 1..Len(p) : w[k] = p[k]
  <2>1. \A k \in 1..Len(p) : k \in 1..Len(b)
    BY <1>3, <1>5
  <2> QED
    BY <1>5, <1>6, <2>1
<1>9. w[Len(p) + 1] = LBRACE
  <2>1. Len(p) + 1 \in 1..Len(b)
    BY <1>3, <1>5
  <2> QED
    BY <1>5, <1>6, <2>1
<1>10. \A k \in 1..Len(j) : w[Len(p) + 1 + k] = j[k]
  <2>1. \A k \in 1..Len(j) : Len(p) + 1 + k \in 1..Len(b)
    BY <1>3, <1>5
  <2> QED
    BY <1>5, <1>6, <2>1
<1> QED
  BY <1>2, <1>6, <1>7, <1>8, <1>9, <1>10 DEF p, j

(* A piece of length l behind position o + f, of what lies between o and   *)
(* lw.                                                                     *)
PartPlaces(o, f, l, lj, lw) ==
  /\ o + f + l + 1 = lw <=> f + l = lj
  /\ o + f + 1 \in 1..(lw + 1) /\ o + f + l \in 0..lw
  /\ o + f + 1 <= o + f + l /\ (o + f + l) - (o + f + 1) + 1 = l
  /\ \A k \in Nat : k > o + f /\ ~(o + f + l + 1 <= k) =>
       /\ k - (o + f) \in 1..l /\ f + (k - (o + f)) = k - o
       /\ k - o \in 1..lj /\ o + (k - o) = k

LEMMA PartArithmetic ==
  ASSUME NEW o \in Nat, NEW f \in Nat, NEW l \in Nat, NEW lj \in Nat, NEW lw,
         o # 0, l # 0, f + l <= lj, lw = o + lj + 1
  PROVE  PartPlaces(o, f, l, lj, lw)
BY DEF PartPlaces

LEMMA ExpandIs ==
  ASSUME NEW t \in WellFormed, t.parts # <<>>
  PROVE  expand_tag_braces(WrittenTag(t)) = {t.prefix \o p : p \in ToSet(t.parts)}
<1> DEFINE s == <<COMMA>>
           n == Len(t.parts)
           p == t.prefix
           j == Commas(t)
           w == WrittenTag(t)
           o == Len(p) + 1
           len(q) == Len(t.parts[q])
           first(q) == Start(t.parts, s, q)
           last(q) == Stop(t.parts, s, q)
           st(q) == o + first(q)
<1>1. /\ s \in String /\ Len(s) = 1
      /\ j \in String /\ Len(j) \in Nat \ {0}
      /\ \A k \in 1..Len(j) :
           \/ \E q \in 1..n : \E m \in 1..len(q) : k = first(q) + m /\ j[k] = t.parts[q][m]
           \/ \E q \in 1..(n - 1) : k = last(q) + 1 /\ j[k] = COMMA
      /\ \A k \in 1..Len(j) : j[k] \notin {SP, NL, LBRACE, RBRACE}
  BY CommasFacts
<1>2. /\ w \in String /\ Len(w) = Len(p) + Len(j) + 2
      /\ \A k \in 1..Len(p) : w[k] = p[k]
      /\ w[o] = LBRACE
      /\ \A k \in 1..Len(j) : w[o + k] = j[k]
      /\ w[Len(w)] = RBRACE
  BY BracedFacts
<1>3. /\ p \in String /\ Len(p) \in Nat \ {0} /\ \A k \in 1..Len(p) : p[k] \notin Blank
      /\ t.parts \in Seq(String) /\ n \in Nat \ {0}
  <2>1. p \in TagText /\ t.parts \in Seq(String) /\ n \in Nat
    BY PartsFacts
  <2>2. n # 0
    BY <2>1
  <2> QED
    BY <2>1, <2>2, TagTextFacts
<1>4. \A q \in 1..n : /\ t.parts[q] \in String /\ len(q) \in Nat \ {0}
                      /\ \A m \in 1..len(q) : t.parts[q][m] \notin Blank
  <2> SUFFICES ASSUME NEW q \in 1..n
               PROVE  /\ t.parts[q] \in String /\ len(q) \in Nat \ {0}
                      /\ \A m \in 1..len(q) : t.parts[q][m] \notin Blank
    OBVIOUS
  <2>1. t.parts[q] \in TagText
    BY PartsFacts
  <2> QED
    BY <2>1, TagTextFacts
<1>5. /\ \A q \in 1..n : /\ first(q) \in Nat /\ last(q) = first(q) + len(q) /\ last(q) <= Len(j)
      /\ first(1) = 0 /\ last(n) = Len(j)
      /\ \A q \in 1..(n - 1) : first(q + 1) = last(q) + 1
  BY <1>1, <1>3, StartsAndStops DEF Commas
<1>6. \A q \in 1..n : \A m \in 1..len(q) : j[first(q) + m] = t.parts[q][m]
  BY <1>1, <1>3, Layout DEF Commas
<1>7. \A q \in 1..(n - 1) : j[last(q) + 1] = COMMA
  <2> SUFFICES ASSUME NEW q \in 1..(n - 1) PROVE j[last(q) + 1] = COMMA
    OBVIOUS
  <2>1. q \in 1..n /\ q < n /\ 1 \in 1..Len(s) /\ s[1] = COMMA
    BY <1>1, <1>3
  <2>2. \A m \in 1..Len(s) : j[last(q) + m] = s[m]
    BY <1>1, <1>3, <2>1, Layout DEF Commas
  <2> QED
    BY <2>1, <2>2
<1> HIDE DEF s, n, p, j, w, o, len, first, last
<1>8. o \in Nat \ {0} /\ o = Len(p) + 1 /\ Len(j) \in Nat \ {0} /\ Len(w) = o + Len(j) + 1 /\ Len(w) \in Nat
      /\ DOMAIN w = 1..Len(w)
  <2>1. DOMAIN w = 1..Len(w)
    BY <1>2 DEF String
  <2>2. o = Len(p) + 1
    BY DEF o
  <2> QED
    BY <1>1, <1>2, <1>3, <2>1, <2>2
<1> DEFINE open == Min({i \in DOMAIN w : w[i] = LBRACE})
           starts == {o} \cup {i \in (o + 1)..Len(w) : w[i] = COMMA}
           end_(i) == Min({k \in starts : k > i} \cup {Len(w)})
           part(i) == SubSeq(w, i + 1, end_(i) - 1)
<1>9. open = o
  <2> DEFINE T == {i \in DOMAIN w : w[i] = LBRACE}
  <2>1. T \in SUBSET Nat
    BY <1>8
  <2>2. o \in T
    BY <1>2, <1>8
  <2>3. ASSUME NEW i \in T, ~(o <= i)
        PROVE  FALSE
    <3>1. i \in 1..Len(p)
      BY <1>3, <1>8, <2>3
    <3>2. p[i] = LBRACE
      BY <1>2, <3>1
    <3> QED
      BY <1>3, <3>1, <3>2 DEF Blank
  <2>4. \A i \in T : o <= i
    BY <2>3
  <2> HIDE DEF T
  <2>5. Min(T) = o
    BY <2>1, <2>2, <2>4, MinIs
  <2> QED
    BY <2>5 DEF T
<1>10. ASSUME NEW q \in 1..n
       PROVE  st(q) \in starts
  <2>1. CASE q = 1
    BY <1>5, <1>8, <2>1
  <2>2. CASE q # 1
    <3>1. q - 1 \in 1..(n - 1) /\ (q - 1) + 1 = q /\ q - 1 \in 1..n
      BY <1>3, <2>2
    <3>2. first(q) = last(q - 1) + 1 /\ j[last(q - 1) + 1] = COMMA
      BY <1>5, <1>7, <3>1
    <3>3. last(q - 1) \in Nat /\ first(q) <= Len(j)
      <4>1. first(q - 1) \in Nat /\ last(q - 1) = first(q - 1) + len(q - 1) /\ len(q - 1) \in Nat
        BY <1>4, <1>5, <3>1
      <4>2. first(q) \in Nat /\ last(q) = first(q) + len(q) /\ last(q) <= Len(j) /\ len(q) \in Nat
        BY <1>4, <1>5
      <4> QED
        BY <1>8, <4>1, <4>2
    <3>4. first(q) \in 1..Len(j)
      BY <1>8, <3>2, <3>3
    <3>5. w[o + first(q)] = COMMA
      BY <1>2, <3>2, <3>4
    <3>6. o + first(q) \in (o + 1)..Len(w)
      BY <1>8, <3>4
    <3> QED
      BY <3>5, <3>6
  <2> QED
    BY <2>1, <2>2
<1>11. ASSUME NEW i \in starts
       PROVE  \E q \in 1..n : i = st(q)
  <2>1. CASE i = o
    <3>1. 1 \in 1..n /\ i = o + 0
      BY <1>3, <1>8, <2>1
    <3> QED
      BY <1>5, <3>1
  <2>2. CASE i \in (o + 1)..Len(w) /\ w[i] = COMMA
    <3>1. i # Len(w)
      BY <1>2, <2>2 DEF COMMA, RBRACE
    <3>2. i - o \in 1..Len(j) /\ o + (i - o) = i
      BY <1>8, <2>2, <3>1
    <3>3. j[i - o] = COMMA
      BY <1>2, <2>2, <3>2
    <3>4. CASE \E q \in 1..n : \E m \in 1..len(q) : i - o = first(q) + m /\ j[i - o] = t.parts[q][m]
      BY <1>4, <3>3, <3>4 DEF Blank
    <3>5. CASE \E q \in 1..(n - 1) : i - o = last(q) + 1
      <4>1. PICK q \in 1..(n - 1) : i - o = last(q) + 1
        BY <3>5
      <4>2. q + 1 \in 1..n /\ first(q + 1) = i - o
        BY <1>3, <1>5, <4>1
      <4> QED
        BY <3>2, <4>2
    <3> QED
      BY <1>1, <3>2, <3>4, <3>5
  <2> QED
    BY <2>1, <2>2
<1>12. ASSUME NEW q \in 1..n
       PROVE  part(st(q)) = t.parts[q]
  <2> DEFINE e == st(q) + len(q) + 1
             T == {k \in starts : k > st(q)} \cup {Len(w)}
  <2>1. /\ first(q) \in Nat /\ last(q) = first(q) + len(q) /\ last(q) <= Len(j)
        /\ len(q) \in Nat \ {0} /\ t.parts[q] \in String
    BY <1>4, <1>5
  <2>2. st(q) \in Nat /\ st(q) <= Len(w) /\ e \in Nat /\ e <= Len(w) /\ st(q) < e
    BY <1>8, <2>1
  <2>12. PartPlaces(o, first(q), len(q), Len(j), Len(w))
    <3>1. first(q) + len(q) <= Len(j)
      BY <2>1, Zenon
    <3>2. Len(j) \in Nat /\ o \in Nat /\ o # 0 /\ len(q) \in Nat /\ len(q) # 0
      BY <1>8, <2>1
    <3> QED
      BY <1>8, <2>1, <3>1, <3>2, PartArithmetic, Zenon
  <2>3. T \in SUBSET Nat
    BY <1>8
  <2>4. e \in T
    <3>1. CASE q = n
      <4>1. o + first(q) + len(q) + 1 = Len(w)
        <5>1. first(q) + len(q) = Len(j)
          BY <1>5, <2>1, <3>1, Zenon
        <5> QED
          BY <2>12, <5>1, Zenon DEF PartPlaces
      <4> QED
        BY <4>1
    <3>2. CASE q # n
      <4>1. q \in 1..(n - 1) /\ q + 1 \in 1..n
        BY <1>3, <3>2
      <4>2. first(q + 1) = first(q) + len(q) + 1
        BY <1>5, <2>1, <4>1
      <4>3. st(q + 1) = e
        BY <1>8, <2>1, <4>2
      <4> HIDE DEF e, st, starts
      <4> QED
        BY <1>10, <2>2, <4>1, <4>3
    <3> QED
      BY <3>1, <3>2
  <2>5. ASSUME NEW k \in T, ~(e <= k)
        PROVE  FALSE
    <3>1. k # Len(w)
      BY <2>2, <2>5
    <3>2. k \in starts /\ k > st(q) /\ k \in Nat
      BY <2>3, <3>1
    <3>3. k # o
      BY <1>8, <2>1, <3>2
    <3>4. w[k] = COMMA
      BY <3>2, <3>3
    <3>5. k - st(q) \in 1..len(q) /\ first(q) + (k - st(q)) = k - o /\ k - o \in 1..Len(j) /\ o + (k - o) = k
      <4>1. k > o + first(q) /\ ~(o + first(q) + len(q) + 1 <= k)
        BY <2>5, <3>2
      <4> QED
        BY <2>12, <3>2, <4>1, Zenon DEF PartPlaces
    <3>6. w[k] = j[k - o] /\ j[first(q) + (k - st(q))] = t.parts[q][k - st(q)]
      BY <1>2, <1>6, <3>5
    <3>7. t.parts[q][k - st(q)] = COMMA
      BY <3>4, <3>5, <3>6
    <3> QED
      BY <1>4, <3>5, <3>7 DEF Blank
  <2>6. end_(st(q)) = e
    <3>1. \A k \in T : e <= k
      BY <2>5
    <3> HIDE DEF T, e
    <3>2. Min(T) = e
      BY <2>3, <2>4, <3>1, MinIs
    <3> QED
      BY <3>2 DEF T
  <2> DEFINE a == st(q) + 1
             b == st(q) + len(q)
             x == SubSeq(w, a, b)
  <2>7. /\ a \in 1..(Len(w) + 1) /\ b \in 0..Len(w) /\ a <= b /\ b - a + 1 = len(q)
    <3>1. /\ o + first(q) + 1 \in 1..(Len(w) + 1) /\ o + first(q) + len(q) \in 0..Len(w)
          /\ o + first(q) + 1 <= o + first(q) + len(q)
          /\ (o + first(q) + len(q)) - (o + first(q) + 1) + 1 = len(q)
      BY <2>12 DEF PartPlaces
    <3>2. a = o + first(q) + 1
      OBVIOUS
    <3>3. b = o + first(q) + len(q)
      OBVIOUS
    <3> HIDE DEF a, b
    <3> QED
      BY <3>1, <3>2, <3>3, Zenon
  <2>8. x \in String /\ Len(x) = len(q) /\ \A k \in 1..len(q) : x[k] = w[a + k - 1]
    <3> HIDE DEF a, b
    <3>1. /\ x \in String /\ Len(x) = IF a <= b THEN b - a + 1 ELSE 0
          /\ \A k \in 1..Len(x) : x[k] = w[a + k - 1]
      BY <1>2, <2>7, PieceIsString
    <3> HIDE DEF x
    <3>2. Len(x) = len(q)
      BY <2>7, <3>1
    <3> QED
      BY <3>1, <3>2, Zenon
  <2>9. ASSUME NEW k \in 1..len(q)
        PROVE  x[k] = t.parts[q][k]
    <3>1. a + k - 1 = o + (first(q) + k) /\ first(q) + k \in 1..Len(j)
      BY <1>8, <2>1
    <3>2. x[k] = w[a + k - 1]
      BY <2>8
    <3>3. w[o + (first(q) + k)] = j[first(q) + k]
      BY <1>2, <3>1
    <3>4. j[first(q) + k] = t.parts[q][k]
      BY <1>6
    <3> HIDE DEF x, a
    <3> QED
      BY <3>1, <3>2, <3>3, <3>4
  <2>10. x = t.parts[q]
    <3> HIDE DEF x
    <3> QED
      BY <2>1, <2>8, <2>9, SameString DEF len
  <2>11. part(st(q)) = x
    <3>1. e - 1 = b
      BY <1>8, <2>1
    <3> HIDE DEF e, end_, a, b, x
    <3>2. part(st(q)) = SubSeq(w, st(q) + 1, end_(st(q)) - 1)
      OBVIOUS
    <3>3. x = SubSeq(w, st(q) + 1, b)
      BY DEF x, a
    <3> QED
      BY <2>6, <3>1, <3>2, <3>3, Zenon
  <2> QED
    BY <2>10, <2>11
<1>13. SubSeq(w, 1, o - 1) = p
  <2>1. 1 \in 1..(Len(w) + 1) /\ o - 1 \in 0..Len(w) /\ 1 <= o - 1 /\ (o - 1) - 1 + 1 = Len(p)
    BY <1>3, <1>8
  <2> DEFINE x == SubSeq(w, 1, o - 1)
  <2>2. x \in String /\ Len(x) = Len(p) /\ \A k \in 1..Len(p) : x[k] = w[1 + k - 1]
    BY <1>2, <2>1, PieceIsString
  <2>3. ASSUME NEW k \in 1..Len(p)
        PROVE  x[k] = p[k]
    <3>1. 1 + k - 1 = k
      OBVIOUS
    <3> QED
      BY <1>2, <2>2, <3>1
  <2> HIDE DEF x
  <2>4. x = p
    BY <1>3, <2>2, <2>3, SameString
  <2> QED
    BY <2>4 DEF x
<1>14. expand_tag_braces(w) = {SubSeq(w, 1, open - 1) \o part(i) : i \in starts}
  <2>1. expand_tag_braces(w) =
          LET op == Min({i \in DOMAIN w : w[i] = LBRACE})
              sts == {op} \cup {i \in (op + 1)..Len(w) : w[i] = COMMA}
              pt(i) == SubSeq(w, i + 1, Min({k \in sts : k > i} \cup {Len(w)}) - 1)
          IN  {SubSeq(w, 1, op - 1) \o pt(i) : i \in sts}
    BY DEF expand_tag_braces
  <2>2. open = o
    BY <1>9
  <2> HIDE DEF open
  <2>3. expand_tag_braces(w) =
          LET op == open
              sts == {op} \cup {i \in (op + 1)..Len(w) : w[i] = COMMA}
              pt(i) == SubSeq(w, i + 1, Min({k \in sts : k > i} \cup {Len(w)}) - 1)
          IN  {SubSeq(w, 1, op - 1) \o pt(i) : i \in sts}
    BY <2>1 DEF open
  <2> QED
    BY <2>2, <2>3
<1> HIDE DEF open, part, starts, st
<1>15. expand_tag_braces(w) = {p \o part(i) : i \in starts}
  BY <1>9, <1>13, <1>14
<1>16. \A x : x \in ToSet(t.parts) <=> \E q \in 1..n : x = t.parts[q]
  <2>1. DOMAIN t.parts = 1..n
    BY <1>3 DEF n
  <2> QED
    BY <2>1 DEF ToSet
<1>17. ASSUME NEW x
       PROVE  x \in {p \o part(i) : i \in starts} <=> x \in {p \o y : y \in ToSet(t.parts)}
  <2>1. ASSUME NEW i \in starts, x = p \o part(i)
        PROVE  x \in {p \o y : y \in ToSet(t.parts)}
    BY <1>11, <1>12, <1>16, <2>1
  <2>2. ASSUME NEW y \in ToSet(t.parts), x = p \o y
        PROVE  x \in {p \o part(i) : i \in starts}
    <3>1. PICK q \in 1..n : y = t.parts[q]
      BY <1>16
    <3> QED
      BY <1>10, <1>12, <2>2, <3>1
  <2> QED
    BY <2>1, <2>2
<1>18. {p \o part(i) : i \in starts} = {p \o y : y \in ToSet(t.parts)}
  <2> DEFINE A == {p \o part(i) : i \in starts}
             B == {p \o y : y \in ToSet(t.parts)}
  <2>1. \A x : x \in A <=> x \in B
    BY <1>17
  <2> HIDE DEF A, B
  <2>2. A = B
    BY <2>1
  <2> QED
    BY <2>2 DEF A, B
<1> QED
  BY <1>15, <1>18 DEF p, w

-----------------------------------------------------------------------------
(* Trimmed text.                                                           *)

LEMMA TrimmedFacts ==
  ASSUME NEW s \in String
  PROVE  /\ trimmed(s) \in String
         /\ trimmed(s) # <<>> =>
              ~isspace(trimmed(s)[1]) /\ ~isspace(trimmed(s)[Len(trimmed(s))])
<1> DEFINE ink == {i \in DOMAIN s : ~isspace(s[i])}
           a == Min(ink)
           b == Max(ink)
<1>1. Len(s) \in Nat /\ DOMAIN s = 1..Len(s) /\ ink \in SUBSET (0..Len(s)) /\ ink \in SUBSET Nat
      /\ ink \in SUBSET (1..Len(s))
  BY DEF String
<1>2. CASE ink = {}
  BY <1>2 DEF trimmed, String
<1>3. CASE ink # {}
  <2>1. a \in ink /\ \A m \in ink : a <= m
    <3> HIDE DEF ink
    <3> QED
      BY <1>1, <1>3, MinFacts
  <2>2. b \in ink /\ \A m \in ink : m <= b
    <3> HIDE DEF ink
    <3> QED
      BY <1>1, <1>3, MaxFacts
  <2>3. a <= b /\ a \in 1..(Len(s) + 1) /\ b \in 0..Len(s) /\ ~isspace(s[a]) /\ ~isspace(s[b])
        /\ a \in Nat /\ b \in Nat /\ a > 0
    BY <1>1, <2>1, <2>2
  <2> DEFINE x == SubSeq(s, a, b)
  <2>4. trimmed(s) = x
    BY <1>3 DEF trimmed
  <2> HIDE DEF a, b, ink
  <2>5. x \in String /\ Len(x) = (IF a <= b THEN b - a + 1 ELSE 0)
        /\ \A k \in 1..Len(x) : x[k] = s[a + k - 1]
    BY <2>3, PieceIsString
  <2> HIDE DEF x
  <2>6. Len(x) = b - a + 1
    BY <2>3, <2>5, Zenon
  <2>7. 1 \in 1..Len(x) /\ Len(x) \in 1..Len(x) /\ a + 1 - 1 = a /\ a + Len(x) - 1 = b
    BY <2>3, <2>6
  <2>8. x[1] = s[a] /\ x[Len(x)] = s[b]
    BY <2>5, <2>7
  <2> QED
    BY <2>3, <2>4, <2>5, <2>8
<1> QED
  BY <1>2, <1>3

-----------------------------------------------------------------------------
(* The automaton of tag().                                                 *)

TagTypes ==
  /\ parsing \in {"no", "run", "done"} /\ state \in {"SEP", "TAG", "BRACES"}
  /\ cur_tag \in String /\ has_braces \in BOOLEAN /\ c \in Nat
  /\ parsing = "run" => pc = "ready" /\ found # Nothing /\ c <= Len(text) /\ text # <<>>
  /\ parsing # "run" => state = "SEP" /\ c = 0
  /\ parsing = "done" => found # Nothing
  /\ parsing = "no" => res = {}
  /\ state = "SEP" => cur_tag = <<>>
  /\ has_braces <=> LBRACE \in ToSet(cur_tag)
  /\ state = "BRACES" => has_braces

Word(list) == [i \in DOMAIN list |-> WrittenTag(list[i])]

TagStart(list, sep, k) == Start(Word(list), sep, k)
TagStop(list, sep, k) == Stop(Word(list), sep, k)

(* What one tag as written stands for, and the first k of a list.          *)
Means(t) == IF t.parts = <<>> THEN {t.prefix} ELSE {t.prefix \o p : p \in ToSet(t.parts)}
MeansUpTo(list, k) == UNION {Means(list[i]) : i \in 1..k}

(* The tag w = WrittenTag(t) has been read up to character m: the          *)
(* automaton is in the braces from the opening one to the last character   *)
(* before the closing one.                                                 *)
InBraces(t, m) == t.parts # <<>> /\ Len(t.prefix) < m /\ m < Len(WrittenTag(t)) - 1
Reading(t, m) ==
  /\ m \in 0..Len(WrittenTag(t))
  /\ Len(cur_tag) = m /\ \A i \in 1..m : cur_tag[i] = WrittenTag(t)[i]
  /\ state = "BRACES" <=> InBraces(t, m)

(* All tags before tag k are in res, and the automaton is in what          *)
(* separates it from them or in the tag itself.                            *)
BeforeTag(list, sep, k) ==
  /\ state = "SEP"
  /\ IF k = 1 THEN c = 0 ELSE TagStop(list, sep, k - 1) < c
  /\ c <= TagStart(list, sep, k)
InTag(list, sep, k) ==
  /\ state # "SEP"
  /\ \E m \in Nat : c = TagStart(list, sep, k) + m /\ Reading(list[k], m)
Progress(list, sep) ==
  \E k \in 1..Len(list) :
    /\ res = MeansUpTo(list, k - 1)
    /\ BeforeTag(list, sep, k) \/ InTag(list, sep, k)

SpelledInv ==
  found # Nothing =>
    \A list \in TagLists, sep \in Separators :
      text = Written(list, sep) =>
        /\ parsing = "run" => Progress(list, sep)
        /\ parsing = "done" => res = Denoted(list)

TagInv == TagTypes /\ SpelledInv

LEMMA TextIsString ==
  ASSUME LookupInv, found # Nothing
  PROVE  text \in String /\ pc = "ready" /\ found \in 0..size
<1>1. ParserTypes /\ pc = "ready" /\ found \in 0..size /\ size \in Nat
  BY TypeFacts DEF LookupInv, SearchInv, ParserTypes
<1>2. field(found) \in String
  <2>1. CASE found = size
    BY <2>1, <1>1 DEF field, String
  <2>2. CASE found # size
    <3>1. found \in 0..(size - 1)
      BY <1>1, <2>2
    <3> QED
      BY <1>1, <3>1, FieldFacts
  <2> QED
    BY <2>1, <2>2
<1> DEFINE r == field(found)
           s == SubSeq(r, colon(r) + 1, Len(r))
<1>3. r \in String /\ Len(r) \in Nat /\ colon(r) \in 1..(Len(r) + 1)
  BY <1>2, ColonFacts, LenNat
<1>4. text = IF colon(r) > Len(r) THEN r ELSE trimmed(s)
  BY DEF text, lookup
<1> HIDE DEF r
<1>5. ASSUME ~(colon(r) > Len(r))
      PROVE  trimmed(s) \in String
  <2>1. colon(r) + 1 \in 1..(Len(r) + 1) /\ Len(r) \in 0..Len(r)
    BY <1>3, <1>5
  <2>2. s \in String
    BY <1>3, <2>1, PieceIsString
  <2> HIDE DEF s
  <2> QED
    BY <2>2, TrimmedFacts
<1> QED
  BY <1>1, <1>3, <1>4, <1>5

LEMMA SeparatorFacts ==
  ASSUME NEW sep \in Separators
  PROVE  sep \in String /\ Len(sep) \in Nat \ {0} /\ \A k \in 1..Len(sep) : separator(sep[k])
<1>1. CASE sep = <<COMMA>>
  BY <1>1 DEF String, separator, COMMA
<1>2. CASE sep = <<COMMA, SP>>
  BY <1>2 DEF String, separator, COMMA, SP
<1>3. CASE sep = <<SP>>
  BY <1>3 DEF String, separator, SP
<1>4. CASE sep = <<COMMA, NL, SP>>
  BY <1>4 DEF String, separator, COMMA, NL, SP
<1> QED
  BY <1>1, <1>2, <1>3, <1>4 DEF Separators

LEMMA WordFacts ==
  ASSUME NEW t \in WellFormed
  PROVE  /\ WrittenTag(t) \in String /\ Len(WrittenTag(t)) \in Nat /\ Len(t.prefix) \in Nat \ {0}
         /\ Len(t.prefix) <= Len(WrittenTag(t))
         /\ \A i \in 1..Len(t.prefix) : WrittenTag(t)[i] \notin Blank
         /\ t.parts = <<>> => Len(WrittenTag(t)) = Len(t.prefix)
         /\ t.parts # <<>> =>
              /\ Len(WrittenTag(t)) > Len(t.prefix) + 2
              /\ WrittenTag(t)[Len(t.prefix) + 1] = LBRACE
              /\ \A i \in (Len(t.prefix) + 2)..(Len(WrittenTag(t)) - 1) : WrittenTag(t)[i] # RBRACE
              /\ WrittenTag(t)[Len(WrittenTag(t))] = RBRACE
<1> DEFINE p == t.prefix
           w == WrittenTag(t)
           j == Commas(t)
<1>1. p \in String /\ Len(p) \in Nat \ {0} /\ \A i \in 1..Len(p) : p[i] \notin Blank
  BY PartsFacts, TagTextFacts
<1>2. CASE t.parts = <<>>
  <2>1. w = p
    BY <1>2 DEF WrittenTag
  <2> QED
    BY <1>1, <1>2, <2>1
<1>3. CASE t.parts # <<>>
  <2>1. /\ w \in String
        /\ Len(w) = Len(p) + Len(j) + 2
        /\ \A k \in 1..Len(p) : w[k] = p[k]
        /\ w[Len(p) + 1] = LBRACE
        /\ \A k \in 1..Len(j) : w[Len(p) + 1 + k] = j[k]
        /\ w[Len(w)] = RBRACE
    BY <1>3, BracedFacts
  <2>2. Len(j) \in Nat \ {0} /\ \A k \in 1..Len(j) : j[k] \notin {SP, NL, LBRACE, RBRACE}
    BY <1>3, CommasFacts
  <2> HIDE DEF p, w, j
  <2>3. ASSUME NEW i \in (Len(p) + 2)..(Len(w) - 1)
        PROVE  w[i] # RBRACE
    <3>1. i - Len(p) - 1 \in 1..Len(j) /\ Len(p) + 1 + (i - Len(p) - 1) = i
      BY <1>1, <2>1, <2>2
    <3> QED
      BY <2>1, <2>2, <3>1
  <2>4. Len(w) \in Nat /\ Len(p) <= Len(w) /\ Len(w) > Len(p) + 2
    BY <1>1, <2>1, <2>2
  <2> QED
    BY <1>1, <1>3, <2>1, <2>3, <2>4 DEF p, w
<1> QED
  BY <1>2, <1>3

(* What have_tag puts into the set when a tag as written has been read.    *)
LEMMA HaveTagIs ==
  ASSUME NEW t \in WellFormed, cur_tag = WrittenTag(t), has_braces <=> LBRACE \in ToSet(cur_tag)
  PROVE  (IF has_braces THEN expand_tag_braces(cur_tag) ELSE {cur_tag}) = Means(t)
<1>1. CASE t.parts = <<>>
  <2>1. cur_tag = t.prefix /\ t.prefix \in TagText
    BY <1>1, PartsFacts DEF WrittenTag
  <2>2. LBRACE \notin ToSet(cur_tag)
    <3>1. DOMAIN cur_tag = 1..Len(cur_tag) /\ \A i \in 1..Len(cur_tag) : cur_tag[i] \notin Blank
      BY <2>1, TagTextFacts DEF String
    <3> QED
      BY <3>1 DEF ToSet, Blank
  <2> QED
    BY <1>1, <2>1, <2>2 DEF Means
<1>2. CASE t.parts # <<>>
  <2>1. /\ cur_tag \in String /\ Len(t.prefix) \in Nat \ {0}
        /\ Len(cur_tag) > Len(t.prefix) + 2 /\ cur_tag[Len(t.prefix) + 1] = LBRACE
    BY <1>2, WordFacts
  <2>2. Len(t.prefix) + 1 \in DOMAIN cur_tag
    BY <2>1 DEF String
  <2>3. LBRACE \in ToSet(cur_tag)
    BY <2>1, <2>2 DEF ToSet
  <2>4. expand_tag_braces(cur_tag) = {t.prefix \o p : p \in ToSet(t.parts)}
    BY <1>2, ExpandIs
  <2> QED
    BY <1>2, <2>3, <2>4 DEF Means
<1> QED
  BY <1>1, <1>2

LEMMA MeansOneMore ==
  ASSUME NEW list, NEW k \in Nat \ {0}
  PROVE  MeansUpTo(list, k - 1) \cup Means(list[k]) = MeansUpTo(list, k)
<1>1. \A i : i \in 1..k <=> i \in 1..(k - 1) \/ i = k
  OBVIOUS
<1> QED
  BY <1>1, Zenon DEF MeansUpTo

LEMMA DenotedIsMeans ==
  ASSUME NEW S, NEW list \in Seq(S)
  PROVE  Denoted(list) = MeansUpTo(list, Len(list))
<1>1. DOMAIN list = 1..Len(list)
  OBVIOUS
<1> QED
  BY <1>1, Zenon DEF Denoted, MeansUpTo, Means

(* A list as written, as the automaton finds it in the text.               *)
Spelled(list, sep) ==
  /\ list \in TagLists /\ sep \in Separators
  /\ text = Written(list, sep) /\ text # <<>>

LEMMA SpelledIsNonempty ==
  ASSUME NEW list, NEW sep, Spelled(list, sep)
  PROVE  list # <<>>
<1>1. list = <<>> => Written(list, sep) = <<>>
  <2> SUFFICES ASSUME list = <<>> PROVE Written(list, sep) = <<>>
    OBVIOUS
  <2>1. [i \in DOMAIN list |-> WrittenTag(list[i])] = <<>>
    OBVIOUS
  <2>2. Written(list, sep) = Joined(<<>>, sep)
    BY <2>1 DEF Written
  <2>3. [i \in DOMAIN <<>> |-> IF i = 1 THEN <<>>[i] ELSE sep \o <<>>[i]] = <<>>
    OBVIOUS
  <2> QED
    BY <2>2, <2>3 DEF Joined, FlattenSeq
<1> QED
  BY <1>1 DEF Spelled

LEMMA WrittenIsNonempty ==
  ASSUME NEW list \in TagLists, NEW sep \in Separators, list # <<>>
  PROVE  Written(list, sep) # <<>>
<1> DEFINE n == Len(list)
           w == Word(list)
<1>1. list \in Seq(WellFormed)
  BY TagListsAssumption, Zenon DEF WellFormed
<1>2. n \in Nat \ {0} /\ DOMAIN list = 1..n /\ \A k \in 1..n : list[k] \in WellFormed
  BY <1>1
<1>3. w = [k \in 1..n |-> WrittenTag(list[k])]
  BY <1>2 DEF Word
<1>4. \A k \in 1..n : w[k] = WrittenTag(list[k]) /\ w[k] \in String
  BY <1>2, <1>3, WordFacts
<1>5. w \in Seq(String) /\ Len(w) = n /\ w # <<>>
  <2>1. w \in [1..n -> String]
    BY <1>3, <1>4
  <2> HIDE DEF w, n
  <2>2. w \in Seq(String) /\ Len(w) = n
    BY <1>2, <2>1
  <2> QED
    BY <1>2, <2>2
<1>6. Written(list, sep) = Joined(w, sep) /\ sep \in String
  BY SeparatorFacts DEF Written, Word
<1>7. 1 \in 1..n
  BY <1>2
<1>8. Len(w[1]) \in Nat \ {0}
  <2>1. /\ Len(WrittenTag(list[1])) \in Nat /\ Len(list[1].prefix) \in Nat \ {0}
        /\ Len(list[1].prefix) <= Len(WrittenTag(list[1]))
    BY <1>2, <1>7, WordFacts
  <2> QED
    BY <1>4, <1>7, <2>1
<1> HIDE DEF w, n
<1>9. Stop(w, sep, 1) = Start(w, sep, 1) + Len(w[1]) /\ Start(w, sep, 1) = 0
      /\ Stop(w, sep, 1) <= Len(Joined(w, sep)) /\ Joined(w, sep) \in String
  BY <1>5, <1>6, <1>7, StartsAndStops
<1>10. Len(Joined(w, sep)) # 0
  BY <1>8, <1>9, LenNat
<1> QED
  BY <1>6, <1>10

InText(list, sep) ==
  /\ Len(list) \in Nat \ {0} /\ Len(sep) \in Nat \ {0} /\ text \in String
  /\ \A k \in 1..Len(list) : list[k] \in WellFormed
  /\ \A k \in 1..Len(list) :
       /\ TagStart(list, sep, k) \in Nat /\ TagStop(list, sep, k) \in Nat
       /\ TagStop(list, sep, k) = TagStart(list, sep, k) + Len(WrittenTag(list[k]))
       /\ TagStop(list, sep, k) <= Len(text)
       /\ \A i \in 1..Len(WrittenTag(list[k])) :
            text[TagStart(list, sep, k) + i] = WrittenTag(list[k])[i]
  /\ TagStart(list, sep, 1) = 0 /\ TagStop(list, sep, Len(list)) = Len(text)
  /\ \A k \in 1..(Len(list) - 1) : TagStart(list, sep, k + 1) = TagStop(list, sep, k) + Len(sep)
  /\ \A k \in 1..(Len(list) - 1) : \A i \in 1..Len(sep) : separator(text[TagStop(list, sep, k) + i])

LEMMA WrittenFacts ==
  ASSUME NEW list, NEW sep, Spelled(list, sep)
  PROVE  InText(list, sep)
<1> DEFINE n == Len(list)
           w == Word(list)
           j == text
<1>0. list \in TagLists /\ sep \in Separators /\ text = Written(list, sep) /\ list # <<>>
  BY SpelledIsNonempty DEF Spelled
<1>1. list \in Seq(WellFormed) /\ n \in Nat \ {0} /\ DOMAIN list = 1..n
  <2>1. list \in Seq(WellFormed)
    BY <1>0, TagListsAssumption, Zenon DEF WellFormed
  <2> QED
    BY <1>0, <2>1
<1>2. \A k \in 1..n : list[k] \in WellFormed
  BY <1>1
<1>3. w = [k \in 1..n |-> WrittenTag(list[k])]
  BY <1>1 DEF Word
<1>4. \A k \in 1..n : w[k] = WrittenTag(list[k]) /\ w[k] \in String
  BY <1>2, <1>3, WordFacts
<1>5. w \in Seq(String) /\ Len(w) = n /\ w # <<>>
  <2>1. w \in [1..n -> String]
    BY <1>3, <1>4
  <2> HIDE DEF w, n
  <2>2. w \in Seq(String) /\ Len(w) = n
    BY <1>1, <2>1
  <2> QED
    BY <1>1, <2>2
<1>6. j = Joined(w, sep)
  BY <1>0 DEF Written, Word
<1>7. sep \in String /\ Len(sep) \in Nat \ {0} /\ \A i \in 1..Len(sep) : separator(sep[i])
  BY <1>0, SeparatorFacts
<1> HIDE DEF n, w, j
<1>8. /\ \A i \in 1..n :
           /\ Start(w, sep, i) \in Nat
           /\ Stop(w, sep, i) = Start(w, sep, i) + Len(w[i])
           /\ Stop(w, sep, i) \in Nat
           /\ Stop(w, sep, i) <= Len(j)
      /\ Start(w, sep, 1) = 0
      /\ \A i \in 1..(n - 1) : Start(w, sep, i + 1) = Stop(w, sep, i) + Len(sep)
      /\ Stop(w, sep, n) = Len(j)
      /\ j \in String
  BY <1>5, <1>6, <1>7, StartsAndStops
<1>9. ASSUME NEW k \in 1..n, NEW i \in 1..Len(w[k])
      PROVE  j[Start(w, sep, k) + i] = w[k][i]
  BY <1>5, <1>6, <1>7, Layout
<1>10. ASSUME NEW k \in 1..(n - 1), NEW i \in 1..Len(sep)
       PROVE  separator(j[Stop(w, sep, k) + i])
  <2>1. k \in 1..Len(w) /\ k < Len(w)
    BY <1>1, <1>5
  <2>2. \A x \in 1..Len(sep) : j[Stop(w, sep, k) + x] = sep[x]
    BY <1>5, <1>6, <1>7, <2>1, Layout
  <2> QED
    BY <1>7, <2>2, Zenon
<1>11. \A k \in 1..n :
         /\ TagStart(list, sep, k) \in Nat
         /\ TagStop(list, sep, k) = TagStart(list, sep, k) + Len(WrittenTag(list[k]))
         /\ TagStop(list, sep, k) \in Nat
         /\ TagStop(list, sep, k) <= Len(j)
         /\ \A i \in 1..Len(WrittenTag(list[k])) : j[TagStart(list, sep, k) + i] = WrittenTag(list[k])[i]
  <2> SUFFICES ASSUME NEW k \in 1..n
               PROVE  /\ TagStart(list, sep, k) \in Nat
                      /\ TagStop(list, sep, k) = TagStart(list, sep, k) + Len(WrittenTag(list[k]))
                      /\ TagStop(list, sep, k) \in Nat
                      /\ TagStop(list, sep, k) <= Len(j)
                      /\ \A i \in 1..Len(WrittenTag(list[k])) :
                           j[TagStart(list, sep, k) + i] = WrittenTag(list[k])[i]
    OBVIOUS
  <2>1. w[k] = WrittenTag(list[k])
    BY <1>4
  <2>2. TagStart(list, sep, k) = Start(w, sep, k) /\ TagStop(list, sep, k) = Stop(w, sep, k)
    BY DEF TagStart, TagStop, w
  <2>3. \A i \in 1..Len(w[k]) : j[Start(w, sep, k) + i] = w[k][i]
    BY <1>9
  <2> QED
    BY <1>8, <2>1, <2>2, <2>3, Zenon
<1>12. /\ TagStart(list, sep, 1) = 0
       /\ TagStop(list, sep, n) = Len(j)
       /\ \A k \in 1..(n - 1) : TagStart(list, sep, k + 1) = TagStop(list, sep, k) + Len(sep)
       /\ \A k \in 1..(n - 1) : \A i \in 1..Len(sep) : separator(j[TagStop(list, sep, k) + i])
  BY <1>8, <1>10, Zenon DEF TagStart, TagStop, w
<1> QED
  BY <1>1, <1>2, <1>7, <1>8, <1>11, <1>12, Zenon DEF InText, n, j

-----------------------------------------------------------------------------
(* The steps of the automaton.                                             *)

LEMMA CharIs ==
  ASSUME NEW i \in Nat, i < Len(text)
  PROVE  char(i) = text[i + 1]
BY DEF char

LEMMA SepKeepsProgress ==
  ASSUME NEW list, NEW sep, Spelled(list, sep), TagTypes, Sep, Progress(list, sep)
  PROVE  Progress(list, sep)'
<1> DEFINE from(k) == TagStart(list, sep, k)
           to(k) == TagStop(list, sep, k)
<1>3. /\ Len(list) \in Nat \ {0} /\ Len(sep) \in Nat \ {0} /\ text \in String
      /\ \A k \in 1..Len(list) : list[k] \in WellFormed
      /\ \A k \in 1..Len(list) :
           /\ from(k) \in Nat /\ to(k) \in Nat
           /\ to(k) = from(k) + Len(WrittenTag(list[k]))
           /\ to(k) <= Len(text)
           /\ \A i \in 1..Len(WrittenTag(list[k])) : text[from(k) + i] = WrittenTag(list[k])[i]
      /\ from(1) = 0 /\ to(Len(list)) = Len(text)
      /\ \A k \in 1..(Len(list) - 1) : from(k + 1) = to(k) + Len(sep)
      /\ \A k \in 1..(Len(list) - 1) : \A i \in 1..Len(sep) : separator(text[to(k) + i])
  BY WrittenFacts DEF InText
<1>1. PICK k \in 1..Len(list) : res = MeansUpTo(list, k - 1) /\ BeforeTag(list, sep, k)
  <2>1. state = "SEP"
    BY DEF Sep, In
  <2> QED
    BY <2>1 DEF Progress, InTag
<1>2. /\ c \in Nat /\ c < Len(text) /\ res' = res /\ cur_tag' = cur_tag /\ cur_tag = <<>>
      /\ IF separator(char(c)) THEN c' = c + 1 /\ state' = state ELSE state' = "TAG" /\ c' = c
      /\ state = "SEP"
  BY DEF TagTypes, Sep, In
<1>4. char(c) = text[c + 1] /\ Len(text) \in Nat
  BY <1>2, <1>3, CharIs, LenNat
<1>5. (IF k = 1 THEN c = 0 ELSE to(k - 1) < c) /\ c <= from(k)
  BY <1>1 DEF BeforeTag
<1> HIDE DEF from, to
<1>6. CASE c < from(k)
  <2>1. k # 1
    BY <1>2, <1>3, <1>6
  <2>2. k - 1 \in 1..(Len(list) - 1) /\ (k - 1) + 1 = k /\ k - 1 \in 1..Len(list)
    BY <1>3, <2>1
  <2>3. from(k) = to(k - 1) + Len(sep) /\ to(k - 1) \in Nat /\ to(k - 1) < c /\ from(k) \in Nat
    BY <1>3, <1>5, <2>1, <2>2
  <2>4. Len(sep) \in Nat
    BY <1>3
  <2>5. c + 1 - to(k - 1) \in 1..Len(sep) /\ to(k - 1) + (c + 1 - to(k - 1)) = c + 1
    BY <1>2, <1>6, <2>3, <2>4
  <2>6. separator(char(c))
    BY <1>3, <1>4, <2>2, <2>5
  <2>7. c' = c + 1 /\ state' = "SEP" /\ res' = MeansUpTo(list, k - 1)
    BY <1>1, <1>2, <2>6
  <2>8. (IF k = 1 THEN c' = 0 ELSE to(k - 1) < c') /\ c' <= from(k)
    BY <1>2, <1>6, <2>1, <2>3, <2>7
  <2>9. BeforeTag(list, sep, k)'
    BY <2>7, <2>8 DEF BeforeTag, from, to
  <2> QED
    BY <2>7, <2>9 DEF Progress
<1>7. CASE c = from(k)
  <2>1. /\ Len(WrittenTag(list[k])) \in Nat /\ Len(list[k].prefix) \in Nat \ {0}
        /\ Len(list[k].prefix) <= Len(WrittenTag(list[k]))
        /\ \A i \in 1..Len(list[k].prefix) : WrittenTag(list[k])[i] \notin Blank
    BY <1>3, WordFacts
  <2>2. 1 \in 1..Len(WrittenTag(list[k])) /\ 1 \in 1..Len(list[k].prefix)
    BY <2>1
  <2>3. char(c) = WrittenTag(list[k])[1]
    BY <1>3, <1>4, <1>7, <2>2
  <2>4. ~separator(char(c))
    BY <2>1, <2>2, <2>3 DEF separator, Blank
  <2>5. c' = from(k) + 0 /\ state' = "TAG" /\ res' = MeansUpTo(list, k - 1) /\ cur_tag' = <<>>
    BY <1>1, <1>2, <1>7, <2>4
  <2>6. ~InBraces(list[k], 0)
    BY <2>1 DEF InBraces
  <2>7. Reading(list[k], 0)'
    <3>1. 0 \in 0..Len(WrittenTag(list[k])) /\ Len(cur_tag') = 0 /\ state' # "BRACES"
      BY <2>1, <2>5
    <3>2. \A i \in 1..0 : cur_tag'[i] = WrittenTag(list[k])[i]
      OBVIOUS
    <3> QED
      BY <2>6, <3>1, <3>2, Zenon DEF Reading, InBraces
  <2>8. InTag(list, sep, k)'
    BY <2>5, <2>7 DEF InTag, from
  <2> QED
    BY <2>5, <2>8 DEF Progress
<1>8. from(k) \in Nat
  BY <1>3
<1> QED
  BY <1>2, <1>5, <1>6, <1>7, <1>8

LEMMA KeepReads ==
  ASSUME NEW t \in WellFormed, NEW m \in Nat, m < Len(WrittenTag(t)), cur_tag \in String,
         Reading(t, m), cur_tag' = Append(cur_tag, WrittenTag(t)[m + 1]),
         state' = "BRACES" <=> InBraces(t, m + 1)
  PROVE  Reading(t, m + 1)'
<1> DEFINE w == WrittenTag(t)
<1>1. w \in String /\ Len(w) \in Nat
  BY WordFacts
<1>2. m + 1 \in 1..Len(w) /\ m + 1 \in 0..Len(w)
  BY <1>1
<1>3. w[m + 1] \in Nat
  BY <1>1, <1>2 DEF String
<1>4. Len(cur_tag) = m /\ \A i \in 1..m : cur_tag[i] = w[i]
  BY DEF Reading
<1> HIDE DEF w
<1>5. /\ Len(cur_tag') = m + 1
      /\ \A i \in 1..m : cur_tag'[i] = cur_tag[i]
      /\ cur_tag'[m + 1] = w[m + 1]
  BY <1>3, <1>4, AppendFacts DEF String, w
<1>6. \A i \in 1..(m + 1) : i \in 1..m \/ i = m + 1
  OBVIOUS
<1>7. \A i \in 1..(m + 1) : cur_tag'[i] = w[i]
  BY <1>4, <1>5, <1>6
<1>8. (state' = "BRACES" <=> InBraces(t, m + 1)) /\ m + 1 \in 0..Len(w) /\ Len(cur_tag') = m + 1
  BY <1>2, <1>5
<1> QED
  BY <1>7, <1>8, Zenon DEF Reading, InBraces, w

LEMMA ReadWhole ==
  ASSUME NEW t \in WellFormed, cur_tag \in String, Reading(t, Len(WrittenTag(t)))
  PROVE  cur_tag = WrittenTag(t)
<1>1. WrittenTag(t) \in String /\ Len(cur_tag) = Len(WrittenTag(t))
      /\ \A i \in 1..Len(cur_tag) : cur_tag[i] = WrittenTag(t)[i]
  BY WordFacts DEF Reading
<1> QED
  BY <1>1, SameString

LEMMA StopIsBefore ==
  ASSUME NEW a \in Nat, NEW s \in Nat \ {0}, NEW l \in Nat \ {0}, NEW n \in Nat, (a + s) + l <= n
  PROVE  a < n /\ a < a + s
OBVIOUS

(* The automaton in tag k, of which it has read m characters.              *)
LEMMA InTagFacts ==
  ASSUME NEW list, NEW sep, Spelled(list, sep), TagTypes, NEW k \in 1..Len(list), NEW m \in Nat,
         c = TagStart(list, sep, k) + m, Reading(list[k], m)
  PROVE  /\ list[k] \in WellFormed /\ m <= Len(WrittenTag(list[k])) /\ Len(WrittenTag(list[k])) \in Nat
         /\ Len(text) \in Nat
         /\ \A i \in m..(Len(WrittenTag(list[k])) - 1) :
              char(c + (i - m)) = WrittenTag(list[k])[i + 1] /\ c + (i - m) < Len(text)
         /\ m = Len(WrittenTag(list[k])) =>
              /\ c = TagStop(list, sep, k) /\ cur_tag = WrittenTag(list[k])
              /\ k = Len(list) <=> c = Len(text)
              /\ k < Len(list) => separator(char(c)) /\ c < TagStart(list, sep, k + 1)
<1> DEFINE from(q) == TagStart(list, sep, q)
           to(q) == TagStop(list, sep, q)
           w == WrittenTag(list[k])
<1>1. /\ Len(list) \in Nat \ {0} /\ Len(sep) \in Nat \ {0} /\ text \in String
      /\ \A q \in 1..Len(list) : list[q] \in WellFormed
      /\ \A q \in 1..Len(list) :
           /\ from(q) \in Nat /\ to(q) \in Nat
           /\ to(q) = from(q) + Len(WrittenTag(list[q]))
           /\ to(q) <= Len(text)
           /\ \A i \in 1..Len(WrittenTag(list[q])) : text[from(q) + i] = WrittenTag(list[q])[i]
      /\ from(1) = 0 /\ to(Len(list)) = Len(text)
      /\ \A q \in 1..(Len(list) - 1) : from(q + 1) = to(q) + Len(sep)
      /\ \A q \in 1..(Len(list) - 1) : \A i \in 1..Len(sep) : separator(text[to(q) + i])
  BY WrittenFacts DEF InText
<1>2. /\ list[k] \in WellFormed /\ m <= Len(w) /\ Len(w) \in Nat /\ Len(text) \in Nat
      /\ \A q \in 1..Len(list) : Len(WrittenTag(list[q])) \in Nat \ {0}
  <2>1. \A q \in 1..Len(list) : Len(WrittenTag(list[q])) \in Nat \ {0}
    <3> SUFFICES ASSUME NEW q \in 1..Len(list) PROVE Len(WrittenTag(list[q])) \in Nat \ {0}
      OBVIOUS
    <3>1. /\ Len(WrittenTag(list[q])) \in Nat /\ Len(list[q].prefix) \in Nat \ {0}
          /\ Len(list[q].prefix) <= Len(WrittenTag(list[q]))
      BY <1>1, WordFacts
    <3> QED
      BY <3>1
  <2>2. m \in 0..Len(w)
    BY DEF Reading
  <2> QED
    BY <1>1, <2>1, <2>2, LenNat
<1>3. c \in Nat /\ c = from(k) + m /\ cur_tag \in String
  BY DEF TagTypes
<1>4. /\ from(k) \in Nat /\ to(k) \in Nat /\ to(k) = from(k) + Len(w) /\ to(k) <= Len(text)
      /\ \A i \in 1..Len(w) : text[from(k) + i] = w[i]
  BY <1>1
<1> HIDE DEF from, to, w
<1>5. ASSUME NEW i \in m..(Len(w) - 1)
      PROVE  char(c + (i - m)) = w[i + 1] /\ c + (i - m) < Len(text)
  <2>1. i \in Nat /\ i + 1 \in 1..Len(w)
    BY <1>2
  <2>2. c + (i - m) = from(k) + i
    BY <1>3, <1>4, <2>1
  <2>3. from(k) + i \in Nat /\ from(k) + i < Len(text) /\ (from(k) + i) + 1 = from(k) + (i + 1)
    BY <1>2, <1>4, <2>1
  <2>4. char(from(k) + i) = text[(from(k) + i) + 1]
    BY <2>3, CharIs
  <2> QED
    BY <1>4, <2>1, <2>2, <2>3, <2>4
<1>6. ASSUME m = Len(w)
      PROVE  /\ c = to(k) /\ cur_tag = w
             /\ k = Len(list) <=> c = Len(text)
             /\ k < Len(list) => separator(char(c)) /\ c < from(k + 1)
  <2>1. c = to(k)
    BY <1>3, <1>4, <1>6
  <2>2. cur_tag = w
    BY <1>2, <1>3, <1>6, ReadWhole DEF w
  <2>3. ASSUME k < Len(list)
        PROVE  separator(char(c)) /\ c < from(k + 1) /\ c # Len(text)
    <3>1. k \in 1..(Len(list) - 1) /\ k + 1 \in 1..Len(list)
      BY <1>1, <2>3
    <3>2. from(k + 1) = to(k) + Len(sep) /\ 1 \in 1..Len(sep) /\ Len(sep) \in Nat \ {0}
      BY <1>1, <3>1
    <3>3. separator(text[to(k) + 1])
      BY <1>1, <3>1, <3>2
    <3>4. to(k + 1) = from(k + 1) + Len(WrittenTag(list[k + 1])) /\ to(k + 1) <= Len(text)
      BY <1>1, <3>1
    <3>5. Len(WrittenTag(list[k + 1])) \in Nat \ {0}
      BY <1>2, <3>1
    <3>6. c < Len(text) /\ c < from(k + 1)
      <4>1. (to(k) + Len(sep)) + Len(WrittenTag(list[k + 1])) <= Len(text)
        BY <3>2, <3>4, Zenon
      <4>2. to(k) < Len(text) /\ to(k) < to(k) + Len(sep)
        BY <1>2, <1>4, <3>2, <3>5, <4>1, StopIsBefore, Zenon
      <4> QED
        BY <2>1, <3>2, <4>2, Zenon
    <3>7. char(c) = text[c + 1]
      BY <1>3, <3>6, CharIs
    <3> QED
      BY <1>2, <1>3, <2>1, <3>3, <3>6, <3>7
  <2>4. k = Len(list) => c = Len(text)
    BY <1>1, <2>1
  <2>5. k = Len(list) \/ k < Len(list)
    BY <1>1
  <2> QED
    BY <2>1, <2>2, <2>3, <2>4, <2>5
<1> QED
  BY <1>2, <1>5, <1>6 DEF from, to, w

LEMMA TagKeepsProgress ==
  ASSUME NEW list, NEW sep, Spelled(list, sep), TagTypes, Tag, Progress(list, sep)
  PROVE  Progress(list, sep)'
<1>1. state = "TAG" /\ c \in Nat /\ c < Len(text) /\ cur_tag \in String
  BY DEF Tag, In, TagTypes
<1>2. PICK k \in 1..Len(list) : res = MeansUpTo(list, k - 1) /\ InTag(list, sep, k)
  BY <1>1 DEF Progress, BeforeTag
<1>3. PICK m \in Nat : c = TagStart(list, sep, k) + m /\ Reading(list[k], m)
  BY <1>2 DEF InTag
<1> DEFINE t == list[k]
           w == WrittenTag(t)
           p == Len(t.prefix)
<1>4. /\ t \in WellFormed /\ m <= Len(w) /\ Len(w) \in Nat /\ Len(text) \in Nat
      /\ \A i \in m..(Len(w) - 1) : char(c + (i - m)) = w[i + 1] /\ c + (i - m) < Len(text)
      /\ m = Len(w) =>
           /\ c = TagStop(list, sep, k) /\ cur_tag = w
           /\ k = Len(list) <=> c = Len(text)
           /\ k < Len(list) => separator(char(c)) /\ c < TagStart(list, sep, k + 1)
  BY <1>3, InTagFacts
<1>5. /\ p \in Nat \ {0} /\ p <= Len(w)
      /\ \A i \in 1..p : w[i] \notin Blank
      /\ t.parts = <<>> => Len(w) = p
      /\ t.parts # <<>> => Len(w) > p + 2 /\ w[p + 1] = LBRACE /\ w[Len(w)] = RBRACE
  BY <1>4, WordFacts
<1>6. ~InBraces(t, m)
  BY <1>1, <1>3 DEF Reading
<1>7. TagStart(list, sep, k) \in Nat /\ Len(list) \in Nat \ {0}
  BY WrittenFacts DEF InText
<1> HIDE DEF p, w, t
<1>8. CASE m < Len(w)
  <2>1. char(c) = w[m + 1]
    <3>1. m \in m..(Len(w) - 1) /\ c + (m - m) = c
      BY <1>1, <1>4, <1>8
    <3> QED
      BY <1>4, <3>1
  <2>2. \/ m + 1 \in 1..p /\ w[m + 1] \notin Blank
        \/ m = p /\ t.parts # <<>> /\ w[m + 1] = LBRACE
        \/ m = Len(w) - 1 /\ t.parts # <<>> /\ w[m + 1] = RBRACE
    <3>1. CASE m < p
      <4>1. m + 1 \in 1..p
        BY <1>5, <3>1
      <4> QED
        BY <1>5, <4>1
    <3>2. CASE ~(m < p)
      <4>1. t.parts # <<>>
        BY <1>5, <1>8, <3>2
      <4>2. m = p \/ m = Len(w) - 1
        <5>1. ~(p < m) \/ ~(m < Len(w) - 1)
          BY <1>6, <4>1 DEF InBraces, p, w
        <5> QED
          BY <1>4, <1>5, <1>8, <3>2, <5>1
      <4>3. m = Len(w) - 1 => m + 1 = Len(w)
        BY <1>4
      <4> QED
        BY <1>5, <4>1, <4>2, <4>3
    <3> QED
      BY <3>1, <3>2
  <2>3. ~separator(char(c))
    BY <2>1, <2>2 DEF separator, Blank, SP, NL, COMMA, LBRACE, RBRACE
  <2>4. /\ cur_tag' = Append(cur_tag, w[m + 1]) /\ c' = c + 1 /\ res' = res
        /\ state' = IF w[m + 1] = LBRACE THEN "BRACES" ELSE "TAG"
    BY <2>1, <2>3 DEF Tag, Keep
  <2>5. w[m + 1] = LBRACE <=> InBraces(t, m + 1)
    <3>1. CASE m + 1 \in 1..p /\ w[m + 1] \notin Blank
      BY <3>1, <1>5 DEF InBraces, Blank, p
    <3>2. CASE m = p /\ t.parts # <<>> /\ w[m + 1] = LBRACE
      <4>1. p < m + 1 /\ m + 1 < Len(w) - 1
        BY <1>4, <1>5, <3>2
      <4> QED
        BY <3>2, <4>1 DEF InBraces, p, w
    <3>3. CASE m = Len(w) - 1 /\ t.parts # <<>> /\ w[m + 1] = RBRACE
      <4>1. ~(m + 1 < Len(w) - 1)
        BY <1>4, <3>3
      <4> QED
        BY <3>3, <4>1 DEF InBraces, w, LBRACE, RBRACE
    <3> QED
      BY <2>2, <3>1, <3>2, <3>3
  <2>6. state' = "BRACES" <=> InBraces(t, m + 1)
    BY <2>4, <2>5
  <2>7. Reading(t, m + 1)'
    BY <1>1, <1>3, <1>4, <1>8, <2>4, <2>6, KeepReads DEF t, w
  <2>8. c' = TagStart(list, sep, k) + (m + 1) /\ m + 1 \in Nat /\ state' # "SEP"
    BY <1>3, <1>7, <2>4
  <2>9. InTag(list, sep, k)'
    BY <2>7, <2>8 DEF InTag, t
  <2> QED
    BY <1>2, <2>4, <2>9 DEF Progress
<1>9. CASE m = Len(w)
  <2>1. k \in 1..(Len(list) - 1) /\ k + 1 \in 1..Len(list) /\ k < Len(list)
    BY <1>1, <1>4, <1>7, <1>9
  <2>2. separator(char(c)) /\ cur_tag = w /\ c = TagStop(list, sep, k) /\ c < TagStart(list, sep, k + 1)
    BY <1>4, <1>9, <2>1
  <2>3. have_tag /\ c' = c + 1 /\ state' = "SEP"
    BY <2>2 DEF Tag
  <2>4. res' = MeansUpTo(list, k)
    <3>1. res' = res \cup (IF has_braces THEN expand_tag_braces(cur_tag) ELSE {cur_tag})
      BY <2>3 DEF have_tag
    <3>2. (IF has_braces THEN expand_tag_braces(cur_tag) ELSE {cur_tag}) = Means(t)
      BY <1>4, <2>2, HaveTagIs DEF TagTypes, w
    <3>3. MeansUpTo(list, k - 1) \cup Means(list[k]) = MeansUpTo(list, k)
      BY MeansOneMore
    <3> QED
      BY <1>2, <3>1, <3>2, <3>3, Zenon DEF t
  <2>5. TagStart(list, sep, k + 1) \in Nat
    BY <2>1, WrittenFacts DEF InText
  <2>6. BeforeTag(list, sep, k + 1)'
    <3>1. k + 1 # 1 /\ (k + 1) - 1 = k
      BY <2>1
    <3>2. TagStop(list, sep, (k + 1) - 1) < c' /\ c' <= TagStart(list, sep, k + 1)
      BY <1>1, <2>2, <2>3, <2>5, <3>1
    <3> QED
      BY <2>3, <3>1, <3>2 DEF BeforeTag
  <2>7. (k + 1) - 1 = k
    BY <2>1
  <2> QED
    BY <2>1, <2>4, <2>6, <2>7 DEF Progress
<1> QED
  BY <1>4, <1>8, <1>9

LEMMA BracesKeepProgress ==
  ASSUME NEW list, NEW sep, Spelled(list, sep), TagTypes, Braces, Progress(list, sep)
  PROVE  Progress(list, sep)'
<1>1. state = "BRACES" /\ c \in Nat /\ c < Len(text) /\ cur_tag \in String
  BY DEF Braces, In, TagTypes
<1>2. PICK k \in 1..Len(list) : res = MeansUpTo(list, k - 1) /\ InTag(list, sep, k)
  BY <1>1 DEF Progress, BeforeTag
<1>3. PICK m \in Nat : c = TagStart(list, sep, k) + m /\ Reading(list[k], m)
  BY <1>2 DEF InTag
<1> DEFINE t == list[k]
           w == WrittenTag(t)
           p == Len(t.prefix)
<1>4. /\ t \in WellFormed /\ m <= Len(w) /\ Len(w) \in Nat
      /\ \A i \in m..(Len(w) - 1) : char(c + (i - m)) = w[i + 1]
  BY <1>3, InTagFacts
<1>5. t.parts # <<>> /\ p < m /\ m < Len(w) - 1 /\ p \in Nat
  BY <1>1, <1>3, <1>4, WordFacts DEF Reading, InBraces
<1>6. /\ \A i \in (p + 2)..(Len(w) - 1) : w[i] # RBRACE
      /\ w[Len(w)] = RBRACE
  BY <1>4, <1>5, WordFacts
<1>7. TagStart(list, sep, k) \in Nat
  BY WrittenFacts DEF InText
<1> HIDE DEF p, w, t
<1>8. char(c) = w[m + 1] /\ char(c + 1) = w[m + 2]
  <2>1. m \in m..(Len(w) - 1) /\ m + 1 \in m..(Len(w) - 1) /\ c + (m - m) = c /\ c + ((m + 1) - m) = c + 1
        /\ (m + 1) + 1 = m + 2
    BY <1>1, <1>4, <1>5
  <2> QED
    BY <1>4, <2>1
<1>9. w[m + 2] = RBRACE <=> ~InBraces(t, m + 1)
  <2>1. CASE m + 2 = Len(w)
    <3>1. ~(m + 1 < Len(w) - 1)
      BY <1>4, <2>1
    <3> QED
      BY <1>6, <2>1, <3>1 DEF InBraces, w
  <2>2. CASE m + 2 # Len(w)
    <3>1. m + 2 \in (p + 2)..(Len(w) - 1) /\ p < m + 1 /\ m + 1 < Len(w) - 1
      BY <1>4, <1>5, <2>2
    <3> QED
      BY <1>5, <1>6, <3>1 DEF InBraces, p, w
  <2> QED
    BY <2>1, <2>2
<1>10. /\ cur_tag' = Append(cur_tag, w[m + 1]) /\ c' = c + 1 /\ res' = res
       /\ state' = IF w[m + 2] = RBRACE THEN "TAG" ELSE "BRACES"
  BY <1>8 DEF Braces, Keep
<1>11. Reading(t, m + 1)'
  <2>1. m < Len(w) /\ (state' = "BRACES" <=> InBraces(t, m + 1))
    BY <1>4, <1>5, <1>9, <1>10
  <2> QED
    BY <1>1, <1>3, <1>4, <1>10, <2>1, KeepReads DEF t, w
<1>12. c' = TagStart(list, sep, k) + (m + 1) /\ m + 1 \in Nat /\ state' # "SEP"
  BY <1>3, <1>7, <1>10
<1>13. InTag(list, sep, k)'
  BY <1>11, <1>12 DEF InTag, t
<1> QED
  BY <1>2, <1>10, <1>13 DEF Progress

LEMMA ParseEndsDenotes ==
  ASSUME NEW list, NEW sep, Spelled(list, sep), TagTypes, ParseEnds, Progress(list, sep)
  PROVE  res' = Denoted(list)
<1>1. c \in Nat /\ c >= Len(text) /\ c <= Len(text) /\ cur_tag \in String
  BY DEF ParseEnds, TagTypes
<1>2. PICK k \in 1..Len(list) :
        res = MeansUpTo(list, k - 1) /\ (BeforeTag(list, sep, k) \/ InTag(list, sep, k))
  BY DEF Progress
<1> DEFINE t == list[k]
           w == WrittenTag(t)
<1>3. /\ t \in WellFormed /\ Len(list) \in Nat \ {0}
      /\ TagStart(list, sep, k) \in Nat /\ TagStop(list, sep, k) \in Nat
      /\ TagStop(list, sep, k) = TagStart(list, sep, k) + Len(w)
      /\ TagStop(list, sep, k) <= Len(text) /\ text \in String
  BY WrittenFacts DEF InText
<1>4. Len(w) \in Nat \ {0} /\ Len(text) \in Nat
  <2>1. Len(w) \in Nat /\ Len(t.prefix) \in Nat \ {0} /\ Len(t.prefix) <= Len(w)
    BY <1>3, WordFacts
  <2> QED
    BY <1>3, <2>1, LenNat
<1>5. c = Len(text)
  BY <1>1, <1>4
<1>6. ~BeforeTag(list, sep, k)
  <2> HIDE DEF w
  <2>1. ~(c <= TagStart(list, sep, k))
    BY <1>3, <1>4, <1>5
  <2> QED
    BY <2>1 DEF BeforeTag
<1>7. PICK m \in Nat : c = TagStart(list, sep, k) + m /\ Reading(list[k], m)
  BY <1>2, <1>6 DEF InTag
<1>8. /\ m <= Len(w)
      /\ \A i \in m..(Len(w) - 1) : c + (i - m) < Len(text)
      /\ m = Len(w) => cur_tag = w /\ (k = Len(list) <=> c = Len(text))
  BY <1>7, InTagFacts
<1> HIDE DEF w, t
<1>9. m = Len(w)
  <2>1. ASSUME m < Len(w)
        PROVE  FALSE
    <3>1. m \in m..(Len(w) - 1) /\ c + (m - m) = c
      BY <1>1, <1>4, <2>1
    <3>2. c + (m - m) < Len(text)
      BY <1>8, <3>1, Zenon
    <3> QED
      BY <1>4, <1>5, <3>1, <3>2
  <2> QED
    BY <1>4, <1>8, <2>1
<1>10. cur_tag = w /\ k = Len(list)
  BY <1>5, <1>8, <1>9
<1>11. cur_tag # <<>>
  BY <1>4, <1>10
<1>12. res' = res \cup (IF has_braces THEN expand_tag_braces(cur_tag) ELSE {cur_tag})
  BY <1>11 DEF ParseEnds, have_tag
<1>13. (IF has_braces THEN expand_tag_braces(cur_tag) ELSE {cur_tag}) = Means(t)
  BY <1>3, <1>10, HaveTagIs DEF TagTypes, w
<1>14. MeansUpTo(list, k - 1) \cup Means(list[k]) = MeansUpTo(list, k)
  BY <1>3, MeansOneMore
<1>15. Denoted(list) = MeansUpTo(list, Len(list))
  <2>1. list \in Seq([prefix : TagText, parts : Seq(TagText)])
    BY TagListsAssumption, Zenon DEF Spelled
  <2> QED
    BY <2>1, DenotedIsMeans
<1> QED
  BY <1>2, <1>10, <1>12, <1>13, <1>14, <1>15, Zenon DEF t

LEMMA KeepTypes ==
  ASSUME TagTypes, LookupInv, found # Nothing, c < Len(text), Keep
  PROVE  /\ cur_tag' \in String /\ c' \in Nat /\ c' <= Len(text)
         /\ ToSet(cur_tag') = ToSet(cur_tag) \cup {char(c)}
<1>1. text \in String /\ Len(text) \in Nat /\ c \in Nat /\ cur_tag \in Seq(Nat)
  BY TextIsString, LenNat DEF TagTypes, String
<1>2. char(c) \in Nat
  <2>1. c + 1 \in 1..Len(text) /\ char(c) = text[c + 1]
    BY <1>1, CharIs
  <2> QED
    BY <1>1, <2>1 DEF String
<1>3. cur_tag' = Append(cur_tag, char(c)) /\ c' = c + 1
  BY DEF Keep
<1>4. c' \in Nat /\ c' <= Len(text)
  BY <1>1, <1>3
<1> QED
  BY <1>1, <1>2, <1>3, <1>4, AppendFacts DEF String

LEMMA EmptyTag == <<>> \in String /\ LBRACE \notin ToSet(<<>>)
BY DEF String, ToSet

LEMMA TagTypesStep == TagTypes /\ LookupInv /\ [Next]_vars => TagTypes'
<1> SUFFICES ASSUME TagTypes, LookupInv, [Next]_vars
             PROVE  TagTypes'
  OBVIOUS
<1>1. CASE Parser
  <2>1. parsing # "run" /\ parsing' = "no" /\ res' = {} /\ UNCHANGED <<c, state, cur_tag, has_braces>>
    BY <1>1 DEF Parser, automaton
  <2> QED
    BY <2>1 DEF TagTypes
<1>2. ASSUME UNCHANGED parserVars
      PROVE  pc' = pc /\ found' = found /\ text' = text
  <2>1. UNCHANGED <<buffer, ends, found, pc>>
    BY <1>2 DEF parserVars, members, search
  <2> QED
    BY <2>1 DEF text, lookup, field, size
<1>3. CASE ParseTags
  <2>1. /\ pc = "ready" /\ found # Nothing /\ parsing = "no"
        /\ parsing' = IF text = <<>> THEN "done" ELSE "run"
        /\ UNCHANGED <<parserVars, c, state, cur_tag, has_braces, res>>
    BY <1>3 DEF ParseTags, automaton
  <2>2. c = 0 /\ 0 <= Len(text) /\ state = "SEP"
    <3>1. Len(text) \in Nat
      BY <2>1, TextIsString, LenNat
    <3> QED
      BY <2>1, <3>1 DEF TagTypes
  <2> QED
    BY <1>2, <2>1, <2>2 DEF TagTypes
<1>4. CASE Sep
  <2>1. /\ parsing = "run" /\ parsing' = parsing /\ c < Len(text) /\ state = "SEP"
        /\ UNCHANGED <<parserVars, cur_tag, has_braces, res>>
        /\ (c' = c + 1 /\ state' = "SEP") \/ (c' = c /\ state' = "TAG")
    BY <1>4 DEF Sep, In
  <2>2. c' \in Nat /\ c' <= Len(text)
    <3>1. Len(text) \in Nat /\ c \in Nat
      BY <2>1, TextIsString, LenNat DEF TagTypes
    <3> QED
      BY <2>1, <3>1
  <2> QED
    BY <1>2, <2>1, <2>2 DEF TagTypes
<1>5. CASE Tag
  <2>1. parsing = "run" /\ parsing' = parsing /\ c < Len(text) /\ state = "TAG" /\ UNCHANGED parserVars
        /\ found # Nothing /\ Len(text) \in Nat /\ c \in Nat
    BY <1>5, TextIsString, LenNat DEF Tag, In, TagTypes
  <2>2. CASE separator(char(c))
    <3>1. cur_tag' = <<>> /\ has_braces' = FALSE /\ c' = c + 1 /\ state' = "SEP"
      BY <1>5, <2>2 DEF Tag, have_tag
    <3>2. c' \in Nat /\ c' <= Len(text)
      BY <2>1, <3>1
    <3> QED
      BY <1>2, <2>1, <3>1, <3>2, EmptyTag DEF TagTypes
  <2>3. CASE ~separator(char(c))
    <3>1. /\ Keep /\ has_braces' = (has_braces \/ char(c) = LBRACE)
          /\ state' = IF char(c) = LBRACE THEN "BRACES" ELSE "TAG"
      BY <1>5, <2>3 DEF Tag
    <3>2. /\ cur_tag' \in String /\ c' \in Nat /\ c' <= Len(text)
          /\ ToSet(cur_tag') = ToSet(cur_tag) \cup {char(c)}
      BY <2>1, <3>1, KeepTypes
    <3>3. has_braces' <=> LBRACE \in ToSet(cur_tag')
      <4>1. has_braces <=> LBRACE \in ToSet(cur_tag)
        BY DEF TagTypes
      <4> QED
        BY <3>1, <3>2, <4>1, Zenon
    <3>4. has_braces' \in BOOLEAN /\ (state' = "BRACES" => has_braces') /\ state' \in {"TAG", "BRACES"}
      <4>1. has_braces \in BOOLEAN
        BY DEF TagTypes
      <4> QED
        BY <3>1, <4>1, Zenon
    <3>5. state' # "SEP"
      BY <3>4
    <3>6. parsing' = "run" /\ pc' = "ready" /\ found' # Nothing /\ text' = text /\ text # <<>>
      BY <1>2, <2>1 DEF TagTypes
    <3> QED
      BY <3>2, <3>3, <3>4, <3>5, <3>6 DEF TagTypes
  <2> QED
    BY <2>2, <2>3
<1>6. CASE Braces
  <2>1. /\ parsing = "run" /\ parsing' = parsing /\ c < Len(text) /\ state = "BRACES" /\ UNCHANGED parserVars
        /\ found # Nothing /\ has_braces' = has_braces /\ has_braces /\ Keep /\ state' \in {"TAG", "BRACES"}
    BY <1>6 DEF Braces, In, TagTypes
  <2>2. /\ cur_tag' \in String /\ c' \in Nat /\ c' <= Len(text)
        /\ ToSet(cur_tag') = ToSet(cur_tag) \cup {char(c)}
    BY <2>1, KeepTypes
  <2>3. has_braces' <=> LBRACE \in ToSet(cur_tag')
    <3>1. has_braces <=> LBRACE \in ToSet(cur_tag)
      BY DEF TagTypes
    <3> QED
      BY <2>1, <2>2, <3>1, Zenon
  <2>4. has_braces' \in BOOLEAN /\ has_braces'
    <3>1. has_braces \in BOOLEAN
      BY DEF TagTypes
    <3> QED
      BY <2>1, <3>1, Zenon
  <2>5. state' # "SEP"
    BY <2>1
  <2>6. parsing' = "run" /\ pc' = "ready" /\ found' # Nothing /\ text' = text /\ text # <<>>
    BY <1>2, <2>1 DEF TagTypes
  <2> QED
    BY <2>1, <2>2, <2>3, <2>4, <2>5, <2>6 DEF TagTypes
<1>7. CASE ParseEnds
  <2>1. /\ parsing' = "done" /\ c' = 0 /\ state' = "SEP"
        /\ cur_tag' = <<>> /\ has_braces' = FALSE
    <3>1. CASE cur_tag # <<>>
      BY <1>7, <3>1 DEF ParseEnds, have_tag
    <3>2. CASE cur_tag = <<>>
      <4>1. has_braces = FALSE
        BY <3>2, EmptyTag DEF TagTypes
      <4> QED
        BY <1>7, <3>2, <4>1 DEF ParseEnds
    <3> QED
      BY <3>1, <3>2
  <2>2. found' # Nothing
    BY <1>2, <1>7 DEF ParseEnds, TagTypes
  <2> QED
    BY <2>1, <2>2, EmptyTag DEF TagTypes
<1>8. CASE UNCHANGED vars
  <2>1. UNCHANGED <<parserVars, parsing, c, state, cur_tag, has_braces, res>>
    BY <1>8 DEF vars, tagVars, automaton
  <2> QED
    BY <1>2, <2>1 DEF TagTypes
<1> QED
  BY <1>1, <1>3, <1>4, <1>5, <1>6, <1>7, <1>8 DEF Next

LEMMA SpelledStep == TagInv /\ LookupInv /\ [Next]_vars => SpelledInv'
<1> SUFFICES ASSUME TagTypes, SpelledInv, LookupInv, [Next]_vars
             PROVE  SpelledInv'
  BY DEF TagInv
<1>1. CASE Parser
  <2>1. parsing' = "no"
    BY <1>1 DEF Parser
  <2> QED
    BY <2>1 DEF SpelledInv
<1>2. CASE ~Parser
  <2>1. UNCHANGED parserVars
    BY <1>2 DEF Next, ParseTags, Sep, Tag, Braces, ParseEnds, In, vars
  <2>2. found' = found /\ text' = text
    <3>1. UNCHANGED <<buffer, ends, found, pc>>
      BY <2>1 DEF parserVars, members, search
    <3> QED
      BY <3>1 DEF text, lookup, field, size
  <2> SUFFICES ASSUME found # Nothing, NEW list \in TagLists, NEW sep \in Separators,
                      text = Written(list, sep)
               PROVE  /\ parsing' = "run" => Progress(list, sep)'
                      /\ parsing' = "done" => res' = Denoted(list)
    BY <2>2, Zenon DEF SpelledInv
  <2>3. /\ parsing = "run" => Progress(list, sep)
        /\ parsing = "done" => res = Denoted(list)
    BY DEF SpelledInv
  <2>4. text # <<>> => Spelled(list, sep)
    BY DEF Spelled
  <2>5. CASE ParseTags
    <3>1. /\ parsing = "no" /\ res = {} /\ res' = res /\ c' = c /\ state' = state /\ c = 0 /\ state = "SEP"
          /\ parsing' = IF text = <<>> THEN "done" ELSE "run"
      BY <2>5 DEF ParseTags, TagTypes, automaton
    <3>2. MeansUpTo(list, 0) = {}
      BY DEF MeansUpTo
    <3>3. CASE text = <<>>
      <4>1. list \in Seq([prefix : TagText, parts : Seq(TagText)])
        BY TagListsAssumption, Zenon
      <4>2. Len(list) = 0
        <5>1. ASSUME list # <<>>
              PROVE  FALSE
          <6>1. Written(list, sep) # <<>>
            BY <5>1, WrittenIsNonempty
          <6> QED
            BY <3>3, <6>1
        <5> QED
          BY <5>1
      <4>3. Denoted(list) = MeansUpTo(list, Len(list))
        BY <4>1, DenotedIsMeans
      <4> QED
        BY <3>1, <3>2, <3>3, <4>2, <4>3
    <3>4. CASE text # <<>>
      <4>1. Spelled(list, sep)
        BY <2>4, <3>4
      <4>2. Len(list) \in Nat \ {0} /\ TagStart(list, sep, 1) = 0
        BY <4>1, WrittenFacts DEF InText
      <4>3. 1 \in 1..Len(list) /\ 1 - 1 = 0
        BY <4>2
      <4>4. res' = MeansUpTo(list, 1 - 1)
        BY <3>1, <3>2, <4>3
      <4>5. BeforeTag(list, sep, 1)'
        BY <3>1, <4>2 DEF BeforeTag
      <4>6. Progress(list, sep)'
        BY <4>3, <4>4, <4>5 DEF Progress
      <4> QED
        BY <3>1, <3>4, <4>6
    <3> QED
      BY <3>3, <3>4
  <2>6. CASE Sep \/ Tag \/ Braces
    <3>1. parsing = "run" /\ parsing' = "run" /\ text # <<>>
      BY <2>6 DEF Sep, Tag, Braces, In, TagTypes
    <3>2. Progress(list, sep)'
      BY <2>3, <2>4, <2>6, <3>1, SepKeepsProgress, TagKeepsProgress, BracesKeepProgress
    <3> QED
      BY <3>1, <3>2
  <2>7. CASE ParseEnds
    <3>1. parsing = "run" /\ parsing' = "done" /\ text # <<>>
      BY <2>7 DEF ParseEnds, TagTypes
    <3>2. res' = Denoted(list)
      BY <2>3, <2>4, <2>7, <3>1, ParseEndsDenotes
    <3> QED
      BY <3>1, <3>2
  <2>8. CASE UNCHANGED vars
    <3>1. UNCHANGED <<parsing, c, state, cur_tag, res>>
      BY <2>8 DEF vars, tagVars, automaton
    <3>2. Progress(list, sep) => Progress(list, sep)'
      BY <3>1 DEF Progress, BeforeTag, InTag, Reading
    <3> QED
      BY <2>3, <3>1, <3>2
  <2> QED
    BY <1>2, <2>5, <2>6, <2>7, <2>8 DEF Next
<1> QED
  BY <1>1, <1>2

LEMMA TagInvariant == Spec => []TagInv
<1>1. Init => TagInv
  <2> SUFFICES ASSUME Init
               PROVE  TagInv
    OBVIOUS
  <2>1. /\ parsing = "no" /\ c = 0 /\ res = {} /\ state = "SEP" /\ cur_tag = <<>> /\ has_braces = FALSE
        /\ found = Nothing
    BY DEF Init, InitParser
  <2>2. TagTypes
    BY <2>1, EmptyTag DEF TagTypes
  <2>3. SpelledInv
    BY <2>1 DEF SpelledInv
  <2> QED
    BY <2>2, <2>3 DEF TagInv
<1>2. TagInv /\ LookupInv /\ [Next]_vars => TagInv'
  BY TagTypesStep, SpelledStep DEF TagInv
<1> QED
  BY <1>1, <1>2, LookupInvariant, PTL DEF Spec

-----------------------------------------------------------------------------
(* The descriptions.                                                       *)

(* Before the first newline of a string, what follows it, and between.     *)
LEMMA FirstNewlineFacts ==
  ASSUME NEW d \in String
  PROVE  /\ firstNewline(d) \in 1..(Len(d) + 1)
         /\ firstNewline(d) <= Len(d) => d[firstNewline(d)] = NL
         /\ firstNewline(d) > Len(d) <=> NL \notin ToSet(d)
         /\ \A i \in 1..(firstNewline(d) - 1) : d[i] # NL
<1> DEFINE T == {i \in DOMAIN d : d[i] = NL} \cup {Len(d) + 1}
<1>1. T \in SUBSET Nat /\ T # {} /\ Len(d) \in Nat /\ DOMAIN d = 1..Len(d)
  BY DEF String
<1>2. firstNewline(d) \in T /\ \A i \in T : firstNewline(d) <= i
  BY <1>1, MinFacts DEF firstNewline
<1>3. firstNewline(d) \in 1..(Len(d) + 1)
  BY <1>1, <1>2
<1>4. ASSUME NEW i \in 1..(firstNewline(d) - 1)
      PROVE  d[i] # NL
  <2>1. i \in DOMAIN d /\ i < firstNewline(d)
    BY <1>1, <1>3
  <2>2. i \notin T
    BY <1>2, <1>3, <2>1
  <2> QED
    BY <2>1, <2>2
<1>5. firstNewline(d) <= Len(d) => d[firstNewline(d)] = NL
  BY <1>1, <1>2
<1>6. firstNewline(d) > Len(d) <=> NL \notin ToSet(d)
  <2>1. ASSUME firstNewline(d) <= Len(d)
        PROVE  NL \in ToSet(d)
    <3>1. firstNewline(d) \in DOMAIN d
      BY <1>1, <1>3, <2>1
    <3> QED
      BY <1>5, <2>1, <3>1 DEF ToSet
  <2>2. ASSUME firstNewline(d) > Len(d)
        PROVE  NL \notin ToSet(d)
    <3>1. \A i \in DOMAIN d : d[i] # NL
      <4>1. \A i \in DOMAIN d : i \in 1..(firstNewline(d) - 1)
        BY <1>1, <1>3, <2>2
      <4> QED
        BY <1>4, <4>1
    <3> QED
      BY <3>1 DEF ToSet
  <2> QED
    BY <1>1, <1>3, <2>1, <2>2
<1> QED
  BY <1>3, <1>4, <1>5, <1>6

LEMMA WholeString == ASSUME NEW d \in String PROVE SubSeq(d, 1, Len(d)) = d
BY DEF String

(* A description that neither begins nor ends with a blank, or that has    *)
(* but one line.                                                           *)
LEMMA DescriptionFacts ==
  ASSUME NEW d \in String,
         d = <<>> \/ NL \notin ToSet(d) \/ (~isspace(d[1]) /\ ~isspace(d[Len(d)]))
  PROVE  DescriptionDivided(d)
<1> DEFINE f == firstNewline(d)
           short == parseShortDescription(<<>>, d)
           long == parseLongDescription(<<>>, d)
           gap == SubSeq(d, Len(short) + 1, Len(d) - Len(long))
<1>1. Len(d) \in Nat /\ DOMAIN d = 1..Len(d)
  BY DEF String
<1>2. /\ f \in 1..(Len(d) + 1) /\ (f > Len(d) <=> NL \notin ToSet(d))
      /\ \A i \in 1..(f - 1) : d[i] # NL
      /\ f <= Len(d) => d[f] = NL
  BY FirstNewlineFacts
<1>3. CASE d = <<>>
  BY <1>3 DEF DescriptionDivided, parseShortDescription, parseLongDescription
<1>4. CASE d # <<>> /\ NL \notin ToSet(d)
  <2>1. f = Len(d) + 1
    BY <1>1, <1>2, <1>4
  <2>2. long = d
    BY <1>1, <1>4, <2>1 DEF parseLongDescription
  <2>3. short = d
    <3>1. short = SubSeq(d, 1, f - 1)
      BY <1>4 DEF parseShortDescription
    <3>2. f - 1 = Len(d)
      BY <1>1, <2>1
    <3> QED
      BY <3>1, <3>2, WholeString
  <2> QED
    BY <1>4, <2>2, <2>3 DEF DescriptionDivided
<1>5. CASE d # <<>> /\ NL \in ToSet(d) /\ ~isspace(d[1]) /\ ~isspace(d[Len(d)])
  <2> DEFINE ink == {i \in (f + 1)..Len(d) : ~isspace(d[i])}
             g == Min(ink \cup {Len(d) + 1})
  <2> HIDE DEF f
  <2>1. isspace(NL)
    BY DEF isspace
  <2>2. Len(d) \in Nat \ {0}
    BY <1>5 DEF String
  <2>3. f > 1 /\ f < Len(d) /\ d[f] = NL /\ f \in Nat
    <3>1. f \in 1..Len(d) /\ d[f] = NL
      <4>1. ~(f > Len(d))
        BY <1>2, <1>5
      <4>2. f \in 1..(Len(d) + 1) /\ Len(d) \in Nat /\ (f <= Len(d) => d[f] = NL)
        BY <1>1, <1>2
      <4>3. f \in 1..Len(d) /\ f <= Len(d)
        BY <4>1, <4>2
      <4> QED
        BY <4>2, <4>3
    <3>2. f # 1 /\ f # Len(d)
      BY <1>5, <2>1, <3>1
    <3> QED
      BY <2>2, <3>1, <3>2
  <2>4. g \in (f + 1)..Len(d) /\ ~isspace(d[g]) /\ \A i \in (f + 1)..(g - 1) : isspace(d[i])
    <3>1. Len(d) \in ink /\ ink \cup {Len(d) + 1} \in SUBSET Nat
      BY <1>5, <2>2, <2>3
    <3>2. g \in ink \cup {Len(d) + 1} /\ \A i \in ink \cup {Len(d) + 1} : g <= i
      <4> HIDE DEF ink
      <4> QED
        BY <3>1, MinFacts
    <3> HIDE DEF g
    <3>3. g <= Len(d)
      BY <3>1, <3>2
    <3>4. g \in ink
      <4>1. g # Len(d) + 1
        BY <2>2, <3>1, <3>2, <3>3
      <4> QED
        BY <3>2, <4>1
    <3>5. g \in (f + 1)..Len(d) /\ ~isspace(d[g])
      BY <3>4
    <3>6. ASSUME NEW i \in (f + 1)..(g - 1)
          PROVE  isspace(d[i])
      <4>1. i \in (f + 1)..Len(d) /\ ~(g <= i)
        BY <2>2, <2>3, <3>5
      <4>2. i \notin ink
        BY <3>2, <4>1
      <4> QED
        BY <4>1, <4>2
    <3> QED
      BY <3>5, <3>6
  <2>5. long = SubSeq(d, g, Len(d))
    <3>1. ~(f > Len(d))
      BY <2>2, <2>3
    <3> QED
      BY <1>5, <3>1 DEF parseLongDescription, f
  <2>6. short = SubSeq(d, 1, f - 1)
    BY <1>5 DEF parseShortDescription, f
  <2> HIDE DEF short, long, ink, g
  <2>7. /\ 1 \in 1..(Len(d) + 1) /\ f - 1 \in 0..Len(d) /\ f \in 1..(Len(d) + 1) /\ g - 1 \in 0..Len(d)
        /\ g \in 1..(Len(d) + 1) /\ Len(d) \in 0..Len(d) /\ 1 <= f - 1 /\ f <= g - 1 /\ g <= Len(d)
        /\ g \in Nat
    BY <2>2, <2>3, <2>4
  <2>8. short \in String /\ Len(short) = f - 1 /\ \A k \in 1..(f - 1) : short[k] = d[k]
    <3>1. /\ short \in String /\ Len(short) = (IF 1 <= f - 1 THEN f - 1 - 1 + 1 ELSE 0)
          /\ \A k \in 1..Len(short) : short[k] = d[1 + k - 1]
      BY <2>6, <2>7, PieceIsString
    <3>2. Len(short) = f - 1
      BY <2>3, <2>7, <3>1
    <3>3. \A k \in 1..(f - 1) : 1 + k - 1 = k
      BY <2>3
    <3> QED
      BY <3>1, <3>2, <3>3
  <2>9. long \in String /\ Len(long) = Len(d) - g + 1 /\ \A k \in 1..Len(long) : long[k] = d[g + k - 1]
    BY <2>5, <2>7, PieceIsString
  <2>10. gap = SubSeq(d, f, g - 1)
    <3>1. Len(short) + 1 = f /\ Len(d) - Len(long) = g - 1
      BY <2>2, <2>3, <2>7, <2>8, <2>9
    <3> QED
      BY <3>1
  <2> HIDE DEF gap
  <2>11. gap \in String /\ Len(gap) = g - 1 - f + 1 /\ \A k \in 1..Len(gap) : gap[k] = d[f + k - 1]
    BY <2>7, <2>10, PieceIsString
  <2>12. Len(gap) = g - f /\ Len(gap) \in Nat \ {0} /\ Len(long) \in Nat \ {0} /\ Len(short) \in Nat \ {0}
    BY <2>2, <2>3, <2>4, <2>7, <2>8, <2>9, <2>11
  <2>13. short # <<>> /\ NL \notin ToSet(short)
    <3>1. DOMAIN short = 1..(f - 1) /\ short # <<>>
      <4>1. short \in Seq(Nat) /\ Len(short) # 0
        BY <2>8, <2>12 DEF String
      <4>2. DOMAIN short = 1..Len(short)
        BY <4>1
      <4>3. short # <<>>
        BY <4>1
      <4> QED
        BY <2>8, <4>2, <4>3
    <3>2. \A k \in 1..(f - 1) : short[k] # NL
      BY <1>2, <2>8 DEF f
    <3> QED
      BY <3>1, <3>2 DEF ToSet
  <2>14. long # <<>> /\ ~isspace(long[1])
    <3>1. 1 \in 1..Len(long) /\ g + 1 - 1 = g
      BY <2>7, <2>12
    <3>2. long[1] = d[g]
      BY <2>9, <3>1
    <3> QED
      BY <2>4, <2>12, <3>2
  <2>15. d = short \o gap \o long
    <3> DEFINE v == short \o gap
               w == v \o long
    <3>1. /\ v \in String /\ Len(v) = Len(short) + Len(gap)
          /\ \A k \in 1..Len(short) : v[k] = short[k]
          /\ \A k \in 1..Len(gap) : v[Len(short) + k] = gap[k]
      BY <2>8, <2>11, CatFacts
    <3> HIDE DEF v
    <3>2. /\ w \in String /\ Len(w) = Len(v) + Len(long)
          /\ \A k \in 1..Len(v) : w[k] = v[k]
          /\ \A k \in 1..Len(long) : w[Len(v) + k] = long[k]
      BY <2>9, <3>1, CatFacts
    <3> HIDE DEF w
    <3>3. Len(v) = g - 1 /\ Len(w) = Len(d)
      BY <2>2, <2>3, <2>7, <2>8, <2>9, <2>12, <3>1, <3>2
    <3>4. ASSUME NEW k \in 1..Len(d)
          PROVE  d[k] = w[k]
      <4>1. CASE k < f
        <5>1. k \in 1..(f - 1) /\ k \in 1..Len(short) /\ k \in 1..Len(v)
          BY <2>3, <2>7, <2>8, <3>3, <4>1
        <5> QED
          BY <2>8, <3>1, <3>2, <5>1
      <4>2. CASE f <= k /\ k < g
        <5>1. /\ k - f + 1 \in 1..Len(gap) /\ k \in 1..Len(v)
              /\ Len(short) + (k - f + 1) = k /\ f + (k - f + 1) - 1 = k
          BY <2>3, <2>7, <2>8, <2>12, <3>3, <4>2
        <5>2. gap[k - f + 1] = d[k] /\ v[k] = gap[k - f + 1]
          BY <2>11, <3>1, <5>1
        <5> QED
          BY <3>2, <5>1, <5>2
      <4>3. CASE g <= k
        <5>1. /\ k - g + 1 \in 1..Len(long) /\ Len(v) + (k - g + 1) = k /\ g + (k - g + 1) - 1 = k
          BY <2>2, <2>7, <2>9, <3>3, <4>3
        <5> QED
          BY <2>9, <3>2, <5>1
      <4> QED
        BY <2>3, <2>7, <4>1, <4>2, <4>3
    <3>5. d = w
      BY <3>2, <3>3, <3>4, SameString
    <3> QED
      BY <3>5 DEF v, w
  <2>16. Head(gap) = NL /\ \A i \in DOMAIN gap : isspace(gap[i])
    <3>1. DOMAIN gap = 1..Len(gap) /\ Head(gap) = gap[1]
      BY <2>11, <2>12 DEF String
    <3>2. 1 \in 1..Len(gap) /\ f + 1 - 1 = f
      BY <2>3, <2>12
    <3>3. gap[1] = NL
      BY <2>3, <2>11, <3>2
    <3>4. ASSUME NEW i \in 1..Len(gap)
          PROVE  isspace(gap[i])
      <4>1. gap[i] = d[f + i - 1]
        BY <2>11
      <4>2. CASE i = 1
        BY <2>1, <3>3, <4>2
      <4>3. CASE i # 1
        <5>1. f + i - 1 \in (f + 1)..(g - 1)
          BY <2>3, <2>7, <2>12, <4>3
        <5> QED
          BY <2>4, <4>1, <5>1
      <4> QED
        BY <4>2, <4>3
    <3> QED
      BY <3>1, <3>3, <3>4
  <2> QED
    BY <1>5, <2>13, <2>14, <2>15, <2>16 DEF DescriptionDivided, short, long, gap
<1> QED
  BY <1>3, <1>4, <1>5

(* The name looked for is on one line, and so is a field without a colon   *)
(* that is all name.                                                       *)
OneLine == NL \notin ToSet(str)

LEMMA OneLineInvariant == Spec => []OneLine
<1>1. NL \notin ToSet(<<>>)
  BY DEF ToSet
<1>2. Init => OneLine
  BY <1>1 DEF Init, InitParser, OneLine
<1>3. OneLine /\ [Next]_vars => OneLine'
  <2> SUFFICES ASSUME OneLine, [Next]_vars
               PROVE  OneLine'
    OBVIOUS
  <2>1. ASSUME NEW s \in Buffers, ScanCall(s)
        PROVE  OneLine'
    BY <1>1, <2>1 DEF ScanCall, NewSearch, OneLine
  <2>2. ASSUME NEW s \in Names, IndexCall(s)
        PROVE  OneLine'
    BY <2>2, NamesOnOneLine DEF IndexCall, NewSearch, OneLine
  <2>3. CASE Scan \/ ScanEnds \/ Sort \/ Search \/ SearchEnds
    <3>1. str' = str
      BY <2>3 DEF Scan, ScanEnds, Sort, Search, SearchEnds, search
    <3> QED
      BY <3>1 DEF OneLine
  <2>4. CASE ~Parser
    <3>1. UNCHANGED parserVars
      BY <2>4 DEF Next, ParseTags, Sep, Tag, Braces, ParseEnds, In, vars
    <3>2. str' = str
      BY <3>1 DEF parserVars, search
    <3> QED
      BY <3>2 DEF OneLine
  <2> QED
    BY <2>1, <2>2, <2>3, <2>4 DEF Parser, ParserStep
<1> QED
  BY <1>2, <1>3, PTL DEF Spec

LEMMA TextIsDivided ==
  ASSUME LookupInv, OneLine, found # Nothing
  PROVE  DescriptionDivided(text)
<1> DEFINE r == field(found)
           s == SubSeq(r, colon(r) + 1, Len(r))
<1>1. text \in String
  BY TextIsString
<1>2. text = IF colon(r) > Len(r) THEN r ELSE trimmed(s)
  BY DEF text, lookup
<1>3. ParserTypes /\ size \in Nat
      /\ (found = size \/ (found \in 0..(size - 1) /\ name(found) = str))
  BY TypeFacts DEF LookupInv, SearchInv, ParserTypes
<1>4. r \in String
  <2>1. CASE found = size
    BY <2>1, <1>3 DEF field, String
  <2>2. CASE found \in 0..(size - 1)
    BY <2>2, <1>3, FieldFacts
  <2> QED
    BY <1>3, <2>1, <2>2
<1>5. Len(r) \in Nat /\ colon(r) \in 1..(Len(r) + 1)
  BY <1>4, ColonFacts, LenNat
<1>6. CASE colon(r) > Len(r)
  <2>1. text = r
    BY <1>2, <1>6
  <2>2. CASE found = size
    <3>1. r = <<>>
      BY <1>3, <2>2 DEF field
    <3> QED
      BY <1>1, <2>1, <3>1, DescriptionFacts
  <2>3. CASE name(found) = str
    <3>1. colon(r) - 1 = Len(r)
      BY <1>5, <1>6
    <3>2. name(found) = SubSeq(r, 1, Len(r))
      BY <3>1 DEF name
    <3>3. str = r
      BY <1>4, <2>3, <3>2, WholeString
    <3> QED
      BY <1>1, <2>1, <3>3, DescriptionFacts DEF OneLine
  <2> QED
    BY <1>3, <2>2, <2>3
<1>7. CASE ~(colon(r) > Len(r))
  <2>1. text = trimmed(s)
    BY <1>2, <1>7
  <2>2. s \in String
    <3>1. colon(r) + 1 \in 1..(Len(r) + 1) /\ Len(r) \in 0..Len(r)
      BY <1>5, <1>7
    <3> QED
      BY <1>4, <3>1, PieceIsString
  <2>3. trimmed(s) # <<>> => ~isspace(trimmed(s)[1]) /\ ~isspace(trimmed(s)[Len(trimmed(s))])
    <3> HIDE DEF s
    <3> QED
      BY <2>2, TrimmedFacts
  <2> HIDE DEF s
  <2>4. text = <<>> \/ (~isspace(text[1]) /\ ~isspace(text[Len(text)]))
    BY <2>1, <2>3
  <2> QED
    BY <1>1, <2>4, DescriptionFacts
<1> QED
  BY <1>6, <1>7

LEMMA TagInvImplies == LookupInv /\ OneLine /\ TagInv => GettersFaithful
<1> SUFFICES ASSUME LookupInv, OneLine, TagInv
             PROVE  GettersFaithful
  OBVIOUS
<1>1. TagTypes /\ SpelledInv
  BY DEF TagInv
<1>2. AutomatonInBounds
  <2>1. ASSUME parsing = "run"
        PROVE  c \in 0..Len(text) /\ text # <<>>
    <3>1. found # Nothing /\ c \in Nat /\ c <= Len(text) /\ text # <<>>
      BY <1>1, <2>1 DEF TagTypes
    <3>2. Len(text) \in Nat
      BY <3>1, TextIsString, LenNat
    <3> QED
      BY <3>1, <3>2
  <2> QED
    BY <1>1, <2>1 DEF AutomatonInBounds, TagTypes
<1>3. ASSUME parsing = "done", NEW list \in TagLists, NEW sep \in Separators, text = Written(list, sep)
      PROVE  res = Denoted(list)
  <2>1. found # Nothing
    BY <1>1, <1>3 DEF TagTypes
  <2> QED
    BY <1>1, <1>3, <2>1, Zenon DEF SpelledInv
<1>4. ASSUME found # Nothing
      PROVE  /\ DescriptionDivided(text)
             /\ parseString(<<Nothing>>, text) = <<Nothing>> <=> text = <<>>
  <2>1. DescriptionDivided(text)
    BY <1>4, TextIsDivided
  <2>2. text # <<Nothing>>
    <3>1. text \in Seq(Nat)
      BY <1>4, TextIsString DEF String
    <3>2. <<Nothing>> \notin Seq(Nat)
      BY DEF Nothing
    <3> QED
      BY <3>1, <3>2
  <2> QED
    BY <2>1, <2>2 DEF parseString
<1> QED
  BY <1>2, <1>3, <1>4 DEF GettersFaithful

(***************************************************************************)
(* For any records, any names on one line and any lists of tags: the       *)
(* getters return what was written.  tag() gives the tags of a list,       *)
(* however they are grouped in braces and separated, never leaves the      *)
(* field, and never expands a tag without a brace                          *)
(* (packagerecord.cc:79-193); a description is divided into its short and  *)
(* its long one (packagerecord.cc:42-67).                                  *)
(***************************************************************************)
THEOREM GettersAreFaithful == Spec => []GettersFaithful
BY LookupInvariant, OneLineInvariant, TagInvariant, TagInvImplies, PTL
=============================================================================

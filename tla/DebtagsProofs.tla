--------------------------- MODULE DebtagsProofs ---------------------------
(***************************************************************************)
(* Proofs about the reader of the tag database and about Debtags, for any  *)
(* characters and any file: the automaton reads each line as what it       *)
(* means, and an object that was loaded holds all of its file.             *)
(***************************************************************************)
EXTENDS Debtags, WellFoundedInduction, TLAPS

-----------------------------------------------------------------------------
(* Characters.                                                             *)

Solid(ch) == ch \in Chars \ (Seps \cup {Blank})

LEMMA CharsApart ==
  /\ Blank \in Chars /\ ":" \in Chars /\ "," \in Chars /\ Newline \in Chars
  /\ Blank \notin Seps /\ Newline \notin Seps /\ Newline # Blank
  /\ EOF \notin Chars /\ NoSep \notin Chars /\ ~Solid(Blank) /\ Seps \subseteq Chars
  /\ \A ch \in Seps : ~Solid(ch)
<1>1. EOF \notin Letters /\ NoSep \notin Letters
  BY LettersAssumption
<1> QED
  BY <1>1 DEF Blank, Seps, Newline, EOF, NoSep, Chars, Solid

-----------------------------------------------------------------------------
(* Pieces of a sequence.                                                   *)

(* s is what stands at f..g in l. *)
SliceOf(s, l, f, g) ==
  /\ s \in Seq(Chars) /\ Len(s) = g - f + 1
  /\ \A i \in 1..Len(s) : s[i] = l[f + i - 1]

LEMMA SliceUnique ==
  ASSUME NEW l, NEW f \in Int, NEW g \in Int, NEW s, NEW t,
         SliceOf(s, l, f, g), SliceOf(t, l, f, g)
  PROVE  s = t
<1>1. Len(s) = Len(t) /\ DOMAIN s = 1..Len(s) /\ DOMAIN t = 1..Len(s) /\ Len(s) \in Nat
  BY DEF SliceOf
<1>2. \A i \in 1..Len(s) : s[i] = t[i]
  BY <1>1 DEF SliceOf
<1>3. s \in [1..Len(s) -> Chars] /\ t \in [1..Len(s) -> Chars]
  BY <1>1 DEF SliceOf
<1> QED
  BY <1>2, <1>3

LEMMA SubSeqIsSlice ==
  ASSUME NEW l \in Seq(Chars), NEW f \in Int, NEW g \in Int, 1 <= f, f <= g + 1, g <= Len(l)
  PROVE  SliceOf(SubSeq(l, f, g), l, f, g)
<1>1. Len(l) \in Nat /\ DOMAIN l = 1..Len(l) /\ \A i \in 1..Len(l) : l[i] \in Chars
  OBVIOUS
<1>2. SubSeq(l, f, g) = [i \in 1..(g - f + 1) |-> l[i + f - 1]]
  OBVIOUS
<1>3. \A i \in 1..(g - f + 1) : i + f - 1 \in 1..Len(l)
  BY <1>1
<1>4. SubSeq(l, f, g) \in Seq(Chars) /\ Len(SubSeq(l, f, g)) = g - f + 1
  BY <1>1, <1>2, <1>3
<1>5. \A i \in 1..(g - f + 1) : SubSeq(l, f, g)[i] = l[f + i - 1]
  BY <1>2
<1> QED
  BY <1>4, <1>5 DEF SliceOf

(* The first character of a piece. *)
LEMMA SliceStart ==
  ASSUME NEW l \in Seq(Chars), NEW f \in 1..Len(l)
  PROVE  SliceOf(<<l[f]>>, l, f, f)
<1>1. Len(<<l[f]>>) = 1 /\ <<l[f]>>[1] = l[f] /\ l[f] \in Chars
  OBVIOUS
<1>2. <<l[f]>> \in Seq(Chars)
  BY <1>1
<1> QED
  BY <1>1, <1>2 DEF SliceOf

LEMMA SliceAppend ==
  ASSUME NEW l \in Seq(Chars), NEW f \in Int, NEW g \in Int, NEW s,
         SliceOf(s, l, f, g), 1 <= f, f <= g + 1, g + 1 <= Len(l)
  PROVE  SliceOf(Append(s, l[g + 1]), l, f, g + 1)
<1>1. s \in Seq(Chars) /\ l[g + 1] \in Chars /\ Len(s) \in Nat /\ Len(s) = g - f + 1
  BY DEF SliceOf
<1> DEFINE t == Append(s, l[g + 1])
<1>2. t \in Seq(Chars) /\ Len(t) = Len(s) + 1
  BY <1>1
<1>3. \A i \in 1..Len(s) : t[i] = s[i]
  BY <1>1
<1>4. t[Len(s) + 1] = l[g + 1]
  BY <1>1
<1> HIDE DEF t
<1>5. \A i \in 1..Len(t) : t[i] = l[f + i - 1]
  <2> SUFFICES ASSUME NEW i \in 1..Len(t) PROVE t[i] = l[f + i - 1]
    OBVIOUS
  <2>1. CASE i = Len(s) + 1
    BY <1>1, <1>4, <2>1
  <2>2. CASE i \in 1..Len(s)
    BY <1>3, <2>2 DEF SliceOf
  <2> QED
    BY <1>1, <1>2, <2>1, <2>2
<1>6. SliceOf(t, l, f, g + 1)
  BY <1>1, <1>2, <1>5 DEF SliceOf
<1> QED
  BY <1>6 DEF t

LEMMA SliceConcat ==
  ASSUME NEW l, NEW f \in Int, NEW g \in Int, NEW h \in Int, NEW s, NEW t,
         SliceOf(s, l, f, g), SliceOf(t, l, g + 1, h), f <= g + 1, g <= h
  PROVE  SliceOf(s \o t, l, f, h)
<1>1. s \in Seq(Chars) /\ t \in Seq(Chars) /\ Len(s) = g - f + 1 /\ Len(t) = h - g
  BY DEF SliceOf
<1> DEFINE u == s \o t
<1>2. u \in Seq(Chars) /\ Len(u) = Len(s) + Len(t)
  BY <1>1
<1>3. \A i \in 1..Len(s) : u[i] = s[i]
  BY <1>1
<1>4. \A i \in (Len(s) + 1)..(Len(s) + Len(t)) : u[i] = t[i - Len(s)]
  BY <1>1
<1> HIDE DEF u
<1>5. \A i \in 1..Len(u) : u[i] = l[f + i - 1]
  <2> SUFFICES ASSUME NEW i \in 1..Len(u) PROVE u[i] = l[f + i - 1]
    OBVIOUS
  <2>1. CASE i \in 1..Len(s)
    BY <1>3, <2>1 DEF SliceOf
  <2>2. CASE i \in (Len(s) + 1)..(Len(s) + Len(t))
    <3>1. i - Len(s) \in 1..Len(t) /\ (g + 1) + (i - Len(s)) - 1 = f + i - 1
      BY <1>1, <2>2
    <3>2. t[i - Len(s)] = l[(g + 1) + (i - Len(s)) - 1]
      BY <3>1 DEF SliceOf
    <3> QED
      BY <1>4, <2>2, <3>1, <3>2
  <2> QED
    BY <1>1, <1>2, <2>1, <2>2
<1>6. SliceOf(u, l, f, h)
  BY <1>1, <1>2, <1>5 DEF SliceOf
<1> QED
  BY <1>6 DEF u

LEMMA LeastNatural ==
  ASSUME NEW T \in SUBSET Nat, T # {}
  PROVE  \E n \in T : \A m \in T : n <= m
<1>1. PICK n \in T : \A m \in T : <<m, n>> \notin OpToRel(<, Nat)
  BY WFMin, NatLessThanWellFounded, Zenon
<1>2. \A m \in T : ~(m < n)
  BY <1>1, Zenon DEF OpToRel
<1> QED
  BY <1>2

-----------------------------------------------------------------------------
(* What is between two cuts.                                               *)

(* The stretch between the cuts b and k of a line. *)
Stretch(l, b, k) == Trim(SubSeq(l, b + 1, k - 1))

(* Blanks around a name are dropped. *)
LEMMA TrimIsWord ==
  ASSUME NEW l \in Seq(Chars), NEW b \in Int, NEW k \in Int, NEW f \in Int, NEW g \in Int,
         0 <= b, b < f, f <= g, g < k, k <= Len(l) + 1,
         \A p \in (b + 1)..(f - 1) : l[p] = Blank,
         \A p \in (g + 1)..(k - 1) : l[p] = Blank,
         Solid(l[f]), Solid(l[g])
  PROVE  SliceOf(Stretch(l, b, k), l, f, g) /\ Stretch(l, b, k) # <<>>
<1> DEFINE s == SubSeq(l, b + 1, k - 1)
           solid == {p \in DOMAIN s : s[p] # Blank}
           x == f - b
           y == g - b
<1>1. SliceOf(s, l, b + 1, k - 1)
  BY SubSeqIsSlice
<1>2. s \in Seq(Chars) /\ Len(s) = k - 1 - b /\ DOMAIN s = 1..Len(s)
  BY <1>1 DEF SliceOf
<1>3. \A p \in 1..Len(s) : s[p] = l[b + p]
  <2>1. \A p \in 1..Len(s) : s[p] = l[b + 1 + p - 1] /\ b + 1 + p - 1 = b + p
    BY <1>1, <1>2 DEF SliceOf
  <2> QED
    BY <2>1
<1> HIDE DEF s
<1>4. x \in solid /\ y \in solid
  <2>1. x \in 1..Len(s) /\ y \in 1..Len(s) /\ b + x = f /\ b + y = g
    BY <1>2
  <2>2. s[x] = l[f] /\ s[y] = l[g]
    BY <1>3, <2>1
  <2>3. l[f] # Blank /\ l[g] # Blank
    BY CharsApart
  <2> QED
    BY <1>2, <2>1, <2>2, <2>3
<1>5. \A p \in solid : x <= p /\ p <= y
  <2> SUFFICES ASSUME NEW p \in 1..Len(s), s[p] # Blank PROVE x <= p /\ p <= y
    BY <1>2
  <2>1. b + p \in (b + 1)..(k - 1) /\ l[b + p] # Blank
    BY <1>2, <1>3
  <2>2. ~(b + p <= f - 1) /\ ~(b + p >= g + 1)
    BY <2>1
  <2> QED
    BY <2>1, <2>2
<1>6. solid \subseteq Int /\ x \in Int /\ y \in Int
  BY <1>2
<1> DEFINE first == CHOOSE p \in solid : \A q \in solid : p <= q
           last == CHOOSE p \in solid : \A q \in solid : q <= p
<1>7. Trim(s) = IF solid = {} THEN <<>> ELSE SubSeq(s, first, last)
  BY DEF Trim
<1> HIDE DEF solid
<1>8. first = x
  <2>1. first \in solid /\ \A q \in solid : first <= q
    BY <1>4, <1>5
  <2> HIDE DEF first
  <2> QED
    BY <1>4, <1>5, <1>6, <2>1
<1>9. last = y
  <2>1. last \in solid /\ \A q \in solid : q <= last
    BY <1>4, <1>5
  <2> HIDE DEF last
  <2> QED
    BY <1>4, <1>5, <1>6, <2>1
<1>10. Stretch(l, b, k) = SubSeq(s, x, y)
  BY <1>4, <1>7, <1>8, <1>9 DEF Stretch, s
<1>11. SliceOf(SubSeq(s, x, y), s, x, y)
  BY <1>2, SubSeqIsSlice
<1> DEFINE w == SubSeq(s, x, y)
<1> HIDE DEF w
<1>12. w \in Seq(Chars) /\ Len(w) = g - f + 1
  BY <1>11 DEF SliceOf, w
<1>13. \A i \in 1..Len(w) : w[i] = l[f + i - 1]
  <2> SUFFICES ASSUME NEW i \in 1..Len(w) PROVE w[i] = l[f + i - 1]
    OBVIOUS
  <2>1. w[i] = s[x + i - 1]
    BY <1>11 DEF SliceOf, w
  <2>2. x + i - 1 \in 1..Len(s) /\ b + (x + i - 1) = f + i - 1
    BY <1>2, <1>12
  <2>3. s[x + i - 1] = l[b + (x + i - 1)]
    BY <1>3, <2>2
  <2> QED
    BY <2>1, <2>2, <2>3
<1>14. SliceOf(w, l, f, g) /\ w # <<>>
  BY <1>12, <1>13 DEF SliceOf
<1> QED
  BY <1>10, <1>14 DEF w

LEMMA TrimOfBlanks ==
  ASSUME NEW l \in Seq(Chars), NEW b \in Int, NEW k \in Int,
         0 <= b, b < k, k <= Len(l) + 1,
         \A p \in (b + 1)..(k - 1) : l[p] = Blank
  PROVE  Stretch(l, b, k) = <<>>
<1> DEFINE s == SubSeq(l, b + 1, k - 1)
<1>1. SliceOf(s, l, b + 1, k - 1)
  BY SubSeqIsSlice
<1>2. Len(s) = k - 1 - b /\ DOMAIN s = 1..Len(s)
  BY <1>1 DEF SliceOf
<1>3. \A p \in 1..Len(s) : s[p] = l[b + 1 + p - 1] /\ b + 1 + p - 1 \in (b + 1)..(k - 1)
  BY <1>1, <1>2 DEF SliceOf
<1>4. {p \in DOMAIN s : s[p] # Blank} = {}
  BY <1>2, <1>3
<1> QED
  BY <1>4 DEF Stretch, Trim

LEMMA CutFacts ==
  ASSUME NEW l \in Seq(Chars)
  PROVE  /\ Cuts(l) \subseteq 0..(Len(l) + 1) /\ 0 \in Cuts(l) /\ Len(l) + 1 \in Cuts(l)
         /\ \A p \in 1..Len(l) : p \in Cuts(l) <=> Cut(l, p)
         /\ \A p \in 1..Len(l) : Cut(l, p) => l[p] \in Seps
         /\ Len(l) \in Nat /\ DOMAIN l = 1..Len(l)
<1>1. Len(l) \in Nat /\ DOMAIN l = 1..Len(l)
  OBVIOUS
<1> QED
  BY <1>1 DEF Cuts, Cut, IsSep

Neighbours(l, b, k) == b < k /\ \A r \in Cuts(l) : ~(b < r /\ r < k)

LEMMA NamesAre ==
  ASSUME NEW l \in Seq(Chars), NEW from \in Int, NEW to \in Int, NEW x
  PROVE  x \in Names(l, from, to) <=>
           /\ x # <<>>
           /\ \E b, k \in Cuts(l) :
                from <= b /\ k <= to /\ Neighbours(l, b, k) /\ x = Stretch(l, b, k)
<1> DEFINE Q == { q \in Cuts(l) \X Cuts(l) :
                    /\ from <= q[1] /\ q[1] < q[2] /\ q[2] <= to
                    /\ \A r \in Cuts(l) : ~(q[1] < r /\ r < q[2]) }
<1>1. Names(l, from, to) = {Trim(SubSeq(l, p[1] + 1, p[2] - 1)) : p \in Q} \ {<<>>}
  BY DEF Names
<1>2. x \in Names(l, from, to) <=> x # <<>> /\ \E p \in Q : x = Stretch(l, p[1], p[2])
  BY <1>1 DEF Stretch
<1>3. ASSUME NEW p \in Q
      PROVE  /\ p[1] \in Cuts(l) /\ p[2] \in Cuts(l) /\ from <= p[1] /\ p[2] <= to
             /\ Neighbours(l, p[1], p[2])
  BY DEF Neighbours
<1>4. ASSUME NEW b \in Cuts(l), NEW k \in Cuts(l), from <= b, k <= to, Neighbours(l, b, k)
      PROVE  <<b, k>> \in Q /\ <<b, k>>[1] = b /\ <<b, k>>[2] = k
  BY <1>4 DEF Neighbours
<1> HIDE DEF Q
<1>5. ASSUME NEW p \in Q, x = Stretch(l, p[1], p[2])
      PROVE  \E b, k \in Cuts(l) :
               from <= b /\ k <= to /\ Neighbours(l, b, k) /\ x = Stretch(l, b, k)
  BY <1>3, <1>5, Zenon
<1>6. ASSUME NEW b \in Cuts(l), NEW k \in Cuts(l), from <= b, k <= to, Neighbours(l, b, k),
             x = Stretch(l, b, k)
      PROVE  \E p \in Q : x = Stretch(l, p[1], p[2])
  <2>1. <<b, k>> \in Q /\ <<b, k>>[1] = b /\ <<b, k>>[2] = k
    BY <1>4, <1>6
  <2>2. x = Stretch(l, <<b, k>>[1], <<b, k>>[2])
    BY <1>6, <2>1, Zenon
  <2> QED
    BY <2>1, <2>2, Zenon
<1> QED
  BY <1>2, <1>5, <1>6, Zenon

(* The names before the next cut are those before this one and the element *)
(* between them.                                                           *)
LEMMA NamesExtend ==
  ASSUME NEW l \in Seq(Chars), NEW from \in Int, NEW b \in Cuts(l), NEW k \in Cuts(l),
         from <= b, Neighbours(l, b, k)
  PROVE  Names(l, from, k) = Names(l, from, b) \cup ({Stretch(l, b, k)} \ {<<>>})
<1>0. b \in Int /\ k \in Int /\ Cuts(l) \subseteq Int /\ b < k
  BY CutFacts DEF Neighbours
<1>1. ASSUME NEW u \in Cuts(l), NEW v \in Cuts(l), v <= k, Neighbours(l, u, v), ~(v <= b)
      PROVE  u = b /\ v = k
  <2>1. ~(b < v /\ v < k)
    BY DEF Neighbours
  <2>2. v = k
    BY <1>0, <1>1, <2>1
  <2>3. ~(u < b /\ b < v)
    BY <1>1 DEF Neighbours
  <2>4. ~(b < u /\ u < k)
    BY DEF Neighbours
  <2>5. u < v
    BY <1>1 DEF Neighbours
  <2> QED
    BY <1>0, <2>2, <2>3, <2>4, <2>5
<1>2. ASSUME NEW x
      PROVE  x \in Names(l, from, k) <=> x \in Names(l, from, b) \/ (x # <<>> /\ x = Stretch(l, b, k))
  <2>1. x \in Names(l, from, k) <=>
          /\ x # <<>>
          /\ \E u, v \in Cuts(l) :
               from <= u /\ v <= k /\ Neighbours(l, u, v) /\ x = Stretch(l, u, v)
    BY <1>0, NamesAre
  <2>2. x \in Names(l, from, b) <=>
          /\ x # <<>>
          /\ \E u, v \in Cuts(l) :
               from <= u /\ v <= b /\ Neighbours(l, u, v) /\ x = Stretch(l, u, v)
    BY <1>0, NamesAre
  <2>3. ASSUME NEW u \in Cuts(l), NEW v \in Cuts(l), v <= b PROVE v <= k
    BY <1>0, <2>3
  <2>4. k <= k
    BY <1>0
  <2> QED
    BY <1>1, <2>1, <2>2, <2>3, <2>4, Zenon
<1> DEFINE A == Names(l, from, k)
           B == Names(l, from, b)
           y == Stretch(l, b, k)
<1>3. \A x : x \in A <=> x \in B \/ (x # <<>> /\ x = y)
  BY <1>2
<1> HIDE DEF A, B, y
<1>4. A = B \cup ({y} \ {<<>>})
  BY <1>3
<1> QED
  BY <1>4 DEF A, B, y

LEMMA NamesNone ==
  ASSUME NEW l \in Seq(Chars), NEW from \in Int
  PROVE  Names(l, from, from) = {}
<1>1. ASSUME NEW u \in Cuts(l), NEW v \in Cuts(l), from <= u, v <= from, Neighbours(l, u, v)
      PROVE  FALSE
  BY <1>1, CutFacts DEF Neighbours
<1>2. ASSUME NEW x PROVE x \notin Names(l, from, from)
  BY <1>1, NamesAre, Zenon
<1> QED
  BY <1>2

(* Behind a cut with nothing but blanks and cuts after it are no names. *)
Bare(l, k) == \A p \in (k + 1)..Len(l) : l[p] = Blank \/ Cut(l, p)

LEMMA NamesTail ==
  ASSUME NEW l \in Seq(Chars), NEW from \in Int, NEW k \in Cuts(l), from <= k, Bare(l, k)
  PROVE  Names(l, from, Len(l) + 1) = Names(l, from, k)
<1>0. Cuts(l) \subseteq 0..(Len(l) + 1) /\ Len(l) \in Nat
  BY CutFacts
<1>1. ASSUME NEW u \in Cuts(l), NEW v \in Cuts(l), Neighbours(l, u, v), k <= u
      PROVE  Stretch(l, u, v) = <<>>
  <2>1. \A p \in (u + 1)..(v - 1) : l[p] = Blank
    <3> SUFFICES ASSUME NEW p \in (u + 1)..(v - 1) PROVE l[p] = Blank
      OBVIOUS
    <3>1. p \in 1..Len(l) /\ p \in (k + 1)..Len(l) /\ u < p /\ p < v
      BY <1>0, <1>1
    <3>2. p \notin Cuts(l)
      BY <1>1, <3>1 DEF Neighbours
    <3> QED
      BY <3>1, <3>2, CutFacts DEF Bare
  <2>2. 0 <= u /\ u < v /\ v <= Len(l) + 1 /\ u \in Int /\ v \in Int
    BY <1>0, <1>1 DEF Neighbours
  <2> QED
    BY <2>1, <2>2, TrimOfBlanks
<1>2. ASSUME NEW u \in Cuts(l), NEW v \in Cuts(l), Neighbours(l, u, v), ~(v <= k)
      PROVE  k <= u
  BY <1>0, <1>2 DEF Neighbours
<1>3. ASSUME NEW x PROVE x \in Names(l, from, Len(l) + 1) <=> x \in Names(l, from, k)
  <2>1. x \in Names(l, from, Len(l) + 1) <=>
          /\ x # <<>>
          /\ \E u, v \in Cuts(l) : from <= u /\ v <= Len(l) + 1 /\ Neighbours(l, u, v)
                                   /\ x = Stretch(l, u, v)
    BY <1>0, NamesAre
  <2>2. x \in Names(l, from, k) <=>
          /\ x # <<>>
          /\ \E u, v \in Cuts(l) : from <= u /\ v <= k /\ Neighbours(l, u, v)
                                   /\ x = Stretch(l, u, v)
    BY <1>0, NamesAre
  <2>3. \A v \in Cuts(l) : v <= Len(l) + 1
    BY <1>0
  <2> QED
    BY <1>1, <1>2, <2>1, <2>2, <2>3, Zenon
<1> QED
  BY <1>3, Zenon

-----------------------------------------------------------------------------
(* The invariant.                                                          *)

(* The line of file f that begins at s ends before e. *)
EndsAt(f, s, e) ==
  /\ s <= e /\ e <= Len(f) + 1
  /\ e <= Len(f) => f[e] = Newline
  /\ \A p \in s..(e - 1) : f[p] # Newline

(* Behind the cut b of line l stands a name, from f to g. *)
Word(l, b, f, g) ==
  /\ \A p \in (b + 1)..(f - 1) : l[p] = Blank
  /\ Solid(l[f]) /\ Solid(l[g])
  /\ \A p \in f..g : ~Cut(l, p)

(* What the automaton knows after n characters of line l, of which those   *)
(* behind the cut b belong to the current element.                         *)
InSpace(l, n, b) ==
  /\ lex = "LSPACE" /\ item = <<>> /\ sep = <<>> /\ sepchar = NoSep
  /\ \A p \in (b + 1)..n : l[p] = Blank

InItem(l, n, g) == lex = "ITEM" /\ g = n /\ sep = <<>> /\ sepchar = NoSep

InISpace(l, n, g) ==
  /\ lex = "ISPACE" /\ g < n /\ sepchar = NoSep
  /\ SliceOf(sep, l, g + 1, n)
  /\ \A p \in (g + 1)..n : l[p] = Blank

InISep(l, n, g) ==
  /\ lex = "ISEP" /\ g < n /\ sepchar = l[g + 1]
  /\ SliceOf(sep, l, g + 1, n)
  /\ \A p \in (g + 1)..n : l[p] \in Seps

(* The cut k ends the element. *)
InTSpace(l, n, g) ==
  /\ lex = "TSPACE"
  /\ \E k \in (g + 1)..n :
       /\ Cut(l, k) /\ sepchar = l[k]
       /\ \A p \in (g + 1)..n : p # k => l[p] = Blank

InWord(l, n, b) ==
  \E f \in (b + 1)..n : \E g \in f..n :
    /\ Word(l, b, f, g) /\ SliceOf(item, l, f, g)
    /\ InItem(l, n, g) \/ InISpace(l, n, g) \/ InISep(l, n, g) \/ InTSpace(l, n, g)

(* The names collected from the elements before the cut b. *)
OnlyItems(l, b) ==
  /\ state = "ITEMS" /\ tagset = {} /\ itemset = Names(l, 0, b)
  /\ \A p \in 1..b : Cut(l, p) => l[p] # ":"

WithTags(l, b) ==
  /\ state = "TAGS" /\ itemset # {}
  /\ \E d \in 1..b :
       /\ Cut(l, d) /\ l[d] = ":"
       /\ \A p \in 1..(d - 1) : Cut(l, p) => l[p] # ":"
       /\ itemset = Names(l, 0, d) /\ tagset = Names(l, d, b)

Read(l, n) ==
  \E b \in 0..n :
    /\ b \in Cuts(l)
    /\ InSpace(l, n, b) \/ InWord(l, n, b)
    /\ OnlyItems(l, b) \/ WithTags(l, b)

LineInv ==
  pc # "done" =>
    \E e \in start..(Len(file) + 1) :
      /\ EndsAt(file, start, e) /\ pos <= e
      /\ Read(SubSeq(file, start, e - 1), pos - start)

Ends(f) == {p \in DOMAIN f : f[p] = Newline} \cup {0, Len(f) + 1}

(* At the beginning of a line. *)
AtLineStart ==
  /\ pos = start /\ lex = "LSPACE" /\ item = <<>> /\ sep = <<>> /\ sepchar = NoSep
  /\ state = "ITEMS" /\ itemset = {} /\ tagset = {}

ParserTypes ==
  /\ file \in Seq(Chars)
  /\ start \in Nat /\ pos \in Nat /\ 1 <= start /\ start <= pos
  /\ start - 1 \in Ends(file)
  /\ pc \in {"run", "done", "thrown"}
  /\ pc = "done" => start = Len(file) + 2 /\ AtLineStart

ContentInv == rel = UNION {Meaning(l) : l \in LinesBefore(file, start)}

ParserInv == ParserTypes /\ LineInv /\ ContentInv

-----------------------------------------------------------------------------
(* One character of a line.                                                *)

LEMMA NoCut ==
  ASSUME NEW l \in Seq(Chars), NEW p \in 1..Len(l), l[p] = Blank \/ Solid(l[p])
  PROVE  ~Cut(l, p)
BY CutFacts, CharsApart DEF Solid

(* A word behind a cut, and the cut that ends it: the name between them is *)
(* the word.                                                               *)
LEMMA ElementNames ==
  ASSUME NEW l \in Seq(Chars), NEW b \in Cuts(l), NEW f \in Int, NEW g \in Int,
         NEW k \in Cuts(l), NEW s, b < f, f <= g, g < k,
         Word(l, b, f, g), SliceOf(s, l, f, g),
         \A p \in (g + 1)..(k - 1) : l[p] = Blank
  PROVE  /\ s # <<>> /\ Neighbours(l, b, k)
         /\ \A from \in Int : from <= b => Names(l, from, k) = Names(l, from, b) \cup {s}
<1>0. Cuts(l) \subseteq 0..(Len(l) + 1) /\ Len(l) \in Nat /\ b \in Int /\ k \in Int
  BY CutFacts
<1>1. ASSUME NEW r \in Cuts(l), b < r, r < k PROVE FALSE
  <2>1. r \in 1..Len(l) /\ Cut(l, r)
    BY <1>0, <1>1, CutFacts
  <2>2. CASE r \in (b + 1)..(f - 1)
    BY <2>1, <2>2, NoCut DEF Word
  <2>3. CASE r \in f..g
    BY <2>1, <2>3 DEF Word
  <2>4. CASE r \in (g + 1)..(k - 1)
    BY <2>1, <2>4, NoCut
  <2> QED
    BY <1>0, <1>1, <2>2, <2>3, <2>4
<1>2. Neighbours(l, b, k)
  BY <1>0, <1>1 DEF Neighbours
<1>3. SliceOf(Stretch(l, b, k), l, f, g) /\ Stretch(l, b, k) # <<>>
  <2>1. 0 <= b /\ k <= Len(l) + 1
    BY <1>0
  <2> QED
    BY <1>0, <2>1, TrimIsWord DEF Word
<1>4. Stretch(l, b, k) = s
  BY <1>3, SliceUnique
<1>5. ASSUME NEW from \in Int, from <= b
      PROVE  Names(l, from, k) = Names(l, from, b) \cup ({s} \ {<<>>})
  BY <1>2, <1>4, <1>5, NamesExtend
<1>6. {s} \ {<<>>} = {s}
  BY <1>3, <1>4
<1> QED
  BY <1>2, <1>3, <1>4, <1>5, <1>6

(* What a step within a line leaves alone. *)
Kept == UNCHANGED <<file, rel, pc, start>>

(* The element goes on after the next character. *)
GoesOn(l, n) == Kept /\ pos' = pos + 1 /\ Read(l, n + 1)'

Collected(l, b) == OnlyItems(l, b) \/ WithTags(l, b)

LEMMA CollectedStays ==
  ASSUME NEW l, NEW b, Collected(l, b), UNCHANGED line
  PROVE  Collected(l, b)'
BY DEF Collected, OnlyItems, WithTags, line

(* It goes on with the same cut behind it. *)
LEMMA SameElement ==
  ASSUME NEW l, NEW n \in Nat, NEW b \in 0..n, b \in Cuts(l), Collected(l, b),
         NEW s, NEW i, NEW sp, NEW sc, Goto(s, i, sp, sc),
         InSpace(l, n + 1, b)' \/ InWord(l, n + 1, b)'
  PROVE  GoesOn(l, n)
<1>1. UNCHANGED <<file, line, rel, known, pc, start>> /\ pos' = pos + 1
  BY DEF Goto
<1>2. Collected(l, b)'
  BY <1>1, CollectedStays
<1>3. b \in 0..(n + 1)
  OBVIOUS
<1>4. Read(l, n + 1)'
  BY <1>2, <1>3 DEF Read, Collected
<1> QED
  BY <1>1, <1>4 DEF GoesOn, Kept

LEMMA LSpaceStep ==
  ASSUME NEW l \in Seq(Chars), NEW n \in Nat, n < Len(l), c = l[n + 1],
         NEW b \in 0..n, b \in Cuts(l), Collected(l, b), InSpace(l, n, b), LSpace
  PROVE  Throw \/ GoesOn(l, n)
<1>0. c \in Chars /\ n + 1 \in 1..Len(l)
  OBVIOUS
<1>1. CASE c = Blank
  <2>1. Goto("LSPACE", item, sep, sepchar)
    BY <1>1 DEF LSpace
  <2>2. InSpace(l, n + 1, b)'
    <3>1. ASSUME NEW p \in (b + 1)..(n + 1) PROVE l[p] = Blank
      <4>1. p = n + 1 \/ p \in (b + 1)..n
        OBVIOUS
      <4> QED
        BY <1>1, <4>1 DEF InSpace
    <3> QED
      BY <2>1, <3>1 DEF InSpace, Goto
  <2> QED
    BY <2>1, <2>2, SameElement
<1>2. CASE c \in Seps
  BY <1>2, CharsApart DEF LSpace
<1>3. CASE Solid(c)
  <2>1. Goto("ITEM", Append(item, c), sep, sepchar)
    BY <1>3, CharsApart DEF LSpace, Solid
  <2> DEFINE f == n + 1
  <2>2. Word(l, b, f, f)
    <3>1. \A p \in (b + 1)..(f - 1) : l[p] = Blank
      BY DEF InSpace
    <3>2. \A p \in f..f : ~Cut(l, p)
      BY <1>0, <1>3, NoCut
    <3> QED
      BY <1>3, <3>1, <3>2 DEF Word
  <2>3. SliceOf(item', l, f, f)
    <3>1. Append(item, c) = <<l[f]>>
      BY DEF InSpace
    <3>2. item' = <<l[f]>>
      BY <2>1, <3>1 DEF Goto
    <3> QED
      BY <1>0, <3>2, SliceStart
  <2>4. InItem(l, n + 1, f)'
    BY <2>1 DEF InItem, InSpace, Goto
  <2>5. f \in (b + 1)..(n + 1) /\ f \in f..(n + 1)
    OBVIOUS
  <2> HIDE DEF f
  <2>6. InWord(l, n + 1, b)'
    BY <2>2, <2>3, <2>4, <2>5 DEF InWord
  <2> QED
    BY <2>1, <2>6, SameElement
<1> QED
  BY <1>0, <1>1, <1>2, <1>3 DEF Solid

(* A word behind the cut b, as far as n. *)
WordRead(l, n, b, f, g) ==
  /\ f \in (b + 1)..n /\ g \in f..n
  /\ Word(l, b, f, g) /\ SliceOf(item, l, f, g)

LEMMA ItemStep ==
  ASSUME NEW l \in Seq(Chars), NEW n \in Nat, n < Len(l), c = l[n + 1],
         NEW b \in 0..n, b \in Cuts(l), Collected(l, b),
         NEW f \in Int, NEW g \in Int, WordRead(l, n, b, f, g), InItem(l, n, g), Item
  PROVE  Throw \/ GoesOn(l, n)
<1>0. c \in Chars /\ n + 1 \in 1..Len(l)
  OBVIOUS
<1>1. f \in (b + 1)..n /\ g = n /\ sep = <<>> /\ sepchar = NoSep /\ g \in f..n
  BY DEF WordRead, InItem
<1>2. Append(sep, c) = <<l[n + 1]>>
  BY <1>1
<1>3. SliceOf(Append(sep, c), l, g + 1, n + 1)
  BY <1>0, <1>1, <1>2, SliceStart
<1>4. CASE c = Blank \/ c \in Seps
  <2>1. \E s, sc : Goto(s, item, Append(sep, c), sc)
    BY <1>4 DEF Item
  <2>2. item' = item /\ sep' = Append(sep, c)
    BY <2>1 DEF Goto
  <2>3. SliceOf(item, l, f, g)' /\ SliceOf(sep, l, g + 1, n + 1)'
    BY <1>3, <2>2 DEF WordRead, SliceOf
  <2>4. InISpace(l, n + 1, g)' \/ InISep(l, n + 1, g)'
    <3>1. CASE c = Blank
      <4>1. Goto("ISPACE", item, Append(sep, c), sepchar)
        BY <3>1 DEF Item
      <4>2. ASSUME NEW p \in (g + 1)..(n + 1) PROVE l[p] = Blank
        <5>1. p = n + 1
          BY <1>1
        <5> QED
          BY <3>1, <5>1
      <4> QED
        BY <1>1, <2>3, <4>1, <4>2 DEF InISpace, Goto
    <3>2. CASE c \in Seps
      <4>1. Goto("ISEP", item, Append(sep, c), c)
        BY <3>2, CharsApart DEF Item
      <4>2. ASSUME NEW p \in (g + 1)..(n + 1) PROVE l[p] \in Seps
        <5>1. p = n + 1
          BY <1>1
        <5> QED
          BY <3>2, <5>1
      <4>3. sepchar' = l[g + 1]
        BY <1>1, <4>1 DEF Goto
      <4> QED
        BY <1>1, <2>3, <4>1, <4>2, <4>3 DEF InISep, Goto
    <3> QED
      BY <1>4, <3>1, <3>2
  <2>5. f \in (b + 1)..(n + 1) /\ g \in f..(n + 1) /\ Word(l, b, f, g)
    BY <1>1 DEF WordRead
  <2>6. InWord(l, n + 1, b)'
    BY <2>3, <2>4, <2>5 DEF InWord
  <2> QED
    BY <2>1, <2>6, SameElement
<1>5. CASE Solid(c)
  <2>1. Goto("ITEM", Append(item, c), sep, sepchar)
    BY <1>5, CharsApart DEF Item, Solid
  <2> DEFINE h == n + 1
  <2>2. Word(l, b, f, h)
    <3>1. ASSUME NEW p \in f..h PROVE ~Cut(l, p)
      <4>1. p = h \/ p \in f..g
        BY <1>1
      <4> QED
        BY <1>0, <1>5, <4>1, NoCut DEF WordRead, Word
    <3> QED
      BY <1>5, <3>1 DEF WordRead, Word
  <2>3. SliceOf(item, l, f, h)'
    <3>1. SliceOf(Append(item, l[g + 1]), l, f, g + 1)
      BY <1>0, <1>1, SliceAppend DEF WordRead
    <3> QED
      BY <1>1, <2>1, <3>1 DEF Goto, SliceOf
  <2>4. InItem(l, n + 1, h)'
    BY <1>1, <2>1 DEF InItem, Goto
  <2>5. f \in (b + 1)..(n + 1) /\ h \in f..(n + 1)
    BY <1>1
  <2> HIDE DEF h
  <2>6. InWord(l, n + 1, b)'
    BY <2>2, <2>3, <2>4, <2>5 DEF InWord
  <2> QED
    BY <2>1, <2>6, SameElement
<1> QED
  BY <1>0, <1>4, <1>5 DEF Solid

(* The item takes the blanks or separators after it, for a letter follows. *)
LEMMA Joined ==
  ASSUME NEW l \in Seq(Chars), NEW n \in Nat, n < Len(l), c = l[n + 1], Solid(c),
         NEW b \in 0..n, b \in Cuts(l), Collected(l, b),
         NEW f \in Int, NEW g \in Int, WordRead(l, n, b, f, g), g < n,
         SliceOf(sep, l, g + 1, n), \A p \in (g + 1)..n : ~Cut(l, p),
         Goto("ITEM", item \o sep \o <<c>>, <<>>, NoSep)
  PROVE  GoesOn(l, n)
<1>0. c \in Chars /\ n + 1 \in 1..Len(l)
  OBVIOUS
<1>1. f \in (b + 1)..n /\ g \in f..n
  BY DEF WordRead
<1> DEFINE h == n + 1
<1>2. Word(l, b, f, h)
  <2>1. ASSUME NEW p \in f..h PROVE ~Cut(l, p)
    <3>1. p = h \/ p \in f..g \/ p \in (g + 1)..n
      BY <1>1
    <3> QED
      BY <1>0, <3>1, NoCut DEF WordRead, Word
  <2> QED
    BY <2>1 DEF WordRead, Word
<1>3. SliceOf(item, l, f, h)'
  <2>1. SliceOf(item \o sep, l, f, n)
    BY <1>1, SliceConcat DEF WordRead
  <2>2. SliceOf(<<c>>, l, n + 1, n + 1)
    BY <1>0, SliceStart
  <2>3. SliceOf((item \o sep) \o <<c>>, l, f, n + 1)
    BY <1>1, <2>1, <2>2, SliceConcat
  <2> QED
    BY <2>3 DEF Goto, SliceOf
<1>4. InItem(l, n + 1, h)'
  BY DEF InItem, Goto
<1>5. f \in (b + 1)..(n + 1) /\ h \in f..(n + 1)
  BY <1>1
<1> HIDE DEF h
<1>6. InWord(l, n + 1, b)'
  BY <1>2, <1>3, <1>4, <1>5 DEF InWord
<1> QED
  BY <1>6, SameElement

(* The same word with more after it. *)
LEMMA SameWord ==
  ASSUME NEW l \in Seq(Chars), NEW n \in Nat,
         NEW b \in 0..n, b \in Cuts(l), Collected(l, b),
         NEW f \in Int, NEW g \in Int, WordRead(l, n, b, f, g),
         NEW s, NEW sp, NEW sc, Goto(s, item, sp, sc),
         InISpace(l, n + 1, g)' \/ InISep(l, n + 1, g)' \/ InTSpace(l, n + 1, g)'
  PROVE  GoesOn(l, n)
<1>1. item' = item
  BY DEF Goto
<1>2. SliceOf(item, l, f, g)' /\ Word(l, b, f, g)
  BY <1>1 DEF WordRead, SliceOf
<1>3. f \in (b + 1)..(n + 1) /\ g \in f..(n + 1)
  BY DEF WordRead
<1>4. InWord(l, n + 1, b)'
  BY <1>2, <1>3 DEF InWord
<1> QED
  BY <1>4, SameElement

LEMMA ISpaceStep ==
  ASSUME NEW l \in Seq(Chars), NEW n \in Nat, n < Len(l), c = l[n + 1],
         NEW b \in 0..n, b \in Cuts(l), Collected(l, b),
         NEW f \in Int, NEW g \in Int, WordRead(l, n, b, f, g), InISpace(l, n, g), ISpace
  PROVE  Throw \/ GoesOn(l, n)
<1>0. c \in Chars /\ n + 1 \in 1..Len(l) /\ Len(l) \in Nat
  OBVIOUS
<1>1. f \in (b + 1)..n /\ g \in f..n /\ g < n
  BY DEF WordRead, InISpace
<1>2. CASE c = Blank
  <2>1. Goto("ISPACE", item, Append(sep, c), sepchar)
    BY <1>2 DEF ISpace
  <2>2. SliceOf(Append(sep, l[n + 1]), l, g + 1, n + 1)
    BY <1>0, <1>1, SliceAppend DEF InISpace
  <2>3. SliceOf(sep, l, g + 1, n + 1)'
    BY <2>1, <2>2 DEF Goto, SliceOf
  <2>4. ASSUME NEW p \in (g + 1)..(n + 1) PROVE l[p] = Blank
    <3>1. p = n + 1 \/ p \in (g + 1)..n
      BY <1>1
    <3> QED
      BY <1>2, <3>1 DEF InISpace
  <2>5. InISpace(l, n + 1, g)'
    BY <1>1, <2>1, <2>3, <2>4 DEF InISpace, Goto
  <2> QED
    BY <2>1, <2>5, SameWord
<1>3. CASE c \in Seps
  <2>1. Goto("TSPACE", item, sep, c)
    BY <1>3, CharsApart DEF ISpace
  <2> DEFINE k == n + 1
  <2>2. Cut(l, k)
    <3>1. k - 1 = n /\ n \in DOMAIN l /\ k \in DOMAIN l
      BY <1>0, <1>1
    <3>2. IsBlank(l, k - 1)
      BY <1>1, <3>1 DEF InISpace, IsBlank
    <3>3. IsSep(l, k)
      BY <1>3, <3>1 DEF IsSep
    <3> QED
      BY <3>2, <3>3 DEF Cut
  <2>3. k \in (g + 1)..(n + 1) /\ \A p \in (g + 1)..(n + 1) : p # k => l[p] = Blank
    BY <1>1 DEF InISpace
  <2>4. sepchar' = l[k] /\ lex' = "TSPACE"
    BY <2>1 DEF Goto
  <2> HIDE DEF k
  <2>5. InTSpace(l, n + 1, g)'
    BY <2>2, <2>3, <2>4 DEF InTSpace
  <2> QED
    BY <2>1, <2>5, SameWord
<1>4. CASE Solid(c)
  <2>1. Goto("ITEM", item \o sep \o <<c>>, <<>>, NoSep)
    BY <1>4, CharsApart DEF ISpace, Solid, InISpace
  <2>2. \A p \in (g + 1)..n : ~Cut(l, p)
    BY <1>1, NoCut DEF InISpace
  <2>3. SliceOf(sep, l, g + 1, n)
    BY DEF InISpace
  <2> QED
    BY <1>1, <1>4, <2>1, <2>2, <2>3, Joined
<1> QED
  BY <1>0, <1>2, <1>3, <1>4 DEF Solid

LEMMA ISepStep ==
  ASSUME NEW l \in Seq(Chars), NEW n \in Nat, n < Len(l), c = l[n + 1],
         NEW b \in 0..n, b \in Cuts(l), Collected(l, b),
         NEW f \in Int, NEW g \in Int, WordRead(l, n, b, f, g), InISep(l, n, g), ISep
  PROVE  Throw \/ GoesOn(l, n)
<1>0. c \in Chars /\ n + 1 \in 1..Len(l) /\ Len(l) \in Nat /\ DOMAIN l = 1..Len(l)
  OBVIOUS
<1>1. f \in (b + 1)..n /\ g \in f..n /\ g < n
  BY DEF WordRead, InISep
<1>2. \A p \in (g + 1)..n : l[p] \in Seps
  BY DEF InISep
<1>3. SliceOf(sep, l, g + 1, n) /\ Len(sep) = n - g
  BY DEF InISep, SliceOf
<1>4. CASE c = Blank /\ ~(Len(sep) > 1)
  <2>1. Goto("TSPACE", item, sep, sepchar)
    BY <1>4 DEF ISep
  <2>2. n = g + 1
    BY <1>1, <1>3, <1>4
  <2> DEFINE k == n
  <2>3. Cut(l, k)
    <3>1. IsSep(l, k)
      BY <1>0, <1>1, <1>2, <2>2 DEF IsSep
    <3>2. IsBlank(l, k + 1)
      BY <1>0, <1>4 DEF IsBlank
    <3> QED
      BY <3>1, <3>2 DEF Cut
  <2>4. ASSUME NEW p \in (g + 1)..(n + 1), p # k PROVE l[p] = Blank
    <3>1. p = n + 1
      BY <2>2, <2>4
    <3> QED
      BY <1>4, <3>1
  <2>5. k \in (g + 1)..(n + 1) /\ sepchar' = l[k] /\ lex' = "TSPACE"
    BY <2>1, <2>2 DEF Goto, InISep
  <2> HIDE DEF k
  <2>6. InTSpace(l, n + 1, g)'
    BY <2>3, <2>4, <2>5 DEF InTSpace
  <2> QED
    BY <2>1, <2>6, SameWord
<1>5. CASE c = Blank /\ Len(sep) > 1
  BY <1>5 DEF ISep
<1>6. CASE c \in Seps
  <2>1. Goto("ISEP", item, Append(sep, c), sepchar)
    BY <1>6, CharsApart DEF ISep
  <2>2. SliceOf(Append(sep, l[n + 1]), l, g + 1, n + 1)
    BY <1>0, <1>1, <1>3, SliceAppend
  <2>3. SliceOf(sep, l, g + 1, n + 1)'
    BY <2>1, <2>2 DEF Goto, SliceOf
  <2>4. ASSUME NEW p \in (g + 1)..(n + 1) PROVE l[p] \in Seps
    <3>1. p = n + 1 \/ p \in (g + 1)..n
      BY <1>1
    <3> QED
      BY <1>2, <1>6, <3>1
  <2>5. InISep(l, n + 1, g)'
    BY <1>1, <2>1, <2>3, <2>4 DEF InISep, Goto
  <2> QED
    BY <2>1, <2>5, SameWord
<1>7. CASE Solid(c)
  <2>1. Goto("ITEM", item \o sep \o <<c>>, <<>>, NoSep)
    BY <1>7, CharsApart DEF ISep, Solid
  <2>2. ASSUME NEW p \in (g + 1)..n PROVE ~Cut(l, p)
    <3>1. l[p - 1] # Blank
      <4>1. p - 1 = g \/ p - 1 \in (g + 1)..n
        BY <1>1
      <4>2. Solid(l[g])
        BY DEF WordRead, Word
      <4> QED
        BY <1>2, <4>1, <4>2, CharsApart
    <3>2. l[p + 1] # Blank
      <4>1. p + 1 = n + 1 \/ p + 1 \in (g + 1)..n
        BY <1>1
      <4> QED
        BY <1>2, <1>7, <4>1, CharsApart
    <3>3. n + 1 \in p..Len(l) /\ ~IsSep(l, n + 1)
      BY <1>0, <1>1, <1>7 DEF IsSep, Solid
    <3> QED
      BY <3>1, <3>2, <3>3 DEF Cut, IsBlank
  <2> QED
    BY <1>1, <1>3, <1>7, <2>1, <2>2, Joined
<1> QED
  BY <1>0, <1>4, <1>5, <1>6, <1>7 DEF Solid

(* The element is added to the names, and the next one begins at pos.      *)
Delivers(l, n) == Kept /\ pos' = pos /\ Read(l, n)'

LEMMA Delivered ==
  ASSUME NEW l \in Seq(Chars), NEW n \in Nat, n < Len(l),
         NEW b \in 0..n, b \in Cuts(l), Collected(l, b),
         NEW f \in Int, NEW g \in Int, WordRead(l, n, b, f, g),
         NEW k \in (g + 1)..n, Cut(l, k), sepchar = l[k],
         \A p \in (g + 1)..n : p # k => l[p] = Blank,
         EndElement(sepchar)
  PROVE  Throw \/ Delivers(l, n)
<1>0. /\ f \in (b + 1)..n /\ g \in f..n /\ Word(l, b, f, g) /\ SliceOf(item, l, f, g)
      /\ k \in 1..Len(l) /\ k \in Cuts(l) /\ k \in 0..n /\ Len(l) \in Nat /\ k \in Int
  <2>1. f \in (b + 1)..n /\ g \in f..n /\ Word(l, b, f, g) /\ SliceOf(item, l, f, g)
    BY DEF WordRead
  <2>2. Len(l) \in Nat
    OBVIOUS
  <2>3. k \in 1..Len(l) /\ k \in 0..n /\ k \in Int
    BY <2>1, <2>2
  <2> QED
    BY <2>1, <2>2, <2>3, CutFacts
<1>1. /\ item # <<>> /\ Neighbours(l, b, k)
      /\ \A from \in Int : from <= b => Names(l, from, k) = Names(l, from, b) \cup {item}
  <2>1. \A p \in (g + 1)..(k - 1) : l[p] = Blank
    BY <1>0
  <2>2. b < f /\ f <= g /\ g < k
    BY <1>0
  <2> QED
    BY <1>0, <2>1, <2>2, ElementNames
<1> SUFFICES ASSUME ~(sepchar = ":" /\ state = "TAGS") PROVE Delivers(l, n)
  BY DEF EndElement
<1>2. /\ itemset' = newItems /\ tagset' = newTags
      /\ state' = IF l[k] = ":" THEN "TAGS" ELSE state
      /\ lex' = "LSPACE" /\ item' = <<>> /\ sep' = <<>> /\ sepchar' = NoSep
      /\ UNCHANGED <<file, pos, rel, known, pc, start>>
  BY DEF EndElement, NewElement
<1>3. InSpace(l, n, k)'
  <2>1. \A p \in (k + 1)..n : l[p] = Blank
    BY <1>0
  <2> QED
    BY <1>2, <2>1 DEF InSpace
<1>4. \A p \in (b + 1)..(k - 1) : ~Cut(l, p)
  <2> SUFFICES ASSUME NEW p \in (b + 1)..(k - 1) PROVE ~Cut(l, p)
    OBVIOUS
  <2>1. p \in 1..Len(l) /\ b < p /\ p < k
    BY <1>0
  <2>2. p \notin Cuts(l)
    BY <1>1, <2>1 DEF Neighbours
  <2> QED
    BY <2>1, <2>2, CutFacts
<1>5. ASSUME OnlyItems(l, b) PROVE Collected(l, k)'
  <2>1. state = "ITEMS" /\ tagset = {} /\ itemset = Names(l, 0, b)
        /\ \A p \in 1..b : Cut(l, p) => l[p] # ":"
    BY <1>5 DEF OnlyItems
  <2>2. \A p \in 1..(k - 1) : Cut(l, p) => l[p] # ":"
    BY <1>4, <2>1
  <2>3. newItems = Names(l, 0, k) /\ newTags = {} /\ newItems # {}
    BY <1>1, <2>1 DEF newItems, newTags
  <2>4. CASE l[k] = ":"
    <3>1. k \in 1..k /\ Names(l, k, k) = {}
      BY <1>0, NamesNone
    <3>2. state' = "TAGS" /\ itemset' # {} /\ itemset' = Names(l, 0, k) /\ tagset' = Names(l, k, k)
      BY <1>2, <2>3, <2>4, <3>1
    <3> QED
      BY <2>2, <2>4, <3>1, <3>2 DEF WithTags, Collected
  <2>5. CASE l[k] # ":"
    <3>1. state' = "ITEMS" /\ itemset' = Names(l, 0, k) /\ tagset' = {}
      BY <1>2, <2>1, <2>3, <2>5
    <3>2. \A p \in 1..k : Cut(l, p) => l[p] # ":"
      BY <1>0, <2>2, <2>5
    <3> QED
      BY <3>1, <3>2 DEF OnlyItems, Collected
  <2> QED
    BY <2>4, <2>5
<1>6. ASSUME WithTags(l, b) PROVE Collected(l, k)'
  <2>1. state = "TAGS" /\ itemset # {}
    BY <1>6 DEF WithTags
  <2>2. PICK d \in 1..b : /\ Cut(l, d) /\ l[d] = ":"
                          /\ \A p \in 1..(d - 1) : Cut(l, p) => l[p] # ":"
                          /\ itemset = Names(l, 0, d) /\ tagset = Names(l, d, b)
    BY <1>6 DEF WithTags
  <2>3. newItems = itemset /\ newTags = Names(l, d, k)
    BY <1>1, <2>1, <2>2 DEF newItems, newTags
  <2>4. state' = "TAGS" /\ itemset' = itemset /\ tagset' = Names(l, d, k)
    BY <1>2, <2>1, <2>3
  <2>5. d \in 1..k
    BY <1>0
  <2> QED
    BY <2>1, <2>2, <2>4, <2>5 DEF WithTags, Collected
<1>7. Read(l, n)'
  BY <1>0, <1>3, <1>5, <1>6 DEF Read, Collected
<1> QED
  BY <1>2, <1>7 DEF Delivers, Kept

LEMMA TSpaceStep ==
  ASSUME NEW l \in Seq(Chars), NEW n \in Nat, n < Len(l), c = l[n + 1],
         NEW b \in 0..n, b \in Cuts(l), Collected(l, b),
         NEW f \in Int, NEW g \in Int, WordRead(l, n, b, f, g), InTSpace(l, n, g), TSpace
  PROVE  Throw \/ GoesOn(l, n) \/ Delivers(l, n)
<1>1. PICK k \in (g + 1)..n : /\ Cut(l, k) /\ sepchar = l[k]
                              /\ \A p \in (g + 1)..n : p # k => l[p] = Blank
  BY DEF InTSpace
<1>2. CASE c = Blank
  <2>1. Goto("TSPACE", item, sep, sepchar)
    BY <1>2 DEF TSpace
  <2>2. ASSUME NEW p \in (g + 1)..(n + 1), p # k PROVE l[p] = Blank
    <3>1. p = n + 1 \/ p \in (g + 1)..n
      OBVIOUS
    <3> QED
      BY <1>1, <1>2, <2>2, <3>1
  <2>3. k \in (g + 1)..(n + 1) /\ sepchar' = l[k] /\ lex' = "TSPACE"
    BY <1>1, <2>1 DEF Goto
  <2>4. InTSpace(l, n + 1, g)'
    BY <1>1, <2>2, <2>3 DEF InTSpace
  <2> QED
    BY <2>1, <2>4, SameWord
<1>3. CASE c # Blank
  BY <1>1, <1>3, Delivered DEF TSpace
<1> QED
  BY <1>2, <1>3

-----------------------------------------------------------------------------
(* The end of a line.                                                      *)

(* The names known when the line ends are those of the cuts up to k, with  *)
(* the element that was not ended by a separator, and behind k are none.   *)
Closes(l, b, k) ==
  /\ Neighbours(l, b, k) /\ Bare(l, k)
  /\ \A from \in Int : from <= b =>
       Names(l, from, k) = Names(l, from, b) \cup (IF item = <<>> THEN {} ELSE {item})

LEMMA SpaceCloses ==
  ASSUME NEW l \in Seq(Chars), NEW b \in 0..Len(l), b \in Cuts(l), InSpace(l, Len(l), b)
  PROVE  Closes(l, b, Len(l) + 1)
<1> DEFINE k == Len(l) + 1
<1>0. Len(l) \in Nat /\ k \in Int /\ k \in Cuts(l) /\ Cuts(l) \subseteq 0..k
  BY CutFacts
<1>1. \A p \in (b + 1)..(k - 1) : l[p] = Blank
  BY <1>0 DEF InSpace
<1>2. Neighbours(l, b, k)
  <2>1. ASSUME NEW r \in Cuts(l), b < r, r < k PROVE FALSE
    <3>1. r \in 1..Len(l) /\ r \in (b + 1)..(k - 1)
      BY <1>0, <2>1
    <3> QED
      BY <1>1, <3>1, NoCut, CutFacts
  <2> QED
    BY <1>0, <2>1 DEF Neighbours
<1>3. Stretch(l, b, k) = <<>>
  BY <1>0, <1>1, TrimOfBlanks
<1>4. ASSUME NEW from \in Int, from <= b PROVE Names(l, from, k) = Names(l, from, b)
  <2>0. k \in Cuts(l) /\ Neighbours(l, b, k)
    BY <1>0, <1>2
  <2> HIDE DEF k
  <2>1. Names(l, from, k) = Names(l, from, b) \cup ({Stretch(l, b, k)} \ {<<>>})
    BY <1>4, <2>0, NamesExtend
  <2>2. {Stretch(l, b, k)} \ {<<>>} = {}
    BY <1>3
  <2> QED
    BY <2>1, <2>2
<1>5. Bare(l, k)
  BY <1>0 DEF Bare
<1>6. item = <<>>
  BY DEF InSpace
<1> HIDE DEF k
<1>7. Closes(l, b, k)
  BY <1>2, <1>4, <1>5, <1>6 DEF Closes
<1> QED
  BY <1>7 DEF k

LEMMA WordCloses ==
  ASSUME NEW l \in Seq(Chars), NEW b \in 0..Len(l), b \in Cuts(l), InWord(l, Len(l), b)
  PROVE  \E k \in Cuts(l) : Closes(l, b, k)
<1> DEFINE n == Len(l)
<1>0. n \in Nat /\ n + 1 \in Cuts(l) /\ Cuts(l) \subseteq 0..(n + 1) /\ DOMAIN l = 1..n
  BY CutFacts
<1>a. PICK f \in (b + 1)..n : \E g \in f..n :
        /\ Word(l, b, f, g) /\ SliceOf(item, l, f, g)
        /\ InItem(l, n, g) \/ InISpace(l, n, g) \/ InISep(l, n, g) \/ InTSpace(l, n, g)
  BY DEF InWord
<1>1. PICK g \in f..n :
        /\ Word(l, b, f, g) /\ SliceOf(item, l, f, g)
        /\ InItem(l, n, g) \/ InISpace(l, n, g) \/ InISep(l, n, g) \/ InTSpace(l, n, g)
  BY <1>a
<1>2. ASSUME NEW k \in Cuts(l), g < k, \A p \in (g + 1)..(k - 1) : l[p] = Blank, Bare(l, k)
      PROVE  \E m \in Cuts(l) : Closes(l, b, m)
  <2>1. /\ item # <<>> /\ Neighbours(l, b, k)
        /\ \A from \in Int : from <= b => Names(l, from, k) = Names(l, from, b) \cup {item}
    <3>1. b < f /\ f <= g /\ f \in Int /\ g \in Int
      BY <1>0
    <3> QED
      BY <1>1, <1>2, <3>1, ElementNames
  <2>2. Closes(l, b, k)
    BY <1>2, <2>1 DEF Closes
  <2> QED
    BY <2>2
<1> HIDE DEF n
<1>3. Len(l) = n
  BY DEF n
<1>4. CASE InItem(l, n, g) \/ InISpace(l, n, g)
  <2>1. g < n + 1
    BY <1>0
  <2>2. \A p \in (g + 1)..((n + 1) - 1) : l[p] = Blank
    BY <1>0, <1>4 DEF InItem, InISpace
  <2>3. Bare(l, n + 1)
    BY <1>0, <1>3 DEF Bare
  <2> QED
    BY <1>0, <1>2, <2>1, <2>2, <2>3
<1>5. CASE InISep(l, n, g)
  <2>1. g < n /\ \A p \in (g + 1)..n : l[p] \in Seps
    BY <1>5 DEF InISep
  <2>2. ASSUME NEW p \in (g + 1)..n PROVE Cut(l, p)
    <3>1. \A q \in p..n : IsSep(l, q)
      BY <1>0, <2>1 DEF IsSep
    <3>2. p \in p..n
      BY <1>0
    <3> QED
      BY <1>3, <3>1, <3>2 DEF Cut
  <2> DEFINE k == g + 1
  <2>3. k \in (g + 1)..n /\ k \in 1..n
    BY <1>0, <2>1
  <2>4. k \in Cuts(l)
    BY <1>3, <2>2, <2>3, CutFacts
  <2>5. Bare(l, k)
    BY <1>0, <1>3, <2>2, <2>3 DEF Bare
  <2>6. g < k /\ \A p \in (g + 1)..(k - 1) : l[p] = Blank
    BY <1>0
  <2> QED
    BY <1>2, <2>4, <2>5, <2>6
<1>6. CASE InTSpace(l, n, g)
  <2>1. PICK k \in (g + 1)..n : /\ Cut(l, k)
                                /\ \A p \in (g + 1)..n : p # k => l[p] = Blank
    BY <1>6 DEF InTSpace
  <2>2. k \in 1..n /\ g < k
    BY <1>0
  <2>3. k \in Cuts(l)
    BY <1>3, <2>1, <2>2, CutFacts
  <2>4. Bare(l, k)
    BY <1>0, <1>3, <2>1, <2>2 DEF Bare
  <2>5. \A p \in (g + 1)..(k - 1) : l[p] = Blank
    BY <1>0, <2>1
  <2> QED
    BY <1>2, <2>2, <2>3, <2>4, <2>5
<1> QED
  BY <1>1, <1>4, <1>5, <1>6

(* What the automaton has collected at the end of a line is what the line  *)
(* means.                                                                  *)
LEMMA LineMeans ==
  ASSUME NEW l \in Seq(Chars), Read(l, Len(l))
  PROVE  newItems \X newTags = Meaning(l)
<1> DEFINE n == Len(l)
<1>0. n \in Nat /\ n + 1 \in Cuts(l) /\ Cuts(l) \subseteq 0..(n + 1) /\ DOMAIN l = 1..n
  BY CutFacts
<1>1. PICK b \in 0..n : /\ b \in Cuts(l)
                        /\ InSpace(l, n, b) \/ InWord(l, n, b)
                        /\ OnlyItems(l, b) \/ WithTags(l, b)
  BY DEF Read
<1>2. PICK k \in Cuts(l) : Closes(l, b, k)
  BY <1>0, <1>1, SpaceCloses, WordCloses
<1> DEFINE colons == {p \in Cuts(l) \cap DOMAIN l : l[p] = ":"}
           div == IF colons = {} THEN Len(l) + 1
                  ELSE CHOOSE p \in colons : \A q \in colons : p <= q
<1>3. Meaning(l) = Names(l, 0, div) \X Names(l, div, Len(l) + 1)
  BY DEF Meaning
<1>4. \A p \in colons : p \in 1..n /\ Cut(l, p) /\ l[p] = ":"
  BY <1>0, CutFacts
<1>5. \A p \in 1..n : Cut(l, p) /\ l[p] = ":" => p \in colons
  BY <1>0, CutFacts
<1>6. b < k /\ k \in Int /\ \A r \in Cuts(l) : ~(b < r /\ r < k)
  BY <1>0, <1>2 DEF Closes, Neighbours
<1>7. CASE OnlyItems(l, b)
  <2>1. newTags = {}
    BY <1>7 DEF OnlyItems, newTags
  <2>2. ASSUME NEW m \in Cuts(l), k <= m PROVE Names(l, m, n + 1) = {}
    <3>1. Bare(l, m)
      BY <1>0, <1>2, <2>2 DEF Closes, Bare
    <3>2. Names(l, m, n + 1) = Names(l, m, m)
      BY <1>0, <3>1, NamesTail
    <3> QED
      BY <1>0, <3>2, NamesNone
  <2>3. div \in Cuts(l) /\ k <= div
    <3>1. CASE colons = {}
      BY <1>0, <3>1
    <3>2. CASE colons # {}
      <4>1. \A p \in colons : p \in Cuts(l) /\ k <= p
        <5> SUFFICES ASSUME NEW p \in colons PROVE p \in Cuts(l) /\ k <= p
          OBVIOUS
        <5>1. p \in 1..n /\ Cut(l, p) /\ l[p] = ":" /\ p \in Cuts(l)
          BY <1>4
        <5>2. ~(p <= b)
          BY <1>7, <5>1 DEF OnlyItems
        <5> QED
          BY <1>6, <5>1, <5>2
      <4>2. \E p \in colons : \A q \in colons : p <= q
        <5>1. colons \in SUBSET Nat
          BY <1>4
        <5> HIDE DEF colons
        <5> QED
          BY <3>2, <5>1, LeastNatural
      <4>3. div \in colons
        <5> HIDE DEF colons
        <5> QED
          BY <3>2, <4>2
      <4> QED
        BY <4>1, <4>3
    <3> QED
      BY <3>1, <3>2
  <2> HIDE DEF div, colons
  <2>4. Names(l, div, Len(l) + 1) = {}
    BY <2>2, <2>3
  <2> QED
    BY <1>3, <2>1, <2>4
<1>8. CASE WithTags(l, b)
  <2>1. PICK d \in 1..b : /\ Cut(l, d) /\ l[d] = ":"
                          /\ \A p \in 1..(d - 1) : Cut(l, p) => l[p] # ":"
                          /\ itemset = Names(l, 0, d) /\ tagset = Names(l, d, b)
    BY <1>8 DEF WithTags
  <2>2. d \in colons
    BY <1>0, <1>5, <2>1
  <2>3. \A q \in colons : d <= q
    BY <1>4, <2>1
  <2>4. colons \subseteq Int
    BY <1>4
  <2>5. div = d
    <3> HIDE DEF colons
    <3> DEFINE e == CHOOSE p \in colons : \A q \in colons : p <= q
    <3>1. e \in colons /\ \A q \in colons : e <= q
      BY <2>2, <2>3
    <3>2. div = e
      BY <2>2
    <3> HIDE DEF e
    <3> QED
      BY <2>2, <2>3, <2>4, <3>1, <3>2
  <2> HIDE DEF div, colons
  <2>6. newItems = itemset /\ newTags = tagset \cup (IF item = <<>> THEN {} ELSE {item})
    BY <1>8 DEF WithTags, newItems, newTags
  <2>7. Names(l, d, k) = Names(l, d, b) \cup (IF item = <<>> THEN {} ELSE {item})
    BY <1>0, <1>2 DEF Closes
  <2>8. Names(l, d, Len(l) + 1) = Names(l, d, k)
    <3>1. d <= k /\ d \in Int /\ Bare(l, k)
      BY <1>0, <1>2, <1>6 DEF Closes
    <3> QED
      BY <3>1, NamesTail
  <2> QED
    BY <1>3, <2>1, <2>5, <2>6, <2>7, <2>8
<1> QED
  BY <1>1, <1>7, <1>8

-----------------------------------------------------------------------------
(* A step of the parser.                                                   *)

(* A piece from f on that is read in one line. *)
LEMMA LineFacts ==
  ASSUME ParserTypes, NEW e \in start..(Len(file) + 1), EndsAt(file, start, e), pos <= e,
         NEW l, l = SubSeq(file, start, e - 1), NEW n, n = pos - start
  PROVE  /\ l \in Seq(Chars) /\ Len(l) = e - start /\ n \in 0..Len(l)
         /\ n < Len(l) => c = l[n + 1] /\ c \notin {Newline, EOF}
         /\ n = Len(l) => pos = e /\ c \in {Newline, EOF}
<1>0. /\ file \in Seq(Chars) /\ start \in Nat /\ pos \in Nat /\ 1 <= start /\ start <= pos
      /\ e \in Int /\ start <= e /\ e <= Len(file) + 1 /\ Len(file) \in Nat
  BY DEF ParserTypes
<1>1. SliceOf(l, file, start, e - 1)
  BY <1>0, SubSeqIsSlice
<1>2. l \in Seq(Chars) /\ Len(l) = e - start
  BY <1>0, <1>1 DEF SliceOf
<1>3. n \in 0..Len(l)
  BY <1>0, <1>2
<1>4. ASSUME n < Len(l) PROVE c = l[n + 1] /\ c \notin {Newline, EOF}
  <2>1. pos < e /\ pos <= Len(file) /\ n + 1 \in 1..Len(l) /\ start + (n + 1) - 1 = pos
    BY <1>0, <1>2, <1>3, <1>4
  <2>2. c = file[pos]
    BY <1>0, <2>1 DEF c
  <2>3. l[n + 1] = file[pos]
    BY <1>1, <2>1 DEF SliceOf
  <2>4. file[pos] # Newline /\ file[pos] \in Chars
    BY <1>0, <2>1 DEF EndsAt
  <2> QED
    BY <2>2, <2>3, <2>4, CharsApart
<1>5. ASSUME n = Len(l) PROVE pos = e /\ c \in {Newline, EOF}
  BY <1>0, <1>2, <1>5 DEF c, EndsAt
<1> QED
  BY <1>2, <1>3, <1>4, <1>5

(* Every line has an end. *)
LEMMA LineHasEnd ==
  ASSUME NEW f \in Seq(Chars), NEW s \in Nat, 1 <= s, s <= Len(f) + 1
  PROVE  \E e \in s..(Len(f) + 1) : EndsAt(f, s, e) /\ SubSeq(f, s, e - 1) \in Seq(Chars)
<1> DEFINE E == {e \in s..(Len(f) + 1) : e <= Len(f) => f[e] = Newline}
<1>1. Len(f) \in Nat
  OBVIOUS
<1>2. Len(f) + 1 \in E /\ E \in SUBSET Nat
  BY <1>1
<1>3. PICK e \in E : \A q \in E : e <= q
  <2> HIDE DEF E
  <2> QED
    BY <1>2, LeastNatural
<1>4. ASSUME NEW p \in s..(e - 1) PROVE f[p] # Newline
  <2>1. p \notin E /\ p \in s..(Len(f) + 1)
    BY <1>1, <1>3
  <2> QED
    BY <2>1
<1>5. EndsAt(f, s, e)
  BY <1>1, <1>3, <1>4 DEF EndsAt
<1>6. SliceOf(SubSeq(f, s, e - 1), f, s, e - 1)
  BY <1>1, <1>3, SubSeqIsSlice
<1> QED
  BY <1>3, <1>5, <1>6 DEF SliceOf

(* At the beginning of a line nothing is read. *)
LEMMA NothingRead ==
  ASSUME NEW l \in Seq(Chars)
  PROVE  (AtLineStart => Read(l, 0)) /\ (AtLineStart' => Read(l, 0)')
<1>1. 0 \in Cuts(l) /\ 0 \in 0..0 /\ Names(l, 0, 0) = {}
  BY CutFacts, NamesNone
<1>2. ASSUME AtLineStart PROVE Read(l, 0)
  <2>1. InSpace(l, 0, 0) /\ OnlyItems(l, 0)
    BY <1>1, <1>2 DEF InSpace, OnlyItems, AtLineStart
  <2> QED
    BY <1>1, <2>1 DEF Read
<1>3. ASSUME AtLineStart' PROVE Read(l, 0)'
  <2>1. InSpace(l, 0, 0)' /\ OnlyItems(l, 0)'
    BY <1>1, <1>3 DEF InSpace, OnlyItems, AtLineStart
  <2> QED
    BY <1>1, <2>1 DEF Read
<1> QED
  BY <1>2, <1>3

(* Two newlines, or ends of the file, with none between them. *)
Adjacent(f, u, v) == u < v /\ \A r \in Ends(f) : ~(u < r /\ r < v)

LEMMA LinesAre ==
  ASSUME NEW f, NEW m, NEW x
  PROVE  x \in LinesBefore(f, m) <=>
           \E u, v \in Ends(f) : v < m /\ Adjacent(f, u, v) /\ x = SubSeq(f, u + 1, v - 1)
<1> DEFINE Q == { q \in Ends(f) \X Ends(f) :
                    /\ q[1] < q[2] /\ q[2] < m
                    /\ \A r \in Ends(f) : ~(q[1] < r /\ r < q[2]) }
<1>1. LinesBefore(f, m) = {SubSeq(f, p[1] + 1, p[2] - 1) : p \in Q}
  BY DEF LinesBefore, Ends
<1>2. x \in LinesBefore(f, m) <=> \E p \in Q : x = SubSeq(f, p[1] + 1, p[2] - 1)
  BY <1>1
<1>3. ASSUME NEW p \in Q
      PROVE  p[1] \in Ends(f) /\ p[2] \in Ends(f) /\ p[2] < m /\ Adjacent(f, p[1], p[2])
  BY DEF Adjacent
<1>4. ASSUME NEW u \in Ends(f), NEW v \in Ends(f), v < m, Adjacent(f, u, v)
      PROVE  <<u, v>> \in Q /\ <<u, v>>[1] = u /\ <<u, v>>[2] = v
  BY <1>4 DEF Adjacent
<1> HIDE DEF Q
<1>5. ASSUME NEW p \in Q, x = SubSeq(f, p[1] + 1, p[2] - 1)
      PROVE  \E u, v \in Ends(f) :
               v < m /\ Adjacent(f, u, v) /\ x = SubSeq(f, u + 1, v - 1)
  BY <1>3, <1>5, Zenon
<1>6. ASSUME NEW u \in Ends(f), NEW v \in Ends(f), v < m, Adjacent(f, u, v),
             x = SubSeq(f, u + 1, v - 1)
      PROVE  \E p \in Q : x = SubSeq(f, p[1] + 1, p[2] - 1)
  <2>1. <<u, v>> \in Q /\ <<u, v>>[1] = u /\ <<u, v>>[2] = v
    BY <1>4, <1>6
  <2>2. x = SubSeq(f, <<u, v>>[1] + 1, <<u, v>>[2] - 1)
    BY <1>6, <2>1, Zenon
  <2> QED
    BY <2>1, <2>2, Zenon
<1> QED
  BY <1>2, <1>5, <1>6, Zenon

(* The lines read grow by the one that ends. *)
LEMMA LinesGrow ==
  ASSUME NEW f \in Seq(Chars), NEW u \in Ends(f), NEW v \in Ends(f), Adjacent(f, u, v)
  PROVE  LinesBefore(f, v + 1) = LinesBefore(f, u + 1) \cup {SubSeq(f, u + 1, v - 1)}
<1>0. Ends(f) \subseteq Int /\ u < v
  BY DEF Ends, Adjacent
<1>1. ASSUME NEW p \in Ends(f), NEW q \in Ends(f), q < v + 1, Adjacent(f, p, q), ~(q < u + 1)
      PROVE  p = u /\ q = v
  <2>1. ~(u < q /\ q < v)
    BY DEF Adjacent
  <2>2. q = v
    BY <1>0, <1>1, <2>1
  <2>3. ~(p < u /\ u < q)
    BY <1>1 DEF Adjacent
  <2>4. ~(u < p /\ p < v)
    BY DEF Adjacent
  <2>5. p < q
    BY <1>1 DEF Adjacent
  <2> QED
    BY <1>0, <2>2, <2>3, <2>4, <2>5
<1>2. \A q \in Ends(f) : q < u + 1 => q < v + 1
  BY <1>0
<1>3. v < v + 1
  BY <1>0
<1> DEFINE A == LinesBefore(f, v + 1)
           B == LinesBefore(f, u + 1)
           y == SubSeq(f, u + 1, v - 1)
<1>4. \A x : x \in A <=> x \in B \/ x = y
  <2> SUFFICES ASSUME NEW x PROVE x \in A <=> x \in B \/ x = y
    OBVIOUS
  <2>1. x \in A <=> \E p, q \in Ends(f) :
                      q < v + 1 /\ Adjacent(f, p, q) /\ x = SubSeq(f, p + 1, q - 1)
    BY LinesAre
  <2>2. x \in B <=> \E p, q \in Ends(f) :
                      q < u + 1 /\ Adjacent(f, p, q) /\ x = SubSeq(f, p + 1, q - 1)
    BY LinesAre
  <2> HIDE DEF A, B
  <2> QED
    BY <1>1, <1>2, <1>3, <2>1, <2>2, Zenon DEF y
<1> HIDE DEF A, B, y
<1>5. A = B \cup {y}
  BY <1>4
<1> QED
  BY <1>5 DEF A, B, y

LEMMA NoLineBefore ==
  ASSUME NEW f \in Seq(Chars)
  PROVE  LinesBefore(f, 1) = {}
<1>1. Ends(f) \subseteq Nat
  BY DEF Ends
<1>2. ASSUME NEW u \in Ends(f), NEW v \in Ends(f), v < 1, Adjacent(f, u, v) PROVE FALSE
  BY <1>1, <1>2 DEF Adjacent
<1>3. ASSUME NEW x PROVE x \notin LinesBefore(f, 1)
  BY <1>2, LinesAre, Zenon
<1> QED
  BY <1>3

LEMMA ParserInit == Init => ParserInv
<1> SUFFICES ASSUME Init PROVE ParserInv
  OBVIOUS
<1>1. /\ file \in Seq(Chars) /\ pos = 1 /\ start = 1 /\ pc = "run"
      /\ lex = "LSPACE" /\ item = <<>> /\ sep = <<>> /\ sepchar = NoSep
      /\ state = "ITEMS" /\ itemset = {} /\ tagset = {} /\ rel = {}
  BY InputsAssumption DEF Init, Collection!Init
<1>2. ParserTypes
  BY <1>1 DEF ParserTypes, Ends
<1>3. LineInv
  <2>1. 1 <= Len(file) + 1
    BY <1>1
  <2>2. PICK e \in 1..(Len(file) + 1) :
          EndsAt(file, 1, e) /\ SubSeq(file, 1, e - 1) \in Seq(Chars)
    BY <1>1, <2>1, LineHasEnd
  <2>3. Read(SubSeq(file, 1, e - 1), 0)
    BY <1>1, <2>2, NothingRead DEF AtLineStart
  <2>4. pos - start = 0 /\ pos <= e
    BY <1>1
  <2> QED
    BY <1>1, <2>2, <2>3, <2>4 DEF LineInv
<1>4. ContentInv
  BY <1>1, NoLineBefore DEF ContentInv
<1> QED
  BY <1>2, <1>3, <1>4 DEF ParserInv

LEMMA ReadStays ==
  ASSUME NEW l, NEW n, Read(l, n), UNCHANGED <<element, line>>
  PROVE  Read(l, n)'
<1>1. PICK b \in 0..n : /\ b \in Cuts(l)
                        /\ InSpace(l, n, b) \/ InWord(l, n, b)
                        /\ OnlyItems(l, b) \/ WithTags(l, b)
  BY DEF Read
<1>2. /\ lex' = lex /\ item' = item /\ sep' = sep /\ sepchar' = sepchar
      /\ state' = state /\ itemset' = itemset /\ tagset' = tagset
  BY DEF element, line
<1>3. InSpace(l, n, b) => InSpace(l, n, b)'
  BY <1>2 DEF InSpace
<1>4. ASSUME InWord(l, n, b) PROVE InWord(l, n, b)'
  <2>1. \A g : /\ InItem(l, n, g)' <=> InItem(l, n, g)
               /\ InISpace(l, n, g)' <=> InISpace(l, n, g)
               /\ InISep(l, n, g)' <=> InISep(l, n, g)
    BY <1>2 DEF InItem, InISpace, InISep
  <2>2. \A g : InTSpace(l, n, g)' <=> InTSpace(l, n, g)
    BY <1>2 DEF InTSpace
  <2>3. \A f, g : SliceOf(item, l, f, g)' <=> SliceOf(item, l, f, g)
    BY <1>2 DEF SliceOf
  <2> QED
    BY <1>4, <2>1, <2>2, <2>3, Zenon DEF InWord
<1>5. OnlyItems(l, b) => OnlyItems(l, b)'
  BY <1>2 DEF OnlyItems
<1>6. WithTags(l, b) => WithTags(l, b)'
  BY <1>2 DEF WithTags
<1> QED
  BY <1>1, <1>3, <1>4, <1>5, <1>6 DEF Read

LEMMA LineStays ==
  ASSUME LineInv, UNCHANGED <<file, pos, start, element, line>>, pc = "done" => pc' = "done"
  PROVE  LineInv'
<1> SUFFICES ASSUME pc # "done" PROVE LineInv'
  BY DEF LineInv
<1>1. PICK e \in start..(Len(file) + 1) :
        /\ EndsAt(file, start, e) /\ pos <= e
        /\ Read(SubSeq(file, start, e - 1), pos - start)
  BY DEF LineInv
<1> SUFFICES ASSUME NEW l, l = SubSeq(file, start, e - 1), NEW n, n = pos - start
             PROVE  LineInv'
  OBVIOUS
<1>2. Read(l, n)'
  BY <1>1, ReadStays
<1>3. l = SubSeq(file', start', e - 1) /\ n = pos' - start'
  OBVIOUS
<1>4. Read(SubSeq(file, start, e - 1), pos - start)'
  BY <1>2, <1>3
<1>5. EndsAt(file, start, e)'
  BY <1>1 DEF EndsAt
<1> QED
  BY <1>1, <1>4, <1>5 DEF LineInv

LEMMA ThrowKeeps ==
  ASSUME ParserInv, Throw, pc = "run"
  PROVE  ParserInv'
<1>1. pc' = "thrown" /\ UNCHANGED <<file, pos, element, line, rel, known, start>>
  BY DEF Throw
<1>2. ParserTypes' /\ ContentInv'
  BY <1>1 DEF ParserInv, ParserTypes, ContentInv
<1>3. LineInv'
  BY <1>1, LineStays DEF ParserInv
<1> QED
  BY <1>2, <1>3 DEF ParserInv

(* A step within a line. *)
LEMMA InLineKeeps ==
  ASSUME ParserInv, pc = "run", NEW e \in start..(Len(file) + 1), EndsAt(file, start, e),
         Kept, NEW l, l = SubSeq(file, start, e - 1),
         NEW m \in Nat, pos' = start + m, start + m <= e, Read(l, m)'
  PROVE  ParserInv'
<1>0. file' = file /\ start' = start /\ pc' = pc /\ rel' = rel
  BY DEF Kept
<1>1. start \in Nat /\ 1 <= start
  BY DEF ParserInv, ParserTypes
<1>2. ParserTypes'
  <2>1. pos' \in Nat /\ start <= pos'
    BY <1>1
  <2> QED
    BY <1>0, <2>1 DEF ParserInv, ParserTypes
<1>3. ContentInv'
  BY <1>0 DEF ParserInv, ContentInv
<1>4. LineInv'
  <2>1. EndsAt(file, start, e)'
    BY <1>0 DEF EndsAt
  <2>2. pos' - start' = m /\ SubSeq(file', start', e - 1) = l
    BY <1>0, <1>1
  <2>3. Read(SubSeq(file, start, e - 1), pos - start)'
    BY <2>2
  <2>4. pos' <= e
    OBVIOUS
  <2> QED
    BY <1>0, <2>1, <2>3, <2>4 DEF LineInv
<1> QED
  BY <1>2, <1>3, <1>4 DEF ParserInv

(* The end of a line. *)
LEMMA EndLineKeeps ==
  ASSUME ParserInv, pc = "run", NEW e \in start..(Len(file) + 1), EndsAt(file, start, e), pos = e,
         NEW l \in Seq(Chars), l = SubSeq(file, start, e - 1), Read(l, Len(l)),
         NEW r, r = c, EndLine(r)
  PROVE  ParserInv'
<1>0. file \in Seq(Chars) /\ Len(file) \in Nat /\ start \in Nat /\ 1 <= start /\ e \in Int
  BY DEF ParserInv, ParserTypes
<1>1. CASE Throw
  BY <1>1, ThrowKeeps
<1>2. CASE ~Throw
  <2>1. /\ Collection!Add(newItems, newTags)
        /\ itemset' = {} /\ tagset' = {} /\ state' = "ITEMS"
        /\ pos' = pos + 1 /\ start' = pos + 1
        /\ pc' = (IF r = EOF THEN "done" ELSE "run")
        /\ lex' = "LSPACE" /\ item' = <<>> /\ sep' = <<>> /\ sepchar' = NoSep /\ file' = file
    BY <1>2 DEF EndLine, NewElement
  <2>2. e \in Ends(file) /\ start - 1 \in Ends(file)
    BY <1>0 DEF ParserInv, ParserTypes, EndsAt, Ends
  <2>3. r = EOF <=> e = Len(file) + 1
    <3>1. CASE e = Len(file) + 1
      BY <1>0, <3>1 DEF c
    <3>2. CASE e <= Len(file)
      <4>1. r = file[e] /\ e \in 1..Len(file) /\ e # Len(file) + 1
        BY <1>0, <3>2 DEF c
      <4>2. r \in Chars
        BY <1>0, <4>1
      <4> QED
        BY <4>1, <4>2, CharsApart
    <3> QED
      BY <1>0, <3>1, <3>2
  <2>4. ParserTypes'
    <3>1. start' = e + 1 /\ pos' = e + 1 /\ start' - 1 = e
      BY <1>0, <2>1
    <3>2. /\ pc' \in {"run", "done", "thrown"}
          /\ pc' = "done" => start' = Len(file) + 2 /\ AtLineStart'
      <4>1. pc' = (IF r = EOF THEN "done" ELSE "run")
        BY <2>1
      <4>2. pc' \in {"run", "done", "thrown"} /\ (pc' = "done" => r = EOF)
        BY <4>1
      <4>3. r = EOF => start' = Len(file) + 2
        BY <1>0, <2>3, <3>1
      <4>4. AtLineStart'
        BY <2>1 DEF AtLineStart
      <4> QED
        BY <4>2, <4>3, <4>4
    <3>3. start' \in Nat /\ 1 <= start'
      BY <1>0, <3>1
    <3> QED
      BY <1>0, <2>1, <2>2, <3>1, <3>2, <3>3 DEF ParserTypes
  <2>5. LineInv'
    <3>1. CASE r = EOF
      BY <2>1, <3>1 DEF LineInv
    <3>2. CASE r # EOF
      <4>1. start' <= Len(file') + 1
        BY <1>0, <2>1, <2>3, <3>2
      <4>2. AtLineStart' /\ start' = e + 1 /\ file' = file /\ pos' = e + 1
        BY <2>1 DEF AtLineStart
      <4>3. PICK x \in (e + 1)..(Len(file) + 1) :
              EndsAt(file, e + 1, x) /\ SubSeq(file, e + 1, x - 1) \in Seq(Chars)
        <5>1. e + 1 \in Nat /\ 1 <= e + 1 /\ e + 1 <= Len(file) + 1
          BY <1>0, <4>1, <4>2
        <5> QED
          BY <1>0, <5>1, LineHasEnd
      <4>4. Read(SubSeq(file, e + 1, x - 1), 0)'
        <5> SUFFICES ASSUME NEW k, k = SubSeq(file, e + 1, x - 1) PROVE Read(k, 0)'
          BY <4>2
        <5> QED
          BY <4>2, <4>3, NothingRead
      <4>5. EndsAt(file, start, x)' /\ x \in start'..(Len(file') + 1) /\ pos' <= x
        BY <1>0, <4>2, <4>3
      <4>6. Read(SubSeq(file, start, x - 1), pos - start)'
        <5>1. pos' - start' = 0 /\ start' = e + 1
          BY <1>0, <4>2
        <5> QED
          BY <4>4, <5>1
      <4> QED
        BY <4>5, <4>6 DEF LineInv
    <3> QED
      BY <3>1, <3>2
  <2>6. ContentInv'
    <3>1. rel' = rel \cup (newItems \X newTags)
      BY <2>1 DEF Collection!Add
    <3>2. newItems \X newTags = Meaning(l)
      BY LineMeans
    <3>3. Adjacent(file, start - 1, e)
      <4>1. ASSUME NEW q \in Ends(file), start - 1 < q, q < e PROVE FALSE
        <5>1. q \in start..(e - 1) /\ q \in DOMAIN file /\ file[q] = Newline
          BY <1>0, <4>1 DEF Ends
        <5> QED
          BY <5>1 DEF EndsAt
      <4> QED
        BY <1>0, <4>1 DEF Adjacent
    <3>4. (start - 1) + 1 = start
      BY <1>0
    <3>5. LinesBefore(file, e + 1) = LinesBefore(file, start) \cup {l}
      BY <1>0, <2>2, <3>3, <3>4, LinesGrow
    <3>6. rel = UNION {Meaning(x) : x \in LinesBefore(file, start)}
      BY DEF ParserInv, ContentInv
    <3> DEFINE Old == LinesBefore(file, start)
               New == LinesBefore(file, e + 1)
    <3>7. rel' = UNION {Meaning(x) : x \in New}
      <4> HIDE DEF Old, New
      <4>1. rel = UNION {Meaning(x) : x \in Old} /\ New = Old \cup {l} /\ rel' = rel \cup Meaning(l)
        BY <3>1, <3>2, <3>5, <3>6 DEF Old, New
      <4> QED
        BY <4>1
    <3>8. LinesBefore(file, start)' = New
      BY <2>1
    <3> QED
      BY <3>7, <3>8 DEF ContentInv
  <2> QED
    BY <2>4, <2>5, <2>6 DEF ParserInv
<1> QED
  BY <1>1, <1>2

THEOREM ParserInductive == ParserInv /\ [Next]_vars => ParserInv'
<1> SUFFICES ASSUME ParserInv, [Next]_vars PROVE ParserInv'
  OBVIOUS
<1>1. CASE UNCHANGED vars
  <2>1. ParserTypes' /\ ContentInv'
    BY <1>1 DEF ParserInv, ParserTypes, ContentInv, AtLineStart, vars, element, line
  <2>2. LineInv'
    BY <1>1, LineStays DEF ParserInv, vars
  <2> QED
    BY <2>1, <2>2 DEF ParserInv
<1>2. CASE Next
  <2>0. pc = "run"
    BY <1>2 DEF Next, AtNewline, AtEOF, LSpace, Item, ISpace, ISep, TSpace, ReadError, In
  <2>1. PICK e \in start..(Len(file) + 1) :
          /\ EndsAt(file, start, e) /\ pos <= e
          /\ Read(SubSeq(file, start, e - 1), pos - start)
    BY <2>0 DEF ParserInv, LineInv
  <2> SUFFICES ASSUME NEW l, l = SubSeq(file, start, e - 1), NEW n, n = pos - start
               PROVE  ParserInv'
    OBVIOUS
  <2>2. /\ l \in Seq(Chars) /\ Len(l) = e - start /\ n \in 0..Len(l)
        /\ n < Len(l) => c = l[n + 1] /\ c \notin {Newline, EOF}
        /\ n = Len(l) => pos = e /\ c \in {Newline, EOF}
    BY <2>1, LineFacts DEF ParserInv
  <2>3. Read(l, n)
    BY <2>1
  <2>4. start \in Nat /\ pos \in Nat /\ start <= pos /\ e \in Int /\ Len(l) \in Nat /\ n \in Nat
    BY <2>2 DEF ParserInv, ParserTypes
  <2>5. CASE ReadError
    BY <2>0, <2>5, ThrowKeeps DEF ReadError
  <2>6. CASE AtNewline \/ AtEOF
    <3>1. c \in {Newline, EOF}
      BY <2>6 DEF AtNewline, AtEOF
    <3>2. n = Len(l) /\ pos = e
      BY <2>2, <2>4, <3>1
    <3>3. Throw \/ EndLine(c)
      BY <2>6 DEF AtNewline, AtEOF
    <3> QED
      BY <2>0, <2>1, <2>2, <2>3, <3>2, <3>3, ThrowKeeps, EndLineKeeps
  <2>7. CASE LSpace \/ Item \/ ISpace \/ ISep \/ TSpace
    <3>1. n < Len(l) /\ c = l[n + 1]
      <4>1. c \notin {Newline, EOF}
        BY <2>7 DEF LSpace, Item, ISpace, ISep, TSpace, In
      <4> QED
        BY <2>2, <2>4, <4>1
    <3>2. Throw \/ GoesOn(l, n) \/ Delivers(l, n)
      <4>1. PICK b \in 0..n : /\ b \in Cuts(l)
                              /\ InSpace(l, n, b) \/ InWord(l, n, b)
                              /\ OnlyItems(l, b) \/ WithTags(l, b)
        BY <2>3 DEF Read
      <4>2. Collected(l, b)
        BY <4>1 DEF Collected
      <4>3. CASE InSpace(l, n, b)
        <5>1. LSpace
          BY <2>7, <4>3 DEF InSpace, LSpace, Item, ISpace, ISep, TSpace, In
        <5> QED
          BY <2>2, <2>4, <3>1, <4>1, <4>2, <4>3, <5>1, LSpaceStep
      <4>4. CASE InWord(l, n, b)
        <5>1. PICK f \in (b + 1)..n : \E g \in f..n :
                /\ Word(l, b, f, g) /\ SliceOf(item, l, f, g)
                /\ InItem(l, n, g) \/ InISpace(l, n, g) \/ InISep(l, n, g) \/ InTSpace(l, n, g)
          BY <4>4 DEF InWord
        <5>2. PICK g \in f..n :
                /\ Word(l, b, f, g) /\ SliceOf(item, l, f, g)
                /\ InItem(l, n, g) \/ InISpace(l, n, g) \/ InISep(l, n, g) \/ InTSpace(l, n, g)
          BY <5>1
        <5>3. f \in Int /\ g \in Int /\ WordRead(l, n, b, f, g)
          BY <2>4, <5>2 DEF WordRead
        <5>4. CASE InItem(l, n, g)
          <6>1. Item
            BY <2>7, <5>4 DEF InItem, LSpace, Item, ISpace, ISep, TSpace, In
          <6> QED
            BY <2>2, <2>4, <3>1, <4>1, <4>2, <5>3, <5>4, <6>1, ItemStep
        <5>5. CASE InISpace(l, n, g)
          <6>1. ISpace
            BY <2>7, <5>5 DEF InISpace, LSpace, Item, ISpace, ISep, TSpace, In
          <6> QED
            BY <2>2, <2>4, <3>1, <4>1, <4>2, <5>3, <5>5, <6>1, ISpaceStep
        <5>6. CASE InISep(l, n, g)
          <6>1. ISep
            BY <2>7, <5>6 DEF InISep, LSpace, Item, ISpace, ISep, TSpace, In
          <6> QED
            BY <2>2, <2>4, <3>1, <4>1, <4>2, <5>3, <5>6, <6>1, ISepStep
        <5>7. CASE InTSpace(l, n, g)
          <6>1. TSpace
            BY <2>7, <5>7 DEF InTSpace, LSpace, Item, ISpace, ISep, TSpace, In
          <6> QED
            BY <2>2, <2>4, <3>1, <4>1, <4>2, <5>3, <5>7, <6>1, TSpaceStep
        <5> QED
          BY <5>2, <5>4, <5>5, <5>6, <5>7
      <4> QED
        BY <4>1, <4>3, <4>4
    <3>3. CASE GoesOn(l, n)
      <4>1. n + 1 \in Nat /\ pos' = start + (n + 1) /\ start + (n + 1) <= e
        BY <2>2, <2>4, <3>1, <3>3 DEF GoesOn
      <4> QED
        BY <2>0, <2>1, <3>3, <4>1, InLineKeeps DEF GoesOn
    <3>4. CASE Delivers(l, n)
      <4>1. pos' = start + n /\ start + n <= e
        BY <2>2, <2>4, <3>1, <3>4 DEF Delivers
      <4> QED
        BY <2>0, <2>1, <2>4, <3>4, <4>1, InLineKeeps DEF Delivers
    <3> QED
      BY <2>0, <3>2, <3>3, <3>4, ThrowKeeps
  <2> QED
    BY <1>2, <2>5, <2>6, <2>7 DEF Next
<1> QED
  BY <1>1, <1>2

-----------------------------------------------------------------------------
(* The properties of the parser.                                           *)

LEMMA ReadSound ==
  ASSUME NEW l \in Seq(Chars), NEW n \in 0..Len(l), Read(l, n)
  PROVE  /\ AutomatonSound
         /\ tagset # {} \/ state = "TAGS" => itemset # {}
<1>1. PICK b \in 0..n : /\ b \in Cuts(l)
                        /\ InSpace(l, n, b) \/ InWord(l, n, b)
                        /\ OnlyItems(l, b) \/ WithTags(l, b)
  BY DEF Read
<1>2. tagset # {} \/ state = "TAGS" => itemset # {}
  BY <1>1 DEF OnlyItems, WithTags
<1>3. CASE InSpace(l, n, b)
  BY <1>2, <1>3 DEF InSpace, AutomatonSound
<1>4. CASE InWord(l, n, b)
  <2>1. PICK f \in (b + 1)..n : \E g \in f..n :
          /\ Word(l, b, f, g) /\ SliceOf(item, l, f, g)
          /\ InItem(l, n, g) \/ InISpace(l, n, g) \/ InISep(l, n, g) \/ InTSpace(l, n, g)
    BY <1>4 DEF InWord
  <2>2. PICK g \in f..n :
          /\ Word(l, b, f, g) /\ SliceOf(item, l, f, g)
          /\ InItem(l, n, g) \/ InISpace(l, n, g) \/ InISep(l, n, g) \/ InTSpace(l, n, g)
    BY <2>1
  <2>3. item # <<>>
    BY <2>2 DEF SliceOf
  <2>4. lex # "LSPACE"
    BY <2>2 DEF InItem, InISpace, InISep, InTSpace
  <2>5. sepchar # NoSep <=> lex \in {"ISEP", "TSPACE"}
    <3>1. CASE InItem(l, n, g) \/ InISpace(l, n, g)
      BY <3>1 DEF InItem, InISpace
    <3>2. CASE InISep(l, n, g)
      <4>1. g + 1 \in (g + 1)..n
        BY <3>2 DEF InISep
      <4>2. sepchar \in Seps
        BY <3>2, <4>1 DEF InISep
      <4> QED
        BY <3>2, <4>2, CharsApart DEF InISep
    <3>3. CASE InTSpace(l, n, g)
      <4>1. PICK k \in (g + 1)..n : Cut(l, k) /\ sepchar = l[k]
        BY <3>3 DEF InTSpace
      <4>2. k \in 1..Len(l)
        OBVIOUS
      <4>3. sepchar \in Seps
        BY <4>1, <4>2, CutFacts
      <4> QED
        BY <3>3, <4>3, CharsApart DEF InTSpace
    <3> QED
      BY <2>2, <3>1, <3>2, <3>3
  <2> QED
    BY <1>2, <2>3, <2>4, <2>5 DEF AutomatonSound
<1> QED
  BY <1>1, <1>3, <1>4

LEMMA InvImpliesIndependent == ParserInv => LinesIndependent
<1> SUFFICES ASSUME ParserInv PROVE LinesIndependent
  OBVIOUS
<1>1. rel = UNION {Meaning(l) : l \in LinesBefore(file, start)}
  BY DEF ParserInv, ContentInv
<1>2. AutomatonSound /\ (tagset # {} \/ state = "TAGS" => itemset # {})
  <2>1. CASE pc = "done"
    BY <2>1 DEF ParserInv, ParserTypes, AtLineStart, AutomatonSound
  <2>2. CASE pc # "done"
    <3>1. PICK e \in start..(Len(file) + 1) :
            /\ EndsAt(file, start, e) /\ pos <= e
            /\ Read(SubSeq(file, start, e - 1), pos - start)
      BY <2>2 DEF ParserInv, LineInv
    <3>2. /\ SubSeq(file, start, e - 1) \in Seq(Chars)
          /\ pos - start \in 0..Len(SubSeq(file, start, e - 1))
      BY <3>1, LineFacts DEF ParserInv
    <3> QED
      BY <3>1, <3>2, ReadSound
  <2> QED
    BY <2>1, <2>2
<1> QED
  BY <1>1, <1>2 DEF LinesIndependent

(***************************************************************************)
(* Whatever the file holds, the collection is at every moment what the     *)
(* lines read so far mean, each on its own: the automaton of parseElement  *)
(* (TextFormat.cc:47-162) with its pushed-back characters and remembered   *)
(* separators cuts a line where its declarative meaning cuts it, and parse *)
(* (168-216) lets nothing of a line reach the next.                        *)
(***************************************************************************)
THEOREM LinesAreIndependent == Spec => []LinesIndependent
BY ParserInit, ParserInductive, InvImpliesIndependent, PTL DEF Spec

-----------------------------------------------------------------------------
(* Loading.                                                                *)

(* Nothing is in the collection before the parse and nothing changes after *)
(* it.  As long as no replacement of the file raced or was blurred, what   *)
(* is open, or was loaded, is the edition at the pathname, or that is      *)
(* newer than the timestamp.                                               *)
PhaseInv ==
  /\ phase \in {"exists", "open", "parse", "stamp", "done", "thrown"}
  /\ in # 0 <=> phase = "parse"
  /\ phase \in {"exists", "open"} => rel = {}
  /\ loaded # 0 => phase \in {"stamp", "done"} /\ pc = "done"
  /\ phase = "stamp" => loaded # 0
  /\ phase = "done" /\ loaded = 0 => rel = {}
  /\ m_timestamp # 0 => phase = "done" /\ loaded # 0

DiskInv ==
  /\ disk \in [edition : Nat, time : Nat] /\ m_timestamp \in Nat
  /\ disk = Removed \/ (disk.edition # 0 /\ disk.time # 0)
  /\ raced \in BOOLEAN /\ blurred \in BOOLEAN

FreshInv ==
  /\ phase = "parse" /\ ~raced => in = disk.edition
  /\ phase = "stamp" /\ ~raced => loaded = disk.edition
  /\ phase = "done" /\ loaded # 0 => m_timestamp # 0 \/ raced
  /\ phase = "done" /\ loaded # 0 /\ ~raced /\ ~blurred =>
       disk = Removed \/ m_timestamp < disk.time \/ loaded = disk.edition
  /\ ~raced /\ phase \in {"parse", "stamp"} => disk # Removed
  /\ phase = "done" /\ loaded # 0 /\ ~raced /\ ~blurred /\ disk # Removed =>
       m_timestamp <= disk.time

LoadInv == PhaseInv /\ DiskInv /\ FreshInv

LEMMA LoadInit == InitDebtags => LoadInv
<1> SUFFICES ASSUME InitDebtags PROVE LoadInv
  OBVIOUS
<1>1. /\ disk \in {Removed, [edition |-> 1, time |-> 1]} /\ phase \in {"exists", "open"}
      /\ in = 0 /\ loaded = 0 /\ m_timestamp = 0 /\ raced = FALSE /\ blurred = FALSE
      /\ rel = {}
  BY DEF InitDebtags, Init, Collection!Init
<1>2. PhaseInv
  BY <1>1 DEF PhaseInv
<1>3. DiskInv
  <2>1. raced \in BOOLEAN /\ blurred \in BOOLEAN
    BY <1>1, Zenon
  <2>2. disk \in [edition : Nat, time : Nat] /\ m_timestamp \in Nat
    BY <1>1 DEF Removed
  <2>3. disk = Removed \/ (disk.edition # 0 /\ disk.time # 0)
    BY <1>1
  <2> QED
    BY <2>1, <2>2, <2>3 DEF DiskInv
<1>4. FreshInv
  BY <1>1 DEF FreshInv
<1> QED
  BY <1>2, <1>3, <1>4 DEF LoadInv

LEMMA LoadStep == LoadInv /\ [NextDebtags]_<<vars, debtagsVars>> => LoadInv'
<1> SUFFICES ASSUME LoadInv, [NextDebtags]_<<vars, debtagsVars>> PROVE LoadInv'
  OBVIOUS
<1> USE DEF LoadInv
<1>1. CASE Exists
  <2>1. PhaseInv'
    BY <1>1 DEF Exists, PhaseInv, vars
  <2>2. DiskInv' /\ FreshInv'
    BY <1>1 DEF Exists, DiskInv, FreshInv, PhaseInv
  <2> QED
    BY <2>1, <2>2
<1>2. CASE Fopen
  <2>1. PhaseInv'
    BY <1>2 DEF Fopen, PhaseInv, DiskInv, vars
  <2>2. DiskInv' /\ FreshInv'
    BY <1>2 DEF Fopen, DiskInv, FreshInv, PhaseInv
  <2> QED
    BY <2>1, <2>2
<1>3. CASE FopenThrows
  <2>1. PhaseInv'
    BY <1>3 DEF FopenThrows, PhaseInv, vars
  <2>2. DiskInv' /\ FreshInv'
    BY <1>3 DEF FopenThrows, DiskInv, FreshInv, PhaseInv
  <2> QED
    BY <2>1, <2>2
<1>4. CASE Parse
  <2>1. phase = "parse" /\ UNCHANGED debtagsVars
    BY <1>4 DEF Parse
  <2>2. PhaseInv'
    BY <2>1 DEF PhaseInv, debtagsVars, loadVars
  <2>3. DiskInv' /\ FreshInv'
    BY <2>1 DEF DiskInv, FreshInv, debtagsVars, loadVars
  <2> QED
    BY <2>2, <2>3
<1>5. CASE ParseReturns
  <2>1. PhaseInv'
    BY <1>5 DEF ParseReturns, PhaseInv, vars
  <2>2. DiskInv' /\ FreshInv'
    BY <1>5 DEF ParseReturns, DiskInv, FreshInv, PhaseInv
  <2> QED
    BY <2>1, <2>2
<1>6. CASE ParseThrows
  <2>1. PhaseInv'
    BY <1>6 DEF ParseThrows, PhaseInv, vars
  <2>2. DiskInv' /\ FreshInv'
    BY <1>6 DEF ParseThrows, DiskInv, FreshInv, PhaseInv
  <2> QED
    BY <2>1, <2>2
<1>7. CASE Stamp
  <2>1. PhaseInv'
    BY <1>7 DEF Stamp, PhaseInv, vars
  <2>2. DiskInv' /\ FreshInv'
    BY <1>7 DEF Stamp, DiskInv, FreshInv, PhaseInv, Removed
  <2> QED
    BY <2>1, <2>2
<1>8. CASE Replace
  <2>1. PhaseInv'
    BY <1>8 DEF Replace, PhaseInv, vars, loadVars
  <2>2. UNCHANGED loadVars /\ raced' = (raced \/ phase \in {"parse", "stamp"})
        /\ blurred' = (blurred \/ disk'.time = disk.time)
    BY <1>8 DEF Replace
  <2>3. raced' \in BOOLEAN /\ blurred' \in BOOLEAN
    BY <2>2, Zenon DEF DiskInv
  <2>4. CASE disk' = Removed
    <3>1. DiskInv'
      BY <2>2, <2>3, <2>4 DEF DiskInv, Removed, loadVars
    <3>2. FreshInv'
      BY <2>2, <2>4 DEF FreshInv, DiskInv, PhaseInv, loadVars
    <3> QED
      BY <2>1, <3>1, <3>2
  <2>5. CASE \E t \in {disk.time, disk.time + 1} :
               disk' = [edition |-> disk.edition + 1, time |-> t]
    <3>0. disk # Removed /\ disk.edition \in Nat /\ disk.time \in Nat /\ disk.time # 0
      BY <1>8 DEF Replace, DiskInv
    <3>1. DiskInv'
      <4>1. disk' \in [edition : Nat, time : Nat] /\ disk'.edition # 0 /\ disk'.time # 0
        BY <2>5, <3>0
      <4> QED
        BY <2>2, <2>3, <4>1 DEF DiskInv, loadVars
    <3>2. disk'.time = disk.time \/ disk'.time = disk.time + 1
      BY <2>5
    <3>3. /\ ~raced' => ~raced /\ phase \notin {"parse", "stamp"}
          /\ ~blurred' => ~blurred /\ disk'.time # disk.time
      BY <2>2, Zenon DEF DiskInv
    <3>4. /\ phase' = phase /\ in' = in /\ loaded' = loaded /\ m_timestamp' = m_timestamp
          /\ m_timestamp \in Nat
      BY <2>2 DEF loadVars, DiskInv
    <3>5. ASSUME phase = "done", loaded # 0, ~raced', ~blurred'
          PROVE  m_timestamp < disk'.time
      <4>1. m_timestamp <= disk.time
        BY <3>0, <3>3, <3>5 DEF FreshInv
      <4> QED
        BY <3>0, <3>2, <3>3, <3>4, <3>5, <4>1
    <3>6. phase = "done" /\ loaded # 0 => m_timestamp # 0 \/ raced'
      BY <2>2, Zenon DEF FreshInv
    <3>7. ASSUME ~raced', phase \in {"parse", "stamp"} PROVE FALSE
      BY <3>3, <3>7
    <3>8. /\ phase' = "done" /\ loaded' # 0 /\ ~raced' /\ ~blurred' => m_timestamp' < disk'.time
          /\ phase' = "done" /\ loaded' # 0 /\ ~raced' /\ ~blurred' => m_timestamp' <= disk'.time
      BY <3>0, <3>2, <3>4, <3>5
    <3>9. FreshInv'
      BY <3>4, <3>6, <3>7, <3>8, Zenon DEF FreshInv
    <3> QED
      BY <2>1, <3>1, <3>9
  <2> QED
    BY <1>8, <2>4, <2>5 DEF Replace
<1>9. CASE UNCHANGED <<vars, debtagsVars>>
  BY <1>9 DEF PhaseInv, DiskInv, FreshInv, vars, debtagsVars, loadVars
<1> QED
  BY <1>1, <1>2, <1>3, <1>4, <1>5, <1>6, <1>7, <1>8, <1>9 DEF NextDebtags

(* The parser takes a step or none. *)
LEMMA ParserUnderDebtags ==
  /\ InitDebtags => ParserInv
  /\ ParserInv /\ [NextDebtags]_<<vars, debtagsVars>> => ParserInv'
<1>1. InitDebtags => ParserInv
  BY ParserInit DEF InitDebtags
<1>2. [NextDebtags]_<<vars, debtagsVars>> => [Next]_vars
  BY DEF NextDebtags, Exists, Fopen, FopenThrows, Parse, ParseReturns, ParseThrows, Stamp, Replace
<1> QED
  BY <1>1, <1>2, ParserInductive

LEMMA InvImpliesLoaded == ParserInv /\ LoadInv => LoadedOrNothing
<1> SUFFICES ASSUME ParserInv, LoadInv PROVE LoadedOrNothing
  OBVIOUS
<1>1. phase = "done" /\ loaded = 0 => rel = {} /\ ~hasData
  BY DEF LoadInv, PhaseInv, hasData
<1>2. ASSUME phase = "done", loaded # 0
      PROVE  /\ rel = UNION {Meaning(l) : l \in LinesBefore(file, Len(file) + 2)}
             /\ hasData \/ raced
  <2>1. pc = "done" /\ start = Len(file) + 2
    BY <1>2 DEF LoadInv, PhaseInv, ParserInv, ParserTypes
  <2>2. rel = UNION {Meaning(l) : l \in LinesBefore(file, start)}
    BY DEF ParserInv, ContentInv
  <2>3. hasData \/ raced
    BY <1>2 DEF LoadInv, FreshInv, hasData
  <2> QED
    BY <2>1, <2>2, <2>3
<1>3. hasData /\ m_timestamp = disk.time => loaded = disk.edition \/ raced \/ blurred
  BY DEF LoadInv, PhaseInv, FreshInv, DiskInv, hasData, Removed
<1>4. in # 0 <=> phase = "parse"
  BY DEF LoadInv, PhaseInv
<1> QED
  BY <1>1, <1>2, <1>3, <1>4 DEF LoadedOrNothing

(***************************************************************************)
(* An object of Debtags (debtags.cc:42-75) holds all of the file it was    *)
(* loaded from, for every file and however often another process replaces  *)
(* it; its timestamp vouches for an edition only if that is the one it     *)
(* holds, unless a replacement raced the load or kept the mtime.           *)
(***************************************************************************)
THEOREM LoadIsAllOrNothing == SpecDebtags => []LoadedOrNothing
<1>1. SpecDebtags => []ParserInv
  BY ParserUnderDebtags, PTL DEF SpecDebtags
<1>2. SpecDebtags => []LoadInv
  BY LoadInit, LoadStep, PTL DEF SpecDebtags
<1> QED
  BY <1>1, <1>2, InvImpliesLoaded, PTL

=============================================================================

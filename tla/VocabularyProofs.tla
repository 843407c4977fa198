-------------------------- MODULE VocabularyProofs --------------------------
(***************************************************************************)
(* Proofs about ept::debtags::Vocabulary, for any files, any number of     *)
(* loads and any tags.                                                     *)
(***************************************************************************)
EXTENDS Vocabulary, FiniteSetTheorems, WellFoundedInduction, TLAPS

-----------------------------------------------------------------------------
(* Sequences of anything.                                                  *)

IsSeq(s) == \E S : s \in Seq(S)

Elems(s) == {s[i] : i \in 1..Len(s)}

LEMMA SeqFacts ==
  ASSUME NEW s, IsSeq(s)
  PROVE  Len(s) \in Nat /\ DOMAIN s = 1..Len(s) /\ s \in Seq(Elems(s))
<1>1. PICK S : s \in Seq(S)
  BY DEF IsSeq
<1>2. Len(s) \in Nat /\ DOMAIN s = 1..Len(s)
  BY <1>1
<1>3. s \in [1..Len(s) -> Elems(s)]
  BY <1>1 DEF Elems
<1> QED
  BY <1>2, <1>3

LEMMA AppendFacts ==
  ASSUME NEW s, IsSeq(s), NEW x
  PROVE  /\ IsSeq(Append(s, x)) /\ Len(Append(s, x)) = Len(s) + 1
         /\ Append(s, x)[Len(s) + 1] = x
         /\ \A i \in 1..Len(s) : Append(s, x)[i] = s[i]
<1>1. PICK S : s \in Seq(S)
  BY DEF IsSeq
<1> DEFINE T == S \cup {x}
<1>2. s \in Seq(T) /\ x \in T
  BY <1>1
<1> HIDE DEF T
<1>3. Append(s, x) \in Seq(T)
  BY <1>2
<1> QED
  BY <1>2, <1>3 DEF IsSeq

LEMMA TailFacts ==
  ASSUME NEW s, IsSeq(s), s # <<>>
  PROVE  /\ IsSeq(Tail(s)) /\ Len(s) > 0 /\ Len(Tail(s)) = Len(s) - 1
         /\ Head(s) = s[1]
         /\ \A i \in 1..Len(Tail(s)) : Tail(s)[i] = s[i + 1]
<1>1. PICK S : s \in Seq(S)
  BY DEF IsSeq
<1>2. Tail(s) \in Seq(S)
  BY <1>1
<1> QED
  BY <1>1, <1>2 DEF IsSeq

LEMMA ConcatFacts ==
  ASSUME NEW s, IsSeq(s), NEW t, IsSeq(t)
  PROVE  IsSeq(s \o t) /\ Elems(s \o t) = Elems(s) \cup Elems(t)
<1>1. PICK S : s \in Seq(S)
  BY DEF IsSeq
<1>2. PICK T : t \in Seq(T)
  BY DEF IsSeq
<1> DEFINE U == S \cup T
<1>3. s \in Seq(U) /\ t \in Seq(U)
  BY <1>1, <1>2
<1> HIDE DEF U
<1>4. s \o t \in Seq(U) /\ Len(s \o t) = Len(s) + Len(t)
      /\ (\A i \in 1..Len(s) : (s \o t)[i] = s[i])
      /\ \A i \in 1..Len(t) : (s \o t)[Len(s) + i] = t[i]
  BY <1>3
<1>5. Len(s) \in Nat /\ Len(t) \in Nat
  BY <1>3
<1>6. Elems(s \o t) \subseteq Elems(s) \cup Elems(t)
  <2>1. SUFFICES ASSUME NEW i \in 1..(Len(s) + Len(t))
                 PROVE  (s \o t)[i] \in Elems(s) \cup Elems(t)
    BY <1>4 DEF Elems
  <2>2. CASE i \in 1..Len(s)
    BY <1>4, <2>2 DEF Elems
  <2>3. CASE i \notin 1..Len(s)
    <3>1. i - Len(s) \in 1..Len(t) /\ i = Len(s) + (i - Len(s))
      BY <1>5, <2>3
    <3>2. (s \o t)[i] = t[i - Len(s)]
      BY <1>4, <3>1
    <3> QED
      BY <3>1, <3>2 DEF Elems
  <2> QED
    BY <2>2, <2>3
<1>7. Elems(s) \subseteq Elems(s \o t)
  <2>1. SUFFICES ASSUME NEW i \in 1..Len(s)
                 PROVE  s[i] \in Elems(s \o t)
    BY DEF Elems
  <2>2. i \in 1..Len(s \o t) /\ (s \o t)[i] = s[i]
    BY <1>4, <1>5
  <2> QED
    BY <2>2 DEF Elems
<1>8. Elems(t) \subseteq Elems(s \o t)
  <2>1. SUFFICES ASSUME NEW i \in 1..Len(t)
                 PROVE  t[i] \in Elems(s \o t)
    BY DEF Elems
  <2>2. Len(s) + i \in 1..Len(s \o t) /\ (s \o t)[Len(s) + i] = t[i]
    BY <1>4, <1>5
  <2> QED
    BY <2>2 DEF Elems
<1> QED
  BY <1>4, <1>6, <1>7, <1>8 DEF IsSeq

LEMMA LeastNatural ==
  ASSUME NEW T \in SUBSET Nat, T # {}
  PROVE  \E n \in T : \A m \in T : n <= m
<1>1. PICK n \in T : \A m \in T : <<m, n>> \notin OpToRel(<, Nat)
  BY WFMin, NatLessThanWellFounded, Zenon
<1>2. \A m \in T : ~(m < n)
  BY <1>1, Zenon DEF OpToRel
<1> QED
  BY <1>2

(* FlattenSeq is by a recursive function; what it gives is shown for the   *)
(* least place where it would be otherwise.                                *)
Step(ss, g, i) == IF i = 1 THEN ss[i] ELSE g[i - 1] \o ss[i]

LEMMA FlattenExists ==
  ASSUME NEW ss, NEW N \in Nat
  PROVE  \E g : g = [i \in 1..N |-> Step(ss, g, i)]
<1> DEFINE Q(n) == \E g : g = [i \in 1..n |-> Step(ss, g, i)]
           T == {n \in Nat : ~Q(n)}
<1>1. SUFFICES ASSUME T # {}
               PROVE  FALSE
  OBVIOUS
<1>2. PICK n \in T : \A m \in T : n <= m
  BY <1>1, LeastNatural
<1>3. n \in Nat /\ ~Q(n)
  OBVIOUS
<1>4. n # 0
  <2>1. SUFFICES ASSUME n = 0
                 PROVE  FALSE
    OBVIOUS
  <2> DEFINE g == [i \in 1..0 |-> ss]
  <2>2. g = [i \in 1..0 |-> Step(ss, g, i)]
    OBVIOUS
  <2>3. Q(0)
    BY <2>2
  <2> QED
    BY <1>3, <2>1, <2>3
<1>5. n - 1 \in Nat /\ Q(n - 1)
  BY <1>2, <1>3, <1>4
<1>6. PICK g : g = [i \in 1..(n - 1) |-> Step(ss, g, i)]
  BY <1>5
<1> DEFINE h == [i \in 1..n |-> IF i = n THEN Step(ss, g, n) ELSE g[i]]
<1>7. \A i \in 1..n : h[i] = Step(ss, h, i)
  <2>1. TAKE i \in 1..n
  <2>2. CASE i = n
    <3>1. h[i] = Step(ss, g, n)
      BY <2>2
    <3>2. n # 1 => h[n - 1] = g[n - 1]
      BY <1>3, <1>4
    <3> QED
      BY <2>2, <3>1, <3>2 DEF Step
  <2>3. CASE i # n
    <3>1. i \in 1..(n - 1)
      BY <1>3, <2>3
    <3>2. h[i] = g[i] /\ g[i] = Step(ss, g, i)
      BY <1>6, <2>3, <3>1
    <3>3. i # 1 => h[i - 1] = g[i - 1]
      BY <1>3, <3>1
    <3> QED
      BY <3>2, <3>3 DEF Step
  <2> QED
    BY <2>2, <2>3
<1>8. h = [i \in 1..n |-> Step(ss, h, i)]
  BY <1>7
<1> HIDE DEF h
<1>9. Q(n)
  BY <1>8
<1> QED
  BY <1>3, <1>9

LEMMA FlattenFacts ==
  ASSUME NEW ss, IsSeq(ss), \A i \in 1..Len(ss) : IsSeq(ss[i])
  PROVE  IsSeq(FlattenSeq(ss)) /\ Elems(FlattenSeq(ss)) = UNION {Elems(ss[i]) : i \in 1..Len(ss)}
<1> DEFINE N == Len(ss)
           flat == CHOOSE g : g = [i \in 1..N |-> Step(ss, g, i)]
<1>1. N \in Nat
  BY SeqFacts
<1>2. flat = [i \in 1..N |-> Step(ss, flat, i)]
  BY <1>1, FlattenExists
<1>3. FlattenSeq(ss) = IF N = 0 THEN ss ELSE flat[N]
  BY DEF FlattenSeq, Step
<1> HIDE DEF flat, N
<1>4. \A i \in 1..N : flat[i] = Step(ss, flat, i)
  BY <1>2
<1> DEFINE U(n) == UNION {Elems(ss[i]) : i \in 1..n}
<1>0. \A m, y : y \in U(m) <=> \E i \in 1..m : y \in Elems(ss[i])
  OBVIOUS
<1> HIDE DEF U
<1> DEFINE Q(n) == IsSeq(flat[n]) /\ Elems(flat[n]) = U(n)
           T == {n \in 1..N : ~Q(n)}
<1>5. T = {}
  <2>1. SUFFICES ASSUME T # {}
                 PROVE  FALSE
    OBVIOUS
  <2>2. T \in SUBSET Nat
    BY <1>1
  <2>3. PICK n \in T : \A m \in T : n <= m
    BY <2>1, <2>2, LeastNatural
  <2>4. n \in 1..N /\ ~Q(n) /\ IsSeq(ss[n])
    BY DEF N
  <2>5. CASE n = 1
    <3>1. flat[n] = ss[n]
      BY <1>4, <2>4, <2>5 DEF Step
    <3>2. U(n) = Elems(ss[n])
      <4>1. \A i : i \in 1..n <=> i = n
        BY <2>5
      <4>2. \A y : (\E i \in 1..n : y \in Elems(ss[i])) <=> y \in Elems(ss[n])
        BY <4>1
      <4> QED
        BY <1>0, <4>2
    <3> QED
      BY <2>4, <3>1, <3>2
  <2>6. CASE n # 1
    <3>1. n - 1 \in 1..N /\ n \in Nat
      BY <1>1, <2>4, <2>6
    <3>2. Q(n - 1)
      BY <2>3, <3>1
    <3>3. flat[n] = flat[n - 1] \o ss[n]
      BY <1>4, <2>4, <2>6 DEF Step
    <3>4. IsSeq(flat[n]) /\ Elems(flat[n]) = Elems(flat[n - 1]) \cup Elems(ss[n])
      BY <2>4, <3>2, <3>3, ConcatFacts
    <3>5. \A i : i \in 1..n <=> i \in 1..(n - 1) \/ i = n
      BY <3>1, <2>4
    <3>6. U(n) = U(n - 1) \cup Elems(ss[n])
      <4>1. \A y : (\E i \in 1..n : y \in Elems(ss[i]))
                    <=> (\E i \in 1..(n - 1) : y \in Elems(ss[i])) \/ y \in Elems(ss[n])
        BY <3>5
      <4> QED
        BY <1>0, <4>1
    <3> QED
      BY <2>4, <3>2, <3>4, <3>6
  <2> QED
    BY <2>5, <2>6
<1>6. CASE N = 0
  <2>1. FlattenSeq(ss) = ss /\ Len(ss) = 0
    BY <1>3, <1>6 DEF N
  <2>2. \A i : i \notin 1..0
    OBVIOUS
  <2> QED
    BY <2>1, <2>2 DEF Elems
<1>7. CASE N # 0
  <2>1. N \in 1..N
    BY <1>1, <1>7
  <2>2. Q(N) /\ FlattenSeq(ss) = flat[N]
    BY <1>3, <1>5, <1>7, <2>1
  <2> QED
    BY <2>2 DEF N, U
<1> QED
  BY <1>6, <1>7

(* SetToSeq lists a finite set. *)
LEMMA SetToSeqFacts ==
  ASSUME NEW S, IsFiniteSet(S)
  PROVE  IsSeq(SetToSeq(S)) /\ Elems(SetToSeq(S)) = S
<1> DEFINE n == Cardinality(S)
           s == SetToSeq(S)
<1>1. n \in Nat
  BY FS_CardinalityType
<1>2. \E f \in [1..n -> S] : IsInjective(f)
  <2>1. PICK f : f \in Bijection(1..n, S)
    BY FS_CardinalityType DEF ExistsBijection
  <2> QED
    BY <2>1 DEF Bijection, Injection, IsInjective
<1>3. s \in [1..n -> S] /\ IsInjective(s)
  BY <1>2 DEF SetToSeq
<1> HIDE DEF s
<1>4. s \in Seq(S) /\ Len(s) = n
  BY <1>1, <1>3
<1>5. Elems(s) \subseteq S
  BY <1>3, <1>4 DEF Elems
<1>6. Cardinality(Elems(s)) = n
  <2>1. s \in Bijection(1..n, Elems(s))
    BY <1>3, <1>4 DEF Elems, Bijection, Injection, Surjection, IsInjective
  <2>2. ExistsBijection(1..n, Elems(s))
    BY <2>1 DEF ExistsBijection
  <2> QED
    BY <1>1, <2>2, FS_CountingElements
<1>7. Elems(s) = S
  BY <1>5, <1>6, FS_Subset
<1> QED
  BY <1>4, <1>7 DEF IsSeq, s

-----------------------------------------------------------------------------
(* Vocabularies.                                                           *)

IsFcn(f) == f = [x \in DOMAIN f |-> f[x]]

FacetShape(x) == x = [fields |-> x.fields, m_desc |-> x.m_desc, m_tags |-> x.m_tags]
TagShape(d) == d = [fields |-> d.fields, m_desc |-> d.m_desc]

(* What obtainFacet and obtainTag keep up: every tag is under its facet. *)
VocShape(v) ==
  /\ IsFcn(v) /\ IsFiniteSet(DOMAIN v)
  /\ \A f \in DOMAIN v :
       /\ FacetShape(v[f])
       /\ IsFcn(v[f].m_tags) /\ IsFiniteSet(DOMAIN v[f].m_tags)
       /\ \A t \in DOMAIN v[f].m_tags :
            TagShape(v[f].m_tags[t]) /\ t \in Tags /\ facetOf[t] = f

(* A record that is read as a tag has a name that getfacet takes, and a    *)
(* description is a sequence of lines.                                     *)
GoodRecord(r) ==
  /\ "Tag" \in DOMAIN r /\ "Facet" \notin DOMAIN r => r["Tag"] \in Tags
  /\ "Description" \in DOMAIN r => IsSeq(r["Description"])

GoodRecords(s) == IsSeq(s) /\ \A i \in 1..Len(s) : GoodRecord(s[i])

(* The map w is v with x for the key f. *)
Updated(v, f, x, w) ==
  /\ IsFcn(w) /\ DOMAIN w = DOMAIN v \cup {f}
  /\ w[f] = x
  /\ \A g \in DOMAIN v : g # f => w[g] = v[g]

LEMMA PutFacts == ASSUME NEW m, NEW k, NEW x PROVE Updated(m, k, x, Put(m, k, x))
BY DEF Put, IsFcn, Updated

LEMMA SameFacts == ASSUME NEW m, IsFcn(m), NEW k \in DOMAIN m PROVE Updated(m, k, m[k], m)
<1>1. DOMAIN m = DOMAIN m \cup {k}
  OBVIOUS
<1> QED
  BY <1>1 DEF Updated

(* The facet f, as it is or new. *)
FacetOr(v, f) == IF f \in DOMAIN v THEN v[f] ELSE newFacet
TagOr(v, t) ==
  LET x == FacetOr(v, facetOf[t]) IN IF t \in DOMAIN x.m_tags THEN x.m_tags[t] ELSE newTag

LEMMA NewShapes ==
  /\ FacetShape(newFacet) /\ IsFcn(newFacet.m_tags) /\ DOMAIN newFacet.m_tags = {}
  /\ newFacet.m_desc = <<>> /\ newFacet.fields = NoFields
  /\ TagShape(newTag) /\ newTag.m_desc = <<>> /\ newTag.fields = NoFields
  /\ DOMAIN NoFields = {}
BY DEF newFacet, newTag, NoFields, FacetShape, TagShape, IsFcn

LEMMA ObtainFacetFacts ==
  ASSUME NEW v, VocShape(v), NEW f
  PROVE  Updated(v, f, FacetOr(v, f), obtainFacet(v, f))
<1>1. CASE f \in DOMAIN v
  <2>1. obtainFacet(v, f) = v /\ FacetOr(v, f) = v[f]
    BY <1>1 DEF obtainFacet, FacetOr
  <2>2. Updated(v, f, v[f], v)
    BY <1>1, SameFacts DEF VocShape
  <2> QED
    BY <2>1, <2>2
<1>2. CASE f \notin DOMAIN v
  <2>1. obtainFacet(v, f) = Put(v, f, newFacet) /\ FacetOr(v, f) = newFacet
    BY <1>2 DEF obtainFacet, FacetOr
  <2> QED
    BY <2>1, PutFacts
<1> QED
  BY <1>1, <1>2

(* One round of read, for a record about a facet. *)
LEMMA MergedFacet ==
  ASSUME NEW v, VocShape(v), NEW r, "Facet" \in DOMAIN r
  PROVE  LET f == r["Facet"]
             x == FacetOr(v, f)
         IN  Updated(v, f, [fields |-> mergedFields(x.fields, r, "Facet"),
                              m_desc |-> x.m_desc, m_tags |-> x.m_tags], merged(v, r))
<1> DEFINE f == r["Facet"]
           x == FacetOr(v, f)
           y == [fields |-> mergedFields(x.fields, r, "Facet"), m_desc |-> x.m_desc, m_tags |-> x.m_tags]
           w == obtainFacet(v, f)
<1>1. Updated(v, f, x, w)
  BY ObtainFacetFacts
<1>2. FacetShape(x)
  BY NewShapes DEF FacetOr, VocShape
<1>3. merged(v, r) = [w EXCEPT ![f].fields = mergedFields(@, r, "Facet")]
  BY DEF merged
<1> HIDE DEF w, f
<1>4. IsFcn(w) /\ f \in DOMAIN w /\ w[f] = x
  BY <1>1 DEF Updated
<1>5. [x EXCEPT !.fields = mergedFields(@, r, "Facet")] = y
  BY <1>2 DEF FacetShape
<1>6. merged(v, r) = [w EXCEPT ![f] = y]
  BY <1>3, <1>4, <1>5
<1> HIDE DEF x, y
<1>7. Updated(v, f, y, merged(v, r))
  BY <1>1, <1>4, <1>6 DEF Updated, IsFcn
<1> QED
  BY <1>7 DEF f, x, y

(* For a record about a tag. *)
LEMMA MergedTag ==
  ASSUME NEW v, VocShape(v), NEW r, "Facet" \notin DOMAIN r, "Tag" \in DOMAIN r
  PROVE  LET t == r["Tag"]
             f == facetOf[t]
             x == FacetOr(v, f)
             d == TagOr(v, t)
         IN  \E ts :
               /\ Updated(x.m_tags, t, [fields |-> mergedFields(d.fields, r, "Tag"),
                                          m_desc |-> d.m_desc], ts)
               /\ Updated(v, f, [fields |-> x.fields, m_desc |-> x.m_desc, m_tags |-> ts], merged(v, r))
<1> DEFINE t == r["Tag"]
           f == facetOf[t]
           x == FacetOr(v, f)
           d == TagOr(v, t)
           w == obtainFacet(v, f)
           e == [fields |-> mergedFields(d.fields, r, "Tag"), m_desc |-> d.m_desc]
           us == IF t \in DOMAIN x.m_tags THEN x.m_tags ELSE Put(x.m_tags, t, newTag)
           y == [fields |-> x.fields, m_desc |-> x.m_desc, m_tags |-> us]
           u == obtainTag(v, t)
           ts == [us EXCEPT ![t] = e]
           z == [fields |-> x.fields, m_desc |-> x.m_desc, m_tags |-> ts]
<1>1. Updated(v, f, x, w)
  BY ObtainFacetFacts
<1>2. FacetShape(x) /\ IsFcn(x.m_tags)
  BY NewShapes DEF FacetOr, VocShape
<1>3. merged(v, r) = [u EXCEPT ![f].m_tags[t].fields = mergedFields(@, r, "Tag")]
  BY DEF merged
<1>4. u = IF t \in DOMAIN w[f].m_tags THEN w ELSE Put(w, f, [w[f] EXCEPT !.m_tags = Put(@, t, newTag)])
  BY DEF obtainTag
<1>5. d = IF t \in DOMAIN x.m_tags THEN x.m_tags[t] ELSE newTag
  BY DEF TagOr
<1>6. TagShape(d)
  BY <1>5, NewShapes DEF FacetOr, VocShape
<1> HIDE DEF f, t, w, u, x, d
<1>7. Updated(x.m_tags, t, d, us)
  <2>1. CASE t \in DOMAIN x.m_tags
    BY <1>2, <1>5, <2>1, SameFacts
  <2>2. CASE t \notin DOMAIN x.m_tags
    <3>1. d = newTag /\ us = Put(x.m_tags, t, newTag)
      BY <1>5, <2>2
    <3> QED
      BY <3>1, PutFacts
  <2> QED
    BY <2>1, <2>2
<1>8. Updated(v, f, y, u)
  <2>1. w[f] = x /\ f \in DOMAIN w
    BY <1>1 DEF Updated
  <2>2. CASE t \in DOMAIN x.m_tags
    <3>1. u = w /\ y = x
      BY <1>2, <1>4, <2>1, <2>2 DEF FacetShape
    <3> QED
      BY <1>1, <3>1
  <2>3. CASE t \notin DOMAIN x.m_tags
    <3>1. [x EXCEPT !.m_tags = Put(@, t, newTag)] = y
      BY <1>2, <2>3 DEF FacetShape
    <3>2. u = Put(w, f, y)
      BY <1>4, <2>1, <2>3, <3>1
    <3> HIDE DEF y
    <3>3. Updated(w, f, y, u)
      BY <3>2, PutFacts
    <3> QED
      BY <1>1, <3>3 DEF Updated
  <2> QED
    BY <2>2, <2>3
<1>9. IsFcn(u) /\ f \in DOMAIN u /\ u[f] = y /\ y.m_tags = us /\ t \in DOMAIN us /\ IsFcn(us) /\ us[t] = d
  BY <1>7, <1>8 DEF Updated
<1>10. [d EXCEPT !.fields = mergedFields(@, r, "Tag")] = e
  BY <1>6 DEF TagShape
<1> HIDE DEF us, e
<1>11. [us EXCEPT ![t].fields = mergedFields(@, r, "Tag")] = ts
  BY <1>9, <1>10
<1>12. [y EXCEPT !.m_tags[t].fields = mergedFields(@, r, "Tag")] = z
  BY <1>9, <1>11
<1> HIDE DEF y, ts, z
<1>13. merged(v, r) = [u EXCEPT ![f] = z]
  BY <1>3, <1>9, <1>12
<1>14. Updated(v, f, z, merged(v, r))
  BY <1>8, <1>9, <1>13 DEF Updated, IsFcn
<1>15. Updated(x.m_tags, t, e, ts)
  BY <1>7, <1>9 DEF ts, Updated, IsFcn
<1> QED
  BY <1>14, <1>15 DEF t, f, x, d, e, z

(* A record without a name changes nothing. *)
LEMMA MergedNone ==
  ASSUME NEW v, NEW r, "Facet" \notin DOMAIN r, "Tag" \notin DOMAIN r
  PROVE  merged(v, r) = v
BY DEF merged

LEMMA MergedShape ==
  ASSUME NEW v, VocShape(v), NEW r, GoodRecord(r)
  PROVE  VocShape(merged(v, r))
<1> DEFINE w == merged(v, r)
<1> SUFFICES VocShape(w)
  OBVIOUS
<1> HIDE DEF w
<1>0. /\ \A f \in DOMAIN v :
           /\ FacetShape(v[f])
           /\ IsFcn(v[f].m_tags) /\ IsFiniteSet(DOMAIN v[f].m_tags)
           /\ \A t \in DOMAIN v[f].m_tags :
                TagShape(v[f].m_tags[t]) /\ t \in Tags /\ facetOf[t] = f
      /\ IsFiniteSet(DOMAIN v)
  BY DEF VocShape
<1>1. ASSUME NEW f
      PROVE  LET x == FacetOr(v, f)
             IN  /\ FacetShape(x) /\ IsFcn(x.m_tags) /\ IsFiniteSet(DOMAIN x.m_tags)
                 /\ \A t \in DOMAIN x.m_tags : TagShape(x.m_tags[t]) /\ t \in Tags /\ facetOf[t] = f
  BY <1>0, NewShapes, FS_EmptySet DEF FacetOr
<1> DEFINE Good(f, y) ==
             /\ FacetShape(y)
             /\ IsFcn(y.m_tags) /\ IsFiniteSet(DOMAIN y.m_tags)
             /\ \A t \in DOMAIN y.m_tags : TagShape(y.m_tags[t]) /\ t \in Tags /\ facetOf[t] = f
<1>2. ASSUME NEW f, NEW y, Updated(v, f, y, w), Good(f, y)
      PROVE  VocShape(w)
  <2>1. IsFcn(w) /\ DOMAIN w = DOMAIN v \cup {f} /\ w[f] = y /\ \A g \in DOMAIN v : g # f => w[g] = v[g]
    BY <1>2 DEF Updated
  <2>2. IsFiniteSet(DOMAIN v \cup {f})
    BY <1>0, FS_AddElement
  <2>3. ASSUME NEW g \in DOMAIN w
        PROVE  /\ FacetShape(w[g])
               /\ IsFcn(w[g].m_tags) /\ IsFiniteSet(DOMAIN w[g].m_tags)
               /\ \A t \in DOMAIN w[g].m_tags :
                    TagShape(w[g].m_tags[t]) /\ t \in Tags /\ facetOf[t] = g
    BY <1>0, <1>2, <2>1
  <2> QED
    BY <2>1, <2>2, <2>3 DEF VocShape
<1>3. CASE "Facet" \in DOMAIN r
  <2> DEFINE f == r["Facet"]
             x == FacetOr(v, f)
             y == [fields |-> mergedFields(x.fields, r, "Facet"), m_desc |-> x.m_desc, m_tags |-> x.m_tags]
  <2>1. Updated(v, f, y, w)
    BY <1>3, MergedFacet DEF w
  <2>2. FacetShape(y) /\ y.m_tags = x.m_tags
    BY DEF FacetShape
  <2> HIDE DEF f, x, y
  <2>3. IsFcn(x.m_tags) /\ IsFiniteSet(DOMAIN x.m_tags)
        /\ \A t \in DOMAIN x.m_tags : TagShape(x.m_tags[t]) /\ t \in Tags /\ facetOf[t] = f
    BY <1>1 DEF x
  <2>4. Good(f, y)
    BY <2>2, <2>3
  <2> HIDE DEF Good
  <2> QED
    BY <1>2, <2>1, <2>4
<1>4. CASE "Facet" \notin DOMAIN r /\ "Tag" \in DOMAIN r
  <2> DEFINE t == r["Tag"]
             f == facetOf[t]
             x == FacetOr(v, f)
             d == TagOr(v, t)
             e == [fields |-> mergedFields(d.fields, r, "Tag"), m_desc |-> d.m_desc]
  <2>1. PICK ts : /\ Updated(x.m_tags, t, e, ts)
                  /\ Updated(v, f, [fields |-> x.fields, m_desc |-> x.m_desc, m_tags |-> ts], w)
    BY <1>4, MergedTag DEF w
  <2> DEFINE y == [fields |-> x.fields, m_desc |-> x.m_desc, m_tags |-> ts]
  <2>2. FacetShape(y) /\ y.m_tags = ts /\ TagShape(e) /\ Updated(v, f, y, w)
    BY <2>1 DEF FacetShape, TagShape
  <2>3. t \in Tags /\ f = facetOf[t]
    BY <1>4 DEF GoodRecord
  <2> HIDE DEF t, f, x, d, e, y
  <2>4. IsFcn(x.m_tags) /\ IsFiniteSet(DOMAIN x.m_tags)
        /\ \A u \in DOMAIN x.m_tags : TagShape(x.m_tags[u]) /\ u \in Tags /\ facetOf[u] = f
    BY <1>1 DEF x
  <2>5. IsFcn(ts) /\ DOMAIN ts = DOMAIN x.m_tags \cup {t} /\ ts[t] = e
        /\ \A u \in DOMAIN x.m_tags : u # t => ts[u] = x.m_tags[u]
    BY <2>1 DEF Updated
  <2>6. IsFiniteSet(DOMAIN ts)
    BY <2>4, <2>5, FS_AddElement
  <2>7. \A u \in DOMAIN ts : TagShape(ts[u]) /\ u \in Tags /\ facetOf[u] = f
    BY <2>2, <2>3, <2>4, <2>5
  <2>8. Good(f, y)
    BY <2>2, <2>5, <2>6, <2>7
  <2> HIDE DEF Good
  <2> QED
    BY <1>2, <2>2, <2>8
<1>5. CASE "Facet" \notin DOMAIN r /\ "Tag" \notin DOMAIN r
  BY <1>5, MergedNone DEF w
<1> QED
  BY <1>3, <1>4, <1>5

-----------------------------------------------------------------------------
(* What the records merged so far mean.                                    *)

LEMMA GreatestNatural ==
  ASSUME NEW n \in Nat, NEW T \in SUBSET (1..n), T # {}
  PROVE  Max(T) \in T /\ \A i \in T : i <= Max(T)
<1> DEFINE U == {m \in Nat : \A i \in T : i <= m}
<1>1. n \in U
  OBVIOUS
<1>2. PICK m \in U : \A k \in U : m <= k
  BY <1>1, LeastNatural
<1>3. m \in Nat /\ \A i \in T : i <= m
  OBVIOUS
<1>4. m \in T
  <2>1. SUFFICES ASSUME m \notin T
                 PROVE  FALSE
    OBVIOUS
  <2>2. \A i \in T : i <= m - 1 /\ i >= 1
    BY <1>3, <2>1
  <2>3. m - 1 \in Nat
    <3>1. PICK i \in T : TRUE
      OBVIOUS
    <3> QED
      BY <1>3, <2>2, <3>1
  <2>4. m - 1 \in U
    BY <2>2, <2>3
  <2> QED
    BY <1>2, <1>3, <2>4
<1>5. \E k \in T : \A i \in T : k >= i
  BY <1>3, <1>4
<1>6. Max(T) \in T /\ \A i \in T : Max(T) >= i
  BY <1>5 DEF Max
<1> QED
  BY <1>3, <1>6

RecordAbout(r, key, x) ==
  key \in DOMAIN r /\ r[key] = x /\ (key = "Tag" => "Facet" \notin DOMAIN r)

(* The places of records about x that have the field k. *)
With(s, key, x, k) == {i \in About(s, key, x) : k \in DOMAIN s[i]}

LEMMA AboutFacts ==
  ASSUME NEW s, IsSeq(s), NEW key, NEW x
  PROVE  /\ About(s, key, x) = {i \in 1..Len(s) : RecordAbout(s[i], key, x)}
         /\ IsFcn(LastValue(s, key, x))
         /\ \A k : k \in DOMAIN LastValue(s, key, x) <=> k # key /\ With(s, key, x, k) # {}
         /\ \A k \in DOMAIN LastValue(s, key, x) :
              LastValue(s, key, x)[k] = s[Max(With(s, key, x, k))][k]
<1>1. DOMAIN s = 1..Len(s)
  BY SeqFacts
<1>2. About(s, key, x) = {i \in 1..Len(s) : RecordAbout(s[i], key, x)}
  BY <1>1 DEF About, RecordAbout
<1> DEFINE A == About(s, key, x)
           U == UNION {DOMAIN s[i] : i \in A}
           D == U \ {key}
           val(k) == s[Max({i \in About(s, key, x) : k \in DOMAIN s[i]})][k]
<1>3. \A k : k \in D <=> k # key /\ With(s, key, x, k) # {}
  <2>1. TAKE k
  <2>2. k \in D <=> k # key /\ \E i \in A : k \in DOMAIN s[i]
    <3> HIDE DEF A
    <3>1. k \in U <=> \E i \in A : k \in DOMAIN s[i]
      OBVIOUS
    <3> HIDE DEF U
    <3>2. k \in D <=> k # key /\ k \in U
      OBVIOUS
    <3> HIDE DEF D
    <3> QED
      BY <3>1, <3>2
  <2>3. With(s, key, x, k) # {} <=> \E i \in About(s, key, x) : k \in DOMAIN s[i]
    BY DEF With
  <2> QED
    BY <2>2, <2>3, Zenon
<1>4. LastValue(s, key, x) = [k \in D |-> val(k)]
  BY DEF LastValue
<1>5. \A k : val(k) = s[Max(With(s, key, x, k))][k]
  BY DEF With
<1> HIDE DEF A, U, D, val
<1>6. DOMAIN LastValue(s, key, x) = D /\ IsFcn(LastValue(s, key, x))
      /\ \A k \in D : LastValue(s, key, x)[k] = val(k)
  BY <1>4 DEF IsFcn
<1> QED
  BY <1>2, <1>3, <1>5, <1>6

LEMMA SameFunction ==
  ASSUME NEW f, NEW g, IsFcn(f), IsFcn(g), DOMAIN f = DOMAIN g,
         \A x \in DOMAIN f : f[x] = g[x]
  PROVE  f = g
<1>1. f = [x \in DOMAIN f |-> f[x]] /\ g = [x \in DOMAIN g |-> g[x]]
  BY DEF IsFcn
<1>2. [x \in DOMAIN f |-> f[x]] = [x \in DOMAIN g |-> g[x]]
  OBVIOUS
<1> QED
  BY <1>1, <1>2

LEMMA WithFacts ==
  ASSUME NEW s, IsSeq(s), NEW key, NEW x, NEW k, With(s, key, x, k) # {}
  PROVE  LET m == Max(With(s, key, x, k))
         IN  m \in 1..Len(s) /\ m \in With(s, key, x, k) /\ \A i \in With(s, key, x, k) : i <= m
<1>1. Len(s) \in Nat
  BY SeqFacts
<1>2. With(s, key, x, k) \in SUBSET (1..Len(s))
  BY AboutFacts DEF With
<1>3. /\ Max(With(s, key, x, k)) \in With(s, key, x, k)
      /\ \A i \in With(s, key, x, k) : i <= Max(With(s, key, x, k))
  BY <1>1, <1>2, GreatestNatural
<1> QED
  BY <1>2, <1>3

(* One more record is one more place, the last. *)
LEMMA AboutAppend ==
  ASSUME NEW s, IsSeq(s), NEW r, NEW key, NEW x
  PROVE  /\ \A i : i \in About(Append(s, r), key, x)
                   <=> i \in About(s, key, x) \/ (i = Len(s) + 1 /\ RecordAbout(r, key, x))
         /\ \A k, i : i \in With(Append(s, r), key, x, k)
                      <=> \/ i \in With(s, key, x, k)
                          \/ i = Len(s) + 1 /\ RecordAbout(r, key, x) /\ k \in DOMAIN r
<1> DEFINE u == Append(s, r)
<1>1. /\ IsSeq(u) /\ Len(u) = Len(s) + 1 /\ Len(s) \in Nat
      /\ u[Len(s) + 1] = r /\ \A i \in 1..Len(s) : u[i] = s[i]
  BY AppendFacts, SeqFacts
<1> HIDE DEF u
<1>2. \A i : i \in 1..Len(u) <=> i \in 1..Len(s) \/ i = Len(s) + 1
  BY <1>1
<1>3. \A i : i \in About(u, key, x) <=> i \in 1..Len(u) /\ RecordAbout(u[i], key, x)
  BY <1>1, AboutFacts
<1>4. \A i : i \in About(s, key, x) <=> i \in 1..Len(s) /\ RecordAbout(s[i], key, x)
  BY AboutFacts
<1>5. \A i : i \in About(u, key, x)
             <=> i \in About(s, key, x) \/ (i = Len(s) + 1 /\ RecordAbout(r, key, x))
  BY <1>1, <1>2, <1>3, <1>4
<1>6. \A k, i : i \in With(u, key, x, k)
                <=> \/ i \in With(s, key, x, k)
                    \/ i = Len(s) + 1 /\ RecordAbout(r, key, x) /\ k \in DOMAIN r
  BY <1>1, <1>4, <1>5 DEF With
<1> QED
  BY <1>5, <1>6 DEF u

LEMMA LastValueOther ==
  ASSUME NEW s, IsSeq(s), NEW r, NEW key, NEW x, ~RecordAbout(r, key, x)
  PROVE  LastValue(Append(s, r), key, x) = LastValue(s, key, x)
<1> DEFINE u == Append(s, r)
           l == LastValue(s, key, x)
           m == LastValue(u, key, x)
<1>1. IsSeq(u) /\ \A i \in 1..Len(s) : u[i] = s[i]
  BY AppendFacts
<1>0. \A k, i : i \in With(u, key, x, k) <=> i \in With(s, key, x, k)
  BY AboutAppend
<1>2. \A k : With(u, key, x, k) = With(s, key, x, k)
  BY <1>0
<1> HIDE DEF u
<1>3. /\ IsFcn(l) /\ \A k : k \in DOMAIN l <=> k # key /\ With(s, key, x, k) # {}
      /\ \A k \in DOMAIN l : l[k] = s[Max(With(s, key, x, k))][k]
  BY AboutFacts
<1>4. /\ IsFcn(m) /\ \A k : k \in DOMAIN m <=> k # key /\ With(u, key, x, k) # {}
      /\ \A k \in DOMAIN m : m[k] = u[Max(With(u, key, x, k))][k]
  BY <1>1, AboutFacts
<1> HIDE DEF l, m
<1>5. DOMAIN m = DOMAIN l
  BY <1>2, <1>3, <1>4
<1>6. ASSUME NEW k \in DOMAIN m
      PROVE  m[k] = l[k]
  <2>1. Max(With(s, key, x, k)) \in 1..Len(s)
    BY <1>3, <1>5, WithFacts
  <2> QED
    BY <1>1, <1>2, <1>3, <1>4, <1>5, <2>1
<1>7. m = l
  BY <1>3, <1>4, <1>5, <1>6, SameFunction
<1> QED
  BY <1>7 DEF u, l, m

LEMMA LastValueMerged ==
  ASSUME NEW s, IsSeq(s), NEW r, NEW key, NEW x, RecordAbout(r, key, x)
  PROVE  LastValue(Append(s, r), key, x) = mergedFields(LastValue(s, key, x), r, key)
<1> DEFINE u == Append(s, r)
           l == LastValue(s, key, x)
           m == LastValue(u, key, x)
           g == mergedFields(l, r, key)
<1>1. /\ IsSeq(u) /\ Len(u) = Len(s) + 1 /\ Len(s) \in Nat
      /\ u[Len(s) + 1] = r /\ \A i \in 1..Len(s) : u[i] = s[i]
  BY AppendFacts, SeqFacts
<1>2. \A k, i : i \in With(u, key, x, k)
                <=> i \in With(s, key, x, k) \/ (i = Len(s) + 1 /\ k \in DOMAIN r)
  BY AboutAppend
<1> HIDE DEF u
<1>3. /\ IsFcn(l) /\ \A k : k \in DOMAIN l <=> k # key /\ With(s, key, x, k) # {}
      /\ \A k \in DOMAIN l : l[k] = s[Max(With(s, key, x, k))][k]
  BY AboutFacts
<1>4. /\ IsFcn(m) /\ \A k : k \in DOMAIN m <=> k # key /\ With(u, key, x, k) # {}
      /\ \A k \in DOMAIN m : m[k] = u[Max(With(u, key, x, k))][k]
  BY <1>1, AboutFacts
<1> HIDE DEF l, m
<1>5. /\ IsFcn(g) /\ \A k : k \in DOMAIN g <=> k \in DOMAIN l \/ (k \in DOMAIN r /\ k # key)
      /\ \A k \in DOMAIN g : g[k] = IF k \in DOMAIN r /\ k # key THEN r[k] ELSE l[k]
  BY DEF mergedFields, IsFcn
<1> HIDE DEF g
<1>6. DOMAIN m = DOMAIN g
  BY <1>2, <1>3, <1>4, <1>5
<1>7. ASSUME NEW k \in DOMAIN m
      PROVE  m[k] = g[k]
  <2>1. k # key /\ With(u, key, x, k) # {}
    BY <1>4
  <2>2. CASE k \in DOMAIN r
    <3>1. Len(s) + 1 \in With(u, key, x, k)
      BY <1>2, <2>2
    <3>2. /\ Max(With(u, key, x, k)) \in 1..Len(u)
          /\ Len(s) + 1 <= Max(With(u, key, x, k))
      BY <1>1, <2>1, <3>1, WithFacts
    <3>3. Max(With(u, key, x, k)) = Len(s) + 1
      BY <1>1, <3>2
    <3> QED
      BY <1>1, <1>4, <1>5, <1>6, <2>1, <2>2, <3>3
  <2>3. CASE k \notin DOMAIN r
    <3>1. With(u, key, x, k) = With(s, key, x, k)
      BY <1>2, <2>3
    <3>2. k \in DOMAIN l
      BY <1>3, <2>1, <3>1
    <3>3. Max(With(s, key, x, k)) \in 1..Len(s)
      BY <2>1, <3>1, WithFacts
    <3> QED
      BY <1>1, <1>3, <1>4, <1>5, <1>6, <2>3, <3>1, <3>2, <3>3
  <2> QED
    BY <2>2, <2>3
<1>8. m = g
  BY <1>4, <1>5, <1>6, <1>7, SameFunction
<1> QED
  BY <1>8 DEF u, l, m, g

HasTag(v, t) == \E f \in DOMAIN v : t \in DOMAIN v[f].m_tags
SomeAbout(s, key, x) == \E i \in 1..Len(s) : RecordAbout(s[i], key, x)

(* IsMergeOf, entity by entity. *)
MergeForm(v, s) ==
  /\ \A f \in DOMAIN v : v[f].fields = LastValue(s, "Facet", f)
  /\ \A f \in DOMAIN v : \A t \in DOMAIN v[f].m_tags :
       v[f].m_tags[t].fields = LastValue(s, "Tag", t)
  /\ \A t : HasTag(v, t) <=> t \in Tags /\ SomeAbout(s, "Tag", t)
  /\ \A f : f \in DOMAIN v <=> SomeAbout(s, "Facet", f) \/ \E t : HasTag(v, t) /\ facetOf[t] = f

LEMMA MergeForms ==
  ASSUME NEW v, NEW s, IsSeq(s)
  PROVE  IsMergeOf(v, s) <=> MergeForm(v, s)
<1>1. \A t : t \in tags(v) <=> HasTag(v, t)
  BY DEF tags, HasTag
<1>2. \A key, x : About(s, key, x) # {} <=> SomeAbout(s, key, x)
  <2>1. \A key, x : About(s, key, x) = {i \in 1..Len(s) : RecordAbout(s[i], key, x)}
    BY AboutFacts
  <2> QED
    BY <2>1 DEF SomeAbout
<1> DEFINE T == {t \in Tags : About(s, "Tag", t) # {}}
           F == {s[i]["Facet"] : i \in {j \in DOMAIN s : "Facet" \in DOMAIN s[j]}}
           G == {facetOf[t] : t \in tags(v)}
<1>3. \A t : t \in T <=> t \in Tags /\ SomeAbout(s, "Tag", t)
  BY <1>2
<1>4. \A f : f \in F <=> SomeAbout(s, "Facet", f)
  BY SeqFacts DEF SomeAbout, RecordAbout
<1>5. \A f : f \in G <=> \E t : HasTag(v, t) /\ facetOf[t] = f
  BY <1>1
<1>6. IsMergeOf(v, s) <=> /\ \A f \in DOMAIN v : v[f].fields = LastValue(s, "Facet", f)
                          /\ \A f \in DOMAIN v : \A t \in DOMAIN v[f].m_tags :
                               v[f].m_tags[t].fields = LastValue(s, "Tag", t)
                          /\ tags(v) = T
                          /\ DOMAIN v = F \cup G
  BY DEF IsMergeOf
<1> HIDE DEF T, F, G
<1>7. tags(v) = T <=> \A t : HasTag(v, t) <=> t \in Tags /\ SomeAbout(s, "Tag", t)
  BY <1>1, <1>3
<1>8. DOMAIN v = F \cup G
      <=> \A f : f \in DOMAIN v <=> SomeAbout(s, "Facet", f) \/ \E t : HasTag(v, t) /\ facetOf[t] = f
  <2>1. DOMAIN v = F \cup G <=> \A f : f \in DOMAIN v <=> f \in F \/ f \in G
    OBVIOUS
  <2> QED
    BY <1>4, <1>5, <2>1, Zenon
<1> QED
  BY <1>6, <1>7, <1>8 DEF MergeForm

(* What is not there yet has no fields, and no record is about it. *)
LEMMA NothingAbout ==
  ASSUME NEW s, IsSeq(s), NEW key, NEW x, ~SomeAbout(s, key, x)
  PROVE  LastValue(s, key, x) = NoFields
<1> DEFINE l == LastValue(s, key, x)
<1>1. IsFcn(l) /\ \A k : k \in DOMAIN l <=> k # key /\ With(s, key, x, k) # {}
  BY AboutFacts
<1>2. About(s, key, x) = {}
  BY AboutFacts DEF SomeAbout
<1>3. DOMAIN l = {}
  BY <1>1, <1>2 DEF With
<1>4. IsFcn(NoFields) /\ DOMAIN NoFields = {}
  BY DEF NoFields, IsFcn
<1> HIDE DEF l
<1>5. l = NoFields
  BY <1>1, <1>3, <1>4, SameFunction
<1> QED
  BY <1>5 DEF l

LEMMA FieldsSoFar ==
  ASSUME NEW v, VocShape(v), NEW s, IsSeq(s), MergeForm(v, s)
  PROVE  /\ \A f : FacetOr(v, f).fields = LastValue(s, "Facet", f)
         /\ \A t \in Tags : TagOr(v, t).fields = LastValue(s, "Tag", t)
<1>1. ASSUME NEW f
      PROVE  FacetOr(v, f).fields = LastValue(s, "Facet", f)
  <2>1. CASE f \in DOMAIN v
    BY <2>1 DEF MergeForm, FacetOr
  <2>2. CASE f \notin DOMAIN v
    <3>1. ~SomeAbout(s, "Facet", f)
      BY <2>2 DEF MergeForm
    <3> QED
      BY <2>2, <3>1, NothingAbout, NewShapes DEF FacetOr
  <2> QED
    BY <2>1, <2>2
<1>2. ASSUME NEW t \in Tags
      PROVE  TagOr(v, t).fields = LastValue(s, "Tag", t)
  <2> DEFINE f == facetOf[t]
  <2>1. CASE f \in DOMAIN v /\ t \in DOMAIN v[f].m_tags
    BY <2>1 DEF MergeForm, FacetOr, TagOr
  <2>2. CASE ~(f \in DOMAIN v /\ t \in DOMAIN v[f].m_tags)
    <3>1. TagOr(v, t) = newTag
      BY <2>2, NewShapes DEF FacetOr, TagOr
    <3>2. ~HasTag(v, t)
      BY <2>2 DEF HasTag, VocShape
    <3>3. ~SomeAbout(s, "Tag", t)
      BY <3>2 DEF MergeForm
    <3> QED
      BY <3>1, <3>3, NothingAbout, NewShapes
  <2> QED
    BY <2>1, <2>2
<1> QED
  BY <1>1, <1>2

LEMMA SomeAboutAppend ==
  ASSUME NEW s, IsSeq(s), NEW r, NEW key, NEW x
  PROVE  SomeAbout(Append(s, r), key, x) <=> SomeAbout(s, key, x) \/ RecordAbout(r, key, x)
<1> DEFINE u == Append(s, r)
<1>1. /\ Len(u) = Len(s) + 1 /\ Len(s) \in Nat
      /\ u[Len(s) + 1] = r /\ \A i \in 1..Len(s) : u[i] = s[i]
  BY AppendFacts, SeqFacts
<1> HIDE DEF u
<1>2. \A i : i \in 1..Len(u) <=> i \in 1..Len(s) \/ i = Len(s) + 1
  BY <1>1
<1>3. SomeAbout(u, key, x) <=> SomeAbout(s, key, x) \/ RecordAbout(r, key, x)
  BY <1>1, <1>2, Zenon DEF SomeAbout
<1> QED
  BY <1>3 DEF u

(* A record about a facet. *)
LEMMA MergeStepFacet ==
  ASSUME NEW v, VocShape(v), NEW s, IsSeq(s), MergeForm(v, s), NEW r, "Facet" \in DOMAIN r
  PROVE  MergeForm(merged(v, r), Append(s, r))
<1> DEFINE f == r["Facet"]
           x == FacetOr(v, f)
           y == [fields |-> mergedFields(x.fields, r, "Facet"), m_desc |-> x.m_desc, m_tags |-> x.m_tags]
           w == merged(v, r)
           u == Append(s, r)
<1>1. Updated(v, f, y, w)
  BY MergedFacet
<1>2. y.m_tags = x.m_tags /\ y.fields = mergedFields(LastValue(s, "Facet", f), r, "Facet")
  BY FieldsSoFar
<1>3. x = (IF f \in DOMAIN v THEN v[f] ELSE newFacet) /\ DOMAIN newFacet.m_tags = {}
  BY NewShapes DEF FacetOr
<1>4. \A g : RecordAbout(r, "Facet", g) <=> g = f
  BY DEF RecordAbout
<1>5. \A t : ~RecordAbout(r, "Tag", t)
  BY DEF RecordAbout
<1> HIDE DEF f, x, y, w
<1>6. DOMAIN w = DOMAIN v \cup {f} /\ w[f] = y /\ \A g \in DOMAIN v : g # f => w[g] = v[g]
  BY <1>1 DEF Updated
<1>7. \A g : SomeAbout(u, "Facet", g) <=> SomeAbout(s, "Facet", g) \/ g = f
  BY <1>4, SomeAboutAppend
<1>8. \A t : SomeAbout(u, "Tag", t) <=> SomeAbout(s, "Tag", t)
  BY <1>5, SomeAboutAppend
<1>9. LastValue(u, "Facet", f) = y.fields
  BY <1>2, <1>4, LastValueMerged
<1>10. \A g : g # f => LastValue(u, "Facet", g) = LastValue(s, "Facet", g)
  BY <1>4, LastValueOther
<1>11. \A t : LastValue(u, "Tag", t) = LastValue(s, "Tag", t)
  BY <1>5, LastValueOther
<1> HIDE DEF u
<1>12. \A g \in DOMAIN w : \A t \in DOMAIN w[g].m_tags :
         g \in DOMAIN v /\ t \in DOMAIN v[g].m_tags /\ w[g].m_tags[t] = v[g].m_tags[t]
  BY <1>2, <1>3, <1>6
<1>13. \A g \in DOMAIN v : w[g].m_tags = v[g].m_tags
  BY <1>2, <1>3, <1>6
<1>14. \A t : HasTag(w, t) <=> HasTag(v, t)
  BY <1>6, <1>12, <1>13 DEF HasTag
<1>15. \A g \in DOMAIN w : w[g].fields = LastValue(u, "Facet", g)
  BY <1>6, <1>9, <1>10 DEF MergeForm
<1>16. \A g \in DOMAIN w : \A t \in DOMAIN w[g].m_tags : w[g].m_tags[t].fields = LastValue(u, "Tag", t)
  BY <1>11, <1>12 DEF MergeForm
<1>17. \A t : HasTag(w, t) <=> t \in Tags /\ SomeAbout(u, "Tag", t)
  BY <1>8, <1>14, Zenon DEF MergeForm
<1>18. \A g : g \in DOMAIN w <=> SomeAbout(u, "Facet", g) \/ \E t : HasTag(w, t) /\ facetOf[t] = g
  <2>1. \A g : g \in DOMAIN w <=> g \in DOMAIN v \/ g = f
    BY <1>6
  <2> QED
    BY <1>7, <1>14, <2>1, Zenon DEF MergeForm
<1>19. MergeForm(w, u)
  BY <1>15, <1>16, <1>17, <1>18 DEF MergeForm
<1> QED
  BY <1>19 DEF w, u

(* A record about a tag. *)
LEMMA MergeStepTag ==
  ASSUME NEW v, VocShape(v), NEW s, IsSeq(s), MergeForm(v, s),
         NEW r, GoodRecord(r), "Facet" \notin DOMAIN r, "Tag" \in DOMAIN r
  PROVE  MergeForm(merged(v, r), Append(s, r))
<1> DEFINE t == r["Tag"]
           f == facetOf[t]
           x == FacetOr(v, f)
           d == TagOr(v, t)
           e == [fields |-> mergedFields(d.fields, r, "Tag"), m_desc |-> d.m_desc]
           w == merged(v, r)
           u == Append(s, r)
<1>1. PICK ts : /\ Updated(x.m_tags, t, e, ts)
                /\ Updated(v, f, [fields |-> x.fields, m_desc |-> x.m_desc, m_tags |-> ts], w)
  BY MergedTag
<1> DEFINE y == [fields |-> x.fields, m_desc |-> x.m_desc, m_tags |-> ts]
<1>2. t \in Tags /\ f = facetOf[t]
  BY DEF GoodRecord
<1>3. y.m_tags = ts /\ y.fields = LastValue(s, "Facet", f)
  BY FieldsSoFar
<1>4. e.fields = mergedFields(LastValue(s, "Tag", t), r, "Tag")
  BY <1>2, FieldsSoFar
<1>5. x = (IF f \in DOMAIN v THEN v[f] ELSE newFacet) /\ DOMAIN newFacet.m_tags = {}
  BY NewShapes DEF FacetOr
<1>6. \A g : RecordAbout(r, "Tag", g) <=> g = t
  BY DEF RecordAbout
<1>7. \A g : ~RecordAbout(r, "Facet", g)
  BY DEF RecordAbout
<1>8. Updated(v, f, y, w)
  BY <1>1
<1> HIDE DEF t, f, x, d, e, w, y
<1>9. DOMAIN w = DOMAIN v \cup {f} /\ w[f] = y /\ \A g \in DOMAIN v : g # f => w[g] = v[g]
  BY <1>8 DEF Updated
<1>10. DOMAIN ts = DOMAIN x.m_tags \cup {t} /\ ts[t] = e /\ \A a \in DOMAIN x.m_tags : a # t => ts[a] = x.m_tags[a]
  BY <1>1 DEF Updated
<1>11. \A g : SomeAbout(u, "Tag", g) <=> SomeAbout(s, "Tag", g) \/ g = t
  BY <1>6, SomeAboutAppend
<1>12. \A g : SomeAbout(u, "Facet", g) <=> SomeAbout(s, "Facet", g)
  BY <1>7, SomeAboutAppend
<1>13. LastValue(u, "Tag", t) = e.fields
  BY <1>4, <1>6, LastValueMerged
<1>14. \A g : g # t => LastValue(u, "Tag", g) = LastValue(s, "Tag", g)
  BY <1>6, LastValueOther
<1>15. \A g : LastValue(u, "Facet", g) = LastValue(s, "Facet", g)
  BY <1>7, LastValueOther
<1> HIDE DEF u
<1>16. \A g \in DOMAIN v : \A a \in DOMAIN v[g].m_tags : facetOf[a] = g
  BY DEF VocShape
<1>17. \A g \in DOMAIN w : \A a \in DOMAIN w[g].m_tags :
         \/ a = t /\ w[g].m_tags[a] = e
         \/ a # t /\ g \in DOMAIN v /\ a \in DOMAIN v[g].m_tags /\ w[g].m_tags[a] = v[g].m_tags[a]
  <2>1. TAKE g \in DOMAIN w
  <2>2. CASE g = f
    BY <1>3, <1>5, <1>9, <1>10, <2>2
  <2>3. CASE g # f
    BY <1>2, <1>9, <1>16, <2>3
  <2> QED
    BY <2>2, <2>3
<1>18. \A g \in DOMAIN v : \A a \in DOMAIN v[g].m_tags : g \in DOMAIN w /\ a \in DOMAIN w[g].m_tags
  BY <1>3, <1>5, <1>9, <1>10
<1>19. f \in DOMAIN w /\ t \in DOMAIN w[f].m_tags
  BY <1>3, <1>9, <1>10
<1>20. \A a : HasTag(w, a) <=> HasTag(v, a) \/ a = t
  BY <1>17, <1>18, <1>19, Zenon DEF HasTag
<1>21. \A g \in DOMAIN w : w[g].fields = LastValue(u, "Facet", g)
  BY <1>3, <1>9, <1>15 DEF MergeForm
<1>22. \A g \in DOMAIN w : \A a \in DOMAIN w[g].m_tags : w[g].m_tags[a].fields = LastValue(u, "Tag", a)
  BY <1>13, <1>14, <1>17 DEF MergeForm
<1>23. \A a : HasTag(w, a) <=> a \in Tags /\ SomeAbout(u, "Tag", a)
  BY <1>2, <1>11, <1>20, Zenon DEF MergeForm
<1>24. \A g : g \in DOMAIN w <=> SomeAbout(u, "Facet", g) \/ \E a : HasTag(w, a) /\ facetOf[a] = g
  <2>1. \A g : g \in DOMAIN w <=> g \in DOMAIN v \/ g = f
    BY <1>9
  <2> QED
    BY <1>2, <1>12, <1>20, <2>1, Zenon DEF MergeForm
<1>25. MergeForm(w, u)
  BY <1>21, <1>22, <1>23, <1>24 DEF MergeForm
<1> QED
  BY <1>25 DEF w, u

(* A record about nothing. *)
LEMMA MergeStepNone ==
  ASSUME NEW v, NEW s, IsSeq(s), MergeForm(v, s),
         NEW r, "Facet" \notin DOMAIN r, "Tag" \notin DOMAIN r
  PROVE  MergeForm(merged(v, r), Append(s, r))
<1>1. merged(v, r) = v
  BY MergedNone
<1>2. \A g : ~RecordAbout(r, "Facet", g) /\ ~RecordAbout(r, "Tag", g)
  BY DEF RecordAbout
<1>3. \A g : /\ LastValue(Append(s, r), "Facet", g) = LastValue(s, "Facet", g)
             /\ LastValue(Append(s, r), "Tag", g) = LastValue(s, "Tag", g)
  BY <1>2, LastValueOther
<1>4. \A g : /\ SomeAbout(Append(s, r), "Facet", g) <=> SomeAbout(s, "Facet", g)
             /\ SomeAbout(Append(s, r), "Tag", g) <=> SomeAbout(s, "Tag", g)
  BY <1>2, SomeAboutAppend
<1> QED
  BY <1>1, <1>3, <1>4 DEF MergeForm

LEMMA MergeStep ==
  ASSUME NEW v, VocShape(v), NEW s, IsSeq(s), MergeForm(v, s), NEW r, GoodRecord(r)
  PROVE  MergeForm(merged(v, r), Append(s, r))
<1>1. CASE "Facet" \in DOMAIN r
  BY <1>1, MergeStepFacet
<1>2. CASE "Facet" \notin DOMAIN r /\ "Tag" \in DOMAIN r
  BY <1>2, MergeStepTag
<1>3. CASE "Facet" \notin DOMAIN r /\ "Tag" \notin DOMAIN r
  BY <1>3, MergeStepNone
<1> QED
  BY <1>1, <1>2, <1>3

-----------------------------------------------------------------------------
(* What write prints.                                                      *)

FacetRecord(v, f) == Put(v[f].fields, "Facet", f)
TagRecord(v, f, t) == Put(v[f].m_tags[t].fields, "Tag", t)

(* The records of one facet. *)
Block(v, f) == <<FacetRecord(v, f)>> \o SetToSeq({TagRecord(v, f, t) : t \in DOMAIN v[f].m_tags})

LEMMA BlockFacts ==
  ASSUME NEW v, VocShape(v), NEW f \in DOMAIN v
  PROVE  /\ IsSeq(Block(v, f))
         /\ \A r : r \in Elems(Block(v, f)) <=> \/ r = FacetRecord(v, f)
                                                \/ \E t \in DOMAIN v[f].m_tags : r = TagRecord(v, f, t)
<1> DEFINE D == DOMAIN v[f].m_tags
           R == {TagRecord(v, f, t) : t \in D}
           h == <<FacetRecord(v, f)>>
<1>1. IsFiniteSet(D)
  BY DEF VocShape
<1>2. IsFiniteSet(R)
  <2> HIDE DEF D
  <2> DEFINE g == [t \in D |-> TagRecord(v, f, t)]
  <2>1. g \in Surjection(D, R)
    BY DEF Surjection
  <2> QED
    BY <1>1, <2>1, FS_Surjection
<1>3. IsSeq(SetToSeq(R)) /\ Elems(SetToSeq(R)) = R
  BY <1>2, SetToSeqFacts
<1>4. IsSeq(h) /\ Elems(h) = {FacetRecord(v, f)}
  <2>1. h \in Seq({FacetRecord(v, f)}) /\ Len(h) = 1 /\ h[1] = FacetRecord(v, f)
    OBVIOUS
  <2> HIDE DEF h
  <2>2. \A i : i \in 1..1 <=> i = 1
    OBVIOUS
  <2> QED
    BY <2>1, <2>2 DEF IsSeq, Elems
<1>5. Block(v, f) = h \o SetToSeq(R)
  BY DEF Block
<1>6. \A r : r \in R <=> \E t \in D : r = TagRecord(v, f, t)
  OBVIOUS
<1> HIDE DEF R, h, D
<1>7. IsSeq(Block(v, f)) /\ Elems(Block(v, f)) = {FacetRecord(v, f)} \cup R
  BY <1>3, <1>4, <1>5, ConcatFacts
<1>8. \A r : r \in Elems(Block(v, f)) <=> r = FacetRecord(v, f) \/ \E t \in D : r = TagRecord(v, f, t)
  BY <1>6, <1>7
<1> QED
  BY <1>7, <1>8 DEF D

LEMMA PrintedFacts ==
  ASSUME NEW v, VocShape(v)
  PROVE  /\ IsSeq(printed(v))
         /\ \A r : r \in Elems(printed(v))
                   <=> \E f \in DOMAIN v : \/ r = FacetRecord(v, f)
                                           \/ \E t \in DOMAIN v[f].m_tags : r = TagRecord(v, f, t)
<1> DEFINE B == {Block(v, f) : f \in DOMAIN v}
           ss == SetToSeq(B)
           U == UNION {Elems(ss[i]) : i \in 1..Len(ss)}
<1>1. printed(v) = FlattenSeq(ss)
  BY DEF printed, Block, FacetRecord, TagRecord
<1>2. IsFiniteSet(B)
  <2> DEFINE g == [f \in DOMAIN v |-> Block(v, f)]
  <2>1. g \in Surjection(DOMAIN v, B)
    BY DEF Surjection
  <2>2. IsFiniteSet(DOMAIN v)
    BY DEF VocShape
  <2> QED
    BY <2>1, <2>2, FS_Surjection
<1>3. \A b : b \in B <=> \E f \in DOMAIN v : b = Block(v, f)
  OBVIOUS
<1> HIDE DEF B
<1>4. IsSeq(ss) /\ Elems(ss) = B
  BY <1>2, SetToSeqFacts
<1> HIDE DEF ss
<1>5. \A i \in 1..Len(ss) : \E f \in DOMAIN v : ss[i] = Block(v, f)
  BY <1>3, <1>4 DEF Elems
<1>6. \A i \in 1..Len(ss) : IsSeq(ss[i])
  BY <1>5, BlockFacts
<1>7. IsSeq(printed(v)) /\ Elems(printed(v)) = U
  BY <1>1, <1>4, <1>6, FlattenFacts
<1>8. \A r : r \in U <=> \E i \in 1..Len(ss) : r \in Elems(ss[i])
  OBVIOUS
<1>9. \A f \in DOMAIN v : \E i \in 1..Len(ss) : ss[i] = Block(v, f)
  BY <1>3, <1>4 DEF Elems
<1> HIDE DEF U
<1>10. \A r : r \in U <=> \E f \in DOMAIN v : r \in Elems(Block(v, f))
  BY <1>5, <1>8, <1>9
<1>11. \A r : r \in U <=> \E f \in DOMAIN v : \/ r = FacetRecord(v, f)
                                               \/ \E t \in DOMAIN v[f].m_tags : r = TagRecord(v, f, t)
  BY <1>10, BlockFacts
<1> QED
  BY <1>7, <1>11

(* When all records about x have the same fields, these are its fields. *)
LEMMA AllSame ==
  ASSUME NEW s, IsSeq(s), NEW key, NEW x, NEW m, IsFcn(m), key \notin DOMAIN m,
         SomeAbout(s, key, x),
         \A i \in 1..Len(s) : RecordAbout(s[i], key, x) => s[i] = Put(m, key, x)
  PROVE  LastValue(s, key, x) = m
<1> DEFINE l == LastValue(s, key, x)
           p == Put(m, key, x)
<1>1. /\ IsFcn(l) /\ \A k : k \in DOMAIN l <=> k # key /\ With(s, key, x, k) # {}
      /\ \A k \in DOMAIN l : l[k] = s[Max(With(s, key, x, k))][k]
  BY AboutFacts
<1>2. About(s, key, x) = {i \in 1..Len(s) : RecordAbout(s[i], key, x)}
  BY AboutFacts
<1>3. DOMAIN p = DOMAIN m \cup {key} /\ \A k \in DOMAIN m : k # key => p[k] = m[k]
  BY DEF Put
<1>4. \A i \in 1..Len(s) : RecordAbout(s[i], key, x) => s[i] = p
  OBVIOUS
<1> HIDE DEF l, p
<1>5. \A k, i : i \in With(s, key, x, k) <=> i \in 1..Len(s) /\ RecordAbout(s[i], key, x) /\ k \in DOMAIN p
  BY <1>2, <1>4 DEF With
<1>6. \A k : With(s, key, x, k) # {} <=> k \in DOMAIN p
  BY <1>5 DEF SomeAbout
<1>7. DOMAIN l = DOMAIN m
  BY <1>1, <1>3, <1>6
<1>8. ASSUME NEW k \in DOMAIN l
      PROVE  l[k] = m[k]
  <2> DEFINE j == Max(With(s, key, x, k))
  <2>1. j \in With(s, key, x, k)
    BY <1>1, WithFacts
  <2>2. s[j] = p
    BY <1>4, <1>5, <2>1
  <2> QED
    BY <1>1, <1>3, <1>7, <2>2
<1>9. l = m
  BY <1>1, <1>7, <1>8, SameFunction
<1> QED
  BY <1>9 DEF l

(* The field that names an entity is not among its fields, a tag has no    *)
(* field that would make its record that of a facet, and descriptions are  *)
(* lines.                                                                  *)
GoodFields(m) == IsFcn(m) /\ ("Description" \in DOMAIN m => IsSeq(m["Description"]))
NamesApart(v) ==
  \A f \in DOMAIN v :
    /\ GoodFields(v[f].fields) /\ "Facet" \notin DOMAIN v[f].fields
    /\ \A t \in DOMAIN v[f].m_tags :
         LET m == v[f].m_tags[t].fields IN GoodFields(m) /\ "Facet" \notin DOMAIN m /\ "Tag" \notin DOMAIN m

LEMMA MergedNamesApart ==
  ASSUME NEW v, NEW s, GoodRecords(s), MergeForm(v, s)
  PROVE  NamesApart(v)
<1>0. IsSeq(s)
  BY DEF GoodRecords
<1>1. \A key, x : IsFcn(LastValue(s, key, x)) /\ key \notin DOMAIN LastValue(s, key, x)
  BY <1>0, AboutFacts
<1>3. ASSUME NEW key, NEW x
      PROVE  GoodFields(LastValue(s, key, x))
  <2> DEFINE m == LastValue(s, key, x)
  <2>1. ASSUME "Description" \in DOMAIN m
        PROVE  IsSeq(m["Description"])
    <3> DEFINE j == Max(With(s, key, x, "Description"))
    <3>1. With(s, key, x, "Description") # {} /\ m["Description"] = s[j]["Description"]
      BY <1>0, <2>1, AboutFacts
    <3>2. j \in 1..Len(s) /\ j \in With(s, key, x, "Description")
      BY <1>0, <3>1, WithFacts
    <3>3. "Description" \in DOMAIN s[j]
      BY <3>2 DEF With
    <3> QED
      BY <3>1, <3>2, <3>3 DEF GoodRecords, GoodRecord
  <2> QED
    BY <1>1, <2>1 DEF GoodFields
<1>2. \A t : "Facet" \notin DOMAIN LastValue(s, "Tag", t)
  <2>1. TAKE t
  <2>2. With(s, "Tag", t, "Facet") = {}
    BY <1>0, AboutFacts DEF With, RecordAbout
  <2> QED
    BY <1>0, <2>2, AboutFacts
<1> QED
  BY <1>1, <1>2, <1>3 DEF MergeForm, NamesApart

LEMMA PrintedMerge ==
  ASSUME NEW v, VocShape(v), NamesApart(v)
  PROVE  MergeForm(v, printed(v)) /\ GoodRecords(printed(v))
<1> DEFINE s == printed(v)
<1>1. IsSeq(s) /\ Len(s) \in Nat
  BY PrintedFacts, SeqFacts
<1>2. /\ \A i \in 1..Len(s) :
           \E f \in DOMAIN v : s[i] = FacetRecord(v, f) \/ \E t \in DOMAIN v[f].m_tags : s[i] = TagRecord(v, f, t)
      /\ \A f \in DOMAIN v : \E i \in 1..Len(s) : s[i] = FacetRecord(v, f)
      /\ \A f \in DOMAIN v : \A t \in DOMAIN v[f].m_tags : \E i \in 1..Len(s) : s[i] = TagRecord(v, f, t)
  <2>1. \A r : r \in Elems(s)
               <=> \E f \in DOMAIN v : r = FacetRecord(v, f) \/ \E t \in DOMAIN v[f].m_tags : r = TagRecord(v, f, t)
    BY PrintedFacts
  <2> HIDE DEF s
  <2>2. \A r : r \in Elems(s) <=> \E i \in 1..Len(s) : s[i] = r
    BY DEF Elems
  <2> QED
    BY <2>1, <2>2
<1>3. \A f \in DOMAIN v : \A x :
        /\ RecordAbout(FacetRecord(v, f), "Facet", x) <=> x = f
        /\ ~RecordAbout(FacetRecord(v, f), "Tag", x)
  BY DEF FacetRecord, Put, RecordAbout
<1>4. \A f \in DOMAIN v : \A t \in DOMAIN v[f].m_tags : \A x :
        /\ ~RecordAbout(TagRecord(v, f, t), "Facet", x)
        /\ RecordAbout(TagRecord(v, f, t), "Tag", x) <=> x = t
  BY DEF TagRecord, Put, RecordAbout, NamesApart
<1>5. \A f \in DOMAIN v : \A t \in DOMAIN v[f].m_tags : t \in Tags /\ facetOf[t] = f
  BY DEF VocShape
<1>6. \A i \in 1..Len(s) : GoodRecord(s[i])
  <2>1. TAKE i \in 1..Len(s)
  <2>2. PICK f \in DOMAIN v : s[i] = FacetRecord(v, f) \/ \E t \in DOMAIN v[f].m_tags : s[i] = TagRecord(v, f, t)
    BY <1>2
  <2>3. CASE s[i] = FacetRecord(v, f)
    BY <2>3 DEF FacetRecord, Put, GoodRecord, NamesApart, GoodFields
  <2>4. CASE \E t \in DOMAIN v[f].m_tags : s[i] = TagRecord(v, f, t)
    BY <1>5, <2>4 DEF TagRecord, Put, GoodRecord, NamesApart, GoodFields
  <2> QED
    BY <2>2, <2>3, <2>4
<1> HIDE DEF s
<1>13. /\ \A i \in 1..Len(s) : \A x : RecordAbout(s[i], "Facet", x) => x \in DOMAIN v /\ s[i] = FacetRecord(v, x)
       /\ \A i \in 1..Len(s) : \A x : RecordAbout(s[i], "Tag", x) =>
            \E f \in DOMAIN v : x \in DOMAIN v[f].m_tags /\ s[i] = TagRecord(v, f, x)
  <2>1. ASSUME NEW i \in 1..Len(s), NEW x, RecordAbout(s[i], "Facet", x)
        PROVE  x \in DOMAIN v /\ s[i] = FacetRecord(v, x)
    <3>1. PICK f \in DOMAIN v : s[i] = FacetRecord(v, f) \/ \E t \in DOMAIN v[f].m_tags : s[i] = TagRecord(v, f, t)
      BY <1>2
    <3>2. CASE s[i] = FacetRecord(v, f)
      BY <1>3, <2>1, <3>2
    <3>3. CASE \E t \in DOMAIN v[f].m_tags : s[i] = TagRecord(v, f, t)
      BY <1>4, <2>1, <3>3
    <3> QED
      BY <3>1, <3>2, <3>3
  <2>2. ASSUME NEW i \in 1..Len(s), NEW x, RecordAbout(s[i], "Tag", x)
        PROVE  \E f \in DOMAIN v : x \in DOMAIN v[f].m_tags /\ s[i] = TagRecord(v, f, x)
    <3>1. PICK f \in DOMAIN v : s[i] = FacetRecord(v, f) \/ \E t \in DOMAIN v[f].m_tags : s[i] = TagRecord(v, f, t)
      BY <1>2
    <3>2. CASE s[i] = FacetRecord(v, f)
      <4>1. ~RecordAbout(FacetRecord(v, f), "Tag", x)
        BY <1>3
      <4> QED
        BY <2>2, <3>2, <4>1
    <3>3. CASE \E t \in DOMAIN v[f].m_tags : s[i] = TagRecord(v, f, t)
      BY <1>4, <2>2, <3>3
    <3> QED
      BY <3>1, <3>2, <3>3
  <2> QED
    BY <2>1, <2>2
<1>7. \A f : SomeAbout(s, "Facet", f) <=> f \in DOMAIN v
  <2>1. ASSUME NEW f \in DOMAIN v
        PROVE  SomeAbout(s, "Facet", f)
    <3>1. PICK i \in 1..Len(s) : s[i] = FacetRecord(v, f)
      BY <1>2
    <3>2. RecordAbout(FacetRecord(v, f), "Facet", f)
      BY <1>3
    <3> QED
      BY <3>1, <3>2 DEF SomeAbout
  <2> QED
    BY <1>13, <2>1 DEF SomeAbout
<1>8. \A t : SomeAbout(s, "Tag", t) <=> HasTag(v, t)
  <2>1. ASSUME NEW f \in DOMAIN v, NEW t \in DOMAIN v[f].m_tags
        PROVE  SomeAbout(s, "Tag", t)
    <3>1. PICK i \in 1..Len(s) : s[i] = TagRecord(v, f, t)
      BY <1>2
    <3> QED
      BY <1>4, <3>1 DEF SomeAbout
  <2> QED
    BY <1>13, <2>1 DEF SomeAbout, HasTag
<1>9. ASSUME NEW f \in DOMAIN v
      PROVE  v[f].fields = LastValue(s, "Facet", f)
  <2> DEFINE m == v[f].fields
  <2>1. IsFcn(m) /\ "Facet" \notin DOMAIN m
    BY DEF NamesApart, GoodFields
  <2>2. SomeAbout(s, "Facet", f)
    BY <1>7
  <2>3. \A i \in 1..Len(s) : RecordAbout(s[i], "Facet", f) => s[i] = FacetRecord(v, f)
    BY <1>13
  <2>4. FacetRecord(v, f) = Put(m, "Facet", f)
    BY DEF FacetRecord
  <2> HIDE DEF m
  <2>5. LastValue(s, "Facet", f) = m
    BY <1>1, <2>1, <2>2, <2>3, <2>4, AllSame
  <2> QED
    BY <2>5 DEF m
<1>10. ASSUME NEW f \in DOMAIN v, NEW t \in DOMAIN v[f].m_tags
       PROVE  v[f].m_tags[t].fields = LastValue(s, "Tag", t)
  <2> DEFINE m == v[f].m_tags[t].fields
  <2>1. IsFcn(m) /\ "Tag" \notin DOMAIN m
    BY DEF NamesApart, GoodFields
  <2>2. SomeAbout(s, "Tag", t)
    BY <1>8 DEF HasTag
  <2>3. \A i \in 1..Len(s) : RecordAbout(s[i], "Tag", t) => s[i] = TagRecord(v, f, t)
    <3>1. TAKE i \in 1..Len(s)
    <3>2. HAVE RecordAbout(s[i], "Tag", t)
    <3>3. PICK g \in DOMAIN v : t \in DOMAIN v[g].m_tags /\ s[i] = TagRecord(v, g, t)
      BY <1>13, <3>2
    <3>4. g = f
      BY <1>5, <3>3
    <3> QED
      BY <3>3, <3>4
  <2>4. TagRecord(v, f, t) = Put(m, "Tag", t)
    BY DEF TagRecord
  <2> HIDE DEF m
  <2>5. LastValue(s, "Tag", t) = m
    BY <1>1, <2>1, <2>2, <2>3, <2>4, AllSame
  <2> QED
    BY <2>5 DEF m
<1>11. \A t : HasTag(v, t) => t \in Tags /\ facetOf[t] \in DOMAIN v
  BY <1>5 DEF HasTag
<1>12. MergeForm(v, s)
  BY <1>7, <1>8, <1>9, <1>10, <1>11 DEF MergeForm
<1> QED
  BY <1>1, <1>6, <1>12 DEF s, GoodRecords

-----------------------------------------------------------------------------
(* shortDescription touches nothing but the cache.                         *)

SameData(v, w) ==
  /\ DOMAIN w = DOMAIN v
  /\ \A f \in DOMAIN v :
       /\ w[f].fields = v[f].fields /\ DOMAIN w[f].m_tags = DOMAIN v[f].m_tags
       /\ \A t \in DOMAIN v[f].m_tags : w[f].m_tags[t].fields = v[f].m_tags[t].fields

LEMMA SameDataMerge ==
  ASSUME NEW v, NEW w, SameData(v, w), NEW s, MergeForm(v, s)
  PROVE  MergeForm(w, s)
<1>1. \A t : HasTag(w, t) <=> HasTag(v, t)
  BY DEF SameData, HasTag
<1> QED
  BY <1>1 DEF SameData, MergeForm

LEMMA ShortOfFacet ==
  ASSUME NEW d, FacetShape(d)
  PROVE  LET e == shortDescription(d)
         IN  /\ FacetShape(e) /\ e.fields = d.fields /\ e.m_tags = d.m_tags
             /\ e.m_desc = IF d.m_desc # <<>> \/ longDescription(d) = <<>> THEN d.m_desc
                           ELSE <<Head(longDescription(d))>>
BY DEF FacetShape, shortDescription

LEMMA ShortOfTag ==
  ASSUME NEW d, TagShape(d)
  PROVE  LET e == shortDescription(d)
         IN  /\ TagShape(e) /\ e.fields = d.fields
             /\ e.m_desc = IF d.m_desc # <<>> \/ longDescription(d) = <<>> THEN d.m_desc
                           ELSE <<Head(longDescription(d))>>
BY DEF TagShape, shortDescription

(* The description of a facet was asked for. *)
AskedFacet(v, w, f) ==
  /\ f \in DOMAIN v /\ IsFcn(w) /\ DOMAIN w = DOMAIN v
  /\ w[f] = shortDescription(v[f])
  /\ \A g \in DOMAIN v : g # f => w[g] = v[g]

(* That of a tag. *)
AskedTag(v, w, f, t) ==
  /\ f \in DOMAIN v /\ t \in DOMAIN v[f].m_tags /\ IsFcn(w) /\ DOMAIN w = DOMAIN v
  /\ FacetShape(w[f]) /\ w[f].fields = v[f].fields /\ w[f].m_desc = v[f].m_desc
  /\ IsFcn(w[f].m_tags) /\ DOMAIN w[f].m_tags = DOMAIN v[f].m_tags
  /\ w[f].m_tags[t] = shortDescription(v[f].m_tags[t])
  /\ \A u \in DOMAIN v[f].m_tags : u # t => w[f].m_tags[u] = v[f].m_tags[u]
  /\ \A g \in DOMAIN v : g # f => w[g] = v[g]

LEMMA AskedCases ==
  ASSUME VocShape(m_facets), ShortDescription
  PROVE  \E f : AskedFacet(m_facets, m_facets', f) \/ \E t : AskedTag(m_facets, m_facets', f, t)
<1> DEFINE v == m_facets
           w == m_facets'
<1>1. PICK f \in DOMAIN v :
        \/ w = [v EXCEPT ![f] = shortDescription(@)]
        \/ \E t \in DOMAIN v[f].m_tags : w = [v EXCEPT ![f].m_tags[t] = shortDescription(@)]
  BY DEF ShortDescription
<1>2. IsFcn(v) /\ FacetShape(v[f]) /\ IsFcn(v[f].m_tags)
  BY DEF VocShape
<1> HIDE DEF v, w
<1>3. CASE w = [v EXCEPT ![f] = shortDescription(@)]
  <2>1. AskedFacet(v, w, f)
    BY <1>2, <1>3 DEF AskedFacet, IsFcn
  <2> QED
    BY <2>1 DEF v, w
<1>4. ASSUME NEW t \in DOMAIN v[f].m_tags, w = [v EXCEPT ![f].m_tags[t] = shortDescription(@)]
      PROVE  AskedTag(v, w, f, t)
  <2> DEFINE d == v[f]
             ts == [d.m_tags EXCEPT ![t] = shortDescription(@)]
             e == [d EXCEPT !.m_tags[t] = shortDescription(@)]
  <2>1. w = [v EXCEPT ![f] = e]
    BY <1>4
  <2>2. FacetShape(d) /\ IsFcn(d.m_tags) /\ t \in DOMAIN d.m_tags
    BY <1>2
  <2> HIDE DEF d
  <2>3. e = [d EXCEPT !.m_tags = ts]
    OBVIOUS
  <2>4. IsFcn(ts) /\ DOMAIN ts = DOMAIN d.m_tags /\ ts[t] = shortDescription(d.m_tags[t])
        /\ \A u \in DOMAIN d.m_tags : u # t => ts[u] = d.m_tags[u]
    BY <2>2 DEF IsFcn
  <2> HIDE DEF ts, e
  <2>5. e = [fields |-> d.fields, m_desc |-> d.m_desc, m_tags |-> ts]
    BY <2>2, <2>3 DEF FacetShape
  <2>6. FacetShape(e) /\ e.fields = d.fields /\ e.m_desc = d.m_desc /\ e.m_tags = ts
    BY <2>5 DEF FacetShape
  <2>7. IsFcn(w) /\ DOMAIN w = DOMAIN v /\ w[f] = e /\ \A g \in DOMAIN v : g # f => w[g] = v[g]
    BY <1>2, <2>1 DEF IsFcn
  <2> QED
    BY <2>4, <2>6, <2>7 DEF AskedTag, d
<1> QED
  BY <1>1, <1>3, <1>4 DEF v, w

LEMMA AskedKeeps ==
  ASSUME NEW v, VocShape(v), NEW w, NEW f,
         AskedFacet(v, w, f) \/ \E t : AskedTag(v, w, f, t)
  PROVE  VocShape(w) /\ SameData(v, w)
<1>0. /\ \A g \in DOMAIN v :
           /\ FacetShape(v[g])
           /\ IsFcn(v[g].m_tags) /\ IsFiniteSet(DOMAIN v[g].m_tags)
           /\ \A u \in DOMAIN v[g].m_tags :
                TagShape(v[g].m_tags[u]) /\ u \in Tags /\ facetOf[u] = g
      /\ IsFiniteSet(DOMAIN v)
  BY DEF VocShape
<1>1. CASE AskedFacet(v, w, f)
  <2>1. /\ IsFcn(w) /\ DOMAIN w = DOMAIN v /\ f \in DOMAIN v
        /\ \A g \in DOMAIN v : g # f => w[g] = v[g]
    BY <1>1 DEF AskedFacet
  <2>2. FacetShape(w[f]) /\ w[f].fields = v[f].fields /\ w[f].m_tags = v[f].m_tags
    <3>1. w[f] = shortDescription(v[f]) /\ FacetShape(v[f])
      BY <1>0, <1>1 DEF AskedFacet
    <3> QED
      BY <3>1, ShortOfFacet
  <2>3. SameData(v, w)
    <3>1. ASSUME NEW g \in DOMAIN v
          PROVE  /\ w[g].fields = v[g].fields /\ DOMAIN w[g].m_tags = DOMAIN v[g].m_tags
                 /\ \A u \in DOMAIN v[g].m_tags : w[g].m_tags[u].fields = v[g].m_tags[u].fields
      <4>1. CASE g = f
        BY <2>1, <2>2, <4>1
      <4>2. CASE g # f
        <5>1. w[g] = v[g]
          BY <2>1, <4>2
        <5> QED
          BY <5>1
      <4> QED
        BY <4>1, <4>2
    <3> QED
      BY <2>1, <3>1 DEF SameData
  <2>4. VocShape(w)
    <3>1. ASSUME NEW g \in DOMAIN v
          PROVE  /\ FacetShape(w[g])
                 /\ IsFcn(w[g].m_tags) /\ IsFiniteSet(DOMAIN w[g].m_tags)
                 /\ \A u \in DOMAIN w[g].m_tags :
                      TagShape(w[g].m_tags[u]) /\ u \in Tags /\ facetOf[u] = g
      <4>1. CASE g = f
        BY <1>0, <2>1, <2>2, <4>1
      <4>2. CASE g # f
        <5>1. w[g] = v[g]
          BY <2>1, <4>2
        <5> QED
          BY <1>0, <5>1
      <4> QED
        BY <4>1, <4>2
    <3> QED
      BY <1>0, <2>1, <3>1 DEF VocShape
  <2> QED
    BY <2>3, <2>4
<1>2. ASSUME NEW t, AskedTag(v, w, f, t)
      PROVE  VocShape(w) /\ SameData(v, w)
  <2>1. /\ IsFcn(w) /\ DOMAIN w = DOMAIN v /\ f \in DOMAIN v
        /\ \A g \in DOMAIN v : g # f => w[g] = v[g]
        /\ FacetShape(w[f]) /\ w[f].fields = v[f].fields
        /\ IsFcn(w[f].m_tags) /\ DOMAIN w[f].m_tags = DOMAIN v[f].m_tags
        /\ t \in DOMAIN v[f].m_tags
        /\ \A u \in DOMAIN v[f].m_tags : u # t => w[f].m_tags[u] = v[f].m_tags[u]
    BY <1>2 DEF AskedTag
  <2>2. TagShape(w[f].m_tags[t]) /\ w[f].m_tags[t].fields = v[f].m_tags[t].fields
    <3>1. w[f].m_tags[t] = shortDescription(v[f].m_tags[t]) /\ TagShape(v[f].m_tags[t])
      BY <1>0, <1>2 DEF AskedTag
    <3> QED
      BY <3>1, ShortOfTag
  <2>3. SameData(v, w)
    <3>1. ASSUME NEW g \in DOMAIN v
          PROVE  /\ w[g].fields = v[g].fields /\ DOMAIN w[g].m_tags = DOMAIN v[g].m_tags
                 /\ \A u \in DOMAIN v[g].m_tags : w[g].m_tags[u].fields = v[g].m_tags[u].fields
      <4>1. CASE g = f
        BY <2>1, <2>2, <4>1
      <4>2. CASE g # f
        <5>1. w[g] = v[g]
          BY <2>1, <4>2
        <5> QED
          BY <5>1
      <4> QED
        BY <4>1, <4>2
    <3> QED
      BY <2>1, <3>1 DEF SameData
  <2>4. VocShape(w)
    <3>1. ASSUME NEW g \in DOMAIN v
          PROVE  /\ FacetShape(w[g])
                 /\ IsFcn(w[g].m_tags) /\ IsFiniteSet(DOMAIN w[g].m_tags)
                 /\ \A u \in DOMAIN w[g].m_tags :
                      TagShape(w[g].m_tags[u]) /\ u \in Tags /\ facetOf[u] = g
      <4>1. CASE g = f
        BY <1>0, <2>1, <2>2, <4>1
      <4>2. CASE g # f
        <5>1. w[g] = v[g]
          BY <2>1, <4>2
        <5> QED
          BY <1>0, <5>1
      <4> QED
        BY <4>1, <4>2
    <3> QED
      BY <1>0, <2>1, <3>1 DEF VocShape
  <2> QED
    BY <2>3, <2>4
<1> QED
  BY <1>1, <1>2

-----------------------------------------------------------------------------
(* The vocabulary, and the records on their way into it.                   *)

ContentInv ==
  /\ VocShape(m_facets)
  /\ GoodRecords(log) /\ MergeForm(m_facets, log)
  /\ GoodRecords(stream)
  /\ GoodRecords(disk.recs)

LEMMA FilesGood ==
  GoodRecords(<<>>) /\ \A r \in Files : GoodRecords(r)
<1>1. ASSUME NEW r \in Files
      PROVE  GoodRecords(r)
  <2>1. r \in Seq({r[i] : i \in DOMAIN r})
    BY FilesAssumption
  <2>2. IsSeq(r)
    BY <2>1, Zenon DEF IsSeq
  <2>3. DOMAIN r = 1..Len(r)
    BY <2>2, SeqFacts
  <2>4. ASSUME NEW i \in DOMAIN r
        PROVE  GoodRecord(r[i])
    <3> DEFINE d == r[i]["Description"]
    <3>1. "Tag" \in DOMAIN r[i] /\ "Facet" \notin DOMAIN r[i] => r[i]["Tag"] \in Tags
      BY FilesAssumption
    <3>2. "Description" \in DOMAIN r[i] => d \in Seq({d[j] : j \in DOMAIN d})
      BY FilesAssumption
    <3>3. "Description" \in DOMAIN r[i] => IsSeq(d)
      BY <3>2, Zenon DEF IsSeq
    <3> QED
      BY <3>1, <3>3 DEF GoodRecord
  <2> QED
    BY <2>2, <2>3, <2>4 DEF GoodRecords
<1>2. GoodRecords(<<>>)
  <2>1. <<>> \in Seq({}) /\ Len(<<>>) = 0
    OBVIOUS
  <2> QED
    BY <2>1 DEF GoodRecords, IsSeq
<1> QED
  BY <1>1, <1>2

LEMMA GoodAppend ==
  ASSUME NEW s, GoodRecords(s), NEW r, GoodRecord(r)
  PROVE  GoodRecords(Append(s, r))
<1> DEFINE u == Append(s, r)
<1>1. /\ IsSeq(u) /\ Len(u) = Len(s) + 1 /\ Len(s) \in Nat
      /\ u[Len(s) + 1] = r /\ \A i \in 1..Len(s) : u[i] = s[i]
  BY AppendFacts, SeqFacts DEF GoodRecords
<1> HIDE DEF u
<1>2. \A i : i \in 1..Len(u) <=> i \in 1..Len(s) \/ i = Len(s) + 1
  BY <1>1
<1>3. GoodRecords(u)
  BY <1>1, <1>2 DEF GoodRecords
<1> QED
  BY <1>3 DEF u

LEMMA GoodTail ==
  ASSUME NEW s, GoodRecords(s), s # <<>>
  PROVE  GoodRecords(Tail(s)) /\ GoodRecord(Head(s))
<1>1. /\ IsSeq(Tail(s)) /\ Len(s) > 0 /\ Len(Tail(s)) = Len(s) - 1
      /\ Head(s) = s[1] /\ Len(s) \in Nat
      /\ \A i \in 1..Len(Tail(s)) : Tail(s)[i] = s[i + 1]
  BY TailFacts, SeqFacts DEF GoodRecords
<1>2. \A i \in 1..Len(Tail(s)) : i + 1 \in 1..Len(s)
  BY <1>1
<1>3. 1 \in 1..Len(s)
  BY <1>1
<1> QED
  BY <1>1, <1>2, <1>3 DEF GoodRecords

LEMMA EmptyVocabulary == VocShape([f \in {} |-> newFacet]) /\ MergeForm([f \in {} |-> newFacet], <<>>)
<1> DEFINE v == [f \in {} |-> newFacet]
<1>1. IsFcn(v) /\ DOMAIN v = {}
  BY DEF IsFcn
<1> HIDE DEF v
<1>2. Len(<<>>) = 0
  OBVIOUS
<1>3. VocShape(v) /\ MergeForm(v, <<>>)
  BY <1>1, <1>2, FS_EmptySet DEF VocShape, MergeForm, HasTag, SomeAbout
<1> QED
  BY <1>3 DEF v

LEMMA ContentInit == Init => ContentInv
<1> SUFFICES ASSUME Init
             PROVE  ContentInv
  OBVIOUS
<1>1. GoodRecords(disk.recs)
  BY FilesGood DEF Init, Missing
<1> QED
  BY <1>1, FilesGood, EmptyVocabulary DEF Init, ContentInv

LEMMA ContentNext == ContentInv /\ [Next]_vars => ContentInv'
<1> SUFFICES ASSUME ContentInv, [Next]_vars
             PROVE  ContentInv'
  OBVIOUS
<1>1. CASE Replace
  <2>1. GoodRecords(disk'.recs)
    <3>1. (\E r \in Files : disk' = [recs |-> r, time |-> clock]) \/ disk' = Missing
      BY <1>1 DEF Replace, Replaced
    <3>2. Missing.recs = <<>>
      BY DEF Missing
    <3>3. ASSUME NEW r \in Files, disk' = [recs |-> r, time |-> clock]
          PROVE  disk'.recs = r
      BY <3>3
    <3> QED
      BY <3>1, <3>2, <3>3, FilesGood
  <2>2. UNCHANGED <<m_facets, log, stream>>
    BY <1>1 DEF Replace
  <2> QED
    BY <2>1, <2>2 DEF ContentInv
<1>2. CASE Tick
  BY <1>2 DEF Tick, hist, ContentInv
<1>3. CASE Load
  BY <1>3 DEF Load, file, hist, ContentInv
<1>4. CASE Read
  <2> DEFINE r == Head(stream)
  <2>1. GoodRecords(Tail(stream)) /\ GoodRecord(r)
    BY <1>4, GoodTail DEF Read, ContentInv
  <2>2. m_facets' = merged(m_facets, r) /\ log' = Append(log, r) /\ stream' = Tail(stream) /\ disk' = disk
    BY <1>4 DEF Read, file
  <2> HIDE DEF r
  <2>3. VocShape(m_facets')
    BY <2>1, <2>2, MergedShape DEF ContentInv
  <2>4. GoodRecords(log')
    BY <2>1, <2>2, GoodAppend DEF ContentInv
  <2>5. MergeForm(m_facets', log')
    BY <2>1, <2>2, MergeStep DEF ContentInv, GoodRecords
  <2> QED
    BY <2>1, <2>2, <2>3, <2>4, <2>5 DEF ContentInv
<1>5. CASE ReadThrows
  BY <1>5, FilesGood DEF ReadThrows, file, hist, ContentInv
<1>6. CASE ReadEnds
  BY <1>6 DEF ReadEnds, file, hist, ContentInv
<1>7. CASE Stamp
  BY <1>7 DEF Stamp, file, hist, ContentInv
<1>8. CASE ShortDescription
  <2>1. PICK f : AskedFacet(m_facets, m_facets', f) \/ \E t : AskedTag(m_facets, m_facets', f, t)
    BY <1>8, AskedCases DEF ContentInv
  <2>2. VocShape(m_facets') /\ SameData(m_facets, m_facets')
    BY <2>1, AskedKeeps DEF ContentInv
  <2>3. MergeForm(m_facets', log)
    BY <2>2, SameDataMerge DEF ContentInv
  <2>4. UNCHANGED <<disk, stream, log>>
    BY <1>8 DEF ShortDescription, file, hist
  <2> QED
    BY <2>2, <2>3, <2>4 DEF ContentInv
<1>9. CASE Write
  <2>1. GoodRecords(printed(m_facets))
    BY MergedNamesApart, PrintedMerge DEF ContentInv
  <2>2. disk'.recs = printed(m_facets) /\ UNCHANGED <<m_facets, log, stream>>
    <3> DEFINE d == [recs |-> printed(m_facets), time |-> clock]
    <3>1. disk' = d /\ UNCHANGED <<m_facets, log, stream>>
      BY <1>9 DEF Write, Replaced
    <3>2. d.recs = printed(m_facets)
      OBVIOUS
    <3> QED
      BY <3>1, <3>2
  <2> QED
    BY <2>1, <2>2 DEF ContentInv
<1>10. CASE WriteThrows
  BY <1>10 DEF WriteThrows, file, hist, ContentInv
<1>11. CASE UNCHANGED vars
  BY <1>11 DEF vars, file, hist, ContentInv
<1> QED
  BY <1>1, <1>2, <1>3, <1>4, <1>5, <1>6, <1>7, <1>8, <1>9, <1>10, <1>11 DEF Next

LEMMA ContentHolds == Spec => []ContentInv
BY ContentInit, ContentNext, PTL DEF Spec

(* Through any number of loads, complete or broken off, and of any files,  *)
(* the vocabulary holds for every field what the last record with it says, *)
(* and nothing else.                                                       *)
THEOREM VocabularyIsMerge == Spec => []MergeIsOverride
<1>1. ContentInv => MergeIsOverride
  BY MergeForms DEF ContentInv, GoodRecords, MergeIsOverride
<1> QED
  BY <1>1, ContentHolds, PTL

(* What write prints has all of the vocabulary: reading it into an empty   *)
(* one gives the same facets, tags and fields.                             *)
THEOREM WriteKeepsAll == Spec => []WriteLosesNothing
<1>1. ContentInv => WriteLosesNothing
  BY MergedNamesApart, PrintedMerge, MergeForms DEF ContentInv, GoodRecords, WriteLosesNothing
<1> QED
  BY <1>1, ContentHolds, PTL

-----------------------------------------------------------------------------
(* The timestamp.                                                          *)

(* The records of s are in the log from the place after i on. *)
Holds(s, l, i) == Len(s) <= Len(l) - i /\ \A j \in 1..Len(s) : l[i + j] = s[j]

(* The records of s are in the log from the place after i to its end, and  *)
(* the rest of them is q.                                                  *)
HoldsSome(s, l, q, i) ==
  /\ Len(s) = (Len(l) - i) + Len(q)
  /\ \A j \in 1..(Len(l) - i) : l[i + j] = s[j]
  /\ \A j \in 1..Len(q) : q[j] = s[(Len(l) - i) + j]

(* A file other than the one loaded has a greater mtime than the one the   *)
(* timestamp is of, unless it came within its second.                      *)
StampInv ==
  /\ clock \in Nat \ {0} /\ newest \in 0..clock /\ m_timestamp \in 0..newest
  /\ disk = Missing \/ (disk.time = newest /\ newest # 0)
  /\ pc \in {"idle", "read", "stamp"} /\ raced \in BOOLEAN /\ blurred \in BOOLEAN
  /\ pc = "read" /\ ~raced => \E i \in 0..Len(log) : HoldsSome(disk.recs, log, stream, i)
  /\ pc = "stamp" /\ ~raced => \E i \in 0..Len(log) : Holds(disk.recs, log, i)
  /\ m_timestamp # 0 /\ m_timestamp = disk.time /\ ~raced /\ ~blurred =>
       \E i \in 0..Len(log) : Holds(disk.recs, log, i)

LEMMA HoldsAppend ==
  ASSUME NEW s, IsSeq(s), NEW l, IsSeq(l), NEW r,
         \E i \in 0..Len(l) : Holds(s, l, i)
  PROVE  \E i \in 0..Len(Append(l, r)) : Holds(s, Append(l, r), i)
<1> DEFINE m == Append(l, r)
<1>1. PICK i \in 0..Len(l) : Holds(s, l, i)
  OBVIOUS
<1>2. Len(s) \in Nat /\ Len(l) \in Nat /\ Len(m) = Len(l) + 1 /\ \A j \in 1..Len(l) : m[j] = l[j]
  BY SeqFacts, AppendFacts
<1> HIDE DEF m
<1>3. \A j \in 1..Len(s) : i + j \in 1..Len(l) /\ l[i + j] = s[j]
  BY <1>1, <1>2 DEF Holds
<1>4. i \in 0..Len(m) /\ Len(s) <= Len(m) - i
  BY <1>1, <1>2 DEF Holds
<1>5. Holds(s, m, i)
  BY <1>2, <1>3, <1>4 DEF Holds
<1> QED
  BY <1>4, <1>5 DEF m

LEMMA HoldsMore ==
  ASSUME NEW s, IsSeq(s), NEW l, IsSeq(l), NEW q, IsSeq(q), q # <<>>,
         \E i \in 0..Len(l) : HoldsSome(s, l, q, i)
  PROVE  \E i \in 0..Len(Append(l, Head(q))) : HoldsSome(s, Append(l, Head(q)), Tail(q), i)
<1> DEFINE m == Append(l, Head(q))
           p == Tail(q)
<1>1. PICK i \in 0..Len(l) : HoldsSome(s, l, q, i)
  OBVIOUS
<1>2. /\ Len(s) \in Nat /\ Len(l) \in Nat /\ Len(m) = Len(l) + 1
      /\ m[Len(l) + 1] = Head(q) /\ \A j \in 1..Len(l) : m[j] = l[j]
  BY SeqFacts, AppendFacts
<1>3. /\ Len(q) \in Nat /\ Len(q) > 0 /\ Len(p) = Len(q) - 1 /\ Head(q) = q[1]
      /\ \A j \in 1..Len(p) : p[j] = q[j + 1]
  BY SeqFacts, TailFacts
<1> HIDE DEF m, p
<1>4. /\ Len(s) = (Len(l) - i) + Len(q)
      /\ \A j \in 1..(Len(l) - i) : l[i + j] = s[j]
      /\ \A j \in 1..Len(q) : q[j] = s[(Len(l) - i) + j]
  BY <1>1 DEF HoldsSome
<1>5. Len(s) = (Len(m) - i) + Len(p) /\ i \in 0..Len(m)
  BY <1>2, <1>3, <1>4
<1>6. ASSUME NEW j \in 1..(Len(m) - i)
      PROVE  m[i + j] = s[j]
  <2>1. CASE j = Len(l) - i + 1
    <3>1. i + j = Len(l) + 1
      BY <1>2, <2>1
    <3>2. 1 \in 1..Len(q) /\ (Len(l) - i) + 1 = j
      BY <1>2, <1>3, <2>1
    <3>3. q[1] = s[j]
      BY <1>4, <3>2
    <3> QED
      BY <1>2, <1>3, <3>1, <3>3
  <2>2. CASE j # Len(l) - i + 1
    <3>1. j \in 1..(Len(l) - i) /\ i + j \in 1..Len(l)
      BY <1>2, <2>2
    <3> QED
      BY <1>2, <1>4, <3>1
  <2> QED
    BY <2>1, <2>2
<1>7. ASSUME NEW j \in 1..Len(p)
      PROVE  p[j] = s[(Len(m) - i) + j]
  <2>1. j + 1 \in 1..Len(q) /\ (Len(m) - i) + j = (Len(l) - i) + (j + 1)
    BY <1>2, <1>3
  <2> QED
    BY <1>3, <1>4, <2>1
<1>8. HoldsSome(s, m, p, i)
  BY <1>5, <1>6, <1>7 DEF HoldsSome
<1> QED
  BY <1>5, <1>8 DEF m, p

LEMMA HoldsPrefix ==
  ASSUME NEW s, IsSeq(s), NEW l, IsSeq(l), NEW i \in 0..Len(l), Holds(s, l, i)
  PROVE  IsPrefix(s, SubSeq(l, i + 1, Len(l)))
<1> DEFINE t == SubSeq(l, i + 1, Len(l))
<1>1. Len(s) \in Nat /\ Len(l) \in Nat /\ s \in Seq(Elems(s)) /\ l \in Seq(Elems(l))
  BY SeqFacts
<1>2. t \in Seq(Elems(l)) /\ Len(t) = Len(l) - i /\ \A j \in 1..(Len(l) - i) : t[j] = l[i + j]
  BY <1>1
<1> HIDE DEF t
<1>3. Len(s) <= Len(t) /\ \A j \in 1..Len(s) : t[j] = s[j]
  BY <1>1, <1>2 DEF Holds
<1> DEFINE u == SubSeq(s, 1, Len(s))
           w == SubSeq(t, 1, Len(s))
<1>4. u \in Seq(Elems(s)) /\ Len(u) = Len(s) /\ \A j \in 1..Len(s) : u[j] = s[j]
  BY <1>1
<1>5. w \in Seq(Elems(l)) /\ Len(w) = Len(s) /\ \A j \in 1..Len(s) : w[j] = t[j]
  BY <1>1, <1>2, <1>3
<1> HIDE DEF u, w
<1>6. u = w
  BY <1>3, <1>4, <1>5
<1>7. IsPrefix(s, t)
  BY <1>3, <1>6 DEF IsPrefix, u, w
<1> QED
  BY <1>7 DEF t

LEMMA StampInit == Init => StampInv
<1> SUFFICES ASSUME Init
             PROVE  StampInv
  OBVIOUS
<1>1. disk = Missing \/ disk.time = 1
  BY DEF Init
<1>2. Missing.time = 0
  BY DEF Missing
<1>3. /\ clock = 1 /\ newest = disk.time /\ m_timestamp = 0 /\ pc = "idle"
      /\ raced = FALSE /\ blurred = FALSE
  BY DEF Init
<1>4. newest \in 0..clock /\ m_timestamp \in 0..newest
  BY <1>1, <1>2, <1>3
<1>5. disk = Missing \/ (disk.time = newest /\ newest # 0)
  BY <1>1, <1>3
<1>6. clock \in Nat \ {0} /\ pc \in {"idle", "read", "stamp"}
  BY <1>3
<1>8. raced \in BOOLEAN /\ blurred \in BOOLEAN
  BY <1>3, Zenon
<1>7. pc # "read" /\ pc # "stamp" /\ ~(m_timestamp # 0)
  BY <1>3
<1> QED
  BY <1>4, <1>5, <1>6, <1>7, <1>8, Zenon DEF StampInv

(* Another file is under the pathname. *)
LEMMA StampReplaced ==
  ASSUME StampInv, NEW d, Replaced(d),
         d = Missing \/ (d.time = clock /\ d # Missing),
         UNCHANGED <<clock, m_timestamp, pc, stream, log>>
  PROVE  StampInv'
<1>1. Missing.time = 0
  BY DEF Missing
<1>2. /\ disk' = d /\ raced' = (raced \/ pc # "idle")
      /\ newest' = (IF d = Missing THEN newest ELSE d.time)
      /\ blurred' = (blurred \/ d.time = newest)
  BY DEF Replaced
<1>3. clock \in Nat \ {0} /\ newest \in 0..clock /\ m_timestamp \in 0..newest
  BY DEF StampInv
<1>4. newest' \in 0..clock /\ m_timestamp \in 0..newest'
  BY <1>1, <1>2, <1>3
<1>5. disk' = Missing \/ (disk'.time = newest' /\ newest' # 0)
  BY <1>2, <1>3
<1>6. raced' \in BOOLEAN /\ blurred' \in BOOLEAN /\ pc \in {"idle", "read", "stamp"}
  BY <1>2 DEF StampInv
<1>7. ~raced' => pc = "idle"
  BY <1>2 DEF StampInv
<1>8. m_timestamp # 0 /\ m_timestamp = disk'.time => blurred'
  <2>1. SUFFICES ASSUME m_timestamp # 0, m_timestamp = d.time
                 PROVE  d.time = newest
    BY <1>2
  <2> QED
    BY <1>1, <1>3, <2>1
<1> QED
  BY <1>3, <1>4, <1>5, <1>6, <1>7, <1>8 DEF StampInv

LEMMA StampNext == ContentInv /\ StampInv /\ [Next]_vars => StampInv'
<1> SUFFICES ASSUME ContentInv, StampInv, [Next]_vars
             PROVE  StampInv'
  OBVIOUS
<1>0. IsSeq(disk.recs) /\ IsSeq(log) /\ IsSeq(stream)
  BY DEF ContentInv, GoodRecords
<1>t. clock \in Nat \ {0} /\ newest \in 0..clock /\ m_timestamp \in 0..newest
  BY DEF StampInv
<1>r. ASSUME NEW r
      PROVE  [recs |-> r, time |-> clock].time = clock /\ [recs |-> r, time |-> clock] # Missing
  <2>1. [recs |-> r, time |-> clock].time = clock /\ Missing.time = 0
    BY DEF Missing
  <2> QED
    BY <1>t, <2>1
<1>1. CASE Replace
  <2>1. UNCHANGED <<clock, m_timestamp, pc, stream, log>>
    BY <1>1 DEF Replace
  <2>2. CASE \E r \in Files : Replaced([recs |-> r, time |-> clock])
    BY <1>r, <2>1, <2>2, StampReplaced
  <2>3. CASE Replaced(Missing)
    BY <2>1, <2>3, StampReplaced
  <2> QED
    BY <1>1, <2>2, <2>3 DEF Replace
<1>2. CASE Tick
  <2>1. clock' = clock + 1 /\ UNCHANGED <<disk, m_timestamp, pc, stream, log, raced, newest, blurred>>
    BY <1>2 DEF Tick, hist
  <2> QED
    BY <2>1 DEF StampInv
<1>3. CASE Load
  <2>1. /\ stream' = disk.recs /\ pc' = "read"
        /\ UNCHANGED <<disk, clock, m_timestamp, log, raced, newest, blurred>>
    BY <1>3 DEF Load, file, hist
  <2>2. HoldsSome(disk.recs, log, disk.recs, Len(log)) /\ Len(log) \in 0..Len(log)
    <3>1. Len(log) \in Nat /\ Len(disk.recs) \in Nat
      BY <1>0, SeqFacts
    <3> QED
      BY <3>1 DEF HoldsSome
  <2> QED
    BY <2>1, <2>2 DEF StampInv
<1>4. CASE Read
  <2>1. /\ pc = "read" /\ stream # <<>> /\ stream' = Tail(stream) /\ log' = Append(log, Head(stream))
        /\ UNCHANGED <<disk, clock, m_timestamp, pc, raced, newest, blurred>>
    BY <1>4 DEF Read, file
  <2>2. ~raced => \E i \in 0..Len(log') : HoldsSome(disk.recs, log', stream', i)
    BY <1>0, <2>1, HoldsMore DEF StampInv
  <2>3. (\E i \in 0..Len(log) : Holds(disk.recs, log, i)) => \E i \in 0..Len(log') : Holds(disk.recs, log', i)
    BY <1>0, <2>1, HoldsAppend
  <2> QED
    BY <2>1, <2>2, <2>3 DEF StampInv
<1>5. CASE ReadThrows
  <2>1. pc' = "idle" /\ UNCHANGED <<disk, clock, m_timestamp, log, raced, newest, blurred>>
    BY <1>5 DEF ReadThrows, file, hist
  <2> QED
    BY <2>1 DEF StampInv
<1>6. CASE ReadEnds
  <2>1. /\ pc = "read" /\ stream = <<>> /\ pc' = "stamp"
        /\ UNCHANGED <<disk, clock, m_timestamp, stream, log, raced, newest, blurred>>
    BY <1>6 DEF ReadEnds, file, hist
  <2>2. ASSUME NEW i \in 0..Len(log), HoldsSome(disk.recs, log, <<>>, i)
        PROVE  Holds(disk.recs, log, i)
    <3>1. Len(<<>>) = 0 /\ Len(log) \in Nat /\ Len(disk.recs) \in Nat
      BY <1>0, SeqFacts
    <3> QED
      BY <2>2, <3>1 DEF HoldsSome, Holds
  <2>3. ~raced => \E i \in 0..Len(log) : Holds(disk.recs, log, i)
    BY <2>1, <2>2 DEF StampInv
  <2> QED
    BY <2>1, <2>3 DEF StampInv
<1>7. CASE Stamp
  <2>1. /\ pc = "stamp" /\ pc' = "idle" /\ m_timestamp' = disk.time
        /\ UNCHANGED <<disk, clock, stream, log, raced, newest, blurred>>
    BY <1>7 DEF Stamp, file, hist
  <2>2. disk.time \in 0..newest
    BY <1>t DEF StampInv, Missing
  <2> QED
    BY <2>1, <2>2 DEF StampInv
<1>8. CASE ShortDescription
  <2>1. UNCHANGED <<disk, clock, m_timestamp, pc, stream, log, raced, newest, blurred>>
    BY <1>8 DEF ShortDescription, file, hist
  <2> QED
    BY <2>1 DEF StampInv
<1>9. CASE Write
  <2>1. UNCHANGED <<clock, m_timestamp, pc, stream, log>> /\ Replaced([recs |-> printed(m_facets), time |-> clock])
    BY <1>9 DEF Write
  <2> QED
    BY <1>r, <2>1, StampReplaced
<1>10. CASE WriteThrows
  <2>1. UNCHANGED <<disk, clock, m_timestamp, pc, stream, log, raced, newest, blurred>>
    BY <1>10 DEF WriteThrows, file, hist
  <2> QED
    BY <2>1 DEF StampInv
<1>11. CASE UNCHANGED vars
  <2>1. UNCHANGED <<disk, clock, m_timestamp, pc, stream, log, raced, newest, blurred>>
    BY <1>11 DEF vars, file, hist
  <2> QED
    BY <2>1 DEF StampInv
<1> QED
  BY <1>1, <1>2, <1>3, <1>4, <1>5, <1>6, <1>7, <1>8, <1>9, <1>10, <1>11 DEF Next

(* While no file was replaced during a load or within the second of its    *)
(* mtime, a timestamp equal to that of the file means that all records of  *)
(* the file have been merged, one after the other.                         *)
THEOREM StampIsOfWhatWasLoaded == Spec => []StampMeansLoaded
<1>1. ContentInv /\ StampInv => StampMeansLoaded
  <2>1. SUFFICES ASSUME ContentInv, StampInv,
                        m_timestamp # 0, m_timestamp = disk.time, ~raced, ~blurred
                 PROVE  \E i \in 0..Len(log) : IsPrefix(disk.recs, SubSeq(log, i + 1, Len(log)))
    BY DEF StampMeansLoaded
  <2>2. PICK i \in 0..Len(log) : Holds(disk.recs, log, i)
    BY <2>1 DEF StampInv
  <2>3. IsSeq(disk.recs) /\ IsSeq(log)
    BY <2>1 DEF ContentInv, GoodRecords
  <2> QED
    BY <2>2, <2>3, HoldsPrefix
<1> QED
  BY <1>1, ContentHolds, StampInit, StampNext, PTL DEF Spec

-----------------------------------------------------------------------------
(* The cached descriptions.                                                *)

FacetOk(f, x, red) ==
  f \notin red /\ x.m_desc # <<>> => x.m_desc = FirstLine(longDescription(x))

TagOk(t, d, red, l) ==
  d.m_desc # <<>> =>
    /\ t \notin red => d.m_desc = FirstLine(longDescription(d))
    /\ \E i \in About(l, "Tag", t) :
         "Description" \in DOMAIN l[i] /\ FirstLine(l[i]["Description"]) = d.m_desc

CachedForm(v, red, l) ==
  \A f \in DOMAIN v : FacetOk(f, v[f], red) /\ \A t \in DOMAIN v[f].m_tags : TagOk(t, v[f].m_tags[t], red, l)

LEMMA CachedForms == CachedIsFirstLine <=> CachedForm(m_facets, redescribed, log)
BY DEF CachedIsFirstLine, CachedForm, FacetOk, TagOk

(* A record without a description leaves the one there is. *)
LEMMA DescriptionKept ==
  ASSUME NEW d, NEW e, NEW r, NEW key, key # "Description", "Description" \notin DOMAIN r,
         e.fields = mergedFields(d.fields, r, key)
  PROVE  longDescription(e) = longDescription(d)
<1>1. /\ "Description" \in DOMAIN e.fields <=> "Description" \in DOMAIN d.fields
      /\ "Description" \in DOMAIN d.fields => e.fields["Description"] = d.fields["Description"]
  BY DEF mergedFields
<1> QED
  BY <1>1 DEF longDescription

(* One more record, of which the description is not the cached one. *)
LEMMA TagOkMore ==
  ASSUME NEW t, NEW d, NEW red, NEW red2, red \subseteq red2, NEW l, IsSeq(l), NEW r, TagOk(t, d, red, l)
  PROVE  TagOk(t, d, red2, Append(l, r))
<1> DEFINE m == Append(l, r)
<1>1. \A i \in About(l, "Tag", t) : i \in About(m, "Tag", t) /\ m[i] = l[i]
  <2>1. \A i \in About(l, "Tag", t) : i \in 1..Len(l)
    BY AboutFacts
  <2> QED
    BY <2>1, AboutAppend, AppendFacts
<1> HIDE DEF m
<1>2. TagOk(t, d, red2, m)
  BY <1>1 DEF TagOk
<1> QED
  BY <1>2 DEF m

LEMMA CachedRead ==
  ASSUME NEW v, VocShape(v), NEW l, IsSeq(l), NEW red, CachedForm(v, red, l),
         NEW r, NEW red2,
         red2 = IF "Description" \in DOMAIN r /\ cachedFor(v, r) # <<>> THEN red \cup {nameOf(r)} ELSE red
  PROVE  CachedForm(merged(v, r), red2, Append(l, r))
<1> DEFINE w == merged(v, r)
           m == Append(l, r)
<1>0. red \subseteq red2
  OBVIOUS
<1>1. ASSUME NEW g \in DOMAIN v
      PROVE  FacetOk(g, v[g], red2) /\ \A t \in DOMAIN v[g].m_tags : TagOk(t, v[g].m_tags[t], red2, m)
  <2>1. FacetOk(g, v[g], red2)
    BY <1>0 DEF CachedForm, FacetOk
  <2>2. ASSUME NEW t \in DOMAIN v[g].m_tags
        PROVE  TagOk(t, v[g].m_tags[t], red2, m)
    <3>1. TagOk(t, v[g].m_tags[t], red, l)
      BY DEF CachedForm
    <3> QED
      BY <1>0, <3>1, TagOkMore
  <2> QED
    BY <2>1, <2>2
<1> HIDE DEF m
<1>2. CASE "Facet" \in DOMAIN r
  <2> DEFINE f == r["Facet"]
             x == FacetOr(v, f)
             y == [fields |-> mergedFields(x.fields, r, "Facet"), m_desc |-> x.m_desc, m_tags |-> x.m_tags]
  <2>1. Updated(v, f, y, w)
    BY <1>2, MergedFacet
  <2>2. /\ y.fields = mergedFields(x.fields, r, "Facet") /\ y.m_desc = x.m_desc /\ y.m_tags = x.m_tags
        /\ x = (IF f \in DOMAIN v THEN v[f] ELSE newFacet)
        /\ newFacet.m_desc = <<>> /\ DOMAIN newFacet.m_tags = {}
    BY NewShapes DEF FacetOr
  <2>3. cachedFor(v, r) = x.m_desc /\ nameOf(r) = f
    BY <1>2, <2>2 DEF cachedFor, nameOf, hasFacet
  <2> HIDE DEF f, x, y, w
  <2>4. FacetOk(f, y, red2)
    <3>1. SUFFICES ASSUME f \notin red2, y.m_desc # <<>>
                   PROVE  y.m_desc = FirstLine(longDescription(y))
      BY DEF FacetOk
    <3>2. "Description" \notin DOMAIN r
      BY <2>2, <2>3, <3>1
    <3>3. longDescription(y) = longDescription(x)
      BY <2>2, <3>2, DescriptionKept
    <3>4. f \in DOMAIN v /\ x = v[f]
      BY <2>2, <3>1
    <3>5. FacetOk(f, x, red2)
      BY <1>1, <3>4
    <3> QED
      BY <2>2, <3>1, <3>3, <3>5 DEF FacetOk
  <2>5. \A t \in DOMAIN y.m_tags : TagOk(t, y.m_tags[t], red2, m)
    BY <1>1, <2>2
  <2>6. DOMAIN w = DOMAIN v \cup {f} /\ w[f] = y /\ \A g \in DOMAIN v : g # f => w[g] = v[g]
    BY <2>1 DEF Updated
  <2>7. CachedForm(w, red2, m)
    BY <1>1, <2>4, <2>5, <2>6 DEF CachedForm
  <2> QED
    BY <2>7 DEF w, m
<1>3. CASE "Facet" \notin DOMAIN r /\ "Tag" \in DOMAIN r
  <2> DEFINE t == r["Tag"]
             f == facetOf[t]
             x == FacetOr(v, f)
             d == TagOr(v, t)
             e == [fields |-> mergedFields(d.fields, r, "Tag"), m_desc |-> d.m_desc]
  <2>1. PICK ts : /\ Updated(x.m_tags, t, e, ts)
                  /\ Updated(v, f, [fields |-> x.fields, m_desc |-> x.m_desc, m_tags |-> ts], w)
    BY <1>3, MergedTag
  <2> DEFINE y == [fields |-> x.fields, m_desc |-> x.m_desc, m_tags |-> ts]
  <2>2. /\ e.fields = mergedFields(d.fields, r, "Tag") /\ e.m_desc = d.m_desc
        /\ y.m_tags = ts /\ y.fields = x.fields /\ y.m_desc = x.m_desc
        /\ x = (IF f \in DOMAIN v THEN v[f] ELSE newFacet)
        /\ newFacet.m_desc = <<>> /\ DOMAIN newFacet.m_tags = {} /\ newTag.m_desc = <<>>
        /\ d = (IF t \in DOMAIN x.m_tags THEN x.m_tags[t] ELSE newTag)
    BY NewShapes DEF FacetOr, TagOr
  <2>3. cachedFor(v, r) = d.m_desc /\ nameOf(r) = t
    BY <1>3, <2>2 DEF cachedFor, nameOf, hasTag
  <2>4. Updated(v, f, y, w)
    BY <2>1
  <2> HIDE DEF t, f, x, d, e, w, y
  <2>5. TagOk(t, e, red2, m)
    <3>1. SUFFICES ASSUME e.m_desc # <<>>
                   PROVE  TagOk(t, e, red2, m)
      BY DEF TagOk
    <3>2. t \in DOMAIN x.m_tags /\ d = x.m_tags[t] /\ f \in DOMAIN v /\ x = v[f]
      BY <2>2, <3>1
    <3>3. TagOk(t, d, red2, m)
      BY <1>1, <3>2
    <3>4. t \notin red2 => "Description" \notin DOMAIN r
      BY <2>2, <2>3, <3>1
    <3>5. t \notin red2 => longDescription(e) = longDescription(d)
      BY <2>2, <3>4, DescriptionKept
    <3> QED
      BY <2>2, <3>3, <3>5 DEF TagOk
  <2>6. FacetOk(f, y, red2)
    <3>1. longDescription(y) = longDescription(x)
      BY <2>2 DEF longDescription
    <3>2. f \in DOMAIN v => FacetOk(f, x, red2)
      BY <1>1, <2>2
    <3> QED
      BY <2>2, <3>1, <3>2 DEF FacetOk
  <2>7. \A u \in DOMAIN y.m_tags : TagOk(u, y.m_tags[u], red2, m)
    <3>1. /\ DOMAIN ts = DOMAIN x.m_tags \cup {t} /\ ts[t] = e
          /\ \A u \in DOMAIN x.m_tags : u # t => ts[u] = x.m_tags[u]
      BY <2>1 DEF Updated
    <3>2. \A u \in DOMAIN x.m_tags : TagOk(u, x.m_tags[u], red2, m)
      BY <1>1, <2>2
    <3> QED
      BY <2>2, <2>5, <3>1, <3>2
  <2>8. DOMAIN w = DOMAIN v \cup {f} /\ w[f] = y /\ \A g \in DOMAIN v : g # f => w[g] = v[g]
    BY <2>4 DEF Updated
  <2>9. CachedForm(w, red2, m)
    BY <1>1, <2>6, <2>7, <2>8 DEF CachedForm
  <2> QED
    BY <2>9 DEF w, m
<1>4. CASE "Facet" \notin DOMAIN r /\ "Tag" \notin DOMAIN r
  <2>1. w = v
    BY <1>4, MergedNone
  <2>2. CachedForm(v, red2, m)
    BY <1>1 DEF CachedForm
  <2> QED
    BY <2>1, <2>2 DEF m
<1> QED
  BY <1>2, <1>3, <1>4

(* What shortDescription takes is the first line. *)
LEMMA FirstOfLines ==
  ASSUME NEW d, GoodFields(d.fields), longDescription(d) # <<>>
  PROVE  /\ "Description" \in DOMAIN d.fields /\ longDescription(d) = d.fields["Description"]
         /\ FirstLine(longDescription(d)) = <<Head(longDescription(d))>>
         /\ FirstLine(longDescription(d)) # <<>>
<1> DEFINE s == longDescription(d)
<1>1. "Description" \in DOMAIN d.fields /\ s = d.fields["Description"]
  BY DEF longDescription
<1>2. IsSeq(s) /\ s # <<>>
  BY <1>1 DEF GoodFields
<1> HIDE DEF s
<1>3. Head(s) = s[1]
  BY <1>2, TailFacts
<1>4. FirstLine(s) = <<Head(s)>>
  BY <1>2, <1>3 DEF FirstLine
<1>5. <<Head(s)>> # <<>>
  OBVIOUS
<1> QED
  BY <1>1, <1>4, <1>5 DEF s

(* A description that was merged is the one of a record about the tag. *)
LEMMA DescriptionMerged ==
  ASSUME NEW l, IsSeq(l), NEW t, NEW d, d.fields = LastValue(l, "Tag", t), "Description" \in DOMAIN d.fields
  PROVE  \E i \in About(l, "Tag", t) : "Description" \in DOMAIN l[i] /\ l[i]["Description"] = d.fields["Description"]
<1> DEFINE j == Max(With(l, "Tag", t, "Description"))
<1>1. With(l, "Tag", t, "Description") # {} /\ d.fields["Description"] = l[j]["Description"]
  BY AboutFacts
<1>2. j \in With(l, "Tag", t, "Description")
  BY <1>1, WithFacts
<1> QED
  BY <1>1, <1>2 DEF With

LEMMA CachedAsked ==
  ASSUME NEW v, VocShape(v), NamesApart(v), NEW l, IsSeq(l), MergeForm(v, l),
         NEW red, CachedForm(v, red, l), NEW w, NEW f,
         AskedFacet(v, w, f) \/ \E t : AskedTag(v, w, f, t)
  PROVE  CachedForm(w, red, l)
<1>1. ASSUME NEW g \in DOMAIN v
      PROVE  /\ FacetShape(v[g]) /\ GoodFields(v[g].fields) /\ FacetOk(g, v[g], red)
             /\ \A t \in DOMAIN v[g].m_tags :
                  /\ TagShape(v[g].m_tags[t]) /\ GoodFields(v[g].m_tags[t].fields)
                  /\ v[g].m_tags[t].fields = LastValue(l, "Tag", t)
                  /\ TagOk(t, v[g].m_tags[t], red, l)
  BY DEF VocShape, NamesApart, MergeForm, CachedForm
<1>2. CASE AskedFacet(v, w, f)
  <2>1. /\ f \in DOMAIN v /\ DOMAIN w = DOMAIN v /\ w[f] = shortDescription(v[f])
        /\ \A g \in DOMAIN v : g # f => w[g] = v[g]
    BY <1>2 DEF AskedFacet
  <2> DEFINE d == v[f]
             e == shortDescription(d)
  <2>2. FacetShape(d) /\ GoodFields(d.fields) /\ FacetOk(f, d, red)
    BY <1>1, <2>1
  <2>3. \A t \in DOMAIN d.m_tags : TagOk(t, d.m_tags[t], red, l)
    BY <1>1, <2>1
  <2> HIDE DEF d
  <2>4. /\ e.fields = d.fields /\ e.m_tags = d.m_tags
        /\ e.m_desc = IF d.m_desc # <<>> \/ longDescription(d) = <<>> THEN d.m_desc
                      ELSE <<Head(longDescription(d))>>
    BY <2>2, ShortOfFacet
  <2> HIDE DEF e
  <2>5. longDescription(e) = longDescription(d)
    BY <2>4 DEF longDescription
  <2>6. FacetOk(f, e, red)
    <3>1. CASE d.m_desc # <<>> \/ longDescription(d) = <<>>
      BY <2>2, <2>4, <2>5, <3>1 DEF FacetOk
    <3>2. CASE longDescription(d) # <<>> /\ ~(d.m_desc # <<>>)
      BY <2>2, <2>4, <2>5, <3>2, FirstOfLines DEF FacetOk
    <3> QED
      BY <3>1, <3>2
  <2>7. w[f] = e /\ \A t \in DOMAIN e.m_tags : TagOk(t, e.m_tags[t], red, l)
    BY <2>1, <2>3, <2>4 DEF e, d
  <2> QED
    BY <1>1, <2>1, <2>6, <2>7 DEF CachedForm
<1>3. ASSUME NEW t, AskedTag(v, w, f, t)
      PROVE  CachedForm(w, red, l)
  <2>1. /\ f \in DOMAIN v /\ DOMAIN w = DOMAIN v /\ t \in DOMAIN v[f].m_tags
        /\ w[f].fields = v[f].fields /\ w[f].m_desc = v[f].m_desc
        /\ DOMAIN w[f].m_tags = DOMAIN v[f].m_tags
        /\ w[f].m_tags[t] = shortDescription(v[f].m_tags[t])
        /\ \A u \in DOMAIN v[f].m_tags : u # t => w[f].m_tags[u] = v[f].m_tags[u]
        /\ \A g \in DOMAIN v : g # f => w[g] = v[g]
    BY <1>3 DEF AskedTag
  <2> DEFINE d == v[f].m_tags[t]
             e == shortDescription(d)
  <2>2. TagShape(d) /\ GoodFields(d.fields) /\ d.fields = LastValue(l, "Tag", t) /\ TagOk(t, d, red, l)
    BY <1>1, <2>1
  <2>3. w[f].m_tags[t] = e
    BY <2>1
  <2> HIDE DEF d
  <2>4. /\ e.fields = d.fields
        /\ e.m_desc = IF d.m_desc # <<>> \/ longDescription(d) = <<>> THEN d.m_desc
                      ELSE <<Head(longDescription(d))>>
    BY <2>2, ShortOfTag
  <2> HIDE DEF e
  <2>5. longDescription(e) = longDescription(d)
    BY <2>4 DEF longDescription
  <2>6. TagOk(t, e, red, l)
    <3>1. CASE d.m_desc # <<>> \/ longDescription(d) = <<>>
      BY <2>2, <2>4, <2>5, <3>1 DEF TagOk
    <3>2. CASE longDescription(d) # <<>> /\ ~(d.m_desc # <<>>)
      <4>1. /\ "Description" \in DOMAIN d.fields /\ longDescription(d) = d.fields["Description"]
            /\ FirstLine(longDescription(d)) = <<Head(longDescription(d))>>
        BY <2>2, <3>2, FirstOfLines
      <4>2. e.m_desc = FirstLine(longDescription(d))
        BY <2>4, <3>2, <4>1
      <4>3. \E i \in About(l, "Tag", t) :
              "Description" \in DOMAIN l[i] /\ l[i]["Description"] = longDescription(d)
        BY <2>2, <4>1, DescriptionMerged
      <4> QED
        BY <2>5, <4>2, <4>3 DEF TagOk
    <3> QED
      BY <3>1, <3>2
  <2>7. FacetOk(f, w[f], red)
    <3>1. longDescription(w[f]) = longDescription(v[f])
      BY <2>1 DEF longDescription
    <3>2. FacetOk(f, v[f], red)
      BY <1>1, <2>1
    <3> QED
      BY <2>1, <3>1, <3>2 DEF FacetOk
  <2>8. \A u \in DOMAIN w[f].m_tags : TagOk(u, w[f].m_tags[u], red, l)
    BY <1>1, <2>1, <2>3, <2>6
  <2> QED
    BY <1>1, <2>1, <2>7, <2>8 DEF CachedForm
<1> QED
  BY <1>2, <1>3

LEMMA CachedNext == ContentInv /\ CachedIsFirstLine /\ [Next]_vars => CachedIsFirstLine'
<1> SUFFICES ASSUME ContentInv, CachedForm(m_facets, redescribed, log), [Next]_vars
             PROVE  CachedForm(m_facets', redescribed', log')
  BY CachedForms DEF CachedIsFirstLine, CachedForm, FacetOk, TagOk
<1>1. CASE Read
  <2> DEFINE r == Head(stream)
  <2>1. /\ m_facets' = merged(m_facets, r) /\ log' = Append(log, r)
        /\ redescribed' = IF "Description" \in DOMAIN r /\ cachedFor(m_facets, r) # <<>>
                          THEN redescribed \cup {nameOf(r)} ELSE redescribed
    BY <1>1 DEF Read
  <2> HIDE DEF r
  <2>2. VocShape(m_facets) /\ IsSeq(log)
    BY DEF ContentInv, GoodRecords
  <2>3. CachedForm(merged(m_facets, r), redescribed', Append(log, r))
    BY <2>1, <2>2, CachedRead
  <2> QED
    BY <2>1, <2>3
<1>2. CASE ShortDescription
  <2>1. PICK f : AskedFacet(m_facets, m_facets', f) \/ \E t : AskedTag(m_facets, m_facets', f, t)
    BY <1>2, AskedCases DEF ContentInv
  <2>2. VocShape(m_facets) /\ IsSeq(log) /\ MergeForm(m_facets, log) /\ NamesApart(m_facets)
    BY MergedNamesApart DEF ContentInv, GoodRecords
  <2>3. log' = log /\ redescribed' = redescribed
    BY <1>2 DEF ShortDescription, hist
  <2>4. CachedForm(m_facets', redescribed, log)
    BY <2>1, <2>2, CachedAsked
  <2> QED
    BY <2>3, <2>4
<1>3. CASE Replace \/ Tick \/ Load \/ ReadThrows \/ ReadEnds \/ Stamp \/ Write \/ WriteThrows \/ UNCHANGED vars
  <2>1. UNCHANGED <<m_facets, log, redescribed>>
    BY <1>3 DEF Replace, Tick, Load, ReadThrows, ReadEnds, Stamp, Write, WriteThrows, vars, file, hist
  <2> QED
    BY <2>1
<1> QED
  BY <1>1, <1>2, <1>3 DEF Next

(* A cached description is the first line of one that was merged for the   *)
(* same tag, and of the one the facet or tag has now unless that was       *)
(* merged after it had been cached.                                        *)
THEOREM CachedIsFirst == Spec => []CachedIsFirstLine
<1>1. Init => CachedIsFirstLine
  <2>1. Init => DOMAIN m_facets = {}
    BY DEF Init
  <2> QED
    BY <2>1, CachedForms DEF CachedForm
<1> QED
  BY <1>1, ContentHolds, CachedNext, PTL DEF Spec
=============================================================================

--------------------------- MODULE IteratorProofs ---------------------------
(***************************************************************************)
(* Proofs about the iterators of Apt, for any number of them.              *)
(*                                                                         *)
(* Record iterators: the reference count of an implementation is the       *)
(* number of handles on it, which makes every unref that deletes the last  *)
(* one.  Cardinalities enter through two lemmas about one implementation   *)
(* and the set of its holders; the steps only have to say how the sets of  *)
(* holders change.                                                         *)
(*                                                                         *)
(* What they go through: the reader the copies of a record iterator share, *)
(* and the answers Apt gives about the packages of a cache.                *)
(***************************************************************************)
EXTENDS RecordIterator, PackageIterator, RecordReader, AptCache, FiniteSetTheorems, WellFoundedInduction, TLAPS

ImplType == [st : {"free", "live"}, ref : Nat, size : Nat, gen : Nat, leaked : BOOLEAN]
HandleType == [impl : Impls \cup {Null}, pos : Int, cur : Int, curPos : Int]

HandleTypeOK ==
  /\ gen \in Nat /\ recs \in Nat
  /\ heap \in [Impls -> ImplType]
  /\ it \in [Handles -> HandleType]
  /\ misused \in BOOLEAN /\ undef \in BOOLEAN

(* A handle in scope has a position, so that it stays in scope whatever    *)
(* becomes of its implementation and its text.  And the text of a handle   *)
(* is always that of the position it was read for: WellFormed, which       *)
(* speaks of the current position, is not kept by ++ without it.           *)
Placed ==
  \A h \in Handles : Alive(h) =>
    /\ it[h].pos \in Nat
    /\ it[h].impl # Null => it[h].cur = it[h].curPos

HandlesInv == HandleTypeOK /\ Placed /\ HandlesSound /\ UndefinedNeedsMisuse

(* What RefCountExact says of an implementation e with holders S. *)
Exact(e, S) ==
  IF e.st = "live" THEN e.ref > 0 /\ e.ref = Cardinality(S) + (IF e.leaked THEN 1 ELSE 0)
  ELSE S = {}

(* ref() when h becomes a holder. *)
LEMMA TakeReference ==
  ASSUME NEW e \in ImplType, NEW S, IsFiniteSet(S), Exact(e, S), e.st = "live",
         NEW h, h \notin S
  PROVE  Exact([e EXCEPT !.ref = @ + 1], S \cup {h})
<1>1. Cardinality(S \cup {h}) = Cardinality(S) + 1 /\ Cardinality(S) \in Nat
  BY FS_AddElement, FS_CardinalityType
<1> QED
  BY <1>1 DEF Exact, ImplType

(* unref() when h ceases to be one; the last deletes. *)
LEMMA GiveReference ==
  ASSUME NEW e \in ImplType, NEW S, IsFiniteSet(S), Exact(e, S), NEW h \in S
  PROVE  /\ e.st = "live"
         /\ Exact(IF e.ref = 1 THEN noImpl ELSE [e EXCEPT !.ref = @ - 1], S \ {h})
<1>1. Cardinality(S \ {h}) = Cardinality(S) - 1 /\ Cardinality(S) \in Nat
      /\ Cardinality(S \ {h}) \in Nat /\ IsFiniteSet(S \ {h})
  BY FS_RemoveElement, FS_CardinalityType
<1>2. e.st = "live"
  BY DEF Exact
<1>3. CASE e.ref = 1
  <2>1. Cardinality(S \ {h}) = 0
    BY <1>1, <1>2, <1>3 DEF Exact, ImplType
  <2>2. S \ {h} = {}
    BY <1>1, <2>1, FS_EmptySet
  <2> QED
    BY <1>2, <1>3, <2>2 DEF Exact, noImpl
<1>4. CASE e.ref # 1
  BY <1>1, <1>2, <1>4 DEF Exact, ImplType
<1> QED
  BY <1>2, <1>3, <1>4

LEMMA HoldersFinite == \A m : IsFiniteSet(Holders(m))
<1> TAKE m
<1>1. Holders(m) \subseteq Handles
  BY DEF Holders
<1> QED
  BY <1>1, HandlesAssumption, FS_Subset

LEMMA ExactIffCounted ==
  HandleTypeOK => (RefCountExact <=> \A m \in Impls : Exact(heap[m], Holders(m)))
<1> SUFFICES ASSUME HandleTypeOK, NEW m \in Impls
             PROVE  Exact(heap[m], Holders(m)) <=>
                      /\ Live(m) => heap[m].ref = Cardinality(Holders(m))
                                                   + (IF heap[m].leaked THEN 1 ELSE 0)
                      /\ Live(m) => heap[m].ref > 0
                      /\ ~Live(m) => Holders(m) = {}
  BY DEF RefCountExact
<1> QED
  BY DEF Exact, Live

LEMMA SameHandles ==
  ASSUME HandlesInv, UNCHANGED <<heap, it>>
  PROVE  Placed' /\ HandlesSound'
<1>1. Placed' /\ WellFormed'
  BY DEF HandlesInv, HandlesSound, Placed, WellFormed, Alive
<1>2. \A m : Holders(m)' = Holders(m)
  BY DEF Holders, Alive
<1>3. RefCountExact'
  BY <1>2 DEF HandlesInv, HandlesSound, RefCountExact, Live
<1> QED
  BY <1>1, <1>3 DEF HandlesSound

(* The steps that change nothing but the histories: what is claimed of     *)
(* undefined behaviour is all there is to show.                            *)
LEMMA UndefinedKeeps ==
  ASSUME HandlesInv, NEW misuse \in BOOLEAN, Undefined(misuse), misuse \/ recs = 0
  PROVE  HandlesInv'
<1>1. HandleTypeOK' /\ Placed' /\ HandlesSound'
  BY SameHandles DEF HandlesInv, HandleTypeOK, Undefined
<1>2. UndefinedNeedsMisuse'
  BY DEF HandlesInv, HandleTypeOK, Undefined, UndefinedNeedsMisuse
<1> QED
  BY <1>1, <1>2 DEF HandlesInv

(* A handle in scope never has a deleted implementation. *)
LEMMA NeverDangling ==
  ASSUME HandlesInv, NEW h \in Handles, Alive(h)
  PROVE  ~Dangling(it[h].impl) /\ (it[h].impl # Null => it[h].impl \in Impls /\ Live(it[h].impl))
BY DEF HandlesInv, HandleTypeOK, HandleType, HandlesSound, RefCountExact, Holders, Dangling

(* The handles on m, and what Placed and WellFormed say of a handle x,     *)
(* when the handles are i and the heap is hp.                              *)
HoldersIn(i, m) == {h \in Handles : i[h] # noHandle /\ i[h].impl = m}

Fits(x, hp) ==
  x # noHandle =>
    /\ x.pos \in Nat
    /\ x.impl = Null => x.pos = 0
    /\ x.impl # Null => x.pos < hp[x.impl].size
    /\ x.impl # Null => x.cur = x.curPos

LEMMA InvParts ==
  ASSUME HandlesInv
  PROVE  /\ \A m \in Impls : Exact(heap[m], HoldersIn(it, m)) /\ IsFiniteSet(HoldersIn(it, m))
         /\ \A h \in Handles : Fits(it[h], heap)
         /\ heap \in [Impls -> ImplType] /\ it \in [Handles -> HandleType]
<1>1. \A m : Holders(m) = HoldersIn(it, m)
  BY DEF Holders, HoldersIn, Alive
<1>2. \A m \in Impls : Exact(heap[m], Holders(m))
  BY ExactIffCounted DEF HandlesInv, HandlesSound
<1>3. \A h \in Handles : Fits(it[h], heap)
  BY DEF HandlesInv, HandlesSound, WellFormed, Placed, Fits, Alive
<1> QED
  BY <1>1, <1>2, <1>3, HoldersFinite DEF HandlesInv, HandleTypeOK

(* For the steps that are defined it is enough to look at the handles and  *)
(* at the sets of holders.                                                 *)
LEMMA ChangeKeeps ==
  ASSUME HandlesInv, ~undef, NEW newHeap \in [Impls -> ImplType],
         NEW newIt \in [Handles -> HandleType],
         Change(newHeap, newIt),
         \A m \in Impls : Exact(newHeap[m], HoldersIn(newIt, m)),
         \A h \in Handles : Fits(newIt[h], newHeap)
  PROVE  HandlesInv'
<1>1. HandleTypeOK'
  BY DEF HandlesInv, HandleTypeOK, Change
<1>2. Placed' /\ WellFormed'
  BY DEF Placed, WellFormed, Alive, Change, Fits
<1>3. \A m \in Impls : Exact(heap'[m], Holders(m)')
  BY DEF Holders, HoldersIn, Alive, Change
<1>4. RefCountExact'
  BY <1>1, <1>3 DEF Exact, RefCountExact, Live, HandleTypeOK
<1>5. UndefinedNeedsMisuse'
  BY DEF UndefinedNeedsMisuse, Change
<1> QED
  BY <1>1, <1>2, <1>4, <1>5 DEF HandlesInv, HandlesSound

-----------------------------------------------------------------------------
(* What becomes of the sets of holders when handle h becomes x.            *)

LEMMA HoldersAfter ==
  ASSUME NEW i \in [Handles -> HandleType], NEW h \in Handles, NEW x \in HandleType,
         NEW m \in Impls
  PROVE  HoldersIn([i EXCEPT ![h] = x], m) =
           IF x # noHandle /\ x.impl = m THEN HoldersIn(i, m) \cup {h}
           ELSE HoldersIn(i, m) \ {h}
BY DEF HoldersIn

(* refd and unrefd change the entry of one implementation. *)
LEMMA RefdEntry ==
  ASSUME NEW hp \in [Impls -> ImplType], NEW m \in Impls \cup {Null}
  PROVE  /\ refd(hp, m) \in [Impls -> ImplType]
         /\ \A n \in Impls : refd(hp, m)[n] = IF n = m THEN [hp[n] EXCEPT !.ref = @ + 1] ELSE hp[n]
BY NullAssumption DEF refd, ImplType

LEMMA UnrefdEntry ==
  ASSUME NEW hp \in [Impls -> ImplType], NEW m \in Impls \cup {Null},
         m # Null => hp[m].ref > 0
  PROVE  /\ unrefd(hp, m) \in [Impls -> ImplType]
         /\ \A n \in Impls : unrefd(hp, m)[n] =
              IF n # m THEN hp[n]
              ELSE IF hp[n].ref = 1 THEN noImpl ELSE [hp[n] EXCEPT !.ref = @ - 1]
<1>1. CASE m = Null
  BY <1>1, NullAssumption DEF unrefd
<1>2. CASE m # Null /\ hp[m].ref = 1
  BY <1>2 DEF unrefd, ImplType, noImpl
<1>3. CASE m # Null /\ hp[m].ref # 1
  <2>1. hp[m].ref - 1 \in Nat
    BY <1>3 DEF ImplType
  <2> QED
    BY <1>3, <2>1 DEF unrefd, ImplType
<1> QED
  BY <1>1, <1>2, <1>3

(* Only the size of an implementation matters to a handle. *)
LEMMA FitsBySize ==
  ASSUME NEW x \in HandleType, NEW hp, NEW new, Fits(x, hp),
         x # noHandle /\ x.impl # Null => new[x.impl].size = hp[x.impl].size
  PROVE  Fits(x, new)
BY DEF Fits

-----------------------------------------------------------------------------
(* One lemma for each operation.                                           *)

LEMMA BeginKeeps ==
  ASSUME HandlesInv, NEW h \in Handles, NEW m \in Impls, RecordBegin(h, m)
  PROVE  HandlesInv'
<1>1. CASE recs = 0
  BY <1>1, UndefinedKeeps DEF RecordBegin
<1>2. CASE recs # 0
  <2> DEFINE e == [st |-> "live", ref |-> 1, size |-> recs, gen |-> gen, leaked |-> FALSE]
             x == [impl |-> m, pos |-> 0, cur |-> 0, curPos |-> 0]
             newHeap == [heap EXCEPT ![m] = e]
             newIt == [it EXCEPT ![h] = x]
  <2>1. ~undef /\ ~Live(m) /\ Change(newHeap, newIt) /\ it[h] = noHandle
    BY <1>2 DEF RecordBegin, Alive
  <2>2. newHeap \in [Impls -> ImplType] /\ newIt \in [Handles -> HandleType] /\ x \in HandleType
    BY DEF HandlesInv, HandleTypeOK, ImplType, HandleType
  <2>3. x # noHandle /\ x.impl = m
    BY DEF noHandle, endIterator, NoText
  <2>4. HoldersIn(it, m) = {} /\ \A n \in Impls : h \notin HoldersIn(it, n)
    BY <2>1, InvParts DEF Exact, Live, HoldersIn
  <2>5. Exact(e, {h})
    BY FS_Singleton DEF Exact
  <2> DEFINE P(n) == Exact(newHeap[n], HoldersIn(newIt, n))
  <2>6. \A n \in Impls : P(n)
    <3>1. newHeap[m] = e /\ \A n \in Impls \ {m} : newHeap[n] = heap[n]
      BY InvParts
    <3>2. HoldersIn(newIt, m) = {h} /\ \A n \in Impls \ {m} : HoldersIn(newIt, n) = HoldersIn(it, n)
      <4> HIDE DEF x
      <4> QED
        BY <2>2, <2>3, <2>4, InvParts DEF HoldersIn
    <3> HIDE DEF newHeap, newIt, e
    <3>3. P(m)
      BY <2>5, <3>1, <3>2
    <3>4. \A n \in Impls \ {m} : P(n)
      BY <3>1, <3>2, InvParts
    <3> QED
      BY <3>3, <3>4
  <2>7. \A k \in Handles : Fits(newIt[k], newHeap)
    <3> SUFFICES ASSUME NEW k \in Handles
                 PROVE  Fits(newIt[k], newHeap)
      OBVIOUS
    <3>1. CASE k = h
      BY <3>1, <1>2, <2>2, NullAssumption DEF HandlesInv, HandleTypeOK, Fits
    <3>2. CASE k # h
      <4>1. newIt[k] = it[k] /\ Fits(it[k], heap) /\ it[k] \in HandleType
        BY <3>2, InvParts
      <4>2. it[k] # noHandle => it[k].impl # m
        BY <2>4 DEF HoldersIn
      <4>3. it[k].impl \in Impls /\ it[k].impl # m => newHeap[it[k].impl] = heap[it[k].impl]
        BY InvParts
      <4> HIDE DEF newHeap, newIt
      <4> QED
        BY <4>1, <4>2, <4>3 DEF Fits, HandleType
    <3> QED
      BY <3>1, <3>2
  <2> HIDE DEF newHeap, newIt
  <2> QED
    BY <2>1, <2>2, <2>6, <2>7, ChangeKeeps
<1> QED
  BY <1>1, <1>2

(* The reference that the throwing constructor keeps is the leaked one. *)
LEMMA BeginThrowsKeeps ==
  ASSUME HandlesInv, NEW h \in Handles, NEW m \in Impls, RecordBeginThrows(h, m)
  PROVE  HandlesInv'
<1> DEFINE e == [st |-> "live", ref |-> 1, size |-> recs, gen |-> gen, leaked |-> TRUE]
           newHeap == [heap EXCEPT ![m] = e]
<1>1. ~undef /\ ~Live(m) /\ Change(newHeap, it)
  BY DEF RecordBeginThrows
<1>2. newHeap \in [Impls -> ImplType]
  BY DEF HandlesInv, HandleTypeOK, ImplType
<1>3. HoldersIn(it, m) = {}
  BY <1>1, InvParts DEF Exact, Live
<1>4. Exact(e, {})
  BY FS_EmptySet DEF Exact
<1> DEFINE P(n) == Exact(newHeap[n], HoldersIn(it, n))
<1>5. \A n \in Impls : P(n)
  <2>1. newHeap[m] = e /\ \A n \in Impls \ {m} : newHeap[n] = heap[n]
    BY InvParts
  <2> HIDE DEF newHeap, e
  <2>2. P(m)
    BY <1>3, <1>4, <2>1
  <2>3. \A n \in Impls \ {m} : P(n)
    BY <2>1, InvParts
  <2> QED
    BY <2>2, <2>3
<1>6. \A k \in Handles : Fits(it[k], newHeap)
  <2> SUFFICES ASSUME NEW k \in Handles
               PROVE  Fits(it[k], newHeap)
    OBVIOUS
  <2>1. Fits(it[k], heap) /\ it[k] \in HandleType /\ (it[k] # noHandle => it[k].impl # m)
    BY <1>3, InvParts DEF HoldersIn
  <2>2. it[k].impl \in Impls /\ it[k].impl # m => newHeap[it[k].impl] = heap[it[k].impl]
    BY InvParts
  <2> HIDE DEF newHeap
  <2> QED
    BY <2>1, <2>2 DEF Fits, HandleType
<1> HIDE DEF newHeap
<1> QED
  BY <1>1, <1>2, <1>5, <1>6, InvParts, ChangeKeeps

LEMMA EndKeeps ==
  ASSUME HandlesInv, NEW h \in Handles, RecordEnd(h)
  PROVE  HandlesInv'
<1> DEFINE newIt == [it EXCEPT ![h] = endIterator]
<1>1. ~undef /\ Change(heap, newIt) /\ it[h] = noHandle
  BY DEF RecordEnd, Alive
<1>2. endIterator \in HandleType /\ newIt \in [Handles -> HandleType]
  BY DEF HandlesInv, HandleTypeOK, HandleType, endIterator, NoText
<1>3. \A n \in Impls : HoldersIn(newIt, n) = HoldersIn(it, n)
  BY <1>1, NullAssumption DEF HoldersIn, endIterator, HandlesInv, HandleTypeOK
<1>4. \A k \in Handles : Fits(newIt[k], heap)
  BY InvParts DEF Fits, endIterator
<1> HIDE DEF newIt
<1> QED
  BY <1>1, <1>2, <1>3, <1>4, InvParts, ChangeKeeps

(* Copy, assignment, destruction and the increment that reaches the end    *)
(* are one operation on the counts: handle h, on implementation a or none, *)
(* becomes x, on implementation b or none.  The reference on b is taken    *)
(* before the one on a is given back, so that a = b is no exception.       *)
LEMMA ReplaceKeeps ==
  ASSUME HandlesInv, ~undef, NEW h \in Handles, NEW x \in HandleType,
         Fits(x, heap), x.impl # Null => Live(x.impl),
         Change(unrefd(refd(heap, x.impl), it[h].impl), [it EXCEPT ![h] = x])
  PROVE  HandlesInv'
<1> DEFINE a == it[h].impl
           b == x.impl
           taken == refd(heap, b)
           newHeap == unrefd(taken, a)
           newIt == [it EXCEPT ![h] = x]
<1>0. heap \in [Impls -> ImplType] /\ it \in [Handles -> HandleType]
      /\ a \in Impls \cup {Null} /\ b \in Impls \cup {Null} /\ it[h] \in HandleType
  BY InvParts DEF HandleType
<1>1. \A n \in Impls : h \in HoldersIn(it, n) <=> n = a
  BY <1>0, NullAssumption DEF HoldersIn, noHandle, endIterator, HandleType
<1>2. a # Null => heap[a].st = "live" /\ heap[a].ref \in Nat /\ heap[a].ref > 0
  BY <1>0, <1>1, InvParts DEF Exact, ImplType
<1>3. /\ taken \in [Impls -> ImplType]
      /\ \A n \in Impls : taken[n] = IF n = b THEN [heap[n] EXCEPT !.ref = @ + 1] ELSE heap[n]
  BY <1>0, RefdEntry
<1>4. a # Null => taken[a].ref > 0 /\ (a = b => taken[a].ref # 1)
  <2> HIDE DEF taken
  <2> QED
    BY <1>0, <1>2, <1>3 DEF ImplType
<1>5. /\ newHeap \in [Impls -> ImplType]
      /\ \A n \in Impls : newHeap[n] =
           IF n # a THEN taken[n]
           ELSE IF taken[n].ref = 1 THEN noImpl ELSE [taken[n] EXCEPT !.ref = @ - 1]
  <2> HIDE DEF taken, a
  <2> QED
    BY <1>0, <1>3, <1>4, UnrefdEntry
<1>6. newIt \in [Handles -> HandleType]
  BY <1>0
<1>7. \A n \in Impls : HoldersIn(newIt, n) =
        IF n = b THEN HoldersIn(it, n) \cup {h} ELSE HoldersIn(it, n) \ {h}
  BY <1>0, NullAssumption DEF HoldersIn, noHandle, endIterator
<1> DEFINE S(n) == HoldersIn(it, n)
<1>8. ASSUME NEW n \in Impls
      PROVE  Exact(newHeap[n], HoldersIn(newIt, n))
  <2> HIDE DEF newHeap, newIt, taken
  <2>0. Exact(heap[n], S(n)) /\ IsFiniteSet(S(n)) /\ heap[n] \in ImplType
    BY InvParts, <1>0
  <2> HIDE DEF a, b
  <2>1. CASE n = a /\ n = b
    <3>1. newHeap[n] = heap[n]
      BY <1>0, <1>3, <1>4, <1>5, <2>0, <2>1, NullAssumption DEF ImplType
    <3>2. HoldersIn(newIt, n) = S(n)
      BY <1>1, <1>7, <2>1, NullAssumption
    <3> QED
      BY <2>0, <3>1, <3>2
  <2>2. CASE n = a /\ n # b
    <3>1. h \in S(n) /\ HoldersIn(newIt, n) = S(n) \ {h}
      BY <1>1, <1>7, <2>2, NullAssumption
    <3>2. newHeap[n] = IF heap[n].ref = 1 THEN noImpl ELSE [heap[n] EXCEPT !.ref = @ - 1]
      BY <1>3, <1>5, <2>2
    <3>3. Exact(IF heap[n].ref = 1 THEN noImpl ELSE [heap[n] EXCEPT !.ref = @ - 1], S(n) \ {h})
      BY <2>0, <3>1, GiveReference
    <3> QED
      BY <3>1, <3>2, <3>3, Zenon
  <2>3. CASE n # a /\ n = b
    <3>1. h \notin S(n) /\ HoldersIn(newIt, n) = S(n) \cup {h}
      BY <1>1, <1>7, <2>3
    <3>2. newHeap[n] = [heap[n] EXCEPT !.ref = @ + 1]
      BY <1>3, <1>5, <2>3
    <3>3. heap[n].st = "live"
      BY <2>3, NullAssumption DEF Live, b
    <3> QED
      BY <2>0, <3>1, <3>2, <3>3, TakeReference
  <2>4. CASE n # a /\ n # b
    <3>1. newHeap[n] = heap[n]
      BY <1>3, <1>5, <2>4
    <3>2. HoldersIn(newIt, n) = S(n)
      BY <1>1, <1>7, <2>4
    <3> QED
      BY <2>0, <3>1, <3>2
  <2> QED
    BY <2>1, <2>2, <2>3, <2>4
(* An implementation that a handle has afterwards was not deleted. *)
<1>9. ASSUME NEW k \in Handles
      PROVE  Fits(newIt[k], newHeap)
  <2> DEFINE y == newIt[k]
  <2>1. y \in HandleType /\ Fits(y, heap)
    BY <1>0, <1>6, InvParts
  <2>2. ASSUME y # noHandle, y.impl # Null
        PROVE  newHeap[y.impl].size = heap[y.impl].size
    <3>1. y.impl \in Impls /\ k \in HoldersIn(newIt, y.impl)
      BY <2>1, <2>2 DEF HandleType, HoldersIn
    <3> HIDE DEF newHeap, newIt, y, taken, a, b
    <3>2. newHeap[y.impl].st = "live"
      BY <1>8, <3>1 DEF Exact
    <3>3. newHeap[y.impl] # noImpl
      BY <3>2 DEF noImpl
    <3>4. taken[y.impl].size = heap[y.impl].size
      BY <1>0, <1>3, <3>1 DEF ImplType
    <3>5. newHeap[y.impl] = taken[y.impl] \/ newHeap[y.impl] = [taken[y.impl] EXCEPT !.ref = @ - 1]
      BY <1>5, <3>1, <3>3
    <3> QED
      BY <1>3, <3>1, <3>4, <3>5 DEF ImplType
  <2> HIDE DEF newHeap, y
  <2>3. Fits(y, newHeap)
    BY <2>1, <2>2, FitsBySize
  <2> QED
    BY <2>3 DEF y
<1>10. Change(newHeap, newIt)
  OBVIOUS
<1> HIDE DEF newHeap, newIt
<1> QED
  BY <1>5, <1>6, <1>8, <1>9, <1>10, ChangeKeeps

LEMMA CopyKeeps ==
  ASSUME HandlesInv, NEW h \in Handles, NEW r \in Handles, Copy(h, r)
  PROVE  HandlesInv'
<1>1. ~undef /\ ~Alive(h) /\ Alive(r)
  BY DEF Copy
<1>2. it[h].impl = Null
  BY <1>1 DEF Alive, noHandle, endIterator
<1>3. Change(unrefd(refd(heap, it[r].impl), it[h].impl), [it EXCEPT ![h] = it[r]])
  BY <1>1, <1>2, NeverDangling DEF Copy, unrefd
<1>4. it[r] \in HandleType /\ Fits(it[r], heap) /\ (it[r].impl # Null => Live(it[r].impl))
  BY <1>1, InvParts, NeverDangling
<1> QED
  BY <1>1, <1>3, <1>4, ReplaceKeeps

LEMMA AssignKeeps ==
  ASSUME HandlesInv, NEW h \in Handles, NEW r \in Handles, Assign(h, r)
  PROVE  HandlesInv'
<1>1. ~undef /\ Alive(h) /\ Alive(r)
  BY DEF Assign
<1>2. Change(unrefd(refd(heap, it[r].impl), it[h].impl), [it EXCEPT ![h] = it[r]])
  BY <1>1, NeverDangling DEF Assign
<1>3. it[r] \in HandleType /\ Fits(it[r], heap) /\ (it[r].impl # Null => Live(it[r].impl))
  BY <1>1, InvParts, NeverDangling
<1> QED
  BY <1>1, <1>2, <1>3, ReplaceKeeps

LEMMA DestroyKeeps ==
  ASSUME HandlesInv, NEW h \in Handles, Destroy(h)
  PROVE  HandlesInv'
<1>1. ~undef /\ Alive(h)
  BY DEF Destroy
<1>2. noHandle.impl = Null /\ noHandle \in HandleType /\ Fits(noHandle, heap)
  BY DEF noHandle, endIterator, HandleType, NoText, Fits
<1>3. Change(unrefd(refd(heap, noHandle.impl), it[h].impl), [it EXCEPT ![h] = noHandle])
  BY <1>1, <1>2, NeverDangling DEF Destroy, refd
<1> QED
  BY <1>1, <1>2, <1>3, ReplaceKeeps

(* Neither reading a record nor going to the next one changes the holders. *)
LEMMA SameHolders ==
  ASSUME HandlesInv, ~undef, NEW h \in Handles, Alive(h), NEW x \in HandleType,
         x.impl = it[h].impl, Fits(x, heap), x # noHandle, Change(heap, [it EXCEPT ![h] = x])
  PROVE  HandlesInv'
<1> DEFINE newIt == [it EXCEPT ![h] = x]
<1>1. newIt \in [Handles -> HandleType]
  BY InvParts
<1>2. \A n \in Impls : HoldersIn(newIt, n) = HoldersIn(it, n)
  BY InvParts DEF HoldersIn, Alive
<1>3. \A k \in Handles : Fits(newIt[k], heap)
  BY InvParts
<1> HIDE DEF newIt
<1> QED
  BY <1>1, <1>2, <1>3, InvParts, ChangeKeeps DEF newIt

LEMMA DerefKeeps ==
  ASSUME HandlesInv, NEW h \in Handles, Deref(h)
  PROVE  HandlesInv'
<1>1. ~undef /\ Alive(h) /\ (it[h].impl # Null => Live(it[h].impl))
  BY NeverDangling DEF Deref
<1>2. CASE UNCHANGED vars
  BY <1>2, SameHandles DEF vars, HandlesInv, HandleTypeOK, UndefinedNeedsMisuse
<1>3. CASE Undefined(TRUE)
  BY <1>3, UndefinedKeeps
<1>4. CASE it[h].impl # Null
           /\ Change(heap, [it EXCEPT ![h].cur = it[h].pos, ![h].curPos = it[h].pos])
  <2> DEFINE x == [it[h] EXCEPT !.cur = it[h].pos, !.curPos = it[h].pos]
  <2>1. it[h] \in HandleType /\ Fits(it[h], heap) /\ it[h] # noHandle
    BY <1>1, InvParts DEF Alive
  <2>2. x \in HandleType /\ x.impl = it[h].impl /\ x.pos = it[h].pos /\ x.cur = x.curPos
    BY <2>1 DEF HandleType
  <2>3. [it EXCEPT ![h].cur = it[h].pos, ![h].curPos = it[h].pos] = [it EXCEPT ![h] = x]
    BY <2>1, InvParts DEF HandleType
  <2> HIDE DEF x
  <2>4. Fits(x, heap) /\ x # noHandle
    BY <2>1, <2>2 DEF Fits, noHandle, endIterator, NoText
  <2> QED
    BY <1>1, <1>4, <2>2, <2>3, <2>4, SameHolders
<1> QED
  BY <1>1, <1>2, <1>3, <1>4 DEF Deref

LEMMA IncrementKeeps ==
  ASSUME HandlesInv, NEW h \in Handles, Increment(h)
  PROVE  HandlesInv'
<1>1. ~undef /\ Alive(h) /\ (it[h].impl # Null => it[h].impl \in Impls /\ Live(it[h].impl))
      /\ it[h] \in HandleType /\ Fits(it[h], heap) /\ it[h] # noHandle
  BY NeverDangling, InvParts DEF Increment, Alive
<1>2. CASE it[h].impl = Null
  BY <1>2, UndefinedKeeps DEF Increment
<1>3. CASE it[h].impl # Null /\ it[h].pos + 1 >= heap[it[h].impl].size
  <2> DEFINE x == [it[h] EXCEPT !.impl = Null, !.pos = 0]
  <2>1. x \in HandleType /\ x.impl = Null /\ x.pos = 0
    <3> DEFINE y == [it[h] EXCEPT !.impl = Null]
    <3>1. y \in HandleType /\ y.impl = Null
      BY <1>1 DEF HandleType
    <3>2. x = [y EXCEPT !.pos = 0]
      OBVIOUS
    <3> HIDE DEF x, y
    <3> QED
      BY <3>1, <3>2 DEF HandleType
  <2>2. [it EXCEPT ![h].impl = Null, ![h].pos = 0] = [it EXCEPT ![h] = x]
    BY <1>1, InvParts DEF HandleType
  <2> HIDE DEF x
  <2>4. Fits(x, heap)
    BY <2>1 DEF Fits
  <2>3. Change(unrefd(refd(heap, x.impl), it[h].impl), [it EXCEPT ![h] = x])
    BY <1>1, <1>3, <2>1, <2>2 DEF Increment, refd
  <2> QED
    BY <1>1, <2>1, <2>3, <2>4, ReplaceKeeps
<1>4. CASE it[h].impl # Null /\ ~(it[h].pos + 1 >= heap[it[h].impl].size)
  <2> DEFINE x == [it[h] EXCEPT !.pos = @ + 1]
  <2>1. x \in HandleType /\ x.impl = it[h].impl /\ x.pos = it[h].pos + 1 /\ x.curPos = it[h].curPos
        /\ x.cur = it[h].cur
    BY <1>1 DEF HandleType
  <2>2. [it EXCEPT ![h].pos = @ + 1] = [it EXCEPT ![h] = x]
    BY <1>1, InvParts DEF HandleType
  <2>3. heap[it[h].impl].size \in Nat
    BY <1>1, <1>4, InvParts DEF ImplType
  <2> HIDE DEF x
  <2>4. x # noHandle /\ x.pos \in Nat /\ x.pos < heap[x.impl].size
    BY <1>1, <1>4, <2>1, <2>3 DEF Fits, noHandle, endIterator, NoText
  <2>5. Fits(x, heap)
    BY <1>1, <1>4, <2>1, <2>4 DEF Fits
  <2> QED
    BY <1>1, <1>4, <2>1, <2>2, <2>4, <2>5, SameHolders DEF Increment
<1> QED
  BY <1>2, <1>3, <1>4

LEMMA ReopenKeeps ==
  ASSUME HandlesInv, Reopen
  PROVE  HandlesInv'
<1>1. gen' \in Nat /\ recs' \in Nat
  BY BoundsAssumption DEF HandlesInv, HandleTypeOK, Reopen
<1> QED
  BY <1>1, SameHandles DEF HandlesInv, HandleTypeOK, Reopen, UndefinedNeedsMisuse

LEMMA HandlesInvariance == Spec => []HandlesInv
<1>1. Init => HandlesInv
  <2> SUFFICES ASSUME Init
               PROVE  HandlesInv
    OBVIOUS
  <2>0. noImpl \in ImplType
    BY DEF ImplType, noImpl
  <2>5. noHandle \in HandleType
    BY DEF HandleType, noHandle, endIterator, NoText
  <2>1. HandleTypeOK /\ UndefinedNeedsMisuse
    <3>1. heap \in [Impls -> ImplType]
      BY <2>0 DEF Init
    <3>2. it \in [Handles -> HandleType]
      BY <2>5 DEF Init
    <3>3. gen \in Nat /\ recs \in Nat
      BY BoundsAssumption DEF Init
    <3> QED
      BY <3>1, <3>2, <3>3 DEF Init, HandleTypeOK, UndefinedNeedsMisuse
  <2>2. \A h \in Handles : ~Alive(h)
    BY DEF Init, Alive
  <2>3. Placed /\ WellFormed /\ \A m : Holders(m) = {}
    BY <2>2 DEF Placed, WellFormed, Holders
  <2>4. \A m \in Impls : ~Live(m)
    BY DEF Init, Live, noImpl
  <2> QED
    BY <2>1, <2>3, <2>4 DEF HandlesInv, HandlesSound, RefCountExact
<1>2. HandlesInv /\ [Next]_vars => HandlesInv'
  <2> SUFFICES ASSUME HandlesInv, [Next]_vars
               PROVE  HandlesInv'
    OBVIOUS
  <2>1. CASE UNCHANGED vars
    BY <2>1, SameHandles DEF vars, HandlesInv, HandleTypeOK, UndefinedNeedsMisuse
  <2>2. ASSUME NEW h \in Handles, DerefThrows(h)
        PROVE  HandlesInv'
    BY <2>2, <2>1 DEF DerefThrows
  <2> QED
    BY <2>1, <2>2, BeginKeeps, BeginThrowsKeeps, EndKeeps, CopyKeeps, AssignKeeps, DestroyKeeps,
       DerefKeeps, IncrementKeeps, ReopenKeeps DEF Next
<1> QED
  BY <1>1, <1>2, PTL DEF Spec

(* Record iterators copied, assigned, advanced and destroyed in any order, *)
(* any number of them on any number of implementations: each               *)
(* implementation counts its handles exactly, and each handle points into  *)
(* its list and shows the text of its position.                            *)
THEOREM HandlesAreSound == Spec => []HandlesSound
BY HandlesInvariance, PTL DEF HandlesInv

(* Freed memory is never used; only the misuse of an end or an invalidated *)
(* iterator, or recordBegin on an empty cache, is undefined.               *)
THEOREM HandlesNeedMisuse == Spec => []UndefinedNeedsMisuse
BY HandlesInvariance, PTL DEF HandlesInv

-----------------------------------------------------------------------------
(* Package iterators.                                                      *)

CellType == [live : BOOLEAN, at : Nat, cache : Nat]
PkgIterType == [scope : BOOLEAN, cur : Cells \cup {NoCell}, seen : SUBSET Nat]

PkgTypeOK ==
  /\ pkgs \in Seq(BOOLEAN) /\ opened \in Nat
  /\ cells \in [Cells -> CellType]
  /\ pit \in [PkgIters -> PkgIterType]
  /\ wrongUse \in BOOLEAN /\ wild \in BOOLEAN

(* Iterators i that are not at the end own an object of the heap cs each,  *)
(* and every object is owned.                                              *)
OneOwner(cs, i) ==
  /\ \A h \in PkgIters : i[h].scope /\ i[h].cur # NoCell => cs[i[h].cur].live
  /\ \A p \in Cells : cs[p].live => \E h \in PkgIters : i[h].scope /\ i[h].cur = p
  /\ \A h, k \in PkgIters :
       i[h].scope /\ i[k].scope /\ i[h].cur = i[k].cur /\ i[h].cur # NoCell => h = k

(* An object of the present cache is at one of its packages, or at the end *)
(* of a cache that has none; no object is of a later cache.                *)
InCache(e) ==
  e.live =>
    /\ e.cache <= opened
    /\ e.cache = opened => e.at \in 1..Len(pkgs) \/ (pkgs = <<>> /\ e.at = 1)

(* What an iterator x on the heap cs has seen. *)
Seen(x, cs) ==
  x.scope => IF x.cur # NoCell THEN cs[x.cur].cache = opened => x.seen = ToVisit(cs[x.cur].at)
             ELSE opened = 0 => x.seen \in {{}, ToVisit(Len(pkgs))}

PkgInv ==
  /\ PkgTypeOK
  /\ OneOwner(cells, pit)
  /\ \A p \in Cells : InCache(cells[p])
  /\ \A h \in PkgIters : Seen(pit[h], cells)
  /\ wild => wrongUse \/ pkgs = <<>>

LEMMA PkgInvImplies == PkgInv => PackageIteratorsSound
<1> SUFFICES ASSUME PkgInv
             PROVE  PackageIteratorsSound
  OBVIOUS
<1>1. ASSUME NEW p \in Cells
      PROVE  Cardinality(Owners(p)) = IF cells[p].live THEN 1 ELSE 0
  <2>1. CASE cells[p].live
    <3>1. PICK h \in PkgIters : pit[h].scope /\ pit[h].cur = p
      BY <2>1 DEF PkgInv, OneOwner
    <3>2. Owners(p) = {h}
      BY <3>1, CellsAssumption DEF PkgInv, OneOwner, Owners
    <3> QED
      BY <2>1, <3>2, FS_Singleton
  <2>2. CASE ~cells[p].live
    <3>1. Owners(p) = {}
      BY <2>2, CellsAssumption DEF PkgInv, OneOwner, Owners
    <3> QED
      BY <2>2, <3>1, FS_EmptySet
  <2> QED
    BY <2>1, <2>2
<1>2. ASSUME NEW h \in PkgIters, pit[h].scope
      PROVE  LET p == pit[h].cur
             IN  IF p # NoCell
                 THEN cells[p].cache = opened => pit[h].seen = ToVisit(cells[p].at)
                 ELSE /\ opened = 0 => pit[h].seen \in {{}, ToVisit(Len(pkgs))}
                      /\ \A r \in PkgIters : pit[r].scope => (equal(h, r) <=> pit[r].cur = NoCell)
  BY <1>2 DEF PkgInv, Seen, equal
<1> QED
  BY <1>1, <1>2 DEF PackageIteratorsSound, PkgInv

(* As for the handles, a step is judged by the heap and the iterators. *)
LEMMA PkgChangeKeeps ==
  ASSUME PkgInv, ~wild, NEW cs \in [Cells -> CellType], NEW i \in [PkgIters -> PkgIterType],
         PkgChange(cs, i), OneOwner(cs, i),
         \A p \in Cells : InCache(cs[p]),
         \A h \in PkgIters : Seen(i[h], cs)
  PROVE  PkgInv'
<1>1. PkgTypeOK' /\ (wild' => wrongUse' \/ pkgs' = <<>>)
  BY DEF PkgInv, PkgTypeOK, PkgChange
<1>2. OneOwner(cells, pit)'
  BY DEF OneOwner, PkgChange
<1>3. \A p \in Cells : InCache(cells[p])'
  BY DEF InCache, PkgChange
<1>4. \A h \in PkgIters : Seen(pit[h], cells)'
  BY DEF Seen, ToVisit, PkgChange
<1> QED
  BY <1>1, <1>2, <1>3, <1>4 DEF PkgInv

LEMMA WildKeeps ==
  ASSUME PkgInv, NEW misuse \in BOOLEAN, Wild(misuse), misuse \/ pkgs = <<>>
  PROVE  PkgInv'
<1>1. PkgTypeOK' /\ (wild' => wrongUse' \/ pkgs' = <<>>)
  BY DEF PkgInv, PkgTypeOK, Wild
<1>2. OneOwner(cells, pit)'
  BY DEF PkgInv, OneOwner, Wild
<1>3. \A p \in Cells : InCache(cells[p])'
  BY DEF PkgInv, InCache, Wild
<1>4. \A h \in PkgIters : Seen(pit[h], cells)'
  BY DEF PkgInv, Seen, ToVisit, Wild
<1> QED
  BY <1>1, <1>2, <1>3, <1>4 DEF PkgInv

(* Iterator h, which owns nothing, gets the free object p. *)
Gets(cs, i, h, p, e, x, ds, j) ==
  /\ cs \in [Cells -> CellType] /\ i \in [PkgIters -> PkgIterType] /\ OneOwner(cs, i)
  /\ h \in PkgIters /\ (~i[h].scope \/ i[h].cur = NoCell)
  /\ p \in Cells /\ ~cs[p].live
  /\ e \in CellType /\ e.live
  /\ x \in PkgIterType /\ x.scope /\ x.cur = p
  /\ ds = [cs EXCEPT ![p] = e]
  /\ j = [i EXCEPT ![h] = x]

(* What the others own and have seen is as before. *)
LEMMA GetCell ==
  ASSUME NEW cs, NEW i, NEW h, NEW p, NEW e, NEW x, NEW ds, NEW j,
         Gets(cs, i, h, p, e, x, ds, j)
  PROVE  /\ ds \in [Cells -> CellType] /\ j \in [PkgIters -> PkgIterType]
         /\ ds[p] = e /\ j[h] = x
         /\ \A q \in Cells \ {p} : ds[q] = cs[q]
         /\ \A k \in PkgIters \ {h} : j[k] = i[k]
         /\ OneOwner(ds, j)
         /\ \A k \in PkgIters \ {h} : Seen(i[k], cs) => Seen(j[k], ds)
<1> USE DEF Gets
<1>1. /\ ds \in [Cells -> CellType] /\ j \in [PkgIters -> PkgIterType]
      /\ ds[p] = e /\ j[h] = x
  OBVIOUS
<1>2. \A q \in Cells \ {p} : ds[q] = cs[q]
  OBVIOUS
<1>3. \A k \in PkgIters \ {h} : j[k] = i[k]
  OBVIOUS
<1>4. ASSUME NEW k \in PkgIters \ {h}, i[k].scope, i[k].cur # NoCell
      PROVE  i[k].cur \in Cells \ {p} /\ cs[i[k].cur].live
  BY <1>4 DEF OneOwner, PkgIterType
<1>5. \A k \in PkgIters : j[k].scope /\ j[k].cur # NoCell => ds[j[k].cur].live
  <2>1. TAKE k \in PkgIters
  <2>2. CASE k = h
    BY <2>2, <1>1
  <2>3. CASE k # h
    BY <2>3, <1>2, <1>3, <1>4
  <2> QED
    BY <2>2, <2>3
<1>6. \A q \in Cells : ds[q].live => \E k \in PkgIters : j[k].scope /\ j[k].cur = q
  <2>1. SUFFICES ASSUME NEW q \in Cells, ds[q].live
                 PROVE  \E k \in PkgIters : j[k].scope /\ j[k].cur = q
    OBVIOUS
  <2>2. CASE q = p
    BY <2>2, <1>1
  <2>3. CASE q # p
    <3>1. PICK k \in PkgIters : i[k].scope /\ i[k].cur = q
      BY <2>1, <2>3, <1>2 DEF OneOwner
    <3>2. k # h
      BY <3>1, CellsAssumption
    <3> QED
      BY <3>1, <3>2, <1>3
  <2> QED
    BY <2>2, <2>3
<1>7. \A k, l \in PkgIters :
        j[k].scope /\ j[l].scope /\ j[k].cur = j[l].cur /\ j[k].cur # NoCell => k = l
  <2>1. SUFFICES ASSUME NEW k \in PkgIters, NEW l \in PkgIters, k # l,
                        j[k].scope, j[l].scope, j[k].cur = j[l].cur, j[k].cur # NoCell
                 PROVE  FALSE
    OBVIOUS
  <2>2. CASE k = h
    BY <2>1, <2>2, <1>1, <1>3, <1>4
  <2>3. CASE l = h
    BY <2>1, <2>3, <1>1, <1>3, <1>4
  <2>4. CASE k # h /\ l # h
    BY <2>1, <2>4, <1>3 DEF OneOwner
  <2> QED
    BY <2>2, <2>3, <2>4
<1>8. ASSUME NEW k \in PkgIters \ {h}, Seen(i[k], cs)
      PROVE  Seen(j[k], ds)
  BY <1>8, <1>2, <1>3, <1>4 DEF Seen
<1>9. OneOwner(ds, j)
  BY <1>5, <1>6, <1>7 DEF OneOwner
<1> QED
  BY <1>1, <1>2, <1>3, <1>8, <1>9

(* Iterator h gives up what it owns, if anything. *)
GivesUp(cs, i, h, x, ds, j) ==
  /\ cs \in [Cells -> CellType] /\ i \in [PkgIters -> PkgIterType] /\ OneOwner(cs, i)
  /\ h \in PkgIters /\ i[h].scope
  /\ x \in PkgIterType /\ (~x.scope \/ x.cur = NoCell)
  /\ ds = deleted(cs, i[h].cur)
  /\ j = [i EXCEPT ![h] = x]

LEMMA GiveUpCell ==
  ASSUME NEW cs, NEW i, NEW h, NEW x, NEW ds, NEW j, GivesUp(cs, i, h, x, ds, j)
  PROVE  /\ ds \in [Cells -> CellType] /\ j \in [PkgIters -> PkgIterType]
         /\ j[h] = x
         /\ \A q \in Cells : q # i[h].cur => ds[q] = cs[q]
         /\ \A q \in Cells : q = i[h].cur => ~ds[q].live
         /\ \A k \in PkgIters \ {h} : j[k] = i[k]
         /\ OneOwner(ds, j)
         /\ \A k \in PkgIters \ {h} : Seen(i[k], cs) => Seen(j[k], ds)
<1> USE DEF GivesUp
<1>0. i[h].cur \in Cells \cup {NoCell} /\ freeCell \in CellType /\ ~freeCell.live
  BY DEF PkgIterType, CellType, freeCell
<1>1. /\ ds \in [Cells -> CellType] /\ j \in [PkgIters -> PkgIterType]
      /\ j[h] = x
  BY <1>0 DEF deleted
<1>2. (\A q \in Cells : q # i[h].cur => ds[q] = cs[q]) /\ (\A q \in Cells : q = i[h].cur => ~ds[q].live)
  BY <1>0, CellsAssumption DEF deleted
<1>3. \A k \in PkgIters \ {h} : j[k] = i[k]
  OBVIOUS
<1>4. ASSUME NEW k \in PkgIters \ {h}, i[k].scope, i[k].cur # NoCell
      PROVE  i[k].cur \in Cells /\ i[k].cur # i[h].cur /\ cs[i[k].cur].live
  BY <1>4 DEF OneOwner, PkgIterType
<1>5. \A k \in PkgIters : j[k].scope /\ j[k].cur # NoCell => ds[j[k].cur].live
  <2>1. TAKE k \in PkgIters
  <2>2. CASE k = h
    BY <2>2, <1>1
  <2>3. CASE k # h
    BY <2>3, <1>2, <1>3, <1>4
  <2> QED
    BY <2>2, <2>3
<1>6. \A q \in Cells : ds[q].live => \E k \in PkgIters : j[k].scope /\ j[k].cur = q
  <2>1. SUFFICES ASSUME NEW q \in Cells, ds[q].live
                 PROVE  \E k \in PkgIters : j[k].scope /\ j[k].cur = q
    OBVIOUS
  <2>2. q # i[h].cur /\ cs[q].live
    BY <2>1, <1>2
  <2>3. PICK k \in PkgIters : i[k].scope /\ i[k].cur = q
    BY <2>2 DEF OneOwner
  <2> QED
    BY <2>2, <2>3, <1>3
<1>7. \A k, l \in PkgIters :
        j[k].scope /\ j[l].scope /\ j[k].cur = j[l].cur /\ j[k].cur # NoCell => k = l
  <2>1. SUFFICES ASSUME NEW k \in PkgIters, NEW l \in PkgIters, k # l,
                        j[k].scope, j[l].scope, j[k].cur = j[l].cur, j[k].cur # NoCell
                 PROVE  FALSE
    OBVIOUS
  <2>2. k # h /\ l # h
    BY <2>1, <1>1
  <2> QED
    BY <2>1, <2>2, <1>3 DEF OneOwner
<1>8. ASSUME NEW k \in PkgIters \ {h}, Seen(i[k], cs)
      PROVE  Seen(j[k], ds)
  BY <1>8, <1>2, <1>3, <1>4 DEF Seen
<1>9. OneOwner(ds, j)
  BY <1>5, <1>6, <1>7 DEF OneOwner
<1> QED
  BY <1>1, <1>2, <1>3, <1>8, <1>9

LEMMA PkgBeginKeeps ==
  ASSUME PkgInv, ~wild, NEW h \in PkgIters, NEW p \in Cells, PkgBegin(h, p)
  PROVE  PkgInv'
<1> DEFINE e == [live |-> TRUE, at |-> 1, cache |-> opened]
           x == iterator(p, {1})
           cs == [cells EXCEPT ![p] = e]
           i == [pit EXCEPT ![h] = x]
<1>1. ~pit[h].scope /\ ~cells[p].live /\ PkgChange(cs, i)
  BY DEF PkgBegin, Free
<1>2. e \in CellType /\ x \in PkgIterType /\ x.scope /\ x.cur = p /\ x.seen = {1}
  BY DEF PkgInv, PkgTypeOK, CellType, PkgIterType, iterator
<1>3. InCache(e) /\ ToVisit(1) = {1} /\ e.live /\ e.at = 1
  BY DEF InCache, ToVisit, PkgInv, PkgTypeOK
<1>4. cells \in [Cells -> CellType] /\ pit \in [PkgIters -> PkgIterType] /\ OneOwner(cells, pit)
  BY DEF PkgInv, PkgTypeOK
<1> HIDE DEF cs, i, e, x
<1>5. /\ cs \in [Cells -> CellType] /\ i \in [PkgIters -> PkgIterType]
      /\ cs[p] = e /\ i[h] = x
      /\ \A q \in Cells \ {p} : cs[q] = cells[q]
      /\ OneOwner(cs, i)
      /\ \A k \in PkgIters \ {h} : Seen(pit[k], cells) => Seen(i[k], cs)
  <2>1. Gets(cells, pit, h, p, e, x, cs, i)
    BY <1>1, <1>2, <1>3, <1>4 DEF Gets, cs, i
  <2> QED
    BY <2>1, GetCell
<1>6. \A q \in Cells : InCache(cs[q])
  BY <1>3, <1>5 DEF PkgInv
<1>7. Seen(i[h], cs)
  BY <1>2, <1>3, <1>5, CellsAssumption DEF Seen
<1>8. \A k \in PkgIters : Seen(i[k], cs)
  BY <1>5, <1>7 DEF PkgInv
<1> QED
  BY <1>1, <1>5, <1>6, <1>8, PkgChangeKeeps

(* An iterator out of scope becomes one at the end. *)
LEMMA NewEndKeeps ==
  ASSUME PkgInv, ~wild, NEW h \in PkgIters, ~pit[h].scope,
         NEW x \in PkgIterType, x.scope, x.cur = NoCell, Seen(x, cells),
         PkgChange(cells, [pit EXCEPT ![h] = x])
  PROVE  PkgInv'
<1> DEFINE i == [pit EXCEPT ![h] = x]
<1>1. cells \in [Cells -> CellType] /\ pit \in [PkgIters -> PkgIterType] /\ OneOwner(cells, pit)
  BY DEF PkgInv, PkgTypeOK
<1>2. i \in [PkgIters -> PkgIterType] /\ i[h] = x /\ \A k \in PkgIters \ {h} : i[k] = pit[k]
  BY <1>1
<1>3. PkgChange(cells, i)
  OBVIOUS
<1> HIDE DEF i
<1>4. OneOwner(cells, i)
  <2>1. \A k \in PkgIters : i[k].scope /\ i[k].cur # NoCell => k # h /\ i[k] = pit[k]
    BY <1>2
  <2>2. \A p \in Cells : cells[p].live => \E k \in PkgIters : i[k].scope /\ i[k].cur = p
    <3>1. SUFFICES ASSUME NEW p \in Cells, cells[p].live
                   PROVE  \E k \in PkgIters : i[k].scope /\ i[k].cur = p
      OBVIOUS
    <3>2. PICK k \in PkgIters : pit[k].scope /\ pit[k].cur = p
      BY <1>1, <3>1 DEF OneOwner
    <3> QED
      BY <3>2, <1>2
  <2>3. \A k, l \in PkgIters :
          i[k].scope /\ i[l].scope /\ i[k].cur = i[l].cur /\ i[k].cur # NoCell => k = l
    BY <1>1, <2>1 DEF OneOwner
  <2>4. \A k \in PkgIters : i[k].scope /\ i[k].cur # NoCell => cells[i[k].cur].live
    BY <1>1, <2>1 DEF OneOwner
  <2> QED
    BY <2>2, <2>3, <2>4 DEF OneOwner
<1>5. \A k \in PkgIters : Seen(i[k], cells)
  BY <1>2 DEF PkgInv
<1> QED
  BY <1>1, <1>2, <1>3, <1>4, <1>5, PkgChangeKeeps DEF PkgInv

LEMMA PkgEndKeeps ==
  ASSUME PkgInv, ~wild, NEW h \in PkgIters, PkgEnd(h)
  PROVE  PkgInv'
<1> DEFINE x == iterator(NoCell, {})
<1>1. x \in PkgIterType /\ x.scope /\ x.cur = NoCell /\ x.seen = {}
  BY DEF PkgIterType, iterator
<1>2. ~pit[h].scope /\ PkgChange(cells, [pit EXCEPT ![h] = x])
  BY DEF PkgEnd
<1> HIDE DEF x
<1>3. Seen(x, cells)
  BY <1>1 DEF Seen
<1> QED
  BY <1>1, <1>2, <1>3, NewEndKeeps

(* Iterator h gets a copy of what r points to; cs and i are the heap and   *)
(* the iterators once h has given up what it owned.                        *)
LEMMA CopyCellKeeps ==
  ASSUME PkgInv, ~wild,
         NEW cs \in [Cells -> CellType], NEW i \in [PkgIters -> PkgIterType], OneOwner(cs, i),
         NEW h \in PkgIters, ~i[h].scope \/ i[h].cur = NoCell,
         NEW r \in PkgIters \ {h}, pit[r].scope, pit[r].cur # NoCell,
         cs[pit[r].cur] = cells[pit[r].cur],
         \A q \in Cells : InCache(cs[q]),
         \A k \in PkgIters \ {h} : i[k] = pit[k] /\ Seen(i[k], cs),
         NEW p \in Cells, ~cs[p].live,
         PkgChange([cs EXCEPT ![p] = cs[pit[r].cur]],
                   [i EXCEPT ![h] = iterator(p, pit[r].seen)])
  PROVE  PkgInv'
<1> DEFINE e == cs[pit[r].cur]
           x == iterator(p, pit[r].seen)
           ds == [cs EXCEPT ![p] = e]
           j == [i EXCEPT ![h] = x]
<1>1. PkgTypeOK /\ OneOwner(cells, pit)
  BY DEF PkgInv
<1>2. pit[r] \in PkgIterType /\ pit[r].cur \in Cells /\ pit[r].seen \in SUBSET Nat /\ cells[pit[r].cur].live
  BY <1>1 DEF PkgTypeOK, PkgIterType, OneOwner
<1>3. e \in CellType /\ e.live /\ InCache(e)
  BY <1>2
<1>4. x \in PkgIterType /\ x.scope /\ x.cur = p /\ x.seen = pit[r].seen
  BY <1>2 DEF iterator, PkgIterType
<1>5. e.cache = opened => x.seen = ToVisit(e.at)
  BY <1>2, <1>4 DEF Seen, PkgInv
<1>6. PkgChange(ds, j)
  OBVIOUS
<1> HIDE DEF e, x, ds, j
<1>7. Gets(cs, i, h, p, e, x, ds, j)
  BY <1>3, <1>4 DEF Gets, ds, j
<1>8. /\ ds \in [Cells -> CellType] /\ j \in [PkgIters -> PkgIterType]
      /\ ds[p] = e /\ j[h] = x
      /\ \A q \in Cells \ {p} : ds[q] = cs[q]
      /\ OneOwner(ds, j)
      /\ \A k \in PkgIters \ {h} : Seen(i[k], cs) => Seen(j[k], ds)
  BY <1>7, GetCell
<1>9. Seen(j[h], ds)
  BY <1>4, <1>5, <1>8, CellsAssumption DEF Seen
<1>10. \A k \in PkgIters : Seen(j[k], ds)
  BY <1>8, <1>9
<1>11. \A q \in Cells : InCache(ds[q])
  BY <1>3, <1>8
<1> QED
  BY <1>6, <1>8, <1>10, <1>11, PkgChangeKeeps

LEMMA PkgCopyKeeps ==
  ASSUME PkgInv, ~wild, NEW h \in PkgIters, NEW r \in PkgIters, NEW p \in Cells, PkgCopy(h, r, p)
  PROVE  PkgInv'
<1>1. ~pit[h].scope /\ pit[r].scope /\ ~cells[p].live /\ h # r
  BY DEF PkgCopy, Free
<1>2. cells \in [Cells -> CellType] /\ pit \in [PkgIters -> PkgIterType] /\ OneOwner(cells, pit)
  BY DEF PkgInv, PkgTypeOK
<1>3. (\A q \in Cells : InCache(cells[q])) /\ (\A k \in PkgIters : Seen(pit[k], cells))
  BY DEF PkgInv
<1>4. CASE pit[r].cur = NoCell
  <2>1. PkgChange(cells, [pit EXCEPT ![h] = pit[r]])
    BY <1>4 DEF PkgCopy
  <2>2. pit[r] \in PkgIterType
    BY <1>2
  <2> QED
    BY <1>1, <1>3, <1>4, <2>1, <2>2, NewEndKeeps
<1>5. CASE pit[r].cur # NoCell
  <2>1. PkgChange([cells EXCEPT ![p] = cells[pit[r].cur]],
                  [pit EXCEPT ![h] = iterator(p, pit[r].seen)])
    BY <1>5 DEF PkgCopy
  <2> QED
    BY <1>1, <1>2, <1>3, <1>5, <2>1, CopyCellKeeps
<1> QED
  BY <1>4, <1>5

LEMMA SamePkgs == ASSUME PkgInv, UNCHANGED pkgVars PROVE PkgInv'
BY DEF PkgInv, pkgVars, PkgTypeOK, OneOwner, InCache, Seen, ToVisit

(* Iterator h gives up what it owns and becomes x. *)
LEMMA GiveUpKeeps ==
  ASSUME PkgInv, ~wild, NEW h \in PkgIters, pit[h].scope,
         NEW x \in PkgIterType, ~x.scope \/ x.cur = NoCell, Seen(x, cells),
         PkgChange(deleted(cells, pit[h].cur), [pit EXCEPT ![h] = x])
  PROVE  PkgInv'
<1> DEFINE ds == deleted(cells, pit[h].cur)
           j == [pit EXCEPT ![h] = x]
<1>1. PkgChange(ds, j)
  OBVIOUS
<1>2. cells \in [Cells -> CellType] /\ pit \in [PkgIters -> PkgIterType] /\ OneOwner(cells, pit)
  BY DEF PkgInv, PkgTypeOK
<1> HIDE DEF ds, j
<1>3. GivesUp(cells, pit, h, x, ds, j)
  BY <1>2 DEF GivesUp, ds, j
<1>4. /\ ds \in [Cells -> CellType] /\ j \in [PkgIters -> PkgIterType]
      /\ j[h] = x
      /\ \A q \in Cells : q # pit[h].cur => ds[q] = cells[q]
      /\ \A q \in Cells : q = pit[h].cur => ~ds[q].live
      /\ OneOwner(ds, j)
      /\ \A k \in PkgIters \ {h} : Seen(pit[k], cells) => Seen(j[k], ds)
  BY <1>3, GiveUpCell
<1>5. Seen(x, ds)
  BY DEF Seen
<1>6. \A k \in PkgIters : Seen(j[k], ds)
  BY <1>4, <1>5 DEF PkgInv
<1>7. \A q \in Cells : InCache(ds[q])
  BY <1>4 DEF PkgInv, InCache
<1> QED
  BY <1>1, <1>4, <1>6, <1>7, PkgChangeKeeps

LEMMA PkgDestroyKeeps ==
  ASSUME PkgInv, ~wild, NEW h \in PkgIters, PkgDestroy(h)
  PROVE  PkgInv'
<1>1. pit[h].scope /\ ~(pit[h].cur # NoCell /\ Free(pit[h].cur))
  BY DEF PkgDestroy, PkgInv, OneOwner, Free
<1>2. outOfScope \in PkgIterType /\ ~outOfScope.scope
  BY DEF outOfScope, PkgIterType
<1>3. Seen(outOfScope, cells)
  BY <1>2 DEF Seen
<1>4. PkgChange(deleted(cells, pit[h].cur), [pit EXCEPT ![h] = outOfScope])
  BY <1>1 DEF PkgDestroy
<1> QED
  BY <1>1, <1>2, <1>3, <1>4, GiveUpKeeps

LEMMA PkgAssignKeeps ==
  ASSUME PkgInv, ~wild, NEW h \in PkgIters, NEW r \in PkgIters, NEW p \in Cells, PkgAssign(h, r, p)
  PROVE  PkgInv'
<1> DEFINE left == deleted(cells, pit[h].cur)
           y == iterator(NoCell, {})
           i == [pit EXCEPT ![h] = y]
<1>1. pit[h].scope /\ pit[r].scope
  BY DEF PkgAssign
<1>2. cells \in [Cells -> CellType] /\ pit \in [PkgIters -> PkgIterType] /\ OneOwner(cells, pit)
  BY DEF PkgInv, PkgTypeOK
<1>3. (\A q \in Cells : InCache(cells[q])) /\ (\A k \in PkgIters : Seen(pit[k], cells))
  BY DEF PkgInv
<1>4. CASE pit[h].cur = pit[r].cur
  BY <1>4, SamePkgs DEF PkgAssign
<1>5. CASE pit[h].cur # pit[r].cur /\ pit[r].cur = NoCell
  <2>1. PkgChange(deleted(cells, pit[h].cur), [pit EXCEPT ![h] = pit[r]])
    BY <1>5 DEF PkgAssign
  <2>2. pit[r] \in PkgIterType
    BY <1>2
  <2> QED
    BY <1>1, <1>3, <1>5, <2>1, <2>2, GiveUpKeeps
<1>6. CASE pit[h].cur # pit[r].cur /\ pit[r].cur # NoCell
  <2>0. h # r
    BY <1>6
  <2>1. y \in PkgIterType /\ y.scope /\ y.cur = NoCell
    BY DEF PkgIterType, iterator
  <2>2. ~left[p].live /\ IF ~left[pit[r].cur].live THEN Wild(FALSE)
                         ELSE PkgChange([left EXCEPT ![p] = left[pit[r].cur]],
                                        [pit EXCEPT ![h] = iterator(p, pit[r].seen)])
    BY <1>6 DEF PkgAssign
  <2>3. \A x : [pit EXCEPT ![h] = x] = [i EXCEPT ![h] = x]
    BY <1>2
  <2> HIDE DEF left, y, i
  <2>4. GivesUp(cells, pit, h, y, left, i)
    BY <1>1, <1>2, <2>1 DEF GivesUp, left, i
  <2>5. /\ left \in [Cells -> CellType] /\ i \in [PkgIters -> PkgIterType]
        /\ i[h] = y
        /\ \A q \in Cells : q # pit[h].cur => left[q] = cells[q]
        /\ \A q \in Cells : q = pit[h].cur => ~left[q].live
        /\ \A k \in PkgIters \ {h} : i[k] = pit[k]
        /\ OneOwner(left, i)
        /\ \A k \in PkgIters \ {h} : Seen(pit[k], cells) => Seen(i[k], left)
    BY <2>4, GiveUpCell
  <2>6. pit[r].cur \in Cells /\ cells[pit[r].cur].live /\ left[pit[r].cur] = cells[pit[r].cur]
    BY <1>1, <1>2, <1>6, <2>5 DEF PkgIterType, OneOwner
  <2>7. PkgChange([left EXCEPT ![p] = left[pit[r].cur]],
                  [i EXCEPT ![h] = iterator(p, pit[r].seen)])
    BY <2>2, <2>3, <2>6
  <2>8. \A q \in Cells : InCache(left[q])
    BY <1>3, <2>5 DEF InCache
  <2>9. \A k \in PkgIters \ {h} : i[k] = pit[k] /\ Seen(i[k], left)
    BY <1>3, <2>5
  <2>10. ~i[h].scope \/ i[h].cur = NoCell
    BY <2>1, <2>5
  <2> QED
    BY <1>1, <1>6, <2>0, <2>2, <2>5, <2>6, <2>7, <2>8, <2>9, <2>10, CopyCellKeeps
<1> QED
  BY <1>4, <1>5, <1>6

(* An iterator in use that is not invalid is on a package of the cache. *)
LEMMA UsedOnPackage ==
  ASSUME PkgInv, NEW h \in PkgIters, pit[h].scope
  PROVE  /\ Broken(h) => Invalid(h)
         /\ Invalid(h) \in BOOLEAN
         /\ ~Broken(h) => /\ pit[h].cur \in Cells /\ cells[pit[h].cur].live
                          /\ cells[pit[h].cur].cache = opened
                          /\ pit[h].seen = ToVisit(cells[pit[h].cur].at)
         /\ ~Broken(h) /\ cells[pit[h].cur].at # atEnd => cells[pit[h].cur].at \in 1..Len(pkgs)
         /\ ~Broken(h) /\ cells[pit[h].cur].at = atEnd => pkgs = <<>>
<1>1. cells \in [Cells -> CellType] /\ pit[h] \in PkgIterType /\ OneOwner(cells, pit) /\ pkgs \in Seq(BOOLEAN)
  BY DEF PkgInv, PkgTypeOK
<1>2. (\A q \in Cells : InCache(cells[q])) /\ Seen(pit[h], cells)
  BY DEF PkgInv
<1>3. Broken(h) => Invalid(h)
  BY <1>1 DEF Broken, Free, OneOwner, Invalid
<1>4. Invalid(h) \in BOOLEAN
  BY <1>1 DEF Invalid
<1>5. ASSUME ~Broken(h)
      PROVE  /\ pit[h].cur \in Cells /\ cells[pit[h].cur].live
             /\ cells[pit[h].cur].cache = opened
             /\ pit[h].seen = ToVisit(cells[pit[h].cur].at)
  <2>1. pit[h].cur \in Cells /\ cells[pit[h].cur].live /\ cells[pit[h].cur].cache = opened
    BY <1>1, <1>5 DEF Broken, Invalid, Free, PkgIterType, OneOwner
  <2> QED
    BY <2>1, <1>2, CellsAssumption DEF Seen
<1>6. ASSUME ~Broken(h)
      PROVE  /\ cells[pit[h].cur].at # atEnd => cells[pit[h].cur].at \in 1..Len(pkgs)
             /\ cells[pit[h].cur].at = atEnd => pkgs = <<>>
  <2>1. cells[pit[h].cur].at \in 1..Len(pkgs) \/ (pkgs = <<>> /\ cells[pit[h].cur].at = 1)
    BY <1>2, <1>5, <1>6 DEF InCache
  <2>2. pkgs = <<>> => atEnd = 1
    BY DEF atEnd
  <2>3. cells[pit[h].cur].at \in 1..Len(pkgs) => cells[pit[h].cur].at # atEnd
    BY <1>1 DEF atEnd
  <2> QED
    BY <2>1, <2>2, <2>3
<1> QED
  BY <1>3, <1>4, <1>5, <1>6

LEMMA PkgDerefKeeps ==
  ASSUME PkgInv, ~wild, NEW h \in PkgIters, PkgDeref(h)
  PROVE  PkgInv'
<1>1. pit[h].scope
  BY DEF PkgDeref
<1>2. CASE Broken(h)
  BY <1>1, <1>2, UsedOnPackage, WildKeeps DEF PkgDeref
<1>3. CASE ~Broken(h) /\ cells[pit[h].cur].at = atEnd
  BY <1>1, <1>3, UsedOnPackage, WildKeeps DEF PkgDeref
<1>4. CASE ~Broken(h) /\ cells[pit[h].cur].at # atEnd
  BY <1>4, SamePkgs DEF PkgDeref
<1> QED
  BY <1>2, <1>3, <1>4

LEMMA LeastNatural ==
  ASSUME NEW T \in SUBSET Nat, T # {}
  PROVE  \E n \in T : \A m \in T : n <= m
<1>1. PICK n \in T : \A m \in T : <<m, n>> \notin OpToRel(<, Nat)
  BY WFMin, NatLessThanWellFounded, Zenon
<1>2. \A m \in T : ~(m < n)
  BY <1>1, Zenon DEF OpToRel
<1> QED
  BY <1>2

Later(a) == {n \in (a + 1)..Len(pkgs) : pkgs[n]}

(* ++ from place a stops at the next package with versions: the places to  *)
(* visit up to there are those up to a and that one.  When there is none,  *)
(* those up to a are all there are.                                        *)
LEMMA NextPlace ==
  ASSUME pkgs \in Seq(BOOLEAN), NEW a \in 1..Len(pkgs)
  PROVE  /\ Later(a) = {} => ToVisit(a) = ToVisit(Len(pkgs))
         /\ Later(a) # {} => \E n \in Later(a) : \A m \in Later(a) : n <= m
         /\ \A next \in Later(a) : (\A m \in Later(a) : next <= m) =>
              next \in 1..Len(pkgs) /\ ToVisit(next) = ToVisit(a) \cup {next}
<1> DEFINE later == Later(a)
<1> USE DEF Later
<1>1. ASSUME later = {}
      PROVE  ToVisit(a) = ToVisit(Len(pkgs))
  <2>1. \A k \in 1..Len(pkgs) : pkgs[k] => k <= a
    BY <1>1
  <2> QED
    BY <2>1 DEF ToVisit
<1>2. later \in SUBSET Nat
  OBVIOUS
<1>3. ASSUME NEW next \in later, \A m \in later : next <= m
      PROVE  next \in 1..Len(pkgs) /\ ToVisit(next) = ToVisit(a) \cup {next}
  <2>1. next \in Nat /\ a < next /\ next <= Len(pkgs) /\ pkgs[next]
    OBVIOUS
  <2>2. \A k \in (a + 1)..Len(pkgs) : pkgs[k] => next <= k
    BY <1>3
  <2>3. ToVisit(a) \cup {next} \subseteq ToVisit(next)
    BY <2>1 DEF ToVisit
  <2>4. ToVisit(next) \subseteq ToVisit(a) \cup {next}
    BY <2>1, <2>2 DEF ToVisit
  <2> QED
    BY <2>1, <2>3, <2>4
<1> QED
  BY <1>1, <1>2, <1>3, LeastNatural

LEMMA PkgIncrementKeeps ==
  ASSUME PkgInv, ~wild, NEW h \in PkgIters, PkgIncrement(h)
  PROVE  PkgInv'
<1>1. pit[h].scope
  BY DEF PkgIncrement
<1>2. CASE Broken(h)
  BY <1>1, <1>2, UsedOnPackage, WildKeeps DEF PkgIncrement
<1>3. CASE ~Broken(h) /\ cells[pit[h].cur].at = atEnd
  BY <1>1, <1>3, UsedOnPackage, WildKeeps DEF PkgIncrement
<1>4. CASE ~Broken(h) /\ cells[pit[h].cur].at # atEnd
  <2> DEFINE p == pit[h].cur
             a == cells[p].at
             later == {n \in (a + 1)..Len(pkgs) : pkgs[n]}
             next == CHOOSE n \in later : \A m \in later : n <= m
  <2>1. p \in Cells /\ cells[p].live /\ cells[p].cache = opened
        /\ pit[h].seen = ToVisit(a) /\ a \in 1..Len(pkgs)
    BY <1>1, <1>4, UsedOnPackage
  <2>2. PkgTypeOK /\ OneOwner(cells, pit) /\ pit[h] \in PkgIterType /\ cells[p] \in CellType
    BY <2>1 DEF PkgInv, PkgTypeOK
  <2>3. (\A q \in Cells : InCache(cells[q])) /\ (\A k \in PkgIters : Seen(pit[k], cells))
    BY DEF PkgInv
  <2>4. /\ later = {} => ToVisit(a) = ToVisit(Len(pkgs))
        /\ later # {} => next \in 1..Len(pkgs) /\ ToVisit(next) = ToVisit(a) \cup {next}
    <3>1. later = Later(a) /\ pkgs \in Seq(BOOLEAN) /\ a \in 1..Len(pkgs)
      BY <2>1, <2>2 DEF PkgTypeOK, Later
    <3> HIDE DEF later, a
    <3>2. /\ later = {} => ToVisit(a) = ToVisit(Len(pkgs))
          /\ later # {} => \E n \in later : \A m \in later : n <= m
          /\ \A n \in later : (\A m \in later : n <= m) =>
               n \in 1..Len(pkgs) /\ ToVisit(n) = ToVisit(a) \cup {n}
      BY <3>1, NextPlace
    <3>3. later # {} => next \in later /\ \A m \in later : next <= m
      BY <3>2
    <3> HIDE DEF next
    <3> QED
      BY <3>2, <3>3
  <2>5. IF later = {} THEN PkgChange(deleted(cells, p), [pit EXCEPT ![h].cur = NoCell])
        ELSE PkgChange([cells EXCEPT ![p].at = next], [pit EXCEPT ![h].seen = @ \cup {next}])
    BY <1>4 DEF PkgIncrement
  <2> HIDE DEF later, next
  <2>6. CASE later = {}
    <3> DEFINE x == [pit[h] EXCEPT !.cur = NoCell]
    <3>1. x \in PkgIterType /\ x.cur = NoCell /\ x.seen = pit[h].seen
      BY <2>2 DEF PkgIterType
    <3>2. [pit EXCEPT ![h].cur = NoCell] = [pit EXCEPT ![h] = x]
      BY <2>2 DEF PkgTypeOK, PkgIterType
    <3> HIDE DEF x
    <3>3. Seen(x, cells)
      BY <3>1, <2>1, <2>4, <2>6 DEF Seen
    <3> QED
      BY <1>1, <2>5, <2>6, <3>1, <3>2, <3>3, GiveUpKeeps
  <2>7. CASE later # {}
    <3> DEFINE e == [cells[p] EXCEPT !.at = next]
               x == [pit[h] EXCEPT !.seen = @ \cup {next}]
               cs == [cells EXCEPT ![p] = e]
               i == [pit EXCEPT ![h] = x]
    <3>1. e \in CellType /\ e.live /\ e.cache = opened /\ e.at = next
      BY <2>1, <2>2, <2>4, <2>7 DEF CellType
    <3>2. next \in Nat
      BY <2>4, <2>7
    <3>3. x \in PkgIterType /\ x.scope /\ x.cur = p /\ x.seen = pit[h].seen \cup {next}
      BY <1>1, <2>2, <3>2 DEF PkgIterType
    <3>4. PkgChange(cs, i)
      BY <2>5, <2>7
    <3>5. cs \in [Cells -> CellType] /\ cs[p] = e /\ \A q \in Cells \ {p} : cs[q] = cells[q]
      BY <2>1, <2>2, <3>1 DEF PkgTypeOK
    <3>6. i \in [PkgIters -> PkgIterType] /\ i[h] = x /\ \A k \in PkgIters \ {h} : i[k] = pit[k]
      BY <2>2, <3>3 DEF PkgTypeOK
    <3>7. pit[h].cur = p /\ p # NoCell
      BY <2>1, CellsAssumption
    <3> HIDE DEF e, x, cs, i, p
    <3>8. \A k \in PkgIters : (i[k].scope <=> pit[k].scope) /\ i[k].cur = pit[k].cur
      BY <1>1, <3>3, <3>6, <3>7
    <3>9. \A q \in Cells : cs[q].live <=> cells[q].live
      BY <2>1, <3>1, <3>5
    <3>10. \A k \in PkgIters : pit[k].cur \in Cells \cup {NoCell}
      BY <2>2 DEF PkgTypeOK, PkgIterType
    <3>11. OneOwner(cs, i)
      BY <2>2, <3>8, <3>9, <3>10 DEF OneOwner
    <3>12. \A q \in Cells : InCache(cs[q])
      <4>1. InCache(e)
        BY <2>2, <2>4, <2>7, <3>1 DEF InCache, PkgTypeOK
      <4> QED
        BY <2>3, <3>5, <4>1
    <3>13. Seen(i[h], cs)
      BY <2>1, <2>4, <2>7, <3>1, <3>3, <3>5, <3>6, <3>7 DEF Seen
    <3>14. ASSUME NEW k \in PkgIters \ {h}
           PROVE  Seen(i[k], cs)
      <4>1. pit[k].scope /\ pit[k].cur # NoCell => pit[k].cur \in Cells \ {p}
        BY <1>1, <2>2, <3>7, <3>10 DEF OneOwner
      <4>2. Seen(pit[k], cells) /\ i[k] = pit[k]
        BY <2>3, <3>6
      <4> QED
        BY <3>5, <4>1, <4>2 DEF Seen
    <3>15. \A k \in PkgIters : Seen(i[k], cs)
      BY <3>13, <3>14
    <3> QED
      BY <3>4, <3>5, <3>6, <3>11, <3>12, <3>15, PkgChangeKeeps
  <2> QED
    BY <2>6, <2>7
<1> QED
  BY <1>2, <1>3, <1>4

(* After a reopen no object is of the present cache. *)
LEMMA PkgReopenKeeps == ASSUME PkgInv, ~wild, PkgReopen PROVE PkgInv'
<1>1. opened \in Nat /\ opened' = opened + 1 /\ pkgs' \in Seq(BOOLEAN)
      /\ UNCHANGED <<cells, pit, wrongUse, wild>>
  BY PkgListsAssumption DEF PkgInv, PkgTypeOK, PkgReopen
<1>2. PkgTypeOK' /\ ~wild'
  BY <1>1 DEF PkgInv, PkgTypeOK
<1>3. OneOwner(cells, pit)'
  BY <1>1 DEF PkgInv, OneOwner
<1>4. ASSUME NEW p \in Cells
      PROVE  cells[p] \in CellType /\ InCache(cells[p])' /\ (cells[p].live => cells[p].cache < opened')
  BY <1>1 DEF PkgInv, PkgTypeOK, InCache, CellType
<1>5. ASSUME NEW h \in PkgIters
      PROVE  Seen(pit[h], cells)'
  <2>1. pit[h].scope /\ pit[h].cur # NoCell => pit[h].cur \in Cells /\ cells[pit[h].cur].live
    BY DEF PkgInv, PkgTypeOK, PkgIterType, OneOwner
  <2>2. pit[h].scope /\ pit[h].cur # NoCell => cells[pit[h].cur].cache # opened'
    BY <1>1, <1>4, <2>1 DEF CellType
  <2> QED
    BY <1>1, <2>2 DEF Seen
<1> QED
  BY <1>2, <1>3, <1>4, <1>5 DEF PkgInv

(* The inductive invariant of the package iterators: an object that is     *)
(* live has exactly one owner, so what ++ or a deletion does through one   *)
(* iterator cannot reach another.                                          *)
LEMMA PkgInvariance == PkgSpec => []PkgInv
<1>1. PkgInit => PkgInv
  <2> SUFFICES ASSUME PkgInit PROVE PkgInv
    OBVIOUS
  <2>1. freeCell \in CellType /\ ~freeCell.live /\ outOfScope \in PkgIterType /\ ~outOfScope.scope
    BY DEF freeCell, CellType, outOfScope, PkgIterType
  <2>2. PkgTypeOK /\ ~wild
    BY <2>1, PkgListsAssumption DEF PkgInit, PkgTypeOK
  <2>3. (\A p \in Cells : ~cells[p].live) /\ \A h \in PkgIters : ~pit[h].scope
    BY <2>1 DEF PkgInit
  <2> QED
    BY <2>2, <2>3 DEF PkgInv, OneOwner, InCache, Seen
<1>2. PkgInv /\ [PkgNext]_pkgVars => PkgInv'
  BY SamePkgs, PkgBeginKeeps, PkgEndKeeps, PkgCopyKeeps, PkgAssignKeeps, PkgDestroyKeeps,
     PkgDerefKeeps, PkgIncrementKeeps, PkgReopenKeeps DEF PkgNext
<1> QED
  BY <1>1, <1>2, PTL DEF PkgSpec

(* Package iterators, however many and in whatever order they are copied,  *)
(* assigned, advanced and destroyed, over any caches and reopens: every    *)
(* PkgIterator has one owner, only an end or outdated iterator or begin()  *)
(* of an empty cache misuses memory, and a loop passes every package with  *)
(* versions and ends equal to end().                                       *)
THEOREM PackageIteratorsAreSound == PkgSpec => []PackageIteratorsSound
BY PkgInvariance, PkgInvImplies, PTL

(***************************************************************************)
(* RecordIteratorImpl::record(), for every list of records, whatever their *)
(* order, and every set of files.                                          *)
(***************************************************************************)

(* The descriptor is on the file and at the offset record() believes. *)
Aligned == lastFile # None => open = lastFile /\ filePos = lastOffset

(* RightRecordIfNoThrow is not inductive alone: the next read starts where *)
(* the last one ended, so the position must be right as well.              *)
ReaderInv == TypeOK /\ (~threw => Aligned) /\ RightRecordIfNoThrow

LEMMA RecordType ==
  ASSUME NEW idx \in DOMAIN vflist
  PROVE  /\ vflist[idx] \in [file : Files, off : Nat, size : Nat]
         /\ vflist[idx].file # None
         /\ vflist[idx] = [file |-> vflist[idx].file, off |-> vflist[idx].off, size |-> vflist[idx].size]
<1> DEFINE R == [file : Files, off : Nat, size : Nat]
<1>1. vflist \in Seq(R)
  BY VflistAssumption
<1>2. vflist[idx] \in R
  <2> HIDE DEF R
  <2> QED
    BY <1>1
<1> QED
  BY <1>2, FilesAssumption

LEMMA PositionType ==
  ASSUME TypeOK, NEW idx \in DOMAIN vflist
  PROVE  /\ posFor(idx) \in Nat /\ lastOffsetFor(idx) \in Nat
         /\ openFor(idx) \in Files \cup {None}
         /\ start(idx) \in Nat /\ slack(idx) \in 0..MaxSlack /\ end(idx) \in Nat
         /\ start(idx) <= end(idx)
BY RecordType DEF TypeOK, posFor, lastOffsetFor, openFor, start, slack, seeks, slackTo, end, MaxSlack

(* When the reader is aligned, a read starts at the record's first byte,   *)
(* once the slack is dropped, whether it seeks or not.                     *)
LEMMA AlignedRead ==
  ASSUME TypeOK, Aligned, NEW idx \in DOMAIN vflist
  PROVE  /\ openFor(idx) = vflist[idx].file
         /\ start(idx) + slack(idx) = vflist[idx].off
BY RecordType DEF TypeOK, Aligned, openFor, needsOpen, posFor, lastOffsetFor, start, slack, seeks, slackTo, MaxSlack

(* ReaderInv is inductive: every call keeps the reader aligned or throws.  *)
THEOREM ReaderInvInductive == ReaderInv /\ [ReaderNext]_readerVars => ReaderInv'
<1> SUFFICES ASSUME ReaderInv, [ReaderNext]_readerVars PROVE ReaderInv'
  OBVIOUS
<1> USE DEF ReaderInv
<1>1. ASSUME NEW idx \in DOMAIN vflist, Throw(idx),
             lastFile' = vflist[idx].file, open' \in Files \cup {None},
             filePos' \in Nat, lastOffset' \in Nat
      PROVE  ReaderInv'
  <2>1. TypeOK'
    BY <1>1, RecordType DEF TypeOK, Throw, thrown
  <2> QED
    BY <1>1, <2>1 DEF Throw, RightRecordIfNoThrow
<1>2. ASSUME NEW idx \in DOMAIN vflist, NotOk(idx) PROVE ReaderInv'
  BY <1>1, <1>2 DEF NotOk, TypeOK
<1>3. ASSUME NEW idx \in DOMAIN vflist, OpenFails(idx) PROVE ReaderInv'
  BY <1>1, <1>3 DEF OpenFails, TypeOK
<1>4. ASSUME NEW idx \in DOMAIN vflist, SeekFails(idx) PROVE ReaderInv'
  BY <1>1, <1>4, PositionType DEF SeekFails, Opened
<1>5. ASSUME NEW idx \in DOMAIN vflist, ReadFails(idx) PROVE ReaderInv'
  <2>1. filePos' \in Nat
    BY <1>5, PositionType DEF ReadFails
  <2> QED
    BY <1>1, <1>5, <2>1, PositionType DEF ReadFails, Opened
<1>6. ASSUME NEW idx \in DOMAIN vflist, ReadOk(idx) PROVE ReaderInv'
  <2>1. TypeOK'
    <3>1. lastFile' \in Files /\ open' \in Files \cup {None} /\ filePos' \in Nat /\ lastOffset' \in Nat
      BY <1>6, RecordType, PositionType DEF ReadOk, Opened
    <3>2. result' \in [file : Files \cup {None}, off : Nat, size : Nat]
      BY <1>6, RecordType, PositionType DEF ReadOk, MaxSlack
    <3> QED
      BY <1>6, <3>1, <3>2 DEF TypeOK, ReadOk
  <2>2. ASSUME ~threw' PROVE Aligned' /\ result' = vflist[idx]
    <3>1. openFor(idx) = vflist[idx].file /\ start(idx) + slack(idx) = vflist[idx].off
      BY <1>6, <2>2, AlignedRead DEF ReadOk
    <3>2. Aligned'
      BY <1>6, <3>1 DEF ReadOk, Opened, Aligned, end
    <3>3. result' = vflist[idx]
      BY <1>6, <3>1, RecordType DEF ReadOk
    <3> QED
      BY <3>2, <3>3
  <2> QED
    BY <1>6, <2>1, <2>2 DEF ReadOk, RightRecordIfNoThrow
<1>7. CASE UNCHANGED readerVars
  BY <1>7 DEF readerVars, TypeOK, Aligned, RightRecordIfNoThrow, Returned
<1> QED
  BY <1>2, <1>3, <1>4, <1>5, <1>6, <1>7 DEF ReaderNext

LEMMA ReaderInitInv == ReaderInit => ReaderInv
<1> SUFFICES ASSUME ReaderInit PROVE ReaderInv
  OBVIOUS
<1>1. lastOffset \in Nat /\ filePos \in Nat
  BY GarbageAssumption DEF ReaderInit
<1>2. threw \in BOOLEAN
  BY Zenon DEF ReaderInit
<1>3. result \in [file : Files \cup {None}, off : Nat, size : Nat] /\ result.file = None
  BY DEF ReaderInit, thrown
<1> QED
  BY <1>1, <1>2, <1>3 DEF ReaderInit, ReaderInv, TypeOK, Aligned, RightRecordIfNoThrow, Returned

(***************************************************************************)
(* Until some call throws, record() (apt.cc:255-297) returns exactly the   *)
(* bytes of the record asked for, in whatever order copies of an iterator  *)
(* ask: skipping the seek and reading the slack along is safe.             *)
(***************************************************************************)
THEOREM RightRecord == ReaderSpec => []RightRecordIfNoThrow
<1>1. ReaderInv => RightRecordIfNoThrow
  BY DEF ReaderInv
<1> QED
  BY <1>1, ReaderInitInv, ReaderInvInductive, PTL DEF ReaderSpec

(***************************************************************************)
(* A read that seeks, or that opens the right file, gives the right bytes  *)
(* even after any number of failures.                                      *)
(***************************************************************************)
THEOREM Realignment == ReaderSpec => SeekRealigns
<1>1. ReaderInv /\ [ReaderNext]_readerVars =>
        [\A idx \in DOMAIN vflist :
           ReadOk(idx) /\ (seeks(idx) \/ needsOpen(idx)) /\ openFor(idx) = vflist[idx].file
             => result' = vflist[idx]]_readerVars
  <2> SUFFICES ASSUME ReaderInv, NEW idx \in DOMAIN vflist, ReadOk(idx),
                      seeks(idx) \/ needsOpen(idx), openFor(idx) = vflist[idx].file
               PROVE  result' = vflist[idx]
    OBVIOUS
  <2>1. start(idx) + slack(idx) = vflist[idx].off
    BY RecordType DEF ReaderInv, TypeOK, start, slack, seeks, slackTo, posFor, lastOffsetFor, MaxSlack
  <2> QED
    BY <2>1, RecordType DEF ReadOk
<1> QED
  BY <1>1, ReaderInitInv, ReaderInvInductive, PTL DEF ReaderSpec, SeekRealigns

-----------------------------------------------------------------------------
(* Least and greatest numbers.                                             *)

LEMMA MinFacts ==
  ASSUME NEW T \in SUBSET Nat, T # {}
  PROVE  Min(T) \in T /\ \A m \in T : Min(T) <= m
BY LeastNatural DEF Min

LEMMA MaxFacts ==
  ASSUME NEW b \in Nat, NEW T \in SUBSET (0..b), T # {}
  PROVE  Max(T) \in T /\ \A m \in T : m <= Max(T)
<1> DEFINE U == {n \in 0..b : b - n \in T}
<1>0. \A m \in T : \E n \in 0..b : b - n = m
  <2> SUFFICES ASSUME NEW m \in T PROVE \E n \in 0..b : b - n = m
    OBVIOUS
  <2>1. m \in 0..b
    OBVIOUS
  <2>2. b - m \in 0..b /\ b - (b - m) = m
    BY <2>1
  <2> QED
    BY <2>2
<1>1. U # {} /\ U \in SUBSET Nat
  <2>1. PICK m \in T : m \in 0..b
    OBVIOUS
  <2>2. PICK n \in 0..b : b - n = m
    BY <1>0
  <2>3. b - n \in T
    BY <2>2
  <2>4. n \in U
    BY <2>3
  <2>5. \A k \in U : k \in Nat
    OBVIOUS
  <2> HIDE DEF U
  <2> QED
    BY <2>4, <2>5
<1>2. PICK n \in U : \A m \in U : n <= m
  <2> HIDE DEF U
  <2> QED
    BY <1>1, LeastNatural
<1>3. b - n \in T
  OBVIOUS
<1>4. ASSUME NEW m \in T PROVE m <= b - n
  <2>1. PICK k \in 0..b : b - k = m
    BY <1>0
  <2>2. b - k \in T
    BY <2>1
  <2>3. k \in U
    BY <2>2
  <2> QED
    BY <1>2, <2>1, <2>3
<1> HIDE DEF U
<1>5. \E x \in T : \A m \in T : x >= m
  BY <1>3, <1>4
<1> QED
  BY <1>5 DEF Max

-----------------------------------------------------------------------------
(* Versions.                                                               *)

(* Of two versions of one package the first is less, greater, or neither.  *)
LEMMA OneComparison ==
  ASSUME NEW x \in Int, NEW s, NEW t, rank[s] \in Int, rank[t] \in Int
  PROVE  LET v == Version(x, s)
             w == Version(x, t)
         IN  /\ Cardinality({k \in 1..3 : <<lt(v, w), gt(v, w), le(v, w) /\ ge(v, w)>>[k]}) = 1
             /\ v = w => le(v, w) /\ ge(v, w)
<1> DEFINE v == Version(x, s)
           w == Version(x, t)
           d == rank[s] - rank[t]
           K == {k \in 1..3 : <<lt(v, w), gt(v, w), le(v, w) /\ ge(v, w)>>[k]}
<1>1. v.name = x /\ w.name = x /\ CmpVersion(v, w) = d /\ d \in Int
  BY DEF Version, CmpVersion
<1>2. (lt(v, w) <=> d < 0) /\ (gt(v, w) <=> d > 0) /\ (le(v, w) <=> d <= 0) /\ (ge(v, w) <=> d >= 0)
  BY <1>1 DEF lt, gt, le, ge
<1>3. ASSUME NEW k \in 1..3
      PROVE  k \in K <=> \/ k = 1 /\ lt(v, w)
                         \/ k = 2 /\ gt(v, w)
                         \/ k = 3 /\ le(v, w) /\ ge(v, w)
  <2> DEFINE A == lt(v, w)
             B == gt(v, w)
             C == le(v, w) /\ ge(v, w)
  <2> HIDE DEF A, B, C
  <2>1. <<A, B, C>>[1] = A /\ <<A, B, C>>[2] = B /\ <<A, B, C>>[3] = C
    BY Zenon
  <2>2. k = 1 \/ k = 2 \/ k = 3
    OBVIOUS
  <2>3. 1 # 2 /\ 1 # 3 /\ 2 # 3
    OBVIOUS
  <2>4. <<A, B, C>>[k] <=> (k = 1 /\ A) \/ (k = 2 /\ B) \/ (k = 3 /\ C)
    BY <2>1, <2>2, <2>3, Zenon
  <2> QED
    BY <2>4 DEF A, B, C
<1>4. K \subseteq 1..3
  OBVIOUS
<1> HIDE DEF v, w, K
<1>a. (1 \in K <=> d < 0) /\ (2 \in K <=> d > 0) /\ (3 \in K <=> d = 0)
  <2>1. (1 \in K <=> lt(v, w)) /\ (2 \in K <=> gt(v, w)) /\ (3 \in K <=> le(v, w) /\ ge(v, w))
    BY <1>3
  <2> QED
    BY <1>1, <1>2, <2>1
<1>b. d \in Int
  BY <1>1
<1> HIDE DEF d
<1>5. \E k \in 1..3 : K = {k}
  <2>1. CASE d < 0
    <3>0. 1 \in K /\ 2 \notin K /\ 3 \notin K
      BY <1>b, <1>a, <2>1
    <3>1. \A y \in K : y = 1
      BY <1>4, <3>0
    <3>2. K = {1}
      BY <3>0, <3>1
    <3> QED
      BY <3>2
  <2>2. CASE d > 0
    <3>0. 2 \in K /\ 1 \notin K /\ 3 \notin K
      BY <1>b, <1>a, <2>2
    <3>1. \A y \in K : y = 2
      BY <1>4, <3>0
    <3>2. K = {2}
      BY <3>0, <3>1
    <3> QED
      BY <3>2
  <2>3. CASE d = 0
    <3>0. 3 \in K /\ 1 \notin K /\ 2 \notin K
      BY <1>b, <1>a, <2>3
    <3>1. \A y \in K : y = 3
      BY <1>4, <3>0
    <3>2. K = {3}
      BY <3>0, <3>1
    <3> QED
      BY <3>2
  <2> QED
    BY <1>1, <2>1, <2>2, <2>3
<1>6. Cardinality(K) = 1
  BY <1>5, FS_Singleton
<1>7. ASSUME v = w PROVE le(v, w) /\ ge(v, w)
  <2>1. d = 0
    <3>1. s = t
      BY <1>7 DEF v, w, Version
    <3> QED
      BY <3>1 DEF d
  <2> QED
    BY <1>2, <2>1
<1> QED
  BY <1>6, <1>7 DEF v, w, K

LEMMA UpstreamIsBetween ==
  ASSUME NEW s, s \in Seq(ToSet(s))
  PROVE  \E i \in 0..Len(s) : \E j \in i..Len(s) :
           /\ upstreamVersion(s) = SubSeq(s, i + 1, j)
           /\ i = 0 \/ s[i] = ":"
           /\ j = Len(s) \/ s[j + 1] = "-"
<1> DEFINE C == {n \in DOMAIN s : s[n] = ":"} \cup {Len(s) + 1}
           D == {n \in DOMAIN s : s[n] = "-"} \cup {0}
           colon == Min(C)
           dash == Max(D)
           first == IF colon > Len(s) THEN 1 ELSE colon + 1
           last == IF dash = 0 \/ dash < first - 1 THEN Len(s) ELSE dash - 1
<1>1. upstreamVersion(s) = SubSeq(s, first, last)
  BY DEF upstreamVersion
<1>2. Len(s) \in Nat /\ DOMAIN s = 1..Len(s)
  OBVIOUS
<1>3. C \in SUBSET Nat /\ C # {} /\ D \in SUBSET (0..Len(s)) /\ D # {}
  BY <1>2
<1>4. colon \in C
  <2> HIDE DEF C
  <2> QED
    BY <1>3, MinFacts
<1>5. dash \in D
  <2> HIDE DEF D
  <2> QED
    BY <1>2, <1>3, MaxFacts
<1>6. (colon \in 1..Len(s) /\ s[colon] = ":") \/ colon = Len(s) + 1
  <2> HIDE DEF colon
  <2> QED
    BY <1>2, <1>4
<1>7. (dash \in 1..Len(s) /\ s[dash] = "-") \/ dash = 0
  <2> HIDE DEF dash
  <2> QED
    BY <1>2, <1>5
<1> HIDE DEF colon, dash, C, D
<1> DEFINE i == first - 1
<1>8. i \in 0..Len(s) /\ i + 1 = first /\ (i = 0 \/ s[i] = ":")
  BY <1>2, <1>6
<1>9. last \in i..Len(s) /\ (last = Len(s) \/ s[last + 1] = "-")
  <2>1. CASE dash = 0 \/ dash < first - 1
    BY <1>2, <1>8, <2>1
  <2>2. CASE ~(dash = 0 \/ dash < first - 1)
    <3>1. dash \in 1..Len(s) /\ s[dash] = "-" /\ dash >= i /\ last = dash - 1
      BY <1>7, <1>8, <2>2
    <3>2. dash # i
      <4>1. i = 0 \/ (i \in 1..Len(s) /\ s[i] = ":")
        BY <1>2, <1>8
      <4> HIDE DEF i
      <4> QED
        BY <3>1, <4>1
    <3>3. last + 1 = dash /\ last \in i..Len(s)
      BY <1>2, <1>8, <3>1, <3>2
    <3> QED
      BY <3>1, <3>3
  <2> QED
    BY <2>1, <2>2
<1> HIDE DEF i, first, last
<1>10. SubSeq(s, first, last) = SubSeq(s, i + 1, last)
  BY <1>8
<1> QED
  BY <1>1, <1>8, <1>9, <1>10

-----------------------------------------------------------------------------
(* The queries.                                                            *)

CacheOK == cache \in Seq(ToSet(cache)) /\ \A n \in DOMAIN cache : PackageOK(cache[n])

LEMMA CacheInv == CacheSpec => []CacheOK
<1>1. CacheInit => CacheOK
  BY DEF CacheInit, CacheOK
<1>2. CacheOK /\ [CacheNext]_cacheVars => CacheOK'
  BY CachesAssumption DEF CacheOK, CacheNext, Load, cacheVars
<1> QED
  BY <1>1, <1>2, PTL DEF CacheSpec

LEMMA PkgFacts ==
  ASSUME CacheOK, NEW pkg, isValid(pkg)
  PROVE  PackageOK(Pkg(pkg)) /\ Pkg(pkg).name = pkg /\ pkg \in Nat \ {0}
<1>1. Found(pkg) # {} /\ Found(pkg) \in SUBSET Nat
  BY DEF isValid, Found, CacheOK
<1>2. Min(Found(pkg)) \in Found(pkg)
  BY <1>1, MinFacts
<1>3. Min(Found(pkg)) \in DOMAIN cache /\ Pkg(pkg).name = pkg
  BY <1>2 DEF Found, Pkg
<1>4. PackageOK(Pkg(pkg))
  BY <1>3 DEF CacheOK, Pkg
<1> QED
  BY <1>3, <1>4 DEF PackageOK

(* A version of the package's list. *)
LEMMA NthFacts ==
  ASSUME CacheOK, NEW pkg, isValid(pkg), NEW n \in 1..Len(Pkg(pkg).versions)
  PROVE  LET v == Nth(pkg, n)
         IN  /\ v = Version(pkg, Pkg(pkg).versions[n].ver)
             /\ VersionString(Pkg(pkg).versions[n].ver)
             /\ validVersion(v) /\ v # NoVersion /\ validate(v) = v
<1> DEFINE p == Pkg(pkg)
           s == p.versions[n].ver
           v == Nth(pkg, n)
<1>1. PackageOK(p) /\ pkg \in Nat \ {0}
  BY PkgFacts
<1>2. DOMAIN p.versions = 1..Len(p.versions)
  BY <1>1 DEF PackageOK
<1>3. VersionString(s)
  BY <1>1, <1>2 DEF PackageOK
<1>4. v = Version(pkg, s)
  BY DEF Nth
<1>5. v.name = pkg /\ v.version = s
  BY <1>4 DEF Version
<1>6. validVersion(v)
  BY <1>1, <1>3, <1>5 DEF validVersion, VersionString
<1>7. v # NoVersion
  <2>1. v.name # NoVersion.name
    BY <1>1, <1>5 DEF NoVersion, Version
  <2> QED
    BY <2>1
<1>8. n \in Same(v)
  BY <1>2, <1>5 DEF Same
<1>9. validate(v) = v
  BY <1>8 DEF validate
<1> QED
  BY <1>3, <1>4, <1>6, <1>7, <1>9

LEMMA NoVersionFacts ==
  ~validVersion(NoVersion) /\ \A pkg : Nth(pkg, 0) = NoVersion
BY DEF validVersion, NoVersion, Version, Nth

(* The places of the candidate and of the current version, 0 for a package *)
(* that is not there.                                                      *)
LEMMA PlaceFacts ==
  ASSUME CacheOK, NEW pkg
  PROVE  \A n \in {Candidate(pkg), Current(pkg)} :
           n \in Nat /\ (n # 0 => isValid(pkg) /\ n \in 1..Len(Pkg(pkg).versions))
<1>1. CASE isValid(pkg)
  <2>1. PackageOK(Pkg(pkg))
    BY <1>1, PkgFacts
  <2>2. Candidate(pkg) = Pkg(pkg).candidate /\ Current(pkg) = Pkg(pkg).current
    BY <1>1 DEF Candidate, Current
  <2>3. Len(Pkg(pkg).versions) \in Nat
    BY <2>1 DEF PackageOK
  <2> QED
    BY <1>1, <2>1, <2>2, <2>3 DEF PackageOK
<1>2. CASE ~isValid(pkg)
  BY <1>2 DEF Candidate, Current
<1> QED
  BY <1>1, <1>2

LEMMA NthValid ==
  ASSUME CacheOK, NEW pkg, NEW n \in {Candidate(pkg), Current(pkg)}
  PROVE  /\ validVersion(Nth(pkg, n)) <=> n # 0
         /\ validVersion(Nth(pkg, n)) <=> validate(Nth(pkg, n)) = Nth(pkg, n) /\ Nth(pkg, n) # NoVersion
<1>1. CASE n = 0
  BY <1>1, NoVersionFacts
<1>2. CASE n # 0
  <2>1. isValid(pkg) /\ n \in 1..Len(Pkg(pkg).versions)
    BY <1>2, PlaceFacts
  <2> QED
    BY <1>2, <2>1, NthFacts
<1> QED
  BY <1>1, <1>2

LEMMA VersionsAgree == CacheOK => VersionsCohere
<1> DEFINE vs(pkg) == {Nth(pkg, n) : n \in DOMAIN Pkg(pkg).versions}
           Order(v, w) ==
             /\ Cardinality({k \in 1..3 : <<lt(v, w), gt(v, w), le(v, w) /\ ge(v, w)>>[k]}) = 1
             /\ v = w => le(v, w) /\ ge(v, w)
           Between(s, u) ==
             \E i \in 0..Len(s) : \E j \in i..Len(s) :
               /\ u = SubSeq(s, i + 1, j)
               /\ i = 0 \/ s[i] = ":"
               /\ j = Len(s) \/ s[j + 1] = "-"
<1>1. ASSUME CacheOK, NEW pkg \in PkgNames, NEW v \in vs(pkg)
      PROVE  /\ pkg \in Int
             /\ \E s : /\ v = Version(pkg, s) /\ v.version = s
                       /\ rank[s] \in Int /\ s \in Seq(ToSet(s))
  <2>1. isValid(pkg)
    <3>1. PICK n \in DOMAIN cache : cache[n].name = pkg
      BY <1>1 DEF PkgNames
    <3>2. n \in Found(pkg)
      BY <3>1 DEF Found
    <3> QED
      BY <3>2 DEF isValid
  <2>2. DOMAIN Pkg(pkg).versions = 1..Len(Pkg(pkg).versions) /\ pkg \in Int
    BY <1>1, <2>1, PkgFacts DEF PackageOK
  <2>3. PICK n \in DOMAIN Pkg(pkg).versions : v = Nth(pkg, n)
    BY <1>1
  <2> DEFINE s == Pkg(pkg).versions[n].ver
  <2>4. v = Version(pkg, s) /\ VersionString(s)
    BY <1>1, <2>1, <2>2, <2>3, NthFacts
  <2> HIDE DEF s
  <2>5. /\ rank[s] \in Int /\ s \in Seq(ToSet(s)) /\ v.version = s
    BY <2>4 DEF VersionString, Version
  <2> QED
    BY <2>2, <2>4, <2>5
<1>2. ASSUME CacheOK, NEW pkg \in PkgNames, NEW v \in vs(pkg), NEW w \in vs(pkg)
      PROVE  Order(v, w) /\ Between(v.version, upstreamVersion(v.version))
  <2>1. pkg \in Int
    BY <1>1, <1>2
  <2>2. PICK s : /\ v = Version(pkg, s) /\ v.version = s
                 /\ rank[s] \in Int /\ s \in Seq(ToSet(s))
    BY <1>1, <1>2
  <2>3. PICK t : w = Version(pkg, t) /\ rank[t] \in Int
    BY <1>1, <1>2
  <2>4. Order(v, w)
    BY <2>1, <2>2, <2>3, OneComparison
  <2>5. Between(s, upstreamVersion(s))
    BY <2>2, UpstreamIsBetween
  <2> QED
    BY <2>2, <2>4, <2>5
<1>3. VersionsCohere <=>
        \A pkg \in PkgNames : \A v, w \in vs(pkg) :
          Order(v, w) /\ Between(v.version, upstreamVersion(v.version))
  BY DEF VersionsCohere
<1> HIDE DEF vs, Order, Between
<1> QED
  BY <1>2, <1>3

LEMMA QueriesAgreeOn ==
  ASSUME CacheOK, NEW pkg
  PROVE  LET st == state(pkg, {"Keep"})
             cand == candidateVersion(pkg)
             inst == installedVersion(pkg)
         IN  /\ \A v \in {cand, inst, anyVersion(pkg)} :
                  validVersion(v) <=> validate(v) = v /\ v # NoVersion
             /\ validVersion(anyVersion(pkg)) <=> validVersion(cand) \/ validVersion(inst)
             /\ ("Valid" \in st <=> isValid(pkg)) /\ (validateName(pkg) # 0 <=> isValid(pkg))
             /\ "Installed" \in st => validVersion(inst)
             /\ hasNewVersion(st) => "Installed" \in st /\ validVersion(cand)
             /\ "Installed" \in st /\ ~Ambiguous(pkg) =>
                  (upgradable(st) <=> validVersion(cand) /\ cand # inst)
             /\ \A sc \in DepStates : ~(upgrade(state(pkg, sc)) /\ newInstall(state(pkg, sc)))
<1> DEFINE st == state(pkg, {"Keep"})
           cand == candidateVersion(pkg)
           inst == installedVersion(pkg)
           any == anyVersion(pkg)
           here == Pkg(pkg).state \notin {"ConfigFiles", "NotInstalled"} /\ Current(pkg) # 0
           fresh == Candidate(pkg) \notin {0, Current(pkg)}
<1>1. /\ cand = Nth(pkg, Candidate(pkg)) /\ inst = Nth(pkg, Current(pkg))
      /\ any = IF Candidate(pkg) # 0 THEN cand ELSE inst
  BY DEF candidateVersion, installedVersion, anyVersion
<1>2. /\ validVersion(cand) <=> Candidate(pkg) # 0
      /\ validVersion(inst) <=> Current(pkg) # 0
      /\ validVersion(cand) <=> validate(cand) = cand /\ cand # NoVersion
      /\ validVersion(inst) <=> validate(inst) = inst /\ inst # NoVersion
  BY <1>1, NthValid
<1>3. any = cand \/ any = inst
  BY <1>1
<1>4. validVersion(any) <=> validVersion(cand) \/ validVersion(inst)
  BY <1>1, <1>2
<1>5. ASSUME NEW sc, {"Valid", "Installed", "Upgradable", "Hold"} \cap sc = {}
      PROVE  /\ "Valid" \in state(pkg, sc) <=> isValid(pkg)
             /\ "Installed" \in state(pkg, sc) <=> isValid(pkg) /\ here
             /\ "Upgradable" \in state(pkg, sc) <=> isValid(pkg) /\ here /\ fresh
             /\ "Hold" \notin state(pkg, sc)
  <2>1. CASE ~isValid(pkg)
    BY <2>1 DEF state
  <2>2. CASE isValid(pkg)
    <3>1. state(pkg, sc) = {"Valid"} \cup (IF here THEN {"Installed"} ELSE {})
             \cup (IF here /\ fresh THEN {"Upgradable"} ELSE {}) \cup sc
      BY <2>2 DEF state
    <3>2. "Valid" \notin sc /\ "Installed" \notin sc /\ "Upgradable" \notin sc /\ "Hold" \notin sc
      BY <1>5
    <3> HIDE DEF here, fresh
    <3> QED
      BY <2>2, <3>1, <3>2
  <2> QED
    BY <2>1, <2>2
<1>6. /\ "Valid" \in st <=> isValid(pkg)
      /\ "Installed" \in st <=> isValid(pkg) /\ here
      /\ "Upgradable" \in st <=> isValid(pkg) /\ here /\ fresh
      /\ "Hold" \notin st
  <2>1. {"Valid", "Installed", "Upgradable", "Hold"} \cap {"Keep"} = {}
    OBVIOUS
  <2> QED
    BY <1>5, <2>1
<1>7. validateName(pkg) # 0 <=> isValid(pkg)
  BY PkgFacts DEF validateName
<1>8. ASSUME NEW sc \in DepStates
      PROVE  ~(upgrade(state(pkg, sc)) /\ newInstall(state(pkg, sc)))
  <2>1. {"Valid", "Installed", "Upgradable", "Hold"} \cap sc = {}
    BY DEF DepStates
  <2>2. "Upgradable" \in state(pkg, sc) => "Installed" \in state(pkg, sc)
    BY <1>5, <2>1
  <2> QED
    BY <2>2 DEF upgrade, newInstall, hasNewVersion
<1>9. ASSUME "Installed" \in st, ~Ambiguous(pkg)
      PROVE  upgradable(st) <=> validVersion(cand) /\ cand # inst
  <2>1. isValid(pkg) /\ here /\ Current(pkg) # 0
    BY <1>6, <1>9
  <2>2. upgradable(st) <=> fresh
    BY <1>6, <2>1 DEF upgradable, hasNewVersion
  <2>3. CASE Candidate(pkg) = 0
    BY <1>2, <2>2, <2>3
  <2>4. CASE Candidate(pkg) = Current(pkg)
    BY <1>1, <2>2, <2>4
  <2>5. CASE fresh
    <3>1. Candidate(pkg) # Current(pkg) /\ Candidate(pkg) # 0
      BY <2>5
    <3>2. /\ Candidate(pkg) \in 1..Len(Pkg(pkg).versions)
          /\ Current(pkg) \in 1..Len(Pkg(pkg).versions)
      BY <2>1, <3>1, PlaceFacts
    <3>3. DOMAIN Pkg(pkg).versions = 1..Len(Pkg(pkg).versions)
      BY <2>1, PkgFacts DEF PackageOK
    <3>4. Pkg(pkg).versions[Candidate(pkg)].ver # Pkg(pkg).versions[Current(pkg)].ver
      BY <1>9, <3>1, <3>2, <3>3 DEF Ambiguous
    <3>5. cand.version # inst.version
      BY <1>1, <2>1, <3>2, <3>4, NthFacts DEF Version
    <3> QED
      BY <1>2, <2>2, <2>5, <3>1, <3>5
  <2> QED
    BY <2>3, <2>4, <2>5
<1>10. /\ "Installed" \in st => validVersion(inst)
       /\ hasNewVersion(st) => "Installed" \in st /\ validVersion(cand)
  BY <1>2, <1>6 DEF hasNewVersion
<1> HIDE DEF st, cand, inst, any, here, fresh
<1>11. \A v \in {cand, inst, any} : validVersion(v) <=> validate(v) = v /\ v # NoVersion
  BY <1>2, <1>3
<1> QED
  BY <1>4, <1>6, <1>7, <1>8, <1>9, <1>10, <1>11 DEF st, cand, inst, any

(***************************************************************************)
(* Whatever cache libapt has loaded, the queries of Apt (apt.cc:479-578)   *)
(* and the comparisons of Version tell one story about every package.      *)
(***************************************************************************)
THEOREM QueriesTellOneStory == CacheSpec => []QueriesCohere
<1>1. CacheOK => QueriesCohere
  BY VersionsAgree, QueriesAgreeOn DEF QueriesCohere
<1> QED
  BY <1>1, CacheInv, PTL

-----------------------------------------------------------------------------
(* The list of records.                                                    *)

(* In a finite set with a strict total order, an element stands one place  *)
(* behind those that come before it: each place is taken once, and in      *)
(* order.                                                                  *)
Earlier(S, R, n) == {m \in S : <<m, n>> \in R}
Standing(S, R, n) == Cardinality(Earlier(S, R, n)) + 1

LEMMA PlacesAreTaken ==
  ASSUME NEW S, IsFiniteSet(S), NEW R,
         \A m \in S : <<m, m>> \notin R,
         \A m, n \in S : m # n => <<m, n>> \in R \/ <<n, m>> \in R,
         \A l, m, n \in S : <<l, m>> \in R /\ <<m, n>> \in R => <<l, n>> \in R
  PROVE  /\ \A n \in S : Standing(S, R, n) \in 1..Cardinality(S)
         /\ \A m, n \in S : <<m, n>> \in R => Standing(S, R, m) < Standing(S, R, n)
         /\ \A k \in 1..Cardinality(S) : \E n \in S : Standing(S, R, n) = k
<1> DEFINE E(n) == Earlier(S, R, n)
           at(n) == Standing(S, R, n)
<1>1. Cardinality(S) \in Nat
  BY FS_CardinalityType
<1>2. ASSUME NEW n \in S
      PROVE  IsFiniteSet(E(n)) /\ Cardinality(E(n)) \in Nat /\ n \notin E(n) /\ E(n) \subseteq S
  <2>1. E(n) \in SUBSET S /\ n \notin E(n)
    BY <1>2 DEF Earlier
  <2>2. IsFiniteSet(E(n))
    BY <2>1, FS_Subset
  <2> QED
    BY <2>1, <2>2, FS_CardinalityType
<1>3. ASSUME NEW n \in S, NEW T \in SUBSET S, E(n) \cup {n} \subseteq T
      PROVE  at(n) \in Nat \ {0} /\ at(n) <= Cardinality(T)
  <2>1. IsFiniteSet(T) /\ Cardinality(T) \in Nat
    BY FS_Subset, FS_CardinalityType
  <2>2. Cardinality(E(n) \cup {n}) = Cardinality(E(n)) + 1
    BY <1>2, <1>3, FS_AddElement
  <2>3. Cardinality(E(n) \cup {n}) <= Cardinality(T)
    BY <1>3, <2>1, FS_Subset
  <2>4. at(n) = Cardinality(E(n)) + 1 /\ Cardinality(E(n)) \in Nat
    BY <1>2, <1>3 DEF Standing
  <2> HIDE DEF at, E
  <2> QED
    BY <2>1, <2>2, <2>3, <2>4
<1>4. ASSUME NEW n \in S PROVE at(n) \in 1..Cardinality(S)
  <2>1. at(n) \in Nat \ {0} /\ at(n) <= Cardinality(S)
    BY <1>2, <1>3, <1>4
  <2> HIDE DEF at
  <2> QED
    BY <1>1, <2>1
<1>5. ASSUME NEW m \in S, NEW n \in S, <<m, n>> \in R PROVE at(m) < at(n)
  <2>1. E(m) \cup {m} \subseteq E(n)
    BY <1>5 DEF Earlier
  <2>2. at(m) \in Nat /\ at(m) <= Cardinality(E(n)) /\ Cardinality(E(n)) \in Nat
    BY <1>2, <1>3, <1>5, <2>1
  <2>3. at(n) = Cardinality(E(n)) + 1
    BY DEF Standing
  <2> HIDE DEF at, E
  <2> QED
    BY <2>2, <2>3
<1>6. ASSUME NEW m \in S, NEW n \in S, at(m) = at(n) PROVE m = n
  <2>1. at(m) \in Int /\ at(n) \in Int
    BY <1>4, <1>6
  <2>2. <<m, n>> \notin R /\ <<n, m>> \notin R
    <3> HIDE DEF at
    <3> QED
      BY <1>5, <1>6, <2>1
  <2> QED
    BY <1>6, <2>2
<1> DEFINE N == 1..Cardinality(S)
           f == [n \in S |-> at(n)]
<1>7. f \in Injection(S, N)
  <2>1. f \in [S -> N]
    BY <1>4
  <2>2. \A m, n \in S : f[m] = f[n] => m = n
    <3> HIDE DEF at
    <3> QED
      BY <1>6
  <2> HIDE DEF f
  <2> QED
    BY <2>1, <2>2 DEF Injection, IsInjective
<1>8. IsFiniteSet(N) /\ Cardinality(N) = Cardinality(S)
  BY <1>1, FS_Interval
<1>9. f \in Surjection(S, N)
  <2> HIDE DEF f, N
  <2> QED
    BY <1>7, <1>8, FS_Injection
<1>10. ASSUME NEW k \in N PROVE \E n \in S : at(n) = k
  <2>1. \E n \in S : f[n] = k
    <3> HIDE DEF f, N
    <3> QED
      BY <1>9, <1>10 DEF Surjection
  <2> HIDE DEF at, N
  <2> QED
    BY <2>1
<1> QED
  BY <1>4, <1>5, <1>10

PlacesKnown ==
  \A m, n \in DOMAIN cache :
    PlacesOK(cache[m]) /\ (m # n => cache[m].name # cache[n].name /\ Apart(cache[m], cache[n]))

LEMMA PlacesInv == CacheSpec => []PlacesKnown
<1>1. CacheInit => PlacesKnown
  BY DEF CacheInit, PlacesKnown
<1>2. PlacesKnown /\ [CacheNext]_cacheVars => PlacesKnown'
  BY PlacesAssumption DEF PlacesKnown, CacheNext, Load, cacheVars
<1> QED
  BY <1>1, <1>2, PTL DEF CacheSpec

(* The place of the version that is shown, in the package's list. *)
Shown(p) == IF p.candidate # 0 THEN p.candidate ELSE p.current
InArchive(p) == \E n \in DOMAIN p.versions : Sources(p.versions[n]) # {}
Chosen(v) == IF Sources(v) # {} THEN inArchive(v) ELSE v.files[1]

LEMMA RecordIsChosen ==
  ASSUME NEW p, PackageOK(p), PlacesOK(p)
  PROVE  /\ recordOf(p) # NoFile <=> Shown(p) # 0 /\ InArchive(p)
         /\ recordOf(p) # NoFile =>
              /\ Shown(p) \in DOMAIN p.versions
              /\ recordOf(p) = Chosen(p.versions[Shown(p)])
              /\ recordOf(p) \in ToSet(p.versions[Shown(p)].files)
              /\ recordOf(p) \in Places(p)
<1> DEFINE vi == Shown(p)
           v == p.versions[vi]
           known == {n \in DOMAIN p.versions : Sources(p.versions[n]) # {}}
<1>1. recordOf(p) = IF vi = 0 THEN NoFile
                    ELSE IF Sources(v) # {} THEN inArchive(v)
                    ELSE IF known # {} THEN v.files[1] ELSE NoFile
  BY DEF recordOf, Shown
<1>2. InArchive(p) <=> known # {}
  BY DEF InArchive
<1>3. CASE vi = 0
  BY <1>1, <1>3
<1>4. CASE vi # 0
  <2>1. DOMAIN p.versions = 1..Len(p.versions) /\ Len(p.versions) \in Nat
    BY DEF PackageOK
  <2>2. vi \in DOMAIN p.versions
    BY <1>4, <2>1 DEF Shown, PackageOK
  <2> DEFINE fs == v.files
  <2>3. fs \in Seq(ToSet(fs)) /\ fs # <<>>
    BY <2>2 DEF PlacesOK
  <2>4. DOMAIN fs = 1..Len(fs) /\ Len(fs) \in Nat /\ 1 \in DOMAIN fs
    <3> HIDE DEF fs
    <3> QED
      BY <2>3
  <2>5. ASSUME Sources(v) # {} PROVE inArchive(v) \in ToSet(fs)
    <3>1. Sources(v) \in SUBSET Nat /\ Sources(v) \in SUBSET DOMAIN fs
      BY <2>4 DEF Sources
    <3>2. Min(Sources(v)) \in Sources(v)
      BY <2>5, <3>1, MinFacts
    <3>3. inArchive(v) = fs[Min(Sources(v))]
      BY DEF inArchive
    <3> HIDE DEF v, fs
    <3> QED
      BY <3>1, <3>2, <3>3 DEF ToSet
  <2>6. fs[1] \in ToSet(fs)
    <3> HIDE DEF fs
    <3> QED
      BY <2>4 DEF ToSet
  <2>7. \A r \in ToSet(fs) : r \in Places(p) /\ r # NoFile
    <3>1. \A r \in ToSet(fs) : r \in Places(p)
      BY <2>2 DEF Places
    <3>2. \A r \in Places(p) : r.file \in DOMAIN fileNo
      BY DEF PlacesOK
    <3>3. NoFile.file \notin DOMAIN fileNo
      BY PlacesAssumption DEF NoFile
    <3> HIDE DEF fs
    <3> QED
      BY <3>1, <3>2, <3>3
  <2>8. CASE Sources(v) # {}
    <3>1. recordOf(p) = inArchive(v) /\ Chosen(v) = inArchive(v)
      BY <1>1, <1>4, <2>8 DEF Chosen
    <3>2. vi \in known
      BY <2>2, <2>8
    <3> HIDE DEF fs, v, known
    <3> QED
      BY <1>2, <1>4, <2>2, <2>5, <2>7, <2>8, <3>1, <3>2 DEF v, fs
  <2>9. CASE Sources(v) = {} /\ known # {}
    <3>1. recordOf(p) = fs[1] /\ Chosen(v) = fs[1]
      BY <1>1, <1>4, <2>9 DEF Chosen
    <3> HIDE DEF known
    <3> QED
      BY <1>2, <1>4, <2>2, <2>6, <2>7, <2>9, <3>1
  <2>10. CASE Sources(v) = {} /\ known = {}
    <3>1. recordOf(p) = NoFile
      BY <1>1, <1>4, <2>10
    <3> HIDE DEF known
    <3> QED
      BY <1>2, <2>10, <3>1
  <2> QED
    BY <2>8, <2>9, <2>10
<1> QED
  BY <1>3, <1>4

(* The order of places that are apart. *)
LEMMA LocalityOrders ==
  ASSUME NEW r, NEW s, r.file \in DOMAIN fileNo, s.file \in DOMAIN fileNo,
         r.off \in Nat, s.off \in Nat, r.size \in Nat \ {0}, s.size \in Nat \ {0},
         r.file = s.file => r.off + r.size <= s.off \/ s.off + s.size <= r.off
  PROVE  /\ localityCompare(r, s) \/ localityCompare(s, r)
         /\ ~(localityCompare(r, s) /\ localityCompare(s, r))
         /\ localityCompare(r, s) => /\ fileNo[r.file] <= fileNo[s.file]
                                     /\ r.file = s.file => r.off + r.size <= s.off
<1>1. /\ fileNo[r.file] \in Int /\ fileNo[s.file] \in Int
      /\ fileNo[r.file] = fileNo[s.file] => r.file = s.file
  BY PlacesAssumption
<1>2. CASE r.file = s.file
  BY <1>1, <1>2 DEF localityCompare
<1>3. CASE r.file # s.file
  BY <1>1, <1>3 DEF localityCompare
<1> QED
  BY <1>2, <1>3

LEMMA LocalityTransitive ==
  ASSUME NEW r, NEW s, NEW t, \A x \in {r, s, t} : x.file \in DOMAIN fileNo /\ x.off \in Nat,
         localityCompare(r, s), localityCompare(s, t)
  PROVE  localityCompare(r, t)
<1>1. \A x \in {r, s, t} : fileNo[x.file] \in Int
  BY PlacesAssumption
<1> QED
  BY <1>1 DEF localityCompare

Kept == {n \in DOMAIN cache : recordOf(cache[n]) # NoFile}
RecordAt(n) == recordOf(cache[n])
ListOrder == {mn \in Kept \X Kept : localityCompare(RecordAt(mn[1]), RecordAt(mn[2]))}
InList(n) == Standing(Kept, ListOrder, n)

(* The records that are kept are in order, and the list has them in it.    *)
LEMMA KeptRecords ==
  ASSUME CacheOK, PlacesKnown
  PROVE  /\ IsFiniteSet(Kept) /\ Cardinality(Kept) \in Nat /\ Cardinality(Kept) <= Len(cache)
         /\ \A m, n \in Kept : m # n =>
              /\ localityCompare(RecordAt(m), RecordAt(n)) \/ localityCompare(RecordAt(n), RecordAt(m))
              /\ localityCompare(RecordAt(m), RecordAt(n)) =>
                   /\ fileNo[RecordAt(m).file] <= fileNo[RecordAt(n).file]
                   /\ RecordAt(m).file = RecordAt(n).file =>
                        RecordAt(m).off + RecordAt(m).size <= RecordAt(n).off
              /\ ~(localityCompare(RecordAt(m), RecordAt(n)) /\ localityCompare(RecordAt(n), RecordAt(m)))
         /\ \A n \in Kept : ~localityCompare(RecordAt(n), RecordAt(n))
         /\ \A l, m, n \in Kept :
              localityCompare(RecordAt(l), RecordAt(m)) /\ localityCompare(RecordAt(m), RecordAt(n))
                => localityCompare(RecordAt(l), RecordAt(n))
<1>1. DOMAIN cache = 1..Len(cache) /\ Len(cache) \in Nat
  BY DEF CacheOK
<1>2. IsFiniteSet(Kept) /\ Cardinality(Kept) \in Nat /\ Cardinality(Kept) <= Len(cache)
  <2>1. IsFiniteSet(1..Len(cache)) /\ Cardinality(1..Len(cache)) = Len(cache)
    <3> DEFINE b == Len(cache)
    <3>1. b \in Nat
      BY <1>1
    <3> HIDE DEF b
    <3>2. IsFiniteSet(1..b) /\ Cardinality(1..b) = IF 1 > b THEN 0 ELSE b - 1 + 1
      BY <3>1, FS_Interval
    <3>3. Cardinality(1..b) = b
      BY <3>1, <3>2
    <3> QED
      BY <3>2, <3>3 DEF b
  <2>2. Kept \in SUBSET (1..Len(cache))
    BY <1>1 DEF Kept
  <2>3. IsFiniteSet(Kept) /\ Cardinality(Kept) <= Cardinality(1..Len(cache))
    BY <2>1, <2>2, FS_Subset
  <2> QED
    BY <2>1, <2>3, FS_CardinalityType
<1>3. ASSUME NEW n \in Kept
      PROVE  /\ RecordAt(n) \in Places(cache[n]) /\ RecordAt(n).file \in DOMAIN fileNo
             /\ RecordAt(n).off \in Nat /\ RecordAt(n).size \in Nat \ {0}
  <2>1. n \in DOMAIN cache /\ PackageOK(cache[n]) /\ PlacesOK(cache[n])
    BY <1>3 DEF Kept, CacheOK, PlacesKnown
  <2>2. RecordAt(n) \in Places(cache[n])
    BY <1>3, <2>1, RecordIsChosen DEF Kept, RecordAt
  <2> QED
    BY <2>1, <2>2 DEF PlacesOK
<1>4. ASSUME NEW n \in Kept PROVE ~localityCompare(RecordAt(n), RecordAt(n))
  BY <1>3, <1>4 DEF localityCompare
<1>5. ASSUME NEW l \in Kept, NEW m \in Kept, NEW n \in Kept,
             localityCompare(RecordAt(l), RecordAt(m)), localityCompare(RecordAt(m), RecordAt(n))
      PROVE  localityCompare(RecordAt(l), RecordAt(n))
  <2>1. \A x \in {RecordAt(l), RecordAt(m), RecordAt(n)} : x.file \in DOMAIN fileNo /\ x.off \in Nat
    BY <1>3, <1>5
  <2> QED
    BY <1>5, <2>1, LocalityTransitive
<1>6. ASSUME NEW m \in Kept, NEW n \in Kept, m # n
      PROVE  RecordAt(m).file = RecordAt(n).file =>
               \/ RecordAt(m).off + RecordAt(m).size <= RecordAt(n).off
               \/ RecordAt(n).off + RecordAt(n).size <= RecordAt(m).off
  <2>1. m \in DOMAIN cache /\ n \in DOMAIN cache
    BY <1>6 DEF Kept
  <2>2. Apart(cache[m], cache[n])
    BY <1>6, <2>1 DEF PlacesKnown
  <2>3. RecordAt(m) \in Places(cache[m]) /\ RecordAt(n) \in Places(cache[n])
    BY <1>3, <1>6
  <2> QED
    BY <2>2, <2>3 DEF Apart
<1>7. ASSUME NEW m \in Kept, NEW n \in Kept, m # n
      PROVE  /\ localityCompare(RecordAt(m), RecordAt(n)) \/ localityCompare(RecordAt(n), RecordAt(m))
             /\ localityCompare(RecordAt(m), RecordAt(n)) =>
                  /\ fileNo[RecordAt(m).file] <= fileNo[RecordAt(n).file]
                  /\ RecordAt(m).file = RecordAt(n).file =>
                       RecordAt(m).off + RecordAt(m).size <= RecordAt(n).off
             /\ ~(localityCompare(RecordAt(m), RecordAt(n)) /\ localityCompare(RecordAt(n), RecordAt(m)))
  BY <1>3, <1>6, <1>7, LocalityOrders
<1> QED
  BY <1>2, <1>4, <1>5, <1>7

LEMMA ListIsInOrder ==
  ASSUME CacheOK, PlacesKnown
  PROVE  /\ recordList(cache) = [k \in 1..Cardinality(Kept) |->
                                   RecordAt(CHOOSE n \in Kept : InList(n) = k)]
         /\ \A n \in Kept : InList(n) \in 1..Cardinality(Kept)
         /\ \A m, n \in Kept :
              localityCompare(RecordAt(m), RecordAt(n)) => InList(m) < InList(n)
         /\ \A k \in 1..Cardinality(Kept) : \E n \in Kept : InList(n) = k
<1> DEFINE before(m, n) == \/ localityCompare(recordOf(cache[m]), recordOf(cache[n]))
                           \/ ~localityCompare(recordOf(cache[n]), recordOf(cache[m])) /\ m < n
<1>1. ASSUME NEW m \in Kept, NEW n \in Kept
      PROVE  before(m, n) <=> localityCompare(RecordAt(m), RecordAt(n))
  <2>1. m \in Int /\ n \in Int
    BY DEF Kept, CacheOK
  <2>2. CASE m = n
    <3>1. ~(m < n)
      BY <2>1, <2>2
    <3> QED
      BY <3>1 DEF RecordAt
  <2>3. CASE m # n
    <3>1. localityCompare(RecordAt(m), RecordAt(n)) \/ localityCompare(RecordAt(n), RecordAt(m))
      BY <1>1, <2>3, KeptRecords
    <3> QED
      BY <3>1, Zenon DEF RecordAt
  <2> QED
    BY <2>2, <2>3
<1>2. ASSUME NEW m \in Kept, NEW n \in Kept
      PROVE  <<m, n>> \in ListOrder <=> localityCompare(RecordAt(m), RecordAt(n))
  BY <1>2 DEF ListOrder
<1>3. ASSUME NEW n \in Kept PROVE Cardinality({m \in Kept : before(m, n)}) + 1 = InList(n)
  <2>1. {m \in Kept : before(m, n)} = Earlier(Kept, ListOrder, n)
    <3> HIDE DEF before
    <3> QED
      BY <1>1, <1>2, <1>3 DEF Earlier
  <2> HIDE DEF before
  <2> QED
    BY <2>1 DEF InList, Standing
<1> DEFINE place(n) == Cardinality({m \in Kept : before(m, n)}) + 1
<1>4. recordList(cache) = [k \in 1..Cardinality(Kept) |-> RecordAt(CHOOSE n \in Kept : place(n) = k)]
  BY DEF recordList, Kept, RecordAt
<1>5. \A k : (CHOOSE n \in Kept : place(n) = k) = (CHOOSE n \in Kept : InList(n) = k)
  <2>1. \A n \in Kept : place(n) = InList(n)
    BY <1>3
  <2> HIDE DEF place
  <2>2. \A k : \A n : n \in Kept /\ place(n) = k <=> n \in Kept /\ InList(n) = k
    BY <2>1
  <2> QED
    BY <2>2
<1>6. recordList(cache) = [k \in 1..Cardinality(Kept) |-> RecordAt(CHOOSE n \in Kept : InList(n) = k)]
  <2> HIDE DEF place
  <2> QED
    BY <1>4, <1>5
<1> HIDE DEF before, place
<1>7. /\ \A m \in Kept : <<m, m>> \notin ListOrder
      /\ \A m, n \in Kept : m # n => <<m, n>> \in ListOrder \/ <<n, m>> \in ListOrder
      /\ \A l, m, n \in Kept :
           <<l, m>> \in ListOrder /\ <<m, n>> \in ListOrder => <<l, n>> \in ListOrder
  BY <1>2, KeptRecords
<1>8. /\ \A n \in Kept : InList(n) \in 1..Cardinality(Kept)
      /\ \A m, n \in Kept : <<m, n>> \in ListOrder => InList(m) < InList(n)
      /\ \A k \in 1..Cardinality(Kept) : \E n \in Kept : InList(n) = k
  BY <1>7, KeptRecords, PlacesAreTaken DEF InList
<1> QED
  BY <1>2, <1>6, <1>8

(* A package that is in the cache, and the version it shows. *)
LEMMA PackageOfName ==
  ASSUME CacheOK, PlacesKnown, NEW n \in DOMAIN cache
  PROVE  LET pkg == cache[n].name
         IN  /\ isValid(pkg) /\ Pkg(pkg) = cache[n]
             /\ anyVersion(pkg) = Nth(pkg, Shown(cache[n]))
             /\ validVersion(anyVersion(pkg)) <=> Shown(cache[n]) # 0
<1> DEFINE pkg == cache[n].name
<1>1. Found(pkg) = {n}
  BY DEF Found, PlacesKnown
<1>2. isValid(pkg)
  BY <1>1 DEF isValid
<1>3. n \in Nat
  BY DEF CacheOK
<1>4. Min({n}) = n
  BY <1>3, MinFacts
<1>5. Pkg(pkg) = cache[n]
  BY <1>1, <1>4 DEF Pkg
<1>6. Candidate(pkg) = cache[n].candidate /\ Current(pkg) = cache[n].current
  BY <1>2, <1>5 DEF Candidate, Current
<1>7. anyVersion(pkg) = Nth(pkg, Shown(cache[n])) /\ Shown(cache[n]) \in {Candidate(pkg), Current(pkg)}
  BY <1>6 DEF anyVersion, Shown
<1>8. validVersion(anyVersion(pkg)) <=> Shown(cache[n]) # 0
  BY <1>7, NthValid
<1> QED
  BY <1>2, <1>5, <1>7, <1>8

LEMMA KeptIsListed ==
  ASSUME CacheOK, PlacesKnown, NEW n \in DOMAIN cache
  PROVE  Listed(cache[n].name) <=> n \in Kept
<1> DEFINE p == cache[n]
           pkg == p.name
<1>1. PackageOK(p) /\ PlacesOK(p)
  BY DEF CacheOK, PlacesKnown
<1>2. n \in Kept <=> Shown(p) # 0 /\ InArchive(p)
  BY <1>1, RecordIsChosen DEF Kept
<1>3. Pkg(pkg) = p /\ (validVersion(anyVersion(pkg)) <=> Shown(p) # 0)
  BY PackageOfName
<1>4. InArchive(p) <=>
        \E m \in DOMAIN p.versions, f \in DOMAIN fileNo \ NotSource :
          \E k \in DOMAIN p.versions[m].files : p.versions[m].files[k].file = f
  <2>1. ASSUME NEW m \in DOMAIN p.versions, NEW k \in DOMAIN p.versions[m].files
        PROVE  p.versions[m].files[k].file \in DOMAIN fileNo
    <3>1. p.versions[m].files[k] \in ToSet(p.versions[m].files)
      BY <2>1 DEF ToSet
    <3>2. p.versions[m].files[k] \in Places(p)
      BY <2>1, <3>1 DEF Places
    <3> QED
      BY <1>1, <3>2 DEF PlacesOK
  <2> QED
    BY <2>1 DEF InArchive, Sources
<1> QED
  BY <1>2, <1>3, <1>4 DEF Listed

LEMMA ListedRecord ==
  ASSUME CacheOK, PlacesKnown, NEW n \in Kept, ~Ambiguous(cache[n].name)
  PROVE  RecordAt(n) = rawRecord(anyVersion(cache[n].name))
<1> DEFINE p == cache[n]
           pkg == p.name
           vi == Shown(p)
           v == p.versions[vi]
<1>1. n \in DOMAIN cache /\ PackageOK(p) /\ PlacesOK(p) /\ recordOf(p) # NoFile
  BY DEF Kept, CacheOK, PlacesKnown
<1>2. vi \in DOMAIN p.versions /\ RecordAt(n) = Chosen(v)
  BY <1>1, RecordIsChosen DEF RecordAt
<1>3. isValid(pkg) /\ Pkg(pkg) = p /\ anyVersion(pkg) = Nth(pkg, vi)
  BY <1>1, PackageOfName
<1>4. DOMAIN p.versions = 1..Len(p.versions) /\ Len(p.versions) \in Nat
  BY <1>1 DEF PackageOK
<1>5. vi # 0 /\ vi \in Nat
  BY <1>2, <1>4
<1>6. anyVersion(pkg) = Version(pkg, v.ver)
  BY <1>3, <1>5 DEF Nth
<1>7. Same(anyVersion(pkg)) = {m \in DOMAIN p.versions : p.versions[m].ver = v.ver}
  BY <1>3, <1>6 DEF Same, Version
<1>8. \A m \in DOMAIN p.versions : p.versions[m].ver = v.ver => m = vi
  BY <1>2, <1>3 DEF Ambiguous
<1>9. Same(anyVersion(pkg)) = {vi}
  BY <1>2, <1>7, <1>8
<1>10. Min({vi}) = vi
  BY <1>5, MinFacts
<1>11. anyVersion(pkg).name = pkg
  BY <1>6 DEF Version
<1>12. rawRecord(anyVersion(pkg)) = Chosen(v)
  BY <1>3, <1>9, <1>10, <1>11 DEF rawRecord, Chosen
<1> QED
  BY <1>2, <1>12

(* The list of records made from a cache of one architecture (apt.cc:182)  *)
(* has the record of each package that is to be shown and of no other, in  *)
(* the order in which the files are read, and agrees with rawRecord.       *)
THEOREM RecordListIsSound == CacheSpec => []RecordListSound
<1>1. ASSUME CacheOK, PlacesKnown PROVE RecordListSound
  <2> DEFINE list == recordList(cache)
             N == Cardinality(Kept)
             at(k) == CHOOSE n \in Kept : InList(n) = k
             own(pkg) == {k \in DOMAIN list :
                            \E n \in DOMAIN Pkg(pkg).versions :
                              list[k] \in ToSet(Pkg(pkg).versions[n].files)}
  <2>1. list = [k \in 1..N |-> RecordAt(at(k))]
    BY <1>1, ListIsInOrder
  <2>2. N \in Nat /\ N <= Len(cache)
    BY <1>1, KeptRecords
  <2>3. \A k \in 1..N : at(k) \in Kept /\ InList(at(k)) = k
    BY <1>1, ListIsInOrder
  <2>4. \A n \in Kept : InList(n) \in 1..N
    BY <1>1, ListIsInOrder
  <2>5. \A m, n \in Kept : InList(m) = InList(n) => m = n
    <3> SUFFICES ASSUME NEW m \in Kept, NEW n \in Kept, InList(m) = InList(n), m # n PROVE FALSE
      OBVIOUS
    <3>1. localityCompare(RecordAt(m), RecordAt(n)) \/ localityCompare(RecordAt(n), RecordAt(m))
      BY <1>1, KeptRecords
    <3>2. InList(m) < InList(n) \/ InList(n) < InList(m)
      BY <1>1, <3>1, ListIsInOrder
    <3> QED
      BY <2>2, <2>4, <3>2
  <2> HIDE DEF at
  <2>6. DOMAIN list = 1..N /\ Len(list) = N /\ \A k \in 1..N : list[k] = RecordAt(at(k))
    <3> HIDE DEF N, list
    <3> QED
      BY <2>1, <2>2
  <2>7. \A n \in Kept : at(InList(n)) = n
    BY <2>3, <2>4, <2>5
  <2> HIDE DEF list, N
  <2>8. ASSUME NEW j \in DOMAIN list, NEW k \in DOMAIN list, j < k
        PROVE  /\ fileNo[list[j].file] <= fileNo[list[k].file]
               /\ list[j].file = list[k].file => list[j].off + list[j].size <= list[k].off
    <3> DEFINE m == at(j)
               n == at(k)
    <3>1. m \in Kept /\ n \in Kept /\ InList(m) = j /\ InList(n) = k
      BY <2>3, <2>6, <2>8
    <3>2. list[j] = RecordAt(m) /\ list[k] = RecordAt(n)
      BY <2>6, <2>8
    <3> HIDE DEF m, n
    <3>3. m # n /\ ~(k < j)
      BY <2>2, <2>6, <2>8, <3>1
    <3>4. ~localityCompare(RecordAt(n), RecordAt(m))
      BY <1>1, <3>1, <3>3, ListIsInOrder
    <3>5. localityCompare(RecordAt(m), RecordAt(n))
      BY <1>1, <3>1, <3>3, <3>4, KeptRecords
    <3>6. /\ fileNo[RecordAt(m).file] <= fileNo[RecordAt(n).file]
          /\ RecordAt(m).file = RecordAt(n).file =>
               RecordAt(m).off + RecordAt(m).size <= RecordAt(n).off
      BY <1>1, <3>1, <3>3, <3>5, KeptRecords
    <3> QED
      BY <3>2, <3>6
  <2>9. ASSUME NEW n \in DOMAIN cache
        PROVE  LET pkg == cache[n].name
               IN  /\ Cardinality(own(pkg)) = IF Listed(pkg) THEN 1 ELSE 0
                   /\ ~Ambiguous(pkg) =>
                        \A k \in own(pkg) : list[k] = rawRecord(anyVersion(pkg))
    <3> DEFINE pkg == cache[n].name
    <3>1. Pkg(pkg) = cache[n]
      BY <1>1, <2>9, PackageOfName
    <3>2. ASSUME NEW m \in Kept
          PROVE  (\E i \in DOMAIN cache[n].versions :
                     RecordAt(m) \in ToSet(cache[n].versions[i].files)) <=> m = n
      <4>1. m \in DOMAIN cache /\ PackageOK(cache[m]) /\ PlacesOK(cache[m])
        BY <1>1, <3>2 DEF Kept, CacheOK, PlacesKnown
      <4>2. /\ Shown(cache[m]) \in DOMAIN cache[m].versions
            /\ RecordAt(m) \in ToSet(cache[m].versions[Shown(cache[m])].files)
            /\ RecordAt(m) \in Places(cache[m])
        BY <3>2, <4>1, RecordIsChosen DEF Kept, RecordAt
      <4>3. RecordAt(m).off \in Nat /\ RecordAt(m).size \in Nat \ {0}
        BY <4>1, <4>2 DEF PlacesOK
      <4>4. m # n => RecordAt(m) \notin Places(cache[n])
        <5> SUFFICES ASSUME m # n, RecordAt(m) \in Places(cache[n]) PROVE FALSE
          OBVIOUS
        <5>1. Apart(cache[m], cache[n])
          BY <1>1, <2>9, <4>1 DEF PlacesKnown
        <5>2. RecordAt(m).off + RecordAt(m).size <= RecordAt(m).off
          BY <4>2, <5>1 DEF Apart
        <5> QED
          BY <4>3, <5>2
      <4>5. (\E i \in DOMAIN cache[n].versions :
               RecordAt(m) \in ToSet(cache[n].versions[i].files))
              <=> RecordAt(m) \in Places(cache[n])
        BY DEF Places
      <4> QED
        BY <4>2, <4>4, <4>5
    <3>3. own(pkg) = {k \in 1..N : at(k) = n}
      BY <2>3, <2>6, <3>1, <3>2
    <3> HIDE DEF own
    <3>4. CASE n \in Kept
      <4>1. own(pkg) = {InList(n)}
        BY <2>3, <2>4, <2>7, <3>3, <3>4
      <4>2. Cardinality({InList(n)}) = 1
        BY FS_Singleton
      <4>3. Listed(pkg)
        BY <1>1, <2>9, <3>4, KeptIsListed
      <4>4. list[InList(n)] = RecordAt(n)
        BY <2>4, <2>6, <2>7, <3>4
      <4>5. ~Ambiguous(pkg) => RecordAt(n) = rawRecord(anyVersion(pkg))
        BY <1>1, <3>4, ListedRecord
      <4> QED
        BY <4>1, <4>2, <4>3, <4>4, <4>5
    <3>5. CASE n \notin Kept
      <4>1. own(pkg) = {}
        BY <2>3, <3>3, <3>5
      <4>2. ~Listed(pkg)
        BY <1>1, <2>9, <3>5, KeptIsListed
      <4> QED
        BY <4>1, <4>2, FS_EmptySet
    <3> QED
      BY <3>4, <3>5
  <2>10. \A pkg \in PkgNames :
           /\ Cardinality(own(pkg)) = IF Listed(pkg) THEN 1 ELSE 0
           /\ ~Ambiguous(pkg) => \A k \in own(pkg) : list[k] = rawRecord(anyVersion(pkg))
    <3> HIDE DEF own
    <3> QED
      BY <2>9 DEF PkgNames
  <2>11. Len(list) <= Len(cache)
    BY <2>2, <2>6
  <2> QED
    BY <2>8, <2>10, <2>11 DEF RecordListSound, list
<1> QED
  BY <1>1, CacheInv, PlacesInv, PTL
=============================================================================

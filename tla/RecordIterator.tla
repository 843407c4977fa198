--------------------------- MODULE RecordIterator ---------------------------
(***************************************************************************)
(* Apt::RecordIterator: handles that share a reference-counted             *)
(* RecordIteratorImpl, each with a position and the text of the record it  *)
(* read last.  The text is given by the index of its record.  A handle     *)
(* that passes the last record gives its implementation back and becomes   *)
(* an end iterator.  RecordIteratorImpl refers to the AptImplementation it *)
(* was made from, which checkCacheUpdates replaces.                        *)
(*                                                                         *)
(* Reading a record may throw; how it reads is module RecordReader.        *)
(***************************************************************************)
EXTENDS Integers, FiniteSets

CONSTANTS Handles,    \* variables of type RecordIterator
          Impls,      \* addresses of RecordIteratorImpl objects
          Null,       \* the null pointer
          MaxSize,    \* bound on the number of records of a cache
          MaxGen      \* bound on how often the cache is reopened

ASSUME NullAssumption == Null \notin Impls
ASSUME HandlesAssumption == IsFiniteSet(Handles)
ASSUME BoundsAssumption == MaxSize \in Nat /\ MaxGen \in Nat

VARIABLES
  gen,        \* which AptImplementation the provider holds
  recs,       \* how many records it has
  heap,       \* the RecordIteratorImpl objects
  it,         \* the handles
  misused,    \* history: an end or an invalidated iterator has been used
  undef       \* freed, null or out-of-range memory has been used

vars == <<gen, recs, heap, it, misused, undef>>

NoText == -1           \* the empty string: no record

noImpl == [st |-> "free", ref |-> 0, size |-> 0, gen |-> 0, leaked |-> FALSE]
endIterator == [impl |-> Null, pos |-> 0, cur |-> NoText, curPos |-> 0]
noHandle == [endIterator EXCEPT !.pos = NoText]    \* a variable out of scope

Alive(h) == it[h] # noHandle
Live(m) == heap[m].st = "live"
Holders(m) == {h \in Handles : Alive(h) /\ it[h].impl = m}

Init ==
  /\ gen = 0
  /\ recs \in 0..MaxSize
  /\ heap = [m \in Impls |-> noImpl]
  /\ it = [h \in Handles |-> noHandle]
  /\ misused = FALSE
  /\ undef = FALSE

(* Nothing is claimed of what follows. *)
Undefined(misuse) ==
  /\ undef' = TRUE
  /\ misused' = (misused \/ misuse)
  /\ UNCHANGED <<gen, recs, heap, it>>

Change(newHeap, newIt) ==
  /\ heap' = newHeap
  /\ it' = newIt
  /\ UNCHANGED <<gen, recs, misused, undef>>

(* ref() and unref(); the last unref deletes.  On a null pointer the       *)
(* callers do neither.                                                     *)
refd(hp, m) == IF m = Null THEN hp ELSE [hp EXCEPT ![m].ref = @ + 1]

unrefd(hp, m) ==
  IF m = Null THEN hp
  ELSE IF hp[m].ref = 1 THEN [hp EXCEPT ![m] = noImpl]
  ELSE [hp EXCEPT ![m].ref = @ - 1]

(* The object a handle is about to call into has been deleted. *)
Dangling(m) == m # Null /\ ~Live(m)

-----------------------------------------------------------------------------
(* recordBegin() allocates an implementation and reads record 0, without   *)
(* looking at the number of records.                                       *)
RecordBegin(h, m) ==
  /\ ~undef /\ ~Alive(h) /\ ~Live(m)
  /\ IF recs = 0 THEN Undefined(FALSE)
     ELSE Change([heap EXCEPT ![m] = [st |-> "live", ref |-> 1, size |-> recs,
                                      gen |-> gen, leaked |-> FALSE]],
                 [it EXCEPT ![h] = [impl |-> m, pos |-> 0, cur |-> 0, curPos |-> 0]])

(* record(0) throws in the constructor: no handle comes to be, and nobody  *)
(* gives the reference back.                                               *)
RecordBeginThrows(h, m) ==
  /\ ~undef /\ ~Alive(h) /\ ~Live(m) /\ recs > 0
  /\ Change([heap EXCEPT ![m] = [st |-> "live", ref |-> 1, size |-> recs,
                                 gen |-> gen, leaked |-> TRUE]], it)

RecordEnd(h) ==
  /\ ~undef /\ ~Alive(h)
  /\ Change(heap, [it EXCEPT ![h] = endIterator])

(* Mutant: the copy does not count. *)
Copy_NoRef(h, r) ==
  /\ ~undef /\ ~Alive(h) /\ Alive(r)
  /\ Change(heap, [it EXCEPT ![h] = it[r]])

(* RecordIterator h(r) *)
Copy(h, r) ==
  /\ ~undef /\ ~Alive(h) /\ Alive(r)
  /\ IF Dangling(it[r].impl) THEN Undefined(FALSE)
     ELSE Change(refd(heap, it[r].impl), [it EXCEPT ![h] = it[r]])

(* Mutant: the old reference is given up before the new one is taken. *)
Assign_UnrefFirst(h, r) ==
  /\ ~undef /\ Alive(h) /\ Alive(r)
  /\ Change(refd(unrefd(heap, it[h].impl), it[r].impl), [it EXCEPT ![h] = it[r]])

(* h = r; h and r may be the same handle. *)
Assign(h, r) ==
  /\ ~undef /\ Alive(h) /\ Alive(r)
  /\ IF Dangling(it[h].impl) \/ Dangling(it[r].impl) THEN Undefined(FALSE)
     ELSE Change(unrefd(refd(heap, it[r].impl), it[h].impl), [it EXCEPT ![h] = it[r]])

(* The handle goes out of scope. *)
Destroy(h) ==
  /\ ~undef /\ Alive(h)
  /\ IF Dangling(it[h].impl) THEN Undefined(FALSE)
     ELSE Change(unrefd(heap, it[h].impl), [it EXCEPT ![h] = noHandle])

(* Reading throws: text and position stay as they were. *)
DerefThrows(h) ==
  /\ ~undef /\ Alive(h) /\ it[h].curPos # it[h].pos
  /\ it[h].impl # Null /\ Live(it[h].impl) /\ heap[it[h].impl].gen = gen
  /\ UNCHANGED vars

(* operator* and operator->: the text is read when the position moved.     *)
Deref(h) ==
  /\ ~undef /\ Alive(h)
  /\ IF it[h].curPos = it[h].pos THEN UNCHANGED vars
     ELSE IF it[h].impl = Null THEN Undefined(TRUE)
     ELSE IF ~Live(it[h].impl) THEN Undefined(FALSE)
     ELSE IF heap[it[h].impl].gen # gen THEN Undefined(TRUE)
     ELSE Change(heap, [it EXCEPT ![h].cur = it[h].pos, ![h].curPos = it[h].pos])

(* ++h calls size() on the implementation before it tests the pointer.     *)
Increment(h) ==
  /\ ~undef /\ Alive(h)
  /\ IF it[h].impl = Null THEN Undefined(TRUE)
     ELSE IF ~Live(it[h].impl) THEN Undefined(FALSE)
     ELSE IF it[h].pos + 1 >= heap[it[h].impl].size
     THEN Change(unrefd(heap, it[h].impl), [it EXCEPT ![h].impl = Null, ![h].pos = 0])
     ELSE Change(heap, [it EXCEPT ![h].pos = @ + 1])

(* Apt::checkCacheUpdates replaces the AptImplementation. *)
Reopen ==
  /\ ~undef /\ gen < MaxGen
  /\ gen' = gen + 1
  /\ recs' \in 0..MaxSize
  /\ UNCHANGED <<heap, it, misused, undef>>

Next ==
  \/ \E h \in Handles, m \in Impls : RecordBegin(h, m) \/ RecordBeginThrows(h, m)
  \/ \E h \in Handles : RecordEnd(h) \/ Destroy(h) \/ Deref(h) \/ DerefThrows(h) \/ Increment(h)
  \/ \E h \in Handles, r \in Handles : Copy(h, r) \/ Assign(h, r)
  \/ Reopen

Spec == Init /\ [][Next]_vars

-----------------------------------------------------------------------------
(* Properties.                                                             *)

(* The reference count of an implementation is the number of handles on it *)
(* (plus the one a throwing constructor lost), and it is deleted with the  *)
(* last: nothing is freed early, and nothing leaks but for that case.      *)
RefCountExact ==
  \A m \in Impls :
    /\ Live(m) => heap[m].ref = Cardinality(Holders(m)) + (IF heap[m].leaked THEN 1 ELSE 0)
    /\ Live(m) => heap[m].ref > 0
    /\ ~Live(m) => Holders(m) = {}

(* A handle that shows a text for its position shows the text of that      *)
(* position; a handle without implementation equals recordEnd(); a handle  *)
(* with one points inside its list of records.                             *)
WellFormed ==
  \A h \in Handles : Alive(h) =>
    /\ it[h].impl = Null => it[h].pos = 0
    /\ it[h].impl # Null => it[h].pos < heap[it[h].impl].size
    /\ it[h].impl # Null /\ it[h].curPos = it[h].pos => it[h].cur = it[h].pos

(* Both, of what the handles share and of each of them, through copies,    *)
(* assignments (to itself too), increments past the end and throws.        *)
HandlesSound == RefCountExact /\ WellFormed

(* Copying, assigning and destroying handles in any order, also those that *)
(* checkCacheUpdates invalidated, never touches freed memory; only         *)
(* dereferencing or advancing an end iterator, reading through an          *)
(* invalidated one, and recordBegin on an empty cache do.                  *)
UndefinedNeedsMisuse == undef => misused \/ recs = 0
=============================================================================

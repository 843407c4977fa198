-------------------------- MODULE PackageIterator --------------------------
(***************************************************************************)
(* Apt::Iterator, which goes through the packages of the cache.  Each      *)
(* iterator that is not at the end owns a PkgIterator on the heap; copies  *)
(* are deep.  A package is told by its place in the cache and by whether   *)
(* it has versions.  PkgIterator belongs to libapt-pkg.                    *)
(***************************************************************************)
EXTENDS Integers, FiniteSets, Sequences

CONSTANTS
  PkgIters,    \* variables of type Apt::Iterator
  Cells,       \* addresses of PkgIterator objects
  NoCell,      \* the null pointer
  PkgLists,    \* the caches: for each package, whether it has versions
  MaxOpened    \* bound on how often the cache is reopened

ASSUME CellsAssumption == NoCell \notin Cells
ASSUME PkgListsAssumption == PkgLists \subseteq Seq(BOOLEAN)

VARIABLES
  pkgs,        \* the packages of the cache the provider holds
  opened,      \* how often it was reopened
  cells,       \* the PkgIterator objects: where they are, in which cache
  pit,         \* the iterators: cur, and (history) the places they were at
  wrongUse,    \* history: an end or an invalidated iterator has been used
  wild         \* freed, null or out-of-range memory has been used

pkgVars == <<pkgs, opened, cells, pit, wrongUse, wild>>

freeCell == [live |-> FALSE, at |-> 0, cache |-> 0]
outOfScope == [scope |-> FALSE, cur |-> NoCell, seen |-> {}]
iterator(p, seen) == [scope |-> TRUE, cur |-> p, seen |-> seen]

PkgInit ==
  /\ pkgs \in PkgLists /\ opened = 0
  /\ cells = [p \in Cells |-> freeCell]
  /\ pit = [h \in PkgIters |-> outOfScope]
  /\ wrongUse = FALSE /\ wild = FALSE

atEnd == Len(pkgs) + 1        \* where PkgIterator::end() is true

Wild(misuse) ==
  /\ wild' = TRUE
  /\ wrongUse' = (wrongUse \/ misuse)
  /\ UNCHANGED <<pkgs, opened, cells, pit>>

PkgChange(newCells, newPit) ==
  /\ cells' = newCells /\ pit' = newPit
  /\ UNCHANGED <<pkgs, opened, wrongUse, wild>>

(* `new' gives some address that is free. *)
Free(p) == ~cells[p].live
deleted(cs, p) == IF p = NoCell THEN cs ELSE [cs EXCEPT ![p] = freeCell]

-----------------------------------------------------------------------------
(* begin() is where PkgBegin is: it does not skip a first package without  *)
(* versions, and is not end() when there are no packages.                  *)
PkgBegin(h, p) ==
  /\ ~pit[h].scope /\ Free(p)
  /\ PkgChange([cells EXCEPT ![p] = [live |-> TRUE, at |-> 1, cache |-> opened]],
            [pit EXCEPT ![h] = iterator(p, {1})])

PkgEnd(h) ==
  /\ ~pit[h].scope
  /\ PkgChange(cells, [pit EXCEPT ![h] = iterator(NoCell, {})])

(* Iterator h(r); p is what `new' returns. *)
PkgCopy(h, r, p) ==
  /\ ~pit[h].scope /\ pit[r].scope /\ Free(p)
  /\ IF pit[r].cur = NoCell THEN PkgChange(cells, [pit EXCEPT ![h] = pit[r]])
     ELSE PkgChange([cells EXCEPT ![p] = cells[pit[r].cur]],
                 [pit EXCEPT ![h] = iterator(p, pit[r].seen)])

(* Mutant: an iterator that is assigned to itself is not recognised. *)
PkgAssign_NoGuard(h, r, p) ==
  /\ pit[h].scope /\ pit[r].scope
  /\ LET left == deleted(cells, pit[h].cur)
     IN  /\ ~left[p].live
         /\ IF pit[r].cur = NoCell THEN PkgChange(left, [pit EXCEPT ![h] = pit[r]])
            ELSE IF ~left[pit[r].cur].live THEN Wild(FALSE)
            ELSE PkgChange([left EXCEPT ![p] = left[pit[r].cur]],
                        [pit EXCEPT ![h] = iterator(p, pit[r].seen)])

(* h = r does nothing when the pointers are equal: h is r, or both are at  *)
(* the end.                                                                *)
PkgAssign(h, r, p) ==
  /\ pit[h].scope /\ pit[r].scope
  /\ LET left == deleted(cells, pit[h].cur)
     IN  IF pit[h].cur = pit[r].cur THEN UNCHANGED pkgVars
         ELSE /\ ~left[p].live
              /\ IF pit[r].cur = NoCell THEN PkgChange(left, [pit EXCEPT ![h] = pit[r]])
                 ELSE IF ~left[pit[r].cur].live THEN Wild(FALSE)
                 ELSE PkgChange([left EXCEPT ![p] = left[pit[r].cur]],
                             [pit EXCEPT ![h] = iterator(p, pit[r].seen)])

PkgDestroy(h) ==
  /\ pit[h].scope
  /\ IF pit[h].cur # NoCell /\ Free(pit[h].cur) THEN Wild(FALSE)
     ELSE PkgChange(deleted(cells, pit[h].cur), [pit EXCEPT ![h] = outOfScope])

(* What is wrong with looking through h's pointer. *)
Invalid(h) == pit[h].cur = NoCell \/ (cells[pit[h].cur].live /\ cells[pit[h].cur].cache # opened)
Broken(h) == Invalid(h) \/ Free(pit[h].cur)

(* The name of the package h is at. *)
PkgDeref(h) ==
  /\ pit[h].scope
  /\ IF Broken(h) THEN Wild(Invalid(h))
     ELSE IF cells[pit[h].cur].at = atEnd THEN Wild(FALSE)
     ELSE UNCHANGED pkgVars

(* ++h passes over the packages without versions; at the end the           *)
(* PkgIterator is deleted.                                                 *)
PkgIncrement(h) ==
  /\ pit[h].scope
  /\ IF Broken(h) THEN Wild(Invalid(h))
     ELSE IF cells[pit[h].cur].at = atEnd THEN Wild(FALSE)
     ELSE LET p == pit[h].cur
              later == {n \in (cells[p].at + 1)..Len(pkgs) : pkgs[n]}
              next == CHOOSE n \in later : \A m \in later : n <= m
          IN  IF later = {} THEN PkgChange(deleted(cells, p), [pit EXCEPT ![h].cur = NoCell])
              ELSE PkgChange([cells EXCEPT ![p].at = next], [pit EXCEPT ![h].seen = @ \cup {next}])

(* operator==, by the places the two are at. *)
equal(h, r) ==
  LET p == pit[h].cur
      q == pit[r].cur
  IN  IF p = NoCell \/ q = NoCell THEN p = q ELSE cells[p] = cells[q]

(* Apt::checkCacheUpdates replaces the cache. *)
PkgReopen ==
  /\ opened < MaxOpened /\ opened' = opened + 1
  /\ pkgs' \in PkgLists
  /\ UNCHANGED <<cells, pit, wrongUse, wild>>

PkgNext ==
  /\ ~wild
  /\ \/ \E h \in PkgIters : PkgEnd(h) \/ PkgDestroy(h) \/ PkgDeref(h) \/ PkgIncrement(h)
     \/ \E h \in PkgIters, p \in Cells : PkgBegin(h, p)
     \/ \E h, r \in PkgIters, p \in Cells : PkgCopy(h, r, p) \/ PkgAssign(h, r, p)
     \/ PkgReopen

PkgSpec == PkgInit /\ [][PkgNext]_pkgVars

-----------------------------------------------------------------------------
(* Properties.                                                             *)

Owners(p) == {h \in PkgIters : pit[h].scope /\ pit[h].cur = p}

(* The places a loop from begin() is to pass up to place n. *)
ToVisit(n) == {1} \cup {k \in 1..n : k <= Len(pkgs) /\ pkgs[k]}

(* Every PkgIterator on the heap has one owner, through copies and         *)
(* assignments (to itself, and between iterators at the end); memory is    *)
(* misused only by using an end iterator, one from before a reopen, or     *)
(* begin() of a cache without packages.  An iterator has been at each      *)
(* package with versions up to its own, and at the first package whether   *)
(* it has any or not; when it reaches the end it has been at all of them   *)
(* and equals end().                                                       *)
PackageIteratorsSound ==
  /\ \A p \in Cells : Cardinality(Owners(p)) = IF cells[p].live THEN 1 ELSE 0
  /\ wild => wrongUse \/ pkgs = <<>>
  /\ \A h \in PkgIters : pit[h].scope =>
       LET p == pit[h].cur
       IN  IF p # NoCell
           THEN cells[p].cache = opened => pit[h].seen = ToVisit(cells[p].at)
           ELSE /\ opened = 0 => pit[h].seen \in {{}, ToVisit(Len(pkgs))}
                /\ \A r \in PkgIters : pit[r].scope => (equal(h, r) <=> pit[r].cur = NoCell)
=============================================================================

------------------------------- MODULE SetOps -------------------------------
(***************************************************************************)
(* The operators on std::set of coll/operators.h and coll/set.h that walk  *)
(* two sets in order at once.  An iterator is the set of the elements it   *)
(* has not passed yet; the element it is on is the least of them.  A       *)
(* behaviour is one call, on any two sets; each round of a loop is a step. *)
(***************************************************************************)
EXTENDS Integers, FiniteSets, FiniteSetsExt

CONSTANT Elems       \* elements of the sets, numbers
ASSUME ElemsAssumption == Elems \subseteq Nat

VARIABLES
  op,                \* the operator called, or "none"
  operands,          \* the two sets it was called on, a and b
  target,            \* the set a, which |=, &= and -= change
  ia, ib,            \* the iterators into a and b
  res, intCount,     \* the counters of set_distance
  answer             \* NoAnswer, or a tuple of what the call returned

setsVars == <<op, operands, target, ia, ib, res, intCount, answer>>

Operators == {"unite", "intersect", "subtract", "included", "distance"}
NoAnswer == <<>>

on(i) == Min(i)               \* *i; i is not end()
next(i) == i \ {on(i)}        \* ++i

-----------------------------------------------------------------------------
SetsInit ==
  /\ op = "none" /\ operands = <<{}, {}>> /\ target = {} /\ ia = {} /\ ib = {}
  /\ res = 0 /\ intCount = 0 /\ answer = NoAnswer

(* |= assigns b to an empty a, and &= clears a if b is empty: no loop. *)
Shortcut(f, a, b) == (f = "unite" /\ a = {}) \/ (f = "intersect" /\ b = {})

SetsCall(f, a, b) ==
  /\ op = "none" /\ op' = f /\ operands' = <<a, b>>
  /\ ia' = a /\ ib' = b /\ res' = 0 /\ intCount' = 0
  /\ target' = IF Shortcut(f, a, b) THEN b ELSE a
  /\ answer' = IF Shortcut(f, a, b) THEN <<b>> ELSE NoAnswer

Running(f) == op = f /\ answer = NoAnswer

Return(v) == answer' = <<v>> /\ UNCHANGED <<op, operands, target, ia, ib, res, intCount>>

Advance(i, j) == ia' = i /\ ib' = j /\ UNCHANGED <<op, operands, answer>>

-----------------------------------------------------------------------------
(* a |= b *)
unite ==
  /\ Running("unite")
  /\ \/ ib = {} /\ Return(target)
     \/ /\ ib # {} /\ Advance(ia, next(ib))
        /\ target' = target \cup {on(ib)} /\ UNCHANGED <<res, intCount>>

(* a &= b: an element of a goes when b has passed it, or has ended. *)
intersect ==
  /\ Running("intersect")
  /\ \/ ia = {} /\ Return(target)
     \/ /\ ia # {} /\ UNCHANGED <<res, intCount>>
        /\ \/ ib # {} /\ on(ib) < on(ia) /\ Advance(ia, next(ib)) /\ UNCHANGED target
           \/ /\ ib # {} => on(ia) < on(ib)
              /\ Advance(next(ia), ib) /\ target' = target \ {on(ia)}
           \/ ib # {} /\ on(ia) = on(ib) /\ Advance(next(ia), next(ib)) /\ UNCHANGED target

(* a -= b *)
subtract ==
  /\ Running("subtract")
  /\ \/ (ia = {} \/ ib = {}) /\ Return(target)
     \/ /\ ia # {} /\ ib # {} /\ UNCHANGED <<res, intCount>>
        /\ \/ on(ia) = on(ib) /\ Advance(next(ia), next(ib)) /\ target' = target \ {on(ia)}
           \/ on(ia) < on(ib) /\ Advance(next(ia), ib) /\ UNCHANGED target
           \/ on(ib) < on(ia) /\ Advance(ia, next(ib)) /\ UNCHANGED target

(* Mutant: the end of b ends the loop, whatever is left of a. *)
included_AnyLeft ==
  /\ Running("included")
  /\ \/ (ia = {} \/ ib = {}) /\ Return(TRUE)
     \/ ia # {} /\ ib # {} /\ on(ia) < on(ib) /\ Return(FALSE)
     \/ /\ ia # {} /\ ib # {} /\ UNCHANGED <<target, res, intCount>>
        /\ \/ on(ia) = on(ib) /\ Advance(next(ia), next(ib))
           \/ on(ib) < on(ia) /\ Advance(ia, next(ib))

(* a <= b, and set_contains(b, a), which is the same loop. *)
included ==
  /\ Running("included")
  /\ \/ (ia = {} \/ ib = {}) /\ Return(ia = {})
     \/ ia # {} /\ ib # {} /\ on(ia) < on(ib) /\ Return(FALSE)
     \/ /\ ia # {} /\ ib # {} /\ UNCHANGED <<target, res, intCount>>
        /\ \/ on(ia) = on(ib) /\ Advance(next(ia), next(ib))
           \/ on(ib) < on(ia) /\ Advance(ia, next(ib))

(* set_distance(a, b): the elements in one of them only, -1 if they have   *)
(* none in common.                                                         *)
distance ==
  /\ Running("distance")
  /\ \/ ia = {} /\ ib = {} /\ Return(IF intCount # 0 THEN res ELSE -1)
     \/ /\ ia # {} /\ (ib # {} => on(ia) < on(ib))
        /\ Advance(next(ia), ib) /\ res' = res + 1 /\ UNCHANGED <<target, intCount>>
     \/ /\ ib # {} /\ (ia # {} => on(ib) < on(ia))
        /\ Advance(ia, next(ib)) /\ res' = res + 1 /\ UNCHANGED <<target, intCount>>
     \/ /\ ia # {} /\ ib # {} /\ on(ia) = on(ib)
        /\ Advance(next(ia), next(ib)) /\ intCount' = intCount + 1 /\ UNCHANGED <<target, res>>

SetsNext ==
  \/ \E f \in Operators, a, b \in {s \in SUBSET Elems : IsFiniteSet(s)} : SetsCall(f, a, b)
  \/ unite \/ intersect \/ subtract \/ included \/ distance

SetsSpec == SetsInit /\ [][SetsNext]_setsVars

-----------------------------------------------------------------------------
(* The loops over two sets in step of operators.h and set.h compute union, *)
(* intersection, difference, inclusion and distance, however the elements  *)
(* of the two sets interleave and whichever of them ends first.            *)
MergesAgree ==
  answer # NoAnswer =>
    LET a == operands[1]
        b == operands[2]
    IN  /\ op = "unite" => answer = <<a \cup b>>
        /\ op = "intersect" => answer = <<a \cap b>>
        /\ op = "subtract" => answer = <<a \ b>>
        /\ op = "included" => answer = <<a \subseteq b>>
        /\ op = "distance" =>
             answer = <<IF a \cap b = {} THEN -1 ELSE Cardinality((a \ b) \cup (b \ a))>>
=============================================================================

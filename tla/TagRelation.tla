---------------------------- MODULE TagRelation ----------------------------
(***************************************************************************)
(* What a collection of tagged items promises: a binary relation between   *)
(* items and tags, and the set of the tags the collection knows about.     *)
(* Nothing here says how the relation is stored; coll::Fast stores it      *)
(* twice, once per direction, and module Fast shows that the two copies    *)
(* together behave as this one relation.                                   *)
(***************************************************************************)
EXTENDS Integers, FiniteSets

CONSTANTS Items,    \* the items (package names) a collection may hold
          Tags,     \* the tags items may carry
          Cards     \* the bounds a collection may be pruned by

VARIABLES rel,      \* the pairs <<item, tag>> of the collection
          known     \* the tags the collection lists

vars == <<rel, known>>

(* The items that carry tag t. *)
Carriers(t) == {i \in Items : <<i, t>> \in rel}

Init == rel = {} /\ known = {}

(* Every item of I gets every tag of T. *)
Add(I, T) ==
  /\ rel' = rel \cup (I \X T)
  /\ known' = known \cup T

(* A tag becomes known although no item carries it. *)
Announce(t) ==
  /\ known' = known \cup {t}
  /\ UNCHANGED rel

(* The tags of D are forgotten, with all the pairs they occur in. *)
Forget(D) ==
  /\ rel' = {p \in rel : p[2] \notin D}
  /\ known' = known \ D

(* Every tag fewer than n items carry is forgotten. *)
Prune(n) == Forget({t \in known : Cardinality(Carriers(t)) < n})

(* The collection is narrowed to the items that carry t, without t. *)
Narrow(t) ==
  /\ Carriers(t) # {}
  /\ rel' = {p \in rel : <<p[1], t>> \in rel /\ p[2] # t}
  /\ known' = {u \in Tags : \E i \in Items : <<i, u>> \in rel'}

Clear == rel' = {} /\ known' = {}

Next ==
  \/ \E I \in SUBSET Items, T \in SUBSET Tags : I # {} /\ Add(I, T)
  \/ \E t \in Tags : Announce(t)
  \/ \E t \in known : Forget({t})
  \/ \E n \in Cards : Prune(n)
  \/ \E t \in Tags : Narrow(t)
  \/ Clear

Spec == Init /\ [][Next]_vars
=============================================================================

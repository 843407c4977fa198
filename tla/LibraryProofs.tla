--------------------------- MODULE LibraryProofs ----------------------------
(***************************************************************************)
(* Proofs about the parts of module MCLibrary that hold data in memory:    *)
(* coll::Fast, for every set of items, of tags and of pruning bounds, the  *)
(* loops over two sorted sets, of SetOps, and the functions on strings, of *)
(* Text and of Split.                                                      *)
(*                                                                         *)
(* The inductive invariant of coll::Fast is TypeOK /\ Consistent: neither  *)
(* half is kept by the operations without the other, because each          *)
(* operation finds the entries of one map to update through the other.     *)
(***************************************************************************)
EXTENDS Fast, SetOps, Split, Text, FiniteSetTheorems, WellFoundedInduction, TLAPS

Inv == TypeOK /\ Consistent

(* A pair of maps as Inv describes it, for collections that are not (yet)  *)
(* the current one.                                                        *)
Good(c) ==
  /\ DOMAIN c.items \subseteq Items
  /\ DOMAIN c.tags \subseteq Tags
  /\ c.items = [i \in DOMAIN c.items |-> c.items[i]]
  /\ c.tags = [t \in DOMAIN c.tags |-> c.tags[t]]
  /\ \A i \in DOMAIN c.items : c.items[i] # {} /\ c.items[i] \subseteq Tags
  /\ \A t \in DOMAIN c.tags : c.tags[t] \subseteq Items
  /\ \A i \in DOMAIN c.items : \A t \in c.items[i] : t \in DOMAIN c.tags /\ i \in c.tags[t]
  /\ \A t \in DOMAIN c.tags : \A i \in c.tags[t] : i \in DOMAIN c.items /\ t \in c.items[i]

LEMMA InvIsGood == Inv <=> Good(coll) /\ undef \in BOOLEAN
BY DEF Inv, TypeOK, Consistent, Good, coll

LEMMA EmptyGood == Good(emptyColl)
BY DEF Good, emptyColl, emptyMap

(* Adding the pairs I \X T to both maps keeps them converses; a tag may be *)
(* added without items, an item never without tags.                        *)
LEMMA AddGood ==
  ASSUME NEW c, Good(c), NEW I \in SUBSET Items, NEW T \in SUBSET Tags, T # {}
  PROVE  Good([items |-> AddTo(c.items, I, T), tags |-> AddTo(c.tags, T, I)])
BY DEF Good, AddTo

LEMMA RemoveTagsGood ==
  ASSUME NEW c, Good(c), NEW D \in SUBSET DOMAIN c.tags
  PROVE  Good(removeTags(c, D))
BY DEF Good, removeTags

(* Removing one tag is pruning that tag alone. *)
LEMMA RemoveTagIsRemoveTags ==
  ASSUME NEW c, Good(c), NEW tag \in DOMAIN c.tags
  PROVE  removeTag(c, tag) = removeTags(c, {tag})
<1> DEFINE gone(i) == {t \in {tag} : i \in c.tags[t]}
           left(i) == IF i \in c.tags[tag] THEN c.items[i] \ {tag} ELSE c.items[i]
<1>1. \A i \in DOMAIN c.items : c.items[i] \ gone(i) = left(i)
  OBVIOUS
<1>2. \A i \in DOMAIN c.items : gone(i) # {} <=> i \in c.tags[tag]
  OBVIOUS
<1> HIDE DEF gone, left
<1>3. {j \in DOMAIN c.items : gone(j) # {} => c.items[j] \ gone(j) # {}}
        = {j \in DOMAIN c.items : j \in c.tags[tag] => left(j) # {}}
  BY <1>1, <1>2
<1>4. [i \in {j \in DOMAIN c.items : gone(j) # {} => c.items[j] \ gone(j) # {}} |->
         c.items[i] \ gone(i)]
        = [i \in {j \in DOMAIN c.items : j \in c.tags[tag] => left(j) # {}} |-> left(i)]
  BY <1>1, <1>3
<1> QED
  BY <1>4 DEF removeTags, removeTag, gone, left

LEMMA ChildWithTagGood ==
  ASSUME NEW c, Good(c), NEW tag \in DOMAIN c.tags
  PROVE  Good(childWithTag(c, tag))
BY DEF Good, childWithTag

(* Every operation that is defined turns a good collection into a good one. *)
LEMMA RemoveTagGood ==
  ASSUME NEW c, Good(c), NEW tag \in DOMAIN c.tags
  PROVE  Good(removeTag(c, tag))
<1>1. {tag} \in SUBSET DOMAIN c.tags
  OBVIOUS
<1>2. Good(removeTags(c, {tag}))
  BY <1>1, RemoveTagsGood
<1>3. removeTag(c, tag) = removeTags(c, {tag})
  BY RemoveTagIsRemoveTags
<1> QED
  BY <1>2, <1>3, Zenon

LEMMA ChildGood ==
  ASSUME NEW c, Good(c), NEW tag, childDefined(c, tag)
  PROVE  Good(getChildCollection(c, tag))
<1>1. tag \in DOMAIN c.tags /\ tag \in DOMAIN childWithTag(c, tag).tags
  BY DEF childDefined, removeTagDefined
<1> QED
  BY <1>1, ChildWithTagGood, RemoveTagGood DEF getChildCollection

LEMMA InsertItemGood ==
  ASSUME NEW c, Good(c), NEW item \in Items, NEW T \in SUBSET Tags
  PROVE  Good(insertItem(c, item, T))
BY AddGood DEF insertItem

LEMMA InsertItemsTagGood ==
  ASSUME NEW c, Good(c), NEW I \in SUBSET Items, NEW tag \in Tags
  PROVE  Good(insertItemsTag(c, I, tag))
BY AddGood DEF insertItemsTag

LEMMA InsertItemsGood ==
  ASSUME NEW c, Good(c), NEW I \in SUBSET Items, NEW T \in SUBSET Tags
  PROVE  Good(insertItems(c, I, T))
BY AddGood DEF insertItems

(* The step from a good collection to a good one, in terms of Inv. *)
LEMMA BecomeGood ==
  ASSUME NEW c, Good(c), Become(c)
  PROVE  Inv'
BY DEF Become, Inv, TypeOK, Consistent, Good

(***************************************************************************)
(* The two maps stay converses of each other, and no untagged item is ever *)
(* kept, through every sequence of insertions, removals, prunings and      *)
(* descents (fast.cc:32-80, 201-243).                                      *)
(***************************************************************************)
THEOREM InvInductive == Inv /\ [Next]_vars => Inv'
<1> SUFFICES ASSUME Inv, [Next]_vars
             PROVE  Inv'
  OBVIOUS
<1>0. Good(coll)
  BY InvIsGood
<1>1. ASSUME NEW item \in Items, NEW T \in SUBSET Tags, InsertItem(item, T)
      PROVE  Inv'
  BY <1>0, <1>1, InsertItemGood, BecomeGood DEF InsertItem
<1>2. ASSUME NEW I \in SUBSET Items, NEW tag \in Tags, InsertItemsTag(I, tag)
      PROVE  Inv'
  BY <1>0, <1>2, InsertItemsTagGood, BecomeGood DEF InsertItemsTag
<1>3. ASSUME NEW I \in SUBSET Items, NEW T \in SUBSET Tags, InsertItems(I, T)
      PROVE  Inv'
  BY <1>0, <1>3, InsertItemsGood, BecomeGood DEF InsertItems
<1>4. ASSUME Crash
      PROVE  Inv'
  BY <1>4 DEF Crash, Inv, TypeOK, Consistent
<1>5. ASSUME NEW tag \in Tags, RemoveTag(tag)
      PROVE  Inv'
  <2>1. CASE removeTagDefined(coll, tag)
    BY <1>0, <1>5, <2>1, RemoveTagGood, BecomeGood DEF RemoveTag, removeTagDefined
  <2>2. CASE ~removeTagDefined(coll, tag)
    BY <1>4, <1>5, <2>2 DEF RemoveTag
  <2> QED
    BY <2>1, <2>2
<1>6. ASSUME NEW card \in Cards, RemoveTagsWithCardinalityLessThan(card)
      PROVE  Inv'
  <2>1. rareTags(coll, card) \in SUBSET DOMAIN coll.tags
    BY DEF rareTags
  <2>2. Good(removeTags(coll, rareTags(coll, card)))
    BY <1>0, <2>1, RemoveTagsGood
  <2> QED
    BY <1>4, <1>6, <2>2, BecomeGood DEF RemoveTagsWithCardinalityLessThan
<1>7. ASSUME NEW tag \in Tags, Descend(tag)
      PROVE  Inv'
  <2>1. CASE childDefined(coll, tag)
    BY <1>0, <1>7, <2>1, ChildGood, BecomeGood DEF Descend
  <2>2. CASE ~childDefined(coll, tag)
    BY <1>4, <1>7, <2>2 DEF Descend
  <2> QED
    BY <2>1, <2>2
<1>8. CASE Clear
  BY <1>8, EmptyGood, BecomeGood DEF Clear
<1>9. CASE UNCHANGED vars
  BY <1>9 DEF vars, Inv, TypeOK, Consistent
<1> QED
  BY <1>1, <1>2, <1>3, <1>5, <1>6, <1>7, <1>8, <1>9 DEF Next

LEMMA InitInv == Init => Inv
BY DEF Init, Inv, TypeOK, Consistent, emptyMap

(***************************************************************************)
(* Every reachable collection has converse maps without untagged items.    *)
(***************************************************************************)
THEOREM Consistency == Spec => [](TypeOK /\ Consistent)
<1>1. Spec => []Inv
  BY InitInv, InvInductive, PTL DEF Spec
<1>2. Inv => TypeOK /\ Consistent
  BY DEF Inv
<1> QED
  BY <1>1, <1>2, PTL

(***************************************************************************)
(* Every query of fast.cc:82-185 that walks the tag map gives the answer   *)
(* the item map gives.                                                     *)
(***************************************************************************)
THEOREM QueriesCorrect == Spec => []QueriesAgree
<1>1. Inv => QueriesAgree
  <2> SUFFICES ASSUME Inv PROVE QueriesAgree
    OBVIOUS
  <2> USE DEF Inv, TypeOK, Consistent
  <2>1. \A t \in Tags : getItemsHavingTag(t) = {i \in Items : t \in getTagsOfItem(i)}
    BY DEF getItemsHavingTag, getTagsOfItem, hasTag, hasItem
  <2>2. \A i : getTagsOfItem(i) \subseteq Tags /\ (getTagsOfItem(i) # {} => i \in Items)
    BY DEF getTagsOfItem, hasItem
  <2>3. ASSUME NEW T \in (SUBSET Tags) \ {{}}
        PROVE  getItemsHavingTags(T) = {i \in Items : T \subseteq getTagsOfItem(i)}
    <3>1. PICK t0 \in T : TRUE
      BY <2>3
    <3>2. \A i : i \in getItemsHavingTags(T) <=> \A t \in T : i \in getItemsHavingTag(t)
      BY <3>1 DEF getItemsHavingTags
    <3>3. \A i : (\A t \in T : i \in getItemsHavingTag(t)) <=> i \in Items /\ T \subseteq getTagsOfItem(i)
      BY <2>1, <3>1
    <3> QED
      BY <3>2, <3>3
  <2>4. ASSUME NEW T \in SUBSET Tags
        PROVE  getItemsExactMatch(T) = {i \in getTaggedItems : getTagsOfItem(i) = T}
    <3>1. CASE T = {}
      BY <3>1 DEF getItemsExactMatch, getItemsHavingTags, getTaggedItems, getTagsOfItem, hasItem
    <3>2. CASE T # {}
      BY <2>3, <3>2 DEF getItemsExactMatch, getTaggedItems, getTagsOfItem, hasItem
    <3> QED
      BY <3>1, <3>2
  <2>5. ASSUME NEW t \in Tags, NEW u \in Tags
        PROVE  u \in getTagsImplying(t) <=>
                 /\ u # t
                 /\ u \in getAllTags
                 /\ \A i \in getTaggedItems : u \in getTagsOfItem(i) => t \in getTagsOfItem(i)
    <3>1. u \in getTagsImplying(t) <=>
            u \in DOMAIN tags /\ u # t /\ getItemsHavingTag(u) \subseteq getItemsHavingTag(t)
      BY DEF getTagsImplying
    <3>2. getItemsHavingTag(u) \subseteq getItemsHavingTag(t) <=>
            \A i \in DOMAIN items : u \in getTagsOfItem(i) => t \in getTagsOfItem(i)
      BY <2>1, <2>2 DEF getTagsOfItem, hasItem
    <3> QED
      BY <3>1, <3>2 DEF getAllTags, getTaggedItems
  <2> QED
    BY <2>1, <2>3, <2>4, <2>5 DEF QueriesAgree
<1>2. Spec => []Inv
  BY InitInv, InvInductive, PTL DEF Spec
<1> QED
  BY <1>1, <1>2, PTL

-----------------------------------------------------------------------------
(* Undefined behaviour.                                                    *)

(* The lookups removeTag makes in the item map all succeed. *)
LEMMA RemoveListedTagDefined ==
  ASSUME NEW c, Good(c), NEW tag \in DOMAIN c.tags
  PROVE  removeTagDefined(c, tag)
BY DEF Good, removeTagDefined

(* getChildCollection of a tag some item carries finds that tag in the     *)
(* collection it builds.                                                   *)
LEMMA ChildOfCarriedTagDefined ==
  ASSUME NEW c, Good(c), NEW tag \in DOMAIN c.tags, c.tags[tag] # {}
  PROVE  childDefined(c, tag)
<1>1. Good(childWithTag(c, tag))
  BY ChildWithTagGood
<1>2. tag \in DOMAIN childWithTag(c, tag).tags
  BY DEF Good, childWithTag
<1>3. removeTagDefined(childWithTag(c, tag), tag)
  BY <1>1, <1>2, RemoveListedTagDefined
<1> QED
  BY <1>3 DEF childDefined, Good

(***************************************************************************)
(* No sequence of calls makes Fast dereference a missing entry, except a   *)
(* removeTag of a tag that is not listed and a getChildCollection of a tag *)
(* no item carries (fast.cc:204-208, 220-226).                             *)
(***************************************************************************)
THEOREM MisuseOnly == Spec => OnlyMisuseIsUndefined
<1>1. Inv /\ [Next]_vars => [undef' /\ ~undef => Misuse]_vars
  <2> SUFFICES ASSUME Inv, Next, undef', ~undef
               PROVE  Misuse
    BY DEF vars, Inv, TypeOK
  <2>0. Good(coll)
    BY InvIsGood
  <2>1. ASSUME NEW c, Become(c) PROVE FALSE
    BY <2>1 DEF Become
  <2>2. ASSUME NEW tag \in Tags, RemoveTag(tag) PROVE Misuse
    <3>1. tag \notin DOMAIN coll.tags
      BY <2>0, <2>1, <2>2, RemoveListedTagDefined DEF RemoveTag
    <3> QED
      BY <2>2, <3>1 DEF coll, hasTag, Misuse
  <2>3. ASSUME NEW card \in Cards, RemoveTagsWithCardinalityLessThan(card) PROVE Misuse
    <3>1. \A t \in rareTags(coll, card) : removeTagDefined(coll, t)
      BY <2>0, RemoveListedTagDefined DEF rareTags
    <3> QED
      BY <2>1, <2>3, <3>1 DEF RemoveTagsWithCardinalityLessThan
  <2>4. ASSUME NEW tag \in Tags, Descend(tag) PROVE Misuse
    <3>1. ~(tag \in DOMAIN coll.tags /\ coll.tags[tag] # {})
      BY <2>0, <2>1, <2>4, ChildOfCarriedTagDefined DEF Descend
    <3>2. getItemsHavingTag(tag) = {}
      BY <3>1 DEF coll, hasTag, getItemsHavingTag
    <3> QED
      BY <2>4, <3>2 DEF Misuse
  <2> QED
    BY <2>1, <2>2, <2>3, <2>4 DEF Next, InsertItem, InsertItemsTag, InsertItems, Clear
<1>2. Spec => []Inv
  BY InitInv, InvInductive, PTL DEF Spec
<1> QED
  BY <1>1, <1>2, PTL DEF Spec, OnlyMisuseIsUndefined

-----------------------------------------------------------------------------
(* Refinement: the two maps implement one relation.                        *)

(* The relation the item map of c stores. *)
relOfColl(c) == {p \in Items \X Tags : p[1] \in DOMAIN c.items /\ p[2] \in c.items[p[1]]}

LEMMA RelAfterBecome ==
  ASSUME NEW c, Become(c)
  PROVE  relOf' = relOfColl(c) /\ (DOMAIN tags)' = DOMAIN c.tags
BY DEF Become, relOf, relOfColl

LEMMA RelAdd ==
  ASSUME NEW I \in SUBSET Items, NEW T \in SUBSET Tags, Inv,
         Become([items |-> AddTo(coll.items, I, T), tags |-> AddTo(coll.tags, T, I)])
  PROVE  relOf' = relOf \cup (I \X T) /\ (DOMAIN tags)' = DOMAIN tags \cup T
<1> DEFINE c == [items |-> AddTo(coll.items, I, T), tags |-> AddTo(coll.tags, T, I)]
<1>1. relOfColl(c) = relOf \cup (I \X T)
  BY DEF relOfColl, relOf, AddTo, coll, Inv, TypeOK
<1>2. DOMAIN c.tags = DOMAIN tags \cup T
  BY DEF AddTo, coll
<1> QED
  BY <1>1, <1>2, RelAfterBecome

LEMMA RelRemoveTags ==
  ASSUME NEW D \in SUBSET DOMAIN tags, Inv, Become(removeTags(coll, D))
  PROVE  relOf' = {p \in relOf : p[2] \notin D} /\ (DOMAIN tags)' = DOMAIN tags \ D
<1>1. relOfColl(removeTags(coll, D)) = {p \in relOf : p[2] \notin D}
  BY DEF relOfColl, relOf, removeTags, coll, Inv, TypeOK, Consistent
<1>2. DOMAIN removeTags(coll, D).tags = DOMAIN tags \ D
  BY DEF removeTags, coll
<1> QED
  BY <1>1, <1>2, RelAfterBecome

LEMMA RelCarriers ==
  ASSUME Inv, NEW t \in DOMAIN tags
  PROVE  {i \in Items : <<i, t>> \in relOf} = tags[t]
BY DEF relOf, Inv, TypeOK, Consistent

LEMMA RelChild ==
  ASSUME Inv, NEW tag \in Tags, childDefined(coll, tag),
         Become(getChildCollection(coll, tag))
  PROVE  /\ relOf' = {p \in relOf : <<p[1], tag>> \in relOf /\ p[2] # tag}
         /\ (DOMAIN tags)' = {u \in Tags : \E i \in Items : <<i, u>> \in relOf'}
<1> DEFINE w == childWithTag(coll, tag)
           r == getChildCollection(coll, tag)
<1>1. Good(coll) /\ tag \in DOMAIN tags /\ tag \in DOMAIN w.tags
  BY InvIsGood DEF childDefined, removeTagDefined, coll
<1>2. Good(w) /\ Good(r)
  BY <1>1, ChildWithTagGood, ChildGood DEF coll
<1>3. r = removeTags(w, {tag})
  BY <1>1, <1>2, RemoveTagIsRemoveTags DEF getChildCollection
<1>4. relOfColl(w) = {p \in relOf : <<p[1], tag>> \in relOf}
  BY <1>1 DEF relOfColl, relOf, childWithTag, coll, Good
<1>5. relOfColl(removeTags(w, {tag})) = {p \in relOfColl(w) : p[2] # tag}
  <2> HIDE DEF w
  <2>1. ASSUME NEW p \in Items \X Tags
        PROVE  p \in relOfColl(removeTags(w, {tag})) <=> p \in relOfColl(w) /\ p[2] # tag
    BY <1>2 DEF relOfColl, removeTags, Good
  <2> QED
    BY <2>1 DEF relOfColl
<1>6. \A t \in DOMAIN r.tags : r.tags[t] # {}
  <2>1. \A t \in DOMAIN w.tags : w.tags[t] # {}
    BY <1>1 DEF childWithTag, coll, Good
  <2> QED
    BY <2>1, <1>3 DEF removeTags
<1>7. DOMAIN r.tags = {u \in Tags : \E i \in Items : <<i, u>> \in relOfColl(r)}
  <2> HIDE DEF r
  <2>1. \A u \in Tags, i \in Items : <<i, u>> \in relOfColl(r) <=> i \in DOMAIN r.items /\ u \in r.items[i]
    BY DEF relOfColl
  <2>2. \A u \in DOMAIN r.tags : \E i \in Items : i \in DOMAIN r.items /\ u \in r.items[i]
    BY <1>2, <1>6 DEF Good
  <2>3. \A u \in Tags, i \in Items : i \in DOMAIN r.items /\ u \in r.items[i] => u \in DOMAIN r.tags
    BY <1>2 DEF Good
  <2>4. DOMAIN r.tags \subseteq Tags
    BY <1>2 DEF Good
  <2> QED
    BY <2>1, <2>2, <2>3, <2>4
<1>8. relOf' = relOfColl(r) /\ (DOMAIN tags)' = DOMAIN r.tags
  BY RelAfterBecome
<1>9. relOfColl(r) = {p \in relOf : <<p[1], tag>> \in relOf /\ p[2] # tag}
  BY <1>3, <1>4, <1>5
<1> QED
  BY <1>7, <1>8, <1>9

(***************************************************************************)
(* coll::Fast, with its two maps, implements the single relation of        *)
(* TagRelation: every call is one of its operations, or changes nothing.   *)
(***************************************************************************)
THEOREM FastImplementsRelation == Spec => RelationSpec
<1>1. Init => Relation!Init
  BY DEF Init, Relation!Init, relOf, emptyMap
<1>2. Inv /\ [Next]_vars => [Relation!Next]_(Relation!vars)
  <2> SUFFICES ASSUME Inv, [Next]_vars
               PROVE  Relation!Next \/ UNCHANGED <<relOf, DOMAIN tags>>
    BY DEF Relation!vars
  <2>1. ASSUME NEW I \in SUBSET Items, NEW T \in SUBSET Tags, I # {},
               Become([items |-> AddTo(coll.items, I, T), tags |-> AddTo(coll.tags, T, I)])
        PROVE  Relation!Next
    <3>1. relOf' = relOf \cup (I \X T) /\ (DOMAIN tags)' = DOMAIN tags \cup T
      BY <2>1, RelAdd
    <3>2. Relation!Add(I, T)
      BY <3>1 DEF Relation!Add
    <3> QED
      BY <2>1, <3>2 DEF Relation!Next
  <2>2. ASSUME Become(coll) PROVE UNCHANGED <<relOf, DOMAIN tags>>
    BY <2>2 DEF Become, coll, relOf
  <2>3. ASSUME Crash PROVE UNCHANGED <<relOf, DOMAIN tags>>
    BY <2>3 DEF Crash, relOf
  <2>4. ASSUME NEW item \in Items, NEW T \in SUBSET Tags, InsertItem(item, T)
        PROVE  Relation!Next \/ UNCHANGED <<relOf, DOMAIN tags>>
    <3>1. {item} \in SUBSET Items /\ {item} # {}
      OBVIOUS
    <3> QED
      BY <2>1, <2>2, <2>4, <3>1 DEF InsertItem, insertItem
  <2>5. ASSUME NEW I \in SUBSET Items, NEW tag \in Tags, InsertItemsTag(I, tag)
        PROVE  Relation!Next
    <3>1. CASE I # {}
      BY <2>1, <2>5, <3>1 DEF InsertItemsTag, insertItemsTag
    <3>2. CASE I = {}
      <4>1. relOf' = relOf \cup (I \X {tag}) /\ (DOMAIN tags)' = DOMAIN tags \cup {tag}
        BY <2>5, RelAdd DEF InsertItemsTag, insertItemsTag
      <4> QED
        BY <3>2, <4>1 DEF Relation!Next, Relation!Announce
    <3> QED
      BY <3>1, <3>2
  <2>6. ASSUME NEW I \in SUBSET Items, NEW T \in SUBSET Tags, InsertItems(I, T)
        PROVE  Relation!Next \/ UNCHANGED <<relOf, DOMAIN tags>>
    BY <2>1, <2>2, <2>6 DEF InsertItems, insertItems
  <2>7. ASSUME NEW tag \in Tags, RemoveTag(tag)
        PROVE  Relation!Next \/ UNCHANGED <<relOf, DOMAIN tags>>
    <3>1. CASE removeTagDefined(coll, tag)
      <4>1. Good(coll) /\ tag \in DOMAIN tags /\ tag \in DOMAIN coll.tags
        BY <3>1, InvIsGood DEF removeTagDefined, coll
      <4>2. removeTag(coll, tag) = removeTags(coll, {tag})
        BY <4>1, RemoveTagIsRemoveTags
      <4>3. Become(removeTags(coll, {tag}))
        BY <2>7, <3>1, <4>2 DEF RemoveTag
      <4>4. {tag} \in SUBSET DOMAIN tags
        BY <4>1
      <4> QED
        BY <4>1, <4>3, <4>4, RelRemoveTags DEF Relation!Next, Relation!Forget
    <3>2. CASE ~removeTagDefined(coll, tag)
      BY <2>3, <2>7, <3>2 DEF RemoveTag
    <3> QED
      BY <3>1, <3>2
  <2>8. ASSUME NEW card \in Cards, RemoveTagsWithCardinalityLessThan(card)
        PROVE  Relation!Next \/ UNCHANGED <<relOf, DOMAIN tags>>
    <3> DEFINE D == {t \in DOMAIN tags : Cardinality({i \in Items : <<i, t>> \in relOf}) < card}
    <3>1. rareTags(coll, card) = D
      BY RelCarriers DEF rareTags, coll
    <3>2. CASE Become(removeTags(coll, D))
      <4>1. D \in SUBSET DOMAIN tags
        OBVIOUS
      <4>2. Relation!Forget(D)
        BY <3>2, <4>1, RelRemoveTags DEF Relation!Forget
      <4>3. Relation!Prune(card)
        BY <4>2 DEF Relation!Prune, Relation!Carriers, Relation!Cardinality, Cardinality
      <4> QED
        BY <4>3 DEF Relation!Next
    <3> QED
      BY <2>3, <2>8, <3>1, <3>2 DEF RemoveTagsWithCardinalityLessThan
  <2>9. ASSUME NEW tag \in Tags, Descend(tag)
        PROVE  Relation!Next \/ UNCHANGED <<relOf, DOMAIN tags>>
    <3>1. CASE childDefined(coll, tag)
      <4>1. Become(getChildCollection(coll, tag))
        BY <2>9, <3>1 DEF Descend
      <4>2. tag \in DOMAIN tags /\ tags[tag] # {}
        BY <3>1 DEF childDefined, removeTagDefined, childWithTag, coll
      <4>3. {i \in Items : <<i, tag>> \in relOf} # {}
        BY <4>2, RelCarriers
      <4> QED
        BY <3>1, <4>1, <4>3, RelChild DEF Relation!Next, Relation!Narrow, Relation!Carriers
    <3>2. CASE ~childDefined(coll, tag)
      BY <2>3, <2>9, <3>2 DEF Descend
    <3> QED
      BY <3>1, <3>2
  <2>10. ASSUME Clear PROVE Relation!Next
    <3>1. relOf' = {} /\ (DOMAIN tags)' = {}
      BY <2>10 DEF Clear, Become, emptyColl, emptyMap, relOf
    <3> QED
      BY <3>1 DEF Relation!Next, Relation!Clear
  <2>11. ASSUME UNCHANGED vars PROVE UNCHANGED <<relOf, DOMAIN tags>>
    BY <2>11 DEF vars, relOf
  <2> QED
    BY <2>4, <2>5, <2>6, <2>7, <2>8, <2>9, <2>10, <2>11 DEF Next
<1>3. Spec => []Inv
  BY InitInv, InvInductive, PTL DEF Spec
<1> QED
  BY <1>1, <1>2, <1>3, PTL DEF Spec, RelationSpec, Relation!Spec

-----------------------------------------------------------------------------
(* The loops over tags, in increasing order.  Their recursive functions on *)
(* sets of tags exist, and are what is said of them, because there would   *)
(* be a least set for which they are not.                                  *)

LEMMA LeastNatural ==
  ASSUME NEW T \in SUBSET Nat, T # {}
  PROVE  \E n \in T : \A m \in T : n <= m
<1>1. PICK n \in T : \A m \in T : <<m, n>> \notin OpToRel(<, Nat)
  BY WFMin, NatLessThanWellFounded, Zenon
<1>2. \A m \in T : ~(m < n)
  BY <1>1, Zenon DEF OpToRel
<1> QED
  BY <1>2

(* Among finite sets, one of least cardinality. *)
LEMMA LeastSet ==
  ASSUME NEW B, B # {}, \A S \in B : IsFiniteSet(S)
  PROVE  \E S \in B : \A T \in B : Cardinality(S) <= Cardinality(T)
<1> DEFINE N == {Cardinality(S) : S \in B}
<1>1. N \in SUBSET Nat /\ N # {}
  BY FS_CardinalityType
<1>2. PICK n \in N : \A m \in N : n <= m
  BY <1>1, LeastNatural
<1> QED
  BY <1>2

(* The tag that std::map has last. *)
Latest(S) == CHOOSE t \in S : \A u \in S : u <= t

LEMMA LastFacts ==
  ASSUME NEW S \in SUBSET Nat, IsFiniteSet(S), S # {}
  PROVE  Latest(S) \in S /\ \A u \in S : u <= Latest(S)
<1> DEFINE Bad == {T \in SUBSET S : T # {} /\ ~\E t \in T : \A u \in T : u <= t}
<1>1. Bad = {}
  <2>1. SUFFICES ASSUME Bad # {}
                 PROVE  FALSE
    OBVIOUS
  <2>2. \A T \in Bad : IsFiniteSet(T)
    BY FS_Subset
  <2>3. PICK T \in Bad : \A U \in Bad : Cardinality(T) <= Cardinality(U)
    BY <2>1, <2>2, LeastSet
  <2>4. T \in SUBSET S /\ T # {} /\ ~\E t \in T : \A u \in T : u <= t
    OBVIOUS
  <2>5. PICK x \in T : x \in Nat
    BY <2>4
  <2> DEFINE U == T \ {x}
  <2>6. IsFiniteSet(T) /\ Cardinality(T) \in Nat /\ Cardinality(U) = Cardinality(T) - 1
    BY <2>2, <2>5, FS_RemoveElement, FS_CardinalityType
  <2>7. U \notin Bad
    <3> HIDE DEF Bad, U
    <3>1. U \in Bad => Cardinality(T) <= Cardinality(U)
      BY <2>3
    <3> QED
      BY <2>6, <3>1
  <2>8. CASE U = {}
    <3>1. (\A u \in T : u = x) /\ x <= x
      BY <2>5, <2>8
    <3> QED
      BY <2>4, <2>5, <3>1
  <2>9. CASE U # {}
    <3>1. PICK m \in U : \A u \in U : u <= m
      BY <2>4, <2>7, <2>9
    <3>2. m \in T /\ m \in Nat /\ \A u \in T : u = x \/ u <= m
      BY <2>4, <3>1
    <3>3. \A u \in T : u \in Nat
      BY <2>4
    <3>4. CASE m <= x
      BY <2>4, <2>5, <3>2, <3>3, <3>4
    <3>5. CASE ~(m <= x)
      BY <2>4, <2>5, <3>2, <3>3, <3>5
    <3> QED
      BY <3>4, <3>5
  <2> QED
    BY <2>8, <2>9
<1>2. \E t \in S : \A u \in S : u <= t
  BY <1>1
<1> QED
  BY <1>2 DEF Latest

-----------------------------------------------------------------------------
(* Pruning.                                                                *)

LEMMA RemoveNothing == ASSUME NEW c, Good(c), c = [items |-> c.items, tags |-> c.tags]
                       PROVE  removeTags(c, {}) = c
<1> DEFINE g(j) == {t \in {} : j \in c.tags[t]}
           I == {j \in DOMAIN c.items : g(j) # {} => c.items[j] \ g(j) # {}}
<1>1. \A j : g(j) = {}
  OBVIOUS
<1>2. removeTags(c, {}) = [items |-> [i \in I |-> c.items[i] \ g(i)],
                           tags |-> [t \in DOMAIN c.tags \ {} |-> c.tags[t]]]
  BY DEF removeTags
<1> HIDE DEF g
<1>3. I = DOMAIN c.items /\ \A j \in I : c.items[j] \ g(j) = c.items[j]
  BY <1>1
<1>4. [i \in I |-> c.items[i] \ g(i)] = [i \in DOMAIN c.items |-> c.items[i]]
  BY <1>3
<1>5. DOMAIN c.tags \ {} = DOMAIN c.tags
  OBVIOUS
<1> HIDE DEF I
<1>6. [i \in I |-> c.items[i] \ g(i)] = c.items
  BY <1>4 DEF Good
<1>7. [t \in DOMAIN c.tags \ {} |-> c.tags[t]] = c.tags
  BY <1>5 DEF Good
<1> QED
  BY <1>2, <1>6, <1>7

(* Removing one more tag. *)
LEMMA RemoveOneMore ==
  ASSUME NEW c, Good(c), NEW D \in SUBSET DOMAIN c.tags, NEW t \in D
  PROVE  LET b == removeTags(c, D \ {t})
         IN  removeTagDefined(b, t) /\ removeTag(b, t) = removeTags(c, D)
<1> DEFINE E == D \ {t}
           b == removeTags(c, E)
           g(i) == {u \in E : i \in c.tags[u]}
           h(i) == {u \in D : i \in c.tags[u]}
           k(i) == {u \in {t} : i \in b.tags[u]}
<1>1. /\ DOMAIN b.items = {j \in DOMAIN c.items : g(j) # {} => c.items[j] \ g(j) # {}}
      /\ \A i \in DOMAIN b.items : b.items[i] = c.items[i] \ g(i)
      /\ DOMAIN b.tags = DOMAIN c.tags \ E
      /\ \A u \in DOMAIN b.tags : b.tags[u] = c.tags[u]
  BY DEF removeTags
<1>2. Good(b)
  BY RemoveTagsGood
<1> HIDE DEF b
<1>3. t \in DOMAIN b.tags /\ b.tags[t] = c.tags[t]
  BY <1>1
<1>4. removeTagDefined(b, t)
  BY <1>2, <1>3 DEF removeTagDefined, Good
<1>5. removeTag(b, t) = removeTags(b, {t})
  BY <1>2, <1>3, RemoveTagIsRemoveTags
<1> DEFINE I == {j \in DOMAIN b.items : k(j) # {} => b.items[j] \ k(j) # {}}
           J == {j \in DOMAIN c.items : h(j) # {} => c.items[j] \ h(j) # {}}
<1>6. removeTags(b, {t}) = [items |-> [i \in I |-> b.items[i] \ k(i)],
                            tags |-> [u \in DOMAIN b.tags \ {t} |-> b.tags[u]]]
  BY DEF removeTags
<1>7. removeTags(c, D) = [items |-> [i \in J |-> c.items[i] \ h(i)],
                          tags |-> [u \in DOMAIN c.tags \ D |-> c.tags[u]]]
  BY DEF removeTags
<1>8. \A i : h(i) = g(i) \cup k(i)
  BY <1>3
<1>9. \A i \in DOMAIN c.items : c.items[i] # {}
  BY DEF Good
<1> HIDE DEF g, h, k
<1>10. I = J
  <2>1. ASSUME NEW i \in I
        PROVE  i \in J
    BY <1>1, <1>8
  <2>2. ASSUME NEW i \in J
        PROVE  i \in I
    BY <1>1, <1>8, <1>9
  <2> QED
    BY <2>1, <2>2
<1>11. \A i \in I : i \in DOMAIN b.items /\ b.items[i] \ k(i) = c.items[i] \ h(i)
  BY <1>1, <1>8
<1> HIDE DEF I, J
<1>12. [i \in I |-> b.items[i] \ k(i)] = [i \in J |-> c.items[i] \ h(i)]
  BY <1>10, <1>11
<1>13. DOMAIN b.tags \ {t} = DOMAIN c.tags \ D
  BY <1>1
<1>14. [u \in DOMAIN b.tags \ {t} |-> b.tags[u]] = [u \in DOMAIN c.tags \ D |-> c.tags[u]]
  BY <1>1, <1>13
<1>15. removeTags(b, {t}) = removeTags(c, D)
  BY <1>6, <1>7, <1>12, <1>14
<1> QED
  BY <1>4, <1>5, <1>15 DEF b

LEMMA PruneLoop ==
  ASSUME Inv, IsFiniteSet(Tags)
  PROVE  PruneIsALoopOfRemovals
<1> SUFFICES ASSUME NEW card \in Cards
             PROVE  LET R == rareTags(coll, card)
                        loop[S \in SUBSET R] ==
                          IF S = {} THEN coll
                          ELSE LET t == CHOOSE t \in S : \A u \in S : u <= t
                               IN  removeTag(loop[S \ {t}], t)
                        callDefined(S) == LET t == CHOOSE t \in S : \A u \in S : u <= t
                                          IN  removeTagDefined(loop[S \ {t}], t)
                    IN  /\ loop[R] = removeTags(coll, R)
                        /\ \A S \in (SUBSET R) \ {{}} : callDefined(S)
  BY DEF PruneIsALoopOfRemovals
<1> DEFINE R == rareTags(coll, card)
           Turn(g, S) == IF S = {} THEN coll ELSE removeTag(g[S \ {Latest(S)}], Latest(S))
           loop == CHOOSE g : g = [S \in SUBSET R |-> Turn(g, S)]
           G == [S \in SUBSET R |-> removeTags(coll, S)]
<1>1. Good(coll) /\ coll = [items |-> coll.items, tags |-> coll.tags]
  BY InvIsGood DEF coll
<1>2. R \in SUBSET DOMAIN coll.tags /\ DOMAIN coll.tags \subseteq Tags
  BY <1>1 DEF rareTags, Good
<1>3. ASSUME NEW S \in SUBSET R, S # {}
      PROVE  /\ Latest(S) \in S /\ S \ {Latest(S)} \in SUBSET R
             /\ IsFiniteSet(S) /\ Cardinality(S \ {Latest(S)}) < Cardinality(S)
  <2>1. S \in SUBSET Nat /\ IsFiniteSet(S)
    BY <1>2, FS_Subset, TagsAssumption
  <2>2. Latest(S) \in S
    BY <1>3, <2>1, LastFacts
  <2>3. Cardinality(S \ {Latest(S)}) = Cardinality(S) - 1 /\ Cardinality(S) \in Nat
    BY <2>1, <2>2, FS_RemoveElement, FS_CardinalityType
  <2>4. Cardinality(S \ {Latest(S)}) < Cardinality(S)
    BY <2>3
  <2> QED
    BY <2>1, <2>2, <2>4
<1>4. ASSUME NEW S \in SUBSET R, S # {}
      PROVE  /\ removeTagDefined(removeTags(coll, S \ {Latest(S)}), Latest(S))
             /\ removeTag(removeTags(coll, S \ {Latest(S)}), Latest(S)) = removeTags(coll, S)
  BY <1>1, <1>2, <1>3, <1>4, RemoveOneMore
<1>5. removeTags(coll, {}) = coll
  BY <1>1, RemoveNothing
<1> HIDE DEF R
<1>6. \A S \in SUBSET R : G[S] = Turn(G, S)
  BY <1>3, <1>4, <1>5
<1>7. G = [S \in SUBSET R |-> Turn(G, S)]
  BY <1>6
<1> HIDE DEF G
<1>8. loop = [S \in SUBSET R |-> Turn(loop, S)]
  BY <1>7
<1> DEFINE Bad == {S \in SUBSET R : loop[S] # removeTags(coll, S)}
<1>9. Bad = {}
  <2> HIDE DEF loop
  <2>1. SUFFICES ASSUME Bad # {}
                 PROVE  FALSE
    OBVIOUS
  <2>2. \A S \in SUBSET R : loop[S] = Turn(loop, S)
    BY <1>8
  <2>3. {} \notin Bad
    BY <1>5, <2>2
  <2>4. PICK S \in Bad : \A T \in Bad : Cardinality(S) <= Cardinality(T)
    BY <1>3, <2>1, <2>3, LeastSet
  <2>5. S \in SUBSET R /\ S # {} /\ loop[S] # removeTags(coll, S)
    BY <2>3
  <2> DEFINE E == S \ {Latest(S)}
  <2>6. E \in SUBSET R /\ E \notin Bad
    <3>1. Cardinality(S) \in Nat /\ Cardinality(E) \in Nat /\ Cardinality(E) < Cardinality(S)
      BY <1>3, <2>5, FS_CardinalityType, FS_RemoveElement
    <3> QED
      BY <1>3, <2>4, <2>5, <3>1
  <2>7. loop[E] = removeTags(coll, E)
    BY <2>6
  <2>8. loop[S] = removeTag(loop[E], Latest(S))
    BY <2>2, <2>5
  <2> QED
    BY <1>4, <2>5, <2>7, <2>8
<1>10. \A S \in SUBSET R : loop[S] = removeTags(coll, S)
  BY <1>9
<1>11. \A S \in (SUBSET R) \ {{}} : removeTagDefined(loop[S \ {Latest(S)}], Latest(S))
  BY <1>3, <1>4, <1>10
<1> QED
  BY <1>10, <1>11 DEF Latest, R

-----------------------------------------------------------------------------
(* The most popular tag.                                                   *)

Count(t) == Cardinality(tags[t])

(* What the loop should have found after the tags of S. *)
FoundIn(S, r) ==
  /\ r.card \in Nat /\ r = [card |-> r.card, res |-> r.res]
  /\ \A t \in S : Count(t) <= r.card
  /\ \/ r.card = 0 /\ r.res = NoTag
     \/ /\ r.card # 0 /\ r.res \in S /\ Count(r.res) = r.card
        /\ \A t \in S : Count(t) = r.card => r.res <= t

(* One round of the loop. *)
Better(r, t) == IF Count(t) > r.card THEN [card |-> Count(t), res |-> t] ELSE r

LEMMA FoundMore ==
  ASSUME NEW S \in SUBSET Nat, NEW t \in S, \A u \in S : u <= t /\ Count(u) \in Nat,
         NEW r, FoundIn(S \ {t}, r)
  PROVE  FoundIn(S, Better(r, t))
<1>1. Count(t) \in Nat /\ \A u \in S : u = t \/ u \in S \ {t}
  OBVIOUS
<1>2. CASE Count(t) > r.card
  <2> DEFINE q == [card |-> Count(t), res |-> t]
  <2>1. Better(r, t) = q /\ q.card = Count(t) /\ q.res = t
    BY <1>2 DEF Better
  <2>2. Count(t) # 0 /\ \A u \in S \ {t} : Count(u) <= r.card /\ Count(u) # Count(t)
    BY <1>1, <1>2 DEF FoundIn
  <2>3. \A u \in S : Count(u) <= Count(t)
    BY <1>1, <1>2, <2>2 DEF FoundIn
  <2> HIDE DEF q
  <2>4. \A u \in S : Count(u) = q.card => q.res <= u
    BY <1>1, <2>1, <2>2
  <2>5. q = [card |-> q.card, res |-> q.res]
    BY DEF q
  <2> QED
    BY <1>1, <2>1, <2>2, <2>3, <2>4, <2>5 DEF FoundIn
<1>3. CASE ~(Count(t) > r.card)
  <2>1. Better(r, t) = r
    BY <1>3 DEF Better
  <2>2. r.card \in Nat /\ r = [card |-> r.card, res |-> r.res]
    BY DEF FoundIn
  <2>3. \A u \in S : Count(u) <= r.card
    BY <1>1, <1>3, <2>2 DEF FoundIn
  <2>4. CASE r.card = 0 /\ r.res = NoTag
    BY <2>1, <2>2, <2>3, <2>4 DEF FoundIn
  <2>5. CASE /\ r.card # 0 /\ r.res \in S \ {t} /\ Count(r.res) = r.card
             /\ \A u \in S \ {t} : Count(u) = r.card => r.res <= u
    <3>1. r.res <= t
      BY <2>5
    <3>2. \A u \in S : Count(u) = r.card => r.res <= u
      BY <1>1, <2>5, <3>1
    <3> QED
      BY <2>1, <2>2, <2>3, <2>5, <3>2 DEF FoundIn
  <2> QED
    BY <2>4, <2>5 DEF FoundIn
<1> QED
  BY <1>2, <1>3

LEMMA FoundOnce ==
  ASSUME NEW S \in SUBSET Nat, NEW r, NEW q, FoundIn(S, r), FoundIn(S, q)
  PROVE  r = q
<1>1. /\ r.card \in Nat /\ r = [card |-> r.card, res |-> r.res]
      /\ q.card \in Nat /\ q = [card |-> q.card, res |-> q.res]
  BY DEF FoundIn
<1>2. r.card = q.card
  <2>1. r.card # 0 => r.card <= q.card
    BY <1>1 DEF FoundIn
  <2>2. q.card # 0 => q.card <= r.card
    BY <1>1 DEF FoundIn
  <2> QED
    BY <1>1, <2>1, <2>2
<1>3. r.res = q.res
  <2>1. CASE r.card = 0
    BY <1>2, <2>1 DEF FoundIn
  <2>2. CASE r.card # 0
    <3>1. r.res \in Nat /\ q.res \in Nat /\ r.res <= q.res /\ q.res <= r.res
      BY <1>2, <2>2 DEF FoundIn
    <3> QED
      BY <3>1
  <2> QED
    BY <2>1, <2>2
<1> QED
  BY <1>1, <1>2, <1>3

LEMMA CountsAreNatural ==
  ASSUME Inv, IsFiniteSet(Items), NEW t \in DOMAIN tags
  PROVE  /\ IsFiniteSet(tags[t]) /\ Count(t) \in Nat /\ (Count(t) = 0 <=> tags[t] = {})
<1>1. tags[t] \in SUBSET Items
  BY DEF Inv, TypeOK
<1>2. IsFiniteSet(tags[t])
  BY <1>1, FS_Subset
<1> QED
  BY <1>2, FS_CardinalityType, FS_EmptySet DEF Count

LEMMA ScanFinds ==
  ASSUME Inv, IsFiniteSet(Items), IsFiniteSet(Tags)
  PROVE  FoundIn(DOMAIN tags, findTagWithMaxCardinality)
<1> DEFINE D == DOMAIN tags
           empty == [card |-> 0, res |-> NoTag]
           Turn(g, S) == IF S = {} THEN empty ELSE Better(g[S \ {Latest(S)}], Latest(S))
           scan == CHOOSE g : g = [S \in SUBSET D |-> Turn(g, S)]
           G == [S \in SUBSET D |-> CHOOSE r : FoundIn(S, r)]
<1>1. D \in SUBSET Tags
  BY DEF Inv, TypeOK
<1>2. ASSUME NEW S \in SUBSET D
      PROVE  S \in SUBSET Nat /\ IsFiniteSet(S) /\ Cardinality(S) \in Nat /\ \A t \in S : Count(t) \in Nat
  <2>1. S \in SUBSET Tags
    BY <1>1
  <2>2. S \in SUBSET Nat
    BY <2>1, TagsAssumption
  <2>3. IsFiniteSet(S)
    BY <2>1, FS_Subset
  <2> QED
    BY <2>2, <2>3, CountsAreNatural, FS_CardinalityType
<1> HIDE DEF D
<1>3. ASSUME NEW S \in SUBSET D, S # {}
      PROVE  /\ Latest(S) \in S /\ S \ {Latest(S)} \in SUBSET D
             /\ Cardinality(S \ {Latest(S)}) < Cardinality(S)
  <2>1. S \in SUBSET Nat /\ IsFiniteSet(S) /\ Cardinality(S) \in Nat
    BY <1>2
  <2>2. Latest(S) \in S
    BY <1>3, <2>1, LastFacts
  <2>3. Cardinality(S \ {Latest(S)}) = Cardinality(S) - 1
    BY <2>1, <2>2, FS_RemoveElement
  <2>4. Cardinality(S \ {Latest(S)}) < Cardinality(S)
    BY <2>1, <2>3
  <2> QED
    BY <2>2, <2>4
<1>4. ASSUME NEW S \in SUBSET D, S # {}, NEW r, FoundIn(S \ {Latest(S)}, r)
      PROVE  FoundIn(S, Better(r, Latest(S)))
  <2>1. S \in SUBSET Nat /\ IsFiniteSet(S) /\ \A t \in S : Count(t) \in Nat
    BY <1>2
  <2>2. Latest(S) \in S /\ \A u \in S : u <= Latest(S)
    BY <1>4, <2>1, LastFacts
  <2> QED
    BY <1>4, <2>1, <2>2, FoundMore
<1>5. FoundIn({}, empty)
  BY DEF FoundIn
<1>6. \A S \in SUBSET D : \E r : FoundIn(S, r)
  <2> DEFINE Bad == {S \in SUBSET D : ~\E r : FoundIn(S, r)}
  <2>1. SUFFICES ASSUME Bad # {}
                 PROVE  FALSE
    OBVIOUS
  <2>2. \A S \in Bad : IsFiniteSet(S)
    BY <1>2
  <2>3. PICK S \in Bad : \A T \in Bad : Cardinality(S) <= Cardinality(T)
    BY <2>1, <2>2, LeastSet
  <2>4. S \in SUBSET D /\ S # {} /\ ~\E r : FoundIn(S, r)
    BY <1>5
  <2> DEFINE E == S \ {Latest(S)}
  <2>5. E \in SUBSET D /\ Cardinality(E) < Cardinality(S) /\ Cardinality(E) \in Nat /\ Cardinality(S) \in Nat
    BY <1>2, <1>3, <2>4
  <2>6. E \notin Bad
    <3> HIDE DEF Bad, E
    <3>1. E \in Bad => Cardinality(S) <= Cardinality(E)
      BY <2>3
    <3> QED
      BY <2>5, <3>1
  <2>7. PICK r : FoundIn(E, r)
    BY <2>5, <2>6
  <2> QED
    BY <1>4, <2>4, <2>7
<1>7. \A S \in SUBSET D : FoundIn(S, G[S])
  BY <1>6
<1>8. \A S \in SUBSET D : G[S] = Turn(G, S)
  <2> HIDE DEF G
  <2>1. TAKE S \in SUBSET D
  <2>2. CASE S = {}
    <3>1. FoundIn({}, G[S]) /\ {} \in SUBSET Nat
      BY <1>7, <2>2
    <3>2. G[S] = empty
      BY <1>5, <3>1, FoundOnce
    <3> QED
      BY <2>2, <3>2
  <2>3. CASE S # {}
    <3>1. FoundIn(S \ {Latest(S)}, G[S \ {Latest(S)}])
      BY <1>3, <1>7, <2>3
    <3>2. FoundIn(S, Better(G[S \ {Latest(S)}], Latest(S)))
      BY <1>4, <2>3, <3>1
    <3>3. G[S] = Better(G[S \ {Latest(S)}], Latest(S))
      BY <1>2, <1>7, <3>2, FoundOnce
    <3> QED
      BY <2>3, <3>3
  <2> QED
    BY <2>2, <2>3
<1>15. G = [S \in SUBSET D |-> G[S]]
  OBVIOUS
<1> HIDE DEF G
<1>9. G = [S \in SUBSET D |-> Turn(G, S)]
  <2> HIDE DEF Turn
  <2> QED
    BY <1>8, <1>15
<1>10. scan = [S \in SUBSET D |-> Turn(scan, S)]
  BY <1>9
<1>11. findTagWithMaxCardinality = scan[D]
  BY DEF findTagWithMaxCardinality, Better, Count, Latest, D
<1> HIDE DEF scan
<1>12. \A S \in SUBSET D : scan[S] = Turn(scan, S)
  BY <1>10
<1> DEFINE Bad == {S \in SUBSET D : ~FoundIn(S, scan[S])}
<1>13. Bad = {}
  <2>1. SUFFICES ASSUME Bad # {}
                 PROVE  FALSE
    OBVIOUS
  <2>2. \A S \in Bad : IsFiniteSet(S)
    BY <1>2
  <2>3. PICK S \in Bad : \A T \in Bad : Cardinality(S) <= Cardinality(T)
    BY <2>1, <2>2, LeastSet
  <2>4. S \in SUBSET D /\ S # {} /\ ~FoundIn(S, scan[S])
    BY <1>5, <1>12
  <2> DEFINE E == S \ {Latest(S)}
  <2>5. E \in SUBSET D /\ Cardinality(E) < Cardinality(S) /\ Cardinality(E) \in Nat /\ Cardinality(S) \in Nat
    BY <1>2, <1>3, <2>4
  <2>6. E \notin Bad
    <3> HIDE DEF Bad, E
    <3>1. E \in Bad => Cardinality(S) <= Cardinality(E)
      BY <2>3
    <3> QED
      BY <2>5, <3>1
  <2>7. FoundIn(E, scan[E])
    BY <2>5, <2>6
  <2>8. FoundIn(S, Better(scan[E], Latest(S)))
    BY <1>4, <2>4, <2>7
  <2>9. scan[S] = Better(scan[E], Latest(S))
    BY <1>12, <2>4
  <2> QED
    BY <2>4, <2>8, <2>9
<1>14. FoundIn(D, scan[D])
  BY <1>13
<1> QED
  BY <1>11, <1>14 DEF D

LEMMA MaxFound ==
  ASSUME Inv, IsFiniteSet(Items), IsFiniteSet(Tags)
  PROVE  MaxCardinalityFound
<1> DEFINE found == findTagWithMaxCardinality
           carriers(t) == {i \in getTaggedItems : t \in getTagsOfItem(i)}
<1>1. FoundIn(DOMAIN tags, found)
  BY ScanFinds
<1> HIDE DEF found
<1>2. /\ \A t \in DOMAIN tags : carriers(t) = tags[t]
      /\ \A t \in Tags : t \notin DOMAIN tags => carriers(t) = {}
      /\ DOMAIN tags \subseteq Tags
  BY DEF Inv, TypeOK, Consistent, getTaggedItems, getTagsOfItem, hasItem
<1>3. getTaggedItems = {} <=> \A t \in DOMAIN tags : tags[t] = {}
  BY DEF Inv, TypeOK, Consistent, getTaggedItems
<1> HIDE DEF carriers
<1>4. /\ \A t \in DOMAIN tags : Cardinality(carriers(t)) = Count(t)
      /\ \A t \in Tags : t \notin DOMAIN tags => Cardinality(carriers(t)) = 0
  BY <1>2, FS_EmptySet DEF Count
<1>5. \A t \in DOMAIN tags : Count(t) \in Nat /\ (Count(t) = 0 <=> tags[t] = {})
  BY CountsAreNatural
<1>6. \A t \in Tags : Cardinality(carriers(t)) <= found.card
  BY <1>1, <1>4 DEF FoundIn
<1>7. getTaggedItems = {} => found = [card |-> 0, res |-> NoTag]
  <2>1. SUFFICES ASSUME getTaggedItems = {}
                 PROVE  found = [card |-> 0, res |-> NoTag]
    OBVIOUS
  <2>2. \A t \in DOMAIN tags : Count(t) = 0
    BY <1>3, <1>5, <2>1
  <2> QED
    BY <1>1, <2>2 DEF FoundIn
<1>8. getTaggedItems # {} => /\ found.res \in Tags
                             /\ Cardinality(carriers(found.res)) = found.card
                             /\ \A t \in Tags : Cardinality(carriers(t)) = found.card => found.res <= t
  <2>1. SUFFICES ASSUME getTaggedItems # {}
                 PROVE  /\ found.res \in Tags
                        /\ Cardinality(carriers(found.res)) = found.card
                        /\ \A t \in Tags : Cardinality(carriers(t)) = found.card => found.res <= t
    OBVIOUS
  <2>2. found.card # 0
    BY <1>1, <1>3, <1>5, <2>1 DEF FoundIn
  <2>3. /\ found.res \in DOMAIN tags /\ Count(found.res) = found.card
        /\ \A t \in DOMAIN tags : Count(t) = found.card => found.res <= t
    BY <1>1, <2>2 DEF FoundIn
  <2> QED
    BY <1>2, <1>4, <2>2, <2>3
<1> QED
  BY <1>6, <1>7, <1>8 DEF MaxCardinalityFound, found, carriers

(***************************************************************************)
(* With finitely many names: pruning tag by tag meets no missing entry and *)
(* removes exactly the rare tags, and the search for the most popular tag  *)
(* finds the first one of the greatest cardinality (fast.cc:187-199,       *)
(* 230-243).                                                               *)
(***************************************************************************)
THEOREM CardinalitiesCorrect ==
  ASSUME IsFiniteSet(Items), IsFiniteSet(Tags)
  PROVE  Spec => []CardinalitiesAgree
<1>1. Inv => CardinalitiesAgree
  BY PruneLoop, MaxFound DEF CardinalitiesAgree
<1> QED
  BY <1>1, InitInv, InvInductive, PTL DEF Spec
-----------------------------------------------------------------------------
(* The loops over two sorted sets in step, of SetOps.  What an iterator    *)
(* has passed lies before all that is left of either set (Frontier), and   *)
(* what a loop has done so far is right for what it has passed (SoFar).    *)

LEMMA LeastElement ==
  ASSUME NEW S \in SUBSET Elems, S # {}
  PROVE  /\ on(S) \in S /\ on(S) \in Nat
         /\ \A m \in S : on(S) <= m
         /\ next(S) \in SUBSET S
         /\ \A m \in next(S) : on(S) < m
         /\ S = next(S) \cup {on(S)} /\ on(S) \notin next(S)
<1>1. S \in SUBSET Nat
  BY ElemsAssumption
<1>2. \E n \in S : \A m \in S : n <= m
  BY <1>1, LeastNatural
<1>3. on(S) \in S /\ \A m \in S : on(S) <= m
  BY <1>2, Zenon DEF on, Min
<1>4. on(S) \in Nat /\ \A m \in S : m \in Nat
  BY <1>1, <1>3
<1> HIDE DEF on
<1>5. \A m \in S : m # on(S) => on(S) < m
  BY <1>3, <1>4
<1> QED
  BY <1>3, <1>4, <1>5 DEF next

First == operands[1]
Second == operands[2]
Seen == (First \ ia) \cup (Second \ ib)
OneOnly == (First \ Second) \cup (Second \ First)

OperandsOK ==
  /\ op \in Operators
  /\ First \in SUBSET Elems /\ IsFiniteSet(First)
  /\ Second \in SUBSET Elems /\ IsFiniteSet(Second)
  /\ ia \in SUBSET First /\ ib \in SUBSET Second

Frontier == op # "unite" => \A m \in Seen : \A n \in ia \cup ib : m < n

SoFar ==
  /\ op = "unite" => target = First \cup (Second \ ib)
  /\ op = "intersect" => target = ((First \ ia) \cap Second) \cup ia
  /\ op = "subtract" => target = ((First \ ia) \ Second) \cup ia
  /\ op = "included" => First \ ia \subseteq Second
  /\ op = "distance" => /\ res = Cardinality(Seen \cap OneOnly)
                        /\ intCount = Cardinality(Seen \cap (First \cap Second))

SetsInv ==
  \/ op = "none" /\ answer = NoAnswer
  \/ OperandsOK /\ answer = NoAnswer /\ Frontier /\ SoFar
  \/ answer # NoAnswer /\ MergesAgree

(* A set of elements passed grows by one element. *)
LEMMA OneMore ==
  ASSUME NEW S, IsFiniteSet(S), NEW e, e \notin S
  PROVE  IsFiniteSet(S \cup {e}) /\ Cardinality(S \cup {e}) = Cardinality(S) + 1
BY FS_AddElement

LEMMA SetsCallInv ==
  ASSUME NEW f \in Operators, NEW s \in SUBSET Elems, NEW t \in SUBSET Elems,
         IsFiniteSet(s), IsFiniteSet(t), SetsCall(f, s, t)
  PROVE  SetsInv'
<1>1. op' = f /\ First' = s /\ Second' = t /\ ia' = s /\ ib' = t /\ res' = 0 /\ intCount' = 0
  BY DEF SetsCall, First, Second
<1>2. CASE Shortcut(f, s, t)
  <2>1. answer' = <<t>>
    BY <1>2 DEF SetsCall
  <2>2. CASE f = "unite" /\ s = {}
    BY <1>1, <2>1, <2>2 DEF SetsInv, MergesAgree, NoAnswer, First, Second
  <2>3. CASE f = "intersect" /\ t = {}
    BY <1>1, <2>1, <2>3 DEF SetsInv, MergesAgree, NoAnswer, First, Second
  <2> QED
    BY <1>2, <2>2, <2>3 DEF Shortcut
<1>3. CASE ~Shortcut(f, s, t)
  <2>1. answer' = NoAnswer /\ target' = s
    BY <1>3 DEF SetsCall
  <2>2. OperandsOK'
    BY <1>1 DEF OperandsOK
  <2>3. Seen' = {}
    BY <1>1 DEF Seen
  <2>4. Frontier'
    BY <2>3 DEF Frontier
  <2>5. SoFar'
    <3>1. Seen' \cap OneOnly' = {} /\ Seen' \cap (First' \cap Second') = {}
      BY <2>3
    <3>2. f = "distance" => /\ res' = Cardinality(Seen' \cap OneOnly')
                            /\ intCount' = Cardinality(Seen' \cap (First' \cap Second'))
      BY <1>1, <3>1, FS_EmptySet
    <3> QED
      BY <1>1, <2>1, <3>2 DEF SoFar
  <2> QED
    BY <2>1, <2>2, <2>4, <2>5 DEF SetsInv
<1> QED
  BY <1>2, <1>3

(* What a step of a running loop leaves alone. *)
LEMMA AdvanceKeeps ==
  ASSUME NEW i, NEW j, Advance(i, j)
  PROVE  /\ op' = op /\ First' = First /\ Second' = Second /\ OneOnly' = OneOnly
         /\ answer' = answer /\ ia' = i /\ ib' = j
         /\ Seen' = (First \ i) \cup (Second \ j)
BY DEF Advance, First, Second, OneOnly, Seen

LEMMA ReturnKeeps ==
  ASSUME NEW v, Return(v)
  PROVE  op' = op /\ First' = First /\ Second' = Second /\ answer' = <<v>> /\ answer' # NoAnswer
BY DEF Return, First, Second, NoAnswer

(* Passing the lesser of the elements that the iterators are on, or the    *)
(* one that both are on, or any element of the one that has not ended.     *)
LEMMA PassFirst ==
  ASSUME OperandsOK, \A m \in Seen : \A n \in ia \cup ib : m < n,
         ia # {}, ib # {} => on(ia) < on(ib)
  PROVE  /\ on(ia) \in First /\ on(ia) \notin Second /\ on(ia) \notin Seen
         /\ next(ia) \in SUBSET ia /\ ia = next(ia) \cup {on(ia)} /\ on(ia) \notin next(ia)
         /\ (First \ next(ia)) \cup (Second \ ib) = Seen \cup {on(ia)}
         /\ \A m \in Seen \cup {on(ia)} : \A n \in next(ia) \cup ib : m < n
<1>1. ia \in SUBSET Elems /\ ib \in SUBSET Elems
  BY DEF OperandsOK
<1>2. /\ on(ia) \in ia /\ on(ia) \in Nat /\ next(ia) \in SUBSET ia
      /\ ia = next(ia) \cup {on(ia)} /\ on(ia) \notin next(ia)
      /\ \A m \in next(ia) : on(ia) < m
  BY <1>1, LeastElement
<1>3. \A m \in ib : on(ia) < m
  <2>1. CASE ib = {}
    BY <2>1
  <2>2. CASE ib # {}
    <3>1. on(ib) \in Nat /\ \A m \in ib : on(ib) <= m
      BY <1>1, <2>2, LeastElement
    <3>2. \A m \in ib : m \in Nat
      BY <1>1, ElemsAssumption
    <3> QED
      BY <1>2, <2>2, <3>1, <3>2
  <2> QED
    BY <2>1, <2>2
<1>4. on(ia) \notin ib /\ on(ia) \notin Seen
  <2>1. ~(on(ia) < on(ia))
    BY <1>2
  <2> QED
    BY <1>2, <1>3, <2>1
<1>5. on(ia) \in First /\ on(ia) \notin Second
  BY <1>2, <1>4 DEF OperandsOK, Seen
<1>6. (First \ next(ia)) \cup (Second \ ib) = Seen \cup {on(ia)}
  BY <1>2, <1>5 DEF Seen, OperandsOK
<1>7. \A m \in Seen \cup {on(ia)} : \A n \in next(ia) \cup ib : m < n
  BY <1>2, <1>3
<1> QED
  BY <1>2, <1>4, <1>5, <1>6, <1>7

LEMMA PassSecond ==
  ASSUME OperandsOK, \A m \in Seen : \A n \in ia \cup ib : m < n,
         ib # {}, ia # {} => on(ib) < on(ia)
  PROVE  /\ on(ib) \in Second /\ on(ib) \notin First /\ on(ib) \notin Seen
         /\ next(ib) \in SUBSET ib /\ ib = next(ib) \cup {on(ib)} /\ on(ib) \notin next(ib)
         /\ (First \ ia) \cup (Second \ next(ib)) = Seen \cup {on(ib)}
         /\ \A m \in Seen \cup {on(ib)} : \A n \in ia \cup next(ib) : m < n
<1>1. ia \in SUBSET Elems /\ ib \in SUBSET Elems
  BY DEF OperandsOK
<1>2. /\ on(ib) \in ib /\ on(ib) \in Nat /\ next(ib) \in SUBSET ib
      /\ ib = next(ib) \cup {on(ib)} /\ on(ib) \notin next(ib)
      /\ \A m \in next(ib) : on(ib) < m
  BY <1>1, LeastElement
<1>3. \A m \in ia : on(ib) < m
  <2>1. CASE ia = {}
    BY <2>1
  <2>2. CASE ia # {}
    <3>1. on(ia) \in Nat /\ \A m \in ia : on(ia) <= m
      BY <1>1, <2>2, LeastElement
    <3>2. \A m \in ia : m \in Nat
      BY <1>1, ElemsAssumption
    <3> QED
      BY <1>2, <2>2, <3>1, <3>2
  <2> QED
    BY <2>1, <2>2
<1>4. on(ib) \notin ia /\ on(ib) \notin Seen
  <2>1. ~(on(ib) < on(ib))
    BY <1>2
  <2> QED
    BY <1>2, <1>3, <2>1
<1>5. on(ib) \in Second /\ on(ib) \notin First
  BY <1>2, <1>4 DEF OperandsOK, Seen
<1>6. (First \ ia) \cup (Second \ next(ib)) = Seen \cup {on(ib)}
  BY <1>2, <1>5 DEF Seen, OperandsOK
<1>7. \A m \in Seen \cup {on(ib)} : \A n \in ia \cup next(ib) : m < n
  BY <1>2, <1>3
<1> QED
  BY <1>2, <1>4, <1>5, <1>6, <1>7

LEMMA PassBoth ==
  ASSUME OperandsOK, \A m \in Seen : \A n \in ia \cup ib : m < n,
         ia # {}, ib # {}, on(ia) = on(ib)
  PROVE  /\ on(ia) \in First /\ on(ia) \in Second /\ on(ia) \notin Seen
         /\ next(ia) \in SUBSET ia /\ ia = next(ia) \cup {on(ia)} /\ on(ia) \notin next(ia)
         /\ next(ib) \in SUBSET ib /\ ib = next(ib) \cup {on(ia)} /\ on(ia) \notin next(ib)
         /\ (First \ next(ia)) \cup (Second \ next(ib)) = Seen \cup {on(ia)}
         /\ \A m \in Seen \cup {on(ia)} : \A n \in next(ia) \cup next(ib) : m < n
<1>1. ia \in SUBSET Elems /\ ib \in SUBSET Elems
  BY DEF OperandsOK
<1>2. /\ on(ia) \in ia /\ on(ia) \in Nat /\ next(ia) \in SUBSET ia
      /\ ia = next(ia) \cup {on(ia)} /\ on(ia) \notin next(ia)
      /\ \A m \in next(ia) : on(ia) < m
  BY <1>1, LeastElement
<1>3. /\ on(ia) \in ib /\ next(ib) \in SUBSET ib
      /\ ib = next(ib) \cup {on(ia)} /\ on(ia) \notin next(ib)
      /\ \A m \in next(ib) : on(ia) < m
  BY <1>1, LeastElement
<1>4. on(ia) \notin Seen
  <2>1. ~(on(ia) < on(ia))
    BY <1>2
  <2> QED
    BY <1>2, <2>1
<1>5. on(ia) \in First /\ on(ia) \in Second
  BY <1>2, <1>3 DEF OperandsOK
<1>6. (First \ next(ia)) \cup (Second \ next(ib)) = Seen \cup {on(ia)}
  BY <1>2, <1>3, <1>5 DEF Seen, OperandsOK
<1>7. \A m \in Seen \cup {on(ia)} : \A n \in next(ia) \cup next(ib) : m < n
  BY <1>2, <1>3
<1> QED
  BY <1>2, <1>3, <1>4, <1>5, <1>6, <1>7

LEMMA SetsRunning ==
  ASSUME SetsInv, NEW f \in Operators, Running(f)
  PROVE  op = f /\ OperandsOK /\ Frontier /\ SoFar /\ answer = NoAnswer
BY DEF SetsInv, Running, Operators

LEMMA UniteInv == SetsInv /\ unite => SetsInv'
<1> SUFFICES ASSUME SetsInv, unite PROVE SetsInv'
  OBVIOUS
<1>1. /\ op = "unite" /\ OperandsOK /\ answer = NoAnswer
      /\ target = First \cup (Second \ ib)
  BY SetsRunning DEF unite, Operators, SoFar, Running
<1>2. CASE ib = {} /\ Return(target)
  <2>1. target = First \cup Second
    BY <1>1, <1>2
  <2> QED
    BY <1>1, <1>2, <2>1, ReturnKeeps DEF SetsInv, MergesAgree, First, Second
<1>3. CASE ib # {} /\ Advance(ia, next(ib)) /\ target' = target \cup {on(ib)}
  <2>1. /\ on(ib) \in Second /\ next(ib) \in SUBSET ib /\ ib = next(ib) \cup {on(ib)}
        /\ on(ib) \notin next(ib)
    BY <1>1, <1>3, LeastElement DEF OperandsOK
  <2>2. OperandsOK'
    BY <1>1, <1>3, <2>1, AdvanceKeeps DEF OperandsOK
  <2>3. target' = First' \cup (Second' \ ib')
    BY <1>1, <1>3, <2>1, AdvanceKeeps DEF OperandsOK
  <2>4. op' = "unite" /\ answer' = NoAnswer
    BY <1>1, <1>3, AdvanceKeeps
  <2> QED
    BY <2>2, <2>3, <2>4 DEF SetsInv, Frontier, SoFar
<1> QED
  BY <1>2, <1>3 DEF unite

LEMMA IntersectInv == SetsInv /\ intersect => SetsInv'
<1> SUFFICES ASSUME SetsInv, intersect PROVE SetsInv'
  OBVIOUS
<1>1. /\ op = "intersect" /\ OperandsOK /\ answer = NoAnswer
      /\ \A m \in Seen : \A n \in ia \cup ib : m < n
      /\ target = ((First \ ia) \cap Second) \cup ia
  BY SetsRunning DEF intersect, Operators, SoFar, Frontier, Running
<1>2. CASE ia = {} /\ Return(target)
  <2>1. target = First \cap Second
    BY <1>1, <1>2
  <2> QED
    BY <1>1, <1>2, <2>1, ReturnKeeps DEF SetsInv, MergesAgree, First, Second
<1> DEFINE Goal == /\ op' = op /\ answer' = answer /\ OperandsOK'
                   /\ \A m \in Seen' : \A n \in ia' \cup ib' : m < n
                   /\ target' = ((First' \ ia') \cap Second') \cup ia'
<1>3. CASE ia # {} /\ ib # {} /\ on(ib) < on(ia) /\ Advance(ia, next(ib)) /\ target' = target
  <2>1. Goal
    BY <1>1, <1>3, PassSecond, AdvanceKeeps DEF OperandsOK
  <2> QED
    BY <1>1, <2>1 DEF SetsInv, Frontier, SoFar
<1>4. CASE /\ ia # {} /\ (ib # {} => on(ia) < on(ib)) /\ Advance(next(ia), ib)
           /\ target' = target \ {on(ia)}
  <2>1. Goal
    BY <1>1, <1>4, PassFirst, AdvanceKeeps DEF OperandsOK
  <2> QED
    BY <1>1, <2>1 DEF SetsInv, Frontier, SoFar
<1>5. CASE /\ ia # {} /\ ib # {} /\ on(ia) = on(ib) /\ Advance(next(ia), next(ib))
           /\ target' = target
  <2>1. Goal
    BY <1>1, <1>5, PassBoth, AdvanceKeeps DEF OperandsOK
  <2> QED
    BY <1>1, <2>1 DEF SetsInv, Frontier, SoFar
<1> QED
  BY <1>2, <1>3, <1>4, <1>5 DEF intersect

LEMMA SubtractInv == SetsInv /\ subtract => SetsInv'
<1> SUFFICES ASSUME SetsInv, subtract PROVE SetsInv'
  OBVIOUS
<1>1. /\ op = "subtract" /\ OperandsOK /\ answer = NoAnswer
      /\ \A m \in Seen : \A n \in ia \cup ib : m < n
      /\ target = ((First \ ia) \ Second) \cup ia
  BY SetsRunning DEF subtract, Operators, SoFar, Frontier, Running
<1>2. CASE (ia = {} \/ ib = {}) /\ Return(target)
  <2>1. ia \cap Second = {}
    <3>1. CASE ia = {}
      BY <3>1
    <3>2. CASE ib = {}
      <4>1. Second \subseteq Seen
        BY <3>2 DEF Seen
      <4>2. \A m \in ia : m \in Nat /\ ~(m < m)
        BY <1>1, ElemsAssumption DEF OperandsOK
      <4> QED
        BY <1>1, <4>1, <4>2
    <3> QED
      BY <1>2, <3>1, <3>2
  <2>2. target = First \ Second
    BY <1>1, <2>1 DEF OperandsOK
  <2> QED
    BY <1>1, <1>2, <2>2, ReturnKeeps DEF SetsInv, MergesAgree, First, Second
<1> DEFINE Goal == /\ op' = op /\ answer' = answer /\ OperandsOK'
                   /\ \A m \in Seen' : \A n \in ia' \cup ib' : m < n
                   /\ target' = ((First' \ ia') \ Second') \cup ia'
<1>3. CASE ia # {} /\ ib # {} /\ on(ib) < on(ia) /\ Advance(ia, next(ib)) /\ target' = target
  <2>1. Goal
    BY <1>1, <1>3, PassSecond, AdvanceKeeps DEF OperandsOK
  <2> QED
    BY <1>1, <2>1 DEF SetsInv, Frontier, SoFar
<1>4. CASE ia # {} /\ ib # {} /\ on(ia) < on(ib) /\ Advance(next(ia), ib) /\ target' = target
  <2>1. Goal
    BY <1>1, <1>4, PassFirst, AdvanceKeeps DEF OperandsOK
  <2> QED
    BY <1>1, <2>1 DEF SetsInv, Frontier, SoFar
<1>5. CASE /\ ia # {} /\ ib # {} /\ on(ia) = on(ib) /\ Advance(next(ia), next(ib))
           /\ target' = target \ {on(ia)}
  <2>1. Goal
    BY <1>1, <1>5, PassBoth, AdvanceKeeps DEF OperandsOK
  <2> QED
    BY <1>1, <2>1 DEF SetsInv, Frontier, SoFar
<1> QED
  BY <1>2, <1>3, <1>4, <1>5 DEF subtract

LEMMA IncludedInv == SetsInv /\ included => SetsInv'
<1> SUFFICES ASSUME SetsInv, included PROVE SetsInv'
  OBVIOUS
<1>1. /\ op = "included" /\ OperandsOK /\ answer = NoAnswer
      /\ \A m \in Seen : \A n \in ia \cup ib : m < n
      /\ First \ ia \subseteq Second
  BY SetsRunning DEF included, Operators, SoFar, Frontier, Running
<1>2. CASE (ia = {} \/ ib = {}) /\ Return(ia = {})
  <2>1. CASE ia = {}
    <3>1. First \subseteq Second
      BY <1>1, <2>1
    <3>2. (ia = {}) = (First \subseteq Second)
      BY <2>1, <3>1
    <3> QED
      BY <1>1, <1>2, <3>2, ReturnKeeps DEF SetsInv, MergesAgree, First, Second
  <2>2. CASE ib = {} /\ ia # {}
    <3>1. Second \subseteq Seen
      BY <2>2 DEF Seen
    <3>2. \A m \in ia : m \in First /\ m \in Nat /\ ~(m < m)
      BY <1>1, ElemsAssumption DEF OperandsOK
    <3>3. ~(First \subseteq Second)
      BY <1>1, <2>2, <3>1, <3>2
    <3>4. (ia = {}) = (First \subseteq Second)
      BY <2>2, <3>3
    <3> QED
      BY <1>1, <1>2, <3>4, ReturnKeeps DEF SetsInv, MergesAgree, First, Second
  <2> QED
    BY <1>2, <2>1, <2>2
<1>3. CASE ia # {} /\ ib # {} /\ on(ia) < on(ib) /\ Return(FALSE)
  <2>1. ~(First \subseteq Second)
    BY <1>1, <1>3, PassFirst
  <2>2. FALSE = (First \subseteq Second)
    BY <2>1
  <2> QED
    BY <1>1, <1>3, <2>2, ReturnKeeps DEF SetsInv, MergesAgree, First, Second
<1> DEFINE Goal == /\ op' = op /\ answer' = answer /\ OperandsOK'
                   /\ \A m \in Seen' : \A n \in ia' \cup ib' : m < n
                   /\ First' \ ia' \subseteq Second'
<1>4. CASE ia # {} /\ ib # {} /\ on(ia) = on(ib) /\ Advance(next(ia), next(ib))
  <2>1. Goal
    BY <1>1, <1>4, PassBoth, AdvanceKeeps DEF OperandsOK
  <2> QED
    BY <1>1, <2>1 DEF SetsInv, Frontier, SoFar
<1>5. CASE ia # {} /\ ib # {} /\ on(ib) < on(ia) /\ Advance(ia, next(ib))
  <2>1. Goal
    BY <1>1, <1>5, PassSecond, AdvanceKeeps DEF OperandsOK
  <2> QED
    BY <1>1, <2>1 DEF SetsInv, Frontier, SoFar
<1> QED
  BY <1>2, <1>3, <1>4, <1>5 DEF included

LEMMA DistanceInv == SetsInv /\ distance => SetsInv'
<1> SUFFICES ASSUME SetsInv, distance PROVE SetsInv'
  OBVIOUS
<1>1. /\ op = "distance" /\ OperandsOK /\ answer = NoAnswer
      /\ \A m \in Seen : \A n \in ia \cup ib : m < n
      /\ res = Cardinality(Seen \cap OneOnly)
      /\ intCount = Cardinality(Seen \cap (First \cap Second))
  BY SetsRunning DEF distance, Operators, SoFar, Frontier, Running
<1>2. IsFiniteSet(Seen \cap OneOnly) /\ IsFiniteSet(Seen \cap (First \cap Second))
  <2>1. IsFiniteSet(First \cup Second)
    BY <1>1, FS_Union DEF OperandsOK
  <2>2. /\ Seen \cap OneOnly \in SUBSET (First \cup Second)
        /\ Seen \cap (First \cap Second) \in SUBSET (First \cup Second)
    BY DEF Seen
  <2> QED
    BY <2>1, <2>2, FS_Subset
<1>3. CASE ia = {} /\ ib = {} /\ Return(IF intCount # 0 THEN res ELSE -1)
  <2>1. Seen \cap OneOnly = OneOnly /\ Seen \cap (First \cap Second) = First \cap Second
    BY <1>3 DEF Seen, OneOnly
  <2>2. intCount = 0 <=> First \cap Second = {}
    BY <1>1, <1>2, <2>1, FS_EmptySet
  <2>3. (IF intCount # 0 THEN res ELSE -1)
          = IF First \cap Second = {} THEN -1 ELSE Cardinality(OneOnly)
    BY <1>1, <2>1, <2>2
  <2> QED
    BY <1>1, <1>3, <2>3, ReturnKeeps DEF SetsInv, MergesAgree, First, Second, OneOnly
<1> DEFINE Goal == /\ op' = op /\ answer' = answer /\ OperandsOK'
                   /\ \A m \in Seen' : \A n \in ia' \cup ib' : m < n
                   /\ res' = Cardinality(Seen' \cap OneOnly')
                   /\ intCount' = Cardinality(Seen' \cap (First' \cap Second'))
<1>4. ASSUME NEW e, e \notin Seen, e \in OneOnly, Seen' = Seen \cup {e}, OneOnly' = OneOnly,
             First' = First, Second' = Second, res' = res + 1, intCount' = intCount
      PROVE  /\ res' = Cardinality(Seen' \cap OneOnly')
             /\ intCount' = Cardinality(Seen' \cap (First' \cap Second'))
  <2>1. Seen' \cap OneOnly' = (Seen \cap OneOnly) \cup {e}
    BY <1>4
  <2>2. Seen' \cap (First' \cap Second') = Seen \cap (First \cap Second)
    BY <1>4 DEF OneOnly
  <2>3. Cardinality((Seen \cap OneOnly) \cup {e}) = Cardinality(Seen \cap OneOnly) + 1
    BY <1>2, <1>4, OneMore
  <2> QED
    BY <1>1, <1>4, <2>1, <2>2, <2>3
<1>5. CASE /\ ia # {} /\ (ib # {} => on(ia) < on(ib)) /\ Advance(next(ia), ib)
           /\ res' = res + 1 /\ intCount' = intCount
  <2>1. op' = op /\ answer' = answer /\ OperandsOK' /\ Seen' = Seen \cup {on(ia)}
    BY <1>1, <1>5, PassFirst, AdvanceKeeps DEF OperandsOK
  <2>2. \A m \in Seen' : \A n \in ia' \cup ib' : m < n
    BY <1>1, <1>5, PassFirst, AdvanceKeeps
  <2>3. on(ia) \notin Seen /\ on(ia) \in OneOnly
    BY <1>1, <1>5, PassFirst DEF OneOnly
  <2>4. Goal
    BY <1>4, <1>5, <2>1, <2>2, <2>3, AdvanceKeeps
  <2> QED
    BY <1>1, <2>4 DEF SetsInv, Frontier, SoFar
<1>6. CASE /\ ib # {} /\ (ia # {} => on(ib) < on(ia)) /\ Advance(ia, next(ib))
           /\ res' = res + 1 /\ intCount' = intCount
  <2>1. op' = op /\ answer' = answer /\ OperandsOK' /\ Seen' = Seen \cup {on(ib)}
    BY <1>1, <1>6, PassSecond, AdvanceKeeps DEF OperandsOK
  <2>2. \A m \in Seen' : \A n \in ia' \cup ib' : m < n
    BY <1>1, <1>6, PassSecond, AdvanceKeeps
  <2>3. on(ib) \notin Seen /\ on(ib) \in OneOnly
    BY <1>1, <1>6, PassSecond DEF OneOnly
  <2>4. Goal
    BY <1>4, <1>6, <2>1, <2>2, <2>3, AdvanceKeeps
  <2> QED
    BY <1>1, <2>4 DEF SetsInv, Frontier, SoFar
<1>7. CASE /\ ia # {} /\ ib # {} /\ on(ia) = on(ib) /\ Advance(next(ia), next(ib))
           /\ intCount' = intCount + 1 /\ res' = res
  <2>1. op' = op /\ answer' = answer /\ OperandsOK' /\ Seen' = Seen \cup {on(ia)}
    BY <1>1, <1>7, PassBoth, AdvanceKeeps DEF OperandsOK
  <2>2. \A m \in Seen' : \A n \in ia' \cup ib' : m < n
    BY <1>1, <1>7, PassBoth, AdvanceKeeps
  <2>3. on(ia) \notin Seen /\ on(ia) \in First \cap Second
    BY <1>1, <1>7, PassBoth
  <2>4. Seen' \cap OneOnly' = Seen \cap OneOnly
    BY <1>7, <2>1, <2>3, AdvanceKeeps DEF OneOnly
  <2>5. Seen' \cap (First' \cap Second') = (Seen \cap (First \cap Second)) \cup {on(ia)}
    BY <1>7, <2>1, <2>3, AdvanceKeeps
  <2>6. Cardinality((Seen \cap (First \cap Second)) \cup {on(ia)})
          = Cardinality(Seen \cap (First \cap Second)) + 1
    BY <1>2, <2>3, OneMore
  <2>7. Goal
    BY <1>1, <1>7, <2>1, <2>2, <2>4, <2>5, <2>6
  <2> QED
    BY <1>1, <2>7 DEF SetsInv, Frontier, SoFar
<1> QED
  BY <1>3, <1>5, <1>6, <1>7 DEF distance

(* A call leaves no step but those of its own loop, and these keep what    *)
(* the loop has done so far right.                                         *)
THEOREM SetsInvInductive == SetsInv /\ [SetsNext]_setsVars => SetsInv'
<1> SUFFICES ASSUME SetsInv, [SetsNext]_setsVars PROVE SetsInv'
  OBVIOUS
<1>1. CASE \E f \in Operators, s, t \in {w \in SUBSET Elems : IsFiniteSet(w)} : SetsCall(f, s, t)
  BY <1>1, SetsCallInv
<1>2. CASE unite \/ intersect \/ subtract \/ included \/ distance
  BY <1>2, UniteInv, IntersectInv, SubtractInv, IncludedInv, DistanceInv
<1>3. CASE UNCHANGED setsVars
  <2>1. First' = First /\ Second' = Second
    BY <1>3 DEF setsVars, First, Second
  <2>2. Seen' = Seen /\ OneOnly' = OneOnly
    BY <1>3, <2>1 DEF setsVars, Seen, OneOnly
  <2>3. (OperandsOK <=> OperandsOK') /\ (Frontier <=> Frontier') /\ (SoFar <=> SoFar')
    BY <1>3, <2>1, <2>2 DEF setsVars, OperandsOK, Frontier, SoFar
  <2>4. MergesAgree <=> MergesAgree'
    BY <1>3 DEF setsVars, MergesAgree
  <2> QED
    BY <1>3, <2>3, <2>4 DEF setsVars, SetsInv
<1> QED
  BY <1>1, <1>2, <1>3 DEF SetsNext

(* The loops of operators.h:101-194 and set.h:34-62 compute union,         *)
(* intersection, difference, inclusion and distance of any two finite      *)
(* sets of numbers, however the elements interleave.                       *)
THEOREM MergesCorrect == SetsSpec => []MergesAgree
<1>1. SetsInit => SetsInv
  BY DEF SetsInit, SetsInv
<1>2. SetsInv => MergesAgree
  BY DEF SetsInv, MergesAgree
<1> QED
  BY <1>1, <1>2, SetsInvInductive, PTL DEF SetsSpec

-----------------------------------------------------------------------------
(* Texts, of Text.  Sequences of characters first.                         *)

Codes == 0..255
String == Seq(Codes)

(* A length is a natural number.                                           *)
LEMMA LenNat == ASSUME NEW s \in String PROVE Len(s) \in Nat
BY DEF String

(* The characters of two strings put together.                             *)
LEMMA CatFacts ==
  ASSUME NEW s \in String, NEW t \in String
  PROVE  /\ s \o t \in String /\ Len(s \o t) = Len(s) + Len(t)
         /\ \A k \in 1..Len(s) : (s \o t)[k] = s[k]
         /\ \A k \in 1..Len(t) : (s \o t)[Len(s) + k] = t[k]
BY DEF String

(* Strings are equal when their characters are.                            *)
LEMMA SameString ==
  ASSUME NEW s \in String, NEW t \in String, Len(s) = Len(t), \A k \in 1..Len(s) : s[k] = t[k]
  PROVE  s = t
BY DEF String

(* The characters of a part of a string.                                   *)
LEMMA PieceFacts ==
  ASSUME NEW s \in String, NEW i \in 1..(Len(s) + 1), NEW j \in 0..Len(s)
  PROVE  /\ SubSeq(s, i, j) \in String
         /\ Len(SubSeq(s, i, j)) = IF i <= j THEN j - i + 1 ELSE 0
         /\ \A k \in 1..Len(SubSeq(s, i, j)) : SubSeq(s, i, j)[k] = s[i + k - 1]
<1>1. Len(s) \in Nat /\ s \in [1..Len(s) -> Codes]
  BY DEF String
<1>2. SubSeq(s, i, j) = [k \in 1..(j - i + 1) |-> s[i + k - 1]]
  OBVIOUS
<1>3. CASE i <= j
  <2> DEFINE t == SubSeq(s, i, j)
             m == j - i + 1
  <2>1. \A k \in 1..m : i + k - 1 \in 1..Len(s)
    BY <1>1, <1>3
  <2>2. t \in [1..m -> Codes] /\ m \in Nat
    <3>1. \A k \in 1..m : s[i + k - 1] \in Codes
      BY <1>1, <2>1
    <3>2. m \in Nat
      BY <1>1, <1>3
    <3> QED
      BY <1>2, <3>1, <3>2
  <2>3. \A k \in 1..m : t[k] = s[i + k - 1]
    BY <1>2
  <2> HIDE DEF t, m
  <2>4. t \in Seq(Codes) /\ Len(t) = m
    BY <2>2
  <2> QED
    BY <1>3, <2>3, <2>4 DEF String, t, m
<1>4. CASE ~(i <= j)
  <2>1. SubSeq(s, i, j) = <<>>
    BY <1>4
  <2> QED
    BY <1>4, <2>1 DEF String
<1> QED
  BY <1>3, <1>4

(* The characters of its beginning.                                        *)
LEMMA FrontFacts ==
  ASSUME NEW s \in String, NEW j \in 0..Len(s)
  PROVE  /\ SubSeq(s, 1, j) \in String /\ Len(SubSeq(s, 1, j)) = j
         /\ \A k \in 1..j : SubSeq(s, 1, j)[k] = s[k]
<1> DEFINE d == SubSeq(s, 1, j)
<1>1. 1 \in 1..(Len(s) + 1) /\ (IF 1 <= j THEN j - 1 + 1 ELSE 0) = j
  BY LenNat
<1>2. /\ d \in String /\ Len(d) = IF 1 <= j THEN j - 1 + 1 ELSE 0
      /\ \A k \in 1..Len(d) : d[k] = s[1 + k - 1]
  BY <1>1, PieceFacts
<1> HIDE DEF d
<1>3. \A k \in 1..j : 1 + k - 1 = k
  OBVIOUS
<1>4. Len(d) = j
  BY <1>1, <1>2
<1>5. \A k \in 1..j : d[k] = s[k]
  BY <1>2, <1>3, <1>4
<1> QED
  BY <1>2, <1>4, <1>5 DEF d

-----------------------------------------------------------------------------
(* What FlattenSeq makes of pieces.                                        *)

UpTo(seqs) ==
  LET flatten[i \in 1..Len(seqs)] ==
        IF i = 1 THEN seqs[i] ELSE flatten[i - 1] \o seqs[i]
  IN  flatten

(* FlattenSeq is the last value of any solution of its recursion.          *)
LEMMA FlattenIsLast ==
  ASSUME NEW seqs, Len(seqs) # 0
  PROVE  FlattenSeq(seqs) = UpTo(seqs)[Len(seqs)]
BY DEF FlattenSeq, UpTo

(* The recursion has a solution.                                           *)
LEMMA UpToExists ==
  ASSUME NEW p, NEW l \in Nat \ {0}
  PROVE  \E f : f = [i \in 1..l |-> IF i = 1 THEN p[i] ELSE f[i - 1] \o p[i]]
<1> DEFINE Solved(m) == \E f : f = [i \in 1..m |-> IF i = 1 THEN p[i] ELSE f[i - 1] \o p[i]]
           T == {m \in Nat \ {0} : ~Solved(m)}
<1>1. Solved(1)
  <2> DEFINE f == [i \in 1..1 |-> p[i]]
  <2>1. f = [i \in 1..1 |-> IF i = 1 THEN p[i] ELSE f[i - 1] \o p[i]]
    OBVIOUS
  <2> HIDE DEF f
  <2> QED
    BY <2>1
<1>2. ASSUME NEW m \in Nat \ {0}, Solved(m)
      PROVE  Solved(m + 1)
  <2>1. PICK f : f = [i \in 1..m |-> IF i = 1 THEN p[i] ELSE f[i - 1] \o p[i]]
    BY <1>2
  <2> DEFINE g == [i \in 1..(m + 1) |-> IF i = m + 1 THEN f[m] \o p[i] ELSE f[i]]
             h == [i \in 1..(m + 1) |-> IF i = 1 THEN p[i] ELSE g[i - 1] \o p[i]]
  <2>2. ASSUME NEW i \in 1..(m + 1)
        PROVE  g[i] = IF i = 1 THEN p[i] ELSE g[i - 1] \o p[i]
    <3>1. CASE i = m + 1
      <4>1. i - 1 \in 1..(m + 1) /\ i - 1 # m + 1 /\ i - 1 = m /\ i # 1
        BY <3>1
      <4>2. g[i] = f[m] \o p[i] /\ g[i - 1] = f[m]
        BY <3>1, <4>1
      <4> QED
        BY <4>1, <4>2
    <3>2. CASE i # m + 1 /\ i # 1
      <4>1. i \in 1..m /\ i - 1 \in 1..(m + 1) /\ i - 1 # m + 1
        BY <3>2
      <4>2. g[i] = f[i] /\ g[i - 1] = f[i - 1]
        BY <3>2, <4>1
      <4>3. f[i] = f[i - 1] \o p[i]
        BY <2>1, <3>2, <4>1
      <4> QED
        BY <3>2, <4>2, <4>3
    <3>3. CASE i # m + 1 /\ i = 1
      <4>1. i \in 1..m
        BY <3>3
      <4>2. g[i] = f[i] /\ f[i] = p[i]
        BY <2>1, <3>3, <4>1
      <4> QED
        BY <3>3, <4>2
    <3> QED
      BY <3>1, <3>2, <3>3
  <2>3. g = h
    <3>1. \A i \in 1..(m + 1) : g[i] = h[i]
      BY <2>2
    <3> QED
      BY <3>1
  <2> HIDE DEF g
  <2> QED
    BY <2>3
<1>3. ASSUME T # {}
      PROVE  FALSE
  <2>1. PICK m \in T : \A k \in T : m <= k
    BY <1>3, LeastNatural
  <2>2. m # 1
    BY <1>1, <2>1
  <2>3. m - 1 \in Nat \ {0} /\ ~(m - 1 >= m) /\ (m - 1) + 1 = m
    BY <2>1, <2>2
  <2>4. m - 1 \notin T
    BY <2>1, <2>3
  <2>5. Solved(m - 1)
    BY <2>3, <2>4
  <2> HIDE DEF Solved
  <2>6. Solved((m - 1) + 1)
    BY <1>2, <2>3, <2>5
  <2> QED
    BY <2>1, <2>3, <2>6
<1> QED
  BY <1>3

(* Two sequences put together.                                             *)
LEMMA CatOf ==
  ASSUME NEW S, NEW s \in Seq(S), NEW t \in Seq(S)
  PROVE  /\ s \o t \in Seq(S) /\ Len(s \o t) = Len(s) + Len(t)
         /\ Len(s) \in Nat /\ Len(t) \in Nat
         /\ \A k \in 1..Len(s) : (s \o t)[k] = s[k]
         /\ \A k \in 1..Len(t) : (s \o t)[Len(s) + k] = t[k]
OBVIOUS

(* The order in which three sequences are put together does not matter.    *)
LEMMA CatOfThree ==
  ASSUME NEW S, NEW s \in Seq(S), NEW t \in Seq(S), NEW u \in Seq(S)
  PROVE  (s \o t) \o u = s \o (t \o u)
OBVIOUS

(* UpTo is a solution, and FlattenSeq its last value.                      *)
LEMMA UpToOf ==
  ASSUME NEW S, NEW seqs \in Seq(Seq(S)), seqs # <<>>
  PROVE  /\ Len(seqs) \in Nat \ {0} /\ seqs \in [1..Len(seqs) -> Seq(S)]
         /\ UpTo(seqs) \in [1..Len(seqs) -> Seq(S)]
         /\ UpTo(seqs)[1] = seqs[1]
         /\ \A i \in 1..(Len(seqs) - 1) : UpTo(seqs)[i + 1] = UpTo(seqs)[i] \o seqs[i + 1]
         /\ FlattenSeq(seqs) = UpTo(seqs)[Len(seqs)]
<1> DEFINE l == Len(seqs)
           f == UpTo(seqs)
<1>1. l \in Nat \ {0} /\ seqs \in [1..l -> Seq(S)]
  OBVIOUS
<1>2. f = [i \in 1..l |-> IF i = 1 THEN seqs[i] ELSE f[i - 1] \o seqs[i]]
  <2> DEFINE Solution(g) == g = [i \in 1..l |-> IF i = 1 THEN seqs[i] ELSE g[i - 1] \o seqs[i]]
  <2>1. \E g : Solution(g)
    <3> HIDE DEF l
    <3> QED
      BY <1>1, UpToExists
  <2>2. f = CHOOSE g : Solution(g)
    BY DEF UpTo
  <2>3. Solution(f)
    <3> HIDE DEF Solution, f
    <3> QED
      BY <2>1, <2>2
  <2> QED
    BY <2>3
<1> HIDE DEF f, l
<1>3. \A i \in 1..l : f[i] = IF i = 1 THEN seqs[i] ELSE f[i - 1] \o seqs[i]
  BY <1>2, Zenon
<1>4. f[1] = seqs[1]
  <2>1. 1 \in 1..l
    BY <1>1
  <2> QED
    BY <1>3, <2>1
<1>5. ASSUME NEW i \in 1..(l - 1)
      PROVE  f[i + 1] = f[i] \o seqs[i + 1]
  <2>1. i + 1 \in 1..l /\ i + 1 # 1 /\ (i + 1) - 1 = i
    BY <1>1
  <2>2. f[i + 1] = f[(i + 1) - 1] \o seqs[i + 1]
    BY <1>3, <2>1
  <2> QED
    BY <2>1, <2>2
<1>6. \A i \in 1..l : f[i] \in Seq(S)
  <2> DEFINE T == {i \in 1..l : f[i] \notin Seq(S)}
  <2>1. ASSUME T # {}
        PROVE  FALSE
    <3>1. T \in SUBSET Nat
      BY <1>1
    <3>2. PICK i \in T : \A k \in T : i <= k
      BY <2>1, <3>1, LeastNatural
    <3>3. i # 1
      <4>1. seqs[1] \in Seq(S)
        BY <1>1
      <4> QED
        BY <1>4, <3>2, <4>1
    <3>4. i \in 1..l /\ i - 1 \in 1..l /\ ~(i <= i - 1)
      BY <1>1, <3>2, <3>3
    <3>5. f[i - 1] \in Seq(S)
      BY <3>2, <3>4
    <3>6. f[i] = f[i - 1] \o seqs[i]
      BY <1>3, <3>3, <3>4
    <3>7. seqs[i] \in Seq(S)
      BY <1>1, <3>4
    <3>8. f[i - 1] \o seqs[i] \in Seq(S)
      BY <3>5, <3>7, CatOf
    <3> QED
      BY <3>2, <3>6, <3>8
  <2> QED
    BY <2>1
<1>7. FlattenSeq(seqs) = f[l]
  BY <1>1, FlattenIsLast DEF l, f
<1>8. f \in [1..l -> Seq(S)]
  <2> DEFINE g(i) == IF i = 1 THEN seqs[i] ELSE f[i - 1] \o seqs[i]
  <2>1. f = [i \in 1..l |-> g(i)]
    BY <1>2
  <2> HIDE DEF g
  <2>2. f = [i \in 1..l |-> f[i]]
    BY <2>1
  <2> QED
    BY <1>6, <2>2
<1> QED
  BY <1>1, <1>4, <1>5, <1>7, <1>8 DEF f, l

(* A sequence with one element more, behind or in front.                   *)
LEMMA AppendOf ==
  ASSUME NEW S, NEW p \in Seq(S), NEW x \in S
  PROVE  /\ Append(p, x) \in Seq(S) /\ Append(p, x) # <<>>
         /\ Len(p) \in Nat /\ Len(Append(p, x)) = Len(p) + 1
         /\ Append(p, x)[Len(p) + 1] = x
         /\ \A i \in 1..Len(p) : Append(p, x)[i] = p[i]
OBVIOUS

(* An element put in front.                                                *)
LEMMA PrependOf ==
  ASSUME NEW S, NEW p \in Seq(S), NEW x \in S
  PROVE  /\ <<x>> \o p \in Seq(S) /\ <<x>> \o p # <<>>
         /\ Len(p) \in Nat /\ Len(<<x>> \o p) = Len(p) + 1
         /\ (<<x>> \o p)[1] = x
         /\ \A i \in 1..Len(p) : (<<x>> \o p)[i + 1] = p[i]
OBVIOUS

(* The same of strings.                                                    *)
LEMMA UpToFacts ==
  ASSUME NEW seqs \in Seq(String), seqs # <<>>
  PROVE  /\ Len(seqs) \in Nat \ {0} /\ seqs \in [1..Len(seqs) -> String]
         /\ UpTo(seqs) \in [1..Len(seqs) -> String]
         /\ UpTo(seqs)[1] = seqs[1]
         /\ \A i \in 1..(Len(seqs) - 1) : UpTo(seqs)[i + 1] = UpTo(seqs)[i] \o seqs[i + 1]
         /\ FlattenSeq(seqs) = UpTo(seqs)[Len(seqs)]
BY UpToOf DEF String

(* What is put together first is what the whole begins with.               *)
LEMMA UpToIsPrefix ==
  ASSUME NEW seqs \in Seq(String), seqs # <<>>,
         NEW i \in 1..Len(seqs), NEW j \in 1..Len(seqs), i <= j
  PROVE  /\ Len(UpTo(seqs)[i]) <= Len(UpTo(seqs)[j])
         /\ \A k \in 1..Len(UpTo(seqs)[i]) : UpTo(seqs)[j][k] = UpTo(seqs)[i][k]
<1> DEFINE l == Len(seqs)
           f == UpTo(seqs)
           Begins(m) == Len(f[i]) <= Len(f[m]) /\ \A k \in 1..Len(f[i]) : f[m][k] = f[i][k]
           T == {m \in i..l : ~Begins(m)}
<1>1. /\ l \in Nat \ {0} /\ seqs \in [1..l -> String] /\ f \in [1..l -> String]
      /\ \A m \in 1..(l - 1) : f[m + 1] = f[m] \o seqs[m + 1]
  BY UpToFacts
<1> HIDE DEF f, l
<1>2. ASSUME T # {}
      PROVE  FALSE
  <2>1. T \in SUBSET Nat
    BY <1>1 DEF l
  <2>2. PICK m \in T : \A k \in T : m <= k
    BY <1>2, <2>1, LeastNatural
  <2>3. m # i /\ m \in i..l
    <3>1. f[i] \in String
      BY <1>1 DEF l
    <3>2. Begins(i)
      BY <3>1 DEF String
    <3> QED
      BY <2>2, <3>2
  <2>4. /\ m - 1 \in i..l /\ m - 1 \in 1..(l - 1) /\ (m - 1) + 1 = m
        /\ m \in 1..l /\ m - 1 \in 1..l /\ i \in 1..l
    BY <1>1, <2>3 DEF l
  <2>5. Begins(m - 1)
    <3>1. ~(m <= m - 1)
      BY <2>4
    <3>2. m - 1 \notin T
      BY <2>2, <3>1, Zenon
    <3> HIDE DEF Begins
    <3> QED
      BY <2>4, <3>2
  <2>6. f[m] = f[m - 1] \o seqs[m]
    <3>1. f[(m - 1) + 1] = f[m - 1] \o seqs[(m - 1) + 1]
      BY <1>1, <2>4
    <3> QED
      BY <2>4, <3>1
  <2> DEFINE a == f[m - 1]
             b == seqs[m]
             x == f[i]
  <2>7. a \in String /\ b \in String /\ x \in String
    BY <1>1, <2>4
  <2>8. Len(a \o b) = Len(a) + Len(b) /\ \A k \in 1..Len(a) : (a \o b)[k] = a[k]
    BY <2>7, CatFacts
  <2>9. Len(a) \in Nat /\ Len(b) \in Nat /\ Len(x) \in Nat /\ Len(x) <= Len(a)
        /\ \A k \in 1..Len(x) : a[k] = x[k]
    <3>1. Len(a) \in Nat /\ Len(b) \in Nat /\ Len(x) \in Nat
      BY <2>7, LenNat, Zenon
    <3>2. Len(x) <= Len(a) /\ \A k \in 1..Len(x) : a[k] = x[k]
      BY <2>5
    <3> QED
      BY <3>1, <3>2
  <2>10. Len(x) <= Len(a \o b) /\ \A k \in 1..Len(x) : (a \o b)[k] = x[k]
    <3> HIDE DEF a, b, x
    <3> QED
      BY <2>8, <2>9
  <2>11. Begins(m)
    BY <2>6, <2>10
  <2> QED
    BY <2>2, <2>11
<1>3. j \in i..l
  BY <1>1 DEF l
<1>4. Begins(j)
  BY <1>2, <1>3
<1> QED
  BY <1>4 DEF f

(* Piece i stands behind the first From(seqs, i) characters.               *)
From(seqs, i) == IF i = 1 THEN 0 ELSE Len(UpTo(seqs)[i - 1])

LaidOut(seqs) ==
  /\ FlattenSeq(seqs) \in String
  /\ \A i \in 1..(Len(seqs) + 1) : From(seqs, i) \in 0..Len(FlattenSeq(seqs))
  /\ From(seqs, 1) = 0 /\ From(seqs, Len(seqs) + 1) = Len(FlattenSeq(seqs))
  /\ \A i \in 1..Len(seqs) : From(seqs, i + 1) = From(seqs, i) + Len(seqs[i])
  /\ \A i \in 1..Len(seqs) : \A k \in 1..Len(seqs[i]) :
       FlattenSeq(seqs)[From(seqs, i) + k] = seqs[i][k]

(* FlattenSeq lays its pieces out one behind the other.                    *)
LEMMA FlattenLaysOut ==
  ASSUME NEW seqs \in Seq(String)
  PROVE  LaidOut(seqs)
<1>1. CASE seqs = <<>>
  <2>1. FlattenSeq(seqs) = <<>> /\ Len(seqs) = 0 /\ <<>> \in String /\ Len(<<>>) = 0
    BY <1>1 DEF FlattenSeq, String
  <2>2. From(seqs, 1) = 0 /\ Len(seqs) + 1 = 1
    BY <2>1 DEF From
  <2> QED
    BY <2>1, <2>2 DEF LaidOut
<1>2. CASE seqs # <<>>
  <2> DEFINE l == Len(seqs)
             f == UpTo(seqs)
             w == FlattenSeq(seqs)
  <2>1. /\ l \in Nat \ {0} /\ seqs \in [1..l -> String] /\ f \in [1..l -> String]
        /\ f[1] = seqs[1] /\ w = f[l]
        /\ \A m \in 1..(l - 1) : f[m + 1] = f[m] \o seqs[m + 1]
    BY <1>2, UpToFacts
  <2>2. ASSUME NEW i \in 1..l
        PROVE  /\ Len(f[i]) \in 0..Len(w) /\ Len(w) \in Nat
               /\ \A k \in 1..Len(f[i]) : w[k] = f[i][k]
    <3>1. l \in 1..l /\ i <= l
      BY <2>1
    <3>2. Len(f[i]) <= Len(f[l]) /\ \A k \in 1..Len(f[i]) : f[l][k] = f[i][k]
      BY <1>2, <3>1, UpToIsPrefix
    <3>3. f[i] \in String /\ f[l] \in String
      BY <2>1, <3>1
    <3>4. Len(f[i]) \in Nat /\ Len(f[l]) \in Nat
      BY <3>3, LenNat
    <3> HIDE DEF f, l, w
    <3> QED
      BY <2>1, <3>2, <3>4
  <2>3. w \in String /\ l \in 1..l
    BY <2>1
  <2>4. ASSUME NEW i \in 1..l
        PROVE  /\ From(seqs, i + 1) = Len(f[i])
               /\ From(seqs, i) \in Nat
               /\ From(seqs, i + 1) = From(seqs, i) + Len(seqs[i])
               /\ \A k \in 1..Len(seqs[i]) : f[i][From(seqs, i) + k] = seqs[i][k]
    <3>1. i + 1 # 1 /\ (i + 1) - 1 = i
      BY <2>1
    <3>2. From(seqs, i + 1) = Len(f[i])
      BY <3>1 DEF From
    <3>3. Len(seqs[i]) \in Nat
      BY <2>1, LenNat
    <3>4. CASE i = 1
      <4>1. From(seqs, i) = 0 /\ f[i] = seqs[i]
        BY <2>1, <3>4 DEF From
      <4>2. \A k \in 1..Len(seqs[i]) : 0 + k = k
        OBVIOUS
      <4> QED
        BY <3>2, <3>3, <4>1, <4>2
    <3>5. CASE i # 1
      <4>1. i - 1 \in 1..(l - 1) /\ (i - 1) + 1 = i /\ i - 1 \in 1..l
        BY <2>1, <3>5
      <4>2. f[i] = f[i - 1] \o seqs[i]
        <5>1. f[(i - 1) + 1] = f[i - 1] \o seqs[(i - 1) + 1]
          BY <2>1, <4>1
        <5> QED
          BY <4>1, <5>1
      <4>3. From(seqs, i) = Len(f[i - 1])
        BY <3>5 DEF From
      <4>4. f[i - 1] \in String /\ seqs[i] \in String
        BY <2>1, <4>1
      <4>5. Len(f[i]) = Len(f[i - 1]) + Len(seqs[i]) /\ Len(f[i - 1]) \in Nat
            /\ \A k \in 1..Len(seqs[i]) : f[i][Len(f[i - 1]) + k] = seqs[i][k]
        <5> DEFINE a == f[i - 1]
                   b == seqs[i]
        <5>1. Len(a \o b) = Len(a) + Len(b) /\ \A k \in 1..Len(b) : (a \o b)[Len(a) + k] = b[k]
          BY <4>4, CatFacts
        <5>2. Len(a) \in Nat
          BY <4>4, LenNat
        <5> QED
          BY <4>2, <5>1, <5>2, Zenon
      <4> QED
        BY <3>2, <4>3, <4>5
    <3> QED
      BY <3>4, <3>5
  <2>5. From(seqs, 1) = 0
    BY DEF From
  <2> HIDE DEF f, l, w
  <2>6. ASSUME NEW i \in 1..(l + 1)
        PROVE  From(seqs, i) \in 0..Len(w)
    <3>1. CASE i = 1
      <4>1. Len(w) \in Nat
        BY <2>3, LenNat
      <4> QED
        BY <2>5, <3>1, <4>1
    <3>2. CASE i # 1
      <4>1. i - 1 \in 1..l /\ (i - 1) + 1 = i
        BY <2>1, <3>2
      <4>2. From(seqs, (i - 1) + 1) = Len(f[i - 1]) /\ Len(f[i - 1]) \in 0..Len(w)
        BY <2>2, <2>4, <4>1
      <4> QED
        BY <4>1, <4>2
    <3> QED
      BY <3>1, <3>2
  <2>7. From(seqs, l + 1) = Len(w)
    BY <2>1, <2>3, <2>4
  <2>8. ASSUME NEW i \in 1..l, NEW k \in 1..Len(seqs[i])
        PROVE  w[From(seqs, i) + k] = seqs[i][k]
    <3>1. Len(seqs[i]) \in Nat
      BY <2>1, LenNat
    <3>2. From(seqs, i) + k \in 1..Len(f[i])
      BY <2>4, <3>1
    <3>3. w[From(seqs, i) + k] = f[i][From(seqs, i) + k]
      BY <2>2, <3>2
    <3> QED
      BY <2>4, <3>3
  <2>9. \A i \in 1..l : From(seqs, i + 1) = From(seqs, i) + Len(seqs[i])
    BY <2>4
  <2> QED
    BY <2>3, <2>5, <2>6, <2>7, <2>8, <2>9 DEF LaidOut, l, w
<1> QED
  BY <1>1, <1>2

(* The least and the greatest element of a set of places.                  *)
LEMMA LeastIs ==
  ASSUME NEW T \in SUBSET Nat, NEW n \in T, \A m \in T : n <= m
  PROVE  Min(T) = n
<1>1. \E x \in T : \A m \in T : x <= m
  OBVIOUS
<1>2. Min(T) \in T /\ \A m \in T : Min(T) <= m
  BY <1>1 DEF Min
<1>3. Min(T) <= n /\ n <= Min(T) /\ Min(T) \in Nat /\ n \in Nat
  BY <1>2
<1> QED
  BY <1>3

LEMMA GreatestIs ==
  ASSUME NEW T \in SUBSET Nat, NEW n \in T, \A m \in T : m <= n
  PROVE  Max(T) = n
<1>1. \E x \in T : \A m \in T : x >= m
  OBVIOUS
<1>2. Max(T) \in T /\ \A m \in T : Max(T) >= m
  BY <1>1 DEF Max
<1>3. Max(T) >= n /\ n >= Max(T) /\ Max(T) \in Nat /\ n \in Nat
  BY <1>2
<1> QED
  BY <1>3

LEMMA MaxFacts ==
  ASSUME NEW b \in Nat, NEW T \in SUBSET (0..b), T # {}
  PROVE  Max(T) \in T /\ \A m \in T : m <= Max(T)
<1> DEFINE U == {n \in 0..b : b - n \in T}
<1>0. \A m \in T : \E n \in 0..b : b - n = m
  <2> SUFFICES ASSUME NEW m \in T PROVE \E n \in 0..b : b - n = m
    OBVIOUS
  <2>1. m \in 0..b
    OBVIOUS
  <2>2. b - m \in 0..b /\ b - (b - m) = m
    BY <2>1
  <2> QED
    BY <2>2
<1>1. U # {} /\ U \in SUBSET Nat
  <2>1. PICK m \in T : m \in 0..b
    OBVIOUS
  <2>2. PICK n \in 0..b : b - n = m
    BY <1>0
  <2>3. b - n \in T
    BY <2>2
  <2>4. n \in U
    BY <2>3
  <2>5. \A k \in U : k \in Nat
    OBVIOUS
  <2> HIDE DEF U
  <2> QED
    BY <2>4, <2>5
<1>2. PICK n \in U : \A m \in U : n <= m
  <2> HIDE DEF U
  <2> QED
    BY <1>1, LeastNatural
<1>3. b - n \in T
  OBVIOUS
<1>4. ASSUME NEW m \in T PROVE m <= b - n
  <2>1. PICK k \in 0..b : b - k = m
    BY <1>0
  <2>2. b - k \in T
    BY <2>1
  <2>3. k \in U
    BY <2>2
  <2> QED
    BY <1>2, <2>1, <2>3
<1> HIDE DEF U
<1>5. \E x \in T : \A m \in T : x >= m
  BY <1>3, <1>4
<1> QED
  BY <1>5 DEF Max

-----------------------------------------------------------------------------
(* strip.                                                                  *)

LEMMA StripOfBlanks ==
  ASSUME NEW s \in String, s # <<>>, \A n \in 1..Len(s) : isspace(s[n])
  PROVE  StripSound(s)
<1> DEFINE l == Len(s)
<1>1. l \in Nat \ {0} /\ DOMAIN s = 1..l
  BY DEF String
<1>2. \A n \in DOMAIN s : isspace(s[n])
  BY <1>1
<1> HIDE DEF l
<1>3. stripBeg(s) = l
  <2> DEFINE T == {n \in DOMAIN s : n = Len(s) \/ ~isspace(s[n])}
  <2>1. T = {l}
    BY <1>1, <1>2 DEF l
  <2>2. Min({l}) = l
    BY <1>1, LeastIs
  <2> QED
    BY <2>1, <2>2 DEF stripBeg
<1>4. stripEnd(s, l) = l - 1
  <2> DEFINE T == {n \in 0..l : n = 0 \/ n < l \/ ~isspace(s[n])}
  <2>1. \A n \in T : n <= l - 1
    BY <1>1, <1>2
  <2>2. l - 1 \in T
    BY <1>1
  <2>3. T \in SUBSET Nat
    BY <1>1
  <2>4. Max(T) = l - 1
    <3> HIDE DEF T
    <3> QED
      BY <2>1, <2>2, <2>3, GreatestIs
  <2> QED
    BY <2>4 DEF stripEnd, l
<1>5. strip(s) = IF l = 1 /\ l - 1 = 0 THEN OutOfBounds ELSE SubSeq(s, l, l - 1)
  BY <1>3, <1>4 DEF strip
<1>6. CASE l = 1
  <2>1. strip(s) = OutOfBounds /\ isspace(s[1])
    BY <1>1, <1>2, <1>5, <1>6
  <2> QED
    BY <1>6, <2>1 DEF StripSound, l
<1>7. CASE l # 1
  <2>1. strip(s) = <<>>
    BY <1>1, <1>5, <1>7
  <2>2. {n \in DOMAIN s : ~isspace(s[n])} = {}
    BY <1>2
  <2>3. lstrip(s) = <<>> /\ rstrip(s) = <<>>
    BY <2>2 DEF lstrip, rstrip
  <2>4. lstrip(<<>>) = <<>> /\ rstrip(<<>>) = <<>>
    BY DEF lstrip, rstrip
  <2> QED
    BY <1>7, <2>1, <2>3, <2>4 DEF StripSound, l
<1> QED
  BY <1>6, <1>7

LEMMA StripOfText ==
  ASSUME NEW s \in String, NEW k \in 1..Len(s), ~isspace(s[k])
  PROVE  StripSound(s)
<1> DEFINE l == Len(s)
           kept == {n \in DOMAIN s : ~isspace(s[n])}
           f == Min(kept)
           g == Max(kept)
<1>1. l \in Nat \ {0} /\ DOMAIN s = 1..l /\ s # <<>>
  BY DEF String
<1>2. kept \in SUBSET Nat /\ kept \in SUBSET (0..l) /\ kept # {}
  BY <1>1
<1>3. f \in kept /\ \A n \in kept : f <= n
  <2> HIDE DEF kept
  <2>1. \E x \in kept : \A n \in kept : x <= n
    BY <1>2, LeastNatural
  <2> QED
    BY <2>1 DEF Min
<1>4. g \in kept /\ \A n \in kept : n <= g
  <2> HIDE DEF kept, l
  <2> QED
    BY <1>1, <1>2, MaxFacts
<1> HIDE DEF f, g
<1>5. /\ f \in 1..l /\ g \in f..l /\ ~isspace(s[f]) /\ ~isspace(s[g])
      /\ \A n \in 1..l : n < f \/ g < n => isspace(s[n])
  BY <1>1, <1>3, <1>4
<1>6. stripBeg(s) = f
  <2> DEFINE T == {n \in DOMAIN s : n = Len(s) \/ ~isspace(s[n])}
  <2>1. f \in T /\ T \in SUBSET Nat
    <3>1. f \in DOMAIN s /\ ~isspace(s[f]) /\ \A n \in DOMAIN s : n \in Nat
      BY <1>1, <1>5
    <3> QED
      BY <3>1
  <2>2. \A n \in T : f <= n
    BY <1>1, <1>5
  <2>3. Min(T) = f
    <3> HIDE DEF T
    <3> QED
      BY <2>1, <2>2, LeastIs
  <2> QED
    BY <2>3 DEF stripBeg
<1>7. stripEnd(s, f) = g
  <2> DEFINE T == {n \in 0..Len(s) : n = 0 \/ n < f \/ ~isspace(s[n])}
  <2>1. g \in T /\ T \in SUBSET Nat
    BY <1>1, <1>5
  <2>2. \A n \in T : n <= g
    BY <1>1, <1>5
  <2>3. Max(T) = g
    <3> HIDE DEF T
    <3> QED
      BY <2>1, <2>2, GreatestIs
  <2> QED
    BY <2>3 DEF stripEnd
<1>8. strip(s) = SubSeq(s, f, g)
  <2>1. g # 0
    BY <1>1, <1>5
  <2> QED
    BY <1>1, <1>6, <1>7, <2>1 DEF strip
<1>9. ~(Len(s) = 1 /\ isspace(s[1]))
  BY <1>1, <1>5
<1> DEFINE p == SubSeq(s, f, g)
           m == g - f + 1
<1>10. p \in String /\ Len(p) = m /\ \A n \in 1..m : p[n] = s[f + n - 1]
  <2>1. f \in 1..(Len(s) + 1) /\ g \in 0..Len(s) /\ f <= g
    BY <1>1, <1>5
  <2> QED
    BY <2>1, PieceFacts
<1> HIDE DEF p
<1>11. lstrip(rstrip(s)) = p
  <2> DEFINE r == SubSeq(s, 1, g)
             inner == {n \in DOMAIN r : ~isspace(r[n])}
  <2>1. r \in String /\ Len(r) = g /\ \A n \in 1..g : r[n] = s[n]
    <3>1. g \in 0..Len(s)
      BY <1>1, <1>5
    <3> QED
      BY <3>1, FrontFacts
  <2>2. rstrip(s) = r
    BY <1>2 DEF rstrip, g
  <2> HIDE DEF r
  <2>3. DOMAIN r = 1..g
    BY <2>1 DEF String
  <2>4. f \in inner /\ inner \in SUBSET Nat /\ \A n \in inner : f <= n
    BY <1>1, <1>5, <2>1, <2>3
  <2>5. Min(inner) = f /\ inner # {}
    <3> HIDE DEF inner
    <3> QED
      BY <2>4, LeastIs
  <2>6. lstrip(r) = SubSeq(r, f, g)
    BY <2>1, <2>5 DEF lstrip
  <2>7. SubSeq(r, f, g) \in String /\ Len(SubSeq(r, f, g)) = m
        /\ \A n \in 1..m : SubSeq(r, f, g)[n] = r[f + n - 1]
    <3>1. f \in 1..(Len(r) + 1) /\ g \in 0..Len(r) /\ f <= g
      BY <1>1, <1>5, <2>1
    <3> QED
      BY <2>1, <3>1, PieceFacts
  <2>8. \A n \in 1..m : f + n - 1 \in 1..g
    BY <1>1, <1>5
  <2> DEFINE q == SubSeq(r, f, g)
  <2>9. q \in String /\ Len(q) = Len(p) /\ \A n \in 1..Len(q) : q[n] = p[n]
    BY <1>10, <2>1, <2>7, <2>8
  <2> HIDE DEF q
  <2>10. q = p
    BY <1>10, <2>9, SameString
  <2> QED
    BY <2>2, <2>6, <2>10 DEF q
<1>12. rstrip(lstrip(s)) = p
  <2> DEFINE r == SubSeq(s, f, l)
             inner == {n \in DOMAIN r : ~isspace(r[n])}
             k1 == l - f + 1
  <2>1. r \in String /\ Len(r) = k1 /\ \A n \in 1..k1 : r[n] = s[f + n - 1]
    <3>1. f \in 1..(Len(s) + 1) /\ l \in 0..Len(s) /\ f <= l
      BY <1>1, <1>5
    <3> QED
      BY <3>1, PieceFacts
  <2>2. lstrip(s) = r
    BY <1>2 DEF lstrip, f
  <2> HIDE DEF r
  <2>3. DOMAIN r = 1..k1
    BY <2>1 DEF String
  <2>4. m \in 1..k1 /\ \A n \in 1..k1 : f + n - 1 \in 1..l /\ (m < n => g < f + n - 1)
    BY <1>1, <1>5
  <2>5. r[m] = s[g]
    <3>1. f + m - 1 = g
      BY <1>1, <1>5
    <3> QED
      BY <2>1, <2>4, <3>1
  <2>6. m \in inner /\ inner \in SUBSET Nat
    BY <1>1, <1>5, <2>3, <2>4, <2>5
  <2>7. \A n \in inner : n <= m
    <3> SUFFICES ASSUME NEW n \in inner, m < n PROVE FALSE
      BY <1>1, <1>5, <2>3
    <3>1. n \in 1..k1 /\ ~isspace(r[n])
      BY <2>3
    <3>2. g < f + n - 1 /\ f + n - 1 \in 1..l /\ r[n] = s[f + n - 1]
      BY <2>1, <2>4, <3>1
    <3> QED
      BY <1>5, <3>1, <3>2
  <2>8. Max(inner) = m /\ inner # {}
    <3> HIDE DEF inner, m
    <3> QED
      BY <2>6, <2>7, GreatestIs
  <2>9. rstrip(r) = SubSeq(r, 1, m)
    BY <2>8 DEF rstrip
  <2> DEFINE q == SubSeq(r, 1, m)
  <2>10. q \in String /\ Len(q) = m /\ \A n \in 1..m : q[n] = r[n]
    <3>1. m \in 0..Len(r)
      BY <1>1, <1>5, <2>1, <2>4
    <3> HIDE DEF m
    <3> QED
      BY <2>1, <3>1, FrontFacts
  <2>11. \A n \in 1..m : n \in 1..k1
    BY <1>1, <1>5, <2>4
  <2> HIDE DEF q
  <2>12. Len(q) = Len(p) /\ \A n \in 1..Len(q) : q[n] = p[n]
    BY <1>10, <2>1, <2>10, <2>11
  <2>13. q = p
    BY <1>10, <2>10, <2>12, SameString
  <2> QED
    BY <2>2, <2>9, <2>13 DEF q
<1> QED
  BY <1>8, <1>9, <1>11, <1>12 DEF StripSound, p

LEMMA StripIsSound == \A s \in String : StripSound(s)
<1> SUFFICES ASSUME NEW s \in String PROVE StripSound(s)
  OBVIOUS
<1>1. CASE s = <<>>
  <2>1. lstrip(<<>>) = <<>> /\ rstrip(<<>>) = <<>> /\ strip(<<>>) = <<>> /\ Len(<<>>) # 1
    BY DEF lstrip, rstrip, strip
  <2> QED
    BY <1>1, <2>1 DEF StripSound
<1>2. CASE s # <<>>
  BY <1>2, StripOfBlanks, StripOfText
<1> QED
  BY <1>1, <1>2

-----------------------------------------------------------------------------
(* Suffixes: what is decoded is put together from its end.                 *)

LEMMA PutInFront ==
  ASSUME NEW u \in String, NEW k \in 1..Len(u)
  PROVE  <<u[k]>> \o SubSeq(u, k + 1, Len(u)) = SubSeq(u, k, Len(u))
<1> DEFINE l == Len(u)
           h == <<u[k]>>
           t == SubSeq(u, k + 1, l)
           w == SubSeq(u, k, l)
<1>1. l \in Nat /\ u[k] \in Codes
  BY DEF String
<1>2. h \in String /\ Len(h) = 1 /\ h[1] = u[k]
  BY <1>1 DEF String
<1>3. t \in String /\ Len(t) = l - k /\ \A n \in 1..(l - k) : t[n] = u[k + n]
  <2>1. k + 1 \in 1..(Len(u) + 1) /\ l \in 0..Len(u)
    BY <1>1
  <2>2. (IF k + 1 <= l THEN l - (k + 1) + 1 ELSE 0) = l - k
    BY <1>1
  <2>3. \A n \in 1..(l - k) : k + 1 + n - 1 = k + n
    BY <1>1
  <2> QED
    BY <2>1, <2>2, <2>3, PieceFacts
<1>4. w \in String /\ Len(w) = l - k + 1 /\ \A n \in 1..(l - k + 1) : w[n] = u[k + n - 1]
  <2>1. k \in 1..(Len(u) + 1) /\ l \in 0..Len(u) /\ k <= l
    BY <1>1
  <2> QED
    BY <2>1, PieceFacts
<1> HIDE DEF h, t, w
<1>5. /\ h \o t \in String /\ Len(h \o t) = 1 + (l - k) /\ (h \o t)[1] = u[k]
      /\ \A n \in 1..(l - k) : (h \o t)[1 + n] = t[n]
  <2>1. /\ h \o t \in String /\ Len(h \o t) = Len(h) + Len(t)
        /\ \A n \in 1..Len(h) : (h \o t)[n] = h[n]
        /\ \A n \in 1..Len(t) : (h \o t)[Len(h) + n] = t[n]
    BY <1>2, <1>3, CatFacts
  <2>2. 1 \in 1..1
    OBVIOUS
  <2> QED
    BY <1>2, <1>3, <2>1, <2>2
<1>6. ASSUME NEW n \in 1..Len(w)
      PROVE  (h \o t)[n] = w[n]
  <2>1. CASE n = 1
    <3>1. k + n - 1 = k /\ n \in 1..(l - k + 1)
      BY <1>1, <1>4, <2>1
    <3> QED
      BY <1>4, <1>5, <2>1, <3>1
  <2>2. CASE n # 1
    <3>1. n - 1 \in 1..(l - k) /\ 1 + (n - 1) = n /\ k + (n - 1) = k + n - 1 /\ n \in 1..(l - k + 1)
      BY <1>1, <1>4, <2>2
    <3>2. (h \o t)[n] = t[n - 1] /\ t[n - 1] = u[k + (n - 1)] /\ w[n] = u[k + n - 1]
      BY <1>3, <1>4, <1>5, <3>1
    <3> QED
      BY <3>1, <3>2
  <2> QED
    BY <2>1, <2>2
<1>7. Len(h \o t) = Len(w)
  BY <1>1, <1>4, <1>5
<1>8. h \o t = w
  BY <1>4, <1>5, <1>6, <1>7, SameString
<1> QED
  BY <1>8 DEF h, t, w

-----------------------------------------------------------------------------
(* decode_cstring.                                                         *)

CDecoded(s, f, i) ==
  IF i > Len(s) THEN [res |-> <<>>, lenParsed |-> Len(s)]
  ELSE IF s[i] = quote THEN [res |-> <<>>, lenParsed |-> i]
  ELSE IF s[i] # backslash \/ i = Len(s) THEN InFront(s[i], f[i + 1])
  ELSE IF s[i + 1] = 110 THEN InFront(10, f[i + 2])
  ELSE IF s[i + 1] = 116 THEN InFront(9, f[i + 2])
  ELSE IF s[i + 1] = 120
  THEN LET j == hexDigits(s, i + 2)
       IN  InFront(atoiOf0x(SubSeq(s, i + 2, i + 1 + j)), f[i + 2 + j])
  ELSE InFront(s[i + 1], f[i + 2])

LEMMA CStringFromIs ==
  ASSUME NEW s
  PROVE  cstringFrom(s) = CHOOSE f : f = [i \in 1..(Len(s) + 1) |-> CDecoded(s, f, i)]
BY DEF cstringFrom, CDecoded

(* What is decoded at a place depends on what is decoded further on.       *)
LEMMA CDecodedLooksAhead ==
  ASSUME NEW s \in String, NEW i \in 1..(Len(s) + 1), NEW f, NEW g,
         \A j \in (i + 1)..(Len(s) + 1) : f[j] = g[j]
  PROVE  CDecoded(s, f, i) = CDecoded(s, g, i)
<1> DEFINE l == Len(s)
           j == hexDigits(s, i + 2)
<1>1. l \in Nat
  BY LenNat
<1>2. CASE i > l
  BY <1>2 DEF CDecoded
<1>3. CASE i <= l /\ (s[i] # backslash \/ i = l)
  <2>1. i + 1 \in (i + 1)..(Len(s) + 1) /\ ~(i > Len(s))
    BY <1>1, <1>3
  <2>2. f[i + 1] = g[i + 1]
    BY <2>1
  <2> HIDE DEF j
  <2> QED
    BY <1>3, <2>1, <2>2 DEF CDecoded
<1>4. CASE i < l /\ s[i] = backslash
  <2>1. i + 2 \in (i + 1)..(Len(s) + 1) /\ ~(i > Len(s)) /\ i # Len(s)
    BY <1>1, <1>4
  <2>2. i + 2 + j \in (i + 1)..(Len(s) + 1)
    <3>1. \/ j = 0
          \/ j = 1 /\ ~(i + 2 > Len(s))
          \/ j = 2 /\ ~(i + 2 + 1 > Len(s))
      BY DEF hexDigits
    <3> HIDE DEF j
    <3> QED
      BY <1>1, <1>4, <3>1
  <2>3. f[i + 2] = g[i + 2] /\ f[i + 2 + j] = g[i + 2 + j]
    BY <2>1, <2>2
  <2> QED
    BY <1>4, <2>1, <2>3 DEF CDecoded
<1> QED
  BY <1>1, <1>2, <1>3, <1>4

(* The recursion has a solution.                                           *)
LEMMA CDecodedExists ==
  ASSUME NEW s \in String
  PROVE  \E f : f = [i \in 1..(Len(s) + 1) |-> CDecoded(s, f, i)]
<1> DEFINE l == Len(s)
           Solved(k) == \E f : f = [i \in (l + 1 - k)..(l + 1) |-> CDecoded(s, f, i)]
           T == {k \in 0..l : ~Solved(k)}
<1>1. l \in Nat
  BY LenNat
<1>2. Solved(0)
  <2> DEFINE f == [i \in (l + 1 - 0)..(l + 1) |-> [res |-> <<>>, lenParsed |-> l]]
  <2>1. \A i \in (l + 1 - 0)..(l + 1) : i > Len(s)
    BY <1>1
  <2>2. \A i \in (l + 1 - 0)..(l + 1) : CDecoded(s, f, i) = [res |-> <<>>, lenParsed |-> l]
    <3> HIDE DEF f
    <3> QED
      BY <2>1 DEF CDecoded
  <2>3. f = [i \in (l + 1 - 0)..(l + 1) |-> CDecoded(s, f, i)]
    BY <2>2, Zenon
  <2> HIDE DEF f
  <2> QED
    BY <2>3, Zenon
<1>3. ASSUME NEW k \in 0..l, k + 1 \in 0..l, Solved(k)
      PROVE  Solved(k + 1)
  <2> DEFINE a == l + 1 - k
             b == l + 1 - (k + 1)
  <2>1. PICK f : f = [i \in a..(l + 1) |-> CDecoded(s, f, i)]
    BY <1>3, Zenon
  <2> DEFINE g == [i \in b..(l + 1) |-> IF i = b THEN CDecoded(s, f, b) ELSE f[i]]
  <2>2. a \in 1..(l + 1) /\ b \in 1..(l + 1) /\ b + 1 = a
    BY <1>1, <1>3
  <2> HIDE DEF a, b
  <2>3. ASSUME NEW i \in b..(l + 1)
        PROVE  CDecoded(s, f, i) = CDecoded(s, g, i)
    <3>1. i \in 1..(Len(s) + 1)
      BY <1>1, <2>2
    <3>2. ASSUME NEW j \in (i + 1)..(Len(s) + 1)
          PROVE  f[j] = g[j]
      <4>1. j \in b..(l + 1) /\ j # b
        BY <1>1, <2>2
      <4> QED
        BY <4>1
    <3> HIDE DEF g
    <3> QED
      BY <3>1, <3>2, CDecodedLooksAhead
  <2>4. ASSUME NEW i \in b..(l + 1)
        PROVE  g[i] = CDecoded(s, g, i)
    <3>1. CASE i = b
      <4>1. g[i] = CDecoded(s, f, i)
        BY <3>1
      <4> HIDE DEF g
      <4> QED
        BY <2>3, <4>1
    <3>2. CASE i # b
      <4>1. i \in a..(l + 1)
        BY <1>1, <2>2, <3>2
      <4>2. f[i] = CDecoded(s, f, i)
        BY <2>1, <4>1
      <4>3. g[i] = f[i]
        BY <3>2
      <4> HIDE DEF g
      <4> QED
        BY <2>3, <4>2, <4>3
    <3> QED
      BY <3>1, <3>2
  <2> DEFINE h == [i \in b..(l + 1) |-> CDecoded(s, g, i)]
  <2>5. g = h
    <3>1. \A i \in b..(l + 1) : g[i] = h[i]
      BY <2>4, Zenon
    <3> QED
      BY <3>1
  <2>6. g = [i \in b..(l + 1) |-> CDecoded(s, g, i)]
    <3> HIDE DEF g
    <3> QED
      BY <2>5
  <2> HIDE DEF g
  <2> QED
    BY <2>6, Zenon DEF b
<1>4. ASSUME T # {}
      PROVE  FALSE
  <2> HIDE DEF Solved
  <2>0. T \in SUBSET Nat /\ T # {}
    BY <1>1, <1>4
  <2>1. PICK k \in T : \A n \in T : k <= n
    <3> HIDE DEF T
    <3> QED
      BY <2>0, LeastNatural
  <2>2. k \in 0..l /\ ~Solved(k)
    BY <2>1
  <2>3. k # 0
    BY <1>2, <2>2
  <2>4. k - 1 \in 0..l /\ ~(k <= k - 1) /\ (k - 1) + 1 = k
    BY <1>1, <2>2, <2>3
  <2>5. Solved(k - 1)
    BY <2>1, <2>4
  <2>6. Solved((k - 1) + 1)
    BY <1>3, <2>2, <2>4, <2>5
  <2> QED
    BY <2>2, <2>4, <2>6
<1>5. Solved(l)
  <2> HIDE DEF Solved
  <2> QED
    BY <1>1, <1>4
<1>6. l + 1 - l = 1
  BY <1>1
<1> QED
  BY <1>5, <1>6

LEMMA CStringFromFacts ==
  ASSUME NEW s \in String, NEW i \in 1..(Len(s) + 1)
  PROVE  cstringFrom(s)[i] = CDecoded(s, cstringFrom(s), i)
<1> DEFINE f == cstringFrom(s)
           Solves(g) == g = [n \in 1..(Len(s) + 1) |-> CDecoded(s, g, n)]
<1>1. f = CHOOSE g : Solves(g)
  BY CStringFromIs
<1>2. \E g : Solves(g)
  BY CDecodedExists
<1>3. Solves(f)
  BY <1>1, <1>2, Zenon
<1> HIDE DEF f
<1>4. f[i] = CDecoded(s, f, i)
  BY <1>3
<1> QED
  BY <1>4 DEF f

(* Hexadecimal digits.                                                     *)
LEMMA HexDigitFacts ==
  ASSUME NEW d \in 0..15
  PROVE  hexdigit(d) \in Codes /\ isxdigit(hexdigit(d)) /\ digitValue(hexdigit(d)) = d
<1>1. CASE d < 10
  <2>1. hexdigit(d) = 48 + d /\ 48 + d \in 48..57
    BY <1>1 DEF hexdigit
  <2> QED
    BY <2>1 DEF isxdigit, isdigit, digitValue, Codes
<1>2. CASE ~(d < 10)
  <2>1. hexdigit(d) = 87 + d /\ 87 + d \in 97..102
    BY <1>2 DEF hexdigit
  <2> QED
    BY <2>1 DEF isxdigit, isdigit, digitValue, Codes
<1> QED
  BY <1>1, <1>2

LEMMA HexParts ==
  ASSUME NEW c \in Codes
  PROVE  c \div 16 \in 0..15 /\ c % 16 \in 0..15 /\ 16 * (c \div 16) + (c % 16) = c
BY DEF Codes

LEMMA TwoAndTwo ==
  ASSUME NEW a \in Codes, NEW b \in Codes, NEW x \in Codes, NEW y \in Codes
  PROVE  <<a, b>> \o <<x, y>> = <<a, b, x, y>>
<1> DEFINE s == <<a, b>>
           t == <<x, y>>
           u == <<a, b, x, y>>
<1>1. s \in String /\ Len(s) = 2 /\ s[1] = a /\ s[2] = b
  BY DEF String
<1>2. t \in String /\ Len(t) = 2 /\ t[1] = x /\ t[2] = y
  BY DEF String
<1>3. u \in String /\ Len(u) = 4 /\ u[1] = a /\ u[2] = b /\ u[3] = x /\ u[4] = y
  BY DEF String
<1> HIDE DEF s, t, u
<1>4. s \o t \in String /\ Len(s \o t) = Len(s) + Len(t)
  BY <1>1, <1>2, CatFacts
<1>5. (s \o t)[1] = a /\ (s \o t)[2] = b
  <2>1. \A k \in 1..Len(s) : (s \o t)[k] = s[k]
    BY <1>1, <1>2, CatFacts
  <2>2. 1 \in 1..2 /\ 2 \in 1..2
    OBVIOUS
  <2> QED
    BY <1>1, <2>1, <2>2
<1>6. (s \o t)[3] = x /\ (s \o t)[4] = y
  <2>1. \A k \in 1..Len(t) : (s \o t)[Len(s) + k] = t[k]
    BY <1>1, <1>2, CatFacts
  <2>2. 1 \in 1..2 /\ 2 \in 1..2 /\ 2 + 1 = 3 /\ 2 + 2 = 4
    OBVIOUS
  <2>3. (s \o t)[2 + 1] = t[1] /\ (s \o t)[2 + 2] = t[2]
    BY <1>1, <1>2, <2>1, <2>2
  <2> QED
    BY <1>2, <2>2, <2>3
<1>7. Len(s \o t) = 4
  BY <1>1, <1>2, <1>4
<1>8. \A k \in 1..4 : (s \o t)[k] = u[k]
  <2>1. \A k \in 1..4 : k = 1 \/ k = 2 \/ k = 3 \/ k = 4
    OBVIOUS
  <2> QED
    BY <1>3, <1>5, <1>6, <2>1
<1>9. s \o t = u
  BY <1>3, <1>4, <1>7, <1>8, SameString
<1> QED
  BY <1>9 DEF s, t, u

LEMMA OneAndTwo ==
  ASSUME NEW a \in Codes, NEW x \in Codes, NEW y \in Codes
  PROVE  <<a>> \o <<x, y>> = <<a, x, y>>
<1> DEFINE s == <<a>>
           t == <<x, y>>
           u == <<a, x, y>>
<1>1. s \in String /\ Len(s) = 1 /\ s[1] = a
  BY DEF String
<1>2. t \in String /\ Len(t) = 2 /\ t[1] = x /\ t[2] = y
  BY DEF String
<1>3. u \in String /\ Len(u) = 3 /\ u[1] = a /\ u[2] = x /\ u[3] = y
  BY DEF String
<1> HIDE DEF s, t, u
<1>4. s \o t \in String /\ Len(s \o t) = Len(s) + Len(t)
  BY <1>1, <1>2, CatFacts
<1>5. (s \o t)[1] = a
  <2>1. \A k \in 1..Len(s) : (s \o t)[k] = s[k]
    BY <1>1, <1>2, CatFacts
  <2>2. 1 \in 1..1
    OBVIOUS
  <2> QED
    BY <1>1, <2>1, <2>2
<1>6. (s \o t)[2] = x /\ (s \o t)[3] = y
  <2>1. \A k \in 1..Len(t) : (s \o t)[Len(s) + k] = t[k]
    BY <1>1, <1>2, CatFacts
  <2>2. 1 \in 1..2 /\ 2 \in 1..2 /\ 1 + 1 = 2 /\ 1 + 2 = 3
    OBVIOUS
  <2>3. (s \o t)[1 + 1] = t[1] /\ (s \o t)[1 + 2] = t[2]
    BY <1>1, <1>2, <2>1, <2>2
  <2> QED
    BY <1>2, <2>2, <2>3
<1>7. Len(s \o t) = 3
  BY <1>1, <1>2, <1>4
<1>8. \A k \in 1..3 : (s \o t)[k] = u[k]
  <2>1. \A k \in 1..3 : k = 1 \/ k = 2 \/ k = 3
    OBVIOUS
  <2> QED
    BY <1>3, <1>5, <1>6, <2>1
<1>9. s \o t = u
  BY <1>3, <1>4, <1>7, <1>8, SameString
<1> QED
  BY <1>9 DEF s, t, u

LEMMA InFrontIs ==
  ASSUME NEW c, NEW r, NEW n
  PROVE  InFront(c, [res |-> r, lenParsed |-> n]) = [res |-> <<c>> \o r, lenParsed |-> n]
<1> DEFINE a == [res |-> r, lenParsed |-> n]
           b == <<c>> \o r
<1>1. a.res = r
  OBVIOUS
<1>2. InFront(c, a) = [a EXCEPT !.res = <<c>> \o a.res]
  BY DEF InFront
<1>3. InFront(c, a) = [a EXCEPT !.res = b]
  BY <1>1, <1>2
<1> HIDE DEF b
<1>4. [a EXCEPT !.res = b] = [res |-> b, lenParsed |-> n]
  OBVIOUS
<1> QED
  BY <1>3, <1>4 DEF b

(* One character, encoded, is decoded in one go, to what survives of it.   *)
LEMMA CStringPiece ==
  ASSUME NEW z \in String, NEW c \in Codes, NEW a \in 1..Len(z), a + Len(cstringChar(c)) <= Len(z),
         \A k \in 1..Len(cstringChar(c)) : z[a + k - 1] = cstringChar(c)[k]
  PROVE  CDecoded(z, cstringFrom(z), a)
           = InFront(Survivor(c), cstringFrom(z)[a + Len(cstringChar(c))])
<1> DEFINE f == cstringFrom(z)
           p == cstringChar(c)
<1>1. Len(z) \in Nat /\ ~(a > Len(z)) /\ a + 1 - 1 = a /\ a + 2 - 1 = a + 1
      /\ a + 3 - 1 = a + 2 /\ a + 4 - 1 = a + 3
  BY LenNat
<1>2. ASSUME NEW x, p = <<backslash, x>>
      PROVE  z[a] = backslash /\ z[a + 1] = x /\ a # Len(z) /\ Len(p) = 2
  <2>1. Len(p) = 2 /\ p[1] = backslash /\ p[2] = x /\ 1 \in 1..2 /\ 2 \in 1..2
    BY <1>2
  <2>2. z[a + 1 - 1] = p[1] /\ z[a + 2 - 1] = p[2]
    BY <2>1
  <2> QED
    BY <1>1, <2>1, <2>2
<1>3. CASE c = 10
  <2>1. p = <<backslash, 110>> /\ Survivor(c) = 10
    BY <1>3 DEF cstringChar, Survivor
  <2>2. z[a] = backslash /\ z[a + 1] = 110 /\ a # Len(z) /\ Len(p) = 2
    BY <1>2, <2>1
  <2> HIDE DEF p
  <2> QED
    BY <1>1, <2>1, <2>2 DEF CDecoded, backslash, quote, p
<1>4. CASE c = 9
  <2>1. p = <<backslash, 116>> /\ Survivor(c) = 9
    BY <1>4 DEF cstringChar, Survivor
  <2>2. z[a] = backslash /\ z[a + 1] = 116 /\ a # Len(z) /\ Len(p) = 2
    BY <1>2, <2>1
  <2> HIDE DEF p
  <2> QED
    BY <1>1, <2>1, <2>2 DEF CDecoded, backslash, quote, p
<1>5. CASE c # 10 /\ c # 9 /\ iscntrl(c)
  <2> DEFINE x == hexdigit(c \div 16)
             y == hexdigit(c % 16)
  <2>1. p = <<backslash, 120, x, y>> /\ Survivor(c) = 0
    <3>1. p = <<backslash, 120>> \o <<x, y>>
      BY <1>5 DEF cstringChar, hex
    <3>2. Survivor(c) = 0
      BY <1>5 DEF Survivor
    <3>3. x \in Codes /\ y \in Codes /\ backslash \in Codes /\ 120 \in Codes
      <4>1. x \in Codes /\ y \in Codes
        BY HexParts, HexDigitFacts
      <4> QED
        BY <4>1 DEF backslash, Codes
    <3>4. <<backslash, 120>> \o <<x, y>> = <<backslash, 120, x, y>>
      <4> HIDE DEF x, y
      <4> QED
        BY <3>3, TwoAndTwo
    <3> QED
      BY <3>1, <3>2, <3>4, Zenon
  <2>2. isxdigit(x) /\ isxdigit(y)
    BY HexParts, HexDigitFacts
  <2> HIDE DEF x, y, p
  <2>3. Len(p) = 4 /\ p[1] = backslash /\ p[2] = 120 /\ p[3] = x /\ p[4] = y
    BY <2>1
  <2>4. z[a + 1 - 1] = p[1] /\ z[a + 2 - 1] = p[2] /\ z[a + 3 - 1] = p[3] /\ z[a + 4 - 1] = p[4]
    <3>1. 1 \in 1..4 /\ 2 \in 1..4 /\ 3 \in 1..4 /\ 4 \in 1..4
      OBVIOUS
    <3> QED
      BY <2>3, <3>1 DEF p
  <2>5. z[a] = backslash /\ z[a + 1] = 120 /\ z[a + 2] = x /\ z[a + 3] = y
    BY <1>1, <2>3, <2>4
  <2>6. a + 4 <= Len(z)
    BY <2>3 DEF p
  <2>7. hexDigits(z, a + 2) = 2
    <3>1. ~(a + 2 > Len(z)) /\ ~(a + 2 + 1 > Len(z)) /\ a + 2 + 1 = a + 3
      BY <1>1, <2>6
    <3> QED
      BY <2>2, <2>5, <3>1 DEF hexDigits
  <2>8. a # Len(z) /\ a + 2 + 2 = a + 4
    BY <1>1, <2>6
  <2>9. CDecoded(z, f, a) = InFront(atoiOf0x(SubSeq(z, a + 2, a + 1 + 2)), f[a + 2 + 2])
    <3>1. z[a] # quote /\ ~(z[a] # backslash \/ a = Len(z)) /\ z[a + 1] # 110 /\ z[a + 1] # 116
      BY <2>5, <2>8 DEF quote, backslash
    <3> HIDE DEF f
    <3> QED
      BY <1>1, <2>5, <2>7, <3>1 DEF CDecoded
  <2> HIDE DEF f
  <2>10. CDecoded(z, f, a) = InFront(0, f[a + 4])
    BY <2>8, <2>9 DEF atoiOf0x
  <2> QED
    BY <2>1, <2>3, <2>10 DEF f, p
<1>6. CASE c # 10 /\ c # 9 /\ ~iscntrl(c) /\ c \in {quote, backslash}
  <2>1. p = <<backslash, c>> /\ Survivor(c) = c
    BY <1>6 DEF cstringChar, Survivor
  <2>2. z[a] = backslash /\ z[a + 1] = c /\ a # Len(z) /\ Len(p) = 2
    BY <1>2, <2>1
  <2> HIDE DEF p
  <2> QED
    BY <1>1, <1>6, <2>1, <2>2 DEF CDecoded, backslash, quote, p
<1>7. CASE c # 10 /\ c # 9 /\ ~iscntrl(c) /\ c \notin {quote, backslash}
  <2>1. p = <<c>> /\ Survivor(c) = c
    BY <1>7 DEF cstringChar, Survivor
  <2>2. z[a + 1 - 1] = p[1] /\ Len(p) = 1
    BY <2>1
  <2>3. z[a] = c
    BY <1>1, <2>1, <2>2
  <2> HIDE DEF p
  <2> QED
    BY <1>1, <1>7, <2>1, <2>2, <2>3 DEF CDecoded, p
<1> QED
  BY <1>3, <1>4, <1>5, <1>6, <1>7

Survivors(s) == [n \in 1..Len(s) |-> Survivor(s[n])]

(* The pieces of an encoded text.                                          *)
LEMMA CStringPieces ==
  ASSUME NEW s \in String
  PROVE  /\ [n \in DOMAIN s |-> cstringChar(s[n])] \in Seq(String)
         /\ Len([n \in DOMAIN s |-> cstringChar(s[n])]) = Len(s)
         /\ \A k \in 1..Len(s) : Len(cstringChar(s[k])) \in Nat
<1>1. Len(s) \in Nat /\ s \in [1..Len(s) -> Codes] /\ DOMAIN s = 1..Len(s)
  BY DEF String
<1>2. ASSUME NEW c \in Codes
      PROVE  cstringChar(c) \in String
  <2>1. hexdigit(c \div 16) \in Codes /\ hexdigit(c % 16) \in Codes
    BY HexParts, HexDigitFacts
  <2>2. backslash \in Codes /\ 110 \in Codes /\ 116 \in Codes /\ 120 \in Codes
    BY DEF backslash, Codes
  <2> QED
    BY <2>1, <2>2 DEF cstringChar, hex, String
<1>3. \A k \in 1..Len(s) : cstringChar(s[k]) \in String
  BY <1>1, <1>2
<1>4. \A k \in 1..Len(s) : Len(cstringChar(s[k])) \in Nat
  BY <1>3, LenNat
<1>5. [n \in 1..Len(s) |-> cstringChar(s[n])] \in [1..Len(s) -> String]
  BY <1>3
<1>6. ASSUME NEW P, NEW m \in Nat, P \in [1..m -> String]
      PROVE  P \in Seq(String) /\ Len(P) = m
  BY <1>6
<1> QED
  BY <1>1, <1>4, <1>5, <1>6

(* What was encoded, and ends in a quote, is decoded from any piece on.    *)
LEMMA CStringDecodes ==
  ASSUME NEW s \in String
  PROVE  decode_cstring(encode_cstring(s) \o <<quote>> \o s)
           = [res |-> [n \in DOMAIN s |-> Survivor(s[n])], lenParsed |-> Len(encode_cstring(s)) + 1]
<1> DEFINE m == Len(s)
           P == [n \in DOMAIN s |-> cstringChar(s[n])]
           c == encode_cstring(s)
           L == Len(c)
           z == c \o <<quote>> \o s
           f == cstringFrom(z)
           U == Survivors(s)
<1>1. m \in Nat /\ DOMAIN s = 1..m /\ \A k \in 1..m : s[k] \in Codes
  BY DEF String
<1>2. P \in Seq(String) /\ Len(P) = m /\ \A k \in 1..m : P[k] = cstringChar(s[k]) /\ Len(P[k]) \in Nat
  BY <1>1, CStringPieces
<1>3. c = FlattenSeq(P)
  BY DEF encode_cstring
<1> HIDE DEF P, c
<1>4. /\ c \in String /\ L \in Nat
      /\ \A k \in 1..(m + 1) : From(P, k) \in 0..L
      /\ From(P, 1) = 0 /\ From(P, m + 1) = L
      /\ \A k \in 1..m : From(P, k + 1) = From(P, k) + Len(P[k])
      /\ \A k \in 1..m : \A j \in 1..Len(P[k]) : c[From(P, k) + j] = P[k][j]
  <2>1. LaidOut(P)
    BY <1>2, FlattenLaysOut
  <2> QED
    BY <1>2, <1>3, <2>1, LenNat DEF LaidOut
<1>5. /\ z \in String /\ Len(z) \in Nat /\ L + 1 <= Len(z) /\ z[L + 1] = quote
      /\ \A k \in 1..L : z[k] = c[k]
  <2> DEFINE q == <<quote>>
  <2>1. q \in String /\ Len(q) = 1 /\ q[1] = quote
    BY DEF String, Codes, quote
  <2> HIDE DEF q
  <2>2. /\ c \o q \in String /\ Len(c \o q) = L + 1
        /\ \A k \in 1..L : (c \o q)[k] = c[k]
        /\ \A k \in 1..1 : (c \o q)[L + k] = q[k]
    <3>1. /\ c \o q \in String /\ Len(c \o q) = Len(c) + Len(q)
          /\ \A k \in 1..Len(c) : (c \o q)[k] = c[k]
          /\ \A k \in 1..Len(q) : (c \o q)[Len(c) + k] = q[k]
      BY <1>4, <2>1, CatFacts
    <3> QED
      BY <2>1, <3>1
  <2> DEFINE cq == c \o q
  <2>3. cq \in String /\ Len(cq) = L + 1 /\ cq[L + 1] = quote /\ \A k \in 1..L : cq[k] = c[k]
    BY <2>1, <2>2
  <2> HIDE DEF cq
  <2>4. /\ cq \o s \in String /\ Len(cq \o s) = L + 1 + m
        /\ \A k \in 1..(L + 1) : (cq \o s)[k] = cq[k]
    <3>1. /\ cq \o s \in String /\ Len(cq \o s) = Len(cq) + Len(s)
          /\ \A k \in 1..Len(cq) : (cq \o s)[k] = cq[k]
      BY <2>3, CatFacts
    <3> QED
      BY <2>3, <3>1
  <2>5. Len(cq \o s) \in Nat /\ L + 1 <= Len(cq \o s)
    BY <1>1, <1>4, <2>4
  <2>6. (cq \o s)[L + 1] = quote /\ \A k \in 1..L : (cq \o s)[k] = c[k]
    BY <1>4, <2>3, <2>4
  <2>7. cq \o s = z
    BY DEF cq, q
  <2> QED
    BY <2>4, <2>5, <2>6, <2>7
<1> HIDE DEF z, L
<1>6. \A a \in 1..(Len(z) + 1) : f[a] = CDecoded(z, f, a)
  BY <1>5, CStringFromFacts
<1> HIDE DEF f, m
<1>7. U \in String /\ Len(U) = m /\ \A k \in 1..m : U[k] = Survivor(s[k])
  <2>1. \A k \in 1..m : Survivor(s[k]) \in Codes
    BY <1>1 DEF Survivor, Codes
  <2>2. U \in [1..m -> Codes] /\ \A k \in 1..m : U[k] = Survivor(s[k])
    BY <2>1 DEF Survivors, m
  <2> HIDE DEF U
  <2> QED
    BY <1>1, <2>2 DEF String
<1> HIDE DEF U
<1> DEFINE At(k) == f[From(P, k) + 1] = [res |-> SubSeq(U, k, m), lenParsed |-> L + 1]
<1>8. At(m + 1)
  <2>1. L + 1 \in 1..(Len(z) + 1) /\ ~(L + 1 > Len(z))
    BY <1>4, <1>5
  <2>2. f[L + 1] = [res |-> <<>>, lenParsed |-> L + 1]
    BY <1>5, <1>6, <2>1 DEF CDecoded
  <2>3. SubSeq(U, m + 1, m) = <<>>
    BY <1>1, <1>7
  <2> QED
    BY <1>4, <2>2, <2>3
<1>9. ASSUME NEW k \in 1..m, At(k + 1)
      PROVE  At(k)
  <2> DEFINE a == From(P, k) + 1
             p == cstringChar(s[k])
             b == From(P, k + 1) + 1
  <2>1. P[k] = p /\ Len(p) \in Nat /\ s[k] \in Codes
    BY <1>1, <1>2
  <2>2. From(P, k) \in 0..L /\ From(P, k + 1) \in 0..L /\ From(P, k + 1) = From(P, k) + Len(p)
    <3>1. k \in 1..(m + 1) /\ k + 1 \in 1..(m + 1)
      BY <1>1
    <3> QED
      BY <1>4, <2>1, <3>1
  <2>3. \A j \in 1..Len(p) : c[From(P, k) + j] = p[j]
    BY <1>4, <2>1
  <2> HIDE DEF p
  <2>4. a \in 1..Len(z) /\ a + Len(p) = b /\ a + Len(p) <= Len(z) /\ a \in 1..(Len(z) + 1)
    BY <1>4, <1>5, <2>1, <2>2
  <2>5. ASSUME NEW j \in 1..Len(p)
        PROVE  z[a + j - 1] = p[j]
    <3>1. a + j - 1 = From(P, k) + j /\ From(P, k) + j \in 1..L
      BY <1>4, <2>1, <2>2
    <3> QED
      BY <1>5, <2>3, <3>1
  <2> HIDE DEF a, b
  <2>6. CDecoded(z, f, a) = InFront(Survivor(s[k]), f[a + Len(p)])
    BY <1>5, <2>1, <2>4, <2>5, CStringPiece DEF p, f
  <2>7. f[a] = InFront(U[k], f[b])
    BY <1>6, <1>7, <2>4, <2>6
  <2>8. f[b] = [res |-> SubSeq(U, k + 1, m), lenParsed |-> L + 1]
    BY <1>9 DEF b
  <2>9. InFront(U[k], [res |-> SubSeq(U, k + 1, m), lenParsed |-> L + 1])
          = [res |-> <<U[k]>> \o SubSeq(U, k + 1, m), lenParsed |-> L + 1]
    BY InFrontIs
  <2>10. <<U[k]>> \o SubSeq(U, k + 1, m) = SubSeq(U, k, m)
    BY <1>7, PutInFront
  <2> QED
    BY <2>7, <2>8, <2>9, <2>10 DEF a
<1>10. At(1)
  <2> DEFINE T == {n \in 0..m : ~At(m + 1 - n)}
  <2> HIDE DEF At
  <2>1. ASSUME T # {}
        PROVE  FALSE
    <3>0. T \in SUBSET Nat /\ T # {}
      BY <1>1, <2>1
    <3>1. PICK n \in T : \A i \in T : n <= i
      <4> HIDE DEF T
      <4> QED
        BY <3>0, LeastNatural
    <3>2. n \in 0..m /\ ~At(m + 1 - n)
      BY <3>1
    <3>3. n # 0
      <4>1. m + 1 - 0 = m + 1
        BY <1>1
      <4> QED
        BY <1>8, <3>2, <4>1
    <3>4. n - 1 \in 0..m /\ ~(n <= n - 1) /\ m + 1 - (n - 1) = (m + 1 - n) + 1 /\ m + 1 - n \in 1..m
      BY <1>1, <3>2, <3>3
    <3>5. At((m + 1 - n) + 1)
      BY <3>1, <3>4
    <3>6. At(m + 1 - n)
      BY <1>9, <3>4, <3>5
    <3> QED
      BY <3>2, <3>6
  <2>2. m \in 0..m /\ m + 1 - m = 1
    BY <1>1
  <2>3. At(m + 1 - m)
    BY <2>1, <2>2
  <2> QED
    BY <2>2, <2>3
<1>11. f[1] = [res |-> SubSeq(U, 1, m), lenParsed |-> L + 1]
  <2>1. From(P, 1) + 1 = 1
    BY <1>4
  <2> QED
    BY <1>10, <2>1
<1>12. SubSeq(U, 1, m) = U
  BY <1>7 DEF String
<1>13. U = [n \in DOMAIN s |-> Survivor(s[n])]
  BY <1>1 DEF U, Survivors, m
<1> QED
  BY <1>11, <1>12, <1>13 DEF decode_cstring, f, z, L, c

-----------------------------------------------------------------------------
(* decode_url.                                                             *)

UrlDecoded(s, f, i) ==
  IF i > Len(s) THEN <<>>
  ELSE IF s[i] # percent THEN <<s[i]>> \o f[i + 1]
  ELSE IF Len(s) >= 2 /\ i - 1 >= Len(s) - 2 THEN <<>>
  ELSE <<strtoul16(SubSeq(s, i + 1, IF i + 2 > Len(s) THEN Len(s) ELSE i + 2))>>
         \o f[i + 3]

LEMMA UrlFromIs ==
  ASSUME NEW s
  PROVE  urlFrom(s) = CHOOSE f : f = [i \in 1..(Len(s) + 3) |-> UrlDecoded(s, f, i)]
BY DEF urlFrom, UrlDecoded

LEMMA UrlDecodedLooksAhead ==
  ASSUME NEW s \in String, NEW i \in 1..(Len(s) + 3), NEW f, NEW g,
         \A j \in (i + 1)..(Len(s) + 3) : f[j] = g[j]
  PROVE  UrlDecoded(s, f, i) = UrlDecoded(s, g, i)
<1>1. Len(s) \in Nat
  BY LenNat
<1>2. CASE i > Len(s)
  BY <1>2 DEF UrlDecoded
<1>3. CASE ~(i > Len(s))
  <2>1. i + 1 \in (i + 1)..(Len(s) + 3) /\ i + 3 \in (i + 1)..(Len(s) + 3)
    BY <1>1, <1>3
  <2>2. f[i + 1] = g[i + 1] /\ f[i + 3] = g[i + 3]
    BY <2>1
  <2> QED
    BY <1>3, <2>2, Zenon DEF UrlDecoded
<1> QED
  BY <1>2, <1>3

(* The recursion has a solution.                                           *)
LEMMA UrlDecodedExists ==
  ASSUME NEW s \in String
  PROVE  \E f : f = [i \in 1..(Len(s) + 3) |-> UrlDecoded(s, f, i)]
<1> DEFINE l == Len(s)
           Solved(k) == \E f : f = [i \in (l + 1 - k)..(l + 3) |-> UrlDecoded(s, f, i)]
           T == {k \in 0..l : ~Solved(k)}
<1>1. l \in Nat
  BY LenNat
<1>2. Solved(0)
  <2> DEFINE f == [i \in (l + 1 - 0)..(l + 3) |-> <<>>]
  <2>1. \A i \in (l + 1 - 0)..(l + 3) : i > Len(s)
    BY <1>1
  <2>2. \A i \in (l + 1 - 0)..(l + 3) : UrlDecoded(s, f, i) = <<>>
    <3> HIDE DEF f
    <3> QED
      BY <2>1 DEF UrlDecoded
  <2>3. f = [i \in (l + 1 - 0)..(l + 3) |-> UrlDecoded(s, f, i)]
    BY <2>2, Zenon
  <2> HIDE DEF f
  <2> QED
    BY <2>3, Zenon
<1>3. ASSUME NEW k \in 0..l, k + 1 \in 0..l, Solved(k)
      PROVE  Solved(k + 1)
  <2> DEFINE a == l + 1 - k
             b == l + 1 - (k + 1)
  <2>1. PICK f : f = [i \in a..(l + 3) |-> UrlDecoded(s, f, i)]
    BY <1>3, Zenon
  <2> DEFINE g == [i \in b..(l + 3) |-> IF i = b THEN UrlDecoded(s, f, b) ELSE f[i]]
  <2>2. a \in 1..(l + 1) /\ b \in 1..(l + 1) /\ b + 1 = a
    BY <1>1, <1>3
  <2> HIDE DEF a, b
  <2>3. ASSUME NEW i \in b..(l + 3)
        PROVE  UrlDecoded(s, f, i) = UrlDecoded(s, g, i)
    <3>1. i \in 1..(Len(s) + 3)
      BY <1>1, <2>2
    <3>2. ASSUME NEW j \in (i + 1)..(Len(s) + 3)
          PROVE  f[j] = g[j]
      <4>1. j \in b..(l + 3) /\ j # b
        BY <1>1, <2>2
      <4> QED
        BY <4>1
    <3> HIDE DEF g
    <3> QED
      BY <3>1, <3>2, UrlDecodedLooksAhead
  <2>4. ASSUME NEW i \in b..(l + 3)
        PROVE  g[i] = UrlDecoded(s, g, i)
    <3>1. CASE i = b
      <4>1. g[i] = UrlDecoded(s, f, i)
        BY <3>1
      <4> HIDE DEF g
      <4> QED
        BY <2>3, <4>1
    <3>2. CASE i # b
      <4>1. i \in a..(l + 3)
        BY <1>1, <2>2, <3>2
      <4>2. f[i] = UrlDecoded(s, f, i)
        BY <2>1, <4>1
      <4>3. g[i] = f[i]
        BY <3>2
      <4> HIDE DEF g
      <4> QED
        BY <2>3, <4>2, <4>3
    <3> QED
      BY <3>1, <3>2
  <2> DEFINE h == [i \in b..(l + 3) |-> UrlDecoded(s, g, i)]
  <2>5. g = h
    <3>1. \A i \in b..(l + 3) : g[i] = h[i]
      BY <2>4, Zenon
    <3> QED
      BY <3>1
  <2>6. g = [i \in b..(l + 3) |-> UrlDecoded(s, g, i)]
    <3> HIDE DEF g
    <3> QED
      BY <2>5
  <2> HIDE DEF g
  <2> QED
    BY <2>6, Zenon DEF b
<1>4. ASSUME T # {}
      PROVE  FALSE
  <2> HIDE DEF Solved
  <2>0. T \in SUBSET Nat /\ T # {}
    BY <1>1, <1>4
  <2>1. PICK k \in T : \A n \in T : k <= n
    <3> HIDE DEF T
    <3> QED
      BY <2>0, LeastNatural
  <2>2. k \in 0..l /\ ~Solved(k)
    BY <2>1
  <2>3. k # 0
    BY <1>2, <2>2
  <2>4. k - 1 \in 0..l /\ ~(k <= k - 1) /\ (k - 1) + 1 = k
    BY <1>1, <2>2, <2>3
  <2>5. Solved(k - 1)
    BY <2>1, <2>4
  <2>6. Solved((k - 1) + 1)
    BY <1>3, <2>2, <2>4, <2>5
  <2> QED
    BY <2>2, <2>4, <2>6
<1>5. Solved(l)
  <2> HIDE DEF Solved
  <2> QED
    BY <1>1, <1>4
<1>6. l + 1 - l = 1
  BY <1>1
<1> QED
  BY <1>5, <1>6

LEMMA UrlFromFacts ==
  ASSUME NEW s \in String, NEW i \in 1..(Len(s) + 3)
  PROVE  urlFrom(s)[i] = UrlDecoded(s, urlFrom(s), i)
<1> DEFINE f == urlFrom(s)
           Solves(g) == g = [n \in 1..(Len(s) + 3) |-> UrlDecoded(s, g, n)]
<1>1. f = CHOOSE g : Solves(g)
  BY UrlFromIs
<1>2. \E g : Solves(g)
  BY UrlDecodedExists
<1>3. Solves(f)
  BY <1>1, <1>2, Zenon
<1> HIDE DEF f
<1>4. f[i] = UrlDecoded(s, f, i)
  BY <1>3
<1> QED
  BY <1>4 DEF f

(* Two neighbouring characters.                                            *)
LEMMA TwoOf ==
  ASSUME NEW w \in String, NEW b \in 1..Len(w), b + 1 \in 1..Len(w)
  PROVE  /\ SubSeq(w, b, b + 1) \in String /\ Len(SubSeq(w, b, b + 1)) = 2
         /\ SubSeq(w, b, b + 1)[1] = w[b] /\ SubSeq(w, b, b + 1)[2] = w[b + 1]
<1> DEFINE c == b + 1
           d == SubSeq(w, b, c)
<1>1. /\ b \in 1..(Len(w) + 1) /\ c \in 0..Len(w) /\ b <= c /\ c - b + 1 = 2
      /\ b + 1 - 1 = b /\ b + 2 - 1 = c /\ 1 \in 1..2 /\ 2 \in 1..2
  BY LenNat
<1> HIDE DEF c
<1>2. /\ d \in String /\ Len(d) = IF b <= c THEN c - b + 1 ELSE 0
      /\ \A k \in 1..Len(d) : d[k] = w[b + k - 1]
  BY <1>1, PieceFacts
<1> HIDE DEF d
<1>3. Len(d) = 2
  BY <1>1, <1>2
<1>4. d[1] = w[b + 1 - 1] /\ d[2] = w[b + 2 - 1]
  BY <1>1, <1>2, <1>3
<1>5. d \in String /\ Len(d) = 2 /\ d[1] = w[b] /\ d[2] = w[c]
  BY <1>1, <1>2, <1>3, <1>4
<1> QED
  BY <1>5 DEF d, c

(* A character, and what is left of one that was cut off, in the text w    *)
(* from place a on.                                                        *)
LEMMA UrlPiece ==
  ASSUME NEW w \in String, NEW c \in Codes, NEW a \in 1..Len(w), a + Len(urlChar(c)) <= Len(w) + 1,
         \A k \in 1..Len(urlChar(c)) : w[a + k - 1] = urlChar(c)[k]
  PROVE  UrlDecoded(w, urlFrom(w), a) = <<c>> \o urlFrom(w)[a + Len(urlChar(c))]
<1> DEFINE f == urlFrom(w)
           p == urlChar(c)
<1>1. Len(w) \in Nat /\ ~(a > Len(w)) /\ a + 1 - 1 = a /\ a + 2 - 1 = a + 1 /\ a + 3 - 1 = a + 2
  BY LenNat
<1>2. CASE urlPlain(c)
  <2>1. p = <<c>> /\ c # percent
    <3>1. p = <<c>>
      BY <1>2 DEF urlChar
    <3>2. ~urlPlain(percent)
      BY DEF urlPlain, isalnum, isdigit, percent
    <3> QED
      BY <1>2, <3>1, <3>2
  <2>2. w[a + 1 - 1] = p[1] /\ Len(p) = 1
    BY <2>1
  <2>3. w[a] = c
    BY <1>1, <2>1, <2>2
  <2> HIDE DEF p
  <2> QED
    BY <1>1, <2>1, <2>2, <2>3 DEF UrlDecoded, p
<1>3. CASE ~urlPlain(c)
  <2> DEFINE x == hexdigit(c \div 16)
             y == hexdigit(c % 16)
  <2>1. /\ x \in Codes /\ isxdigit(x) /\ digitValue(x) = c \div 16
        /\ y \in Codes /\ isxdigit(y) /\ digitValue(y) = c % 16
    BY HexParts, HexDigitFacts
  <2>2. p = <<percent>> \o <<x, y>>
    BY <1>3 DEF urlChar, hex
  <2> HIDE DEF x, y
  <2>3. <<percent>> \o <<x, y>> = <<percent, x, y>>
    <3>1. percent \in Codes
      BY DEF percent, Codes
    <3> QED
      BY <2>1, <3>1, OneAndTwo
  <2>4. p = <<percent, x, y>>
    BY <2>2, <2>3
  <2> HIDE DEF p
  <2>5. Len(p) = 3 /\ p[1] = percent /\ p[2] = x /\ p[3] = y
    BY <2>4
  <2>6. w[a + 1 - 1] = p[1] /\ w[a + 2 - 1] = p[2] /\ w[a + 3 - 1] = p[3]
    <3>1. 1 \in 1..3 /\ 2 \in 1..3 /\ 3 \in 1..3
      OBVIOUS
    <3> QED
      BY <2>5, <3>1 DEF p
  <2>7. w[a] = percent /\ w[a + 1] = x /\ w[a + 2] = y
    BY <1>1, <2>5, <2>6
  <2>8. a + 3 <= Len(w) + 1
    BY <2>5 DEF p
  <2> DEFINE d == SubSeq(w, a + 1, a + 2)
  <2>9. d \in String /\ Len(d) = 2 /\ d[1] = x /\ d[2] = y
    <3>1. a + 1 \in 1..Len(w) /\ (a + 1) + 1 \in 1..Len(w) /\ (a + 1) + 1 = a + 2
      BY <1>1, <2>8
    <3>2. /\ SubSeq(w, a + 1, (a + 1) + 1) \in String /\ Len(SubSeq(w, a + 1, (a + 1) + 1)) = 2
          /\ SubSeq(w, a + 1, (a + 1) + 1)[1] = w[a + 1]
          /\ SubSeq(w, a + 1, (a + 1) + 1)[2] = w[(a + 1) + 1]
      BY <3>1, TwoOf
    <3> QED
      BY <2>7, <3>1, <3>2
  <2> HIDE DEF d
  <2>10. strtoul16(d) = c
    <3>1. d # <<>> /\ Len(d) # 1
      <4>1. Len(<<>>) = 0
        OBVIOUS
      <4>2. d = <<>> => Len(d) = Len(<<>>)
        BY Zenon
      <4> QED
        BY <2>9, <4>1, <4>2
    <3>2. strtoul16(d) = 16 * digitValue(d[1]) + digitValue(d[2])
      BY <2>1, <2>9, <3>1, Zenon DEF strtoul16
    <3>3. strtoul16(d) = 16 * (c \div 16) + (c % 16)
      BY <2>1, <2>9, <3>2
    <3> QED
      BY <3>3, HexParts
  <2> HIDE DEF f
  <2>11. UrlDecoded(w, f, a) = <<strtoul16(d)>> \o f[a + 3]
    <3>1. ~(Len(w) >= 2 /\ a - 1 >= Len(w) - 2) /\ ~(a + 2 > Len(w))
      BY <1>1, <2>8
    <3> QED
      BY <1>1, <2>7, <3>1 DEF UrlDecoded, d
  <2> QED
    BY <2>5, <2>10, <2>11 DEF f, p
<1> QED
  BY <1>2, <1>3

LEMMA UrlRest ==
  ASSUME NEW w \in String, w # <<percent>>, NEW a \in 1..Len(w), w[a] = percent, a + 2 > Len(w)
  PROVE  UrlDecoded(w, urlFrom(w), a) = <<>>
<1>1. Len(w) \in Nat /\ ~(a > Len(w))
  BY LenNat
<1>2. Len(w) # 1
  <2> SUFFICES ASSUME Len(w) = 1 PROVE FALSE
    OBVIOUS
  <2>1. w[1] = percent
    BY <1>1
  <2> DEFINE p == <<percent>>
  <2>2. p \in String /\ Len(p) = 1 /\ p[1] = percent
    BY DEF String, Codes, percent
  <2> HIDE DEF p
  <2>3. \A k \in 1..Len(w) : w[k] = p[k]
    BY <2>1, <2>2
  <2>4. w = p
    BY <2>2, <2>3, SameString
  <2> QED
    BY <2>4 DEF p
<1>3. Len(w) >= 2 /\ a - 1 >= Len(w) - 2
  <2> DEFINE l == Len(w)
  <2>1. l \in Nat /\ a \in 1..l /\ a + 2 > l /\ l # 1
    BY <1>1, <1>2
  <2> HIDE DEF l
  <2>2. l >= 2 /\ a - 1 >= l - 2
    BY <2>1
  <2> QED
    BY <2>2 DEF l
<1> QED
  BY <1>1, <1>3 DEF UrlDecoded

(* The pieces of an encoded URL.                                           *)
LEMMA UrlCharIs ==
  ASSUME NEW c \in Codes
  PROVE  /\ urlChar(c) \in String
         /\ Len(urlChar(c)) = 1 \/ (Len(urlChar(c)) = 3 /\ urlChar(c)[1] = percent)
<1>1. CASE urlPlain(c)
  <2>1. urlChar(c) = <<c>>
    BY <1>1 DEF urlChar
  <2> QED
    BY <2>1 DEF String
<1>2. CASE ~urlPlain(c)
  <2> DEFINE x == hexdigit(c \div 16)
             y == hexdigit(c % 16)
  <2>1. x \in Codes /\ y \in Codes
    BY HexParts, HexDigitFacts
  <2>2. percent \in Codes
    BY DEF percent, Codes
  <2>3. urlChar(c) = <<percent>> \o <<x, y>>
    BY <1>2 DEF urlChar, hex
  <2> HIDE DEF x, y
  <2>4. urlChar(c) = <<percent, x, y>>
    BY <2>1, <2>2, <2>3, OneAndTwo
  <2> QED
    BY <2>1, <2>2, <2>4 DEF String
<1> QED
  BY <1>1, <1>2

LEMMA UrlPieces ==
  ASSUME NEW s \in String
  PROVE  /\ [n \in DOMAIN s |-> urlChar(s[n])] \in Seq(String)
         /\ Len([n \in DOMAIN s |-> urlChar(s[n])]) = Len(s)
<1>1. Len(s) \in Nat /\ s \in [1..Len(s) -> Codes] /\ DOMAIN s = 1..Len(s)
  BY DEF String
<1>2. \A k \in 1..Len(s) : urlChar(s[k]) \in String
  BY <1>1, UrlCharIs
<1>3. [n \in 1..Len(s) |-> urlChar(s[n])] \in [1..Len(s) -> String]
  BY <1>2
<1>4. ASSUME NEW P, NEW m \in Nat, P \in [1..m -> String]
      PROVE  P \in Seq(String) /\ Len(P) = m
  BY <1>4
<1> QED
  BY <1>1, <1>3, <1>4

(* An encoded text, cut off anywhere, is decoded to its first characters.  *)
LEMMA UrlDecodes ==
  ASSUME NEW s \in String, NEW q \in 0..Len(encode_url(s)),
         SubSeq(encode_url(s), 1, q) # <<percent>>
  PROVE  \E k \in 0..Len(s) :
           /\ decode_url(SubSeq(encode_url(s), 1, q)) = SubSeq(s, 1, k)
           /\ q = Len(encode_url(s)) => k = Len(s)
<1> DEFINE m == Len(s)
           P == [n \in DOMAIN s |-> urlChar(s[n])]
           e == encode_url(s)
           w == SubSeq(e, 1, q)
           f == urlFrom(w)
<1>1. m \in Nat /\ DOMAIN s = 1..m /\ \A k \in 1..m : s[k] \in Codes
  BY DEF String
<1>2. P \in Seq(String) /\ Len(P) = m /\ \A k \in 1..m : P[k] = urlChar(s[k])
  BY <1>1, UrlPieces
<1>3. e = FlattenSeq(P)
  BY DEF encode_url
<1>4. q \in 0..Len(e) /\ w # <<percent>>
  OBVIOUS
<1> HIDE DEF P, e
<1>5. /\ e \in String /\ Len(e) \in Nat
      /\ \A k \in 1..(m + 1) : From(P, k) \in 0..Len(e)
      /\ From(P, 1) = 0 /\ From(P, m + 1) = Len(e)
      /\ \A k \in 1..m : From(P, k + 1) = From(P, k) + Len(P[k])
      /\ \A k \in 1..m : \A j \in 1..Len(P[k]) : e[From(P, k) + j] = P[k][j]
  <2>1. LaidOut(P)
    BY <1>2, FlattenLaysOut
  <2> QED
    BY <1>2, <1>3, <2>1, LenNat DEF LaidOut
<1>6. w \in String /\ Len(w) = q /\ \A k \in 1..q : w[k] = e[k]
  BY <1>4, <1>5, FrontFacts
<1> HIDE DEF w
<1>7. \A a \in 1..(q + 3) : f[a] = UrlDecoded(w, f, a)
  BY <1>6, UrlFromFacts
<1> HIDE DEF f, m
<1> DEFINE K == {k \in 0..m : From(P, k + 1) <= q}
<1>8. PICK n \in K : \A k \in K : k <= n
  <2>1. K \in SUBSET (0..m)
    OBVIOUS
  <2>2. 0 \in K
    <3>1. From(P, 0 + 1) = 0 /\ 0 <= q /\ 0 \in 0..m
      BY <1>1, <1>4, <1>5
    <3> QED
      BY <3>1
  <2> HIDE DEF K
  <2> QED
    BY <1>1, <2>1, <2>2, MaxFacts
<1>9. n \in 0..m /\ From(P, n + 1) <= q
  BY <1>8
<1>10. \A k \in 0..m : n < k => q < From(P, k + 1)
  <2> SUFFICES ASSUME NEW k \in 0..m, n < k, ~(q < From(P, k + 1)) PROVE FALSE
    OBVIOUS
  <2>1. From(P, k + 1) \in Nat
    <3>1. k + 1 \in 1..(m + 1)
      BY <1>1
    <3> QED
      BY <1>5, <3>1
  <2>2. k \in K
    BY <1>4, <2>1
  <2>3. k <= n
    BY <1>8, <2>2
  <2> QED
    BY <1>9, <2>3
<1> HIDE DEF K
<1> DEFINE u == SubSeq(s, 1, n)
<1>11. u \in String /\ Len(u) = n /\ \A k \in 1..n : u[k] = s[k]
  <2>1. n \in 0..Len(s)
    BY <1>1, <1>9 DEF m
  <2> QED
    BY <2>1, FrontFacts
<1> HIDE DEF u
<1> DEFINE At(k) == From(P, k) <= q /\ f[From(P, k) + 1] = SubSeq(u, k, n)
<1>12. At(n + 1)
  <2> DEFINE a == From(P, n + 1) + 1
  <2>1. From(P, n + 1) \in 0..q /\ a \in 1..(q + 3)
    <3>1. n + 1 \in 1..(m + 1)
      BY <1>1, <1>9
    <3> QED
      BY <1>4, <1>5, <1>9, <3>1
  <2>2. SubSeq(u, n + 1, n) = <<>>
    BY <1>9, <1>11
  <2>3. CASE From(P, n + 1) = q
    <3>1. a > Len(w)
      BY <1>6, <2>1, <2>3
    <3>2. f[a] = <<>>
      BY <1>7, <2>1, <3>1 DEF UrlDecoded
    <3> QED
      BY <1>9, <2>2, <3>2
  <2>4. CASE From(P, n + 1) # q
    <3>1. n + 1 \in 1..m /\ n + 1 \in 0..m /\ n < n + 1
      <4>1. n # m
        BY <1>4, <1>5, <2>1, <2>4
      <4> QED
        BY <1>1, <1>9, <4>1
    <3>2. q < From(P, (n + 1) + 1)
      BY <1>10, <3>1
    <3>3. From(P, (n + 1) + 1) = From(P, n + 1) + Len(P[n + 1])
      BY <1>5, <3>1
    <3>4. P[n + 1] = urlChar(s[n + 1]) /\ s[n + 1] \in Codes
      BY <1>1, <1>2, <3>1
    <3>5. Len(P[n + 1]) = 1 \/ (Len(P[n + 1]) = 3 /\ P[n + 1][1] = percent)
      BY <3>4, UrlCharIs
    <3>6. Len(P[n + 1]) # 1
      <4>1. \A r \in 0..q : r # q => ~(q < r + 1)
        BY <1>4, <1>5
      <4> QED
        BY <2>1, <2>4, <3>2, <3>3, <4>1
    <3>7. Len(P[n + 1]) = 3 /\ P[n + 1][1] = percent /\ 1 \in 1..3
      BY <3>5, <3>6
    <3>8. e[From(P, n + 1) + 1] = P[n + 1][1]
      BY <1>5, <3>1, <3>7
    <3>9. a \in 1..q /\ a + 2 > q
      BY <1>4, <2>1, <2>4, <3>2, <3>3, <3>7
    <3>10. w[a] = percent
      BY <1>6, <3>7, <3>8, <3>9
    <3> HIDE DEF a
    <3>11. UrlDecoded(w, f, a) = <<>>
      BY <1>4, <1>6, <3>9, <3>10, UrlRest DEF f
    <3> QED
      BY <1>7, <1>9, <2>1, <2>2, <3>11 DEF a
  <2> QED
    BY <2>3, <2>4
<1>13. ASSUME NEW k \in 1..n, At(k + 1)
       PROVE  At(k)
  <2> DEFINE a == From(P, k) + 1
             p == urlChar(s[k])
             b == From(P, k + 1) + 1
  <2>1. P[k] = p /\ s[k] \in Codes /\ k \in 1..m
    BY <1>1, <1>2, <1>9
  <2>2. p \in String /\ (Len(p) = 1 \/ Len(p) = 3)
    BY <2>1, UrlCharIs
  <2>3. From(P, k) \in 0..Len(e) /\ From(P, k + 1) = From(P, k) + Len(p) /\ From(P, k + 1) <= q
    <3>1. k \in 1..(m + 1)
      BY <1>1, <2>1
    <3> QED
      BY <1>5, <1>13, <2>1, <3>1
  <2>4. \A j \in 1..Len(p) : e[From(P, k) + j] = p[j]
    BY <1>5, <2>1
  <2> HIDE DEF p
  <2>5. /\ a \in 1..Len(w) /\ a + Len(p) = b /\ a + Len(p) <= Len(w) + 1
        /\ a \in 1..(q + 3) /\ From(P, k) <= q
    <3> DEFINE r == From(P, k)
               d == Len(p)
    <3>1. /\ r \in Nat /\ q \in Nat /\ (d = 1 \/ d = 3)
          /\ From(P, k + 1) = r + d /\ r + d <= q /\ Len(w) = q
      BY <1>4, <1>5, <1>6, <2>2, <2>3
    <3> HIDE DEF r, d
    <3>2. r + 1 \in 1..q /\ r + 1 + d = r + d + 1 /\ r + 1 + d <= q + 1 /\ r + 1 \in 1..(q + 3) /\ r <= q
      BY <3>1
    <3> QED
      BY <3>1, <3>2 DEF r, d
  <2>6. ASSUME NEW j \in 1..Len(p)
        PROVE  w[a + j - 1] = p[j]
    <3>1. a + j - 1 = From(P, k) + j /\ From(P, k) + j \in 1..q
      BY <1>4, <1>5, <2>2, <2>3
    <3> QED
      BY <1>6, <2>4, <3>1
  <2> HIDE DEF a, b
  <2>7. UrlDecoded(w, f, a) = <<s[k]>> \o f[a + Len(p)]
    BY <1>6, <2>1, <2>5, <2>6, UrlPiece DEF p, f
  <2>8. f[a] = <<u[k]>> \o f[b]
    BY <1>7, <1>11, <2>5, <2>7
  <2>9. f[b] = SubSeq(u, k + 1, n)
    BY <1>13 DEF b
  <2>10. <<u[k]>> \o SubSeq(u, k + 1, n) = SubSeq(u, k, n)
    BY <1>11, PutInFront
  <2> QED
    BY <2>5, <2>8, <2>9, <2>10 DEF a
<1>14. At(1)
  <2> DEFINE T == {i \in 0..n : ~At(n + 1 - i)}
  <2> HIDE DEF At
  <2>1. ASSUME T # {}
        PROVE  FALSE
    <3>0. T \in SUBSET Nat /\ T # {}
      BY <1>9, <2>1
    <3>1. PICK i \in T : \A j \in T : i <= j
      <4> HIDE DEF T
      <4> QED
        BY <3>0, LeastNatural
    <3>2. i \in 0..n /\ ~At(n + 1 - i)
      BY <3>1
    <3>3. i # 0
      <4>1. n + 1 - 0 = n + 1
        BY <1>9
      <4> QED
        BY <1>12, <3>2, <4>1
    <3>4. i - 1 \in 0..n /\ ~(i <= i - 1) /\ n + 1 - (i - 1) = (n + 1 - i) + 1 /\ n + 1 - i \in 1..n
      BY <1>9, <3>2, <3>3
    <3>5. At((n + 1 - i) + 1)
      BY <3>1, <3>4
    <3>6. At(n + 1 - i)
      BY <1>13, <3>4, <3>5
    <3> QED
      BY <3>2, <3>6
  <2>2. n \in 0..n /\ n + 1 - n = 1
    BY <1>9
  <2>3. At(n + 1 - n)
    BY <2>1, <2>2
  <2> QED
    BY <2>2, <2>3
<1>15. f[1] = u
  <2>1. From(P, 1) + 1 = 1
    BY <1>5
  <2>2. SubSeq(u, 1, n) = u
    BY <1>11 DEF String
  <2> QED
    BY <1>14, <2>1, <2>2
<1>16. q = Len(e) => n = m
  <2>1. m \in 0..m /\ From(P, m + 1) = Len(e)
    BY <1>1, <1>5
  <2>2. ~(n < m) \/ q < Len(e)
    BY <1>10, <2>1
  <2> QED
    BY <1>1, <1>4, <1>9, <2>2
<1>17. decode_url(w) = SubSeq(s, 1, n)
  BY <1>15 DEF decode_url, f, u
<1> QED
  BY <1>9, <1>16, <1>17 DEF w, e, m

(* A percent sign by itself is no encoded text.                            *)
LEMMA EncodedIsNotPercent ==
  ASSUME NEW s \in String, encode_url(s) = <<percent>>
  PROVE  FALSE
<1> DEFINE m == Len(s)
           P == [n \in DOMAIN s |-> urlChar(s[n])]
           e == encode_url(s)
<1>1. m \in Nat /\ DOMAIN s = 1..m /\ \A k \in 1..m : s[k] \in Codes
  BY DEF String
<1>2. P \in Seq(String) /\ Len(P) = m /\ \A k \in 1..m : P[k] = urlChar(s[k])
  BY <1>1, UrlPieces
<1>3. e = FlattenSeq(P) /\ Len(e) = 1 /\ e[1] = percent
  BY DEF encode_url
<1> HIDE DEF P, e, m
<1>4. /\ \A k \in 1..(m + 1) : From(P, k) \in 0..1
      /\ From(P, 1) = 0 /\ From(P, m + 1) = 1
      /\ \A k \in 1..m : From(P, k + 1) = From(P, k) + Len(P[k])
      /\ \A k \in 1..m : \A j \in 1..Len(P[k]) : e[From(P, k) + j] = P[k][j]
  <2>1. LaidOut(P)
    BY <1>2, FlattenLaysOut
  <2> QED
    BY <1>2, <1>3, <2>1 DEF LaidOut
<1>5. m # 0
  <2> SUFFICES ASSUME m = 0 PROVE FALSE
    OBVIOUS
  <2>1. m + 1 = 1
    OBVIOUS
  <2> QED
    BY <1>4, <2>1
<1>6. 1 \in 1..m /\ 2 \in 1..(m + 1) /\ 1 + 1 = 2
  BY <1>1, <1>5
<1>7. P[1] = urlChar(s[1]) /\ s[1] \in Codes
  BY <1>1, <1>2, <1>6
<1>8. From(P, 2) = 0 + Len(P[1]) /\ From(P, 2) \in 0..1
  BY <1>4, <1>6
<1>9. Len(P[1]) = 1
  <2>1. Len(P[1]) = 1 \/ Len(P[1]) = 3
    BY <1>7, UrlCharIs
  <2>2. Len(P[1]) = 3 => From(P, 2) = 3
    BY <1>8
  <2>3. From(P, 2) # 3
    BY <1>8
  <2> QED
    BY <2>1, <2>2, <2>3, Zenon
<1>10. e[0 + 1] = P[1][1]
  BY <1>4, <1>6, <1>9
<1>11. urlChar(s[1])[1] = percent /\ Len(urlChar(s[1])) = 1
  BY <1>3, <1>7, <1>9, <1>10
<1>12. urlPlain(s[1])
  <2> SUFFICES ASSUME ~urlPlain(s[1]) PROVE FALSE
    OBVIOUS
  <2> DEFINE x == hexdigit(s[1] \div 16)
             y == hexdigit(s[1] % 16)
  <2>1. x \in Codes /\ y \in Codes
    BY <1>7, HexParts, HexDigitFacts
  <2>2. percent \in Codes
    BY DEF percent, Codes
  <2>3. urlChar(s[1]) = <<percent>> \o <<x, y>>
    BY DEF urlChar, hex
  <2> HIDE DEF x, y
  <2>4. urlChar(s[1]) = <<percent, x, y>>
    BY <2>1, <2>2, <2>3, OneAndTwo
  <2> QED
    BY <1>11, <2>4
<1>13. s[1] = percent
  BY <1>11, <1>12 DEF urlChar
<1>14. ~urlPlain(percent)
  BY DEF urlPlain, isalnum, isdigit, percent
<1> QED
  BY <1>12, <1>13, <1>14

-----------------------------------------------------------------------------
(* Base64.                                                                 *)

(* Pieces of one length stand at multiples of it.                          *)
LEMMA EvenPieces ==
  ASSUME NEW seqs \in Seq(String), NEW d \in {3, 4}, \A k \in 1..Len(seqs) : Len(seqs[k]) = d
  PROVE  \A k \in 1..(Len(seqs) + 1) : From(seqs, k) = d * (k - 1)
<1> DEFINE l == Len(seqs)
           T == {k \in 1..(l + 1) : From(seqs, k) # d * (k - 1)}
<1>1. l \in Nat
  OBVIOUS
<1>2. /\ From(seqs, 1) = 0
      /\ \A k \in 1..l : From(seqs, k + 1) = From(seqs, k) + Len(seqs[k])
  BY FlattenLaysOut DEF LaidOut
<1>3. ASSUME NEW k \in Nat
      PROVE  d * (k - 1) + d = d * k /\ d * (1 - 1) = 0
  <2>1. CASE d = 3
    BY <2>1
  <2>2. CASE d = 4
    BY <2>2
  <2> QED
    BY <2>1, <2>2
<1>4. ASSUME T # {}
      PROVE  FALSE
  <2>0. T \in SUBSET Nat /\ T # {}
    BY <1>1, <1>4
  <2>1. PICK k \in T : \A n \in T : k <= n
    <3> HIDE DEF T
    <3> QED
      BY <2>0, LeastNatural
  <2>2. k \in 1..(l + 1) /\ From(seqs, k) # d * (k - 1)
    BY <2>1
  <2>3. k # 1
    BY <1>2, <1>3, <2>2
  <2>4. k - 1 \in 1..l /\ k - 1 \in 1..(l + 1) /\ ~(k <= k - 1) /\ (k - 1) + 1 = k /\ k - 1 \in Nat
    BY <1>1, <2>2, <2>3
  <2>5. From(seqs, k - 1) = d * ((k - 1) - 1)
    BY <2>1, <2>4
  <2>6. From(seqs, k) = From(seqs, k - 1) + d
    <3>1. From(seqs, (k - 1) + 1) = From(seqs, k - 1) + Len(seqs[k - 1]) /\ Len(seqs[k - 1]) = d
      BY <1>2, <2>4
    <3> QED
      BY <2>4, <3>1
  <2>7. d * ((k - 1) - 1) + d = d * (k - 1)
    BY <1>3, <2>4
  <2> QED
    BY <2>2, <2>5, <2>6, <2>7
<1> QED
  BY <1>4

(* The table and its inverse.                                              *)
LEMMA TableInverse ==
  ASSUME NEW v \in 0..63
  PROVE  base64(v) \in Codes /\ base64(v) # equals /\ invbase64(base64(v)) = v
<1>1. CASE v \in 0..25
  <2>1. base64(v) = 65 + v
    BY <1>1 DEF base64
  <2>2. 65 + v \in 65..90
    BY <1>1
  <2>3. invbase64(65 + v) = 65 + v - 65
    BY <2>2 DEF invbase64, isdigit
  <2> QED
    BY <1>1, <2>1, <2>2, <2>3 DEF Codes, equals
<1>2. CASE v \in 26..51
  <2>1. base64(v) = 71 + v
    BY <1>2 DEF base64
  <2>2. 71 + v \in 97..122
    BY <1>2
  <2>3. invbase64(71 + v) = 71 + v - 71
    BY <2>2 DEF invbase64, isdigit
  <2> QED
    BY <1>2, <2>1, <2>2, <2>3 DEF Codes, equals
<1>3. CASE v \in 52..61
  <2>1. base64(v) = v - 4
    BY <1>3 DEF base64
  <2>2. v - 4 \in 48..57
    BY <1>3
  <2>3. invbase64(v - 4) = v - 4 + 4
    BY <2>2 DEF invbase64, isdigit
  <2> QED
    BY <1>3, <2>1, <2>2, <2>3 DEF Codes, equals
<1>4. CASE v = 62
  <2>1. base64(v) = 43
    BY <1>4 DEF base64
  <2>2. invbase64(43) = 62
    BY DEF invbase64, isdigit
  <2> QED
    BY <1>4, <2>1, <2>2 DEF Codes, equals
<1>5. CASE v = 63
  <2>1. base64(v) = 47
    BY <1>5 DEF base64
  <2>2. invbase64(47) = 63
    BY DEF invbase64, isdigit
  <2> QED
    BY <1>5, <2>1, <2>2 DEF Codes, equals
<1> QED
  BY <1>1, <1>2, <1>3, <1>4, <1>5

(* Three bytes as four digits, and back.                                   *)
Whole(a, b, c) == a * 65536 + b * 256 + c

IsOfDigits(enc) ==
  /\ enc \div 262144 \in 0..63 /\ (enc \div 4096) % 64 \in 0..63
  /\ (enc \div 64) % 64 \in 0..63 /\ enc % 64 \in 0..63
  /\ (enc \div 262144) * 262144 + ((enc \div 4096) % 64) * 4096
       + ((enc \div 64) % 64) * 64 + (enc % 64) = enc

LEMMA FourDigits ==
  ASSUME NEW a \in Codes, NEW b \in Codes, NEW c \in Codes
  PROVE  IsOfDigits(Whole(a, b, c))
<1> DEFINE enc == Whole(a, b, c)
<1>1. enc \in Nat /\ enc < 16777216
  BY SMT DEF Whole, Codes
<1> HIDE DEF enc
<1> DEFINE p == enc \div 64
           q == enc \div 4096
           r == enc \div 262144
<1>2. p \in Nat /\ 64 * p <= enc /\ enc < 64 * p + 64
  BY <1>1
<1>3. q \in Nat /\ 4096 * q <= enc /\ enc < 4096 * q + 4096
  BY <1>1
<1>4. r \in Nat /\ 262144 * r <= enc /\ enc < 262144 * r + 262144
  BY <1>1
<1>5. enc % 64 = enc - 64 * p
  BY <1>1
<1> HIDE DEF p, q, r
<1>6. 64 * q <= p /\ p < 64 * q + 64
  BY <1>1, <1>2, <1>3
<1>7. 64 * r <= q /\ q < 64 * r + 64
  BY <1>1, <1>3, <1>4
<1>8. p % 64 = p - 64 * q
  BY <1>2, <1>3, <1>6
<1>9. q % 64 = q - 64 * r
  BY <1>3, <1>4, <1>7
<1>10. r \in 0..63
  BY <1>1, <1>4
<1>11. p - 64 * q \in 0..63 /\ q - 64 * r \in 0..63 /\ enc - 64 * p \in 0..63
  BY <1>1, <1>2, <1>3, <1>4, <1>6, <1>7
<1>12. r * 262144 + (q - 64 * r) * 4096 + (p - 64 * q) * 64 + (enc - 64 * p) = enc
  BY <1>1, <1>2, <1>3, <1>4
<1>13. /\ r \in 0..63 /\ q % 64 \in 0..63 /\ p % 64 \in 0..63 /\ enc % 64 \in 0..63
       /\ r * 262144 + (q % 64) * 4096 + (p % 64) * 64 + (enc % 64) = enc
  BY <1>5, <1>8, <1>9, <1>10, <1>11, <1>12
<1> QED
  BY <1>13, SMT DEF IsOfDigits, p, q, r, enc

LEMMA ThreeBytes ==
  ASSUME NEW a \in Codes, NEW b \in Codes, NEW c \in Codes
  PROVE  /\ (Whole(a, b, c) \div 65536) % 256 = a
         /\ (Whole(a, b, c) \div 256) % 256 = b
         /\ Whole(a, b, c) % 256 = c
<1> DEFINE enc == Whole(a, b, c)
<1>0. enc = a * 65536 + b * 256 + c /\ a \in Nat /\ b \in Nat /\ c \in Nat /\ a < 256 /\ b < 256 /\ c < 256
  BY SMT DEF Whole, Codes
<1> HIDE DEF enc
<1>1. enc \in Nat
  BY <1>0, SMT
<1>2. enc \div 65536 = a
  <2>1. 65536 * a <= enc /\ enc < 65536 * a + 65536
    BY <1>0, SMT
  <2> QED
    BY <1>0, <1>1, <2>1, SMT
<1>3. enc \div 256 = a * 256 + b
  <2>1. 256 * (a * 256 + b) <= enc /\ enc < 256 * (a * 256 + b) + 256
    BY <1>0, SMT
  <2> QED
    BY <1>0, <1>1, <2>1, SMT
<1>4. a % 256 = a
  BY <1>0, SMT
<1>5. (a * 256 + b) % 256 = b
  BY <1>0, SMT
<1>6. enc % 256 = c
  <2>1. enc = 256 * (a * 256 + b) + c
    BY <1>0, SMT
  <2> QED
    BY <1>0, <1>1, <2>1, SMT
<1> QED
  BY <1>2, <1>3, <1>4, <1>5, <1>6 DEF enc

(* Bytes past the end are zero, and so are the digits that hold only them. *)
LEMMA ZeroDigits ==
  ASSUME NEW a \in Codes, NEW b \in Codes
  PROVE  Whole(a, b, 0) % 64 = 0 /\ (Whole(a, 0, 0) \div 64) % 64 = 0
<1>0. a \in 0..255 /\ b \in 0..255
  BY DEF Codes
<1>1. Whole(a, b, 0) = 64 * (1024 * a + 4 * b)
  BY <1>0, SMT DEF Whole
<1>2. (64 * (1024 * a + 4 * b)) % 64 = 0
  BY <1>0, SMT
<1>3. Whole(a, 0, 0) \div 64 = 64 * (16 * a)
  <2>1. Whole(a, 0, 0) = 64 * (64 * (16 * a))
    BY <1>0, SMT DEF Whole
  <2> QED
    BY <1>0, <2>1, SMT
<1>4. (64 * (16 * a)) % 64 = 0
  BY <1>0, SMT
<1> QED
  BY <1>1, <1>2, <1>3, <1>4

(* Group g of a text: three bytes, and the number made of them.            *)
Byte(s, g, j) == at(s, 3 * (g - 1) + j)
Number(s, g) == Whole(Byte(s, g, 1), Byte(s, g, 2), Byte(s, g, 3))

Digit(s, g, i) ==
  CASE i = 1 -> Number(s, g) \div 262144
    [] i = 2 -> (Number(s, g) \div 4096) % 64
    [] i = 3 -> (Number(s, g) \div 64) % 64
    [] i = 4 -> Number(s, g) % 64

LEMMA ByteFacts ==
  ASSUME NEW s \in String, NEW g \in Nat \ {0}, NEW j \in 1..3
  PROVE  /\ Byte(s, g, j) \in Codes
         /\ 3 * (g - 1) + j <= Len(s) => Byte(s, g, j) = s[3 * (g - 1) + j]
         /\ 3 * (g - 1) + j > Len(s) => Byte(s, g, j) = 0
<1> DEFINE n == 3 * (g - 1) + j
<1>1. n \in Nat \ {0} /\ Len(s) \in Nat
  <2>1. n \in Nat \ {0}
    OBVIOUS
  <2> QED
    BY <2>1, LenNat
<1> HIDE DEF n
<1>2. ASSUME n <= Len(s)
      PROVE  at(s, n) = s[n] /\ s[n] \in Codes
  <2>1. at(s, n) = s[n]
    BY <1>2, Zenon DEF at
  <2>2. n \in 1..Len(s)
    BY <1>1, <1>2
  <2>3. s \in [1..Len(s) -> Codes]
    BY DEF String
  <2>4. s[n] \in Codes
    BY <2>2, <2>3
  <2> QED
    BY <2>1, <2>4
<1>3. ASSUME n > Len(s)
      PROVE  at(s, n) = 0
  <2>1. ~(n <= Len(s))
    BY <1>1, <1>3
  <2> QED
    BY <2>1, Zenon DEF at
<1>4. at(s, n) \in Codes
  <2>1. n <= Len(s) \/ n > Len(s)
    BY <1>1
  <2>2. 0 \in Codes
    BY DEF Codes
  <2>3. CASE n <= Len(s)
    BY <1>2, <2>3, Zenon
  <2>4. CASE n > Len(s)
    BY <1>3, <2>2, <2>4, Zenon
  <2> QED
    BY <2>1, <2>3, <2>4, Zenon
<1>5. Byte(s, g, j) = at(s, n)
  BY DEF Byte, n
<1>6. n = 3 * (g - 1) + j
  BY DEF n
<1> QED
  BY <1>2, <1>3, <1>4, <1>5, <1>6

LEMMA DigitFacts ==
  ASSUME NEW s \in String, NEW g \in Nat \ {0}
  PROVE  /\ \A i \in 1..4 : Digit(s, g, i) \in 0..63
         /\ Digit(s, g, 1) * 262144 + Digit(s, g, 2) * 4096 + Digit(s, g, 3) * 64
              + Digit(s, g, 4) = Number(s, g)
         /\ quad(s, g - 1) = <<base64(Digit(s, g, 1)), base64(Digit(s, g, 2)),
                               base64(Digit(s, g, 3)), base64(Digit(s, g, 4))>>
         /\ Byte(s, g, 3) = 0 => Digit(s, g, 4) = 0
         /\ Byte(s, g, 2) = 0 /\ Byte(s, g, 3) = 0 => Digit(s, g, 3) = 0
<1> DEFINE x == Byte(s, g, 1)
           y == Byte(s, g, 2)
           z == Byte(s, g, 3)
           e == Number(s, g)
<1>1. x \in Codes /\ y \in Codes /\ z \in Codes
  <2>1. 1 \in 1..3 /\ 2 \in 1..3 /\ 3 \in 1..3
    OBVIOUS
  <2> QED
    BY <2>1, ByteFacts, SMT
<1>2. e = Whole(x, y, z)
  BY DEF Number
<1>3. /\ Digit(s, g, 1) = e \div 262144 /\ Digit(s, g, 2) = (e \div 4096) % 64
      /\ Digit(s, g, 3) = (e \div 64) % 64 /\ Digit(s, g, 4) = e % 64
  BY DEF Digit
<1>4. quad(s, g - 1) = <<base64(e \div 262144), base64((e \div 4096) % 64),
                         base64((e \div 64) % 64), base64(e % 64)>>
  BY DEF quad, Number, Byte, Whole
<1> HIDE DEF x, y, z, e
<1>5. /\ e \div 262144 \in 0..63 /\ (e \div 4096) % 64 \in 0..63
      /\ (e \div 64) % 64 \in 0..63 /\ e % 64 \in 0..63
      /\ (e \div 262144) * 262144 + ((e \div 4096) % 64) * 4096
           + ((e \div 64) % 64) * 64 + (e % 64) = e
  <2>1. IsOfDigits(e)
    BY <1>1, <1>2, FourDigits, SMT
  <2> QED
    BY <2>1, SMT DEF IsOfDigits
<1>6. \A i \in 1..4 : i = 1 \/ i = 2 \/ i = 3 \/ i = 4
  OBVIOUS
<1>7. \A i \in 1..4 : Digit(s, g, i) \in 0..63
  BY <1>3, <1>5, <1>6
<1>8. z = 0 => e % 64 = 0
  <2>1. Whole(x, y, 0) % 64 = 0
    BY <1>1, ZeroDigits, SMT
  <2> QED
    BY <1>2, <2>1, SMT
<1>9. y = 0 /\ z = 0 => (e \div 64) % 64 = 0
  <2>1. (Whole(x, 0, 0) \div 64) % 64 = 0
    BY <1>1, ZeroDigits, SMT
  <2> QED
    BY <1>2, <2>1, SMT
<1>10. /\ Digit(s, g, 1) * 262144 + Digit(s, g, 2) * 4096 + Digit(s, g, 3) * 64
            + Digit(s, g, 4) = e
  BY <1>3, <1>5
<1> QED
  BY <1>3, <1>4, <1>7, <1>8, <1>9, <1>10 DEF y, z, e

Padding(s) == (3 - (Len(s) % 3)) % 3

LEMMA GroupsFacts ==
  ASSUME NEW s \in String
  PROVE  /\ Groups(s, 3) \in Nat /\ Padding(s) \in 0..2
         /\ Len(s) = 3 * Groups(s, 3) - Padding(s)
         /\ Groups(s, 3) = 0 => Padding(s) = 0
<1> DEFINE m == Len(s)
           d == m \div 3
           r == m % 3
<1>1. m \in Nat
  BY LenNat
<1>2. Groups(s, 3) = (m + 3 - 1) \div 3 /\ Padding(s) = (3 - r) % 3
  BY DEF Groups, Padding
<1> HIDE DEF m
<1>3. d \in Nat /\ r \in 0..2 /\ m = 3 * d + r
  BY <1>1
<1> HIDE DEF d, r
<1>4. CASE r = 0
  <2>1. (m + 3 - 1) \div 3 = d /\ (3 - r) % 3 = 0
    BY <1>3, <1>4
  <2> QED
    BY <1>2, <1>3, <1>4, <2>1 DEF m
<1>5. CASE r = 1
  <2>1. (m + 3 - 1) \div 3 = d + 1 /\ (3 - r) % 3 = 2
    BY <1>3, <1>5
  <2> QED
    BY <1>2, <1>3, <1>5, <2>1 DEF m
<1>6. CASE r = 2
  <2>1. (m + 3 - 1) \div 3 = d + 1 /\ (3 - r) % 3 = 1
    BY <1>3, <1>6
  <2> QED
    BY <1>2, <1>3, <1>6, <2>1 DEF m
<1> QED
  BY <1>3, <1>4, <1>5, <1>6

(* What an encoded text is, character by character.                        *)
LEMMA Base64Written ==
  ASSUME NEW s \in String
  PROVE  /\ encode_base64(s) \in String /\ Len(encode_base64(s)) = 4 * Groups(s, 3)
         /\ \A g \in 1..Groups(s, 3) : \A i \in 1..4 :
              encode_base64(s)[4 * (g - 1) + i] =
                IF 4 * (g - 1) + i > 4 * Groups(s, 3) - Padding(s) THEN equals
                ELSE base64(Digit(s, g, i))
<1> DEFINE G == Groups(s, 3)
           P == [g \in 1..G |-> quad(s, g - 1)]
           R == FlattenSeq(P)
           e == encode_base64(s)
<1>1. G \in Nat /\ Padding(s) \in 0..2
  BY GroupsFacts
<1>2. e = [n \in DOMAIN R |-> IF n > Len(R) - Padding(s) THEN equals ELSE R[n]]
  BY DEF encode_base64, Padding
<1> HIDE DEF e, G
<1>3. ASSUME NEW g \in 1..G
      PROVE  /\ quad(s, g - 1) \in String /\ Len(quad(s, g - 1)) = 4
             /\ \A i \in 1..4 : quad(s, g - 1)[i] = base64(Digit(s, g, i))
  <2> DEFINE p == base64(Digit(s, g, 1))
             q == base64(Digit(s, g, 2))
             r == base64(Digit(s, g, 3))
             t == base64(Digit(s, g, 4))
  <2>1. g \in Nat \ {0}
    BY <1>1
  <2>2. quad(s, g - 1) = <<p, q, r, t>>
    BY <2>1, DigitFacts
  <2>3. p \in Codes /\ q \in Codes /\ r \in Codes /\ t \in Codes
    <3>1. \A i \in 1..4 : Digit(s, g, i) \in 0..63
      BY <2>1, DigitFacts
    <3>2. 1 \in 1..4 /\ 2 \in 1..4 /\ 3 \in 1..4 /\ 4 \in 1..4
      OBVIOUS
    <3>3. \A i \in 1..4 : base64(Digit(s, g, i)) \in Codes
      BY <3>1, TableInverse
    <3> QED
      BY <3>2, <3>3
  <2>4. \A i \in 1..4 : i = 1 \/ i = 2 \/ i = 3 \/ i = 4
    OBVIOUS
  <2> DEFINE u == quad(s, g - 1)
  <2> HIDE DEF p, q, r, t, u
  <2>5. u = <<p, q, r, t>>
    BY <2>2 DEF u
  <2>6. u \in String /\ Len(u) = 4 /\ u[1] = p /\ u[2] = q /\ u[3] = r /\ u[4] = t
    BY <2>3, <2>5 DEF String
  <2>7. \A i \in 1..4 : u[i] = base64(Digit(s, g, i))
    BY <2>4, <2>6 DEF p, q, r, t
  <2> QED
    BY <2>6, <2>7 DEF u
<1>4. P \in Seq(String) /\ Len(P) = G /\ \A g \in 1..G : P[g] = quad(s, g - 1)
  <2>1. P \in [1..G -> String] /\ \A g \in 1..G : P[g] = quad(s, g - 1)
    BY <1>3
  <2> HIDE DEF P
  <2> QED
    BY <1>1, <2>1
<1> HIDE DEF P
<1>5. \A g \in 1..(G + 1) : From(P, g) = 4 * (g - 1)
  <2>1. \A g \in 1..Len(P) : Len(P[g]) = 4
    BY <1>3, <1>4
  <2>2. 4 \in {3, 4}
    OBVIOUS
  <2>3. \A g \in 1..(Len(P) + 1) : From(P, g) = 4 * (g - 1)
    BY <1>4, <2>1, <2>2, EvenPieces
  <2> QED
    BY <1>4, <2>3
<1>6. /\ R \in String /\ From(P, G + 1) = Len(R)
      /\ \A g \in 1..G : \A i \in 1..Len(P[g]) : R[From(P, g) + i] = P[g][i]
  BY <1>4, FlattenLaysOut DEF LaidOut
<1>7. Len(R) = 4 * G
  <2>1. G + 1 \in 1..(G + 1) /\ 4 * ((G + 1) - 1) = 4 * G
    BY <1>1
  <2> QED
    BY <1>5, <1>6, <2>1
<1> HIDE DEF R
<1>8. DOMAIN R = 1..(4 * G) /\ \A n \in 1..(4 * G) : R[n] \in Codes
  BY <1>6, <1>7 DEF String
<1>9. /\ e = [n \in 1..(4 * G) |-> IF n > 4 * G - Padding(s) THEN equals ELSE R[n]]
  BY <1>2, <1>7, <1>8
<1>10. e \in [1..(4 * G) -> Codes]
  <2>1. equals \in Codes
    BY DEF equals, Codes
  <2> QED
    BY <1>8, <1>9, <2>1
<1>11. e \in String /\ Len(e) = 4 * G
  <2>1. 4 * G \in Nat
    BY <1>1
  <2> QED
    BY <1>10, <2>1 DEF String
<1>12. ASSUME NEW g \in 1..G, NEW i \in 1..4
       PROVE  e[4 * (g - 1) + i] =
                IF 4 * (g - 1) + i > 4 * G - Padding(s) THEN equals ELSE base64(Digit(s, g, i))
  <2> DEFINE n == 4 * (g - 1) + i
  <2>1. n \in 1..(4 * G)
    BY <1>1
  <2>2. R[From(P, g) + i] = P[g][i] /\ From(P, g) + i = n /\ P[g][i] = base64(Digit(s, g, i))
    <3>1. g \in 1..(G + 1)
      BY <1>1
    <3>2. Len(P[g]) = 4 /\ P[g][i] = base64(Digit(s, g, i))
      BY <1>3, <1>4
    <3> QED
      BY <1>5, <1>6, <3>1, <3>2
  <2>3. R[n] = base64(Digit(s, g, i))
    BY <2>2
  <2> HIDE DEF n
  <2>4. e[n] = IF n > 4 * G - Padding(s) THEN equals ELSE base64(Digit(s, g, i))
    BY <1>9, <2>1, <2>3
  <2> QED
    BY <2>4 DEF n
<1> QED
  BY <1>11, <1>12 DEF e, G

(* The digits read back from an encoded text are those written, the padded *)
(* ones zero.                                                              *)
LEMMA Base64Inverse ==
  ASSUME NEW s \in String, NEW g \in 1..Groups(s, 3), NEW i \in 1..4
  PROVE  inv(encode_base64(s), 4 * (g - 1) + i) = Digit(s, g, i)
<1>0. /\ Len(encode_base64(s)) = 4 * Groups(s, 3)
      /\ encode_base64(s)[4 * (g - 1) + i] =
           IF 4 * (g - 1) + i > 4 * Groups(s, 3) - Padding(s) THEN equals
           ELSE base64(Digit(s, g, i))
  <2>1. \A h \in 1..Groups(s, 3) : \A j \in 1..4 :
          encode_base64(s)[4 * (h - 1) + j] =
            IF 4 * (h - 1) + j > 4 * Groups(s, 3) - Padding(s) THEN equals
            ELSE base64(Digit(s, h, j))
    BY Base64Written, Zenon
  <2>2. Len(encode_base64(s)) = 4 * Groups(s, 3)
    BY Base64Written, Zenon
  <2> QED
    BY <2>1, <2>2, Zenon
<1> DEFINE G == Groups(s, 3)
           e == encode_base64(s)
           n == 4 * (g - 1) + i
           pad == Padding(s)
<1>1. /\ G \in Nat /\ g \in 1..G /\ g \in Nat \ {0} /\ pad \in 0..2 /\ Len(s) = 3 * G - pad
  BY GroupsFacts
<1>2. /\ Len(e) = 4 * G
      /\ e[n] = IF n > 4 * G - pad THEN equals ELSE base64(Digit(s, g, i))
  BY <1>0, Zenon
<1>3. Digit(s, g, i) \in 0..63
  <2>1. g \in Nat \ {0}
    BY <1>1, Zenon
  <2> HIDE DEF G, e, n, pad
  <2>2. \A j \in 1..4 : Digit(s, g, j) \in 0..63
    BY <2>1, DigitFacts, SMT
  <2> QED
    BY <2>2, Zenon
<1>4. n = 4 * (g - 1) + i
  OBVIOUS
<1> HIDE DEF G, e, n, pad
<1>5. n <= 4 * G
  BY <1>1, <1>4
<1>6. inv(e, n) = invbase64(e[n])
  BY <1>2, <1>5 DEF inv
<1>7. CASE ~(n > 4 * G - pad)
  BY <1>2, <1>3, <1>6, <1>7, TableInverse DEF e, n
<1>8. CASE n > 4 * G - pad
  <2>1. g = G /\ i > 4 - pad
    BY <1>1, <1>4, <1>8
  <2>2. invbase64(e[n]) = 0
    <3>1. e[n] = 61
      BY <1>2, <1>8 DEF equals
    <3> QED
      BY <3>1 DEF invbase64, isdigit
  <2>3. Byte(s, g, 3) = 0
    <3>1. 3 * (g - 1) + 3 > Len(s) /\ 3 \in 1..3
      BY <1>1, <2>1
    <3> QED
      BY <1>1, <3>1, ByteFacts
  <2>4. CASE i = 4
    BY <1>1, <1>6, <2>2, <2>3, <2>4, DigitFacts DEF e, n
  <2>5. CASE i # 4
    <3>1. i = 3 /\ pad = 2
      BY <1>1, <2>1, <2>5
    <3>2. 3 * (g - 1) + 2 > Len(s) /\ 2 \in 1..3
      BY <1>1, <2>1, <3>1
    <3>3. Byte(s, g, 2) = 0
      BY <1>1, <3>2, ByteFacts
    <3> QED
      BY <1>1, <1>6, <2>2, <2>3, <3>1, <3>3, DigitFacts DEF e, n
  <2> QED
    BY <2>4, <2>5
<1> QED
  BY <1>7, <1>8

TripleOf(enc) == <<(enc \div 65536) % 256, (enc \div 256) % 256, enc % 256>>

(* A group of an encoded text, decoded.                                    *)
LEMMA TripleIs ==
  ASSUME NEW s \in String, NEW g \in 1..Groups(s, 3)
  PROVE  triple(encode_base64(s), g - 1) = <<Byte(s, g, 1), Byte(s, g, 2), Byte(s, g, 3)>>
<1> DEFINE e == encode_base64(s)
           D(i) == Digit(s, g, i)
<1>1. g \in Nat \ {0}
  <2>1. Groups(s, 3) \in Nat
    BY GroupsFacts, SMT
  <2> QED
    BY <2>1, SMT
<1>2. /\ inv(e, 4 * (g - 1) + 1) = D(1) /\ inv(e, 4 * (g - 1) + 2) = D(2)
      /\ inv(e, 4 * (g - 1) + 3) = D(3) /\ inv(e, 4 * (g - 1) + 4) = D(4)
  <2>1. 1 \in 1..4 /\ 2 \in 1..4 /\ 3 \in 1..4 /\ 4 \in 1..4
    OBVIOUS
  <2>2. \A i \in 1..4 : inv(e, 4 * (g - 1) + i) = D(i)
    BY Base64Inverse, SMT
  <2> QED
    BY <2>1, <2>2, SMT
<1>3. triple(e, g - 1) =
        TripleOf(inv(e, 4 * (g - 1) + 1) * 262144 + inv(e, 4 * (g - 1) + 2) * 4096
                 + inv(e, 4 * (g - 1) + 3) * 64 + inv(e, 4 * (g - 1) + 4))
  BY SMT DEF triple, TripleOf
<1>4. D(1) * 262144 + D(2) * 4096 + D(3) * 64 + D(4) = Number(s, g)
  BY <1>1, DigitFacts, SMT
<1> HIDE DEF e, D
<1>5. triple(e, g - 1) = TripleOf(Number(s, g))
  BY <1>2, <1>3, <1>4, SMT
<1> DEFINE x == Byte(s, g, 1)
           y == Byte(s, g, 2)
           z == Byte(s, g, 3)
<1>6. x \in Codes /\ y \in Codes /\ z \in Codes
  <2>1. 1 \in 1..3 /\ 2 \in 1..3 /\ 3 \in 1..3
    OBVIOUS
  <2> QED
    BY <1>1, <2>1, ByteFacts, SMT
<1>7. Number(s, g) = Whole(x, y, z)
  BY DEF Number
<1> HIDE DEF x, y, z
<1>8. /\ (Whole(x, y, z) \div 65536) % 256 = x /\ (Whole(x, y, z) \div 256) % 256 = y
      /\ Whole(x, y, z) % 256 = z
  BY <1>6, ThreeBytes, SMT
<1>9. TripleOf(Whole(x, y, z)) = <<x, y, z>>
  BY <1>8, SMT DEF TripleOf
<1>10. triple(e, g - 1) = <<x, y, z>>
  BY <1>5, <1>7, <1>9
<1> QED
  BY <1>10 DEF e, x, y, z

(* A position in a row of groups of equal size.                            *)
LEMMA InGroupsOf4 ==
  ASSUME NEW m \in Nat, NEW n \in 1..(4 * m)
  PROVE  \E g \in 1..m : \E i \in 1..4 : n = 4 * (g - 1) + i
<1> DEFINE d == (n - 1) \div 4
<1>1. d \in Nat /\ 4 * d <= n - 1 /\ n - 1 < 4 * d + 4
  OBVIOUS
<1> HIDE DEF d
<1>2. d + 1 \in 1..m /\ n - 4 * d \in 1..4 /\ n = 4 * ((d + 1) - 1) + (n - 4 * d)
  BY <1>1
<1> QED
  BY <1>2

LEMMA InGroupsOf3 ==
  ASSUME NEW m \in Nat, NEW n \in 1..(3 * m)
  PROVE  \E g \in 1..m : \E i \in 1..3 : n = 3 * (g - 1) + i
<1> DEFINE d == (n - 1) \div 3
<1>1. d \in Nat /\ 3 * d <= n - 1 /\ n - 1 < 3 * d + 3
  OBVIOUS
<1> HIDE DEF d
<1>2. d + 1 \in 1..m /\ n - 3 * d \in 1..3 /\ n = 3 * ((d + 1) - 1) + (n - 3 * d)
  BY <1>1
<1> QED
  BY <1>2

LEMMA PaddingIs ==
  ASSUME NEW s \in String
  PROVE  padding(encode_base64(s)) = Padding(s)
<1> DEFINE e == encode_base64(s)
           G == Groups(s, 3)
           pad == Padding(s)
           other == {n \in DOMAIN e : e[n] # equals}
<1>1. G \in Nat /\ pad \in 0..2 /\ (G = 0 => pad = 0)
  BY GroupsFacts, SMT
<1>2. e \in String /\ Len(e) = 4 * G
  BY Base64Written, SMT
<1>3. ASSUME NEW g \in 1..G, NEW i \in 1..4
      PROVE  e[4 * (g - 1) + i] = equals <=> 4 * (g - 1) + i > 4 * G - pad
  <2>1. e[4 * (g - 1) + i] = IF 4 * (g - 1) + i > 4 * G - pad THEN equals
                             ELSE base64(Digit(s, g, i))
    <3>1. \A h \in 1..Groups(s, 3) : \A j \in 1..4 :
            encode_base64(s)[4 * (h - 1) + j] =
              IF 4 * (h - 1) + j > 4 * Groups(s, 3) - Padding(s) THEN equals
              ELSE base64(Digit(s, h, j))
      BY Base64Written, Zenon
    <3> QED
      BY <3>1, Zenon
  <2>2. Digit(s, g, i) \in 0..63
    <3>1. g \in Nat \ {0}
      BY <1>1
    <3>2. \A j \in 1..4 : Digit(s, g, j) \in 0..63
      BY <3>1, DigitFacts, SMT
    <3> QED
      BY <3>2
  <2>3. base64(Digit(s, g, i)) # equals
    BY <2>2, TableInverse
  <2> HIDE DEF e, G, pad
  <2> QED
    BY <2>1, <2>3, Zenon
<1> HIDE DEF e, G, pad
<1>4. \A n \in 1..(4 * G) : e[n] = equals <=> n > 4 * G - pad
  <2> SUFFICES ASSUME NEW n \in 1..(4 * G) PROVE e[n] = equals <=> n > 4 * G - pad
    OBVIOUS
  <2>1. PICK g \in 1..G, i \in 1..4 : n = 4 * (g - 1) + i
    BY <1>1, InGroupsOf4
  <2>2. e[4 * (g - 1) + i] = equals <=> 4 * (g - 1) + i > 4 * G - pad
    BY <1>3
  <2> QED
    BY <2>1, <2>2, Zenon
<1>5. DOMAIN e = 1..(4 * G)
  BY <1>2 DEF String
<1>6. padding(e) = IF other = {} THEN Len(e) ELSE Len(e) - Max(other)
  BY DEF padding
<1>7. CASE G = 0
  <2>1. other = {}
    BY <1>5, <1>7
  <2> QED
    BY <1>1, <1>2, <1>6, <1>7, <2>1 DEF e, pad
<1>8. CASE G # 0
  <2>1. 4 * G - pad \in 1..(4 * G) /\ ~(4 * G - pad > 4 * G - pad)
    BY <1>1, <1>8
  <2>2. 4 * G - pad \in other
    BY <1>4, <1>5, <2>1
  <2>3. \A n \in other : n <= 4 * G - pad
    <3> SUFFICES ASSUME NEW n \in other PROVE n <= 4 * G - pad
      OBVIOUS
    <3>1. n \in 1..(4 * G) /\ ~(n > 4 * G - pad)
      BY <1>4, <1>5
    <3> QED
      BY <1>1, <3>1
  <2>4. other \in SUBSET Nat
    BY <1>1, <1>5
  <2> HIDE DEF other
  <2>5. Max(other) = 4 * G - pad
    BY <2>2, <2>3, <2>4, GreatestIs
  <2>6. padding(e) = 4 * G - (4 * G - pad)
    BY <1>2, <1>6, <2>2, <2>5
  <2>7. 4 * G - (4 * G - pad) = pad
    BY <1>1
  <2> QED
    BY <2>6, <2>7 DEF e, pad
<1> QED
  BY <1>7, <1>8

(* Decoding undoes encoding.                                               *)
LEMMA Base64Decodes ==
  ASSUME NEW s \in String
  PROVE  decode_base64(encode_base64(s)) = s
<1> DEFINE G == Groups(s, 3)
           e == encode_base64(s)
           Q == [g \in 1..G |-> triple(e, g - 1)]
           R == FlattenSeq(Q)
           m == Len(s)
           pad == Padding(s)
<1>1. G \in Nat /\ pad \in 0..2 /\ m = 3 * G - pad /\ m \in Nat
  BY GroupsFacts, LenNat, SMT
<1>2. padding(e) = pad
  BY PaddingIs, SMT
<1>3. Groups(e, 4) = G
  <2>1. Len(e) = 4 * G
    BY Base64Written, SMT
  <2> HIDE DEF e, G
  <2>2. Groups(e, 4) = (4 * G + 4 - 1) \div 4
    BY <2>1 DEF Groups
  <2> QED
    BY <1>1, <2>2
<1>4. decode_base64(e) = SubSeq(R, 1, Len(R) - pad)
  <2>1. decode_base64(e) = SubSeq(R, 1, Len(R) - padding(e))
    <3> DEFINE F == FlattenSeq([g \in 1..Groups(e, 4) |-> triple(e, g - 1)])
    <3>1. decode_base64(e) = SubSeq(F, 1, Len(F) - padding(e))
      <4> HIDE DEF e, G
      <4> QED
        BY DEF decode_base64
    <3>2. F = R
      <4> HIDE DEF e, G
      <4> QED
        BY <1>3, Zenon
    <3> HIDE DEF F, R, e
    <3> QED
      BY <3>1, <3>2
  <2> QED
    BY <1>2, <2>1, SMT
<1>5. ASSUME NEW g \in 1..G
      PROVE  /\ triple(e, g - 1) \in String /\ Len(triple(e, g - 1)) = 3
             /\ \A j \in 1..3 : triple(e, g - 1)[j] = Byte(s, g, j)
  <2> DEFINE x == Byte(s, g, 1)
             y == Byte(s, g, 2)
             z == Byte(s, g, 3)
             u == triple(e, g - 1)
  <2>1. u = <<x, y, z>>
    BY TripleIs, SMT
  <2>2. x \in Codes /\ y \in Codes /\ z \in Codes
    <3>1. g \in Nat \ {0} /\ 1 \in 1..3 /\ 2 \in 1..3 /\ 3 \in 1..3
      BY <1>1
    <3> QED
      BY <3>1, ByteFacts, SMT
  <2>3. \A j \in 1..3 : j = 1 \/ j = 2 \/ j = 3
    OBVIOUS
  <2> HIDE DEF x, y, z, u
  <2>4. u \in String /\ Len(u) = 3 /\ u[1] = x /\ u[2] = y /\ u[3] = z
    BY <2>1, <2>2 DEF String
  <2>5. \A j \in 1..3 : u[j] = Byte(s, g, j)
    BY <2>3, <2>4 DEF x, y, z
  <2> QED
    BY <2>4, <2>5 DEF u
<1> HIDE DEF e, G, pad
<1>6. Q \in Seq(String) /\ Len(Q) = G /\ \A g \in 1..G : Q[g] = triple(e, g - 1)
  <2>1. Q \in [1..G -> String] /\ \A g \in 1..G : Q[g] = triple(e, g - 1)
    BY <1>5
  <2> HIDE DEF Q
  <2> QED
    BY <1>1, <2>1
<1> HIDE DEF Q
<1>7. \A g \in 1..(G + 1) : From(Q, g) = 3 * (g - 1)
  <2>1. \A g \in 1..Len(Q) : Len(Q[g]) = 3
    BY <1>5, <1>6
  <2>2. 3 \in {3, 4}
    OBVIOUS
  <2>3. \A g \in 1..(Len(Q) + 1) : From(Q, g) = 3 * (g - 1)
    BY <1>6, <2>1, <2>2, EvenPieces
  <2> QED
    BY <1>6, <2>3
<1>8. /\ R \in String /\ From(Q, G + 1) = Len(R)
      /\ \A g \in 1..G : \A j \in 1..Len(Q[g]) : R[From(Q, g) + j] = Q[g][j]
  BY <1>6, FlattenLaysOut DEF LaidOut
<1>9. Len(R) = 3 * G
  <2>1. G + 1 \in 1..(G + 1) /\ 3 * ((G + 1) - 1) = 3 * G
    BY <1>1
  <2> QED
    BY <1>7, <1>8, <2>1
<1> HIDE DEF R, m
<1>10. \A n \in 1..m : R[n] = s[n]
  <2> SUFFICES ASSUME NEW n \in 1..m PROVE R[n] = s[n]
    OBVIOUS
  <2>1. n \in 1..(3 * G)
    BY <1>1
  <2>2. PICK g \in 1..G, j \in 1..3 : n = 3 * (g - 1) + j
    BY <1>1, <2>1, InGroupsOf3
  <2>3. g \in 1..(G + 1) /\ g \in Nat \ {0} /\ 3 * (g - 1) + j <= Len(s)
    BY <1>1, <2>2 DEF m
  <2>4. R[From(Q, g) + j] = Byte(s, g, j) /\ From(Q, g) + j = n
    <3>1. Len(Q[g]) = 3 /\ Q[g][j] = Byte(s, g, j)
      BY <1>5, <1>6
    <3> QED
      BY <1>7, <1>8, <2>2, <2>3, <3>1
  <2>5. Byte(s, g, j) = s[3 * (g - 1) + j]
    <3>1. \A h \in Nat \ {0} : \A i \in 1..3 :
            3 * (h - 1) + i <= Len(s) => Byte(s, h, i) = s[3 * (h - 1) + i]
      BY ByteFacts, Zenon
    <3> QED
      BY <2>3, <3>1, Zenon
  <2> QED
    BY <2>2, <2>4, <2>5
<1> DEFINE u == SubSeq(R, 1, m)
<1>11. u \in String /\ Len(u) = m /\ \A n \in 1..m : u[n] = R[n]
  <2>1. m \in 0..Len(R)
    BY <1>1, <1>9
  <2> QED
    BY <1>8, <2>1, FrontFacts
<1> HIDE DEF u
<1>12. u = s
  <2>1. Len(u) = Len(s) /\ \A n \in 1..Len(u) : u[n] = s[n]
    BY <1>10, <1>11 DEF m
  <2> QED
    BY <1>11, <2>1, SameString
<1>13. Len(R) - pad = m
  BY <1>1, <1>9
<1> QED
  BY <1>4, <1>12, <1>13 DEF u, e

-----------------------------------------------------------------------------
TextOK == text = NoText \/ text \in String

LEMMA RoundTripOf ==
  ASSUME text \in String
  PROVE  TextRoundTrips
<1>1. LET c == encode_cstring(text)
      IN  decode_cstring(c \o <<quote>> \o text) =
            [res |-> [n \in DOMAIN text |-> Survivor(text[n])], lenParsed |-> Len(c) + 1]
  BY CStringDecodes
<1>2. decode_base64(encode_base64(text)) = text
  BY Base64Decodes
<1> DEFINE e == encode_url(text)
<1>3. e \in String /\ Len(e) \in Nat
  <2> DEFINE P == [n \in DOMAIN text |-> urlChar(text[n])]
  <2>1. P \in Seq(String) /\ e = FlattenSeq(P)
    BY UrlPieces DEF encode_url
  <2> HIDE DEF P, e
  <2>2. e \in String
    BY <2>1, FlattenLaysOut DEF LaidOut
  <2> QED
    BY <2>2, LenNat
<1>4. Len(text) \in Nat /\ SubSeq(text, 1, Len(text)) = text
  BY DEF String
<1>5. decode_url(e) = text
  <2>1. SubSeq(e, 1, Len(e)) = e /\ Len(e) \in 0..Len(e)
    <3> HIDE DEF e
    <3> QED
      BY <1>3 DEF String
  <2>2. e # <<percent>>
    <3> SUFFICES ASSUME e = <<percent>> PROVE FALSE
      OBVIOUS
    <3> QED
      BY EncodedIsNotPercent
  <2>3. \E k \in 0..Len(text) :
          /\ decode_url(SubSeq(e, 1, Len(e))) = SubSeq(text, 1, k)
          /\ Len(e) = Len(e) => k = Len(text)
    BY <2>1, <2>2, UrlDecodes
  <2> HIDE DEF e
  <2> QED
    BY <1>4, <2>1, <2>3
<1>6. ASSUME NEW cut \in Prefixes(e), cut # <<percent>>
      PROVE  IsPrefix(decode_url(cut), text)
  <2>1. PICK q \in 0..Len(e) : cut = SubSeq(e, 1, q)
    BY DEF Prefixes
  <2>2. PICK k \in 0..Len(text) : decode_url(cut) = SubSeq(text, 1, k)
    BY <1>6, <2>1, UrlDecodes
  <2> DEFINE u == SubSeq(text, 1, k)
  <2>3. u \in String /\ Len(u) = k
    BY <1>4, FrontFacts
  <2> HIDE DEF u
  <2>4. Len(u) <= Len(text) /\ SubSeq(u, 1, Len(u)) = u
    BY <1>4, <2>3 DEF String
  <2>5. SubSeq(u, 1, Len(u)) = SubSeq(text, 1, Len(u))
    BY <2>3, <2>4 DEF u
  <2> QED
    BY <2>2, <2>4, <2>5 DEF IsPrefix, u
<1>7. StripSound(text)
  BY StripIsSound
<1> QED
  BY <1>1, <1>2, <1>5, <1>6, <1>7 DEF TextRoundTrips

(* Whatever is encoded as a C string, in base64 or as URL (string.cc:89)   *)
(* is what decoding gives, an URL that was cut off a part of it; and strip *)
(* is lstrip and rstrip, except of a single blank.                         *)
THEOREM CodingsRoundTrip == TextSpec => []TextRoundTrips
<1>1. TextInit => TextOK
  BY DEF TextInit, TextOK
<1>2. TextOK /\ [TextNext]_text => TextOK'
  <2> SUFFICES ASSUME TextOK, [TextNext]_text PROVE TextOK'
    OBVIOUS
  <2>1. CASE TextNext
    <3>1. PICK s \in BoundedSeq(Bytes, TextLen) : text' = s
      BY <2>1 DEF TextNext, TextCall
    <3>2. PICK m \in 0..TextLen : s \in [1..m -> Bytes]
      BY <3>1 DEF BoundedSeq, SeqOf
    <3>3. s \in Seq(Codes)
      <4>0. Bytes \subseteq Codes /\ m \in Nat
        BY <3>2, BytesAssumption DEF Codes
      <4>1. s \in [1..m -> Codes] /\ m \in Nat
        BY <3>2, <4>0
      <4> QED
        BY <4>1
    <3> QED
      BY <3>1, <3>3 DEF TextOK, String
  <2>2. CASE UNCHANGED text
    BY <2>2 DEF TextOK, NoText
  <2> QED
    BY <2>1, <2>2
<1>3. TextOK => TextRoundTrips
  <2>1. text = NoText => TextRoundTrips
    BY DEF TextRoundTrips
  <2> QED
    BY <2>1, RoundTripOf DEF TextOK
<1> QED
  BY <1>1, <1>2, <1>3, PTL DEF TextSpec

-----------------------------------------------------------------------------
(* FlattenSeq of one piece more, behind or in front.                       *)
LEMMA FlattenOfNone == FlattenSeq(<<>>) = <<>>
BY DEF FlattenSeq

(* One piece alone.                                                        *)
LEMMA FlattenOfOne ==
  ASSUME NEW S, NEW x \in Seq(S)
  PROVE  FlattenSeq(<<x>>) = x
<1> DEFINE q == <<x>>
<1>1. q \in Seq(Seq(S)) /\ q # <<>> /\ Len(q) = 1 /\ q[1] = x
  OBVIOUS
<1> HIDE DEF q
<1>2. UpTo(q)[1] = q[1] /\ FlattenSeq(q) = UpTo(q)[Len(q)]
  BY <1>1, UpToOf
<1> QED
  BY <1>1, <1>2 DEF q

(* A piece put behind the others comes last.                               *)
LEMMA FlattenAppend ==
  ASSUME NEW S, NEW p \in Seq(Seq(S)), NEW x \in Seq(S)
  PROVE  /\ FlattenSeq(p) \in Seq(S)
         /\ FlattenSeq(Append(p, x)) = FlattenSeq(p) \o x
<1>1. CASE p = <<>>
  <2>1. Append(p, x) = <<x>> /\ <<>> \o x = x /\ <<>> \in Seq(S)
    BY <1>1
  <2> QED
    BY <1>1, <2>1, FlattenOfNone, FlattenOfOne
<1>2. CASE p # <<>>
  <2> DEFINE q == Append(p, x)
             l == Len(p)
             f == UpTo(p)
             g == UpTo(q)
             T == {i \in 1..l : f[i] # g[i]}
  <2>0. l # 0
    BY <1>2
  <2>1. /\ q \in Seq(Seq(S)) /\ q # <<>> /\ l \in Nat \ {0} /\ Len(q) = l + 1
        /\ q[l + 1] = x /\ \A i \in 1..l : q[i] = p[i]
    <3> DEFINE Words == Seq(S)
    <3>1. p \in Seq(Words) /\ x \in Words
      OBVIOUS
    <3> HIDE DEF Words
    <3>2. /\ q \in Seq(Words) /\ q # <<>> /\ l \in Nat /\ Len(q) = l + 1
          /\ q[l + 1] = x /\ \A i \in 1..l : q[i] = p[i]
      BY <3>1, AppendOf
    <3> QED
      BY <2>0, <3>2 DEF Words
  <2>2. /\ f[1] = p[1] /\ \A i \in 1..(l - 1) : f[i + 1] = f[i] \o p[i + 1]
        /\ FlattenSeq(p) = f[l] /\ f \in [1..l -> Seq(S)]
    BY <1>2, UpToOf
  <2> HIDE DEF q
  <2>3. /\ g[1] = q[1] /\ \A i \in 1..(Len(q) - 1) : g[i + 1] = g[i] \o q[i + 1]
        /\ FlattenSeq(q) = g[Len(q)]
    BY <2>1, UpToOf
  <2> HIDE DEF f, g, l
  <2>4. ASSUME T # {}
        PROVE  FALSE
    <3>1. T \in SUBSET Nat
      BY <2>1
    <3>2. PICK i \in T : \A k \in T : i <= k
      BY <2>4, <3>1, LeastNatural
    <3>3. i \in 1..l /\ f[i] # g[i]
      OBVIOUS
    <3>4. i # 1
      BY <2>1, <2>2, <2>3, <3>3
    <3>5. /\ i - 1 \in 1..l /\ i - 1 \in 1..(l - 1) /\ ~(i <= i - 1) /\ i - 1 + 1 = i
          /\ i - 1 \in 1..(Len(q) - 1)
      BY <2>1, <3>3, <3>4
    <3>6. f[i - 1] = g[i - 1]
      BY <3>2, <3>5
    <3>7. f[i] = f[i - 1] \o p[i] /\ g[i] = g[i - 1] \o q[i]
      BY <2>2, <2>3, <3>5
    <3> QED
      BY <2>1, <3>3, <3>6, <3>7
  <2>5. l \in 1..l /\ l \in 1..(Len(q) - 1)
    BY <2>1
  <2>6. f[l] = g[l] /\ f[l] \in Seq(S)
    BY <2>2, <2>4, <2>5
  <2>7. g[l + 1] = g[l] \o q[l + 1]
    BY <2>3, <2>5
  <2> QED
    BY <2>1, <2>2, <2>3, <2>6, <2>7 DEF q
<1> QED
  BY <1>1, <1>2

(* A piece put in front of the others comes first.                         *)
LEMMA FlattenPrepend ==
  ASSUME NEW S, NEW p \in Seq(Seq(S)), NEW x \in Seq(S)
  PROVE  FlattenSeq(<<x>> \o p) = x \o FlattenSeq(p)
<1>1. CASE p = <<>>
  <2>1. <<x>> \o p = <<x>> /\ x \o <<>> = x
    BY <1>1
  <2> QED
    BY <1>1, <2>1, FlattenOfNone, FlattenOfOne
<1>2. CASE p # <<>>
  <2> DEFINE q == <<x>> \o p
             l == Len(p)
             f == UpTo(p)
             g == UpTo(q)
             T == {i \in 1..l : g[i + 1] # x \o f[i]}
  <2>1. /\ q \in Seq(Seq(S)) /\ q # <<>> /\ l \in Nat \ {0} /\ Len(q) = l + 1
        /\ q[1] = x /\ \A i \in 1..l : q[i + 1] = p[i] /\ p[i] \in Seq(S)
    BY <1>2
  <2>2. /\ f[1] = p[1] /\ \A i \in 1..(l - 1) : f[i + 1] = f[i] \o p[i + 1]
        /\ FlattenSeq(p) = f[l] /\ f \in [1..l -> Seq(S)]
    BY <1>2, UpToOf
  <2> HIDE DEF q
  <2>3. /\ g[1] = q[1] /\ \A i \in 1..(Len(q) - 1) : g[i + 1] = g[i] \o q[i + 1]
        /\ FlattenSeq(q) = g[Len(q)]
    BY <2>1, UpToOf
  <2> HIDE DEF f, g, l
  <2>4. ASSUME T # {}
        PROVE  FALSE
    <3>1. T \in SUBSET Nat
      BY <2>1
    <3>2. PICK i \in T : \A k \in T : i <= k
      BY <2>4, <3>1, LeastNatural
    <3>3. i \in 1..l /\ g[i + 1] # x \o f[i]
      OBVIOUS
    <3>4. i \in 1..(Len(q) - 1)
      BY <2>1, <3>3
    <3>5. g[i + 1] = g[i] \o p[i]
      BY <2>1, <2>3, <3>3, <3>4
    <3>6. i # 1
      BY <2>1, <2>2, <2>3, <3>3, <3>5
    <3>7. /\ i - 1 \in 1..l /\ i - 1 \in 1..(l - 1) /\ ~(i <= i - 1) /\ i - 1 + 1 = i
      BY <2>1, <3>3, <3>6
    <3>8. g[i - 1 + 1] = x \o f[i - 1]
      BY <3>2, <3>7
    <3>9. f[i] = f[i - 1] \o p[i] /\ f[i - 1] \in Seq(S) /\ p[i] \in Seq(S)
      BY <2>1, <2>2, <3>3, <3>7
    <3>10. (x \o f[i - 1]) \o p[i] = x \o (f[i - 1] \o p[i])
      <4> DEFINE a == f[i - 1]
                 b == p[i]
      <4>1. a \in Seq(S) /\ b \in Seq(S)
        BY <3>9
      <4> HIDE DEF a, b, T
      <4>2. (x \o a) \o b = x \o (a \o b)
        BY <4>1, CatOfThree
      <4> QED
        BY <4>2 DEF a, b
    <3> QED
      BY <3>3, <3>5, <3>7, <3>8, <3>9, <3>10
  <2>5. l \in 1..l
    BY <2>1
  <2>6. g[l + 1] = x \o f[l]
    BY <2>4, <2>5
  <2> QED
    BY <2>1, <2>2, <2>3, <2>6 DEF q
<1> QED
  BY <1>1, <1>2

-----------------------------------------------------------------------------
(* join and NonEmpty, of one item more.                                    *)

(* One token alone has no separator.                                       *)
LEMMA JoinOfOne ==
  ASSUME NEW S, NEW sep, NEW x \in Seq(S)
  PROVE  join(sep, <<x>>) = x
<1> DEFINE P == [n \in DOMAIN <<x>> |-> IF n = 1 THEN <<x>>[1] ELSE sep \o <<x>>[n]]
<1>1. P = <<x>>
  OBVIOUS
<1>2. join(sep, <<x>>) = FlattenSeq(P)
  BY DEF join
<1> HIDE DEF P
<1> QED
  BY <1>1, <1>2, FlattenOfOne

(* Each further token comes behind a separator.                            *)
LEMMA JoinAppend ==
  ASSUME NEW S, NEW sep \in Seq(S), NEW toks \in Seq(Seq(S)), toks # <<>>, NEW x \in Seq(S)
  PROVE  /\ join(sep, toks) \in Seq(S)
         /\ join(sep, Append(toks, x)) = join(sep, toks) \o (sep \o x)
<1> DEFINE W == Seq(S)
           all == Append(toks, x)
           l == Len(toks)
           piece(its, n) == IF n = 1 THEN its[1] ELSE sep \o its[n]
           P == [n \in 1..l |-> piece(toks, n)]
           Q == [n \in 1..(l + 1) |-> piece(all, n)]
<1>1. toks \in Seq(W) /\ x \in W /\ sep \o x \in W /\ \A w \in W : sep \o w \in W
  BY CatOf
<1>2. join(sep, toks) = FlattenSeq(P) /\ l \in Nat /\ l # 0 /\ toks \in [1..l -> W]
  <2>1. DOMAIN toks = 1..l /\ l \in Nat /\ l # 0 /\ toks \in [1..l -> W]
    OBVIOUS
  <2> QED
    BY <2>1 DEF join
<1>3. /\ all \in Seq(W) /\ Len(all) = l + 1 /\ all[l + 1] = x
      /\ \A n \in 1..l : all[n] = toks[n]
  <2> HIDE DEF W
  <2> QED
    BY <1>1, AppendOf
<1>4. join(sep, all) = FlattenSeq(Q)
  <2>1. DOMAIN all = 1..(l + 1)
    <3> HIDE DEF all, W
    <3> QED
      BY <1>3
  <2> HIDE DEF all
  <2> QED
    BY <2>1 DEF join
<1> HIDE DEF W, l
<1>5. P \in Seq(W) /\ Len(P) = l
  <2>1. \A n \in 1..l : piece(toks, n) \in W
    <3>1. \A n \in 1..l : toks[n] \in W
      BY <1>2
    <3>2. 1 \in 1..l
      BY <1>2
    <3> QED
      BY <1>1, <3>1, <3>2
  <2>2. P \in [1..l -> W]
    BY <2>1
  <2> HIDE DEF P
  <2> QED
    BY <1>2, <2>2
<1>6. Q = Append(P, sep \o x)
  <2> DEFINE R == Append(P, sep \o x)
  <2>1. /\ R \in Seq(W) /\ Len(R) = l + 1 /\ R[l + 1] = sep \o x
        /\ \A n \in 1..l : R[n] = P[n]
    <3> HIDE DEF P
    <3> QED
      BY <1>1, <1>5, AppendOf
  <2>2. \A n \in 1..(l + 1) : piece(all, n) = R[n]
    <3> SUFFICES ASSUME NEW n \in 1..(l + 1) PROVE piece(all, n) = R[n]
      OBVIOUS
    <3> HIDE DEF R, all
    <3>1. CASE n = l + 1
      <4>1. n # 1
        BY <1>2, <3>1
      <4>2. piece(all, n) = sep \o all[n]
        BY <4>1
      <4> HIDE DEF piece
      <4> QED
        BY <1>3, <2>1, <3>1, <4>2
    <3>2. CASE n # l + 1
      <4>1. n \in 1..l /\ 1 \in 1..l
        BY <1>2, <3>2
      <4>2. P[n] = piece(toks, n)
        BY <4>1
      <4> QED
        BY <1>3, <2>1, <4>1, <4>2
    <3> QED
      BY <3>1, <3>2
  <2>3. R = [n \in 1..(l + 1) |-> R[n]]
    <3> HIDE DEF R
    <3> QED
      BY <1>2, <2>1
  <2> HIDE DEF R, piece
  <2>4. Q = R
    BY <2>2, <2>3
  <2> QED
    BY <2>4 DEF R
<1> DEFINE y == sep \o x
<1>7. y \in W
  BY <1>1
<1> HIDE DEF P, Q, all, y
<1>8. FlattenSeq(P) \in Seq(S) /\ FlattenSeq(Append(P, y)) = FlattenSeq(P) \o y
  BY <1>5, <1>7, FlattenAppend DEF W
<1> QED
  BY <1>2, <1>4, <1>6, <1>8 DEF all, y

LEMMA NonEmptyOfNone == NonEmpty(<<>>) = <<>>
BY FlattenOfNone DEF NonEmpty

(* NonEmpty goes through the tokens one by one.                            *)
LEMMA NonEmptyPrepend ==
  ASSUME NEW W, NEW toks \in Seq(W), NEW t \in W
  PROVE  /\ NonEmpty(toks) \in Seq(W)
         /\ NonEmpty(<<t>> \o toks) = (IF t = <<>> THEN <<>> ELSE <<t>>) \o NonEmpty(toks)
<1> DEFINE kept(x) == IF x = <<>> THEN <<>> ELSE <<x>>
           all == <<t>> \o toks
           l == Len(toks)
           P == [n \in 1..l |-> kept(toks[n])]
           Q == [n \in 1..(l + 1) |-> kept(all[n])]
           V == Seq(W)
<1>1. \A w \in W : kept(w) \in V
  OBVIOUS
<1>2. /\ all \in Seq(W) /\ Len(all) = l + 1 /\ l \in Nat /\ all[1] = t
      /\ \A n \in 1..l : all[n + 1] = toks[n]
  BY PrependOf
<1>3. NonEmpty(toks) = FlattenSeq(P) /\ NonEmpty(all) = FlattenSeq(Q)
  <2>1. DOMAIN toks = 1..l /\ DOMAIN all = 1..(l + 1)
    <3> HIDE DEF all
    <3> QED
      BY <1>2
  <2> HIDE DEF all
  <2> QED
    BY <2>1 DEF NonEmpty
<1>4. \A n \in 1..l : toks[n] \in W
  OBVIOUS
<1> HIDE DEF V, kept
<1>5. P \in Seq(V) /\ Len(P) = l
  <2>1. P \in [1..l -> V]
    BY <1>1, <1>4
  <2> HIDE DEF P
  <2> QED
    BY <1>2, <2>1
<1>6. Q = <<kept(t)>> \o P
  <2> DEFINE x == kept(t)
             R == <<x>> \o P
  <2>1. x \in V
    BY <1>1
  <2>2. /\ R \in Seq(V) /\ Len(R) = l + 1 /\ R[1] = x
        /\ \A n \in 1..l : R[n + 1] = P[n]
    <3> HIDE DEF P, x
    <3> QED
      BY <1>5, <2>1, PrependOf
  <2>3. \A n \in 1..(l + 1) : kept(all[n]) = R[n]
    <3> SUFFICES ASSUME NEW n \in 1..(l + 1) PROVE kept(all[n]) = R[n]
      OBVIOUS
    <3> HIDE DEF R, all
    <3>1. CASE n = 1
      BY <1>2, <2>2, <3>1
    <3>2. CASE n # 1
      <4>1. n - 1 \in 1..l /\ n - 1 + 1 = n
        BY <1>2, <3>2
      <4>2. P[n - 1] = kept(toks[n - 1])
        BY <4>1
      <4>3. all[n] = toks[n - 1] /\ R[n] = P[n - 1]
        BY <1>2, <2>2, <4>1
      <4> QED
        BY <4>2, <4>3
    <3> QED
      BY <3>1, <3>2
  <2>4. R = [n \in 1..(l + 1) |-> R[n]]
    <3> HIDE DEF R
    <3> QED
      BY <1>2, <2>2
  <2> HIDE DEF R
  <2>5. Q = R
    BY <2>3, <2>4
  <2> QED
    BY <2>5 DEF R
<1> DEFINE x == kept(t)
<1>7. x \in V
  BY <1>1
<1> HIDE DEF P, Q, all, x
<1>8. FlattenSeq(P) \in Seq(W) /\ FlattenSeq(<<x>> \o P) = x \o FlattenSeq(P)
  <2>1. FlattenSeq(P) \in Seq(W)
    BY <1>5, <1>7, FlattenAppend DEF V
  <2> QED
    BY <1>5, <1>7, <2>1, FlattenPrepend DEF V
<1> QED
  BY <1>3, <1>6, <1>8 DEF all, x, kept

-----------------------------------------------------------------------------
(* Parts of a string s, and occurrences of a separator in it.              *)

(* The part of a string between two positions.                             *)
LEMMA PartOf ==
  ASSUME NEW S, NEW s \in Seq(S), NEW a \in 0..Len(s), NEW b \in a..Len(s)
  PROVE  /\ SubSeq(s, a + 1, b) \in Seq(S) /\ Len(SubSeq(s, a + 1, b)) = b - a
         /\ \A k \in 1..(b - a) : SubSeq(s, a + 1, b)[k] = s[a + k]
<1> DEFINE m == b - a
           t == SubSeq(s, a + 1, b)
<1>1. Len(s) \in Nat /\ s \in [1..Len(s) -> S]
  OBVIOUS
<1>2. m \in Nat /\ \A k \in 1..m : a + 1 + k - 1 = a + k /\ a + k \in 1..Len(s)
  BY <1>1
<1>3. t = [k \in 1..m |-> s[a + k]]
  <2>1. b - (a + 1) + 1 = m
    BY <1>1
  <2>2. t = [k \in 1..(b - (a + 1) + 1) |-> s[a + 1 + k - 1]]
    OBVIOUS
  <2> HIDE DEF m, t
  <2> QED
    BY <1>2, <2>1, <2>2
<1>4. \A k \in 1..m : s[a + k] \in S
  BY <1>1, <1>2
<1> HIDE DEF m, t
<1>5. t \in [1..m -> S]
  BY <1>3, <1>4
<1>6. t \in Seq(S) /\ Len(t) = m
  BY <1>2, <1>5
<1> QED
  BY <1>3, <1>6 DEF m, t

(* The two forms of substr, character by character.                        *)
LEMMA SubstrIs ==
  ASSUME NEW S, NEW s \in Seq(S), NEW a \in 0..Len(s), NEW n \in 0..(Len(s) - a)
  PROVE  /\ substr(s, a, n) \in Seq(S) /\ Len(substr(s, a, n)) = n
         /\ \A k \in 1..n : substr(s, a, n)[k] = s[a + k]
<1>1. a + n \in a..Len(s) /\ (a + n) - a = n
  OBVIOUS
<1>2. /\ SubSeq(s, a + 1, a + n) \in Seq(S) /\ Len(SubSeq(s, a + 1, a + n)) = n
      /\ \A k \in 1..n : SubSeq(s, a + 1, a + n)[k] = s[a + k]
  <2> DEFINE b == a + n
  <2> HIDE DEF b
  <2>1. /\ SubSeq(s, a + 1, b) \in Seq(S) /\ Len(SubSeq(s, a + 1, b)) = b - a
        /\ \A k \in 1..(b - a) : SubSeq(s, a + 1, b)[k] = s[a + k]
    BY <1>1, PartOf DEF b
  <2> QED
    BY <1>1, <2>1 DEF b
<1> QED
  BY <1>2 DEF substr

LEMMA FromIs ==
  ASSUME NEW S, NEW s \in Seq(S), NEW a \in 0..Len(s)
  PROVE  /\ from(s, a) \in Seq(S) /\ Len(from(s, a)) = Len(s) - a
         /\ \A k \in 1..(Len(s) - a) : from(s, a)[k] = s[a + k]
<1>1. Len(s) \in a..Len(s)
  OBVIOUS
<1> QED
  BY <1>1, PartOf DEF from

(* An occurrence, character by character.                                  *)
MatchesAt(s, sep, i) ==
  i + Len(sep) <= Len(s) /\ \A k \in 1..Len(sep) : s[i + k] = sep[k]

LEMMA OccursIs ==
  ASSUME NEW S, NEW s \in Seq(S), NEW sep \in Seq(S), NEW i \in 0..Len(s)
  PROVE  OccursAt(s, sep, i) <=> MatchesAt(s, sep, i)
<1>1. Len(sep) \in Nat /\ Len(s) \in Nat
  OBVIOUS
<1>2. CASE i + Len(sep) <= Len(s)
  <2> DEFINE u == substr(s, i, Len(sep))
  <2>1. Len(sep) \in 0..(Len(s) - i)
    BY <1>1, <1>2
  <2>2. u \in Seq(S) /\ Len(u) = Len(sep) /\ \A k \in 1..Len(sep) : u[k] = s[i + k]
    BY <2>1, SubstrIs
  <2> HIDE DEF u
  <2>3. u = sep <=> \A k \in 1..Len(sep) : u[k] = sep[k]
    <3>1. u \in Seq(S) /\ Len(u) = Len(sep)
      BY <2>2
    <3>2. ASSUME \A k \in 1..Len(sep) : u[k] = sep[k]
          PROVE  u = sep
      BY <3>1, <3>2
    <3> QED
      BY <3>2
  <2>4. u = sep <=> \A k \in 1..Len(sep) : s[i + k] = sep[k]
    BY <2>2, <2>3
  <2> QED
    BY <1>2, <2>4 DEF OccursAt, MatchesAt, u
<1> QED
  BY <1>2 DEF OccursAt, MatchesAt

(* What is the separator in a part of a string is the separator in the     *)
(* string, and the other way round.                                        *)
LEMMA OccursInPart ==
  ASSUME NEW S, NEW s \in Seq(S), NEW sep \in Seq(S), NEW u \in Seq(S),
         NEW a \in 0..Len(s), a + Len(u) <= Len(s), \A k \in 1..Len(u) : u[k] = s[a + k],
         NEW i \in 0..Len(u), i + Len(sep) <= Len(u)
  PROVE  OccursAt(u, sep, i) <=> OccursAt(s, sep, a + i)
<1>1. Len(sep) \in Nat /\ Len(s) \in Nat /\ Len(u) \in Nat
  OBVIOUS
<1>2. a + i \in 0..Len(s) /\ (a + i) + Len(sep) <= Len(s)
  BY <1>1
<1>3. \A k \in 1..Len(sep) : u[i + k] = s[(a + i) + k]
  <2> SUFFICES ASSUME NEW k \in 1..Len(sep) PROVE u[i + k] = s[(a + i) + k]
    OBVIOUS
  <2>1. i + k \in 1..Len(u) /\ a + (i + k) = (a + i) + k
    BY <1>1
  <2> QED
    BY <2>1
<1>4. OccursAt(u, sep, i) <=> \A k \in 1..Len(sep) : u[i + k] = sep[k]
  <2>1. OccursAt(u, sep, i) <=> MatchesAt(u, sep, i)
    BY OccursIs
  <2> QED
    BY <2>1 DEF MatchesAt
<1> DEFINE b == a + i
<1>5. OccursAt(s, sep, b) <=> \A k \in 1..Len(sep) : s[b + k] = sep[k]
  <2> HIDE DEF b
  <2> QED
    BY <1>2, OccursIs DEF b, MatchesAt
<1> QED
  BY <1>3, <1>4, <1>5

(* find gives the first occurrence.                                        *)
LEMMA FindIs ==
  ASSUME NEW S, NEW s \in Seq(S), NEW sep, NEW p \in 0..Len(s), NEW t \in p..Len(s),
         OccursAt(s, sep, t), \A i \in p..(t - 1) : ~OccursAt(s, sep, i)
  PROVE  find(s, sep, p) = t
<1> DEFINE hits == {i \in p..Len(s) : OccursAt(s, sep, i)}
<1>1. Len(s) \in Nat /\ t \in hits
  OBVIOUS
<1>2. hits \in SUBSET Nat
  BY <1>1
<1>3. \A i \in hits : t <= i
  BY <1>1
<1>4. find(s, sep, p) = IF hits = {} THEN npos ELSE Min(hits)
  BY DEF find
<1> HIDE DEF hits
<1> QED
  BY <1>1, <1>2, <1>3, <1>4, LeastIs

LEMMA FindNone ==
  ASSUME NEW s, NEW sep, NEW p, \A i \in p..Len(s) : ~OccursAt(s, sep, i)
  PROVE  find(s, sep, p) = npos
BY DEF find

(* find gives the first occurrence, if there is one.                       *)
LEMMA FindFacts ==
  ASSUME NEW S, NEW s \in Seq(S), NEW sep \in Seq(S), NEW p \in 0..Len(s)
  PROVE  \/ find(s, sep, p) = npos /\ \A i \in p..Len(s) : ~OccursAt(s, sep, i)
         \/ /\ find(s, sep, p) \in p..Len(s) /\ find(s, sep, p) # npos
            /\ find(s, sep, p) + Len(sep) <= Len(s)
            /\ OccursAt(s, sep, find(s, sep, p))
            /\ \A i \in p..(find(s, sep, p) - 1) : ~OccursAt(s, sep, i)
<1> DEFINE hits == {i \in p..Len(s) : OccursAt(s, sep, i)}
<1>1. CASE hits = {}
  <2>1. \A i \in p..Len(s) : ~OccursAt(s, sep, i)
    BY <1>1
  <2> QED
    BY <2>1, FindNone
<1>2. CASE hits # {}
  <2>1. hits \in SUBSET Nat
    OBVIOUS
  <2>2. PICK t \in hits : \A i \in hits : t <= i
    <3> HIDE DEF hits
    <3> QED
      BY <1>2, <2>1, LeastNatural
  <2>3. t \in p..Len(s) /\ OccursAt(s, sep, t)
    BY <2>2
  <2>4. \A i \in p..(t - 1) : ~OccursAt(s, sep, i)
    <3> SUFFICES ASSUME NEW i \in p..(t - 1), OccursAt(s, sep, i) PROVE FALSE
      OBVIOUS
    <3>1. i \in p..Len(s) /\ ~(t <= i)
      BY <2>3
    <3> QED
      BY <2>2, <3>1
  <2>5. find(s, sep, p) = t
    BY <2>3, <2>4, FindIs
  <2>6. t + Len(sep) <= Len(s)
    BY <2>3 DEF OccursAt
  <2>7. t # npos
    BY <2>3 DEF npos
  <2> QED
    BY <2>3, <2>4, <2>5, <2>6, <2>7
<1> QED
  BY <1>1, <1>2

-----------------------------------------------------------------------------
(* What the iterator does, with a separator that is not empty.             *)

(* Multiples of the separator's length, one after the other.               *)
LEMMA TimesFacts ==
  ASSUME NEW n \in Nat, NEW l \in Nat \ {0}
  PROVE  n * l \in Nat /\ n <= n * l /\ 0 * l = 0 /\ (n + 1) * l = n * l + l
OBVIOUS

(* skip_separators skips a number of separators, and no more.              *)
LEMMA SkipFacts ==
  ASSUME NEW S, NEW s \in Seq(S), NEW sep \in Seq(S), sep # <<>>, NEW e \in 0..Len(s)
  PROVE  \E k \in Nat :
           /\ skip_separators(s, sep, e) = e + k * Len(sep)
           /\ e + k * Len(sep) \in e..Len(s)
           /\ ~OccursAt(s, sep, e + k * Len(sep))
           /\ \A j \in 0..(k - 1) : OccursAt(s, sep, e + j * Len(sep))
<1> DEFINE l == Len(sep)
           n == Len(s)
           past(k) == e + k * l
           stops == {k \in 0..n : ~OccursAt(s, sep, past(k))}
<1>1. l \in Nat \ {0} /\ n \in Nat
  OBVIOUS
<1> HIDE DEF l, n
<1>2. \A k \in Nat : k * l \in Nat /\ k <= k * l /\ (k + 1) * l = k * l + l
  BY <1>1, TimesFacts
<1>3. n \in stops
  <2>1. n * l \in Nat /\ n <= n * l
    BY <1>1, <1>2
  <2>2. ~(past(n) + l <= n)
    BY <1>1, <2>1 DEF n
  <2>3. ~OccursAt(s, sep, past(n))
    BY <2>2 DEF OccursAt, l, n
  <2> QED
    BY <1>1, <2>3
<1>4. stops \in SUBSET Nat
  BY <1>1
<1>5. PICK k \in stops : \A j \in stops : k <= j
  <2> HIDE DEF stops
  <2> QED
    BY <1>3, <1>4, LeastNatural
<1>6. k \in 0..n /\ ~OccursAt(s, sep, past(k))
  BY <1>5
<1>7. Min(stops) = k
  <2> HIDE DEF stops
  <2> QED
    BY <1>4, <1>5, LeastIs
<1>8. skip_separators(s, sep, e) = past(k)
  <2>1. skip_separators(s, sep, e) = IF stops = {} THEN Forever ELSE past(Min(stops))
    BY DEF skip_separators, l, n
  <2> HIDE DEF stops, past
  <2> QED
    BY <1>3, <1>7, <2>1
<1>9. \A j \in 0..(k - 1) : OccursAt(s, sep, past(j))
  <2> SUFFICES ASSUME NEW j \in 0..(k - 1), ~OccursAt(s, sep, past(j)) PROVE FALSE
    OBVIOUS
  <2>1. j \in 0..n /\ ~(k <= j)
    BY <1>1, <1>6
  <2> QED
    BY <1>5, <2>1
<1>10. past(k) \in e..n
  <2>1. CASE k = 0
    <3>1. k * l = 0
      BY <1>1, <2>1, TimesFacts
    <3> QED
      BY <1>1, <3>1 DEF n
  <2>2. CASE k # 0
    <3>1. k - 1 \in 0..(k - 1) /\ k - 1 \in Nat /\ k - 1 + 1 = k /\ k \in Nat
      BY <1>1, <1>6, <2>2
    <3>2. OccursAt(s, sep, past(k - 1))
      BY <1>9, <3>1
    <3>3. past(k - 1) + l <= n
      BY <3>2 DEF OccursAt, l, n
    <3>4. (k - 1) * l \in Nat /\ k * l = (k - 1) * l + l /\ k * l \in Nat
      BY <1>2, <3>1
    <3> QED
      BY <1>1, <3>3, <3>4 DEF n
  <2> QED
    BY <2>1, <2>2
<1>11. k \in Nat
  BY <1>1, <1>6
<1> QED
  BY <1>6, <1>8, <1>9, <1>10, <1>11 DEF l, n

(* Nothing fits behind the last character.                                 *)
LEMMA NothingAtEnd ==
  ASSUME NEW S, NEW s \in Seq(S), NEW sep \in Seq(S), sep # <<>>
  PROVE  ~OccursAt(s, sep, Len(s)) /\ find(s, sep, Len(s)) = npos /\ from(s, Len(s)) = <<>>
<1>1. Len(s) \in Nat /\ Len(sep) \in Nat /\ Len(sep) # 0
  OBVIOUS
<1>2. ~OccursAt(s, sep, Len(s))
  BY <1>1 DEF OccursAt
<1>3. \A i \in Len(s)..Len(s) : ~OccursAt(s, sep, i)
  BY <1>1, <1>2
<1>4. find(s, sep, Len(s)) = npos
  BY <1>3, FindNone
<1>5. from(s, Len(s)) = <<>>
  <2>1. Len(s) \in 0..Len(s) /\ Len(s) - Len(s) = 0
    BY <1>1
  <2>2. from(s, Len(s)) \in Seq(S) /\ Len(from(s, Len(s))) = 0
    BY <2>1, FromIs
  <2> QED
    BY <2>2
<1> QED
  BY <1>2, <1>4, <1>5

(* Where the iterator is when it has passed a separator.                   *)
After(s, sep, skip, p) ==
  IF ~skip THEN p
  ELSE IF skip_separators(s, sep, p) = Len(s) THEN npos ELSE skip_separators(s, sep, p)

(* It is at no separator then, unless none is skipped.                     *)
LEMMA AfterIs ==
  ASSUME NEW S, NEW s \in Seq(S), NEW sep \in Seq(S), sep # <<>>, NEW skip \in BOOLEAN,
         NEW p \in 0..Len(s)
  PROVE  \/ ~skip /\ After(s, sep, skip, p) = p
         \/ skip /\ After(s, sep, skip, p) = npos /\ skip_separators(s, sep, p) = Len(s)
         \/ /\ skip /\ After(s, sep, skip, p) = skip_separators(s, sep, p)
            /\ After(s, sep, skip, p) \in p..(Len(s) - 1)
            /\ ~OccursAt(s, sep, After(s, sep, skip, p))
<1>1. PICK k \in Nat : /\ skip_separators(s, sep, p) = p + k * Len(sep)
                       /\ p + k * Len(sep) \in p..Len(s)
                       /\ ~OccursAt(s, sep, p + k * Len(sep))
  BY SkipFacts
<1> DEFINE q == skip_separators(s, sep, p)
<1>2. q \in p..Len(s) /\ ~OccursAt(s, sep, q)
  BY <1>1
<1>3. q # Len(s) => q \in p..(Len(s) - 1)
  BY <1>2
<1>4. After(s, sep, skip, p) = IF ~skip THEN p ELSE IF q = Len(s) THEN npos ELSE q
  BY DEF After
<1> HIDE DEF q
<1>5. CASE ~skip
  BY <1>4, <1>5
<1>6. CASE skip /\ q = Len(s)
  BY <1>4, <1>6 DEF q
<1>7. CASE skip /\ q # Len(s)
  <2>1. After(s, sep, skip, p) = q
    BY <1>4, <1>7
  <2> QED
    BY <1>2, <1>3, <1>7, <2>1 DEF q
<1> QED
  BY <1>5, <1>6, <1>7

IterType(S) == [live : BOOLEAN, cur : Seq(S), end : Int]

(* One token of the string from position e on, and where the next begins.  *)
CutAt(s, sep, e, c, d) ==
  \/ /\ \A t \in e..Len(s) : ~OccursAt(s, sep, t)
     /\ c = from(s, e) /\ d = npos
  \/ \E t \in e..Len(s) :
       /\ OccursAt(s, sep, t) /\ t + Len(sep) <= Len(s)
       /\ \A u \in e..(t - 1) : ~OccursAt(s, sep, u)
       /\ c = substr(s, e, t - e) /\ d = t + Len(sep)

(* Where the loop goes on is behind the separators it skips.               *)
Cuts(s, sep, skip, e, c, a) ==
  \E d : CutAt(s, sep, e, c, d) /\ a = IF d = npos THEN npos ELSE After(s, sep, skip, d)

(* operator++ cuts off the next token.                                     *)
LEMMA IncrementedIs ==
  ASSUME NEW S, NEW s \in Seq(S), NEW sep \in Seq(S), sep # <<>>, NEW skip \in BOOLEAN,
         NEW i \in IterType(S), i.live, i.end \in 0..Len(s),
         NEW r, r = incremented([str |-> s, sep |-> sep, skip_empty |-> skip], i)
  PROVE  /\ r \in IterType(S) /\ r.live
         /\ Cuts(s, sep, skip, i.end, r.cur, r.end)
<1> DEFINE sp == [str |-> s, sep |-> sep, skip_empty |-> skip]
           e == i.end
           t == find(s, sep, e)
<1>1. sp.str = s /\ sp.sep = sep /\ sp.skip_empty = skip /\ r = incremented(sp, i)
  OBVIOUS
<1>2. e # npos /\ npos \in Int /\ e \in 0..Len(s) /\ Len(s) \in Nat /\ Len(sep) \in Nat
  BY DEF npos
<1>3. from(s, e) \in Seq(S)
  BY <1>2, FromIs
<1> HIDE DEF sp
<1>4. CASE t = npos
  <2>1. r = [i EXCEPT !.cur = from(s, e), !.end = npos]
    <3>1. CASE e = Len(s)
      <4>1. from(s, e) = <<>>
        BY <3>1, NothingAtEnd
      <4> QED
        BY <1>1, <1>2, <3>1, <4>1 DEF incremented
    <3>2. CASE e # Len(s)
      BY <1>1, <1>2, <1>4, <3>2 DEF incremented
    <3> QED
      BY <3>1, <3>2
  <2> DEFINE x == from(s, e)
  <2>2. r \in IterType(S) /\ r.live /\ r.cur = x /\ r.end = npos
    <3> HIDE DEF x, t
    <3> QED
      BY <1>2, <1>3, <2>1 DEF x, IterType
  <2>3. \A u \in e..Len(s) : ~OccursAt(s, sep, u)
    BY <1>2, <1>4, FindFacts
  <2>4. CutAt(s, sep, e, r.cur, npos)
    BY <2>2, <2>3 DEF CutAt
  <2> QED
    BY <2>2, <2>4 DEF Cuts
<1>5. CASE t # npos
  <2>1. /\ t \in e..Len(s) /\ t + Len(sep) <= Len(s) /\ OccursAt(s, sep, t)
        /\ \A u \in e..(t - 1) : ~OccursAt(s, sep, u)
    BY <1>2, <1>5, FindFacts
  <2> DEFINE x == substr(s, e, t - e)
             p == t + Len(sep)
             a == After(s, sep, skip, p)
  <2>2. e # Len(s)
    BY <1>5, NothingAtEnd
  <2>3. a = LET past == IF skip THEN skip_separators(s, sep, p) ELSE p
            IN  IF skip /\ past = Len(s) THEN npos ELSE past
    BY DEF After
  <2>4. x \in Seq(S)
    <3>1. t - e \in 0..(Len(s) - e)
      BY <1>2, <2>1
    <3> QED
      BY <1>2, <3>1, SubstrIs
  <2>5. a \in Int
    <3>1. p \in 0..Len(s)
      BY <1>2, <2>1
    <3> HIDE DEF p
    <3>2. \/ a = p
          \/ a = npos
          \/ a \in p..(Len(s) - 1)
      BY <3>1, AfterIs
    <3> HIDE DEF a
    <3> QED
      BY <1>2, <3>1, <3>2
  <2> HIDE DEF a
  <2>6. r = [i EXCEPT !.cur = x, !.end = a]
    BY <1>1, <1>2, <1>5, <2>2, <2>3 DEF incremented
  <2> HIDE DEF x
  <2>7. r \in IterType(S) /\ r.live /\ r.cur = x /\ r.end = a
    BY <2>4, <2>5, <2>6 DEF IterType
  <2>8. CutAt(s, sep, e, r.cur, p)
    <3> HIDE DEF t
    <3> QED
      BY <2>1, <2>7 DEF CutAt, x
  <2>9. p # npos
    <3> HIDE DEF t
    <3> QED
      BY <1>2, <2>1 DEF npos
  <2> HIDE DEF p
  <2>10. r.end = IF p = npos THEN npos ELSE After(s, sep, skip, p)
    BY <2>7, <2>9 DEF a
  <2> QED
    BY <2>7, <2>8, <2>10 DEF Cuts
<1> QED
  BY <1>4, <1>5

-----------------------------------------------------------------------------
(* The tokens of a loop that skips nothing.                                *)

PlainSplit(s, sep) == [str |-> s, sep |-> sep, skip_empty |-> FALSE]

TokStep(s, sep, f, e) ==
  IF e = npos THEN <<>>
  ELSE LET i == incremented(PlainSplit(s, sep), iteratorAt(e)) IN <<i.cur>> \o f[i.end]

PlainTokens(s, sep) == TokensFrom(PlainSplit(s, sep))

(* The recursion over the rest of the string.                              *)
LEMMA PlainTokensIs ==
  ASSUME NEW s, NEW sep
  PROVE  PlainTokens(s, sep) = CHOOSE f : f = [e \in npos..Len(s) |-> TokStep(s, sep, f, e)]
BY DEF PlainTokens, TokensFrom, TokStep, PlainSplit

(* One round of it cuts off a token and goes on behind it.                 *)
LEMMA NextToken ==
  ASSUME NEW S, NEW s \in Seq(S), NEW sep \in Seq(S), sep # <<>>, NEW e \in 0..Len(s)
  PROVE  \E c \in Seq(S), d \in {npos} \cup (e + 1)..Len(s) :
           (\A f : TokStep(s, sep, f, e) = <<c>> \o f[d]) /\ CutAt(s, sep, e, c, d)
<1> DEFINE i == iteratorAt(e)
           r == incremented(PlainSplit(s, sep), i)
<1>1. i \in IterType(S) /\ i.live /\ i.end = e
  <2>1. <<>> \in Seq(S) /\ e \in Int
    OBVIOUS
  <2> QED
    BY <2>1 DEF iteratorAt, IterType
<1>2. e # npos /\ Len(s) \in Nat /\ Len(sep) \in Nat \ {0}
  BY DEF npos
<1>3. \A f : TokStep(s, sep, f, e) = <<r.cur>> \o f[r.end]
  BY <1>2 DEF TokStep
<1>4. r = incremented([str |-> s, sep |-> sep, skip_empty |-> FALSE], i)
  BY DEF PlainSplit
<1> HIDE DEF r, i
<1> DEFINE skip == FALSE
<1>0. skip \in BOOLEAN /\ r = incremented([str |-> s, sep |-> sep, skip_empty |-> skip], i)
  BY <1>4
<1> HIDE DEF skip
<1>5. r \in IterType(S) /\ Cuts(s, sep, skip, e, r.cur, r.end)
  <2>1. i.end \in 0..Len(s)
    BY <1>1
  <2>2. r \in IterType(S) /\ Cuts(s, sep, skip, i.end, r.cur, r.end)
    BY <1>0, <1>1, <2>1, IncrementedIs
  <2> QED
    BY <1>1, <2>2
<1>6. r.cur \in Seq(S)
  BY <1>5 DEF IterType
<1>7. PICK d : CutAt(s, sep, e, r.cur, d) /\ r.end = IF d = npos THEN npos ELSE d
  BY <1>5 DEF Cuts, After, skip
<1>8. CutAt(s, sep, e, r.cur, r.end)
  BY <1>7
<1>9. r.end \in {npos} \cup (e + 1)..Len(s)
  <2>1. r.end # npos => \E t \in e..Len(s) : t + Len(sep) <= Len(s) /\ r.end = t + Len(sep)
    BY <1>8 DEF CutAt
  <2> QED
    BY <1>2, <2>1
<1> QED
  BY <1>3, <1>6, <1>8, <1>9, Zenon

(* A round needs the tokens of later positions only.                       *)
LEMMA TokStepLooksAhead ==
  ASSUME NEW S, NEW s \in Seq(S), NEW sep \in Seq(S), sep # <<>>, NEW e \in npos..Len(s),
         NEW f, NEW g, e # npos => \A j \in {npos} \cup (e + 1)..Len(s) : f[j] = g[j]
  PROVE  TokStep(s, sep, f, e) = TokStep(s, sep, g, e)
<1>1. CASE e = npos
  BY <1>1 DEF TokStep
<1>2. CASE e # npos
  <2>1. e \in 0..Len(s)
    BY <1>2 DEF npos
  <2>2. PICK c \in Seq(S), d \in {npos} \cup (e + 1)..Len(s) :
               (\A h : TokStep(s, sep, h, e) = <<c>> \o h[d]) /\ CutAt(s, sep, e, c, d)
    BY <2>1, NextToken, Zenon
  <2>3. f[d] = g[d]
    BY <1>2
  <2> QED
    BY <2>2, <2>3, Zenon
<1> QED
  BY <1>1, <1>2

(* The recursion has a solution.                                           *)
LEMMA TokStepExists ==
  ASSUME NEW S, NEW s \in Seq(S), NEW sep \in Seq(S), sep # <<>>
  PROVE  \E f : f = [e \in npos..Len(s) |-> TokStep(s, sep, f, e)]
<1> DEFINE n == Len(s)
           D(k) == {npos} \cup (n + 1 - k)..n
           Solved(k) == \E f : f = [e \in D(k) |-> TokStep(s, sep, f, e)]
           T == {k \in 0..(n + 1) : ~Solved(k)}
<1>1. n \in Nat /\ npos \in Int /\ npos < 0 /\ npos + 1 = 0
  BY DEF npos
<1>2. Solved(0)
  <2> DEFINE f == [e \in D(0) |-> <<>>]
  <2>1. \A e \in D(0) : e = npos
    BY <1>1
  <2>2. \A e \in D(0) : TokStep(s, sep, f, e) = <<>>
    <3> HIDE DEF f
    <3> QED
      BY <2>1 DEF TokStep
  <2> HIDE DEF D
  <2>3. f = [e \in D(0) |-> TokStep(s, sep, f, e)]
    BY <2>2, Zenon
  <2> HIDE DEF f
  <2> QED
    BY <2>3, Zenon
<1>3. ASSUME NEW k \in 0..(n + 1), k + 1 \in 0..(n + 1), Solved(k)
      PROVE  Solved(k + 1)
  <2> DEFINE A == D(k)
             B == D(k + 1)
             b == n + 1 - (k + 1)
  <2>1. PICK f : f = [e \in A |-> TokStep(s, sep, f, e)]
    BY <1>3, Zenon
  <2> DEFINE g == [e \in B |-> IF e = b THEN TokStep(s, sep, f, b) ELSE f[e]]
  <2>2. /\ B \subseteq npos..n /\ b # npos
        /\ \A e \in B : e # b => e \in A
        /\ \A e \in B \ {npos} : \A j \in {npos} \cup (e + 1)..n : j \in B /\ j # b
    <3>1. b \in 0..n /\ n + 1 - k = b + 1
      BY <1>1, <1>3
    <3>2. A = {npos} \cup (b + 1)..n /\ B = {npos} \cup b..n
      BY <3>1
    <3> HIDE DEF A, B, b, n
    <3> QED
      BY <1>1, <3>1, <3>2
  <2> HIDE DEF A, B, b, D
  <2>3. ASSUME NEW e \in B
        PROVE  TokStep(s, sep, f, e) = TokStep(s, sep, g, e)
    <3>1. e \in npos..Len(s)
      BY <2>2
    <3>2. e # npos => \A j \in {npos} \cup (e + 1)..Len(s) : f[j] = g[j]
      BY <2>2
    <3> HIDE DEF g, n
    <3> QED
      BY <3>1, <3>2, TokStepLooksAhead
  <2>4. ASSUME NEW e \in B
        PROVE  g[e] = TokStep(s, sep, g, e)
    <3>1. CASE e = b
      <4>1. g[e] = TokStep(s, sep, f, e)
        BY <3>1
      <4> HIDE DEF g
      <4> QED
        BY <2>3, <4>1
    <3>2. CASE e # b
      <4>1. e \in A
        BY <2>2, <3>2
      <4>2. f[e] = TokStep(s, sep, f, e)
        BY <2>1, <4>1
      <4>3. g[e] = f[e]
        BY <3>2
      <4> HIDE DEF g
      <4> QED
        BY <2>3, <4>2, <4>3
    <3> QED
      BY <3>1, <3>2
  <2> DEFINE h == [e \in B |-> TokStep(s, sep, g, e)]
  <2>5. g = h
    <3>1. \A e \in B : g[e] = h[e]
      BY <2>4, Zenon
    <3> QED
      BY <3>1
  <2>6. g = [e \in B |-> TokStep(s, sep, g, e)]
    <3> HIDE DEF g
    <3> QED
      BY <2>5
  <2> HIDE DEF g
  <2> QED
    BY <2>6, Zenon DEF B
<1>4. ASSUME T # {}
      PROVE  FALSE
  <2> HIDE DEF Solved
  <2>0. T \in SUBSET Nat /\ T # {}
    BY <1>1, <1>4
  <2>1. PICK k \in T : \A m \in T : k <= m
    <3> HIDE DEF T
    <3> QED
      BY <2>0, LeastNatural
  <2>2. k \in 0..(n + 1) /\ ~Solved(k)
    BY <2>1
  <2>3. k # 0
    BY <1>2, <2>2
  <2>4. k - 1 \in 0..(n + 1) /\ ~(k <= k - 1) /\ (k - 1) + 1 = k
    BY <1>1, <2>2, <2>3
  <2>5. Solved(k - 1)
    BY <2>1, <2>4
  <2>6. Solved((k - 1) + 1)
    BY <1>3, <2>2, <2>4, <2>5
  <2> QED
    BY <2>2, <2>4, <2>6
<1>5. Solved(n + 1)
  <2> HIDE DEF Solved
  <2> QED
    BY <1>1, <1>4
<1>6. D(n + 1) = npos..n
  BY <1>1
<1> HIDE DEF D
<1> QED
  BY <1>5, <1>6

(* The recursion has a solution, and TokensFrom is it.                     *)
LEMMA PlainTokensFacts ==
  ASSUME NEW S, NEW s \in Seq(S), NEW sep \in Seq(S), sep # <<>>, NEW e \in npos..Len(s)
  PROVE  PlainTokens(s, sep)[e] = TokStep(s, sep, PlainTokens(s, sep), e)
<1> DEFINE f == PlainTokens(s, sep)
           Solves(g) == g = [d \in npos..Len(s) |-> TokStep(s, sep, g, d)]
<1>1. f = CHOOSE g : Solves(g)
  BY PlainTokensIs
<1>2. \E g : Solves(g)
  BY TokStepExists
<1>3. Solves(f)
  BY <1>1, <1>2, Zenon
<1> HIDE DEF f
<1>4. f[e] = TokStep(s, sep, f, e)
  BY <1>3
<1> QED
  BY <1>4 DEF f

(* The tokens from a position on: the next one, and those behind it.       *)
LEMMA PlainTokensStep ==
  ASSUME NEW S, NEW s \in Seq(S), NEW sep \in Seq(S), sep # <<>>, NEW e \in 0..Len(s)
  PROVE  \E c \in Seq(S), d \in {npos} \cup (e + 1)..Len(s) :
           /\ PlainTokens(s, sep)[e] = <<c>> \o PlainTokens(s, sep)[d]
           /\ CutAt(s, sep, e, c, d)
<1> DEFINE f == PlainTokens(s, sep)
<1>1. e \in npos..Len(s)
  BY DEF npos
<1>2. f[e] = TokStep(s, sep, f, e)
  BY <1>1, PlainTokensFacts
<1>3. PICK c \in Seq(S), d \in {npos} \cup (e + 1)..Len(s) :
             (\A h : TokStep(s, sep, h, e) = <<c>> \o h[d]) /\ CutAt(s, sep, e, c, d)
  BY NextToken, Zenon
<1> QED
  BY <1>2, <1>3, Zenon

(* Behind the end there are none.                                          *)
LEMMA PlainTokensAtNpos ==
  ASSUME NEW S, NEW s \in Seq(S), NEW sep \in Seq(S), sep # <<>>
  PROVE  PlainTokens(s, sep)[npos] = <<>>
<1>1. npos \in npos..Len(s)
  BY DEF npos
<1>2. PlainTokens(s, sep)[npos] = TokStep(s, sep, PlainTokens(s, sep), npos)
  BY <1>1, PlainTokensFacts
<1> QED
  BY <1>2 DEF TokStep

(* All it gives are strings.                                               *)
LEMMA PlainTokensType ==
  ASSUME NEW S, NEW s \in Seq(S), NEW sep \in Seq(S), sep # <<>>, NEW e \in {npos} \cup 0..Len(s)
  PROVE  PlainTokens(s, sep)[e] \in Seq(Seq(S))
<1> DEFINE f == PlainTokens(s, sep)
           n == Len(s)
           W == Seq(S)
           T == {k \in 0..n : f[n - k] \notin Seq(W)}
<1>1. n \in Nat /\ npos \notin 0..n
  BY DEF npos
<1>2. f[npos] \in Seq(W)
  <2>1. f[npos] = <<>>
    BY PlainTokensAtNpos
  <2> HIDE DEF W, f
  <2> QED
    BY <2>1
<1>3. \A c \in W, x \in Seq(W) : <<c>> \o x \in Seq(W)
  <2> HIDE DEF W
  <2> QED
    BY PrependOf
<1>4. ASSUME T # {}
      PROVE  FALSE
  <2>1. T \in SUBSET Nat
    BY <1>1
  <2>2. PICK k \in T : \A m \in T : k <= m
    <3> HIDE DEF T
    <3> QED
      BY <1>4, <2>1, LeastNatural
  <2>3. k \in 0..n /\ f[n - k] \notin Seq(W)
    BY <2>2
  <2> DEFINE a == n - k
  <2>4. a \in 0..Len(s)
    BY <1>1, <2>3
  <2>5. PICK c \in Seq(S), d \in {npos} \cup (a + 1)..Len(s) : f[a] = <<c>> \o f[d]
    <3> HIDE DEF a
    <3>1. \E c \in Seq(S), d \in {npos} \cup (a + 1)..Len(s) :
             f[a] = <<c>> \o f[d] /\ CutAt(s, sep, a, c, d)
      BY <2>4, PlainTokensStep, Zenon
    <3> QED
      BY <3>1, Zenon
  <2>6. f[d] \in Seq(W)
    <3>1. CASE d = npos
      BY <1>2, <3>1
    <3>2. CASE d # npos
      <4>1. n - d \in 0..n /\ ~(k <= n - d) /\ n - (n - d) = d
        BY <1>1, <2>3, <3>2
      <4>2. n - d \notin T
        <5> HIDE DEF T
        <5> QED
          BY <2>2, <4>1
      <4>3. f[n - (n - d)] \in Seq(W)
        BY <4>1, <4>2
      <4> QED
        BY <4>1, <4>3
    <3> QED
      BY <3>1, <3>2
  <2>7. f[a] \in Seq(W)
    <3> HIDE DEF a, f
    <3> QED
      BY <1>3, <2>5, <2>6
  <2> QED
    BY <2>3, <2>7
<1>5. CASE e = npos
  BY <1>2, <1>5
<1>6. CASE e # npos
  <2>1. n - e \in 0..n /\ n - (n - e) = e
    BY <1>1, <1>6
  <2>2. f[n - (n - e)] \in Seq(W)
    BY <1>4, <2>1
  <2> QED
    BY <2>1, <2>2
<1> QED
  BY <1>5, <1>6

(* The tokens that are not empty, from a position on.                      *)
Kept(s, sep, e) == NonEmpty(PlainTokens(s, sep)[e])

(* Behind the end there are none.                                          *)
LEMMA KeptAtNpos ==
  ASSUME NEW S, NEW s \in Seq(S), NEW sep \in Seq(S), sep # <<>>
  PROVE  Kept(s, sep, npos) = <<>>
BY PlainTokensAtNpos, NonEmptyOfNone DEF Kept

(* A token is kept unless it is empty.                                     *)
LEMMA KeptStep ==
  ASSUME NEW S, NEW s \in Seq(S), NEW sep \in Seq(S), sep # <<>>, NEW e \in 0..Len(s)
  PROVE  \E c \in Seq(S), d \in {npos} \cup (e + 1)..Len(s) :
           /\ Kept(s, sep, e) = (IF c = <<>> THEN <<>> ELSE <<c>>) \o Kept(s, sep, d)
           /\ CutAt(s, sep, e, c, d) /\ Kept(s, sep, d) \in Seq(Seq(S))
<1> DEFINE f == PlainTokens(s, sep)
           W == Seq(S)
<1>1. PICK c \in W, d \in {npos} \cup (e + 1)..Len(s) :
             f[e] = <<c>> \o f[d] /\ CutAt(s, sep, e, c, d)
  BY PlainTokensStep, Zenon
<1>2. d \in {npos} \cup 0..Len(s)
  OBVIOUS
<1>3. f[d] \in Seq(W)
  BY <1>2, PlainTokensType
<1> DEFINE x == f[d]
<1>4. NonEmpty(x) \in Seq(W) /\ NonEmpty(<<c>> \o x) = (IF c = <<>> THEN <<>> ELSE <<c>>) \o NonEmpty(x)
  <2> HIDE DEF W, x
  <2> QED
    BY <1>3, NonEmptyPrepend DEF x
<1>5. /\ Kept(s, sep, e) = (IF c = <<>> THEN <<>> ELSE <<c>>) \o Kept(s, sep, d)
      /\ Kept(s, sep, d) \in Seq(W)
  BY <1>1, <1>4 DEF Kept
<1> HIDE DEF f, x
<1> QED
  BY <1>1, <1>5, Zenon

(* A separator only separates off an empty token.                          *)
LEMMA KeptPastSeparator ==
  ASSUME NEW S, NEW s \in Seq(S), NEW sep \in Seq(S), sep # <<>>, NEW e \in 0..Len(s),
         OccursAt(s, sep, e)
  PROVE  Kept(s, sep, e) = Kept(s, sep, e + Len(sep))
<1>1. PICK c \in Seq(S), d \in {npos} \cup (e + 1)..Len(s) :
             /\ Kept(s, sep, e) = (IF c = <<>> THEN <<>> ELSE <<c>>) \o Kept(s, sep, d)
             /\ CutAt(s, sep, e, c, d) /\ Kept(s, sep, d) \in Seq(Seq(S))
  BY KeptStep, Zenon
<1>2. e \in e..Len(s) /\ Len(s) \in Nat /\ Len(sep) \in Nat
  OBVIOUS
<1>3. PICK t \in e..Len(s) : /\ \A u \in e..(t - 1) : ~OccursAt(s, sep, u)
                             /\ c = substr(s, e, t - e) /\ d = t + Len(sep)
  BY <1>1, <1>2 DEF CutAt
<1>4. t = e
  <2>1. e \notin e..(t - 1)
    BY <1>3
  <2> QED
    BY <1>2, <2>1
<1>5. c = <<>>
  <2>1. 0 \in 0..(Len(s) - e) /\ t - e = 0
    BY <1>2, <1>4
  <2>2. substr(s, e, 0) \in Seq(S) /\ Len(substr(s, e, 0)) = 0
    BY <2>1, SubstrIs
  <2> QED
    BY <1>3, <2>1, <2>2
<1> DEFINE k == Kept(s, sep, d)
<1>6. <<>> \o k = k
  <2>1. k \in Seq(Seq(S))
    BY <1>1
  <2> HIDE DEF k
  <2> QED
    BY <2>1
<1> QED
  BY <1>1, <1>3, <1>4, <1>5, <1>6

(* Nor do several.                                                         *)
LEMMA KeptPastSeparators ==
  ASSUME NEW S, NEW s \in Seq(S), NEW sep \in Seq(S), sep # <<>>, NEW e \in 0..Len(s)
  PROVE  Kept(s, sep, e) = Kept(s, sep, skip_separators(s, sep, e))
<1> DEFINE l == Len(sep)
           past(j) == e + j * l
<1>1. PICK k \in Nat : /\ skip_separators(s, sep, e) = e + k * Len(sep)
                       /\ e + k * Len(sep) \in e..Len(s)
                       /\ \A j \in 0..(k - 1) : OccursAt(s, sep, e + j * Len(sep))
  BY SkipFacts
<1>2. l \in Nat \ {0} /\ Len(s) \in Nat
  OBVIOUS
<1> DEFINE T == {j \in 0..k : Kept(s, sep, past(j)) # Kept(s, sep, e)}
<1>3. past(0) = e
  <2>1. 0 * l = 0
    BY <1>2, TimesFacts
  <2> QED
    BY <1>2, <2>1
<1> HIDE DEF l
<1>4. ASSUME T # {}
      PROVE  FALSE
  <2>1. T \in SUBSET Nat
    OBVIOUS
  <2>2. PICK j \in T : \A m \in T : j <= m
    <3> HIDE DEF T
    <3> QED
      BY <1>4, <2>1, LeastNatural
  <2>3. j \in 0..k /\ Kept(s, sep, past(j)) # Kept(s, sep, e)
    BY <2>2
  <2>4. j # 0
    <3> HIDE DEF past
    <3> QED
      BY <1>3, <2>3
  <2> DEFINE i == j - 1
  <2>5. i \in 0..(k - 1) /\ i \in 0..k /\ i \in Nat /\ ~(j <= i) /\ i + 1 = j
    BY <2>3, <2>4
  <2> HIDE DEF i
  <2>6. i \notin T
    <3> HIDE DEF T
    <3> QED
      BY <2>2, <2>5
  <2>7. Kept(s, sep, past(i)) = Kept(s, sep, e)
    BY <2>5, <2>6
  <2>8. i * l \in Nat /\ (i + 1) * l = i * l + l
    BY <1>2, <2>5, TimesFacts
  <2>9. past(j) = past(i) + l
    BY <1>2, <2>5, <2>8
  <2> DEFINE q == past(i)
  <2>10. OccursAt(s, sep, q)
    BY <1>1, <2>5 DEF l
  <2>11. q \in 0..Len(s)
    <3>1. q + l <= Len(s)
      BY <2>10 DEF OccursAt, l
    <3> QED
      BY <1>2, <2>8, <3>1
  <2> HIDE DEF q
  <2>12. Kept(s, sep, q) = Kept(s, sep, q + l)
    BY <2>10, <2>11, KeptPastSeparator DEF l
  <2> QED
    BY <2>3, <2>7, <2>9, <2>12 DEF q
<1>5. k \in 0..k
  OBVIOUS
<1>6. Kept(s, sep, past(k)) = Kept(s, sep, e)
  BY <1>4, <1>5
<1> QED
  BY <1>1, <1>6 DEF l

-----------------------------------------------------------------------------
(* What one step of the loop does to the tokens so far.                    *)

(* There is one way only to cut off a token.                               *)
LEMMA CutIsUnique ==
  ASSUME NEW S, NEW s \in Seq(S), NEW sep, NEW e \in 0..Len(s), NEW c, NEW d, NEW x, NEW y,
         CutAt(s, sep, e, c, d), CutAt(s, sep, e, x, y)
  PROVE  c = x /\ d = y
<1> DEFINE none == \A t \in e..Len(s) : ~OccursAt(s, sep, t)
           first(t) == OccursAt(s, sep, t) /\ \A u \in e..(t - 1) : ~OccursAt(s, sep, u)
<1>1. \/ none /\ c = from(s, e) /\ d = npos
      \/ \E t \in e..Len(s) : first(t) /\ c = substr(s, e, t - e) /\ d = t + Len(sep)
  BY DEF CutAt
<1>2. \/ none /\ x = from(s, e) /\ y = npos
      \/ \E t \in e..Len(s) : first(t) /\ x = substr(s, e, t - e) /\ y = t + Len(sep)
  BY DEF CutAt
<1>3. \A t \in e..Len(s) : first(t) => ~none
  OBVIOUS
<1>4. \A t, u \in e..Len(s) : first(t) /\ first(u) => t = u
  <2> SUFFICES ASSUME NEW t \in e..Len(s), NEW u \in e..Len(s), first(t), first(u), t # u
               PROVE  FALSE
    OBVIOUS
  <2>1. u \in e..(t - 1) \/ t \in e..(u - 1)
    OBVIOUS
  <2> QED
    BY <2>1
<1> HIDE DEF none, first
<1> QED
  BY <1>1, <1>2, <1>3, <1>4

(* Whatever was cut off is the next token.                                 *)
LEMMA KeptOfCut ==
  ASSUME NEW S, NEW s \in Seq(S), NEW sep \in Seq(S), sep # <<>>, NEW e \in 0..Len(s),
         NEW c, NEW d, CutAt(s, sep, e, c, d)
  PROVE  /\ Kept(s, sep, e) = (IF c = <<>> THEN <<>> ELSE <<c>>) \o Kept(s, sep, d)
         /\ Kept(s, sep, d) \in Seq(Seq(S))
<1>1. PICK x \in Seq(S), y \in {npos} \cup (e + 1)..Len(s) :
             /\ Kept(s, sep, e) = (IF x = <<>> THEN <<>> ELSE <<x>>) \o Kept(s, sep, y)
             /\ CutAt(s, sep, e, x, y) /\ Kept(s, sep, y) \in Seq(Seq(S))
  BY KeptStep, Zenon
<1>2. c = x /\ d = y
  BY <1>1, CutIsUnique, Zenon
<1> QED
  BY <1>1, <1>2, Zenon

(* At the end there is but an empty token.                                 *)
LEMMA KeptAtEnd ==
  ASSUME NEW S, NEW s \in Seq(S), NEW sep \in Seq(S), sep # <<>>
  PROVE  Kept(s, sep, Len(s)) = <<>>
<1>1. Len(s) \in 0..Len(s) /\ Len(s) \in Nat
  OBVIOUS
<1>2. \A t \in Len(s)..Len(s) : ~OccursAt(s, sep, t)
  <2>1. \A t \in Len(s)..Len(s) : t = Len(s)
    BY <1>1
  <2> QED
    BY <2>1, NothingAtEnd
<1>3. CutAt(s, sep, Len(s), <<>>, npos)
  BY <1>2, NothingAtEnd DEF CutAt
<1>4. Kept(s, sep, Len(s)) = <<>> \o Kept(s, sep, npos)
  <2> DEFINE c == <<>>
  <2>1. CutAt(s, sep, Len(s), c, npos) /\ c = <<>>
    BY <1>3
  <2> DEFINE m == Len(s)
  <2> HIDE DEF c
  <2>2. Kept(s, sep, m) = (IF c = <<>> THEN <<>> ELSE <<c>>) \o Kept(s, sep, npos)
    <3>1. m \in 0..Len(s) /\ CutAt(s, sep, m, c, npos)
      BY <1>1, <2>1
    <3> HIDE DEF m
    <3> QED
      BY <3>1, KeptOfCut
  <2> QED
    BY <2>1, <2>2
<1> QED
  BY <1>4, KeptAtNpos

(* A token, its separator and what is behind it make up what was there,    *)
(* and the separator is the first one.                                     *)
LEMMA CutFacts ==
  ASSUME NEW S, NEW s \in Seq(S), NEW sep \in Seq(S), sep # <<>>, NEW e \in 0..Len(s),
         NEW c, NEW d, CutAt(s, sep, e, c, d)
  PROVE  /\ c \in Seq(S) /\ from(s, e) \in Seq(S)
         /\ \/ /\ d = npos /\ c = from(s, e) /\ Len(c) = Len(s) - e
               /\ find(c, sep, 0) = npos
            \/ /\ d \in (e + 1)..Len(s) /\ from(s, d) \in Seq(S)
               /\ from(s, e) = c \o (sep \o from(s, d))
               /\ find(c \o sep, sep, 0) = Len(c)
               /\ ~OccursAt(s, sep, e) => c # <<>>
<1> DEFINE n == Len(s)
           l == Len(sep)
<1>1. n \in Nat /\ l \in Nat \ {0} /\ Len(sep) \in Nat
  OBVIOUS
<1>2. from(s, e) \in Seq(S) /\ Len(from(s, e)) = n - e /\ \A k \in 1..(n - e) : from(s, e)[k] = s[e + k]
  BY FromIs
<1>3. CASE (\A t \in e..Len(s) : ~OccursAt(s, sep, t)) /\ c = from(s, e) /\ d = npos
  <2>1. c \in Seq(S) /\ Len(c) = n - e /\ \A k \in 1..Len(c) : c[k] = s[e + k]
    BY <1>2, <1>3
  <2>2. \A i \in 0..Len(c) : ~OccursAt(c, sep, i)
    <3> SUFFICES ASSUME NEW i \in 0..Len(c), OccursAt(c, sep, i) PROVE FALSE
      OBVIOUS
    <3>1. i + Len(sep) <= Len(c)
      BY DEF OccursAt
    <3>2. e + Len(c) <= Len(s)
      BY <1>1, <2>1
    <3>3. OccursAt(s, sep, e + i)
      BY <2>1, <3>1, <3>2, OccursInPart
    <3>4. e + i \in e..Len(s)
      BY <1>1, <2>1, <3>1
    <3> QED
      BY <1>3, <3>3, <3>4
  <2>3. find(c, sep, 0) = npos
    BY <2>2, FindNone
  <2> QED
    BY <1>2, <1>3, <2>1, <2>3
<1>4. ASSUME NEW t \in e..Len(s),
             /\ OccursAt(s, sep, t) /\ t + Len(sep) <= Len(s)
             /\ \A u \in e..(t - 1) : ~OccursAt(s, sep, u)
             /\ c = substr(s, e, t - e) /\ d = t + Len(sep)
      PROVE  /\ c \in Seq(S) /\ d \in (e + 1)..Len(s) /\ from(s, d) \in Seq(S)
             /\ from(s, e) = c \o (sep \o from(s, d))
             /\ find(c \o sep, sep, 0) = Len(c)
             /\ ~OccursAt(s, sep, e) => c # <<>>
  <2>1. t - e \in 0..(Len(s) - e)
    BY <1>1
  <2>2. c \in Seq(S) /\ Len(c) = t - e /\ \A k \in 1..Len(c) : c[k] = s[e + k]
    <3> DEFINE m == t - e
    <3> HIDE DEF m
    <3>1. substr(s, e, m) \in Seq(S) /\ Len(substr(s, e, m)) = m
          /\ \A k \in 1..m : substr(s, e, m)[k] = s[e + k]
      BY <2>1, SubstrIs, Zenon DEF m
    <3>2. c = substr(s, e, m)
      BY <1>4 DEF m
    <3>3. c \in Seq(S) /\ Len(c) = m /\ \A k \in 1..m : c[k] = s[e + k]
      BY <3>1, <3>2, Zenon
    <3> QED
      BY <3>3 DEF m
  <2>3. d \in (e + 1)..Len(s) /\ d \in 0..Len(s) /\ d = t + l
    BY <1>1, <1>4
  <2>4. from(s, d) \in Seq(S) /\ Len(from(s, d)) = n - d /\ \A k \in 1..(n - d) : from(s, d)[k] = s[d + k]
    BY <2>3, FromIs
  <2>5. \A k \in 1..l : s[t + k] = sep[k]
    <3>1. t \in 0..Len(s)
      BY <1>1
    <3> QED
      BY <1>4, <3>1, OccursIs DEF MatchesAt
  <2> DEFINE u == c \o sep
             f == from(s, d)
  <2>6. /\ u \in Seq(S) /\ Len(u) = Len(c) + l /\ Len(c) \in Nat
        /\ \A k \in 1..Len(c) : u[k] = c[k]
        /\ \A k \in 1..l : u[Len(c) + k] = sep[k]
    <3>1. c \in Seq(S)
      BY <2>2
    <3> QED
      BY <3>1, CatOf
  <2>7. u \o f = c \o (sep \o f)
    <3>1. c \in Seq(S) /\ f \in Seq(S)
      BY <2>2, <2>4
    <3> HIDE DEF f
    <3> QED
      BY <3>1
  <2> HIDE DEF u, f
  <2>8. \A k \in 1..Len(u) : u[k] = s[e + k]
    <3> SUFFICES ASSUME NEW k \in 1..Len(u) PROVE u[k] = s[e + k]
      OBVIOUS
    <3>1. CASE k <= Len(c)
      <4>1. k \in 1..Len(c)
        BY <2>6, <3>1
      <4> QED
        BY <2>2, <2>6, <4>1
    <3>2. CASE ~(k <= Len(c))
      <4> DEFINE j == k - Len(c)
      <4>1. j \in 1..l /\ Len(c) + j = k /\ t + j = e + k
        BY <1>1, <2>2, <2>6, <3>2
      <4> HIDE DEF j
      <4>2. u[Len(c) + j] = sep[j] /\ s[t + j] = sep[j]
        BY <2>5, <2>6, <4>1
      <4> QED
        BY <4>1, <4>2
    <3> QED
      BY <3>1, <3>2
  <2>9. find(u, sep, 0) = Len(c)
    <3>1. e + Len(u) <= Len(s) /\ e + Len(c) = t /\ Len(c) + Len(sep) <= Len(u) /\ Len(c) \in 0..Len(u)
      BY <1>1, <1>4, <2>2, <2>6
    <3>2. OccursAt(u, sep, Len(c)) <=> OccursAt(s, sep, e + Len(c))
      BY <2>6, <2>8, <3>1, OccursInPart
    <3>3. \A i \in 0..(Len(c) - 1) : ~OccursAt(u, sep, i)
      <4> SUFFICES ASSUME NEW i \in 0..(Len(c) - 1) PROVE ~OccursAt(u, sep, i)
        OBVIOUS
      <4>1. i \in 0..Len(u) /\ i + Len(sep) <= Len(u)
        BY <1>1, <2>6
      <4>2. OccursAt(u, sep, i) <=> OccursAt(s, sep, e + i)
        BY <2>6, <2>8, <3>1, <4>1, OccursInPart
      <4>3. e + i \in e..(t - 1)
        BY <1>1, <2>2
      <4> QED
        BY <1>4, <4>2, <4>3
    <3>4. 0 \in 0..Len(u)
      BY <1>1, <2>6
    <3> QED
      BY <1>4, <2>6, <3>1, <3>2, <3>3, <3>4, FindIs
  <2>10. from(s, e) = u \o f
    <3> DEFINE w == u \o f
               v == from(s, e)
    <3>1. f \in Seq(S) /\ Len(f) = n - d /\ \A k \in 1..(n - d) : f[k] = s[d + k]
      BY <2>4 DEF f
    <3>2. /\ w \in Seq(S) /\ Len(w) = Len(u) + Len(f)
          /\ \A k \in 1..Len(u) : w[k] = u[k]
          /\ \A k \in 1..Len(f) : w[Len(u) + k] = f[k]
          /\ Len(u) \in Nat /\ Len(f) \in Nat
      <4>1. u \in Seq(S) /\ f \in Seq(S)
        BY <2>6, <3>1
      <4> QED
        BY <4>1, CatOf
    <3>3. v \in Seq(S) /\ Len(v) = n - e /\ \A k \in 1..(n - e) : v[k] = s[e + k]
      BY <1>2
    <3> HIDE DEF w, v
    <3>4. /\ Len(w) = Len(v) /\ Len(v) \in Nat /\ Len(u) \in Nat /\ e + Len(u) = d
          /\ Len(f) = n - d /\ Len(v) = n - e
      BY <1>1, <2>2, <2>3, <2>6, <3>1, <3>2, <3>3
    <3>5. \A k \in 1..Len(v) : w[k] = v[k]
      <4> SUFFICES ASSUME NEW k \in 1..Len(v) PROVE w[k] = v[k]
        OBVIOUS
      <4>1. v[k] = s[e + k]
        BY <3>3
      <4>2. CASE k <= Len(u)
        <5>1. k \in 1..Len(u)
          BY <3>4, <4>2
        <5> QED
          BY <2>8, <3>2, <4>1, <5>1
      <4>3. CASE ~(k <= Len(u))
        <5> DEFINE j == k - Len(u)
        <5>1. j \in 1..Len(f) /\ j \in 1..(n - d) /\ Len(u) + j = k /\ d + j = e + k
          <6> DEFINE a == Len(u)
          <6>1. a \in Nat /\ e + a = d /\ n \in Nat /\ e \in Nat /\ e + a <= n
            BY <1>1, <2>3, <3>4
          <6>2. Len(f) = n - (e + a) /\ n - d = n - (e + a) /\ k \in 1..(n - e) /\ ~(k <= a)
            BY <3>4, <4>3
          <6> HIDE DEF a, n
          <6>3. k - a \in 1..(n - (e + a)) /\ a + (k - a) = k /\ (e + a) + (k - a) = e + k
            BY <6>1, <6>2
          <6> QED
            BY <6>1, <6>2, <6>3 DEF a
        <5> HIDE DEF j
        <5>2. w[Len(u) + j] = f[j] /\ f[j] = s[d + j]
          BY <3>1, <3>2, <5>1
        <5> QED
          BY <4>1, <5>1, <5>2
      <4> QED
        BY <4>2, <4>3
    <3>6. w = v
      <4>1. w \in Seq(S) /\ v \in Seq(S) /\ Len(w) = Len(v)
        BY <3>2, <3>3, <3>4
      <4> QED
        BY <3>5, <4>1
    <3> QED
      BY <3>6 DEF w, v
  <2>11. ~OccursAt(s, sep, e) => c # <<>>
    <3> SUFFICES ASSUME c = <<>> PROVE OccursAt(s, sep, e)
      OBVIOUS
    <3>1. t = e
      BY <1>1, <2>2
    <3> QED
      BY <1>4, <3>1
  <2> QED
    BY <2>2, <2>3, <2>4, <2>7, <2>9, <2>10, <2>11 DEF u, f
<1> QED
  BY <1>2, <1>3, <1>4 DEF CutAt

-----------------------------------------------------------------------------
(* A loop that skips nothing, with a separator.                            *)

PlainSoFar(s, sep, ts, e) ==
  /\ e \in {npos} \cup 0..Len(s)
  /\ ts = <<>> => e # npos
  /\ s = join(sep, IF e = npos THEN ts ELSE Append(ts, from(s, e)))
  /\ \A m \in 1..Len(ts) :
       IF m = Len(ts) /\ e = npos THEN find(ts[m], sep, 0) = npos
       ELSE find(ts[m] \o sep, sep, 0) = Len(ts[m])
  /\ Len(ts) <= IF e = npos THEN Len(s) + 1 ELSE e

(* It begins with the whole string to come.                                *)
LEMMA PlainBegins ==
  ASSUME NEW S, NEW s \in Seq(S), NEW sep \in Seq(S)
  PROVE  PlainSoFar(s, sep, <<>>, 0)
<1>1. 0 \in 0..Len(s) /\ 0 # npos /\ Len(<<>>) = 0 /\ Len(s) \in Nat
  BY DEF npos
<1>2. from(s, 0) = s
  <2> DEFINE f == from(s, 0)
  <2>1. f \in Seq(S) /\ Len(f) = Len(s) - 0 /\ \A k \in 1..(Len(s) - 0) : f[k] = s[0 + k]
    BY <1>1, FromIs
  <2> HIDE DEF f
  <2>2. Len(f) = Len(s) /\ \A k \in 1..Len(s) : f[k] = s[k]
    BY <1>1, <2>1
  <2> QED
    BY <2>1, <2>2 DEF f
<1>3. Append(<<>>, s) = <<s>>
  OBVIOUS
<1>4. join(sep, Append(<<>>, from(s, 0))) = s
  BY <1>2, <1>3, JoinOfOne
<1> QED
  BY <1>1, <1>4 DEF PlainSoFar

(* Cat is \o under a name, for lemmas to be instantiated.                  *)
Cat(s, t) == s \o t

LEMMA CatOfFour ==
  ASSUME NEW S, NEW s \in Seq(S), NEW t \in Seq(S), NEW u \in Seq(S), NEW v \in Seq(S)
  PROVE  Cat(Cat(s, Cat(t, u)), v) = Cat(s, Cat(t, Cat(u, v)))
<1>1. t \o u \in Seq(S) /\ (t \o u) \o v = t \o (u \o v)
  OBVIOUS
<1> DEFINE w == t \o u
<1>2. (s \o w) \o v = s \o (w \o v)
  <2>1. w \in Seq(S)
    BY <1>1
  <2> HIDE DEF w
  <2> QED
    BY <2>1
<1> QED
  BY <1>1, <1>2 DEF Cat

(* Cutting the last piece in two.                                          *)
LEMMA JoinOfCut ==
  ASSUME NEW S, NEW ts \in Seq(Seq(S)), ts # <<>>, NEW sep \in Seq(S), NEW c \in Seq(S),
         NEW y \in Seq(S)
  PROVE  Cat(join(sep, Append(ts, c)), y) = join(sep, Append(ts, Cat(c, y)))
<1> DEFINE j == join(sep, ts)
           w == c \o y
<1>1. w \in Seq(S)
  OBVIOUS
<1>3. j \in Seq(S) /\ join(sep, Append(ts, c)) = j \o (sep \o c)
  BY JoinAppend
<1>4. join(sep, Append(ts, w)) = j \o (sep \o w)
  <2> HIDE DEF w
  <2> QED
    BY <1>1, JoinAppend
<1>5. Cat(Cat(j, Cat(sep, c)), y) = Cat(j, Cat(sep, Cat(c, y)))
  <2>1. j \in Seq(S)
    BY <1>3
  <2> HIDE DEF j
  <2> QED
    BY <2>1, CatOfFour, SMT
<1> HIDE DEF j, w
<1> QED
  BY <1>3, <1>4, <1>5 DEF w, Cat

(* It goes on with the next token, or ends with the last.                  *)
LEMMA PlainGoesOn ==
  ASSUME NEW S, NEW s \in Seq(S), NEW sep \in Seq(S), sep # <<>>, NEW ts \in Seq(Seq(S)),
         NEW e \in 0..Len(s), PlainSoFar(s, sep, ts, e), NEW c, NEW d, CutAt(s, sep, e, c, d)
  PROVE  Append(ts, c) \in Seq(Seq(S)) /\ PlainSoFar(s, sep, Append(ts, c), d)
<1> DEFINE W == Seq(S)
           us == Append(ts, c)
           l == Len(ts)
<1>1. /\ c \in W /\ from(s, e) \in W
      /\ \/ d = npos /\ c = from(s, e) /\ find(c, sep, 0) = npos
         \/ /\ d \in (e + 1)..Len(s) /\ from(s, d) \in W
            /\ from(s, e) = c \o (sep \o from(s, d)) /\ find(c \o sep, sep, 0) = Len(c)
  BY CutFacts
<1>2. e # npos /\ npos = -1 /\ Len(s) \in Nat
  BY DEF npos
<1>3. /\ s = join(sep, Append(ts, from(s, e))) /\ l <= e
      /\ \A m \in 1..l : find(ts[m] \o sep, sep, 0) = Len(ts[m])
  BY <1>2 DEF PlainSoFar
<1>4. /\ us \in Seq(W) /\ us # <<>> /\ l \in Nat /\ Len(us) = l + 1 /\ us[l + 1] = c
      /\ \A m \in 1..l : us[m] = ts[m]
  <2>1. ts \in Seq(W) /\ c \in W
    BY <1>1
  <2> HIDE DEF W
  <2> QED
    BY <2>1, AppendOf
<1> HIDE DEF us, l
<1>5. CASE d = npos /\ c = from(s, e) /\ find(c, sep, 0) = npos
  <2>1. s = join(sep, us)
    BY <1>3, <1>5 DEF us
  <2>2. Len(us) <= Len(s) + 1
    BY <1>2, <1>3, <1>4
  <2>3. \A m \in 1..Len(us) : IF m = Len(us) /\ d = npos THEN find(us[m], sep, 0) = npos
                              ELSE find(us[m] \o sep, sep, 0) = Len(us[m])
    <3> SUFFICES ASSUME NEW m \in 1..Len(us)
                 PROVE  IF m = Len(us) /\ d = npos THEN find(us[m], sep, 0) = npos
                        ELSE find(us[m] \o sep, sep, 0) = Len(us[m])
      OBVIOUS
    <3>1. CASE m = l + 1
      BY <1>4, <1>5, <3>1
    <3>2. CASE m # l + 1
      <4>1. m \in 1..l /\ m # Len(us)
        BY <1>4, <3>2
      <4> QED
        BY <1>3, <1>4, <4>1
    <3> QED
      BY <3>1, <3>2
  <2> QED
    BY <1>4, <1>5, <2>1, <2>2, <2>3 DEF PlainSoFar, us
<1>6. CASE /\ d \in (e + 1)..Len(s) /\ from(s, d) \in W
           /\ from(s, e) = c \o (sep \o from(s, d)) /\ find(c \o sep, sep, 0) = Len(c)
  <2> DEFINE f == from(s, d)
  <2>1. d # npos /\ d \in 0..Len(s) /\ Len(us) <= d
    BY <1>2, <1>3, <1>4, <1>6
  <2>2. \A m \in 1..Len(us) : find(us[m] \o sep, sep, 0) = Len(us[m])
    <3> SUFFICES ASSUME NEW m \in 1..Len(us)
                 PROVE  find(us[m] \o sep, sep, 0) = Len(us[m])
      OBVIOUS
    <3>1. CASE m = l + 1
      BY <1>4, <1>6, <3>1
    <3>2. CASE m # l + 1
      <4>1. m \in 1..l
        BY <1>4, <3>2
      <4> QED
        BY <1>3, <1>4, <4>1
    <3> QED
      BY <3>1, <3>2
  <2>3. f \in Seq(S) /\ c \in Seq(S) /\ us \in Seq(Seq(S))
    BY <1>1, <1>4, <1>6
  <2>4. join(sep, Append(us, f)) = join(sep, us) \o (sep \o f)
    <3> HIDE DEF f
    <3> QED
      BY <1>4, <2>3, JoinAppend
  <2> DEFINE y == sep \o f
  <2>5. y \in Seq(S) /\ sep \o c \in Seq(S) /\ from(s, e) = c \o y
    <3>1. f \in Seq(S) /\ c \in Seq(S)
      BY <2>3
    <3> HIDE DEF f
    <3>2. y \in Seq(S) /\ sep \o c \in Seq(S)
      BY <3>1
    <3> QED
      BY <1>6, <3>2 DEF f
  <2>6. join(sep, us) \o y = s
    <3>1. CASE ts = <<>>
      <4>1. us = <<c>> /\ Append(ts, from(s, e)) = <<from(s, e)>>
        BY <3>1 DEF us
      <4>2. join(sep, us) = c
        BY <2>3, <4>1, JoinOfOne
      <4>3. join(sep, Append(ts, from(s, e))) = from(s, e)
        BY <1>1, <4>1, JoinOfOne
      <4> QED
        BY <1>3, <2>5, <4>2, <4>3
    <3>2. CASE ts # <<>>
      <4>1. Cat(join(sep, us), y) = join(sep, Append(ts, Cat(c, y)))
        <5>1. y \in Seq(S) /\ c \in Seq(S)
          BY <2>3, <2>5
        <5> HIDE DEF y
        <5> QED
          BY <3>2, <5>1, JoinOfCut, SMT DEF us
      <4> QED
        BY <1>3, <2>5, <4>1 DEF Cat
    <3> QED
      BY <3>1, <3>2
  <2>7. s = join(sep, Append(us, from(s, d)))
    BY <2>4, <2>6
  <2> HIDE DEF y, f
  <2> QED
    BY <1>4, <2>1, <2>2, <2>3, <2>7 DEF PlainSoFar, us
<1> QED
  BY <1>1, <1>5, <1>6

-----------------------------------------------------------------------------
(* A loop that skips empty tokens, with a separator.                       *)

Blank(s, sep) == skip_separators(s, sep, 0) = Len(s)

SkippedSoFar(s, sep, ts, e) ==
  /\ e \in {npos} \cup 0..(Len(s) - 1)
  /\ e # npos => ~OccursAt(s, sep, e)
  /\ IF Blank(s, sep) THEN e = npos /\ ts = << <<>> >>
     ELSE Kept(s, sep, 0) = ts \o Kept(s, sep, e)
  /\ Len(ts) <= IF e = npos THEN Len(s) + 1 ELSE e

(* It begins at the first character that is no separator.                  *)
LEMMA SkippedBegins ==
  ASSUME NEW S, NEW s \in Seq(S), NEW sep \in Seq(S), sep # <<>>,
         NEW e, e = skip_separators(s, sep, 0)
  PROVE  /\ e \in 0..Len(s)
         /\ Blank(s, sep) => \A c, d : CutAt(s, sep, e, c, d) =>
                               SkippedSoFar(s, sep, Append(<<>>, c), npos) /\ d = npos
         /\ ~Blank(s, sep) => SkippedSoFar(s, sep, <<>>, e)
<1>1. 0 \in 0..Len(s) /\ Len(s) \in Nat
  OBVIOUS
<1>2. e \in 0..Len(s) /\ ~OccursAt(s, sep, e)
  BY <1>1, SkipFacts
<1>3. ASSUME Blank(s, sep), NEW c, NEW d, CutAt(s, sep, e, c, d)
      PROVE  SkippedSoFar(s, sep, Append(<<>>, c), npos) /\ d = npos
  <2>1. e = Len(s)
    BY <1>3 DEF Blank
  <2>2. c = <<>> /\ d = npos
    <3>1. \A t \in e..Len(s) : ~OccursAt(s, sep, t)
      BY <1>1, <1>2, <2>1
    <3>2. CutAt(s, sep, e, <<>>, npos)
      BY <2>1, <3>1, NothingAtEnd DEF CutAt
    <3> QED
      BY <1>2, <1>3, <3>2, CutIsUnique
  <2>3. Append(<<>>, c) = << <<>> >> /\ Len(Append(<<>>, c)) = 1
    BY <2>2
  <2> QED
    BY <1>1, <1>3, <2>2, <2>3 DEF SkippedSoFar
<1>4. ASSUME ~Blank(s, sep)
      PROVE  SkippedSoFar(s, sep, <<>>, e)
  <2>1. e # Len(s) /\ e # npos /\ e \in 0..(Len(s) - 1)
    BY <1>1, <1>2, <1>4 DEF Blank, npos
  <2>2. Kept(s, sep, 0) = Kept(s, sep, e)
    BY <1>1, KeptPastSeparators
  <2> DEFINE k == Kept(s, sep, e)
  <2>3. <<>> \o k = k
    <3>1. k \in Seq(Seq(S))
      <4> HIDE DEF k
      <4>1. \E c \in Seq(S), d \in {npos} \cup (e + 1)..Len(s) :
              /\ Kept(s, sep, e) = (IF c = <<>> THEN <<>> ELSE <<c>>) \o Kept(s, sep, d)
              /\ CutAt(s, sep, e, c, d) /\ Kept(s, sep, d) \in Seq(Seq(S))
        BY <1>2, KeptStep, Zenon
      <4>2. PICK c \in Seq(S), d \in {npos} \cup (e + 1)..Len(s) :
              /\ k = (IF c = <<>> THEN <<>> ELSE <<c>>) \o Kept(s, sep, d)
              /\ Kept(s, sep, d) \in Seq(Seq(S))
        BY <4>1, Zenon DEF k
      <4> DEFINE a == IF c = <<>> THEN <<>> ELSE <<c>>
                 b == Kept(s, sep, d)
      <4>3. a \in Seq(Seq(S)) /\ b \in Seq(Seq(S))
        BY <4>2
      <4> HIDE DEF a, b
      <4>4. a \o b \in Seq(Seq(S))
        BY <4>3
      <4> QED
        BY <4>2, <4>4 DEF a, b
    <3> HIDE DEF k
    <3> QED
      BY <3>1
  <2>4. Len(<<>>) <= e
    BY <1>2
  <2> QED
    BY <1>2, <1>4, <2>1, <2>2, <2>3, <2>4 DEF SkippedSoFar
<1> QED
  BY <1>2, <1>3, <1>4

(* Steps of arithmetic.                                                    *)
LEMMA Between ==
  ASSUME NEW e \in Nat, NEW n \in Nat, NEW d \in (e + 1)..n, NEW a \in d..(n - 1)
  PROVE  a \in (e + 1)..(n - 1)
OBVIOUS

LEMMA Further ==
  ASSUME NEW n \in Nat, NEW l \in Nat, NEW m, m = l + 1, NEW e \in 0..(n - 1), l <= e,
         NEW a, a = npos \/ a \in (e + 1)..(n - 1)
  PROVE  /\ m <= IF a = npos THEN n + 1 ELSE a
         /\ a \in {npos} \cup 0..(n - 1)
<1>1. CASE a = npos
  BY <1>1
<1>2. CASE a \in (e + 1)..(n - 1)
  <2>1. a # npos /\ a \in 0..(n - 1) /\ m <= a
    BY <1>2 DEF npos
  <2> QED
    BY <2>1
<1> QED
  BY <1>1, <1>2

(* It goes on behind the separators that follow.                           *)
LEMMA SkippedGoesOn ==
  ASSUME NEW S, NEW s \in Seq(S), NEW sep \in Seq(S), sep # <<>>, NEW ts \in Seq(Seq(S)),
         NEW e \in 0..Len(s), SkippedSoFar(s, sep, ts, e), NEW c, NEW d, CutAt(s, sep, e, c, d),
         NEW a, a = IF d = npos THEN npos ELSE After(s, sep, TRUE, d)
  PROVE  Append(ts, c) \in Seq(Seq(S)) /\ SkippedSoFar(s, sep, Append(ts, c), a)
<1> DEFINE W == Seq(S)
<1>1. /\ c \in W /\ Len(s) \in Nat /\ npos = -1 /\ e # npos
      /\ \/ d = npos /\ c = from(s, e) /\ Len(c) = Len(s) - e
         \/ d \in (e + 1)..Len(s) /\ (~OccursAt(s, sep, e) => c # <<>>)
  BY CutFacts DEF npos
<1>2. /\ e \in 0..(Len(s) - 1) /\ ~OccursAt(s, sep, e) /\ ~Blank(s, sep) /\ Len(ts) <= e
      /\ Kept(s, sep, 0) = ts \o Kept(s, sep, e)
  BY <1>1 DEF SkippedSoFar
<1>3. c # <<>>
  BY <1>1, <1>2
<1>4. Kept(s, sep, e) = <<c>> \o Kept(s, sep, d) /\ Kept(s, sep, d) \in Seq(W)
  BY <1>3, KeptOfCut
<1>5. /\ Kept(s, sep, a) = Kept(s, sep, d)
      /\ \/ a = npos
         \/ a \in (e + 1)..(Len(s) - 1) /\ ~OccursAt(s, sep, a)
  <2>1. CASE d = npos
    BY <2>1
  <2>2. CASE d # npos
    <3>1. d \in (e + 1)..Len(s) /\ d \in 0..Len(s) /\ a = After(s, sep, TRUE, d)
      BY <1>1, <2>2
    <3>2. Kept(s, sep, d) = Kept(s, sep, skip_separators(s, sep, d))
      BY <3>1, KeptPastSeparators
    <3> DEFINE skip == TRUE
    <3>3. skip \in BOOLEAN /\ skip /\ a = After(s, sep, skip, d)
      BY <3>1
    <3> HIDE DEF skip
    <3>4. \/ a = npos /\ skip_separators(s, sep, d) = Len(s)
          \/ /\ a = skip_separators(s, sep, d)
             /\ a \in d..(Len(s) - 1) /\ ~OccursAt(s, sep, a)
      BY <3>1, <3>3, AfterIs
    <3>5. Kept(s, sep, Len(s)) = Kept(s, sep, npos)
      BY KeptAtEnd, KeptAtNpos
    <3>6. CASE a = npos /\ skip_separators(s, sep, d) = Len(s)
      BY <3>2, <3>5, <3>6
    <3>7. CASE /\ a = skip_separators(s, sep, d)
               /\ a \in d..(Len(s) - 1) /\ ~OccursAt(s, sep, a)
      <4>1. a \in (e + 1)..(Len(s) - 1)
        <5> DEFINE n == Len(s)
        <5>1. d \in (e + 1)..n /\ n \in Nat /\ e \in Nat
          BY <1>1, <3>1
        <5>3. a \in d..(n - 1)
          BY <3>7
        <5> HIDE DEF n
        <5>2. a \in (e + 1)..(n - 1)
          BY <5>1, <5>3, Between
        <5> QED
          BY <5>2 DEF n
      <4> QED
        BY <3>2, <3>7, <4>1
    <3> QED
      BY <3>4, <3>6, <3>7
  <2> QED
    BY <2>1, <2>2
<1> DEFINE us == Append(ts, c)
           k == Kept(s, sep, d)
<1>6. /\ us \in Seq(W) /\ Len(us) = Len(ts) + 1 /\ Len(ts) \in Nat
      /\ ts \o (<<c>> \o k) = us \o k
  <2>1. ts \in Seq(W) /\ c \in W /\ k \in Seq(W)
    BY <1>1, <1>4
  <2> HIDE DEF W, k
  <2>2. us \in Seq(W) /\ Len(us) = Len(ts) + 1 /\ Len(ts) \in Nat
    BY <2>1
  <2>3. us = ts \o <<c>> /\ <<c>> \in Seq(W)
    BY <2>1
  <2> DEFINE o == <<c>>
  <2>4. o \in Seq(W)
    BY <2>3
  <2> HIDE DEF o
  <2>5. (ts \o o) \o k = ts \o (o \o k)
    BY <2>1, <2>4, CatOfThree
  <2> QED
    BY <2>2, <2>3, <2>5 DEF o
<1>7. Kept(s, sep, 0) = us \o Kept(s, sep, a)
  BY <1>2, <1>4, <1>5, <1>6
<1>8. /\ Len(us) <= IF a = npos THEN Len(s) + 1 ELSE a
      /\ a \in {npos} \cup 0..(Len(s) - 1)
  <2> DEFINE n == Len(s)
             l == Len(ts)
             m == Len(us)
  <2>1. /\ n \in Nat /\ l \in Nat /\ m = l + 1 /\ l <= e /\ e \in 0..(n - 1) /\ npos = -1
        /\ a = npos \/ a \in (e + 1)..(n - 1)
    BY <1>1, <1>2, <1>5, <1>6
  <2> HIDE DEF n, l, m
  <2>2. (m <= IF a = npos THEN n + 1 ELSE a) /\ a \in {npos} \cup 0..(n - 1)
    BY <2>1, Further
  <2> QED
    BY <2>2 DEF n, m
<1> HIDE DEF us
<1> QED
  BY <1>2, <1>5, <1>6, <1>7, <1>8 DEF SkippedSoFar, us

-----------------------------------------------------------------------------
(* A loop with an empty separator.                                         *)

CharsSoFar(s, ts, e) ==
  /\ e \in {npos} \cup 0..Len(s)
  /\ ts = [m \in 1..(IF e = npos THEN Len(s) + 1 ELSE e) |->
             IF m <= Len(s) THEN <<s[m]>> ELSE <<>>]

(* Every step takes one character, the last an empty token.                *)
LEMMA CharsGoOn ==
  ASSUME NEW S, NEW s \in Seq(S), NEW ts, NEW e \in 0..Len(s), CharsSoFar(s, ts, e)
  PROVE  /\ e = Len(s) => CharsSoFar(s, Append(ts, <<>>), npos) /\ Append(ts, <<>>) \in Seq(Seq(S))
         /\ e # Len(s) => /\ CharsSoFar(s, Append(ts, substr(s, e, 1)), e + 1)
                          /\ Append(ts, substr(s, e, 1)) \in Seq(Seq(S))
<1> DEFINE W == Seq(S)
           part(m) == IF m <= Len(s) THEN <<s[m]>> ELSE <<>>
<1>1. e # npos /\ Len(s) \in Nat
  BY DEF npos
<1>2. \A m \in Nat \ {0} : part(m) \in W
  OBVIOUS
<1>3. ts = [m \in 1..e |-> part(m)]
  BY <1>1 DEF CharsSoFar
<1>4. ts \in Seq(W) /\ Len(ts) = e /\ \A m \in 1..e : ts[m] = part(m)
  <2> HIDE DEF part, W
  <2>1. ts \in [1..e -> W]
    BY <1>2, <1>3
  <2>2. e \in Nat
    BY <1>1
  <2> QED
    BY <1>3, <2>1, <2>2
<1>5. ASSUME NEW c, c = part(e + 1)
      PROVE  Append(ts, c) \in Seq(W) /\ Append(ts, c) = [m \in 1..(e + 1) |-> part(m)]
  <2> DEFINE us == Append(ts, c)
  <2>1. c \in W
    BY <1>1, <1>2, <1>5
  <2> HIDE DEF W, part
  <2>2. us \in Seq(W) /\ Len(us) = e + 1 /\ us[e + 1] = c /\ \A m \in 1..e : us[m] = ts[m]
    BY <1>4, <2>1, AppendOf
  <2> HIDE DEF us
  <2>3. \A m \in 1..(e + 1) : us[m] = part(m)
    <3> SUFFICES ASSUME NEW m \in 1..(e + 1) PROVE us[m] = part(m)
      OBVIOUS
    <3>1. CASE m = e + 1
      BY <1>5, <2>2, <3>1
    <3>2. CASE m # e + 1
      <4>1. m \in 1..e
        BY <1>1, <3>2
      <4> QED
        BY <1>4, <2>2, <4>1
    <3> QED
      BY <3>1, <3>2
  <2>4. us = [m \in 1..(e + 1) |-> us[m]]
    BY <1>1, <2>2
  <2> QED
    BY <2>2, <2>3, <2>4 DEF us
<1>6. ASSUME e = Len(s)
      PROVE  CharsSoFar(s, Append(ts, <<>>), npos) /\ Append(ts, <<>>) \in Seq(W)
  <2>1. <<>> = part(e + 1)
    BY <1>1, <1>6
  <2>2. Append(ts, <<>>) \in Seq(W) /\ Append(ts, <<>>) = [m \in 1..(e + 1) |-> part(m)]
    BY <1>5, <2>1
  <2> QED
    BY <1>6, <2>2 DEF CharsSoFar
<1>7. ASSUME e # Len(s)
      PROVE  /\ CharsSoFar(s, Append(ts, substr(s, e, 1)), e + 1)
             /\ Append(ts, substr(s, e, 1)) \in Seq(W)
  <2> DEFINE c == substr(s, e, 1)
  <2>1. 1 \in 0..(Len(s) - e) /\ e + 1 <= Len(s) /\ e + 1 \in 1..Len(s)
    BY <1>1, <1>7
  <2>2. c \in Seq(S) /\ Len(c) = 1 /\ \A k \in 1..1 : c[k] = s[e + k]
    BY <2>1, SubstrIs
  <2> HIDE DEF c
  <2>3. c = <<s[e + 1]>>
    <3>1. c[1] = s[e + 1]
      BY <2>2
    <3> QED
      BY <2>2, <3>1
  <2>4. c = part(e + 1)
    BY <2>1, <2>3
  <2>5. Append(ts, c) \in Seq(W) /\ Append(ts, c) = [m \in 1..(e + 1) |-> part(m)]
    BY <1>5, <2>4
  <2>6. e + 1 \in 0..Len(s) /\ e + 1 # npos
    BY <2>1 DEF npos
  <2> QED
    BY <2>5, <2>6 DEF CharsSoFar, c
<1> QED
  BY <1>6, <1>7

-----------------------------------------------------------------------------
(* The loop's state and its steps.                                         *)

(* With an empty separator skip_separators never gets anywhere.            *)
LEMMA SkipForever ==
  ASSUME NEW S, NEW s \in Seq(S), NEW sep, sep = <<>>
  PROVE  skip_separators(s, sep, 0) = Forever
<1>1. Len(sep) = 0 /\ Len(s) \in Nat
  OBVIOUS
<1>2. OccursAt(s, sep, 0)
  <2>1. 0 \in 0..Len(s) /\ 0 \in 0..(Len(s) - 0)
    BY <1>1
  <2>2. substr(s, 0, 0) \in Seq(S) /\ Len(substr(s, 0, 0)) = 0
    BY <2>1, SubstrIs
  <2> QED
    BY <1>1, <2>2 DEF OccursAt
<1>3. \A k \in 0..Len(s) : 0 + k * Len(sep) = 0
  <2>1. \A k \in 0..Len(s) : k \in Nat
    BY <1>1
  <2>2. \A k \in Nat : 0 + k * 0 = 0
    OBVIOUS
  <2> QED
    BY <1>1, <2>1, <2>2
<1>4. {k \in 0..Len(s) : ~OccursAt(s, sep, 0 + k * Len(sep))} = {}
  BY <1>2, <1>3
<1> QED
  BY <1>4 DEF skip_separators

(* With an empty separator the next token is the next character.           *)
LEMMA NextCharIs ==
  ASSUME NEW S, NEW s \in Seq(S), NEW sep, sep = <<>>,
         NEW i \in IterType(S), i.live, i.end \in 0..Len(s),
         NEW r, r = incremented([str |-> s, sep |-> sep, skip_empty |-> FALSE], i)
  PROVE  /\ r \in IterType(S) /\ r.live
         /\ i.end = Len(s) => r.cur = <<>> /\ r.end = npos
         /\ i.end # Len(s) => r.cur = substr(s, i.end, 1) /\ r.end = i.end + 1
<1> DEFINE sp == [str |-> s, sep |-> sep, skip_empty |-> FALSE]
           e == i.end
<1>1. /\ sp.str = s /\ sp.sep = <<>> /\ sp.skip_empty = FALSE /\ r = incremented(sp, i)
  OBVIOUS
<1>2. e # npos /\ npos \in Int /\ e \in 0..Len(s) /\ Len(s) \in Nat /\ Len(<<>>) = 0
  BY DEF npos
<1> HIDE DEF sp
<1>3. CASE e = Len(s)
  <2> DEFINE x == <<>>
  <2>1. r = [i EXCEPT !.cur = x, !.end = npos]
    BY <1>1, <1>2, <1>3 DEF incremented
  <2>2. x \in Seq(S)
    OBVIOUS
  <2> HIDE DEF x
  <2>3. r \in IterType(S) /\ r.live /\ r.cur = x /\ r.end = npos
    BY <1>2, <2>1, <2>2 DEF IterType
  <2> QED
    BY <1>3, <2>3 DEF x
<1>4. CASE e # Len(s)
  <2> DEFINE t == e + 1
             x == substr(s, e, t - e)
  <2>1. t # npos /\ t + Len(<<>>) = t /\ t - e = 1 /\ t \in Int /\ 1 \in 0..(Len(s) - e)
    BY <1>2, <1>4 DEF npos
  <2> HIDE DEF t
  <2>2. r = [i EXCEPT !.cur = x, !.end = t]
    BY <1>1, <1>2, <1>4, <2>1 DEF incremented, t
  <2>3. x \in Seq(S)
    BY <1>2, <2>1, SubstrIs
  <2> HIDE DEF x
  <2>4. r \in IterType(S) /\ r.live /\ r.cur = x /\ r.end = t
    BY <2>1, <2>2, <2>3 DEF IterType
  <2> QED
    BY <1>4, <2>1, <2>4 DEF x, t
<1> QED
  BY <1>3, <1>4

(* What the loop has seen, from what it did to where it is.                *)
LoopSoFar(s, sep, skip, ts, e) ==
  IF sep = <<>> THEN IF skip THEN ts = <<>> /\ e = Forever ELSE CharsSoFar(s, ts, e)
  ELSE IF skip THEN SkippedSoFar(s, sep, ts, e) ELSE PlainSoFar(s, sep, ts, e)

(* The iterator stays within the string.                                   *)
LEMMA LoopSoFarIsWithin ==
  ASSUME NEW S, NEW s \in Seq(S), NEW sep, NEW skip \in BOOLEAN, sep # <<>> \/ ~skip,
         NEW ts, NEW e, LoopSoFar(s, sep, skip, ts, e)
  PROVE  e \in {npos} \cup 0..Len(s) /\ e # Forever
<1>1. e \in {npos} \cup 0..Len(s)
  <2> DEFINE n == Len(s)
  <2>1. n \in Nat
    OBVIOUS
  <2>2. e \in {npos} \cup 0..n \/ e \in {npos} \cup 0..(n - 1)
    <3> HIDE DEF n
    <3> QED
      BY DEF LoopSoFar, CharsSoFar, SkippedSoFar, PlainSoFar, n
  <2> HIDE DEF n
  <2>3. e \in {npos} \cup 0..n
    BY <2>1, <2>2
  <2> QED
    BY <2>3 DEF n
<1> QED
  BY <1>1 DEF npos, Forever

(* A step of any of the three kinds of loop.                               *)
LEMMA LoopSoFarGoesOn ==
  ASSUME NEW S, NEW s \in Seq(S), NEW sep \in Seq(S), NEW skip \in BOOLEAN, sep # <<>> \/ ~skip,
         NEW ts \in Seq(Seq(S)), NEW i \in IterType(S), i.live, i.end \in 0..Len(s),
         LoopSoFar(s, sep, skip, ts, i.end),
         NEW r, r = incremented([str |-> s, sep |-> sep, skip_empty |-> skip], i)
  PROVE  /\ r \in IterType(S) /\ r.live
         /\ Append(ts, r.cur) \in Seq(Seq(S))
         /\ LoopSoFar(s, sep, skip, Append(ts, r.cur), r.end)
<1> DEFINE e == i.end
<1>1. CASE sep = <<>>
  <2>1. skip = FALSE /\ CharsSoFar(s, ts, e)
    BY <1>1 DEF LoopSoFar
  <2>2. /\ r \in IterType(S) /\ r.live
        /\ e = Len(s) => r.cur = <<>> /\ r.end = npos
        /\ e # Len(s) => r.cur = substr(s, e, 1) /\ r.end = e + 1
    BY <1>1, <2>1, NextCharIs
  <2>3. /\ e = Len(s) => CharsSoFar(s, Append(ts, <<>>), npos) /\ Append(ts, <<>>) \in Seq(Seq(S))
        /\ e # Len(s) => /\ CharsSoFar(s, Append(ts, substr(s, e, 1)), e + 1)
                         /\ Append(ts, substr(s, e, 1)) \in Seq(Seq(S))
    <3>1. e \in 0..Len(s)
      OBVIOUS
    <3> HIDE DEF e
    <3> QED
      BY <2>1, <3>1, CharsGoOn
  <2> HIDE DEF e
  <2> QED
    BY <1>1, <2>1, <2>2, <2>3 DEF LoopSoFar
<1>2. CASE sep # <<>>
  <2>0. Cuts(s, sep, skip, e, r.cur, r.end)
    BY <1>2, IncrementedIs
  <2>1. PICK d : /\ CutAt(s, sep, e, r.cur, d)
                 /\ r.end = IF d = npos THEN npos ELSE After(s, sep, skip, d)
    BY <2>0 DEF Cuts
  <2>2. r \in IterType(S) /\ r.live
    BY <1>2, IncrementedIs
  <2> DEFINE c == r.cur
             a == r.end
  <2>3. e \in 0..Len(s) /\ CutAt(s, sep, e, c, d) /\ LoopSoFar(s, sep, skip, ts, e)
        /\ a = IF d = npos THEN npos ELSE After(s, sep, skip, d)
    BY <2>1
  <2> HIDE DEF e, c, a
  <2>4. CASE skip
    <3>1. SkippedSoFar(s, sep, ts, e)
      BY <1>2, <2>3, <2>4 DEF LoopSoFar
    <3>2. a = IF d = npos THEN npos ELSE After(s, sep, TRUE, d)
      BY <2>3, <2>4
    <3>3. Append(ts, c) \in Seq(Seq(S)) /\ SkippedSoFar(s, sep, Append(ts, c), a)
      BY <1>2, <2>3, <3>1, <3>2, SkippedGoesOn
    <3> QED
      BY <1>2, <2>2, <2>4, <3>3 DEF LoopSoFar, c, a
  <2>5. CASE ~skip
    <3>1. PlainSoFar(s, sep, ts, e)
      BY <1>2, <2>3, <2>5 DEF LoopSoFar
    <3>2. a = d
      BY <2>3, <2>5 DEF After
    <3>3. Append(ts, c) \in Seq(Seq(S)) /\ PlainSoFar(s, sep, Append(ts, c), d)
      BY <1>2, <2>3, <3>1, PlainGoesOn
    <3> QED
      BY <1>2, <2>2, <2>5, <3>2, <3>3 DEF LoopSoFar, c, a
  <2> QED
    BY <2>4, <2>5
<1> QED
  BY <1>1, <1>2

-----------------------------------------------------------------------------
(* begin() is one step of the loop from where the first token starts.      *)
LEMMA LoopBegins ==
  ASSUME NEW S, NEW s \in Seq(S), NEW sep \in Seq(S), NEW skip \in BOOLEAN,
         NEW r, r = begin([str |-> s, sep |-> sep, skip_empty |-> skip])
  PROVE  /\ r \in IterType(S) /\ r.live
         /\ r.end = Forever => LoopSoFar(s, sep, skip, <<>>, r.end)
         /\ r.end # Forever => /\ <<r.cur>> \in Seq(Seq(S))
                               /\ LoopSoFar(s, sep, skip, <<r.cur>>, r.end)
<1> DEFINE sp == [str |-> s, sep |-> sep, skip_empty |-> skip]
           l == leading(sp)
           i == iteratorAt(l)
<1>1. sp.str = s /\ sp.sep = sep /\ sp.skip_empty = skip /\ r = begin(sp)
  OBVIOUS
<1>2. l = IF skip THEN skip_separators(s, sep, 0) ELSE 0
  BY <1>1 DEF leading
<1>3. r = IF i.end = Forever THEN i ELSE incremented(sp, i)
  BY <1>1 DEF begin
<1>4. i.live /\ i.end = l /\ i.cur = <<>> /\ (l \in Int => i \in IterType(S))
  BY DEF iteratorAt, IterType
<1>5. 0 \in 0..Len(s) /\ Len(s) \in Nat
  OBVIOUS
<1> HIDE DEF l, i, sp
<1>6. CASE sep = <<>> /\ skip
  <2>1. l = Forever
    BY <1>2, <1>6, SkipForever
  <2>2. r = i /\ i \in IterType(S)
    BY <1>3, <1>4, <2>1 DEF Forever
  <2> QED
    BY <1>4, <1>6, <2>1, <2>2 DEF LoopSoFar
<1>7. CASE sep # <<>> \/ ~skip
  <2>1. l \in 0..Len(s)
    <3>1. CASE skip
      <4>1. PICK k \in Nat : /\ skip_separators(s, sep, 0) = 0 + k * Len(sep)
                             /\ 0 + k * Len(sep) \in 0..Len(s)
        BY <1>5, <1>7, <3>1, SkipFacts
      <4> QED
        BY <1>2, <3>1, <4>1
    <3>2. CASE ~skip
      BY <1>2, <1>5, <3>2
    <3> QED
      BY <3>1, <3>2
  <2>2. l # Forever /\ i \in IterType(S) /\ i.live /\ i.end \in 0..Len(s)
    BY <1>4, <2>1 DEF Forever
  <2>3. r = incremented([str |-> s, sep |-> sep, skip_empty |-> skip], i)
    BY <1>3, <1>4, <2>2 DEF sp
  <2>4. ASSUME LoopSoFar(s, sep, skip, <<>>, l)
        PROVE  /\ r \in IterType(S) /\ r.live
               /\ Append(<<>>, r.cur) \in Seq(Seq(S))
               /\ LoopSoFar(s, sep, skip, Append(<<>>, r.cur), r.end)
    <3> DEFINE ts == <<>>
    <3>1. ts \in Seq(Seq(S)) /\ LoopSoFar(s, sep, skip, ts, i.end)
      BY <1>4, <2>4
    <3> HIDE DEF ts
    <3>2. /\ r \in IterType(S) /\ r.live
          /\ Append(ts, r.cur) \in Seq(Seq(S))
          /\ LoopSoFar(s, sep, skip, Append(ts, r.cur), r.end)
      BY <1>7, <2>2, <2>3, <3>1, LoopSoFarGoesOn
    <3> QED
      BY <3>2 DEF ts
  <2>5. /\ r \in IterType(S) /\ r.live
        /\ Append(<<>>, r.cur) \in Seq(Seq(S))
        /\ LoopSoFar(s, sep, skip, Append(<<>>, r.cur), r.end)
    <3>1. CASE sep = <<>>
      <4>1. CharsSoFar(s, <<>>, 0) /\ l = 0 /\ ~skip
        BY <1>2, <1>5, <1>7, <3>1 DEF CharsSoFar, npos
      <4> QED
        BY <2>4, <3>1, <4>1 DEF LoopSoFar
    <3>2. CASE sep # <<>> /\ ~skip
      <4>1. PlainSoFar(s, sep, <<>>, 0) /\ l = 0
        BY <1>2, <3>2, PlainBegins
      <4> QED
        BY <2>4, <3>2, <4>1 DEF LoopSoFar
    <3>3. CASE sep # <<>> /\ skip
      <4>1. /\ Blank(s, sep) => \A c, d : CutAt(s, sep, l, c, d) =>
                                  SkippedSoFar(s, sep, Append(<<>>, c), npos) /\ d = npos
            /\ ~Blank(s, sep) => SkippedSoFar(s, sep, <<>>, l)
        <5>1. l = skip_separators(s, sep, 0)
          BY <1>2, <3>3
        <5> QED
          BY <3>3, <5>1, SkippedBegins
      <4>2. CASE ~Blank(s, sep)
        BY <2>4, <3>3, <4>1, <4>2 DEF LoopSoFar
      <4>3. CASE Blank(s, sep)
        <5>1. r \in IterType(S) /\ r.live /\ Cuts(s, sep, skip, i.end, r.cur, r.end)
          BY <2>2, <2>3, <3>3, IncrementedIs
        <5>2. PICK d : /\ CutAt(s, sep, l, r.cur, d)
                       /\ r.end = IF d = npos THEN npos ELSE After(s, sep, skip, d)
          BY <1>4, <5>1 DEF Cuts
        <5>3. SkippedSoFar(s, sep, Append(<<>>, r.cur), npos) /\ r.end = npos
          BY <4>1, <4>3, <5>2
        <5>4. r.cur \in Seq(S)
          BY <5>1 DEF IterType
        <5>5. Append(<<>>, r.cur) \in Seq(Seq(S))
          BY <5>4
        <5> QED
          BY <3>3, <5>1, <5>3, <5>5 DEF LoopSoFar
      <4> QED
        BY <4>2, <4>3
    <3> QED
      BY <1>7, <3>1, <3>2, <3>3
  <2>6. r.end # Forever
    BY <1>7, <2>5, LoopSoFarIsWithin
  <2>7. Append(<<>>, r.cur) = <<r.cur>>
    OBVIOUS
  <2> QED
    BY <2>5, <2>6, <2>7
<1> QED
  BY <1>6, <1>7

(* The inductive invariant: the iterator is where LoopSoFar says, and it only  *)
(* stops being live behind the last token.                                 *)
SplitIInv ==
  /\ split \in [str : Seq(Chars), sep : Seq(Chars), skip_empty : BOOLEAN]
  /\ it \in IterType(Chars) /\ tokens \in Seq(Seq(Chars))
  /\ \/ ~it.live /\ it.end = 0 /\ tokens = <<>>
     \/ /\ LoopSoFar(split.str, split.sep, split.skip_empty, tokens, it.end)
        /\ it.end # Forever => tokens # <<>>
        /\ it.live \/ it.end = npos

(* The strings that are split are sequences.                               *)
LEMMA SplitTypes ==
  ASSUME NEW sp \in SplitType
  PROVE  sp \in [str : Seq(Chars), sep : Seq(Chars), skip_empty : BOOLEAN]
<1>1. sp = [str |-> sp.str, sep |-> sp.sep, skip_empty |-> sp.skip_empty]
      /\ sp.str \in BoundedSeq(Chars, MaxLen) /\ sp.sep \in Seps /\ sp.skip_empty \in BOOLEAN
  BY DEF SplitType
<1>2. PICK m \in 0..MaxLen : sp.str \in [1..m -> Chars]
  BY <1>1 DEF BoundedSeq, SeqOf
<1>3. sp.str \in Seq(Chars)
  <2>1. m \in Nat
    BY <1>2
  <2> QED
    BY <1>2, <2>1
<1>4. sp.sep \in Seq(Chars)
  BY <1>1, SplitAssumption
<1> QED
  BY <1>1, <1>3, <1>4

(* The invariant holds before the loop, and is kept by its steps.          *)
LEMMA SplitStarts == SplitInit => SplitIInv
<1> SUFFICES ASSUME SplitInit PROVE SplitIInv
  OBVIOUS
<1>1. NoSplit \in [str : Seq(Chars), sep : Seq(Chars), skip_empty : BOOLEAN]
  BY DEF NoSplit
<1>2. EndIterator \in IterType(Chars) /\ ~EndIterator.live /\ EndIterator.end = 0
  BY DEF EndIterator, IterType
<1> QED
  BY <1>1, <1>2 DEF SplitInit, SplitIInv

LEMMA BeginKeeps ==
  ASSUME NEW sp \in SplitType, Begin(sp)
  PROVE  SplitIInv'
<1> DEFINE s == sp.str
           sep == sp.sep
           skip == sp.skip_empty
           r == begin(sp)
           ts == IF r.end = Forever THEN <<>> ELSE <<r.cur>>
<1>1. sp \in [str : Seq(Chars), sep : Seq(Chars), skip_empty : BOOLEAN]
  BY SplitTypes
<1>2. s \in Seq(Chars) /\ sep \in Seq(Chars) /\ skip \in BOOLEAN
      /\ sp = [str |-> s, sep |-> sep, skip_empty |-> skip]
  BY <1>1
<1>3. split' = sp /\ it' = r /\ tokens' = ts
  BY DEF Begin
<1> HIDE DEF s, sep, skip
<1>4. r = begin([str |-> s, sep |-> sep, skip_empty |-> skip])
  BY <1>2
<1> HIDE DEF r
<1>5. /\ r \in IterType(Chars) /\ r.live
      /\ r.end = Forever => LoopSoFar(s, sep, skip, <<>>, r.end)
      /\ r.end # Forever => /\ <<r.cur>> \in Seq(Seq(Chars))
                            /\ LoopSoFar(s, sep, skip, <<r.cur>>, r.end)
  BY <1>2, <1>4, LoopBegins
<1>6. ts \in Seq(Seq(Chars)) /\ LoopSoFar(s, sep, skip, ts, r.end) /\ (r.end # Forever => ts # <<>>)
  BY <1>5
<1> HIDE DEF ts
<1> QED
  BY <1>1, <1>3, <1>5, <1>6 DEF SplitIInv, s, sep, skip

LEMMA IncrementKeeps ==
  ASSUME SplitIInv, Increment
  PROVE  SplitIInv'
<1> DEFINE s == split.str
           sep == split.sep
           skip == split.skip_empty
           r == incremented(split, it)
<1>1. /\ split \in [str : Seq(Chars), sep : Seq(Chars), skip_empty : BOOLEAN]
      /\ it \in IterType(Chars) /\ tokens \in Seq(Seq(Chars))
      /\ it.live /\ it.end # Forever /\ tokens # <<>>
      /\ LoopSoFar(s, sep, skip, tokens, it.end)
  BY DEF SplitIInv, Increment
<1>2. s \in Seq(Chars) /\ sep \in Seq(Chars) /\ skip \in BOOLEAN
      /\ split = [str |-> s, sep |-> sep, skip_empty |-> skip]
  BY <1>1
<1>3. /\ split' = split /\ it' = r
      /\ tokens' = IF r.live /\ r.end # Forever THEN Append(tokens, r.cur) ELSE tokens
  BY DEF Increment
<1>4. sep # <<>> \/ ~skip
  BY <1>1 DEF LoopSoFar
<1>5. it.end \in {npos} \cup 0..Len(s)
  <2> DEFINE e == it.end
  <2>1. LoopSoFar(s, sep, skip, tokens, e)
    BY <1>1
  <2> HIDE DEF s, sep, skip, e
  <2> QED
    BY <1>2, <1>4, <2>1, LoopSoFarIsWithin DEF e
<1>6. CASE it.end = npos
  <2>1. r = [it EXCEPT !.live = FALSE]
    BY <1>1, <1>6 DEF incremented
  <2>2. r \in IterType(Chars) /\ r.live = FALSE /\ r.end = it.end
    BY <1>1, <2>1 DEF IterType
  <2> HIDE DEF r
  <2>3. tokens' = tokens
    BY <1>3, <2>2
  <2> QED
    BY <1>1, <1>3, <1>6, <2>2, <2>3 DEF SplitIInv
<1>7. CASE it.end \in 0..Len(s)
  <2> HIDE DEF s, sep, skip
  <2>1. r = incremented([str |-> s, sep |-> sep, skip_empty |-> skip], it)
    BY <1>2
  <2> HIDE DEF r
  <2>2. /\ r \in IterType(Chars) /\ r.live
        /\ Append(tokens, r.cur) \in Seq(Seq(Chars))
        /\ LoopSoFar(s, sep, skip, Append(tokens, r.cur), r.end)
    BY <1>1, <1>2, <1>4, <1>7, <2>1, LoopSoFarGoesOn
  <2> DEFINE us == Append(tokens, r.cur)
             a == r.end
  <2>3. us # <<>>
    <3> DEFINE W == Seq(Chars)
               c == r.cur
    <3>1. tokens \in Seq(W) /\ c \in W
      BY <1>1, <2>2 DEF IterType
    <3> HIDE DEF W, c
    <3>2. Len(Append(tokens, c)) = Len(tokens) + 1 /\ Len(tokens) \in Nat
      BY <3>1
    <3> QED
      BY <3>2 DEF c
  <2>4. a # Forever
    <3>1. LoopSoFar(s, sep, skip, us, a)
      BY <2>2
    <3> HIDE DEF us, a
    <3> QED
      BY <1>2, <1>4, <3>1, LoopSoFarIsWithin
  <2>5. tokens' = us
    BY <1>3, <2>2, <2>4
  <2> HIDE DEF us
  <2>6. it' \in IterType(Chars) /\ it'.live /\ it'.end = r.end
    BY <1>3, <2>2
  <2>7. us \in Seq(Seq(Chars)) /\ LoopSoFar(s, sep, skip, us, r.end)
    BY <2>2 DEF us
  <2> QED
    BY <1>1, <1>3, <2>3, <2>5, <2>6, <2>7 DEF SplitIInv, s, sep, skip
<1> QED
  BY <1>5, <1>6, <1>7

-----------------------------------------------------------------------------
(* The invariant gives each part of SplitSound.                            *)
LEMMA PlainIsSound ==
  ASSUME SplitIInv, split.sep # <<>>, ~split.skip_empty
  PROVE  /\ it.live =>
              split.str = join(split.sep,
                IF it.end = npos THEN tokens ELSE Append(tokens, remainder(split, it)))
         /\ Parted => /\ join(split.sep, tokens) = split.str
                      /\ \A n \in DOMAIN tokens : FirstAfter(n)
<1> DEFINE s == split.str
           sep == split.sep
<1>1. it.live \/ Parted =>
        PlainSoFar(s, sep, tokens, it.end) /\ (it.live \/ it.end = npos)
  BY DEF SplitIInv, LoopSoFar, Parted, Idle
<1>2. ASSUME it.live
      PROVE  s = join(sep, IF it.end = npos THEN tokens ELSE Append(tokens, remainder(split, it)))
  <2>1. s = join(sep, IF it.end = npos THEN tokens ELSE Append(tokens, from(s, it.end)))
    BY <1>1, <1>2 DEF PlainSoFar
  <2> QED
    BY <2>1 DEF remainder
<1>3. ASSUME Parted
      PROVE  join(sep, tokens) = s /\ \A n \in DOMAIN tokens : FirstAfter(n)
  <2>1. PlainSoFar(s, sep, tokens, it.end) /\ it.end = npos
    BY <1>1, <1>3 DEF Parted
  <2>2. s = join(sep, tokens)
    BY <2>1 DEF PlainSoFar
  <2>3. \A m \in 1..Len(tokens) :
          IF m = Len(tokens) THEN find(tokens[m], sep, 0) = npos
          ELSE find(tokens[m] \o sep, sep, 0) = Len(tokens[m])
    BY <2>1 DEF PlainSoFar
  <2>4. DOMAIN tokens = 1..Len(tokens)
    BY DEF SplitIInv
  <2> QED
    BY <2>2, <2>3, <2>4 DEF FirstAfter
<1> QED
  BY <1>2, <1>3

(* What a loop that skips has seen in the end.                             *)
LEMMA SkippedIsSound ==
  ASSUME SplitIInv, split.sep # <<>>, split.skip_empty, Parted
  PROVE  tokens = IF OnlySeparators THEN << <<>> >>
                  ELSE NonEmpty(Tokens(split.str, split.sep, FALSE))
<1> DEFINE s == split.str
           sep == split.sep
<1>1. /\ SkippedSoFar(s, sep, tokens, npos) /\ tokens \in Seq(Seq(Chars))
      /\ s \in Seq(Chars) /\ sep \in Seq(Chars) /\ sep # <<>>
  BY DEF SplitIInv, LoopSoFar, Parted, Idle
<1>2. Tokens(s, sep, FALSE) = PlainTokens(s, sep)[0]
  <2>1. leading(PlainSplit(s, sep)) = 0
    BY DEF leading, PlainSplit
  <2>2. Tokens(s, sep, FALSE) = TokensFrom(PlainSplit(s, sep))[leading(PlainSplit(s, sep))]
    BY DEF Tokens, PlainSplit
  <2> QED
    BY <2>1, <2>2 DEF PlainTokens
<1>3. NonEmpty(Tokens(s, sep, FALSE)) = Kept(s, sep, 0)
  BY <1>2 DEF Kept
<1>4. Kept(s, sep, npos) = <<>> /\ tokens \o <<>> = tokens
  <2>1. Kept(s, sep, npos) = <<>>
    BY <1>1, KeptAtNpos
  <2> DEFINE W == Seq(Chars)
  <2>2. tokens \in Seq(W)
    BY <1>1
  <2> HIDE DEF W
  <2>3. tokens \o <<>> = tokens
    BY <2>2
  <2> QED
    BY <2>1, <2>3
<1>5. tokens = IF Blank(s, sep) THEN << <<>> >> ELSE Kept(s, sep, 0)
  BY <1>1, <1>4 DEF SkippedSoFar
<1> QED
  BY <1>3, <1>5 DEF OnlySeparators, Blank

(* What a loop with an empty separator has seen in the end.                *)
LEMMA CharsAreSound ==
  ASSUME SplitIInv, split.sep = <<>>, Parted
  PROVE  tokens = [n \in 1..(Len(split.str) + 1) |->
                     IF n <= Len(split.str) THEN <<split.str[n]>> ELSE <<>>]
<1>1. it.end = npos /\ LoopSoFar(split.str, split.sep, split.skip_empty, tokens, it.end)
  BY DEF SplitIInv, Parted, Idle
<1>2. ~split.skip_empty
  BY <1>1 DEF LoopSoFar, npos, Forever, SplitIInv
<1>3. CharsSoFar(split.str, tokens, npos)
  BY <1>1, <1>2 DEF LoopSoFar
<1> QED
  BY <1>3 DEF CharsSoFar

(* How many tokens there are, and which loops do not end.                  *)
LEMMA FewTokens ==
  ASSUME SplitIInv
  PROVE  /\ Len(tokens) <= Len(split.str) + 1
         /\ it.end = Forever <=> it.live /\ split.sep = <<>> /\ split.skip_empty
<1> DEFINE s == split.str
           sep == split.sep
           skip == split.skip_empty
           n == Len(s)
           l == Len(tokens)
           e == it.end
<1>1. s \in Seq(Chars) /\ sep \in Seq(Chars) /\ skip \in BOOLEAN /\ n \in Nat
  BY DEF SplitIInv
<1>2. CASE ~it.live /\ it.end = 0 /\ tokens = <<>>
  <2>1. l = 0 /\ it.end # Forever
    BY <1>2 DEF Forever
  <2> QED
    BY <1>1, <1>2, <2>1
<1>3. CASE LoopSoFar(s, sep, skip, tokens, e) /\ (it.live \/ e = npos) /\ sep = <<>> /\ skip
  <2>1. l = 0 /\ e = Forever /\ e # npos
    BY <1>3 DEF LoopSoFar, Forever, npos
  <2> QED
    BY <1>1, <1>3, <2>1
<1>4. CASE LoopSoFar(s, sep, skip, tokens, e) /\ (sep # <<>> \/ ~skip)
  <2>1. e \in {npos} \cup 0..n /\ e # Forever
    <3> HIDE DEF s, sep, skip, e
    <3> QED
      BY <1>1, <1>4, LoopSoFarIsWithin DEF n
  <2>2. l <= IF e = npos THEN n + 1 ELSE e
    <3>1. CASE sep = <<>>
      <4> DEFINE k == IF e = npos THEN n + 1 ELSE e
                 g(m) == IF m <= n THEN <<s[m]>> ELSE <<>>
      <4>1. k \in Nat
        BY <1>1, <2>1
      <4>2. tokens = [m \in 1..k |-> g(m)]
        BY <1>4, <3>1 DEF LoopSoFar, CharsSoFar
      <4> HIDE DEF k, g
      <4>3. l = k
        BY <4>1, <4>2
      <4> QED
        BY <4>1, <4>3 DEF k
    <3>2. CASE sep # <<>> /\ skip
      BY <1>4, <3>2 DEF LoopSoFar, SkippedSoFar
    <3>3. CASE sep # <<>> /\ ~skip
      BY <1>4, <3>3 DEF LoopSoFar, PlainSoFar
    <3> QED
      BY <3>1, <3>2, <3>3
  <2>3. l \in Nat
    <3> DEFINE W == Seq(Chars)
    <3>1. tokens \in Seq(W)
      BY DEF SplitIInv
    <3> HIDE DEF W
    <3> QED
      BY <3>1
  <2>4. l <= n + 1
    <3> HIDE DEF n, l, e
    <3>1. n \in Nat /\ l \in Nat
      BY <1>1, <2>3
    <3> QED
      BY <2>1, <2>2, <3>1
  <2> QED
    BY <1>4, <2>1, <2>4
<1> QED
  BY <1>2, <1>3, <1>4 DEF SplitIInv

(* Splitting loses and invents nothing, whatever the characters, the       *)
(* separators and the length of the strings: the tokens and the separators *)
(* make up the string again, skip_empty leaves out the empty ones and only *)
(* those, and the loop's end is the string's.                              *)
THEOREM SplitIsSound == SplitSpec => []SplitSound
<1>1. SplitInit => SplitIInv
  BY SplitStarts
<1>2. SplitIInv /\ [SplitNext]_splitVars => SplitIInv'
  <2> SUFFICES ASSUME SplitIInv, [SplitNext]_splitVars PROVE SplitIInv'
    OBVIOUS
  <2>1. CASE Increment
    BY <2>1, IncrementKeeps
  <2>2. CASE Idle /\ \E sp \in SplitType : Begin(sp)
    <3>1. PICK sp \in SplitType : Begin(sp)
      BY <2>2
    <3> QED
      BY <3>1, BeginKeeps
  <2>3. CASE UNCHANGED splitVars
    BY <2>3 DEF splitVars, SplitIInv
  <2> QED
    BY <2>1, <2>2, <2>3 DEF SplitNext
<1>3. SplitIInv => SplitSound
  <2> SUFFICES ASSUME SplitIInv PROVE SplitSound
    OBVIOUS
  <2>1. split.sep # <<>> /\ ~split.skip_empty =>
          /\ it.live =>
               split.str = join(split.sep,
                 IF it.end = npos THEN tokens ELSE Append(tokens, remainder(split, it)))
          /\ Parted => /\ join(split.sep, tokens) = split.str
                       /\ \A n \in DOMAIN tokens : FirstAfter(n)
    BY PlainIsSound
  <2>2. split.sep # <<>> /\ split.skip_empty /\ Parted =>
          tokens = IF OnlySeparators THEN << <<>> >>
                   ELSE NonEmpty(Tokens(split.str, split.sep, FALSE))
    BY SkippedIsSound
  <2>3. split.sep = <<>> /\ Parted =>
          tokens = [n \in 1..(Len(split.str) + 1) |->
                      IF n <= Len(split.str) THEN <<split.str[n]>> ELSE <<>>]
    BY CharsAreSound
  <2>4. /\ Len(tokens) <= Len(split.str) + 1
        /\ it.end = Forever <=> it.live /\ split.sep = <<>> /\ split.skip_empty
    BY FewTokens
  <2> QED
    BY <2>1, <2>2, <2>3, <2>4 DEF SplitSound
<1> QED
  BY <1>1, <1>2, <1>3, PTL DEF SplitSpec
=============================================================================

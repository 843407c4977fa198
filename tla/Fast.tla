-------------------------------- MODULE Fast --------------------------------
(***************************************************************************)
(* ept::debtags::coll::Fast: an in-memory collection of tagged items that  *)
(* keeps the same relation twice, as a map from items to their tags and as *)
(* a map from tags to their items.  A std::map is a function whose domain  *)
(* is the set of keys present.                                             *)
(*                                                                         *)
(* Several operations dereference the result of a map's find() without     *)
(* comparing it with end().  When the key is missing that is undefined     *)
(* behaviour: the model sets undef and goes no further, since nothing can  *)
(* be said of what follows.                                                *)
(***************************************************************************)
EXTENDS Integers, FiniteSets

CONSTANTS Items,    \* names of items; std::string in the code
          Tags,     \* names of tags, ordered as std::map orders them
          Cards     \* the cardinalities callers ask to prune by

ASSUME TagsAssumption == Tags \subseteq Nat \ {0}
ASSUME CardsAssumption == Cards \subseteq Nat

VARIABLES items,    \* Fast::items, item -> tags
          tags,     \* Fast::tags, tag -> items
          undef     \* an end() iterator has been dereferenced

vars == <<items, tags, undef>>

NoTag == 0          \* the empty string findTagWithMaxCardinality starts from

(* Both maps of a collection. *)
coll == [items |-> items, tags |-> tags]

emptyMap == [k \in {} |-> {}]

emptyColl == [items |-> emptyMap, tags |-> emptyMap]

-----------------------------------------------------------------------------
(* Operations that build a collection.                                     *)

(* The entries of map m for the keys of K grow by the values of V; a key   *)
(* that is missing is created with V.                                      *)
AddTo(m, K, V) ==
  [k \in DOMAIN m \cup K |->
     (IF k \in DOMAIN m THEN m[k] ELSE {}) \cup (IF k \in K THEN V ELSE {})]

insertItem(c, item, T) ==
  IF T = {} THEN c
  ELSE [items |-> AddTo(c.items, {item}, T), tags |-> AddTo(c.tags, T, {item})]

(* Mutant: the items seen for the first time get no entry in the item map. *)
insertItemsTag_ItemNotCreated(c, I, tag) ==
  [items |-> AddTo(c.items, I \cap DOMAIN c.items, {tag}),
   tags  |-> AddTo(c.tags, {tag}, I)]

insertItemsTag(c, I, tag) ==
  [items |-> AddTo(c.items, I, {tag}), tags |-> AddTo(c.tags, {tag}, I)]

(* The loop over the items: with no item or no tag it does nothing. *)
insertItems(c, I, T) ==
  IF T = {} \/ I = {} THEN c
  ELSE [items |-> AddTo(c.items, I, T), tags |-> AddTo(c.tags, T, I)]

(* removeTag dereferences the entry of the tag, and the entry of each item *)
(* that tag's entry names.                                                 *)
removeTagDefined(c, tag) ==
  tag \in DOMAIN c.tags /\ c.tags[tag] \subseteq DOMAIN c.items

(* Mutant: the entry of the tag itself is not erased. *)
removeTag_KeepsTag(c, tag) ==
  LET left(i) == IF i \in c.tags[tag] THEN c.items[i] \ {tag} ELSE c.items[i]
  IN  [items |-> [i \in {j \in DOMAIN c.items :
                           j \in c.tags[tag] => left(j) # {}} |-> left(i)],
       tags  |-> c.tags]

(* An item whose last tag goes is erased. *)
removeTag(c, tag) ==
  LET left(i) == IF i \in c.tags[tag] THEN c.items[i] \ {tag} ELSE c.items[i]
  IN  [items |-> [i \in {j \in DOMAIN c.items :
                           j \in c.tags[tag] => left(j) # {}} |-> left(i)],
       tags  |-> [t \in DOMAIN c.tags \ {tag} |-> c.tags[t]]]

(* The tags removeTagsWithCardinalityLessThan passes to removeTag: removing *)
(* one does not change the itemset of another.                              *)
rareTags(c, card) == {t \in DOMAIN c.tags : Cardinality(c.tags[t]) < card}

(* Mutant: an item that loses several tags at once is never erased. *)
removeTags_KeepsUntagged(c, D) ==
  LET gone(i) == {t \in D : i \in c.tags[t]}
  IN  [items |-> [i \in DOMAIN c.items |-> c.items[i] \ gone(i)],
       tags  |-> [t \in DOMAIN c.tags \ D |-> c.tags[t]]]

(* The effect of those removals, one after the other. *)
removeTags(c, D) ==
  LET gone(i) == {t \in D : i \in c.tags[t]}
  IN  [items |-> [i \in {j \in DOMAIN c.items :
                           gone(j) # {} => c.items[j] \ gone(j) # {}} |->
                    c.items[i] \ gone(i)],
       tags  |-> [t \in DOMAIN c.tags \ D |-> c.tags[t]]]

(* getChildCollection before its final removeTag: a fresh collection with  *)
(* the items of the tag, inserted with all their tags.                     *)
childWithTag(c, tag) ==
  [items |-> [i \in {j \in c.tags[tag] : c.items[j] # {}} |-> c.items[i]],
   tags  |-> [t \in UNION {c.items[i] : i \in c.tags[tag]} |->
                {i \in c.tags[tag] : t \in c.items[i]}]]

childDefined(c, tag) ==
  /\ tag \in DOMAIN c.tags
  /\ c.tags[tag] \subseteq DOMAIN c.items
  /\ removeTagDefined(childWithTag(c, tag), tag)

getChildCollection(c, tag) == removeTag(childWithTag(c, tag), tag)

-----------------------------------------------------------------------------
(* Queries.                                                                *)

hasItem(item) == item \in DOMAIN items
hasTag(tag) == tag \in DOMAIN tags

getItemsHavingTag(tag) == IF hasTag(tag) THEN tags[tag] ELSE {}
getTagsOfItem(item) == IF hasItem(item) THEN items[item] ELSE {}

getItemsHavingTags(T) ==
  IF T = {} THEN {}
  ELSE {i \in UNION {getItemsHavingTag(t) : t \in T} :
          \A t \in T : i \in getItemsHavingTag(t)}

getTaggedItems == DOMAIN items
getAllTags == DOMAIN tags

(* set_contains(a, b) is b <= a. *)
getTagsImplying(tag) ==
  {t \in DOMAIN tags : getItemsHavingTag(t) \subseteq getItemsHavingTag(tag)} \ {tag}

(* Mutant: items with more tags than those asked for are kept. *)
getItemsExactMatch_NotExact(T) == getItemsHavingTags(T)

(* An item without an entry in items would be kept. *)
getItemsExactMatch(T) ==
  {i \in getItemsHavingTags(T) : ~(hasItem(i) /\ items[i] # T)}

(* The loop runs over the tags in increasing order and keeps the first of  *)
(* the largest; scan[S] is its state after the tags of S, last of S last.  *)
findTagWithMaxCardinality ==
  LET scan[S \in SUBSET DOMAIN tags] ==
        IF S = {} THEN [card |-> 0, res |-> NoTag]
        ELSE LET t == CHOOSE t \in S : \A u \in S : u <= t
                 before == scan[S \ {t}]
             IN  IF Cardinality(tags[t]) > before.card
                 THEN [card |-> Cardinality(tags[t]), res |-> t]
                 ELSE before
  IN  scan[DOMAIN tags]

-----------------------------------------------------------------------------
(* The state machine: one collection and the calls its owner makes.        *)

Init == items = emptyMap /\ tags = emptyMap /\ undef = FALSE

Become(c) == items' = c.items /\ tags' = c.tags /\ undef' = FALSE

Crash == undef' = TRUE /\ UNCHANGED <<items, tags>>

InsertItem(item, T) == ~undef /\ Become(insertItem(coll, item, T))

InsertItemsTag(I, tag) == ~undef /\ Become(insertItemsTag(coll, I, tag))

InsertItems(I, T) == ~undef /\ Become(insertItems(coll, I, T))

RemoveTag(tag) ==
  /\ ~undef
  /\ IF removeTagDefined(coll, tag) THEN Become(removeTag(coll, tag)) ELSE Crash

RemoveTagsWithCardinalityLessThan(card) ==
  /\ ~undef
  /\ IF \A t \in rareTags(coll, card) : removeTagDefined(coll, t)
     THEN Become(removeTags(coll, rareTags(coll, card)))
     ELSE Crash

(* The owner goes on with the child collection, as a browser of tags that  *)
(* narrows its selection does.                                             *)
Descend(tag) ==
  /\ ~undef
  /\ IF childDefined(coll, tag) THEN Become(getChildCollection(coll, tag)) ELSE Crash

Clear == ~undef /\ Become(emptyColl)

Next ==
  \/ \E item \in Items, T \in SUBSET Tags : InsertItem(item, T)
  \/ \E I \in SUBSET Items, tag \in Tags : InsertItemsTag(I, tag)
  \/ \E I \in SUBSET Items, T \in SUBSET Tags : InsertItems(I, T)
  \/ \E tag \in Tags : RemoveTag(tag)
  \/ \E card \in Cards : RemoveTagsWithCardinalityLessThan(card)
  \/ \E tag \in Tags : Descend(tag)
  \/ Clear

Spec == Init /\ [][Next]_vars

-----------------------------------------------------------------------------
(* Properties.                                                             *)

(* Each map takes keys of its own kind to sets of the other kind. *)
TypeOK ==
  /\ DOMAIN items \subseteq Items
  /\ DOMAIN tags \subseteq Tags
  /\ items = [i \in DOMAIN items |-> items[i]]
  /\ tags = [t \in DOMAIN tags |-> tags[t]]
  /\ \A i \in DOMAIN items : items[i] \subseteq Tags
  /\ \A t \in DOMAIN tags : tags[t] \subseteq Items
  /\ undef \in BOOLEAN

(* The two maps are converses of each other and no item without tags is    *)
(* kept: what every operation that updates both maps must re-establish.    *)
Consistent ==
  /\ \A i \in DOMAIN items : items[i] # {}
  /\ \A i \in DOMAIN items : items[i] \subseteq {t \in DOMAIN tags : i \in tags[t]}
  /\ \A t \in DOMAIN tags : tags[t] \subseteq {i \in DOMAIN items : t \in items[i]}

(* The queries that walk the tag map answer what the item map says: an     *)
(* intersection of itemsets is the items that carry all the tags, the      *)
(* exact match is exact (and finds no item for the empty tagset), and a    *)
(* tag implies another when every item that has the one has the other.     *)
QueriesAgree ==
  /\ \A t \in Tags : getItemsHavingTag(t) = {i \in Items : t \in getTagsOfItem(i)}
  /\ \A T \in (SUBSET Tags) \ {{}} :
       getItemsHavingTags(T) = {i \in Items : T \subseteq getTagsOfItem(i)}
  /\ \A T \in SUBSET Tags :
       getItemsExactMatch(T) = {i \in getTaggedItems : getTagsOfItem(i) = T}
  /\ \A t \in Tags, u \in Tags :
       u \in getTagsImplying(t) <=>
         /\ u # t
         /\ u \in getAllTags
         /\ \A i \in getTaggedItems : u \in getTagsOfItem(i) => t \in getTagsOfItem(i)

(* Pruning calls removeTag on one rare tag after the other, in order, each *)
(* call on what the previous one left: the loop computes removeTags, and   *)
(* no call of it meets a missing entry.                                    *)
PruneIsALoopOfRemovals ==
  \A card \in Cards :
    LET loop[S \in SUBSET rareTags(coll, card)] ==
          IF S = {} THEN coll
          ELSE LET t == CHOOSE t \in S : \A u \in S : u <= t
               IN  removeTag(loop[S \ {t}], t)
        callDefined(S) == LET t == CHOOSE t \in S : \A u \in S : u <= t
                          IN  removeTagDefined(loop[S \ {t}], t)
    IN  /\ loop[rareTags(coll, card)] = removeTags(coll, rareTags(coll, card))
        /\ \A S \in (SUBSET rareTags(coll, card)) \ {{}} : callDefined(S)

(* The search for the most popular tag returns the greatest cardinality,   *)
(* and the first tag in order that reaches it; no tag when no item is      *)
(* tagged, whatever tags are listed.                                       *)
MaxCardinalityFound ==
  LET found == findTagWithMaxCardinality
      carriers(t) == {i \in getTaggedItems : t \in getTagsOfItem(i)}
  IN  /\ \A t \in Tags : Cardinality(carriers(t)) <= found.card
      /\ IF getTaggedItems = {} THEN found = [card |-> 0, res |-> NoTag]
         ELSE /\ found.res \in Tags
              /\ Cardinality(carriers(found.res)) = found.card
              /\ \A t \in Tags : Cardinality(carriers(t)) = found.card => found.res <= t

(* What depends on how many items a tag has: pruning the rare tags and     *)
(* finding the most popular one.                                           *)
CardinalitiesAgree == PruneIsALoopOfRemovals /\ MaxCardinalityFound

(* A call whose argument the code does not check: removeTag of a tag that  *)
(* is not listed, getChildCollection of a tag no item carries.             *)
Misuse ==
  \E t \in Tags :
    \/ RemoveTag(t) /\ ~hasTag(t)
    \/ Descend(t) /\ getItemsHavingTag(t) = {}

(* An end() iterator is dereferenced by such a call only: the lookups      *)
(* across the two maps always succeed, and pruning never fails.            *)
OnlyMisuseIsUndefined == [][undef' /\ ~undef => Misuse]_vars

(* The two maps implement one relation: module TagRelation with the pairs  *)
(* read off the item map and the known tags off the tag map.               *)
relOf == {p \in Items \X Tags : p[1] \in DOMAIN items /\ p[2] \in items[p[1]]}

Relation == INSTANCE TagRelation WITH rel <- relOf, known <- DOMAIN tags

RelationSpec == Relation!Spec
=============================================================================

---------------------------- MODULE MCVocabulary ----------------------------
(* Vocabulary with two tags of one facet and a tag without a facet in its  *)
(* name.                                                                   *)
EXTENDS Vocabulary, TLC

const_facetOf == ("f::a" :> "f") @@ ("f::b" :> "f") @@ ("old" :> "legacy")

F(d) == ("Facet" :> "f") @@ ("Description" :> d)
T(t, d) == ("Tag" :> t) @@ ("Description" :> d)

(* Files that add, override, take a facet for granted, have a record with  *)
(* both names, one with neither, one with nothing but a name.              *)
const_Files == {
  <<F(<<"one", "more">>), T("f::a", <<"x">>)>>,
  <<T("f::a", <<"y", "more">>), T("old", <<"x">>)>>,
  <<("Facet" :> "f") @@ ("Tag" :> "f::b"), "Description" :> <<"z">>>>,
  <<"Facet" :> "g", F(<<"two">>), T("f::a", <<>>)>> }
=============================================================================

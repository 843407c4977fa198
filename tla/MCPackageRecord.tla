-------------------------- MODULE MCPackageRecord --------------------------
(* PackageRecord on records of up to MaxLines lines of all kinds, and on   *)
(* records whose field Tag holds a list of tags or something malformed.    *)
EXTENDS PackageRecord

CONSTANT MaxLines

(* 65 'A', 66 'B', 84 'T', 97 'a', 98 'b' *)
const_TagName == <<84>>
const_Names == {<<65>>, <<65, 66>>, <<84>>}

Lines ==
  { <<65, COLON, SP, 97, NL>>, <<65, 66, COLON, NL>>, <<84, COLON, 98, NL>>,
    <<SP, 97, NL>>, <<NL>>, <<66, NL>>, <<65>>, <<84, COLON, 97>> }

MCTags ==
  [prefix : {<<97>>, <<97, COLON>>}, parts : {<<>>, <<<<97>>>>, <<<<97>>, <<98, 98>>>>}]
const_TagLists == BoundedSeq(MCTags, 2)

Malformed ==
  { <<97, LBRACE>>, <<97, LBRACE, 98>>, <<97, LBRACE, RBRACE, COMMA, 98>>,
    <<97, LBRACE, 98, RBRACE, 97>>, <<97, LBRACE, 98, COMMA>>, <<RBRACE, LBRACE>>,
    <<COMMA, LBRACE, 97, RBRACE, LBRACE, 98, RBRACE>> }

TagTexts == {Written(l, s) : l \in const_TagLists, s \in Separators} \cup Malformed

const_Buffers ==
  {FlattenSeq(s) : s \in BoundedSeq(Lines, MaxLines)} \cup
  {<<65, COLON, NL, 84, COLON, SP>> \o t \o <<NL>> : t \in TagTexts}
=============================================================================

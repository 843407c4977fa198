--------------------------- MODULE MCDebDBParser ---------------------------
(* DebDBParser on every file of up to MaxChunks chunks, and on what        *)
(* Vocabulary::write prints: one record with a longer body, and a facet    *)
(* with two fields followed by a tag, as in m_facets.                      *)
EXTENDS DebDBParser

CONSTANTS MaxChunks,    \* bound on the length of a file, in chunks
          MaxOne,       \* bound on the length of a body on its own
          MaxTwo        \* bound on the lengths of two bodies in one record

Chunks == { <<"x", ":">>, <<"x">>, <<".">>, <<" ">>, <<":">>, <<"nl">>, <<"nl", " ">> }

const_Alnum == {"x", "y"}

const_Inputs == {FlattenSeq(s) : s \in BoundedSeq(Chunks, MaxChunks)}

Bodies(len) == BoundedSeq({"x", ".", " ", "nl"}, len)

const_Sources ==
  { << << <<<<"x">>, v>> >> >> : v \in Bodies(MaxOne) } \cup
  { << << <<<<"x">>, v>>, <<<<"y">>, w>> >>, << <<<<"x">>, <<"y">>>> >> >> :
      v \in Bodies(MaxTwo), w \in Bodies(MaxTwo) }
=============================================================================

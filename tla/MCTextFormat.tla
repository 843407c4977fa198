---------------------------- MODULE MCTextFormat ----------------------------
(* Debtags loading every file of up to MaxChunks chunks: chunks rather     *)
(* than characters, so that short sequences hold two complete lines.       *)
EXTENDS Debtags, SequencesExt

CONSTANT MaxChunks    \* bound on the length of a file, in chunks

Chunks ==
  { <<"a">>, <<" ">>, <<":">>, <<",">>, <<"nl">>,
    <<":", " ", "b">>, <<",", " ", "b">>, <<"a", ":", " ", "b", "nl">> }

const_Letters == {"a", "b"}

const_Inputs == {FlattenSeq(s) : s \in BoundedSeq(Chunks, MaxChunks)}
=============================================================================

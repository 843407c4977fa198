----------------------------- MODULE MCLibrary ------------------------------
(***************************************************************************)
(* The parts of the library that one thread uses by themselves: the tag    *)
(* collection and the set operators, the owners of descriptors and of      *)
(* mappings, whole files, and the functions on strings and pathnames.  A   *)
(* behaviour exercises one of them, which `part' names.                    *)
(*                                                                         *)
(* Three items and three tags are enough for an item to lose its last tag, *)
(* for two tags to tie, for a tag listed without items, and for a prune    *)
(* that removes several tags of one item.                                  *)
(***************************************************************************)
EXTENDS Fast, SetOps, Descriptors, Files, Paths, Text

VARIABLE part

const_Tags == 1..3
const_Cards == 0..3
const_Seps == {<<>>, <<"a">>, <<"a", "b">>, <<"a", "a">>}
const_Cwd == <<"/", "a", "/", "b">>
const_Program == <<"x">>

(* The objects of a type are interchangeable. *)
Symm == Permutations(Objs) \cup Permutations(Iters) \cup Permutations(Maps)

MCInit ==
  /\ part \in {"collection", "sets", "descriptors", "mappings", "files", "split", "paths", "text"}
  /\ Init /\ SetsInit /\ DescInit /\ FilesInit /\ SplitInit /\ PathInit /\ TextInit

MCvars == <<part, vars, setsVars, descVars, fileVars, splitVars, path, text>>

MCNext ==
  /\ UNCHANGED part
  /\ \/ /\ part = "collection" /\ Next
        /\ UNCHANGED <<setsVars, descVars, fileVars, splitVars, path, text>>
     \/ /\ part = "sets" /\ SetsNext
        /\ UNCHANGED <<vars, descVars, fileVars, splitVars, path, text>>
     \/ /\ part = "descriptors" /\ FdNext
        /\ UNCHANGED <<vars, setsVars, fileVars, splitVars, path, text>>
     \/ /\ part = "mappings" /\ MapNext
        /\ UNCHANGED <<vars, setsVars, fileVars, splitVars, path, text>>
     \/ /\ part = "files" /\ FilesNext
        /\ UNCHANGED <<vars, setsVars, descVars, splitVars, path, text>>
     \/ /\ part = "split" /\ SplitNext
        /\ UNCHANGED <<vars, setsVars, descVars, fileVars, path, text>>
     \/ /\ part = "paths" /\ PathNext
        /\ UNCHANGED <<vars, setsVars, descVars, fileVars, splitVars, text>>
     \/ /\ part = "text" /\ TextNext
        /\ UNCHANGED <<vars, setsVars, descVars, fileVars, splitVars, path>>

MCSpec == MCInit /\ [][MCNext]_MCvars
=============================================================================

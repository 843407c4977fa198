--------------------------- MODULE PackageRecord ---------------------------
(***************************************************************************)
(* ept::apt::PackageRecord, a RecordParser whose getters look a field up   *)
(* and interpret it.  tag() takes the field Tag apart with Tagparser: an   *)
(* automaton over the characters that finds the tags, and                  *)
(* expand_tag_braces for those written together, as in                     *)
(* "protocol::{ftp,http}".                                                 *)
(***************************************************************************)
EXTENDS RecordParser

CONSTANTS
  TagName,     \* "Tag"
  TagLists     \* lists of tags for the specification of what is written

COMMA == 44
LBRACE == 123
RBRACE == 125
NUL == 0
separator(ch) == ch \in {SP, NL, COMMA}

ASSUME TagNameAssumption == TagName \in Names

(* The getters look up the names of fields, which are on one line.         *)
ASSUME NamesOnOneLine == \A s \in Names : NL \notin ToSet(s)

(* A tag is written as a prefix and, in braces, parts that follow it.      *)
TagText == Seq(Nat \ {SP, NL, COMMA, LBRACE, RBRACE}) \ {<<>>}
ASSUME TagListsAssumption == TagLists \subseteq Seq([prefix : TagText, parts : Seq(TagText)])

VARIABLES
  parsing,      \* "no", "run", or "done": res is what tag() returned
  c,            \* offset of the iterator in the string parsed
  state, cur_tag, has_braces,   \* of the automaton
  res           \* the set it fills

automaton == <<state, cur_tag, has_braces>>
tagVars == <<parsing, c, automaton, res>>
vars == <<parserVars, tagVars>>

Init ==
  /\ InitParser
  /\ parsing = "no" /\ c = 0 /\ res = {}
  /\ state = "SEP" /\ cur_tag = <<>> /\ has_braces = FALSE

(* Calls of the base class; what tag() returned before is of the past. *)
Parser ==
  /\ parsing # "run" /\ ParserStep
  /\ parsing' = "no" /\ res' = {}
  /\ UNCHANGED <<c, automaton>>

(* lookup("Tag"), and *c, which is NUL at the end of the string. *)
text == lookup(found)
char(i) == IF i < Len(text) THEN text[i + 1] ELSE NUL

(* Mutant: the closing brace is taken for a part of the last tag. *)
expand_tag_braces_KeepsBrace(tag) ==
  LET open == Min({i \in DOMAIN tag : tag[i] = LBRACE})
      starts == {open} \cup {i \in (open + 1)..Len(tag) : tag[i] = COMMA}
      part(i) == SubSeq(tag, i + 1, Min({j \in starts : j > i} \cup {Len(tag) + 1}) - 1)
  IN  {SubSeq(tag, 1, open - 1) \o part(i) : i \in starts}

(* What stands before the brace with each of the parts in it.  The last    *)
(* part ends one character before the end of the tag.                      *)
expand_tag_braces(tag) ==
  LET open == Min({i \in DOMAIN tag : tag[i] = LBRACE})
      starts == {open} \cup {i \in (open + 1)..Len(tag) : tag[i] = COMMA}
      part(i) == SubSeq(tag, i + 1, Min({j \in starts : j > i} \cup {Len(tag)}) - 1)
  IN  {SubSeq(tag, 1, open - 1) \o part(i) : i \in starts}

have_tag ==
  /\ res' = res \cup (IF has_braces THEN expand_tag_braces(cur_tag) ELSE {cur_tag})
  /\ cur_tag' = <<>> /\ has_braces' = FALSE

(* parseTags: an empty field gives the default, the empty set. *)
ParseTags ==
  /\ pc = "ready" /\ found # Nothing /\ str = TagName /\ parsing = "no"
  /\ parsing' = IF text = <<>> THEN "done" ELSE "run"
  /\ UNCHANGED <<parserVars, c, automaton, res>>

(* A round of parse's loop in state s. *)
In(s) == parsing = "run" /\ c < Len(text) /\ state = s /\ UNCHANGED <<parserVars, parsing>>

Keep == cur_tag' = Append(cur_tag, char(c)) /\ c' = c + 1

Sep ==
  /\ In("SEP")
  /\ IF separator(char(c)) THEN c' = c + 1 /\ UNCHANGED state ELSE state' = "TAG" /\ UNCHANGED c
  /\ UNCHANGED <<cur_tag, has_braces, res>>

Tag ==
  /\ In("TAG")
  /\ IF separator(char(c)) THEN have_tag /\ c' = c + 1 /\ state' = "SEP"
     ELSE /\ Keep /\ UNCHANGED res
          /\ state' = IF char(c) = LBRACE THEN "BRACES" ELSE "TAG"
          /\ has_braces' = (has_braces \/ char(c) = LBRACE)

(* The character after the one kept is looked at, also at the end. *)
Braces ==
  /\ In("BRACES") /\ Keep
  /\ state' = IF char(c + 1) = RBRACE THEN "TAG" ELSE "BRACES"
  /\ UNCHANGED <<has_braces, res>>

ParseEnds ==
  /\ parsing = "run" /\ c >= Len(text) /\ parsing' = "done"
  /\ IF cur_tag # <<>> THEN have_tag ELSE UNCHANGED <<cur_tag, has_braces, res>>
  /\ c' = 0 /\ state' = "SEP"
  /\ UNCHANGED parserVars

-----------------------------------------------------------------------------
(* The getters that do without an automaton: str is what lookup returned,  *)
(* def the default of the caller.                                          *)

parseString(def, str_) == IF str_ = <<>> THEN def ELSE str_

firstNewline(str_) == Min({i \in DOMAIN str_ : str_[i] = NL} \cup {Len(str_) + 1})

parseShortDescription(def, str_) ==
  IF str_ = <<>> THEN def ELSE SubSeq(str_, 1, firstNewline(str_) - 1)

(* Without a newline the long description is the short one. *)
parseLongDescription(def, str_) ==
  IF str_ = <<>> THEN def
  ELSE IF firstNewline(str_) > Len(str_) THEN str_
  ELSE LET ink == {i \in (firstNewline(str_) + 1)..Len(str_) : ~isspace(str_[i])}
       IN  SubSeq(str_, Min(ink \cup {Len(str_) + 1}), Len(str_))

-----------------------------------------------------------------------------
Next == Parser \/ ParseTags \/ Sep \/ Tag \/ Braces \/ ParseEnds

Spec == Init /\ [][Next]_vars

-----------------------------------------------------------------------------
(* How a list of tags is written: each is a prefix and the parts of it     *)
(* that follow in braces, if any.                                          *)
Joined(seqs, sep) ==
  FlattenSeq([i \in DOMAIN seqs |-> IF i = 1 THEN seqs[i] ELSE sep \o seqs[i]])
WrittenTag(t) ==
  IF t.parts = <<>> THEN t.prefix
  ELSE t.prefix \o <<LBRACE>> \o Joined(t.parts, <<COMMA>>) \o <<RBRACE>>
Written(list, sep) == Joined([i \in DOMAIN list |-> WrittenTag(list[i])], sep)
Separators == {<<COMMA>>, <<COMMA, SP>>, <<SP>>, <<COMMA, NL, SP>>}

(* The tags a list stands for. *)
Denoted(list) ==
  UNION { IF list[i].parts = <<>> THEN {list[i].prefix}
          ELSE {list[i].prefix \o p : p \in ToSet(list[i].parts)} : i \in DOMAIN list }

(* The iterator of the automaton does not pass the end, where the loop's   *)
(* comparison with end() would miss it, whatever the field holds; and a    *)
(* tag with braces has the brace that expand_tag_braces looks for.         *)
AutomatonInBounds ==
  /\ parsing = "run" => c \in 0..Len(text) /\ text # <<>>
  /\ has_braces <=> LBRACE \in ToSet(cur_tag)

(* A description of several lines is its short description, a newline,     *)
(* blanks and its long description, of which neither is empty; one of one  *)
(* line is both.                                                           *)
DescriptionDivided(d) ==
  LET short == parseShortDescription(<<>>, d)
      long == parseLongDescription(<<>>, d)
      gap == SubSeq(d, Len(short) + 1, Len(d) - Len(long))
  IN  IF d = <<>> \/ NL \notin ToSet(d) THEN short = d /\ long = d
      ELSE /\ short # <<>> /\ NL \notin ToSet(short)
           /\ long # <<>> /\ ~isspace(long[1])
           /\ d = short \o gap \o long
           /\ Head(gap) = NL /\ \A i \in DOMAIN gap : isspace(gap[i])

(* The getters return what was written in the record, in fields found by   *)
(* their names and put together from their lines.  tag() gives the tags,   *)
(* however they are grouped, separated and broken into lines, and stays in *)
(* the field whatever it holds.  The short and the long description divide *)
(* the description, and the default is for a field that is missing or      *)
(* empty.                                                                  *)
GettersFaithful ==
  /\ AutomatonInBounds
  /\ parsing = "done" =>
       \A list \in TagLists, sep \in Separators : text = Written(list, sep) => res = Denoted(list)
  /\ found # Nothing =>
       /\ DescriptionDivided(text)
       /\ parseString(<<Nothing>>, text) = <<Nothing>> <=> text = <<>>
=============================================================================

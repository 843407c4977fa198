----------------------------- MODULE TextFormat -----------------------------
(***************************************************************************)
(* ept::debtags::coll::textformat: the reader of the tag database, one     *)
(* line per group of items, "item1, item2: tag1, tag2".  parseElement is a *)
(* character automaton, parse collects its elements into an itemset and a  *)
(* tagset and inserts them into a collection at the end of each line.  The *)
(* collection is the relation of module TagRelation, which coll::Fast      *)
(* implements.                                                             *)
(*                                                                         *)
(* A character is a letter, a blank, one of the separators ':' and ',', or *)
(* a newline; nothing else is told apart.  An element is the sequence of   *)
(* its characters, since the automaton is about which of them it keeps.    *)
(***************************************************************************)
EXTENDS Integers, Sequences

CONSTANTS Letters,   \* the characters that are neither blank nor separator
          Inputs     \* the contents a database file may have

Blank == " "
Seps == {":", ","}
Newline == "nl"
Chars == Letters \cup Seps \cup {Blank, Newline}
EOF == "eof"         \* what getc returns at the end
NoSep == "none"      \* the zero sepchar starts with

ASSUME LettersAssumption ==
  Letters \cap (Seps \cup {Blank, Newline, EOF, NoSep}) = {}
ASSUME InputsAssumption == Inputs \subseteq Seq(Chars)

VARIABLES
  file,      \* the file
  pos,       \* index of the character getc returns next
  lex,       \* the state of parseElement's automaton
  item, sep, sepchar,    \* its variables
  state,     \* ITEMS or TAGS, the state of parse
  itemset, tagset,
  rel, known,            \* the collection parse inserts into
  pc,        \* "run", or how parse ended: "done", "thrown"
  start      \* history: index of the first character of the current line

element == <<lex, item, sep, sepchar>>
line == <<state, itemset, tagset>>
vars == <<file, pos, element, line, rel, known, pc, start>>

Collection == INSTANCE TagRelation WITH
  Items <- Seq(Chars), Tags <- Seq(Chars), Cards <- {}

c == IF pos > Len(file) THEN EOF ELSE file[pos]

(* parseElement begins with an empty item. *)
NewElement == lex' = "LSPACE" /\ item' = <<>> /\ sep' = <<>> /\ sepchar' = NoSep

Init ==
  /\ file \in Inputs
  /\ pos = 1
  /\ lex = "LSPACE" /\ item = <<>> /\ sep = <<>> /\ sepchar = NoSep
  /\ state = "ITEMS" /\ itemset = {} /\ tagset = {}
  /\ Collection!Init
  /\ pc = "run"
  /\ start = 1

Throw == pc' = "thrown" /\ UNCHANGED <<file, pos, element, line, rel, known, start>>

-----------------------------------------------------------------------------
(* What parse does with the element and the trailing character r that      *)
(* parseElement returned.                                                  *)

newItems == IF state = "ITEMS" /\ item # <<>> THEN itemset \cup {item} ELSE itemset
newTags == IF state = "TAGS" /\ item # <<>> THEN tagset \cup {item} ELSE tagset

(* Mutant: the itemset of a line is kept for the next one. *)
EndLine_KeepsItems(r) ==
  IF newItems = {} /\ newTags # {} THEN Throw
  ELSE /\ Collection!Add(newItems, newTags)
       /\ itemset' = newItems /\ tagset' = {} /\ state' = "ITEMS"
       /\ pos' = pos + 1 /\ start' = pos + 1
       /\ pc' = IF r = EOF THEN "done" ELSE "run"
       /\ NewElement /\ UNCHANGED file

(* The end of a line or of the file: the line is inserted.  With neither   *)
(* items nor tags, or with no tags, Add changes nothing, as insert does.   *)
EndLine(r) ==
  IF newItems = {} /\ newTags # {} THEN Throw
  ELSE /\ Collection!Add(newItems, newTags)
       /\ itemset' = {} /\ tagset' = {} /\ state' = "ITEMS"
       /\ pos' = pos + 1 /\ start' = pos + 1
       /\ pc' = IF r = EOF THEN "done" ELSE "run"
       /\ NewElement /\ UNCHANGED file

(* A separator: pos stays, for the character after it was put back. *)
EndElement(r) ==
  IF r = ":" /\ state = "TAGS" THEN Throw
  ELSE /\ itemset' = newItems /\ tagset' = newTags
       /\ state' = IF r = ":" THEN "TAGS" ELSE state
       /\ NewElement
       /\ UNCHANGED <<file, pos, rel, known, pc, start>>

-----------------------------------------------------------------------------
(* parseElement, one getc at a time.                                       *)

(* The automaton goes on with the next character. *)
Goto(s, newItem, newSep, newSepchar) ==
  /\ lex' = s /\ item' = newItem /\ sep' = newSep /\ sepchar' = newSepchar
  /\ pos' = pos + 1
  /\ UNCHANGED <<file, line, rel, known, pc, start>>

AtNewline ==
  /\ pc = "run" /\ c = Newline
  /\ IF sepchar = "," THEN Throw ELSE EndLine(Newline)

AtEOF == pc = "run" /\ c = EOF /\ EndLine(EOF)

(* getc returns EOF on a read error, too; ferror tells them apart. *)
ReadError == pc = "run" /\ Throw

(* A character of the line, that is neither of the above, in state s. *)
In(s) == pc = "run" /\ lex = s /\ c \notin {Newline, EOF}

LSpace ==
  /\ In("LSPACE")
  /\ IF c = Blank THEN Goto("LSPACE", item, sep, sepchar)
     ELSE IF c \in Seps THEN Throw
     ELSE Goto("ITEM", Append(item, c), sep, sepchar)

Item ==
  /\ In("ITEM")
  /\ IF c = Blank THEN Goto("ISPACE", item, Append(sep, c), sepchar)
     ELSE IF c \in Seps THEN Goto("ISEP", item, Append(sep, c), c)
     ELSE Goto("ITEM", Append(item, c), sep, sepchar)

ISpace ==
  /\ In("ISPACE")
  /\ IF c = Blank THEN Goto("ISPACE", item, Append(sep, c), sepchar)
     ELSE IF c \in Seps THEN Goto("TSPACE", item, sep, c)
     ELSE Goto("ITEM", item \o sep \o <<c>>, <<>>, sepchar)

ISep ==
  /\ In("ISEP")
  /\ IF c = Blank THEN IF Len(sep) > 1 THEN Throw ELSE Goto("TSPACE", item, sep, sepchar)
     ELSE IF c \in Seps THEN Goto("ISEP", item, Append(sep, c), sepchar)
     ELSE Goto("ITEM", item \o sep \o <<c>>, <<>>, NoSep)

TSpace ==
  /\ In("TSPACE")
  /\ IF c = Blank THEN Goto("TSPACE", item, sep, sepchar) ELSE EndElement(sepchar)

Next == AtNewline \/ AtEOF \/ LSpace \/ Item \/ ISpace \/ ISep \/ TSpace \/ ReadError

Spec == Init /\ [][Next]_vars

-----------------------------------------------------------------------------
(* What a line means, said without the automaton.                          *)

IsBlank(l, p) == p \in DOMAIN l /\ l[p] = Blank
IsSep(l, p) == p \in DOMAIN l /\ l[p] \in Seps

(* A separator counts when a blank is next to it, or when only separators  *)
(* follow it; elsewhere it belongs to a name, as in "lang:c".              *)
Cut(l, p) ==
  /\ IsSep(l, p)
  /\ \/ IsBlank(l, p - 1) \/ IsBlank(l, p + 1)
     \/ \A q \in p .. Len(l) : IsSep(l, q)

Cuts(l) == {p \in DOMAIN l : Cut(l, p)} \cup {0, Len(l) + 1}

(* The stretches between neighbouring cuts, without the blanks around them. *)
Trim(s) ==
  LET solid == {p \in DOMAIN s : s[p] # Blank}
      first == CHOOSE p \in solid : \A q \in solid : p <= q
      last == CHOOSE p \in solid : \A q \in solid : q <= p
  IN  IF solid = {} THEN <<>> ELSE SubSeq(s, first, last)

Names(l, from, to) ==
  { Trim(SubSeq(l, p[1] + 1, p[2] - 1)) :
      p \in { q \in Cuts(l) \X Cuts(l) :
                /\ from <= q[1] /\ q[1] < q[2] /\ q[2] <= to
                /\ \A r \in Cuts(l) : ~(q[1] < r /\ r < q[2]) } } \ {<<>>}

(* The first counting ':' divides the items from the tags. *)
Meaning(l) ==
  LET colons == {p \in Cuts(l) \cap DOMAIN l : l[p] = ":"}
      div == IF colons = {} THEN Len(l) + 1
             ELSE CHOOSE p \in colons : \A q \in colons : p <= q
  IN  Names(l, 0, div) \X Names(l, div, Len(l) + 1)

(* The lines of f that begin before index n, the last without a newline. *)
LinesBefore(f, n) ==
  LET ends == {p \in DOMAIN f : f[p] = Newline} \cup {0, Len(f) + 1}
  IN  { SubSeq(f, p[1] + 1, p[2] - 1) :
          p \in { q \in ends \X ends :
                    /\ q[1] < q[2] /\ q[2] < n
                    /\ \A r \in ends : ~(q[1] < r /\ r < q[2]) } }

-----------------------------------------------------------------------------
(* Properties.                                                             *)

(* A separator is remembered only while it may still end the element. *)
AutomatonSound ==
  /\ sepchar # NoSep <=> lex \in {"ISEP", "TSPACE"}
  /\ item = <<>> <=> lex = "LSPACE"

(* The collection holds what the lines read so far mean, each on its own:  *)
(* no item, tag or state of one line reaches the next, and a line that     *)
(* throws adds nothing while the lines before it stay.  A tagset is never  *)
(* without an itemset, for the automaton rejects a line that begins with a *)
(* separator: "no elements before ':' separator" (TextFormat.cc:197) is    *)
(* never thrown.                                                           *)
LinesIndependent ==
  /\ rel = UNION {Meaning(l) : l \in LinesBefore(file, start)}
  /\ tagset # {} \/ (state = "TAGS" /\ item # <<>>) => itemset # {}
  /\ AutomatonSound
=============================================================================

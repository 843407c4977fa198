---------------------------- MODULE RecordParser ----------------------------
(***************************************************************************)
(* ept::apt::RecordParser: scan finds where the fields of a record end and *)
(* sorts their indices by field name, index finds a name by binary search, *)
(* lookup returns the trimmed content of a field.  The object is reused:   *)
(* it may scan one record after another and be asked any number of times.  *)
(*                                                                         *)
(* A character is its code, since names are compared by it.  Offsets and   *)
(* indices count from 0 as in the code.  SP stands for every blank but the *)
(* newline.                                                                *)
(***************************************************************************)
EXTENDS Integers, FiniteSetsExt, SequencesExt

CONSTANTS
  Buffers,     \* the strings that may be scanned
  Names        \* the names that may be looked up

NL == 10
SP == 32
COLON == 58
isspace(ch) == ch \in {NL, SP}

ASSUME BuffersAssumption == Buffers \subseteq Seq(Nat)
ASSUME NamesAssumption == Names \subseteq Seq(Nat)

VARIABLES
  buffer, ends, sorted,   \* the members
  pos,          \* scan: where it looks for the next newline
  str,          \* index: the name looked for
  begin, end,   \* index: the bounds of the binary search
  found,        \* index: what it returned, or Nothing
  pc            \* the call that runs: "scan", "sort", "search", or "ready"

members == <<buffer, ends, sorted>>
search == <<str, begin, end, found>>
parserVars == <<members, pos, search, pc>>

Nothing == -1

size == Len(ends)
at(i) == buffer[i + 1]

field(idx) ==
  IF idx >= size THEN <<>>
  ELSE SubSeq(buffer, (IF idx = 0 THEN 0 ELSE ends[idx]) + 1, ends[idx + 1])

(* The index of the first colon of a field, or one past its end. *)
colon(s) == Min({i \in DOMAIN s : s[i] = COLON} \cup {Len(s) + 1})

name(idx) == SubSeq(field(idx), 1, colon(field(idx)) - 1)

(* Without the spaces at either end. *)
trimmed(s) ==
  LET ink == {i \in DOMAIN s : ~isspace(s[i])} IN
  IF ink = {} THEN <<>> ELSE SubSeq(s, Min(ink), Max(ink))

(* A field without a colon is returned as it is. *)
lookup(idx) ==
  LET res == field(idx) IN
  IF colon(res) > Len(res) THEN res ELSE trimmed(SubSeq(res, colon(res) + 1, Len(res)))

(* The order of std::string, by which rpcompare orders names. *)
Less(a, b) ==
  \E k \in DOMAIN b :
    /\ k <= Len(a) + 1
    /\ \A i \in 1..(k - 1) : a[i] = b[i]
    /\ k <= Len(a) => a[k] < b[k]

-----------------------------------------------------------------------------
(* The results of a name s to be looked for before offset e are to come. *)
NewSearch(s, e) == str' = s /\ begin' = -1 /\ end' = e /\ found' = Nothing

(* The default constructor. *)
InitParser ==
  /\ buffer = <<>> /\ ends = <<>> /\ sorted = <<>>
  /\ pos = 0
  /\ str = <<>> /\ begin = -1 /\ end = 0 /\ found = Nothing
  /\ pc = "ready"

(* scan is called, and what index returned is of the past. *)
ScanCall(s) ==
  /\ pc = "ready" /\ pc' = "scan"
  /\ buffer' = s /\ ends' = <<>> /\ sorted' = <<>>
  /\ pos' = 0 /\ NewSearch(<<>>, 0)

(* pos < buffer.size() - 1 in size_t: on an empty buffer the right side    *)
(* wraps to the largest value.                                             *)
more == buffer = <<>> \/ pos < Len(buffer) - 1

(* The offset the loop moves to: after the next newline, or the end. *)
next == Min({i + 1 : i \in {j \in pos..(Len(buffer) - 1) : at(j) = NL}} \cup {Len(buffer)})

(* One round of scan's loop: it breaks at the end of the buffer or at an   *)
(* empty line, and passes over a newline before a continuation line.       *)
Scan ==
  /\ pc = "scan" /\ more
  /\ LET last == next = Len(buffer) \/ at(next) = NL IN
     /\ ends' = IF last \/ ~isspace(at(next)) THEN Append(ends, next) ELSE ends
     /\ pc' = IF last THEN "sort" ELSE "scan"
  /\ pos' = next
  /\ UNCHANGED <<buffer, sorted, search>>

ScanEnds ==
  /\ pc = "scan" /\ ~more
  /\ pc' = "sort"
  /\ UNCHANGED <<members, pos, search>>

(* The indices of the fields by name.  std::sort leaves fields of the same *)
(* name in any order.                                                      *)
Sort ==
  /\ pc = "sort"
  /\ \E s \in SetToSeqs(0..(size - 1)) :
       /\ \A i \in 1..(size - 1) : ~Less(name(s[i + 1]), name(s[i]))
       /\ sorted' = s
  /\ pos' = 0 /\ pc' = "ready"
  /\ UNCHANGED <<buffer, ends, search>>

-----------------------------------------------------------------------------
IndexCall(s) ==
  /\ pc = "ready" /\ pc' = "search"
  /\ NewSearch(s, size)
  /\ UNCHANGED <<members, pos>>

(* Mutant: the search goes on before a name that is equal. *)
Search_Strict ==
  /\ pc = "search" /\ end - begin > 1
  /\ LET cur == (end + begin) \div 2 IN
     IF Less(name(sorted[cur + 1]), str)
     THEN begin' = cur /\ UNCHANGED end
     ELSE end' = cur /\ UNCHANGED begin
  /\ UNCHANGED <<members, pos, str, found, pc>>

(* One round of index's loop. *)
Search ==
  /\ pc = "search" /\ end - begin > 1
  /\ LET cur == (end + begin) \div 2 IN
     IF Less(str, name(sorted[cur + 1]))
     THEN end' = cur /\ UNCHANGED begin
     ELSE begin' = cur /\ UNCHANGED end
  /\ UNCHANGED <<members, pos, str, found, pc>>

SearchEnds ==
  /\ pc = "search" /\ end - begin <= 1 /\ pc' = "ready"
  /\ found' = IF begin = -1 \/ name(sorted[begin + 1]) # str THEN size ELSE sorted[begin + 1]
  /\ begin' = -1 /\ end' = 0
  /\ UNCHANGED <<members, pos, str>>

ParserStep ==
  \/ \E s \in Buffers : ScanCall(s)
  \/ Scan \/ ScanEnds \/ Sort
  \/ \E s \in Names : IndexCall(s)
  \/ Search \/ SearchEnds

-----------------------------------------------------------------------------
(* What a record is, without the loop: it ends at the first empty line,    *)
(* and a field begins with each line that does not begin with a space.     *)
RecordEnd ==
  Min({Len(buffer)} \cup {i \in 1..(Len(buffer) - 1) : at(i - 1) = NL /\ at(i) = NL})
FieldStarts ==
  {i \in 0..(RecordEnd - 1) : i = 0 \/ (at(i - 1) = NL /\ ~isspace(at(i)))}
FieldAt(i) == SubSeq(buffer, i + 1, Min({j \in FieldStarts : j > i} \cup {RecordEnd}))
NameAt(i) == SubSeq(FieldAt(i), 1, colon(FieldAt(i)) - 1)

(* The field ends increase and lie in the buffer, so that the fields tile  *)
(* a part of it, and the search stays within the fields.                   *)
InBounds ==
  /\ pos \in 0..Len(buffer)
  /\ \A i \in DOMAIN ends : ends[i] \in 0..Len(buffer) /\ (i > 1 => ends[i - 1] < ends[i])
  /\ pc \in {"ready", "search"} => Len(sorted) = size /\ ToSet(sorted) = 0..(size - 1)
  /\ begin \in -1..(size - 1) /\ end \in 0..size /\ begin < end
  /\ found \in {Nothing} \cup 0..size

(* index finds a field that has the name if the record has one, and says   *)
(* so if it has none ("size() is returned if not found", recordparser.h:   *)
(* 59), whatever record was scanned before and however often names repeat; *)
(* a field is all of its lines.  The record must end with a newline: scan  *)
(* does not see a last line of one character without it.  No step reads    *)
(* outside the buffer or the fields.                                       *)
LookupFinds ==
  /\ InBounds
  /\ found # Nothing /\ Len(buffer) > 1 /\ Last(buffer) = NL =>
       LET having == {i \in FieldStarts : NameAt(i) = str} IN
       IF having = {} THEN found = size
       ELSE found < size /\ \E i \in having : field(found) = FieldAt(i)
=============================================================================

----------------------------- MODULE DebDBParser -----------------------------
(***************************************************************************)
(* The records of the debtags vocabulary on disk: how Vocabulary::write    *)
(* prints them and how DebDBParser reads them back.  nextRecord goes       *)
(* through a record by calls of four helpers that share the stream and the *)
(* flags isBOL and isEOF; each call is a step.                             *)
(*                                                                         *)
(* A character is alphanumeric (or '-'), a dot, a blank, a colon or a      *)
(* newline; nothing else is told apart.  A field body is the sequence of   *)
(* its characters, since escaping and unescaping are what is in question.  *)
(***************************************************************************)
EXTENDS Integers, Sequences, FiniteSets, SequencesExt

CONSTANTS Alnum,      \* the characters of field names
          Inputs,     \* contents a file not written by Vocabulary may have
          Sources,    \* vocabularies to write: sequences of records, a record
                      \* being the sequence of its <<name, body>> pairs
          MaxBody     \* the length up to which a field body is kept

Blank == " "
Dot == "."
Colon == ":"
Newline == "nl"
Chars == Alnum \cup {Blank, Dot, Colon, Newline}

ASSUME AlnumAssumption == Alnum \cap {Blank, Dot, Colon, Newline} = {}
ASSUME InputsAssumption == Inputs \subseteq Seq(Chars)
ASSUME MaxBodyAssumption == MaxBody \in Nat

(* A record is a set of fields, at least its name (m_facets and m_tags map *)
(* names to records, a record field names to bodies), and is kept whole.   *)
ASSUME SourcesAssumption ==
  \A voc \in Sources :
    /\ voc \in Seq(Seq(Seq(Alnum) \X Seq(Chars)) \ {<<>>})
    /\ \A i \in DOMAIN voc :
         /\ \A j \in DOMAIN voc[i] : Len(voc[i][j][2]) <= MaxBody
         /\ \A j, k \in DOMAIN voc[i] : voc[i][j][1] = voc[i][k][1] => j = k

VARIABLES
  source,      \* the vocabulary the file was written from, <<>> for none
  file, pos,   \* the stream
  isBOL, isEOF,
  n,           \* newlines eatSpacesAndEmptyLines met last
  field, body,
  rec,         \* the record being read, name -> body
  records,     \* the records nextRecord has returned
  pc           \* the helper to call next; "end", "thrown" (the
               \* file is malformed) and "failed" (it cannot be read) are final

stream == <<file, pos, isBOL, isEOF>>
vars == <<source, stream, n, field, body, rec, records, pc>>

-----------------------------------------------------------------------------
(* Writing.                                                                *)

(* Mutant: an empty line is written empty. *)
escaped_NoDot(v) ==
  FlattenSeq([i \in DOMAIN v |->
    IF i > 1 /\ v[i - 1] = Newline /\ v[i] # Blank /\ v[i] # Newline
    THEN <<Blank, v[i]>> ELSE <<v[i]>>])

(* After a newline, a second one is preceded by " ." and a character that  *)
(* is not blank by a blank.                                                *)
escaped(v) ==
  FlattenSeq([i \in DOMAIN v |->
    IF i > 1 /\ v[i - 1] = Newline
    THEN IF v[i] = Newline THEN <<Blank, Dot, v[i]>>
         ELSE IF v[i] # Blank THEN <<Blank, v[i]>> ELSE <<v[i]>>
    ELSE <<v[i]>>])

writeDebStyleField(f) == f[1] \o <<Colon, Blank>> \o escaped(f[2]) \o <<Newline>>

writeRecord(r) == FlattenSeq([i \in DOMAIN r |-> writeDebStyleField(r[i])]) \o <<Newline>>

write(voc) == FlattenSeq([i \in DOMAIN voc |-> writeRecord(voc[i])])

-----------------------------------------------------------------------------
(* The stream.                                                             *)

(* The first index from p on whose character is not in S; past the end of  *)
(* the file getc returns EOF.                                              *)
skip(p, S) ==
  CHOOSE q \in p .. Len(file) + 1 :
    /\ \A i \in p .. q - 1 : file[i] \in S
    /\ q = Len(file) + 1 \/ file[q] \notin S

AtEOF(p) == p > Len(file)

NoRecord == [f \in {} |-> <<>>]

Init ==
  /\ \/ source = <<>> /\ file \in Inputs
     \/ source \in Sources /\ file = write(source)
  /\ pos = 1 /\ isBOL = TRUE /\ isEOF = FALSE
  /\ n = 0 /\ field = <<>> /\ body = <<>>
  /\ rec = NoRecord /\ records = <<>>
  /\ pc = "construct"

Throw == pc' = "thrown" /\ UNCHANGED <<source, stream, n, field, body, rec, records>>

(* getc reports an error of the stream as EOF; ferror tells them apart. *)
ReadError ==
  /\ pc \in {"construct", "name", "sep", "body", "eat", "more"}
  /\ pc' = "failed"
  /\ UNCHANGED <<source, stream, n, field, body, rec, records>>

-----------------------------------------------------------------------------
(* The helpers.                                                            *)

eaten == skip(pos, {Blank, Newline})

eatSpacesAndEmptyLines ==
  /\ n' = Cardinality({i \in pos .. eaten - 1 : file[i] = Newline})
  /\ isBOL' = IF eaten > pos THEN file[eaten - 1] = Newline ELSE isBOL
  /\ isEOF' = (isEOF \/ AtEOF(eaten))
  /\ pos' = eaten

(* The constructor goes to the start of the first record. *)
Construct ==
  /\ pc = "construct"
  /\ eatSpacesAndEmptyLines
  /\ pc' = "next"
  /\ UNCHANGED <<source, file, field, body, rec, records>>

(* nextRecord is called until it returns false. *)
NextRecord ==
  /\ pc = "next"
  /\ IF isEOF THEN pc' = "end" /\ UNCHANGED rec ELSE pc' = "name" /\ rec' = NoRecord
  /\ UNCHANGED <<source, stream, n, field, body, records>>

GetFieldName ==
  LET e == skip(pos, Alnum)
  IN  /\ pc = "name"
      /\ IF ~isBOL \/ (AtEOF(e) /\ e > pos) THEN Throw
         ELSE /\ field' = SubSeq(file, pos, e - 1)
              /\ isEOF' = (isEOF \/ AtEOF(e))
              /\ pos' = e
              /\ pc' = "sep"
              /\ UNCHANGED <<source, file, isBOL, n, body, rec, records>>

EatFieldSep ==
  LET e == skip(pos, {Blank})
  IN  /\ pc = "sep"
      /\ IF AtEOF(e) \/ file[e] # Colon THEN Throw
         ELSE /\ pos' = e + 1
              /\ pc' = "body"
              /\ UNCHANGED <<source, file, isBOL, isEOF, n, field, body, rec, records>>

(* b without its trailing blanks, unless there is nothing else in it. *)
trimmed(b) ==
  LET solid == {i \in DOMAIN b : b[i] # Blank}
  IN  IF solid = {} THEN b ELSE SubSeq(b, 1, CHOOSE i \in solid : \A j \in solid : j <= i)

lineStart == skip(pos, {Blank})
lineEnd == skip(lineStart, Chars \ {Newline})

(* What appendFieldBody makes of b, and what it does to the stream. *)
appended(b) == trimmed(b \o SubSeq(file, lineStart, lineEnd - 1))

(* Mutant: the end of a body line does not begin a line. *)
appendFieldBody_NoBOL ==
  /\ pos' = IF AtEOF(lineEnd) THEN lineEnd ELSE lineEnd + 1
  /\ isEOF' = (isEOF \/ AtEOF(lineEnd))
  /\ UNCHANGED <<file, isBOL>>

appendFieldBody ==
  /\ pos' = IF AtEOF(lineEnd) THEN lineEnd ELSE lineEnd + 1
  /\ isEOF' = (isEOF \/ AtEOF(lineEnd))
  /\ isBOL' = (isBOL \/ ~AtEOF(lineEnd))
  /\ UNCHANGED file

FirstLine ==
  /\ pc = "body"
  /\ appendFieldBody
  /\ body' = appended(<<>>)
  /\ pc' = "eat"
  /\ UNCHANGED <<source, n, field, rec, records>>

(* The condition of the loop over the continuation lines. *)
EatSpaces ==
  /\ pc = "eat"
  /\ eatSpacesAndEmptyLines
  /\ pc' = IF n' = 0 /\ ~isBOL' THEN "more" ELSE "insert"
  /\ UNCHANGED <<source, file, field, body, rec, records>>

(* A dot alone on a line stands for an empty line. *)
undotted(b, size) ==
  IF Len(b) = size + 1 /\ b[Len(b)] = Dot THEN SubSeq(b, 1, size) ELSE b

(* A body that has reached MaxBody is not extended. *)
ContinuationLine ==
  /\ pc = "more"
  /\ appendFieldBody
  /\ body' = IF Len(body) >= MaxBody THEN body
             ELSE undotted(appended(Append(body, Newline)), Len(body) + 1)
  /\ pc' = "eat"
  /\ UNCHANGED <<source, n, field, rec, records>>

(* insert keeps the first of two fields with one name; an empty line or    *)
(* the end of the file ends the record.                                    *)
InsertField ==
  /\ pc = "insert"
  /\ rec' = [f \in DOMAIN rec \cup {field} |-> IF f \in DOMAIN rec THEN rec[f] ELSE body]
  /\ IF isEOF \/ n > 0
     THEN records' = Append(records, rec') /\ pc' = "next"
     ELSE UNCHANGED records /\ pc' = "name"
  /\ UNCHANGED <<source, stream, n, field, body>>

Parse ==
  \/ Construct \/ NextRecord \/ GetFieldName \/ EatFieldSep
  \/ FirstLine \/ EatSpaces \/ ContinuationLine \/ InsertField

Next == Parse \/ ReadError

(* The thread that parses is not stopped; no read error is due. *)
Fairness == WF_vars(Parse)

Spec == Init /\ [][Next]_vars /\ Fairness

-----------------------------------------------------------------------------
(* Properties.                                                             *)

Ended == pc \in {"end", "thrown", "failed"}

LineBounds(b) == {0, Len(b) + 1} \cup {i \in DOMAIN b : b[i] = Newline}
Lines(b) == {SubSeq(b, p[1] + 1, p[2] - 1) :
               p \in {q \in LineBounds(b) \X LineBounds(b) :
                        /\ q[1] < q[2]
                        /\ \A r \in LineBounds(b) : ~(q[1] < r /\ r < q[2])}}
LaterLines(b) ==
  LET nls == {i \in DOMAIN b : b[i] = Newline}
  IN  IF nls = {} THEN {}
      ELSE Lines(SubSeq(b, 1 + CHOOSE i \in nls : \A j \in nls : i <= j, Len(b)))

(* A body in the form the parser gives to it: no line begins or ends with  *)
(* a blank, and no line but the first is a lone dot.                       *)
Canonical(b) ==
  /\ \A l \in Lines(b) : l = <<>> \/ (l[1] # Blank /\ l[Len(l)] # Blank)
  /\ <<Dot>> \notin LaterLines(b)

(* Every body in a record nextRecord returns is canonical. *)
BodiesCanonical ==
  \A i \in DOMAIN records : \A f \in DOMAIN records[i] : Canonical(records[i][f])

asRecord(r) ==
  [f \in {r[i][1] : i \in DOMAIN r} |->
     r[CHOOSE i \in DOMAIN r : r[i][1] = f][2]]

(* A body the writer can print so that the parser reads it back: canonical *)
(* and without a newline at its end.                                       *)
Printable(b) == Canonical(b) /\ (b = <<>> \/ b[Len(b)] # Newline)

(* What Vocabulary::write prints of printable bodies, nextRecord reads     *)
(* back, record by record and field by field, whatever empty lines and     *)
(* dots the bodies hold: no record is split, and none is rejected.  Of any *)
(* other file too, what it reads are bodies in that same canonical form.   *)
RoundTrip ==
  /\ BodiesCanonical
  /\ pc \in {"end", "thrown"} /\ source # <<>>
     /\ (\A i \in DOMAIN source : \A j \in DOMAIN source[i] : Printable(source[i][j][2]))
       => records = [i \in DOMAIN source |-> asRecord(source[i])]

(* A file whose last line is complete is read to its end. *)
TerminatesOnCompleteLines ==
  (file = <<>> \/ file[Len(file)] = Newline) ~> Ended

(* nextRecord "Returns false when there are no more records available"     *)
(* (debdbparser.cc:145): the reader of any file comes to an end.           *)
Terminates == <>Ended
=============================================================================

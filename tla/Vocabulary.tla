----------------------------- MODULE Vocabulary -----------------------------
(***************************************************************************)
(* ept::debtags::Vocabulary: facets and their tags, each a map of fields   *)
(* and a cached short description, merged from files record by record and  *)
(* written back, while other processes replace the file on disk.           *)
(*                                                                         *)
(* A record is a map from field names to values as DebDBParser returns it. *)
(* The value of Facet and Tag is a name, that of any other field is the    *)
(* sequence of its lines.  How records are printed and parsed is module    *)
(* DebDBParser, how a file is replaced module Sys: here both are atomic.   *)
(***************************************************************************)
EXTENDS Integers, SequencesExt

CONSTANTS
  facetOf,     \* voc::getfacet: the facet of each tag
  Files,       \* the sequences of records other processes may put on disk
  MaxTime,     \* bound on the clock
  MaxLoads     \* bound on the calls of load

Tags == DOMAIN facetOf

(* Files hold sequences of records, descriptions sequences of lines.       *)
(* getfacet takes any tag name, so that facetOf has the tags of all        *)
(* records read as tags.                                                   *)
ASSUME FilesAssumption ==
  \A s \in Files :
    /\ s \in Seq({s[i] : i \in DOMAIN s})
    /\ \A i \in DOMAIN s :
         /\ "Tag" \in DOMAIN s[i] /\ "Facet" \notin DOMAIN s[i] => s[i]["Tag"] \in Tags
         /\ "Description" \in DOMAIN s[i] =>
              LET d == s[i]["Description"] IN d \in Seq({d[j] : j \in DOMAIN d})

ASSUME BoundsAssumption == MaxTime \in Nat \ {0} /\ MaxLoads \in Nat

Missing == [recs |-> <<>>, time |-> 0]     \* no file: timestamp gives 0

VARIABLES
  disk,         \* the file: its records and its mtime
  clock,
  m_facets, m_timestamp,    \* the vocabulary
  umask,        \* of the process: "caller" as it was, or "022"
  pc,           \* "idle", or inside load: "read", "stamp"
  stream,       \* load: the records of the open file not yet read
  loads,        \* calls of load so far
  log,          \* history: the records merged so far
  raced,        \* history: the file was replaced during a load
  newest,       \* history: the mtime of the last file there was
  blurred,      \* history: a file had the mtime of the one before it
  redescribed   \* history: descriptions merged after they had been cached

file == <<disk, clock>>
hist == <<log, raced, newest, blurred, redescribed>>
vars == <<file, m_facets, m_timestamp, umask, pc, stream, loads, hist>>

-----------------------------------------------------------------------------
(* Partial functions, as std::map is one.                                  *)

NoFields == [k \in {} |-> <<>>]

Put(m, k, v) == [x \in DOMAIN m \cup {k} |-> IF x = k THEN v ELSE m[x]]

newTag == [fields |-> NoFields, m_desc |-> <<>>]
newFacet == [fields |-> NoFields, m_desc |-> <<>>, m_tags |-> [t \in {} |-> newTag]]

obtainFacet(v, f) == IF f \in DOMAIN v THEN v ELSE Put(v, f, newFacet)

obtainTag(v, t) ==
  LET w == obtainFacet(v, facetOf[t])
      f == w[facetOf[t]]
  IN  IF t \in DOMAIN f.m_tags THEN w
      ELSE Put(w, facetOf[t], [f EXCEPT !.m_tags = Put(@, t, newTag)])

(* Mutant: a field that is there already is kept. *)
mergedFields_KeepsOld(fields, record, key) ==
  [k \in DOMAIN fields \cup (DOMAIN record \ {key}) |->
     IF k \in DOMAIN fields THEN fields[k] ELSE record[k]]

(* The fields of a record, except the one that names it, override. *)
mergedFields(fields, record, key) ==
  [k \in DOMAIN fields \cup (DOMAIN record \ {key}) |->
     IF k \in DOMAIN record \ {key} THEN record[k] ELSE fields[k]]

(* What read does with one record. *)
merged(v, record) ==
  IF "Facet" \in DOMAIN record THEN
    LET f == record["Facet"] IN
    [obtainFacet(v, f) EXCEPT ![f].fields = mergedFields(@, record, "Facet")]
  ELSE IF "Tag" \in DOMAIN record THEN
    LET t == record["Tag"] IN
    [obtainTag(v, t) EXCEPT ![facetOf[t]].m_tags[t].fields = mergedFields(@, record, "Tag")]
  ELSE v

-----------------------------------------------------------------------------
(* Queries and printing.                                                   *)

hasFacet(v, f) == f \in DOMAIN v
hasTag(v, t) == facetOf[t] \in DOMAIN v /\ t \in DOMAIN v[facetOf[t]].m_tags
tags(v) == UNION {DOMAIN v[f].m_tags : f \in DOMAIN v}

longDescription(d) ==
  IF "Description" \in DOMAIN d.fields THEN d.fields["Description"] ELSE <<>>

(* Mutant: the whole description is cached. *)
shortDescription_Whole(d) ==
  IF d.m_desc # <<>> \/ longDescription(d) = <<>> THEN d
  ELSE [d EXCEPT !.m_desc = longDescription(d)]

(* The data after shortDescription was asked for: its first line is cached *)
(* unless there is something in the cache.                                 *)
shortDescription(d) ==
  IF d.m_desc # <<>> \/ longDescription(d) = <<>> THEN d
  ELSE [d EXCEPT !.m_desc = <<Head(longDescription(d))>>]

(* Mutant: a facet without fields is not written. *)
printed_NoBareFacets(v) ==
  FlattenSeq(SetToSeq({
    (IF v[f].fields = NoFields THEN <<>> ELSE <<Put(v[f].fields, "Facet", f)>>)
    \o SetToSeq({Put(v[f].m_tags[t].fields, "Tag", t) : t \in DOMAIN v[f].m_tags})
    : f \in DOMAIN v}))

(* The records write prints: each facet, followed by its tags. *)
printed(v) ==
  FlattenSeq(SetToSeq({
    <<Put(v[f].fields, "Facet", f)>>
    \o SetToSeq({Put(v[f].m_tags[t].fields, "Tag", t) : t \in DOMAIN v[f].m_tags})
    : f \in DOMAIN v}))

-----------------------------------------------------------------------------
Init ==
  /\ disk \in {Missing} \cup {[recs |-> r, time |-> 1] : r \in Files}
  /\ clock = 1
  /\ m_facets = [f \in {} |-> newFacet]
  /\ m_timestamp = 0
  /\ umask = "caller"
  /\ pc = "idle"
  /\ stream = <<>>
  /\ loads = 0
  /\ log = <<>>
  /\ newest = disk.time
  /\ raced = FALSE /\ blurred = FALSE /\ redescribed = {}

(* The file becomes d. *)
Replaced(d) ==
  /\ disk' = d
  /\ raced' = (raced \/ pc # "idle")
  /\ newest' = IF d = Missing THEN newest ELSE d.time
  /\ blurred' = (blurred \/ d.time = newest)

(* External: another process replaces or removes the file; time passes. *)
Replace ==
  /\ \/ \E r \in Files : Replaced([recs |-> r, time |-> clock])
     \/ disk # Missing /\ Replaced(Missing)
  /\ UNCHANGED <<clock, m_facets, m_timestamp, umask, pc, stream, loads, log, redescribed>>

Tick ==
  /\ clock < MaxTime
  /\ clock' = clock + 1
  /\ UNCHANGED <<disk, m_facets, m_timestamp, umask, pc, stream, loads, hist>>

(* load finds and opens the file; without one it does nothing. *)
Load ==
  /\ pc = "idle" /\ disk # Missing /\ loads < MaxLoads
  /\ stream' = disk.recs
  /\ pc' = "read"
  /\ loads' = loads + 1
  /\ UNCHANGED <<file, m_facets, m_timestamp, umask, hist>>

(* What shortDescription has cached of the entity a record is about. *)
cachedFor(v, record) ==
  IF "Facet" \in DOMAIN record THEN
    IF hasFacet(v, record["Facet"]) THEN v[record["Facet"]].m_desc ELSE <<>>
  ELSE IF "Tag" \in DOMAIN record /\ hasTag(v, record["Tag"])
  THEN v[facetOf[record["Tag"]]].m_tags[record["Tag"]].m_desc ELSE <<>>

nameOf(record) == IF "Facet" \in DOMAIN record THEN record["Facet"] ELSE record["Tag"]

(* One round of read.  The cached description is left as it is. *)
Read ==
  /\ pc = "read" /\ stream # <<>>
  /\ m_facets' = merged(m_facets, Head(stream))
  /\ stream' = Tail(stream)
  /\ log' = Append(log, Head(stream))
  /\ redescribed' =
       IF "Description" \in DOMAIN Head(stream) /\ cachedFor(m_facets, Head(stream)) # <<>>
       THEN redescribed \cup {nameOf(Head(stream))} ELSE redescribed
  /\ UNCHANGED <<file, m_timestamp, umask, pc, loads, raced, newest, blurred>>

(* Mutant: the exception is swallowed. *)
ReadThrows_Swallowed ==
  /\ pc = "read"
  /\ pc' = "stamp" /\ stream' = <<>>
  /\ UNCHANGED <<file, m_facets, m_timestamp, umask, loads, hist>>

(* nextRecord throws: what has been merged stays, without a timestamp. *)
ReadThrows ==
  /\ pc = "read"
  /\ pc' = "idle" /\ stream' = <<>>
  /\ UNCHANGED <<file, m_facets, m_timestamp, umask, loads, hist>>

ReadEnds ==
  /\ pc = "read" /\ stream = <<>>
  /\ pc' = "stamp"
  /\ UNCHANGED <<file, m_facets, m_timestamp, umask, stream, loads, hist>>

(* The timestamp is that of the file now under the pathname. *)
Stamp ==
  /\ pc = "stamp"
  /\ m_timestamp' = disk.time
  /\ pc' = "idle"
  /\ UNCHANGED <<file, m_facets, umask, stream, loads, hist>>

(* Data::shortDescription of a facet or of a tag. *)
ShortDescription ==
  /\ pc = "idle"
  /\ \E f \in DOMAIN m_facets :
       \/ m_facets' = [m_facets EXCEPT ![f] = shortDescription(@)]
       \/ \E t \in DOMAIN m_facets[f].m_tags :
            m_facets' = [m_facets EXCEPT ![f].m_tags[t] = shortDescription(@)]
  /\ UNCHANGED <<file, m_timestamp, umask, pc, stream, loads, hist>>

(* write() under its umask. *)
Write ==
  /\ pc = "idle"
  /\ Replaced([recs |-> printed(m_facets), time |-> clock])
  /\ UNCHANGED <<clock, m_facets, m_timestamp, umask, pc, stream, loads, log, redescribed>>

(* It throws, and the umask is not set back. *)
WriteThrows ==
  /\ pc = "idle"
  /\ umask' = "022"
  /\ UNCHANGED <<file, m_facets, m_timestamp, pc, stream, loads, hist>>

Next ==
  \/ Replace \/ Tick
  \/ Load \/ Read \/ ReadThrows \/ ReadEnds \/ Stamp
  \/ ShortDescription \/ Write \/ WriteThrows

Spec == Init /\ [][Next]_vars

-----------------------------------------------------------------------------
(* What a vocabulary should hold after a sequence of records, field by     *)
(* field and without obtainFacet and obtainTag: the last record about an   *)
(* entity that has a field decides it.                                     *)
About(s, key, x) ==
  {i \in DOMAIN s : key \in DOMAIN s[i] /\ s[i][key] = x
                    /\ (key = "Tag" => "Facet" \notin DOMAIN s[i])}
LastValue(s, key, x) ==
  [k \in (UNION {DOMAIN s[i] : i \in About(s, key, x)}) \ {key} |->
     s[Max({i \in About(s, key, x) : k \in DOMAIN s[i]})][k]]

IsMergeOf(v, s) ==
  /\ \A f \in DOMAIN v : v[f].fields = LastValue(s, "Facet", f)
  /\ \A f \in DOMAIN v : \A t \in DOMAIN v[f].m_tags :
       v[f].m_tags[t].fields = LastValue(s, "Tag", t)
  /\ tags(v) = {t \in Tags : About(s, "Tag", t) # {}}
  /\ DOMAIN v = {s[i]["Facet"] : i \in {j \in DOMAIN s : "Facet" \in DOMAIN s[j]}}
                \cup {facetOf[t] : t \in tags(v)}

(* Through any number of loads, complete or broken off, the vocabulary is  *)
(* what the records merged so far mean one after the other.                *)
MergeIsOverride == IsMergeOf(m_facets, log)

(* Reading into an empty vocabulary what write prints gives the same data. *)
WriteLosesNothing == IsMergeOf(m_facets, printed(m_facets))

(* A timestamp equal to that of the file means that all of the file has    *)
(* been merged, unless the file was replaced during a load or within the   *)
(* second of its mtime.                                                    *)
StampMeansLoaded ==
  m_timestamp # 0 /\ m_timestamp = disk.time /\ ~raced /\ ~blurred =>
    \E i \in 0..Len(log) : IsPrefix(disk.recs, SubSeq(log, i + 1, Len(log)))

FirstLine(lines) == IF lines = <<>> THEN <<>> ELSE <<lines[1]>>

(* A cached description is the first line of one that was merged for the   *)
(* same entity, and of the one it has now unless that came after.          *)
CachedIsFirstLine ==
  \A f \in DOMAIN m_facets :
    /\ f \notin redescribed /\ m_facets[f].m_desc # <<>> =>
         m_facets[f].m_desc = FirstLine(longDescription(m_facets[f]))
    /\ \A t \in DOMAIN m_facets[f].m_tags :
         LET d == m_facets[f].m_tags[t] IN
         d.m_desc # <<>> =>
           /\ t \notin redescribed => d.m_desc = FirstLine(longDescription(d))
           /\ \E i \in About(log, "Tag", t) :
                "Description" \in DOMAIN log[i] /\ FirstLine(log[i]["Description"]) = d.m_desc
=============================================================================

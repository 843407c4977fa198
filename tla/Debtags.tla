------------------------------ MODULE Debtags -------------------------------
(***************************************************************************)
(* ept::debtags::Debtags, a tag collection that its constructor loads from *)
(* a file with textformat::parse (module TextFormat), while another        *)
(* process may replace or remove the file at any step.  The stream that is *)
(* read stays the one that was opened; the timestamp is read afterwards,   *)
(* by name.                                                                *)
(***************************************************************************)
EXTENDS TextFormat

CONSTANT MaxEditions    \* bound on how often the file is replaced

VARIABLES
  disk,         \* what has the pathname: an edition of the file and its mtime
  phase,        \* what the constructor does next, or how it ended
  in,           \* the edition that is open, 0 if none
  loaded,       \* history: the edition that was parsed
  m_timestamp,
  raced,        \* history: the file changed between open and the timestamp
  blurred       \* history: it was replaced without a new mtime

loadVars == <<phase, in, loaded, m_timestamp>>
debtagsVars == <<disk, loadVars, raced, blurred>>

Removed == [edition |-> 0, time |-> 0]

(* Debtags() looks whether there is a file; Debtags(pathname) does not. *)
InitDebtags ==
  /\ Init
  /\ disk \in {Removed, [edition |-> 1, time |-> 1]}
  /\ phase \in {"exists", "open"}
  /\ in = 0 /\ loaded = 0 /\ m_timestamp = 0
  /\ raced = FALSE /\ blurred = FALSE

Exists ==
  /\ phase = "exists"
  /\ phase' = IF disk = Removed THEN "done" ELSE "open"
  /\ UNCHANGED <<vars, disk, in, loaded, m_timestamp, raced, blurred>>

Fopen ==
  /\ phase = "open" /\ disk # Removed
  /\ phase' = "parse" /\ in' = disk.edition
  /\ UNCHANGED <<vars, disk, loaded, m_timestamp, raced, blurred>>

(* There is no file, or it may not be read. *)
FopenThrows ==
  /\ phase = "open" /\ phase' = "thrown"
  /\ UNCHANGED <<vars, disk, in, loaded, m_timestamp, raced, blurred>>

Parse == phase = "parse" /\ Next /\ UNCHANGED debtagsVars

ParseReturns ==
  /\ phase = "parse" /\ pc = "done"
  /\ phase' = "stamp" /\ in' = 0 /\ loaded' = in
  /\ UNCHANGED <<vars, disk, m_timestamp, raced, blurred>>

(* Mutant: the handler is missing. *)
ParseThrows_NoHandler ==
  /\ phase = "parse" /\ pc = "thrown"
  /\ phase' = "thrown"
  /\ UNCHANGED <<vars, disk, in, loaded, m_timestamp, raced, blurred>>

(* The file is closed, the exception goes on, and there is no object. *)
ParseThrows ==
  /\ phase = "parse" /\ pc = "thrown"
  /\ phase' = "thrown" /\ in' = 0
  /\ UNCHANGED <<vars, disk, loaded, m_timestamp, raced, blurred>>

(* sys::timestamp(pathname, 0) *)
Stamp ==
  /\ phase = "stamp" /\ phase' = "done"
  /\ m_timestamp' = disk.time
  /\ UNCHANGED <<vars, disk, in, loaded, raced, blurred>>

hasData == m_timestamp # 0

(* Another process replaces the file, within the same second or later, or  *)
(* removes it.                                                             *)
Replace ==
  /\ disk # Removed
  /\ \/ /\ disk.edition < MaxEditions
        /\ \E t \in {disk.time, disk.time + 1} :
             disk' = [edition |-> disk.edition + 1, time |-> t]
     \/ disk' = Removed
  /\ raced' = (raced \/ phase \in {"parse", "stamp"})
  /\ blurred' = (blurred \/ disk'.time = disk.time)
  /\ UNCHANGED <<vars, loadVars>>

NextDebtags ==
  \/ Exists \/ Fopen \/ FopenThrows \/ Parse \/ ParseReturns \/ ParseThrows \/ Stamp
  \/ Replace

SpecDebtags == InitDebtags /\ [][NextDebtags]_<<vars, debtagsVars>>

-----------------------------------------------------------------------------
(* An object holds all of the file it was loaded from, or nothing because  *)
(* there was none; its timestamp is that of the file at the pathname only  *)
(* if that is the file it holds, unless the file was replaced during the   *)
(* load, which gives old data the new timestamp, or within one second; it  *)
(* has data whenever it was loaded, unless the file was removed during the *)
(* load.  The file is closed however the load ends.                        *)
LoadedOrNothing ==
  /\ phase = "done" /\ loaded = 0 => rel = {} /\ ~hasData
  /\ phase = "done" /\ loaded # 0 =>
       /\ rel = UNION {Meaning(l) : l \in LinesBefore(file, Len(file) + 2)}
       /\ hasData \/ raced
  /\ hasData /\ m_timestamp = disk.time => loaded = disk.edition \/ raced \/ blurred
  /\ in # 0 <=> phase = "parse"
=============================================================================

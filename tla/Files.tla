------------------------------- MODULE Files --------------------------------
(***************************************************************************)
(* The functions of ept::sys on whole files, called one after the other by *)
(* one process: read_file, write_file, unlink_ifexists, unlink,            *)
(* rename_ifexists, and size and exists.  A file is its content.           *)
(* write_file opens without O_TRUNC: what it writes covers the beginning   *)
(* of what was there.                                                      *)
(***************************************************************************)
EXTENDS Integers, Sequences, SequencesExt

CONSTANTS
  FileNames,  \* names of files, in one directory
  Letters,    \* what contents are made of
  DataLen     \* bound on their length

ASSUME DataLenAssumption == DataLen \in Nat

VARIABLES
  content,    \* the content of each file, Missing if there is none
  meant,      \* history: what the calls that returned were to leave there
  spoilt      \* history: a write to it failed, or was shorter than the file

fileVars == <<content, meant, spoilt>>

Missing == <<"missing">>
Throws == <<"throws">>
Data == BoundedSeq(Letters, DataLen)

FilesInit ==
  /\ content = [n \in FileNames |-> Missing]
  /\ meant = [n \in FileNames |-> Missing]
  /\ spoilt = [n \in FileNames |-> FALSE]

old(n) == IF content[n] = Missing THEN <<>> ELSE content[n]

(* d over the beginning of s *)
over(d, s) == d \o SubSeq(s, Len(d) + 1, Len(s))

WriteFile(n, d) ==
  /\ content' = [content EXCEPT ![n] = over(d, old(n))]
  /\ meant' = [meant EXCEPT ![n] = d]
  /\ spoilt' = [spoilt EXCEPT ![n] = Len(old(n)) > Len(d)]

(* write fails after k characters, and write_file throws. *)
WriteFileThrows(n, d, k) ==
  /\ content' = [content EXCEPT ![n] = over(SubSeq(d, 1, k), old(n))]
  /\ spoilt' = [spoilt EXCEPT ![n] = TRUE]
  /\ UNCHANGED meant

(* unlink_ifexists: true if there was a file.  unlink would throw if not. *)
UnlinkIfExists(n) ==
  /\ content' = [content EXCEPT ![n] = Missing]
  /\ meant' = [meant EXCEPT ![n] = Missing]
  /\ spoilt' = [spoilt EXCEPT ![n] = FALSE]

(* Mutant: the file is copied. *)
RenameIfExists_Copies(src, dst) ==
  /\ content' = IF content[src] = Missing THEN content ELSE [content EXCEPT ![dst] = content[src]]
  /\ meant' = [meant EXCEPT ![src] = Missing,
                            ![dst] = IF content[src] = Missing THEN @ ELSE meant[src]]
  /\ spoilt' = [spoilt EXCEPT ![src] = FALSE,
                              ![dst] = IF content[src] = Missing THEN @ ELSE spoilt[src]]

(* rename_ifexists: false, and nothing done, if there is no src. *)
RenameIfExists(src, dst) ==
  /\ src # dst
  /\ IF content[src] = Missing THEN UNCHANGED fileVars
     ELSE /\ content' = [content EXCEPT ![dst] = content[src], ![src] = Missing]
          /\ meant' = [meant EXCEPT ![dst] = meant[src], ![src] = Missing]
          /\ spoilt' = [spoilt EXCEPT ![dst] = spoilt[src], ![src] = FALSE]

(* read_file maps the file to read it, and mmap refuses an empty one. *)
read_file(n) == IF content[n] \in {Missing, <<>>} THEN Throws ELSE content[n]

exists(n) == content[n] # Missing
size(n, def) == IF exists(n) THEN Len(content[n]) ELSE def

FilesNext ==
  \/ \E n \in FileNames : UnlinkIfExists(n) \/ \E d \in Data : WriteFile(n, d)
  \/ \E n \in FileNames, d \in Data : \E k \in 0..Len(d) : WriteFileThrows(n, d, k)
  \/ \E n, m \in FileNames : RenameIfExists(n, m)

FilesSpec == FilesInit /\ [][FilesNext]_fileVars

-----------------------------------------------------------------------------
(* Through writes, removals and renames in any order, a file that was not  *)
(* spoilt (by a failed write, or by a write of less than was in it, which  *)
(* leaves the rest) is as the last call meant it, and reads back so; but   *)
(* a file that was written empty cannot be read.                           *)
ReadsLastWrite ==
  \A n \in FileNames : ~spoilt[n] =>
    /\ content[n] = meant[n]
    /\ read_file(n) = IF meant[n] \in {Missing, <<>>} THEN Throws ELSE meant[n]
    /\ size(n, -1) = IF meant[n] = Missing THEN -1 ELSE Len(meant[n])
=============================================================================

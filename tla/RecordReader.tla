---------------------------- MODULE RecordReader ----------------------------
(***************************************************************************)
(* RecordIteratorImpl::record(): one open list file, shared by all copies  *)
(* of a record iterator, that is reopened when a record lies in another    *)
(* file and sought only when the record does not start near where the      *)
(* previous read ended.                                                    *)
(*                                                                         *)
(* The bytes a read returns are given by the file they come from and their *)
(* offset in it.  FileFd and PkgFileIterator belong to libapt-pkg and are  *)
(* modelled from how record() uses them.                                   *)
(***************************************************************************)
EXTENDS Integers, Sequences

CONSTANTS Files,       \* the package list files of the cache
          fileLen,     \* the length of each
          vflist,      \* the records: file, Offset and Size, in locality order
          Garbage      \* values the uninitialised lastOffset may hold

None == "none"         \* no file

ASSUME FilesAssumption == None \notin Files
ASSUME FileLenAssumption == fileLen \in [Files -> Nat]
ASSUME VflistAssumption == vflist \in Seq([file : Files, off : Nat, size : Nat])
ASSUME GarbageAssumption == Garbage \subseteq Nat

VARIABLES
  lastFile,    \* the list file of the last record asked for
  open,        \* the file the descriptor is open on
  filePos,     \* the position of the descriptor
  lastOffset,  \* where the last read is believed to have ended
  asked,       \* index of the last record asked for
  result,      \* what record() returned; its file is None when it threw
  threw        \* history: some call has thrown

readerVars == <<lastFile, open, filePos, lastOffset, asked, result, threw>>

thrown == [file |-> None, off |-> 0, size |-> 0]

ReaderInit ==
  /\ lastFile = None
  /\ open = None
  /\ filePos = 0
  /\ lastOffset \in Garbage
  /\ asked = 0
  /\ result = thrown
  /\ threw = FALSE

(* A default-constructed PkgFileIterator has no cache. *)
needsOpen(idx) == lastFile = None \/ vflist[idx].file # lastFile

(* The state of the file once the right one is open. *)
posFor(idx) == IF needsOpen(idx) THEN 0 ELSE filePos
lastOffsetFor(idx) == IF needsOpen(idx) THEN 0 ELSE lastOffset
openFor(idx) == IF needsOpen(idx) THEN vflist[idx].file ELSE open

(* slack is a size_t: a record before the last offset wraps around to a    *)
(* large value and is sought, as one more than 8 bytes ahead is.           *)
MaxSlack == 8
slackTo(idx) == vflist[idx].off - lastOffsetFor(idx)
seeks(idx) == slackTo(idx) \notin 0..MaxSlack

slack(idx) == IF seeks(idx) THEN 0 ELSE slackTo(idx)

(* Mutant: the read always goes on from the current position. *)
start_NoSeek(idx) == posFor(idx)

(* Where the read starts. *)
start(idx) == IF seeks(idx) THEN vflist[idx].off ELSE posFor(idx)

Throw(idx) ==
  /\ asked' = idx
  /\ result' = thrown
  /\ threw' = TRUE

(* lastFile is assigned before the file is known to be usable. *)
NotOk(idx) ==
  /\ needsOpen(idx)
  /\ lastFile' = vflist[idx].file
  /\ Throw(idx)
  /\ UNCHANGED <<open, filePos, lastOffset>>

OpenFails(idx) ==
  /\ needsOpen(idx)
  /\ lastFile' = vflist[idx].file
  /\ open' = None
  /\ Throw(idx)
  /\ UNCHANGED <<filePos, lastOffset>>

(* The common part of the calls that get past opening. *)
Opened(idx) ==
  /\ lastFile' = vflist[idx].file
  /\ open' = openFor(idx)

SeekFails(idx) ==
  /\ seeks(idx)
  /\ Opened(idx)
  /\ filePos' = posFor(idx)
  /\ lastOffset' = lastOffsetFor(idx)
  /\ Throw(idx)

(* Where the read ends. *)
end(idx) == start(idx) + slack(idx) + vflist[idx].size

(* A read that fails may have consumed part of what was asked for, up to   *)
(* the end of the file.                                                    *)
ReadFails(idx) ==
  /\ Opened(idx)
  /\ IF openFor(idx) = None
     THEN filePos' = posFor(idx)
     ELSE filePos' \in {start(idx)} \cup {p \in start(idx) .. end(idx) : p <= fileLen[openFor(idx)]}
  /\ lastOffset' = lastOffsetFor(idx)
  /\ Throw(idx)

(* Mutant: the size of the record is forgotten in the new last offset. *)
ReadOk_LastOffsetAtStart(idx) ==
  /\ Opened(idx)
  /\ openFor(idx) # None
  /\ end(idx) <= fileLen[openFor(idx)]
  /\ filePos' = end(idx)
  /\ lastOffset' = vflist[idx].off
  /\ asked' = idx
  /\ result' = [file |-> openFor(idx), off |-> start(idx) + slack(idx), size |-> vflist[idx].size]
  /\ UNCHANGED threw

(* A read that would pass the end of the file does not succeed. *)
ReadOk(idx) ==
  /\ Opened(idx)
  /\ openFor(idx) # None
  /\ end(idx) <= fileLen[openFor(idx)]
  /\ filePos' = end(idx)
  /\ lastOffset' = vflist[idx].off + vflist[idx].size
  /\ asked' = idx
  /\ result' = [file |-> openFor(idx), off |-> start(idx) + slack(idx), size |-> vflist[idx].size]
  /\ UNCHANGED threw

ReaderNext ==
  \E idx \in DOMAIN vflist :
    NotOk(idx) \/ OpenFails(idx) \/ SeekFails(idx) \/ ReadFails(idx) \/ ReadOk(idx)

ReaderSpec == ReaderInit /\ [][ReaderNext]_readerVars

-----------------------------------------------------------------------------
(* Properties.                                                             *)

TypeOK ==
  /\ lastFile \in Files \cup {None}
  /\ open \in Files \cup {None}
  /\ filePos \in Nat
  /\ lastOffset \in Nat
  /\ asked \in {0} \cup DOMAIN vflist
  /\ result \in [file : Files \cup {None}, off : Nat, size : Nat]
  /\ threw \in BOOLEAN

Returned == result.file # None

(* As long as no call has thrown, copies of an iterator may read records   *)
(* in any order and each gets its own bytes: the slack arithmetic and the  *)
(* skipped seeks never shift a read.                                       *)
RightRecordIfNoThrow == Returned /\ ~threw => result = vflist[asked]

(* A throw does not poison the reader for ever: a record that lies more    *)
(* than the slack away from the last offset, in the file that is open, is  *)
(* read right whatever went before.                                        *)
SeekRealigns ==
  [][\A idx \in DOMAIN vflist :
       ReadOk(idx) /\ (seeks(idx) \/ needsOpen(idx)) /\ openFor(idx) = vflist[idx].file
         => result' = vflist[idx]]_readerVars

(* "We can't reuse the file that was already open: open the new one"       *)
(* (apt.cc:259): a record is read from the file it lies in.                *)
ReadFromItsFile == Returned => result.file = vflist[asked].file

=============================================================================

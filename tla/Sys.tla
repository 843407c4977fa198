-------------------------------- MODULE Sys ---------------------------------
(***************************************************************************)
(* The functions of ept::sys that change the file system, called by        *)
(* several processes on one directory: mkdir_ifmissing of the directory,   *)
(* write_file_atomically of one file in it, rmtree of it.  A step is one   *)
(* system call, so that the processes interleave between any two; each     *)
(* call may fail, and a process may die, at any step.                      *)
(*                                                                         *)
(* A file is a content and how much of it has been written.  Left out:     *)
(* permissions, subdirectories, and power failures (nothing is synced, so  *)
(* the file system is taken to keep the order of write and rename).        *)
(***************************************************************************)
EXTENDS Integers, FiniteSets

CONSTANTS
  Procs,       \* processes
  Contents,    \* what may be written to the file
  Names,       \* the names mkstemp may make up
  Target,      \* the name of the file
  None,
  Size,        \* size of a content
  Attempts     \* rounds of mkdir_ifmissing, 5 in the code

ASSUME SizeAssumption == Size \in Nat
ASSUME AttemptsAssumption == Attempts \in Nat
ASSUME NamesAssumption == Target \notin Names /\ None \notin Names
ASSUME ContentsAssumption == None \notin Contents \cup [val : Contents, len : 0..Size]

Entries == Names \cup {Target}
File == [val : Contents, len : 0..Size]
Kinds == {"none", "dir", "file", "dangling"}

VARIABLES
  dir,        \* what the directory's pathname is
  files,      \* what is in the directory, None where nothing is
  pc,         \* the system call each process makes next
  outcome,    \* what the last step returned to a caller, "none" if nothing
  tries,      \* mkdir_ifmissing: i
  data, name, written,   \* write_file_atomically: data, out.name(), write_all's count
  todo,       \* rmtree: entries listed and not yet visited
  held,       \* rmtree: the processes whose open directory still has its pathname
  seen,       \* history: what the pathname was since mkdir_ifmissing was called
  removals,   \* history: how often it was removed since, up to Attempts
  failed      \* history: some write_file_atomically failed or was interrupted

disk == <<dir, files>>
local == <<tries, data, name, written, todo>>
vars == <<disk, pc, outcome, local, held, seen, removals, failed>>

Init ==
  /\ dir \in Kinds
  /\ files = [n \in Entries |-> None]
  /\ pc = [p \in Procs |-> "idle"]
  /\ outcome = "none"
  /\ tries = [p \in Procs |-> 0]
  /\ data = [p \in Procs |-> None]
  /\ name = [p \in Procs |-> None]
  /\ written = [p \in Procs |-> 0]
  /\ todo = [p \in Procs |-> {}]
  /\ held = {}
  /\ seen = [p \in Procs |-> {}]
  /\ removals = [p \in Procs |-> 0]
  /\ failed = FALSE

-----------------------------------------------------------------------------
Empty == \A n \in Entries : files[n] = None

(* The pathname becomes k.  A directory that loses it has lost it for good. *)
Becomes(k) ==
  /\ dir' = k
  /\ held' = IF dir = "dir" THEN {} ELSE held

Goto(p, s) == pc' = [pc EXCEPT ![p] = s] /\ outcome' = "none"

(* The call of p ends, and its locals with it. *)
Return(p, how) ==
  /\ pc' = [pc EXCEPT ![p] = "idle"]
  /\ outcome' = how
  /\ tries' = [tries EXCEPT ![p] = 0]
  /\ data' = [data EXCEPT ![p] = None]
  /\ name' = [name EXCEPT ![p] = None]
  /\ written' = [written EXCEPT ![p] = 0]
  /\ todo' = [todo EXCEPT ![p] = {}]

-----------------------------------------------------------------------------
(* mkdir_ifmissing                                                         *)

MkdirCall(p) ==
  /\ pc[p] = "idle"
  /\ Goto(p, "mkdir")
  /\ UNCHANGED <<disk, local, held, failed>>

(* mkdir makes the directory, or says EEXIST. *)
Mkdir(p) ==
  /\ pc[p] = "mkdir" /\ tries[p] < Attempts
  /\ \/ dir = "none" /\ Becomes("dir") /\ Return(p, "ok")
     \/ dir # "none" /\ Goto(p, "stat") /\ UNCHANGED <<dir, local, held>>
  /\ UNCHANGED <<files, failed>>

(* The loop has ended. *)
GiveUp(p) ==
  /\ pc[p] = "mkdir" /\ tries[p] = Attempts
  /\ Return(p, "dangling")
  /\ UNCHANGED <<disk, held, failed>>

(* Mutant: a round counts for two. *)
Stat_CountsTwice(p) ==
  /\ pc[p] = "stat"
  /\ \/ /\ dir \in {"none", "dangling"}
        /\ Goto(p, "mkdir")
        /\ tries' = [tries EXCEPT ![p] = IF @ + 2 > Attempts THEN Attempts ELSE @ + 2]
        /\ UNCHANGED <<data, name, written, todo>>
     \/ dir = "file" /\ Return(p, "notdir")
     \/ dir = "dir" /\ Return(p, "ok")
  /\ UNCHANGED <<disk, held, failed>>

(* Mutant: the rounds are not counted. *)
Stat_Uncounted(p) ==
  /\ pc[p] = "stat"
  /\ \/ dir \in {"none", "dangling"} /\ Goto(p, "mkdir") /\ UNCHANGED local
     \/ dir = "file" /\ Return(p, "notdir")
     \/ dir = "dir" /\ Return(p, "ok")
  /\ UNCHANGED <<disk, held, failed>>

(* stat follows links: a dangling one is as missing as a directory that    *)
(* was removed after mkdir met it.                                         *)
Stat(p) ==
  /\ pc[p] = "stat"
  /\ \/ /\ dir \in {"none", "dangling"}
        /\ Goto(p, "mkdir")
        /\ tries' = [tries EXCEPT ![p] = @ + 1]
        /\ UNCHANGED <<data, name, written, todo>>
     \/ dir = "file" /\ Return(p, "notdir")
     \/ dir = "dir" /\ Return(p, "ok")
  /\ UNCHANGED <<disk, held, failed>>

-----------------------------------------------------------------------------
(* write_file_atomically                                                   *)

WriteCall(p, c) ==
  /\ pc[p] = "idle"
  /\ Goto(p, "mkstemp")
  /\ data' = [data EXCEPT ![p] = c]
  /\ UNCHANGED <<disk, tries, name, written, todo, held, failed>>

(* The names mkstemp can take: they are random, so none comes up twice     *)
(* while a process still means to rename it.                               *)
Fresh == {n \in Names : files[n] = None /\ \A q \in Procs : name[q] # n}

Mkstemp(p) ==
  /\ pc[p] = "mkstemp" /\ dir = "dir"
  /\ \E n \in Fresh :
       /\ files' = [files EXCEPT ![n] = [val |-> data[p], len |-> 0]]
       /\ name' = [name EXCEPT ![p] = n]
  /\ Goto(p, "write")
  /\ UNCHANGED <<dir, tries, data, written, todo, held, failed>>

(* Mutant: the data are written to the file itself. *)
Write_InPlace(p) ==
  /\ outcome' = "none"
  /\ pc[p] = "write" /\ written[p] < Size
  /\ \E k \in 1..(Size - written[p]) :
       /\ written' = [written EXCEPT ![p] = @ + k]
       /\ files' = [files EXCEPT ![Target] = [val |-> data[p], len |-> written[p] + k]]
  /\ UNCHANGED <<dir, pc, tries, data, name, todo, held, failed>>

(* One round of write_all; write may take less than it is given.  A file   *)
(* that was unlinked meanwhile is written all the same.                    *)
Write(p) ==
  /\ outcome' = "none"
  /\ pc[p] = "write" /\ written[p] < Size
  /\ \E k \in 1..(Size - written[p]) :
       /\ written' = [written EXCEPT ![p] = @ + k]
       /\ files' = [files EXCEPT ![name[p]] =
            IF @ = None THEN None ELSE [@ EXCEPT !.len = written[p] + k]]
  /\ UNCHANGED <<dir, pc, tries, data, name, todo, held, failed>>

(* Mutant: a short write ends the loop. *)
Close_Short(p) ==
  /\ pc[p] = "write" /\ written[p] > 0
  /\ Goto(p, "rename")
  /\ UNCHANGED <<disk, local, held, failed>>

Close(p) ==
  /\ pc[p] = "write" /\ written[p] = Size
  /\ Goto(p, "rename")
  /\ UNCHANGED <<disk, local, held, failed>>

(* Mutant: the temporary file is linked, not moved, to its destination. *)
Rename_KeepsTemp(p) ==
  /\ pc[p] = "rename" /\ files[name[p]] # None
  /\ files' = [files EXCEPT ![Target] = files[name[p]]]
  /\ Return(p, "ok")
  /\ UNCHANGED <<dir, held, failed>>

Rename(p) ==
  /\ pc[p] = "rename" /\ files[name[p]] # None
  /\ files' = [files EXCEPT ![Target] = files[name[p]], ![name[p]] = None]
  /\ Return(p, "ok")
  /\ UNCHANGED <<dir, held, failed>>

(* No directory for mkstemp, no name left, or no file to rename: a throw.  *)
(* ~File closes the file and leaves it where it is.                        *)
WriteThrows(p) ==
  /\ \/ pc[p] = "mkstemp" /\ (dir # "dir" \/ Fresh = {})
     \/ pc[p] = "rename" /\ files[name[p]] = None
  /\ Return(p, "error")
  /\ failed' = TRUE
  /\ UNCHANGED <<disk, held>>

-----------------------------------------------------------------------------
(* rmtree of a directory without subdirectories.                           *)

RmtreeCall(p) ==
  /\ pc[p] = "idle"
  /\ Goto(p, "opendir")
  /\ UNCHANGED <<disk, local, held, failed>>

(* The directory is opened and listed: it is small enough for readdir to   *)
(* get it in one piece.                                                    *)
Opendir(p) ==
  /\ pc[p] = "opendir" /\ dir = "dir"
  /\ todo' = [todo EXCEPT ![p] = {n \in Entries : files[n] # None}]
  /\ held' = held \cup {p}
  /\ Goto(p, "unlink")
  /\ UNCHANGED <<disk, tries, data, name, written, failed>>

Unlink(p) ==
  /\ outcome' = "none"
  /\ pc[p] = "unlink" /\ p \in held
  /\ \E n \in todo[p] :
       /\ files[n] # None
       /\ files' = [files EXCEPT ![n] = None]
       /\ todo' = [todo EXCEPT ![p] = @ \ {n}]
  /\ UNCHANGED <<dir, pc, tries, data, name, written, held, failed>>

(* rmdir goes by the pathname. *)
Rmdir(p) ==
  /\ pc[p] = "unlink" /\ todo[p] = {}
  /\ dir = "dir" /\ Empty
  /\ Becomes("none")
  /\ Return(p, "ok")
  /\ UNCHANGED <<files, failed>>

(* Not a directory, an entry that is gone, or a directory that is not      *)
(* empty, or not there.                                                    *)
RmtreeThrows(p) ==
  /\ \/ pc[p] = "opendir" /\ dir # "dir"
     \/ pc[p] = "unlink" /\ \E n \in todo[p] : p \notin held \/ files[n] = None
     \/ pc[p] = "unlink" /\ todo[p] = {} /\ (dir # "dir" \/ ~Empty)
  /\ Return(p, "error")
  /\ held' = held \ {p}
  /\ UNCHANGED <<disk, failed>>

-----------------------------------------------------------------------------
(* Any other errno of any system call: the call throws.  Or the process    *)
(* dies (and another takes its place).                                     *)
Fails(p) ==
  /\ pc[p] # "idle"
  /\ Return(p, "error")
  /\ held' = held \ {p}
  /\ failed' = (failed \/ data[p] # None)
  /\ UNCHANGED disk

(* External: anybody else makes or removes something at the pathname. *)
Elsewhere ==
  /\ outcome' = "none"
  /\ \/ dir = "none" /\ \E k \in {"dir", "file", "dangling"} : Becomes(k)
     \/ dir \in {"file", "dangling"} /\ Becomes("none")
     \/ dir = "dir" /\ Empty /\ Becomes("none")
  /\ UNCHANGED <<files, pc, local, failed>>

(* The histories: they last as long as a call of mkdir_ifmissing. *)
Watch ==
  /\ seen' = [q \in Procs |->
       IF pc'[q] \in {"mkdir", "stat"} THEN seen[q] \cup {dir'} ELSE {}]
  /\ removals' = [q \in Procs |->
       IF pc'[q] \notin {"mkdir", "stat"} THEN 0
       ELSE IF dir # "none" /\ dir' = "none" /\ removals[q] < Attempts
            THEN removals[q] + 1 ELSE removals[q]]

Step(p) ==
  \/ Mkdir(p) \/ GiveUp(p) \/ Stat(p)
  \/ Mkstemp(p) \/ Write(p) \/ Close(p) \/ Rename(p) \/ WriteThrows(p)
  \/ Opendir(p) \/ Unlink(p) \/ Rmdir(p) \/ RmtreeThrows(p)

Call(p) == MkdirCall(p) \/ RmtreeCall(p) \/ \E c \in Contents : WriteCall(p, c)

Next ==
  /\ Elsewhere \/ \E p \in Procs : Step(p) \/ Call(p) \/ Fails(p)
  /\ Watch

(* A process that runs is not stopped for ever.  Nobody has to fail, to    *)
(* call anything or to change the directory.                               *)
Fairness == \A p \in Procs : WF_vars(Step(p) /\ Watch)

Spec == Init /\ [][Next]_vars /\ Fairness

-----------------------------------------------------------------------------
DiskOK ==
  /\ dir \in Kinds
  /\ files \in [Entries -> File \cup {None}]
  /\ dir # "dir" => Empty

ProcsOK ==
  /\ pc \in [Procs -> {"idle", "mkdir", "stat", "mkstemp", "write", "rename",
                       "opendir", "unlink"}]
  /\ outcome \in {"none", "ok", "notdir", "dangling", "error"}
  /\ tries \in [Procs -> 0..Attempts]
  /\ data \in [Procs -> Contents \cup {None}]
  /\ name \in [Procs -> Names \cup {None}]
  /\ written \in [Procs -> 0..Size]
  /\ todo \in [Procs -> SUBSET Entries]
  /\ held \subseteq Procs

HistoriesOK ==
  /\ seen \in [Procs -> SUBSET Kinds]
  /\ removals \in [Procs -> 0..Attempts]
  /\ failed \in BOOLEAN

TypeOK == DiskOK /\ ProcsOK /\ HistoriesOK

(* The file always holds one content and all of it, whoever is writing,    *)
(* failing, dying or removing directories meanwhile.                       *)
TargetWhole == files[Target] # None => files[Target].len = Size

(* write_file_atomically implements the register: a call that returned     *)
(* stored its data in one step, a call that threw or died stored nothing.  *)
Reg == INSTANCE Register WITH
  value <- IF files[Target] = None THEN None ELSE files[Target].val,
  pending <- data
RegisterSpec == Reg!Spec

(* mkdir_ifmissing returns normally only if the pathname was a directory   *)
(* at some time during the call, complains of a file only if there was     *)
(* one, and takes it for a dangling link only if it was one or if somebody *)
(* removed it once in every round.                                         *)
MkdirSound ==
  [][\A p \in Procs : pc[p] \in {"mkdir", "stat"} /\ pc'[p] = "idle" =>
       /\ outcome' = "ok" => "dir" \in seen[p] \cup {dir'}
       /\ outcome' = "notdir" => "file" \in seen[p]
       /\ outcome' = "dangling" => "dangling" \in seen[p] \/ removals[p] = Attempts]_vars

(* Without failures and deaths no temporary file is left behind. *)
NoLitter ==
  failed \/ \A n \in Names : files[n] # None => \E p \in Procs : name[p] = n

(* Every call ends, whatever the others do. *)
CallsReturn == \A p \in Procs : pc[p] # "idle" ~> pc[p] = "idle"
=============================================================================

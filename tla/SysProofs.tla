----------------------------- MODULE SysProofs ------------------------------
(***************************************************************************)
(* ept::sys.  Sys: the file is whole at all times and implements the       *)
(* register, and mkdir_ifmissing's answers are right, for any number of    *)
(* processes, names, contents, sizes and rounds.  Descriptors and Files:   *)
(* what the objects own, for any number of objects, descriptors and opens, *)
(* and whole files.                                                        *)
(***************************************************************************)
EXTENDS Sys, Descriptors, Files, FiniteSetTheorems, WellFoundedInduction, TLAPS

(* A process holds a name exactly while its temporary file is open, the    *)
(* file under that name is its own, as far as it has written it, and the   *)
(* names are different.                                                    *)
Own ==
  \A p \in Procs :
    /\ data[p] # None <=> pc[p] \in {"mkstemp", "write", "rename"}
    /\ name[p] # None <=> pc[p] \in {"write", "rename"}
    /\ pc[p] \notin {"write", "rename"} => written[p] = 0
    /\ pc[p] = "rename" => written[p] = Size
    /\ name[p] # None =>
         /\ files[name[p]] \in {None, [val |-> data[p], len |-> written[p]]}
         /\ \A q \in Procs : name[q] = name[p] => q = p

(* What mkdir_ifmissing has seen since it was called, and the removals     *)
(* that its unsuccessful rounds stand for.                                 *)
Rounds ==
  \A p \in Procs :
    /\ pc[p] \in {"mkdir", "stat"} => dir \in seen[p]
    /\ pc[p] \in {"mkdir", "stat"} => "dangling" \in seen[p] \/ removals[p] >= tries[p]
    /\ pc[p] \notin {"mkdir", "stat"} => tries[p] = 0 /\ removals[p] = 0
    /\ pc[p] = "stat" => tries[p] < Attempts
    /\ pc[p] = "stat" /\ dir = "none" =>
         "dangling" \in seen[p] \/ removals[p] >= tries[p] + 1

Inv == TypeOK /\ TargetWhole /\ Own /\ Rounds
-----------------------------------------------------------------------------
(* A directory entry is always a file, and only a directory has any. *)
LEMMA DiskStep == Inv /\ [Next]_vars => DiskOK'
<1> SUFFICES ASSUME Inv, [Next]_vars PROVE DiskOK'
  OBVIOUS
<1> USE SizeAssumption, AttemptsAssumption, NamesAssumption, ContentsAssumption DEF Inv, TypeOK
<1>1. TypeOK /\ TargetWhole /\ Own /\ Rounds
  OBVIOUS
<1>2. ASSUME UNCHANGED <<dir, files>> PROVE DiskOK'
  BY <1>1, <1>2 DEF DiskOK, Empty
<1>3. ASSUME NEW p \in Procs, Mkdir(p) PROVE DiskOK'
  BY <1>3, <1>1 DEF Mkdir, Becomes, Goto, Return, Empty, Entries, File, Kinds, local, DiskOK,
    ProcsOK, Own
<1>4. ASSUME NEW p \in Procs, Mkstemp(p) PROVE DiskOK'
  <2>1. PICK n \in Fresh :
         /\ files' = [files EXCEPT ![n] = [val |-> data[p], len |-> 0]]
         /\ name' = [name EXCEPT ![p] = n]
    BY <1>4 DEF Mkstemp
  <2>2. n \in Names /\ files[n] = None /\ \A q \in Procs : name[q] # n
    BY DEF Fresh
  <2>3. QED
    BY <1>1, <1>4, <2>1, <2>2 DEF Mkstemp, Entries, File, Empty, DiskOK, ProcsOK, Own
<1>5. ASSUME NEW p \in Procs, Write(p) PROVE DiskOK'
  BY <1>5, <1>1 DEF Write, Empty, Entries, File, Kinds, DiskOK, ProcsOK, Own
<1>6. ASSUME NEW p \in Procs, Rename(p) PROVE DiskOK'
  BY <1>6, <1>1 DEF Rename, Return, Empty, Entries, File, Kinds, DiskOK, ProcsOK, Own
<1>7. ASSUME NEW p \in Procs, Unlink(p) PROVE DiskOK'
  BY <1>7, <1>1 DEF Unlink, Empty, Entries, File, Kinds, DiskOK, ProcsOK, Own
<1>8. ASSUME NEW p \in Procs, Rmdir(p) PROVE DiskOK'
  BY <1>8, <1>1 DEF Rmdir, Becomes, Return, Empty, Entries, File, Kinds, DiskOK, ProcsOK, Own
<1>9. CASE Elsewhere
  BY <1>9, <1>1 DEF Elsewhere, Becomes, Empty, Entries, File, Kinds, local, DiskOK, ProcsOK, Own
<1>10. QED
  BY <1>2, <1>3, <1>4, <1>5, <1>6, <1>7, <1>8, <1>9 DEF Next, Step, Call, vars, disk,
    MkdirCall, GiveUp, Stat, WriteCall, Close, WriteThrows, RmtreeCall, Opendir, RmtreeThrows,
    Fails

(* The processes' variables keep their types. *)
LEMMA ProcsStep == Inv /\ [Next]_vars => ProcsOK'
<1> SUFFICES ASSUME Inv, [Next]_vars PROVE ProcsOK'
  OBVIOUS
<1> USE SizeAssumption, AttemptsAssumption, NamesAssumption, ContentsAssumption DEF Inv, TypeOK
<1>1. TypeOK /\ TargetWhole /\ Own /\ Rounds
  OBVIOUS
<1>2. ASSUME NEW p \in Procs, MkdirCall(p) PROVE ProcsOK'
  BY <1>2, <1>1 DEF MkdirCall, Goto, Empty, Entries, disk, local, ProcsOK, Rounds
<1>3. ASSUME NEW p \in Procs, Mkdir(p) PROVE ProcsOK'
  BY <1>3, <1>1 DEF Mkdir, Becomes, Goto, Return, Empty, Entries, local, ProcsOK, Rounds
<1>4. ASSUME NEW p \in Procs, GiveUp(p) PROVE ProcsOK'
  BY <1>4, <1>1 DEF GiveUp, Return, Empty, Entries, disk, ProcsOK, Rounds
<1>5. ASSUME NEW p \in Procs, Stat(p) PROVE ProcsOK'
  BY <1>5, <1>1 DEF Stat, Goto, Return, Empty, Entries, disk, ProcsOK, Rounds
<1>6. ASSUME NEW p \in Procs, NEW c \in Contents, WriteCall(p, c) PROVE ProcsOK'
  BY <1>6, <1>1 DEF WriteCall, Goto, Empty, Entries, disk, ProcsOK, Rounds
<1>7. ASSUME NEW p \in Procs, Mkstemp(p) PROVE ProcsOK'
  <2>1. PICK n \in Fresh :
         /\ files' = [files EXCEPT ![n] = [val |-> data[p], len |-> 0]]
         /\ name' = [name EXCEPT ![p] = n]
    BY <1>7 DEF Mkstemp
  <2>2. n \in Names /\ files[n] = None /\ \A q \in Procs : name[q] # n
    BY DEF Fresh
  <2>3. QED
    BY <1>1, <1>7, <2>1, <2>2 DEF Mkstemp, Goto, ProcsOK
<1>8. ASSUME NEW p \in Procs, Write(p) PROVE ProcsOK'
  BY <1>8, <1>1 DEF Write, Empty, Entries, ProcsOK, Rounds
<1>9. ASSUME NEW p \in Procs, Close(p) PROVE ProcsOK'
  BY <1>9, <1>1 DEF Close, Goto, Empty, Entries, disk, local, ProcsOK, Rounds
<1>10. ASSUME NEW p \in Procs, Rename(p) PROVE ProcsOK'
  BY <1>10, <1>1 DEF Rename, Return, Empty, Entries, ProcsOK, Rounds
<1>11. ASSUME NEW p \in Procs, WriteThrows(p) PROVE ProcsOK'
  BY <1>11, <1>1 DEF WriteThrows, Return, Empty, Entries, disk, ProcsOK, Rounds
<1>12. ASSUME NEW p \in Procs, RmtreeCall(p) PROVE ProcsOK'
  BY <1>12, <1>1 DEF RmtreeCall, Goto, Empty, Entries, disk, local, ProcsOK, Rounds
<1>13. ASSUME NEW p \in Procs, Opendir(p) PROVE ProcsOK'
  BY <1>13, <1>1 DEF Opendir, Goto, Empty, Entries, disk, ProcsOK, Rounds
<1>14. ASSUME NEW p \in Procs, Unlink(p) PROVE ProcsOK'
  BY <1>14, <1>1 DEF Unlink, Empty, Entries, ProcsOK, Rounds
<1>15. ASSUME NEW p \in Procs, Rmdir(p) PROVE ProcsOK'
  BY <1>15, <1>1 DEF Rmdir, Becomes, Return, Empty, Entries, ProcsOK, Rounds
<1>16. ASSUME NEW p \in Procs, RmtreeThrows(p) PROVE ProcsOK'
  BY <1>16, <1>1 DEF RmtreeThrows, Return, Empty, Entries, disk, ProcsOK, Rounds
<1>17. ASSUME NEW p \in Procs, Fails(p) PROVE ProcsOK'
  BY <1>17, <1>1 DEF Fails, Return, Empty, Entries, disk, ProcsOK, Rounds
<1>18. CASE Elsewhere
  BY <1>18, <1>1 DEF Elsewhere, Becomes, Empty, Entries, local, ProcsOK, Rounds
<1>19. CASE UNCHANGED vars
  BY <1>19, <1>1 DEF vars, disk, local, Empty, ProcsOK, Rounds
<1>20. QED
  BY <1>1, <1>2, <1>3, <1>4, <1>5, <1>6, <1>7, <1>8, <1>9, <1>10, <1>11, <1>12, <1>13, <1>14,
    <1>15, <1>16, <1>17, <1>18, <1>19 DEF Next, Step, Call

(* Nobody touches another process's temporary file except to unlink it. *)
LEMMA OwnStep == Inv /\ [Next]_vars => Own'
<1> SUFFICES ASSUME Inv, [Next]_vars PROVE Own'
  OBVIOUS
<1> USE SizeAssumption, AttemptsAssumption, NamesAssumption, ContentsAssumption DEF Inv, TypeOK
<1>1. TypeOK /\ TargetWhole /\ Own /\ Rounds
  OBVIOUS
<1>2. ASSUME NEW p \in Procs, MkdirCall(p) PROVE Own'
  BY <1>2, <1>1 DEF MkdirCall, Goto, Entries, File, disk, local, DiskOK, ProcsOK, Own
<1>3. ASSUME NEW p \in Procs, Mkdir(p) PROVE Own'
  BY <1>3, <1>1 DEF Mkdir, Becomes, Goto, Return, Entries, File, local, DiskOK, ProcsOK, Own
<1>4. ASSUME NEW p \in Procs, GiveUp(p) PROVE Own'
  BY <1>4, <1>1 DEF GiveUp, Return, Entries, File, disk, DiskOK, ProcsOK, Own
<1>5. ASSUME NEW p \in Procs, Stat(p) PROVE Own'
  BY <1>5, <1>1 DEF Stat, Goto, Return, Entries, File, disk, DiskOK, ProcsOK, Own
<1>6. ASSUME NEW p \in Procs, NEW c \in Contents, WriteCall(p, c) PROVE Own'
  BY <1>6, <1>1 DEF WriteCall, Goto, Entries, File, disk, DiskOK, ProcsOK, Own
<1>7. ASSUME NEW p \in Procs, Mkstemp(p) PROVE Own'
  <2>1. PICK n \in Fresh :
         /\ files' = [files EXCEPT ![n] = [val |-> data[p], len |-> 0]]
         /\ name' = [name EXCEPT ![p] = n]
    BY <1>7 DEF Mkstemp
  <2>2. n \in Names /\ files[n] = None /\ \A q \in Procs : name[q] # n
    BY DEF Fresh
  <2>3. QED
    BY <1>1, <1>7, <2>1, <2>2 DEF Mkstemp, Goto, Entries, File, DiskOK, ProcsOK, Own
<1>8. ASSUME NEW p \in Procs, Write(p) PROVE Own'
  BY <1>8, <1>1 DEF Write, Entries, File, DiskOK, ProcsOK, Own
<1>9. ASSUME NEW p \in Procs, Close(p) PROVE Own'
  BY <1>9, <1>1 DEF Close, Goto, Entries, File, disk, local, DiskOK, ProcsOK, Own
<1>10. ASSUME NEW p \in Procs, Rename(p) PROVE Own'
  BY <1>10, <1>1 DEF Rename, Return, Entries, File, DiskOK, ProcsOK, Own
<1>11. ASSUME NEW p \in Procs, WriteThrows(p) PROVE Own'
  BY <1>11, <1>1 DEF WriteThrows, Return, Entries, File, disk, DiskOK, ProcsOK, Own
<1>12. ASSUME NEW p \in Procs, RmtreeCall(p) PROVE Own'
  BY <1>12, <1>1 DEF RmtreeCall, Goto, Entries, File, disk, local, DiskOK, ProcsOK, Own
<1>13. ASSUME NEW p \in Procs, Opendir(p) PROVE Own'
  BY <1>13, <1>1 DEF Opendir, Goto, Entries, File, disk, DiskOK, ProcsOK, Own
<1>14. ASSUME NEW p \in Procs, Unlink(p) PROVE Own'
  BY <1>14, <1>1 DEF Unlink, Entries, File, DiskOK, ProcsOK, Own
<1>15. ASSUME NEW p \in Procs, Rmdir(p) PROVE Own'
  BY <1>15, <1>1 DEF Rmdir, Becomes, Return, Entries, File, DiskOK, ProcsOK, Own
<1>16. ASSUME NEW p \in Procs, RmtreeThrows(p) PROVE Own'
  BY <1>16, <1>1 DEF RmtreeThrows, Return, Entries, File, disk, DiskOK, ProcsOK, Own
<1>17. ASSUME NEW p \in Procs, Fails(p) PROVE Own'
  BY <1>17, <1>1 DEF Fails, Return, Entries, File, disk, DiskOK, ProcsOK, Own
<1>18. CASE Elsewhere
  BY <1>18, <1>1 DEF Elsewhere, Becomes, Entries, File, local, DiskOK, ProcsOK, Own
<1>19. CASE UNCHANGED vars
  BY <1>19, <1>1 DEF vars, disk, local, DiskOK, ProcsOK, Own
<1>20. QED
  BY <1>1, <1>2, <1>3, <1>4, <1>5, <1>6, <1>7, <1>8, <1>9, <1>10, <1>11, <1>12, <1>13, <1>14,
    <1>15, <1>16, <1>17, <1>18, <1>19 DEF Next, Step, Call

(* Only a complete temporary file is renamed. *)
LEMMA WholeStep == Inv /\ [Next]_vars => TargetWhole'
<1> SUFFICES ASSUME Inv, [Next]_vars PROVE TargetWhole'
  OBVIOUS
<1> USE SizeAssumption, AttemptsAssumption, NamesAssumption, ContentsAssumption DEF Inv, TypeOK
<1>1. TypeOK /\ TargetWhole /\ Own /\ Rounds
  OBVIOUS
<1>2. ASSUME UNCHANGED files PROVE TargetWhole'
  BY <1>1, <1>2 DEF TargetWhole
<1>3. ASSUME NEW p \in Procs, Mkstemp(p) PROVE TargetWhole'
  <2>1. PICK n \in Fresh :
         /\ files' = [files EXCEPT ![n] = [val |-> data[p], len |-> 0]]
         /\ name' = [name EXCEPT ![p] = n]
    BY <1>3 DEF Mkstemp
  <2>2. n \in Names /\ files[n] = None /\ \A q \in Procs : name[q] # n
    BY DEF Fresh
  <2>3. QED
    BY <1>1, <1>3, <2>1, <2>2 DEF Mkstemp, Entries, File, DiskOK, TargetWhole
<1>4. ASSUME NEW p \in Procs, Write(p) PROVE TargetWhole'
  BY <1>4, <1>1 DEF Write, Entries, File, DiskOK, ProcsOK, Own, TargetWhole
<1>5. ASSUME NEW p \in Procs, Rename(p) PROVE TargetWhole'
  BY <1>5, <1>1 DEF Rename, Return, Entries, File, DiskOK, ProcsOK, Own, TargetWhole
<1>6. ASSUME NEW p \in Procs, Unlink(p) PROVE TargetWhole'
  BY <1>6, <1>1 DEF Unlink, Entries, File, DiskOK, ProcsOK, Own, TargetWhole
<1>7. QED
  BY <1>2, <1>3, <1>4, <1>5, <1>6 DEF Next, Step, Call, vars, disk, MkdirCall, Mkdir, GiveUp,
    Stat, WriteCall, Close, WriteThrows, RmtreeCall, Opendir, Rmdir, RmtreeThrows, Fails,
    Elsewhere

(* What the histories of a call that goes on become. *)
LEMMA WatchStep ==
  ASSUME HistoriesOK, Watch, NEW q \in Procs, pc'[q] \in {"mkdir", "stat"}
  PROVE  /\ seen'[q] = seen[q] \cup {dir'}
         /\ removals'[q] \in 0..Attempts /\ removals'[q] >= removals[q]
         /\ dir # "none" /\ dir' = "none" =>
              removals'[q] > removals[q] \/ removals'[q] = Attempts
<1>1. removals[q] \in 0..Attempts
  BY DEF HistoriesOK
<1>2. CASE dir # "none" /\ dir' = "none" /\ removals[q] < Attempts
  BY <1>1, <1>2, AttemptsAssumption DEF Watch
<1>3. CASE ~(dir # "none" /\ dir' = "none" /\ removals[q] < Attempts)
  BY <1>1, <1>3, AttemptsAssumption DEF Watch
<1>4. QED
  BY <1>2, <1>3

(* A round of mkdir_ifmissing is spent on a dangling link or on a removal. *)
LEMMA RoundsStep == Inv /\ [Next]_vars => Rounds'
<1> SUFFICES ASSUME Inv, [Next]_vars PROVE Rounds'
  OBVIOUS
<1> USE SizeAssumption, AttemptsAssumption, NamesAssumption, ContentsAssumption DEF Inv, TypeOK
<1>1. TypeOK /\ TargetWhole /\ Own /\ Rounds
  OBVIOUS
<1>2. ASSUME NEW p \in Procs, MkdirCall(p), Watch PROVE Rounds'
  BY <1>2, <1>1 DEF MkdirCall, Watch, Goto, Empty, Kinds, disk, local, DiskOK, ProcsOK,
    HistoriesOK, Rounds
<1>3. ASSUME NEW p \in Procs, Mkdir(p), Watch PROVE Rounds'
  BY <1>3, <1>1 DEF Mkdir, Watch, Becomes, Goto, Return, Empty, Kinds, local, DiskOK, ProcsOK,
    HistoriesOK, Rounds
<1>4. ASSUME NEW p \in Procs, GiveUp(p), Watch PROVE Rounds'
  BY <1>4, <1>1 DEF GiveUp, Watch, Return, Empty, Kinds, disk, DiskOK, ProcsOK, HistoriesOK,
    Rounds
<1>5. ASSUME NEW p \in Procs, Stat(p), Watch PROVE Rounds'
  BY <1>5, <1>1 DEF Stat, Watch, Goto, Return, Empty, Kinds, disk, DiskOK, ProcsOK,
    HistoriesOK, Rounds
<1>6. ASSUME NEW p \in Procs, NEW c \in Contents, WriteCall(p, c), Watch PROVE Rounds'
  BY <1>6, <1>1 DEF WriteCall, Watch, Goto, Empty, Kinds, disk, DiskOK, ProcsOK, HistoriesOK,
    Rounds
<1>7. ASSUME NEW p \in Procs, Mkstemp(p), Watch PROVE Rounds'
  BY <1>7, <1>1 DEF Mkstemp, Watch, Goto, Empty, Kinds, DiskOK, ProcsOK, HistoriesOK, Rounds
<1>8. ASSUME NEW p \in Procs, Write(p), Watch PROVE Rounds'
  BY <1>8, <1>1 DEF Write, Watch, Empty, Kinds, DiskOK, ProcsOK, HistoriesOK, Rounds
<1>9. ASSUME NEW p \in Procs, Close(p), Watch PROVE Rounds'
  BY <1>9, <1>1 DEF Close, Watch, Goto, Empty, Kinds, disk, local, DiskOK, ProcsOK,
    HistoriesOK, Rounds
<1>10. ASSUME NEW p \in Procs, Rename(p), Watch PROVE Rounds'
  BY <1>10, <1>1 DEF Rename, Watch, Return, Empty, Kinds, DiskOK, ProcsOK, HistoriesOK, Rounds
<1>11. ASSUME NEW p \in Procs, WriteThrows(p), Watch PROVE Rounds'
  BY <1>11, <1>1 DEF WriteThrows, Watch, Return, Empty, Kinds, disk, DiskOK, ProcsOK,
    HistoriesOK, Rounds
<1>12. ASSUME NEW p \in Procs, RmtreeCall(p), Watch PROVE Rounds'
  BY <1>12, <1>1 DEF RmtreeCall, Watch, Goto, Empty, Kinds, disk, local, DiskOK, ProcsOK,
    HistoriesOK, Rounds
<1>13. ASSUME NEW p \in Procs, Opendir(p), Watch PROVE Rounds'
  BY <1>13, <1>1 DEF Opendir, Watch, Goto, Empty, Kinds, disk, DiskOK, ProcsOK, HistoriesOK,
    Rounds
<1>14. ASSUME NEW p \in Procs, Unlink(p), Watch PROVE Rounds'
  BY <1>14, <1>1 DEF Unlink, Watch, Empty, Kinds, DiskOK, ProcsOK, HistoriesOK, Rounds
<1>15. ASSUME NEW p \in Procs, Rmdir(p), Watch PROVE Rounds'
  <2> SUFFICES ASSUME NEW q \in Procs PROVE Rounds!(q)'
    BY DEF Rounds
  <2>1. pc'[q] \notin {"mkdir", "stat"} => removals'[q] = 0 /\ tries'[q] = 0
    BY <1>15, <1>1 DEF Rmdir, Watch, Return, local, ProcsOK, Rounds
  <2>2. CASE pc'[q] \in {"mkdir", "stat"}
    <3>1. pc[q] = pc'[q] /\ tries'[q] = tries[q] /\ dir' \in seen'[q] /\ seen[q] \subseteq
      seen'[q]
      BY <1>15, <1>1, <2>2, WatchStep DEF Rmdir, Return, local, ProcsOK
    <3>2. removals'[q] \in 0..Attempts /\ removals'[q] >= removals[q]
      BY <1>15, <1>1, <2>2, WatchStep
    <3>3. dir # "none" /\ dir' = "none" => removals'[q] > removals[q] \/ removals'[q] = Attempts
      BY <1>15, <1>1, <2>2, WatchStep
    <3>4. tries[q] \in 0..Attempts /\ removals[q] \in 0..Attempts
      BY <1>1 DEF ProcsOK, HistoriesOK
    <3>5. dir' = "none" => dir # "none"
      BY <1>15, <1>1 DEF Rmdir, Becomes
    <3>6. QED
      BY <1>1, <2>2, <3>1, <3>2, <3>3, <3>4, <3>5 DEF Rounds
  <2>3. QED
    BY <2>1, <2>2
<1>16. ASSUME NEW p \in Procs, RmtreeThrows(p), Watch PROVE Rounds'
  BY <1>16, <1>1 DEF RmtreeThrows, Watch, Return, Empty, Kinds, disk, DiskOK, ProcsOK,
    HistoriesOK, Rounds
<1>17. ASSUME NEW p \in Procs, Fails(p), Watch PROVE Rounds'
  BY <1>17, <1>1 DEF Fails, Watch, Return, Empty, Kinds, disk, DiskOK, ProcsOK, HistoriesOK,
    Rounds
<1>18. CASE Elsewhere /\ Watch
  <2> SUFFICES ASSUME NEW q \in Procs PROVE Rounds!(q)'
    BY DEF Rounds
  <2>1. pc'[q] \notin {"mkdir", "stat"} => removals'[q] = 0 /\ tries'[q] = 0
    BY <1>18, <1>1 DEF Elsewhere, Watch, Return, local, ProcsOK, Rounds
  <2>2. CASE pc'[q] \in {"mkdir", "stat"}
    <3>1. pc[q] = pc'[q] /\ tries'[q] = tries[q] /\ dir' \in seen'[q] /\ seen[q] \subseteq
      seen'[q]
      BY <1>18, <1>1, <2>2, WatchStep DEF Elsewhere, Return, local, ProcsOK
    <3>2. removals'[q] \in 0..Attempts /\ removals'[q] >= removals[q]
      BY <1>18, <1>1, <2>2, WatchStep
    <3>3. dir # "none" /\ dir' = "none" => removals'[q] > removals[q] \/ removals'[q] = Attempts
      BY <1>18, <1>1, <2>2, WatchStep
    <3>4. tries[q] \in 0..Attempts /\ removals[q] \in 0..Attempts
      BY <1>1 DEF ProcsOK, HistoriesOK
    <3>5. dir' = "none" => dir # "none"
      BY <1>18, <1>1 DEF Elsewhere, Becomes
    <3>6. QED
      BY <1>1, <2>2, <3>1, <3>2, <3>3, <3>4, <3>5 DEF Rounds
  <2>3. QED
    BY <2>1, <2>2
<1>19. CASE UNCHANGED vars
  BY <1>19, <1>1 DEF vars, disk, local, Empty, DiskOK, ProcsOK, Rounds
<1>20. QED
  BY <1>1, <1>2, <1>3, <1>4, <1>5, <1>6, <1>7, <1>8, <1>9, <1>10, <1>11, <1>12, <1>13, <1>14,
    <1>15, <1>16, <1>17, <1>18, <1>19 DEF Next, Step, Call

(* The histories keep their types. *)
LEMMA HistoriesStep == Inv /\ [Next]_vars => HistoriesOK'
<1> SUFFICES ASSUME Inv, [Next]_vars PROVE HistoriesOK'
  OBVIOUS
<1> USE DEF Inv, TypeOK
<1>1. CASE UNCHANGED vars
  BY <1>1 DEF vars, HistoriesOK
<1>2. CASE Next
  <2>1. Watch
    BY <1>2 DEF Next
  <2>2. seen' \in [Procs -> SUBSET Kinds]
    BY <2>1, DiskStep DEF Watch, HistoriesOK, DiskOK
  <2>3. removals' \in [Procs -> 0..Attempts]
    BY <2>1, AttemptsAssumption DEF Watch, HistoriesOK
  <2>4. failed' \in BOOLEAN
    <3>1. failed \in BOOLEAN
      BY DEF HistoriesOK
    <3>2. CASE UNCHANGED failed
      BY <3>1, <3>2
    <3>3. ASSUME NEW p \in Procs, WriteThrows(p) \/ Fails(p) PROVE failed' \in BOOLEAN
      BY <3>1, <3>3, Zenon DEF WriteThrows, Fails
    <3>4. QED
      BY <1>2, <3>2, <3>3 DEF Next, Step, Call, Elsewhere, MkdirCall, Mkdir, GiveUp, Stat,
        WriteCall, Mkstemp, Write, Close, Rename, RmtreeCall, Opendir, Unlink, Rmdir, RmtreeThrows
  <2>5. QED
    BY <2>2, <2>3, <2>4 DEF HistoriesOK
<1>3. QED
  BY <1>1, <1>2

LEMMA InitInv == Init => Inv
<1> SUFFICES ASSUME Init PROVE Inv
  OBVIOUS
<1> USE SizeAssumption, AttemptsAssumption, NamesAssumption DEF Init
<1>1. DiskOK /\ ProcsOK
  BY DEF DiskOK, ProcsOK, Kinds, Empty, Entries
<1>2. HistoriesOK
  <2>1. failed \in BOOLEAN
    BY Zenon
  <2>2. QED
    BY <2>1 DEF HistoriesOK
<1>3. TargetWhole /\ Own
  BY DEF TargetWhole, Own, Entries
<1>4. Rounds
  BY DEF Rounds
<1>5. QED
  BY <1>1, <1>2, <1>3, <1>4 DEF Inv, TypeOK

(* The inductive invariant, for every value of the constants. *)
THEOREM Invariance == Spec => []Inv
<1>1. Inv /\ [Next]_vars => Inv'
  BY DiskStep, ProcsStep, HistoriesStep, WholeStep, OwnStep, RoundsStep DEF Inv, TypeOK
<1>2. QED
  BY InitInv, <1>1, PTL DEF Spec

(* The variables keep their types. *)
THEOREM TypeCorrect == Spec => []TypeOK
BY Invariance, PTL DEF Inv

(* write_file_atomically: the file never holds part of a content, for any  *)
(* number of writers, of sizes and of names, and whatever fails.           *)
THEOREM FileIsWhole == Spec => []TargetWhole
BY Invariance, PTL DEF Inv

-----------------------------------------------------------------------------
(* Every step of a process is a step of the register or leaves it alone.   *)
LEMMA RegisterStep == Inv /\ [Next]_vars => [Reg!Next]_Reg!vars
<1> SUFFICES ASSUME Inv, [Next]_vars PROVE [Reg!Next]_Reg!vars
  OBVIOUS
<1> USE NamesAssumption, ContentsAssumption DEF Reg!Next, Reg!vars
<1>1. TypeOK /\ Own
  BY DEF Inv
<1>2. ASSUME NEW p \in Procs, NEW c \in Contents, WriteCall(p, c) PROVE Reg!Begin(p, c)
  BY <1>1, <1>2 DEF WriteCall, Reg!Begin, Own, disk
<1>3. ASSUME NEW p \in Procs, Rename(p) PROVE Reg!Store(p)
  <2>1. name[p] \in Names /\ data[p] # None /\ files[name[p]].val = data[p]
    BY <1>1, <1>3 DEF Rename, TypeOK, ProcsOK, Own
  <2>2. files'[Target] = files[name[p]] /\ files[name[p]] # None
    BY <1>1, <1>3, <2>1 DEF Rename, TypeOK, DiskOK, Entries
  <2>3. data' = [data EXCEPT ![p] = None]
    BY <1>3 DEF Rename, Return
  <2>4. QED
    BY <2>1, <2>2, <2>3 DEF Reg!Store
<1>4. ASSUME NEW p \in Procs, GiveUp(p) \/ WriteThrows(p) \/ RmtreeThrows(p) \/ Fails(p)
             \/ Mkdir(p) \/ Stat(p) \/ Rmdir(p)
      PROVE  Reg!Abandon(p) \/ UNCHANGED Reg!vars
  <2>1. files' = files
    BY <1>4 DEF GiveUp, WriteThrows, RmtreeThrows, Fails, Mkdir, Stat, Rmdir, disk
  <2>2. data' = data \/ data' = [data EXCEPT ![p] = None]
    BY <1>4 DEF GiveUp, WriteThrows, RmtreeThrows, Fails, Mkdir, Stat, Rmdir, Return, local
  <2>3. CASE data[p] = None
    BY <1>1, <2>1, <2>2, <2>3 DEF TypeOK, ProcsOK
  <2>4. CASE data[p] # None
    BY <2>1, <2>2, <2>4 DEF Reg!Abandon
  <2>5. QED
    BY <2>3, <2>4
<1>5. ASSUME NEW p \in Procs, Mkstemp(p) \/ Write(p) PROVE UNCHANGED Reg!vars
  <2>1. data' = data
    BY <1>5 DEF Mkstemp, Write
  <2>2. files'[Target] = files[Target]
    <3>1. CASE Mkstemp(p)
      BY <1>1, <3>1 DEF Mkstemp, Fresh, TypeOK, DiskOK, Entries
    <3>2. CASE Write(p)
      <4>1. name[p] # Target
        BY <1>1, <3>2 DEF Write, Own, TypeOK, ProcsOK
      <4>2. QED
        BY <1>1, <3>2, <4>1 DEF Write, TypeOK, DiskOK, Entries
    <3>3. QED
      BY <1>5, <3>1, <3>2
  <2>3. QED
    BY <2>1, <2>2
<1>6. ASSUME NEW p \in Procs, Unlink(p) PROVE Reg!Delete \/ UNCHANGED Reg!vars
  <2>1. PICK n \in todo[p] : files' = [files EXCEPT ![n] = None]
    BY <1>6 DEF Unlink
  <2>2. data' = data /\ n \in Entries
    BY <1>1, <1>6 DEF Unlink, TypeOK, ProcsOK
  <2>3. CASE n = Target
    BY <1>1, <2>1, <2>2, <2>3 DEF Reg!Delete, TypeOK, DiskOK
  <2>4. CASE n # Target
    BY <1>1, <2>1, <2>2, <2>4 DEF TypeOK, DiskOK
  <2>5. QED
    BY <2>3, <2>4
<1>7. ASSUME NEW p \in Procs, MkdirCall(p) \/ Close(p) \/ RmtreeCall(p) \/ Opendir(p)
      PROVE  UNCHANGED Reg!vars
  BY <1>7 DEF MkdirCall, Close, RmtreeCall, Opendir, disk, local
<1>8. CASE Elsewhere
  BY <1>8 DEF Elsewhere, local
<1>9. CASE UNCHANGED vars
  BY <1>9 DEF vars, disk, local
<1>10. QED
  BY <1>2, <1>3, <1>4, <1>5, <1>6, <1>7, <1>8, <1>9 DEF Next, Step, Call

(* write_file_atomically implements the register of module Register, by    *)
(* the mapping in Sys, for any number of processes, names and contents.    *)
THEOREM WriteIsAtomic == Spec => RegisterSpec
<1>1. Init => Reg!Init
  BY DEF Init, Reg!Init, Entries
<1>2. QED
  BY <1>1, RegisterStep, Invariance, PTL DEF Spec, RegisterSpec, Reg!Spec

-----------------------------------------------------------------------------
(* The only steps that end a call of mkdir_ifmissing.                      *)
LEMMA MkdirEnds ==
  ASSUME Inv, Next, NEW q \in Procs, pc[q] \in {"mkdir", "stat"}, pc'[q] = "idle",
         outcome' # "error"
  PROVE  Mkdir(q) \/ GiveUp(q) \/ Stat(q)
<1>1. ProcsOK
  BY DEF Inv, TypeOK
<1>2. ~Elsewhere
  BY <1>1 DEF Elsewhere, ProcsOK
<1>3. PICK p \in Procs : Step(p) \/ Call(p) \/ Fails(p)
  BY <1>2 DEF Next
<1>4. p = q
  BY <1>1, <1>3 DEF Step, Call, Fails, MkdirCall, Mkdir, GiveUp, Stat, WriteCall, Mkstemp, Write,
    Close, Rename, WriteThrows, RmtreeCall, Opendir, Unlink, Rmdir, RmtreeThrows,
    Goto, Return, ProcsOK
<1>5. QED
  BY <1>1, <1>3, <1>4 DEF Step, Call, Fails, MkdirCall, WriteCall, Mkstemp, Write,
    Close, Rename, WriteThrows, RmtreeCall, Opendir, Unlink, Rmdir, RmtreeThrows, Return

(* mkdir_ifmissing answers by what the pathname was during the call, for   *)
(* any number of rounds and of processes that make and remove it.          *)
THEOREM MkdirAnswers == Spec => MkdirSound
<1> DEFINE Sound(q) ==
      /\ outcome' = "ok" => "dir" \in seen[q] \cup {dir'}
      /\ outcome' = "notdir" => "file" \in seen[q]
      /\ outcome' = "dangling" => "dangling" \in seen[q] \/ removals[q] = Attempts
<1>1. ASSUME Inv, Next, NEW q \in Procs, pc[q] \in {"mkdir", "stat"}, pc'[q] = "idle"
      PROVE  Sound(q)
  <2>1. dir \in seen[q] /\ ProcsOK
    BY <1>1 DEF Inv, TypeOK, Rounds
  <2>2. CASE outcome' = "error"
    BY <2>2
  <2>3. CASE Mkdir(q)
    BY <2>1, <2>3, <1>1 DEF Mkdir, Becomes, Return, Goto, ProcsOK
  <2>4. CASE GiveUp(q)
    BY <1>1, <2>4, AttemptsAssumption DEF GiveUp, Return, Inv, TypeOK, HistoriesOK, Rounds
  <2>5. CASE Stat(q)
    BY <2>1, <2>5, <1>1 DEF Stat, Return, Goto, ProcsOK
  <2>6. QED
    BY <1>1, <2>2, <2>3, <2>4, <2>5, MkdirEnds
<1>2. Inv /\ [Next]_vars =>
        [\A p \in Procs : pc[p] \in {"mkdir", "stat"} /\ pc'[p] = "idle" => Sound(p)]_vars
  BY <1>1
<1>3. QED
  BY <1>2, Invariance, PTL DEF Spec, MkdirSound

-----------------------------------------------------------------------------
(* A temporary file without an owner means that some call failed.          *)
THEOREM LitterNeedsFailure == Spec => []NoLitter
<1>1. Init => NoLitter
  BY NamesAssumption DEF Init, NoLitter, Entries
<1>2. Inv /\ NoLitter /\ [Next]_vars => NoLitter'
  <2> SUFFICES ASSUME Inv, NoLitter, [Next]_vars, ~failed',
                      NEW n \in Names, files'[n] # None
               PROVE  \E p \in Procs : name'[p] = n
    BY DEF NoLitter
  <2> USE NamesAssumption DEF Inv, TypeOK, DiskOK, ProcsOK, Entries
  <2>1. ASSUME ~failed, files[n] # None, UNCHANGED name PROVE \E p \in Procs : name'[p] = n
    BY <2>1 DEF NoLitter
  <2>2. ASSUME NEW p \in Procs, Mkstemp(p) PROVE \E q \in Procs : name'[q] = n
    <3>1. PICK m \in Fresh :
            /\ files' = [files EXCEPT ![m] = [val |-> data[p], len |-> 0]]
            /\ name' = [name EXCEPT ![p] = m]
      BY <2>2 DEF Mkstemp
    <3>2. name[p] = None /\ ~failed
      BY <2>2 DEF Mkstemp, Own
    <3>3. CASE n = m
      BY <3>1, <3>3
    <3>4. CASE n # m
      BY <3>1, <3>2, <3>4 DEF NoLitter, Fresh
    <3>5. QED
      BY <3>3, <3>4
  <2>3. ASSUME NEW p \in Procs, Write(p) PROVE \E q \in Procs : name'[q] = n
    <3>1. name' = name /\ ~failed /\ files[n] # None
      BY <2>3 DEF Write
    <3>2. QED
      BY <2>1, <3>1
  <2>4. ASSUME NEW p \in Procs, Rename(p) PROVE \E q \in Procs : name'[q] = n
    <3>1. ~failed /\ files[n] # None /\ n # name[p] /\ name' = [name EXCEPT ![p] = None]
      BY <2>4 DEF Rename, Return
    <3>2. QED
      BY <3>1 DEF NoLitter
  <2>5. ASSUME NEW p \in Procs, Unlink(p) PROVE \E q \in Procs : name'[q] = n
    <3>1. name' = name /\ ~failed /\ files[n] # None
      BY <2>5 DEF Unlink
    <3>2. QED
      BY <2>1, <3>1
  <2>6. ASSUME NEW p \in Procs,
               Mkdir(p) \/ GiveUp(p) \/ Stat(p) \/ Rmdir(p) \/ RmtreeThrows(p) \/ Fails(p)
        PROVE  \E q \in Procs : name'[q] = n
    <3>1. ~failed /\ files' = files /\ name[p] = None
      <4>1. CASE Fails(p)
        <5>1. ~failed /\ data[p] = None
          BY <4>1, Zenon DEF Fails
        <5>2. QED
          BY <4>1, <5>1 DEF Fails, Own, disk
      <4>2. CASE ~Fails(p)
        BY <2>6, <4>2 DEF Mkdir, GiveUp, Stat, Rmdir, RmtreeThrows, Own, disk
      <4>3. QED
        BY <4>1, <4>2
    <3>2. name' = name
      BY <2>6, <3>1 DEF Mkdir, GiveUp, Stat, Rmdir, RmtreeThrows, Fails, Return, local
    <3>3. QED
      BY <2>1, <3>1, <3>2
  <2>7. ASSUME NEW p \in Procs, MkdirCall(p) \/ RmtreeCall(p) \/ Close(p) \/ Opendir(p)
                                \/ \E c \in Contents : WriteCall(p, c)
        PROVE  \E q \in Procs : name'[q] = n
    BY <2>1, <2>7 DEF MkdirCall, RmtreeCall, Close, Opendir, WriteCall, disk, local
  <2>8. CASE Elsewhere
    BY <2>1, <2>8 DEF Elsewhere, local
  <2>9. CASE UNCHANGED vars
    BY <2>1, <2>9 DEF vars, disk, local
  <2>10. ASSUME NEW p \in Procs, WriteThrows(p) PROVE FALSE
    BY <2>10 DEF WriteThrows
  <2>11. QED
    BY <2>2, <2>3, <2>4, <2>5, <2>6, <2>7, <2>8, <2>9, <2>10 DEF Next, Step, Call
<1>3. QED
  BY <1>1, <1>2, Invariance, PTL DEF Spec

-----------------------------------------------------------------------------
(* Descriptors and mappings.                                               *)
(*                                                                         *)
(* File and Path objects and Path::iterators keep descriptors in the same  *)
(* way; what a step does to one kind is proved once, for a family A of     *)
(* keepers beside another family B.                                        *)

ObjType == [live : BOOLEAN, fd : Fds \cup {noFd}, file : Nat]
IterType == [live : BOOLEAN, path : Objs \cup {Null}, fd : Fds \cup {noFd}, file : Nat]
MapType == [live : BOOLEAN, addr : Nat]

DescTypeOK ==
  /\ obj \in [Objs -> ObjType]
  /\ dit \in [Iters -> IterType]
  /\ mm \in [Maps -> MapType]
  /\ closeFailed \in BOOLEAN /\ movedIter \in BOOLEAN /\ outlived \in BOOLEAN
  /\ stray \in BOOLEAN /\ nullUsed \in BOOLEAN

(* Every open is in the table once at most. *)
TableSound(tbl, opn, drp) ==
  /\ tbl \in [Fds -> Nat] /\ opn \in Nat
  /\ drp \subseteq 1..opn
  /\ \A n \in Fds : tbl[n] <= opn
  /\ \A n, k \in Fds : tbl[n] # 0 /\ tbl[n] = tbl[k] => n = k

(* A keeper x has nothing, or a number and the open it means: if that is   *)
(* still open, the number stands for it, and it is still open unless a     *)
(* close() failed.                                                         *)
Sane(x, tbl, opn, drp, cf) ==
  \/ x.fd = noFd /\ x.file = 0
  \/ /\ x.live /\ x.fd \in Fds /\ x.file \in 1..opn /\ x.file \notin drp
     /\ \A n \in Fds : tbl[n] = x.file => n = x.fd
     /\ ~cf => tbl[x.fd] = x.file

Apart(S, A) == \A a, b \in S : A[a].file # 0 /\ A[a].file = A[b].file => a = b

(* No two keepers mean the same open, and every open that was not dropped  *)
(* has one.                                                                *)
Kept(tbl, opn, drp, cf, S, A, T, B) ==
  /\ TableSound(tbl, opn, drp)
  /\ \A a \in S : Sane(A[a], tbl, opn, drp, cf)
  /\ \A b \in T : Sane(B[b], tbl, opn, drp, cf)
  /\ Apart(S, A) /\ Apart(T, B)
  /\ \A a \in S, b \in T : A[a].file # 0 => A[a].file # B[b].file
  /\ \A n \in Fds : tbl[n] # 0 /\ tbl[n] \notin drp =>
       (\E a \in S : A[a].file = tbl[n]) \/ (\E b \in T : B[b].file = tbl[n])

(* The path of an iterator that is not at the end is there. *)
PathsLive ==
  \A i \in Iters : dit[i].live /\ dit[i].fd # noFd /\ ~movedIter /\ ~outlived =>
    dit[i].path \in Objs /\ obj[dit[i].path].live

MapsSound(opn, mpd, M) ==
  /\ mpd \subseteq 1..opn
  /\ \A m \in Maps : M[m].addr # MAP_FAILED => M[m].live /\ M[m].addr \in mpd
  /\ \A a \in mpd : \E m \in Maps : M[m].addr = a
  /\ \A m, k \in Maps : M[m].addr # MAP_FAILED /\ M[m].addr = M[k].addr => m = k

FdKept == Kept(table, opens, dropped, closeFailed, Objs, obj, Iters, dit)

DescInv ==
  /\ DescTypeOK
  /\ FdKept
  /\ PathsLive
  /\ MapsSound(opens, mapped, mm)
  /\ NoStrayAccess

-----------------------------------------------------------------------------
(* What steps do to the keepers.                                           *)

LEMMA KeptSwap ==
  ASSUME NEW tbl, NEW opn, NEW drp, NEW cf, NEW S, NEW A, NEW T, NEW B,
         Kept(tbl, opn, drp, cf, S, A, T, B)
  PROVE  Kept(tbl, opn, drp, cf, T, B, S, A)
BY DEF Kept

(* C is A with x for a. *)
Changed(S, A, C, a, x) == a \in S /\ C[a] = x /\ \A b \in S \ {a} : C[b] = A[b]

(* A step that leaves the numbers and the opens of keepers alone. *)
LEMMA SameKept ==
  ASSUME NEW tbl, NEW opn, NEW drp, NEW cf, NEW S, NEW A, NEW T, NEW B,
         Kept(tbl, opn, drp, cf, S, A, T, B),
         NEW C, NEW a, NEW x, Changed(S, A, C, a, x),
         x.fd = A[a].fd, x.file = A[a].file, A[a].live => x.live
  PROVE  Kept(tbl, opn, drp, cf, S, C, T, B)
<1>1. \A b \in S : C[b].file = A[b].file
  BY DEF Changed
<1>2. \A b \in S : Sane(C[b], tbl, opn, drp, cf)
  BY DEF Changed, Kept, Sane
<1>3. Apart(S, C)
  BY <1>1 DEF Kept, Apart
<1> QED
  BY <1>1, <1>2, <1>3 DEF Kept

(* A new open changes nothing for those there are. *)
LEMMA OpenSane ==
  ASSUME NEW tbl, NEW opn, NEW drp, NEW cf, TableSound(tbl, opn, drp),
         NEW n \in Fds, tbl[n] = 0,
         NEW tbl2, tbl2 = [tbl EXCEPT ![n] = opn + 1],
         NEW drp2, drp2 \in {drp, drp \cup {opn + 1}}
  PROVE  /\ TableSound(tbl2, opn + 1, drp2)
         /\ \A y : Sane(y, tbl, opn, drp, cf) => Sane(y, tbl2, opn + 1, drp2, cf)
<1>1. tbl \in [Fds -> Nat] /\ opn \in Nat /\ opn + 1 \in Nat /\ drp \subseteq 1..opn
  BY DEF TableSound
<1>2. tbl2 \in [Fds -> Nat] /\ tbl2[n] = opn + 1 /\ \A k \in Fds \ {n} : tbl2[k] = tbl[k]
  BY <1>1
<1>3. TableSound(tbl2, opn + 1, drp2)
  <2>1. drp2 \subseteq 1..(opn + 1)
    BY <1>1
  <2>2. \A k \in Fds : tbl2[k] <= opn + 1
    BY <1>1, <1>2 DEF TableSound
  <2>3. \A k, l \in Fds : tbl2[k] # 0 /\ tbl2[k] = tbl2[l] => k = l
    BY <1>1, <1>2 DEF TableSound
  <2> QED
    BY <1>1, <1>2, <2>1, <2>2, <2>3 DEF TableSound
<1>4. ASSUME NEW y, Sane(y, tbl, opn, drp, cf)
      PROVE  Sane(y, tbl2, opn + 1, drp2, cf)
  <2>1. CASE y.fd = noFd /\ y.file = 0
    BY <2>1 DEF Sane
  <2>2. CASE ~(y.fd = noFd /\ y.file = 0)
    <3>1. /\ y.live /\ y.fd \in Fds /\ y.file \in 1..opn /\ y.file \notin drp
          /\ \A k \in Fds : tbl[k] = y.file => k = y.fd
          /\ ~cf => tbl[y.fd] = y.file
      BY <1>4, <2>2 DEF Sane
    <3>2. y.file \in 1..(opn + 1) /\ y.file \notin drp2
      BY <1>1, <3>1
    <3>3. \A k \in Fds : tbl2[k] = y.file => k = y.fd
      BY <1>1, <1>2, <3>1
    <3>4. ~cf => tbl2[y.fd] = y.file
      BY <1>1, <1>2, <3>1
    <3> QED
      BY <3>1, <3>2, <3>3, <3>4 DEF Sane
  <2> QED
    BY <2>1, <2>2
<1> QED
  BY <1>3, <1>4

(* A keeper that had nothing gets the new open. *)
Opens(tbl, opn, drp, cf, S, A, T, B, n, a, x, tbl2, C) ==
  /\ Kept(tbl, opn, drp, cf, S, A, T, B)
  /\ n \in Fds /\ tbl[n] = 0
  /\ Changed(S, A, C, a, x)
  /\ A[a].file = 0
  /\ x.live /\ x.fd = n /\ x.file = opn + 1
  /\ tbl2 = [tbl EXCEPT ![n] = opn + 1]

LEMMA OpenKept ==
  ASSUME NEW tbl, NEW opn, NEW drp, NEW cf, NEW S, NEW A, NEW T, NEW B,
         NEW n, NEW a, NEW x, NEW tbl2, NEW C,
         Opens(tbl, opn, drp, cf, S, A, T, B, n, a, x, tbl2, C)
  PROVE  Kept(tbl2, opn + 1, drp, cf, S, C, T, B)
<1>1. n \in Fds /\ tbl[n] = 0 /\ TableSound(tbl, opn, drp) /\ tbl2 = [tbl EXCEPT ![n] = opn + 1]
  BY DEF Opens, Kept
<1>2. TableSound(tbl2, opn + 1, drp) /\ \A y : Sane(y, tbl, opn, drp, cf) => Sane(y, tbl2, opn + 1, drp, cf)
  BY <1>1, OpenSane
<1>3. a \in S /\ C[a] = x /\ (\A b \in S \ {a} : C[b] = A[b]) /\ x.live /\ x.fd = n /\ x.file = opn + 1
      /\ A[a].file = 0
  BY DEF Opens, Changed
<1>4. opn \in Nat /\ tbl \in [Fds -> Nat] /\ drp \subseteq 1..opn /\ \A k \in Fds : tbl[k] <= opn
  BY <1>1 DEF TableSound
<1>5. tbl2[n] = opn + 1 /\ \A k \in Fds \ {n} : tbl2[k] = tbl[k]
  BY <1>1, <1>4
<1>6. Sane(x, tbl2, opn + 1, drp, cf)
  <2>1. opn + 1 \in 1..(opn + 1) /\ opn + 1 \notin drp
    BY <1>4
  <2>2. \A k \in Fds : tbl2[k] = opn + 1 => k = n
    BY <1>4, <1>5
  <2> QED
    BY <1>1, <1>3, <1>5, <2>1, <2>2 DEF Sane
<1>7. (\A b \in S : Sane(C[b], tbl2, opn + 1, drp, cf)) /\ (\A b \in T : Sane(B[b], tbl2, opn + 1, drp, cf))
  BY <1>2, <1>3, <1>6 DEF Opens, Kept
<1>8. (\A b \in S : A[b].file # opn + 1) /\ (\A b \in T : B[b].file # opn + 1)
  <2>1. \A y : Sane(y, tbl, opn, drp, cf) => y.file # opn + 1
    BY <1>4 DEF Sane
  <2> QED
    BY <2>1 DEF Opens, Kept
<1>9. Apart(S, C) /\ Apart(T, B)
  BY <1>3, <1>8 DEF Opens, Kept, Apart
<1>10. \A c \in S, b \in T : C[c].file # 0 => C[c].file # B[b].file
  BY <1>3, <1>8 DEF Opens, Kept
<1>11. ASSUME NEW k \in Fds, tbl2[k] # 0, tbl2[k] \notin drp
       PROVE  (\E c \in S : C[c].file = tbl2[k]) \/ (\E b \in T : B[b].file = tbl2[k])
  <2>1. CASE k = n
    BY <2>1, <1>3, <1>5
  <2>2. CASE k # n
    <3>1. tbl2[k] = tbl[k] /\ tbl[k] # 0 /\ tbl[k] \notin drp
      BY <2>2, <1>5, <1>11
    <3>2. (\E c \in S : A[c].file = tbl[k]) \/ (\E b \in T : B[b].file = tbl[k])
      BY <3>1 DEF Opens, Kept
    <3> QED
      BY <1>3, <3>1, <3>2
  <2> QED
    BY <2>1, <2>2
<1> QED
  BY <1>2, <1>7, <1>9, <1>10, <1>11 DEF Kept

(* Nobody gets the new open. *)
LEMMA LostKept ==
  ASSUME NEW tbl, NEW opn, NEW drp, NEW cf, NEW S, NEW A, NEW T, NEW B,
         Kept(tbl, opn, drp, cf, S, A, T, B),
         NEW n \in Fds, tbl[n] = 0
  PROVE  Kept([tbl EXCEPT ![n] = opn + 1], opn + 1, drp \cup {opn + 1}, cf, S, A, T, B)
<1> DEFINE tbl2 == [tbl EXCEPT ![n] = opn + 1]
           drp2 == drp \cup {opn + 1}
<1>1. TableSound(tbl, opn, drp) /\ drp2 \in {drp, drp \cup {opn + 1}} /\ tbl2 = [tbl EXCEPT ![n] = opn + 1]
  BY DEF Kept
<1>2. TableSound(tbl2, opn + 1, drp2) /\ \A y : Sane(y, tbl, opn, drp, cf) => Sane(y, tbl2, opn + 1, drp2, cf)
  BY <1>1, OpenSane
<1>3. opn \in Nat /\ tbl \in [Fds -> Nat]
  BY <1>1 DEF TableSound
<1>4. tbl2[n] = opn + 1 /\ \A k \in Fds \ {n} : tbl2[k] = tbl[k]
  BY <1>3
<1> HIDE DEF tbl2
<1>5. ASSUME NEW k \in Fds, tbl2[k] # 0, tbl2[k] \notin drp2
      PROVE  tbl2[k] = tbl[k] /\ tbl[k] \notin drp
  BY <1>4, <1>5
<1> HIDE DEF drp2
<1>6. Kept(tbl2, opn + 1, drp2, cf, S, A, T, B)
  BY <1>2, <1>5 DEF Kept
<1> QED
  BY <1>6 DEF tbl2, drp2

(* The table after the number x keeps was closed. *)
Closed(tbl, x) == IF x.fd = noFd THEN tbl ELSE [tbl EXCEPT ![x.fd] = 0]

LEMMA ClosedEntries ==
  ASSUME NEW tbl, NEW opn, NEW drp, NEW cf, TableSound(tbl, opn, drp), noFd \notin Fds,
         NEW x, Sane(x, tbl, opn, drp, cf)
  PROVE  /\ Closed(tbl, x) \in [Fds -> Nat]
         /\ \A n \in Fds : n = x.fd => Closed(tbl, x)[n] = 0
         /\ \A n \in Fds : n # x.fd => Closed(tbl, x)[n] = tbl[n]
         /\ TableSound(Closed(tbl, x), opn, drp)
<1>1. tbl \in [Fds -> Nat] /\ opn \in Nat
  BY DEF TableSound
<1>2. /\ Closed(tbl, x) \in [Fds -> Nat]
      /\ \A n \in Fds : n = x.fd => Closed(tbl, x)[n] = 0
      /\ \A n \in Fds : n # x.fd => Closed(tbl, x)[n] = tbl[n]
  BY <1>1 DEF Closed, Sane
<1> DEFINE tbl2 == Closed(tbl, x)
<1>3. \A n \in Fds : tbl2[n] = 0 \/ tbl2[n] = tbl[n]
  BY <1>2
<1>4. TableSound(tbl2, opn, drp)
  BY <1>1, <1>2, <1>3 DEF TableSound
<1> QED
  BY <1>2, <1>4

(* A failed close(), whether or not the system has closed the number: the  *)
(* keeper goes on with it.                                                 *)
LEMMA CloseFailKept ==
  ASSUME NEW tbl, NEW opn, NEW drp, NEW cf, NEW S, NEW A, NEW T, NEW B,
         Kept(tbl, opn, drp, cf, S, A, T, B), noFd \notin Fds,
         NEW a \in S, NEW tbl2, tbl2 \in {tbl, Closed(tbl, A[a])}
  PROVE  Kept(tbl2, opn, drp, TRUE, S, A, T, B)
<1>1. TableSound(tbl, opn, drp) /\ Sane(A[a], tbl, opn, drp, cf)
  BY DEF Kept
<1>2. TableSound(tbl2, opn, drp) /\ \A n \in Fds : tbl2[n] = 0 \/ tbl2[n] = tbl[n]
  BY <1>1, ClosedEntries
<1>3. ASSUME NEW y, Sane(y, tbl, opn, drp, cf)
      PROVE  Sane(y, tbl2, opn, drp, TRUE)
  <2>1. opn \in Nat
    BY <1>1 DEF TableSound
  <2> QED
    BY <1>2, <1>3, <2>1 DEF Sane
<1>4. \A n \in Fds : tbl2[n] # 0 /\ tbl2[n] \notin drp => tbl2[n] = tbl[n]
  BY <1>2
<1> QED
  BY <1>2, <1>3, <1>4 DEF Kept

(* The number is closed and its keeper, now x, lets go of it. *)
Closes(tbl, opn, drp, cf, S, A, T, B, a, x, C) ==
  /\ Kept(tbl, opn, drp, cf, S, A, T, B) /\ noFd \notin Fds
  /\ Changed(S, A, C, a, x)
  /\ x.fd = noFd /\ x.file = 0

LEMMA CloseKept ==
  ASSUME NEW tbl, NEW opn, NEW drp, NEW cf, NEW S, NEW A, NEW T, NEW B, NEW a, NEW x, NEW C,
         Closes(tbl, opn, drp, cf, S, A, T, B, a, x, C)
  PROVE  Kept(Closed(tbl, A[a]), opn, drp, cf, S, C, T, B)
<1> DEFINE tbl2 == Closed(tbl, A[a])
<1>1. Kept(tbl, opn, drp, cf, S, A, T, B) /\ noFd \notin Fds
      /\ a \in S /\ C[a] = x /\ (\A b \in S \ {a} : C[b] = A[b]) /\ x.fd = noFd /\ x.file = 0
  BY DEF Closes, Changed
<1>2. TableSound(tbl, opn, drp) /\ Sane(A[a], tbl, opn, drp, cf)
  BY <1>1 DEF Kept
<1>3. /\ TableSound(tbl2, opn, drp)
      /\ \A n \in Fds : n = A[a].fd => tbl2[n] = 0
      /\ \A n \in Fds : n # A[a].fd => tbl2[n] = tbl[n]
  BY <1>1, <1>2, ClosedEntries
<1> HIDE DEF tbl2
<1>4. opn \in Nat
  BY <1>2 DEF TableSound
<1>5. ASSUME NEW y, Sane(y, tbl, opn, drp, cf), y.file # A[a].file \/ y.file = 0
      PROVE  Sane(y, tbl2, opn, drp, cf)
  <2>1. CASE y.fd = noFd /\ y.file = 0
    BY <2>1 DEF Sane
  <2>2. CASE ~(y.fd = noFd /\ y.file = 0)
    <3>1. /\ y.live /\ y.fd \in Fds /\ y.file \in 1..opn /\ y.file \notin drp
          /\ \A n \in Fds : tbl[n] = y.file => n = y.fd
          /\ ~cf => tbl[y.fd] = y.file
      BY <1>5, <2>2 DEF Sane
    <3>2. \A n \in Fds : tbl2[n] = y.file => n = y.fd
      BY <1>3, <1>4, <3>1
    <3>3. ~cf => y.fd # A[a].fd
      BY <1>1, <1>2, <1>4, <1>5, <3>1 DEF Sane
    <3>4. ~cf => tbl2[y.fd] = y.file
      BY <1>3, <3>1, <3>3
    <3> QED
      BY <3>1, <3>2, <3>4 DEF Sane
  <2> QED
    BY <2>1, <2>2
<1>6. Sane(x, tbl2, opn, drp, cf)
  BY <1>1 DEF Sane
<1>7. \A b \in S : Sane(C[b], tbl2, opn, drp, cf)
  <2>1. \A b \in S \ {a} : A[b].file # A[a].file \/ A[b].file = 0
    BY <1>1 DEF Kept, Apart
  <2>2. \A b \in S \ {a} : Sane(A[b], tbl, opn, drp, cf)
    BY <1>1 DEF Kept
  <2> QED
    BY <1>1, <1>5, <1>6, <2>1, <2>2
<1>8. \A b \in T : Sane(B[b], tbl2, opn, drp, cf)
  <2>1. \A b \in T : B[b].file # A[a].file \/ B[b].file = 0
    BY <1>1 DEF Kept
  <2> QED
    BY <1>1, <1>5, <2>1 DEF Kept
<1>9. Apart(S, C) /\ Apart(T, B) /\ \A c \in S, b \in T : C[c].file # 0 => C[c].file # B[b].file
  BY <1>1 DEF Kept, Apart
<1>10. ASSUME NEW n \in Fds, tbl2[n] # 0, tbl2[n] \notin drp
       PROVE  (\E c \in S : C[c].file = tbl2[n]) \/ (\E b \in T : B[b].file = tbl2[n])
  <2>1. n # A[a].fd /\ tbl2[n] = tbl[n]
    BY <1>3, <1>10
  <2>2. A[a].file # tbl[n]
    BY <1>2, <1>10, <2>1 DEF Sane
  <2>3. (\E c \in S : A[c].file = tbl[n]) \/ (\E b \in T : B[b].file = tbl[n])
    BY <1>1, <1>10, <2>1 DEF Kept
  <2> QED
    BY <1>1, <2>1, <2>2, <2>3
<1>11. Kept(tbl2, opn, drp, cf, S, C, T, B)
  BY <1>3, <1>7, <1>8, <1>9, <1>10 DEF Kept
<1> QED
  BY <1>11 DEF tbl2

(* Keeper a, now x, takes over from r, now z; what a had is dropped. *)
Moves(tbl, opn, drp, cf, S, A, T, B, a, r, x, z, C, drp2) ==
  /\ Kept(tbl, opn, drp, cf, S, A, T, B)
  /\ a \in S /\ r \in S /\ a # r
  /\ C[a] = x /\ C[r] = z /\ \A b \in S \ {a, r} : C[b] = A[b]
  /\ x.fd = A[r].fd /\ x.file = A[r].file /\ (A[r].live => x.live)
  /\ z.fd = noFd /\ z.file = 0
  /\ drp2 = IF A[a].fd = noFd THEN drp ELSE drp \cup {A[a].file}

LEMMA MoveKept ==
  ASSUME NEW tbl, NEW opn, NEW drp, NEW cf, NEW S, NEW A, NEW T, NEW B,
         NEW a, NEW r, NEW x, NEW z, NEW C, NEW drp2,
         Moves(tbl, opn, drp, cf, S, A, T, B, a, r, x, z, C, drp2), noFd \notin Fds
  PROVE  Kept(tbl, opn, drp2, cf, S, C, T, B)
<1>1. Kept(tbl, opn, drp, cf, S, A, T, B) /\ a \in S /\ r \in S /\ a # r
      /\ C[a] = x /\ C[r] = z /\ (\A b \in S \ {a, r} : C[b] = A[b])
      /\ x.fd = A[r].fd /\ x.file = A[r].file /\ (A[r].live => x.live)
      /\ z.fd = noFd /\ z.file = 0
  BY DEF Moves
<1>2. TableSound(tbl, opn, drp) /\ Sane(A[a], tbl, opn, drp, cf) /\ Sane(A[r], tbl, opn, drp, cf)
  BY <1>1 DEF Kept
<1>3. opn \in Nat /\ drp \subseteq 1..opn
  BY <1>2 DEF TableSound
<1>4. \/ A[a].file = 0 /\ drp2 = drp
      \/ A[a].file # 0 /\ A[a].file \in 1..opn /\ drp2 = drp \cup {A[a].file}
  BY <1>2, <1>3 DEF Moves, Sane
<1>5. TableSound(tbl, opn, drp2)
  BY <1>2, <1>3, <1>4 DEF TableSound
<1>6. ASSUME NEW y, Sane(y, tbl, opn, drp, cf), y.file # A[a].file \/ y.file = 0
      PROVE  Sane(y, tbl, opn, drp2, cf)
  BY <1>4, <1>6 DEF Sane
<1>7. (\A b \in S \ {a} : A[b].file # A[a].file \/ A[b].file = 0)
      /\ (\A b \in T : B[b].file # A[a].file \/ B[b].file = 0)
  BY <1>1 DEF Kept, Apart
<1>8. Sane(x, tbl, opn, drp2, cf) /\ Sane(z, tbl, opn, drp2, cf)
  <2>1. Sane(A[r], tbl, opn, drp2, cf)
    BY <1>1, <1>2, <1>6, <1>7
  <2> QED
    BY <1>1, <2>1 DEF Sane
<1>9. (\A b \in S : Sane(C[b], tbl, opn, drp2, cf)) /\ (\A b \in T : Sane(B[b], tbl, opn, drp2, cf))
  BY <1>1, <1>6, <1>7, <1>8 DEF Kept
<1>10. Apart(S, C)
  <2>1. SUFFICES ASSUME NEW b \in S, NEW c \in S, C[b].file # 0, C[b].file = C[c].file
                 PROVE  b = c
    BY DEF Apart
  <2>2. b # r /\ c # r
    BY <1>1, <2>1
  <2>3. \A d \in S \ {a, r} : A[d].file # A[r].file \/ A[d].file = 0
    BY <1>1 DEF Kept, Apart
  <2> QED
    BY <1>1, <2>1, <2>2, <2>3 DEF Kept, Apart
<1>11. Apart(T, B) /\ \A c \in S, b \in T : C[c].file # 0 => C[c].file # B[b].file
  BY <1>1 DEF Kept
<1>12. ASSUME NEW n \in Fds, tbl[n] # 0, tbl[n] \notin drp2
       PROVE  (\E c \in S : C[c].file = tbl[n]) \/ (\E b \in T : B[b].file = tbl[n])
  <2>1. tbl[n] \notin drp /\ tbl[n] # A[a].file
    BY <1>4, <1>12
  <2>2. (\E c \in S : A[c].file = tbl[n]) \/ (\E b \in T : B[b].file = tbl[n])
    BY <1>1, <1>12, <2>1 DEF Kept
  <2>3. ASSUME NEW c \in S, A[c].file = tbl[n]
        PROVE  \E d \in S : C[d].file = tbl[n]
    <3>1. CASE c = r
      BY <1>1, <2>3, <3>1
    <3>2. CASE c # r
      BY <1>1, <2>1, <2>3, <3>2
    <3> QED
      BY <3>1, <3>2
  <2> QED
    BY <2>2, <2>3
<1> QED
  BY <1>5, <1>9, <1>10, <1>11, <1>12 DEF Kept

-----------------------------------------------------------------------------
(* The steps.                                                              *)

LEMMA NoFdIsNone == noFd \notin Fds
BY FdsAssumption DEF noFd

LEMMA LeastNatural ==
  ASSUME NEW T \in SUBSET Nat, T # {}
  PROVE  \E n \in T : \A k \in T : n <= k
<1>1. PICK n \in T : \A k \in T : <<k, n>> \notin OpToRel(<, Nat)
  BY WFMin, NatLessThanWellFounded, Zenon
<1>2. \A k \in T : ~(k < n)
  BY <1>1, Zenon DEF OpToRel
<1> QED
  BY <1>2

LEMMA NewFdIsFree ==
  ASSUME CanOpen
  PROVE  newFd \in Fds /\ table[newFd] = 0
<1>1. FreeFds \in SUBSET Nat /\ FreeFds # {}
  BY FdsAssumption DEF CanOpen, FreeFds
<1>2. \E n \in FreeFds : \A k \in FreeFds : n <= k
  BY <1>1, LeastNatural
<1>3. newFd \in FreeFds
  BY <1>2 DEF newFd, Min
<1> QED
  BY <1>3 DEF FreeFds

(* A keeper goes astray only after a close() failed. *)
LEMMA AstrayNeedsFailure ==
  ASSUME NEW x, Sane(x, table, opens, dropped, closeFailed), Astray(x)
  PROVE  closeFailed
BY DEF Sane, Astray

LEMMA DescFacts ==
  ASSUME DescInv
  PROVE  /\ obj \in [Objs -> ObjType] /\ dit \in [Iters -> IterType] /\ mm \in [Maps -> MapType]
         /\ opens \in Nat
         /\ \A o \in Objs : Sane(obj[o], table, opens, dropped, closeFailed)
         /\ \A i \in Iters : Sane(dit[i], table, opens, dropped, closeFailed)
         /\ \A o \in Objs : ~obj[o].live => obj[o].fd = noFd /\ obj[o].file = 0
         /\ \A i \in Iters : ~dit[i].live => dit[i].fd = noFd /\ dit[i].file = 0
         /\ \A o \in Objs : Astray(obj[o]) => closeFailed
         /\ \A i \in Iters : Astray(dit[i]) => closeFailed
         /\ stray => closeFailed
         /\ stray \in BOOLEAN /\ closeFailed \in BOOLEAN
<1>1. obj \in [Objs -> ObjType] /\ dit \in [Iters -> IterType] /\ mm \in [Maps -> MapType]
      /\ stray \in BOOLEAN /\ closeFailed \in BOOLEAN /\ (stray => closeFailed)
  BY DEF DescInv, DescTypeOK, NoStrayAccess
<1>2. /\ opens \in Nat
      /\ \A o \in Objs : Sane(obj[o], table, opens, dropped, closeFailed)
      /\ \A i \in Iters : Sane(dit[i], table, opens, dropped, closeFailed)
  BY DEF DescInv, FdKept, Kept, TableSound
<1>3. /\ \A o \in Objs : ~obj[o].live => obj[o].fd = noFd /\ obj[o].file = 0
      /\ \A i \in Iters : ~dit[i].live => dit[i].fd = noFd /\ dit[i].file = 0
  BY <1>2 DEF Sane
<1>4. /\ \A o \in Objs : Astray(obj[o]) => closeFailed
      /\ \A i \in Iters : Astray(dit[i]) => closeFailed
  BY <1>2, AstrayNeedsFailure
<1> QED
  BY <1>1, <1>2, <1>3, <1>4

LEMMA KeptPrimed ==
  ASSUME Kept(table', opens', dropped', closeFailed', Objs, obj', Iters, dit')
  PROVE  FdKept'
BY DEF FdKept, Kept, TableSound, Sane, Apart

LEMMA SameMaps ==
  ASSUME DescInv, UNCHANGED <<mapped, mm>>, opens' \in {opens, opens + 1}
  PROVE  MapsSound(opens, mapped, mm)'
<1>1. opens \in Nat
  BY DescFacts
<1>2. mapped' \subseteq 1..opens'
  BY <1>1 DEF DescInv, MapsSound
<1> QED
  BY <1>2 DEF DescInv, MapsSound

(* A File or Path that was not there gets a new descriptor. *)
LEMMA NewObjKeeps ==
  ASSUME DescInv, NEW o \in Objs, ~obj[o].live, SysOpen,
         obj' = [obj EXCEPT ![o] = [live |-> TRUE, fd |-> newFd, file |-> newFile]],
         UNCHANGED <<dit, mapped, mm, history, nullUsed>>,
         stray' \in BOOLEAN, stray' => closeFailed
  PROVE  DescInv'
<1> DEFINE x == [live |-> TRUE, fd |-> newFd, file |-> newFile]
<1>1. newFd \in Fds /\ table[newFd] = 0
  BY NewFdIsFree DEF SysOpen
<1>2. obj \in [Objs -> ObjType] /\ dit \in [Iters -> IterType] /\ obj[o].fd = noFd /\ obj[o].file = 0
      /\ opens \in Nat
  BY DescFacts
<1>3. x \in ObjType /\ x.live /\ x.fd = newFd /\ x.file = opens + 1
  BY <1>1, <1>2 DEF ObjType, newFile
<1> HIDE DEF x
<1>4. Changed(Objs, obj, obj', o, x) /\ obj' \in [Objs -> ObjType]
  BY <1>2, <1>3 DEF Changed, x
<1>5. table' = [table EXCEPT ![newFd] = opens + 1] /\ opens' = opens + 1
      /\ dit' = dit /\ dropped' = dropped /\ closeFailed' = closeFailed /\ movedIter' = movedIter
      /\ outlived' = outlived /\ nullUsed' = nullUsed /\ mm' = mm
  BY DEF SysOpen, newFile, history
<1>6. Opens(table, opens, dropped, closeFailed, Objs, obj, Iters, dit, newFd, o, x, table', obj')
  BY <1>1, <1>2, <1>3, <1>4, <1>5 DEF Opens, DescInv, FdKept
<1>7. Kept(table', opens + 1, dropped, closeFailed, Objs, obj', Iters, dit)
  BY <1>6, OpenKept
<1>8. FdKept'
  BY <1>5, <1>7, KeptPrimed
<1>9. PathsLive'
  BY <1>3, <1>4, <1>5 DEF DescInv, PathsLive, Changed
<1>10. DescTypeOK' /\ NoStrayAccess'
  BY <1>4, <1>5 DEF DescInv, DescTypeOK, NoStrayAccess
<1>11. MapsSound(opens, mapped, mm)'
  BY <1>5, SameMaps
<1> QED
  BY <1>8, <1>9, <1>10, <1>11 DEF DescInv

LEMMA ConstructKeeps == ASSUME DescInv, NEW o \in Objs, Construct(o) PROVE DescInv'
BY DescFacts, NewObjKeeps DEF Construct

LEMMA ConstructAtKeeps ==
  ASSUME DescInv, NEW o \in Objs, NEW parent \in Objs, ConstructAt(o, parent)
  PROVE  DescInv'
<1>1. stray' \in BOOLEAN /\ (stray' => closeFailed)
  BY DescFacts DEF ConstructAt
<1> QED
  BY <1>1, NewObjKeeps DEF ConstructAt

(* Nothing but stray and nullUsed changes. *)
LEMMA LookKeeps ==
  ASSUME DescInv, UNCHANGED <<table, opens, obj, dit, mapped, mm, history>>,
         stray' \in BOOLEAN, stray' => closeFailed,
         nullUsed' \in BOOLEAN, nullUsed' => movedIter \/ outlived
  PROVE  DescInv'
<1>1. table' = table /\ opens' = opens /\ obj' = obj /\ dit' = dit /\ mm' = mm /\ mapped' = mapped
      /\ dropped' = dropped /\ closeFailed' = closeFailed /\ movedIter' = movedIter
      /\ outlived' = outlived
  BY DEF history
<1>2. FdKept'
  BY <1>1, KeptPrimed DEF DescInv, FdKept
<1>3. PathsLive' /\ DescTypeOK' /\ NoStrayAccess'
  BY <1>1 DEF DescInv, PathsLive, DescTypeOK, NoStrayAccess
<1>4. MapsSound(opens, mapped, mm)'
  BY <1>1, SameMaps
<1> QED
  BY <1>2, <1>3, <1>4 DEF DescInv

LEMMA UseKeeps == ASSUME DescInv, NEW o \in Objs, Use(o) PROVE DescInv'
<1>1. stray' \in BOOLEAN /\ (stray' => closeFailed)
  BY DescFacts DEF Use
<1>2. UNCHANGED <<table, opens, obj, dit, mapped, mm, history>> /\ nullUsed' = nullUsed
  BY DEF Use
<1> QED
  BY <1>1, <1>2, LookKeeps DEF DescInv, DescTypeOK, NoStrayAccess

LEMMA IterAsksPathKeeps == ASSUME DescInv, NEW i \in Iters, IterAsksPath(i) PROVE DescInv'
<1>1. UNCHANGED <<table, opens, obj, dit, mapped, mm, history>>
      /\ nullUsed' = (nullUsed \/ NoPathLeft(i))
      /\ stray' = (stray \/ (~NoPathLeft(i) /\ Astray(obj[dit[i].path])))
      /\ dit[i].live /\ dit[i].fd # noFd
  BY DEF IterAsksPath
<1>2. ~NoPathLeft(i) => dit[i].path \in Objs
  BY DescFacts DEF NoPathLeft, IterType
<1>3. stray' \in BOOLEAN /\ (stray' => closeFailed)
  BY <1>1, <1>2, DescFacts
<1>4. NoPathLeft(i) => movedIter \/ outlived
  BY <1>1, NullIsNoObject DEF DescInv, PathsLive, NoPathLeft
<1>5. nullUsed' \in BOOLEAN /\ (nullUsed' => movedIter \/ outlived)
  BY <1>1, <1>4 DEF DescInv, DescTypeOK, NoStrayAccess
<1> QED
  BY <1>1, <1>3, <1>5, LookKeeps

(* obj[r] goes to o. *)
LEMMA MoveObjKeeps ==
  ASSUME DescInv, NEW o \in Objs, NEW r \in Objs, o # r, obj[r].live,
         obj' = [obj EXCEPT ![o] = obj[r], ![r].fd = noFd, ![r].file = 0],
         dropped' = IF obj[o].fd = noFd THEN dropped ELSE dropped \cup {obj[o].file},
         UNCHANGED <<table, opens, dit, mapped, mm, closeFailed, movedIter, outlived, stray, nullUsed>>
  PROVE  DescInv'
<1> DEFINE x == obj[r]
           y == [obj[r] EXCEPT !.fd = noFd]
           z == [y EXCEPT !.file = 0]
<1>1. obj \in [Objs -> ObjType] /\ x \in ObjType
  BY DescFacts
<1>2. y \in ObjType /\ y.live /\ y.fd = noFd
  BY <1>1 DEF ObjType
<1>3. z \in ObjType /\ z.live /\ z.fd = noFd /\ z.file = 0
  BY <1>2 DEF ObjType
<1> DEFINE g == [[obj EXCEPT ![o] = x] EXCEPT ![r] = z]
<1>4. obj' = g
  BY <1>1 DEF ObjType
<1> HIDE DEF x, y, z
<1>5. g \in [Objs -> ObjType] /\ g[o] = x /\ g[r] = z /\ \A k \in Objs \ {o, r} : g[k] = obj[k]
  BY <1>1, <1>3
<1> HIDE DEF g
<1>6. x = obj[r]
  BY DEF x
<1>7. Moves(table, opens, dropped, closeFailed, Objs, obj, Iters, dit, o, r, x, z, g, dropped')
  BY <1>3, <1>5, <1>6 DEF Moves, DescInv, FdKept
<1>8. Kept(table, opens, dropped', closeFailed, Objs, g, Iters, dit)
  BY <1>7, NoFdIsNone, MoveKept
<1>9. FdKept'
  BY <1>4, <1>8, KeptPrimed
<1>10. \A k \in Objs : obj[k].live => g[k].live
  BY <1>3, <1>5, <1>6
<1>11. PathsLive'
  BY <1>4, <1>10 DEF DescInv, PathsLive
<1>12. DescTypeOK' /\ NoStrayAccess'
  BY <1>4, <1>5 DEF DescInv, DescTypeOK, NoStrayAccess
<1>13. MapsSound(opens, mapped, mm)'
  BY SameMaps
<1> QED
  BY <1>9, <1>11, <1>12, <1>13 DEF DescInv

LEMMA MoveConstructKeeps ==
  ASSUME DescInv, NEW o \in Objs, NEW r \in Objs, MoveConstruct(o, r)
  PROVE  DescInv'
<1>1. obj[o].fd = noFd /\ o # r
  BY DescFacts DEF MoveConstruct
<1> QED
  <2>1. /\ obj[r].live
        /\ obj' = [obj EXCEPT ![o] = obj[r], ![r].fd = noFd, ![r].file = 0]
        /\ dropped' = IF obj[o].fd = noFd THEN dropped ELSE dropped \cup {obj[o].file}
        /\ UNCHANGED <<table, opens, dit, mapped, mm, closeFailed, movedIter, outlived, stray, nullUsed>>
    BY <1>1 DEF MoveConstruct, history
  <2> QED
    BY <1>1, <2>1, MoveObjKeeps

LEMMA MoveAssignKeeps ==
  ASSUME DescInv, NEW o \in Objs, NEW r \in Objs, MoveAssign(o, r)
  PROVE  DescInv'
BY MoveObjKeeps DEF MoveAssign

(* The system closes what x keeps. *)
LEMMA SysCloseFacts ==
  ASSUME DescInv, NEW x, Astray(x) => closeFailed, SysClose(x)
  PROVE  table' = Closed(table, x) /\ stray' \in BOOLEAN /\ (stray' => closeFailed)
BY DescFacts DEF SysClose, Closed

(* A File or Path lets go of its number, which is closed. *)
LEMMA CloseObjKeeps ==
  ASSUME DescInv, NEW o \in Objs, NEW x \in ObjType, x.fd = noFd, x.file = 0, SysClose(obj[o]),
         obj' = [obj EXCEPT ![o] = x],
         outlived' = (outlived \/ (~x.live /\ Watched(o))),
         UNCHANGED <<opens, dit, mapped, mm, dropped, closeFailed, movedIter, nullUsed>>
  PROVE  DescInv'
<1>1. obj \in [Objs -> ObjType]
  BY DescFacts
<1>2. table' = Closed(table, obj[o]) /\ stray' \in BOOLEAN /\ (stray' => closeFailed)
  BY DescFacts, SysCloseFacts
<1>3. Changed(Objs, obj, obj', o, x) /\ obj' \in [Objs -> ObjType]
  BY <1>1 DEF Changed
<1>4. Closes(table, opens, dropped, closeFailed, Objs, obj, Iters, dit, o, x, obj')
  BY <1>3, NoFdIsNone DEF Closes, DescInv, FdKept
<1>5. Kept(table', opens, dropped, closeFailed, Objs, obj', Iters, dit)
  BY <1>2, <1>4, CloseKept
<1>6. FdKept'
  BY <1>5, KeptPrimed
<1>7. outlived' \in BOOLEAN /\ (outlived => outlived')
  BY DEF DescInv, DescTypeOK, Watched
<1>8. PathsLive'
  <2>1. SUFFICES ASSUME NEW i \in Iters, dit[i].live, dit[i].fd # noFd, ~movedIter, ~outlived'
                 PROVE  dit[i].path \in Objs /\ obj'[dit[i].path].live
    BY DEF PathsLive
  <2>2. dit[i].path \in Objs /\ obj[dit[i].path].live
    BY <1>7, <2>1 DEF DescInv, PathsLive
  <2>3. dit[i].path = o => x.live
    BY <2>1 DEF Watched
  <2> QED
    BY <1>3, <2>2, <2>3 DEF Changed
<1>9. DescTypeOK' /\ NoStrayAccess'
  BY <1>2, <1>3, <1>7 DEF DescInv, DescTypeOK, NoStrayAccess
<1>10. MapsSound(opens, mapped, mm)'
  BY SameMaps
<1> QED
  BY <1>6, <1>8, <1>9, <1>10 DEF DescInv

LEMMA CloseFdKeeps == ASSUME DescInv, NEW o \in Objs, CloseFd(o) PROVE DescInv'
<1> DEFINE y == [obj[o] EXCEPT !.fd = noFd]
           x == [y EXCEPT !.file = 0]
<1>1. obj \in [Objs -> ObjType] /\ obj[o] \in ObjType /\ obj[o].live
  BY DescFacts DEF CloseFd
<1>2. y \in ObjType /\ y.live /\ y.fd = noFd
  BY <1>1 DEF ObjType
<1>3. x \in ObjType /\ x.live /\ x.fd = noFd /\ x.file = 0
  BY <1>2 DEF ObjType
<1>4. obj' = [obj EXCEPT ![o] = x]
  BY <1>1 DEF CloseFd, ObjType
<1> HIDE DEF x, y
<1>5. UNCHANGED <<opens, dit, mapped, mm, dropped, closeFailed, movedIter, nullUsed>>
      /\ outlived' = outlived /\ SysClose(obj[o])
  BY DEF CloseFd, history
<1>6. outlived' = (outlived \/ (~x.live /\ Watched(o)))
  BY <1>3, <1>5 DEF DescInv, DescTypeOK
<1> QED
  BY <1>3, <1>4, <1>5, <1>6, CloseObjKeeps

LEMMA DestroyKeeps == ASSUME DescInv, NEW o \in Objs, Destroy(o) PROVE DescInv'
<1>1. gone \in ObjType /\ gone.fd = noFd /\ gone.file = 0 /\ ~gone.live
  BY DEF gone, ObjType
<1> QED
  <2>1. outlived' = (outlived \/ (~gone.live /\ Watched(o)))
    BY <1>1 DEF Destroy
  <2> QED
    BY <1>1, <2>1, CloseObjKeeps DEF Destroy

LEMMA CloseThrowsKeeps == ASSUME DescInv, NEW o \in Objs, CloseThrows(o) PROVE DescInv'
<1>1. table' \in {table, Closed(table, obj[o])} /\ stray' \in BOOLEAN
  BY DescFacts, SysCloseFacts DEF CloseThrows
<1>2. closeFailed' = TRUE
      /\ UNCHANGED <<opens, obj, dit, mapped, mm, dropped, movedIter, outlived, nullUsed>>
  BY DEF CloseThrows
<1>3. Kept(table', opens, dropped, TRUE, Objs, obj, Iters, dit)
  BY <1>1, NoFdIsNone, CloseFailKept DEF DescInv, FdKept
<1>4. FdKept'
  BY <1>2, <1>3, KeptPrimed
<1>5. PathsLive' /\ DescTypeOK' /\ NoStrayAccess'
  BY <1>1, <1>2 DEF DescInv, PathsLive, DescTypeOK, NoStrayAccess
<1>6. MapsSound(opens, mapped, mm)'
  BY <1>2, SameMaps
<1> QED
  BY <1>4, <1>5, <1>6 DEF DescInv

(* The same from the side of the iterators. *)
LEMMA IterView ==
  ASSUME DescInv
  PROVE  Kept(table, opens, dropped, closeFailed, Iters, dit, Objs, obj)
BY KeptSwap DEF DescInv, FdKept

LEMMA IterPrimed ==
  ASSUME Kept(table', opens', dropped', closeFailed', Iters, dit', Objs, obj')
  PROVE  FdKept'
BY KeptSwap, KeptPrimed

(* A new iterator has nothing, at the end or of a directory that has no    *)
(* entries.                                                                *)
LEMMA NewEndIterKeeps ==
  ASSUME DescInv, NEW i \in Iters, ~dit[i].live, NEW path \in Objs \cup {Null},
         dit' = [dit EXCEPT ![i] = endIter(path)],
         UNCHANGED <<table, opens, obj, mapped, mm, history, nullUsed>>,
         stray' \in BOOLEAN, stray' => closeFailed
  PROVE  DescInv'
<1> DEFINE x == endIter(path)
<1>1. dit \in [Iters -> IterType] /\ dit[i].fd = noFd /\ dit[i].file = 0
  BY DescFacts
<1>2. x \in IterType /\ x.live /\ x.fd = noFd /\ x.file = 0
  BY DEF IterType, endIter
<1> HIDE DEF x
<1>3. Changed(Iters, dit, dit', i, x) /\ dit' \in [Iters -> IterType]
  BY <1>1, <1>2 DEF Changed, x
<1>4. Kept(table, opens, dropped, closeFailed, Iters, dit', Objs, obj)
  BY <1>1, <1>2, <1>3, IterView, SameKept
<1>5. dropped' = dropped /\ closeFailed' = closeFailed /\ movedIter' = movedIter /\ outlived' = outlived
  BY DEF history
<1>6. FdKept'
  BY <1>4, <1>5, IterPrimed
<1>7. PathsLive'
  BY <1>2, <1>3, <1>5 DEF DescInv, PathsLive, Changed
<1>8. DescTypeOK' /\ NoStrayAccess'
  BY <1>3, <1>5 DEF DescInv, DescTypeOK, NoStrayAccess
<1>9. MapsSound(opens, mapped, mm)'
  BY SameMaps
<1> QED
  BY <1>6, <1>7, <1>8, <1>9 DEF DescInv

LEMMA IterEndKeeps == ASSUME DescInv, NEW i \in Iters, IterEnd(i) PROVE DescInv'
BY DescFacts, NewEndIterKeeps DEF IterEnd

LEMMA IterBeginKeeps ==
  ASSUME DescInv, NEW i \in Iters, NEW o \in Objs, IterBegin(i, o)
  PROVE  DescInv'
<1>1. ~dit[i].live /\ obj[o].live /\ stray' \in BOOLEAN /\ (stray' => closeFailed)
      /\ UNCHANGED <<obj, mapped, mm, history, nullUsed>>
  BY DescFacts DEF IterBegin, CanList
<1>2. CASE dit' = [dit EXCEPT ![i] = endIter(o)] /\ UNCHANGED <<table, opens>>
  BY <1>1, <1>2, NewEndIterKeeps
<1>3. CASE SysOpen /\ dit' = [dit EXCEPT ![i] = [live |-> TRUE, path |-> o,
                                                 fd |-> newFd, file |-> newFile]]
  <2> DEFINE x == [live |-> TRUE, path |-> o, fd |-> newFd, file |-> newFile]
  <2>1. newFd \in Fds /\ table[newFd] = 0
    BY <1>3, NewFdIsFree DEF SysOpen
  <2>2. dit \in [Iters -> IterType] /\ dit[i].file = 0 /\ opens \in Nat
    BY <1>1, DescFacts
  <2>3. x \in IterType /\ x.live /\ x.fd = newFd /\ x.file = opens + 1 /\ x.path = o
    BY <2>1, <2>2 DEF IterType, newFile
  <2> HIDE DEF x
  <2>4. Changed(Iters, dit, dit', i, x) /\ dit' \in [Iters -> IterType]
    BY <1>3, <2>2, <2>3 DEF Changed, x
  <2>5. table' = [table EXCEPT ![newFd] = opens + 1] /\ opens' = opens + 1
    BY <1>3 DEF SysOpen, newFile
  <2>6. Opens(table, opens, dropped, closeFailed, Iters, dit, Objs, obj, newFd, i, x, table', dit')
    BY <2>1, <2>2, <2>3, <2>4, <2>5, IterView DEF Opens
  <2>7. Kept(table', opens + 1, dropped, closeFailed, Iters, dit', Objs, obj)
    BY <2>6, OpenKept
  <2>8. dropped' = dropped /\ closeFailed' = closeFailed /\ movedIter' = movedIter /\ outlived' = outlived
        /\ obj' = obj /\ nullUsed' = nullUsed /\ mm' = mm
    BY <1>1 DEF history
  <2>9. FdKept'
    BY <2>5, <2>7, <2>8, IterPrimed
  <2>10. PathsLive'
    BY <1>1, <2>3, <2>4, <2>8 DEF DescInv, PathsLive, Changed
  <2>11. DescTypeOK' /\ NoStrayAccess'
    BY <1>1, <2>4, <2>8 DEF DescInv, DescTypeOK, NoStrayAccess
  <2>12. MapsSound(opens, mapped, mm)'
    BY <1>1, <2>5, SameMaps
  <2> QED
    BY <2>9, <2>10, <2>11, <2>12 DEF DescInv
<1> QED
  BY <1>2, <1>3 DEF IterBegin

LEMMA IterBeginThrowsKeeps ==
  ASSUME DescInv, NEW i \in Iters, NEW o \in Objs, IterBeginThrows(i, o)
  PROVE  DescInv'
<1>1. newFd \in Fds /\ table[newFd] = 0
  BY NewFdIsFree DEF IterBeginThrows, SysOpen
<1>2. table' = [table EXCEPT ![newFd] = opens + 1] /\ opens' = opens + 1
      /\ dropped' = dropped \cup {opens + 1} /\ stray' \in BOOLEAN /\ (stray' => closeFailed)
  BY DescFacts DEF IterBeginThrows, SysOpen, newFile
<1>3. UNCHANGED <<obj, dit, mapped, mm, closeFailed, movedIter, outlived, nullUsed>>
  BY DEF IterBeginThrows
<1>4. Kept([table EXCEPT ![newFd] = opens + 1], opens + 1, dropped \cup {opens + 1}, closeFailed, Objs, obj, Iters, dit)
  BY <1>1, LostKept DEF DescInv, FdKept
<1>5. FdKept'
  BY <1>2, <1>3, <1>4, KeptPrimed
<1>6. PathsLive' /\ DescTypeOK' /\ NoStrayAccess'
  BY <1>2, <1>3 DEF DescInv, PathsLive, DescTypeOK, NoStrayAccess
<1>7. MapsSound(opens, mapped, mm)'
  BY <1>2, <1>3, SameMaps
<1> QED
  BY <1>5, <1>6, <1>7 DEF DescInv

LEMMA IterMoveKeeps ==
  ASSUME DescInv, NEW i \in Iters, NEW j \in Iters, IterMove(i, j)
  PROVE  DescInv'
<1> DEFINE x == [dit[j] EXCEPT !.path = Null]
           y == [dit[j] EXCEPT !.fd = noFd]
           z == [y EXCEPT !.file = 0]
           g == [[dit EXCEPT ![i] = x] EXCEPT ![j] = z]
<1>1. dit \in [Iters -> IterType] /\ dit[j] \in IterType /\ i # j /\ dit[i].fd = noFd /\ dit[j].live
  BY DescFacts DEF IterMove
<1>2. x \in IterType /\ x.live /\ x.fd = dit[j].fd /\ x.file = dit[j].file
  BY <1>1 DEF IterType
<1>3. y \in IterType /\ y.live /\ y.fd = noFd
  BY <1>1 DEF IterType
<1>4. z \in IterType /\ z.live /\ z.fd = noFd /\ z.file = 0
  BY <1>3 DEF IterType
<1>5. dit' = g
  BY <1>1 DEF IterMove, IterType
<1> HIDE DEF x, y, z
<1>6. g \in [Iters -> IterType] /\ g[i] = x /\ g[j] = z /\ \A k \in Iters \ {i, j} : g[k] = dit[k]
  BY <1>1, <1>2, <1>4
<1> HIDE DEF g
<1>7. Moves(table, opens, dropped, closeFailed, Iters, dit, Objs, obj, i, j, x, z, g, dropped)
  BY <1>1, <1>2, <1>4, <1>6, IterView DEF Moves
<1>8. Kept(table, opens, dropped, closeFailed, Iters, g, Objs, obj)
  BY <1>7, NoFdIsNone, MoveKept
<1>9. movedIter' = TRUE /\ UNCHANGED <<table, opens, obj, mapped, mm, dropped, closeFailed, outlived, stray, nullUsed>>
  BY DEF IterMove
<1>10. FdKept'
  BY <1>5, <1>8, <1>9, IterPrimed
<1>11. PathsLive' /\ DescTypeOK' /\ NoStrayAccess'
  BY <1>5, <1>6, <1>9 DEF DescInv, PathsLive, DescTypeOK, NoStrayAccess
<1>12. MapsSound(opens, mapped, mm)'
  BY <1>9, SameMaps
<1> QED
  BY <1>10, <1>11, <1>12 DEF DescInv

(* An iterator lets go of its directory, which is closed. *)
LEMMA CloseIterKeeps ==
  ASSUME DescInv, NEW i \in Iters, NEW x \in IterType, x.fd = noFd, x.file = 0, SysClose(dit[i]),
         dit' = [dit EXCEPT ![i] = x],
         UNCHANGED <<opens, obj, mapped, mm, history, nullUsed>>
  PROVE  DescInv'
<1>1. dit \in [Iters -> IterType]
  BY DescFacts
<1>2. table' = Closed(table, dit[i]) /\ stray' \in BOOLEAN /\ (stray' => closeFailed)
  BY DescFacts, SysCloseFacts
<1>3. Changed(Iters, dit, dit', i, x) /\ dit' \in [Iters -> IterType]
  BY <1>1 DEF Changed
<1>4. Closes(table, opens, dropped, closeFailed, Iters, dit, Objs, obj, i, x, dit')
  BY <1>3, NoFdIsNone, IterView DEF Closes
<1>5. Kept(table', opens, dropped, closeFailed, Iters, dit', Objs, obj)
  BY <1>2, <1>4, CloseKept
<1>6. dropped' = dropped /\ closeFailed' = closeFailed /\ movedIter' = movedIter /\ outlived' = outlived
  BY DEF history
<1>7. FdKept'
  BY <1>5, <1>6, IterPrimed
<1>8. PathsLive'
  BY <1>3, <1>6 DEF DescInv, PathsLive, Changed
<1>9. DescTypeOK' /\ NoStrayAccess'
  BY <1>2, <1>3, <1>6 DEF DescInv, DescTypeOK, NoStrayAccess
<1>10. MapsSound(opens, mapped, mm)'
  BY SameMaps
<1> QED
  BY <1>7, <1>8, <1>9, <1>10 DEF DescInv

LEMMA IterNextKeeps == ASSUME DescInv, NEW i \in Iters, IterNext(i) PROVE DescInv'
<1> DEFINE y == [dit[i] EXCEPT !.fd = noFd]
           x == [y EXCEPT !.file = 0]
<1>1. dit \in [Iters -> IterType] /\ dit[i] \in IterType
  BY DescFacts
<1>2. y \in IterType /\ y.fd = noFd
  BY <1>1 DEF IterType
<1>3. x \in IterType /\ x.fd = noFd /\ x.file = 0
  BY <1>2 DEF IterType
<1>4. dit' = [dit EXCEPT ![i] = x]
  BY <1>1 DEF IterNext, IterType
<1> HIDE DEF x, y
<1> QED
  BY <1>3, <1>4, CloseIterKeeps DEF IterNext

LEMMA IterDestroyKeeps == ASSUME DescInv, NEW i \in Iters, IterDestroy(i) PROVE DescInv'
<1>1. goneIter \in IterType /\ goneIter.fd = noFd /\ goneIter.file = 0
  BY DEF goneIter, IterType
<1> QED
  BY <1>1, CloseIterKeeps DEF IterDestroy

(* Mappings are counted with the opens but are not in the table. *)
LEMMA CountKept ==
  ASSUME NEW tbl, NEW opn, NEW drp, NEW cf, NEW S, NEW A, NEW T, NEW B,
         Kept(tbl, opn, drp, cf, S, A, T, B),
         NEW opn2 \in {opn, opn + 1}
  PROVE  Kept(tbl, opn2, drp, cf, S, A, T, B)
<1>1. TableSound(tbl, opn, drp)
  BY DEF Kept
<1>2. opn \in Nat /\ opn2 \in Nat /\ opn <= opn2 /\ 1..opn \subseteq 1..opn2
  BY <1>1 DEF TableSound
<1>3. TableSound(tbl, opn2, drp)
  BY <1>1, <1>2 DEF TableSound
<1>4. \A y : Sane(y, tbl, opn, drp, cf) => Sane(y, tbl, opn2, drp, cf)
  BY <1>2 DEF Sane
<1> QED
  BY <1>3, <1>4 DEF Kept

LEMMA MapStepKeeps ==
  ASSUME DescInv, NEW M \in [Maps -> MapType], mm' = M, UNCHANGED mapRest,
         opens' \in {opens, opens + 1}, MapsSound(opens', mapped', M)
  PROVE  DescInv'
<1>1. UNCHANGED <<table, obj, dit, dropped, closeFailed, movedIter, outlived, stray, nullUsed>>
  BY DEF mapRest, history
<1>2. Kept(table, opens', dropped, closeFailed, Objs, obj, Iters, dit)
  BY CountKept DEF DescInv, FdKept
<1>3. FdKept'
  BY <1>1, <1>2, KeptPrimed
<1>4. PathsLive' /\ DescTypeOK' /\ NoStrayAccess'
  BY <1>1 DEF DescInv, PathsLive, DescTypeOK, NoStrayAccess
<1>5. MapsSound(opens, mapped, mm)'
  BY DEF MapsSound
<1> QED
  BY <1>3, <1>4, <1>5 DEF DescInv

LEMMA MapFacts ==
  ASSUME DescInv
  PROVE  mm \in [Maps -> MapType] /\ opens \in Nat /\ MapsSound(opens, mapped, mm)
BY DescFacts DEF DescInv

LEMMA MapFileKeeps == ASSUME DescInv, NEW m \in Maps, MapFile(m) PROVE DescInv'
<1> DEFINE x == [live |-> TRUE, addr |-> opens + 1]
           M == [mm EXCEPT ![m] = x]
<1>1. mm \in [Maps -> MapType] /\ opens \in Nat /\ MapsSound(opens, mapped, mm) /\ ~mm[m].live
  BY MapFacts DEF MapFile
<1>2. x \in MapType /\ x.live /\ x.addr = opens + 1
  BY <1>1 DEF MapType
<1>3. mm' = M /\ opens' = opens + 1 /\ mapped' = mapped \cup {opens + 1} /\ UNCHANGED mapRest
  BY DEF MapFile, newFile
<1> HIDE DEF x
<1>4. M \in [Maps -> MapType] /\ M[m] = x /\ \A k \in Maps \ {m} : M[k] = mm[k]
  BY <1>1, <1>2
<1> HIDE DEF M
<1>5. mm[m].addr = MAP_FAILED /\ mapped \subseteq 1..opens /\ opens + 1 # MAP_FAILED
  BY <1>1 DEF MapsSound, MAP_FAILED
<1>6. MapsSound(opens + 1, mapped \cup {opens + 1}, M)
  <2>1. mapped \cup {opens + 1} \subseteq 1..(opens + 1) /\ opens + 1 \notin mapped
    BY <1>1, <1>5
  <2>2. \A k \in Maps : M[k].addr # MAP_FAILED => M[k].live /\ M[k].addr \in mapped \cup {opens + 1}
    BY <1>1, <1>2, <1>4 DEF MapsSound
  <2>3. \A a \in mapped \cup {opens + 1} : \E k \in Maps : M[k].addr = a
    <3>1. TAKE a \in mapped \cup {opens + 1}
    <3>2. CASE a = opens + 1
      BY <1>2, <1>4, <3>2
    <3>3. CASE a \in mapped
      <4>1. PICK k \in Maps : mm[k].addr = a
        BY <1>1, <3>3 DEF MapsSound
      <4>2. k # m
        BY <1>5, <3>3, <4>1 DEF MAP_FAILED
      <4> QED
        BY <1>4, <4>1, <4>2
    <3> QED
      BY <3>2, <3>3
  <2>4. \A k \in Maps \ {m} : mm[k].addr # opens + 1
    BY <1>1, <1>5, <2>1 DEF MapsSound
  <2>5. \A k, l \in Maps : M[k].addr # MAP_FAILED /\ M[k].addr = M[l].addr => k = l
    BY <1>1, <1>2, <1>4, <2>4 DEF MapsSound
  <2> QED
    BY <2>1, <2>2, <2>3, <2>5 DEF MapsSound
<1> QED
  BY <1>3, <1>4, <1>6, MapStepKeeps

(* An MMap takes the mapping of another. *)
LEMMA MapTakes ==
  ASSUME NEW opn, NEW mpd, NEW A \in [Maps -> MapType], MapsSound(opn, mpd, A),
         NEW m \in Maps, NEW n \in Maps, m # n, A[m].addr = MAP_FAILED, A[n].live,
         NEW M, M[m].live, M[m].addr = A[n].addr, M[n].addr = MAP_FAILED,
         \A k \in Maps \ {m, n} : M[k] = A[k]
  PROVE  MapsSound(opn, mpd, M)
<1>1. \A k \in Maps : M[k].addr # MAP_FAILED => M[k].live /\ M[k].addr \in mpd
  BY DEF MapsSound
<1>2. \A a \in mpd : \E k \in Maps : M[k].addr = a
  <2>1. TAKE a \in mpd
  <2>2. PICK k \in Maps : A[k].addr = a
    BY DEF MapsSound
  <2>3. CASE k = n
    BY <2>2, <2>3
  <2>4. CASE k # n
    <3>1. k # m
      <4>1. mpd \subseteq 1..opn
        BY DEF MapsSound
      <4> QED
        BY <2>1, <2>2, <4>1 DEF MAP_FAILED
    <3> QED
      BY <2>2, <2>4, <3>1
  <2> QED
    BY <2>3, <2>4
<1>3. \A k, l \in Maps : M[k].addr # MAP_FAILED /\ M[k].addr = M[l].addr => k = l
  <2>1. SUFFICES ASSUME NEW k \in Maps, NEW l \in Maps, M[k].addr # MAP_FAILED, M[k].addr = M[l].addr
                 PROVE  k = l
    OBVIOUS
  <2>2. k # n /\ l # n
    BY <2>1
  <2> QED
    BY <2>1, <2>2 DEF MapsSound
<1> QED
  BY <1>1, <1>2, <1>3 DEF MapsSound

(* An MMap gives up its mapping. *)
LEMMA MapGivesUp ==
  ASSUME NEW opn, NEW mpd, NEW A \in [Maps -> MapType], MapsSound(opn, mpd, A),
         NEW m \in Maps, NEW M, M[m].addr = MAP_FAILED,
         \A k \in Maps \ {m} : M[k] = A[k]
  PROVE  MapsSound(opn, mpd \ {A[m].addr}, M)
<1>1. \A k \in Maps : M[k].addr # MAP_FAILED => M[k].live /\ M[k].addr \in mpd \ {A[m].addr}
  BY DEF MapsSound
<1>2. \A a \in mpd \ {A[m].addr} : \E k \in Maps : M[k].addr = a
  <2>1. TAKE a \in mpd \ {A[m].addr}
  <2>2. PICK k \in Maps : A[k].addr = a
    BY DEF MapsSound
  <2> QED
    BY <2>2
<1>3. \A k, l \in Maps : M[k].addr # MAP_FAILED /\ M[k].addr = M[l].addr => k = l
  BY DEF MapsSound
<1> QED
  BY <1>1, <1>2, <1>3 DEF MapsSound

LEMMA MapMoveKeeps == ASSUME DescInv, NEW m \in Maps, NEW n \in Maps, MapMove(m, n) PROVE DescInv'
<1> DEFINE x == mm[n]
           z == [mm[n] EXCEPT !.addr = MAP_FAILED]
           M == [[mm EXCEPT ![m] = x] EXCEPT ![n] = z]
<1>1. mm \in [Maps -> MapType] /\ MapsSound(opens, mapped, mm) /\ ~mm[m].live /\ mm[n].live /\ m # n
  BY MapFacts DEF MapMove
<1>2. z \in MapType /\ z.addr = MAP_FAILED /\ x \in MapType
  BY <1>1 DEF MapType, MAP_FAILED
<1>3. mm' = M /\ UNCHANGED <<opens, mapped, mapRest>>
  BY <1>1 DEF MapMove, MapType
<1>4. x.live /\ x.addr = mm[n].addr
  BY <1>1
<1> HIDE DEF x, z
<1>5. M \in [Maps -> MapType] /\ M[m] = x /\ M[n] = z /\ \A k \in Maps \ {m, n} : M[k] = mm[k]
  BY <1>1, <1>2
<1> HIDE DEF M
<1>6. mm[m].addr = MAP_FAILED
  BY <1>1 DEF MapsSound
<1>7. MapsSound(opens, mapped, M)
  BY <1>1, <1>2, <1>4, <1>5, <1>6, MapTakes
<1> QED
  BY <1>3, <1>5, <1>7, MapStepKeeps

LEMMA MapAssignKeeps == ASSUME DescInv, NEW m \in Maps, NEW n \in Maps, MapAssign(m, n) PROVE DescInv'
<1>1. mm \in [Maps -> MapType] /\ MapsSound(opens, mapped, mm) /\ mm[m].live /\ mm[n].live /\ m # n
  BY MapFacts DEF MapAssign
<1>2. CASE mm[m].addr = MAP_FAILED
  <2>1. mm' = mm /\ mapped' = mapped /\ opens' = opens /\ UNCHANGED mapRest
    BY <1>2 DEF MapAssign
  <2> QED
    BY <1>1, <2>1, MapStepKeeps
<1>3. CASE mm[m].addr # MAP_FAILED
  <2> DEFINE x == [mm[m] EXCEPT !.addr = mm[n].addr]
             y == [mm[m] EXCEPT !.addr = MAP_FAILED]
             z == [mm[n] EXCEPT !.addr = MAP_FAILED]
             A == [mm EXCEPT ![m] = y]
             M == [[mm EXCEPT ![m] = x] EXCEPT ![n] = z]
  <2>1. /\ x \in MapType /\ x.live /\ x.addr = mm[n].addr
        /\ y \in MapType /\ y.addr = MAP_FAILED
        /\ z \in MapType /\ z.addr = MAP_FAILED
    BY <1>1 DEF MapType, MAP_FAILED
  <2>2. mm' = M /\ mapped' = mapped \ {mm[m].addr} /\ opens' = opens /\ UNCHANGED mapRest
    BY <1>1, <1>3 DEF MapAssign, MapType
  <2> HIDE DEF x, y, z
  <2>3. M \in [Maps -> MapType] /\ M[m] = x /\ M[n] = z /\ \A k \in Maps \ {m, n} : M[k] = mm[k]
    BY <1>1, <2>1
  <2>4. A \in [Maps -> MapType] /\ A[m] = y /\ \A k \in Maps \ {m} : A[k] = mm[k]
    BY <1>1, <2>1
  <2> HIDE DEF A, M
  <2>5. MapsSound(opens, mapped \ {mm[m].addr}, A)
    BY <1>1, <2>1, <2>4, MapGivesUp
  <2>6. A[n].live /\ A[m].addr = MAP_FAILED /\ M[m].live /\ M[m].addr = A[n].addr
        /\ M[n].addr = MAP_FAILED /\ \A k \in Maps \ {m, n} : M[k] = A[k]
    BY <1>1, <2>1, <2>3, <2>4
  <2>7. MapsSound(opens, mapped \ {mm[m].addr}, M)
    BY <1>1, <2>4, <2>5, <2>6, MapTakes
  <2> QED
    BY <2>2, <2>3, <2>7, MapStepKeeps
<1> QED
  BY <1>2, <1>3

(* munmap(), or the destructor. *)
LEMMA UnmapKeeps ==
  ASSUME DescInv, NEW m \in Maps, NEW x \in MapType, x.addr = MAP_FAILED,
         mapped' = mapped \ {mm[m].addr}, mm' = [mm EXCEPT ![m] = x], UNCHANGED <<opens, mapRest>>
  PROVE  DescInv'
<1> DEFINE M == [mm EXCEPT ![m] = x]
<1>1. mm \in [Maps -> MapType] /\ MapsSound(opens, mapped, mm)
  BY MapFacts
<1>2. M \in [Maps -> MapType] /\ M[m] = x /\ \A k \in Maps \ {m} : M[k] = mm[k]
  BY <1>1
<1>3. mm' = M
  OBVIOUS
<1> HIDE DEF M
<1>4. MapsSound(opens, mapped \ {mm[m].addr}, M)
  BY <1>1, <1>2, MapGivesUp
<1> QED
  BY <1>2, <1>3, <1>4, MapStepKeeps

LEMMA MunmapKeeps == ASSUME DescInv, NEW m \in Maps, Munmap(m) PROVE DescInv'
<1> DEFINE x == [mm[m] EXCEPT !.addr = MAP_FAILED]
<1>1. mm \in [Maps -> MapType]
  BY MapFacts
<1>2. x \in MapType /\ x.addr = MAP_FAILED
  BY <1>1 DEF MapType, MAP_FAILED
<1>3. mm' = [mm EXCEPT ![m] = x]
  BY <1>1 DEF Munmap
<1> HIDE DEF x
<1> QED
  BY <1>2, <1>3, UnmapKeeps DEF Munmap

LEMMA MapDestroyKeeps == ASSUME DescInv, NEW m \in Maps, MapDestroy(m) PROVE DescInv'
<1>1. goneMap \in MapType /\ goneMap.addr = MAP_FAILED
  BY DEF goneMap, MapType, MAP_FAILED
<1> QED
  BY <1>1, UnmapKeeps DEF MapDestroy

(* The inductive invariant of the owners.  OwnedOnce alone is not          *)
(* inductive: after a failed close() an object keeps a number it no longer *)
(* owns, and what it does next is harmless to the others only because      *)
(* opens are never taken twice (Sane).                                     *)
LEMMA DescInvariance == DescSpec => []DescInv
<1>1. DescInit => DescInv
  <2> SUFFICES ASSUME DescInit PROVE DescInv
    OBVIOUS
  <2>1. /\ gone \in ObjType /\ gone.fd = noFd /\ gone.file = 0
        /\ goneIter \in IterType /\ goneIter.fd = noFd /\ goneIter.file = 0 /\ ~goneIter.live
        /\ goneMap \in MapType /\ goneMap.addr = MAP_FAILED
    BY DEF gone, ObjType, goneIter, IterType, goneMap, MapType, MAP_FAILED
  <2>2. DescTypeOK /\ NoStrayAccess
    BY <2>1 DEF DescInit, DescTypeOK, NoStrayAccess
  <2>3. (\A o \in Objs : obj[o] = gone) /\ (\A i \in Iters : dit[i] = goneIter)
        /\ (\A m \in Maps : mm[m] = goneMap) /\ (\A n \in Fds : table[n] = 0)
    BY DEF DescInit
  <2>4. TableSound(table, opens, dropped)
    BY DEF DescInit, TableSound
  <2>5. FdKept
    BY <2>1, <2>3, <2>4 DEF FdKept, Kept, Sane, Apart
  <2>6. PathsLive
    BY <2>1, <2>3 DEF PathsLive
  <2>7. MapsSound(opens, mapped, mm)
    BY <2>1, <2>3 DEF DescInit, MapsSound
  <2> QED
    BY <2>2, <2>5, <2>6, <2>7 DEF DescInv
<1>2. DescInv /\ [DescNext]_descVars => DescInv'
  <2> SUFFICES ASSUME DescInv, [DescNext]_descVars
               PROVE  DescInv'
    OBVIOUS
  <2>1. CASE UNCHANGED descVars
    <3>1. UNCHANGED <<table, opens, obj, dit, mapped, mm, history>> /\ stray' = stray /\ nullUsed' = nullUsed
      BY <2>1 DEF descVars, history
    <3> QED
      BY <3>1, LookKeeps DEF DescInv, DescTypeOK, NoStrayAccess
  <2>2. CASE FdNext
    BY <2>2, ConstructKeeps, ConstructAtKeeps, UseKeeps, MoveConstructKeeps, MoveAssignKeeps,
       CloseFdKeeps, CloseThrowsKeeps, DestroyKeeps, IterEndKeeps, IterBeginKeeps,
       IterBeginThrowsKeeps, IterMoveKeeps, IterNextKeeps, IterAsksPathKeeps, IterDestroyKeeps
       DEF FdNext
  <2>3. CASE MapNext
    BY <2>3, MapFileKeeps, MapMoveKeeps, MapAssignKeeps, MunmapKeeps, MapDestroyKeeps DEF MapNext
  <2> QED
    BY <2>1, <2>2, <2>3 DEF DescNext
<1> QED
  BY <1>1, <1>2, PTL DEF DescSpec

LEMMA DescInvImpliesOwned == ASSUME DescInv PROVE OwnedOnce
<1>0. FdKept /\ MapsSound(opens, mapped, mm)
  BY DEF DescInv
<1>1. ASSUME NEW n \in Fds, table[n] # 0, table[n] \in dropped
      PROVE  Owners(n) = {}
  BY <1>0, <1>1, NoFdIsNone DEF FdKept, Kept, Sane, Owners
<1>2. ASSUME NEW n \in Fds, table[n] # 0, table[n] \notin dropped
      PROVE  Cardinality(Owners(n)) = 1
  <2>1. CASE \E o \in Objs : obj[o].file = table[n]
    <3>1. PICK o \in Objs : obj[o].file = table[n]
      BY <2>1
    <3>2. obj[o].live /\ obj[o].fd = n
      BY <1>0, <1>2, <3>1 DEF FdKept, Kept, Sane
    <3>3. \A k \in Objs : obj[k].file = table[n] => k = o
      BY <1>0, <1>2, <3>1 DEF FdKept, Kept, Apart
    <3>4. \A i \in Iters : dit[i].file # table[n]
      BY <1>0, <1>2, <3>1 DEF FdKept, Kept
    <3>5. Owners(n) = {o}
      BY <3>1, <3>2, <3>3, <3>4 DEF Owners
    <3> QED
      BY <3>5, FS_Singleton
  <2>2. CASE \E i \in Iters : dit[i].file = table[n]
    <3>1. PICK i \in Iters : dit[i].file = table[n]
      BY <2>2
    <3>2. dit[i].live /\ dit[i].fd = n
      BY <1>0, <1>2, <3>1 DEF FdKept, Kept, Sane
    <3>3. \A k \in Iters : dit[k].file = table[n] => k = i
      BY <1>0, <1>2, <3>1 DEF FdKept, Kept, Apart
    <3>4. \A o \in Objs : obj[o].file # table[n]
      BY <1>0, <1>2, <3>1 DEF FdKept, Kept
    <3>5. Owners(n) = {i}
      BY <3>1, <3>2, <3>3, <3>4 DEF Owners
    <3> QED
      BY <3>5, FS_Singleton
  <2> QED
    BY <1>0, <1>2, <2>1, <2>2 DEF FdKept, Kept
<1>3. ASSUME NEW a \in mapped
      PROVE  Cardinality({m \in Maps : mm[m].addr = a}) = 1
  <2>1. PICK m \in Maps : mm[m].addr = a
    BY <1>0 DEF MapsSound
  <2>2. a # MAP_FAILED
    BY <1>0 DEF MapsSound, MAP_FAILED
  <2>3. {k \in Maps : mm[k].addr = a} = {m}
    BY <1>0, <2>1, <2>2 DEF MapsSound
  <2> QED
    BY <2>3, FS_Singleton
<1> QED
  BY <1>0, <1>1, <1>2, <1>3 DEF OwnedOnce, MapsSound

(* Any number of File, Path, Path::iterator and MMap objects, moved,       *)
(* assigned, closed and destroyed in any order with any calls failing:     *)
(* every descriptor that is open has one owner unless the code dropped it, *)
(* and every mapping has one.                                              *)
THEOREM DescriptorsOwnedOnce == DescSpec => []OwnedOnce
BY DescInvariance, DescInvImpliesOwned, PTL

(* Only after a failed close() does an object touch a descriptor of        *)
(* somebody else's; only after an iterator was moved or outlived its Path  *)
(* is a null or dangling path used.                                        *)
THEOREM StrayAccessNeedsFailure == DescSpec => []NoStrayAccess
BY DescInvariance, PTL DEF DescInv

-----------------------------------------------------------------------------
(* Whole files.                                                            *)

FileText == Seq(Letters \cup {"missing"})

FilesInv ==
  /\ content \in [FileNames -> FileText]
  /\ meant \in [FileNames -> FileText]
  /\ spoilt \in [FileNames -> BOOLEAN]
  /\ \A n \in FileNames : ~spoilt[n] => content[n] = meant[n]

LEMMA DataIsText == ASSUME NEW d \in Data PROVE d \in FileText
<1>1. PICK m \in 0..DataLen : d \in [1..m -> Letters]
  BY DEF Data, BoundedSeq, SeqOf
<1>2. m \in Nat
  BY DataLenAssumption
<1> QED
  BY <1>1, <1>2 DEF FileText

(* write_file leaves what it was to write when the file was no longer. *)
LEMMA OverCovers ==
  ASSUME NEW d \in FileText, NEW s \in FileText
  PROVE  over(d, s) \in FileText /\ (~(Len(s) > Len(d)) => over(d, s) = d)
<1>1. SubSeq(s, Len(d) + 1, Len(s)) \in FileText
  BY DEF FileText
<1>2. ASSUME Len(s) <= Len(d)
      PROVE  SubSeq(s, Len(d) + 1, Len(s)) = <<>>
  BY <1>2 DEF FileText
<1>3. d \o <<>> = d
  BY DEF FileText
<1> QED
  BY <1>1, <1>2, <1>3 DEF over, FileText

LEMMA FilesInvariance == FilesSpec => []FilesInv
<1>1. FilesInit => FilesInv
  <2>1. Missing \in FileText
    BY DEF Missing, FileText
  <2> QED
    BY <2>1 DEF FilesInit, FilesInv
<1>2. FilesInv /\ [FilesNext]_fileVars => FilesInv'
  <2> SUFFICES ASSUME FilesInv, [FilesNext]_fileVars
               PROVE  FilesInv'
    OBVIOUS
  <2> USE DEF FilesInv
  <2>0. Missing \in FileText /\ <<>> \in FileText
    BY DEF Missing, FileText
  <2>1. \A n \in FileNames : old(n) \in FileText
    BY <2>0 DEF old
  <2>2. ASSUME NEW n \in FileNames, NEW d \in Data, WriteFile(n, d)
        PROVE  FilesInv'
    <3> DEFINE short == Len(old(n)) > Len(d)
    <3>1. d \in FileText
      BY DataIsText
    <3>2. over(d, old(n)) \in FileText /\ (~short => over(d, old(n)) = d)
      BY <2>1, <3>1, OverCovers
    <3>3. short \in BOOLEAN
      OBVIOUS
    <3>4. spoilt' = [spoilt EXCEPT ![n] = short]
      BY <2>2 DEF WriteFile
    <3> HIDE DEF short
    <3>5. spoilt' \in [FileNames -> BOOLEAN] /\ (spoilt'[n] <=> short)
          /\ \A k \in FileNames \ {n} : spoilt'[k] = spoilt[k]
      BY <3>3, <3>4
    <3>6. content' \in [FileNames -> FileText] /\ content'[n] = over(d, old(n))
          /\ \A k \in FileNames \ {n} : content'[k] = content[k]
      BY <2>2, <3>2 DEF WriteFile
    <3>7. meant' \in [FileNames -> FileText] /\ meant'[n] = d
          /\ \A k \in FileNames \ {n} : meant'[k] = meant[k]
      BY <2>2, <3>1 DEF WriteFile
    <3> QED
      BY <3>2, <3>5, <3>6, <3>7
  <2>3. ASSUME NEW n \in FileNames, NEW d \in Data, NEW k \in 0..Len(d), WriteFileThrows(n, d, k)
        PROVE  FilesInv'
    <3>1. d \in FileText
      BY DataIsText
    <3>2. SubSeq(d, 1, k) \in FileText
      BY <3>1 DEF FileText
    <3>3. over(SubSeq(d, 1, k), old(n)) \in FileText
      BY <2>1, <3>2, OverCovers
    <3> QED
      BY <2>3, <3>3 DEF WriteFileThrows
  <2>4. ASSUME NEW n \in FileNames, UnlinkIfExists(n)
        PROVE  FilesInv'
    BY <2>0, <2>4 DEF UnlinkIfExists
  <2>5. ASSUME NEW n \in FileNames, NEW m \in FileNames, RenameIfExists(n, m)
        PROVE  FilesInv'
    BY <2>0, <2>5 DEF RenameIfExists, fileVars
  <2>6. CASE UNCHANGED fileVars
    BY <2>6 DEF fileVars
  <2> QED
    BY <2>2, <2>3, <2>4, <2>5, <2>6 DEF FilesNext
<1> QED
  BY <1>1, <1>2, PTL DEF FilesSpec

(* Writes, failed writes, removals and renames of any files in any order:  *)
(* a file that no failed or shorter write has spoilt is what the last call *)
(* meant, and reads back so unless it is empty.                            *)
THEOREM FilesReadLastWrite == FilesSpec => []ReadsLastWrite
<1>1. FilesInv => ReadsLastWrite
  BY DEF FilesInv, ReadsLastWrite, read_file, size, exists
<1> QED
  BY <1>1, FilesInvariance, PTL
=============================================================================

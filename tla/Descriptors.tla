---------------------------- MODULE Descriptors -----------------------------
(***************************************************************************)
(* The objects of ept::sys that own something of the system's: File and    *)
(* Path (a descriptor), Path::iterator (the descriptor of a DIR) and MMap  *)
(* (a mapping).  They are moved, assigned, closed and destroyed in any     *)
(* order; every system call may fail.                                      *)
(*                                                                         *)
(* Descriptors are numbers and the system gives out the lowest free one,   *)
(* so a number that was closed comes back for something else.  To tell     *)
(* what a number meant to the object that keeps it, opens are counted.     *)
(***************************************************************************)
EXTENDS Integers, FiniteSets, FiniteSetsExt

CONSTANTS
  Objs,       \* variables of type File or Path
  Iters,      \* variables of type Path::iterator
  Maps,       \* variables of type MMap
  Fds,        \* descriptor numbers
  Null,
  MaxOpens    \* bound on the number of opens and mmaps

ASSUME FdsAssumption == Fds \subseteq Nat /\ IsFiniteSet(Fds)
ASSUME NullIsNoObject == Null \notin Objs

VARIABLES
  table,      \* descriptor table: which open a number stands for, 0 if none
  opens,      \* how many opens and mmaps there have been
  obj,        \* File and Path objects: fd, and (ghost) the open it means
  dit,        \* iterators: path, the fd of dir, and (ghost) its open
  mapped,     \* the mappings there are
  mm,         \* MMap objects: addr
  dropped,    \* history: opens whose only owner forgot them
  closeFailed, movedIter, outlived,  \* history, see the properties
  stray,      \* a system call was made on a descriptor of somebody else's
  nullUsed    \* a null or dangling pointer was used

descVars == <<table, opens, obj, dit, mapped, mm, dropped,
              closeFailed, movedIter, outlived, stray, nullUsed>>
history == <<dropped, closeFailed, movedIter, outlived>>

noFd == -1
gone == [live |-> FALSE, fd |-> noFd, file |-> 0]
goneIter == [live |-> FALSE, path |-> Null, fd |-> noFd, file |-> 0]
MAP_FAILED == 0
goneMap == [live |-> FALSE, addr |-> MAP_FAILED]

DescInit ==
  /\ table = [n \in Fds |-> 0] /\ opens = 0
  /\ obj = [o \in Objs |-> gone]
  /\ dit = [i \in Iters |-> goneIter]
  /\ mapped = {} /\ mm = [m \in Maps |-> goneMap]
  /\ dropped = {}
  /\ closeFailed = FALSE /\ movedIter = FALSE /\ outlived = FALSE
  /\ stray = FALSE /\ nullUsed = FALSE

-----------------------------------------------------------------------------
FreeFds == {n \in Fds : table[n] = 0}
CanOpen == opens < MaxOpens /\ FreeFds # {}
newFd == Min(FreeFds)
newFile == opens + 1

(* x, an object or an iterator, keeps a number that is now another's. *)
Astray(x) == x.fd # noFd /\ table[x.fd] \notin {0, x.file}

(* The system closes the number x keeps, whatever it stands for by now. *)
SysClose(x) ==
  /\ table' = IF x.fd = noFd THEN table ELSE [table EXCEPT ![x.fd] = 0]
  /\ stray' = (stray \/ Astray(x))

SysOpen ==
  /\ CanOpen
  /\ table' = [table EXCEPT ![newFd] = newFile]
  /\ opens' = newFile

-----------------------------------------------------------------------------
(* File and Path                                                           *)

(* The constructors and mkstemp.  When open fails they throw, and there is *)
(* no object.                                                              *)
Construct(o) ==
  /\ ~obj[o].live
  /\ SysOpen
  /\ obj' = [obj EXCEPT ![o] = [live |-> TRUE, fd |-> newFd, file |-> newFile]]
  /\ UNCHANGED <<dit, mapped, mm, history, stray, nullUsed>>

(* Path(parent, pathname) opens by way of the parent's descriptor. *)
ConstructAt(o, parent) ==
  /\ ~obj[o].live /\ obj[parent].live /\ obj[parent].fd # noFd
  /\ table[obj[parent].fd] # 0
  /\ SysOpen
  /\ obj' = [obj EXCEPT ![o] = [live |-> TRUE, fd |-> newFd, file |-> newFile]]
  /\ stray' = (stray \/ Astray(obj[parent]))
  /\ UNCHANGED <<dit, mapped, mm, history, nullUsed>>

(* fstat, fchmod, write, openat, fstatat, unlinkat...: a system call on    *)
(* the descriptor, which the program does not close before.                *)
Use(o) ==
  /\ obj[o].live /\ obj[o].fd # noFd /\ table[obj[o].fd] # 0
  /\ stray' = (stray \/ Astray(obj[o]))
  /\ UNCHANGED <<table, opens, obj, dit, mapped, mm, history, nullUsed>>

(* Mutant: the descriptor stays with the object it was moved from. *)
MoveConstruct_Keeps(o, r) ==
  /\ ~obj[o].live /\ obj[r].live
  /\ obj' = [obj EXCEPT ![o] = obj[r]]
  /\ UNCHANGED <<table, opens, dit, mapped, mm, history, stray, nullUsed>>

MoveConstruct(o, r) ==
  /\ ~obj[o].live /\ obj[r].live
  /\ obj' = [obj EXCEPT ![o] = obj[r], ![r].fd = noFd, ![r].file = 0]
  /\ UNCHANGED <<table, opens, dit, mapped, mm, history, stray, nullUsed>>

(* o = std::move(r).  The descriptor o had is not closed. *)
MoveAssign(o, r) ==
  /\ o # r /\ obj[o].live /\ obj[r].live
  /\ obj' = [obj EXCEPT ![o] = obj[r], ![r].fd = noFd, ![r].file = 0]
  /\ dropped' = IF obj[o].fd = noFd THEN dropped ELSE dropped \cup {obj[o].file}
  /\ UNCHANGED <<table, opens, dit, mapped, mm, closeFailed, movedIter, outlived, stray, nullUsed>>

(* close(): the object lets go of the number only when the system call     *)
(* has worked.                                                             *)
CloseFd(o) ==
  /\ obj[o].live /\ obj[o].fd # noFd /\ table[obj[o].fd] # 0
  /\ SysClose(obj[o])
  /\ obj' = [obj EXCEPT ![o].fd = noFd, ![o].file = 0]
  /\ UNCHANGED <<opens, dit, mapped, mm, history, nullUsed>>

(* The system call fails, with the descriptor released (EIO, EINTR) or     *)
(* without, or because there is none (EBADF).  close() throws.             *)
CloseThrows(o) ==
  /\ obj[o].live /\ obj[o].fd # noFd
  /\ SysClose(obj[o]) \/ UNCHANGED <<table, stray>>
  /\ closeFailed' = TRUE
  /\ UNCHANGED <<opens, obj, dit, mapped, mm, dropped, movedIter, outlived, nullUsed>>

(* Some iterator still points to o. *)
Watched(o) == \E i \in Iters : dit[i].live /\ dit[i].path = o /\ dit[i].fd # noFd

(* The destructors close what is left to close and look at no errors. *)
Destroy(o) ==
  /\ obj[o].live
  /\ SysClose(obj[o])
  /\ obj' = [obj EXCEPT ![o] = gone]
  /\ outlived' = (outlived \/ Watched(o))
  /\ UNCHANGED <<opens, dit, mapped, mm, dropped, closeFailed, movedIter, nullUsed>>

-----------------------------------------------------------------------------
(* Path::iterator                                                          *)

endIter(path) == [live |-> TRUE, path |-> path, fd |-> noFd, file |-> 0]

(* begin() of a Path that is closed, and end(). *)
IterEnd(i) ==
  /\ ~dit[i].live
  /\ dit' = [dit EXCEPT ![i] = endIter(Null)]
  /\ UNCHANGED <<table, opens, obj, mapped, mm, history, stray, nullUsed>>

CanList(i, o) == ~dit[i].live /\ obj[o].live /\ obj[o].fd # noFd /\ table[obj[o].fd] # 0

(* begin(): fdopendir() opens the directory once more, and the constructor *)
(* reads the first entry; a directory without entries is closed again.     *)
IterBegin(i, o) ==
  /\ CanList(i, o)
  /\ stray' = (stray \/ Astray(obj[o]))
  /\ \/ /\ SysOpen
        /\ dit' = [dit EXCEPT ![i] = [live |-> TRUE, path |-> o,
                                      fd |-> newFd, file |-> newFile]]
     \/ dit' = [dit EXCEPT ![i] = endIter(o)] /\ UNCHANGED <<table, opens>>
  /\ UNCHANGED <<obj, mapped, mm, history, nullUsed>>

(* fdopendir, malloc or the first readdir_r fails: the constructor throws, *)
(* no destructor runs, and nobody closes the directory.                    *)
IterBeginThrows(i, o) ==
  /\ CanList(i, o)
  /\ SysOpen
  /\ dropped' = dropped \cup {newFile}
  /\ stray' = (stray \/ Astray(obj[o]))
  /\ UNCHANGED <<obj, dit, mapped, mm, closeFailed, movedIter, outlived, nullUsed>>

(* The move constructor leaves out path. *)
IterMove(i, j) ==
  /\ ~dit[i].live /\ dit[j].live
  /\ dit' = [dit EXCEPT ![i] = [dit[j] EXCEPT !.path = Null], ![j].fd = noFd, ![j].file = 0]
  /\ movedIter' = TRUE
  /\ UNCHANGED <<table, opens, obj, mapped, mm, dropped, closeFailed, outlived, stray, nullUsed>>

(* The iterator's path is called through. *)
NoPathLeft(i) == dit[i].path = Null \/ ~obj[dit[i].path].live

(* Mutant: an iterator that reaches the end keeps its directory. *)
IterNext_KeepsDir(i) ==
  /\ dit[i].live /\ dit[i].fd # noFd
  /\ SysClose(dit[i])
  /\ UNCHANGED <<opens, obj, dit, mapped, mm, history, nullUsed>>

(* ++i that reaches the end and closes the directory.  Another entry       *)
(* changes nothing here.                                                   *)
IterNext(i) ==
  /\ dit[i].live /\ dit[i].fd # noFd
  /\ SysClose(dit[i])
  /\ dit' = [dit EXCEPT ![i].fd = noFd, ![i].file = 0]
  /\ UNCHANGED <<opens, obj, mapped, mm, history, nullUsed>>

(* ++i whose readdir_r fails asks the path to throw; isdir and its like    *)
(* ask it for fstatat when the file system does not tell the type.         *)
IterAsksPath(i) ==
  /\ dit[i].live /\ dit[i].fd # noFd
  /\ nullUsed' = (nullUsed \/ NoPathLeft(i))
  /\ stray' = (stray \/ (~NoPathLeft(i) /\ Astray(obj[dit[i].path])))
  /\ UNCHANGED <<table, opens, obj, dit, mapped, mm, history>>

IterDestroy(i) ==
  /\ dit[i].live
  /\ SysClose(dit[i])
  /\ dit' = [dit EXCEPT ![i] = goneIter]
  /\ UNCHANGED <<opens, obj, mapped, mm, history, nullUsed>>

-----------------------------------------------------------------------------
(* MMap                                                                    *)

mapRest == <<table, obj, dit, history, stray, nullUsed>>

(* FileDescriptor::mmap; without success it throws. *)
MapFile(m) ==
  /\ ~mm[m].live /\ opens < MaxOpens
  /\ opens' = newFile
  /\ mapped' = mapped \cup {newFile}
  /\ mm' = [mm EXCEPT ![m] = [live |-> TRUE, addr |-> newFile]]
  /\ UNCHANGED mapRest

MapMove(m, n) ==
  /\ ~mm[m].live /\ mm[n].live
  /\ mm' = [mm EXCEPT ![m] = mm[n], ![n].addr = MAP_FAILED]
  /\ UNCHANGED <<opens, mapped, mapRest>>

(* m = std::move(n) calls munmap() first: on an MMap that was moved from   *)
(* or unmapped the system call fails, and the assignment throws before it  *)
(* has done anything.                                                      *)
MapAssign(m, n) ==
  /\ m # n /\ mm[m].live /\ mm[n].live
  /\ IF mm[m].addr = MAP_FAILED THEN UNCHANGED <<mapped, mm>>
     ELSE /\ mapped' = mapped \ {mm[m].addr}
          /\ mm' = [mm EXCEPT ![m].addr = mm[n].addr, ![n].addr = MAP_FAILED]
  /\ UNCHANGED <<opens, mapRest>>

Munmap(m) ==
  /\ mm[m].live /\ mm[m].addr # MAP_FAILED
  /\ mapped' = mapped \ {mm[m].addr}
  /\ mm' = [mm EXCEPT ![m].addr = MAP_FAILED]
  /\ UNCHANGED <<opens, mapRest>>

MapDestroy(m) ==
  /\ mm[m].live
  /\ mapped' = mapped \ {mm[m].addr}
  /\ mm' = [mm EXCEPT ![m] = goneMap]
  /\ UNCHANGED <<opens, mapRest>>

-----------------------------------------------------------------------------
FdNext ==
  \/ \E o \in Objs : Construct(o) \/ Use(o) \/ CloseFd(o) \/ CloseThrows(o) \/ Destroy(o)
  \/ \E o, r \in Objs : ConstructAt(o, r) \/ MoveConstruct(o, r) \/ MoveAssign(o, r)
  \/ \E i \in Iters : IterEnd(i) \/ IterNext(i) \/ IterAsksPath(i) \/ IterDestroy(i)
  \/ \E i \in Iters, o \in Objs : IterBegin(i, o) \/ IterBeginThrows(i, o)
  \/ \E i, j \in Iters : IterMove(i, j)

MapNext ==
  \/ \E m \in Maps : MapFile(m) \/ Munmap(m) \/ MapDestroy(m)
  \/ \E m, n \in Maps : MapMove(m, n) \/ MapAssign(m, n)

DescNext == FdNext \/ MapNext

DescSpec == DescInit /\ [][DescNext]_descVars

-----------------------------------------------------------------------------
(* Properties.                                                             *)

Owners(n) ==
  {o \in Objs : obj[o].live /\ obj[o].fd = n /\ obj[o].file = table[n]} \cup
  {i \in Iters : dit[i].live /\ dit[i].fd = n /\ dit[i].file = table[n]}

(* Whatever is moved, assigned, closed and destroyed, and whichever call   *)
(* fails: an open descriptor has one owner, which will close it, unless it *)
(* was lost when another was move-assigned over it or when the iterator    *)
(* that opened it failed to come to be; a mapping always has one.          *)
OwnedOnce ==
  /\ \A n \in Fds : table[n] # 0 =>
       IF table[n] \in dropped THEN Owners(n) = {} ELSE Cardinality(Owners(n)) = 1
  /\ \A a \in mapped : Cardinality({m \in Maps : mm[m].addr = a}) = 1
  /\ \A m \in Maps : mm[m].addr # MAP_FAILED => mm[m].live /\ mm[m].addr \in mapped

(* No object works on, or closes, a descriptor of somebody else's, unless  *)
(* a close() failed and the object went on to use or close the number; and *)
(* an iterator finds its path whenever it needs it, unless an iterator was *)
(* move-constructed, which forgets the path, or outlived its Path.         *)
NoStrayAccess ==
  /\ stray => closeFailed
  /\ nullUsed => movedIter \/ outlived
=============================================================================

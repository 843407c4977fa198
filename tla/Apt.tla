-------------------------------- MODULE Apt ---------------------------------
(***************************************************************************)
(* ept::apt::Apt, the provider over libapt-pkg, while other processes      *)
(* (dpkg, apt-get) change the files under it.  The constructor reads the   *)
(* modification times first and the data afterwards; checkCacheUpdates     *)
(* compares the remembered time with the current one and, when it is       *)
(* older, deletes the implementation and constructs a new one.             *)
(*                                                                         *)
(* The package data are two counters, one for the package lists and one    *)
(* for dpkg's status file, that grow with every change.  What the process  *)
(* has loaded is a pair of them.  libapt-pkg (configuration, cache         *)
(* generation, FileFd, the global error stack) is outside the repository   *)
(* and modelled from how apt.cc uses it.                                   *)
(***************************************************************************)
EXTENDS Integers

CONSTANTS MaxTime,     \* bound on the clock, in seconds
          MaxWrites    \* bound on the changes other processes make

ASSUME MaxTimeAssumption == MaxTime \in Nat
ASSUME MaxWritesAssumption == MaxWrites \in Nat

VARIABLES
  now,         \* the clock, in the one-second grain of time_t
  lists,       \* version of the package lists
  status,      \* version of the dpkg status file
  statusTime,  \* mtime of the status file
  cacheTime,   \* mtime of pkgcache.bin, 0 when there is none
  cacheOf,     \* the versions pkgcache.bin, when there, was generated from
  conf,        \* libapt: "no", "flagged" (the flag is set, the system is not), "yes"
  pc,          \* where the thread is: between calls, or inside a call
  obj,         \* what Apt::impl points to
  ts,          \* AptImplementation::m_open_timestamp
  snap,        \* the versions m_cache was built from
  dep,         \* m_depcache: a null pointer, an object, its Open failed or not,
               \* and the versions it was built from
  pending,     \* an error is waiting on libapt's error stack
  got,         \* outcome of the last rawRecord
  lastWrite,   \* history: when a timestamped file was last written
  recorded,    \* history: the versions at that time
  blurred,     \* history: two such writes in one second, or pkgcache.bin removed
  failed,      \* history: some call into libapt has failed
  raced        \* history: the lists changed inside the current rawRecord

disk == <<now, lists, status, statusTime, cacheTime, cacheOf>>
hist == <<lastWrite, recorded, blurred>>
vars == <<disk, conf, pc, obj, ts, snap, dep, pending, got, hist, failed, raced>>

Versions == [lists : Nat, status : Nat]
onDisk == [lists |-> lists, status |-> status]
Covers(s, r) == s.lists >= r.lists /\ s.status >= r.status

(* sys::timestamp gives 0 for a missing file. *)
aptTimestamp == IF cacheTime > statusTime THEN cacheTime ELSE statusTime

-----------------------------------------------------------------------------
(* The other processes.                                                    *)

(* A file whose mtime aptTimestamp looks at is written. *)
Record(v) ==
  /\ lastWrite' = now
  /\ recorded' = v
  /\ blurred' = (blurred \/ lastWrite = now)

Tick ==
  /\ now < MaxTime
  /\ now' = now + 1
  /\ UNCHANGED <<lists, status, statusTime, cacheTime, cacheOf, conf, pc, obj, ts,
                 snap, dep, pending, got, hist, failed, raced>>

(* dpkg replaces the status file. *)
DpkgWrites ==
  /\ lists + status < MaxWrites
  /\ status' = status + 1
  /\ statusTime' = now
  /\ Record([onDisk EXCEPT !.status = status + 1])
  /\ UNCHANGED <<now, lists, cacheTime, cacheOf, conf, pc, obj, ts, snap, dep,
                 pending, got, failed, raced>>

(* apt-get update replaces the package lists; neither timestamped file     *)
(* changes until someone regenerates pkgcache.bin.                         *)
ListsChange ==
  /\ lists + status < MaxWrites
  /\ lists' = lists + 1
  /\ raced' = (raced \/ pc = "rawRead")
  /\ UNCHANGED <<now, status, statusTime, cacheTime, cacheOf, conf, pc, obj, ts,
                 snap, dep, pending, got, hist, failed>>

(* pkgcache.bin is generated anew from what is on disk. *)
WriteCache ==
  /\ cacheTime = 0 \/ cacheOf # onDisk
  /\ cacheTime' = now
  /\ cacheOf' = onDisk
  /\ Record(onDisk)
  /\ UNCHANGED <<now, lists, status, statusTime>>

OtherWritesCache ==
  /\ WriteCache
  /\ UNCHANGED <<conf, pc, obj, ts, snap, dep, pending, got, failed, raced>>

(* apt-get clean removes pkgcache.bin. *)
CacheRemoved ==
  /\ cacheTime # 0
  /\ cacheTime' = 0
  /\ blurred' = TRUE
  /\ UNCHANGED <<now, lists, status, statusTime, cacheOf, conf, pc, obj, ts, snap, dep,
                 pending, got, lastWrite, recorded, failed, raced>>

Others == Tick \/ DpkgWrites \/ ListsChange \/ OtherWritesCache \/ CacheRemoved

-----------------------------------------------------------------------------
(* libapt builds a cache: it writes pkgcache.bin when it is out of date,   *)
(* or keeps the result in memory when it may not.                          *)
BuildCache == WriteCache \/ UNCHANGED <<disk, hist>>

(* An Exception takes every message off the error stack. *)
Throw ==
  /\ failed' = TRUE
  /\ pending' = FALSE
  /\ pc' = "idle"

Undefined ==
  /\ obj' = "undefined"
  /\ pc' = "idle"
  /\ UNCHANGED <<disk, hist, conf, ts, snap, dep, pending, got, failed, raced>>

-----------------------------------------------------------------------------
(* Constructing an AptImplementation: pc is "init", "stamp", "read".       *)

(* Apt::Apt() *)
Construct ==
  /\ pc = "idle" /\ obj = "none"
  /\ pc' = "init"
  /\ UNCHANGED <<disk, hist, conf, obj, ts, snap, dep, pending, got, failed, raced>>

(* aptInit sets the flag between initialising the configuration and the    *)
(* system; with the flag set it does nothing.                              *)
InitReady ==
  /\ pc = "init"
  /\ conf' = IF conf = "no" THEN "yes" ELSE conf
  /\ pc' = "stamp"
  /\ UNCHANGED <<disk, hist, obj, ts, snap, dep, pending, got, failed, raced>>

InitFails ==
  /\ pc = "init" /\ conf = "no"
  /\ conf' \in {"no", "flagged"}
  /\ Throw
  /\ UNCHANGED <<disk, hist, obj, ts, snap, dep, got, raced>>

(* Mutant: the clock is remembered instead of the files' own times. *)
OpenStamp_Clock ==
  /\ pc = "stamp"
  /\ ts' = now
  /\ pc' = "read"
  /\ UNCHANGED <<disk, hist, conf, obj, snap, dep, pending, got, failed, raced>>

OpenStamp ==
  /\ pc = "stamp"
  /\ ts' = aptTimestamp
  /\ pc' = "read"
  /\ UNCHANGED <<disk, hist, conf, obj, snap, dep, pending, got, failed, raced>>

(* Mutant: the new implementation takes over the depcache of the old one. *)
OpenRead_KeepsDepcache ==
  /\ pc = "read" /\ conf = "yes"
  /\ BuildCache
  /\ snap' = onDisk
  /\ obj' = "live"
  /\ pc' = "idle"
  /\ UNCHANGED <<conf, ts, dep, pending, got, failed, raced>>

(* The sources list, the cache and the pin file are read. *)
OpenRead ==
  /\ pc = "read" /\ conf = "yes"
  /\ BuildCache
  /\ snap' = onDisk
  /\ dep' = [ptr |-> "null", of |-> onDisk]
  /\ obj' = "live"
  /\ pc' = "idle"
  /\ UNCHANGED <<conf, ts, pending, got, failed, raced>>

(* One of the three fails: the constructor throws, and the pointer it      *)
(* would have been assigned to keeps its value.                            *)
OpenFails ==
  /\ pc = "read" /\ conf = "yes"
  /\ Throw
  /\ UNCHANGED <<disk, hist, conf, obj, ts, snap, dep, got, raced>>

(* Without an initialised system libapt's _system is null. *)
OpenWithoutSystem == pc = "read" /\ conf = "flagged" /\ Undefined

-----------------------------------------------------------------------------
(* Calls on the provider.                                                  *)

Idle == pc = "idle" /\ obj = "live"

(* Mutant: the comparison accepts an older timestamp by one second. *)
outOfDate_OffByOne == ts + 1 < aptTimestamp

outOfDate == ts < aptTimestamp

(* Mutant: the old implementation is deleted and none is constructed. *)
CheckCacheUpdates_NoReopen ==
  /\ Idle
  /\ IF outOfDate THEN obj' = "dangling" ELSE UNCHANGED obj
  /\ UNCHANGED <<disk, hist, conf, pc, ts, snap, dep, pending, got, failed, raced>>

(* delete impl comes first: until the new one is assigned, the pointer     *)
(* dangles.                                                                *)
CheckCacheUpdates ==
  /\ Idle
  /\ IF outOfDate THEN pc' = "init" /\ obj' = "dangling" ELSE UNCHANGED <<pc, obj>>
  /\ UNCHANGED <<disk, hist, conf, ts, snap, dep, pending, got, failed, raced>>

InvalidateTimestamp ==
  /\ Idle
  /\ ts' = 0
  /\ UNCHANGED <<disk, hist, conf, pc, obj, snap, dep, pending, got, failed, raced>>

(* state(): the first call opens a second cache, from what is on disk by   *)
(* then, and indexes it with package numbers of the first.                 *)
State ==
  /\ Idle
  /\ \/ dep.ptr = "null" /\ BuildCache /\ dep' = [ptr |-> "open", of |-> onDisk]
     \/ dep.ptr = "open" /\ UNCHANGED <<disk, hist, dep>>
  /\ UNCHANGED <<conf, pc, obj, ts, snap, pending, got, failed, raced>>

(* m_depcache is set before Open is known to have worked. *)
StateFails ==
  /\ Idle /\ dep.ptr = "null"
  /\ dep' = [dep EXCEPT !.ptr = "unopened"]
  /\ Throw
  /\ UNCHANGED <<disk, hist, conf, obj, ts, snap, got, raced>>

StateOnUnopened == Idle /\ dep.ptr = "unopened" /\ Undefined

(* Mutant: the file the index names is not checked. *)
RawCheck_Unchecked ==
  /\ Idle
  /\ pc' = "rawRead"
  /\ raced' = FALSE
  /\ UNCHANGED <<disk, hist, conf, obj, ts, snap, dep, pending, got, failed>>

(* rawRecord, first half: IsOk compares the file with what the cache was   *)
(* built from.                                                             *)
RawCheck ==
  /\ Idle
  /\ snap.lists = lists
  /\ pc' = "rawRead"
  /\ raced' = FALSE
  /\ UNCHANGED <<disk, hist, conf, obj, ts, snap, dep, pending, got, failed>>

RawCheckFails ==
  /\ Idle
  /\ snap.lists # lists
  /\ Throw
  /\ UNCHANGED <<disk, hist, conf, obj, ts, snap, dep, got, raced>>

(* Second half: the file is opened and read at the offset the cache gives. *)
(* A pending error, its own or an older one, makes it return no record.    *)
RawRead ==
  /\ pc = "rawRead"
  /\ pc' = "idle"
  /\ got' = IF pending THEN "emptyPending"
            ELSE IF snap.lists = lists THEN "record" ELSE "wrongRecord"
  /\ UNCHANGED <<disk, hist, conf, obj, ts, snap, dep, pending, failed, raced>>

RawReadFails ==
  /\ pc = "rawRead"
  /\ pc' = "idle"
  /\ got' = "emptyFailed"
  /\ pending' = TRUE
  /\ failed' = TRUE
  /\ UNCHANGED <<disk, hist, conf, obj, ts, snap, dep, raced>>

(* Apt::~Apt() *)
Destroy ==
  /\ Idle
  /\ obj' = "none"
  /\ UNCHANGED <<disk, hist, conf, pc, ts, snap, dep, pending, got, failed, raced>>

(* Any call on a provider whose pointer dangles, the destructor included,  *)
(* uses freed memory.                                                      *)
UseAfterFree == pc = "idle" /\ obj = "dangling" /\ Undefined

-----------------------------------------------------------------------------
Init ==
  /\ now = 2
  /\ lists = 0 /\ status = 0
  /\ statusTime = 1
  /\ cacheTime \in {0, 1} /\ cacheOf = onDisk
  /\ conf = "no"
  /\ pc = "idle" /\ obj = "none"
  /\ ts = 0 /\ snap = onDisk /\ dep = [ptr |-> "null", of |-> onDisk]
  /\ pending = FALSE
  /\ got = "none"
  /\ lastWrite = 1 /\ recorded = onDisk /\ blurred = FALSE
  /\ failed = FALSE /\ raced = FALSE

Opening ==
  \/ InitReady \/ InitFails \/ OpenStamp \/ OpenRead \/ OpenFails \/ OpenWithoutSystem

Calls ==
  \/ Construct \/ CheckCacheUpdates \/ InvalidateTimestamp
  \/ State \/ StateFails \/ StateOnUnopened
  \/ RawCheck \/ RawCheckFails \/ RawRead \/ RawReadFails
  \/ Destroy \/ UseAfterFree

Next == Others \/ Opening \/ Calls

(* A constructor or rawRecord that has started goes on: the thread is not  *)
(* stopped.  The application calls checkCacheUpdates time and again.       *)
Fairness ==
  /\ WF_vars(Opening)
  /\ WF_vars(RawRead \/ RawReadFails)
  /\ SF_vars(CheckCacheUpdates)

Spec == Init /\ [][Next]_vars /\ Fairness

-----------------------------------------------------------------------------
(* Properties.                                                             *)

TypeOK ==
  /\ now \in Nat /\ lists \in Nat /\ status \in Nat
  /\ statusTime \in Nat /\ cacheTime \in Nat /\ cacheOf \in Versions
  /\ conf \in {"no", "flagged", "yes"}
  /\ pc \in {"idle", "init", "stamp", "read", "rawRead"}
  /\ obj \in {"none", "live", "dangling", "undefined"}
  /\ ts \in Nat /\ snap \in Versions 
  /\ dep \in [ptr : {"null", "unopened", "open"}, of : Versions]
  /\ pending \in BOOLEAN
  /\ got \in {"none", "record", "wrongRecord", "emptyPending", "emptyFailed"}
  /\ lastWrite \in Nat /\ recorded \in Versions
  /\ blurred \in BOOLEAN /\ failed \in BOOLEAN /\ raced \in BOOLEAN

(* The loaded data miss a change that left a new modification time. *)
Stale == obj = "live" /\ ~Covers(snap, recorded)

(* Taking the timestamp before the data errs on the safe side: whatever    *)
(* other processes do while the cache is being read, data that miss a      *)
(* change are noticed by the next checkCacheUpdates, as long as mtimes     *)
(* tell the changes apart.                                                 *)
StaleIsNoticed == Stale /\ ~blurred => outOfDate

(* The depcache is opened later than the cache whose package numbers index *)
(* it, so it never describes an older system than the cache does.          *)
DepcacheNotOlder == obj = "live" /\ dep.ptr = "open" => Covers(dep.of, snap)

(* Freed or uninitialised memory is touched only after a call into libapt  *)
(* has failed.                                                             *)
UndefinedNeedsFailure == obj = "undefined" => failed

(* "Check that checkUpdates will keep a working Apt object"                *)
(* (apt-test.cc:196): between calls the provider is usable.                *)
ProviderKeepsWorking == pc = "idle" => obj # "dangling"

(* rawRecord returns bytes of another record only when the list file is    *)
(* replaced between the check of the file and its opening.                 *)
WrongRecordNeedsRace ==
  [][pc = "rawRead" /\ pc' = "idle" /\ got' = "wrongRecord" => raced]_vars

(* An application that keeps calling checkCacheUpdates ends up with data   *)
(* that include every timestamped change, unless mtimes blurred a change   *)
(* or an open failed.                                                      *)
CatchesUp == <>[]~Stale \/ <>blurred \/ <>failed
=============================================================================

------------------------------ MODULE AptProofs ------------------------------
(***************************************************************************)
(* Proofs about the provider's freshness check and its memory safety, for  *)
(* any number of changes and any length of time.                           *)
(***************************************************************************)
EXTENDS Apt, TLAPS

(* No file is newer than the clock, and as long as mtimes tell the writes  *)
(* apart the newest of them is the time of the last write.                 *)
ClockInv ==
  /\ statusTime <= now /\ cacheTime <= now /\ lastWrite <= now
  /\ ~blurred => aptTimestamp = lastWrite

(* The remembered time is never newer than the last write, and the loaded  *)
(* data never newer than the disk.                                         *)
FreshInv ==
  /\ ~blurred => ts <= lastWrite
  /\ Covers(onDisk, recorded)
  /\ Covers(onDisk, snap)
  /\ obj = "live" /\ ~blurred /\ ~Covers(snap, recorded) => ts < lastWrite

(* No implementation is live while one is being constructed, and every way *)
(* to an unusable one goes through a failed call.                          *)
FailureInv ==
  /\ pc \in {"init", "stamp", "read"} => obj # "live"
  /\ conf = "flagged" => failed
  /\ dep.ptr = "unopened" => failed
  /\ obj = "dangling" => failed \/ pc \in {"init", "stamp", "read"}
  /\ obj = "undefined" => failed

Inv == TypeOK /\ ClockInv /\ FreshInv /\ FailureInv /\ DepcacheNotOlder

LEMMA InitInv == Init => Inv
<1> SUFFICES ASSUME Init PROVE Inv
  OBVIOUS
<1> USE DEF Init, onDisk
<1>1. TypeOK
  <2>1. onDisk \in Versions
    BY DEF Versions
  <2>2. snap \in Versions /\ recorded \in Versions /\ cacheOf \in Versions
    BY <2>1
  <2>3. dep \in [ptr : {"null", "unopened", "open"}, of : Versions]
    BY <2>1
  <2>4. pending \in BOOLEAN /\ blurred \in BOOLEAN /\ failed \in BOOLEAN /\ raced \in BOOLEAN
    BY Zenon
  <2>5. {now, lists, status, statusTime, cacheTime, ts, lastWrite} \subseteq Nat
    BY SMT
  <2> HIDE DEF onDisk
  <2> QED
    BY <2>2, <2>3, <2>4, <2>5 DEF TypeOK
<1>2. ClockInv
  BY DEF ClockInv, aptTimestamp
<1>3. FreshInv
  BY DEF FreshInv, Covers
<1>4. FailureInv /\ DepcacheNotOlder
  BY DEF FailureInv, DepcacheNotOlder
<1> QED
  BY <1>1, <1>2, <1>3, <1>4 DEF Inv

(* A write that still counts as told apart came in a later second than the *)
(* previous one.                                                           *)
LEMMA RecordFacts ==
  ASSUME TypeOK, NEW v \in Versions, Record(v)
  PROVE  /\ lastWrite' = now /\ recorded' = v /\ blurred' \in BOOLEAN
         /\ ~blurred' => ~blurred /\ lastWrite # now
BY Zenon DEF TypeOK, Record

(* Generating pkgcache.bin keeps the parts of the invariant that relate    *)
(* the disk to the history; the new data on record are those on disk.      *)
LEMMA WriteCacheFacts ==
  ASSUME Inv, WriteCache
  PROVE  /\ cacheTime' = now /\ cacheOf' = onDisk /\ cacheOf' \in Versions
         /\ lastWrite' = now /\ recorded' = onDisk /\ blurred' \in BOOLEAN
         /\ UNCHANGED <<now, lists, status, statusTime>>
         /\ ~blurred' => ~blurred /\ lastWrite < now
         /\ ClockInv'
<1>1. onDisk \in Versions
  BY DEF Inv, TypeOK, Versions, onDisk
<1>2. Record(onDisk)
  BY DEF WriteCache
<1>3. /\ lastWrite' = now /\ recorded' = onDisk /\ blurred' \in BOOLEAN
      /\ ~blurred' => ~blurred /\ lastWrite # now
  BY <1>1, <1>2, RecordFacts DEF Inv
<1>4. cacheTime' = now /\ cacheOf' = onDisk /\ UNCHANGED <<now, lists, status, statusTime>>
  BY DEF WriteCache
<1>5. lastWrite <= now /\ statusTime <= now /\ {now, lastWrite, statusTime} \subseteq Nat
  BY DEF Inv, TypeOK, ClockInv
<1>6. ClockInv'
  BY <1>3, <1>4, <1>5 DEF ClockInv, aptTimestamp
<1> QED
  BY <1>1, <1>3, <1>4, <1>5, <1>6

(***************************************************************************)
(* The invariant is inductive: every step of another process, of the       *)
(* constructor and of a call keeps it.                                     *)
(***************************************************************************)
THEOREM InvInductive == Inv /\ [Next]_vars => Inv'
<1> SUFFICES ASSUME Inv, [Next]_vars PROVE Inv'
  OBVIOUS
<1> USE DEF Inv, TypeOK, ClockInv, FreshInv, FailureInv, DepcacheNotOlder,
            Versions, onDisk, Covers, aptTimestamp, disk, hist
<1>1. CASE Tick
  BY <1>1 DEF Tick
<1>2. CASE DpkgWrites
  <2> DEFINE v == [lists |-> lists, status |-> status + 1]
  <2>1. v \in Versions /\ Record(v)
    BY <1>2 DEF DpkgWrites
  <2>2. /\ lastWrite' = now /\ recorded' = v /\ blurred' \in BOOLEAN
        /\ ~blurred' => ~blurred /\ lastWrite # now
    BY <2>1, RecordFacts
  <2>3. TypeOK'
    BY <1>2, <2>2 DEF DpkgWrites
  <2>4. ClockInv' /\ FreshInv'
    BY <1>2, <2>2 DEF DpkgWrites
  <2>5. FailureInv' /\ DepcacheNotOlder'
    BY <1>2 DEF DpkgWrites
  <2> QED
    BY <2>3, <2>4, <2>5
<1>3. CASE ListsChange
  BY <1>3 DEF ListsChange
<1>4. CASE OtherWritesCache
  <2>1. WriteCache
    BY <1>4 DEF OtherWritesCache
  <2>2. TypeOK' /\ ClockInv'
    BY <1>4, <2>1, WriteCacheFacts DEF OtherWritesCache
  <2>3. FreshInv'
    BY <1>4, <2>1, WriteCacheFacts DEF OtherWritesCache
  <2>4. FailureInv' /\ DepcacheNotOlder'
    BY <1>4 DEF OtherWritesCache
  <2> QED
    BY <2>2, <2>3, <2>4
<1>5. CASE CacheRemoved
  BY <1>5 DEF CacheRemoved
<1>6. CASE InitReady
  BY <1>6 DEF InitReady
<1>7. CASE InitFails
  BY <1>7 DEF InitFails, Throw
<1>8. CASE OpenStamp
  <2>1. TypeOK' /\ ClockInv'
    BY <1>8 DEF OpenStamp
  <2>2. FreshInv'
    BY <1>8 DEF OpenStamp
  <2>3. FailureInv' /\ DepcacheNotOlder'
    BY <1>8 DEF OpenStamp
  <2> QED
    BY <2>1, <2>2, <2>3
<1>9. CASE OpenRead
  <2>1. CASE WriteCache
    <3>1. TypeOK' /\ ClockInv'
      BY <1>9, <2>1, WriteCacheFacts DEF OpenRead
    <3>2. FreshInv'
      BY <1>9, <2>1, WriteCacheFacts DEF OpenRead
    <3>3. FailureInv' /\ DepcacheNotOlder'
      BY <1>9 DEF OpenRead
    <3> QED
      BY <3>1, <3>2, <3>3
  <2>2. CASE UNCHANGED <<disk, hist>>
    <3>1. TypeOK' /\ ClockInv'
      BY <1>9, <2>2 DEF OpenRead
    <3>2. FreshInv'
      BY <1>9, <2>2 DEF OpenRead
    <3>3. FailureInv' /\ DepcacheNotOlder'
      BY <1>9 DEF OpenRead
    <3> QED
      BY <3>1, <3>2, <3>3
  <2> QED
    BY <1>9, <2>1, <2>2 DEF OpenRead, BuildCache
<1>10. CASE OpenFails
  BY <1>10 DEF OpenFails, Throw
<1>11. CASE OpenWithoutSystem
  BY <1>11 DEF OpenWithoutSystem, Undefined
<1>12. CASE Construct
  BY <1>12 DEF Construct
<1>13. CASE CheckCacheUpdates
  BY <1>13 DEF CheckCacheUpdates, Idle, outOfDate
<1>14. CASE InvalidateTimestamp
  BY <1>14 DEF InvalidateTimestamp, Idle
<1>15. CASE State
  <2>1. CASE WriteCache /\ dep' = [ptr |-> "open", of |-> onDisk]
    <3>1. TypeOK' /\ ClockInv'
      BY <1>15, <2>1, WriteCacheFacts DEF State
    <3>2. FreshInv'
      BY <1>15, <2>1, WriteCacheFacts DEF State
    <3>3. FailureInv' /\ DepcacheNotOlder'
      BY <1>15, <2>1 DEF State
    <3> QED
      BY <3>1, <3>2, <3>3
  <2>2. CASE UNCHANGED <<disk, hist>> /\ dep' \in {dep, [ptr |-> "open", of |-> onDisk]}
    <3>1. TypeOK' /\ ClockInv' /\ FreshInv'
      BY <1>15, <2>2 DEF State
    <3>2. FailureInv' /\ DepcacheNotOlder'
      BY <1>15, <2>2 DEF State
    <3> QED
      BY <3>1, <3>2
  <2> QED
    BY <1>15, <2>1, <2>2 DEF State, BuildCache
<1>16. CASE StateFails
  BY <1>16 DEF StateFails, Idle, Throw
<1>17. CASE StateOnUnopened
  BY <1>17 DEF StateOnUnopened, Idle, Undefined
<1>18. CASE RawCheck
  BY <1>18 DEF RawCheck, Idle
<1>19. CASE RawCheckFails
  BY <1>19 DEF RawCheckFails, Idle, Throw
<1>20. CASE RawRead
  BY <1>20 DEF RawRead
<1>21. CASE RawReadFails
  BY <1>21 DEF RawReadFails
<1>22. CASE Destroy
  BY <1>22 DEF Destroy, Idle
<1>23. CASE UseAfterFree
  BY <1>23 DEF UseAfterFree, Undefined
<1>24. CASE UNCHANGED vars
  BY <1>24 DEF vars
<1> QED
  BY <1>1, <1>2, <1>3, <1>4, <1>5, <1>6, <1>7, <1>8, <1>9, <1>10, <1>11, <1>12, <1>13, <1>14, <1>15, <1>16, <1>17, <1>18, <1>19, <1>20, <1>21, <1>22, <1>23, <1>24 DEF Next, Others, Opening, Calls

LEMMA SpecInv == Spec => []Inv
BY InitInv, InvInductive, PTL DEF Spec

(***************************************************************************)
(* checkCacheUpdates never overlooks a change whose modification time      *)
(* differs from the previous one's, however the change interleaves with    *)
(* the constructor (apt.cc:109-120, 642).  The argument: the remembered    *)
(* time is that of a write the loaded data include, so a write they miss   *)
(* is a later one.                                                         *)
(***************************************************************************)
THEOREM StaleDataNoticed == Spec => []StaleIsNoticed
<1>1. Inv => StaleIsNoticed
  BY DEF Inv, ClockInv, FreshInv, StaleIsNoticed, Stale, outOfDate
<1> QED
  BY <1>1, SpecInv, PTL

(***************************************************************************)
(* Without a failing call into libapt the provider never touches freed or  *)
(* uninitialised memory: the dangling pointer inside checkCacheUpdates     *)
(* (apt.cc:645-646) is replaced before any other call.                     *)
(***************************************************************************)
THEOREM MemorySafeUnlessFailure == Spec => []UndefinedNeedsFailure
<1>1. Inv => UndefinedNeedsFailure
  BY DEF Inv, FailureInv, UndefinedNeedsFailure
<1> QED
  BY <1>1, SpecInv, PTL

(***************************************************************************)
(* The lazily opened depcache (apt.cc:145-154) is never older than the     *)
(* cache whose package numbers index it.                                   *)
(***************************************************************************)
THEOREM DepcacheAge == Spec => [](TypeOK /\ DepcacheNotOlder)
<1>1. Inv => TypeOK /\ DepcacheNotOlder
  BY DEF Inv
<1> QED
  BY <1>1, SpecInv, PTL

(* Between the check of the list file and its opening, the lists are those *)
(* the cache was built from, or they changed meanwhile.                    *)
RaceInv == pc = "rawRead" => raced \/ snap.lists = lists

LEMMA RaceInvInductive ==
  /\ Init => RaceInv
  /\ Inv /\ RaceInv /\ [Next]_vars => RaceInv'
<1>1. Init => RaceInv
  BY DEF Init, RaceInv
<1>2. ASSUME Inv, RaceInv, [Next]_vars PROVE RaceInv'
  <2> USE <1>2 DEF RaceInv
  <2>1. CASE Others
    <3>1. CASE ListsChange
      BY <3>1 DEF ListsChange
    <3>2. UNCHANGED <<pc, raced, snap, lists>> \/ ListsChange
      BY <2>1 DEF Others, Tick, DpkgWrites, OtherWritesCache, WriteCache, CacheRemoved
    <3> QED
      BY <3>1, <3>2
  <2>2. CASE Opening
    BY <2>2 DEF Opening, InitReady, InitFails, OpenStamp, OpenRead, OpenFails, OpenWithoutSystem,
                Undefined, Throw
  <2>3. CASE RawCheck
    BY <2>3 DEF RawCheck, disk
  <2>4. CASE Calls /\ ~RawCheck
    <3>1. pc' # "rawRead"
      BY <2>4 DEF Calls, Construct, CheckCacheUpdates, InvalidateTimestamp, State, StateFails,
                  StateOnUnopened, RawCheckFails, RawRead, RawReadFails, Destroy, UseAfterFree,
                  Idle, Undefined, Throw
    <3> QED
      BY <3>1
  <2>5. CASE UNCHANGED vars
    BY <2>5 DEF vars, disk
  <2> QED
    BY <1>2, <2>1, <2>2, <2>3, <2>4, <2>5 DEF Next
<1> QED
  BY <1>1, <1>2

(***************************************************************************)
(* rawRecord gives the bytes of another record only if the list file was   *)
(* replaced after IsOk compared it and before it was opened (apt.cc:609,   *)
(* 612).                                                                   *)
(***************************************************************************)
THEOREM WrongRecordNeedsReplacement == Spec => WrongRecordNeedsRace
<1> DEFINE A == pc = "rawRead" /\ pc' = "idle" /\ got' = "wrongRecord" => raced
<1>1. ASSUME Inv, RaceInv, [Next]_vars PROVE [A]_vars
  <2>1. ASSUME Next, pc = "rawRead", got' = "wrongRecord", pc' = "idle" PROVE raced
    <3>1. CASE RawRead
      BY <1>1, <2>1, <3>1 DEF RawRead, RaceInv
    <3>2. CASE Others
      BY <2>1, <3>2 DEF Others, Tick, DpkgWrites, ListsChange, OtherWritesCache, CacheRemoved
    <3>3. CASE Opening
      BY <2>1, <3>3 DEF Opening, InitReady, InitFails, OpenStamp, OpenRead, OpenFails,
                        OpenWithoutSystem
    <3>4. CASE Calls /\ ~RawRead
      BY <2>1, <3>4 DEF Calls, Construct, CheckCacheUpdates, InvalidateTimestamp, State, StateFails,
                        StateOnUnopened, RawCheck, RawCheckFails, RawReadFails, Destroy,
                        UseAfterFree, Idle
    <3> QED
      BY <2>1, <3>1, <3>2, <3>3, <3>4 DEF Next
  <2> QED
    BY <1>1, <2>1
<1>2. Inv /\ RaceInv /\ [Next]_vars => [A]_vars
  BY <1>1
<1>3. Spec => []RaceInv
  BY RaceInvInductive, SpecInv, PTL DEF Spec
<1> QED
  BY <1>2, <1>3, SpecInv, PTL DEF Spec, WrongRecordNeedsRace
=============================================================================

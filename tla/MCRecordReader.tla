--------------------------- MODULE MCRecordReader ---------------------------
(***************************************************************************)
(* RecordReader on the list of records that AptCache makes from a cache,   *)
(* and AptCache on small caches of all shapes.                             *)
(*                                                                         *)
(* The reader has two files.  In the first, records that follow each other *)
(* at once, after one separating byte, after exactly the slack allowed and *)
(* after one byte more; in the second, two records, so that the same file  *)
(* is asked for again after a throw.                                       *)
(***************************************************************************)
EXTENDS RecordReader, AptCache

const_Files == {"main", "extra"}

const_fileLen == [main |-> 26, extra |-> 5]

const_fileNo == [status |-> 1, main |-> 2, extra |-> 3]

const_Garbage == {0, 3, 40}

At(f, o, s) == [file |-> f, off |-> o, size |-> s]

(* The cache of the reader: six packages with one version each. *)
Lone(name, vf) ==
  [name |-> name, versions |-> <<[ver |-> <<"a">>, files |-> <<vf>>]>>,
   candidate |-> 1, current |-> 0, state |-> "NotInstalled"]

const_cache ==
  << Lone(1, At("extra", 3, 1)), Lone(2, At("main", 23, 2)), Lone(3, At("main", 0, 2)),
     Lone(4, At("extra", 1, 2)), Lone(5, At("main", 13, 1)), Lone(6, At("main", 3, 2)) >>

const_vflist ==
  << At("main", 0, 2), At("main", 3, 2), At("main", 13, 1), At("main", 23, 2),
     At("extra", 1, 2), At("extra", 3, 1) >>

(* What the reader reads is the list made from the cache. *)
ASSUME VflistOfCache == const_vflist = recordList(const_cache)

(* Version strings: two that CmpVersion takes for equal, one with an epoch *)
(* and a revision, and one whose dash comes before its colon.              *)
const_rank ==
  (<<"a">> :> 1) @@ (<<"0", ":", "a">> :> 1) @@ (<<"1", ":", "a", "-", "b">> :> 2)
  @@ (<<"a", "-", "1", ":", "b">> :> 2)

(* A version of package p at place n of its list, in the files fs. *)
VersionAt(p, n, ver, fs) ==
  [ver |-> ver, files |-> [k \in DOMAIN fs |-> At(fs[k], 10 * p + 3 * n, 2)]]

(* A package has up to two versions, of which any may be the candidate and *)
(* the current one, in one or two files each.                              *)
FileLists == {<<"status">>, <<"main">>, <<"status", "extra">>, <<"main", "extra">>}
Package(p, n, Vers, Lists) ==
  { [name |-> p, versions |-> [k \in 1..n |-> VersionAt(p, k, vs[k], fs[k])],
     candidate |-> cand, current |-> cur, state |-> st] :
      vs \in [1..n -> Vers], fs \in [1..n -> Lists],
      cand \in 0..n, cur \in 0..n, st \in {"Installed", "ConfigFiles"} }

const_Caches ==
  {const_cache} \cup
  { <<p, q>> : p \in UNION {Package(2, n, DOMAIN const_rank, FileLists) : n \in 0..2},
               q \in Package(1, 0, {}, {}) \cup {Lone(1, At("main", 14, 2))} }

(* A behaviour reads records, or loads a cache and is asked about it. *)
MCInit == ReaderInit /\ CacheInit
MCNext ==
  \/ cache = <<>> /\ ReaderNext /\ UNCHANGED cache
  \/ lastOffset = 0 /\ asked = 0 /\ CacheNext /\ UNCHANGED readerVars
MCSpec == MCInit /\ [][MCNext]_<<readerVars, cache>>
=============================================================================

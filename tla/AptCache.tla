------------------------------ MODULE AptCache ------------------------------
(***************************************************************************)
(* What Apt answers from the cache it has loaded: which versions a package *)
(* has, its state, where its record lies, and the list of records that a   *)
(* RecordIteratorImpl is made with.                                        *)
(*                                                                         *)
(* The cache, the policy and the depcache are libapt's.  A cache is the    *)
(* sequence of its packages in the order of PkgBegin; a package has its    *)
(* versions in the order of VersionList, and the places in that order of   *)
(* the candidate and of CurrentVer, 0 for none; a version has the places   *)
(* of its record in files (its VerFiles), at least one.  A name is its     *)
(* rank among the strings, 0 that of the empty one; a version string is a  *)
(* sequence of characters.                                                 *)
(***************************************************************************)
EXTENDS Integers, FiniteSets, FiniteSetsExt, SequencesExt

CONSTANTS
  Caches,      \* caches that may be loaded
  fileNo,      \* the number of each file, VerFile::File
  NotSource,   \* the files with that flag: the status file
  rank         \* the order CmpVersion puts version strings in

(* What libapt promises of a version and of a package: a version string is *)
(* never empty and CmpVersion can place it, a name is not empty, and the   *)
(* candidate and the current version are of the package's list.            *)
VersionString(s) == s \in DOMAIN rank /\ s \in Seq(ToSet(s)) /\ s # <<>> /\ rank[s] \in Int

PackageOK(p) ==
  /\ p.name \in Nat \ {0}
  /\ p.versions \in Seq(ToSet(p.versions))
  /\ \A n \in DOMAIN p.versions : VersionString(p.versions[n].ver)
  /\ p.candidate \in 0..Len(p.versions) /\ p.current \in 0..Len(p.versions)

ASSUME CachesAssumption ==
  \A c \in Caches : c \in Seq(ToSet(c)) /\ \A n \in DOMAIN c : PackageOK(c[n])

(* And of the places of the records: File numbers the files, a version has *)
(* one place at least, no record is empty, and those of two packages do    *)
(* not overlap.  No two packages have one name: the cache is of a system   *)
(* of one architecture.                                                    *)
Places(p) == UNION {ToSet(p.versions[n].files) : n \in DOMAIN p.versions}

PlacesOK(p) ==
  /\ \A n \in DOMAIN p.versions :
       p.versions[n].files \in Seq(ToSet(p.versions[n].files)) \ {<<>>}
  /\ \A r \in Places(p) : r.file \in DOMAIN fileNo /\ r.off \in Nat /\ r.size \in Nat \ {0}

Apart(p, q) ==
  \A r \in Places(p), s \in Places(q) :
    r.file = s.file => r.off + r.size <= s.off \/ s.off + s.size <= r.off

ASSUME PlacesAssumption ==
  /\ "" \notin DOMAIN fileNo /\ \A f \in DOMAIN fileNo : fileNo[f] \in Int
  /\ \A f, g \in DOMAIN fileNo : fileNo[f] = fileNo[g] => f = g
  /\ \A c \in Caches : \A m, n \in DOMAIN c :
       PlacesOK(c[m]) /\ (m # n => c[m].name # c[n].name /\ Apart(c[m], c[n]))

VARIABLE cache

cacheVars == <<cache>>

CacheInit == cache = <<>>

Load(c) == cache' = c

CacheNext == cache = <<>> /\ \E c \in Caches : Load(c)

CacheSpec == CacheInit /\ [][CacheNext]_cacheVars

-----------------------------------------------------------------------------
(* Version                                                                 *)

Version(name, version) == [name |-> name, version |-> version]
NoVersion == Version(0, <<>>)
validVersion(v) == v.name # 0 /\ v.version # <<>>

(* The comparisons; == is the equality of the strings.  CmpVersion is      *)
(* negative, 0 or positive.                                                *)
CmpVersion(v, w) == rank[v.version] - rank[w.version]
lt(v, w) == v.name < w.name \/ (v.name = w.name /\ CmpVersion(v, w) < 0)
le(v, w) == v.name < w.name \/ (v.name = w.name /\ CmpVersion(v, w) <= 0)
gt(v, w) == v.name > w.name \/ (v.name = w.name /\ CmpVersion(v, w) > 0)
ge(v, w) == v.name > w.name \/ (v.name = w.name /\ CmpVersion(v, w) >= 0)

(* The length given to substr wraps when the last dash is before the first *)
(* colon: then everything behind the colon is returned.                    *)
upstreamVersion(s) ==
  LET colon == Min({n \in DOMAIN s : s[n] = ":"} \cup {Len(s) + 1})
      dash == Max({n \in DOMAIN s : s[n] = "-"} \cup {0})
      first == IF colon > Len(s) THEN 1 ELSE colon + 1
      last == IF dash = 0 \/ dash < first - 1 THEN Len(s) ELSE dash - 1
  IN  SubSeq(s, first, last)

-----------------------------------------------------------------------------
(* Apt                                                                     *)

Found(pkg) == {n \in DOMAIN cache : cache[n].name = pkg}
isValid(pkg) == Found(pkg) # {}
Pkg(pkg) == cache[Min(Found(pkg))]
Candidate(pkg) == IF isValid(pkg) THEN Pkg(pkg).candidate ELSE 0
Current(pkg) == IF isValid(pkg) THEN Pkg(pkg).current ELSE 0

(* The version at place n of the package's list. *)
Nth(pkg, n) == IF n = 0 THEN NoVersion ELSE Version(pkg, Pkg(pkg).versions[n].ver)

validateName(pkg) == IF isValid(pkg) THEN pkg ELSE 0

(* The versions of its package that have the string of ver. *)
Same(ver) ==
  IF ~isValid(ver.name) THEN {}
  ELSE {n \in DOMAIN Pkg(ver.name).versions : Pkg(ver.name).versions[n].ver = ver.version}

validate(ver) == IF Same(ver) = {} THEN NoVersion ELSE ver
candidateVersion(pkg) == Nth(pkg, Candidate(pkg))
installedVersion(pkg) == Nth(pkg, Current(pkg))
anyVersion(pkg) == Nth(pkg, IF Candidate(pkg) # 0 THEN Candidate(pkg) ELSE Current(pkg))

(* Mutant: the candidate counts whether the package is installed or not. *)
state_AlwaysUpgradable(pkg, sc) ==
  IF ~isValid(pkg) THEN {}
  ELSE LET here == Pkg(pkg).state \notin {"ConfigFiles", "NotInstalled"} /\ Current(pkg) # 0
       IN  {"Valid"} \cup (IF here THEN {"Installed"} ELSE {})
           \cup (IF Candidate(pkg) \notin {0, Current(pkg)} THEN {"Upgradable"} ELSE {})
           \cup sc

(* state(pkg), the set of its flags.  sc is what the depcache says: one of *)
(* Install, Keep and Remove, perhaps ReInstall, Purge, NowBroken and       *)
(* WillBreak.  Upgrade and Hold are never set.                             *)
state(pkg, sc) ==
  IF ~isValid(pkg) THEN {}
  ELSE LET here == Pkg(pkg).state \notin {"ConfigFiles", "NotInstalled"} /\ Current(pkg) # 0
       IN  {"Valid"} \cup (IF here THEN {"Installed"} ELSE {})
           \cup (IF here /\ Candidate(pkg) \notin {0, Current(pkg)} THEN {"Upgradable"} ELSE {})
           \cup sc

DepStates ==
  {{mode} \cup more : mode \in {"Install", "Keep", "Remove"},
                      more \in SUBSET {"ReInstall", "Purge", "NowBroken", "WillBreak"}}

hasNewVersion(st) == "Upgradable" \in st
upgradable(st) == hasNewVersion(st) /\ "Hold" \notin st
upgrade(st) == hasNewVersion(st) /\ "Install" \in st
newInstall(st) == "Installed" \notin st /\ "Install" \in st

NoFile == [file |-> "", off |-> 0, size |-> 0]

(* The first file of a version that is a source, if there is one. *)
Sources(v) == {n \in DOMAIN v.files : v.files[n].file \notin NotSource}
inArchive(v) == v.files[Min(Sources(v))]

(* Where rawRecord(ver) reads. *)
rawRecord(ver) ==
  IF Same(ver) = {} THEN NoFile
  ELSE LET v == Pkg(ver.name).versions[Min(Same(ver))]
       IN  IF Sources(v) # {} THEN inArchive(v) ELSE v.files[1]

-----------------------------------------------------------------------------
(* RecordIteratorImpl                                                      *)

(* Mutant: the record of the version found in an archive. *)
recordOf_OtherVersion(p) ==
  LET vi == IF p.candidate # 0 THEN p.candidate ELSE p.current
      known == {n \in DOMAIN p.versions : Sources(p.versions[n]) # {}}
  IN  IF vi = 0 \/ known = {} THEN NoFile
      ELSE IF Sources(p.versions[vi]) # {} THEN inArchive(p.versions[vi])
      ELSE inArchive(p.versions[Min(known)])

(* The record chosen for package p.  When its version is in no archive but *)
(* another of its versions is, it is the first record of that version.     *)
recordOf(p) ==
  LET vi == IF p.candidate # 0 THEN p.candidate ELSE p.current
      known == {n \in DOMAIN p.versions : Sources(p.versions[n]) # {}}
  IN  IF vi = 0 THEN NoFile
      ELSE IF Sources(p.versions[vi]) # {} THEN inArchive(p.versions[vi])
      ELSE IF known # {} THEN p.versions[vi].files[1]
      ELSE NoFile

localityCompare(a, b) ==
  IF a.file = b.file THEN a.off < b.off ELSE fileNo[a.file] < fileNo[b.file]

(* vflist, sorted: at place k stands the record that k - 1 others come     *)
(* before.                                                                 *)
recordList(c) ==
  LET kept == {n \in DOMAIN c : recordOf(c[n]) # NoFile}
      before(m, n) == \/ localityCompare(recordOf(c[m]), recordOf(c[n]))
                      \/ ~localityCompare(recordOf(c[n]), recordOf(c[m])) /\ m < n
      place(n) == Cardinality({m \in kept : before(m, n)}) + 1
  IN  [k \in 1..Cardinality(kept) |-> recordOf(c[CHOOSE n \in kept : place(n) = k])]

-----------------------------------------------------------------------------
(* Properties.                                                             *)

PkgNames == {cache[n].name : n \in DOMAIN cache}

(* Two versions of the package share their string, as when a package was   *)
(* rebuilt without a new version.                                          *)
Ambiguous(pkg) ==
  LET vs == Pkg(pkg).versions
  IN  \E m, n \in DOMAIN vs : m # n /\ vs[m].ver = vs[n].ver

(* The package has a version to show, and one (perhaps another) that can   *)
(* be got from an archive.                                                 *)
Listed(pkg) ==
  /\ validVersion(anyVersion(pkg))
  /\ \E n \in DOMAIN Pkg(pkg).versions, f \in DOMAIN fileNo \ NotSource :
       \E k \in DOMAIN Pkg(pkg).versions[n].files : Pkg(pkg).versions[n].files[k].file = f

(* The list of records has one record for each package that has a version  *)
(* to show and is in an archive, and none for the others, ordered so that  *)
(* each file is read once from front to back; and it is the record that    *)
(* rawRecord gives for the package's name, unless two versions share their *)
(* string, when rawRecord takes the first of them.                         *)
RecordListSound ==
  LET list == recordList(cache)
      own(pkg) == {k \in DOMAIN list :
                     \E n \in DOMAIN Pkg(pkg).versions :
                       list[k] \in ToSet(Pkg(pkg).versions[n].files)}
  IN  /\ \A pkg \in PkgNames :
           /\ Cardinality(own(pkg)) = IF Listed(pkg) THEN 1 ELSE 0
           /\ ~Ambiguous(pkg) =>
                \A k \in own(pkg) : list[k] = rawRecord(anyVersion(pkg))
      /\ Len(list) <= Len(cache)
      /\ \A j, k \in DOMAIN list : j < k =>
           /\ fileNo[list[j].file] <= fileNo[list[k].file]
           /\ list[j].file = list[k].file => list[j].off + list[j].size <= list[k].off

(* The comparisons of two versions of a package agree with each other:     *)
(* exactly one of <, > and "both <= and >=" holds, the last also for equal *)
(* versions.  What upstreamVersion returns stands behind a colon or at the *)
(* beginning, and before a dash or at the end, also when the length wraps. *)
VersionsCohere ==
  \A pkg \in PkgNames :
    LET vs == {Nth(pkg, n) : n \in DOMAIN Pkg(pkg).versions}
    IN  \A v, w \in vs :
          /\ Cardinality({k \in 1..3 : <<lt(v, w), gt(v, w), le(v, w) /\ ge(v, w)>>[k]}) = 1
          /\ v = w => le(v, w) /\ ge(v, w)
          /\ LET s == v.version
                 u == upstreamVersion(s)
             IN  \E i \in 0..Len(s) : \E j \in i..Len(s) :
                   /\ u = SubSeq(s, i + 1, j)
                   /\ i = 0 \/ s[i] = ":"
                   /\ j = Len(s) \/ s[j + 1] = "-"

(* The queries tell one story about a package.  Every version they give is *)
(* one that validate accepts.  An installed package has an installed       *)
(* version; it has a new version exactly when its candidate is another     *)
(* version, as far as the strings tell them apart; a package that is not   *)
(* installed has none, and none to upgrade to.                             *)
QueriesCohere ==
  /\ VersionsCohere
  /\ \A pkg \in PkgNames \cup {0} :
       LET st == state(pkg, {"Keep"})
           cand == candidateVersion(pkg)
           inst == installedVersion(pkg)
       IN  /\ \A v \in {cand, inst, anyVersion(pkg)} :
                validVersion(v) <=> validate(v) = v /\ v # NoVersion
           /\ validVersion(anyVersion(pkg)) <=> validVersion(cand) \/ validVersion(inst)
           /\ ("Valid" \in st <=> isValid(pkg)) /\ (validateName(pkg) # 0 <=> isValid(pkg))
           /\ "Installed" \in st => validVersion(inst)
           /\ hasNewVersion(st) => "Installed" \in st /\ validVersion(cand)
           /\ "Installed" \in st /\ ~Ambiguous(pkg) =>
                (upgradable(st) <=> validVersion(cand) /\ cand # inst)
           /\ \A sc \in DepStates : ~(upgrade(state(pkg, sc)) /\ newInstall(state(pkg, sc)))
=============================================================================

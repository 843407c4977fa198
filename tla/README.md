# libept in TLA+

libept is a C++ library over the package data of a Debian system: it reads the
APT cache through libapt-pkg, the Debtags tag database and its vocabulary, and
the location of the Xapian index.  It has no threads of its own.  What makes it
hard is that the files it reads are replaced by other processes (dpkg, apt-get,
debtags) between any two of its steps, that most calls into libapt or the file
system may fail half way through an operation, and that handles, caches and
pairs of maps have to stay consistent through any sequence of calls.

This directory models the library's core, checks it with TLC and proves its
most important invariants with TLAPS.  `PROJECT.json` holds the run list, the
line-by-line map from definitions to source, the hazards and the findings.

## Inventory

| Component | State it keeps | Operations | Modelled by |
|---|---|---|---|
| `coll::Fast` (ept/debtags/coll/fast.*) | two maps, item to tags and tag to items | three `insert`s, `removeTag`, pruning, `getChildCollection`, `clear`, queries | `Fast`, abstractly `TagRelation` |
| set operators (operators.h, set.h) | none | union, intersection, difference, inclusion, distance as loops over two sorted sets | `SetOps` |
| text format (TextFormat.*) | automaton state, current line | `parseElement`, `parse` | `TextFormat` |
| `Debtags` (debtags.*) | a `Fast`, a timestamp | two constructors, `load`, `hasData` | `Debtags`, on top of `TextFormat` |
| `Vocabulary` (vocabulary.*) | facets, tags, their fields, cached short descriptions, a timestamp | `load`/`read` (merging), `write`, queries | `Vocabulary`; its printed form in `DebDBParser` |
| `DebDBParser` (maint/debdbparser.*) | stream, isBOL, isEOF | `nextRecord` and four helpers | `DebDBParser` |
| `Apt` provider (apt/apt.*) | pointer to an `AptImplementation`: open timestamp, cache, lazily opened depcache | construction, `checkCacheUpdates`, `invalidateTimestamp`, `state`, `rawRecord`, queries, destruction | `Apt`; the queries on a loaded cache in `AptCache` |
| record reader (`RecordIteratorImpl`) | open file, last file, last offset | construction from the cache, `record` | `AptCache` (the list of records), `RecordReader` |
| record iterators | shared reference-counted reader, position, cached text | construction, copy, assignment, `*`, `->`, `++`, destruction | `RecordIterator` |
| package iterator (`Apt::Iterator`) | an owned copy of a libapt iterator | `begin`, `end`, copy, assignment, `++`, comparison, destruction | `PackageIterator` |
| `RecordParser` (apt/recordparser.*) | buffer, field ends, field order | `scan`, `index`, `lookup` | `RecordParser` |
| `PackageRecord` (apt/packagerecord.*) | that of its base class | `tag` with its `Tagparser`, descriptions, other getters | `PackageRecord` |
| `Version` (apt/version.*) | two strings | splitting, comparing | `AptCache` |
| `axi` | a static path with an RAII override | set, override, restore | not modelled |
| `sys` utilities | descriptors, mappings; the file system they share with other processes | atomic writing, directory creation and removal; owners of descriptors and mappings; whole files; `abspath`, `makedirs`, `which`; wrappers of single system calls | `Sys`, abstractly `Register`; `Descriptors`; `Files`; `Paths` |
| `str` utilities | none | splitting, pathnames, stripping, codecs | `Split`, `Paths`, `Text` |
| progress callback, tools, test harness | | | not modelled: no logic of their own |

How they interact: `Debtags` is a `Fast` that `textformat::parse` fills;
`Vocabulary` reads through `DebDBParser` and writes through
`sys::write_file_atomically`; `Apt` owns the `AptImplementation` that record
iterators refer to; record iterators share a `RecordIteratorImpl`, whose
`record` they call; the texts they return go to `PackageRecord`, which is a
`RecordParser`.  Shared state outside the process is the file system and, inside
it, libapt's global configuration and error stack.

What correctness means per component: `Fast` is one relation although it stores
two; the text reader takes each line on its own; the vocabulary survives a
write and a read; the provider never works with data whose age it cannot tell,
and never touches memory it has freed; its queries tell one story about a
package; a record iterator returns the bytes of its own record, and a package
iterator passes every package once; a descriptor has one owner; the functions on
strings, sets and pathnames compute what their documentation says, at the edges
too.

## Modules and their correspondence to the code

* **TagRelation** is the abstract specification of a tag collection: a set of
  pairs and the set of known tags.
* **Fast** has one variable per map and one action per method that changes
  them.  The operators `insertItem`, `removeTag`, ... take and return a pair of
  maps, so that `getChildCollection` (build a collection, then `removeTag` on
  it) is their composition.  Dereferencing `end()` sets `undef`.  Pruning, a loop
  of `removeTag` over the map being changed, is one action; the invariant
  `CardinalitiesAgree` evaluates the loop itself and compares, and does the same
  for the search of the tag with most items.
* **Apt** has one action per step of the provider that another process can come
  between: flagging and initialising the library, taking the timestamp, reading
  the cache, the two halves of `rawRecord`.  dpkg, apt-get and the clock are
  actions marked external, as are libapt's own steps.  Package data are two
  version counters.  `lastWrite`, `recorded`, `blurred`, `failed` and `raced` are
  history variables.  Undefined behaviour ends the behaviour in `obj = "undefined"`.
* **AptCache** is what `Apt` answers from the cache it has loaded: versions of a
  package, validation, the flags of `state`, the place of a record, and the list
  of records `RecordIteratorImpl` is made with, whose order is that of files on
  disk.  `Version` is part of it.  The cache, the policy and the order of version
  strings are libapt's and constants.
* **RecordReader** is `RecordIteratorImpl::record`: which file it believes to be
  open, where it believes the last read ended, and the descriptor's real
  position.  Each way out of the function (`IsOk` false, open, seek, read
  failing, success) is an action.  The uninitialised `lastOffset` starts with
  any value of `Garbage`.
* **RecordIterator** is the handle level: a heap of implementations with
  reference counts, handles with positions and cached text, and the reopening
  of the cache that invalidates them.
* **PackageIterator** is `Apt::Iterator`: iterators that own a `PkgIterator` on the
  heap, the packages without versions that `++` skips, and the same reopening.
  Which places an iterator has been at is a history.
* **TextFormat** runs `parseElement`'s automaton one `getc` per step and does
  `parse`'s work in the step in which an element ends.  It inserts into
  `TagRelation` (by `INSTANCE`), which is what `Fast` is proved to implement.  The
  meaning of a line (`Meaning`) is defined a second time without the automaton,
  by quantifying over the separators that count.
* **Debtags** puts the constructor around it: looking whether there is a file,
  opening it, parsing, closing, reading the timestamp by name.  Another process
  replaces or removes the file between any two steps.
* **DebDBParser** runs `nextRecord` one helper call per step, on arbitrary files
  and on files printed by the vocabulary's writer (`write`, `escaped`).
* **Sys** lets several processes call `mkdir_ifmissing` on a directory,
  `write_file_atomically` on one file in it and `rmtree` on it.  A step is a system
  call; each may fail, and a process may die before it.  `files` maps the names in
  the directory to contents and how much of them is written; `held` says whether
  the directory `rmtree` has open still has its pathname.  `seen`, `removals` and
  `failed` are histories.  Assumed of the file system: names made up by mkstemp do
  not recur while in use, a small directory is listed in one piece, and, since
  nothing is synced, power does not fail between write and rename.  Permissions
  (`fchmod`, the umask read before it) carry no property and are left out.
* **Descriptors** has the objects that own descriptors (`File`, `Path`, the
  directory iterator) and mappings (`MMap`), one action per constructor, move,
  assignment, `close` and destructor, and the descriptor table, in which the lowest
  free number is given out again.  Every system call may fail.  Ghost fields
  remember which open a number meant to the object that keeps it.
* **Files** has the functions on whole files; `write_file` covers the beginning of
  what was there.  `meant` is what the calls should have left.
* **Split** is `str::Split` with its iterator, one action per `++`; `tokens` is what the
  loop has seen, and `TokensFrom` what it will see from each position on.  **Paths** the
  pathname functions, with a walk over the components of a pathname as their
  reference; **Text** `strip` and the codings, on character codes.
* **SetOps** are the loops of operators.h: a call is a step, and so is each round; an
  iterator is the set of elements it has not passed.
* **Register** is the abstract file that `write_file_atomically` promises.
* **Vocabulary** has the two levels of maps as partial functions, one action per
  step of `load` (open, each record, a throw, the end, the timestamp), for
  `shortDescription`, which fills its cache, and for `write`.  Another process
  replaces or removes the file at any time; that a replacement is atomic is what
  `Sys` shows.  `log` holds the records merged so far, and `IsMergeOf` says a second
  time, field by field, what they should amount to.
* **RecordParser** has one action per call and one per round of each loop: a
  record is scanned, sorted and searched, and the same object scans the next one.
  Characters are codes, because names are ordered by them.  std::sort may leave
  equal names in any order.  `RecordEnd` and `FieldStarts` say a second time what a
  record is.  The `size_t` comparison that wraps on an empty buffer is `more`.
* **PackageRecord** extends it by `tag()`: the automaton, one round of its loop per
  step, and the expansion of braces, and by the descriptions.  `Written` is how lists of tags are spelled,
  `Denoted` what they stand for.
* **LibraryProofs** (`Fast`, `SetOps`, `Text` and `Split`), **AptProofs**, **IteratorProofs** (both kinds of iterators, with
  `RecordReader` and `AptCache`), **SysProofs** (with `Descriptors` and `Files`),
  **VocabularyProofs**, **DebtagsProofs** (with `TextFormat`), **DebDBParserProofs** and
  **PackageRecordProofs** (with `RecordParser`) hold the theorems; the `MC*` modules
  give the constants their values.  `MCLibrary` puts the parts that one thread uses by themselves into one run, one of them per
  behaviour; `MCRecordReader` reads, with `RecordReader`, the list that `AptCache`
  makes (assumption `VflistOfCache`); `MCRecordIterator` has both kinds of iterators.

Definitions named `X_Something` directly before a definition `X` are mutants: `X`
as a plausible mistake would have it.  Each property is violated by one of them.

## Runs

| Run | Shows | Bounds |
|---|---|---|
| `library` | the tag collection: maps converse, queries and loops agree, undefined only on misuse, refinement of `TagRelation`; set loops compute the set operations; one owner per descriptor and mapping; files read back what was last written; tokens make up the string; pathnames lead where they led; directories are made parents first; decoding undoes encoding | 3 items, 3 tags, all prune bounds up to 3: an item can lose its last tag, tags can tie, a tag can be known without items, one prune can remove several tags of an item; all pairs of subsets of 4 elements; 2 objects of each kind, 3 descriptors, 4 opens: a number can be closed and come back; 2 files of up to 2 letters; strings up to 4 over 3 letters with separators that are empty, single, long and self-overlapping; pathnames up to 6 characters; texts up to 4 bytes (more than one base64 group) over the bytes the codings treat differently |
| `apt` | stale data are noticed, depcache never older than cache, memory misused only after a failure, wrong raw record only by a race, the provider catches up | clock 2..3, 2 changes: a change before, between and after stamp and read, in the same and in a later second |
| `apt_reopen` | violation: a failed reopen leaves a dangling pointer | same |
| `record_reader` | every record read right until something throws; a seek realigns; the list of records has each package that is in an archive once, in the order of the files; the queries agree | 2 files, 6 records with gaps 0, 1, exactly the slack, one more; three garbage offsets; caches of 2 packages with up to 2 versions in up to 2 files each, any of them candidate and current, with version strings that compare equal |
| `reader_file` | violation: record read from the wrong file after a failed check | same |
| `record_iterator` | reference counts exact, texts and positions agree, no use after free short of misuse; package iterators never share or leak and pass every package | 3 iterators, 2 implementations, up to 2 records; 3 package iterators, caches of up to 3 packages, with and without versions; one reopen; symmetric in the objects |
| `text_format` | collection = meaning of the lines read; a `Debtags` holds all of its file or none, and no newer file's timestamp unless raced | every file of up to 4 chunks out of 8, so that two complete lines fit; 2 editions |
| `deb_db` | write/read round trip with canonical bodies, termination when the last line is complete | every file of up to 5 chunks out of 7; every body up to 5 characters, every pair up to 2 in a two-record vocabulary |
| `deb_db_end` | violation: nextRecord loops for ever on an unfinished continuation line | same, fewer written files |
| `package_record` | a name is found if the record has it, whatever was scanned before; `tag()` returns what was written; the descriptions divide their field | every record of up to 3 lines out of 8 kinds (continuations, empty and unfinished lines, repeated names, a name that is a prefix of another), each scanned after each; lists of up to 2 tags, with and without braces, in 4 spellings; 7 malformed lists |
| `sys` | file always whole and a register, `mkdir_ifmissing` answers rightly, litter only after failures, every call returns | 2 processes, 2 contents of size 2 (a short write happens), 2 temporary names (they can run out), 2 rounds of `mkdir_ifmissing` instead of 5: the round is the same each time, and the theorem is for any number |
| `vocabulary` | merged data = override of the records, write loses nothing, timestamps and cached descriptions mean what they say | 4 files with all kinds of records, 2 loads, 3 seconds: a load can override, break off, and be raced in the same and in a later second |

Deadlock is not checked where the system may rightly stop: after undefined
behaviour, at the bound of the clock and of the other processes' writes, when a
parser has ended, when a function has been called on its one argument.
`RecordReader` (in `reader_file`), `PackageRecord` and `Sys` never stop and are
checked for deadlock.

Conditions under which the passing properties are stated are real limits of the
code, each shown by TLC when the condition is dropped:

* `StaleIsNoticed` excepts `blurred`: two timestamped writes in one second, or a
  removed pkgcache.bin, are not told apart by `<` on seconds (apt.cc:642).
* `DepcacheNotOlder` is an inequality: the depcache `state()` opens lazily can be
  newer than the cache whose package numbers index it (apt.cc:537).
* `UndefinedNeedsFailure`: after a failed `pkgInitSystem`, `depcache().Open` or
  reopen, later calls use what was not initialised or is freed (apt.cc:81, 149,
  645).
* A read error an earlier `rawRecord` left on libapt's stack makes later ones
  return nothing (`got = "emptyPending"`, apt.cc:613).
* `RightRecordIfNoThrow`: a throw can leave position and `lastOffset` apart
  (apt.cc:289-294) or `lastFile` and the open file (apt.cc:263).
* `UndefinedNeedsMisuse` excepts an empty cache: `recordBegin` reads record 0
  (apt.cc:376).
* `OnlyMisuseIsUndefined`: `getChildCollection` of a known tag without items, or
  `removeTag` of an unknown one, dereferences `end()` (fast.cc:203).
* `RoundTrip` excepts bodies that end with a newline: the writer's own newline
  then makes an empty line, which ends the record (vocabulary.cc:311).
* `LookupFinds` wants the record to end with a newline: scan drops an unfinished
  last line of one character, and with it the field it continues
  (recordparser.cc:56).
* `GettersFaithful` is about lists as they are meant to be written: after an empty
  pair of braces the automaton swallows what follows up to the next closing brace,
  and the last character of a tag is cut off if it is not the brace
  (packagerecord.cc:92, 163).
* `StampMeansLoaded` excepts files replaced during a load, whose new timestamp
  the old data get (vocabulary.cc:127), and files replaced within a second.
* `CachedIsFirstLine` excepts descriptions merged after the old one was cached:
  `shortDescription` goes on returning the old one (vocabulary.cc:51).
* `Vocabulary::write` that throws leaves the process with umask 022
  (vocabulary.cc:265-267).
* `LoadedOrNothing` excepts a `Debtags` whose file was replaced or removed between
  open and timestamp, or replaced within a second (debtags.cc:74).
* `OwnedOnce` excepts the descriptor of a `File` or `Path` that another is
  move-assigned over (sys.cc:300), and the one a directory iterator had opened when
  its constructor threw (sys.cc:409).
* `NoStrayAccess` excepts what follows a failed `close()`, after which the object
  keeps the number (sys.cc:242), and a moved iterator, which has lost its path
  (sys.h:210).
* `ReadsLastWrite` excepts files overwritten by less than they held, since
  `write_file` does not truncate (sys.cc:614), and empty files, which `read_file`
  throws on (sys.cc:598).
* `PathsResolve` and `normpath`: a relative pathname that leads above its start
  takes `back()` of an empty vector (string.cc:115).
* `SplitSound`: an empty separator with `skip_empty` never gets anywhere
  (string.cc:154); a string of separators only has one empty token.
* `TextRoundTrips`: of an escaped control character `decode_cstring` reads the 0 of
  `0x` (string.cc:295); a text of a single percent sign makes `decode_url` subtract
  2 from 1 (string.cc:337); of a text that is one blank `strip` looks for the end
  below position 0 (string.h:140).
* `PackageIteratorsSound` excepts `begin()` of an empty cache, which is not `end()`;
  the first package is passed whether it has versions or not (apt.cc:447).
* `RecordListSound` and `QueriesCohere` except packages with two versions of one
  string, of which `rawRecord` takes the first (apt.cc:595).

## Fairness

`Apt` assumes weak fairness of the steps inside a constructor and inside
`rawRecord` (the thread is not stopped), and strong fairness of
`checkCacheUpdates` (the application calls it time and again, as its
documentation intends; strong because it is not enabled while another call
runs).  Nothing is assumed of other processes or of the clock.  In `Sys` each process's own steps are weakly fair: it runs,
and a system call returns; failing, dying, calling and the other processes are
never due.  `DebDBParser` assumes weak fairness of its own steps; read errors may happen but are never due.

## Proofs

All theorems hold for every value of the constants under the named assumptions
of the modules.  Most of those say what a constant is (a number, a set of
sequences).  The ones that carry weight:

* `NullAssumption`, `NullIsNoObject`, `CellsAssumption`, `NamesAssumption`: a null
  pointer, or no file, is none of the objects.
* `FdsAssumption` and `HandlesAssumption`: descriptors and handles are finitely
  many, so that "the lowest free number" and reference counts mean something.
* `FilesAssumption` of `Vocabulary`: every name that a record gives a tag has its
  facet in `facetOf`, since `getfacet` cuts any string.
* `CachesAssumption` of `AptCache`: in a cache of libapt names and version strings
  are not empty, and candidate and current version are of the package's list.
* `PlacesAssumption` of `AptCache`: records are not empty, those of two packages do not
  overlap in their file, and no two packages have one name, which is so in a cache
  of one architecture.
* `ElemsAssumption` of `SetOps`: elements are numbers, for an order that is total and
  in which every set that is not empty has a least element.
* `NamesOnOneLine` of `PackageRecord`: the getters look up literal names, none of
  which has a newline in it.
* `SourcesAssumption` of `DebDBParser`: a vocabulary is records with at least one
  field, no two of one name (`m_facets` and `m_tags` are maps), names made of the
  characters `getFieldName` takes for one, and no body longer than is kept.
* `TagListsAssumption` of `PackageRecord`: what lists of tags are made of, texts that
  are not empty and have no separator and no brace in them.

Where an argument goes by induction over a loop or a sequence, it takes the least
counterexample: `WFMin` and `NatLessThanWellFounded` of WellFoundedInduction say that
a set of numbers has a least element, which needs no operator as a parameter.

* **LibraryProofs.**  About `Fast`, the inductive invariant is `TypeOK /\ Consistent`; the maps are
  converses and no item is left without tags, which is what makes every unchecked
  lookup succeed.  From it: `Consistency`, `QueriesCorrect` (queries by the tag
  map answer by the item map), `MisuseOnly`, and `FastImplementsRelation`, the
  refinement of `TagRelation`, action by action.  `CardinalitiesCorrect` is about
  the loops of pruning and of the search for the most frequent tag; its hypotheses
  that items and tags are finitely many make their cardinalities numbers.

  About `SetOps`, `SetsInv` has two parts beside the types: `Frontier` (what an
  iterator has passed is less than anything ahead of either, except in a union)
  and `SoFar` (the target, or the counters, are right for the elements passed).
  From it `MergesCorrect`.

  `CodingsRoundTrip` takes one lemma for each of the functions of `Text`.  An encoded
  text is its pieces one behind the other (`FlattenLaysOut`); one piece is decoded
  in one go (`CStringPiece`, `UrlPiece`), and from there the argument goes backwards
  from the end of the text, or from where it was cut, to its first character
  (`CStringDecodes`, `UrlDecodes`).  That the decoders' recursions, which jump ahead,
  have a solution is shown first.  In base64 groups of three bytes and of four
  digits stand for the same number (`FourDigits`, `ThreeBytes`), and padded digits
  for zeros (`ZeroDigits`).

  `SplitIInv` says what the loop has seen for where it is (`LoopSoFar`): of a plain
  loop, that the tokens so far, joined, and the rest of the string make up the
  string (`PlainSoFar`); of one that skips, that the tokens to come without the
  empty ones are what is left of those of the plain loop (`SkippedSoFar`), which
  needs that the iterator never stands at a separator; with an empty separator, the
  characters passed.  `CutAt` says once what a step of `operator++` cuts off and
  where it goes on (`IncrementedIs`), and the tokens of the plain loop are shown to
  be what those steps give (`PlainTokensStep`).  From it `SplitIsSound`.
* **AptProofs.**  `StaleIsNoticed` is not inductive: the stamp taken before the
  data are read has to be related to the last write.  The invariant adds `ClockInv`
  (no mtime lies in the future, and unless `blurred` the newest mtime is the time
  of the last write), `FreshInv` (the stamp is no newer than the last write, and
  older than it whenever the loaded data miss a recorded change) and `FailureInv`
  (no implementation is live while one is constructed; a dangling pointer between
  calls, a flagged library or an unopened depcache imply `failed`).  From it:
  `StaleDataNoticed`, `MemorySafeUnlessFailure`, `DepcacheAge`.  `RaceInv` adds that
  between the halves of `rawRecord` the lists on disk are those of the cache
  unless they were replaced since; `WrongRecordNeedsReplacement` is an action
  property on top of it.
* **IteratorProofs.**  `HandlesInv` adds `Placed`: a handle's text is that of the
  position it was read for, and a handle in scope has a position whatever becomes
  of its implementation.  That a reference count is the number of handles is kept
  because each step moves one handle in or out of one set of holders.  From it
  `HandlesAreSound` and `HandlesNeedMisuse`.  `PkgInv` adds `OneOwner` (every live
  cell has one iterator, no two iterators a cell) and `Seen`, where an iterator has
  been in terms of where it is; `ToVisit` grows by one place per `++`.

  About `RecordReader`, `ReaderInv` adds `Aligned`: while nothing has thrown, the
  descriptor is open on `lastFile` and stands at `lastOffset`.  From it `RightRecord`;
  `Realignment` needs types only.  `QueriesTellOneStory` needs of the cache that it
  is one of libapt's (`CacheOK`); its work is in the comparisons, of which exactly
  one holds (`OneComparison`), and in where the first colon and the last dash of a
  version string are (`UpstreamIsBetween`).  `RecordListIsSound` counts: a record's
  position in the list is one more than the number of records that are read before
  it, the order of reading is total because the places of two packages are apart,
  and so the positions are those from 1 to the number of packages to be shown.
* **VocabularyProofs.**  `MergeIsOverride` quantifies over the log of records;
  `ContentInv` adds the shape of the maps and that every record still to come is
  well formed.  From it `VocabularyIsMerge` and `WriteKeepsAll`.  `StampInv` says that
  while a file is read the records read so far are at the end of the log and the
  others in the stream, unless `raced`; from it `StampIsOfWhatWasLoaded`.
  `CachedIsFirst` follows the cached descriptions through one merge at a time.
* **DebtagsProofs.**  `LineInv` says what the automaton of `parseElement` knows after
  any number of characters of a line: there is a last cut (a separator that counts)
  behind which it is in a word or between words, and the two sets are the names up
  to it.  `ContentInv` is that the collection is the meaning of the complete lines.
  `ParserInductive` is the step; `LinesAreIndependent` and, with `PhaseInv`, `DiskInv`
  and `FreshInv` about the file at the pathname, `LoadIsAllOrNothing` follow.
* **DebDBParserProofs.**  `ParserInv` has two parts.  For any file, every body is
  `Neat` at every step (`ParserTypes`): no blank beside a newline or at an end, no dot
  alone on a line but the first.  That speaks of characters and their neighbours,
  so that a line more keeps it (`ContinuationFacts`), and is equivalent to `Canonical`
  (`CanonicalIsNeat`, `NeatIsCanonical`).  For a file printed from a vocabulary with
  printable bodies (`WrittenWell`), `Progress` says at which record, field and
  character of its body the parser is: which place in the file that is, what it has
  read by then, and what the flags and `n` are.  The places come from `FlattenSeq`,
  which lays its pieces out one behind the other at all three levels (`EscapedFacts`,
  `RecordWritten`, `VocabularyWritten`).  There is one lemma for each helper; the
  crucial one is `EatStep`: what follows a line of a body is one blank, the first
  character of a field or one newline, and never mistaken.  From it
  `WhatIsWrittenIsRead` and `WhatIsWrittenIsAccepted`.
* **SysProofs.**  `TargetWhole` rests on `Own`: a name is held exactly while the
  temporary file is open, by one process only, and the file under it, if still
  there, has that process's content as far as it has written it.  From it
  `FileIsWhole` and, action by action, `WriteIsAtomic`.  `MkdirAnswers` rests on
  `Rounds`: each finished round of `mkdir_ifmissing` stands for a dangling link
  seen or for one removal of the pathname, and between mkdir's EEXIST and stat's
  ENOENT lies one more.  `LitterNeedsFailure` uses `Own` again.

  `OwnedOnce` counts owners by number, but numbers come back; the invariant speaks
  of opens instead (`Kept`): an object keeps an open that nobody else keeps, the
  table has each open at one number, and as long as no `close` failed the number an
  object has still stands for its open.  Proved once for a family of keepers beside
  another, and used for files and for iterators.  From it `DescriptorsOwnedOnce` and
  `StrayAccessNeedsFailure`.  `FilesReadLastWrite` follows from `FilesInv`, content by
  content.
* **PackageRecordProofs.**  `LookupInv` says what `scan` knows in each of its rounds:
  the lines before the cursor are inside the record (`ScanInv`), so that in the
  end the recorded ends are those of the fields that `FieldStarts` defines by
  quantifiers; sorting leaves them a sorted permutation of themselves
  (`SortInv`); and while the search goes on, no field with the wanted name lies
  before or behind the interval that is left (`SearchInv`).  From it `IndexFinds`,
  whatever the object had scanned before.  `GettersAreFaithful` starts from the
  body that was looked up.  `TagInv` says that after any number of characters
  exactly the tags before some tag of the list are in the set, and the automaton
  is in the separators before that one or some number of characters into it
  (`Progress`).  Where the tags stand in the text is a matter of `FlattenSeq`, whose
  recursion is shown to have a solution and to lay the pieces out one behind the
  other (`StartsAndStops`); the expansion of braces is dealt with by `ExpandIs`, and
  the two descriptions by `DescriptionFacts`, which for a field without a colon needs
  that its name is on one line (`OneLine`).

Only model-checked:

* everything about liveness, which needs ENABLED;
* `PathsResolve` and `MakedirsMakes`: `Paths` is written with RECURSIVE operators,
  and they compare what a recursion over the components computes with a reference.

The `TypeOK`s of the proved modules are part of their inductive invariants, and no
run's property: the theorems have them for every value of the constants.

## Not modelled, and why

libapt-pkg, Xapian and the C++ library are outside the repository; libapt appears
as the actions of `Apt` marked external and as the constants of `AptCache`.  Memory
leaks of partly constructed objects are left out except for the reader leaked by a
throwing iterator constructor and the descriptor leaked by a throwing directory
iterator.  `Apt`'s implicit copy constructor, which would delete the implementation
twice, is never used by the library.

`axi` is a static pathname that an object saves and puts back: one variable, one
thread, no failure.  The conversions of numbers and booleans in `PackageRecord`,
`startswith`, `endswith`, `upper` and `lower` are one comparison or one library call
each, and so are the `sys` wrappers that turn `errno` into an exception.  `rmtree` is
modelled for a flat directory; the recursion into nested ones takes the same steps.
The binary operators of operators.h call the standard algorithms.  Permissions,
wording of messages and progress reporting carry no property.  The test harness
and the command line tools are not part of the library.

## Plan

What is left:

1. `Paths`, once more with recursive functions, so that `PathsResolve` and
   `MakedirsMakes` can be proved from what is proved of `Split`.
2. Lemmas shared by several proof modules (least elements, pieces of sequences) in
   one place.

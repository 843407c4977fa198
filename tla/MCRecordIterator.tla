-------------------------- MODULE MCRecordIterator --------------------------
(* The two kinds of iterators of Apt, one in each behaviour: three record  *)
(* iterators on up to two implementations, and three package iterators on  *)
(* caches of up to three packages, with and without versions.              *)
EXTENDS RecordIterator, PackageIterator, SequencesExt

VARIABLE kind

const_PkgLists == BoundedSeq(BOOLEAN, 3)

Symmetry ==
  Permutations(Handles) \cup Permutations(Impls) \cup Permutations(PkgIters) \cup Permutations(Cells)

MCInit ==
  /\ kind \in {"records", "packages"}
  /\ Init /\ (kind # "records" => recs = 0)
  /\ PkgInit /\ (kind # "packages" => pkgs = <<>>)

MCNext ==
  /\ UNCHANGED kind
  /\ \/ kind = "records" /\ Next /\ UNCHANGED pkgVars
     \/ kind = "packages" /\ PkgNext /\ UNCHANGED vars

MCSpec == MCInit /\ [][MCNext]_<<kind, vars, pkgVars>>
=============================================================================

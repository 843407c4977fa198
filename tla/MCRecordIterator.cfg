SPECIFICATION MCSpec
CONSTANTS
  Handles = {h1, h2, h3}
  Impls = {m1, m2}
  Null = Null
  MaxSize = 2
  MaxGen = 1
  PkgIters = {i1, i2, i3}
  Cells = {c1, c2, c3}
  NoCell = NoCell
  PkgLists <- const_PkgLists
  MaxOpened = 1
SYMMETRY Symmetry
INVARIANTS HandlesSound UndefinedNeedsMisuse PackageIteratorsSound
CHECK_DEADLOCK FALSE

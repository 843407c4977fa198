SPECIFICATION MCSpec
CONSTANTS
  Items = {i1, i2, i3}
  Tags <- const_Tags
  Cards <- const_Cards
  Elems = {1, 2, 3, 4}
  Objs = {o1, o2}
  Iters = {d1, d2}
  Maps = {m1, m2}
  Fds = {0, 1, 2}
  Null = Null
  MaxOpens = 4
  FileNames = {n1, n2}
  Letters = {"x", "y"}
  DataLen = 2
  Chars = {"a", "b", "c"}
  MaxLen = 4
  Seps <- const_Seps
  PathChars = {"/", ".", "a", ":"}
  PathLen = 6
  Cwd <- const_Cwd
  Program <- const_Program
  Bytes = {0, 9, 10, 32, 34, 37, 52, 92, 110, 255}
  TextLen = 4
SYMMETRY Symm
INVARIANTS
  Consistent
  QueriesAgree
  CardinalitiesAgree
  MergesAgree
  OwnedOnce
  NoStrayAccess
  ReadsLastWrite
  SplitSound
  PathsResolve
  MakedirsMakes
  TextRoundTrips
PROPERTIES
  OnlyMisuseIsUndefined
  RelationSpec
CHECK_DEADLOCK FALSE

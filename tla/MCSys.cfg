SPECIFICATION Spec
CONSTANTS
  Procs = {p1, p2}
  Contents = {c1, c2}
  Names = {t1, t2}
  Target = target
  None = None
  Size = 2
  Attempts = 2
INVARIANTS TargetWhole NoLitter
PROPERTIES RegisterSpec MkdirSound CallsReturn

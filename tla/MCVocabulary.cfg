SPECIFICATION Spec
CONSTANTS
  facetOf <- const_facetOf
  Files <- const_Files
  MaxTime = 3
  MaxLoads = 2
INVARIANTS MergeIsOverride WriteLosesNothing StampMeansLoaded CachedIsFirstLine
CHECK_DEADLOCK FALSE

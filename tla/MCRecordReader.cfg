SPECIFICATION MCSpec
CONSTANTS
  Files <- const_Files
  fileLen <- const_fileLen
  vflist <- const_vflist
  Garbage <- const_Garbage
  Caches <- const_Caches
  fileNo <- const_fileNo
  NotSource = {"status"}
  rank <- const_rank
INVARIANTS RightRecordIfNoThrow RecordListSound QueriesCohere
PROPERTY SeekRealigns
CHECK_DEADLOCK FALSE

SPECIFICATION MCSpec
CONSTANTS
  Files <- const_Files
  fileLen <- const_fileLen
  vflist <- const_vflist
  Garbage <- const_Garbage
  Caches <- const_Caches
  fileNo <- const_fileNo
  NotSource = {"status"}
  rank <- const_rank
INVARIANT ReadFromItsFile

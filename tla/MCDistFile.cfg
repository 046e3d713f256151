CONSTANTS
  Requests = {r1, r2}
  Files <- MCFiles
  Hashes <- MCHashes
  ZeroHash = "0"
  Absent = "absent"
  Alt <- MCAlt
  Offered <- MCOffered
SPECIFICATION Spec
INVARIANTS TypeOK ServedIsPinned
PROPERTY CachedFilesSurvive
CHECK_DEADLOCK FALSE

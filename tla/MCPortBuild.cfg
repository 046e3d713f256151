CONSTANTS
  Commands = 2
  MaxBuilds = 3
SPECIFICATION Spec
INVARIANTS TypeOK PackageIsComplete InfoMatchesFiles ListIsOfFailure
CHECK_DEADLOCK FALSE

CONSTANTS
  main = main
  left = left
  right = right
  s1 = s1
  s2 = s2
  Deployers = {d1, d2}
  Root = exe
  Files = {main, left, right}
  Sources = {s1, s2}
  Local = local
  Free = free
  Provided <- MCProvided
  Time <- MCTime
  Deps <- MCDeps
  Now = 3
SPECIFICATION Spec
INVARIANTS TypeOK DirectoryIsClosed HalfWrittenIsNotRead
PROPERTY EveryDeployEnds
CHECK_DEADLOCK FALSE

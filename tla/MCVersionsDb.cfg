CONSTANTS
  Ports = {p, q, r}
  MaxCommit = 2
  MaxTouched = 1
  MaxProcesses = 2
  Torn = torn
  Blank = blank
SYMMETRY Symmetry
SPECIFICATION Spec
INVARIANTS TypeOK MarkedIsComplete BaselineIsFaithful
CHECK_DEADLOCK FALSE

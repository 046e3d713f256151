CONSTANTS
  x = x
  z = z
  qt = qt
  libapp = libapp
  w = w
  sys = sys
  Exe = app
  Libs = {x, z, qt, libapp, w, sys}
  Frameworks = {qt}
  Provided = {x, z, qt, libapp, w}
  Deps <- MCDeps
  Contains <- MCContains
  MaxRuns = 1
SPECIFICATION OsxSpec
INVARIANTS OsxTypeOK BundleIsClosed
PROPERTY EveryRunEnds
CHECK_DEADLOCK FALSE

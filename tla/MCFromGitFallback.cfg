CONSTANTS
  p = p
  q = q
  c1 = c1
  c2 = c2
  main = main
  abbrev = abbrev
  Builds = {b1, b2}
  Ports = {p, q}
  Commits = {c1, c2}
  Branches = {main}
  Shorts = {abbrev}
  Expand <- MCExpand
  History <- MCHistory
  Absent = absent
  Shared = gittmp
  Offered <- MCOffered
SPECIFICATION Spec
INVARIANT NonHeadBuildsGetRef

CONSTANTS
  a = a
  bare = bare
  fits = fits
  also = also
  fails = fails
  Builds = {b1, b2}
  Archives = {a, bare}
  Patches = {fits, also, fails}
  Wrapped = {a}
  Applies <- MCApplies
  Offered <- MCOffered
SPECIFICATION Spec
INVARIANTS TypeOK LeftoversAreHarmless NoPatchIsLost
PROPERTIES KeepsPromise SoundCallsFinish
CHECK_DEADLOCK FALSE

CONSTANTS
  amd = amd
  graphblas = graphblas
  MaxRelease = 3
  Libs = {amd, graphblas}
  GraphBLAS = graphblas
  Umbrella = suitesparse
  Version <- MCVersion
  Torn = torn
  MaxRuns = 4
  kplotting = kplotting
  kwallet = kwallet
  KfList <- MCKfList
  KfLicensed = {kwallet}
  KfLatest = 3
  KfMaxRuns = 4
  SlangBlocks = 3
  SlangLatest = 3
  SlangMaxRuns = 3
SPECIFICATION ScriptsSpec
INVARIANTS TypesOK DoneIsConsistent PairsAreUnique OkMeansConsistent RefreshMatchesManifest
CHECK_DEADLOCK FALSE

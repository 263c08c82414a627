\* every command of the analyzer
CONSTANTS
  SrFiles = {"f1", "f2", "f3"}
  SrSymbols <- Symbols
  SrBases <- BaseNames
  SrForces <- Forced
  FcLogs <- LogFiles
  FcSize <- LineSize
  FcUnits = {7, 8, 11, 14, 19}
  LkArgs = {"a", "b", "0"}
  LkFuncs = {"spin_lock", "spin_trylock", "spin_unlock", "mutex_unlock", "other"}
  LkLen = 4
  ExFuncs = {"f", "g"}
  ExCallees = {"f", "g", "h", "k"}
  ExConsts = {"0", "5"}
  ExDbs <- Databases
  ExDepth = 3
  RsPoints = {0, 1, 2, 3, 4}
  RsInputs <- Inputs
  RsRounds = 2
  RsAdds = 2
SPECIFICATION AnSpec
INVARIANTS
  AnTypeOK
  SrOneDefinition SrOneKeeps
  FcReadOnce
  LkMirrored LkNestedExact LkAnswered
  ExSortedRight ExDeepOnlyOnChains
  RsExact RsCompared
PROPERTIES ExAnswers

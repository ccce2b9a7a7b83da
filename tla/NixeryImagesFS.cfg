SPECIFICATION Spec
CONSTANTS
  lBase = lBase  lBaseArm = lBaseArm  lAb = lAb  lBash = lBash
  Absent = Absent  Torn = Torn
  Requests = {r1, r2}
  Names <- GitAndShell
  PackageOrder <- SortedPackages
  Spelling <- Tokens
  Layers = {lBase, lBaseArm, lAb, lBash}
  Contents <- FewLayers
  Rating <- Ratings
  Cacheable = TRUE
  Backend = "fs"
  MaxTasks = 2
  MaxCrashes = 0
INVARIANTS SentManifestsReadable
CHECK_DEADLOCK FALSE
